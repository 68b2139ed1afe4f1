----------------------- MODULE BackendConnectorProofs -----------------------
(***************************************************************************)
(* Proofs about BackendConnector, for any number of callers, conversations *)
(* and keys, and for calls, messages and requests without a bound.         *)
(***************************************************************************)
EXTENDS BackendConnectorProps, SequenceTheorems, TLAPS

-----------------------------------------------------------------------------
(* Types *)

Ops == Reads \cup Writes
Contents == Messages \cup Handlers \cup Nat
Answers == [status : Nat, form : {"good", "garbled", "misfit"}, body : Seq(Contents)]

Places == Convs \cup {"none"}
People == Actors \cup Staff \cup {"none"}
PCs == {"idle", "waiting", "backoff", "done"}
Outcomes == {"none", "ok", "not_found", "unavailable", "crash"}

Requests == [n : Nat, from : Tasks, op : Ops, conv : Places, actor : People,
             key : Keys \cup {NoKey}, limit : Nat, call : Nat]

Calls == [pc : PCs, op : Ops \cup {"none"}, conv : Places, actor : People,
          key : Keys \cup {NoKey}, limit : Nat, id : Nat, req : Nat, attempt : Nat,
          since : Nat, reply : Answers, outcome : Outcomes, result : Seq(Contents)]

-----------------------------------------------------------------------------
(* The inductive invariant.  Its parts are about a call c, a request r, and *)
(* the messages ms and handoffs hs of the backend.                          *)

\* The message of c is in its conversation under the id of result.
Posted(c, result, ms) ==
    /\ c.conv \in Known /\ Len(result) = 1
    /\ \E i \in DOMAIN ms[c.conv] :
          ms[c.conv][i] = [author |-> "assistant", key |-> c.key, id |-> result[1]]

HandedOff(c, hs) == \E i \in DOMAIN hs : hs[i] = c.id

\* The result is what the conversation of c ended with at some time since c began.
OneMoment(c, result, ms) ==
    /\ c.conv \in Known
    /\ \E n \in c.since .. Len(ms[c.conv]) :
          /\ Len(result) = IF n < c.limit THEN n ELSE c.limit
          /\ \A i \in DOMAIN result : result[i] = ms[c.conv][n - Len(result) + i]

Missing(c) == c.conv # "none" => \/ c.conv \notin Known
                                 \/ c.op \in Reads /\ ~Visible(c.conv, c.actor)

\* What "ok" may be said of.
Done(c, result, ms, hs) ==
    /\ c.op = "post_assistant_message" => Posted(c, result, ms)
    /\ c.op = "handoff" => HandedOff(c, hs)
    /\ c.op = "get_messages" => OneMoment(c, result, ms)

\* What an answer that has arrived says is true, and c will say no more.
AnswerTrue(c, answer, ms, hs) ==
    /\ answer.status \in {200, 403, 404, 409, 502, 503}
    /\ answer.status = 200 /\ (answer.form = "good" \/ c.op = "handoff") =>
          Done(c, answer.body, ms, hs)
    /\ answer.status \in {403, 404} => Missing(c)

\* The arguments are those of its method; a write has one attempt.
Shaped(c, n) ==
    /\ c \in Calls /\ c.req <= n /\ c.id <= c.req
    /\ c.pc # "idle" => c.op \in Ops /\ c.id >= 1 /\ c.attempt >= 1
    /\ c.attempt <= Attempts(c.op)
    /\ c.pc = "backoff" => AttemptsLeft(c)
    /\ c.op \in Writes => c.id = c.req
    /\ c.op = "post_assistant_message" => c.key \in Keys /\ c.conv = ConvOf[c.key]
    /\ c.op \in {"list_kb_items", "get_recent_orders"} => c.conv = "none"
    /\ c.op = "get_recent_orders" => c.actor \in Actors \cup Staff
    /\ c.reply # NoReply => c.pc = "waiting"

CallOK(c, ms, hs, n) ==
    /\ Shaped(c, n)
    /\ c.conv \in Known => c.since <= Len(ms[c.conv])
    /\ c.reply # NoReply => AnswerTrue(c, c.reply, ms, hs)
    /\ c.pc = "done" /\ c.outcome = "ok" => Done(c, c.result, ms, hs)
    /\ c.pc = "done" /\ c.outcome = "not_found" => Missing(c)

\* A handoff on the wire is not on record yet.
RequestOK(r, hs, n) ==
    /\ r \in Requests /\ r.n \in 1 .. n /\ r.call \in 1 .. r.n
    /\ r.op \in Writes => r.call = r.n
    /\ r.op = "post_assistant_message" => r.key \in Keys /\ r.conv = ConvOf[r.key]
    /\ r.op = "get_recent_orders" => r.actor \in Actors \cup Staff
    /\ r.op = "handoff" => \A i \in DOMAIN hs : hs[i] # r.call

\* The request of the attempt under way asks for what was called.
Matches(r, c) ==
    c.pc = "waiting" /\ c.req = r.n =>
        /\ r.op = c.op /\ r.conv = c.conv /\ r.actor = c.actor
        /\ r.key = c.key /\ r.limit = c.limit /\ r.call = c.id

\* A key is remembered exactly when its one message is there, under its id.
KeysOK(ms, ids) ==
    /\ \A c \in Known : \A i \in DOMAIN ms[c] : ms[c][i].key # NoKey =>
          ms[c][i].key \in Keys /\ c = ConvOf[ms[c][i].key] /\ ids[ms[c][i].key] # 0
    /\ \A k \in Keys : ids[k] # 0 =>
          /\ ConvOf[k] \in Known
          /\ \E i \in DOMAIN ms[ConvOf[k]] :
                ms[ConvOf[k]][i] = [author |-> "assistant", key |-> k, id |-> ids[k]]
    /\ \A c \in Known : \A i, j \in DOMAIN ms[c] :
          ms[c][i].key = ms[c][j].key /\ ms[c][i].key # NoKey => i = j

BackendOK ==
    /\ handledBy \in [Known -> Handlers] /\ messages \in [Known -> Seq(Messages)]
    /\ idem \in [Keys -> Nat] /\ nextId \in Nat \ {0} /\ handoffs \in Seq(Nat)
    /\ KeysOK(messages, idem)

\* No handoff is recorded twice, nor one that was never asked for.
HandoffsOK(hs, n) ==
    /\ \A i \in DOMAIN hs : hs[i] \in 1 .. n
    /\ \A i, j \in DOMAIN hs : hs[i] = hs[j] => i = j

WireOK == /\ \A r \in wire : RequestOK(r, handoffs, sent)
          /\ \A r, s \in wire : r.n = s.n => r = s

CallsOK == /\ call \in [Tasks -> Calls]
           /\ \A t \in Tasks : CallOK(call[t], messages, handoffs, sent)
           /\ \A r \in wire : Matches(r, call[r.from])

IndInv == /\ sent \in Nat /\ BackendOK /\ HandoffsOK(handoffs, sent)
          /\ WireOK /\ CallsOK

-----------------------------------------------------------------------------
(* Types *)

\* The empty reply is an answer.
LEMMA NoReplyTyped == NoReply \in Answers
BY DEF NoReply, Answer, Answers

\* A caller that never called is in a state of a call.
LEMMA NoCallTyped == NoCall \in Calls
<1>1. NoReply \in Answers
  BY NoReplyTyped
<1>2. << >> \in Seq(Contents)
  OBVIOUS
<1>. QED
  BY <1>1, <1>2 DEF NoCall, Calls, PCs, Places, People, Outcomes

-----------------------------------------------------------------------------
(* What was true of the backend stays true: messages and handoffs are only  *)
(* added.                                                                   *)

Grown(ms, ms2) ==
    \A c \in Known : /\ Len(ms[c]) <= Len(ms2[c])
                     /\ \A i \in DOMAIN ms[c] : i \in DOMAIN ms2[c] /\ ms2[c][i] = ms[c][i]

Noted(hs, hs2) == \A i \in DOMAIN hs : i \in DOMAIN hs2 /\ hs2[i] = hs[i]

Stores == [Known -> Seq(Messages)]

\* A message that was posted stays posted.
LEMMA PostedStays ==
    ASSUME NEW c, NEW result, NEW ms, NEW ms2, Grown(ms, ms2), Posted(c, result, ms)
    PROVE  Posted(c, result, ms2)
<1>1. c.conv \in Known /\ Len(result) = 1
  BY DEF Posted
<1>2. PICK i \in DOMAIN ms[c.conv] :
        ms[c.conv][i] = [author |-> "assistant", key |-> c.key, id |-> result[1]]
  BY DEF Posted
<1>3. i \in DOMAIN ms2[c.conv] /\ ms2[c.conv][i] = ms[c.conv][i]
  BY <1>1, <1>2 DEF Grown
<1>. QED
  BY <1>1, <1>2, <1>3 DEF Posted

\* What a conversation ended with at one time, it ended with then.
LEMMA OneMomentStays ==
    ASSUME NEW c \in Calls, NEW result \in Seq(Contents),
           NEW ms \in Stores, NEW ms2 \in Stores,
           Grown(ms, ms2), OneMoment(c, result, ms)
    PROVE  OneMoment(c, result, ms2)
<1>. DEFINE s == ms[c.conv]
            s2 == ms2[c.conv]
<1>1. c.conv \in Known
  BY DEF OneMoment
<1>2. s \in Seq(Messages) /\ s2 \in Seq(Messages)
  BY <1>1 DEF Stores
<1>3. Len(s) \in Nat /\ Len(s2) \in Nat /\ DOMAIN s = 1 .. Len(s)
  BY <1>2
<1>4. Len(result) \in Nat /\ DOMAIN result = 1 .. Len(result)
  OBVIOUS
<1>5. Len(s) <= Len(s2) /\ \A i \in DOMAIN s : s2[i] = s[i]
  BY <1>1 DEF Grown
<1>6. c.since \in Nat /\ c.limit \in Nat
  BY DEF Calls
<1>7. PICK n \in c.since .. Len(s) :
        /\ Len(result) = IF n < c.limit THEN n ELSE c.limit
        /\ \A i \in DOMAIN result : result[i] = s[n - Len(result) + i]
  BY DEF OneMoment
<1>. HIDE DEF s, s2
<1>8. n \in c.since .. Len(s2)
  BY <1>3, <1>5, <1>6, <1>7
<1>9. ASSUME NEW i \in DOMAIN result PROVE result[i] = s2[n - Len(result) + i]
  <2>1. n - Len(result) + i \in 1 .. Len(s)
    BY <1>3, <1>4, <1>6, <1>7
  <2>2. result[i] = s[n - Len(result) + i]
    BY <1>7
  <2>. QED
    BY <1>3, <1>5, <2>1, <2>2
<1>10. \E m \in c.since .. Len(s2) :
          /\ Len(result) = IF m < c.limit THEN m ELSE c.limit
          /\ \A i \in DOMAIN result : result[i] = s2[m - Len(result) + i]
  BY <1>7, <1>8, <1>9
<1>. QED
  BY <1>1, <1>10 DEF OneMoment, s2

\* What was done stays done.
LEMMA DoneStays ==
    ASSUME NEW c \in Calls, NEW result \in Seq(Contents),
           NEW ms \in Stores, NEW ms2 \in Stores, NEW hs, NEW hs2,
           Grown(ms, ms2), Noted(hs, hs2), Done(c, result, ms, hs)
    PROVE  Done(c, result, ms2, hs2)
<1>1. c.op = "post_assistant_message" => Posted(c, result, ms2)
  BY PostedStays DEF Done
<1>2. c.op = "handoff" => HandedOff(c, hs2)
  BY Zenon DEF Done, HandedOff, Noted
<1>3. c.op = "get_messages" => OneMoment(c, result, ms2)
  BY OneMomentStays DEF Done
<1>. QED
  BY <1>1, <1>2, <1>3 DEF Done

\* An answer that was true stays true.
LEMMA AnswerTrueStays ==
    ASSUME NEW c \in Calls, NEW answer \in Answers,
           NEW ms \in Stores, NEW ms2 \in Stores, NEW hs, NEW hs2,
           Grown(ms, ms2), Noted(hs, hs2), AnswerTrue(c, answer, ms, hs)
    PROVE  AnswerTrue(c, answer, ms2, hs2)
<1>1. answer.body \in Seq(Contents)
  BY DEF Answers
<1>2. Done(c, answer.body, ms, hs) => Done(c, answer.body, ms2, hs2)
  BY <1>1, DoneStays
<1>. QED
  BY <1>2 DEF AnswerTrue

\* A call is as well as it was when the backend holds more.
LEMMA CallStays ==
    ASSUME NEW c, NEW ms \in Stores, NEW ms2 \in Stores, NEW hs, NEW hs2, NEW n,
           Grown(ms, ms2), Noted(hs, hs2), CallOK(c, ms, hs, n)
    PROVE  CallOK(c, ms2, hs2, n)
<1>1. c \in Calls /\ Shaped(c, n)
  BY DEF CallOK, Shaped
<1>2. c.reply \in Answers /\ c.result \in Seq(Contents) /\ c.since \in Nat
  BY <1>1 DEF Calls
<1>3. c.conv \in Known => c.since <= Len(ms2[c.conv])
  <2>. SUFFICES ASSUME c.conv \in Known PROVE c.since <= Len(ms2[c.conv])
    OBVIOUS
  <2>1. Len(ms[c.conv]) \in Nat /\ Len(ms2[c.conv]) \in Nat
    BY DEF Stores
  <2>2. Len(ms[c.conv]) <= Len(ms2[c.conv])
    BY DEF Grown
  <2>3. c.since <= Len(ms[c.conv])
    BY DEF CallOK
  <2>. QED
    BY <1>2, <2>1, <2>2, <2>3
<1>4. c.reply # NoReply => AnswerTrue(c, c.reply, ms2, hs2)
  BY <1>1, <1>2, AnswerTrueStays DEF CallOK
<1>5. c.pc = "done" /\ c.outcome = "ok" => Done(c, c.result, ms2, hs2)
  BY <1>1, <1>2, DoneStays DEF CallOK
<1>6. c.pc = "done" /\ c.outcome = "not_found" => Missing(c)
  BY DEF CallOK
<1>. QED
  BY <1>1, <1>3, <1>4, <1>5, <1>6 DEF CallOK

-----------------------------------------------------------------------------
(* The caller's side                                                       *)

\* A caller that never called, or was cancelled, is in order.
LEMMA NoCallOK ==
    ASSUME NEW ms \in Stores, NEW hs, NEW n \in Nat
    PROVE  CallOK(NoCall, ms, hs, n)
<1>1. NoCall \in Calls
  BY NoCallTyped
<1>2. /\ NoCall.pc = "idle" /\ NoCall.op = "none" /\ NoCall.conv = "none"
      /\ NoCall.id = 0 /\ NoCall.req = 0 /\ NoCall.attempt = 0 /\ NoCall.since = 0
      /\ NoCall.reply = NoReply
  BY DEF NoCall
<1>3. Attempts("none") = 1
  BY DEF Attempts, Reads
<1>4. Shaped(NoCall, n)
  BY <1>1, <1>2, <1>3 DEF Shaped, Writes
<1>5. NoCall.conv \in Known => NoCall.since <= Len(ms[NoCall.conv])
  <2>. SUFFICES ASSUME NoCall.conv \in Known PROVE 0 <= Len(ms[NoCall.conv])
    BY <1>2
  <2>. QED
    BY DEF Stores
<1>. QED
  BY <1>2, <1>4, <1>5 DEF CallOK

\* A caller that stops waiting for its request leaves the rest as it is.
LEMMA Settles ==
    ASSUME IndInv, NEW t \in Tasks, NEW c, c.pc # "waiting",
           CallOK(c, messages, handoffs, sent),
           call' = [call EXCEPT ![t] = c], UNCHANGED <<backend, wire, sent>>
    PROVE  IndInv'
<1>1. /\ sent \in Nat /\ BackendOK /\ HandoffsOK(handoffs, sent)
      /\ WireOK /\ CallsOK
  BY DEF IndInv
<1>2. /\ handledBy' = handledBy /\ messages' = messages /\ idem' = idem
      /\ nextId' = nextId /\ handoffs' = handoffs /\ wire' = wire /\ sent' = sent
  BY DEF backend
<1>3. BackendOK' /\ HandoffsOK(handoffs, sent)' /\ WireOK' /\ sent' \in Nat
  BY <1>1, <1>2 DEF BackendOK, WireOK
<1>4. c \in Calls
  BY DEF CallOK, Shaped
<1>5. call \in [Tasks -> Calls] /\ call' \in [Tasks -> Calls]
  BY <1>1, <1>4 DEF CallsOK
<1>6. call'[t] = c /\ \A u \in Tasks : u # t => call'[u] = call[u]
  BY <1>5
<1>7. \A u \in Tasks : CallOK(call'[u], messages', handoffs', sent')
  BY <1>1, <1>2, <1>6 DEF CallsOK
<1>8. ASSUME NEW r \in wire PROVE Matches(r, call'[r.from])
  <2>1. r.from \in Tasks /\ Matches(r, call[r.from])
    BY <1>1 DEF WireOK, RequestOK, Requests, CallsOK
  <2>2. CASE r.from = t
    BY <1>6, <2>2 DEF Matches
  <2>3. CASE r.from # t
    BY <1>6, <2>1, <2>3
  <2>. QED
    BY <2>2, <2>3
<1>9. CallsOK'
  BY <1>2, <1>5, <1>7, <1>8 DEF CallsOK
<1>. QED
  BY <1>3, <1>9 DEF IndInv

-----------------------------------------------------------------------------
(* The initial state                                                       *)

\* The invariant holds at the start.
LEMMA InitOK == Init => IndInv
<1>. SUFFICES ASSUME Init PROVE IndInv
  OBVIOUS
<1>1. sent = 0 /\ sent \in Nat /\ wire = {} /\ handoffs = << >>
  BY DEF Init
<1>2. messages \in [Known -> Seq(Messages)]
  BY DEF Init
<1>3. BackendOK
  <2>1. /\ handledBy \in [Known -> Handlers] /\ idem \in [Keys -> Nat]
        /\ nextId \in Nat \ {0} /\ handoffs \in Seq(Nat)
    BY DEF Init
  <2>2. \A c \in Known : messages[c] = << >> /\ DOMAIN messages[c] = {}
    BY DEF Init
  <2>3. \A k \in Keys : idem[k] = 0
    BY DEF Init
  <2>4. KeysOK(messages, idem)
    BY <2>2, <2>3 DEF KeysOK
  <2>. QED
    BY <1>2, <2>1, <2>4 DEF BackendOK
<1>4. HandoffsOK(handoffs, sent)
  BY <1>1 DEF HandoffsOK
<1>5. WireOK
  BY <1>1 DEF WireOK
<1>6. CallsOK
  <2>1. call = [t \in Tasks |-> NoCall]
    BY DEF Init
  <2>2. call \in [Tasks -> Calls]
    BY <2>1, NoCallTyped
  <2>3. CallOK(NoCall, messages, handoffs, sent)
    BY <1>1, NoCallOK, <1>2 DEF Stores
  <2>. QED
    BY <1>1, <2>1, <2>2, <2>3 DEF CallsOK
<1>. QED
  BY <1>1, <1>3, <1>4, <1>5, <1>6 DEF IndInv

\* c and d are the same call, at two of its moments.
Same(c, d) == /\ d.op = c.op /\ d.conv = c.conv /\ d.actor = c.actor /\ d.key = c.key
              /\ d.limit = c.limit /\ d.id = c.id /\ d.since = c.since

\* What may be said of a call may be said of it at every moment.
LEMMA SameCall ==
    ASSUME NEW c, NEW d, NEW ms, NEW hs, Same(c, d)
    PROVE  /\ Missing(c) => Missing(d)
           /\ \A result : Done(c, result, ms, hs) => Done(d, result, ms, hs)
           /\ \A answer : AnswerTrue(c, answer, ms, hs) => AnswerTrue(d, answer, ms, hs)
<1>1. Missing(c) => Missing(d)
  BY DEF Missing, Same
<1>2. ASSUME NEW result, Done(c, result, ms, hs) PROVE Done(d, result, ms, hs)
  <2>1. Posted(c, result, ms) => Posted(d, result, ms)
    BY Zenon DEF Posted, Same
  <2>2. HandedOff(c, hs) => HandedOff(d, hs)
    BY Zenon DEF HandedOff, Same
  <2>3. OneMoment(c, result, ms) => OneMoment(d, result, ms)
    BY Zenon DEF OneMoment, Same
  <2>. QED
    BY <1>2, <2>1, <2>2, <2>3 DEF Done, Same
<1>3. ASSUME NEW answer, AnswerTrue(c, answer, ms, hs) PROVE AnswerTrue(d, answer, ms, hs)
  <2>1. Done(c, answer.body, ms, hs) => Done(d, answer.body, ms, hs)
    BY <1>2
  <2>. QED
    BY <1>1, <1>3, <2>1 DEF AnswerTrue, Same
<1>. QED
  BY <1>1, <1>2, <1>3

\* The sleep between two attempts keeps the invariant.
LEMMA BackOffOK ==
    ASSUME IndInv, NEW t \in Tasks, call[t].pc = "waiting", AttemptsLeft(call[t]),
           BackOff(t), UNCHANGED backend
    PROVE  IndInv'
<1>. DEFINE c == call[t]
            d == [c EXCEPT !.pc = "backoff", !.reply = NoReply]
<1>1. CallOK(c, messages, handoffs, sent)
  BY DEF IndInv, CallsOK
<1>2. c \in Calls /\ Shaped(c, sent)
  BY <1>1 DEF CallOK, Shaped
<1>3. NoReply \in Answers
  BY NoReplyTyped
<1>4. d \in Calls
  BY <1>2, <1>3 DEF Calls, PCs
<1>5. /\ d.pc = "backoff" /\ d.reply = NoReply /\ d.req = c.req /\ d.attempt = c.attempt
      /\ d.outcome = c.outcome /\ d.result = c.result /\ Same(c, d)
  BY <1>2 DEF Calls, Same
<1>6. call' = [call EXCEPT ![t] = d] /\ UNCHANGED <<backend, wire, sent>>
  BY DEF BackOff
<1>7. AttemptsLeft(c) /\ c.pc = "waiting"
  OBVIOUS
<1>. HIDE DEF c, d
<1>8. AttemptsLeft(d)
  BY <1>5, <1>7 DEF AttemptsLeft, Same
<1>9. Shaped(d, sent)
  BY <1>2, <1>4, <1>5, <1>7, <1>8 DEF Shaped, Same
<1>10. CallOK(d, messages, handoffs, sent)
  BY <1>1, <1>5, <1>9 DEF CallOK, Same
<1>. QED
  BY <1>5, <1>6, <1>10, Settles

\* A call that ends with an outcome that is true keeps the invariant.
LEMMA FinishOK ==
    ASSUME IndInv, NEW t \in Tasks, call[t].pc = "waiting",
           NEW outcome \in Outcomes, NEW result \in Seq(Contents),
           outcome = "ok" => Done(call[t], result, messages, handoffs),
           outcome = "not_found" => Missing(call[t]),
           Finish(t, outcome, result), UNCHANGED backend
    PROVE  IndInv'
<1>. DEFINE c == call[t]
            d == [c EXCEPT !.pc = "done", !.outcome = outcome,
                           !.result = result, !.reply = NoReply]
<1>1. CallOK(c, messages, handoffs, sent)
  BY DEF IndInv, CallsOK
<1>2. c \in Calls /\ Shaped(c, sent)
  BY <1>1 DEF CallOK, Shaped
<1>3. NoReply \in Answers
  BY NoReplyTyped
<1>4. d \in Calls
  BY <1>2, <1>3 DEF Calls, PCs
<1>5. /\ d.pc = "done" /\ d.reply = NoReply /\ d.req = c.req /\ d.attempt = c.attempt
      /\ d.outcome = outcome /\ d.result = result /\ Same(c, d)
  BY <1>2 DEF Calls, Same
<1>6. call' = [call EXCEPT ![t] = d] /\ UNCHANGED <<backend, wire, sent>>
  BY DEF Finish
<1>7. /\ outcome = "ok" => Done(c, result, messages, handoffs)
      /\ outcome = "not_found" => Missing(c)
      /\ c.pc = "waiting"
  OBVIOUS
<1>. HIDE DEF c, d
<1>8. Shaped(d, sent)
  BY <1>2, <1>4, <1>5, <1>7 DEF Shaped, Same
<1>9. /\ outcome = "ok" => Done(d, result, messages, handoffs)
      /\ outcome = "not_found" => Missing(d)
  BY <1>5, <1>7, SameCall
<1>10. CallOK(d, messages, handoffs, sent)
  BY <1>1, <1>5, <1>8, <1>9 DEF CallOK, Same
<1>. QED
  BY <1>5, <1>6, <1>10, Settles

\* A transport error ends the attempt or the call.
LEMMA TransportErrorOK ==
    ASSUME IndInv, NEW t \in Tasks, TransportError(t)
    PROVE  IndInv'
<1>1. call[t].pc = "waiting" /\ UNCHANGED backend
  BY DEF TransportError
<1>2. CASE AttemptsLeft(call[t])
  BY <1>1, <1>2, BackOffOK DEF TransportError
<1>3. CASE ~AttemptsLeft(call[t])
  <2>1. Finish(t, "unavailable", << >>)
    BY <1>3 DEF TransportError
  <2>2. "unavailable" \in Outcomes /\ << >> \in Seq(Contents)
    BY DEF Outcomes
  <2>. QED
    BY <1>1, <2>1, <2>2, FinishOK
<1>. QED
  BY <1>2, <1>3

\* What _request makes of an answer is what the answer says.
LEMMA ReceiveOK ==
    ASSUME IndInv, NEW t \in Tasks, Receive(t)
    PROVE  IndInv'
<1>. DEFINE c == call[t]
            verdict == Verdict(c)
            result == IF verdict = "ok" THEN c.reply.body ELSE << >>
<1>1. /\ c.pc = "waiting" /\ c.reply # NoReply /\ UNCHANGED backend
      /\ IF verdict = "retry" THEN BackOff(t) ELSE Finish(t, verdict, result)
  BY DEF Receive
<1>2. CallOK(c, messages, handoffs, sent)
  BY DEF IndInv, CallsOK
<1>3. AnswerTrue(c, c.reply, messages, handoffs)
  BY <1>1, <1>2 DEF CallOK
<1>4. c.reply \in Answers
  BY <1>2 DEF CallOK, Shaped, Calls
<1>5. c.reply.status \in {200, 403, 404, 409, 502, 503} /\ c.reply.body \in Seq(Contents)
  BY <1>3, <1>4 DEF AnswerTrue, Answers
<1>6. CASE verdict = "retry"
  <2>1. AttemptsLeft(c)
    BY <1>6 DEF Verdict, BodyVerdict
  <2>. QED
    BY <1>1, <1>6, <2>1, BackOffOK
<1>7. CASE verdict # "retry"
  <2>1. verdict \in Outcomes
    BY <1>7 DEF Verdict, BodyVerdict, Outcomes
  <2>2. result \in Seq(Contents)
    BY <1>5
  <2>3. verdict = "ok" => Done(c, result, messages, handoffs)
    <3>. SUFFICES ASSUME verdict = "ok" PROVE Done(c, c.reply.body, messages, handoffs)
      OBVIOUS
    <3>1. BodyVerdict(c) = "ok" /\ c.reply.status = 200
      BY <1>5 DEF Verdict
    <3>2. c.reply.form = "good" \/ c.op = "handoff"
      BY <3>1 DEF BodyVerdict
    <3>. QED
      BY <1>3, <3>1, <3>2 DEF AnswerTrue
  <2>4. verdict = "not_found" => Missing(c)
    <3>. SUFFICES ASSUME verdict = "not_found" PROVE Missing(c)
      OBVIOUS
    <3>1. c.reply.status \in {403, 404}
      BY DEF Verdict, BodyVerdict
    <3>. QED
      BY <1>3, <3>1 DEF AnswerTrue
  <2>5. Finish(t, verdict, result)
    BY <1>1, <1>7
  <2>. HIDE DEF verdict, result
  <2>. QED
    BY <1>1, <2>1, <2>2, <2>3, <2>4, <2>5, FinishOK
<1>. QED
  BY <1>6, <1>7

\* A cancelled caller forgets its call.
LEMMA CancelOK ==
    ASSUME IndInv, NEW t \in Tasks, Cancel(t)
    PROVE  IndInv'
<1>1. messages \in Stores /\ sent \in Nat
  BY DEF IndInv, BackendOK, Stores
<1>2. CallOK(NoCall, messages, handoffs, sent)
  BY <1>1, NoCallOK
<1>3. NoCall.pc # "waiting"
  BY DEF NoCall
<1>. QED
  BY <1>2, <1>3, Settles DEF Cancel

\* A call between two attempts, whose next request may go out.
Ready(c, ms, n) ==
    /\ c \in Calls /\ c.id <= n
    /\ c.op \in Ops
    /\ c.attempt < Attempts(c.op)
    /\ c.op \in Writes => c.id = 0
    /\ c.op = "post_assistant_message" => c.key \in Keys /\ c.conv = ConvOf[c.key]
    /\ c.op \in {"list_kb_items", "get_recent_orders"} => c.conv = "none"
    /\ c.op = "get_recent_orders" => c.actor \in Actors \cup Staff
    /\ c.conv \in Known => c.since <= Len(ms[c.conv])

\* What is in order stays in order while more requests are sent.
LEMMA MoreSent ==
    ASSUME NEW c, NEW ms, NEW hs, NEW r, NEW n \in Nat, NEW m \in Nat, n <= m
    PROVE  /\ CallOK(c, ms, hs, n) => CallOK(c, ms, hs, m)
           /\ RequestOK(r, hs, n) => RequestOK(r, hs, m)
           /\ HandoffsOK(hs, n) => HandoffsOK(hs, m)
<1>1. ASSUME CallOK(c, ms, hs, n) PROVE CallOK(c, ms, hs, m)
  <2>1. Shaped(c, n)
    BY <1>1 DEF CallOK
  <2>2. c \in Calls /\ c.req <= n
    BY <2>1 DEF Shaped
  <2>3. c.req \in Nat
    BY <2>2 DEF Calls
  <2>4. c.req <= m
    BY <2>2, <2>3
  <2>5. Shaped(c, m)
    BY <2>1, <2>4 DEF Shaped
  <2>. QED
    BY <1>1, <2>5 DEF CallOK
<1>2. 1 .. n \subseteq 1 .. m
  OBVIOUS
<1>3. RequestOK(r, hs, n) => RequestOK(r, hs, m)
  BY <1>2, Zenon DEF RequestOK
<1>4. HandoffsOK(hs, n) => HandoffsOK(hs, m)
  BY <1>2, Zenon DEF HandoffsOK
<1>. QED
  BY <1>1, <1>3, <1>4

\* A request that goes out is a new one, and the only one its call waits for.
LEMMA SendOK ==
    ASSUME IndInv, NEW t \in Tasks, NEW c, Ready(c, messages, sent), Send(t, c),
           UNCHANGED backend
    PROVE  IndInv'
<1>. DEFINE id == IF c.id = 0 THEN sent + 1 ELSE c.id
            r0 == [n |-> sent + 1, from |-> t, op |-> c.op, conv |-> c.conv,
                   actor |-> c.actor, key |-> c.key, limit |-> c.limit, call |-> id]
            d == [c EXCEPT !.pc = "waiting", !.req = sent + 1, !.id = id,
                           !.attempt = c.attempt + 1, !.reply = NoReply]
<1>1. /\ sent \in Nat /\ BackendOK /\ HandoffsOK(handoffs, sent)
      /\ WireOK /\ CallsOK
  BY DEF IndInv
<1>2. /\ handledBy' = handledBy /\ messages' = messages /\ idem' = idem
      /\ nextId' = nextId /\ handoffs' = handoffs
  BY DEF backend
<1>3. sent' = sent + 1 /\ wire' = wire \cup {r0} /\ call' = [call EXCEPT ![t] = d]
  BY DEF Send
<1>4. sent' \in Nat /\ sent <= sent'
  BY <1>1, <1>3
<1>5. BackendOK' /\ HandoffsOK(handoffs', sent')
  <2>1. BackendOK'
    BY <1>1, <1>2 DEF BackendOK
  <2>. QED
    BY <1>1, <1>2, <1>4, <2>1, MoreSent
<1>6. c \in Calls /\ c.op \in Ops /\ c.attempt < Attempts(c.op) /\ c.id <= sent
  BY DEF Ready
<1>7. c.id \in Nat /\ c.attempt \in Nat /\ c.reply \in Answers
  BY <1>6 DEF Calls
<1>8. id \in 1 .. sent + 1 /\ (c.op \in Writes => id = sent + 1)
  BY <1>1, <1>6, <1>7 DEF Ready
<1>9. d \in Calls
  <2>1. NoReply \in Answers
    BY NoReplyTyped
  <2>2. id \in Nat /\ sent + 1 \in Nat /\ c.attempt + 1 \in Nat
    BY <1>1, <1>7, <1>8
  <2>. HIDE DEF id
  <2>. QED
    BY <1>6, <2>1, <2>2 DEF Calls, PCs
<1>10. /\ d.pc = "waiting" /\ d.req = sent + 1 /\ d.id = id /\ d.attempt = c.attempt + 1
       /\ d.reply = NoReply /\ d.op = c.op /\ d.conv = c.conv /\ d.actor = c.actor
       /\ d.key = c.key /\ d.limit = c.limit /\ d.since = c.since
  <2>. HIDE DEF id
  <2>. QED
    BY <1>6 DEF Calls
<1>11. /\ r0.n = sent + 1 /\ r0.from = t /\ r0.op = c.op /\ r0.conv = c.conv
       /\ r0.actor = c.actor /\ r0.key = c.key /\ r0.limit = c.limit /\ r0.call = id
  OBVIOUS
<1>12. r0 \in Requests
  <2>1. /\ c.conv \in Places /\ c.actor \in People /\ c.key \in Keys \cup {NoKey}
        /\ c.limit \in Nat /\ id \in Nat /\ sent + 1 \in Nat
    BY <1>1, <1>6, <1>8 DEF Calls
  <2>. HIDE DEF id
  <2>. QED
    BY <1>6, <2>1 DEF Requests
<1>. HIDE DEF id, r0, d
<1>13. CallOK(d, messages', handoffs', sent')
  <2>1. d.attempt >= 1 /\ d.attempt <= Attempts(d.op)
    <3>1. Attempts(c.op) \in Nat
      BY DEF Attempts, GET_RETRIES
    <3>. QED
      BY <1>6, <1>7, <1>10, <3>1
  <2>2. d.req <= sent' /\ d.id <= d.req /\ d.id >= 1 /\ (d.op \in Writes => d.id = d.req)
    BY <1>1, <1>3, <1>8, <1>10
  <2>3. Shaped(d, sent')
    BY <1>6, <1>9, <1>10, <2>1, <2>2 DEF Shaped, Ready
  <2>4. d.conv \in Known => d.since <= Len(messages'[d.conv])
    BY <1>2, <1>10 DEF Ready
  <2>. QED
    BY <1>10, <2>3, <2>4 DEF CallOK
<1>14. RequestOK(r0, handoffs', sent')
  <2>1. r0.n \in 1 .. sent' /\ r0.call \in 1 .. r0.n /\ (r0.op \in Writes => r0.call = r0.n)
    BY <1>1, <1>3, <1>8, <1>11
  <2>2. r0.op = "handoff" => \A i \in DOMAIN handoffs : handoffs[i] # r0.call
    <3>. SUFFICES ASSUME r0.op = "handoff", NEW i \in DOMAIN handoffs
                  PROVE  handoffs[i] # r0.call
      OBVIOUS
    <3>1. r0.call = sent + 1
      BY <1>8, <1>11 DEF Writes
    <3>2. handoffs[i] \in 1 .. sent
      BY <1>1 DEF HandoffsOK
    <3>. QED
      BY <1>1, <3>1, <3>2
  <2>3. /\ r0.op = "post_assistant_message" => r0.key \in Keys /\ r0.conv = ConvOf[r0.key]
        /\ r0.op = "get_recent_orders" => r0.actor \in Actors \cup Staff
    BY <1>11 DEF Ready
  <2>. QED
    BY <1>2, <1>12, <2>1, <2>2, <2>3 DEF RequestOK
<1>15. WireOK'
  <2>1. ASSUME NEW r \in wire PROVE RequestOK(r, handoffs', sent') /\ r.n # r0.n
    <3>1. RequestOK(r, handoffs, sent)
      BY <1>1 DEF WireOK
    <3>2. r.n \in 1 .. sent
      BY <3>1 DEF RequestOK
    <3>. QED
      BY <1>1, <1>2, <1>4, <1>11, <3>1, <3>2, MoreSent
  <2>2. \A r \in wire' : RequestOK(r, handoffs', sent')
    BY <1>3, <1>14, <2>1
  <2>3. \A r, s \in wire' : r.n = s.n => r = s
    BY <1>1, <1>3, <2>1 DEF WireOK
  <2>. QED
    BY <2>2, <2>3 DEF WireOK
<1>16. call \in [Tasks -> Calls]
  BY <1>1 DEF CallsOK
<1>17. call' \in [Tasks -> Calls] /\ call'[t] = d /\ \A u \in Tasks : u # t => call'[u] = call[u]
  BY <1>3, <1>9, <1>16
<1>18. \A u \in Tasks : CallOK(call'[u], messages', handoffs', sent')
  <2>. SUFFICES ASSUME NEW u \in Tasks, u # t
                PROVE  CallOK(call[u], messages, handoffs, sent')
    BY <1>2, <1>13, <1>17
  <2>1. CallOK(call[u], messages, handoffs, sent)
    BY <1>1 DEF CallsOK
  <2>. QED
    BY <1>1, <1>4, <2>1, MoreSent
<1>19. ASSUME NEW r \in wire' PROVE Matches(r, call'[r.from])
  <2>1. CASE r = r0
    BY <1>10, <1>11, <1>17, <2>1 DEF Matches
  <2>2. CASE r # r0
    <3>1. r \in wire
      BY <1>3, <2>2
    <3>2. r.from \in Tasks /\ r.n \in 1 .. sent /\ Matches(r, call[r.from])
      BY <1>1, <3>1 DEF WireOK, RequestOK, Requests, CallsOK
    <3>3. r.n # d.req
      BY <1>1, <1>10, <3>2
    <3>4. CASE r.from = t
      BY <1>17, <3>3, <3>4 DEF Matches
    <3>5. CASE r.from # t
      BY <1>17, <3>2, <3>5
    <3>. QED
      BY <3>4, <3>5
  <2>. QED
    BY <2>1, <2>2
<1>20. CallsOK'
  BY <1>17, <1>18, <1>19 DEF CallsOK
<1>. QED
  BY <1>4, <1>5, <1>15, <1>20 DEF IndInv

\* A method that is called with arguments of its kind sends its first request.
LEMMA StartOK ==
    ASSUME IndInv, NEW t \in Tasks,
           NEW op \in Ops, NEW conv \in Places, NEW actor \in People,
           NEW key \in Keys \cup {NoKey}, NEW limit \in Nat,
           op = "post_assistant_message" => key \in Keys /\ conv = ConvOf[key],
           op \in {"list_kb_items", "get_recent_orders"} => conv = "none",
           op = "get_recent_orders" => actor \in Actors \cup Staff,
           Start(t, op, conv, actor, key, limit)
    PROVE  IndInv'
<1>. DEFINE since == IF conv \in Known THEN Len(messages[conv]) ELSE 0
            c == [NoCall EXCEPT !.op = op, !.conv = conv, !.actor = actor, !.key = key,
                                !.limit = limit, !.since = since]
<1>1. Send(t, c) /\ UNCHANGED backend
  BY DEF Start
<1>2. messages \in [Known -> Seq(Messages)] /\ sent \in Nat
  BY DEF IndInv, BackendOK
<1>3. since \in Nat
  BY <1>2
<1>4. NoCall \in Calls /\ NoCall.id = 0 /\ NoCall.attempt = 0
  BY NoCallTyped DEF NoCall
<1>5. c \in Calls
  <2>. HIDE DEF since
  <2>. QED
    BY <1>3, <1>4 DEF Calls
<1>6. /\ c.op = op /\ c.conv = conv /\ c.actor = actor /\ c.key = key /\ c.limit = limit
      /\ c.since = since /\ c.id = 0 /\ c.attempt = 0
  <2>. HIDE DEF since
  <2>. QED
    BY <1>4 DEF Calls
<1>7. conv \in Known => since <= Len(messages[conv])
  BY <1>2
<1>. HIDE DEF c, since
<1>8. c.attempt < Attempts(c.op)
  BY <1>6 DEF Attempts, GET_RETRIES
<1>9. Ready(c, messages, sent)
  BY <1>2, <1>5, <1>6, <1>7, <1>8 DEF Ready
<1>. QED
  BY <1>1, <1>9, SendOK

\* Every method of the connector starts in order.
LEMMA StartsOK ==
    ASSUME IndInv, NEW t \in Tasks,
           \/ StartGetConversation(t) \/ StartGetMessages(t) \/ StartListKbItems(t)
           \/ StartGetRecentOrders(t) \/ StartPost(t) \/ StartHandoff(t)
    PROVE  IndInv'
<1>1. /\ "none" \in Places /\ "none" \in People /\ Convs \subseteq Places
      /\ Actors \cup Staff \subseteq People /\ NoKey \in Keys \cup {NoKey}
  BY DEF Places, People
<1>2. /\ "get_conversation" \in Ops /\ "get_messages" \in Ops /\ "list_kb_items" \in Ops
      /\ "get_recent_orders" \in Ops /\ "post_assistant_message" \in Ops /\ "handoff" \in Ops
  BY DEF Ops, Reads, Writes
<1>3. CASE StartGetConversation(t)
  <2>1. PICK conv \in Convs, actor \in Actors \cup Staff :
          Start(t, "get_conversation", conv, actor, NoKey, 0)
    BY <1>3 DEF StartGetConversation
  <2>2. conv \in Places /\ actor \in People
    BY <1>1
  <2>. QED
    BY <1>1, <1>2, <2>1, <2>2, StartOK
<1>4. CASE StartGetMessages(t)
  <2>1. PICK conv \in Convs, actor \in Actors \cup Staff, limit \in Limits :
          Start(t, "get_messages", conv, actor, NoKey, limit)
    BY <1>4 DEF StartGetMessages
  <2>2. conv \in Places /\ actor \in People /\ limit \in Nat
    BY <1>1, LimitsAssumption
  <2>. QED
    BY <1>1, <1>2, <2>1, <2>2, StartOK
<1>5. CASE StartListKbItems(t)
  BY <1>1, <1>2, <1>5, StartOK DEF StartListKbItems
<1>6. CASE StartGetRecentOrders(t)
  <2>1. PICK actor \in Actors \cup Staff :
          Start(t, "get_recent_orders", "none", actor, NoKey, ORDERS_LIMIT)
    BY <1>6 DEF StartGetRecentOrders
  <2>2. actor \in People /\ ORDERS_LIMIT \in Nat
    BY <1>1 DEF ORDERS_LIMIT
  <2>. QED
    BY <1>1, <1>2, <2>1, <2>2, StartOK
<1>7. CASE StartPost(t)
  <2>1. PICK k \in Keys : Start(t, "post_assistant_message", ConvOf[k], "none", k, 0)
    BY <1>7 DEF StartPost
  <2>2. ConvOf[k] \in Places /\ k \in Keys \cup {NoKey}
    BY <1>1, KeysAssumption
  <2>. QED
    BY <1>1, <1>2, <2>1, <2>2, StartOK
<1>8. CASE StartHandoff(t)
  <2>1. PICK conv \in Convs : Start(t, "handoff", conv, "none", NoKey, 0)
    BY <1>8 DEF StartHandoff
  <2>2. conv \in Places
    BY <1>1
  <2>. QED
    BY <1>1, <1>2, <2>1, <2>2, StartOK
<1>. QED
  BY <1>3, <1>4, <1>5, <1>6, <1>7, <1>8

\* Only a call whose request reads goes round the loop.
LEMMA RetryOK ==
    ASSUME IndInv, NEW t \in Tasks, Retry(t)
    PROVE  IndInv'
<1>. DEFINE c == call[t]
<1>1. c.pc = "backoff" /\ Send(t, c) /\ UNCHANGED backend
  BY DEF Retry
<1>2. CallOK(c, messages, handoffs, sent) /\ sent \in Nat
  BY DEF IndInv, CallsOK
<1>. HIDE DEF c
<1>3. Shaped(c, sent)
  BY <1>2 DEF CallOK
<1>4. c \in Calls /\ c.op \in Ops /\ c.attempt >= 1 /\ AttemptsLeft(c)
  BY <1>1, <1>3 DEF Shaped
<1>5. c.id \in Nat /\ c.req \in Nat /\ c.attempt \in Nat
  BY <1>4 DEF Calls
<1>6. c.id <= sent
  BY <1>2, <1>3, <1>5 DEF Shaped
<1>7. c.attempt < Attempts(c.op)
  BY <1>4 DEF AttemptsLeft
<1>8. c.op \notin Writes
  BY <1>4, <1>5, <1>7 DEF Attempts, Reads, Writes
<1>9. Ready(c, messages, sent)
  BY <1>2, <1>3, <1>4, <1>6, <1>7, <1>8 DEF Ready, CallOK, Shaped
<1>. QED
  BY <1>1, <1>9, SendOK

-----------------------------------------------------------------------------
(* The backend's side                                                      *)

\* One message more in conv, and nothing else.
Added(ms, ms2, conv, m) ==
    /\ Len(ms[conv]) + 1 \in DOMAIN ms2[conv] /\ ms2[conv][Len(ms[conv]) + 1] = m
    /\ \A c \in Known : \A i \in DOMAIN ms2[c] :
          \/ i \in DOMAIN ms[c] /\ ms2[c][i] = ms[c][i]
          \/ c = conv /\ i = Len(ms[conv]) + 1 /\ ms2[c][i] = m

\* What appending a message to a conversation comes to.
LEMMA AppendAdds ==
    ASSUME NEW ms \in Stores, NEW conv \in Known, NEW m \in Messages, NEW ms2,
           ms2 = [ms EXCEPT ![conv] = Append(@, m)]
    PROVE  ms2 \in Stores /\ Grown(ms, ms2) /\ Added(ms, ms2, conv, m)
<1>. DEFINE s == ms[conv]
            s2 == Append(s, m)
<1>1. s \in Seq(Messages)
  BY DEF Stores
<1>2. /\ s2 \in Seq(Messages) /\ Len(s2) = Len(s) + 1 /\ Len(s) \in Nat
      /\ s2[Len(s) + 1] = m /\ \A i \in 1 .. Len(s) : s2[i] = s[i]
  BY <1>1
<1>3. DOMAIN s = 1 .. Len(s) /\ DOMAIN s2 = 1 .. Len(s) + 1
  BY <1>1, <1>2
<1>4. ms2[conv] = s2 /\ \A c \in Known : c # conv => ms2[c] = ms[c]
  BY DEF Stores
<1>. HIDE DEF s2
<1>5. ms2 \in Stores
  BY <1>2, <1>4 DEF Stores
<1>6. \A c \in Known : Len(ms[c]) \in Nat
  BY DEF Stores
<1>7. Grown(ms, ms2)
  <2>. SUFFICES ASSUME NEW c \in Known
                PROVE  /\ Len(ms[c]) <= Len(ms2[c])
                       /\ \A i \in DOMAIN ms[c] : i \in DOMAIN ms2[c] /\ ms2[c][i] = ms[c][i]
    BY DEF Grown
  <2>1. CASE c = conv
    BY <1>2, <1>3, <1>4, <2>1
  <2>2. CASE c # conv
    BY <1>4, <1>6, <2>2
  <2>. QED
    BY <2>1, <2>2
<1>8. Added(ms, ms2, conv, m)
  <2>1. Len(s) + 1 \in DOMAIN s2 /\ s2[Len(s) + 1] = m
    BY <1>2, <1>3
  <2>2. \A i \in DOMAIN s2 : (i \in DOMAIN s /\ s2[i] = s[i]) \/ (i = Len(s) + 1 /\ s2[i] = m)
    BY <1>2, <1>3
  <2>. QED
    BY <1>4, <2>1, <2>2 DEF Added
<1>. QED
  BY <1>5, <1>7, <1>8

\* A message of the assistant under a key that is not remembered yet keeps one
\* message per key.
LEMMA WriteKeepsKeys ==
    ASSUME NEW ms, NEW ms2, NEW ids \in [Keys -> Nat], NEW ids2, NEW k \in Keys, NEW id,
           KeysOK(ms, ids), ids[k] = 0, id \in Nat \ {0}, ConvOf[k] \in Known,
           Grown(ms, ms2),
           Added(ms, ms2, ConvOf[k], [author |-> "assistant", key |-> k, id |-> id]),
           ids2 = [ids EXCEPT ![k] = id]
    PROVE  KeysOK(ms2, ids2)
<1>. DEFINE conv == ConvOf[k]
            m == [author |-> "assistant", key |-> k, id |-> id]
            last == Len(ms[conv]) + 1
<1>1. m.key = k /\ k # NoKey
  BY KeysAssumption
<1>2. ids2[k] = id /\ id # 0 /\ \A j \in Keys : j # k => ids2[j] = ids[j]
  OBVIOUS
<1>3. Added(ms, ms2, conv, m)
  OBVIOUS
<1>4. last \in DOMAIN ms2[conv] /\ ms2[conv][last] = m
  BY <1>3 DEF Added
<1>5. \A c \in Known : \A i \in DOMAIN ms2[c] :
          \/ i \in DOMAIN ms[c] /\ ms2[c][i] = ms[c][i]
          \/ c = conv /\ i = last /\ ms2[c][i] = m
  BY <1>3 DEF Added
<1>. HIDE DEF m, last
<1>6. \A c \in Known : \A i \in DOMAIN ms[c] : ms[c][i].key # k
  BY <1>1 DEF KeysOK
<1>7. \A c \in Known : \A i \in DOMAIN ms2[c] : ms2[c][i].key # NoKey =>
        ms2[c][i].key \in Keys /\ c = ConvOf[ms2[c][i].key] /\ ids2[ms2[c][i].key] # 0
  BY <1>1, <1>2, <1>5 DEF KeysOK
<1>8. ASSUME NEW j \in Keys, ids2[j] # 0
      PROVE  /\ ConvOf[j] \in Known
             /\ \E i \in DOMAIN ms2[ConvOf[j]] : ms2[ConvOf[j]][i] =
                  [author |-> "assistant", key |-> j, id |-> ids2[j]]
  <2>1. CASE j = k
    BY <1>2, <1>4, <2>1 DEF m
  <2>2. CASE j # k
    <3>1. ids2[j] = ids[j] /\ ConvOf[j] \in Known
      BY <1>2, <1>8, <2>2 DEF KeysOK
    <3>2. PICK i \in DOMAIN ms[ConvOf[j]] :
            ms[ConvOf[j]][i] = [author |-> "assistant", key |-> j, id |-> ids[j]]
      BY <1>8, <3>1 DEF KeysOK
    <3>3. i \in DOMAIN ms2[ConvOf[j]] /\ ms2[ConvOf[j]][i] = ms[ConvOf[j]][i]
      BY <3>1, <3>2 DEF Grown
    <3>. QED
      BY <3>1, <3>2, <3>3
  <2>. QED
    BY <2>1, <2>2
<1>9. \A c \in Known : \A i, j \in DOMAIN ms2[c] :
        ms2[c][i].key = ms2[c][j].key /\ ms2[c][i].key # NoKey => i = j
  BY <1>1, <1>5, <1>6 DEF KeysOK
<1>. QED
  BY <1>7, <1>8, <1>9 DEF KeysOK

\* A message of the customer, which has no key, keeps one message per key.
LEMMA CustomerKeepsKeys ==
    ASSUME NEW ms, NEW ms2, NEW ids, NEW conv, NEW m, m.key = NoKey,
           KeysOK(ms, ids), Grown(ms, ms2), Added(ms, ms2, conv, m)
    PROVE  KeysOK(ms2, ids)
<1>1. \A c \in Known : \A i \in DOMAIN ms2[c] : ms2[c][i].key # NoKey =>
        i \in DOMAIN ms[c] /\ ms2[c][i] = ms[c][i]
  BY DEF Added
<1>2. \A c \in Known : \A i \in DOMAIN ms2[c] : ms2[c][i].key # NoKey =>
        ms2[c][i].key \in Keys /\ c = ConvOf[ms2[c][i].key] /\ ids[ms2[c][i].key] # 0
  BY <1>1 DEF KeysOK
<1>3. ASSUME NEW k \in Keys, ids[k] # 0
      PROVE  /\ ConvOf[k] \in Known
             /\ \E i \in DOMAIN ms2[ConvOf[k]] : ms2[ConvOf[k]][i] =
                  [author |-> "assistant", key |-> k, id |-> ids[k]]
  <2>1. ConvOf[k] \in Known
    BY <1>3 DEF KeysOK
  <2>2. PICK i \in DOMAIN ms[ConvOf[k]] :
          ms[ConvOf[k]][i] = [author |-> "assistant", key |-> k, id |-> ids[k]]
    BY <1>3 DEF KeysOK
  <2>3. i \in DOMAIN ms2[ConvOf[k]] /\ ms2[ConvOf[k]][i] = ms[ConvOf[k]][i]
    BY <2>1, <2>2 DEF Grown
  <2>. QED
    BY <2>1, <2>2, <2>3
<1>4. \A c \in Known : \A i, j \in DOMAIN ms2[c] :
        ms2[c][i].key = ms2[c][j].key /\ ms2[c][i].key # NoKey => i = j
  BY <1>1 DEF KeysOK
<1>. QED
  BY <1>2, <1>3, <1>4 DEF KeysOK

\* A backend that is left alone has not lost anything.
LEMMA SameBackend ==
    ASSUME BackendOK, UNCHANGED backend
    PROVE  BackendOK' /\ Grown(messages, messages') /\ Noted(handoffs, handoffs')
<1>1. /\ handledBy' = handledBy /\ messages' = messages /\ idem' = idem
      /\ nextId' = nextId /\ handoffs' = handoffs
  BY DEF backend
<1>2. BackendOK'
  BY <1>1 DEF BackendOK
<1>3. \A c \in Known : Len(messages[c]) \in Nat
  BY DEF BackendOK
<1>. QED
  BY <1>1, <1>2, <1>3 DEF Grown, Noted

\* The backend after r: in order, holding what it held, and with no handoff of
\* another request on record.
Served(r) == /\ BackendOK' /\ HandoffsOK(handoffs', sent)
             /\ Grown(messages, messages') /\ Noted(handoffs, handoffs')
             /\ \A q \in wire \ {r} : RequestOK(q, handoffs', sent)

\* A request that changes nothing.
LEMMA IdleServed ==
    ASSUME IndInv, NEW r \in wire, UNCHANGED backend
    PROVE  Served(r)
<1>1. BackendOK /\ HandoffsOK(handoffs, sent) /\ WireOK
  BY DEF IndInv
<1>2. handoffs' = handoffs
  BY DEF backend
<1>. QED
  BY <1>1, <1>2, SameBackend DEF Served, WireOK

\* A message of the assistant.
LEMMA WriteServed ==
    ASSUME IndInv, NEW r \in wire, r.op = "post_assistant_message", r.conv \in Known,
           idem[r.key] = 0, Write(r)
    PROVE  Served(r)
<1>. DEFINE m == [author |-> "assistant", key |-> r.key, id |-> nextId]
<1>1. BackendOK /\ HandoffsOK(handoffs, sent) /\ RequestOK(r, handoffs, sent)
      /\ \A q \in wire : RequestOK(q, handoffs, sent)
  BY DEF IndInv, WireOK
<1>2. r.key \in Keys /\ r.conv = ConvOf[r.key]
  BY <1>1 DEF RequestOK
<1>3. /\ messages \in Stores /\ idem \in [Keys -> Nat] /\ nextId \in Nat \ {0}
      /\ handoffs \in Seq(Nat) /\ handledBy \in [Known -> Handlers]
      /\ KeysOK(messages, idem)
  BY <1>1 DEF BackendOK, Stores
<1>4. m \in Messages
  BY <1>2, <1>3 DEF Messages
<1>5. /\ messages' = [messages EXCEPT ![r.conv] = Append(@, m)]
      /\ idem' = [idem EXCEPT ![r.key] = nextId] /\ nextId' = nextId + 1
      /\ handledBy' = handledBy /\ handoffs' = handoffs
  BY DEF Write
<1>6. messages' \in Stores /\ Grown(messages, messages')
      /\ Added(messages, messages', r.conv, m)
  <2>. HIDE DEF m
  <2>. QED
    BY <1>3, <1>4, <1>5, AppendAdds
<1>7. KeysOK(messages', idem')
  <2>1. Added(messages, messages', ConvOf[r.key],
              [author |-> "assistant", key |-> r.key, id |-> nextId])
    BY <1>2, <1>6
  <2>2. ConvOf[r.key] \in Known
    BY <1>2
  <2>. QED
    BY <1>2, <1>3, <1>5, <1>6, <2>1, <2>2, WriteKeepsKeys
<1>8. idem' \in [Keys -> Nat] /\ nextId' \in Nat \ {0}
  BY <1>2, <1>3, <1>5
<1>9. BackendOK'
  BY <1>3, <1>5, <1>6, <1>7, <1>8 DEF BackendOK, Stores
<1>10. Noted(handoffs, handoffs')
  BY <1>5 DEF Noted
<1>. QED
  BY <1>1, <1>5, <1>6, <1>9, <1>10 DEF Served

\* A handoff.
LEMMA HandOffServed ==
    ASSUME IndInv, NEW r \in wire, r.op = "handoff", r.conv \in Known, HandOff(r)
    PROVE  Served(r) /\ \E i \in DOMAIN handoffs' : handoffs'[i] = r.call
<1>1. BackendOK /\ HandoffsOK(handoffs, sent) /\ WireOK /\ sent \in Nat
  BY DEF IndInv
<1>2. RequestOK(r, handoffs, sent)
  BY <1>1 DEF WireOK
<1>3. r.n \in 1 .. sent /\ r.call = r.n /\ \A i \in DOMAIN handoffs : handoffs[i] # r.call
  BY <1>2 DEF RequestOK, Writes
<1>4. handoffs \in Seq(Nat) /\ handledBy \in [Known -> Handlers]
  BY <1>1 DEF BackendOK
<1>5. /\ handledBy' = [handledBy EXCEPT ![r.conv] = "staff"]
      /\ handoffs' = Append(handoffs, r.call)
      /\ messages' = messages /\ idem' = idem /\ nextId' = nextId
  BY DEF HandOff
<1>6. r.call \in Nat
  BY <1>1, <1>3
<1>7. /\ handoffs' \in Seq(Nat) /\ Len(handoffs') = Len(handoffs) + 1 /\ Len(handoffs) \in Nat
      /\ handoffs'[Len(handoffs) + 1] = r.call
      /\ \A i \in 1 .. Len(handoffs) : handoffs'[i] = handoffs[i]
  BY <1>4, <1>5, <1>6
<1>8. DOMAIN handoffs = 1 .. Len(handoffs) /\ DOMAIN handoffs' = 1 .. Len(handoffs) + 1
  BY <1>4, <1>7
<1>9. handledBy' \in [Known -> Handlers]
  BY <1>4, <1>5 DEF Handlers
<1>10. BackendOK'
  BY <1>1, <1>5, <1>7, <1>9 DEF BackendOK
<1>11. Noted(handoffs, handoffs')
  BY <1>7, <1>8 DEF Noted
<1>12. Grown(messages, messages')
  <2>1. \A c \in Known : Len(messages[c]) \in Nat
    BY <1>1 DEF BackendOK
  <2>. QED
    BY <1>5, <2>1 DEF Grown
<1>13. \A i \in DOMAIN handoffs' :
         \/ i \in DOMAIN handoffs /\ handoffs'[i] = handoffs[i]
         \/ i = Len(handoffs) + 1 /\ handoffs'[i] = r.call
  BY <1>7, <1>8
<1>14. HandoffsOK(handoffs', sent)
  BY <1>1, <1>3, <1>13 DEF HandoffsOK
<1>15. ASSUME NEW q \in wire, q # r PROVE RequestOK(q, handoffs', sent)
  <2>1. RequestOK(q, handoffs, sent) /\ q.n # r.n
    BY <1>1, <1>15 DEF WireOK
  <2>2. q.op = "handoff" => q.call = q.n
    BY <2>1 DEF RequestOK, Writes
  <2>3. q.op = "handoff" => \A i \in DOMAIN handoffs' : handoffs'[i] # q.call
    BY <1>3, <1>13, <2>1, <2>2 DEF RequestOK
  <2>. QED
    BY <2>1, <2>3 DEF RequestOK
<1>. QED
  BY <1>7, <1>8, <1>10, <1>11, <1>12, <1>14, <1>15 DEF Served

\* Whatever is served leaves the backend in order.
LEMMA EffectServed ==
    ASSUME IndInv, NEW r \in wire, Effect(r)
    PROVE  Served(r)
<1>1. r.op \in Ops
  BY DEF IndInv, WireOK, RequestOK, Requests
<1>2. CASE r.op \in Reads
  <2>1. UNCHANGED backend
    BY <1>2 DEF Effect, Reads
  <2>. QED
    BY <2>1, IdleServed
<1>3. CASE r.op = "post_assistant_message"
  <2>1. Post(r)
    BY <1>3 DEF Effect, Reads
  <2>2. CASE r.conv \in Known /\ idem[r.key] = 0
    BY <1>3, <2>1, <2>2, WriteServed DEF Post
  <2>3. CASE ~(r.conv \in Known /\ idem[r.key] = 0)
    BY <2>1, <2>3, IdleServed DEF Post
  <2>. QED
    BY <2>2, <2>3
<1>4. CASE r.op = "handoff"
  <2>1. HandOff(r)
    BY <1>4 DEF Effect, Reads
  <2>2. CASE r.conv \in Known
    BY <1>4, <2>1, <2>2, HandOffServed
  <2>3. CASE r.conv \notin Known
    BY <2>1, <2>3, IdleServed DEF HandOff
  <2>. QED
    BY <2>2, <2>3
<1>. QED
  BY <1>1, <1>2, <1>3, <1>4 DEF Ops, Writes

\* Where the last `limit` of n begin, and how many there are.
LEMMA WhereTheEndBegins ==
    ASSUME NEW n \in Nat, NEW limit \in Nat, limit # 0
    PROVE  LET m == IF n > limit THEN n - limit + 1 ELSE 1 IN
           /\ m \in Int /\ 1 <= m /\ m <= n + 1
           /\ n - m + 1 = IF n < limit THEN n ELSE limit
OBVIOUS

\* messages[-limit:] if limit > 0 else []: the last `limit` of them, or all.
LEMMA LastNIsTheEnd ==
    ASSUME NEW S, NEW s \in Seq(S), NEW limit \in Nat
    PROVE  /\ LastN(s, limit) \in Seq(S)
           /\ Len(LastN(s, limit)) = IF Len(s) < limit THEN Len(s) ELSE limit
           /\ \A i \in DOMAIN LastN(s, limit) :
                 LastN(s, limit)[i] = s[Len(s) - Len(LastN(s, limit)) + i]
<1>1. Len(s) \in Nat
  OBVIOUS
<1>2. CASE limit = 0
  BY <1>1, <1>2 DEF LastN
<1>3. CASE limit # 0
  <2>. DEFINE n == Len(s)
              m == IF n > limit THEN n - limit + 1 ELSE 1
  <2>1. LastN(s, limit) = SubSeq(s, m, n)
    BY <1>3 DEF LastN
  <2>2. n \in Nat
    BY <1>1
  <2>3. m \in Int /\ 1 <= m /\ m <= n + 1 /\ n - m + 1 = IF n < limit THEN n ELSE limit
    <3>. HIDE DEF n
    <3>. QED
      BY <1>3, <2>2, WhereTheEndBegins
  <2>. HIDE DEF m
  <2>4. /\ SubSeq(s, m, n) \in Seq(S)
        /\ Len(SubSeq(s, m, n)) = n - m + 1
        /\ \A i \in 1 .. n - m + 1 : SubSeq(s, m, n)[i] = s[m + i - 1]
    <3>1. \A i \in m .. n : s[i] \in S
      BY <2>2, <2>3
    <3>2. (IF m <= n THEN n - m + 1 ELSE 0) = n - m + 1
      BY <2>2, <2>3
    <3>3. n \in Int
      BY <2>2
    <3>. HIDE DEF n
    <3>. QED
      BY <2>3, <3>1, <3>2, <3>3, SubSeqProperties
  <2>5. DOMAIN SubSeq(s, m, n) = 1 .. n - m + 1
    BY <2>4
  <2>6. \A i \in DOMAIN SubSeq(s, m, n) :
           SubSeq(s, m, n)[i] = s[n - Len(SubSeq(s, m, n)) + i]
    <3>. SUFFICES ASSUME NEW i \in 1 .. n - m + 1
                  PROVE  SubSeq(s, m, n)[i] = s[n - (n - m + 1) + i]
      BY <2>4, <2>5
    <3>1. n - (n - m + 1) + i = m + i - 1
      BY <2>2, <2>3
    <3>. QED
      BY <2>4, <3>1
  <2>. QED
    BY <2>1, <2>3, <2>4, <2>6
<1>. QED
  BY <1>2, <1>3

\* Whatever the backend answers is a well-formed answer.
LEMMA AnswerTyped ==
    ASSUME NEW status \in Nat, NEW body \in Seq(Contents)
    PROVE  /\ Answer(status, body) \in Answers
           /\ Answer(status, body).status = status /\ Answer(status, body).body = body
           /\ Answer(status, body).form = "good"
BY DEF Answer, Answers

\* A short answer is an answer about the contents of the backend.
LEMMA OneContent ==
    ASSUME NEW x \in Contents
    PROVE  <<x>> \in Seq(Contents)
OBVIOUS

\* The answer to the request of the attempt under way is true of its call.
LEMMA ResponseTrue ==
    ASSUME IndInv, NEW r \in wire, Effect(r), NEW c,
           CallOK(c, messages, handoffs, sent), Matches(r, c), c.pc = "waiting", c.req = r.n
    PROVE  Response(r) \in Answers /\ AnswerTrue(c, Response(r), messages', handoffs')
<1>1. BackendOK /\ RequestOK(r, handoffs, sent) /\ Served(r)
  BY EffectServed DEF IndInv, WireOK
<1>2. r \in Requests /\ r.limit \in Nat /\ r.op \in Ops
  BY <1>1 DEF RequestOK, Requests
<1>3. c \in Calls /\ (c.conv \in Known => c.since <= Len(messages[c.conv]))
  BY DEF CallOK, Shaped
<1>4. /\ r.op = c.op /\ r.conv = c.conv /\ r.actor = c.actor
      /\ r.key = c.key /\ r.limit = c.limit /\ r.call = c.id
  BY DEF Matches
<1>5. /\ messages \in [Known -> Seq(Messages)] /\ handledBy \in [Known -> Handlers]
      /\ idem \in [Keys -> Nat] /\ nextId \in Nat
  BY <1>1 DEF BackendOK
<1>6. << >> \in Seq(Contents)
  OBVIOUS
<1>7. /\ NotFound \in Answers /\ NotFound.status = 404 /\ NotFound.form = "good"
  BY <1>6 DEF NotFound, Answer, Answers
<1>8. ASSUME Missing(c) PROVE AnswerTrue(c, NotFound, messages', handoffs')
  BY <1>7, <1>8 DEF AnswerTrue
<1>9. ASSUME NEW body \in Seq(Contents), Done(c, body, messages', handoffs')
      PROVE  /\ Answer(200, body) \in Answers
             /\ AnswerTrue(c, Answer(200, body), messages', handoffs')
  BY <1>9, AnswerTyped DEF AnswerTrue
<1>10. CASE r.op = "get_recent_orders"
  <2>1. r.actor \in Actors \cup Staff
    BY <1>1, <1>10 DEF RequestOK
  <2>2. OrdersOf[r.actor] \in Nat
    BY <2>1, KnownAssumption
  <2>. DEFINE x == IF OrdersOf[r.actor] < r.limit THEN OrdersOf[r.actor] ELSE r.limit
  <2>3. x \in Contents
    BY <1>2, <2>2 DEF Contents
  <2>4. Response(r) = Answer(200, <<x>>)
    BY <1>10 DEF Response, Read, Reads, Orders
  <2>. HIDE DEF x
  <2>5. Done(c, <<x>>, messages', handoffs')
    BY <1>4, <1>10 DEF Done
  <2>. QED
    BY <1>9, <2>3, <2>4, <2>5, OneContent
<1>11. CASE r.op = "list_kb_items"
  <2>1. Response(r) = Answer(200, << >>)
    BY <1>11 DEF Response, Read, Reads
  <2>2. Done(c, << >>, messages', handoffs')
    BY <1>4, <1>11 DEF Done
  <2>. QED
    BY <1>6, <1>9, <2>1, <2>2
<1>12. CASE r.op \in {"get_conversation", "get_messages"}
  <2>1. Response(r) = ReadConversation(r)
    BY <1>12 DEF Response, Read, Reads
  <2>2. CASE ~Visible(r.conv, r.actor)
    <3>1. Missing(c)
      BY <1>4, <1>12, <2>2 DEF Missing, Reads
    <3>. QED
      BY <1>7, <1>8, <2>1, <2>2, <3>1 DEF ReadConversation
  <2>3. CASE Visible(r.conv, r.actor) /\ r.op = "get_conversation"
    <3>1. handledBy[r.conv] \in Contents
      BY <1>5, <2>3 DEF Visible, Contents
    <3>2. Response(r) = Answer(200, <<handledBy[r.conv]>>)
      BY <2>1, <2>3 DEF ReadConversation
    <3>3. Done(c, <<handledBy[r.conv]>>, messages', handoffs')
      BY <1>4, <2>3 DEF Done
    <3>. QED
      BY <1>9, <3>1, <3>2, <3>3, OneContent
  <2>4. CASE Visible(r.conv, r.actor) /\ r.op = "get_messages"
    <3>. DEFINE s == messages[r.conv]
                result == LastN(s, r.limit)
    <3>1. Response(r) = Answer(200, result)
      BY <2>1, <2>4 DEF ReadConversation
    <3>2. r.conv \in Known
      BY <2>4 DEF Visible
    <3>3. s \in Seq(Messages) /\ Len(s) \in Nat
      BY <1>5, <3>2
    <3>4. s \in Seq(Contents)
      <4>1. Messages \subseteq Contents
        BY DEF Contents
      <4>. HIDE DEF s
      <4>. QED
        BY <3>3, <4>1
    <3>5. /\ result \in Seq(Contents)
          /\ Len(result) = IF Len(s) < r.limit THEN Len(s) ELSE r.limit
          /\ \A i \in DOMAIN result : result[i] = s[Len(s) - Len(result) + i]
      <4>. HIDE DEF s
      <4>. QED
        BY <1>2, <3>4, LastNIsTheEnd
    <3>6. messages' = messages
      BY <2>4 DEF Effect, Reads, backend
    <3>7. c.since \in Nat /\ c.since <= Len(s)
      BY <1>3, <1>4, <3>2 DEF Calls
    <3>8. Len(s) \in c.since .. Len(s)
      <4>. HIDE DEF s
      <4>. QED
        BY <3>3, <3>7
    <3>. HIDE DEF result
    <3>9. OneMoment(c, result, messages')
      BY <1>4, <3>2, <3>5, <3>6, <3>8 DEF OneMoment
    <3>10. Done(c, result, messages', handoffs')
      BY <1>4, <2>4, <3>9 DEF Done
    <3>. QED
      BY <1>9, <3>1, <3>5, <3>10
  <2>. QED
    BY <1>12, <2>2, <2>3, <2>4
<1>13. CASE r.op = "post_assistant_message"
  <2>1. Response(r) = PostAnswer(r) /\ Post(r)
    BY <1>13 DEF Response, Effect, Reads
  <2>2. r.key \in Keys /\ r.conv = ConvOf[r.key]
    BY <1>1, <1>13 DEF RequestOK
  <2>3. CASE r.conv \notin Known
    <3>1. Missing(c)
      BY <1>4, <2>3 DEF Missing
    <3>. QED
      BY <1>7, <1>8, <2>1, <2>3, <3>1 DEF PostAnswer
  <2>4. CASE r.conv \in Known
    <3>. DEFINE x == IF idem[r.key] = 0 THEN nextId ELSE idem[r.key]
    <3>1. Response(r) = Answer(200, <<x>>)
      BY <2>1, <2>4 DEF PostAnswer
    <3>2. x \in Contents
      BY <1>5, <2>2 DEF Contents
    <3>3. idem'[r.key] = x /\ x # 0
      <4>1. CASE idem[r.key] = 0
        BY <1>1, <1>5, <2>1, <2>2, <2>4, <4>1 DEF Post, Write, BackendOK
      <4>2. CASE idem[r.key] # 0
        BY <2>1, <4>2 DEF Post, backend
      <4>. QED
        BY <4>1, <4>2
    <3>4. KeysOK(messages', idem')
      BY <1>1 DEF Served, BackendOK
    <3>5. \E i \in DOMAIN messages'[r.conv] :
             messages'[r.conv][i] = [author |-> "assistant", key |-> r.key, id |-> x]
      <4>. HIDE DEF x
      <4>. QED
        BY <2>2, <3>3, <3>4 DEF KeysOK
    <3>. HIDE DEF x
    <3>6. Posted(c, <<x>>, messages')
      BY <1>4, <2>4, <3>5 DEF Posted
    <3>7. Done(c, <<x>>, messages', handoffs')
      BY <1>4, <1>13, <3>6 DEF Done
    <3>. QED
      BY <1>9, <3>1, <3>2, <3>7, OneContent
  <2>. QED
    BY <2>3, <2>4
<1>14. CASE r.op = "handoff"
  <2>1. HandOff(r)
    BY <1>14 DEF Effect, Reads
  <2>2. CASE r.conv \notin Known
    <3>1. Missing(c) /\ Response(r) = NotFound
      BY <1>4, <1>14, <2>2 DEF Missing, Response, Reads
    <3>. QED
      BY <1>7, <1>8, <3>1
  <2>3. CASE r.conv \in Known
    <3>1. Response(r) = Answer(200, << >>)
      BY <1>14, <2>3 DEF Response, Reads
    <3>2. HandedOff(c, handoffs')
      BY <1>4, <1>14, <2>1, <2>3, HandOffServed DEF HandedOff
    <3>3. Done(c, << >>, messages', handoffs')
      BY <1>4, <1>14, <3>2 DEF Done
    <3>. QED
      BY <1>6, <1>9, <3>1, <3>3
  <2>. QED
    BY <2>2, <2>3
<1>. QED
  BY <1>2, <1>10, <1>11, <1>12, <1>13, <1>14 DEF Ops, Reads, Writes

-----------------------------------------------------------------------------
(* The network                                                             *)

\* An answer that is true of the call it is for, once its request is served.
LEMMA DeliverOK ==
    ASSUME IndInv, NEW r \in wire, NEW answer, Served(r), Deliver(r, answer),
           wire' = wire \ {r}, sent' = sent,
           call[r.from].pc = "waiting" /\ call[r.from].req = r.n =>
              answer \in Answers /\ AnswerTrue(call[r.from], answer, messages', handoffs')
    PROVE  IndInv'
<1>. DEFINE t == r.from
            c == call[t]
            d == [c EXCEPT !.reply = answer]
            mine == c.pc = "waiting" /\ c.req = r.n
<1>1. /\ sent \in Nat /\ BackendOK /\ WireOK /\ CallsOK
  BY DEF IndInv
<1>2. /\ BackendOK' /\ HandoffsOK(handoffs', sent)
      /\ Grown(messages, messages') /\ Noted(handoffs, handoffs')
      /\ \A q \in wire \ {r} : RequestOK(q, handoffs', sent)
  BY DEF Served
<1>3. WireOK'
  BY <1>1, <1>2 DEF WireOK
<1>4. t \in Tasks
  BY <1>1 DEF WireOK, RequestOK, Requests
<1>5. call \in [Tasks -> Calls] /\ \A u \in Tasks : CallOK(call[u], messages, handoffs, sent)
  BY <1>1 DEF CallsOK
<1>6. messages \in Stores /\ messages' \in Stores
  BY <1>1, <1>2 DEF BackendOK, Stores
<1>7. \A u \in Tasks : CallOK(call[u], messages', handoffs', sent)
  BY <1>2, <1>5, <1>6, CallStays
<1>8. /\ call' = [call EXCEPT ![t] = IF mine THEN d ELSE c]
      /\ mine => answer \in Answers /\ AnswerTrue(c, answer, messages', handoffs')
  BY DEF Deliver
<1>9. c \in Calls
  BY <1>4, <1>5
<1>10. ASSUME mine
       PROVE  d \in Calls /\ Same(c, d) /\ d.pc = c.pc /\ d.req = c.req
              /\ CallOK(d, messages', handoffs', sent)
  <2>1. d \in Calls
    BY <1>8, <1>9, <1>10 DEF Calls
  <2>2. /\ Same(c, d) /\ d.pc = c.pc /\ d.req = c.req /\ d.attempt = c.attempt
        /\ d.reply = answer /\ d.outcome = c.outcome /\ d.result = c.result
    BY <1>9 DEF Calls, Same
  <2>3. c.pc = "waiting" /\ AnswerTrue(c, answer, messages', handoffs')
    BY <1>8, <1>10
  <2>4. CallOK(c, messages', handoffs', sent)
    BY <1>4, <1>7
  <2>. HIDE DEF c, d, mine
  <2>5. Shaped(d, sent)
    BY <2>1, <2>2, <2>3, <2>4 DEF CallOK, Shaped, Same, AttemptsLeft
  <2>6. AnswerTrue(d, answer, messages', handoffs')
    BY <2>2, <2>3, SameCall
  <2>7. CallOK(d, messages', handoffs', sent)
    BY <2>2, <2>3, <2>4, <2>5, <2>6 DEF CallOK, Same
  <2>. QED
    BY <2>1, <2>2, <2>7
<1>11. call'[t] = (IF mine THEN d ELSE c) /\ \A u \in Tasks : u # t => call'[u] = call[u]
  <2>. HIDE DEF d, mine
  <2>. QED
    BY <1>4, <1>5, <1>8
<1>12. call' \in [Tasks -> Calls]
  <2>. HIDE DEF d, mine
  <2>. QED
    BY <1>5, <1>8, <1>9, <1>10
<1>. HIDE DEF d, mine
<1>13. \A u \in Tasks : CallOK(call'[u], messages', handoffs', sent)
  <2>. SUFFICES ASSUME NEW u \in Tasks PROVE CallOK(call'[u], messages', handoffs', sent)
    OBVIOUS
  <2>1. CASE u = t /\ mine
    BY <1>10, <1>11, <2>1
  <2>2. CASE u = t /\ ~mine
    BY <1>4, <1>7, <1>11, <2>2
  <2>3. CASE u # t
    BY <1>7, <1>11, <2>3
  <2>. QED
    BY <2>1, <2>2, <2>3
<1>14. ASSUME NEW q \in wire' PROVE Matches(q, call'[q.from])
  <2>1. q \in wire
    OBVIOUS
  <2>2. Matches(q, call[q.from]) /\ q.from \in Tasks
    BY <1>1, <2>1 DEF CallsOK, WireOK, RequestOK, Requests
  <2>3. CASE q.from = t /\ mine
    <3>1. Matches(q, c)
      BY <2>2, <2>3
    <3>2. Same(c, d) /\ d.pc = c.pc /\ d.req = c.req /\ call'[q.from] = d
      BY <1>10, <1>11, <2>3
    <3>. HIDE DEF c
    <3>3. Matches(q, d)
      BY <3>1, <3>2 DEF Matches, Same
    <3>. QED
      BY <3>2, <3>3
  <2>4. CASE ~(q.from = t /\ mine)
    <3>1. call'[q.from] = call[q.from]
      BY <1>11, <2>2, <2>4
    <3>. QED
      BY <2>2, <3>1
  <2>. QED
    BY <2>3, <2>4
<1>15. CallsOK'
  BY <1>12, <1>13, <1>14 DEF CallsOK
<1>. QED
  BY <1>1, <1>2, <1>3, <1>15 DEF IndInv

\* An answer that claims nothing, whatever it is an answer to.
LEMMA EmptyClaim ==
    ASSUME NEW c, NEW ms, NEW hs, NEW status \in Nat,
           status \in {409, 502, 503} \/ (status = 403 /\ c.conv = "none")
    PROVE  Answer(status, << >>) \in Answers /\ AnswerTrue(c, Answer(status, << >>), ms, hs)
<1>1. << >> \in Seq(Contents)
  OBVIOUS
<1>2. Answer(status, << >>) \in Answers /\ Answer(status, << >>).status = status
  BY <1>1 DEF Answer, Answers
<1>3. status \in {403, 404} => Missing(c)
  BY DEF Missing
<1>. QED
  BY <1>2, <1>3 DEF AnswerTrue

\* A response that was spoiled is believed by the handoff alone, which does not
\* look at it.
LEMMA SpoiledTrue ==
    ASSUME NEW c, NEW ms, NEW hs, NEW f \in {"garbled", "misfit"},
           c.op = "handoff" => HandedOff(c, hs)
    PROVE  LET answer == [Answer(200, << >>) EXCEPT !.form = f]
           IN  answer \in Answers /\ AnswerTrue(c, answer, ms, hs)
<1>. DEFINE answer == [Answer(200, << >>) EXCEPT !.form = f]
<1>1. answer \in Answers /\ answer.status = 200 /\ answer.form = f
  <2>1. answer = [status |-> 200, form |-> f, body |-> << >>]
    BY DEF Answer
  <2>2. << >> \in Seq(Contents) /\ f \in {"good", "garbled", "misfit"} /\ 200 \in Nat
    OBVIOUS
  <2>. HIDE DEF answer
  <2>. QED
    BY <2>1, <2>2 DEF Answers
<1>. HIDE DEF answer
<1>2. answer.form = "good" \/ c.op = "handoff" => Done(c, answer.body, ms, hs)
  BY <1>1 DEF Done
<1>3. AnswerTrue(c, answer, ms, hs)
  BY <1>1, <1>2 DEF AnswerTrue
<1>. QED
  BY <1>1, <1>3 DEF answer

\* Serving a request.
LEMMA ServeOK ==
    ASSUME IndInv, NEW r \in wire, Serve(r)
    PROVE  IndInv'
<1>. DEFINE c == call[r.from]
<1>1. Effect(r) /\ wire' = wire \ {r} /\ sent' = sent
  BY DEF Serve
<1>2. PICK answer : /\ answer \in {Response(r), Answer(502, << >>)} \cup Spoiled(r)
                    /\ Deliver(r, answer)
  BY DEF Serve
<1>3. Served(r)
  BY <1>1, EffectServed
<1>4. ASSUME c.pc = "waiting", c.req = r.n
      PROVE  answer \in Answers /\ AnswerTrue(c, answer, messages', handoffs')
  <2>1. CallOK(c, messages, handoffs, sent) /\ Matches(r, c)
    BY DEF IndInv, CallsOK, WireOK, RequestOK, Requests
  <2>. HIDE DEF c
  <2>2. Response(r) \in Answers /\ AnswerTrue(c, Response(r), messages', handoffs')
    BY <1>1, <1>4, <2>1, ResponseTrue
  <2>3. CASE answer = Response(r)
    BY <2>2, <2>3
  <2>4. CASE answer = Answer(502, << >>)
    <3>1. 502 \in Nat /\ 502 \in {409, 502, 503}
      OBVIOUS
    <3>. QED
      BY <2>4, <3>1, EmptyClaim
  <2>5. CASE answer \in Spoiled(r)
    <3>1. Response(r).status = 200
      BY <2>5 DEF Spoiled
    <3>2. PICK f \in {"garbled", "misfit"} : answer = [Answer(200, << >>) EXCEPT !.form = f]
      BY <2>5, <3>1 DEF Spoiled
    <3>3. c.op = "handoff" => HandedOff(c, handoffs')
      <4>. SUFFICES ASSUME c.op = "handoff" PROVE HandedOff(c, handoffs')
        OBVIOUS
      <4>1. r.op = "handoff" /\ r.call = c.id
        BY <1>4, <2>1 DEF Matches
      <4>2. HandOff(r) /\ r.conv \in Known
        <5>1. HandOff(r)
          BY <1>1, <4>1 DEF Effect, Reads
        <5>2. NotFound.status # 200
          BY DEF NotFound, Answer
        <5>. QED
          BY <3>1, <4>1, <5>1, <5>2 DEF Response, Reads
      <4>. QED
        BY <4>1, <4>2, HandOffServed DEF HandedOff
    <3>. QED
      BY <3>2, <3>3, SpoiledTrue
  <2>. QED
    BY <1>2, <2>3, <2>4, <2>5
<1>. QED
  BY <1>1, <1>2, <1>3, <1>4, DeliverOK

\* Refusing a request.
LEMMA RefuseOK ==
    ASSUME IndInv, NEW r \in wire, Refuse(r)
    PROVE  IndInv'
<1>. DEFINE c == call[r.from]
<1>1. UNCHANGED backend /\ wire' = wire \ {r} /\ sent' = sent
  BY DEF Refuse
<1>2. PICK status \in {409, 503} \cup IF r.op = "get_recent_orders" THEN {403} ELSE {} :
         Deliver(r, Answer(status, << >>))
  BY DEF Refuse
<1>3. Served(r)
  BY <1>1, IdleServed
<1>4. ASSUME c.pc = "waiting", c.req = r.n
      PROVE  /\ Answer(status, << >>) \in Answers
             /\ AnswerTrue(c, Answer(status, << >>), messages', handoffs')
  <2>1. CallOK(c, messages, handoffs, sent) /\ Matches(r, c)
    BY DEF IndInv, CallsOK, WireOK, RequestOK, Requests
  <2>. HIDE DEF c
  <2>2. r.op = "get_recent_orders" => c.conv = "none"
    BY <1>4, <2>1 DEF Matches, CallOK, Shaped
  <2>3. status \in {409, 502, 503} \/ (status = 403 /\ c.conv = "none")
    BY <1>2, <2>2
  <2>4. status \in Nat
    BY <2>3
  <2>. QED
    BY <2>3, <2>4, EmptyClaim
<1>. QED
  BY <1>1, <1>2, <1>3, <1>4, DeliverOK

\* Losing a request.
LEMMA LoseOK ==
    ASSUME IndInv, NEW r \in wire, Lose(r)
    PROVE  IndInv'
<1>1. /\ sent \in Nat /\ BackendOK /\ HandoffsOK(handoffs, sent) /\ WireOK /\ CallsOK
  BY DEF IndInv
<1>2. /\ handledBy' = handledBy /\ messages' = messages /\ idem' = idem
      /\ nextId' = nextId /\ handoffs' = handoffs /\ sent' = sent /\ call' = call
      /\ wire' = wire \ {r}
  BY DEF Lose, backend
<1>3. BackendOK'
  BY <1>1, <1>2 DEF BackendOK
<1>4. WireOK'
  BY <1>1, <1>2 DEF WireOK
<1>5. CallsOK'
  BY <1>1, <1>2 DEF CallsOK
<1>. QED
  BY <1>1, <1>2, <1>3, <1>4, <1>5 DEF IndInv

\* The backend does something of its own, with no request served.
LEMMA BackendMoves ==
    ASSUME IndInv, BackendOK', Grown(messages, messages'), handoffs' = handoffs,
           wire' = wire, sent' = sent, call' = call
    PROVE  IndInv'
<1>1. /\ sent \in Nat /\ BackendOK /\ HandoffsOK(handoffs, sent) /\ WireOK /\ CallsOK
  BY DEF IndInv
<1>2. messages \in Stores /\ messages' \in Stores /\ Noted(handoffs, handoffs')
  BY <1>1 DEF BackendOK, Stores, Noted
<1>3. WireOK'
  BY <1>1 DEF WireOK
<1>4. \A u \in Tasks : CallOK(call[u], messages', handoffs', sent)
  BY <1>1, <1>2, CallStays DEF CallsOK
<1>5. CallsOK'
  BY <1>1, <1>4 DEF CallsOK
<1>. QED
  BY <1>1, <1>3, <1>5 DEF IndInv

\* The customer adds a message.
LEMMA CustomerWritesOK ==
    ASSUME IndInv, NEW conv \in Known, CustomerWrites(conv)
    PROVE  IndInv'
<1>. DEFINE m == [author |-> "user", key |-> NoKey, id |-> 0]
<1>1. BackendOK
  BY DEF IndInv
<1>2. /\ messages \in Stores /\ KeysOK(messages, idem)
      /\ messages' = [messages EXCEPT ![conv] = Append(@, m)]
      /\ handledBy' = handledBy /\ idem' = idem /\ nextId' = nextId /\ handoffs' = handoffs
      /\ wire' = wire /\ sent' = sent /\ call' = call
  BY <1>1 DEF CustomerWrites, BackendOK, Stores
<1>3. m \in Messages /\ m.key = NoKey
  BY DEF Messages
<1>. HIDE DEF m
<1>4. messages' \in Stores /\ Grown(messages, messages') /\ Added(messages, messages', conv, m)
  BY <1>2, <1>3, AppendAdds
<1>5. KeysOK(messages', idem)
  BY <1>2, <1>3, <1>4, CustomerKeepsKeys
<1>6. BackendOK'
  BY <1>1, <1>2, <1>4, <1>5 DEF BackendOK, Stores
<1>. QED
  BY <1>2, <1>4, <1>6, BackendMoves

\* A staff member takes the conversation or gives it back.
LEMMA SetHandledByOK ==
    ASSUME IndInv, NEW conv \in Known, NEW handler \in Handlers, SetHandledBy(conv, handler)
    PROVE  IndInv'
<1>1. BackendOK
  BY DEF IndInv
<1>2. /\ handledBy' = [handledBy EXCEPT ![conv] = handler]
      /\ messages' = messages /\ idem' = idem /\ nextId' = nextId /\ handoffs' = handoffs
      /\ wire' = wire /\ sent' = sent /\ call' = call
  BY DEF SetHandledBy
<1>3. BackendOK'
  BY <1>1, <1>2 DEF BackendOK
<1>4. Grown(messages, messages')
  <2>1. \A c \in Known : Len(messages[c]) \in Nat
    BY <1>1 DEF BackendOK
  <2>. QED
    BY <1>2, <2>1 DEF Grown
<1>. QED
  BY <1>2, <1>3, <1>4, BackendMoves

-----------------------------------------------------------------------------
(* The theorems                                                            *)

\* Every step keeps the invariant.
LEMMA StepOK == IndInv /\ [Next]_vars => IndInv'
<1>. SUFFICES ASSUME IndInv, [Next]_vars PROVE IndInv'
  OBVIOUS
<1>1. \A t \in Readers \cup Writers : t \in Tasks
  BY RolesAssumption
<1>2. CASE \E t \in Readers : StartGetConversation(t) \/ StartGetMessages(t)
  BY <1>1, <1>2, StartsOK
<1>3. CASE \E t \in Readers : StartListKbItems(t) \/ StartGetRecentOrders(t)
  BY <1>1, <1>3, StartsOK
<1>4. CASE \E t \in Writers : StartPost(t) \/ StartHandoff(t)
  BY <1>1, <1>4, StartsOK
<1>5. CASE \E t \in Tasks : Progress(t)
  BY <1>5, TransportErrorOK, ReceiveOK, RetryOK DEF Progress
<1>6. CASE \E t \in Tasks : Cancel(t)
  BY <1>6, CancelOK
<1>7. CASE \E r \in wire : Serve(r)
  BY <1>7, ServeOK
<1>8. CASE \E r \in wire : Refuse(r)
  BY <1>8, RefuseOK
<1>9. CASE \E r \in wire : Lose(r)
  BY <1>9, LoseOK
<1>10. CASE \E conv \in Known : CustomerWrites(conv)
  BY <1>10, CustomerWritesOK
<1>11. CASE \E conv \in Known, handler \in Handlers : SetHandledBy(conv, handler)
  BY <1>11, SetHandledByOK
<1>12. CASE UNCHANGED vars
  <2>1. /\ messages' = messages /\ handoffs' = handoffs /\ handledBy' = handledBy
        /\ idem' = idem /\ nextId' = nextId
        /\ wire' = wire /\ sent' = sent /\ call' = call
    BY <1>12 DEF vars
  <2>2. BackendOK' /\ Grown(messages, messages')
    BY <2>1, SameBackend DEF IndInv, backend
  <2>. QED
    BY <2>1, <2>2, BackendMoves
<1>. QED
  BY <1>2, <1>3, <1>4, <1>5, <1>6, <1>7, <1>8, <1>9, <1>10, <1>11, <1>12 DEF Next

\* The invariant holds in every state the connector and the backend reach.
THEOREM Invariance == Spec => []IndInv
<1>1. Init => IndInv
  BY InitOK
<1>2. IndInv /\ [Next]_vars => IndInv'
  BY StepOK
<1>. QED
  BY <1>1, <1>2, PTL DEF Spec

\* Every variable stays in its domain, however many calls are made: no call has
\* more attempts than its method has, and an answer waits only for a call that
\* waits for it.
THEOREM TypesHold == Spec => []TypeOK
<1>1. IndInv => TypeOK
  <2>. SUFFICES ASSUME IndInv PROVE TypeOK
    OBVIOUS
  <2>1. /\ sent \in Nat /\ BackendOK /\ WireOK /\ CallsOK
    BY DEF IndInv
  <2>2. /\ handledBy \in [Known -> Handlers] /\ messages \in [Known -> Seq(Messages)]
        /\ idem \in [Keys -> Nat] /\ nextId \in Nat /\ handoffs \in Seq(Nat)
    BY <2>1 DEF BackendOK
  <2>3. \A r \in wire : r.n \in 1 .. sent /\ r.call \in 1 .. r.n /\ r.from \in Tasks
    BY <2>1 DEF WireOK, RequestOK, Requests
  <2>4. ASSUME NEW t \in Tasks
        PROVE  /\ call[t].pc \in {"idle", "waiting", "backoff", "done"}
               /\ call[t].req \in 0 .. sent /\ call[t].id \in 0 .. call[t].req
               /\ call[t].attempt <= IF call[t].op \in Reads THEN 2 ELSE 1
               /\ call[t].reply # NoReply => call[t].pc = "waiting"
    <3>1. Shaped(call[t], sent)
      BY <2>1 DEF CallsOK, CallOK
    <3>2. call[t] \in Calls /\ call[t].req <= sent /\ call[t].id <= call[t].req
      BY <3>1 DEF Shaped
    <3>3. call[t].req \in Nat /\ call[t].id \in Nat /\ call[t].pc \in PCs
      BY <3>2 DEF Calls
    <3>4. call[t].req \in 0 .. sent /\ call[t].id \in 0 .. call[t].req
      BY <2>1, <3>2, <3>3
    <3>5. call[t].attempt <= IF call[t].op \in Reads THEN 2 ELSE 1
      BY <3>1 DEF Shaped, Attempts, GET_RETRIES
    <3>. QED
      BY <3>1, <3>3, <3>4, <3>5 DEF Shaped, PCs
  <2>. QED
    BY <2>1, <2>2, <2>3, <2>4 DEF TypeOK
<1>. QED
  BY <1>1, Invariance, PTL

\* However many callers post however often under one key, the conversation shows
\* one message.
THEOREM OneMessagePerKeyHolds == Spec => []OneMessagePerKey
<1>1. IndInv => OneMessagePerKey
  <2>. SUFFICES ASSUME IndInv,
                       NEW c1 \in Known, NEW c2 \in Known,
                       NEW i \in DOMAIN messages[c1], NEW j \in DOMAIN messages[c2],
                       messages[c1][i].key = messages[c2][j].key,
                       messages[c1][i].key # NoKey
                PROVE  c1 = c2 /\ i = j
    BY DEF OneMessagePerKey
  <2>1. KeysOK(messages, idem)
    BY DEF IndInv, BackendOK
  <2>2. c1 = ConvOf[messages[c1][i].key] /\ c2 = ConvOf[messages[c2][j].key]
    BY <2>1 DEF KeysOK
  <2>3. c1 = c2
    BY <2>2
  <2>. QED
    BY <2>1, <2>3 DEF KeysOK
<1>. QED
  BY <1>1, Invariance, PTL

\* A handoff is on record at most once per call, whatever is lost or late.
THEOREM HandoffOncePerCallHolds == Spec => []HandoffOncePerCall
<1>1. IndInv => HandoffOncePerCall
  BY DEF IndInv, HandoffsOK, HandoffOncePerCall
<1>. QED
  BY <1>1, Invariance, PTL

\* A write that returned has happened, and stays so.
THEOREM OkMeansDoneHolds == Spec => []OkMeansDone
<1>1. IndInv => OkMeansDone
  <2>. SUFFICES ASSUME IndInv, NEW t \in Tasks, call[t].pc = "done", call[t].outcome = "ok"
                PROVE  LET c == call[t] IN
                       /\ c.op = "post_assistant_message" =>
                            Len(c.result) = 1 /\ \E i \in DOMAIN messages[c.conv] :
                               messages[c.conv][i] =
                                 [author |-> "assistant", key |-> c.key, id |-> c.result[1]]
                       /\ c.op = "handoff" => \E i \in DOMAIN handoffs : handoffs[i] = c.id
    BY Zenon DEF OkMeansDone
  <2>1. Done(call[t], call[t].result, messages, handoffs)
    BY DEF IndInv, CallsOK, CallOK
  <2>. QED
    BY <2>1 DEF Done, Posted, HandedOff
<1>. QED
  BY <1>1, Invariance, PTL

\* A read that returned shows the conversation as it was at one moment of the
\* call, whichever of its attempts was answered.
THEOREM ReadIsOneMomentHolds == Spec => []ReadIsOneMoment
<1>1. IndInv => ReadIsOneMoment
  <2>. SUFFICES ASSUME IndInv, NEW t \in Tasks, call[t].pc = "done", call[t].outcome = "ok",
                       call[t].op = "get_messages"
                PROVE  LET c == call[t] IN
                       \E n \in c.since .. Len(messages[c.conv]) :
                          /\ Len(c.result) = IF n < c.limit THEN n ELSE c.limit
                          /\ \A i \in DOMAIN c.result :
                                c.result[i] = messages[c.conv][n - Len(c.result) + i]
    BY Zenon DEF ReadIsOneMoment
  <2>1. Done(call[t], call[t].result, messages, handoffs)
    BY DEF IndInv, CallsOK, CallOK
  <2>2. OneMoment(call[t], call[t].result, messages)
    BY <2>1 DEF Done
  <2>. QED
    BY <2>2 DEF OneMoment
<1>. QED
  BY <1>1, Invariance, PTL

\* No outage, conflict or rate limit passes for a conversation that is not there.
THEOREM NotFoundIsTrueHolds == Spec => []NotFoundIsTrue
<1>1. IndInv => NotFoundIsTrue
  <2>. SUFFICES ASSUME IndInv, NEW t \in Tasks, call[t].pc = "done",
                       call[t].outcome = "not_found", call[t].conv # "none"
                PROVE  \/ call[t].conv \notin Known
                       \/ call[t].op \in Reads /\ ~Visible(call[t].conv, call[t].actor)
    BY Zenon DEF NotFoundIsTrue
  <2>1. Missing(call[t])
    BY DEF IndInv, CallsOK, CallOK
  <2>. QED
    BY <2>1 DEF Missing
<1>. QED
  BY <1>1, Invariance, PTL

-----------------------------------------------------------------------------
(* Refinement: every step of BackendConnector is a step of Conversations or *)
(* a stutter under the mapping of BackendConnectorProps.                    *)

Step == Service!Next \/ UNCHANGED Service!vars

\* The two specifications tell the same kinds of requests apart.
LEMMA SameKinds ==
    /\ Service!Reads = Reads /\ Service!Writes = Writes /\ Service!Handlers = Handlers
    /\ Service!NoAnswer = [outcome |-> "none", result |-> << >>]
    /\ Service!NotThere = [outcome |-> "not_found", result |-> << >>]
    /\ \A result : Service!Ok(result) = [outcome |-> "ok", result |-> result]
    /\ \A conv, actor : Service!Visible(conv, actor) <=> Visible(conv, actor)
    /\ \A s, limit : Service!LastN(s, limit) = LastN(s, limit)
BY DEF Reads, Writes, Handlers, Service!Reads, Service!Writes, Service!Handlers,
       Service!NoAnswer, Service!NotThere, Service!Ok, Visible, Service!Visible,
       LastN, Service!LastN

\* What a client has been told by an answer.
LEMMA ToldBy ==
    ASSUME NEW c, c.reply.status \in {200, 403, 404, 409, 502, 503}
    PROVE  /\ c.reply.status \in {409, 502, 503} => Told(c) = Service!NoAnswer
           /\ c.reply.status \in {403, 404} => Told(c) = Service!NotThere
           /\ c.reply.status = 200 /\ (c.reply.form = "good" \/ c.op = "handoff") =>
                 Told(c) = Service!Ok(c.reply.body)
           /\ c.reply.status = 200 /\ c.reply.form # "good" /\ c.op # "handoff" =>
                 Told(c) = Service!NoAnswer
<1>1. c.reply # NoReply
  BY DEF NoReply, Answer
<1>2. ASSUME c.reply.status \in {409, 502, 503} PROVE Verdict(c) \notin {"ok", "not_found"}
  BY <1>2 DEF Verdict
<1>3. ASSUME c.reply.status \in {403, 404} PROVE Verdict(c) = "not_found"
  BY <1>3 DEF Verdict
<1>4. ASSUME c.reply.status = 200 PROVE Verdict(c) = BodyVerdict(c)
  BY <1>4 DEF Verdict
<1>5. ASSUME c.reply.form = "good" \/ c.op = "handoff" PROVE BodyVerdict(c) = "ok"
  BY <1>5 DEF BodyVerdict
<1>6. ASSUME c.reply.form # "good", c.op # "handoff"
      PROVE  BodyVerdict(c) \notin {"ok", "not_found"}
  BY <1>6 DEF BodyVerdict
<1>7. "not_found" # "ok"
  OBVIOUS
<1>8. /\ Verdict(c) \notin {"ok", "not_found"} => Told(c) = Service!NoAnswer
      /\ Verdict(c) = "not_found" => Told(c) = Service!NotThere
      /\ Verdict(c) = "ok" => Told(c) = Service!Ok(c.reply.body)
  BY <1>1, <1>7 DEF Told, Service!NoAnswer, Service!NotThere, Service!Ok
<1>. QED
  BY <1>2, <1>3, <1>4, <1>5, <1>6, <1>8

\* A client that waits for no answer has been told nothing.
LEMMA ToldNothing ==
    ASSUME NEW c, c.reply = NoReply
    PROVE  Told(c) = Service!NoAnswer
BY DEF Told, Service!NoAnswer

\* What a call is to the service.
LEMMA ClientFields ==
    ASSUME NEW c
    PROVE  /\ c.pc = "done" => ClientOf(c) =
                [state |-> "answered", ask |-> AskOf(c), id |-> c.id,
                 answer |-> [outcome |-> c.outcome, result |-> c.result]]
           /\ c.pc \in {"waiting", "backoff"} => ClientOf(c) =
                [state |-> "waiting", ask |-> AskOf(c), id |-> c.id, answer |-> Told(c)]
           /\ c.pc = "idle" => ClientOf(c) =
                [state |-> "none", ask |-> AskOf(c), id |-> c.id, answer |-> Told(c)]
BY DEF ClientOf

\* A step that changes the call of t alone changes the client of t alone.
LEMMA OneClient ==
    ASSUME IndInv, NEW t \in Tasks, NEW d, call' = [call EXCEPT ![t] = d]
    PROVE  /\ client' = [client EXCEPT ![t] = ClientOf(d)]
           /\ client[t] = ClientOf(call[t])
           /\ ClientOf(d) = client[t] => client' = client
<1>1. call \in [Tasks -> Calls]
  BY DEF IndInv, CallsOK
<1>2. call'[t] = d /\ \A u \in Tasks : u # t => call'[u] = call[u]
  BY <1>1
<1>3. \A u \in Tasks : ClientOf(call'[u]) = IF u = t THEN ClientOf(d) ELSE ClientOf(call[u])
  BY <1>2
<1>4. client' = [u \in Tasks |-> IF u = t THEN ClientOf(d) ELSE ClientOf(call[u])]
  BY <1>3 DEF client
<1>5. client[t] = ClientOf(call[t])
  BY DEF client
<1>6. client' = [client EXCEPT ![t] = ClientOf(d)]
  BY <1>4 DEF client
<1>7. ASSUME ClientOf(d) = client[t] PROVE client' = client
  BY <1>4, <1>5, <1>7 DEF client
<1>. QED
  BY <1>5, <1>6, <1>7

LEMMA SameClients ==
    ASSUME call' = call
    PROVE  client' = client
BY DEF client

LEMMA SameDue ==
    ASSUME wire' = wire
    PROVE  due' = due
BY DEF due

\* A request that is off the wire is no longer due.
LEMMA DueLess ==
    ASSUME IndInv, NEW r \in wire, wire' = wire \ {r}
    PROVE  IF r.op \in Writes THEN DueOf(r) \in due /\ due' = due \ {DueOf(r)}
                              ELSE due' = due
<1>1. \A s \in wire : s.n = r.n => s = r
  BY DEF IndInv, WireOK
<1>2. \A s \in wire : DueOf(s) = DueOf(r) => s = r
  BY <1>1 DEF DueOf
<1>. QED
  BY <1>2, Zenon DEF due

\* One that goes out is due when it writes.
LEMMA DueMore ==
    ASSUME NEW r, wire' = wire \cup {r}
    PROVE  due' = due \cup IF r.op \in Writes THEN {DueOf(r)} ELSE {}
<1>1. CASE r.op \in Writes
  <2>1. {s \in wire' : s.op \in Writes} = {s \in wire : s.op \in Writes} \cup {r}
    BY <1>1
  <2>. QED
    BY <1>1, <2>1 DEF due
<1>2. CASE r.op \notin Writes
  <2>1. {s \in wire' : s.op \in Writes} = {s \in wire : s.op \in Writes}
    BY <1>2
  <2>. QED
    BY <1>2, <2>1 DEF due
<1>. QED
  BY <1>1, <1>2

\* The initial states are initial states of the service.
LEMMA ServiceInit == Init => Service!Init
<1>. SUFFICES ASSUME Init PROVE Service!Init
  OBVIOUS
<1>1. due = {}
  BY DEF Init, due
<1>2. /\ NoCall.pc = "idle" /\ NoCall.id = 0 /\ NoCall.reply = NoReply
      /\ AskOf(NoCall) = [op |-> "none", conv |-> "none", actor |-> "none",
                          key |-> NoKey, limit |-> 0]
  BY DEF NoCall, AskOf
<1>3. ClientOf(NoCall) = Service!NoClient
  BY <1>2, ClientFields, ToldNothing DEF Service!NoClient, Service!Question
<1>4. client = [t \in Tasks |-> Service!NoClient]
  BY <1>3 DEF Init, client
<1>. QED
  BY <1>1, <1>4, SameKinds DEF Init, Service!Init

-----------------------------------------------------------------------------
(* The client's side                                                       *)

\* What sending a request is to the service.
LEMMA SendRefined ==
    ASSUME IndInv, NEW t \in Tasks, NEW c \in Calls, Send(t, c)
    PROVE  /\ sent' = sent + 1
           /\ client' = [client EXCEPT ![t] =
                [state |-> "waiting", ask |-> AskOf(c),
                 id |-> IF c.id = 0 THEN sent + 1 ELSE c.id, answer |-> Service!NoAnswer]]
           /\ due' = due \cup IF c.op \in Writes
                THEN {[from |-> t, ask |-> AskOf(c), id |-> sent + 1]} ELSE {}
<1>. DEFINE id == IF c.id = 0 THEN sent + 1 ELSE c.id
            r0 == [n |-> sent + 1, from |-> t, op |-> c.op, conv |-> c.conv,
                   actor |-> c.actor, key |-> c.key, limit |-> c.limit, call |-> id]
            d == [c EXCEPT !.pc = "waiting", !.req = sent + 1, !.id = id,
                           !.attempt = c.attempt + 1, !.reply = NoReply]
<1>1. sent' = sent + 1 /\ wire' = wire \cup {r0} /\ call' = [call EXCEPT ![t] = d]
  BY DEF Send
<1>2. /\ d.pc = "waiting" /\ d.id = id /\ d.reply = NoReply /\ d.op = c.op
      /\ d.conv = c.conv /\ d.actor = c.actor /\ d.key = c.key /\ d.limit = c.limit
  <2>. HIDE DEF id
  <2>. QED
    BY DEF Calls
<1>3. r0.op = c.op /\ DueOf(r0) = [from |-> t, ask |-> AskOf(c), id |-> sent + 1]
  BY DEF DueOf, AskOf
<1>. HIDE DEF r0, d
<1>4. AskOf(d) = AskOf(c)
  BY <1>2 DEF AskOf
<1>5. ClientOf(d) = [state |-> "waiting", ask |-> AskOf(c), id |-> id,
                     answer |-> Service!NoAnswer]
  BY <1>2, <1>4, ClientFields, ToldNothing
<1>6. client' = [client EXCEPT ![t] = ClientOf(d)]
  BY <1>1, OneClient
<1>7. due' = due \cup IF r0.op \in Writes THEN {DueOf(r0)} ELSE {}
  BY <1>1, DueMore
<1>. QED
  BY <1>1, <1>3, <1>5, <1>6, <1>7

\* A method that is called is a question that is asked.
LEMMA StartRefined ==
    ASSUME IndInv, NEW t \in Tasks,
           NEW op \in Ops, NEW conv \in Places, NEW actor \in People,
           NEW key \in Keys \cup {NoKey}, NEW limit \in Nat,
           Service!Question(op, conv, actor, key, limit) \in Service!Questions,
           Start(t, op, conv, actor, key, limit)
    PROVE  Step
<1>. DEFINE since == IF conv \in Known THEN Len(messages[conv]) ELSE 0
            c == [NoCall EXCEPT !.op = op, !.conv = conv, !.actor = actor, !.key = key,
                                !.limit = limit, !.since = since]
            q == Service!Question(op, conv, actor, key, limit)
<1>1. Send(t, c) /\ UNCHANGED backend /\ call[t].pc \in {"idle", "done"}
  BY DEF Start
<1>2. since \in Nat
  BY DEF IndInv, BackendOK
<1>3. NoCall \in Calls /\ NoCall.id = 0
  BY NoCallTyped DEF NoCall
<1>4. /\ c \in Calls /\ c.id = 0 /\ c.op = op /\ c.conv = conv /\ c.actor = actor
      /\ c.key = key /\ c.limit = limit
  <2>. HIDE DEF since
  <2>. QED
    BY <1>2, <1>3 DEF Calls
<1>. HIDE DEF c
<1>5. AskOf(c) = q /\ q.op = op
  BY <1>4 DEF AskOf, Service!Question
<1>6. client[t].state \in {"none", "answered"}
  <2>1. client[t] = ClientOf(call[t])
    BY DEF client
  <2>. QED
    BY <1>1, <2>1, ClientFields
<1>7. /\ sent' = sent + 1
      /\ client' = [client EXCEPT ![t] =
           [state |-> "waiting", ask |-> q, id |-> sent + 1, answer |-> Service!NoAnswer]]
      /\ due' = due \cup IF q.op \in Service!Writes
           THEN {[from |-> t, ask |-> q, id |-> sent + 1]} ELSE {}
  BY <1>1, <1>4, <1>5, SendRefined, SameKinds
<1>8. UNCHANGED Service!store
  BY <1>1 DEF Service!store, backend
<1>. HIDE DEF q
<1>9. q \in Service!Questions
  BY DEF q
<1>10. Service!Ask(t)
  BY <1>6, <1>7, <1>8, <1>9 DEF Service!Ask
<1>. QED
  BY <1>10 DEF Step, Service!Next

\* Every method of the connector asks one of the questions.
LEMMA StartsRefined ==
    ASSUME IndInv, NEW t \in Tasks,
           \/ StartGetConversation(t) \/ StartGetMessages(t) \/ StartListKbItems(t)
           \/ StartGetRecentOrders(t) \/ StartPost(t) \/ StartHandoff(t)
    PROVE  Step
<1>. DEFINE Q(op, conv, actor, key, limit) ==
              Service!Question(op, conv, actor, key, limit) \in Service!Questions
<1>1. /\ "none" \in Places /\ "none" \in People /\ Convs \subseteq Places
      /\ Actors \cup Staff \subseteq People /\ NoKey \in Keys \cup {NoKey}
      /\ \A op \in {"get_conversation", "get_messages", "list_kb_items",
                    "get_recent_orders", "post_assistant_message", "handoff"} : op \in Ops
  BY DEF Places, People, Ops, Reads, Writes
<1>2. CASE StartGetConversation(t)
  <2>1. PICK conv \in Convs, actor \in Actors \cup Staff :
          Start(t, "get_conversation", conv, actor, NoKey, 0)
    BY <1>2 DEF StartGetConversation
  <2>2. Q("get_conversation", conv, actor, NoKey, 0)
    BY DEF Service!Questions
  <2>. QED
    BY <1>1, <2>1, <2>2, StartRefined
<1>3. CASE StartGetMessages(t)
  <2>1. PICK conv \in Convs, actor \in Actors \cup Staff, limit \in Limits :
          Start(t, "get_messages", conv, actor, NoKey, limit)
    BY <1>3 DEF StartGetMessages
  <2>2. Q("get_messages", conv, actor, NoKey, limit)
    BY DEF Service!Questions
  <2>. QED
    BY <1>1, <2>1, <2>2, StartRefined, LimitsAssumption
<1>4. CASE StartListKbItems(t)
  <2>1. Start(t, "list_kb_items", "none", "none", NoKey, 0)
    BY <1>4 DEF StartListKbItems
  <2>2. Q("list_kb_items", "none", "none", NoKey, 0)
    BY DEF Service!Questions
  <2>. QED
    BY <1>1, <2>1, <2>2, StartRefined
<1>5. CASE StartGetRecentOrders(t)
  <2>1. PICK actor \in Actors \cup Staff :
          Start(t, "get_recent_orders", "none", actor, NoKey, ORDERS_LIMIT)
    BY <1>5 DEF StartGetRecentOrders
  <2>2. ORDERS_LIMIT \in Nat /\ Service!ORDERS_LIMIT = ORDERS_LIMIT
    BY DEF ORDERS_LIMIT, Service!ORDERS_LIMIT
  <2>3. Q("get_recent_orders", "none", actor, NoKey, ORDERS_LIMIT)
    BY <2>2 DEF Service!Questions
  <2>. QED
    BY <1>1, <2>1, <2>2, <2>3, StartRefined
<1>6. CASE StartPost(t)
  <2>1. PICK k \in Keys : Start(t, "post_assistant_message", ConvOf[k], "none", k, 0)
    BY <1>6 DEF StartPost
  <2>2. Q("post_assistant_message", ConvOf[k], "none", k, 0)
    BY DEF Service!Questions
  <2>3. ConvOf[k] \in Places /\ k \in Keys \cup {NoKey}
    BY <1>1, KeysAssumption
  <2>. QED
    BY <1>1, <2>1, <2>2, <2>3, StartRefined
<1>7. CASE StartHandoff(t)
  <2>1. PICK conv \in Convs : Start(t, "handoff", conv, "none", NoKey, 0)
    BY <1>7 DEF StartHandoff
  <2>2. Q("handoff", conv, "none", NoKey, 0)
    BY DEF Service!Questions
  <2>. QED
    BY <1>1, <2>1, <2>2, StartRefined
<1>. QED
  BY <1>2, <1>3, <1>4, <1>5, <1>6, <1>7

\* A second attempt is nothing but the passing of time.
LEMMA RetryRefined ==
    ASSUME IndInv, NEW t \in Tasks, Retry(t)
    PROVE  Step
<1>. DEFINE c == call[t]
<1>1. c.pc = "backoff" /\ Send(t, c) /\ UNCHANGED backend
  BY DEF Retry
<1>2. Shaped(c, sent)
  BY DEF IndInv, CallsOK, CallOK
<1>3. client[t] = ClientOf(c)
  BY DEF client
<1>. HIDE DEF c
<1>4. c \in Calls /\ c.op \in Ops /\ c.id # 0 /\ c.reply = NoReply /\ AttemptsLeft(c)
  BY <1>1, <1>2 DEF Shaped
<1>5. c.op \notin Writes
  BY <1>1, <1>2, <1>4 DEF Shaped, Calls, AttemptsLeft, Attempts, Reads, Writes
<1>6. client[t] = [state |-> "waiting", ask |-> AskOf(c), id |-> c.id,
                   answer |-> Service!NoAnswer]
  BY <1>1, <1>3, <1>4, ClientFields, ToldNothing
<1>7. /\ sent' = sent + 1
      /\ client' = [client EXCEPT ![t] =
           [state |-> "waiting", ask |-> AskOf(c), id |-> c.id, answer |-> Service!NoAnswer]]
      /\ due' = due
  BY <1>1, <1>4, <1>5, SendRefined
<1>8. client' = client
  <2>1. client = [u \in Tasks |-> client[u]]
    BY DEF client
  <2>. QED
    BY <1>6, <1>7, <2>1
<1>9. UNCHANGED Service!store
  BY <1>1 DEF Service!store, backend
<1>10. Service!Tick
  BY <1>7, <1>8, <1>9 DEF Service!Tick
<1>. QED
  BY <1>10 DEF Step, Service!Next

\* The client of a call that ends got what it was told, or its question failed.
LEMMA FinishRefined ==
    ASSUME IndInv, NEW t \in Tasks, call[t].pc = "waiting", NEW outcome, NEW result,
           Finish(t, outcome, result), UNCHANGED backend,
           \/ outcome \in {"unavailable", "crash"} /\ result = << >>
           \/ /\ Told(call[t]) = [outcome |-> outcome, result |-> result]
              /\ outcome # "none"
    PROVE  Step
<1>. DEFINE c == call[t]
            d == [c EXCEPT !.pc = "done", !.outcome = outcome,
                           !.result = result, !.reply = NoReply]
            answer == [outcome |-> outcome, result |-> result]
            mine == [state |-> "answered", ask |-> AskOf(c), id |-> c.id, answer |-> answer]
<1>1. call' = [call EXCEPT ![t] = d] /\ wire' = wire /\ sent' = sent
  BY DEF Finish
<1>2. c \in Calls
  BY DEF IndInv, CallsOK
<1>3. /\ d.pc = "done" /\ d.outcome = outcome /\ d.result = result /\ d.op = c.op
      /\ d.conv = c.conv /\ d.actor = c.actor /\ d.key = c.key /\ d.limit = c.limit
      /\ d.id = c.id
  BY <1>2 DEF Calls
<1>4. c.pc = "waiting"
  OBVIOUS
<1>5. client' = [client EXCEPT ![t] = ClientOf(d)] /\ client[t] = ClientOf(c)
  <2>. HIDE DEF c, d
  <2>1. client' = [client EXCEPT ![t] = ClientOf(d)]
    BY <1>1, OneClient
  <2>. QED
    BY <2>1 DEF client, c
<1>. HIDE DEF d
<1>6. ClientOf(d) = mine
  <2>1. AskOf(d) = AskOf(c)
    BY <1>3 DEF AskOf
  <2>. QED
    BY <1>3, <2>1, ClientFields
<1>7. client[t] = [state |-> "waiting", ask |-> AskOf(c), id |-> c.id, answer |-> Told(c)]
  <2>. HIDE DEF c
  <2>. QED
    BY <1>4, <1>5, ClientFields
<1>8. UNCHANGED <<sent, Service!store, due>>
  BY <1>1, SameDue DEF Service!store, backend
<1>9. CASE outcome \in {"unavailable", "crash"} /\ result = << >>
  <2>1. mine = [state |-> "answered", ask |-> client[t].ask, id |-> client[t].id,
                answer |-> [outcome |-> outcome, result |-> << >>]]
    BY <1>7, <1>9
  <2>2. client[t].state = "waiting"
    BY <1>7
  <2>. HIDE DEF mine
  <2>3. client' = [client EXCEPT ![t] =
           [state |-> "answered", ask |-> client[t].ask, id |-> client[t].id,
            answer |-> [outcome |-> outcome, result |-> << >>]]]
    BY <1>5, <1>6, <2>1
  <2>4. Service!Fail(t)
    BY <1>8, <1>9, <2>2, <2>3 DEF Service!Fail
  <2>. QED
    BY <2>4 DEF Step, Service!Next
<1>10. CASE Told(c) = answer /\ outcome # "none"
  <2>1. mine = [client[t] EXCEPT !.state = "answered"]
    BY <1>7, <1>10
  <2>2. client[t].state = "waiting" /\ client[t].answer # Service!NoAnswer
    <3>1. client[t].answer.outcome # "none"
      BY <1>7, <1>10
    <3>. QED
      BY <1>7, <3>1 DEF Service!NoAnswer
  <2>. HIDE DEF mine
  <2>3. client' = [client EXCEPT ![t] = [client[t] EXCEPT !.state = "answered"]]
    BY <1>5, <1>6, <2>1
  <2>4. Service!Return(t)
    BY <1>8, <2>2, <2>3 DEF Service!Return
  <2>. QED
    BY <2>4 DEF Step, Service!Next
<1>. QED
  BY <1>9, <1>10

\* What a reader was told slips away when its attempt is given up.
LEMMA BackOffRefined ==
    ASSUME IndInv, NEW t \in Tasks, call[t].pc = "waiting", AttemptsLeft(call[t]),
           BackOff(t), UNCHANGED backend
    PROVE  Step
<1>. DEFINE c == call[t]
            d == [c EXCEPT !.pc = "backoff", !.reply = NoReply]
<1>1. call' = [call EXCEPT ![t] = d] /\ wire' = wire /\ sent' = sent
  BY DEF BackOff
<1>2. Shaped(c, sent) /\ c \in Calls
  BY DEF IndInv, CallsOK, CallOK
<1>3. /\ d.pc = "backoff" /\ d.reply = NoReply /\ d.op = c.op /\ d.conv = c.conv
      /\ d.actor = c.actor /\ d.key = c.key /\ d.limit = c.limit /\ d.id = c.id
  BY <1>2 DEF Calls
<1>4. c.pc = "waiting" /\ AttemptsLeft(c)
  OBVIOUS
<1>. HIDE DEF c, d
<1>5. client' = [client EXCEPT ![t] = ClientOf(d)] /\ client[t] = ClientOf(c)
  <2>1. client' = [client EXCEPT ![t] = ClientOf(d)]
    BY <1>1, OneClient
  <2>. QED
    BY <2>1 DEF client, c
<1>6. AskOf(d) = AskOf(c)
  BY <1>3 DEF AskOf
<1>7. ClientOf(d) = [state |-> "waiting", ask |-> AskOf(c), id |-> c.id,
                     answer |-> Service!NoAnswer]
  BY <1>3, <1>6, ClientFields, ToldNothing
<1>8. client[t] = [state |-> "waiting", ask |-> AskOf(c), id |-> c.id, answer |-> Told(c)]
  BY <1>4, <1>5, ClientFields
<1>9. client' = [client EXCEPT ![t].answer = Service!NoAnswer]
  <2>1. [client[t] EXCEPT !.answer = Service!NoAnswer] = ClientOf(d)
    BY <1>7, <1>8
  <2>. QED
    BY <1>5, <2>1
<1>10. c.op \in Reads
  <2>1. c.attempt >= 1 /\ c.attempt \in Nat
    BY <1>2, <1>4 DEF Shaped, Calls
  <2>2. c.attempt < Attempts(c.op)
    BY <1>4 DEF AttemptsLeft
  <2>. QED
    BY <2>1, <2>2 DEF Attempts
<1>11. client[t].state = "waiting" /\ client[t].ask.op \in Service!Reads
  BY <1>8, <1>10, SameKinds DEF AskOf
<1>12. UNCHANGED <<sent, Service!store, due>>
  BY <1>1, SameDue DEF Service!store, backend
<1>13. Service!See(t)
  BY <1>9, <1>11, <1>12 DEF Service!See
<1>. QED
  BY <1>13 DEF Step, Service!Next

\* A transport error slips past the client, or its question fails.
LEMMA TransportErrorRefined ==
    ASSUME IndInv, NEW t \in Tasks, TransportError(t)
    PROVE  Step
<1>1. call[t].pc = "waiting" /\ UNCHANGED backend
  BY DEF TransportError
<1>2. CASE AttemptsLeft(call[t])
  BY <1>1, <1>2, BackOffRefined DEF TransportError
<1>3. CASE ~AttemptsLeft(call[t])
  <2>1. Finish(t, "unavailable", << >>)
    BY <1>3 DEF TransportError
  <2>. QED
    BY <1>1, <2>1, FinishRefined
<1>. QED
  BY <1>2, <1>3

\* What a call makes of its answer is what its client was told.
LEMMA ReceiveRefined ==
    ASSUME IndInv, NEW t \in Tasks, Receive(t)
    PROVE  Step
<1>. DEFINE c == call[t]
            verdict == Verdict(c)
            result == IF verdict = "ok" THEN c.reply.body ELSE << >>
<1>1. /\ c.pc = "waiting" /\ c.reply # NoReply /\ UNCHANGED backend
      /\ IF verdict = "retry" THEN BackOff(t) ELSE Finish(t, verdict, result)
  BY DEF Receive
<1>2. CASE verdict = "retry"
  <2>1. AttemptsLeft(c)
    BY <1>2 DEF Verdict, BodyVerdict
  <2>. QED
    BY <1>1, <1>2, <2>1, BackOffRefined
<1>3. CASE verdict # "retry"
  <2>1. verdict \in {"ok", "not_found", "unavailable", "crash"}
    BY <1>3 DEF Verdict, BodyVerdict
  <2>2. CASE verdict \in {"unavailable", "crash"}
    <3>1. result = << >>
      BY <2>2
    <3>2. Finish(t, verdict, result)
      BY <1>1, <1>3
    <3>. HIDE DEF verdict, result
    <3>. QED
      BY <1>1, <2>2, <3>1, <3>2, FinishRefined
  <2>3. CASE verdict \in {"ok", "not_found"}
    <3>1. Told(c) = [outcome |-> verdict, result |-> result]
      BY <1>1, <2>3 DEF Told
    <3>2. Finish(t, verdict, result) /\ verdict # "none"
      BY <1>1, <1>3, <2>3
    <3>. HIDE DEF verdict, result
    <3>. QED
      BY <1>1, <3>1, <3>2, FinishRefined
  <2>. QED
    BY <2>1, <2>2, <2>3
<1>. QED
  BY <1>2, <1>3

\* A caller that is cancelled is a client that is gone.
LEMMA CancelRefined ==
    ASSUME IndInv, NEW t \in Tasks, Cancel(t)
    PROVE  Step
<1>1. call' = [call EXCEPT ![t] = NoCall] /\ UNCHANGED <<backend, wire, sent>>
  BY DEF Cancel
<1>2. ClientOf(NoCall) = Service!NoClient
  <2>1. /\ NoCall.pc = "idle" /\ NoCall.id = 0 /\ NoCall.reply = NoReply
        /\ AskOf(NoCall) = [op |-> "none", conv |-> "none", actor |-> "none",
                            key |-> NoKey, limit |-> 0]
    BY DEF NoCall, AskOf
  <2>. QED
    BY <2>1, ClientFields, ToldNothing DEF Service!NoClient, Service!Question
<1>3. client' = [client EXCEPT ![t] = Service!NoClient]
  BY <1>1, <1>2, OneClient
<1>4. UNCHANGED <<sent, Service!store, due>>
  BY <1>1, SameDue DEF Service!store, backend
<1>5. Service!Leave(t)
  BY <1>3, <1>4 DEF Service!Leave
<1>. QED
  BY <1>5 DEF Step, Service!Next

-----------------------------------------------------------------------------
(* The network's side                                                      *)

\* What the client of r is told by an answer to r, if it still waits for it.
LEMMA DeliverRefined ==
    ASSUME IndInv, NEW r \in wire, NEW answer, Deliver(r, answer)
    PROVE  \/ client' = client
           \/ /\ call[r.from].pc = "waiting" /\ call[r.from].req = r.n
              /\ client[r.from].state = "waiting" /\ client[r.from].ask = AskOf(r)
              /\ r.op \in Writes => client[r.from].id = r.n
              /\ client' = [client EXCEPT ![r.from].answer =
                              Told([call[r.from] EXCEPT !.reply = answer])]
<1>. DEFINE t == r.from
            c == call[t]
            d == [c EXCEPT !.reply = answer]
<1>1. RequestOK(r, handoffs, sent) /\ t \in Tasks
  BY DEF IndInv, WireOK, RequestOK, Requests
<1>2. c \in Calls /\ Matches(r, c)
  BY <1>1 DEF IndInv, CallsOK
<1>3. call' = [call EXCEPT ![t] = IF c.pc = "waiting" /\ c.req = r.n THEN d ELSE c]
  BY DEF Deliver
<1>4. CASE ~(c.pc = "waiting" /\ c.req = r.n)
  <2>1. call' = [call EXCEPT ![t] = c]
    BY <1>3, <1>4
  <2>. HIDE DEF c
  <2>2. ClientOf(c) = client[t]
    BY <1>1 DEF client, c
  <2>. QED
    BY <1>1, <2>1, <2>2, OneClient
<1>5. CASE c.pc = "waiting" /\ c.req = r.n
  <2>1. call' = [call EXCEPT ![t] = d]
    BY <1>3, <1>5
  <2>2. /\ d.pc = "waiting" /\ d.op = c.op /\ d.conv = c.conv /\ d.actor = c.actor
        /\ d.key = c.key /\ d.limit = c.limit /\ d.id = c.id
    BY <1>2, <1>5 DEF Calls
  <2>3. client[t] = ClientOf(c)
    BY <1>1 DEF client
  <2>. HIDE DEF c, d
  <2>4. client' = [client EXCEPT ![t] = ClientOf(d)]
    BY <1>1, <2>1, OneClient
  <2>5. AskOf(d) = AskOf(c) /\ AskOf(c) = AskOf(r) /\ r.call = c.id
    BY <1>2, <1>5, <2>2 DEF AskOf, Matches
  <2>6. ClientOf(d) = [state |-> "waiting", ask |-> AskOf(c), id |-> c.id, answer |-> Told(d)]
    BY <2>2, <2>5, ClientFields
  <2>7. client[t] = [state |-> "waiting", ask |-> AskOf(c), id |-> c.id, answer |-> Told(c)]
    BY <1>5, <2>3, ClientFields
  <2>8. client' = [client EXCEPT ![t].answer = Told(d)]
    <3>1. [client[t] EXCEPT !.answer = Told(d)] = ClientOf(d)
      BY <2>6, <2>7
    <3>. QED
      BY <2>4, <3>1
  <2>9. client[t].state = "waiting" /\ client[t].ask = AskOf(r)
    BY <2>5, <2>7
  <2>10. r.op \in Writes => client[t].id = r.n
    BY <1>1, <2>5, <2>7 DEF RequestOK
  <2>. QED
    BY <1>5, <2>8, <2>9, <2>10 DEF c, d
<1>. QED
  BY <1>4, <1>5

\* A read that is answered, by the truth or by something that says nothing.
LEMMA ReadRefined ==
    ASSUME IndInv, NEW r \in wire, r.op \in Reads, NEW answer, Deliver(r, answer),
           wire' = wire \ {r}, sent' = sent, UNCHANGED backend,
           call[r.from].pc = "waiting" /\ call[r.from].req = r.n =>
             Told([call[r.from] EXCEPT !.reply = answer])
               \in Service!Truths(AskOf(r)) \cup {Service!NoAnswer}
    PROVE  Step
<1>. DEFINE t == r.from
            told == Told([call[t] EXCEPT !.reply = answer])
<1>1. t \in Tasks
  BY DEF IndInv, WireOK, RequestOK, Requests
<1>2. due' = due
  <2>1. r.op \notin Writes
    BY DEF Reads, Writes
  <2>. QED
    BY <2>1, DueLess
<1>3. UNCHANGED <<sent, Service!store, due>>
  BY <1>2 DEF Service!store, backend
<1>4. CASE client' = client
  BY <1>3, <1>4 DEF Step, Service!vars, Service!store
<1>5. CASE client' # client
  <2>1. /\ call[t].pc = "waiting" /\ call[t].req = r.n
        /\ client[t].state = "waiting" /\ client[t].ask = AskOf(r)
        /\ client' = [client EXCEPT ![t].answer = told]
    BY <1>5, DeliverRefined
  <2>2. told \in Service!Truths(AskOf(r)) \cup {Service!NoAnswer}
    BY <2>1
  <2>3. client[t].ask.op \in Service!Reads
    BY <2>1, SameKinds DEF AskOf
  <2>. HIDE DEF told
  <2>4. Service!See(t)
    BY <1>3, <2>1, <2>2, <2>3 DEF Service!See
  <2>. QED
    BY <1>1, <2>4 DEF Step, Service!Next
<1>. QED
  BY <1>4, <1>5

\* A write that is answered, by its answer or by something that says nothing.
LEMMA WriteTold ==
    ASSUME IndInv, NEW r \in wire, r.op \in Writes, NEW reply, Deliver(r, reply),
           wire' = wire \ {r}, NEW answer,
           call[r.from].pc = "waiting" /\ call[r.from].req = r.n =>
             Told([call[r.from] EXCEPT !.reply = reply]) \in {answer, Service!NoAnswer}
    PROVE  /\ DueOf(r) \in due /\ due' = due \ {DueOf(r)}
           /\ Service!Tell(DueOf(r), answer)
<1>. DEFINE w == DueOf(r)
            told == Told([call[r.from] EXCEPT !.reply = reply])
<1>1. w \in due /\ due' = due \ {w}
  BY DueLess
<1>2. w.from = r.from /\ w.id = r.n
  BY DEF DueOf
<1>. HIDE DEF w
<1>3. ASSUME client' = client PROVE Service!Tell(w, answer)
  BY <1>3 DEF Service!Tell
<1>4. ASSUME client' # client PROVE Service!Tell(w, answer)
  <2>1. /\ call[r.from].pc = "waiting" /\ call[r.from].req = r.n
        /\ client[r.from].state = "waiting" /\ client[r.from].id = r.n
        /\ client' = [client EXCEPT ![r.from].answer = told]
    BY <1>4, DeliverRefined
  <2>2. told \in {answer, Service!NoAnswer}
    BY <2>1
  <2>. HIDE DEF told
  <2>. QED
    BY <1>2, <2>1, <2>2 DEF Service!Tell
<1>5. Service!Tell(w, answer)
  BY <1>3, <1>4
<1>. QED
  BY <1>1, <1>5 DEF w

\* What the answer to r says when it arrives as it was sent.
Says(r) == IF Response(r).status = 200 THEN Service!Ok(Response(r).body)
                                       ELSE Service!NotThere

\* The backend serves, or says that there is no such conversation.
LEMMA ResponseShape ==
    ASSUME NEW r, r.op \in Ops
    PROVE  /\ Response(r).status \in {200, 404} /\ Response(r).form = "good"
           /\ r.op = "handoff" => Response(r).body = << >>
<1>1. /\ NotFound.status = 404 /\ NotFound.form = "good" /\ NotFound.body = << >>
      /\ \A body : /\ Answer(200, body).status = 200 /\ Answer(200, body).form = "good"
                    /\ Answer(200, body).body = body
  BY DEF NotFound, Answer
<1>2. CASE r.op \in Reads
  <2>1. Response(r) = Read(r)
    BY <1>2 DEF Response, Reads
  <2>2. Read(r) = NotFound \/ \E body : Read(r) = Answer(200, body)
    BY <1>2, ZenonT(40) DEF Read, Orders, ReadConversation, Reads
  <2>3. r.op # "handoff"
    BY <1>2 DEF Reads
  <2>. QED
    BY <1>1, <2>1, <2>2, <2>3
<1>3. CASE r.op = "post_assistant_message"
  <2>1. Response(r) = PostAnswer(r)
    BY <1>3 DEF Response, Reads
  <2>. QED
    BY <1>1, <1>3, <2>1 DEF PostAnswer
<1>4. CASE r.op = "handoff"
  BY <1>1, <1>4 DEF Response, Reads
<1>. QED
  BY <1>2, <1>3, <1>4 DEF Ops, Writes

\* A client is told what the answer says, or nothing.
LEMMA ServedTold ==
    ASSUME IndInv, NEW r \in wire, call[r.from].pc = "waiting", call[r.from].req = r.n,
           NEW answer \in {Response(r), Answer(502, << >>)} \cup Spoiled(r)
    PROVE  Told([call[r.from] EXCEPT !.reply = answer]) \in {Says(r), Service!NoAnswer}
<1>. DEFINE c == call[r.from]
            d == [c EXCEPT !.reply = answer]
<1>1. r.from \in Tasks /\ r.op \in Ops
  BY DEF IndInv, WireOK, RequestOK, Requests
<1>2. c \in Calls /\ c.op = r.op
  BY <1>1 DEF IndInv, CallsOK, Matches
<1>3. d.reply = answer /\ d.op = r.op
  BY <1>2 DEF Calls
<1>. HIDE DEF c, d
<1>4. /\ Response(r).status \in {200, 404} /\ Response(r).form = "good"
      /\ r.op = "handoff" => Response(r).body = << >>
  BY <1>1, ResponseShape
<1>5. CASE answer = Response(r)
  <2>1. d.reply.status \in {200, 404} /\ d.reply.form = "good" /\ d.reply = Response(r)
    BY <1>3, <1>4, <1>5
  <2>2. Told(d) = IF d.reply.status = 200 THEN Service!Ok(d.reply.body) ELSE Service!NotThere
    BY <2>1, ToldBy
  <2>. QED
    BY <2>1, <2>2 DEF Says, d, c
<1>6. CASE answer = Answer(502, << >>)
  <2>1. answer.status = 502
    BY <1>6 DEF Answer
  <2>2. Told(d) = Service!NoAnswer
    BY <1>3, <2>1, ToldBy
  <2>. QED
    BY <2>2 DEF d, c
<1>7. CASE answer \in Spoiled(r)
  <2>1. Response(r).status = 200
    BY <1>7 DEF Spoiled
  <2>2. PICK f \in {"garbled", "misfit"} : answer = [Answer(200, << >>) EXCEPT !.form = f]
    BY <1>7, <2>1 DEF Spoiled
  <2>3. answer.status = 200 /\ answer.form # "good" /\ answer.body = << >>
    BY <2>2 DEF Answer
  <2>4. CASE r.op = "handoff"
    <3>1. Told(d) = Service!Ok(<< >>)
      BY <1>3, <2>3, <2>4, ToldBy
    <3>. QED
      BY <1>4, <2>1, <2>4, <3>1 DEF Says, d, c
  <2>5. CASE r.op # "handoff"
    <3>1. Told(d) = Service!NoAnswer
      BY <1>3, <2>3, <2>5, ToldBy
    <3>. QED
      BY <3>1 DEF d, c
  <2>. QED
    BY <2>4, <2>5
<1>. QED
  BY <1>5, <1>6, <1>7 DEF d, c

\* The answer to a read is the truth at that moment.
LEMMA SaysTheTruth ==
    ASSUME NEW r, r.op \in Reads
    PROVE  Says(r) \in Service!Truths(AskOf(r))
<1>. DEFINE q == AskOf(r)
<1>1. /\ q.op = r.op /\ q.conv = r.conv /\ q.actor = r.actor /\ q.limit = r.limit
  BY DEF AskOf
<1>. HIDE DEF q
<1>2. NotFound.status # 200 /\ \A body : /\ Answer(200, body).status = 200
                                         /\ Answer(200, body).body = body
  BY DEF NotFound, Answer
<1>3. Response(r) = Read(r)
  BY DEF Response, Reads
<1>4. CASE r.op = "get_conversation"
  <2>1. Says(r) = IF Visible(r.conv, r.actor) THEN Service!Ok(<<handledBy[r.conv]>>)
                                              ELSE Service!NotThere
    BY <1>2, <1>3, <1>4 DEF Says, Read, ReadConversation
  <2>2. Service!Truths(q) = {IF Service!Visible(q.conv, q.actor)
                               THEN Service!Ok(<<handledBy[q.conv]>>) ELSE Service!NotThere}
    BY <1>1, <1>4 DEF Service!Truths
  <2>. QED
    BY <1>1, <2>1, <2>2, SameKinds DEF q
<1>5. CASE r.op = "get_messages"
  <2>1. Says(r) = IF Visible(r.conv, r.actor)
                    THEN Service!Ok(LastN(messages[r.conv], r.limit))
                    ELSE Service!NotThere
    BY <1>2, <1>3, <1>5 DEF Says, Read, ReadConversation
  <2>2. Service!Truths(q) = {IF Service!Visible(q.conv, q.actor)
                               THEN Service!Ok(Service!LastN(messages[q.conv], q.limit))
                               ELSE Service!NotThere}
    BY <1>1, <1>5 DEF Service!Truths
  <2>. QED
    BY <1>1, <2>1, <2>2, SameKinds DEF q
<1>6. CASE r.op = "list_kb_items"
  <2>1. Says(r) = Service!Ok(<< >>)
    BY <1>2, <1>3, <1>6 DEF Says, Read
  <2>2. Service!Truths(q) = {Service!Ok(<< >>)}
    BY <1>1, <1>6 DEF Service!Truths
  <2>. QED
    BY <2>1, <2>2 DEF q
<1>7. CASE r.op = "get_recent_orders"
  <2>. DEFINE x == IF OrdersOf[r.actor] < r.limit THEN OrdersOf[r.actor] ELSE r.limit
  <2>1. Says(r) = Service!Ok(<<x>>)
    BY <1>2, <1>3, <1>7 DEF Says, Read, Orders
  <2>2. Service!Truths(q) = {Service!Ok(<<x>>), Service!NotThere}
    BY <1>1, <1>7 DEF Service!Truths
  <2>. QED
    BY <2>1, <2>2 DEF q
<1>. QED
  BY <1>4, <1>5, <1>6, <1>7 DEF Reads

\* Serving a request that posts.
LEMMA PostRefined ==
    ASSUME IndInv, NEW r \in wire, r.op = "post_assistant_message", Post(r),
           DueOf(r) \in due, due' = due \ {DueOf(r)}, sent' = sent,
           Service!Tell(DueOf(r), Says(r))
    PROVE  Step
<1>. DEFINE w == DueOf(r)
<1>1. /\ w.ask.op = "post_assistant_message" /\ w.ask.conv = r.conv /\ w.ask.key = r.key
      /\ w \in due /\ due' = due \ {w} /\ Service!Tell(w, Says(r))
  BY DEF DueOf, AskOf
<1>2. RequestOK(r, handoffs, sent) /\ BackendOK
  BY DEF IndInv, WireOK
<1>3. r.key \in Keys /\ r.conv = ConvOf[r.key] /\ KeysOK(messages, idem)
  BY <1>2 DEF RequestOK, BackendOK
<1>4. Response(r) = PostAnswer(r)
  BY DEF Response, Reads
<1>5. /\ NotFound.status # 200
      /\ \A body : Answer(200, body).status = 200 /\ Answer(200, body).body = body
  BY DEF NotFound, Answer
<1>. HIDE DEF w
<1>6. CASE r.conv \notin Known
  <2>1. Says(r) = Service!NotThere
    BY <1>4, <1>5, <1>6 DEF Says, PostAnswer
  <2>2. UNCHANGED <<sent, Service!store>>
    BY <1>6 DEF Post, backend, Service!store
  <2>3. Service!Reject(w)
    BY <1>1, <1>6, <2>1, <2>2 DEF Service!Reject
  <2>. QED
    BY <1>1, <2>3 DEF Step, Service!Next
<1>7. CASE r.conv \in Known /\ idem[r.key] = 0
  <2>1. Write(r)
    BY <1>7 DEF Post
  <2>2. Says(r) = Service!Ok(<<nextId>>)
    BY <1>4, <1>5, <1>7 DEF Says, PostAnswer
  <2>3. \A i \in DOMAIN messages[r.conv] : messages[r.conv][i].key # r.key
    BY <1>3, <1>7, KeysAssumption DEF KeysOK
  <2>4. Service!Post(w)
    BY <1>1, <1>7, <2>1, <2>2, <2>3 DEF Write, Service!Post
  <2>. QED
    BY <1>1, <2>4 DEF Step, Service!Next
<1>8. CASE r.conv \in Known /\ idem[r.key] # 0
  <2>1. Says(r) = Service!Ok(<<idem[r.key]>>)
    BY <1>4, <1>5, <1>8 DEF Says, PostAnswer
  <2>2. PICK i \in DOMAIN messages[r.conv] :
          messages[r.conv][i] = [author |-> "assistant", key |-> r.key, id |-> idem[r.key]]
    BY <1>3, <1>8 DEF KeysOK
  <2>3. messages[r.conv][i].key = r.key /\ messages[r.conv][i].id = idem[r.key]
    BY <2>2
  <2>4. UNCHANGED <<sent, Service!store>>
    BY <1>8 DEF Post, backend, Service!store
  <2>5. Service!PostAgain(w)
    BY <1>1, <1>8, <2>1, <2>3, <2>4 DEF Service!PostAgain
  <2>. QED
    BY <1>1, <2>5 DEF Step, Service!Next
<1>. QED
  BY <1>6, <1>7, <1>8

\* Serving a request that hands over.
LEMMA HandOffRefined ==
    ASSUME IndInv, NEW r \in wire, r.op = "handoff", HandOff(r),
           DueOf(r) \in due, due' = due \ {DueOf(r)}, sent' = sent,
           Service!Tell(DueOf(r), Says(r))
    PROVE  Step
<1>. DEFINE w == DueOf(r)
<1>1. /\ w.ask.op = "handoff" /\ w.ask.conv = r.conv /\ w.id = r.n
      /\ w \in due /\ due' = due \ {w} /\ Service!Tell(w, Says(r))
  BY DEF DueOf, AskOf
<1>2. r.call = r.n
  BY DEF IndInv, WireOK, RequestOK, Writes
<1>3. Response(r) = IF r.conv \in Known THEN Answer(200, << >>) ELSE NotFound
  BY DEF Response, Reads
<1>4. NotFound.status # 200 /\ Answer(200, << >>).status = 200 /\ Answer(200, << >>).body = << >>
  BY DEF NotFound, Answer
<1>. HIDE DEF w
<1>5. CASE r.conv \notin Known
  <2>1. Says(r) = Service!NotThere
    BY <1>3, <1>4, <1>5 DEF Says
  <2>2. UNCHANGED <<sent, Service!store>>
    BY <1>5 DEF HandOff, backend, Service!store
  <2>3. Service!Reject(w)
    BY <1>1, <1>5, <2>1, <2>2 DEF Service!Reject
  <2>. QED
    BY <1>1, <2>3 DEF Step, Service!Next
<1>6. CASE r.conv \in Known
  <2>1. Says(r) = Service!Ok(<< >>)
    BY <1>3, <1>4, <1>6 DEF Says
  <2>2. Service!HandOff(w)
    BY <1>1, <1>2, <1>6, <2>1 DEF HandOff, Service!HandOff
  <2>. QED
    BY <1>1, <2>2 DEF Step, Service!Next
<1>. QED
  BY <1>5, <1>6

\* Serving a request.
LEMMA ServeRefined ==
    ASSUME IndInv, NEW r \in wire, Serve(r)
    PROVE  Step
<1>1. Effect(r) /\ wire' = wire \ {r} /\ sent' = sent
  BY DEF Serve
<1>2. PICK answer \in {Response(r), Answer(502, << >>)} \cup Spoiled(r) : Deliver(r, answer)
  BY DEF Serve
<1>3. r.op \in Ops
  BY DEF IndInv, WireOK, RequestOK, Requests
<1>4. call[r.from].pc = "waiting" /\ call[r.from].req = r.n =>
        Told([call[r.from] EXCEPT !.reply = answer]) \in {Says(r), Service!NoAnswer}
  BY ServedTold
<1>5. CASE r.op \in Reads
  <2>1. UNCHANGED backend
    BY <1>1, <1>5 DEF Effect, Reads
  <2>2. Says(r) \in Service!Truths(AskOf(r))
    BY <1>5, SaysTheTruth
  <2>3. call[r.from].pc = "waiting" /\ call[r.from].req = r.n =>
          Told([call[r.from] EXCEPT !.reply = answer])
            \in Service!Truths(AskOf(r)) \cup {Service!NoAnswer}
    BY <1>4, <2>2
  <2>. QED
    BY <1>1, <1>2, <1>5, <2>1, <2>3, ReadRefined
<1>6. CASE r.op \in Writes
  <2>1. /\ DueOf(r) \in due /\ due' = due \ {DueOf(r)}
        /\ Service!Tell(DueOf(r), Says(r))
    BY <1>1, <1>2, <1>4, <1>6, WriteTold
  <2>2. CASE r.op = "post_assistant_message"
    <3>1. Post(r)
      BY <1>1, <2>2 DEF Effect, Reads
    <3>. QED
      BY <1>1, <2>1, <2>2, <3>1, PostRefined
  <2>3. CASE r.op = "handoff"
    <3>1. HandOff(r)
      BY <1>1, <2>3 DEF Effect, Reads
    <3>. QED
      BY <1>1, <2>1, <2>3, <3>1, HandOffRefined
  <2>. QED
    BY <1>6, <2>2, <2>3 DEF Writes
<1>. QED
  BY <1>3, <1>5, <1>6 DEF Ops

\* A write that will not be carried out any more.
LEMMA Forgotten ==
    ASSUME NEW w \in due, due' = due \ {w}, Service!Tell(w, Service!NoAnswer),
           UNCHANGED <<backend, sent>>
    PROVE  Step
<1>1. UNCHANGED <<sent, Service!store>>
  BY DEF backend, Service!store
<1>2. Service!Forget(w)
  BY <1>1 DEF Service!Forget
<1>. QED
  BY <1>2 DEF Step, Service!Next

\* Refusing a request: a reader is told that there is nothing, or not told at
\* all; a write is forgotten.
LEMMA RefuseRefined ==
    ASSUME IndInv, NEW r \in wire, Refuse(r)
    PROVE  Step
<1>. DEFINE c == call[r.from]
<1>1. UNCHANGED backend /\ wire' = wire \ {r} /\ sent' = sent
  BY DEF Refuse
<1>2. PICK status \in {409, 503} \cup IF r.op = "get_recent_orders" THEN {403} ELSE {} :
         Deliver(r, Answer(status, << >>))
  BY DEF Refuse
<1>. DEFINE answer == Answer(status, << >>)
            d == [c EXCEPT !.reply = answer]
<1>3. r.from \in Tasks /\ r.op \in Ops
  BY DEF IndInv, WireOK, RequestOK, Requests
<1>4. c \in Calls
  BY <1>3 DEF IndInv, CallsOK
<1>5. d.reply.status = status
  BY <1>4 DEF Calls, Answer
<1>6. status \in {409, 503} => Told(d) = Service!NoAnswer
  <2>. HIDE DEF d
  <2>. QED
    BY <1>5, ToldBy
<1>7. status = 403 => Told(d) = Service!NotThere
  <2>. HIDE DEF d
  <2>. QED
    BY <1>5, ToldBy
<1>8. Deliver(r, answer)
  BY <1>2
<1>. HIDE DEF answer
<1>9. CASE r.op \in Reads
  <2>1. CASE status \in {409, 503}
    BY <1>1, <1>6, <1>8, <1>9, <2>1, ReadRefined
  <2>2. CASE r.op = "get_recent_orders" /\ status = 403
    <3>1. Service!NotThere \in Service!Truths(AskOf(r))
      BY <2>2 DEF AskOf, Service!Truths
    <3>. QED
      BY <1>1, <1>7, <1>8, <1>9, <2>2, <3>1, ReadRefined
  <2>. QED
    BY <1>2, <2>1, <2>2
<1>10. CASE r.op \in Writes
  <2>1. status \in {409, 503}
    BY <1>2, <1>10 DEF Writes
  <2>2. Told(d) \in {Service!NoAnswer, Service!NoAnswer}
    BY <1>6, <2>1
  <2>3. /\ DueOf(r) \in due /\ due' = due \ {DueOf(r)}
        /\ Service!Tell(DueOf(r), Service!NoAnswer)
    BY <1>1, <1>8, <1>10, <2>2, WriteTold
  <2>. QED
    BY <1>1, <2>3, Forgotten
<1>. QED
  BY <1>3, <1>9, <1>10 DEF Ops

\* Losing a request.
LEMMA LoseRefined ==
    ASSUME IndInv, NEW r \in wire, Lose(r)
    PROVE  Step
<1>1. UNCHANGED backend /\ wire' = wire \ {r} /\ sent' = sent /\ call' = call
  BY DEF Lose
<1>2. client' = client
  BY <1>1, SameClients
<1>3. CASE r.op \in Writes
  <2>1. DueOf(r) \in due /\ due' = due \ {DueOf(r)}
    BY <1>1, <1>3, DueLess
  <2>2. Service!Tell(DueOf(r), Service!NoAnswer)
    BY <1>2 DEF Service!Tell
  <2>. QED
    BY <1>1, <2>1, <2>2, Forgotten
<1>4. CASE r.op \notin Writes
  <2>1. due' = due
    BY <1>1, <1>4, DueLess
  <2>. QED
    BY <1>1, <1>2, <2>1 DEF Step, Service!vars, backend
<1>. QED
  BY <1>3, <1>4

\* The backend's other users do the same in both specifications.
LEMMA OthersRefined ==
    ASSUME \/ \E conv \in Known : CustomerWrites(conv)
           \/ \E conv \in Known, handler \in Handlers : SetHandledBy(conv, handler)
    PROVE  Step
<1>1. ASSUME wire' = wire, call' = call PROVE client' = client /\ due' = due
  BY <1>1, SameClients, SameDue
<1>2. ASSUME NEW conv \in Known, CustomerWrites(conv) PROVE Step
  <2>1. Service!CustomerWrites(conv)
    BY <1>1, <1>2 DEF CustomerWrites, Service!CustomerWrites
  <2>. QED
    BY <2>1 DEF Step, Service!Next
<1>3. ASSUME NEW conv \in Known, NEW handler \in Handlers, SetHandledBy(conv, handler)
      PROVE  Step
  <2>1. Service!SetHandledBy(conv, handler)
    BY <1>1, <1>3 DEF SetHandledBy, Service!SetHandledBy
  <2>. QED
    BY <2>1, SameKinds DEF Step, Service!Next
<1>. QED
  BY <1>2, <1>3

\* Every step of the connector is a step of the service or a stutter.
LEMMA StepRefined == IndInv /\ [Next]_vars => [Service!Next]_(Service!vars)
<1>. SUFFICES ASSUME IndInv, [Next]_vars PROVE Step
  BY DEF Step
<1>1. \A t \in Readers \cup Writers : t \in Tasks
  BY RolesAssumption
<1>2. CASE \E t \in Readers : StartGetConversation(t) \/ StartGetMessages(t)
  BY <1>1, <1>2, StartsRefined
<1>3. CASE \E t \in Readers : StartListKbItems(t) \/ StartGetRecentOrders(t)
  BY <1>1, <1>3, StartsRefined
<1>4. CASE \E t \in Writers : StartPost(t) \/ StartHandoff(t)
  BY <1>1, <1>4, StartsRefined
<1>5. CASE \E t \in Tasks : Progress(t)
  BY <1>5, TransportErrorRefined, ReceiveRefined, RetryRefined DEF Progress
<1>6. CASE \E t \in Tasks : Cancel(t)
  BY <1>6, CancelRefined
<1>7. CASE \E r \in wire : Serve(r)
  BY <1>7, ServeRefined
<1>8. CASE \E r \in wire : Refuse(r)
  BY <1>8, RefuseRefined
<1>9. CASE \E r \in wire : Lose(r)
  BY <1>9, LoseRefined
<1>10. CASE \/ \E conv \in Known : CustomerWrites(conv)
            \/ \E conv \in Known, handler \in Handlers : SetHandledBy(conv, handler)
  BY <1>10, OthersRefined
<1>11. CASE UNCHANGED vars
  <2>1. /\ handledBy' = handledBy /\ messages' = messages /\ nextId' = nextId
        /\ handoffs' = handoffs /\ sent' = sent /\ wire' = wire /\ call' = call
    BY <1>11 DEF vars
  <2>2. client' = client /\ due' = due
    BY <2>1, SameClients, SameDue
  <2>. QED
    BY <2>1, <2>2 DEF Step, Service!vars
<1>. QED
  BY <1>2, <1>3, <1>4, <1>5, <1>6, <1>7, <1>8, <1>9, <1>10, <1>11 DEF Next

\* The connector, whatever the network does and however often it tries, is to
\* its callers a service that answers a read with the truth of one moment
\* between call and return, and carries a write out at one moment, once or never.
THEOREM ServiceImplemented == Spec => ImplementsConversations
<1>1. Init => Service!Init
  BY ServiceInit
<1>2. IndInv /\ [Next]_vars => [Service!Next]_(Service!vars)
  BY StepRefined
<1>3. Spec => []IndInv
  BY Invariance
<1>. QED
  BY <1>1, <1>2, <1>3, PTL DEF Spec, Service!Spec, ImplementsConversations
=============================================================================
