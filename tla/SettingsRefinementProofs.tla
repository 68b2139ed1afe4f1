---------------------- MODULE SettingsRefinementProofs ----------------------
(***************************************************************************)
(* The cached settings implement the register that lags by less than TTL:  *)
(* every step of SettingsCache is a step of SettingsRegister or a stutter  *)
(* under the mapping of SettingsCacheProps.                                *)
(***************************************************************************)
EXTENDS SettingsCacheProofs

Step == Register!Next \/ UNCHANGED Register!vars

\* Held is the same predicate in the two specifications.
LEMMA SameHeld ==
    ASSUME NEW k, NEW row, NEW s, Held(k, row, s)
    PROVE  Register!Held(k, row, s)
BY DEF Held, Register!Held

\* What was held at time s or later was held at an earlier time or later.
LEMMA HeldEarlier ==
    ASSUME NEW k, NEW row, NEW s \in Nat, lastHeld[k][row] \in Nat, Held(k, row, s)
    PROVE  Held(k, row, s - TTL + 1)
BY TTLAssumption DEF Held

\* A step that changes the call of t alone changes the client of t alone.
LEMMA OneClient ==
    ASSUME NEW t \in Tasks, \A u \in Tasks \ {t} : call'[u] = call[u]
    PROVE  client' = [client EXCEPT ![t] = ClientOf(call'[t])]
BY DEF client

\* One that leaves the client of t as it was, and the table, is a stutter.
LEMMA Stutter ==
    ASSUME UNCHANGED <<clock, db, lastHeld>>, NEW t \in Tasks,
           \A u \in Tasks \ {t} : call'[u] = call[u],
           ClientOf(call'[t]) = ClientOf(call[t])
    PROVE  Step
<1>1. client' = client
  BY DEF client
<1> QED  BY <1>1 DEF Step, Register!vars

\* One that turns t to something other than a get is a departure.
LEMMA Departure ==
    ASSUME UNCHANGED <<clock, db, lastHeld>>, NEW S \in SUBSET Tasks,
           \A u \in Tasks \ S : call'[u] = call[u],
           \A u \in S : call'[u].op # "get"
    PROVE  Step
<1>1. client' = [t \in Tasks |-> IF t \in S THEN Register!NoClient ELSE client[t]]
  BY DEF client, ClientOf, Register!NoClient, AUTO_MODE, Register!AUTO_MODE
<1>2. Register!Leave(S)
  BY <1>1 DEF Register!Leave
<1> QED  BY <1>2 DEF Step, Register!Next

\* One that ends the get of t with an allowed answer is an answer.
LEMMA Reply ==
    ASSUME UNCHANGED <<clock, db, lastHeld>>, NEW t \in Tasks, IndInv,
           \A u \in Tasks \ {t} : call'[u] = call[u],
           call[t].op = "get", call[t].pc # "done",
           NEW v \in Values, NEW f \in BOOLEAN,
           Register!Allowed(call[t].key, call[t].default, call[t].start, v, f),
           call'[t].op = "get", call'[t].pc = "done", call'[t].key = call[t].key,
           call'[t].default = call[t].default, call'[t].start = call[t].start,
           call'[t].value = v, call'[t].failed = f
    PROVE  Step
<1>1. /\ client[t].state = "waiting" /\ client[t].key = call[t].key
      /\ client[t].default = call[t].default /\ client[t].start = call[t].start
  BY DEF client, ClientOf
<1>2. ClientOf(call'[t]) = Register!Answered(call[t].key, call[t].default, call[t].start, v, f)
  BY DEF ClientOf, Register!Answered
<1>3. Register!Answer(t, v, f)
  BY <1>1, <1>2, OneClient DEF Register!Answer
<1> QED  BY <1>3 DEF Step, Register!Next

\* The initial states are initial states of the register.
LEMMA RefinementInit == Init => Register!Init
<1> SUFFICES ASSUME Init PROVE Register!Init
  OBVIOUS
<1>1. client = [t \in Tasks |-> Register!NoClient]
  BY DEF Init, client, ClientOf, NoCall, Register!NoClient, AUTO_MODE, Register!AUTO_MODE
<1> QED  BY <1>1 DEF Init, Register!Init, Register!Rows, Rows, AUTO_MODE, Register!AUTO_MODE

LEMMA SameFallback ==
    ASSUME NEW k, NEW d
    PROVE  Register!Fallback(k, d) = Fallback(k, d)
BY DEF Fallback, Register!Fallback, DEFAULTS, Register!DEFAULTS, AUTO_MODE, Register!AUTO_MODE

\* An answer the invariant vouches for is one the register allows.
LEMMA FreshIsAllowed ==
    ASSUME NEW k \in Keys, NEW d, NEW s, NEW v, NEW row \in Rows,
           Held(k, row, s - TTL + 1), Renders(k, v, row)
    PROVE  Register!Allowed(k, d, s, v, FALSE)
<1>1. Register!Renders(k, v, row)
  BY SameFallback DEF Renders, Register!Renders
<1> QED  BY <1>1, SameHeld DEF Register!Allowed, Register!Rows, Rows

LEMMA FallbackIsAllowed ==
    ASSUME NEW k, NEW d, NEW s
    PROVE  Register!Allowed(k, d, s, Fallback(k, d), TRUE)
BY SameFallback DEF Register!Allowed

-----------------------------------------------------------------------------
(* The steps                                                               *)

LEMMA RefineQuiet ==
    ASSUME IndInv, IndInv', NEW t \in Tasks, Quiet(t)
    PROVE  Step
<1>0. /\ UNCHANGED <<clock, db, lastHeld>>
      /\ \A u \in Tasks \ {t} : call'[u] = call[u]
  BY QuietEffect
<1>1. /\ call \in [Tasks -> Calls] /\ call[t] \in Calls /\ clock \in Nat
      /\ NoCall \in Calls
      /\ call[t].op = "get" => call[t].default \in Defaults
  BY NoCallTyped DEF IndInv, TypeOK, ArgsOK
<1>2. CASE Acquire(t)
  <2>1. call'[t] = [call[t] EXCEPT !.pc = "query"]
    BY <1>1, <1>2 DEF Acquire
  <2>2. ClientOf(call'[t]) = ClientOf(call[t])
    BY <1>1, <1>2, <2>1 DEF Acquire, ClientOf, Calls
  <2> QED  BY <1>0, <2>2, Stutter
<1>3. CASE GetRow(t)
  <2>1. call'[t] = [call[t] EXCEPT !.pc = "close", !.row = db[call[t].key]]
    BY <1>1, <1>3 DEF GetRow
  <2>2. ClientOf(call'[t]) = ClientOf(call[t])
    BY <1>1, <1>3, <2>1 DEF GetRow, ClientOf, Calls
  <2> QED  BY <1>0, <2>2, Stutter
<1>4. CASE GetFail(t)
  <2> DEFINE v == Fallback(call[t].key, call[t].default)
  <2>1. /\ call[t].op = "get" /\ call[t].pc # "done" /\ End(t, v, TRUE)
    BY <1>4 DEF GetFail, ReadFails, OnTheWire
  <2>2. v \in Values /\ Register!Allowed(call[t].key, call[t].default, call[t].start, v, TRUE)
    BY <1>1, <2>1, FallbackIsValue, FallbackIsAllowed DEF Calls
  <2> HIDE DEF v
  <2>3. call'[t] = [call[t] EXCEPT !.pc = "done", !.row = NoRow, !.value = v,
                                 !.failed = TRUE, !.broken = FALSE]
    BY <2>1, <2>2, Ended DEF IndInv, Rows
  <2>4. /\ call'[t].op = "get" /\ call'[t].pc = "done" /\ call'[t].key = call[t].key
        /\ call'[t].default = call[t].default /\ call'[t].start = call[t].start
        /\ call'[t].value = v /\ call'[t].failed = TRUE
    BY <1>1, <2>1, <2>3 DEF Calls
  <2> QED  BY <1>0, <2>1, <2>2, <2>4, Reply
<1>5. CASE SetFail(t) \/ Cancel(t) \/ \E k \in Keys, w \in Values : SetStart(t, k, w)
  <2>1. call'[t].op # "get"
    <3>1. CASE SetFail(t)
      <4> DEFINE v == call[t].value
      <4>1. call[t].op = "set" /\ End(t, v, TRUE) /\ v \in Rows
        BY <1>1, <3>1 DEF SetFail, Calls
      <4> HIDE DEF v
      <4>2. call'[t] = [call[t] EXCEPT !.pc = "done", !.row = NoRow, !.value = v,
                                     !.failed = TRUE, !.broken = FALSE]
        BY <4>1, Ended DEF IndInv
      <4> QED  BY <1>1, <4>1, <4>2 DEF Calls
    <3>2. CASE Cancel(t)
      BY <1>1, <3>2 DEF Cancel, NoCall
    <3>3. CASE \E k \in Keys, w \in Values : SetStart(t, k, w)
      BY <1>1, <3>3 DEF SetStart, NoCall
    <3> QED  BY <1>5, <3>1, <3>2, <3>3
  <2> DEFINE S == {t}
  <2>2. S \in SUBSET Tasks /\ \A u \in S : call'[u].op # "get"
    BY <2>1
  <2> QED  BY <1>0, <2>2, Departure
<1>6. CASE \E k \in Keys, d \in Defaults : GetHit(t, k, d)
  <2>1. PICK k \in Keys, d \in Defaults : GetHit(t, k, d)
    BY <1>6
  <2> DEFINE v == cache[ProcOf[t]][k].value
  <2>2. call'[t] = [NoCall EXCEPT !.op = "get", !.pc = "done", !.key = k,
                                 !.default = d, !.start = clock, !.value = v]
    BY <1>1, <2>1 DEF GetHit
  <2>3. /\ call'[t].op = "get" /\ call'[t].pc = "done" /\ call'[t].key = k
        /\ call'[t].default = d /\ call'[t].start = clock /\ call'[t].value = v
        /\ call'[t].failed = FALSE
    BY <2>2 DEF NoCall
  <2> HIDE DEF v
  <2>4. v \in Values
    BY <2>3 DEF IndInv, TypeOK
  <2>5. PICK row \in Rows : Held(k, row, clock - TTL + 1)' /\ Renders(k, v, row)
    BY <1>0, <2>3 DEF IndInv, GetBoundedStale, AnswerFresh, Held
  <2>6. Register!Allowed(k, d, clock, v, FALSE)
    <3>1. Held(k, row, clock - TTL + 1)
      BY <1>0, <2>5 DEF Held
    <3> QED  BY <2>5, <3>1, FreshIsAllowed
  <2>7. ClientOf(call'[t]) = Register!Answered(k, d, clock, v, FALSE)
    BY <2>3 DEF ClientOf, Register!Answered
  <2>8. Register!AskAndAnswer(t, k, d, v)
    BY <1>0, <2>6, <2>7, OneClient DEF Register!AskAndAnswer
  <2> QED  BY <2>4, <2>8 DEF Step, Register!Next
<1>7. CASE \E k \in Keys, d \in Defaults : GetMiss(t, k, d)
  <2>1. PICK k \in Keys, d \in Defaults : GetMiss(t, k, d)
    BY <1>7
  <2>2. call'[t] = [NoCall EXCEPT !.op = "get", !.pc = "acquire", !.key = k,
                                 !.default = d, !.start = clock]
    BY <1>1, <2>1 DEF GetMiss
  <2>3. ClientOf(call'[t]) = Register!Waiting(k, d, clock)
    BY <2>2 DEF NoCall, ClientOf, Register!Waiting
  <2>4. Register!Ask(t, k, d)
    BY <1>0, <2>3, OneClient DEF Register!Ask
  <2> QED  BY <2>4 DEF Step, Register!Next
<1> QED  BY <1>2, <1>3, <1>4, <1>5, <1>6, <1>7 DEF Quiet

LEMMA RefineGetReturn ==
    ASSUME IndInv, NEW t \in Tasks, GetReturn(t)
    PROVE  Step
<1> DEFINE c == call[t]
           v == ValueOf(c.row, Fallback(c.key, c.default))
<1>1. /\ UNCHANGED <<clock, db, lastHeld>>
      /\ c.key \in Keys /\ c.row \in Rows /\ c.start \in Nat /\ v \in Values
      /\ Held(c.key, c.row, c.start) /\ Renders(c.key, v, c.row)
      /\ \A u \in Tasks \ {t} : call'[u] = call[u]
      /\ call'[t].op = "get" /\ call'[t].pc = "done" /\ ~call'[t].failed
      /\ call'[t].key = c.key /\ call'[t].start = c.start
      /\ call'[t].default = c.default /\ call'[t].value = v
      /\ call' \in [Tasks -> Calls]
  BY EndOfGet
<1>2. c.op = "get" /\ c.pc # "done"
  BY DEF GetReturn
<1> HIDE DEF v
<1>3. call'[t].failed = FALSE
  BY <1>1 DEF Calls
<1>4. lastHeld[c.key][c.row] \in Nat
  BY <1>1 DEF IndInv, TypeOK
<1>5. Held(c.key, c.row, c.start - TTL + 1)
  BY <1>1, <1>4, HeldEarlier
<1>6. Register!Allowed(c.key, c.default, c.start, v, FALSE)
  BY <1>1, <1>5, FreshIsAllowed
<1> QED  BY <1>1, <1>2, <1>3, <1>6, Reply

LEMMA RefineCommit ==
    ASSUME IndInv, NEW t \in Tasks, SetCommit(t) \/ SetCommitLost(t)
    PROVE  Step
<1>1. /\ UNCHANGED clock /\ Committed(t)
      /\ call[t].key \in Keys /\ call[t].value \in Values /\ call[t].op = "set"
      /\ \A u \in Tasks \ {t} : call'[u] = call[u]
      /\ call'[t].op = "set"
  BY SetEffect DEF SetCommit, SetCommitLost, Committed
<1>2. client' = client
  BY <1>1 DEF client, ClientOf
<1>3. Register!Store(call[t].key, call[t].value)
  BY <1>1, <1>2 DEF Register!Store, Committed
<1> QED  BY <1>1, <1>3 DEF Step, Register!Next

\* Every step of the implementation is a step of the register or a stutter.
LEMMA RefinementStep == IndInv /\ IndInv' /\ [Next]_vars => Step
<1> SUFFICES ASSUME IndInv, IndInv', [Next]_vars PROVE Step
  OBVIOUS
<1>1. CASE \E t \in Tasks : Quiet(t)
  BY <1>1, RefineQuiet
<1>2. CASE \E t \in Tasks : GetReturn(t)
  BY <1>2, RefineGetReturn
<1>3. CASE \E t \in Tasks : SetCommit(t) \/ SetCommitLost(t)
  BY <1>3, RefineCommit
<1>4. ASSUME NEW t \in Tasks, SetReturn(t) PROVE Step
  <2>1. /\ UNCHANGED <<clock, db, lastHeld>>
        /\ \A u \in Tasks \ {t} : call'[u] = call[u]
        /\ call'[t].op = "set" /\ call[t].op = "set"
    BY <1>4, SetEffect DEF SetReturn
  <2>2. ClientOf(call'[t]) = ClientOf(call[t])
    BY <2>1 DEF ClientOf
  <2> QED  BY <2>1, <2>2, Stutter
<1>5. ASSUME NEW p \in Procs, ClearCache(p) \/ Restart(p) PROVE Step
  <2> DEFINE S == {t \in Tasks : call'[t] # call[t]}
  <2>1. /\ UNCHANGED <<clock, db, lastHeld>>
        /\ \A u \in S : call'[u] = NoCall
    BY <1>5 DEF ClearCache, Restart
  <2>2. \A u \in S : call'[u].op # "get"
    BY <2>1 DEF NoCall
  <2> QED  BY <2>1, <2>2, Departure
<1>6. CASE Tick
  <2>1. client' = client
    BY <1>6 DEF Tick, client
  <2> QED  BY <1>6, <2>1 DEF Step, Register!Next, Register!Tick, Tick
<1>7. CASE DbBack \/ UNCHANGED vars
  <2>1. client' = client
    BY <1>7 DEF DbBack, vars, client
  <2> QED  BY <1>7, <2>1 DEF Step, Register!vars, DbBack, vars
<1>8. CASE DbDown
  <2>1. ASSUME NEW u \in Tasks PROVE ClientOf(call'[u]) = ClientOf(call[u])
    <3>1. call'[u] = [call[u] EXCEPT !.broken = OnTheWire(u)]
      BY <1>8 DEF DbDown
    <3>2. call[u] \in Calls
      BY DEF IndInv, TypeOK
    <3> QED  BY <3>1, <3>2 DEF Calls, ClientOf
  <2>2. client' = client
    BY <2>1 DEF client
  <2> QED  BY <1>8, <2>2 DEF Step, Register!vars, DbDown
<1> QED  BY <1>1, <1>2, <1>3, <1>4, <1>5, <1>6, <1>7, <1>8, NextCases

\* The cached settings implement the register.
THEOREM Refinement == Spec => ImplementsRegister
<1>1. IndInv /\ IndInv' /\ [Next]_vars => [Register!Next]_Register!vars
  BY RefinementStep DEF Step
<1> QED  BY <1>1, RefinementInit, Invariance, PTL DEF Spec, ImplementsRegister, Register!Spec
=============================================================================
