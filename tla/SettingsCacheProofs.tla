------------------------ MODULE SettingsCacheProofs -------------------------
(***************************************************************************)
(* Proofs about SettingsCache, for every number of processes, tasks, keys  *)
(* and values, every TTL and every pool size.                              *)
(***************************************************************************)
EXTENDS SettingsCacheProps, TLAPS

USE KeysAssumption, ValuesAssumption, TTLAssumption, ProcOfAssumption,
    RolesAssumption, MaxTimeAssumption

-----------------------------------------------------------------------------
(* The helpers                                                             *)

\* A fallback is a value.
LEMMA FallbackIsValue ==
    ASSUME NEW k \in Keys, NEW d \in Defaults
    PROVE  Fallback(k, d) \in Values
BY DEF Fallback, DEFAULTS

\* What get returns is a value, whether the key has a row or not.
LEMMA ValueOfIsValue ==
    ASSUME NEW row \in Rows, NEW v \in Values
    PROVE  ValueOf(row, v) \in Values
BY DEF ValueOf, Rows

\* get renders the row it read.
LEMMA ValueOfRenders ==
    ASSUME NEW k \in Keys, NEW d \in Defaults, NEW row \in Rows
    PROVE  Renders(k, ValueOf(row, Fallback(k, d)), row)
BY DEF Renders, ValueOf

\* The empty call and the empty entry are well typed.
LEMMA NoCallTyped == NoCall \in Calls /\ NoEntry \in Entries
BY DEF NoCall, Calls, NoEntry, Entries, Ops, PCs, Rows

-----------------------------------------------------------------------------
(* The inductive invariant                                                 *)

\* The arguments of a call are what its callers may pass.
ArgsOK == \A t \in Tasks : /\ call[t].op = "get" => call[t].default \in Defaults
                           /\ call[t].op = "set" => call[t].value \in Values

\* Nothing bears a time that has not come yet.
Dated == /\ clock >= TTL
         /\ \A t \in Tasks : call[t].start <= clock
         /\ \A p \in Procs, k \in Keys : cache[p][k].expiry <= clock + TTL

\* A row in the hands of a get was in the table after the get was called.
RowFresh(t) == call[t].op = "get" /\ call[t].pc = "close"
                 => Held(call[t].key, call[t].row, call[t].start)

RowHeld == \A t \in Tasks : RowFresh(t)

IndInv == TypeOK /\ ArgsOK /\ Dated /\ RowHeld /\ CacheBoundedStale /\ GetBoundedStale

\* The same, cut by task and by cache entry.
Domains == /\ clock \in Nat /\ clock >= TTL
           /\ db \in [Keys -> Rows]
           /\ lastHeld \in [Keys -> [Rows -> Nat]]
           /\ dbUp \in BOOLEAN
           /\ cache \in [Procs -> [Keys -> Entries]]
           /\ call \in [Tasks -> Calls]

TaskOK(t) == /\ call[t].op = "get" => call[t].default \in Defaults
             /\ call[t].op = "set" => call[t].value \in Values
             /\ call[t].op = "get" /\ call[t].pc = "done" => call[t].value \in Values
             /\ call[t].start <= clock
             /\ RowFresh(t) /\ AnswerFresh(t)

EntryOK(p, k) == /\ cache[p][k] # NoEntry => cache[p][k].value \in Values
                 /\ cache[p][k].expiry <= clock + TTL
                 /\ EntryFresh(p, k)

LEMMA Assembled ==
    ASSUME Domains', \A t \in Tasks : TaskOK(t)',
           \A p \in Procs, k \in Keys : EntryOK(p, k)'
    PROVE  IndInv'
BY DEF Domains, TaskOK, EntryOK, IndInv, TypeOK, ArgsOK, Dated, RowHeld,
   CacheBoundedStale, GetBoundedStale

-----------------------------------------------------------------------------
(* Steps, seen as what they leave alone                                    *)

\* The steps of a call that touch neither the table nor the cache.
Quiet(t) == \/ Acquire(t) \/ GetRow(t) \/ GetFail(t) \/ SetFail(t) \/ Cancel(t)
            \/ \E k \in Keys, d \in Defaults : GetHit(t, k, d) \/ GetMiss(t, k, d)
            \/ \E k \in Keys, v \in Values : SetStart(t, k, v)

\* Every step is one of these.
LEMMA NextCases ==
    ASSUME Next
    PROVE  \/ \E t \in Tasks : Quiet(t)
           \/ \E t \in Tasks : GetReturn(t)
           \/ \E t \in Tasks : SetCommit(t) \/ SetCommitLost(t)
           \/ \E t \in Tasks : SetReturn(t)
           \/ \E p \in Procs : ClearCache(p) \/ Restart(p)
           \/ Tick \/ DbDown \/ DbBack
BY DEF Next, Progress, Quiet

\* What was in the table at time s or later still was, after any step.
LEMMA HeldStable ==
    ASSUME TypeOK, [Next]_vars, NEW k \in Keys, NEW row \in Rows,
           NEW s \in Int, s <= clock, Held(k, row, s)
    PROVE  Held(k, row, s)'
<1>1. CASE UNCHANGED <<db, lastHeld>>
  BY <1>1 DEF Held
<1>2. CASE \E t \in Tasks : Committed(t)
  <2>1. PICK t \in Tasks : Committed(t)
    BY <1>2
  <2>2. /\ call[t].key \in Keys /\ db[call[t].key] \in Rows
        /\ lastHeld' = [lastHeld EXCEPT ![call[t].key][db[call[t].key]] = clock]
        /\ db' = [db EXCEPT ![call[t].key] = call[t].value]
    BY <2>1 DEF Committed, TypeOK, Calls
  <2>3. CASE db[k] = row /\ call[t].key = k
    <3>1. lastHeld'[k][row] = clock
      BY <2>2, <2>3 DEF TypeOK
    <3> QED  BY <3>1 DEF Held
  <2>4. CASE db[k] = row /\ call[t].key # k
    BY <2>2, <2>4 DEF Held, TypeOK
  <2>5. CASE lastHeld[k][row] >= s
    <3>1. lastHeld'[k][row] = clock \/ lastHeld'[k][row] = lastHeld[k][row]
      BY <2>2 DEF TypeOK
    <3> QED  BY <2>5, <3>1 DEF Held
  <2> QED  BY <2>3, <2>4, <2>5 DEF Held
<1>3. UNCHANGED <<db, lastHeld>> \/ \E t \in Tasks : Committed(t)
  <2>1. CASE UNCHANGED vars
    BY <2>1 DEF vars
  <2>2. CASE Next
    BY <2>2, NextCases DEF Quiet, Acquire, GetRow, GetFail, SetFail, Cancel, GetHit,
       GetMiss, SetStart, GetReturn, SetCommit, SetCommitLost, SetReturn,
       ClearCache, Restart, Tick, DbDown, DbBack
  <2> QED  BY <2>1, <2>2
<1> QED  BY <1>1, <1>2, <1>3

-----------------------------------------------------------------------------
(* What the actions do to the calls                                        *)

\* A task whose call is replaced by c has c, and the others keep theirs.
LEMMA Replaced ==
    ASSUME TypeOK, NEW t \in Tasks, NEW c \in Calls, call' = [call EXCEPT ![t] = c]
    PROVE  /\ call' \in [Tasks -> Calls]
           /\ call'[t] = c
           /\ \A u \in Tasks \ {t} : call'[u] = call[u]
BY DEF TypeOK

\* The end of a call changes its outcome and leaves its question.
LEMMA Ended ==
    ASSUME TypeOK, NEW t \in Tasks, NEW v \in Rows, NEW f \in BOOLEAN, End(t, v, f)
    PROVE  /\ call' \in [Tasks -> Calls]
           /\ call'[t] = [call[t] EXCEPT !.pc = "done", !.row = NoRow, !.value = v,
                                        !.failed = f, !.broken = FALSE]
           /\ \A u \in Tasks \ {t} : call'[u] = call[u]
<1> DEFINE c == [call[t] EXCEPT !.pc = "done", !.row = NoRow, !.value = v,
                               !.failed = f, !.broken = FALSE]
<1>1. c \in Calls
  <2>1. NoRow \in Rows /\ call[t] \in Calls
    BY DEF TypeOK, Rows
  <2> QED  BY <2>1 DEF Calls, PCs
<1>2. call' = [call EXCEPT ![t] = c]
  BY DEF End
<1> QED  BY <1>1, <1>2, Replaced

\* What a quiet step of t makes of its call.
LEMMA QuietEffect ==
    ASSUME IndInv, NEW t \in Tasks, Quiet(t)
    PROVE  /\ UNCHANGED <<clock, db, lastHeld, dbUp, cache>>
           /\ call' \in [Tasks -> Calls]
           /\ \A u \in Tasks \ {t} : call'[u] = call[u]
           /\ call'[t].op = "get" => call'[t].default \in Defaults
           /\ call'[t].op = "set" => call'[t].value \in Values
           /\ call'[t].start <= clock
           /\ call'[t].op = "get" /\ call'[t].pc = "close"
                => Held(call'[t].key, call'[t].row, call'[t].start)
           /\ call'[t].op = "get" /\ call'[t].pc = "done"
                => \/ /\ call'[t].failed
                      /\ call'[t].value = Fallback(call'[t].key, call'[t].default)
                   \/ /\ ~call'[t].failed
                      /\ call'[t].start = clock
                      /\ LET e == cache[ProcOf[t]][call'[t].key] IN
                           Live(e, clock) /\ call'[t].value = e.value
<1>0. /\ call \in [Tasks -> Calls] /\ call[t] \in Calls /\ clock \in Nat
      /\ call[t].op = "get" => call[t].default \in Defaults
      /\ call[t].op = "set" => call[t].value \in Values
      /\ call[t].start <= clock
      /\ NoCall \in Calls /\ NoCall.start = 0 /\ NoCall.op = "none"
  BY NoCallTyped DEF IndInv, TypeOK, ArgsOK, Dated, NoCall
<1>1. CASE Acquire(t)
  <2> DEFINE c == [call[t] EXCEPT !.pc = "query"]
  <2>1. c \in Calls /\ call' = [call EXCEPT ![t] = c]
    BY <1>0, <1>1 DEF Acquire, Calls, PCs
  <2> QED  BY <1>0, <1>1, <2>1, Replaced DEF Acquire, IndInv, Calls
<1>2. CASE GetRow(t)
  <2> DEFINE c == [call[t] EXCEPT !.pc = "close", !.row = db[call[t].key]]
  <2>1. c \in Calls /\ call' = [call EXCEPT ![t] = c]
    BY <1>0, <1>2 DEF GetRow, Calls, PCs, IndInv, TypeOK
  <2> QED  BY <1>0, <1>2, <2>1, Replaced DEF GetRow, IndInv, Calls, Held
<1>3. CASE GetFail(t)
  <2> DEFINE v == Fallback(call[t].key, call[t].default)
  <2>1. call[t].op = "get" /\ End(t, v, TRUE) /\ UNCHANGED <<clock, db, lastHeld, dbUp, cache>>
    BY <1>3 DEF GetFail
  <2>2. call[t].key \in Keys /\ call[t].default \in Defaults
    BY <1>0, <2>1 DEF Calls
  <2>3. v \in Rows
    BY <2>2, FallbackIsValue DEF Rows
  <2>4. /\ call' \in [Tasks -> Calls]
        /\ \A u \in Tasks \ {t} : call'[u] = call[u]
        /\ call'[t] = [call[t] EXCEPT !.pc = "done", !.row = NoRow, !.value = v,
                                     !.failed = TRUE, !.broken = FALSE]
    BY <2>1, <2>3, Ended DEF IndInv
  <2>5. /\ call'[t].op = "get" /\ call'[t].pc = "done" /\ call'[t].failed
        /\ call'[t].key = call[t].key /\ call'[t].default = call[t].default
        /\ call'[t].start <= clock /\ call'[t].value = v
    BY <1>0, <2>1, <2>4 DEF Calls
  <2>6. call'[t].value = Fallback(call'[t].key, call'[t].default)
    BY <2>5
  <2>7. call'[t].op # "set" /\ call'[t].pc # "close" /\ call'[t].default \in Defaults
    BY <2>2, <2>5
  <2> HIDE DEF v
  <2> QED  BY <2>1, <2>4, <2>5, <2>6, <2>7
<1>4. CASE SetFail(t)
  <2> DEFINE v == call[t].value
  <2>1. /\ call[t].op = "set" /\ End(t, v, TRUE)
        /\ UNCHANGED <<clock, db, lastHeld, dbUp, cache>>
    BY <1>4 DEF SetFail
  <2>2. v \in Rows /\ v \in Values
    BY <1>0, <2>1 DEF Rows
  <2> HIDE DEF v
  <2>3. /\ call' \in [Tasks -> Calls]
        /\ \A u \in Tasks \ {t} : call'[u] = call[u]
        /\ call'[t] = [call[t] EXCEPT !.pc = "done", !.row = NoRow, !.value = v,
                                     !.failed = TRUE, !.broken = FALSE]
    BY <2>1, <2>2, Ended DEF IndInv
  <2>4. call'[t].op = "set" /\ call'[t].value = v /\ call'[t].start <= clock
    BY <1>0, <2>1, <2>3 DEF Calls
  <2> QED  BY <2>1, <2>2, <2>3, <2>4
<1>5. CASE Cancel(t)
  BY <1>0, <1>5, Replaced DEF Cancel, IndInv
<1>6. CASE \E k \in Keys, d \in Defaults : GetHit(t, k, d)
  <2>1. PICK k \in Keys, d \in Defaults : GetHit(t, k, d)
    BY <1>6
  <2> DEFINE e == cache[ProcOf[t]][k]
             c == [NoCall EXCEPT !.op = "get", !.pc = "done", !.key = k,
                                 !.default = d, !.start = clock, !.value = e.value]
  <2>2. e \in Entries
    BY DEF IndInv, TypeOK
  <2>3. c \in Calls /\ call' = [call EXCEPT ![t] = c]
    BY <1>0, <2>1, <2>2 DEF GetHit, Calls, PCs, Ops, Rows, Entries
  <2>4. /\ c.op = "get" /\ c.pc = "done" /\ c.key = k /\ c.default = d
        /\ c.start = clock /\ c.value = e.value /\ c.failed = FALSE
    BY DEF NoCall
  <2>5. call'[t] = c
    BY <2>3, Replaced DEF IndInv
  <2> QED  BY <1>0, <2>1, <2>3, <2>4, <2>5, Replaced DEF GetHit, IndInv
<1>7. CASE \E k \in Keys, d \in Defaults : GetMiss(t, k, d)
  <2>1. PICK k \in Keys, d \in Defaults : GetMiss(t, k, d)
    BY <1>7
  <2> DEFINE c == [NoCall EXCEPT !.op = "get", !.pc = "acquire", !.key = k,
                                 !.default = d, !.start = clock]
  <2>2. c \in Calls /\ call' = [call EXCEPT ![t] = c]
    BY <1>0, <2>1 DEF GetMiss, Calls, PCs, Ops, Rows
  <2>3. c.op = "get" /\ c.pc = "acquire" /\ c.default = d /\ c.start = clock
    BY DEF NoCall
  <2> QED  BY <1>0, <2>1, <2>2, <2>3, Replaced DEF GetMiss, IndInv
<1>8. CASE \E k \in Keys, v \in Values : SetStart(t, k, v)
  <2>1. PICK k \in Keys, v \in Values : SetStart(t, k, v)
    BY <1>8
  <2> DEFINE c == [NoCall EXCEPT !.op = "set", !.pc = "acquire", !.key = k, !.value = v]
  <2>2. c \in Calls /\ call' = [call EXCEPT ![t] = c]
    BY <1>0, <2>1 DEF SetStart, Calls, PCs, Ops, Rows
  <2>3. c.op = "set" /\ c.value = v /\ c.start = 0
    BY DEF NoCall
  <2> QED  BY <1>0, <2>1, <2>2, <2>3, Replaced DEF SetStart, IndInv
<1> QED  BY <1>1, <1>2, <1>3, <1>4, <1>5, <1>6, <1>7, <1>8 DEF Quiet

\* The end of a get or a set in time: GetReturn and SetReturn, SetCommitLost.
LEMMA EndOfGet ==
    ASSUME IndInv, NEW t \in Tasks, GetReturn(t)
    PROVE  LET c == call[t]
               v == ValueOf(c.row, Fallback(c.key, c.default)) IN
           /\ UNCHANGED <<clock, db, lastHeld, dbUp>>
           /\ c.key \in Keys /\ c.default \in Defaults /\ c.row \in Rows /\ c.start \in Nat
           /\ c.start <= clock
           /\ v \in Values
           /\ Held(c.key, c.row, c.start) /\ Renders(c.key, v, c.row)
           /\ cache' = [cache EXCEPT ![ProcOf[t]][c.key] =
                                      [expiry |-> c.start + TTL, value |-> v]]
           /\ call' \in [Tasks -> Calls]
           /\ \A u \in Tasks \ {t} : call'[u] = call[u]
           /\ call'[t].op = "get" /\ call'[t].pc = "done" /\ ~call'[t].failed
           /\ call'[t].key = c.key /\ call'[t].start = c.start
           /\ call'[t].default = c.default /\ call'[t].value = v
<1> DEFINE c == call[t]
           v == ValueOf(c.row, Fallback(c.key, c.default))
<1>1. /\ c.op = "get" /\ c.pc = "close"
      /\ cache' = [cache EXCEPT ![ProcOf[t]][c.key] =
                                      [expiry |-> c.start + TTL, value |-> v]]
      /\ End(t, v, FALSE)
      /\ UNCHANGED <<clock, db, lastHeld, dbUp>>
  BY DEF GetReturn, Expiry
<1>2. c \in Calls /\ c.default \in Defaults /\ c.start <= clock
  BY <1>1 DEF IndInv, TypeOK, ArgsOK, Dated
<1>3. c.key \in Keys /\ c.row \in Rows /\ c.start \in Nat
  BY <1>2 DEF Calls
<1>4. Held(c.key, c.row, c.start)
  BY <1>1 DEF IndInv, RowHeld, RowFresh
<1>5. v \in Values /\ v \in Rows /\ Renders(c.key, v, c.row)
  BY <1>2, <1>3, FallbackIsValue, ValueOfIsValue, ValueOfRenders DEF Rows
<1> HIDE DEF v
<1>6. /\ call' \in [Tasks -> Calls]
      /\ \A u \in Tasks \ {t} : call'[u] = call[u]
      /\ call'[t] = [c EXCEPT !.pc = "done", !.row = NoRow, !.value = v,
                             !.failed = FALSE, !.broken = FALSE]
  BY <1>1, <1>5, Ended DEF IndInv
<1>7. /\ call'[t].op = "get" /\ call'[t].pc = "done" /\ ~call'[t].failed
      /\ call'[t].key = c.key /\ call'[t].start = c.start
      /\ call'[t].default = c.default /\ call'[t].value = v
  BY <1>1, <1>2, <1>6 DEF Calls
<1> QED  BY <1>1, <1>2, <1>3, <1>4, <1>5, <1>6, <1>7 DEF v

\* The steps of a set that write the table or the cache leave it a set.
LEMMA SetEffect ==
    ASSUME IndInv, NEW t \in Tasks, SetCommit(t) \/ SetCommitLost(t) \/ SetReturn(t)
    PROVE  /\ call[t].key \in Keys /\ call[t].value \in Values
           /\ call' \in [Tasks -> Calls]
           /\ \A u \in Tasks \ {t} : call'[u] = call[u]
           /\ call'[t].op = "set" /\ call'[t].value \in Values
           /\ call'[t].start <= clock
<1> DEFINE v == call[t].value
<1>1. /\ call[t] \in Calls /\ call[t].op = "set" /\ v \in Values /\ v \in Rows
      /\ call[t].start <= clock
  BY DEF SetCommit, SetCommitLost, SetReturn, Committed, IndInv, TypeOK, ArgsOK, Dated, Rows
<1> HIDE DEF v
<1>2. CASE SetCommit(t)
  <2> DEFINE c == [call[t] EXCEPT !.pc = "close"]
  <2>1. c \in Calls
    BY <1>1 DEF Calls, PCs
  <2>2. call' = [call EXCEPT ![t] = c]
    BY <1>2 DEF SetCommit
  <2>3. c.op = "set" /\ c.value = v /\ c.start <= clock
    BY <1>1 DEF Calls, v
  <2> QED  BY <1>1, <2>1, <2>2, <2>3, Replaced DEF IndInv, Calls, v
<1>3. CASE SetCommitLost(t)
  <2>1. End(t, v, TRUE)
    BY <1>3 DEF SetCommitLost, v
  <2>2. /\ call' \in [Tasks -> Calls]
        /\ \A u \in Tasks \ {t} : call'[u] = call[u]
        /\ call'[t] = [call[t] EXCEPT !.pc = "done", !.row = NoRow, !.value = v,
                                     !.failed = TRUE, !.broken = FALSE]
    BY <1>1, <2>1, Ended DEF IndInv
  <2>3. call'[t].op = "set" /\ call'[t].value = v /\ call'[t].start <= clock
    BY <1>1, <2>2 DEF Calls
  <2> QED  BY <1>1, <2>2, <2>3 DEF Calls, v
<1>4. CASE SetReturn(t)
  <2>1. End(t, v, FALSE)
    BY <1>4 DEF SetReturn, v
  <2>2. /\ call' \in [Tasks -> Calls]
        /\ \A u \in Tasks \ {t} : call'[u] = call[u]
        /\ call'[t] = [call[t] EXCEPT !.pc = "done", !.row = NoRow, !.value = v,
                                     !.failed = FALSE, !.broken = FALSE]
    BY <1>1, <2>1, Ended DEF IndInv
  <2>3. call'[t].op = "set" /\ call'[t].value = v /\ call'[t].start <= clock
    BY <1>1, <2>2 DEF Calls
  <2> QED  BY <1>1, <2>2, <2>3 DEF Calls, v
<1> QED  BY <1>2, <1>3, <1>4

-----------------------------------------------------------------------------
(* What no step of another task disturbs                                   *)

LEMMA ClockGrows ==
    ASSUME TypeOK, [Next]_vars
    PROVE  clock' \in Nat /\ clock <= clock'
<1>1. UNCHANGED clock \/ Tick
  BY NextCases DEF vars, Quiet, Acquire, GetRow, GetFail, SetFail, Cancel, GetHit,
     GetMiss, SetStart, GetReturn, SetCommit, SetCommitLost, SetReturn, ClearCache,
     Restart, DbDown, DbBack
<1> QED  BY <1>1 DEF Tick, TypeOK

\* A call that a step leaves alone keeps what the invariant says of it.
LEMMA CallStable ==
    ASSUME IndInv, [Next]_vars, NEW t \in Tasks, call'[t] = call[t]
    PROVE  TaskOK(t)'
<1>1. /\ call[t].key \in Keys /\ call[t].row \in Rows /\ call[t].start \in Nat
      /\ call[t].start <= clock /\ clock \in Nat
      /\ call[t].start - TTL + 1 \in Int /\ call[t].start - TTL + 1 <= clock
  BY DEF IndInv, TypeOK, Calls, Dated
<1>2. clock' \in Nat /\ clock <= clock'
  BY ClockGrows DEF IndInv
<1>3. RowFresh(t)'
  <2>1. call[t].op = "get" /\ call[t].pc = "close"
          => Held(call[t].key, call[t].row, call[t].start)'
    BY <1>1, HeldStable DEF IndInv, RowHeld, RowFresh
  <2> QED  BY <2>1 DEF RowFresh, Held
<1>4. AnswerFresh(t)'
  <2> DEFINE k == call[t].key
             s == call[t].start - TTL + 1
  <2>1. SUFFICES ASSUME call[t].op = "get", call[t].pc = "done", ~call[t].failed
                 PROVE  \E row \in Rows : Held(k, row, s)' /\ Renders(k, call[t].value, row)
    BY DEF AnswerFresh, Held, IndInv, GetBoundedStale
  <2>2. PICK row \in Rows : Held(k, row, s) /\ Renders(k, call[t].value, row)
    BY <2>1 DEF IndInv, GetBoundedStale, AnswerFresh
  <2>3. Held(k, row, s)'
    BY <1>1, <2>2, HeldStable DEF IndInv
  <2> QED  BY <2>2, <2>3
<1> QED  BY <1>1, <1>2, <1>3, <1>4 DEF TaskOK, IndInv, TypeOK, ArgsOK

\* So does an entry that a step leaves alone or removes.
LEMMA EntryStable ==
    ASSUME IndInv, [Next]_vars, NEW p \in Procs, NEW k \in Keys,
           cache'[p][k] = cache[p][k] \/ cache'[p][k] = NoEntry
    PROVE  EntryOK(p, k)'
<1> DEFINE e == cache[p][k]
<1>1. clock \in Nat /\ clock' \in Nat /\ clock <= clock'
  BY ClockGrows DEF IndInv, TypeOK
<1>2. CASE cache'[p][k] = NoEntry
  BY <1>1, <1>2 DEF EntryOK, EntryFresh, NoEntry
<1>3. CASE cache'[p][k] = e /\ e # NoEntry
  <2>1. e.expiry \in Nat /\ e.expiry <= clock + TTL /\ e.value \in Values
    BY <1>3 DEF IndInv, TypeOK, Entries, Dated
  <2>2. PICK row \in Rows : Held(k, row, e.expiry - TTL) /\ Renders(k, e.value, row)
    BY <1>3 DEF IndInv, CacheBoundedStale, EntryFresh
  <2>3. Held(k, row, e.expiry - TTL)'
    <3>1. e.expiry - TTL \in Int /\ e.expiry - TTL <= clock
      BY <1>1, <2>1
    <3>2. Held(k, row, e.expiry - TTL) => (db'[k] = row \/ lastHeld'[k][row] >= e.expiry - TTL)
      BY <2>2, <3>1, HeldStable DEF IndInv, Held
    <3> QED  BY <1>3, <2>2, <3>2 DEF Held
  <2> QED  BY <1>1, <1>3, <2>1, <2>2, <2>3 DEF EntryOK, EntryFresh, Held
<1> QED  BY <1>2, <1>3

-----------------------------------------------------------------------------
(* The invariant                                                           *)

LEMMA IndInvInit == Init => IndInv
<1> SUFFICES ASSUME Init PROVE IndInv
  OBVIOUS
<1>1. TypeOK
  BY NoCallTyped DEF Init, TypeOK, NoCall, Rows
<1>2. ArgsOK /\ RowHeld /\ GetBoundedStale
  BY DEF Init, ArgsOK, RowHeld, RowFresh, GetBoundedStale, AnswerFresh, NoCall
<1>3. CacheBoundedStale
  BY DEF Init, CacheBoundedStale, EntryFresh
<1>4. Dated
  BY DEF Init, Dated, NoCall, NoEntry
<1> QED  BY <1>1, <1>2, <1>3, <1>4 DEF IndInv

\* One step per kind of action; what it touches is shown to be in order, and
\* CallStable and EntryStable see to the rest.
LEMMA IndInvStep == IndInv /\ [Next]_vars => IndInv'
<1> SUFFICES ASSUME IndInv, [Next]_vars PROVE IndInv'
  OBVIOUS
<1> USE DEF Domains
<1>0. Domains /\ TypeOK /\ clock' \in Nat /\ clock <= clock'
  BY ClockGrows DEF IndInv, TypeOK, Dated
<1>1. ASSUME NEW t \in Tasks, Quiet(t) PROVE IndInv'
  <2>1. Domains' /\ \A p \in Procs, k \in Keys : EntryOK(p, k)'
    BY <1>0, <1>1, QuietEffect, EntryStable
  <2>2. \A u \in Tasks \ {t} : TaskOK(u)'
    BY <1>1, QuietEffect, CallStable
  <2>3. TaskOK(t)'
    <3>1. call'[t] \in Calls /\ call'[t].key \in Keys /\ ProcOf[t] \in Procs
      BY <1>1, QuietEffect DEF Calls
    <3>2. AnswerFresh(t)' /\ (call'[t].op = "get" /\ call'[t].pc = "done"
                                => call'[t].value \in Values)
      <4> SUFFICES ASSUME call'[t].op = "get", call'[t].pc = "done"
                   PROVE  AnswerFresh(t)' /\ call'[t].value \in Values
        BY DEF AnswerFresh
      <4>1. CASE call'[t].failed
        <5>1. call'[t].value = Fallback(call'[t].key, call'[t].default)
          BY <1>1, <4>1, QuietEffect
        <5>2. call'[t].default \in Defaults
          BY <1>1, QuietEffect
        <5> QED  BY <3>1, <4>1, <5>1, <5>2, FallbackIsValue DEF AnswerFresh
      <4>2. CASE ~call'[t].failed
        <5> DEFINE k == call'[t].key
                   e == cache[ProcOf[t]][k]
        <5>1. call'[t].start = clock /\ Live(e, clock) /\ call'[t].value = e.value
          BY <1>1, <4>2, QuietEffect
        <5>2. e # NoEntry /\ e.expiry \in Nat /\ e.value \in Values
          BY <1>0, <3>1, <5>1 DEF Live, NoEntry, TypeOK, Entries
        <5>3. PICK row \in Rows : Held(k, row, e.expiry - TTL) /\ Renders(k, e.value, row)
          BY <3>1, <5>2 DEF IndInv, CacheBoundedStale, EntryFresh
        <5>4. Held(k, row, clock - TTL + 1)
          <6>1. lastHeld[k][row] \in Nat
            BY <1>0, <3>1, <5>3 DEF TypeOK
          <6> QED  BY <1>0, <5>1, <5>2, <5>3, <6>1 DEF Live, Held
        <5>5. UNCHANGED <<clock, db, lastHeld>>
          BY <1>1, QuietEffect
        <5> QED  BY <4>2, <5>1, <5>2, <5>3, <5>4, <5>5 DEF AnswerFresh, Held
      <4> QED  BY <4>1, <4>2
    <3> QED  BY <1>1, <3>1, <3>2, QuietEffect DEF TaskOK, RowFresh, Held
  <2> QED  BY <2>1, <2>2, <2>3, Assembled
<1>2. ASSUME NEW t \in Tasks, GetReturn(t) PROVE IndInv'
  <2> DEFINE c == call[t]
             v == ValueOf(c.row, Fallback(c.key, c.default))
             e == [expiry |-> c.start + TTL, value |-> v]
  <2>1. /\ UNCHANGED <<clock, db, lastHeld, dbUp>>
        /\ c.key \in Keys /\ c.default \in Defaults /\ c.row \in Rows
        /\ c.start \in Nat /\ c.start <= clock /\ v \in Values
        /\ Held(c.key, c.row, c.start) /\ Renders(c.key, v, c.row)
        /\ cache' = [cache EXCEPT ![ProcOf[t]][c.key] = e]
        /\ call' \in [Tasks -> Calls]
        /\ \A u \in Tasks \ {t} : call'[u] = call[u]
        /\ call'[t].op = "get" /\ call'[t].pc = "done" /\ ~call'[t].failed
        /\ call'[t].key = c.key /\ call'[t].start = c.start
        /\ call'[t].default = c.default /\ call'[t].value = v
    BY <1>2, EndOfGet
  <2> HIDE DEF v
  <2>2. e \in Entries /\ e.expiry - TTL = c.start /\ e.value = v
    BY <2>1 DEF Entries, Rows
  <2>3. Domains'
    BY <1>0, <2>1, <2>2 DEF TypeOK
  <2>4. \A u \in Tasks \ {t} : TaskOK(u)'
    BY <2>1, CallStable
  <2>5. TaskOK(t)'
    <3>1. lastHeld[c.key][c.row] \in Nat
      BY <1>0, <2>1 DEF TypeOK
    <3>2. Held(c.key, c.row, c.start - TTL + 1)
      BY <2>1, <3>1 DEF Held
    <3> QED  BY <2>1, <3>2 DEF TaskOK, RowFresh, AnswerFresh, Held
  <2>6. ASSUME NEW p \in Procs, NEW k \in Keys PROVE EntryOK(p, k)'
    <3>1. CASE p = ProcOf[t] /\ k = c.key
      <4>1. cache'[p][k] = e
        BY <1>0, <2>1, <3>1 DEF TypeOK
      <4> QED  BY <1>0, <2>1, <2>2, <3>1, <4>1 DEF EntryOK, EntryFresh, Held
    <3>2. CASE ~(p = ProcOf[t] /\ k = c.key)
      <4>1. cache'[p][k] = cache[p][k]
        BY <1>0, <2>1, <3>2 DEF TypeOK
      <4> QED  BY <4>1, EntryStable
    <3> QED  BY <3>1, <3>2
  <2> QED  BY <2>3, <2>4, <2>5, <2>6, Assembled
<1>3. ASSUME NEW t \in Tasks, SetCommit(t) \/ SetCommitLost(t) PROVE IndInv'
  <2>1. /\ UNCHANGED <<clock, dbUp, cache>> /\ Committed(t)
        /\ call[t].key \in Keys /\ call[t].value \in Values
        /\ call' \in [Tasks -> Calls]
        /\ \A u \in Tasks \ {t} : call'[u] = call[u]
        /\ call'[t].op = "set" /\ call'[t].value \in Values /\ call'[t].start <= clock
    BY <1>3, SetEffect DEF SetCommit, SetCommitLost
  <2>2. Domains'
    BY <1>0, <2>1 DEF Committed, TypeOK, Rows
  <2>3. \A u \in Tasks \ {t} : TaskOK(u)'
    BY <2>1, CallStable
  <2>4. TaskOK(t)'
    BY <2>1 DEF TaskOK, RowFresh, AnswerFresh
  <2>5. \A p \in Procs, k \in Keys : EntryOK(p, k)'
    BY <2>1, EntryStable
  <2> QED  BY <2>2, <2>3, <2>4, <2>5, Assembled
<1>4. ASSUME NEW t \in Tasks, SetReturn(t) PROVE IndInv'
  <2>1. /\ UNCHANGED <<clock, db, lastHeld, dbUp>>
        /\ cache' = [cache EXCEPT ![ProcOf[t]][call[t].key] = NoEntry]
        /\ call' \in [Tasks -> Calls]
        /\ \A u \in Tasks \ {t} : call'[u] = call[u]
        /\ call'[t].op = "set" /\ call'[t].value \in Values /\ call'[t].start <= clock
    BY <1>4, SetEffect DEF SetReturn
  <2>2. Domains'
    BY <1>0, <2>1, NoCallTyped DEF TypeOK
  <2>3. \A u \in Tasks \ {t} : TaskOK(u)'
    BY <2>1, CallStable
  <2>4. TaskOK(t)'
    BY <2>1 DEF TaskOK, RowFresh, AnswerFresh
  <2>5. ASSUME NEW p \in Procs, NEW k \in Keys PROVE EntryOK(p, k)'
    <3>1. cache'[p][k] = cache[p][k] \/ cache'[p][k] = NoEntry
      BY <1>0, <2>1 DEF TypeOK
    <3> QED  BY <3>1, EntryStable
  <2> QED  BY <2>2, <2>3, <2>4, <2>5, Assembled
<1>5. ASSUME NEW p \in Procs, ClearCache(p) \/ Restart(p) PROVE IndInv'
  <2>1. /\ UNCHANGED <<clock, db, lastHeld, dbUp>>
        /\ cache' = [cache EXCEPT ![p] = [k \in Keys |-> NoEntry]]
        /\ call' \in [Tasks -> Calls]
        /\ \A u \in Tasks : call'[u] = call[u] \/ call'[u] = NoCall
    BY <1>0, <1>5, NoCallTyped DEF ClearCache, Restart, TypeOK
  <2>2. Domains'
    BY <1>0, <2>1, NoCallTyped DEF TypeOK
  <2>3. ASSUME NEW u \in Tasks PROVE TaskOK(u)'
    <3>1. CASE call'[u] = call[u]
      BY <3>1, CallStable
    <3>2. CASE call'[u] = NoCall
      BY <1>0, <3>2 DEF TaskOK, RowFresh, AnswerFresh, NoCall
    <3> QED  BY <2>1, <3>1, <3>2
  <2>4. ASSUME NEW q \in Procs, NEW k \in Keys PROVE EntryOK(q, k)'
    <3>1. cache'[q][k] = cache[q][k] \/ cache'[q][k] = NoEntry
      BY <1>0, <2>1 DEF TypeOK
    <3> QED  BY <3>1, EntryStable
  <2> QED  BY <2>2, <2>3, <2>4, Assembled
<1>6. CASE Tick \/ DbBack \/ UNCHANGED vars
  <2>1. UNCHANGED <<db, lastHeld, cache, call>> /\ dbUp' \in BOOLEAN
    BY <1>0, <1>6 DEF Tick, DbBack, vars, TypeOK
  <2>2. Domains'
    BY <1>0, <2>1 DEF TypeOK
  <2>3. \A u \in Tasks : TaskOK(u)'
    BY <2>1, CallStable
  <2>4. \A p \in Procs, k \in Keys : EntryOK(p, k)'
    BY <2>1, EntryStable
  <2> QED  BY <2>2, <2>3, <2>4, Assembled
<1>7. CASE DbDown
  <2>1. UNCHANGED <<clock, db, lastHeld, cache>> /\ dbUp' \in BOOLEAN
    BY <1>7 DEF DbDown
  <2>2. ASSUME NEW u \in Tasks
        PROVE  /\ call'[u] \in Calls
               /\ call'[u].op = call[u].op /\ call'[u].pc = call[u].pc
               /\ call'[u].key = call[u].key /\ call'[u].default = call[u].default
               /\ call'[u].start = call[u].start /\ call'[u].row = call[u].row
               /\ call'[u].value = call[u].value /\ call'[u].failed = call[u].failed
    <3>1. call'[u] = [call[u] EXCEPT !.broken = OnTheWire(u)]
      BY <1>7 DEF DbDown
    <3>2. call[u] \in Calls /\ OnTheWire(u) \in BOOLEAN
      BY <1>0 DEF TypeOK, OnTheWire
    <3> QED  BY <3>1, <3>2 DEF Calls
  <2>3. Domains'
    <3>1. call' \in [Tasks -> Calls]
      BY <1>7, <2>2 DEF DbDown
    <3> QED  BY <1>0, <2>1, <3>1 DEF TypeOK
  <2>4. ASSUME NEW u \in Tasks PROVE TaskOK(u)'
    BY <1>0, <2>1, <2>2 DEF TaskOK, RowFresh, AnswerFresh, Held, IndInv, TypeOK, ArgsOK,
       Dated, RowHeld, GetBoundedStale
  <2>5. \A p \in Procs, k \in Keys : EntryOK(p, k)'
    BY <2>1, EntryStable
  <2> QED  BY <2>3, <2>4, <2>5, Assembled
<1> QED  BY <1>1, <1>2, <1>3, <1>4, <1>5, <1>6, <1>7, NextCases

\* The invariant holds in every reachable state.
THEOREM Invariance == Spec => []IndInv
<1> QED  BY IndInvInit, IndInvStep, PTL DEF Spec

\* The variables stay in their domains, and what is cached or returned is a
\* value (get never caches or returns a missing row).
THEOREM TypeCorrect == Spec => []TypeOK
<1>1. IndInv => TypeOK
  BY DEF IndInv
<1> QED  BY <1>1, Invariance, PTL

\* No process caches a value with more than TTL of staleness ahead of it,
\* however fills, commits, failures and restarts interleave.
THEOREM CacheIsBoundedStale == Spec => []CacheBoundedStale
<1>1. IndInv => CacheBoundedStale
  BY DEF IndInv
<1> QED  BY <1>1, Invariance, PTL

\* get answers with a value the table held less than TTL before the call, or
\* with the fallback when the read failed.
THEOREM GetIsBoundedStale == Spec => []GetBoundedStale
<1>1. IndInv => GetBoundedStale
  BY DEF IndInv
<1> QED  BY <1>1, Invariance, PTL

\* The mode acted on is "live" only if an administrator stored "live".
THEOREM LiveIsStored == Spec => []LiveOnlyIfStored
<1>1. IndInv => LiveOnlyIfStored
  <2> SUFFICES ASSUME IndInv, NEW t \in Tasks,
                      call[t].op = "get", call[t].pc = "done",
                      call[t].key = AUTO_MODE, AutoMode(call[t].value) = "live"
               PROVE  Held(AUTO_MODE, "live", call[t].start - TTL + 1)
    BY DEF LiveOnlyIfStored
  <2>1. call[t].value = "live"
    BY DEF AutoMode, AUTO_MODE, DEFAULTS
  <2>2. \A d : Fallback(AUTO_MODE, d) = "shadow"
    BY DEF Fallback, DEFAULTS
  <2>3. AnswerFresh(t)
    BY DEF IndInv, GetBoundedStale
  <2>4. ~call[t].failed
    BY <2>1, <2>2, <2>3 DEF AnswerFresh
  <2> QED  BY <2>1, <2>2, <2>3, <2>4 DEF AnswerFresh, Renders
<1> QED  BY <1>1, Invariance, PTL
=============================================================================
