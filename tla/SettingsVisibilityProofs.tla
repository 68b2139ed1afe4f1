---------------------- MODULE SettingsVisibilityProofs ----------------------
(***************************************************************************)
(* Proof of what a process sees of its own set, for every number of        *)
(* processes, tasks, keys and values, every TTL and every pool size.       *)
(***************************************************************************)
EXTENDS SettingsVisibility, SettingsCacheProofs

-----------------------------------------------------------------------------
(* The inductive invariant                                                 *)

\* The gets of process p that hold the row of k hold the one in the table.
GetsSee(p, k) ==
    \A t \in Tasks : /\ ProcOf[t] = p /\ call[t].key = k
                     /\ call[t].op = "get" /\ call[t].pc = "close"
                     => call[t].row = db[k]

\* A row that set stored is a value, what is cached of it is that value, and
\* no get is about to cache another.
Seen(p, k) == db[k] \in Values /\ Current(p, k) /\ GetsSee(p, k)

VisInv == /\ quiet \in [Procs -> SUBSET Keys]
          /\ \A p \in Procs : \A k \in quiet[p] : Seen(p, k)

-----------------------------------------------------------------------------
(* The steps                                                               *)

\* A get that holds a row held it before the step, or has just read it.
LEMMA RowInHand ==
    ASSUME IndInv, Next, NEW t \in Tasks, call'[t].op = "get", call'[t].pc = "close"
    PROVE  \/ /\ call[t].op = "get" /\ call[t].pc = "close"
              /\ call'[t].key = call[t].key /\ call'[t].row = call[t].row
           \/ call'[t].row = db[call'[t].key]
<1>. DEFINE Goal == \/ /\ call[t].op = "get" /\ call[t].pc = "close"
                       /\ call'[t].key = call[t].key /\ call'[t].row = call[t].row
                    \/ call'[t].row = db[call'[t].key]
<1>1. TypeOK /\ call \in [Tasks -> Calls] /\ NoCall \in Calls
  BY NoCallTyped DEF IndInv, TypeOK
<1>2. call[t] \in Calls
  BY <1>1
<1>3. ASSUME call'[t] = call[t] PROVE Goal
  BY <1>3
<1>4. ASSUME NEW u \in Tasks, NEW v, NEW f, End(u, v, f) PROVE Goal
  <2>1. CASE u = t
    <3>1. call'[t].pc = "done"
      BY <1>1, <1>2, <1>4, <2>1 DEF End, Calls
    <3>. QED
      BY <3>1
  <2>2. CASE u # t
    BY <1>1, <1>3, <1>4, <2>2 DEF End
  <2>. QED
    BY <2>1, <2>2
<1>5. ASSUME NEW u \in Tasks, Quiet(u) PROVE Goal
  <2>1. CASE Acquire(u)
    <3>1. u # t
      BY <1>1, <1>2, <2>1 DEF Acquire, Calls
    <3>. QED
      BY <1>1, <1>3, <2>1, <3>1 DEF Acquire
  <2>2. CASE GetRow(u)
    <3>1. CASE u = t
      <4>1. call'[t] = [call[t] EXCEPT !.pc = "close", !.row = db[call[t].key]]
        BY <1>1, <2>2, <3>1 DEF GetRow
      <4>. QED
        BY <1>2, <4>1 DEF Calls
    <3>2. CASE u # t
      BY <1>1, <1>3, <2>2, <3>2 DEF GetRow
    <3>. QED
      BY <3>1, <3>2
  <2>3. CASE GetFail(u) \/ SetFail(u)
    BY <1>4, <2>3 DEF GetFail, SetFail
  <2>4. CASE Cancel(u)
    BY <1>1, <1>3, <2>4 DEF Cancel, NoCall
  <2>5. CASE \E k \in Keys, d \in Defaults : GetHit(u, k, d) \/ GetMiss(u, k, d)
    BY <1>1, <1>3, <2>5, ZenonT(40) DEF GetHit, GetMiss, NoCall
  <2>6. CASE \E k \in Keys, v \in Values : SetStart(u, k, v)
    BY <1>1, <1>3, <2>6 DEF SetStart, NoCall
  <2>. QED
    BY <1>5, <2>1, <2>2, <2>3, <2>4, <2>5, <2>6 DEF Quiet
<1>6. ASSUME NEW u \in Tasks, SetCommit(u) PROVE Goal
  <2>1. call' = [call EXCEPT ![u].pc = "close"] /\ call[u].op = "set"
    BY <1>6 DEF SetCommit, Committed
  <2>2. CASE u = t
    <3>1. call'[t].op = "set"
      BY <1>1, <1>2, <2>1, <2>2 DEF Calls
    <3>. QED
      BY <3>1
  <2>3. CASE u # t
    BY <1>1, <1>3, <2>1, <2>3
  <2>. QED
    BY <2>2, <2>3
<1>7. ASSUME NEW u \in Tasks, GetReturn(u) \/ SetReturn(u) \/ SetCommitLost(u) PROVE Goal
  BY <1>4, <1>7 DEF GetReturn, SetReturn, SetCommitLost
<1>8. ASSUME NEW p \in Procs, ClearCache(p) \/ Restart(p) PROVE Goal
  BY <1>1, <1>3, <1>8 DEF ClearCache, Restart, NoCall
<1>9. ASSUME Tick \/ DbBack PROVE Goal
  BY <1>3, <1>9 DEF Tick, DbBack
<1>10. ASSUME DbDown PROVE Goal
  <2>1. call'[t] = [call[t] EXCEPT !.broken = OnTheWire(t)]
    BY <1>10 DEF DbDown
  <2>. QED
    BY <1>2, <2>1 DEF Calls
<1>. SUFFICES Goal
  OBVIOUS
<1>. HIDE DEF Goal
<1>11. CASE \E u \in Tasks : Quiet(u)
  BY <1>5, <1>11
<1>12. CASE \E u \in Tasks : GetReturn(u)
  BY <1>7, <1>12
<1>13. CASE \E u \in Tasks : SetCommit(u) \/ SetCommitLost(u)
  BY <1>6, <1>7, <1>13
<1>14. CASE \E u \in Tasks : SetReturn(u)
  BY <1>7, <1>14
<1>15. CASE \E p \in Procs : ClearCache(p) \/ Restart(p)
  BY <1>8, <1>15
<1>. QED
  BY <1>9, <1>10, <1>11, <1>12, <1>13, <1>14, <1>15, NextCases

\* A cache entry that is there after a step was there before, or is the one a
\* get has just filled.
LEMMA EntryInHand ==
    ASSUME IndInv, Next, NEW p \in Procs, NEW k \in Keys
    PROVE  \/ cache'[p][k] = cache[p][k] \/ cache'[p][k] = NoEntry
           \/ \E t \in Tasks : /\ ProcOf[t] = p /\ call[t].key = k
                              /\ call[t].op = "get" /\ call[t].pc = "close"
                              /\ cache'[p][k].value =
                                   ValueOf(call[t].row, Fallback(k, call[t].default))
<1>. DEFINE Goal ==
       \/ cache'[p][k] = cache[p][k] \/ cache'[p][k] = NoEntry
       \/ \E t \in Tasks : /\ ProcOf[t] = p /\ call[t].key = k
                          /\ call[t].op = "get" /\ call[t].pc = "close"
                          /\ cache'[p][k].value =
                               ValueOf(call[t].row, Fallback(k, call[t].default))
<1>1. cache \in [Procs -> [Keys -> Entries]] /\ call \in [Tasks -> Calls]
  BY DEF IndInv, TypeOK
<1>2. ASSUME UNCHANGED cache PROVE Goal
  BY <1>2
<1>3. ASSUME NEW u \in Tasks, Quiet(u) PROVE Goal
  BY <1>2, <1>3, QuietEffect
<1>4. ASSUME NEW u \in Tasks, GetReturn(u) PROVE Goal
  <2>. DEFINE e == [expiry |-> Expiry(u),
                    value |-> ValueOf(call[u].row, Fallback(call[u].key, call[u].default))]
  <2>1. /\ call[u].op = "get" /\ call[u].pc = "close"
        /\ cache' = [cache EXCEPT ![ProcOf[u]][call[u].key] = e]
    BY <1>4 DEF GetReturn
  <2>2. e.value = ValueOf(call[u].row, Fallback(call[u].key, call[u].default))
    OBVIOUS
  <2>. HIDE DEF e
  <2>3. CASE ProcOf[u] = p /\ call[u].key = k
    <3>1. cache'[p][k] = e
      BY <1>1, <2>1, <2>3
    <3>. QED
      BY <2>1, <2>2, <2>3, <3>1
  <2>4. CASE ~(ProcOf[u] = p /\ call[u].key = k)
    <3>1. cache'[p][k] = cache[p][k]
      BY <1>1, <2>1, <2>4
    <3>. QED
      BY <3>1
  <2>. QED
    BY <2>3, <2>4
<1>5. ASSUME NEW u \in Tasks, SetCommit(u) \/ SetCommitLost(u) PROVE Goal
  BY <1>2, <1>5 DEF SetCommit, SetCommitLost
<1>6. ASSUME NEW u \in Tasks, SetReturn(u) PROVE Goal
  <2>1. cache' = [cache EXCEPT ![ProcOf[u]][call[u].key] = NoEntry]
    BY <1>6 DEF SetReturn
  <2>2. cache'[p][k] = cache[p][k] \/ cache'[p][k] = NoEntry
    BY <1>1, <2>1
  <2>. QED
    BY <2>2
<1>7. ASSUME NEW q \in Procs, ClearCache(q) \/ Restart(q) PROVE Goal
  <2>1. cache' = [cache EXCEPT ![q] = [j \in Keys |-> NoEntry]]
    BY <1>7 DEF ClearCache, Restart
  <2>2. cache'[p][k] = cache[p][k] \/ cache'[p][k] = NoEntry
    BY <1>1, <2>1
  <2>. QED
    BY <2>2
<1>8. ASSUME Tick \/ DbDown \/ DbBack PROVE Goal
  BY <1>2, <1>8 DEF Tick, DbDown, DbBack
<1>. SUFFICES Goal
  OBVIOUS
<1>. HIDE DEF Goal
<1>9. CASE \E u \in Tasks : Quiet(u) \/ GetReturn(u)
  BY <1>3, <1>4, <1>9
<1>10. CASE \E u \in Tasks : SetCommit(u) \/ SetCommitLost(u)
  BY <1>5, <1>10
<1>11. CASE \E u \in Tasks : SetReturn(u)
  BY <1>6, <1>11
<1>12. CASE \E q \in Procs : ClearCache(q) \/ Restart(q)
  BY <1>7, <1>12
<1>. QED
  BY <1>8, <1>9, <1>10, <1>11, <1>12, NextCases

\* What a process sees of a row that no step of anybody writes stays so.
LEMMA SeenStays ==
    ASSUME IndInv, Next, NEW p \in Procs, NEW k \in Keys, Untouched(k), Seen(p, k)
    PROVE  Seen(p, k)'
<1>1. db'[k] = db[k] /\ db[k] \in Values
  BY DEF Untouched, Seen
<1>2. /\ clock \in Nat /\ clock' \in Nat /\ clock <= clock'
      /\ cache \in [Procs -> [Keys -> Entries]]
  BY ClockGrows DEF IndInv, TypeOK
<1>3. GetsSee(p, k)'
  <2>. SUFFICES ASSUME NEW t \in Tasks, ProcOf[t] = p, call'[t].key = k,
                       call'[t].op = "get", call'[t].pc = "close"
                PROVE  call'[t].row = db'[k]
    BY DEF GetsSee
  <2>1. CASE call'[t].row = db[call'[t].key]
    BY <1>1, <2>1
  <2>2. CASE /\ call[t].op = "get" /\ call[t].pc = "close"
             /\ call'[t].key = call[t].key /\ call'[t].row = call[t].row
    BY <1>1, <2>2 DEF Seen, GetsSee
  <2>. QED
    BY <2>1, <2>2, RowInHand
<1>4. Current(p, k)'
  <2>1. CASE cache'[p][k] = cache[p][k]
    <3>. SUFFICES ASSUME Live(cache'[p][k], clock') PROVE cache'[p][k].value = db'[k]
      BY DEF Current
    <3>1. cache[p][k].expiry \in Nat /\ cache[p][k].expiry > clock'
      BY <1>2, <2>1 DEF Live, Entries
    <3>2. Live(cache[p][k], clock)
      BY <1>2, <3>1 DEF Live
    <3>. QED
      BY <1>1, <2>1, <3>2 DEF Seen, Current
  <2>2. CASE cache'[p][k] = NoEntry
    <3>1. ~Live(NoEntry, clock')
      BY <1>2 DEF Live, NoEntry
    <3>. QED
      BY <2>2, <3>1 DEF Current
  <2>3. ASSUME NEW t \in Tasks, ProcOf[t] = p, call[t].key = k,
               call[t].op = "get", call[t].pc = "close",
               cache'[p][k].value = ValueOf(call[t].row, Fallback(k, call[t].default))
        PROVE  Current(p, k)'
    <3>1. call[t].row = db[k]
      BY <2>3 DEF Seen, GetsSee
    <3>2. cache'[p][k].value = db[k]
      BY <1>1, <2>3, <3>1, ValuesAssumption DEF ValueOf
    <3>. QED
      BY <1>1, <3>2 DEF Current
  <2>. QED
    BY <2>1, <2>2, <2>3, EntryInHand
<1>. QED
  BY <1>1, <1>3, <1>4 DEF Seen

\* When set returns having overtaken no read, its process sees what it stored.
LEMMA SeenAtReturn ==
    ASSUME IndInv, NEW p \in Procs, NEW k \in Returned(p), ~Overtaken(p, k)
    PROVE  k \in Keys /\ Seen(p, k)'
<1>1. PICK u \in Tasks : /\ ProcOf[u] = p /\ SetReturn(u)
                         /\ db[call[u].key] = call[u].value /\ call[u].key = k
  BY DEF Returned
<1>2. /\ cache \in [Procs -> [Keys -> Entries]] /\ call \in [Tasks -> Calls]
      /\ clock \in Nat
  BY DEF IndInv, TypeOK
<1>3. /\ call[u].key \in Keys /\ call[u].value \in Values
      /\ \A t \in Tasks \ {u} : call'[t] = call[t]
      /\ call'[u].op = "set"
  BY <1>1, SetEffect
<1>4. /\ db' = db /\ clock' = clock
      /\ cache' = [cache EXCEPT ![p][k] = NoEntry]
  BY <1>1 DEF SetReturn
<1>5. db'[k] \in Values
  BY <1>1, <1>3, <1>4
<1>6. Current(p, k)'
  <2>1. cache'[p][k] = NoEntry
    BY <1>1, <1>2, <1>3, <1>4
  <2>2. ~Live(NoEntry, clock')
    BY <1>2, <1>4 DEF Live, NoEntry
  <2>. QED
    BY <2>1, <2>2 DEF Current
<1>7. GetsSee(p, k)'
  <2>. SUFFICES ASSUME NEW t \in Tasks, ProcOf[t] = p, call'[t].key = k,
                       call'[t].op = "get", call'[t].pc = "close"
                PROVE  FALSE
    BY DEF GetsSee
  <2>1. t # u /\ call'[t] = call[t]
    BY <1>3
  <2>. QED
    BY <2>1 DEF Overtaken
<1>. QED
  BY <1>1, <1>3, <1>5, <1>6, <1>7 DEF Seen

-----------------------------------------------------------------------------
(* The theorem                                                             *)

\* Every step keeps the invariant.
LEMMA VisInvStep == IndInv /\ VisInv /\ [Next /\ History]_histVars => VisInv'
<1>. SUFFICES ASSUME IndInv, VisInv, [Next /\ History]_histVars PROVE VisInv'
  OBVIOUS
<1>1. CASE UNCHANGED histVars
  <2>1. UNCHANGED <<clock, db, cache, call, quiet>>
    BY <1>1 DEF histVars, vars
  <2>. QED
    BY <2>1 DEF VisInv, Seen, Current, GetsSee, Live
<1>2. CASE Next /\ History
  <2>1. quiet' = [p \in Procs |-> {k \in quiet[p] : Untouched(k)}
                                   \cup {k \in Returned(p) : ~Overtaken(p, k)}]
    BY <1>2 DEF History
  <2>2. ASSUME NEW p \in Procs, NEW k \in quiet'[p] PROVE k \in Keys /\ Seen(p, k)'
    <3>1. CASE k \in quiet[p] /\ Untouched(k)
      <4>1. k \in Keys /\ Seen(p, k)
        BY <3>1 DEF VisInv
      <4>. QED
        BY <1>2, <3>1, <4>1, SeenStays
    <3>2. CASE k \in Returned(p) /\ ~Overtaken(p, k)
      BY <3>2, SeenAtReturn
    <3>. QED
      BY <2>1, <2>2, <3>1, <3>2
  <2>3. quiet' \in [Procs -> SUBSET Keys]
    BY <2>1, <2>2
  <2>. QED
    BY <2>2, <2>3 DEF VisInv
<1>. QED
  BY <1>1, <1>2

\* A set that overtakes no read of its process is visible there at once, and
\* stays so until the next commit to its key.
THEOREM VisibleUnlessOvertaking == HistSpec => []SetVisibleUnlessOvertaking
<1>1. HistSpec => Spec
  <2>1. [Next /\ History]_histVars => [Next]_vars
    BY DEF histVars
  <2>. QED
    BY <2>1, PTL DEF HistSpec, Spec
<1>2. Init /\ acked = [p \in Procs |-> {}] /\ quiet = acked => VisInv
  BY DEF VisInv
<1>3. IndInv /\ VisInv /\ [Next /\ History]_histVars => VisInv'
  BY VisInvStep
<1>4. VisInv => SetVisibleUnlessOvertaking
  BY DEF VisInv, Seen, SetVisibleUnlessOvertaking
<1>. QED
  BY <1>1, <1>2, <1>3, <1>4, Invariance, PTL DEF HistSpec
=============================================================================
