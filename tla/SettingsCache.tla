---------------------------- MODULE SettingsCache ----------------------------
(***************************************************************************)
(* app/db/repositories/settings.py on top of app/db/session.py, in several *)
(* server processes that share one database.                               *)
(*                                                                         *)
(* Each process has its own _cache and its own connection pool.  A task is *)
(* a coroutine: everything between two awaits is one action, so get is     *)
(* split where it suspends.  It reads the clock and the cache ("done" on a *)
(* hit), waits for a pooled connection ("acquire"), waits for the row      *)
(* ("query"), commits and closes the session ("close"), and only then      *)
(* writes the cache.  set suspends at the same places and pops the cache   *)
(* entry at the end.  Whatever else runs meanwhile is another action.      *)
(***************************************************************************)
EXTENDS SettingsData, FiniteSets

CONSTANTS
    Procs,      \* server processes (uvicorn workers)
    Tasks,      \* coroutines that call get and set
    ProcOf,     \* the process a task runs in
    Readers,    \* the tasks that call get
    Writers,    \* the tasks that call set
    PoolSize,   \* pool_size + max_overflow
    MaxTime     \* bound of the model: the clock stops there

ASSUME ProcOfAssumption == ProcOf \in [Tasks -> Procs]
ASSUME RolesAssumption == Readers \subseteq Tasks /\ Writers \subseteq Tasks
ASSUME PoolSizeAssumption == PoolSize \in Nat \ {0}
ASSUME MaxTimeAssumption == MaxTime \in Nat

VARIABLES
    clock,      \* time.monotonic(); it starts at TTL so that 0 means "never"
    db,         \* the settings table: the committed row of each key
    lastHeld,   \* history: when the table last held a row it has replaced
    dbUp,       \* the database can be reached
    cache,      \* per process, _cache
    call        \* per task, the call in progress or the last one that ended

vars == <<clock, db, lastHeld, dbUp, cache, call>>

-----------------------------------------------------------------------------
(* State *)

\* An entry is the tuple (expiry, value); expiry 0 stands for no entry.
Entries == [expiry : Nat, value : Rows]
NoEntry == [expiry |-> 0, value |-> NoRow]

Ops == {"none", "get", "set"}
PCs == {"idle", "acquire", "query", "close", "done"}

\* `value` is what set stores or what get returned; `row` what get read;
\* `failed` an exception; `broken` a connection lost under the call.
Calls == [op : Ops, pc : PCs, key : Keys, default : Rows, start : Nat,
          row : Rows, value : Rows, failed : BOOLEAN, broken : BOOLEAN]

NoCall == [op |-> "none", pc |-> "idle", key |-> AUTO_MODE, default |-> NoRow,
           start |-> 0, row |-> NoRow, value |-> NoRow, failed |-> FALSE,
           broken |-> FALSE]

\* The call of task t has not ended.
InFlight(t) == call[t].pc \in {"acquire", "query", "close"}

\* The connections of p that are checked out of its pool.
CheckedOut(p) ==
    {t \in Tasks : ProcOf[t] = p /\ call[t].pc \in {"query", "close"}}

PoolFree(p) == Cardinality(CheckedOut(p)) < PoolSize

\* if cached and cached[0] > now
Live_OrExpired(e, now) == e.expiry > 0
Live(e, now) == e.expiry > now

\* The table held `row` under k at time s or later.
Held(k, row, s) == db[k] = row \/ lastHeld[k][row] >= s

Init == /\ clock = TTL
        /\ db \in [Keys -> Rows]
        /\ db[AUTO_MODE] # NoRow          \* the migration inserts this row
        /\ lastHeld = [k \in Keys |-> [r \in Rows |-> 0]]
        /\ dbUp \in BOOLEAN
        /\ cache = [p \in Procs |-> [k \in Keys |-> NoEntry]]
        /\ call = [t \in Tasks |-> NoCall]

-----------------------------------------------------------------------------
(* get *)

\* The end of a call: its result stays in view until the task calls again.
End(t, v, f) ==
    call' = [call EXCEPT ![t] = [@ EXCEPT !.pc = "done", !.row = NoRow, !.value = v,
                                          !.failed = f, !.broken = FALSE]]

\* get up to its first await when the cache answers.
GetHit(t, k, d) ==
    LET e == cache[ProcOf[t]][k] IN
    /\ ~InFlight(t)
    /\ Live(e, clock)
    /\ call' = [call EXCEPT ![t] = [NoCall EXCEPT !.op = "get", !.pc = "done",
                   !.key = k, !.default = d, !.start = clock, !.value = e.value]]
    /\ UNCHANGED <<clock, db, lastHeld, dbUp, cache>>

\* get up to its first await when it does not: `now` is kept in start.
GetMiss(t, k, d) ==
    /\ ~InFlight(t)
    /\ ~Live(cache[ProcOf[t]][k], clock)
    /\ call' = [call EXCEPT ![t] = [NoCall EXCEPT !.op = "get", !.pc = "acquire",
                   !.key = k, !.default = d, !.start = clock]]
    /\ UNCHANGED <<clock, db, lastHeld, dbUp, cache>>

\* The database answers the select.
GetRow(t) ==
    /\ call[t].op = "get" /\ call[t].pc = "query"
    /\ dbUp /\ ~call[t].broken
    /\ call' = [call EXCEPT ![t].pc = "close", ![t].row = db[call[t].key]]
    /\ UNCHANGED <<clock, db, lastHeld, dbUp, cache>>

Expiry_AtFill(t) == clock + TTL

\* now + SETTINGS_TTL_SECONDS, with the `now` of before the read
Expiry(t) == call[t].start + TTL

\* The session is closed: the value is cached and returned.
GetReturn(t) ==
    LET c == call[t]
        value == ValueOf(c.row, Fallback(c.key, c.default))
    IN  /\ c.op = "get" /\ c.pc = "close" /\ ~c.broken
        /\ cache' = [cache EXCEPT ![ProcOf[t]][c.key] =
                                      [expiry |-> Expiry(t), value |-> value]]
        /\ End(t, value, FALSE)
        /\ UNCHANGED <<clock, db, lastHeld, dbUp>>

\* The call waits for the database: for a connection to open or be pinged, a
\* reply to its statement or, for a get, to the commit that follows it.
OnTheWire(t) == \/ call[t].pc = "query"
                \/ call[t].pc = "close" /\ call[t].op = "get"

\* A slip: a full pool is waited for without a limit.
ReadFails_PoolWaits(t) == OnTheWire(t) /\ (~dbUp \/ call[t].broken)

\* The call failed under way: the database is away, the connection was lost,
\* or the pool has none to give within its timeout.
ReadFails(t) == \/ OnTheWire(t) /\ (~dbUp \/ call[t].broken)
                \/ call[t].pc = "acquire" /\ ~PoolFree(ProcOf[t])

\* A slip: the fallback of a failed read is cached like a value that was read.
GetFail_Cached(t) ==
    LET c == call[t] IN
    /\ c.op = "get"
    /\ ReadFails(t)
    /\ cache' = [cache EXCEPT ![ProcOf[t]][c.key] =
                    [expiry |-> Expiry(t), value |-> Fallback(c.key, c.default)]]
    /\ End(t, Fallback(c.key, c.default), TRUE)
    /\ UNCHANGED <<clock, db, lastHeld, dbUp>>

\* except Exception: the built-in default is returned and not cached.
GetFail(t) ==
    /\ call[t].op = "get"
    /\ ReadFails(t)
    /\ End(t, Fallback(call[t].key, call[t].default), TRUE)
    /\ UNCHANGED <<clock, db, lastHeld, dbUp, cache>>

-----------------------------------------------------------------------------
(* session_scope and set *)

\* The first statement of the session takes a place in the pool; the pool then
\* opens a connection or pings the one it kept.
Acquire(t) ==
    /\ call[t].pc = "acquire"
    /\ PoolFree(ProcOf[t])
    /\ call' = [call EXCEPT ![t].pc = "query"]
    /\ UNCHANGED <<clock, db, lastHeld, dbUp, cache>>

SetStart(t, k, v) ==
    /\ ~InFlight(t)
    /\ call' = [call EXCEPT ![t] = [NoCall EXCEPT !.op = "set", !.pc = "acquire",
                   !.key = k, !.value = v]]
    /\ UNCHANGED <<clock, db, lastHeld, dbUp, cache>>

\* The upsert of task t becomes the committed row of its key.
Committed(t) ==
    LET k == call[t].key IN
    /\ call[t].op = "set" /\ call[t].pc = "query"
    /\ dbUp /\ ~call[t].broken
    /\ lastHeld' = [lastHeld EXCEPT ![k][db[k]] = clock]
    /\ db' = [db EXCEPT ![k] = call[t].value]

\* The commit is applied and its reply arrives.
SetCommit(t) ==
    /\ Committed(t)
    /\ call' = [call EXCEPT ![t].pc = "close"]
    /\ UNCHANGED <<clock, dbUp, cache>>

\* The commit is applied and its reply is lost: set raises, with no pop.
SetCommitLost(t) ==
    /\ Committed(t)
    /\ End(t, call[t].value, TRUE)
    /\ UNCHANGED <<clock, dbUp, cache>>

\* Nothing was applied: the session rolls back and set raises.
SetFail(t) ==
    /\ call[t].op = "set" /\ call[t].pc # "close"
    /\ ReadFails(t)
    /\ End(t, call[t].value, TRUE)
    /\ UNCHANGED <<clock, db, lastHeld, dbUp, cache>>

\* A slip: the entry is left to expire.
SetReturn_NoPop(t) ==
    /\ call[t].op = "set" /\ call[t].pc = "close"
    /\ End(t, call[t].value, FALSE)
    /\ UNCHANGED <<clock, db, lastHeld, dbUp, cache>>

\* The session is closed: _cache.pop(key, None), and set returns.
SetReturn(t) ==
    /\ call[t].op = "set" /\ call[t].pc = "close"
    /\ cache' = [cache EXCEPT ![ProcOf[t]][call[t].key] = NoEntry]
    /\ End(t, call[t].value, FALSE)
    /\ UNCHANGED <<clock, db, lastHeld, dbUp>>

-----------------------------------------------------------------------------
(* The rest of the process, and its environment *)

\* clear_cache
ClearCache(p) ==
    /\ cache' = [cache EXCEPT ![p] = [k \in Keys |-> NoEntry]]
    /\ UNCHANGED <<clock, db, lastHeld, dbUp, call>>

\* The task is cancelled at an await: CancelledError is no Exception, so
\* neither the fallback nor the pop runs.
Cancel(t) ==
    /\ InFlight(t)
    /\ call' = [call EXCEPT ![t] = NoCall]
    /\ UNCHANGED <<clock, db, lastHeld, dbUp, cache>>

\* A process dies and is started again, with an empty _cache.
Restart(p) ==
    /\ cache' = [cache EXCEPT ![p] = [k \in Keys |-> NoEntry]]
    /\ call' = [t \in Tasks |-> IF ProcOf[t] = p THEN NoCall ELSE call[t]]
    /\ UNCHANGED <<clock, db, lastHeld, dbUp>>

Tick == /\ clock < MaxTime
        /\ clock' = clock + 1
        /\ UNCHANGED <<db, lastHeld, dbUp, cache, call>>

\* The database goes away, and every open connection with it.
DbDown == /\ dbUp
          /\ dbUp' = FALSE
          /\ call' = [t \in Tasks |-> [call[t] EXCEPT !.broken = OnTheWire(t)]]
          /\ UNCHANGED <<clock, db, lastHeld, cache>>

DbBack == /\ ~dbUp
          /\ dbUp' = TRUE
          /\ UNCHANGED <<clock, db, lastHeld, cache, call>>

-----------------------------------------------------------------------------

\* What carries a call that was begun to its end.
Progress(t) == \/ Acquire(t) \/ GetRow(t) \/ GetReturn(t) \/ GetFail(t)
               \/ SetCommit(t) \/ SetCommitLost(t) \/ SetFail(t) \/ SetReturn(t)

Next == \/ \E t \in Readers, k \in Keys, d \in Defaults : GetHit(t, k, d)
        \/ \E t \in Readers, k \in Keys, d \in Defaults : GetMiss(t, k, d)
        \/ \E t \in Writers, k \in Keys, v \in Values : SetStart(t, k, v)
        \/ \E t \in Tasks : Progress(t)
        \/ \E t \in Tasks : Cancel(t)
        \/ \E p \in Procs : ClearCache(p)
        \/ \E p \in Procs : Restart(p)
        \/ Tick
        \/ DbDown
        \/ DbBack

Spec == Init /\ [][Next]_vars

\* The steps that need nothing of the database: a place in the pool, or its
\* timeout, and the end of a set whose commit was confirmed.
OwnStep(t) == \/ Acquire(t)
              \/ call[t].pc = "acquire" /\ (GetFail(t) \/ SetFail(t))
              \/ SetReturn(t)

\* The event loop runs what is ready, and the pool hands out a connection or
\* times out.  Nothing is assumed of the database: the engine sets no timeout
\* for a statement, so a silent one may keep a call for ever.
Fairness == \A t \in Tasks : WF_vars(OwnStep(t))

FairSpec == Spec /\ Fairness
=============================================================================
