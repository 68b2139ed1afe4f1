------------------------- MODULE SettingsCacheProps -------------------------
(***************************************************************************)
(* What SettingsCache is held to.                                          *)
(***************************************************************************)
EXTENDS SettingsCache

\* Every variable stays in its domain; what is cached or returned is a value,
\* never the absence of one.
TypeOK == /\ clock \in Nat
          /\ db \in [Keys -> Rows]
          /\ lastHeld \in [Keys -> [Rows -> Nat]]
          /\ dbUp \in BOOLEAN
          /\ cache \in [Procs -> [Keys -> Entries]]
          /\ call \in [Tasks -> Calls]
          /\ \A p \in Procs, k \in Keys :
                cache[p][k] # NoEntry => cache[p][k].value \in Values
          /\ \A t \in Tasks :
                call[t].op = "get" /\ call[t].pc = "done" => call[t].value \in Values

\* A cached value was in the table at the time the entry was opened, TTL
\* before it expires, or later: a fill that raced with a commit, a failed
\* read or a restart never gives a replaced value a fresh lease (get computes
\* the expiry from the clock it read before the await).
EntryFresh(p, k) ==
    cache[p][k] # NoEntry =>
        \E row \in Rows : /\ Held(k, row, cache[p][k].expiry - TTL)
                          /\ Renders(k, cache[p][k].value, row)

CacheBoundedStale == \A p \in Procs, k \in Keys : EntryFresh(p, k)

\* What get returns was in the table less than TTL before get was called,
\* unless the read failed; then it is the built-in default, or the caller's.
AnswerFresh(t) ==
    LET c == call[t] IN
    c.op = "get" /\ c.pc = "done" =>
        IF c.failed
          THEN c.value = Fallback(c.key, c.default)
          ELSE \E row \in Rows : /\ Held(c.key, row, c.start - TTL + 1)
                                 /\ Renders(c.key, c.value, row)

GetBoundedStale == \A t \in Tasks : AnswerFresh(t)

\* auto_mode() says "live" only if the table held "live" less than TTL before
\* the call: no outage, missing row, typo in the table or caller's default
\* switches the live mode on.
LiveOnlyIfStored ==
    \A t \in Tasks :
        /\ call[t].op = "get" /\ call[t].pc = "done"
        /\ call[t].key = AUTO_MODE
        /\ AutoMode(call[t].value) = "live"
        => Held(AUTO_MODE, "live", call[t].start - TTL + 1)

\* A call of get or set ends, unless the database itself leaves that very call
\* without a reply for ever: a drained pool makes nobody wait for ever, though
\* calls that hang hold all of it, and no call fails to give its place back.
CallsEnd == \A t \in Tasks :
    (InFlight(t) ~> ~InFlight(t)) \/ <>[]OnTheWire(t)

-----------------------------------------------------------------------------
(* Refinement: the abstract client of a task is its get; set, a cancelled   *)
(* call and a task that never called are no client.                        *)

ClientOf(c) ==
    IF c.op = "get"
      THEN [state |-> IF c.pc = "done" THEN "answered" ELSE "waiting",
            key |-> c.key, default |-> c.default, start |-> c.start,
            value |-> c.value, failed |-> c.failed]
      ELSE [state |-> "none", key |-> AUTO_MODE, default |-> NoRow,
            start |-> 0, value |-> NoRow, failed |-> FALSE]

client == [t \in Tasks |-> ClientOf(call[t])]

Register == INSTANCE SettingsRegister WITH client <- client

\* The cached settings implement the register that is at most TTL behind.
ImplementsRegister == Register!Spec

=============================================================================
