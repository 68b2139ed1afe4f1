-------------------------- MODULE SettingsRegister --------------------------
(***************************************************************************)
(* What the runtime settings promise, with no cache, no session and no     *)
(* process in sight.  One table row per key is overwritten from time to    *)
(* time; a client that asks for a key at time s is answered, at some later *)
(* time, with a value the table really held after s - TTL, or, when the    *)
(* table could not be read, with the built-in default.                     *)
(***************************************************************************)
EXTENDS SettingsData

CONSTANT Tasks

VARIABLES
    clock,      \* time.monotonic()
    db,         \* the row of each key
    lastHeld,   \* when the table last held a row it has since replaced; 0: never
    client      \* per task: the question it waits on, or the answer it got

vars == <<clock, db, lastHeld, client>>

\* The table held `row` under k at time t or later.
Held(k, row, t) == db[k] = row \/ lastHeld[k][row] >= t

NoClient == [state |-> "none", key |-> AUTO_MODE, default |-> NoRow,
             start |-> 0, value |-> NoRow, failed |-> FALSE]

Waiting(k, d, s) == [state |-> "waiting", key |-> k, default |-> d,
                     start |-> s, value |-> NoRow, failed |-> FALSE]

Answered(k, d, s, v, f) == [state |-> "answered", key |-> k, default |-> d,
                            start |-> s, value |-> v, failed |-> f]

\* The answers a question about k asked at time s may get.
Allowed(k, d, s, v, f) ==
    IF f THEN v = Fallback(k, d)
         ELSE \E row \in Rows : Held(k, row, s - TTL + 1) /\ Renders(k, v, row)

Init == /\ clock = TTL
        /\ db \in [Keys -> Rows]
        /\ db[AUTO_MODE] # NoRow
        /\ lastHeld = [k \in Keys |-> [r \in Rows |-> 0]]
        /\ client = [t \in Tasks |-> NoClient]

Tick == /\ clock' = clock + 1
        /\ UNCHANGED <<db, lastHeld, client>>

\* Someone overwrites the row of k with the value v.
Store(k, v) == /\ lastHeld' = [lastHeld EXCEPT ![k][db[k]] = clock]
               /\ db' = [db EXCEPT ![k] = v]
               /\ UNCHANGED <<clock, client>>

Ask(t, k, d) == /\ client' = [client EXCEPT ![t] = Waiting(k, d, clock)]
                /\ UNCHANGED <<clock, db, lastHeld>>

\* The question the task waits on is answered.
Answer(t, v, f) ==
    /\ client[t].state = "waiting"
    /\ Allowed(client[t].key, client[t].default, client[t].start, v, f)
    /\ client' = [client EXCEPT ![t] = Answered(client[t].key, client[t].default,
                                                client[t].start, v, f)]
    /\ UNCHANGED <<clock, db, lastHeld>>

\* A question asked and answered in the same instant.
AskAndAnswer(t, k, d, v) ==
    /\ Allowed(k, d, clock, v, FALSE)
    /\ client' = [client EXCEPT ![t] = Answered(k, d, clock, v, FALSE)]
    /\ UNCHANGED <<clock, db, lastHeld>>

\* Tasks give up, are cancelled, die with their process or turn to other work.
Leave(S) == /\ client' = [t \in Tasks |-> IF t \in S THEN NoClient ELSE client[t]]
            /\ UNCHANGED <<clock, db, lastHeld>>

Next == \/ Tick
        \/ \E k \in Keys, v \in Values : Store(k, v)
        \/ \E t \in Tasks, k \in Keys, d \in Defaults : Ask(t, k, d)
        \/ \E t \in Tasks, v \in Values, f \in BOOLEAN : Answer(t, v, f)
        \/ \E t \in Tasks, k \in Keys, d \in Defaults, v \in Values :
              AskAndAnswer(t, k, d, v)
        \/ \E S \in SUBSET Tasks : Leave(S)

Spec == Init /\ [][Next]_vars
=============================================================================
