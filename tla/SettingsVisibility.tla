------------------------- MODULE SettingsVisibility -------------------------
(***************************************************************************)
(* SettingsCache watched by two history variables, for what the process    *)
(* that changes a setting sees of its own change.                          *)
(***************************************************************************)
EXTENDS SettingsCacheProps

VARIABLES
    acked,      \* per process, the keys whose current row its own set stored
                \* and reported, with no commit to them since
    quiet       \* those of them that no read was overtaken by: when set
                \* returned, no get of the process held the key's row already

histVars == <<vars, acked, quiet>>

\* The keys whose set returns in process p in this step.
Returned(p) == {call[t].key : t \in {u \in Tasks :
                    ProcOf[u] = p /\ SetReturn(u) /\ db[call[u].key] = call[u].value}}

\* A get of process p has read the row of k and not yet cached it.
Overtaken(p, k) == \E t \in Tasks : /\ ProcOf[t] = p /\ call[t].key = k
                                    /\ call[t].op = "get" /\ call[t].pc = "close"

\* The row of k is not written in this step.
Untouched(k) == db'[k] = db[k] /\ lastHeld'[k] = lastHeld[k]

History ==
    /\ acked' = [p \in Procs |-> {k \in acked[p] : Untouched(k)} \cup Returned(p)]
    /\ quiet' = [p \in Procs |-> {k \in quiet[p] : Untouched(k)}
                     \cup {k \in Returned(p) : ~Overtaken(p, k)}]

HistSpec == /\ Init /\ acked = [p \in Procs |-> {}] /\ quiet = acked
            /\ [][Next /\ History]_histVars
            /\ Fairness

\* No live entry of process p for k differs from the table.
Current(p, k) == Live(cache[p][k], clock) => cache[p][k].value = db[k]

\* A set that overtakes no read of its process is visible there at once, and
\* stays so until the next commit: set pops the entry after the commit, and a
\* read that starts its query later finds the new row.
SetVisibleUnlessOvertaking == \A p \in Procs : \A k \in quiet[p] : Current(p, k)

\* "`set` invalidates the cache, so the new value is visible immediately"
\* (tests/test_settings_repo.py:43), of every set that returned.
SetVisibleAtOnce == \A p \in Procs : \A k \in acked[p] : Current(p, k)
=============================================================================
