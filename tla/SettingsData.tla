---------------------------- MODULE SettingsData ----------------------------
(***************************************************************************)
(* The data of app/db/repositories/settings.py: keys, stored values, the   *)
(* built-in defaults, and the pure functions of the module.  Values are    *)
(* compared and never looked into, so any JSON value is a member of        *)
(* Values.                                                                 *)
(***************************************************************************)
EXTENDS Integers

CONSTANTS
    Keys,       \* the setting keys in use, "auto_mode" among them
    Values,     \* the JSON values that are stored or passed as a default
    Defaults,   \* the `default` arguments callers of get pass
    NoRow,      \* the table holds no row for a key
    TTL         \* SETTINGS_TTL_SECONDS, in ticks of the clock

AUTO_MODE == "auto_mode"
AUTO_MODES == {"off", "shadow", "live"}
DEFAULTS == [k \in {AUTO_MODE} |-> "shadow"]

ASSUME KeysAssumption == AUTO_MODE \in Keys
ASSUME ValuesAssumption == /\ NoRow \notin Values
                           /\ Defaults \subseteq Values
                           /\ "shadow" \in Values
                           /\ "live" \in Values
ASSUME TTLAssumption == TTL \in Nat \ {0}

Rows == Values \cup {NoRow}

\* A plausible slip: the argument wins over the built-in default.
Fallback_ArgumentFirst(k, d) == IF d \in Values THEN d ELSE DEFAULTS[k]

\* Another: the default is looked up in place of the key.
Fallback_Swapped(k, d) == IF d \in DOMAIN DEFAULTS THEN DEFAULTS[d] ELSE NoRow

\* DEFAULTS.get(key, default)
Fallback(k, d) == IF k \in DOMAIN DEFAULTS THEN DEFAULTS[k] ELSE d

\* row.value if row is not None else fallback
ValueOf(row, fallback) == IF row = NoRow THEN fallback ELSE row

\* What auto_mode() makes of the value get returned.
AutoMode(v) == IF v \in AUTO_MODES THEN v ELSE DEFAULTS[AUTO_MODE]

\* v is what a reader who found `row` under k may have made of it, whatever
\* default that reader supplied.
Renders(k, v, row) == \/ row # NoRow /\ v = row
                      \/ row = NoRow /\ \E d \in Defaults : v = Fallback(k, d)
=============================================================================
