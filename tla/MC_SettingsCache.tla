-------------------------- MODULE MC_SettingsCache --------------------------
(***************************************************************************)
(* Coroutines a1 and a2 of process a and b1 of process b.                  *)
(***************************************************************************)
EXTENDS SettingsCacheProps, TLC

CONSTANTS a, b, a1, a2, b1

TwoProcesses == [t \in Tasks |-> IF t = b1 THEN b ELSE a]

\* a1 and a2 run in the same process and do the same things.
Symmetry == Permutations({a1, a2})
=============================================================================
