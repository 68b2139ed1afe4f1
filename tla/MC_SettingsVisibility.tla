----------------------- MODULE MC_SettingsVisibility ------------------------
(***************************************************************************)
(* One process a with the coroutines a1, a2 and a3.                        *)
(***************************************************************************)
EXTENDS SettingsVisibility

CONSTANTS a, a1, a2, a3

OneProcess == [t \in Tasks |-> a]
=============================================================================
