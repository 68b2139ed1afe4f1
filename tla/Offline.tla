------------------------------- MODULE Offline ------------------------------
(***************************************************************************)
(* The sequential parts of the repository: the text functions of ingest    *)
(* and search, the allow-list of hosts, the scripts and the migration.     *)
(* They share no state; a step is one of the call that is under way, and   *)
(* another call begins when it has returned.                               *)
(***************************************************************************)
EXTENDS Html, NormalizeProps, Hosts, ConvertKb, CheckProvider, Migration

offlineVars == <<html, markup, tidied, normalized, asked, job, probe, migration>>

Init == HtmlInit /\ NormalizeInit /\ HostsInit /\ ConvertInit /\ ProbeInit /\ MigrationInit

HtmlRests == HtmlIdle /\ UNCHANGED htmlVars
NormalizeRests == NormalizeIdle /\ UNCHANGED normalized
HostsRest == HostsIdle /\ UNCHANGED asked
ConvertRests == ConvertIdle /\ UNCHANGED job
ProbeRests == ProbeIdle /\ UNCHANGED probe
MigrationRests == MigrationIdle /\ UNCHANGED migration

Next ==
    \/ NormalizeRests /\ HostsRest /\ ConvertRests /\ ProbeRests /\ MigrationRests /\ HtmlNext
    \/ HtmlRests /\ HostsRest /\ ConvertRests /\ ProbeRests /\ MigrationRests /\ NormalizeNext
    \/ HtmlRests /\ NormalizeRests /\ ConvertRests /\ ProbeRests /\ MigrationRests /\ HostsNext
    \/ HtmlRests /\ NormalizeRests /\ HostsRest /\ ProbeRests /\ MigrationRests /\ ConvertNext
    \/ HtmlRests /\ NormalizeRests /\ HostsRest /\ ConvertRests /\ MigrationRests /\ ProbeNext
    \/ HtmlRests /\ NormalizeRests /\ HostsRest /\ ConvertRests /\ ProbeRests /\ MigrationNext

Spec == Init /\ [][Next]_offlineVars
=============================================================================
