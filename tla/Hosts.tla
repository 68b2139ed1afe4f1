-------------------------------- MODULE Hosts -------------------------------
(* Policy.allows_host of app/core/policy.py: a host, and the hosts of the   *)
(* allow-list, are sequences of characters.                                *)
EXTENDS Policy, SequencesExt

CONSTANTS Allowlist,    \* link_allowlist of the policy
          HostNames     \* hosts asked for

ASSUME HostsAssumption == Allowlist \subseteq Seq(STRING) /\ HostNames \subseteq Seq(STRING)

VARIABLE asked          \* a host and whether the policy allows it

NoHost == [name |-> << >>, allowed |-> FALSE]
HostsInit == asked = NoHost
HostsIdle == asked = NoHost

LOWER == [A |-> "a", B |-> "b"]     \* str.lower, of the letters in use

Lower(host) == [i \in DOMAIN host |-> IF host[i] \in DOMAIN LOWER THEN LOWER[host[i]]
                                                                  ELSE host[i]]

\* rstrip(".")
StripDots(host) ==
    SubSeq(host, 1, SelectLastInSeq(host, LAMBDA x : x # "."))

\* A slip: the dot before the allowed host is forgotten.
AllowsHost_AnySuffix(host, allowlist) ==
    LET bare == StripDots(Lower(host))
    IN  \E allowed \in {Lower(h) : h \in allowlist} : IsSuffix(allowed, bare)

AllowsHost(host, allowlist) ==
    LET bare == StripDots(Lower(host))
    IN  \E allowed \in {Lower(h) : h \in allowlist} :
           bare = allowed \/ IsSuffix(<<".">> \o allowed, bare)

AskHost == /\ HostsIdle
           /\ \E name \in HostNames \ {<< >>} :
                 asked' = [name |-> name, allowed |-> AllowsHost(name, Allowlist)]

HostReturns == asked # NoHost /\ asked' = NoHost

HostsNext == AskHost \/ HostReturns

-----------------------------------------------------------------------------
(* Properties *)

\* The labels of a host: what stands between its dots, from the right.
LabelEnds(name) == {i \in DOMAIN name : name[i] = "."} \cup {0}

\* An allow-listed host and its subdomains are allowed and nothing else is, a host
\* that merely ends in the same letters least of all, whatever the case of the
\* letters and with or without the dots of a name that is fully qualified
\* (policy.py:67).
AllowsOwnDomains ==
    LET bare == StripDots(Lower(asked.name))
        domains == {SubSeq(bare, i + 1, Len(bare)) : i \in LabelEnds(bare)}
    IN  asked # NoHost => (asked.allowed <=> \E h \in Allowlist : Lower(h) \in domains)
=============================================================================
