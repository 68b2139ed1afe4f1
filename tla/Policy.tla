------------------------------- MODULE Policy -------------------------------
(***************************************************************************)
(* app/core/policy.py and app/core/config.py: which settings, policy file  *)
(* and routes file an application starts with.  A string of a YAML file is *)
(* a sequence of pieces, each a text or a reference ${VAR}; a host is a    *)
(* sequence of characters.                                                 *)
(***************************************************************************)
EXTENDS Naturals, Sequences

ROUTE_NAMES == {"draft.generate", "auto.generate", "router.classify"}
\* logging.getLevelNamesMapping()
LOG_LEVELS == [NOTSET |-> 0, DEBUG |-> 10, INFO |-> 20, WARN |-> 30, WARNING |-> 30,
               ERROR |-> 40, FATAL |-> 50, CRITICAL |-> 50]

-----------------------------------------------------------------------------
(* expand_env *)

Text(x) == [ref |-> FALSE, name |-> x]
Ref(v) == [ref |-> TRUE, name |-> v]

\* None, "", and a string none of whose pieces has a character, all of them
\* false to Python's `not`.
Empty(s) == \A i \in DOMAIN s : s[i] = Text("")

\* A whole-value reference to an unset (or empty) variable is None, here << >>;
\* inside a larger string it is an empty piece.
ExpandString(s, env) ==
    IF Len(s) = 1 /\ s[1].ref /\ env[s[1].name] = "" THEN << >>
    ELSE [i \in DOMAIN s |-> IF s[i].ref THEN Text(env[s[i].name]) ELSE s[i]]

\* A slip: the file is taken as it is.
ExpandRoutes_AsWritten(routes, env) == routes
ExpandRoutes(routes, env) ==
    [n \in DOMAIN routes |-> [provider |-> ExpandString(routes[n].provider, env),
                              model |-> ExpandString(routes[n].model, env)]]

-----------------------------------------------------------------------------
(* Loading.  `state` is what _load_yaml meets: "absent", "not_yaml",        *)
(* "no_mapping" or "mapping"; `fits` says that the keys are those of the    *)
(* models and each value by itself is of its type and range.               *)

Loads(file) == file.state = "mapping" /\ file.fits

\* _hosts_only
Bare(host) == \A i \in DOMAIN host : host[i] \notin {"/", ":"}

LoadPolicy(file) == Loads(file) /\ \A host \in file.link_allowlist : Bare(host)

\* The routes have the required names, known providers and ordered thresholds.
LoadRoutes(file, env) ==
    /\ Loads(file)
    /\ ROUTE_NAMES \subseteq DOMAIN file.routes
    /\ \A n \in DOMAIN file.routes :
          ExpandRoutes(file.routes, env)[n].provider \in {<<Text(p)>> : p \in file.providers}
    /\ file.t_low < file.t_high

RequireModels(routes) == \A n \in DOMAIN routes : ~Empty(routes[n].model)

\* create_app up to the construction of the application.
CreateApp(settings) ==
    /\ settings.log_level \in DOMAIN LOG_LEVELS
    /\ LoadPolicy(settings.policy_file)
    /\ LoadRoutes(settings.routes_file, settings.env)
    /\ settings.llm_provider # "fake" =>
          RequireModels(ExpandRoutes(settings.routes_file.routes, settings.env))

=============================================================================
