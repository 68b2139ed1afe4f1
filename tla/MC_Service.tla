----------------------------- MODULE MC_Service -----------------------------
(* An instance of Service for TLC: two applications in a process, a caller  *)
(* of every kind of endpoint and a probe.                                  *)
EXTENDS ServiceProps

Given == {<<Text("m")>>, <<Ref("SET")>>, <<Ref("UNSET")>>,
          <<Text("m"), Ref("UNSET")>>, <<Ref("UNSET"), Ref("UNSET")>>, <<Text("")>>}

Routes(provider, model) ==
    [n \in ROUTE_NAMES |-> [provider |-> provider,
                            model |-> IF n = "draft.generate" THEN model ELSE <<Text("m")>>]]

Good == [log_level |-> "INFO", env |-> [SET |-> "m", UNSET |-> ""],
         policy_file |-> [state |-> "mapping", fits |-> TRUE, link_allowlist |-> {<<"a">>}],
         routes_file |-> [state |-> "mapping", fits |-> TRUE, providers |-> {"p"},
                          routes |-> Routes(<<Text("p")>>, <<Ref("SET")>>),
                          t_low |-> 1, t_high |-> 2],
         llm_provider |-> "openai_compat", main_backend |-> "fake", builds |-> TRUE,
         keys |-> "jwks", database |-> "d1", cors |-> FALSE]

Models == {[Good EXCEPT !.builds = FALSE, !.llm_provider = llm, !.routes_file.routes = Routes(provider, model)] :
              llm \in {"fake", "openai_compat"}, model \in Given,
              provider \in {<<Text("p")>>, <<Text("q")>>, <<Ref("UNSET")>>}}

Unfit == {[Good EXCEPT !.log_level = "LOUD"],
          [Good EXCEPT !.policy_file.state = "absent"],
          [Good EXCEPT !.policy_file.link_allowlist = {<<"a", "/">>}],
          [Good EXCEPT !.routes_file.state = "no_mapping"],
          [Good EXCEPT !.routes_file.fits = FALSE],
          [Good EXCEPT !.routes_file.routes = [n \in {"draft.generate"} |-> @[n]]],
          [Good EXCEPT !.routes_file.t_low = 2]}

Others == {Good,
           [Good EXCEPT !.main_backend = "http", !.keys = "file", !.database = "d2",
                        !.log_level = "WARNING"],
           [Good EXCEPT !.keys = "none", !.cors = TRUE, !.log_level = "CRITICAL"]}

TheConfigs == Unfit \cup Others \cup Models

TheRoutes == [user |-> {"guarded", "unknown", "invalid", "teapot", "upstream", "crash",
                        "preflight", "health"},
              probe |-> {"ready"}]

Token == [kid |-> "k1", forged |-> FALSE, claims |-> TRUE, exp |-> 9, aud |-> TRUE,
          role |-> "staff", sub |-> TRUE]

TheTokens == {Token, [Token EXCEPT !.kid = "k2"], [Token EXCEPT !.forged = TRUE],
              [Token EXCEPT !.claims = FALSE], [Token EXCEPT !.exp = 1],
              [Token EXCEPT !.aud = FALSE], [Token EXCEPT !.role = "user"],
              [Token EXCEPT !.role = "none"], [Token EXCEPT !.sub = FALSE]}

TheBearers == {{}} \cup {{t} : t \in TheTokens}

\* The probe shares no state with the check of a token: the keys stay as they were
\* while it asks and while a second application is there.  Next to it the caller has
\* the requests that are answered outside of the middleware, inside, and by its handler.
Apart == \/ /\ keys.published = {"k1"} /\ keys.up /\ keys.file = "k1" /\ clock = 0
            /\ keys.fetched = {} /\ request["user"].bearer = {}
            /\ \/ request["probe"].pc = "idle"
               \/ request["user"].route \notin {"unknown", "invalid", "teapot", "health"}
         \/ request["probe"].pc = "idle" /\ up = Databases /\ apps <= 1
=============================================================================
