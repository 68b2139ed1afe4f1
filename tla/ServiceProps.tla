---------------------------- MODULE ServiceProps ----------------------------
(* What the service promises to whoever starts it and whoever calls it.    *)
EXTENDS Service

-----------------------------------------------------------------------------
(* Types *)

CODES == {DEFAULT_CODES[s] : s \in DOMAIN DEFAULT_CODES} \cup DOMAIN AppErrorStatus
         \cup {"http_error", "none"}

Engines == [database : Databases, made : 1..MaxApps]

\* The variables of the process have the types of their code counterparts.
TypeOK ==
    /\ app \in [pc : {"none", "refused", "created", "serving", "disposing", "stopped", "failed"},
                settings : Configs \cup {NoSettings}]
    /\ apps \in 0..MaxApps /\ clean \in BOOLEAN
    /\ engine \in Engines \cup {NoEngine} /\ open \subseteq Engines
    /\ up \subseteq Databases /\ clock \in 0..MaxTime
    /\ context \in [Clients -> Clients \cup {"none", "given"}]
    /\ levels \in [DOMAIN Unused -> DOMAIN LOG_LEVELS \cup {"unused"}]
    /\ \A c \in Clients :
          /\ request[c].pc \in {"idle", "handler", "probe", "raised", "leave", "done"}
          /\ request[c].route \in RoutesOf[c] \cup {"none"}
          /\ request[c].engine \in Engines \cup {NoEngine}
          /\ request[c].reply.code \in CODES

-----------------------------------------------------------------------------
(* Applications of one process *)

\* There is never more than the one pool of the engine in the global, and what serves
\* has one, even after a start or a stop that failed halfway.  While none has, it is
\* an engine made from the application's own settings, and an application that has
\* stopped leaves neither engine nor pool (session.py, main.py).
EngineIsOwn ==
    /\ open = (IF engine = NoEngine THEN {} ELSE {engine})
    /\ app.pc = "serving" => engine # NoEngine
    /\ clean => /\ app.pc = "serving" => engine = [database |-> app.settings.database,
                                                    made |-> apps]
                /\ app.pc = "stopped" => engine = NoEngine

\* No application is created with a route that names no provider of its file or, with a
\* real provider, no model, or in which a reference to the environment is left.  The URL
\* and the key of a provider may still be missing (policy.py, "rather than failing later
\* on a request").
StartedIsComplete ==
    app.pc \in {"created", "serving"} =>
        LET file == app.settings.routes_file
            loaded == ExpandRoutes(file.routes, app.settings.env)
            Solid(s) == /\ \E i \in DOMAIN s : s[i].name # ""
                        /\ \A i \in DOMAIN s : ~s[i].ref
        IN  \A n \in ROUTE_NAMES :
               /\ n \in DOMAIN loaded
               /\ \E p \in file.providers : loaded[n].provider = <<Text(p)>>
               /\ app.settings.llm_provider # "fake" => Solid(loaded[n].model)

-----------------------------------------------------------------------------
(* Requests *)

\* A "ready" is true when it is said: the engine that was asked is still the one of the
\* process, its pool is open and its database is up.  It is the application's own engine
\* as long as no start or stop failed halfway; after one that did, it may be the engine
\* left behind, of another application's database (health.py, session.py).
ReadyIsTrue ==
    [][\A c \in Clients :
          request[c].pc = "probe" /\ request'[c].reply.status = 200 =>
              /\ request[c].engine = engine /\ engine \in open
              /\ engine.database \in up
              /\ clean => engine = [database |-> app.settings.database,
                                    made |-> apps]]_serviceVars

\* The id of a request is on each of its log lines and in the body of its problem,
\* whatever other requests do meanwhile, and in the header of every answer that passes
\* the middleware: not of one to an exception nobody handles (middleware.py).
OwnIdEverywhere ==
    \A c \in Clients :
        LET r == request[c] IN
        /\ \A i \in DOMAIN r.lines : r.lines[i].id = r.id
        /\ r.reply.code # "none" => r.reply.body = r.id
        /\ r.pc = "done" /\ r.route # "preflight" /\ r.reply.code # "internal_error" =>
              r.reply.header = r.id

\* The lines of the request log among those of a request.
Ends(r) == {i \in DOMAIN r.lines : r.lines[i].event \in {"request", "request_failed"}}

\* What the request log is to say of an answered request.
EndOf(r) == IF r.reply.code = "internal_error" THEN "request_failed" ELSE "request"

\* A request that has been answered left exactly one line of the request log: the
\* failure when its handler raised, and otherwise the answer with the status the client
\* got; and none when the level of the settings, or that of the first settings the logger
\* was used under, filters it out (middleware.py, logging.py).  A CORS preflight leaves none.
LoggedOnce ==
    \A c \in Clients :
        LET r == request[c]
        IN  r.pc = "done" /\ ~(r.route = "preflight" /\ app.settings.cors) =>
                IF Passes(EndOf(r))
                  THEN \E i \in Ends(r) :
                          /\ Ends(r) = {i} /\ r.lines[i].event = EndOf(r)
                          /\ EndOf(r) = "request" => r.lines[i].status = r.reply.status
                  ELSE Ends(r) = {}

\* An error reaches the client as a problem whose code belongs to its status;
\* only a 503 of /ready and a preflight that is refused are none (errors.py).
ErrorsAreProblems ==
    \A c \in Clients :
        LET r == request[c] IN
        r.pc = "done" /\ r.reply.status >= 400 /\ r.route # "ready"
                /\ ~(r.route = "preflight" /\ app.settings.cors) =>
            /\ \/ r.reply.code = HttpErrorCode(r.reply.status)
               \/ /\ r.reply.code \in DOMAIN AppErrorStatus
                  /\ r.reply.status = AppErrorStatus[r.reply.code]
            /\ r.reply.status = 500 => r.route \in {"crash", "guarded"}

-----------------------------------------------------------------------------
(* Callers *)

\* Nothing is wrong with the token, and its key is the issuer's.
Sound(token) == /\ ~token.forged /\ token.claims /\ token.aud /\ token.sub
                /\ token.role \in ROLES /\ token.exp > clock

\* The guarded handler is entered for the holder of a sound token of an allowed
\* role alone, and with a key file only for a token of that file's key (auth.py).
CallerIsVerified ==
    [][\A c \in Clients :
          request[c].route = "guarded" /\ request[c].pc = "handler"
                  /\ request'[c].reply.status = 200 =>
              \E t \in request[c].bearer :
                 /\ Sound(t) /\ t.role \in ALLOWED
                 /\ \/ app.settings.keys = "jwks"
                    \/ app.settings.keys = "file" /\ t.kid = keys.file]_serviceVars

\* A sound token is never refused for its key when the key is published at that
\* moment, however old the set in hand is: rotation of the keys needs no restart.
NewKeyAccepted ==
    [][\A c \in Clients, t \in Tokens :
          (/\ request[c].pc = "handler" /\ request[c].bearer = {t} /\ Sound(t)
           /\ request'[c].pc \notin {"handler", "idle"}
           /\ \/ app.settings.keys = "jwks" /\ keys.up /\ t.kid \in keys.published
              \/ app.settings.keys = "file" /\ t.kid = keys.file)
          => request'[c].reply.status = (IF t.role \in ALLOWED THEN 200 ELSE 403)]_serviceVars

-----------------------------------------------------------------------------
(* What the repository says of the program, and the program does not do.   *)

\* "`X-Request-Id` in the answer and in every log" (MVP-PLAN.fa.md:232, in Persian and
\* marked as accepted), of every request that reaches the middleware.
HeaderOnEveryAnswer ==
    \A c \in Clients :
        request[c].pc = "done" /\ request[c].route # "preflight" =>
            request[c].reply.header = request[c].id
=============================================================================
