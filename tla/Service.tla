------------------------------ MODULE Service -------------------------------
(***************************************************************************)
(* A process of the service: applications one after another (main.py) over *)
(* one module-global engine (session.py), and the requests they serve      *)
(* (middleware.py, errors.py, health.py), with the token check of Auth and *)
(* the startup checks of Policy.                                           *)
(*                                                                         *)
(* A client has one request at a time, and what happens between two awaits *)
(* is one step.  CORSMiddleware is outside the request context.            *)
(***************************************************************************)
EXTENDS Auth, Policy

CONSTANTS
    Configs,        \* settings: the fields CreateApp reads; main_backend and
                    \* builds (its fixtures or URL are fit); keys ("jwks", "file"
                    \* or "none"); database; cors (origins are configured)
    Databases,
    Clients,        \* whoever sends requests
    RoutesOf,       \* the routes each client asks for
    Bearers,        \* what may be in the Authorization header
    NoSettings,     \* no application
    NoEngine,       \* _engine is None
    MaxApps         \* bound of the model: applications of one process

ASSUME ConfigsAssumption ==
    \A s \in Configs :
       /\ s.builds \in BOOLEAN /\ s.cors \in BOOLEAN /\ s.database \in Databases
       /\ s.keys \in {"jwks", "file", "none"}
       /\ \A n \in DOMAIN s.routes_file.routes :
             s.routes_file.routes[n].model \in Seq([ref : BOOLEAN, name : STRING])

ASSUME ServiceAssumption ==
    /\ MaxApps \in Nat
    /\ NoEngine \notin [database : Databases, made : 1..MaxApps]
    /\ Bearers \subseteq SUBSET Tokens

VARIABLES
    app,        \* the application: pc, settings
    apps,       \* the number of applications created in this process
    engine,     \* _engine: the database and the application it was made for
    open,       \* engines made and not disposed of
    clean,      \* history: no start or stop of this process has failed
    up,         \* the databases that answer
    request,    \* per client, its request
    context,    \* per client, the context variable _request_id of its task
    levels      \* per logger of a module, the level of its first use

serviceVars == <<app, apps, engine, open, clean, up, request, context, levels, clock, keys>>
engineVars == <<app, apps, engine, open, clean>>
appVars == <<app, apps, engine, open, clean, levels>>

ALLOWED == {"staff", "admin"}       \* require_roles(...) of the guarded endpoint

\* A response; with a code it is a problem_response, with the id in its body.
Response(status, code, id) ==
    [status |-> status, code |-> code, header |-> "none",
     body |-> IF code = "none" THEN "none" ELSE id]

Reply == Response(0, "none", "none")        \* none yet

Unused == [logger \in {"http", "health"} |-> "unused"]

\* `id` is request.state.request_id, `engine` what get_engine() returned, `lines`
\* the lines logged: event, the id on it, and the status it names, if any.
NoRequest == [pc |-> "idle", route |-> "none", bearer |-> {}, id |-> "none", reply |-> Reply,
              engine |-> NoEngine, lines |-> << >>]

Init == /\ AuthInit
        /\ app = [pc |-> "none", settings |-> NoSettings] /\ apps = 0
        /\ engine = NoEngine /\ open = {} /\ clean = TRUE
        /\ up \in SUBSET Databases
        /\ request = [c \in Clients |-> NoRequest]
        /\ context = [c \in Clients |-> "none"]
        /\ levels = Unused

-----------------------------------------------------------------------------
(* main.py and session.py                                                  *)

Created(settings) == CreateApp(settings)

NewApp ==
    /\ app.pc \in {"none", "refused", "failed", "stopped"} /\ apps < MaxApps
    /\ \E settings \in Configs :
          app' = [pc |-> IF Created(settings) THEN "created" ELSE "refused",
                  settings |-> IF Created(settings) THEN settings ELSE NoSettings]
    /\ apps' = apps + 1
    /\ UNCHANGED <<engine, open, clean, up, request, context, levels, clock, keys>>

Failed == [pc |-> "failed", settings |-> NoSettings]

\* A slip: every start makes an engine.
InitEngine_Always(settings) == [database |-> settings.database, made |-> apps]

\* init_engine: an engine that is there stays.
InitEngine(settings) == IF engine # NoEngine THEN engine
                        ELSE [database |-> settings.database, made |-> apps]

\* lifespan up to its yield; build_backend raises when the backend's URL is
\* missing or a fixture does not parse, and nobody disposes of the engine.
StartUp ==
    /\ app.pc = "created"
    /\ engine' = InitEngine(app.settings)
    /\ open' = open \cup {engine'}
    /\ app' = IF app.settings.builds THEN [app EXCEPT !.pc = "serving"] ELSE Failed
    /\ clean' = (clean /\ app.settings.builds)
    /\ UNCHANGED <<apps, up, request, context, levels, clock, keys>>

\* The server stops when the requests under way are answered; aclose() of the
\* HTTP backend may raise, and then dispose_engine is never called.
ShutDown ==
    /\ app.pc = "serving"
    /\ \A c \in Clients : request[c].pc \in {"idle", "done"}
    /\ \E raises \in IF app.settings.main_backend = "http" THEN BOOLEAN ELSE {FALSE} :
          /\ app' = IF raises THEN Failed ELSE [app EXCEPT !.pc = "disposing"]
          /\ clean' = (clean /\ ~raises)
    /\ request' = [c \in Clients |-> NoRequest]
    /\ UNCHANGED <<apps, engine, open, up, context, levels, clock, keys>>

\* A slip: the pool is closed and the global kept.
DisposeEngine_Kept == open' = open \ {engine} /\ UNCHANGED engine
DisposeEngine == open' = open \ {engine} /\ engine' = NoEngine

Disposed == /\ app.pc = "disposing"
            /\ DisposeEngine
            /\ app' = [pc |-> "stopped", settings |-> NoSettings]
            /\ UNCHANGED <<apps, clean, up, request, context, levels, clock, keys>>

\* The process ends, at any moment, and another one takes its place.
Exit == /\ app.pc # "none"
        /\ app' = [pc |-> "none", settings |-> NoSettings] /\ apps' = 0
        /\ engine' = NoEngine /\ open' = {} /\ clean' = TRUE
        /\ request' = [c \in Clients |-> NoRequest]
        /\ context' = [c \in Clients |-> "none"]
        /\ keys' = ForgetKeys /\ levels' = Unused
        /\ UNCHANGED <<up, clock>>

-----------------------------------------------------------------------------
(* RequestContextMiddleware                                                *)

\* A slip: the id is kept in a module global.
SetRequestId_Global(c, id) == context' = [d \in Clients |-> id]
SetRequestId(c, id) == context' = [context EXCEPT ![c] = id]

\* A request arrives: dispatch up to `await call_next`.  A client without an id
\* of its own is given a fresh one, here its name.
Arrive(c) ==
    /\ app.pc = "serving" /\ request[c].pc \in {"idle", "done"}
    /\ \E route \in RoutesOf[c], id \in {c, "given"} :
       \E bearer \in IF route = "guarded" THEN Bearers ELSE {{}} :
          /\ route = "preflight" => ~app.settings.cors
          /\ request' = [request EXCEPT ![c] = [NoRequest EXCEPT !.pc = "handler",
                            !.route = route, !.bearer = bearer, !.id = id]]
          /\ SetRequestId(c, id)
    /\ UNCHANGED <<appVars, up, clock, keys>>

\* A preflight that CORSMiddleware answers: 400 when it refuses.
AnswerPreflight(c) ==
    /\ app.pc = "serving" /\ request[c].pc \in {"idle", "done"}
    /\ "preflight" \in RoutesOf[c] /\ app.settings.cors
    /\ \E status \in {200, 400} :
          request' = [request EXCEPT ![c] = [NoRequest EXCEPT !.pc = "done",
                         !.route = "preflight", !.reply = Response(status, "none", "none")]]
    /\ UNCHANGED <<appVars, up, context, clock, keys>>

\* The levels of log.info, log.exception and log.warning, and who logs what.
Severity == [request |-> 20, request_failed |-> 40, readiness_db_failed |-> 30]
LoggerOf == [request |-> "http", request_failed |-> "http", readiness_db_failed |-> "health"]

\* cache_logger_on_first_use: a logger keeps the level of the settings it was first
\* used under, whatever is configured later.
LevelOf(logger) == IF levels[logger] = "unused" THEN app.settings.log_level ELSE levels[logger]
FirstUse(logger) == levels' = [levels EXCEPT ![logger] = LevelOf(logger)]

\* The event is logged: its logger lets it pass, and so does the root logger.
Passes(event) == /\ Severity[event] >= LOG_LEVELS[LevelOf(LoggerOf[event])]
                 /\ Severity[event] >= LOG_LEVELS[app.settings.log_level]

\* A line of the log, with the id the context variable has.
LogLine(c, event, status) == [event |-> event, id |-> context[c], status |-> status]

\* The lines of client c's request once the event has been logged, or filtered out.
Logging(c, event, status) ==
    IF Passes(event) THEN Append(request[c].lines, LogLine(c, event, status))
                     ELSE request[c].lines

\* The request r when the application has answered the middleware's call_next.
Answered(r, status, code) ==
    [r EXCEPT !.pc = "leave", !.reply = Response(status, code, r.id)]

Respond(c, status, code) == request' = [request EXCEPT ![c] = Answered(@, status, code)]

\* The response passes the middleware.
Leave(c) ==
    LET r == request[c] IN
    /\ r.pc = "leave"
    /\ request' = [request EXCEPT ![c] = [r EXCEPT !.pc = "done", !.reply.header = r.id,
                      !.lines = Logging(c, "request", r.reply.status)]]
    /\ FirstUse("http")
    /\ UNCHANGED <<engineVars, up, context, clock, keys>>

\* A slip: the exception passes through unlogged.
LogFailure_None(c) == request[c].lines

\* log.exception("request_failed"), which names no status.
LogFailure(c) == Logging(c, "request_failed", 0)

\* An exception without a handler of its own passes the middleware, which logs
\* it; _unhandled answers from outside of it.
Raise(c) ==
    LET r == request[c] IN
    /\ r.pc = "raised"
    /\ request' = [request EXCEPT ![c] = [r EXCEPT !.pc = "done", !.lines = LogFailure(c),
          !.reply = Response(500, "internal_error", r.id)]]
    /\ FirstUse("http")
    /\ UNCHANGED <<engineVars, up, context, clock, keys>>

-----------------------------------------------------------------------------
(* Handlers and error handlers                                             *)

DEFAULT_CODES ==
    [s \in {400, 401, 403, 404, 405, 409, 422, 429, 500, 502, 503, 504} |->
        CASE s = 400 -> "bad_request"       [] s = 401 -> "unauthenticated"
          [] s = 403 -> "forbidden"         [] s = 404 -> "not_found"
          [] s = 405 -> "method_not_allowed" [] s = 409 -> "conflict"
          [] s = 422 -> "invalid_request"   [] s = 429 -> "rate_limited"
          [] s = 500 -> "internal_error"    [] s = 502 -> "upstream_unavailable"
          [] s = 503 -> "unavailable"       [] s = 504 -> "upstream_timeout"]

\* _http_error; a slip makes a code of the phrase of a status outside of the table.
HttpErrorCode_Phrase(status) ==
    IF status \in DOMAIN DEFAULT_CODES THEN DEFAULT_CODES[status] ELSE "im_a_teapot"
HttpErrorCode(status) ==
    IF status \in DOMAIN DEFAULT_CODES THEN DEFAULT_CODES[status] ELSE "http_error"

\* The status of each AppError (auth.py, connectors/base.py), by its code.
AppErrorStatus == [unauthenticated |-> 401, invalid_token |-> 401, token_expired |-> 401,
                   forbidden |-> 403, conversation_not_found |-> 404,
                   upstream_unavailable |-> 502, not_implemented |-> 501]

\* A slip: an error of the application is taken for any other exception.
AppErrorHandler_None(r, code) == [r EXCEPT !.pc = "raised"]
AppErrorHandler(r, code) == Answered(r, AppErrorStatus[code], code)

Routed(c, routes) == request[c].pc = "handler" /\ request[c].route \in routes

Health(c) == /\ Routed(c, {"health"})
             /\ Respond(c, 200, "none")
             /\ UNCHANGED <<appVars, up, context, clock, keys>>

\* No such path, no such method (a preflight without CORS is one), any other
\* HTTPException, and a request that fits no parameter.
HttpError(c) ==
    /\ \/ Routed(c, {"unknown"}) /\ Respond(c, 404, HttpErrorCode(404))
       \/ Routed(c, {"preflight"}) /\ Respond(c, 405, HttpErrorCode(405))
       \/ Routed(c, {"teapot"}) /\ Respond(c, 418, HttpErrorCode(418))
       \/ Routed(c, {"invalid"}) /\ Respond(c, 422, "invalid_request")
    /\ UNCHANGED <<appVars, up, context, clock, keys>>

\* A handler that fails: with an AppError of the connector, or any other way.
HandlerFails(c) ==
    /\ \/ /\ Routed(c, {"upstream"})
          /\ \E code \in {"conversation_not_found", "upstream_unavailable"} :
                request' = [request EXCEPT ![c] = AppErrorHandler(@, code)]
       \/ /\ Routed(c, {"crash"})
          /\ request' = [request EXCEPT ![c] = [@ EXCEPT !.pc = "raised"]]
    /\ UNCHANGED <<appVars, up, context, clock, keys>>

\* The guarded endpoint: current_actor, require_roles, and a handler that answers.
Guarded(c) ==
    LET source == app.settings.keys
        bearer == request[c].bearer
        verdict == Verdict(bearer, source, ALLOWED)
    IN  /\ Routed(c, {"guarded"})
        /\ request' = [request EXCEPT ![c] =
              CASE verdict = "ok" -> Answered(@, 200, "none")
                [] verdict = "crash" -> [@ EXCEPT !.pc = "raised"]
                [] OTHER -> AppErrorHandler(@, verdict)]
        /\ keys' = IF bearer = {} THEN keys
                   ELSE KeysAfter(CHOOSE t \in bearer : TRUE, source)
        /\ UNCHANGED <<appVars, up, context, clock>>

-----------------------------------------------------------------------------
(* health.py                                                               *)

\* _check_db up to the await of engine.connect(); without an engine it fails.
Ready(c) ==
    /\ Routed(c, {"ready"})
    /\ request' = [request EXCEPT ![c] = [@ EXCEPT !.pc = "probe", !.engine = engine]]
    /\ UNCHANGED <<appVars, up, context, clock, keys>>

\* A slip: a pool that hands out a connection is enough.
ProbeWorks_Unasked(e) == e # NoEngine
ProbeWorks(e) == e # NoEngine /\ e.database \in up

\* "SELECT 1" is answered.
ProbeOk(c) == /\ request[c].pc = "probe" /\ ProbeWorks(request[c].engine)
              /\ Respond(c, 200, "none")
              /\ UNCHANGED <<appVars, up, context, clock, keys>>

\* except Exception: the 503 is an ordinary answer, no problem+json.
ProbeFails(c) ==
    LET r == request[c] IN
    /\ r.pc = "probe" /\ ~ProbeWorks(r.engine)
    /\ request' = [request EXCEPT ![c] = [r EXCEPT !.pc = "leave", !.reply.status = 503,
                      !.lines = Logging(c, "readiness_db_failed", 0)]]
    /\ FirstUse("health")
    /\ UNCHANGED <<engineVars, up, context, clock, keys>>

DatabaseUpOrDown(d) ==
    /\ up' = IF d \in up THEN up \ {d} ELSE up \cup {d}
    /\ UNCHANGED <<appVars, request, context, clock, keys>>

-----------------------------------------------------------------------------

Issuer == /\ \/ Tick
             \/ JwksUpOrDown
             \/ \E kid \in Kids : PublishKey(kid)
             \/ \E kid \in Kids \cup {NoKid} : ReplaceKeyFile(kid)
          /\ UNCHANGED <<appVars, up, request, context>>

Serve(c) == \/ Arrive(c) \/ AnswerPreflight(c) \/ Leave(c) \/ Raise(c)
            \/ Health(c) \/ HttpError(c) \/ HandlerFails(c) \/ Guarded(c)
            \/ Ready(c) \/ ProbeOk(c) \/ ProbeFails(c)

Next == \/ NewApp \/ StartUp \/ ShutDown \/ Disposed \/ Exit
        \/ \E c \in Clients : Serve(c)
        \/ \E d \in Databases : DatabaseUpOrDown(d)
        \/ Issuer

Spec == Init /\ [][Next]_serviceVars
=============================================================================
