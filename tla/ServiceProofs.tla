---------------------------- MODULE ServiceProofs ----------------------------
(***************************************************************************)
(* Proofs about Service, for every set of clients, tokens, databases and   *)
(* configurations, and every number of applications.                       *)
(***************************************************************************)
EXTENDS ServiceProps, SequenceTheorems, TLAPS

-----------------------------------------------------------------------------
(* The helpers                                                             *)

\* The codes the handlers answer with.
Codes == {"none", "not_found", "method_not_allowed", "http_error", "invalid_request",
          "conversation_not_found", "upstream_unavailable", "unauthenticated",
          "invalid_token", "token_expired", "forbidden", "internal_error"}

\* _http_error gives each of its statuses a code of the table, or "http_error".
LEMMA HttpErrorCodes ==
    /\ HttpErrorCode(404) = "not_found"
    /\ HttpErrorCode(405) = "method_not_allowed"
    /\ HttpErrorCode(418) = "http_error"
    /\ HttpErrorCode(422) = "invalid_request"
    /\ HttpErrorCode(500) = "internal_error"
BY DEF HttpErrorCode, DEFAULT_CODES

\* Every code the handlers use is in a table.
LEMMA CodesListed == Codes \subseteq CODES
<1>1. {"unauthenticated", "invalid_token", "token_expired", "forbidden",
       "conversation_not_found", "upstream_unavailable"} \subseteq DOMAIN AppErrorStatus
  BY DEF AppErrorStatus
<1>2. /\ DEFAULT_CODES[404] = "not_found" /\ DEFAULT_CODES[405] = "method_not_allowed"
      /\ DEFAULT_CODES[422] = "invalid_request" /\ DEFAULT_CODES[500] = "internal_error"
      /\ {404, 405, 422, 500} \subseteq DOMAIN DEFAULT_CODES
  BY DEF DEFAULT_CODES
<1> QED
  BY <1>1, <1>2 DEF Codes, CODES

\* The codes of refused callers are those of an AppError, below 500.
AuthCodes == {"unauthenticated", "invalid_token", "token_expired", "forbidden"}
LEMMA AuthStatuses ==
    \A code \in AuthCodes \cup {"conversation_not_found", "upstream_unavailable"} :
        /\ code \in DOMAIN AppErrorStatus
        /\ AppErrorStatus[code] \in {401, 403, 404, 502}
BY DEF AuthCodes, AppErrorStatus

\* A check of a caller ends in "ok", in a code of auth.py, or in AuthConfigError.
LEMMA Verdicts ==
    ASSUME NEW bearer, NEW source, NEW allowed
    PROVE  Verdict(bearer, source, allowed) \in AuthCodes \cup {"ok", "crash"}
BY DEF Verdict, Claims, AuthCodes

\* PyJWT's sets hold keys of the issuer.
KeysType == [published : SUBSET Kids, up : BOOLEAN, fetched : SUBSET Kids, until : Nat,
             known : SUBSET Kids, file : Kids \cup {NoKid}]

LEMMA FetchTyped ==
    ASSUME clock \in Nat, NEW ks \in KeysType
    PROVE  /\ Fetch(ks) \in KeysType
           /\ ks.up => /\ Fetch(ks).up /\ Fetch(ks).fetched = ks.published
                       /\ Fetch(ks).published = ks.published
<1>1. clock + Lifespan \in Nat
  BY TokensAssumption
<1> QED
  BY <1>1 DEF Fetch, KeysType

LEMMA LookupTyped ==
    ASSUME keys \in KeysType, clock \in Nat, NEW kid \in Kids
    PROVE  Lookup(kid) \in KeysType
<1> DEFINE first == IF keys.until > clock THEN keys ELSE Fetch(keys)
           last == IF kid \in first.fetched THEN first ELSE Fetch(first)
<1>1. first \in KeysType
  BY FetchTyped
<1>2. last \in KeysType
  <2> HIDE DEF first
  <2> QED BY <1>1, FetchTyped
<1>3. [last EXCEPT !.known = @ \cup {kid}] \in KeysType
  <2> HIDE DEF last
  <2> QED BY <1>2 DEF KeysType
<1> QED
  BY <1>2, <1>3 DEF Lookup

\* The issuer's key is found while its endpoint answers.
LEMMA PublishedIsFound ==
    ASSUME keys \in KeysType, clock \in Nat, NEW kid \in Kids,
           keys.up, kid \in keys.published
    PROVE  kid \in Lookup(kid).known
<1> DEFINE first == IF keys.until > clock THEN keys ELSE Fetch(keys)
           last == IF kid \in first.fetched THEN first ELSE Fetch(first)
<1>1. first \in KeysType /\ first.up /\ first.published = keys.published
  BY FetchTyped
<1>2. last \in KeysType /\ kid \in last.fetched
  <2> HIDE DEF first
  <2> QED BY <1>1, FetchTyped
<1>3. kid \in [last EXCEPT !.known = @ \cup {kid}].known
  <2> HIDE DEF last
  <2> QED BY <1>2 DEF KeysType
<1> QED
  BY <1>2, <1>3 DEF Lookup

-----------------------------------------------------------------------------
(* The inductive invariant                                                 *)

Ids == Clients \cup {"none", "given"}
LogLines == [event : {"request", "request_failed", "readiness_db_failed"}, id : Ids, status : Nat]
Routes == {"none"} \cup UNION {RoutesOf[c] : c \in Clients}
Replies == [status : Nat, code : Codes, header : Ids, body : Ids]
PCs == {"idle", "handler", "probe", "raised", "leave", "done"}
Requests == [pc : PCs, route : Routes, bearer : SUBSET Tokens, id : Ids, reply : Replies,
             engine : Engines \cup {NoEngine}, lines : Seq(LogLines)]

\* The status of an answer goes with its code, as ErrorsAreProblems demands.
CodeFits(r) ==
    r.reply.status >= 400 =>
        /\ \/ r.reply.code = HttpErrorCode(r.reply.status)
           \/ /\ r.reply.code \in DOMAIN AppErrorStatus
              /\ r.reply.status = AppErrorStatus[r.reply.code]
        /\ r.reply.status = 500 => r.route \in {"crash", "guarded"}

\* A request has its type and a route of its client.
Typed(c, r) == r \in Requests /\ r.route \in RoutesOf[c] \cup {"none"}

\* All it leaves behind bears its id, which is that of the context v while it lasts.
OwnId(r, v) ==
    /\ \A i \in DOMAIN r.lines : r.lines[i].id = r.id
    /\ r.reply.code # "none" => r.reply.body = r.id
    /\ r.pc \in {"handler", "probe", "raised", "leave"} => v = r.id

\* Before its answer it has none; a probe asks the engine e there is.
InHand(r, e) ==
    /\ r.pc \in {"idle", "handler", "probe", "raised"} => r.reply = Reply
    /\ r.pc = "probe" => r.route = "ready" /\ r.engine = e
    /\ r.pc = "raised" => r.route \in {"crash", "guarded"}
    /\ r.bearer # {} => r.route = "guarded"

\* Its answer bears its id, except to an exception, and the code of its status.
AnswerOK(r, cors) ==
    /\ r.pc = "leave" => r.reply.code # "internal_error"
    /\ r.pc = "done" /\ r.route # "preflight" =>
          r.reply.header = (IF r.reply.code = "internal_error" THEN "none" ELSE r.id)
    /\ r.pc \in {"leave", "done"} /\ r.route # "ready" /\ ~(r.route = "preflight" /\ cors)
          => CodeFits(r)

Fits(c, r, v, e, cors) == Typed(c, r) /\ OwnId(r, v) /\ InHand(r, e) /\ AnswerOK(r, cors)

RequestsFit ==
    /\ request \in [Clients -> Requests]
    /\ context \in [Clients -> Ids]
    /\ \A c \in Clients : Fits(c, request[c], context[c], engine, app.settings.cors)

\* Before and after it serves, an application has no requests.
Unserved == app.pc # "serving" => request = [c \in Clients |-> NoRequest]

LevelsType == [{"http", "health"} -> DOMAIN LOG_LEVELS \cup {"unused"}]
AppPCs == {"none", "refused", "created", "serving", "disposing", "stopped", "failed"}
ProcessTyped ==
    /\ app \in [pc : AppPCs, settings : Configs \cup {NoSettings}]
    /\ apps \in 0..MaxApps /\ clean \in BOOLEAN
    /\ engine \in Engines \cup {NoEngine} /\ open \subseteq Engines
    /\ up \subseteq Databases /\ clock \in 0..MaxTime /\ keys \in KeysType
    /\ levels \in LevelsType

\* What create_app has accepted is what runs.
Accepted ==
    /\ app.pc \in {"created", "serving", "disposing"} => app.settings \in Configs /\ apps >= 1
    /\ app.pc \in {"created", "serving"} => CreateApp(app.settings)

\* The engine in the global is the only one with a pool, and what serves has it.  While
\* nothing has failed, it is there from the start of an application to its end, and is
\* its own.
OwnEngine ==
    /\ open = (IF engine = NoEngine THEN {} ELSE {engine})
    /\ app.pc = "serving" => engine # NoEngine
    /\ clean => /\ app.pc # "failed"
                /\ IF app.pc \in {"serving", "disposing"}
                     THEN engine = [database |-> app.settings.database, made |-> apps]
                     ELSE engine = NoEngine

IndInv == ProcessTyped /\ Accepted /\ OwnEngine /\ Unserved /\ RequestsFit

-----------------------------------------------------------------------------
(* The invariant implies the properties                                    *)

\* Requests and answers have their types, and the process its own.
LEMMA IndInvTypes == IndInv => TypeOK
<1> SUFFICES ASSUME IndInv PROVE TypeOK
  OBVIOUS
<1>1. ASSUME NEW c \in Clients
      PROVE  /\ request[c].pc \in PCs /\ request[c].route \in RoutesOf[c] \cup {"none"}
             /\ request[c].engine \in Engines \cup {NoEngine}
             /\ request[c].reply.code \in CODES
  BY CodesListed DEF IndInv, RequestsFit, Fits, Typed, Requests, Replies
<1> QED
  BY <1>1 DEF IndInv, ProcessTyped, RequestsFit, TypeOK, AppPCs, PCs, Ids, LevelsType, Unused

LEMMA IndInvOwnEngine == IndInv => EngineIsOwn
BY DEF IndInv, OwnEngine, EngineIsOwn

LEMMA IndInvOwnId == IndInv => OwnIdEverywhere
BY DEF IndInv, RequestsFit, Fits, OwnId, AnswerOK, OwnIdEverywhere

LEMMA IndInvProblems == IndInv => ErrorsAreProblems
BY DEF IndInv, RequestsFit, Fits, AnswerOK, CodeFits, ErrorsAreProblems

\* A model that is not empty, once its references are gone, has a character.
LEMMA ExpandedIsSolid ==
    ASSUME NEW s \in Seq([ref : BOOLEAN, name : STRING]), NEW env,
           ~Empty(ExpandString(s, env))
    PROVE  LET t == ExpandString(s, env)
           IN  (\E i \in DOMAIN t : t[i].name # "") /\ (\A i \in DOMAIN t : ~t[i].ref)
<1> DEFINE t == ExpandString(s, env)
<1>1. \A i \in DOMAIN t : i \in DOMAIN s /\ \E x : t[i] = Text(x)
  <2>1. CASE Len(s) = 1 /\ s[1].ref /\ env[s[1].name] = ""
    <3>1. t = << >>
      BY <2>1 DEF ExpandString
    <3> QED
      BY <3>1
  <2>2. CASE ~(Len(s) = 1 /\ s[1].ref /\ env[s[1].name] = "")
    <3>1. t = [i \in DOMAIN s |-> IF s[i].ref THEN Text(env[s[i].name]) ELSE s[i]]
      BY <2>2 DEF ExpandString
    <3>2. ASSUME NEW i \in DOMAIN s, ~s[i].ref PROVE s[i] = Text(s[i].name)
      <4>1. s[i] \in [ref : BOOLEAN, name : STRING]
        BY DOMAIN s = 1..Len(s), ElementOfSeq
      <4>2. s[i] = [ref |-> s[i].ref, name |-> s[i].name] /\ s[i].ref = FALSE
        BY <3>2, <4>1
      <4> QED
        BY <4>2 DEF Text
    <3> QED
      BY <3>1, <3>2
  <2> QED
    BY <2>1, <2>2
<1>2. PICK i \in DOMAIN t : t[i] # Text("")
  BY DEF Empty
<1>3. t[i].name # ""
  <2>1. PICK x : t[i] = Text(x)
    BY <1>1
  <2> QED
    <3>1. x # ""
      BY <1>2, <2>1
    <3>2. Text(x).name = x
      BY DEF Text
    <3> QED
      BY <2>1, <3>1, <3>2
<1>4. \A j \in DOMAIN t : ~t[j].ref
  BY <1>1 DEF Text
<1> QED
  BY <1>3, <1>4

LEMMA IndInvComplete == IndInv => StartedIsComplete
<1> SUFFICES ASSUME IndInv, app.pc \in {"created", "serving"},
                    NEW n \in ROUTE_NAMES
             PROVE  LET file == app.settings.routes_file
                        loaded == ExpandRoutes(file.routes, app.settings.env)
                        Solid(s) == /\ \E i \in DOMAIN s : s[i].name # ""
                                    /\ \A i \in DOMAIN s : ~s[i].ref
                    IN  /\ n \in DOMAIN loaded
                        /\ \E p \in file.providers : loaded[n].provider = <<Text(p)>>
                        /\ app.settings.llm_provider # "fake" => Solid(loaded[n].model)
  BY DEF StartedIsComplete
<1> DEFINE file == app.settings.routes_file
           loaded == ExpandRoutes(file.routes, app.settings.env)
<1>1. app.settings \in Configs /\ CreateApp(app.settings)
  BY DEF IndInv, Accepted
<1>2. n \in DOMAIN file.routes /\ DOMAIN loaded = DOMAIN file.routes
  BY <1>1 DEF CreateApp, LoadRoutes, ExpandRoutes
<1>3. \E p \in file.providers : loaded[n].provider = <<Text(p)>>
  BY <1>1, <1>2 DEF CreateApp, LoadRoutes
<1>4. ASSUME app.settings.llm_provider # "fake"
      PROVE  /\ ~Empty(loaded[n].model)
             /\ loaded[n].model = ExpandString(file.routes[n].model, app.settings.env)
  BY <1>1, <1>2, <1>4 DEF CreateApp, RequireModels, ExpandRoutes
<1>5. file.routes[n].model \in Seq([ref : BOOLEAN, name : STRING])
  BY <1>1, <1>2, ConfigsAssumption
<1> QED
  BY <1>2, <1>3, <1>4, <1>5, ExpandedIsSolid

-----------------------------------------------------------------------------
(* Every step keeps the invariant                                          *)

LEMMA ResponseTyped ==
    ASSUME NEW status \in Nat, NEW code \in Codes, NEW v \in Ids
    PROVE  /\ Response(status, code, v) \in Replies
           /\ Response(status, code, v).status = status
           /\ Response(status, code, v).code = code
           /\ Response(status, code, v).header = "none"
           /\ code # "none" => Response(status, code, v).body = v
<1>1. Response(status, code, v) \in Replies
  BY DEF Response, Replies, Ids
<1>2. /\ Response(status, code, v).status = status
      /\ Response(status, code, v).code = code
      /\ Response(status, code, v).header = "none"
  BY DEF Response
<1>3. code # "none" => Response(status, code, v).body = v
  BY DEF Response
<1> QED
  BY <1>1, <1>2, <1>3

LEMMA ReplyTyped == Reply \in Replies /\ Reply.status = 0 /\ Reply.code = "none"
<1>1. 0 \in Nat /\ "none" \in Codes /\ "none" \in Ids
  BY DEF Codes, Ids
<1> QED
  BY <1>1, ResponseTyped DEF Reply

LEMMA LogLineTyped ==
    ASSUME NEW c \in Clients, context[c] \in Ids, NEW status \in Nat,
           NEW event \in {"request", "request_failed", "readiness_db_failed"}
    PROVE  LogLine(c, event, status) \in LogLines /\ LogLine(c, event, status).id = context[c]
BY DEF LogLine, LogLines

\* A logger has a level of the table, and its first use fixes that level.
LEMMA LevelsTyped ==
    ASSUME IndInv, app.pc = "serving", NEW logger \in {"http", "health"}
    PROVE  /\ LevelOf(logger) \in DOMAIN LOG_LEVELS
           /\ [levels EXCEPT ![logger] = LevelOf(logger)] \in LevelsType
<1>1. app.settings.log_level \in DOMAIN LOG_LEVELS
  BY DEF IndInv, Accepted, CreateApp
<1>2. levels \in [{"http", "health"} -> DOMAIN LOG_LEVELS \cup {"unused"}]
  BY DEF IndInv, ProcessTyped, LevelsType
<1> HIDE DEF LOG_LEVELS
<1>3. LevelOf(logger) \in DOMAIN LOG_LEVELS
  BY <1>1, <1>2 DEF LevelOf
<1> QED
  BY <1>2, <1>3 DEF LevelsType

\* So what passes the filters passes them still.
LEMMA PassesStays ==
    ASSUME IndInv, app.pc = "serving", app' = app, NEW logger \in {"http", "health"},
           levels' = levels \/ FirstUse(logger), NEW event \in DOMAIN Severity
    PROVE  Passes(event)' <=> Passes(event)
<1>1. app.settings.log_level \in DOMAIN LOG_LEVELS
  BY DEF IndInv, Accepted, CreateApp
<1>2. levels \in [{"http", "health"} -> DOMAIN LOG_LEVELS \cup {"unused"}]
  BY DEF IndInv, ProcessTyped, LevelsType
<1>3. "unused" \notin DOMAIN LOG_LEVELS
  BY DEF LOG_LEVELS
<1>4. LoggerOf[event] \in {"http", "health"}
  BY DEF LoggerOf, Severity
<1> HIDE DEF LOG_LEVELS
<1>5. ASSUME NEW other \in {"http", "health"} PROVE LevelOf(other)' = LevelOf(other)
  BY <1>1, <1>2, <1>3 DEF LevelOf, FirstUse
<1>6. LevelOf(LoggerOf[event])' = LevelOf(LoggerOf[event])
  BY <1>4, <1>5
<1> QED
  BY <1>6 DEF Passes

\* The empty request fits anything.
LEMMA NoRequestTyped ==
    /\ NoRequest \in Requests
    /\ NoRequest.pc = "idle" /\ NoRequest.route = "none" /\ NoRequest.bearer = {}
    /\ NoRequest.reply = Reply /\ NoRequest.lines = << >>
<1>1. << >> \in Seq(LogLines) /\ "none" \in Ids /\ "idle" \in PCs /\ "none" \in Routes
  BY DEF PCs, Ids, Routes
<1> QED
  BY <1>1, ReplyTyped DEF NoRequest, Requests

LEMMA NoRequestFits ==
    ASSUME NEW c \in Clients, NEW v, NEW e, NEW cors
    PROVE  Fits(c, NoRequest, v, e, cors)
<1>1. Typed(c, NoRequest)
  BY NoRequestTyped DEF Typed
<1>2. OwnId(NoRequest, v)
  <2>1. \A i \in DOMAIN NoRequest.lines : NoRequest.lines[i].id = NoRequest.id
    BY NoRequestTyped
  <2>2. /\ NoRequest.reply.code = "none"
        /\ NoRequest.pc \notin {"handler", "probe", "raised", "leave"}
    BY NoRequestTyped, ReplyTyped
  <2> QED
    BY <2>1, <2>2 DEF OwnId
<1>3. InHand(NoRequest, e)
  <2>1. NoRequest.reply = Reply /\ NoRequest.bearer = {}
    BY NoRequestTyped
  <2>2. NoRequest.pc # "probe" /\ NoRequest.pc # "raised"
    BY NoRequestTyped
  <2> QED
    BY <2>1, <2>2 DEF InHand
<1>4. AnswerOK(NoRequest, cors)
  BY NoRequestTyped DEF AnswerOK
<1> QED
  BY <1>1, <1>2, <1>3, <1>4 DEF Fits

LEMMA InitIndInv == Init => IndInv
<1> SUFFICES ASSUME Init PROVE IndInv
  OBVIOUS
<1>1. AuthInit
  BY DEF Init
<1>2. keys \in KeysType
  BY <1>1 DEF AuthInit, KeysType
<1>3. clock \in 0..MaxTime
  BY <1>1, TokensAssumption DEF AuthInit
<1>5. /\ app = [pc |-> "none", settings |-> NoSettings] /\ apps = 0
      /\ engine = NoEngine /\ open = {} /\ clean = TRUE /\ up \in SUBSET Databases
      /\ request = [c \in Clients |-> NoRequest] /\ context = [c \in Clients |-> "none"]
      /\ levels = Unused
  BY Zenon DEF Init
<1>4. ProcessTyped
  <2>1. app = [pc |-> "none", settings |-> NoSettings] /\ apps = 0
    BY <1>5
  <2>2. "none" \in AppPCs /\ 0 \in 0..MaxApps
    BY ServiceAssumption DEF AppPCs
  <2>3. app \in [pc : AppPCs, settings : Configs \cup {NoSettings}] /\ apps \in 0..MaxApps
    BY <2>1, <2>2
  <2>4. levels \in LevelsType
    BY <1>5 DEF LevelsType, Unused
  <2> QED
    BY <1>5, <1>2, <1>3, <2>3, <2>4 DEF ProcessTyped
<1>6. Accepted /\ OwnEngine /\ Unserved
  BY <1>5 DEF Accepted, OwnEngine, Unserved
<1>7. RequestsFit
  BY <1>5, NoRequestTyped, NoRequestFits DEF RequestsFit, Ids
<1> QED
  BY <1>4, <1>6, <1>7 DEF IndInv

\* A step of one client, that leaves it with a request r that fits.
LEMMA OneClient ==
    ASSUME IndInv, NEW c \in Clients, NEW r, NEW id \in Ids, app.pc = "serving",
           Fits(c, r, id, engine, app.settings.cors),
           request' = [request EXCEPT ![c] = r], context' = [context EXCEPT ![c] = id],
           UNCHANGED <<engineVars, up, clock>>, keys' \in KeysType, levels' \in LevelsType
    PROVE  IndInv'
<1>1. ProcessTyped' /\ Accepted' /\ OwnEngine'
  BY DEF IndInv, ProcessTyped, Accepted, OwnEngine, engineVars
<1>2. Unserved'
  BY DEF Unserved, engineVars
<1>3. RequestsFit'
  <2>1. r \in Requests
    BY DEF Fits, Typed
  <2>2. request' \in [Clients -> Requests] /\ context' \in [Clients -> Ids]
    BY <2>1 DEF IndInv, RequestsFit
  <2>3. ASSUME NEW d \in Clients
        PROVE  Fits(d, request'[d], context'[d], engine, app.settings.cors)
    BY <2>3 DEF IndInv, RequestsFit
  <2> QED
    BY <2>2, <2>3 DEF RequestsFit, engineVars
<1> QED
  BY <1>1, <1>2, <1>3 DEF IndInv

\* The same where the context variable stays.
LEMMA SameContext ==
    ASSUME IndInv, NEW c \in Clients, NEW r, request[c].pc # "idle",
           Fits(c, r, context[c], engine, app.settings.cors),
           request' = [request EXCEPT ![c] = r],
           UNCHANGED <<engineVars, up, context, clock>>, keys' \in KeysType,
           levels' \in LevelsType
    PROVE  IndInv'
<1>1. app.pc = "serving"
  BY NoRequestTyped DEF IndInv, Unserved
<1>2. context[c] \in Ids /\ context' = [context EXCEPT ![c] = context[c]]
  BY DEF IndInv, RequestsFit
<1> QED
  BY <1>1, <1>2, OneClient

\* A request in hand is an application's that serves.
LEMMA Serving ==
    ASSUME IndInv, NEW c \in Clients, request[c].pc # "idle"
    PROVE  app.pc = "serving"
BY NoRequestTyped DEF IndInv, Unserved

\* What leaves the loggers and the keys alone leaves them typed.
LEMMA LevelsStay ==
    ASSUME IndInv, UNCHANGED appVars
    PROVE  UNCHANGED engineVars /\ levels' \in LevelsType
BY DEF IndInv, ProcessTyped, appVars, engineVars

-----------------------------------------------------------------------------
(* What each step makes of a request                                       *)

\* A request keeps its id on its lines and its answer while these stay.
LEMMA SameMarks ==
    ASSUME NEW r, NEW s, NEW v, OwnId(r, v), r.pc \in {"handler", "probe", "raised", "leave"},
           s.lines = r.lines, s.id = r.id, s.reply.code # "none" => s.reply.body = r.id
    PROVE  OwnId(s, v)
<1>1. \A i \in DOMAIN r.lines : r.lines[i].id = r.id
  BY DEF OwnId
<1>2. \A i \in DOMAIN s.lines : s.lines[i].id = s.id
  BY <1>1, Zenon
<1>3. v = s.id
  BY DEF OwnId
<1> QED
  BY <1>2, <1>3 DEF OwnId

\* The code of an answer goes with its status; a 500 is left to _unhandled.
CodeGoes(status, code) ==
    /\ status \in Nat /\ code \in Codes \ {"internal_error"}
    /\ status >= 400 => /\ status # 500
                        /\ \/ code = HttpErrorCode(status)
                           \/ /\ code \in DOMAIN AppErrorStatus
                              /\ status = AppErrorStatus[code]

\* Answered gives a request in hand an answer that fits, if the code goes with the status.
LEMMA AnsweredFits ==
    ASSUME NEW c \in Clients, NEW r, NEW v, NEW e, NEW cors, Fits(c, r, v, e, cors),
           r.pc \in {"handler", "probe"},
           NEW status, NEW code, CodeGoes(status, code)
    PROVE  Fits(c, Answered(r, status, code), v, e, cors)
<1> DEFINE s == Answered(r, status, code)
<1>1. r \in Requests /\ r.id \in Ids
  BY DEF Fits, Typed, Requests
<1>2. /\ s.pc = "leave" /\ s.route = r.route /\ s.bearer = r.bearer /\ s.id = r.id
      /\ s.engine = r.engine /\ s.lines = r.lines /\ s.reply = Response(status, code, r.id)
  BY <1>1 DEF Answered, Requests
<1>10. status \in Nat /\ code \in Codes /\ code # "internal_error"
  BY DEF CodeGoes
<1>3. s \in Requests
  BY <1>1, <1>10, ResponseTyped DEF Answered, Requests, PCs
<1>9. /\ s.reply.status = status /\ s.reply.code = code
      /\ code # "none" => s.reply.body = r.id
  BY <1>1, <1>2, <1>10, ResponseTyped
<1> HIDE DEF s
<1>4. Typed(c, s)
  BY <1>2, <1>3 DEF Fits, Typed
<1>5. OwnId(s, v)
  BY <1>2, <1>9, SameMarks DEF Fits
<1>6. InHand(s, e)
  BY <1>2 DEF Fits, InHand
<1>7. CodeFits(s)
  BY <1>2, <1>9 DEF CodeFits, CodeGoes
<1>8. AnswerOK(s, cors)
  BY <1>2, <1>7, <1>9, <1>10 DEF AnswerOK
<1> QED
  BY <1>4, <1>5, <1>6, <1>8 DEF Fits, s

\* A handler that raises leaves a request that the middleware will see fail.
LEMMA RaisedFits ==
    ASSUME NEW c \in Clients, NEW r, NEW v, NEW e, NEW cors, Fits(c, r, v, e, cors),
           r.pc = "handler", r.route \in {"crash", "guarded"}
    PROVE  Fits(c, [r EXCEPT !.pc = "raised"], v, e, cors)
<1> DEFINE s == [r EXCEPT !.pc = "raised"]
<1>1. r \in Requests
  BY DEF Fits, Typed
<1>2. /\ s.pc = "raised" /\ s.route = r.route /\ s.bearer = r.bearer /\ s.id = r.id
      /\ s.engine = r.engine /\ s.lines = r.lines /\ s.reply = r.reply
  BY <1>1 DEF Requests
<1>3. s \in Requests
  BY <1>1 DEF Requests, PCs
<1> HIDE DEF s
<1>4. Typed(c, s)
  BY <1>2, <1>3 DEF Fits, Typed
<1>5. OwnId(s, v)
  <2>1. s.reply.code # "none" => s.reply.body = r.id
    BY <1>2 DEF Fits, OwnId
  <2> QED
    BY <1>2, <2>1, SameMarks DEF Fits
<1>6. InHand(s, e)
  BY <1>2 DEF Fits, InHand
<1>7. AnswerOK(s, cors)
  BY <1>2 DEF AnswerOK
<1> QED
  BY <1>4, <1>5, <1>6, <1>7 DEF Fits, s

\* A line with the id of the context may be added, or filtered out.
LEMMA OneMoreLine ==
    ASSUME NEW r \in Requests, NEW s, NEW v \in Ids, OwnId(r, v),
           r.pc \in {"probe", "raised", "leave"},
           NEW l \in LogLines, l.id = v, s.lines \in {r.lines, Append(r.lines, l)},
           s.id = r.id, s.reply.code # "none" => s.reply.body = r.id
    PROVE  OwnId(s, v) /\ s.lines \in Seq(LogLines)
<1>1. v = r.id /\ \A i \in DOMAIN r.lines : r.lines[i].id = v
  BY DEF OwnId
<1>2. r.lines \in Seq(LogLines)
  BY DEF Requests
<1>3. \A i \in DOMAIN Append(r.lines, l) : Append(r.lines, l)[i].id = v
  BY <1>1, <1>2
<1>4. \A i \in DOMAIN s.lines : s.lines[i].id = s.id
  BY <1>1, <1>3, Zenon
<1>5. v = s.id
  BY <1>1
<1>6. s.lines \in Seq(LogLines)
  BY <1>2
<1> QED
  BY <1>4, <1>5, <1>6 DEF OwnId

\* The response passes the middleware.
LEMMA LeaveKeeps ==
    ASSUME IndInv, NEW c \in Clients, Leave(c)
    PROVE  IndInv'
<1> DEFINE r == request[c]
           line == LogLine(c, "request", r.reply.status)
           s == [r EXCEPT !.pc = "done", !.reply.header = r.id,
                          !.lines = Logging(c, "request", r.reply.status)]
<1>1. /\ r \in Requests /\ context[c] \in Ids
      /\ Fits(c, r, context[c], engine, app.settings.cors) /\ r.pc = "leave"
  BY DEF IndInv, RequestsFit, Leave
<1>2. /\ s.pc = "done" /\ s.route = r.route /\ s.bearer = r.bearer /\ s.id = r.id
      /\ s.engine = r.engine /\ s.lines \in {r.lines, Append(r.lines, line)}
      /\ s.reply = [r.reply EXCEPT !.header = r.id]
  BY <1>1 DEF Requests, Logging
<1>3. /\ s.reply \in Replies
      /\ s.reply.status = r.reply.status /\ s.reply.code = r.reply.code
      /\ s.reply.body = r.reply.body /\ s.reply.header = r.id
  BY <1>1, <1>2 DEF Requests, Replies
<1>4. line \in LogLines /\ line.id = context[c]
  BY <1>1, LogLineTyped DEF Requests, Replies
<1>5. OwnId(s, context[c]) /\ s.lines \in Seq(LogLines)
  <2>1. s.reply.code # "none" => s.reply.body = r.id
    BY <1>1, <1>3 DEF Fits, OwnId
  <2> QED
    BY <1>1, <1>2, <1>4, <2>1, OneMoreLine DEF Fits
<1>6. Typed(c, s)
  <2>1. s \in Requests
    BY <1>1, <1>3, <1>5 DEF Requests, PCs
  <2> QED
    BY <1>1, <1>2, <2>1 DEF Fits, Typed
<1>7. /\ request' = [request EXCEPT ![c] = s]
      /\ UNCHANGED <<engineVars, up, context, clock, keys>>
      /\ keys' \in KeysType /\ levels' \in LevelsType
  BY <1>1, Serving, LevelsTyped DEF Leave, FirstUse, IndInv, ProcessTyped
<1> HIDE DEF s
<1>8. InHand(s, engine)
  BY <1>1, <1>2 DEF Fits, InHand
<1>9. AnswerOK(s, app.settings.cors)
  BY <1>1, <1>2, <1>3 DEF Fits, AnswerOK, CodeFits
<1>10. Fits(c, s, context[c], engine, app.settings.cors)
  BY <1>5, <1>6, <1>8, <1>9 DEF Fits
<1> QED
  BY <1>1, <1>7, <1>10, SameContext

\* An exception passes the middleware and is answered by _unhandled.
LEMMA RaiseKeeps ==
    ASSUME IndInv, NEW c \in Clients, Raise(c)
    PROVE  IndInv'
<1> DEFINE r == request[c]
           line == LogLine(c, "request_failed", 0)
           reply == Response(500, "internal_error", r.id)
           s == [r EXCEPT !.pc = "done", !.lines = LogFailure(c), !.reply = reply]
<1>1. /\ r \in Requests /\ context[c] \in Ids
      /\ Fits(c, r, context[c], engine, app.settings.cors) /\ r.pc = "raised"
  BY DEF IndInv, RequestsFit, Raise
<1>2. /\ s.pc = "done" /\ s.route = r.route /\ s.bearer = r.bearer /\ s.id = r.id
      /\ s.engine = r.engine /\ s.lines \in {r.lines, Append(r.lines, line)}
      /\ s.reply = reply
  BY <1>1 DEF Requests, LogFailure, Logging
<1>3. line \in LogLines /\ line.id = context[c]
  BY <1>1, LogLineTyped
<1> HIDE DEF s, line
<1>4. /\ s.reply \in Replies
      /\ s.reply.status = 500 /\ s.reply.code = "internal_error"
      /\ s.reply.header = "none" /\ s.reply.body = r.id
  <2>1. r.id \in Ids /\ "internal_error" \in Codes /\ "internal_error" # "none"
    BY <1>1 DEF Requests, Codes
  <2> HIDE DEF r
  <2>2. /\ reply \in Replies /\ reply.status = 500 /\ reply.code = "internal_error"
        /\ reply.header = "none" /\ reply.body = r.id
    BY <2>1, ResponseTyped
  <2> HIDE DEF reply
  <2> QED
    BY <1>2, <2>2
<1>5. OwnId(s, context[c]) /\ s.lines \in Seq(LogLines)
  <2>1. OwnId(r, context[c])
    BY <1>1 DEF Fits
  <2>2. r \in Requests /\ context[c] \in Ids /\ r.pc \in {"probe", "raised", "leave"}
    BY <1>1
  <2>3. s.lines \in {r.lines, Append(r.lines, line)} /\ s.id = r.id
    BY <1>2
  <2>4. s.reply.code # "none" => s.reply.body = r.id
    BY <1>4
  <2> QED
    BY <1>3, <2>1, <2>2, <2>3, <2>4, OneMoreLine
<1>6. Typed(c, s)
  <2>1. s \in Requests
    BY <1>1, <1>2, <1>4, <1>5 DEF Requests, PCs, s
  <2> QED
    BY <1>1, <1>2, <2>1 DEF Fits, Typed
<1>7. /\ request' = [request EXCEPT ![c] = s]
      /\ UNCHANGED <<engineVars, up, context, clock, keys>>
      /\ keys' \in KeysType /\ levels' \in LevelsType
  BY <1>1, Serving, LevelsTyped DEF Raise, FirstUse, IndInv, ProcessTyped, s
<1>8. InHand(s, engine)
  BY <1>1, <1>2 DEF Fits, InHand
<1>9. AnswerOK(s, app.settings.cors)
  <2>1. s.route \in {"crash", "guarded"}
    BY <1>1, <1>2 DEF Fits, InHand
  <2> QED
    BY <1>2, <1>4, <2>1, HttpErrorCodes DEF AnswerOK, CodeFits
<1>10. Fits(c, s, context[c], engine, app.settings.cors)
  BY <1>5, <1>6, <1>8, <1>9 DEF Fits
<1> QED
  BY <1>1, <1>7, <1>10, SameContext

\* /ready takes the engine that is there.
LEMMA ReadyKeeps ==
    ASSUME IndInv, NEW c \in Clients, Ready(c)
    PROVE  IndInv'
<1> DEFINE r == request[c]
           s == [r EXCEPT !.pc = "probe", !.engine = engine]
<1>1. /\ r \in Requests /\ engine \in Engines \cup {NoEngine}
      /\ Fits(c, r, context[c], engine, app.settings.cors)
      /\ r.pc = "handler" /\ r.route = "ready"
  BY DEF IndInv, ProcessTyped, RequestsFit, Ready, Routed
<1>2. /\ s.pc = "probe" /\ s.route = r.route /\ s.bearer = r.bearer /\ s.id = r.id
      /\ s.engine = engine /\ s.lines = r.lines /\ s.reply = r.reply
  BY <1>1 DEF Requests
<1>3. s \in Requests
  BY <1>1 DEF Requests, PCs
<1>4. request' = [request EXCEPT ![c] = s] /\ UNCHANGED <<appVars, up, context, clock, keys>>
  BY DEF Ready
<1> HIDE DEF s
<1>5. Typed(c, s)
  BY <1>1, <1>2, <1>3 DEF Fits, Typed
<1>6. OwnId(s, context[c])
  <2>1. s.reply.code # "none" => s.reply.body = r.id
    BY <1>1, <1>2 DEF Fits, OwnId
  <2> QED
    BY <1>1, <1>2, <2>1, SameMarks DEF Fits
<1>7. InHand(s, engine)
  BY <1>1, <1>2 DEF Fits, InHand
<1>8. AnswerOK(s, app.settings.cors)
  BY <1>2 DEF AnswerOK
<1>9. Fits(c, s, context[c], engine, app.settings.cors)
  BY <1>5, <1>6, <1>7, <1>8 DEF Fits
<1> QED
  BY <1>1, <1>4, <1>9, SameContext, LevelsStay DEF IndInv, ProcessTyped

\* A probe that fails is logged and answered with 503.
LEMMA ProbeFailsKeeps ==
    ASSUME IndInv, NEW c \in Clients, ProbeFails(c)
    PROVE  IndInv'
<1> DEFINE r == request[c]
           line == LogLine(c, "readiness_db_failed", 0)
           s == [r EXCEPT !.pc = "leave", !.reply.status = 503,
                          !.lines = Logging(c, "readiness_db_failed", 0)]
<1>1. /\ r \in Requests /\ context[c] \in Ids
      /\ Fits(c, r, context[c], engine, app.settings.cors) /\ r.pc = "probe"
  BY DEF IndInv, RequestsFit, ProbeFails
<1>2. r.route = "ready" /\ r.reply = Reply
  BY <1>1 DEF Fits, InHand
<1>3. /\ s.pc = "leave" /\ s.route = r.route /\ s.bearer = r.bearer /\ s.id = r.id
      /\ s.engine = r.engine /\ s.lines \in {r.lines, Append(r.lines, line)}
      /\ s.reply = [r.reply EXCEPT !.status = 503]
  BY <1>1 DEF Requests, Logging
<1>4. line \in LogLines /\ line.id = context[c]
  BY <1>1, LogLineTyped
<1> HIDE DEF s, line
<1>5. s.reply \in Replies /\ s.reply.code = "none"
  <2>1. /\ s.reply \in Replies
        /\ s.reply.code = r.reply.code
    BY <1>1, <1>3 DEF Requests, Replies
  <2> QED
    BY <1>2, <2>1, ReplyTyped
<1>6. OwnId(s, context[c]) /\ s.lines \in Seq(LogLines)
  <2>1. OwnId(r, context[c])
    BY <1>1 DEF Fits
  <2>2. r \in Requests /\ context[c] \in Ids /\ r.pc \in {"probe", "raised", "leave"}
    BY <1>1
  <2>3. s.lines \in {r.lines, Append(r.lines, line)} /\ s.id = r.id
    BY <1>3
  <2>4. s.reply.code # "none" => s.reply.body = r.id
    BY <1>5
  <2> QED
    BY <1>4, <2>1, <2>2, <2>3, <2>4, OneMoreLine
<1>7. Typed(c, s)
  <2>1. s \in Requests
    BY <1>1, <1>3, <1>5, <1>6 DEF Requests, PCs, s
  <2> QED
    BY <1>1, <1>3, <2>1 DEF Fits, Typed
<1>8. /\ request' = [request EXCEPT ![c] = s]
      /\ UNCHANGED <<engineVars, up, context, clock, keys>>
      /\ keys' \in KeysType /\ levels' \in LevelsType
  BY <1>1, Serving, LevelsTyped DEF ProbeFails, FirstUse, IndInv, ProcessTyped, s, line
<1>9. InHand(s, engine)
  BY <1>1, <1>3 DEF Fits, InHand
<1>10. AnswerOK(s, app.settings.cors)
  BY <1>2, <1>3, <1>5 DEF AnswerOK
<1>11. Fits(c, s, context[c], engine, app.settings.cors)
  BY <1>6, <1>7, <1>9, <1>10 DEF Fits
<1> QED
  BY <1>1, <1>8, <1>11, SameContext

\* A request arrives, and its id is set in the context of its task.
LEMMA ArriveKeeps ==
    ASSUME IndInv, NEW c \in Clients, Arrive(c)
    PROVE  IndInv'
<1>1. PICK route \in RoutesOf[c], v \in {c, "given"} :
      \E bearer \in IF route = "guarded" THEN Bearers ELSE {{}} :
          /\ request' = [request EXCEPT ![c] = [NoRequest EXCEPT !.pc = "handler",
                            !.route = route, !.bearer = bearer, !.id = v]]
          /\ SetRequestId(c, v)
  BY DEF Arrive
<1>2. PICK bearer \in IF route = "guarded" THEN Bearers ELSE {{}} :
          /\ request' = [request EXCEPT ![c] = [NoRequest EXCEPT !.pc = "handler",
                            !.route = route, !.bearer = bearer, !.id = v]]
          /\ SetRequestId(c, v)
  BY <1>1
<1> DEFINE s == [NoRequest EXCEPT !.pc = "handler", !.route = route, !.bearer = bearer,
                                  !.id = v]
<1>3. /\ v \in Ids /\ route \in Routes /\ bearer \in SUBSET Tokens
      /\ bearer # {} => route = "guarded"
  BY ServiceAssumption DEF Ids, Routes
<1>4. /\ s.pc = "handler" /\ s.route = route /\ s.bearer = bearer /\ s.id = v
      /\ s.lines = NoRequest.lines /\ s.reply = NoRequest.reply
  BY NoRequestTyped DEF Requests
<1>5. s \in Requests
  BY <1>3, NoRequestTyped DEF Requests, PCs
<1>6. /\ request' = [request EXCEPT ![c] = s] /\ context' = [context EXCEPT ![c] = v]
      /\ UNCHANGED <<appVars, up, clock, keys>> /\ app.pc = "serving"
  BY <1>2 DEF Arrive, SetRequestId
<1> HIDE DEF s
<1>7. Typed(c, s)
  BY <1>4, <1>5 DEF Typed
<1>8. OwnId(s, v)
  <2>1. s.lines = << >> /\ s.reply.code = "none"
    BY <1>4, NoRequestTyped, ReplyTyped
  <2>2. \A i \in DOMAIN s.lines : s.lines[i].id = s.id
    BY <2>1
  <2> QED
    BY <1>4, <2>1, <2>2 DEF OwnId
<1>9. InHand(s, engine)
  BY <1>3, <1>4, NoRequestTyped DEF InHand
<1>10. AnswerOK(s, app.settings.cors)
  BY <1>4 DEF AnswerOK
<1>11. Fits(c, s, v, engine, app.settings.cors)
  BY <1>7, <1>8, <1>9, <1>10 DEF Fits
<1> QED
  BY <1>3, <1>6, <1>11, OneClient, LevelsStay DEF IndInv, ProcessTyped

\* A preflight is answered without a request context.
LEMMA AnswerPreflightKeeps ==
    ASSUME IndInv, NEW c \in Clients, AnswerPreflight(c)
    PROVE  IndInv'
<1>1. PICK status \in {200, 400} :
          request' = [request EXCEPT ![c] = [NoRequest EXCEPT !.pc = "done",
                         !.route = "preflight", !.reply = Response(status, "none", "none")]]
  BY DEF AnswerPreflight
<1> DEFINE s == [NoRequest EXCEPT !.pc = "done", !.route = "preflight",
                                  !.reply = Response(status, "none", "none")]
<1>2. /\ "preflight" \in RoutesOf[c] /\ "preflight" \in Routes /\ app.settings.cors
      /\ app.pc = "serving"
  BY DEF AnswerPreflight, Routes
<1>3. /\ Response(status, "none", "none") \in Replies
      /\ Response(status, "none", "none").code = "none"
  <2>1. status \in Nat /\ "none" \in Codes /\ "none" \in Ids
    BY DEF Codes, Ids
  <2> QED
    BY <2>1, ResponseTyped
<1>4. /\ s.pc = "done" /\ s.route = "preflight" /\ s.bearer = {}
      /\ s.lines = << >> /\ s.reply = Response(status, "none", "none")
  BY NoRequestTyped DEF Requests
<1>5. s \in Requests
  BY <1>2, <1>3, NoRequestTyped DEF Requests, PCs
<1>6. context[c] \in Ids /\ context' = [context EXCEPT ![c] = context[c]]
  BY DEF IndInv, RequestsFit, AnswerPreflight
<1>7. /\ request' = [request EXCEPT ![c] = s]
      /\ UNCHANGED <<appVars, up, clock, keys>>
  BY <1>1 DEF AnswerPreflight
<1> HIDE DEF s
<1>8. Typed(c, s)
  BY <1>2, <1>4, <1>5 DEF Typed
<1>9. OwnId(s, context[c])
  <2>1. \A i \in DOMAIN s.lines : s.lines[i].id = s.id
    BY <1>4
  <2>2. s.reply.code = "none"
    BY <1>3, <1>4
  <2> QED
    BY <1>4, <2>1, <2>2 DEF OwnId
<1>10. InHand(s, engine)
  BY <1>4 DEF InHand
<1>11. AnswerOK(s, app.settings.cors)
  BY <1>2, <1>4 DEF AnswerOK
<1>12. Fits(c, s, context[c], engine, app.settings.cors)
  BY <1>8, <1>9, <1>10, <1>11 DEF Fits
<1> DEFINE v == context[c]
<1>13. v \in Ids /\ Fits(c, s, v, engine, app.settings.cors)
       /\ context' = [context EXCEPT ![c] = v]
  BY <1>6, <1>12
<1>14. app.pc = "serving" /\ keys' \in KeysType
  BY <1>2, <1>7 DEF IndInv, ProcessTyped
<1> HIDE DEF v
<1> QED
  BY <1>7, <1>13, <1>14, OneClient, LevelsStay

\* A step that answers a request in hand, with a code that goes with its status.
LEMMA AnswerKeeps ==
    ASSUME IndInv, NEW c \in Clients, request[c].pc \in {"handler", "probe"},
           NEW status, NEW code, CodeGoes(status, code),
           request' = [request EXCEPT ![c] = Answered(request[c], status, code)],
           UNCHANGED <<appVars, up, context, clock>>, keys' \in KeysType
    PROVE  IndInv'
<1>1. Fits(c, request[c], context[c], engine, app.settings.cors)
  BY DEF IndInv, RequestsFit
<1>2. Fits(c, Answered(request[c], status, code), context[c], engine, app.settings.cors)
  BY <1>1, AnsweredFits
<1>3. request[c].pc # "idle"
  OBVIOUS
<1> DEFINE s == Answered(request[c], status, code)
<1>4. request' = [request EXCEPT ![c] = s]
  OBVIOUS
<1> HIDE DEF s
<1> QED
  BY <1>2, <1>3, <1>4, SameContext, LevelsStay DEF s

LEMMA OkGoes == CodeGoes(200, "none")
BY DEF CodeGoes, Codes

\* The health check, and a probe the database answers.
LEMMA OkKeeps ==
    ASSUME IndInv, NEW c \in Clients, Health(c) \/ ProbeOk(c)
    PROVE  IndInv'
<1>1. /\ request[c].pc \in {"handler", "probe"} /\ Respond(c, 200, "none")
      /\ UNCHANGED <<appVars, up, context, clock, keys>>
  BY DEF Health, ProbeOk, Routed
<1>2. /\ request' = [request EXCEPT ![c] = Answered(request[c], 200, "none")]
      /\ keys' \in KeysType
  BY <1>1 DEF Respond, IndInv, ProcessTyped
<1> QED
  BY <1>1, <1>2, OkGoes, AnswerKeeps

\* An HTTPException, or a request that does not fit its parameters.
LEMMA HttpErrorKeeps ==
    ASSUME IndInv, NEW c \in Clients, HttpError(c)
    PROVE  IndInv'
<1>1. \E status \in {404, 405, 418, 422} : Respond(c, status, HttpErrorCode(status))
  BY HttpErrorCodes DEF HttpError
<1>2. \A status \in {404, 405, 418, 422} : CodeGoes(status, HttpErrorCode(status))
  BY HttpErrorCodes DEF CodeGoes, Codes
<1>3. PICK status, code : CodeGoes(status, code) /\ Respond(c, status, code)
  BY <1>1, <1>2
<1>4. request[c].pc \in {"handler", "probe"} /\ UNCHANGED <<appVars, up, context, clock, keys>>
  BY DEF HttpError, Routed
<1>5. keys' \in KeysType /\ request' = [request EXCEPT ![c] = Answered(request[c], status, code)]
  BY <1>3, <1>4 DEF Respond, IndInv, ProcessTyped
<1> QED
  BY <1>3, <1>4, <1>5, AnswerKeeps

\* An AppError is answered with the status of its class.
LEMMA AppErrorKeeps ==
    ASSUME IndInv, NEW c \in Clients, request[c].pc = "handler",
           NEW code \in AuthCodes \cup {"conversation_not_found", "upstream_unavailable"},
           request' = [request EXCEPT ![c] = AppErrorHandler(request[c], code)],
           UNCHANGED <<appVars, up, context, clock>>, keys' \in KeysType
    PROVE  IndInv'
<1> DEFINE status == AppErrorStatus[code]
<1>1. code \in DOMAIN AppErrorStatus /\ status \in {401, 403, 404, 502}
  BY AuthStatuses
<1>2. code \in Codes \ {"internal_error"}
  BY DEF Codes, AuthCodes
<1>3. CodeGoes(status, code)
  BY <1>1, <1>2 DEF CodeGoes
<1>4. request' = [request EXCEPT ![c] = Answered(request[c], status, code)]
  BY DEF AppErrorHandler
<1>5. request[c].pc \in {"handler", "probe"}
  OBVIOUS
<1> HIDE DEF status
<1> QED
  BY <1>3, <1>4, <1>5, AnswerKeeps

\* An exception without a handler leaves the request raised.
LEMMA CrashKeeps ==
    ASSUME IndInv, NEW c \in Clients, request[c].pc = "handler",
           request[c].route \in {"crash", "guarded"},
           request' = [request EXCEPT ![c] = [request[c] EXCEPT !.pc = "raised"]],
           UNCHANGED <<appVars, up, context, clock>>, keys' \in KeysType
    PROVE  IndInv'
<1> DEFINE s == [request[c] EXCEPT !.pc = "raised"]
<1>1. Fits(c, request[c], context[c], engine, app.settings.cors)
  BY DEF IndInv, RequestsFit
<1>2. Fits(c, s, context[c], engine, app.settings.cors)
  BY <1>1, RaisedFits
<1>3. request[c].pc # "idle" /\ request' = [request EXCEPT ![c] = s]
  OBVIOUS
<1> HIDE DEF s
<1> QED
  BY <1>2, <1>3, SameContext, LevelsStay

LEMMA HandlerFailsKeeps ==
    ASSUME IndInv, NEW c \in Clients, HandlerFails(c)
    PROVE  IndInv'
<1>1. /\ request[c].pc = "handler" /\ keys' \in KeysType
      /\ UNCHANGED <<appVars, up, context, clock>>
  BY DEF HandlerFails, Routed, IndInv, ProcessTyped
<1>2. CASE \E code \in {"conversation_not_found", "upstream_unavailable"} :
              request' = [request EXCEPT ![c] = AppErrorHandler(request[c], code)]
  BY <1>1, <1>2, AppErrorKeeps
<1>3. CASE /\ request[c].route = "crash"
           /\ request' = [request EXCEPT ![c] = [request[c] EXCEPT !.pc = "raised"]]
  BY <1>1, <1>3, CrashKeeps
<1> QED
  BY <1>2, <1>3 DEF HandlerFails, Routed

\* A verification leaves PyJWT's sets with keys of the issuer.
LEMMA GuardedKeys ==
    ASSUME IndInv, NEW c \in Clients, Guarded(c)
    PROVE  keys' \in KeysType
<1> DEFINE bearer == request[c].bearer
           token == CHOOSE t \in bearer : TRUE
<1>1. keys \in KeysType /\ clock \in Nat /\ bearer \in SUBSET Tokens
  BY TokensAssumption DEF IndInv, ProcessTyped, RequestsFit, Requests
<1>2. CASE bearer = {}
  BY <1>1, <1>2 DEF Guarded
<1>3. CASE bearer # {}
  <2>1. token \in Tokens
    BY <1>1, <1>3
  <2>2. token.kid \in Kids
    BY <2>1, TokensAssumption
  <2>3. keys' = KeysAfter(token, app.settings.keys)
    BY <1>3 DEF Guarded
  <2> HIDE DEF token
  <2> QED
    BY <1>1, <2>2, <2>3, LookupTyped DEF KeysAfter
<1> QED
  BY <1>2, <1>3

LEMMA GuardedKeeps ==
    ASSUME IndInv, NEW c \in Clients, Guarded(c)
    PROVE  IndInv'
<1> DEFINE verdict == Verdict(request[c].bearer, app.settings.keys, ALLOWED)
<1>1. /\ request[c].pc = "handler" /\ request[c].route = "guarded"
      /\ UNCHANGED <<appVars, up, context, clock>> /\ keys' \in KeysType
  BY GuardedKeys DEF Guarded, Routed
<1>2. /\ verdict = "ok" =>
            request' = [request EXCEPT ![c] = Answered(request[c], 200, "none")]
      /\ verdict = "crash" =>
            request' = [request EXCEPT ![c] = [request[c] EXCEPT !.pc = "raised"]]
      /\ verdict \notin {"ok", "crash"} =>
            request' = [request EXCEPT ![c] = AppErrorHandler(request[c], verdict)]
  BY DEF Guarded
<1>3. verdict \in AuthCodes \cup {"ok", "crash"}
  BY Verdicts
<1> HIDE DEF verdict
<1>4. CASE verdict = "ok"
  <2>1. request' = [request EXCEPT ![c] = Answered(request[c], 200, "none")]
    BY <1>2, <1>4
  <2> QED
    BY <1>1, <2>1, OkGoes, AnswerKeeps
<1>5. CASE verdict = "crash"
  BY <1>1, <1>2, <1>5, CrashKeeps
<1>6. CASE verdict \in AuthCodes
  <2>1. verdict \notin {"ok", "crash"}
    BY <1>6 DEF AuthCodes
  <2> QED
    BY <1>1, <1>2, <1>6, <2>1, AppErrorKeeps
<1> QED
  BY <1>3, <1>4, <1>5, <1>6

\* Whatever a client's request does.
LEMMA ServeKeeps ==
    ASSUME IndInv, NEW c \in Clients, Serve(c)
    PROVE  IndInv'
BY ArriveKeeps, AnswerPreflightKeeps, LeaveKeeps, RaiseKeeps, OkKeeps, HttpErrorKeeps,
   HandlerFailsKeeps, GuardedKeeps, ReadyKeeps, ProbeFailsKeeps DEF Serve

-----------------------------------------------------------------------------
(* The steps of the process and of what surrounds it                       *)

\* A step that leaves the application without requests.
LEMMA NobodyServed ==
    ASSUME IndInv, request' = [d \in Clients |-> NoRequest], context' \in [Clients -> Ids]
    PROVE  RequestsFit' /\ Unserved'
<1>1. request' \in [Clients -> Requests]
  BY NoRequestTyped
<1>2. \A c \in Clients : request'[c] = NoRequest
  OBVIOUS
<1>3. \A c \in Clients : Fits(c, request'[c], context'[c], engine', app'.settings.cors)
  BY <1>2, NoRequestFits
<1> QED
  BY <1>1, <1>3 DEF RequestsFit, Unserved

\* Outside of "serving" nothing is asked.
LEMMA NobodyYet ==
    ASSUME IndInv, app.pc # "serving", UNCHANGED <<request, context>>
    PROVE  RequestsFit' /\ Unserved'
<1>1. request' = [d \in Clients |-> NoRequest] /\ context' \in [Clients -> Ids]
  BY DEF IndInv, Unserved, RequestsFit
<1> QED
  BY <1>1, NobodyServed

LEMMA NewAppKeeps == IndInv /\ NewApp => IndInv'
<1> SUFFICES ASSUME IndInv, NewApp PROVE IndInv'
  OBVIOUS
<1>1. PICK settings \in Configs :
          app' = [pc |-> IF CreateApp(settings) THEN "created" ELSE "refused",
                  settings |-> IF CreateApp(settings) THEN settings ELSE NoSettings]
  BY DEF NewApp, Created
<1>2. /\ app.pc \in {"none", "refused", "failed", "stopped"} /\ apps < MaxApps
      /\ apps' = apps + 1
      /\ UNCHANGED <<engine, open, clean, up, request, context, levels, clock, keys>>
  BY DEF NewApp
<1>3. RequestsFit' /\ Unserved'
  BY <1>2, NobodyYet
<1>4. /\ app'.pc \in {"created", "refused"}
      /\ app'.settings \in Configs \cup {NoSettings}
      /\ app'.pc = "created" => app'.settings \in Configs /\ CreateApp(app'.settings)
  BY <1>1
<1>5. apps' \in 0..MaxApps /\ apps' >= 1
  BY <1>2, ServiceAssumption DEF IndInv, ProcessTyped
<1>6. ProcessTyped'
  <2>1. app' \in [pc : AppPCs, settings : Configs \cup {NoSettings}]
    BY <1>1 DEF AppPCs
  <2> QED
    BY <1>2, <1>5, <2>1 DEF IndInv, ProcessTyped
<1>7. Accepted'
  BY <1>4, <1>5 DEF Accepted
<1>8. OwnEngine'
  BY <1>2, <1>4 DEF IndInv, OwnEngine
<1> QED
  BY <1>3, <1>6, <1>7, <1>8 DEF IndInv

LEMMA StartUpKeeps == IndInv /\ StartUp => IndInv'
<1> SUFFICES ASSUME IndInv, StartUp PROVE IndInv'
  OBVIOUS
<1>1. /\ app.pc = "created" /\ engine' = InitEngine(app.settings)
      /\ open' = open \cup {engine'}
      /\ app' = IF app.settings.builds THEN [app EXCEPT !.pc = "serving"] ELSE Failed
      /\ clean' = (clean /\ app.settings.builds)
      /\ UNCHANGED <<apps, up, request, context, levels, clock, keys>>
  BY DEF StartUp
<1>2. /\ app.settings \in Configs /\ CreateApp(app.settings) /\ apps \in 1..MaxApps
      /\ app.settings.builds \in BOOLEAN /\ app.settings.database \in Databases
  BY <1>1, ConfigsAssumption, ServiceAssumption DEF IndInv, ProcessTyped, Accepted
<1>3. RequestsFit' /\ Unserved'
  BY <1>1, NobodyYet
<1>4. engine' \in Engines
  <2>1. engine \in Engines \cup {NoEngine}
    BY DEF IndInv, ProcessTyped
  <2>2. [database |-> app.settings.database, made |-> apps] \in Engines
    BY <1>2 DEF Engines
  <2> QED
    BY <1>1, <2>1, <2>2 DEF InitEngine
<1>5. /\ app.settings.builds => app'.pc = "serving" /\ app'.settings = app.settings
      /\ ~app.settings.builds => app'.pc = "failed" /\ app'.settings = NoSettings
      /\ app' \in [pc : AppPCs, settings : Configs \cup {NoSettings}]
  BY <1>1 DEF IndInv, ProcessTyped, Failed, AppPCs
<1>6. ProcessTyped'
  <2>1. clean' \in BOOLEAN
    BY <1>1, <1>2 DEF IndInv, ProcessTyped
  <2>2. open' \subseteq Engines
    BY <1>1, <1>4 DEF IndInv, ProcessTyped
  <2> QED
    BY <1>1, <1>4, <1>5, <2>1, <2>2 DEF IndInv, ProcessTyped
<1>7. Accepted'
  BY <1>1, <1>2, <1>5 DEF Accepted
<1>8. OwnEngine'
  <2>1. open' = {engine'} /\ engine' # NoEngine
    <3>1. open = (IF engine = NoEngine THEN {} ELSE {engine})
      BY DEF IndInv, OwnEngine
    <3>2. NoEngine \notin Engines
      BY ServiceAssumption DEF Engines
    <3> QED
      BY <1>1, <1>4, <3>1, <3>2 DEF InitEngine
  <2>2. ASSUME clean'
        PROVE  /\ app'.pc = "serving"
               /\ engine' = [database |-> app'.settings.database, made |-> apps']
    <3>1. clean /\ app.settings.builds
      BY <1>1, <2>2
    <3>2. engine = NoEngine
      BY <1>1, <3>1 DEF IndInv, OwnEngine
    <3> QED
      BY <1>1, <1>5, <3>1, <3>2 DEF InitEngine
  <2> QED
    BY <2>1, <2>2 DEF OwnEngine
<1> QED
  BY <1>3, <1>6, <1>7, <1>8 DEF IndInv

LEMMA ShutDownKeeps == IndInv /\ ShutDown => IndInv'
<1> SUFFICES ASSUME IndInv, ShutDown PROVE IndInv'
  OBVIOUS
<1>1. PICK raises \in BOOLEAN :
          /\ app' = IF raises THEN Failed ELSE [app EXCEPT !.pc = "disposing"]
          /\ clean' = (clean /\ ~raises)
  BY DEF ShutDown
<1>2. /\ app.pc = "serving" /\ request' = [c \in Clients |-> NoRequest]
      /\ UNCHANGED <<apps, engine, open, up, context, levels, clock, keys>>
  BY DEF ShutDown
<1>3. RequestsFit' /\ Unserved'
  <2>1. context' \in [Clients -> Ids]
    BY <1>2 DEF IndInv, RequestsFit
  <2> QED
    BY <1>2, <2>1, NobodyServed
<1>4. /\ ~raises => app'.pc = "disposing" /\ app'.settings = app.settings
      /\ raises => app'.pc = "failed"
      /\ app' \in [pc : AppPCs, settings : Configs \cup {NoSettings}]
  BY <1>1 DEF IndInv, ProcessTyped, Failed, AppPCs
<1>5. ProcessTyped'
  <2>1. clean' \in BOOLEAN
    BY <1>1 DEF IndInv, ProcessTyped
  <2> QED
    BY <1>2, <1>4, <2>1 DEF IndInv, ProcessTyped
<1>6. Accepted'
  BY <1>2, <1>4 DEF IndInv, Accepted
<1>7. OwnEngine'
  BY <1>1, <1>2, <1>4 DEF IndInv, OwnEngine
<1> QED
  BY <1>3, <1>5, <1>6, <1>7 DEF IndInv

LEMMA DisposedKeeps == IndInv /\ Disposed => IndInv'
<1> SUFFICES ASSUME IndInv, Disposed PROVE IndInv'
  OBVIOUS
<1>1. /\ app.pc = "disposing" /\ open' = open \ {engine} /\ engine' = NoEngine
      /\ app' = [pc |-> "stopped", settings |-> NoSettings]
      /\ UNCHANGED <<apps, clean, up, request, context, levels, clock, keys>>
  BY DEF Disposed, DisposeEngine
<1>2. RequestsFit' /\ Unserved'
  BY <1>1, NobodyYet
<1>3. ProcessTyped'
  BY <1>1 DEF IndInv, ProcessTyped, AppPCs
<1>4. Accepted'
  BY <1>1 DEF Accepted
<1>5. OwnEngine'
  BY <1>1 DEF IndInv, OwnEngine
<1> QED
  BY <1>2, <1>3, <1>4, <1>5 DEF IndInv

LEMMA ExitKeeps == IndInv /\ Exit => IndInv'
<1> SUFFICES ASSUME IndInv, Exit PROVE IndInv'
  OBVIOUS
<1>1. /\ app' = [pc |-> "none", settings |-> NoSettings] /\ apps' = 0
      /\ engine' = NoEngine /\ open' = {} /\ clean' = TRUE
      /\ request' = [c \in Clients |-> NoRequest]
      /\ context' = [c \in Clients |-> "none"]
      /\ keys' = ForgetKeys /\ levels' = Unused /\ UNCHANGED <<up, clock>>
  BY Zenon DEF Exit
<1>2. RequestsFit' /\ Unserved'
  <2>1. context' \in [Clients -> Ids]
    BY <1>1 DEF Ids
  <2> QED
    BY <1>1, <2>1, NobodyServed
<1>3. keys' \in KeysType
  BY <1>1 DEF IndInv, ProcessTyped, ForgetKeys, KeysType
<1>4. ProcessTyped'
  <2>1. app' \in [pc : AppPCs, settings : Configs \cup {NoSettings}] /\ apps' \in 0..MaxApps
    BY <1>1, ServiceAssumption DEF AppPCs
  <2>2. levels' \in LevelsType
    BY <1>1 DEF LevelsType, Unused
  <2> QED
    BY <1>1, <1>3, <2>1, <2>2 DEF IndInv, ProcessTyped
<1>5. Accepted' /\ OwnEngine'
  BY <1>1 DEF Accepted, OwnEngine
<1> QED
  BY <1>2, <1>4, <1>5 DEF IndInv

\* What the databases and the issuer do is no concern of the requests.
LEMMA AroundKeeps ==
    ASSUME IndInv, UNCHANGED <<appVars, request, context>>,
           up' \subseteq Databases, clock' \in 0..MaxTime, keys' \in KeysType
    PROVE  IndInv'
<1>1. ProcessTyped' /\ Accepted' /\ OwnEngine' /\ Unserved'
  BY DEF IndInv, ProcessTyped, Accepted, OwnEngine, Unserved, appVars
<1>2. RequestsFit'
  BY DEF IndInv, RequestsFit, appVars
<1> QED
  BY <1>1, <1>2 DEF IndInv

LEMMA IssuerKeeps == IndInv /\ Issuer => IndInv'
<1> SUFFICES ASSUME IndInv, Issuer PROVE IndInv'
  OBVIOUS
<1>1. keys \in KeysType /\ clock \in 0..MaxTime /\ up \subseteq Databases
  BY DEF IndInv, ProcessTyped
<1>2. UNCHANGED <<appVars, up, request, context>>
  BY DEF Issuer
<1>3. clock' \in 0..MaxTime /\ keys' \in KeysType
  <2>1. CASE Tick
    BY <1>1, <2>1, TokensAssumption DEF Tick
  <2>2. CASE JwksUpOrDown
    BY <1>1, <2>2 DEF JwksUpOrDown, KeysType
  <2>3. ASSUME NEW kid \in Kids, PublishKey(kid) PROVE clock' = clock /\ keys' \in KeysType
    BY <1>1, <2>3 DEF PublishKey, KeysType
  <2>4. ASSUME NEW kid \in Kids \cup {NoKid}, ReplaceKeyFile(kid)
        PROVE  clock' = clock /\ keys' \in KeysType
    BY <1>1, <2>4 DEF ReplaceKeyFile, KeysType
  <2> QED
    BY <1>1, <2>1, <2>2, <2>3, <2>4 DEF Issuer
<1> QED
  BY <1>1, <1>2, <1>3, AroundKeeps

LEMMA DatabaseKeeps ==
    ASSUME IndInv, NEW d \in Databases, DatabaseUpOrDown(d)
    PROVE  IndInv'
<1>1. up' \subseteq Databases /\ clock' \in 0..MaxTime /\ keys' \in KeysType
  BY DEF IndInv, ProcessTyped, DatabaseUpOrDown
<1> QED
  BY <1>1, AroundKeeps DEF DatabaseUpOrDown

LEMMA StutterKeeps == IndInv /\ UNCHANGED serviceVars => IndInv'
<1> SUFFICES ASSUME IndInv, UNCHANGED serviceVars PROVE IndInv'
  OBVIOUS
<1>1. /\ UNCHANGED <<appVars, request, context>>
      /\ up' \subseteq Databases /\ clock' \in 0..MaxTime /\ keys' \in KeysType
  BY DEF IndInv, ProcessTyped, serviceVars, appVars
<1> QED
  BY <1>1, AroundKeeps

LEMMA NextKeeps == IndInv /\ [Next]_serviceVars => IndInv'
BY NewAppKeeps, StartUpKeeps, ShutDownKeeps, DisposedKeeps, ExitKeeps, ServeKeeps,
   DatabaseKeeps, IssuerKeeps, StutterKeeps DEF Next

-----------------------------------------------------------------------------
(* What a step may do to the request of a client                           *)

\* A request is served by itself alone.
LEMMA OnlyItsOwn ==
    ASSUME IndInv, NEW c \in Clients, NEW d \in Clients, Serve(d), c # d
    PROVE  request'[c] = request[c]
<1>1. request \in [Clients -> Requests]
  BY DEF IndInv, RequestsFit
<1>2. \E r : request' = [request EXCEPT ![d] = r]
  <2>1. CASE Arrive(d) \/ AnswerPreflight(d)
    BY <2>1, ZenonT(40) DEF Arrive, AnswerPreflight
  <2>2. CASE Leave(d) \/ Raise(d) \/ ProbeFails(d) \/ Ready(d)
    BY <2>2, ZenonT(40) DEF Leave, Raise, ProbeFails, Ready
  <2>3. CASE Health(d) \/ HttpError(d) \/ ProbeOk(d)
    BY <2>3, ZenonT(40) DEF Health, HttpError, ProbeOk, Respond
  <2>4. CASE HandlerFails(d) \/ Guarded(d)
    BY <2>4, Zenon DEF HandlerFails, Guarded
  <2> QED
    BY <2>1, <2>2, <2>3, <2>4, Zenon DEF Serve
<1> QED
  BY <1>1, <1>2

\* What becomes of a request in hand: a step of its own, nothing, or the end of the process.
LEMMA InHandSteps ==
    ASSUME IndInv, [Next]_serviceVars, NEW c \in Clients, request[c].pc \in {"handler", "probe"}
    PROVE  Serve(c) \/ request'[c] = request[c] \/ request'[c] = NoRequest
<1>1. CASE NewApp \/ StartUp \/ Disposed \/ UNCHANGED serviceVars
  BY <1>1 DEF NewApp, StartUp, Disposed, serviceVars
<1>2. CASE ShutDown
  BY <1>2 DEF ShutDown
<1>3. CASE Exit
  BY <1>3 DEF Exit
<1>4. CASE \E d \in Clients : Serve(d)
  BY <1>4, OnlyItsOwn
<1>5. CASE Issuer \/ \E d \in Databases : DatabaseUpOrDown(d)
  BY <1>5 DEF Issuer, DatabaseUpOrDown
<1> QED
  BY <1>1, <1>2, <1>3, <1>4, <1>5 DEF Next

LEMMA ProbeSteps ==
    ASSUME IndInv, [Next]_serviceVars, NEW c \in Clients, request[c].pc = "probe"
    PROVE  ProbeOk(c) \/ ProbeFails(c) \/ request'[c] = request[c] \/ request'[c] = NoRequest
<1>1. Serve(c) => ProbeOk(c) \/ ProbeFails(c)
  BY DEF Serve, Arrive, AnswerPreflight, Leave, Raise, Health, HttpError, HandlerFails,
         Guarded, Ready, Routed
<1> QED
  BY <1>1, InHandSteps

LEMMA GuardedSteps ==
    ASSUME IndInv, [Next]_serviceVars, NEW c \in Clients, request[c].pc = "handler",
           request[c].route = "guarded"
    PROVE  Guarded(c) \/ request'[c] = request[c] \/ request'[c] = NoRequest
<1>1. Serve(c) => Guarded(c)
  BY DEF Serve, Arrive, AnswerPreflight, Leave, Raise, Health, HttpError, HandlerFails,
         ProbeOk, ProbeFails, Ready, Routed
<1> QED
  BY <1>1, InHandSteps

\* Without a step of its own a request has no answer yet.
LEMMA NoAnswerYet ==
    ASSUME IndInv, NEW c \in Clients, request[c].pc \in {"handler", "probe"},
           request'[c] = request[c] \/ request'[c] = NoRequest
    PROVE  request'[c].reply.status = 0
BY NoRequestTyped, ReplyTyped DEF IndInv, RequestsFit, Fits, InHand

\* A probe that succeeds found the engine of the process with its database up.
LEMMA ReadyStep ==
    ASSUME IndInv, [Next]_serviceVars, NEW c \in Clients, request[c].pc = "probe",
           request'[c].reply.status = 200
    PROVE  /\ request[c].engine = engine /\ engine \in open
           /\ engine.database \in up
           /\ clean => engine = [database |-> app.settings.database, made |-> apps]
<1>1. ProbeOk(c)
  <2>1. CASE ProbeFails(c)
    <3>1. request'[c].reply.status = 503
      <4>1. request[c] \in Requests /\ request \in [Clients -> Requests]
        BY DEF IndInv, RequestsFit
      <4>2. request'[c].reply = [request[c].reply EXCEPT !.status = 503]
        BY <2>1, <4>1 DEF ProbeFails, Requests
      <4> QED
        BY <4>1, <4>2 DEF Requests, Replies
    <3> QED
      BY <3>1
  <2> QED
    BY <2>1, ProbeSteps, NoAnswerYet
<1>2. request[c].engine # NoEngine /\ request[c].engine.database \in up
  BY <1>1 DEF ProbeOk, ProbeWorks
<1>3. request[c].engine = engine
  BY DEF IndInv, RequestsFit, Fits, InHand
<1>4. app.pc = "serving"
  BY Serving
<1>5. open = {engine}
  BY <1>2, <1>3 DEF IndInv, OwnEngine
<1> QED
  BY <1>2, <1>3, <1>4, <1>5 DEF IndInv, OwnEngine

\* What the guarded endpoint makes of the request, by the verdict on its bearer.
LEMMA GuardedReply ==
    ASSUME IndInv, NEW c \in Clients, Guarded(c)
    PROVE  LET verdict == Verdict(request[c].bearer, app.settings.keys, ALLOWED)
           IN  /\ verdict = "ok" => request'[c].reply.status = 200
               /\ verdict = "crash" => request'[c].reply.status = 0
               /\ verdict \in AuthCodes =>
                     request'[c].reply.status = AppErrorStatus[verdict]
<1> DEFINE verdict == Verdict(request[c].bearer, app.settings.keys, ALLOWED)
<1>1. request[c] \in Requests /\ request \in [Clients -> Requests] /\ request[c].id \in Ids
  BY DEF IndInv, RequestsFit, Requests
<1>2. /\ verdict = "ok" => request'[c] = Answered(request[c], 200, "none")
      /\ verdict = "crash" => request'[c] = [request[c] EXCEPT !.pc = "raised"]
      /\ verdict \notin {"ok", "crash"} =>
            request'[c] = Answered(request[c], AppErrorStatus[verdict], verdict)
  BY <1>1 DEF Guarded, AppErrorHandler
<1> HIDE DEF verdict
<1>3. \A status, code :
          Answered(request[c], status, code).reply = Response(status, code, request[c].id)
  BY <1>1 DEF Answered, Requests
<1>4. \A status, code : Response(status, code, request[c].id).status = status
  BY DEF Response
<1>5. verdict = "ok" => request'[c].reply.status = 200
  BY <1>2, <1>3, <1>4
<1>6. verdict = "crash" => request'[c].reply.status = 0
  <2>1. request[c].reply.status = 0
    BY ReplyTyped DEF Guarded, Routed, IndInv, RequestsFit, Fits, InHand
  <2>2. verdict = "crash" => request'[c].reply = request[c].reply
    BY <1>1, <1>2 DEF Requests
  <2> QED
    BY <2>1, <2>2
<1>7. verdict \in AuthCodes => request'[c].reply.status = AppErrorStatus[verdict]
  <2>1. verdict \in AuthCodes => verdict \notin {"ok", "crash"}
    BY DEF AuthCodes
  <2> QED
    BY <1>2, <1>3, <1>4, <2>1
<1> QED
  BY <1>5, <1>6, <1>7 DEF verdict

\* The checks behind a verdict of "ok".
LEMMA OkIsSound ==
    ASSUME NEW bearer \in SUBSET Tokens, NEW source \in {"jwks", "file", "none"}, clock \in Nat,
           Verdict(bearer, source, ALLOWED) = "ok"
    PROVE  \E t \in bearer : /\ Sound(t) /\ t.role \in ALLOWED
                             /\ \/ source = "jwks"
                                \/ source = "file" /\ t.kid = keys.file
<1> DEFINE t == CHOOSE u \in bearer : TRUE
<1>1. bearer # {} /\ ~Unconfigured(source) /\ SignatureFits(t, source)
      /\ Claims(t) = "ok" /\ t.role \in ALLOWED
  BY DEF Verdict
<1>2. t \in bearer
  BY <1>1
<1> HIDE DEF t
<1>3. t.claims /\ ~(t.exp <= clock) /\ t.aud /\ t.role \in ROLES /\ t.sub
  BY <1>1 DEF Claims
<1>4. t.exp \in Nat
  BY <1>2, TokensAssumption
<1>5. t.exp > clock
  BY <1>3, <1>4
<1>6. Sound(t)
  BY <1>1, <1>3, <1>5, Zenon DEF SignatureFits, Sound
<1>7. source = "jwks" \/ (source = "file" /\ t.kid = keys.file)
  BY <1>1 DEF Unconfigured, SignatureFits
<1>8. t.role \in ALLOWED
  BY <1>1
<1> QED
  BY <1>2, <1>6, <1>7, <1>8, Zenon

LEMMA CallerStep ==
    ASSUME IndInv, [Next]_serviceVars, NEW c \in Clients, request[c].route = "guarded",
           request[c].pc = "handler", request'[c].reply.status = 200
    PROVE  \E t \in request[c].bearer :
              /\ Sound(t) /\ t.role \in ALLOWED
              /\ \/ app.settings.keys = "jwks"
                 \/ app.settings.keys = "file" /\ t.kid = keys.file
<1>1. Guarded(c)
  BY GuardedSteps, NoAnswerYet
<1>2. app.settings.keys \in {"jwks", "file", "none"}
  <2>1. app.pc = "serving"
    BY NoRequestTyped DEF IndInv, Unserved
  <2> QED
    BY <2>1, ConfigsAssumption DEF IndInv, Accepted
<1>3. Verdict(request[c].bearer, app.settings.keys, ALLOWED) = "ok"
  BY <1>1, GuardedReply, Verdicts, AuthStatuses
<1>4. clock \in Nat /\ request[c].bearer \in SUBSET Tokens
  BY TokensAssumption DEF IndInv, ProcessTyped, RequestsFit, Requests
<1> QED
  BY <1>2, <1>3, <1>4, OkIsSound

\* A sound token whose key can be had is judged by its role alone.
LEMMA SoundIsJudged ==
    ASSUME keys \in KeysType, clock \in Nat, NEW t \in Tokens, Sound(t), NEW source,
           \/ source = "jwks" /\ keys.up /\ t.kid \in keys.published
           \/ source = "file" /\ t.kid = keys.file
    PROVE  Verdict({t}, source, ALLOWED) = (IF t.role \in ALLOWED THEN "ok" ELSE "forbidden")
<1>1. (CHOOSE u \in {t} : TRUE) = t
  OBVIOUS
<1>2. t.kid \in Kids /\ t.kid # NoKid /\ t.exp \in Nat
  BY TokensAssumption
<1>3. ~Unconfigured(source)
  BY <1>2 DEF Unconfigured
<1>4. KeyResolved(t, source)
  BY <1>2, PublishedIsFound DEF KeyResolved
<1>5. SignatureFits(t, source)
  BY DEF SignatureFits, Sound
<1>6. Claims(t) = "ok"
  BY <1>2 DEF Claims, Sound
<1> QED
  BY <1>1, <1>3, <1>4, <1>5, <1>6 DEF Verdict

LEMMA NewKeyStep ==
    ASSUME IndInv, [Next]_serviceVars, NEW c \in Clients, NEW t \in Tokens,
           request[c].pc = "handler", request[c].bearer = {t}, Sound(t),
           request'[c].pc \notin {"handler", "idle"},
           \/ app.settings.keys = "jwks" /\ keys.up /\ t.kid \in keys.published
           \/ app.settings.keys = "file" /\ t.kid = keys.file
    PROVE  request'[c].reply.status = (IF t.role \in ALLOWED THEN 200 ELSE 403)
<1>1. request[c].route = "guarded"
  BY DEF IndInv, RequestsFit, Fits, InHand
<1>2. Guarded(c)
  BY <1>1, GuardedSteps, NoRequestTyped
<1>3. keys \in KeysType /\ clock \in Nat
  BY TokensAssumption DEF IndInv, ProcessTyped
<1>4. Verdict(request[c].bearer, app.settings.keys, ALLOWED)
          = (IF t.role \in ALLOWED THEN "ok" ELSE "forbidden")
  BY <1>3, SoundIsJudged
<1>5. "forbidden" \in AuthCodes /\ AppErrorStatus["forbidden"] = 403
  BY DEF AuthCodes, AppErrorStatus
<1>6. CASE t.role \in ALLOWED
  BY <1>2, <1>4, <1>6, GuardedReply
<1>7. CASE t.role \notin ALLOWED
  <2>1. Verdict(request[c].bearer, app.settings.keys, ALLOWED) = "forbidden"
    BY <1>4, <1>7
  <2>2. LET verdict == Verdict(request[c].bearer, app.settings.keys, ALLOWED)
        IN  verdict \in AuthCodes => request'[c].reply.status = AppErrorStatus[verdict]
    BY <1>2, GuardedReply
  <2>3. request'[c].reply.status = AppErrorStatus["forbidden"]
    BY <1>5, <2>1, <2>2, ZenonT(40)
  <2> QED
    BY <1>5, <1>7, <2>3, Zenon
<1> QED
  BY <1>6, <1>7

-----------------------------------------------------------------------------
(* The request log                                                         *)

\* What the filters of the request log let pass.
Passing == [event \in {"request", "request_failed"} |-> Passes(event)]

\* A request has no line of the request log before its answer has passed the
\* middleware, and then one, if it passes.
Logged(r, cors, passing) ==
    /\ r.pc # "done" => Ends(r) = {}
    /\ r.pc = "done" /\ ~(r.route = "preflight" /\ cors) =>
          IF passing[EndOf(r)]
            THEN \E i \in Ends(r) : /\ Ends(r) = {i} /\ r.lines[i].event = EndOf(r)
                                    /\ EndOf(r) = "request" => r.lines[i].status = r.reply.status
            ELSE Ends(r) = {}

LogInv == \A c \in Clients : Logged(request[c], app.settings.cors, Passing)

LEMMA NoRequestLogged ==
    ASSUME NEW cors, NEW passing
    PROVE  Logged(NoRequest, cors, passing)
BY NoRequestTyped DEF Logged, Ends

\* A line more is the one of the request log, or leaves that as it was.
LEMMA EndsGrow ==
    ASSUME NEW lines \in Seq(LogLines), NEW l \in LogLines, NEW r, NEW s,
           r.lines = lines, Ends(r) = {}, s.lines = Append(lines, l)
    PROVE  Ends(s) = IF l.event = "readiness_db_failed" THEN {} ELSE {Len(lines) + 1}
<1> DEFINE wide == Append(lines, l)
<1>1. /\ DOMAIN wide = 1..(Len(lines) + 1) /\ Len(lines) \in Nat
      /\ wide[Len(lines) + 1] = l
      /\ DOMAIN lines = 1..Len(lines) /\ \A i \in DOMAIN lines : wide[i] = lines[i]
  OBVIOUS
<1>2. \A i \in DOMAIN lines : lines[i].event \notin {"request", "request_failed"}
  BY DEF Ends
<1>3. Ends(s) = {i \in DOMAIN wide : wide[i].event \in {"request", "request_failed"}}
  BY DEF Ends
<1>4. l.event \in {"request", "request_failed", "readiness_db_failed"}
  BY DEF LogLines
<1> HIDE DEF wide
<1>5. \A i \in DOMAIN wide : i \in DOMAIN lines \/ i = Len(lines) + 1
  BY <1>1
<1>6. Len(lines) + 1 \in DOMAIN wide
  BY <1>1
<1>7. \A i \in Ends(s) : i = Len(lines) + 1 /\ l.event \in {"request", "request_failed"}
  BY <1>1, <1>2, <1>3, <1>5, Zenon
<1>8. l.event \in {"request", "request_failed"} => Len(lines) + 1 \in Ends(s)
  BY <1>1, <1>3, <1>6, Zenon
<1> QED
  BY <1>4, <1>7, <1>8

\* The line of the request log, or its absence when it is filtered out.
LEMMA LoggedAtLast ==
    ASSUME NEW lines \in Seq(LogLines), NEW l \in LogLines, NEW r, NEW s, NEW cors, NEW passing,
           r.lines = lines, Ends(r) = {}, s.pc = "done", EndOf(s) = l.event,
           s.lines = (IF passing[l.event] THEN Append(lines, l) ELSE lines),
           l.event = "request" => l.status = s.reply.status
    PROVE  Logged(s, cors, passing)
<1>1. CASE passing[l.event]
  <2>1. l.event # "readiness_db_failed"
    BY DEF EndOf
  <2>2. Ends(s) = {Len(lines) + 1}
    BY <1>1, <2>1, EndsGrow
  <2>3. s.lines[Len(lines) + 1] = l
    BY <1>1
  <2>4. Len(lines) + 1 \in Ends(s)
    BY <2>2
  <2> QED
    BY <1>1, <2>2, <2>3, <2>4, Zenon DEF Logged
<1>2. CASE ~passing[l.event]
  <2>1. Ends(s) = Ends(r)
    BY <1>2 DEF Ends
  <2> QED
    BY <1>2, <2>1 DEF Logged
<1> QED
  BY <1>1, <1>2

\* What passes the request on, to another state or to the middleware, logs nothing
\* of the request log.
LEMMA PassedOn ==
    ASSUME IndInv, NEW c \in Clients,
           \/ Health(c) \/ HttpError(c) \/ HandlerFails(c) \/ Guarded(c) \/ Ready(c)
           \/ ProbeOk(c)
    PROVE  /\ request'[c].lines = request[c].lines
           /\ request'[c].pc \in {"leave", "raised", "probe"}
<1> DEFINE r == request[c]
<1>1. r \in Requests /\ request \in [Clients -> Requests]
  BY DEF IndInv, RequestsFit
<1>2. ASSUME NEW status, NEW code, request' = [request EXCEPT ![c] = Answered(r, status, code)]
      PROVE  request'[c].lines = r.lines /\ request'[c].pc = "leave"
  <2>1. request'[c] = Answered(r, status, code)
    BY <1>1, <1>2
  <2> QED
    BY <1>1, <2>1 DEF Answered, Requests
<1>3. ASSUME request' = [request EXCEPT ![c] = [r EXCEPT !.pc = "raised"]]
      PROVE  request'[c].lines = r.lines /\ request'[c].pc = "raised"
  <2>1. request'[c] = [r EXCEPT !.pc = "raised"]
    BY <1>1, <1>3
  <2> QED
    BY <1>1, <2>1 DEF Requests
<1>4. CASE Health(c) \/ HttpError(c) \/ ProbeOk(c)
  <2>1. \E status, code : Respond(c, status, code)
    <3>1. CASE Health(c) \/ ProbeOk(c)
      BY <3>1, Zenon DEF Health, ProbeOk
    <3>2. CASE HttpError(c)
      BY <3>2, ZenonT(40) DEF HttpError
    <3> QED
      BY <1>4, <3>1, <3>2
  <2>2. \E status, code : request' = [request EXCEPT ![c] = Answered(r, status, code)]
    BY <2>1 DEF Respond
  <2> QED
    BY <1>2, <2>2
<1>5. CASE HandlerFails(c)
  <2>1. \/ \E status, code : request' = [request EXCEPT ![c] = Answered(r, status, code)]
        \/ request' = [request EXCEPT ![c] = [r EXCEPT !.pc = "raised"]]
    BY <1>5, Zenon DEF HandlerFails, AppErrorHandler
  <2> QED
    BY <1>2, <1>3, <2>1
<1>6. CASE Guarded(c)
  <2>1. \/ \E status, code : request' = [request EXCEPT ![c] = Answered(r, status, code)]
        \/ request' = [request EXCEPT ![c] = [r EXCEPT !.pc = "raised"]]
    BY <1>6 DEF Guarded, AppErrorHandler
  <2> QED
    BY <1>2, <1>3, <2>1
<1>7. CASE Ready(c)
  <2>1. request'[c] = [r EXCEPT !.pc = "probe", !.engine = engine]
    BY <1>1, <1>7 DEF Ready
  <2> QED
    BY <1>1, <2>1 DEF Requests
<1> QED
  BY <1>4, <1>5, <1>6, <1>7

\* A step of a request leaves it logged as it should be.
LEMMA ServeLogs ==
    ASSUME IndInv, LogInv, NEW c \in Clients, Serve(c)
    PROVE  Logged(request'[c], app.settings.cors, Passing)
<1> DEFINE r == request[c]
           s == request'[c]
<1> SUFFICES Logged(s, app.settings.cors, Passing)
  OBVIOUS
<1>1. /\ r \in Requests /\ r.lines \in Seq(LogLines) /\ request \in [Clients -> Requests]
      /\ context[c] \in Ids /\ r.reply.status \in Nat
  BY DEF IndInv, RequestsFit, Requests, Replies
<1>2. r.pc # "done" => Ends(r) = {}
  BY DEF LogInv, Logged
<1>3. CASE Arrive(c)
  <2>1. \E route \in RoutesOf[c], id \in {c, "given"} :
        \E bearer \in IF route = "guarded" THEN Bearers ELSE {{}} :
           request' = [request EXCEPT ![c] = [NoRequest EXCEPT !.pc = "handler",
                                        !.route = route, !.bearer = bearer, !.id = id]]
    BY <1>3, Zenon DEF Arrive
  <2>5. PICK route, bearer, id :
        request' = [request EXCEPT ![c] = [NoRequest EXCEPT !.pc = "handler",
                                             !.route = route, !.bearer = bearer, !.id = id]]
    BY <2>1, Zenon
  <2>2. s = [NoRequest EXCEPT !.pc = "handler", !.route = route, !.bearer = bearer, !.id = id]
    BY <1>1, <2>5
  <2>3. s.pc = "handler" /\ s.lines = << >>
    BY <2>2, NoRequestTyped DEF Requests
  <2> HIDE DEF s
  <2> QED
    BY <2>3 DEF Logged, Ends
<1>4. CASE AnswerPreflight(c)
  <2>1. PICK status :
        request' = [request EXCEPT ![c] = [NoRequest EXCEPT !.pc = "done",
                         !.route = "preflight", !.reply = Response(status, "none", "none")]]
    BY <1>4, ZenonT(40) DEF AnswerPreflight
  <2>2. s = [NoRequest EXCEPT !.pc = "done", !.route = "preflight",
                              !.reply = Response(status, "none", "none")]
    BY <1>1, <2>1
  <2>3. s.pc = "done" /\ s.route = "preflight" /\ app.settings.cors
    BY <1>4, <2>2, NoRequestTyped, ZenonT(40) DEF Requests, AnswerPreflight
  <2> HIDE DEF s
  <2> QED
    BY <2>3 DEF Logged
<1>5. CASE Leave(c)
  <2> DEFINE line == LogLine(c, "request", r.reply.status)
             lines == Logging(c, "request", r.reply.status)
  <2>1. s = [r EXCEPT !.pc = "done", !.reply.header = r.id, !.lines = lines]
    BY <1>1, <1>5 DEF Leave
  <2>2. /\ s.pc = "done" /\ s.lines = lines
        /\ s.reply.status = r.reply.status /\ s.reply.code = r.reply.code
    BY <1>1, <2>1 DEF Requests, Replies
  <2>3. line \in LogLines /\ line.event = "request" /\ line.status = r.reply.status
    <3>1. line \in LogLines
      BY <1>1, LogLineTyped
    <3> QED
      BY <3>1 DEF LogLine
  <2>4. Ends(r) = {}
    BY <1>2, <1>5 DEF Leave
  <2>5. EndOf(s) = "request"
    <3>1. r.reply.code # "internal_error"
      BY <1>5 DEF Leave, IndInv, RequestsFit, Fits, AnswerOK
    <3> QED
      BY <2>2, <3>1 DEF EndOf
  <2>6. s.lines = (IF Passing["request"] THEN Append(r.lines, line) ELSE r.lines)
    BY <2>2 DEF Logging, Passing
  <2> HIDE DEF line, s, lines, Passing, r
  <2> QED
    BY <1>1, <2>2, <2>3, <2>4, <2>5, <2>6, LoggedAtLast
<1>6. CASE Raise(c)
  <2> DEFINE line == LogLine(c, "request_failed", 0)
             reply == Response(500, "internal_error", r.id)
  <2>1. s = [r EXCEPT !.pc = "done", !.lines = LogFailure(c), !.reply = reply]
    BY <1>1, <1>6 DEF Raise
  <2>2. s.pc = "done" /\ s.lines = LogFailure(c) /\ s.reply = reply
    BY <1>1, <2>1 DEF Requests
  <2>3. line \in LogLines /\ line.event = "request_failed"
    <3>1. line \in LogLines
      BY <1>1, LogLineTyped
    <3> QED
      BY <3>1 DEF LogLine
  <2>4. EndOf(s) = "request_failed"
    BY <2>2 DEF EndOf, Response
  <2>5. Ends(r) = {}
    BY <1>2, <1>6 DEF Raise
  <2>6. s.lines = (IF Passing["request_failed"] THEN Append(r.lines, line) ELSE r.lines)
    BY <2>2 DEF LogFailure, Logging, Passing
  <2> HIDE DEF line, s, reply, Passing, r
  <2> QED
    BY <1>1, <2>2, <2>3, <2>4, <2>5, <2>6, LoggedAtLast
<1>7. CASE ProbeFails(c)
  <2> DEFINE line == LogLine(c, "readiness_db_failed", 0)
             lines == Logging(c, "readiness_db_failed", 0)
  <2>1. s = [r EXCEPT !.pc = "leave", !.reply.status = 503, !.lines = lines]
    BY <1>1, <1>7 DEF ProbeFails
  <2>2. s.pc = "leave" /\ s.lines \in {r.lines, Append(r.lines, line)}
    BY <1>1, <2>1 DEF Requests, Logging
  <2>3. line \in LogLines /\ line.event = "readiness_db_failed"
    <3>1. line \in LogLines
      BY <1>1, LogLineTyped
    <3> QED
      BY <3>1 DEF LogLine
  <2>4. Ends(r) = {}
    BY <1>2, <1>7 DEF ProbeFails
  <2> HIDE DEF line, s, lines, r
  <2>5. CASE s.lines = Append(r.lines, line)
    <3>1. Ends(s) = {}
      BY <1>1, <2>3, <2>4, <2>5, EndsGrow
    <3> QED
      BY <2>2, <3>1 DEF Logged
  <2>6. CASE s.lines = r.lines
    BY <2>2, <2>4, <2>6 DEF Logged, Ends
  <2> QED
    BY <2>2, <2>5, <2>6
<1>8. CASE Health(c) \/ HttpError(c) \/ HandlerFails(c) \/ Guarded(c) \/ Ready(c) \/ ProbeOk(c)
  <2>1. s.lines = r.lines /\ s.pc \in {"leave", "raised", "probe"}
    BY <1>8, PassedOn
  <2>2. r.pc # "done"
    BY <1>8 DEF Health, HttpError, HandlerFails, Guarded, Ready, ProbeOk, Routed
  <2> HIDE DEF s
  <2> QED
    BY <1>2, <2>1, <2>2 DEF Logged, Ends
<1> QED
  BY <1>3, <1>4, <1>5, <1>6, <1>7, <1>8 DEF Serve

\* What is filtered out stays so while an application serves.
LEMMA PassingStays ==
    ASSUME IndInv, NEW c \in Clients, Serve(c), app.pc = "serving"
    PROVE  app' = app /\ Passing' = Passing
<1>1. app' = app
  BY DEF Serve, Arrive, AnswerPreflight, Leave, Raise, Health, HttpError, HandlerFails,
         Guarded, Ready, ProbeOk, ProbeFails, appVars, engineVars
<1>2. levels' = levels \/ FirstUse("http") \/ FirstUse("health")
  BY DEF Serve, Arrive, AnswerPreflight, Leave, Raise, Health, HttpError, HandlerFails,
         Guarded, Ready, ProbeOk, ProbeFails, appVars
<1>3. ASSUME NEW event \in {"request", "request_failed"} PROVE Passes(event)' <=> Passes(event)
  BY <1>1, <1>2, PassesStays DEF Severity
<1>4. Passing' = [event \in {"request", "request_failed"} |-> Passes(event)']
  BY DEF Passing
<1>5. Passes("request")' = Passes("request")
      /\ Passes("request_failed")' = Passes("request_failed")
  BY <1>3 DEF Passes
<1> QED
  BY <1>1, <1>4, <1>5 DEF Passing

LEMMA LogKeeps == IndInv /\ LogInv /\ [Next]_serviceVars => LogInv'
<1> SUFFICES ASSUME IndInv, LogInv, [Next]_serviceVars, NEW c \in Clients
             PROVE  Logged(request'[c], app'.settings.cors, Passing')
  BY DEF LogInv
<1>1. IndInv'
  BY NextKeeps
<1>2. CASE app'.pc # "serving"
  BY <1>1, <1>2, NoRequestLogged DEF IndInv, Unserved
<1>3. CASE StartUp
  <2>1. request'[c] = NoRequest
    BY <1>3 DEF StartUp, IndInv, Unserved
  <2> QED
    BY <2>1, NoRequestLogged
<1>4. CASE UNCHANGED <<app, request, levels>>
  BY <1>4 DEF LogInv, Passing, Passes, LevelOf
<1>5. CASE \E d \in Clients : Serve(d)
  <2>1. PICK d \in Clients : Serve(d)
    BY <1>5
  <2>2. CASE app'.pc = "serving"
    <3>1. app' = app
      BY <2>1 DEF Serve, Arrive, AnswerPreflight, Leave, Raise, Health, HttpError, HandlerFails,
                  Guarded, Ready, ProbeOk, ProbeFails, appVars, engineVars
    <3>2. app' = app /\ Passing' = Passing
      BY <2>1, <2>2, <3>1, PassingStays
    <3>3. CASE d = c
      BY <2>1, <3>2, <3>3, ServeLogs
    <3>4. CASE d # c
      BY <2>1, <3>2, <3>4, OnlyItsOwn DEF LogInv
    <3> QED
      BY <3>3, <3>4
  <2> QED
    BY <1>2, <2>2
<1>6. NewApp \/ ShutDown \/ Disposed \/ Exit => app'.pc # "serving"
  <2>1. app \in [pc : AppPCs, settings : Configs \cup {NoSettings}]
    BY DEF IndInv, ProcessTyped
  <2> QED
    <3>1. NewApp => app'.pc # "serving"
      BY DEF NewApp
    <3>2. ShutDown => app'.pc # "serving"
      BY <2>1 DEF ShutDown, Failed
    <3>3. Disposed \/ Exit => app'.pc # "serving"
      BY DEF Disposed, Exit
    <3> QED
      BY <3>1, <3>2, <3>3
<1>7. (Issuer \/ \E d \in Databases : DatabaseUpOrDown(d)) \/ UNCHANGED serviceVars
         => UNCHANGED <<app, request, levels>>
  BY DEF Issuer, DatabaseUpOrDown, serviceVars, appVars
<1> QED
  BY <1>2, <1>3, <1>4, <1>5, <1>6, <1>7 DEF Next

-----------------------------------------------------------------------------
(* The theorems                                                            *)

\* Everything about a process and its requests that holds from step to step.
THEOREM Inductive == Spec => []IndInv
BY InitIndInv, NextKeeps, PTL DEF Spec

\* The variables have their types (main.py, session.py, middleware.py).
THEOREM ServiceTypes == Spec => []TypeOK
BY Inductive, IndInvTypes, PTL

\* There is one pool at most, that of the engine in the global; it is the application's
\* own, unless a start or stop failed halfway (session.py, main.py).
THEOREM ServedByOwnEngine == Spec => []EngineIsOwn
BY Inductive, IndInvOwnEngine, PTL

\* What has started has a provider and, where it needs one, a model for every route,
\* with no reference to the environment left in either (policy.py).
THEOREM StartedComplete == Spec => []StartedIsComplete
BY Inductive, IndInvComplete, PTL

\* A request's id is the one on its log lines, in the body of its problem and in the
\* header of an answer that passes the middleware, however the requests interleave
\* (middleware.py).
THEOREM OwnIds == Spec => []OwnIdEverywhere
BY Inductive, IndInvOwnId, PTL

\* An error reaches its client as a problem, with a code that goes with its status
\* (errors.py).
THEOREM Problems == Spec => []ErrorsAreProblems
BY Inductive, IndInvProblems, PTL

\* A request that has been answered is on the request log once, as answered with the
\* status its client got or as failed, or is filtered out (middleware.py, logging.py).
THEOREM LoggedOnceEach == Spec => []LoggedOnce
<1>1. Init => LogInv
  BY NoRequestLogged DEF Init, LogInv
<1>2. LogInv => LoggedOnce
  <2>1. \A r : Passing[EndOf(r)] = Passes(EndOf(r))
    BY DEF Passing, EndOf
  <2> QED
    BY <2>1 DEF LogInv, Logged, LoggedOnce
<1> QED
  BY <1>1, <1>2, LogKeeps, Inductive, PTL DEF Spec

\* A "ready" is true of the engine of the process, which is the application's own unless
\* a start or stop failed halfway (health.py, session.py).
THEOREM Ready200 == Spec => ReadyIsTrue
<1>1. IndInv /\ [Next]_serviceVars =>
        [\A c \in Clients :
          request[c].pc = "probe" /\ request'[c].reply.status = 200 =>
              /\ request[c].engine = engine /\ engine \in open
              /\ engine.database \in up
              /\ clean => engine = [database |-> app.settings.database,
                                    made |-> apps]]_serviceVars
  BY ReadyStep
<1> QED
  BY <1>1, Inductive, PTL DEF Spec, ReadyIsTrue

\* The guarded handler runs for the holder of a sound token of an allowed role only
\* (auth.py).
THEOREM Verified == Spec => CallerIsVerified
<1>1. IndInv /\ [Next]_serviceVars =>
        [\A c \in Clients :
          request[c].route = "guarded" /\ request[c].pc = "handler"
                  /\ request'[c].reply.status = 200 =>
              \E t \in request[c].bearer :
                 /\ Sound(t) /\ t.role \in ALLOWED
                 /\ \/ app.settings.keys = "jwks"
                    \/ app.settings.keys = "file" /\ t.kid = keys.file]_serviceVars
  BY CallerStep
<1> QED
  BY <1>1, Inductive, PTL DEF Spec, CallerIsVerified

\* A key the issuer publishes at that moment is accepted, without a restart (auth.py).
THEOREM Rotation == Spec => NewKeyAccepted
<1>1. IndInv /\ [Next]_serviceVars =>
        [\A c \in Clients, t \in Tokens :
          (/\ request[c].pc = "handler" /\ request[c].bearer = {t} /\ Sound(t)
           /\ request'[c].pc \notin {"handler", "idle"}
           /\ \/ app.settings.keys = "jwks" /\ keys.up /\ t.kid \in keys.published
              \/ app.settings.keys = "file" /\ t.kid = keys.file)
          => request'[c].reply.status = (IF t.role \in ALLOWED THEN 200 ELSE 403)]_serviceVars
  BY NewKeyStep
<1> QED
  BY <1>1, Inductive, PTL DEF Spec, NewKeyAccepted
=============================================================================
