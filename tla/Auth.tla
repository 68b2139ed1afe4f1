-------------------------------- MODULE Auth --------------------------------
(***************************************************************************)
(* app/core/auth.py: from the Authorization header to the verified caller. *)
(*                                                                         *)
(* The issuer publishes keys, by key id, and replaces them; PyJWT keeps    *)
(* the set it fetched for a while, and each key it found for good.  With a *)
(* key file in place of a JWKS URL nothing is kept.  All of it is done     *)
(* without an await, so that one verification is one step.                 *)
(***************************************************************************)
EXTENDS Naturals, FiniteSets

CONSTANTS
    Kids,           \* key ids
    NoKid,          \* the content of a key file that is not there
    Tokens,         \* records: kid, forged, claims (exp, aud and sub are there),
                    \* exp, aud (is ours), role, sub (is a non-empty string)
    Lifespan,       \* how long a fetched set of keys is used
    MaxTime         \* bound of the model: the last time of the clock

ROLES == {"staff", "user", "guest", "service", "admin"}

ASSUME TokensAssumption ==
    /\ NoKid \notin Kids
    /\ Tokens \subseteq [kid : Kids, forged : BOOLEAN, claims : BOOLEAN, exp : Nat,
                         aud : BOOLEAN, role : ROLES \cup {"none"}, sub : BOOLEAN]
    /\ Lifespan \in Nat \ {0} /\ MaxTime \in Nat

VARIABLES
    clock,
    keys        \* published, up: the issuer's JWKS endpoint; fetched, until: the
                \* set PyJWT keeps; known: the keys it found; file: the key file

authVars == <<clock, keys>>

AuthInit ==
    /\ clock = 0
    /\ \E k \in Kids : keys = [published |-> {k}, up |-> TRUE, fetched |-> {},
                               until |-> 0, known |-> {}, file |-> k]

-----------------------------------------------------------------------------
(* The issuer, and whoever deploys the key file                            *)

Tick == /\ clock < MaxTime
        /\ clock' = clock + 1
        /\ UNCHANGED keys

\* A key is published beside the others, or in place of them.
PublishKey(k) ==
    /\ k \notin keys.published
    /\ \E rest \in {keys.published, {}} : keys' = [keys EXCEPT !.published = rest \cup {k}]
    /\ UNCHANGED clock

JwksUpOrDown == /\ keys' = [keys EXCEPT !.up = ~@]
                /\ UNCHANGED clock

ReplaceKeyFile(k) == /\ keys.file # k
                     /\ keys' = [keys EXCEPT !.file = k]
                     /\ UNCHANGED clock

\* A new process starts with nothing kept.
ForgetKeys == [keys EXCEPT !.fetched = {}, !.until = 0, !.known = {}]

-----------------------------------------------------------------------------
(* _signing_key                                                            *)

Fetch(ks) == IF ks.up THEN [ks EXCEPT !.fetched = ks.published, !.until = clock + Lifespan]
                      ELSE [ks EXCEPT !.fetched = {}, !.until = 0]

\* A slip: the keys are fetched once, and an unknown key id is final.
Lookup_NoRefetch(kid) ==
    LET first == IF keys.until > clock THEN keys ELSE Fetch(keys)
    IN  IF kid \notin keys.known /\ kid \in first.fetched
          THEN [first EXCEPT !.known = @ \cup {kid}] ELSE first

\* get_signing_key_from_jwt: a key that was found before, else the set in hand,
\* else one that is fetched for the purpose.
Lookup(kid) ==
    LET first == IF keys.until > clock THEN keys ELSE Fetch(keys)
        last == IF kid \in first.fetched THEN first ELSE Fetch(first)
    IN  IF kid \in keys.known THEN keys
        ELSE IF kid \in last.fetched THEN [last EXCEPT !.known = @ \cup {kid}]
        ELSE last

\* What is kept after a verification that asked for token's key.
KeysAfter(token, source) == IF source = "jwks" THEN Lookup(token.kid) ELSE keys

\* Neither a JWKS URL nor a key file, or a key file that is not there.
Unconfigured(source) == \/ source = "none"
                        \/ source = "file" /\ keys.file = NoKid

KeyResolved(token, source) == source = "jwks" => token.kid \in Lookup(token.kid).known

\* The signature is checked with the key of that id, or with the file's.
SignatureFits(token, source) == /\ ~token.forged
                                /\ source = "file" => token.kid = keys.file

-----------------------------------------------------------------------------
(* decode_token, actor_from_claims, require_roles                          *)

\* jwt.decode and actor_from_claims, in the order of their checks.
Claims_NoAudience(token) ==
    IF ~token.claims THEN "invalid_token"
    ELSE IF token.exp <= clock THEN "token_expired"
    ELSE IF token.role \notin ROLES \/ ~token.sub THEN "invalid_token"
    ELSE "ok"
Claims(token) ==
    IF ~token.claims THEN "invalid_token"
    ELSE IF token.exp <= clock THEN "token_expired"
    ELSE IF ~token.aud \/ token.role \notin ROLES \/ ~token.sub THEN "invalid_token"
    ELSE "ok"

\* The code of the error, "ok", or "crash" for AuthConfigError, which is no
\* AppError.  `bearer` is the set of the tokens in the header: none unless it is
\* of the form "Bearer <jwt>".
Verdict(bearer, source, allowed) ==
    LET token == CHOOSE t \in bearer : TRUE IN
    IF bearer = {} THEN "unauthenticated"
    ELSE IF Unconfigured(source) THEN "crash"
    ELSE IF ~KeyResolved(token, source) \/ ~SignatureFits(token, source)
      THEN "invalid_token"
    ELSE IF Claims(token) = "ok" /\ token.role \notin allowed THEN "forbidden"
    ELSE Claims(token)
=============================================================================
