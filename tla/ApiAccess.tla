----------------------------- MODULE ApiAccess ------------------------------
(***************************************************************************)
(* Who may call the API: the key that the server makes when it is first    *)
(* started (app.py), the API processes that load it (api.py), the routes   *)
(* that issue access tokens (v1/authentication.py) and the check of every  *)
(* other route (auth.py).                                                  *)
(*                                                                         *)
(* The server may stop and be started again at any point, and its API      *)
(* processes come and go.  Time advances in ticks, TicksPerSecond of them  *)
(* to the second, because the expiration of a token is kept in seconds.    *)
(***************************************************************************)
EXTENDS ErrorResponses

CONSTANTS
    Workers,            \* the API processes of the server
    Keys,               \* what secrets.token_hex may return
    Ttl,                \* qsa_access_token_ttl, in seconds
    TicksPerSecond,
    AuthEnabled,        \* qsa_auth_enabled
    MaxTime,            \* bound: the clock stops there
    Unfinished,         \* the content of a key file without its key
    Nil                 \* no key, no token, no file

VARIABLES
    keyFile,    \* .secret_keys: Nil, Unfinished or the key it holds
    used,       \* the keys generated so far
    main,       \* where main() is
    worker,     \* where each API process is
    secret,     \* its qsa_secret_key
    tokens,     \* the access tokens issued so far
    now,        \* the clock
    answer      \* the last call: the token it showed, when, and its outcome

vars == <<keyFile, used, main, worker, secret, tokens, now, answer>>

ASSUME KeysAssumption == Nil \notin Keys /\ Unfinished \notin Keys \cup {Nil}
ASSUME TimeAssumption ==
    /\ Ttl \in Nat \ {0} /\ TicksPerSecond \in Nat \ {0} /\ MaxTime \in Nat
    /\ AuthEnabled \in BOOLEAN

Token == [key : Keys, issued : Nat, exp : Nat]

Init ==
    /\ keyFile = Nil /\ used = {} /\ main = "down"
    /\ worker = [w \in Workers |-> "none"] /\ secret = [w \in Workers |-> Nil]
    /\ tokens = {} /\ now = 0
    /\ answer = [token |-> Nil, at |-> 0, outcome |-> "none"]

-----------------------------------------------------------------------------
(* main(): the key file is made unless there is one.                       *)

Start_AlwaysNewKey ==                                            \* mutant
    /\ main = "down" /\ main' = "open"
    /\ UNCHANGED <<keyFile, used, worker, secret, tokens, now, answer>>

Start ==
    /\ main = "down" /\ main' = IF keyFile = Nil THEN "open" ELSE "run"
    /\ UNCHANGED <<keyFile, used, worker, secret, tokens, now, answer>>

(* open(mode="w") creates the file; json.dump reaches it when it closes.   *)
OpenKeyFile ==
    /\ main = "open" /\ main' = "dump" /\ keyFile' = Unfinished
    /\ UNCHANGED <<used, worker, secret, tokens, now, answer>>

DumpKey ==
    /\ main = "dump" /\ main' = "run"
    /\ \E k \in Keys \ used : keyFile' = k /\ used' = used \cup {k}
    /\ UNCHANGED <<worker, secret, tokens, now, answer>>

(* The server stops, or is stopped, with its API processes.                *)
Stop ==
    /\ main # "down" /\ main' = "down"
    /\ worker' = [w \in Workers |-> "none"] /\ secret' = [w \in Workers |-> Nil]
    /\ UNCHANGED <<keyFile, used, tokens, now, answer>>

-----------------------------------------------------------------------------
(* The API processes, which uvicorn starts, and starts again.              *)

Spawn(w) ==
    /\ main = "run" /\ worker[w] = "none"
    /\ worker' = [worker EXCEPT ![w] = "load"]
    /\ UNCHANGED <<keyFile, used, main, secret, tokens, now, answer>>

(* _create_fastapi ends with json.load of the key file, or raises.         *)
LoadKey_AnyContent(w) ==                                         \* mutant
    /\ worker[w] = "load"
    /\ secret' = [secret EXCEPT ![w] = keyFile]
    /\ worker' = [worker EXCEPT ![w] = "serve"]
    /\ UNCHANGED <<keyFile, used, main, tokens, now, answer>>

LoadKey(w) ==
    /\ worker[w] = "load"
    /\ IF keyFile \in Keys
       THEN /\ secret' = [secret EXCEPT ![w] = keyFile]
            /\ worker' = [worker EXCEPT ![w] = "serve"]
       ELSE worker' = [worker EXCEPT ![w] = "none"] /\ UNCHANGED secret
    /\ UNCHANGED <<keyFile, used, main, tokens, now, answer>>

Lose(w) ==
    /\ worker[w] # "none"
    /\ worker' = [worker EXCEPT ![w] = "none"] /\ secret' = [secret EXCEPT ![w] = Nil]
    /\ UNCHANGED <<keyFile, used, main, tokens, now, answer>>

-----------------------------------------------------------------------------
(* Requests.                                                               *)

Answered(token, outcome) ==
    answer' = [token |-> token, at |-> now, outcome |-> outcome]

(* jwt.encode keeps the whole seconds of exp = utcnow() + ttl.             *)
NewToken_RoundedUp(k) ==                                         \* mutant
    [key |-> k, issued |-> now, exp |-> now \div TicksPerSecond + 1 + Ttl]

NewToken(k) ==
    [key |-> k, issued |-> now, exp |-> (now + Ttl * TicksPerSecond) \div TicksPerSecond]

Issue(w) ==
    LET token == NewToken(secret[w])
    IN tokens' = tokens \cup {token} /\ Answered(Nil, "OK")

(* POST /v1/token, with basic credentials.                                 *)
GetAccessToken(w) ==
    /\ worker[w] = "serve"
    /\ \/ Issue(w)
       \/ /\ \E missing \in BOOLEAN :
               Answered(Nil, IF missing THEN "NotAuthorizedError" ELSE "InvalidCredentialsError")
          /\ UNCHANGED tokens
    /\ UNCHANGED <<keyFile, used, main, worker, secret, now>>

(* POST /identity/token, with grant_type and apikey in the body.           *)
GetIamAccessToken(w) ==
    /\ worker[w] = "serve"
    /\ \E grantType \in BOOLEAN, apikey \in {"known", "unknown", "missing"} :
         IF ~grantType \/ apikey = "missing"
         THEN Answered(Nil, "IAMPropertyMissingOrEmptyError") /\ UNCHANGED tokens
         ELSE IF apikey = "unknown"
         THEN Answered(Nil, "IAMAPIKeyNotFoundError") /\ UNCHANGED tokens
         ELSE Issue(w)
    /\ UNCHANGED <<keyFile, used, main, worker, secret, now>>

(* jwt.decode: the signature, then exp.                                    *)
Decodes(w, token) == token.key = secret[w] /\ token.exp * TicksPerSecond > now

(* verify_token, for each form of the Authorization header.                *)
VerifyBearer(w) ==
    /\ worker[w] = "serve"
    /\ \E token \in tokens :
         Answered(token, IF ~AuthEnabled \/ Decodes(w, token) THEN "OK"
                                                 ELSE "InvalidCredentialsError")
    /\ UNCHANGED <<keyFile, used, main, worker, secret, tokens, now>>

HeaderForms == {"absent", "no credentials", "not id:token", "shared token", "unknown"}

HeaderOutcome(form) ==
    IF ~AuthEnabled \/ form = "shared token" THEN "OK"
    ELSE IF form \in {"absent", "not id:token"} THEN "InvalidCredentialsError"
    ELSE "NotAuthorizedError"

VerifyOther(w) ==
    /\ worker[w] = "serve"
    /\ \E form \in HeaderForms : Answered(Nil, HeaderOutcome(form))
    /\ UNCHANGED <<keyFile, used, main, worker, secret, tokens, now>>

Tick ==
    /\ now < MaxTime /\ now' = now + 1
    /\ UNCHANGED <<keyFile, used, main, worker, secret, tokens, answer>>

-----------------------------------------------------------------------------
WorkerStep(w) ==
    \/ Spawn(w) \/ LoadKey(w) \/ Lose(w)
    \/ GetAccessToken(w) \/ GetIamAccessToken(w) \/ VerifyBearer(w) \/ VerifyOther(w)

Next == Start \/ OpenKeyFile \/ DumpKey \/ Stop \/ Tick \/ \E w \in Workers : WorkerStep(w)

Spec == Init /\ [][Next]_vars

-----------------------------------------------------------------------------
TypeOK ==
    /\ keyFile \in Keys \cup {Nil, Unfinished} /\ used \subseteq Keys
    /\ main \in {"down", "open", "dump", "run"}
    /\ worker \in [Workers -> {"none", "load", "serve"}]
    /\ secret \in [Workers -> Keys \cup {Nil}]
    /\ \A w \in Workers : worker[w] = "serve" <=> secret[w] # Nil
    /\ tokens \subseteq Token /\ now \in Nat
    /\ answer \in [token : Token \cup {Nil}, at : Nat, outcome : Outcomes]

(* All API processes sign and verify with one key, the one the tokens      *)
(* issued so far are signed with, however often the server was started     *)
(* again: "ensure that all workers use the same key" (app.py, 54-57).      *)
WorkersShareKey ==
    /\ \A v, w \in Workers : Nil \in {secret[v], secret[w]} \/ secret[v] = secret[w]
    /\ \A w \in Workers, token \in tokens : secret[w] \in {Nil, token.key}

(* A token is accepted at every API process until less than a second of    *)
(* its time to live is left, and never after that time: the answer depends *)
(* on the token's age, not on the process or the run of the server.        *)
AnswersFollowTtl ==
    AuthEnabled /\ answer.token # Nil =>
        LET age == answer.at - answer.token.issued
        IN IF answer.outcome = "OK" THEN age < Ttl * TicksPerSecond
                                    ELSE age > (Ttl - 1) * TicksPerSecond

(* An API process that loads the key file finds a key in it.               *)
WorkersFindKey == \A w \in Workers : worker[w] = "load" => keyFile \in Keys
=============================================================================
