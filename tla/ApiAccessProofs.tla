--------------------------- MODULE ApiAccessProofs --------------------------
(***************************************************************************)
(* What holds of the API's key and tokens for every number of API          *)
(* processes, every time to live and every resolution of the clock.        *)
(***************************************************************************)
EXTENDS ApiAccess, TLAPS

(* The key file, once it holds a key, keeps it; while it is being made     *)
(* nobody has loaded it and no token was issued.                           *)
KeyFileKept ==
    /\ main \in {"open", "dump"} => tokens = {}
    /\ main # "run" => \A w \in Workers : worker[w] = "none"
    /\ \A w \in Workers : worker[w] = "serve" => secret[w] = keyFile
    /\ \A token \in tokens : token.key = keyFile

(* What the whole seconds of an expiration say of the issuing time.        *)
ExpirationOK(token) ==
    /\ token.exp * TicksPerSecond <= token.issued + Ttl * TicksPerSecond
    /\ token.issued + Ttl * TicksPerSecond < token.exp * TicksPerSecond + TicksPerSecond

Access ==
    /\ TypeOK /\ KeyFileKept
    /\ \A token \in tokens : ExpirationOK(token)
    /\ AnswersFollowTtl

LEMMA AccessNames ==
  /\ "none" \in Outcomes /\ "OK" \in Outcomes
  /\ "NotAuthorizedError" \in Outcomes /\ "InvalidCredentialsError" \in Outcomes
  /\ "IAMPropertyMissingOrEmptyError" \in Outcomes /\ "IAMAPIKeyNotFoundError" \in Outcomes
  BY DEF Outcomes, AccessErrors, IAMErrors

LEMMA WholeSeconds ==
  ASSUME NEW a \in Nat, NEW b \in Nat \ {0}
  PROVE  a \div b \in Nat /\ (a \div b) * b <= a /\ a < (a \div b) * b + b
  OBVIOUS

LEMMA InitAccess == Init => Access
  BY KeysAssumption, AccessNames
     DEF Init, Access, TypeOK, KeyFileKept, ExpirationOK, AnswersFollowTtl

(* Starting and stopping the server; time passing.                         *)
LEMMA ServerPreserves ==
  ASSUME Access, Start \/ OpenKeyFile \/ DumpKey \/ Stop \/ Tick
  PROVE  Access'
<1>1. TypeOK'
  BY KeysAssumption, TimeAssumption
     DEF Access, TypeOK, Start, OpenKeyFile, DumpKey, Stop, Tick
<1>2. KeyFileKept'
  <2>1. CASE Start
    BY <2>1, KeysAssumption DEF Access, TypeOK, Token, KeyFileKept, Start
  <2>2. CASE OpenKeyFile \/ DumpKey
    BY <2>2 DEF Access, TypeOK, KeyFileKept, OpenKeyFile, DumpKey
  <2>3. CASE Stop \/ Tick
    BY <2>3 DEF Access, TypeOK, KeyFileKept, Stop, Tick
  <2> QED
    BY <2>1, <2>2, <2>3
<1>3. UNCHANGED <<tokens, answer>>
  BY DEF Start, OpenKeyFile, DumpKey, Stop, Tick
<1> QED
  BY <1>1, <1>2, <1>3 DEF Access, ExpirationOK, AnswersFollowTtl

(* The life of an API process.                                             *)
LEMMA ProcessPreserves ==
  ASSUME Access, NEW w \in Workers, Spawn(w) \/ LoadKey(w) \/ Lose(w)
  PROVE  Access'
<1>1. TypeOK'
  BY KeysAssumption DEF Access, TypeOK, Spawn, LoadKey, Lose
<1>2. KeyFileKept'
  BY KeysAssumption DEF Access, TypeOK, KeyFileKept, Spawn, LoadKey, Lose
<1>3. UNCHANGED <<tokens, answer>>
  BY DEF Spawn, LoadKey, Lose
<1> QED
  BY <1>1, <1>2, <1>3 DEF Access, ExpirationOK, AnswersFollowTtl

LEMMA NewTokenOK ==
  ASSUME Access, NEW k \in Keys
  PROVE  NewToken(k) \in Token /\ NewToken(k).key = k /\ ExpirationOK(NewToken(k))
<1> DEFINE end == now + Ttl * TicksPerSecond
<1>1. end \in Nat /\ TicksPerSecond \in Nat \ {0} /\ now \in Nat
  BY TimeAssumption DEF Access, TypeOK
<1>2. /\ end \div TicksPerSecond \in Nat
      /\ (end \div TicksPerSecond) * TicksPerSecond <= end
      /\ end < (end \div TicksPerSecond) * TicksPerSecond + TicksPerSecond
  BY <1>1, WholeSeconds
<1> QED
  BY <1>1, <1>2 DEF NewToken, Token, ExpirationOK

(* Requests for a token.                                                   *)
LEMMA IssuePreserves ==
  ASSUME Access, NEW w \in Workers, GetAccessToken(w) \/ GetIamAccessToken(w)
  PROVE  Access'
<1>1. worker[w] = "serve" /\ secret[w] = keyFile /\ secret[w] \in Keys
  BY DEF GetAccessToken, GetIamAccessToken, Access, TypeOK, KeyFileKept
<1>2. main = "run"
  BY <1>1 DEF Access, KeyFileKept
<1>3. PICK outcome \in Outcomes : Answered(Nil, outcome)
  BY AccessNames DEF GetAccessToken, GetIamAccessToken, Issue
<1>4. \/ UNCHANGED tokens
      \/ tokens' = tokens \cup {NewToken(secret[w])}
  BY DEF GetAccessToken, GetIamAccessToken, Issue
<1>5. UNCHANGED <<keyFile, used, main, worker, secret, now>>
  BY DEF GetAccessToken, GetIamAccessToken
<1>6. \A token \in tokens' : token \in Token /\ token.key = keyFile /\ ExpirationOK(token)
  BY <1>1, <1>4, NewTokenOK DEF Access, TypeOK, KeyFileKept
<1>7. TypeOK'
  BY <1>3, <1>5, <1>6 DEF Access, TypeOK, Answered
<1>8. KeyFileKept'
  BY <1>2, <1>5, <1>6 DEF Access, KeyFileKept
<1> QED
  BY <1>3, <1>6, <1>7, <1>8 DEF Access, ExpirationOK, AnswersFollowTtl, Answered

(* The check of a token looks at its age only, because the key is the one  *)
(* that signed it.                                                         *)
LEMMA VerifyPreserves ==
  ASSUME Access, NEW w \in Workers, VerifyBearer(w) \/ VerifyOther(w)
  PROVE  Access'
<1>1. UNCHANGED <<keyFile, used, main, worker, secret, tokens, now>>
  BY DEF VerifyBearer, VerifyOther
<1>2. KeyFileKept' /\ \A token \in tokens' : ExpirationOK(token)'
  BY <1>1 DEF Access, KeyFileKept, ExpirationOK
<1>3. CASE VerifyOther(w)
  <2>1. PICK outcome \in Outcomes : Answered(Nil, outcome)
    BY <1>3, AccessNames DEF VerifyOther, HeaderOutcome
  <2> QED
    BY <1>1, <1>2, <2>1 DEF Access, TypeOK, AnswersFollowTtl, Answered
<1>4. CASE VerifyBearer(w)
  <2>1. PICK token \in tokens :
          Answered(token, IF ~AuthEnabled \/ Decodes(w, token) THEN "OK"
                                                  ELSE "InvalidCredentialsError")
    BY <1>4 DEF VerifyBearer
  <2>2. TypeOK'
    BY <1>1, <2>1, AccessNames DEF Access, TypeOK, Answered
  <2>3. token.key = secret[w]
    BY <1>4 DEF VerifyBearer, Access, KeyFileKept
  <2> DEFINE life == Ttl * TicksPerSecond
             end == token.exp * TicksPerSecond
  <2>4. /\ token.issued \in Nat /\ now \in Nat /\ TicksPerSecond \in Nat
        /\ life \in Nat /\ end \in Nat /\ (Ttl - 1) * TicksPerSecond = life - TicksPerSecond
    BY TimeAssumption DEF Access, TypeOK, Token
  <2>5. end <= token.issued + life /\ token.issued + life < end + TicksPerSecond
    BY DEF Access, ExpirationOK
  <2>6. Decodes(w, token) <=> end > now
    BY <2>3 DEF Decodes
  <2> HIDE DEF life, end
  <2>7. /\ end > now => now - token.issued < life
        /\ ~(end > now) => now - token.issued > life - TicksPerSecond
    BY <2>4, <2>5
  <2>8. AnswersFollowTtl'
    BY <2>1, <2>4, <2>6, <2>7 DEF AnswersFollowTtl, Answered, life
  <2> QED
    BY <1>2, <2>2, <2>8 DEF Access
<1> QED
  BY <1>3, <1>4

LEMMA NextPreservesAccess == Access /\ [Next]_vars => Access'
<1> SUFFICES ASSUME Access, [Next]_vars PROVE Access'
  OBVIOUS
<1>1. CASE UNCHANGED vars
  BY <1>1 DEF vars, Access, TypeOK, KeyFileKept, ExpirationOK, AnswersFollowTtl
<1>2. CASE \E w \in Workers : WorkerStep(w)
  BY <1>2, ProcessPreserves, IssuePreserves, VerifyPreserves DEF WorkerStep
<1> QED
  BY <1>1, <1>2, ServerPreserves DEF Next

LEMMA AccessInvariant == Spec => []Access
  BY InitAccess, NextPreservesAccess, PTL DEF Spec

(* An API process has a key exactly while it serves requests, and every    *)
(* answer is one of the declared outcomes.                                 *)
THEOREM AccessTypeCorrect == Spec => []TypeOK
<1>1. Access => TypeOK
  BY DEF Access
<1> QED
  BY <1>1, AccessInvariant, PTL

(* Every API process works with the key that signed the tokens in use,     *)
(* whatever is stopped and started again: app.py makes the key once.       *)
THEOREM KeyIsShared == Spec => []WorkersShareKey
<1>1. Access => WorkersShareKey
  BY KeysAssumption DEF Access, TypeOK, KeyFileKept, WorkersShareKey
<1> QED
  BY <1>1, AccessInvariant, PTL

(* A token is accepted everywhere until less than a second of its time to  *)
(* live is left, and refused from its end on.                              *)
THEOREM TokensLiveTheirTtl == Spec => []AnswersFollowTtl
<1>1. Access => AnswersFollowTtl
  BY DEF Access
<1> QED
  BY <1>1, AccessInvariant, PTL
=============================================================================
