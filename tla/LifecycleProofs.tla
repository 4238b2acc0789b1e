-------------------------- MODULE LifecycleProofs --------------------------
(***************************************************************************)
(* What a process of cmd/api guarantees about its requests, for any number *)
(* of them, any environments and timeouts, signals and outages.            *)
(***************************************************************************)
EXTENDS Lifecycle, WellFoundedInduction, TLAPS

-----------------------------------------------------------------------------
(* Load, for every environment *)

(* No two variables have one name, and none is called like "no error". *)
LEMMA ParsedKeys ==
  /\ DOMAIN Parsed = 1..19
  /\ \A i \in 1..19 : Parsed[i].key # nil
  /\ \A i, j \in 1..19 : Parsed[i].key = Parsed[j].key => i = j
<1>1. DOMAIN Parsed = 1..19
  BY DEF Parsed
<1>2. \A i \in 1..19 : Parsed[i].key # nil
  BY DEF Parsed, nil
<1>3. \A i, j \in 1..19 : Parsed[i].key = Parsed[j].key => i = j
  BY DEF Parsed
<1> QED
  BY <1>1, <1>2, <1>3

(* The variables that are not parsed, and some of those that are. *)
LEMMA OtherKeys ==
  /\ DOMAIN Plain = {"DATABASE_URL", "JWT_SECRET_LENGTH", "LOG_LEVEL"}
  /\ DOMAIN Lists = {"TRUSTED_PROXIES", "CORS_ALLOWED_ORIGINS"}
  /\ \A k \in {"DATABASE_URL", "JWT_SECRET_LENGTH", "LOG_LEVEL",
             "TRUSTED_PROXIES", "CORS_ALLOWED_ORIGINS"} : k \notin ParsedKey
<1>1. DOMAIN Plain = {"DATABASE_URL", "JWT_SECRET_LENGTH", "LOG_LEVEL"}
  BY DEF Plain
<1>2. DOMAIN Lists = {"TRUSTED_PROXIES", "CORS_ALLOWED_ORIGINS"}
  BY DEF Lists
<1>3. \A k \in {"DATABASE_URL", "JWT_SECRET_LENGTH", "LOG_LEVEL",
             "TRUSTED_PROXIES", "CORS_ALLOWED_ORIGINS"} : k \notin ParsedKey
  BY DEF Parsed, ParsedKey
<1> QED
  BY <1>1, <1>2, <1>3

LEMMA NamedKeys ==
  /\ Parsed[1].key = "SERVER_PORT" /\ Parsed[1].default = 8080
  /\ Parsed[4].key = "SERVER_WRITE_TIMEOUT" /\ Parsed[4].default = 30
  /\ Parsed[6].key = "SERVER_SHUTDOWN_TIMEOUT" /\ Parsed[6].default = 10
  /\ Parsed[7].key = "DATABASE_MAX_CONNS" /\ Parsed[7].default = 25
  /\ Parsed[8].key = "DATABASE_MIN_CONNS" /\ Parsed[8].default = 2
  BY DEF Parsed

LEMMA CredentialsKey ==
  Parsed[17].key = "CORS_ALLOW_CREDENTIALS" /\ Parsed[17].default = TRUE
  BY DEF Parsed

(* The first of the malformed variables is one of them. *)
LEMMA MinIsIn ==
  ASSUME NEW S \in SUBSET Nat, S # {}
  PROVE  Min(S) \in S
<1> DEFINE Less == {ss \in Nat \X Nat : ss[1] < ss[2]}
<1>1. IsWellFoundedOn(Less, Nat)
  BY NatLessThanWellFounded, Zenon DEF OpToRel
<1> HIDE DEF Less
<1>2. PICK x \in S : \A y \in S : <<y, x>> \notin Less
  BY <1>1, WFMin, Zenon
<1>3. ASSUME NEW y \in S PROVE x <= y
  <2>1. ~ (y < x)
    BY <1>2, Zenon DEF Less
  <2> QED
    BY <2>1
<1> QED
  BY <1>3 DEF Min

(* int32() keeps the numbers it can hold. *)
LEMMA Int32Fits ==
  ASSUME NEW n \in (-MaxInt32 - 1)..MaxInt32
  PROVE  Int32(n) = n
<1> DEFINE half == MaxInt32 + 1
<1>1. half \in Nat /\ n + half \in 0..(2 * half - 1) /\ half > 0
  BY Int32Assumption
<1>2. (n + half) % (2 * half) = n + half
  BY <1>1
<1> QED
  BY <1>2, Int32Assumption DEF Int32

(* Whichever error comes first, there is one if any variable is malformed. *)
LEMMA ParseErrors ==
  ASSUME NEW e, NEW n \in 0..19
  PROVE  ParserErr(e, n) = nil <=> \A i \in 1..n : e[Parsed[i].key] # Malformed
<1> DEFINE bad == {i \in 1..n : e[Parsed[i].key] = Malformed}
<1>1. CASE bad = {}
  BY <1>1 DEF ParserErr
<1>2. CASE bad # {}
  <2>1. Min(bad) \in bad
    BY <1>2, MinIsIn
  <2>2. Min(bad) \in 1..19
    BY <2>1
  <2>3. Parsed[Min(bad)].key # nil
    BY <2>2, ParsedKeys, Zenon
  <2> QED
    BY <1>2, <2>1, <2>3 DEF ParserErr
<1> QED
  BY <1>1, <1>2

(* The number of a variable, which Fields looks up. *)
LEMMA NumberOf ==
  ASSUME NEW j \in 1..19
  PROVE  (CHOOSE i \in DOMAIN Parsed : Parsed[i].key = Parsed[j].key) = j
  BY ParsedKeys

(* What Load reads when nothing is malformed. *)
LEMMA FieldsExact ==
  ASSUME NEW e \in Envs, \A k \in EnvKey : e[k] # Malformed, NEW j \in 1..19
  PROVE  LET k == Parsed[j].key
             v == IF e[k] = Unset THEN Parsed[j].default ELSE e[k].value
         IN  Fields(e)[k] = IF k \in {"DATABASE_MAX_CONNS", "DATABASE_MIN_CONNS"}
                              THEN Int32(v) ELSE v
<1> DEFINE k == Parsed[j].key
           v == IF e[k] = Unset THEN Parsed[j].default ELSE e[k].value
<1>1. k \in ParsedKey /\ k \in EnvKey
  BY ParsedKeys DEF ParsedKey, EnvKey
<1>2. ParserErr(e, j - 1) = nil
  <2>1. \A i \in 1..(j - 1) : Parsed[i].key \in EnvKey
    BY ParsedKeys DEF ParsedKey, EnvKey
  <2> QED
    BY <2>1, ParseErrors
<1>3. envParser(e, j) = v
  <2>1. IsEnv(e)
    BY LifecycleAssumption
  <2>2. e[k] = Unset \/ e[k] = Given(e[k].value)
    BY <1>1, <2>1 DEF IsEnv
  <2>3. envParser(e, j) = getEnvAsOrError(e[k], Parsed[j].default)
    BY <1>2, Zenon DEF envParser
  <2>4. e[k].kind = "given" <=> e[k] # Unset
    BY <2>2 DEF Unset, Given
  <2> QED
    BY <2>3, <2>4, Zenon DEF getEnvAsOrError
<1>4. ParsedField(e, k) = IF k \in {"DATABASE_MAX_CONNS", "DATABASE_MIN_CONNS"}
                            THEN Int32(v) ELSE v
  <2> DEFINE n == CHOOSE i \in DOMAIN Parsed : Parsed[i].key = k
  <2>1. n = j
    BY NumberOf
  <2>2. ParsedField(e, k) = IF k \in {"DATABASE_MAX_CONNS", "DATABASE_MIN_CONNS"}
                              THEN Int32(envParser(e, n)) ELSE envParser(e, n)
    BY Zenon DEF ParsedField
  <2> HIDE DEF n
  <2> QED
    BY <1>3, <2>1, <2>2
<1>5. k \notin DOMAIN Plain /\ k \notin {"TRUSTED_PROXIES", "CORS_ALLOWED_ORIGINS"}
  BY <1>1, OtherKeys
<1>6. Fields(e)[k] = ParsedField(e, k)
  BY <1>1, <1>5, Zenon DEF Fields
<1> QED
  BY <1>4, <1>6, Zenon

(* The other fields. *)
LEMMA OthersExact ==
  ASSUME NEW e \in Envs
  PROVE  /\ Fields(e).DATABASE_URL = getEnv(e.DATABASE_URL, Blank)
         /\ Fields(e).JWT_SECRET_LENGTH = getEnv(e.JWT_SECRET_LENGTH, 0)
         /\ Fields(e).CORS_ALLOWED_ORIGINS = getCommaSeparatedEnv(e.CORS_ALLOWED_ORIGINS, {})
<1>1. Fields(e).DATABASE_URL = getEnv(e.DATABASE_URL, Plain.DATABASE_URL)
  BY OtherKeys, Zenon DEF Fields, EnvKey
<1>2. Fields(e).JWT_SECRET_LENGTH = getEnv(e.JWT_SECRET_LENGTH, Plain.JWT_SECRET_LENGTH)
  BY OtherKeys, Zenon DEF Fields, EnvKey
<1>3. Fields(e).CORS_ALLOWED_ORIGINS = getCommaSeparatedEnv(e.CORS_ALLOWED_ORIGINS, {})
  BY OtherKeys DEF Fields, EnvKey
<1> QED
  BY <1>1, <1>2, <1>3 DEF Plain

(* What Validate makes of an environment in which nothing is malformed. *)
LEMMA ValidateExact ==
  ASSUME NEW e \in Envs, \A k \in EnvKey : e[k] # Malformed
  PROVE  Validate(Fields(e)) = nil <=> Sound(e)
<1> DEFINE c == Fields(e)
<1>1. \A k \in EnvKey :
        e[k] = Unset \/ (e[k] = Given(e[k].value) /\ e[k].value \in Value(k))
  BY LifecycleAssumption DEF IsEnv
<1>2. {"DATABASE_URL", "JWT_SECRET_LENGTH", "SERVER_PORT", "CORS_ALLOWED_ORIGINS",
       "CORS_ALLOW_CREDENTIALS"} \subseteq EnvKey
  BY ParsedKeys, OtherKeys, NamedKeys, CredentialsKey DEF EnvKey, ParsedKey
<1>3. c.DATABASE_URL = Blank <=> e.DATABASE_URL = Unset
  <2>1. Value("DATABASE_URL") = STRING \ {Blank}
    BY OtherKeys DEF Value
  <2> QED
    BY <1>1, <1>2, <2>1, OthersExact, Zenon DEF getEnv
<1>4. /\ c.JWT_SECRET_LENGTH = 0 <=> e.JWT_SECRET_LENGTH = Unset
      /\ e.JWT_SECRET_LENGTH # Unset => c.JWT_SECRET_LENGTH = e.JWT_SECRET_LENGTH.value
      /\ c.JWT_SECRET_LENGTH \in Nat
  <2>1. Value("JWT_SECRET_LENGTH") = Nat \ {0}
    BY OtherKeys DEF Value
  <2> QED
    BY <1>1, <1>2, <2>1, OthersExact DEF getEnv
<1>5. c.SERVER_PORT = IF e.SERVER_PORT = Unset THEN 8080 ELSE e.SERVER_PORT.value
  BY FieldsExact, NamedKeys
<1>6. c.CORS_ALLOW_CREDENTIALS =
        IF e.CORS_ALLOW_CREDENTIALS = Unset THEN TRUE ELSE e.CORS_ALLOW_CREDENTIALS.value
  <2>1. 17 \in 1..19
    OBVIOUS
  <2>2. "CORS_ALLOW_CREDENTIALS" \notin {"DATABASE_MAX_CONNS", "DATABASE_MIN_CONNS"}
    OBVIOUS
  <2> QED
    BY <2>1, <2>2, FieldsExact, CredentialsKey, Zenon
<1>7. c.CORS_ALLOW_CREDENTIALS <=> e.CORS_ALLOW_CREDENTIALS # Given(FALSE)
  <2>1. Value("CORS_ALLOW_CREDENTIALS") = BOOLEAN
    BY OtherKeys DEF Value
  <2>2. Unset # Given(FALSE) /\ Given(TRUE) # Given(FALSE)
    BY DEF Unset, Given
  <2> QED
    BY <1>1, <1>2, <1>6, <2>1, <2>2, Zenon
<1>8. "*" \in c.CORS_ALLOWED_ORIGINS <=>
        e.CORS_ALLOWED_ORIGINS # Unset /\ "*" \in e.CORS_ALLOWED_ORIGINS.value
  <2>1. "*" # Blank
    BY Zenon DEF Blank
  <2> QED
    BY <2>1, OthersExact DEF getCommaSeparatedEnv, getEnv
<1> HIDE DEF c
<1>9. /\ (c.SERVER_PORT \in 1..MaxPort) <=>
           (e.SERVER_PORT # Unset => e.SERVER_PORT.value \in 1..MaxPort)
      /\ (c.JWT_SECRET_LENGTH # 0 /\ ~ (c.JWT_SECRET_LENGTH < 32)) <=>
           (e.JWT_SECRET_LENGTH # Unset /\ e.JWT_SECRET_LENGTH.value >= 32)
  <2>1. 8080 \in 1..MaxPort
    BY DEF MaxPort
  <2>2. ASSUME e.JWT_SECRET_LENGTH # Unset
        PROVE  (c.JWT_SECRET_LENGTH # 0 /\ ~ (c.JWT_SECRET_LENGTH < 32)) <=>
                 (e.JWT_SECRET_LENGTH.value >= 32)
    BY <1>4, <2>2
  <2> QED
    BY <1>4, <1>5, <2>1, <2>2
<1> DEFINE A == c.DATABASE_URL = Blank
           B == c.JWT_SECRET_LENGTH = 0
           C == c.JWT_SECRET_LENGTH < 32
           D == c.SERVER_PORT \notin 1..MaxPort
           E == c.CORS_ALLOW_CREDENTIALS /\ "*" \in c.CORS_ALLOWED_ORIGINS
<1>10. Sound(e) <=> ~A /\ ~B /\ ~C /\ ~D /\ ~E
  BY <1>3, <1>7, <1>8, <1>9, Zenon DEF Sound
<1>11. Validate(c) = IF A THEN "DATABASE_URL is required"
                     ELSE IF B THEN "JWT_SECRET_KEY is required"
                     ELSE IF C THEN "JWT_SECRET_KEY is too short"
                     ELSE IF D THEN "invalid SERVER_PORT"
                     ELSE IF E THEN "wildcard origin with credentials"
                     ELSE nil
  BY Zenon DEF Validate
<1> HIDE DEF A, B, C, D, E
<1>12. Validate(c) = nil <=> ~A /\ ~B /\ ~C /\ ~D /\ ~E
  BY <1>11 DEF nil
<1> QED
  BY <1>10, <1>12 DEF c

(* Load accepts the sound environments, and no other. *)
LEMMA LoadCorrect ==
  ASSUME NEW e \in Envs
  PROVE  /\ (Load(e).err = nil) <=> Sound(e)
         /\ Load(e).err = nil => Load(e).cfg = Fields(e)
<1>1. ParserErr(e, 19) = nil <=> \A k \in EnvKey : e[k] # Malformed
  <2>1. \A k \in EnvKey : e[k] = Malformed => k \in ParsedKey
    <3>1. Unset # Malformed /\ \A v : Given(v) # Malformed
      BY DEF Unset, Malformed, Given
    <3> QED
      BY <3>1, LifecycleAssumption DEF IsEnv
  <2>2. ParsedKey = {Parsed[i].key : i \in 1..19} /\ ParsedKey \subseteq EnvKey
    BY ParsedKeys DEF ParsedKey, EnvKey
  <2> QED
    BY <2>1, <2>2, ParseErrors
<1>2. Len(Parsed) = 19
  BY DEF Parsed
<1>3. CASE ParserErr(e, 19) # nil
  <2>1. Load(e) = [err |-> ParserErr(e, 19)]
    BY <1>2, <1>3, Zenon DEF Load
  <2>2. ~Sound(e)
    BY <1>1, <1>3, Zenon DEF Sound
  <2> QED
    BY <1>3, <2>1, <2>2
<1>4. CASE ParserErr(e, 19) = nil
  <2>1. Validate(Fields(e)) = nil <=> Sound(e)
    BY <1>1, <1>4, ValidateExact
  <2>2. Load(e) = IF Validate(Fields(e)) # nil THEN [err |-> Validate(Fields(e))]
                  ELSE [err |-> nil, cfg |-> Fields(e)]
    BY <1>2, <1>4, Zenon DEF Load
  <2> QED
    BY <2>1, <2>2
<1> QED
  BY <1>3, <1>4

(* A time.Duration is an integer, whatever Load accepts. *)
LEMMA ShutdownTimeoutInt ==
  ASSUME NEW e \in Envs, Load(e).err = nil
  PROVE  Load(e).cfg.SERVER_SHUTDOWN_TIMEOUT \in Int
<1> DEFINE raw == e.SERVER_SHUTDOWN_TIMEOUT
<1>1. \A k \in EnvKey : e[k] # Malformed
  BY LoadCorrect DEF Sound
<1>2. "SERVER_SHUTDOWN_TIMEOUT" \in EnvKey
  BY ParsedKeys, NamedKeys DEF EnvKey, ParsedKey
<1>3. Value("SERVER_SHUTDOWN_TIMEOUT") = Int
  BY OtherKeys DEF Value
<1>4. raw # Unset => raw.value \in Int
  BY <1>1, <1>2, <1>3, LifecycleAssumption DEF IsEnv
<1>5. Fields(e).SERVER_SHUTDOWN_TIMEOUT = IF raw = Unset THEN 10 ELSE raw.value
  BY <1>1, FieldsExact, NamedKeys
<1> QED
  BY <1>4, <1>5, LoadCorrect

LEMMA WriteTimeoutInt ==
  ASSUME NEW e \in Envs, Load(e).err = nil
  PROVE  Load(e).cfg.SERVER_WRITE_TIMEOUT \in Int
<1> DEFINE raw == e.SERVER_WRITE_TIMEOUT
<1>1. \A k \in EnvKey : e[k] # Malformed
  BY LoadCorrect DEF Sound
<1>2. "SERVER_WRITE_TIMEOUT" \in EnvKey
  BY ParsedKeys, NamedKeys DEF EnvKey, ParsedKey
<1>3. Value("SERVER_WRITE_TIMEOUT") = Int
  BY OtherKeys DEF Value
<1>4. raw # Unset => raw.value \in Int
  BY <1>1, <1>2, <1>3, LifecycleAssumption DEF IsEnv
<1>5. Fields(e).SERVER_WRITE_TIMEOUT = IF raw = Unset THEN 30 ELSE raw.value
  BY <1>1, FieldsExact, NamedKeys
<1> QED
  BY <1>4, <1>5, LoadCorrect

-----------------------------------------------------------------------------
(* The inductive invariant *)

Starting == {"load", "logger", "tracing", "connect", "roles", "listen"}
WithPool == {"roles", "listen", "serve", "stopMetrics", "stopApi"}
Ending == {"closePool", "stopTracer", "exited"}

(* What run() has set up, and not yet taken down, at each stage. *)
StageInv ==
    /\ stage \in Starting => api = "none"
    /\ stage \in WithPool => pool = "open"
    /\ stage \in {"serve", "stopMetrics"} => api \in {"starting", "up", "failed"}
    /\ stage = "stopApi" => api = "closed"
    /\ stage \in Ending => api \in {"none", "failed", "closed"}
    /\ result # NULL => stage \in Ending
    /\ exit = "0" => result = "0"

(* The configuration is what Load made of the environment, and Load has    *)
(* succeeded wherever it is used.                                          *)
ConfigInv ==
    /\ config # NULL => config = Load(env)
    /\ stage \notin {"load", "exited"} => config = Load(env) /\ Load(env).err = nil

(* The deadline runs from the signal on; the API's listener sees some of it *)
(* pass only while a scrape holds up the metrics server.                    *)
GraceInv ==
    /\ stage \in Starting \cup {"serve"} => grace = NULL
    /\ stage \in {"stopMetrics", "stopApi"} => grace # NULL
    /\ stage \in Ending /\ api = "failed" => grace = NULL /\ result = "1"
    /\ stage = "stopMetrics" =>
         /\ metrics = "closed"
         /\ scrape = "open" => scrapedAtSignal
         /\ grace = config.cfg.SERVER_SHUTDOWN_TIMEOUT \/ scrapedAtSignal

(* Requests come in through an open listener, and at the end are open only *)
(* if it failed.  An open request of the API is within its timeout, so     *)
(* that its answer is lost only if the write timeout is no longer.         *)
RequestInv(r) ==
    /\ api \in {"none", "starting"} => requests[r].http = "none" /\ ~requests[r].late
    /\ stage \in Ending /\ requests[r].http = "open" => api = "failed"
    /\ requests[r].http = "open" /\ r \in ApiRequest => requests[r].age <= RequestTimeout
    /\ requests[r].http = "lost" => MayBeLost(r)
    /\ requests[r].http = "cut" =>
         /\ result = "1"
         /\ IF grace = NULL THEN api = "failed" /\ exit = "1" ELSE Expired
    /\ requests[r].late => grace # NULL /\ scrapedAtSignal

(* LifecycleTypeOK in the parts that different steps disturb. *)
ProcessOK ==
    /\ env \in Envs
    /\ stage \in Stage /\ exit \in {NULL, "0", "1", "killed"}
    /\ {api, metrics} \subseteq {"none", "starting", "up", "failed", "closed"}
    /\ sent \in 0..MaxSignals /\ mailbox \in 0..1
    /\ grace # NULL => grace \in Int
    /\ result \in {NULL, "0", "1"}
    /\ pool \in {"none", "open", "closing", "closed"}
    /\ scrape \in {"none", "open", "done"}
    /\ database \in {"up", "refuses", "hangs"} /\ outages \in 0..MaxOutages

RequestsOK ==
    requests \in [Request -> [http : {"none", "open", "answered", "lost", "cut"},
                              db : {"none", "waiting", "held", "done"},
                              age : Nat, late : BOOLEAN]]

LifeInv ==
    /\ ProcessOK /\ RequestsOK /\ scrapedAtSignal \in BOOLEAN
    /\ StageInv
    /\ ConfigInv
    /\ GraceInv
    /\ \A r \in Request : RequestInv(r)

-----------------------------------------------------------------------------
(* The initial states. *)
LEMMA LifeInitInv == LifecycleInit => LifeInv
<1> SUFFICES ASSUME LifecycleInit PROVE LifeInv
  OBVIOUS
<1>1. ProcessOK
  BY LifecycleAssumption DEF LifecycleInit, ProcessOK, Stage
<1>2. RequestsOK
  BY LifecycleAssumption DEF LifecycleInit, RequestsOK, NoRequest
<1>3. scrapedAtSignal \in BOOLEAN
  BY DEF LifecycleInit
<1>4. StageInv /\ ConfigInv /\ GraceInv
  BY LifecycleAssumption DEF LifecycleInit, StageInv, ConfigInv, GraceInv, Starting,
     WithPool,
     Ending
<1>5. \A r \in Request : RequestInv(r)
  BY LifecycleAssumption DEF LifecycleInit, RequestInv, NoRequest, Ending
<1> QED
  BY <1>1, <1>2, <1>3, <1>4, <1>5 DEF LifeInv

(* The way up: nothing is served yet. *)
LEMMA StartsInv ==
  ASSUME LifeInv,
         \/ LoadConfig \/ NewLogger \/ SetupTracing
         \/ Connect \/ InitRoles \/ Listen
  PROVE  LifeInv'
<1> USE LifecycleAssumption DEF LifeInv, process, servers, others, GoTo, Fail
<1>1. ProcessOK'
  <2>1. /\ env' \in Envs /\ stage' \in Stage /\ exit' \in {NULL, "0", "1", "killed"}
        /\ result' \in {NULL, "0", "1"}
        /\ api' \in {"none", "starting", "up", "failed", "closed"}
        /\ metrics' \in {"none", "starting", "up", "failed", "closed"}
    BY DEF LoadConfig, NewLogger, SetupTracing, Connect, InitRoles, Listen, ProcessOK, Stage
  <2>2. /\ sent' \in 0..MaxSignals /\ mailbox' \in 0..1 /\ outages' \in 0..MaxOutages
        /\ pool' \in {"none", "open", "closing", "closed"}
        /\ scrape' \in {"none", "open", "done"}
        /\ database' \in {"up", "refuses", "hangs"}
    BY DEF LoadConfig, NewLogger, SetupTracing, Connect, InitRoles, Listen, ProcessOK
  <2>3. grace' # NULL => grace' \in Int
    BY ShutdownTimeoutInt DEF LoadConfig, NewLogger, SetupTracing, Connect, InitRoles,
       Listen, ProcessOK, ConfigInv
  <2> QED
    BY <2>1, <2>2, <2>3 DEF ProcessOK
<1>2. RequestsOK'
  BY DEF LoadConfig, NewLogger, SetupTracing, Connect, InitRoles, Listen, RequestsOK, Cut
<1>3. scrapedAtSignal' \in BOOLEAN
  BY DEF LoadConfig, NewLogger, SetupTracing, Connect, InitRoles, Listen
<1>4. StageInv'
  BY DEF LoadConfig, NewLogger, SetupTracing, Connect, InitRoles, Listen, StageInv,
     ProcessOK, Starting, WithPool, Ending
<1>5. ConfigInv'
  BY DEF LoadConfig, NewLogger, SetupTracing, Connect, InitRoles, Listen, ConfigInv
<1>6. GraceInv'
  BY DEF LoadConfig, NewLogger, SetupTracing, Connect, InitRoles, Listen, StageInv,
     ConfigInv, GraceInv, ProcessOK, Starting
<1>7. ASSUME NEW r \in Request PROVE RequestInv(r)'
  BY <1>7 DEF LoadConfig, NewLogger, SetupTracing, Connect, InitRoles, Listen, StageInv,
     GraceInv, RequestInv, RequestsOK, Cut, Open, Ending, Starting,
     Expired, ApiStopped, MayBeLost, WriteTimeout
<1> QED
  BY <1>1, <1>2, <1>3, <1>4, <1>5, <1>6, <1>7

(* The way down. *)
LEMMA StopsInv ==
  ASSUME LifeInv,
         \/ TakeServerError \/ TakeSignal \/ StopMetrics
         \/ StopApi \/ ClosePool \/ Exit
  PROVE  LifeInv'
<1> USE LifecycleAssumption DEF LifeInv, process, servers, others, GoTo, Fail
<1>1. ProcessOK'
  <2>1. /\ env' \in Envs /\ stage' \in Stage /\ exit' \in {NULL, "0", "1", "killed"}
        /\ result' \in {NULL, "0", "1"}
        /\ api' \in {"none", "starting", "up", "failed", "closed"}
        /\ metrics' \in {"none", "starting", "up", "failed", "closed"}
    BY DEF TakeServerError, TakeSignal, StopMetrics, StopApi, ClosePool, Exit,
       ProcessOK, Stage
  <2>2. /\ sent' \in 0..MaxSignals /\ mailbox' \in 0..1 /\ outages' \in 0..MaxOutages
        /\ pool' \in {"none", "open", "closing", "closed"}
        /\ scrape' \in {"none", "open", "done"}
        /\ database' \in {"up", "refuses", "hangs"}
    BY DEF TakeServerError, TakeSignal, StopMetrics, StopApi, ClosePool, Exit, ProcessOK
  <2>3. grace' # NULL => grace' \in Int
    BY ShutdownTimeoutInt DEF TakeServerError, TakeSignal, StopMetrics, StopApi,
       ClosePool, Exit, ProcessOK, ConfigInv
  <2> QED
    BY <2>1, <2>2, <2>3 DEF ProcessOK
<1>2. RequestsOK'
  <2>1. requests' = requests \/ requests' = Cut(Open)
    BY DEF TakeServerError, TakeSignal, StopMetrics, StopApi, ClosePool, Exit
  <2>2. ASSUME NEW r \in Request
        PROVE  [requests[r] EXCEPT !.http = "cut", !.age = 0] \in
                 [http : {"none", "open", "answered", "lost", "cut"},
                  db : {"none", "waiting", "held", "done"}, age : Nat, late : BOOLEAN]
    BY <2>2 DEF RequestsOK
  <2>3. Cut(Open) \in [Request -> [http : {"none", "open", "answered", "lost", "cut"},
                                  db : {"none", "waiting", "held", "done"},
                                  age : Nat, late : BOOLEAN]]
    <3> DEFINE R == [http : {"none", "open", "answered", "lost", "cut"},
                     db : {"none", "waiting", "held", "done"}, age : Nat, late : BOOLEAN]
    <3>1. \A r \in Request : requests[r] \in R /\ [requests[r] EXCEPT !.http = "cut", !.age = 0] \in R
      BY <2>2 DEF RequestsOK
    <3> HIDE DEF R
    <3>2. Cut(Open) \in [Request -> R]
      BY <3>1, Zenon DEF Cut
    <3> QED
      BY <3>2 DEF R
  <2> QED
    BY <2>1, <2>3 DEF RequestsOK
<1>3. scrapedAtSignal' \in BOOLEAN
  BY DEF TakeServerError, TakeSignal, StopMetrics, StopApi, ClosePool, Exit
<1>4. StageInv'
  BY DEF TakeServerError, TakeSignal, StopMetrics, StopApi, ClosePool, Exit, StageInv,
     ProcessOK, Starting, WithPool, Ending
<1>5. ConfigInv'
  BY DEF TakeServerError, TakeSignal, StopMetrics, StopApi, ClosePool, Exit, ConfigInv
<1>6. GraceInv'
  BY ShutdownTimeoutInt DEF TakeServerError, TakeSignal, StopMetrics, StopApi,
     ClosePool, Exit, StageInv, ConfigInv, GraceInv, ProcessOK, Starting, Ending
<1>7. ASSUME NEW r \in Request PROVE RequestInv(r)'
  <2> USE DEF MayBeLost, WriteTimeout, Expired
  <2>1. CASE TakeServerError
    BY <1>7, <2>1 DEF TakeServerError, RequestInv, GraceInv, StageInv
  <2>2. CASE TakeSignal
    BY <1>7, <2>2 DEF TakeSignal, RequestInv, GraceInv, StageInv, ProcessOK, Starting, Ending
  <2>3. CASE StopMetrics
    BY <1>7, <2>3 DEF StopMetrics, RequestInv, GraceInv, StageInv, Ending
  <2>4. CASE ClosePool
    BY <1>7, <2>4 DEF ClosePool, RequestInv, Ending
  <2>5. ASSUME requests' = Cut(Open)
        PROVE  /\ requests'[r].late = requests[r].late
               /\ requests[r].http = "open" => requests'[r].http = "cut"
               /\ requests[r].http # "open" => requests'[r] = requests[r]
    BY <1>7, <2>5 DEF Cut, Open, RequestsOK
  <2>6. CASE StopApi
    <3>1. r \in Open => Expired
      BY <2>6 DEF StopApi, ApiStopped
    <3>2. requests[r].http # "cut"
      BY <1>7, <2>6 DEF StopApi, RequestInv, StageInv, Ending
    <3> QED
      BY <1>7, <2>5, <2>6, <3>1, <3>2 DEF StopApi, RequestInv, StageInv, GraceInv, Open, Ending
  <2>7. CASE Exit
    <3>1. stage \in Ending /\ stage' \in Ending
      BY <2>7 DEF Exit, Ending
    <3>2. requests[r].http = "open" => api = "failed" /\ grace = NULL /\ result = "1"
      BY <1>7, <3>1 DEF RequestInv, GraceInv
    <3> QED
      BY <1>7, <2>5, <2>7, <3>1, <3>2 DEF Exit, RequestInv
  <2> QED
    BY <2>1, <2>2, <2>3, <2>4, <2>6, <2>7
<1> QED
  BY <1>1, <1>2, <1>3, <1>4, <1>5, <1>6, <1>7

(* Listeners, signals, scrapes and the database. *)
LEMMA SurroundingsInv ==
  ASSUME LifeInv,
         \/ ApiListens \/ ApiFails \/ MetricsListens \/ Signal
         \/ ScrapeStarts \/ ScrapeEnds \/ DatabaseChanges
  PROVE  LifeInv'
<1> USE LifecycleAssumption DEF LifeInv, process, servers, others, GoTo, Fail
<1>1. ProcessOK'
  <2>1. /\ env' \in Envs /\ stage' \in Stage /\ exit' \in {NULL, "0", "1", "killed"}
        /\ result' \in {NULL, "0", "1"}
        /\ api' \in {"none", "starting", "up", "failed", "closed"}
        /\ metrics' \in {"none", "starting", "up", "failed", "closed"}
    BY DEF ApiListens, ApiFails, MetricsListens, Signal, ScrapeStarts, ScrapeEnds,
       DatabaseChanges, ProcessOK, Stage
  <2>2. /\ sent' \in 0..MaxSignals /\ mailbox' \in 0..1 /\ outages' \in 0..MaxOutages
        /\ pool' \in {"none", "open", "closing", "closed"}
        /\ scrape' \in {"none", "open", "done"}
        /\ database' \in {"up", "refuses", "hangs"}
    BY DEF ApiListens, ApiFails, MetricsListens, Signal, ScrapeStarts, ScrapeEnds,
       DatabaseChanges, ProcessOK
  <2>3. grace' # NULL => grace' \in Int
    BY ShutdownTimeoutInt DEF ApiListens, ApiFails, MetricsListens, Signal, ScrapeStarts,
       ScrapeEnds, DatabaseChanges, ProcessOK, ConfigInv
  <2> QED
    BY <2>1, <2>2, <2>3 DEF ProcessOK
<1>2. RequestsOK'
  BY DEF ApiListens, ApiFails, MetricsListens, Signal, ScrapeStarts, ScrapeEnds, DatabaseChanges,
     RequestsOK, Cut
<1>3. scrapedAtSignal' \in BOOLEAN
  BY DEF ApiListens, ApiFails, MetricsListens, Signal, ScrapeStarts, ScrapeEnds, DatabaseChanges
<1>4. StageInv'
  BY DEF ApiListens, ApiFails, MetricsListens, Signal, ScrapeStarts, ScrapeEnds, DatabaseChanges,
     StageInv, ProcessOK, Starting, WithPool, Ending
<1>5. ConfigInv'
  BY DEF ApiListens, ApiFails, MetricsListens, Signal, ScrapeStarts, ScrapeEnds, DatabaseChanges,
     ConfigInv
<1>6. GraceInv'
  BY DEF ApiListens, ApiFails, MetricsListens, Signal, ScrapeStarts, ScrapeEnds, DatabaseChanges,
     StageInv, ConfigInv, GraceInv, ProcessOK, Starting
<1>7. ASSUME NEW r \in Request PROVE RequestInv(r)'
  BY <1>7 DEF ApiListens, ApiFails, MetricsListens, Signal, ScrapeStarts, ScrapeEnds,
     DatabaseChanges, StageInv, GraceInv, RequestInv, RequestsOK, Cut, Open, Ending,
     Starting,
     Expired, ApiStopped, MayBeLost, WriteTimeout
<1> QED
  BY <1>1, <1>2, <1>3, <1>4, <1>5, <1>6, <1>7

(* A request comes in: late only if a scrape has kept the listener open. *)
LEMMA AcceptInv ==
  ASSUME LifeInv, NEW q \in Request, Accept(q)
  PROVE  LifeInv'
<1> USE LifecycleAssumption DEF LifeInv
<1>1. /\ api \in {"up", "failed"} /\ stage # "exited"
      /\ requests' = [requests EXCEPT ![q] = [http |-> "open", db |-> "waiting",
                                              age |-> 0, late |-> Late]]
      /\ UNCHANGED <<env, config, stage, exit, result, api, metrics, sent, mailbox, grace,
                     scrapedAtSignal, pool, scrape, database, outages>>
  BY DEF Accept, Alone, process, servers
<1>2. Late \in BOOLEAN
  BY DEF Late
<1>3. ProcessOK' /\ scrapedAtSignal' \in BOOLEAN
  BY <1>1 DEF ProcessOK
<1>4. RequestsOK'
  BY <1>1, <1>2 DEF RequestsOK
<1>5. StageInv' /\ ConfigInv' /\ GraceInv'
  BY <1>1 DEF StageInv, ConfigInv, GraceInv
<1>6. Late => grace # NULL /\ scrapedAtSignal
  <2>1. SUFFICES ASSUME Late PROVE scrapedAtSignal
    BY DEF Late
  <2>2. stage = "stopMetrics"
    BY <1>1, <2>1 DEF Late, StageInv, GraceInv, ProcessOK, Stage, Starting, Ending
  <2>3. config.cfg.SERVER_SHUTDOWN_TIMEOUT \in Int
    BY <2>2, ShutdownTimeoutInt DEF ConfigInv, ProcessOK
  <2>4. grace # config.cfg.SERVER_SHUTDOWN_TIMEOUT
    BY <2>1, <2>3 DEF Late
  <2> QED
    BY <2>2, <2>4 DEF GraceInv
<1>7. ASSUME NEW r \in Request PROVE RequestInv(r)'
  <2>1. CASE r = q
    <3>1. requests'[q].http = "open" /\ requests'[q].late = Late /\ requests'[q].age = 0
      BY <1>1 DEF RequestsOK
    <3>2. stage \in Ending => api = "failed"
      BY <1>1 DEF StageInv
    <3> QED
      BY <1>1, <1>6, <2>1, <3>1, <3>2 DEF RequestInv
  <2>2. CASE r # q
    BY <1>1, <1>7, <2>2 DEF RequestInv, RequestsOK, Expired, MayBeLost, WriteTimeout
  <2> QED
    BY <2>1, <2>2
<1> QED
  BY <1>3, <1>4, <1>5, <1>7

(* A request waits for a connection, uses it and is answered, in time or    *)
(* too late.                                                                *)
LEMMA RequestStepInv ==
  ASSUME LifeInv, NEW q \in Request, RequestStep(q)
  PROVE  LifeInv'
<1> USE LifecycleAssumption DEF LifeInv
<1>1. /\ stage # "exited"
      /\ requests[q].db \in {"waiting", "held"}
      /\ \/ Become(q, requests[q].http, "held")
         \/ Become(q, Answered(q), "done")
      /\ UNCHANGED <<env, config, stage, exit, result, api, metrics, sent, mailbox, grace,
                     scrapedAtSignal, pool, scrape, database, outages>>
  BY DEF RequestStep, Acquire, GiveUp, Finish, Alone, process, servers
<1>2. ProcessOK' /\ scrapedAtSignal' \in BOOLEAN
  BY <1>1 DEF ProcessOK
<1>3. /\ requests[q].http \in {"none", "open", "answered", "lost", "cut"}
      /\ Answered(q) \in {"none", "open", "answered", "lost", "cut"}
  BY DEF RequestsOK, Answered
<1>4. PICK h \in {"none", "open", "answered", "lost", "cut"}, db \in {"held", "done"} :
        /\ Become(q, h, db)
        /\ h = requests[q].http \/ h = Answered(q)
  BY <1>1, <1>3
<1>5. RequestsOK'
  <2>1. PICK a \in Nat : requests' = [requests EXCEPT ![q].http = h, ![q].db = db, ![q].age = a]
    BY <1>4 DEF Become, RequestsOK
  <2> QED
    BY <2>1 DEF RequestsOK
<1>6. StageInv' /\ ConfigInv' /\ GraceInv'
  BY <1>1 DEF StageInv, ConfigInv, GraceInv
<1>7. ASSUME requests[q].http = "open", TooLate(q)
      PROVE  MayBeLost(q)
  <2>1. stage \notin {"load", "exited"}
    BY <1>1, <1>7 DEF StageInv, RequestInv, Starting
  <2>2. WriteTimeout \in Int
    BY <2>1, WriteTimeoutInt DEF ConfigInv, ProcessOK, WriteTimeout
  <2>3. requests[q].age \in Nat /\ (q \in ApiRequest => requests[q].age <= RequestTimeout)
    BY <1>7 DEF RequestInv, RequestsOK
  <2> QED
    BY <1>7, <2>2, <2>3 DEF TooLate, MayBeLost, Request
<1>8. ASSUME NEW r \in Request
      PROVE  /\ requests'[r].late = requests[r].late
             /\ requests'[r].http = "open" => requests'[r].age = requests[r].age
             /\ \/ requests'[r].http = requests[r].http
                \/ requests[r].http = "open" /\ requests'[r].http = "answered"
                \/ requests[r].http = "open" /\ requests'[r].http = "lost" /\ MayBeLost(r)
  <2>1. CASE r # q
    BY <1>4, <2>1 DEF Become, RequestsOK
  <2>2. CASE r = q
    <3>1. /\ requests'[q].http = h /\ requests'[q].late = requests[q].late
          /\ requests'[q].age = IF h = "open" THEN requests[q].age ELSE 0
      BY <1>4 DEF Become, RequestsOK
    <3>2. \/ h = requests[q].http
          \/ requests[q].http = "open" /\ h = "answered"
          \/ requests[q].http = "open" /\ h = "lost" /\ TooLate(q)
      BY <1>4 DEF Answered
    <3> QED
      BY <1>7, <2>2, <3>1, <3>2
  <2> QED
    BY <2>1, <2>2
<1>9. ASSUME NEW r \in Request PROVE RequestInv(r)'
  BY <1>1, <1>8 DEF RequestInv, Expired, MayBeLost, WriteTimeout
<1> QED
  BY <1>2, <1>5, <1>6, <1>9

(* A second passes: not for the main goroutine when it is ready, nor for a  *)
(* request whose context has ended.                                         *)
LEMMA TickInv ==
  ASSUME LifeInv, Tick
  PROVE  LifeInv'
<1> USE LifecycleAssumption DEF LifeInv
<1>1. /\ ~MainReady /\ ~HandlerReady
      /\ grace' = IF grace # NULL /\ ~Expired THEN grace - 1 ELSE grace
      /\ requests' = [r \in Request |-> IF r \in Timed
                                          THEN [requests[r] EXCEPT !.age = @ + 1]
                                          ELSE requests[r]]
      /\ UNCHANGED <<env, config, stage, exit, result, api, metrics, sent, mailbox,
                     scrapedAtSignal, pool, scrape, database, outages>>
  BY DEF Tick, process
<1>2. ProcessOK' /\ scrapedAtSignal' \in BOOLEAN
  BY <1>1 DEF ProcessOK
<1>3. RequestsOK'
  BY <1>1 DEF RequestsOK
<1>4. StageInv' /\ ConfigInv'
  BY <1>1 DEF StageInv, ConfigInv
<1>5. (grace' = NULL <=> grace = NULL) /\ (grace # NULL /\ Expired => grace' = grace)
  BY <1>1 DEF ProcessOK
<1>6. GraceInv'
  <2>1. stage = "stopMetrics" => scrapedAtSignal
    BY <1>1 DEF MainReady, MetricsStopped, GraceInv
  <2> QED
    BY <1>1, <1>5, <2>1 DEF GraceInv
<1>7. ASSUME NEW r \in Request
      PROVE  /\ requests'[r].late = requests[r].late /\ requests'[r].http = requests[r].http
             /\ requests'[r].age \in {requests[r].age, requests[r].age + 1}
  BY <1>1 DEF RequestsOK
<1>8. ASSUME NEW r \in Request, requests[r].http = "open", r \in ApiRequest
      PROVE  requests'[r].age <= RequestTimeout
  <2>1. requests[r].age \in Nat
    BY <1>8 DEF RequestsOK
  <2>2. ~(requests[r].age >= RequestTimeout)
    BY <1>1, <1>8 DEF HandlerReady, Open, ContextDone
  <2> QED
    BY <1>7, <2>1, <2>2
<1>9. ASSUME NEW r \in Request PROVE RequestInv(r)'
  BY <1>1, <1>5, <1>7, <1>8 DEF RequestInv, Expired, MayBeLost, WriteTimeout
<1> QED
  BY <1>2, <1>3, <1>4, <1>6, <1>9

-----------------------------------------------------------------------------
LEMMA LifeStepInv == LifeInv /\ [LifecycleNext]_lifecycleVars => LifeInv'
<1> SUFFICES ASSUME LifeInv, [LifecycleNext]_lifecycleVars PROVE LifeInv'
  OBVIOUS
<1>1. CASE UNCHANGED lifecycleVars
  <2>1. UNCHANGED <<env, config, stage, exit, result, api, metrics, sent, mailbox, grace,
                    scrapedAtSignal, pool, requests, scrape, database, outages>>
    BY <1>1 DEF lifecycleVars, process, servers, others
  <2>2. ProcessOK' /\ RequestsOK' /\ scrapedAtSignal' \in BOOLEAN
    BY <2>1 DEF LifeInv, ProcessOK, RequestsOK
  <2>3. StageInv' /\ ConfigInv' /\ GraceInv'
    BY <2>1 DEF LifeInv, StageInv, ConfigInv, GraceInv
  <2>4. \A r \in Request : RequestInv(r)'
    BY <2>1 DEF LifeInv, RequestInv, Expired, MayBeLost, WriteTimeout
  <2> QED
    BY <2>2, <2>3, <2>4 DEF LifeInv
<1>2. CASE LifecycleNext
  BY <1>2, StartsInv, StopsInv, SurroundingsInv, AcceptInv, RequestStepInv, TickInv
     DEF LifecycleNext, Main
<1> QED
  BY <1>1, <1>2

LEMMA LifeInvariant == LifecycleSpec => []LifeInv
<1>1. LifecycleInit => LifeInv
  BY LifeInitInv
<1>2. LifeInv /\ [LifecycleNext]_lifecycleVars => LifeInv'
  BY LifeStepInv
<1> QED
  BY <1>1, <1>2, PTL DEF LifecycleSpec

(* Type correctness of a process, its timers and its requests: among them  *)
(* that no request of the API is open for longer than its timeout.         *)
THEOREM LifecycleTypeCorrect == LifecycleSpec => []LifecycleTypeOK
<1>1. LifeInv => LifecycleTypeOK
  BY DEF LifeInv, ProcessOK, RequestsOK, LifecycleTypeOK, RequestInv, Open, Request
<1> QED
  BY <1>1, LifeInvariant, PTL

(* Load accepts exactly the sound environments, whatever is malformed or   *)
(* missing and in whatever order Load meets it, and hands on every value   *)
(* that is given, or its default, but for sizes of the pool that int32     *)
(* does not hold.                                                          *)
THEOREM LoadAlwaysExact == LifecycleSpec => []LoadExact
<1>1. LifeInv => LoadExact
  <2> SUFFICES ASSUME LifeInv, config # NULL
               PROVE  /\ (config.err = nil) <=> Sound(env)
                      /\ Sound(env) => \A i \in DOMAIN Parsed :
                           LET k == Parsed[i].key
                           IN  Fits(env, k) =>
                                 config.cfg[k] = IF env[k] = Unset THEN Parsed[i].default
                                                                  ELSE env[k].value
    BY DEF LoadExact
  <2>1. config = Load(env) /\ env \in Envs
    BY DEF LifeInv, ConfigInv, ProcessOK
  <2>2. ASSUME Sound(env), NEW i \in 1..19, Fits(env, Parsed[i].key)
        PROVE  LET k == Parsed[i].key
                   v == IF env[k] = Unset THEN Parsed[i].default ELSE env[k].value
               IN  Fields(env)[k] = v
    <3> DEFINE k == Parsed[i].key
               v == IF env[k] = Unset THEN Parsed[i].default ELSE env[k].value
               narrowed == {"DATABASE_MAX_CONNS", "DATABASE_MIN_CONNS"}
    <3>1. Fields(env)[k] = IF k \in narrowed THEN Int32(v) ELSE v
      <4>1. \A key \in EnvKey : env[key] # Malformed
        BY <2>2, Zenon DEF Sound
      <4> QED
        BY <2>1, <4>1, FieldsExact, Zenon
    <3>2. k \in narrowed => v \in (-MaxInt32 - 1)..MaxInt32
      <4>1. k \in narrowed => i \in {7, 8}
        BY ParsedKeys, NamedKeys
      <4> QED
        BY <2>2, <4>1, NamedKeys, Int32Assumption DEF Fits
    <3>3. k \in narrowed => Int32(v) = v
      BY <3>2, Int32Fits
    <3> QED
      BY <3>1, <3>3, Zenon
  <2>3. Sound(env) => \A i \in 1..19 :
          LET k == Parsed[i].key
          IN  Fits(env, k) => Load(env).cfg[k] = IF env[k] = Unset THEN Parsed[i].default
                                                                  ELSE env[k].value
    BY <2>1, <2>2, LoadCorrect, Zenon
  <2> QED
    BY <2>1, <2>3, LoadCorrect, ParsedKeys, Zenon
<1> QED
  BY <1>1, LifeInvariant, PTL

(* Exit status 0 promises, for any number of requests, that every accepted *)
(* one was answered, or was lost to a write timeout that it outlasted:      *)
(* never a request of the API where that timeout is longer than its own.    *)
THEOREM ExitStatusHonest == LifecycleSpec => []CleanExit
<1>1. LifeInv => CleanExit
  <2> SUFFICES ASSUME LifeInv, exit = "0", NEW r \in Request
               PROVE  \/ requests[r].http \in {"none", "answered"}
                      \/ requests[r].http = "lost" /\ MayBeLost(r)
    BY DEF CleanExit
  <2>1. result = "0" /\ stage \in Ending
    BY LifecycleAssumption DEF LifeInv, StageInv
  <2>2. requests[r].http \in {"none", "open", "answered", "lost", "cut"}
    BY DEF LifeInv, RequestsOK
  <2>3. requests[r].http # "open"
    BY <2>1 DEF LifeInv, RequestInv, GraceInv
  <2> QED
    BY <2>1, <2>2, <2>3 DEF LifeInv, RequestInv
<1> QED
  BY <1>1, LifeInvariant, PTL

(* Whatever the shutdown timeout, a shutdown cuts no request before all of *)
(* it has passed, and none that came in after it had begun to pass unless  *)
(* a scrape was going on when the signal came; without a signal requests   *)
(* are cut only by a listener that failed, and with exit status 1.         *)
THEOREM GraceAlwaysKept == LifecycleSpec => []GraceKept
<1>1. LifeInv => GraceKept
  BY DEF LifeInv, RequestInv, GraceKept
<1> QED
  BY <1>1, LifeInvariant, PTL

(* No listener is open without the pool, and no request is served without  *)
(* it but in a process that ends because its listener failed.              *)
THEOREM AlwaysServedWithPool == LifecycleSpec => []ServedWithPool
<1>1. LifeInv => ServedWithPool
  <2> SUFFICES ASSUME LifeInv PROVE ServedWithPool
    OBVIOUS
  <2>1. stage \in WithPool => pool = "open"
    BY DEF LifeInv, StageInv
  <2>2. stage \in {"load", "logger", "tracing", "connect"} => api = "none" /\ Open = {}
    BY DEF LifeInv, StageInv, RequestInv, Open, Starting
  <2>3. stage \in Ending => api # "up"
    BY DEF LifeInv, StageInv
  <2>4. stage \in Ending /\ Open # {} => api = "failed" /\ grace = NULL /\ result = "1"
    BY DEF LifeInv, GraceInv, RequestInv, Open
  <2> QED
    BY <2>1, <2>2, <2>3, <2>4
       DEF LifeInv, ProcessOK, Stage, WithPool, Ending, ServedWithPool
<1> QED
  BY <1>1, LifeInvariant, PTL

=============================================================================
