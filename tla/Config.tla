------------------------------- MODULE Config -------------------------------
(***************************************************************************)
(* internal/config: Load turns the process environment into the            *)
(* configuration.  A variable is unset (or empty, which os.Getenv does not *)
(* tell apart), malformed, or gives a value.  A list is the set of its     *)
(* trimmed entries, whose order nothing looks at.  Durations are in        *)
(* seconds.                                                                *)
(***************************************************************************)
EXTENDS Integers, Sequences, FiniteSetsExt

CONSTANT MaxInt32   \* the largest int32: 2^31 - 1, or less to keep numbers small

ASSUME Int32Assumption == MaxInt32 \in Nat /\ MaxInt32 >= 25   \* the defaults fit

Unset == [kind |-> "unset"]
Malformed == [kind |-> "malformed"]
Given(v) == [kind |-> "given", value |-> v]

Blank == ""
nil == "nil"   \* no error

(* The variables envParser converts, in the order in which Load asks. *)
Parsed == <<
    [key |-> "SERVER_PORT", default |-> 8080],
    [key |-> "METRICS_PORT", default |-> 9464],
    [key |-> "SERVER_READ_TIMEOUT", default |-> 30],
    [key |-> "SERVER_WRITE_TIMEOUT", default |-> 30],
    [key |-> "SERVER_IDLE_TIMEOUT", default |-> 120],
    [key |-> "SERVER_SHUTDOWN_TIMEOUT", default |-> 10],
    [key |-> "DATABASE_MAX_CONNS", default |-> 25],
    [key |-> "DATABASE_MIN_CONNS", default |-> 2],
    [key |-> "DATABASE_CONN_MAX_LIFETIME", default |-> 300],
    [key |-> "JWT_EXPIRE_MINUTES", default |-> 1440],
    [key |-> "BCRYPT_COST", default |-> 12],
    [key |-> "TRACING_ENABLED", default |-> TRUE],
    [key |-> "OTEL_TRACE_SAMPLING_RATIO", default |-> 1],
    [key |-> "OTEL_EXPORTER_OTLP_INSECURE", default |-> TRUE],
    [key |-> "RATE_LIMIT_REQUESTS", default |-> 10],
    [key |-> "RATE_LIMIT_DURATION", default |-> 60],
    [key |-> "CORS_ALLOW_CREDENTIALS", default |-> TRUE],
    [key |-> "CORS_MAX_AGE", default |-> 3600],
    [key |-> "SWAGGER_ENABLED", default |-> FALSE]>>

(* The strings getEnv reads, which no check but Validate's and the logger's *)
(* looks at; of the secret only the length matters.                        *)
Plain == [DATABASE_URL |-> Blank, JWT_SECRET_LENGTH |-> 0, LOG_LEVEL |-> "info"]

Lists == [TRUSTED_PROXIES |-> {}, CORS_ALLOWED_ORIGINS |-> {}]

ParsedKey == {Parsed[i].key : i \in DOMAIN Parsed}
EnvKey == ParsedKey \cup DOMAIN Plain \cup DOMAIN Lists

(* What a variable gives that is set and parses.  Nothing looks at the      *)
(* sampling ratio, which counts as an integer.                             *)
Value(k) ==
    CASE k \in {"TRACING_ENABLED", "OTEL_EXPORTER_OTLP_INSECURE",
                "CORS_ALLOW_CREDENTIALS", "SWAGGER_ENABLED"} -> BOOLEAN
      [] k \in {"DATABASE_URL", "LOG_LEVEL"} -> STRING \ {Blank}
      [] k = "JWT_SECRET_LENGTH" -> Nat \ {0}
      [] k \in DOMAIN Lists -> SUBSET STRING
      [] OTHER -> Int

(* The environments that a process can find; any string will do for what   *)
(* is not parsed.                                                          *)
IsEnv(e) ==
    /\ DOMAIN e = EnvKey
    /\ \A k \in EnvKey :
         \/ e[k] = Unset
         \/ e[k] = Malformed /\ k \in ParsedKey
         \/ e[k] = Given(e[k].value) /\ e[k].value \in Value(k)

(* getEnv *)
getEnv(raw, default) == IF raw = Unset THEN default ELSE raw.value

(* getEnvAsIntOrError, getEnvAsBoolOrError, getEnvAsDurationOrError and     *)
(* getEnvAsFloatOrError: a malformed value comes back as the default.       *)
getEnvAsOrError(raw, default) ==
    IF raw.kind = "given" THEN raw.value ELSE default

ParserErrLast(env, n) ==   \* mutant: a value that parses clears the error
    IF n > 0 /\ env[Parsed[n].key] = Malformed THEN Parsed[n].key ELSE nil

(* p.err once n variables have been read: the first error stays. *)
ParserErr(env, n) ==
    LET bad == {i \in 1..n : env[Parsed[i].key] = Malformed}
    IN  IF bad = {} THEN nil ELSE Parsed[Min(bad)].key

(* p.int, p.bool, p.duration and p.float of the n-th variable. *)
envParser(env, n) ==
    LET f == Parsed[n]
    IN  IF ParserErr(env, n - 1) # nil THEN f.default
        ELSE getEnvAsOrError(env[f.key], f.default)

(* int32(n) *)
Int32(n) ==
    LET half == MaxInt32 + 1 IN ((n + half) % (2 * half)) - half

(* parseTrustedProxies drops what is no CIDR; getCommaSeparatedEnv drops    *)
(* blank entries, and means the default when nothing is left.              *)
IsCIDR(entry) == entry \notin {Blank, "not a CIDR"}

parseTrustedProxies(raw) == {entry \in getEnv(raw, {}) : IsCIDR(entry)}

getCommaSeparatedEnv(raw, default) ==
    LET result == getEnv(raw, {}) \ {Blank}
    IN  IF result = {} THEN default ELSE result

MaxPort == 65535

(* Validate: the first complaint, or nil. *)
Validate(c) ==
    IF c.DATABASE_URL = Blank THEN "DATABASE_URL is required"
    ELSE IF c.JWT_SECRET_LENGTH = 0 THEN "JWT_SECRET_KEY is required"
    ELSE IF c.JWT_SECRET_LENGTH < 32 THEN "JWT_SECRET_KEY is too short"
    ELSE IF c.SERVER_PORT \notin 1..MaxPort THEN "invalid SERVER_PORT"
    ELSE IF c.CORS_ALLOW_CREDENTIALS /\ "*" \in c.CORS_ALLOWED_ORIGINS
      THEN "wildcard origin with credentials"
    ELSE nil

(* A field that envParser reads, with int32() around two of them. *)
ParsedField(env, k) ==
    LET n == CHOOSE i \in DOMAIN Parsed : Parsed[i].key = k
    IN  IF k \in {"DATABASE_MAX_CONNS", "DATABASE_MIN_CONNS"}
          THEN Int32(envParser(env, n)) ELSE envParser(env, n)

(* The fields of the configuration. *)
Fields(env) ==
    [k \in EnvKey |->
       CASE k \in ParsedKey -> ParsedField(env, k)
         [] k \in DOMAIN Plain -> getEnv(env[k], Plain[k])
         [] k = "TRUSTED_PROXIES" -> parseTrustedProxies(env[k])
         [] k = "CORS_ALLOWED_ORIGINS" -> getCommaSeparatedEnv(env[k], {})]

(* Load: the configuration, or the first error. *)
Load(env) ==
    LET parseErr == ParserErr(env, Len(Parsed))
        err == IF parseErr # nil THEN parseErr ELSE Validate(Fields(env))
    IN  IF err # nil THEN [err |-> err] ELSE [err |-> nil, cfg |-> Fields(env)]

=============================================================================
