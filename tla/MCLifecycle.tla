---------------------------- MODULE MCLifecycle ----------------------------
(***************************************************************************)
(* Environments that vary the variables Load, Validate, the logger, the     *)
(* pool and the shutdown look at; two API requests and a health check.      *)
(***************************************************************************)
EXTENDS Lifecycle

CONSTANTS r1, r2, h1

Base == [k \in EnvKey |->
           CASE k = "DATABASE_URL" -> Given("postgres://db")
             [] k = "JWT_SECRET_LENGTH" -> Given(32)
             [] OTHER -> Unset]

With(e, k, vs) == {[e EXCEPT ![k] = v] : v \in vs}

(* Two variables at a time off their usual values; most are refused, and   *)
(* the logger ends the others.                                             *)
Loud == [Base EXCEPT !.LOG_LEVEL = Given("loud")]

Checked ==
    UNION {UNION {With(e, k2, vs2) : e \in With(Loud, k1, vs1)} :
             <<k1, vs1, k2, vs2>> \in
             {<<"SERVER_PORT", {Malformed, Given(0), Given(65536)},
                "SWAGGER_ENABLED", {Unset, Malformed}>>,
              <<"JWT_SECRET_LENGTH", {Unset, Given(31)},
                "DATABASE_URL", {Unset, Given("postgres://db")}>>,
              <<"CORS_ALLOWED_ORIGINS", {Given({Blank}), Given({"o", "*"})},
                "CORS_ALLOW_CREDENTIALS", {Unset, Malformed, Given(FALSE)}>>,
              <<"DATABASE_MAX_CONNS", {Given(-33)},
                "DATABASE_MIN_CONNS", {Unset, Given(31)}>>,
              <<"DATABASE_MAX_CONNS", {Malformed, Given(64)},
                "LOG_LEVEL", {Unset}>>}}

(* Served: 65 connections, which six bits wrap to one.  The write timeout  *)
(* is as long as a request's, longer, or none, and the shutdown timeout     *)
(* longer than either, shorter, or none.                                    *)
Served ==
    {[Base EXCEPT !.DATABASE_MAX_CONNS = Given(65),
                  !.SERVER_WRITE_TIMEOUT = Given(t[1]),
                  !.SERVER_SHUTDOWN_TIMEOUT = Given(t[2])] :
       t \in {<<2, 3>>, <<3, 1>>, <<0, 0>>}}

SomeEnvs == Checked \cup Served

=============================================================================
