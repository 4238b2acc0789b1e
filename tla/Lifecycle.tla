----------------------------- MODULE Lifecycle -----------------------------
(***************************************************************************)
(* cmd/api: the life of one API process from its configuration to its exit. *)
(* run() is the sequence of stages of the main goroutine; the listeners,    *)
(* the requests and the database go their own way beside it.  Time is kept  *)
(* in seconds: those left of the shutdown deadline, and the age of each     *)
(* open request since its header was read.                                  *)
(***************************************************************************)
EXTENDS Config

CONSTANTS
    Envs,             \* environments the process may be started in
    ApiRequest,       \* requests to /api/v1, under timeoutMiddleware
    HealthRequest,    \* requests to /health, not under it
    RequestTimeout,   \* of timeoutMiddleware, in seconds
    MaxSignals, MaxOutages,   \* bounds: signals sent, changes of the database
    NULL

ASSUME LifecycleAssumption ==
    /\ \A e \in Envs : IsEnv(e)
    /\ ApiRequest \cap HealthRequest = {}
    /\ RequestTimeout \in Nat \ {0} /\ MaxSignals \in Nat /\ MaxOutages \in Nat
    /\ NULL \notin Int \cup {"0", "1", "killed"}

Request == ApiRequest \cup HealthRequest

VARIABLES
    env, config,      \* the environment, and what Load made of it
    stage,            \* where run() is
    exit,             \* NULL, or 0, 1 or "killed"
    api, metrics,     \* the listeners: "none", "starting", "up", "failed", "closed"
    sent, mailbox,    \* signals sent, signals in the channel `shutdown'
    grace,            \* seconds left to the shutdown deadline, or NULL
    result,           \* what startHTTPServer returns: 0, 1, or NULL
    pool,             \* "none", "open", "closing", "closed"
    requests,         \* what has become of each request
    scrape,           \* a scrape of /metrics: "none", "open", "done"
    database, outages,    \* "up", "refuses", "hangs"
    scrapedAtSignal   \* history: was a scrape going on when the signal was taken

process == <<env, config, stage, exit, result>>
servers == <<api, metrics, sent, mailbox, grace, scrapedAtSignal>>
others == <<pool, requests, scrape, database, outages>>
lifecycleVars == <<process, servers, others>>

(* The stages of run() and startHTTPServer. *)
Stage == {"load", "logger", "tracing", "connect", "roles", "listen", "serve",
          "stopMetrics", "stopApi", "closePool", "stopTracer", "exited"}

NoRequest == [http |-> "none", db |-> "none", age |-> 0, late |-> FALSE]

Open == {r \in Request : requests[r].http = "open"}

LifecycleTypeOK ==
    /\ env \in Envs
    /\ stage \in Stage /\ exit \in {NULL, "0", "1", "killed"}
    /\ {api, metrics} \subseteq {"none", "starting", "up", "failed", "closed"}
    /\ sent \in 0..MaxSignals /\ mailbox \in 0..1
    /\ grace # NULL => grace \in Int
    /\ result \in {NULL, "0", "1"}
    /\ pool \in {"none", "open", "closing", "closed"}
    /\ requests \in [Request -> [http : {"none", "open", "answered", "lost", "cut"},
                                 db : {"none", "waiting", "held", "done"},
                                 age : Nat, late : BOOLEAN]]
    /\ \A r \in Open \cap ApiRequest : requests[r].age <= RequestTimeout
    /\ scrape \in {"none", "open", "done"}
    /\ database \in {"up", "refuses", "hangs"} /\ outages \in 0..MaxOutages
    /\ scrapedAtSignal \in BOOLEAN

LifecycleInit ==
    /\ env \in Envs /\ config = NULL
    /\ stage = "load" /\ exit = NULL /\ result = NULL
    /\ api = "none" /\ metrics = "none"
    /\ sent = 0 /\ mailbox = 0 /\ grace = NULL /\ scrapedAtSignal = FALSE
    /\ pool = "none" /\ requests = [r \in Request |-> NoRequest]
    /\ scrape = "none"
    /\ database \in {"up", "refuses"} /\ outages = 0

-----------------------------------------------------------------------------
(* run(): one step per stage.  Fail is `return err', before anything is    *)
(* deferred that could block.                                              *)

GoTo(s) == stage' = s /\ UNCHANGED exit
Fail == stage' = "exited" /\ exit' = "1"

LoadConfig ==
    /\ stage = "load"
    /\ config' = Load(env)
    /\ IF config'.err = nil THEN GoTo("logger") ELSE Fail
    /\ UNCHANGED <<env, result, servers, others>>

(* parseLevel *)
LogLevel == {"debug", "info", "warn", "warning", "error", "fatal"}

NewLogger ==
    /\ stage = "logger"
    /\ IF config.cfg.LOG_LEVEL \in LogLevel THEN GoTo("tracing") ELSE Fail
    /\ UNCHANGED <<env, config, result, servers, others>>

(* observability.Setup, whose failure is only logged.  No handler uses the *)
(* tracer, so there are never spans to export.                             *)
SetupTracing ==
    /\ stage = "tracing"
    /\ GoTo("connect")
    /\ UNCHANGED <<env, config, result, servers, others>>

(* db.New: the pool (external) takes no size below one, and Ping, without  *)
(* a timeout, waits for a database that hangs.  Failing, run() still shuts *)
(* the tracer down.                                                        *)
Connect ==
    /\ stage = "connect"
    /\ \/ /\ config.cfg.DATABASE_MAX_CONNS >= 1 /\ database = "up"
          /\ pool' = "open" /\ stage' = "roles" /\ UNCHANGED result
       \/ /\ config.cfg.DATABASE_MAX_CONNS < 1 \/ database = "refuses"
          /\ stage' = "stopTracer" /\ result' = "1" /\ UNCHANGED pool
    /\ UNCHANGED <<env, config, exit, servers, requests, scrape,
                   database, outages>>

(* InitDefaultRoles, whose failure is only logged. *)
InitRoles ==
    /\ stage = "roles"
    /\ database # "hangs"
    /\ GoTo("listen")
    /\ UNCHANGED <<env, config, result, servers, others>>

(* startHTTPServer: signal.Notify, and a goroutine per listener. *)
Listen ==
    /\ stage = "listen"
    /\ GoTo("serve")
    /\ api' = "starting" /\ metrics' = "starting"
    /\ UNCHANGED <<env, config, result, sent, mailbox, grace,
                   scrapedAtSignal, others>>

(* case err := <-serverErrors: neither Shutdown nor Close, whatever is     *)
(* still being served.                                                     *)
TakeServerError ==
    /\ stage = "serve"
    /\ api = "failed"
    /\ GoTo("closePool")
    /\ result' = "1"
    /\ UNCHANGED <<env, config, servers, others>>

(* case sig := <-shutdown: one deadline for both servers.  The metrics     *)
(* listener is closed, the API still accepts requests.                     *)
TakeSignal ==
    /\ stage = "serve"
    /\ mailbox = 1
    /\ mailbox' = 0
    /\ grace' = config.cfg.SERVER_SHUTDOWN_TIMEOUT
    /\ metrics' = "closed"
    /\ scrapedAtSignal' = (scrape = "open")
    /\ GoTo("stopMetrics")
    /\ UNCHANGED <<env, config, result, api, sent, others>>

Expired == grace <= 0

MetricsStopped == scrape # "open" \/ Expired

StopMetricsWithoutDeadline ==   \* mutant: metricsServer.Shutdown(context.Background())
    /\ stage = "stopMetrics"
    /\ scrape # "open"
    /\ api' = "closed"
    /\ GoTo("stopApi")
    /\ UNCHANGED <<env, config, result, metrics, sent, mailbox, grace,
                   scrapedAtSignal, others>>

(* metricsServer.Shutdown returns, and server.Shutdown closes the listener. *)
StopMetrics ==
    /\ stage = "stopMetrics"
    /\ MetricsStopped
    /\ api' = "closed"
    /\ GoTo("stopApi")
    /\ UNCHANGED <<env, config, result, metrics, sent, mailbox, grace,
                   scrapedAtSignal, others>>

Cut(rs) == [r \in Request |->
              IF r \in rs THEN [requests[r] EXCEPT !.http = "cut", !.age = 0]
              ELSE requests[r]]

ApiStopped == Open = {} \/ Expired

StopApiKeepsOpen ==   \* mutant: the error of Shutdown is returned without Close
    /\ stage = "stopApi"
    /\ ApiStopped
    /\ result' = IF Open = {} THEN "0" ELSE "1"
    /\ GoTo("closePool")
    /\ UNCHANGED <<env, config, servers, others>>

StopApiReportsSuccess ==   \* mutant: the error of Shutdown is only logged
    /\ stage = "stopApi"
    /\ ApiStopped
    /\ result' = "0"
    /\ requests' = Cut(Open)
    /\ GoTo("closePool")
    /\ UNCHANGED <<env, config, servers, pool, scrape, database, outages>>

StopApiAtOnce ==   \* mutant: Close instead of Shutdown
    /\ stage = "stopApi"
    /\ result' = "0"
    /\ requests' = Cut(Open)
    /\ GoTo("closePool")
    /\ UNCHANGED <<env, config, servers, pool, scrape, database, outages>>

(* server.Shutdown returns; at the deadline, server.Close cuts what is left. *)
StopApi ==
    /\ stage = "stopApi"
    /\ ApiStopped
    /\ result' = IF Open = {} THEN "0" ELSE "1"
    /\ requests' = Cut(Open)
    /\ GoTo("closePool")
    /\ UNCHANGED <<env, config, servers, pool, scrape, database, outages>>

Held == {r \in Request : requests[r].db = "held"}

(* defer pool.Close(): no connection is given out any more, and Close waits *)
(* for those that are.                                                      *)
ClosePool ==
    /\ stage = "closePool"
    /\ \/ pool = "open" /\ pool' = "closing" /\ UNCHANGED stage
       \/ /\ pool = "closing" /\ Held = {}
          /\ pool' = "closed" /\ stage' = "stopTracer"
    /\ UNCHANGED <<env, config, exit, result, servers, requests, scrape,
                   database, outages>>

(* tracerProvider.Shutdown, within ten seconds; logger.Sync; the process    *)
(* ends, and every connection with it.                                     *)
Exit ==
    /\ stage = "stopTracer"
    /\ stage' = "exited" /\ exit' = result
    /\ requests' = Cut(Open)
    /\ UNCHANGED <<env, config, result, servers, pool, scrape, database, outages>>

Main == \/ LoadConfig \/ NewLogger \/ SetupTracing \/ Connect \/ InitRoles
        \/ Listen \/ TakeServerError \/ TakeSignal \/ StopMetrics \/ StopApi
        \/ ClosePool \/ Exit

-----------------------------------------------------------------------------
(* The listeners.  Neither can be opened once Shutdown has been called, and *)
(* what the metrics listener cannot bind is only logged.                    *)

ApiListens ==
    /\ api = "starting" /\ stage # "exited"
    /\ api' \in {"up", "failed"}
    /\ UNCHANGED <<process, metrics, sent, mailbox, grace, scrapedAtSignal, others>>

(* Accept fails for good: ListenAndServe returns, and the connections that  *)
(* it has accepted are served on.                                           *)
ApiFails ==
    /\ api = "up" /\ stage # "exited"
    /\ api' = "failed"
    /\ UNCHANGED <<process, metrics, sent, mailbox, grace, scrapedAtSignal, others>>

MetricsListens ==
    /\ metrics = "starting" /\ stage # "exited"
    /\ metrics' \in {"up", "failed"}
    /\ UNCHANGED <<process, api, sent, mailbox, grace, scrapedAtSignal, others>>

(* SIGTERM kills the process until Notify is called; after that it goes to  *)
(* the channel, or nowhere when the channel is full.                        *)
Signal ==
    /\ stage # "exited"
    /\ sent < MaxSignals
    /\ sent' = sent + 1
    /\ \/ /\ api = "none"
          /\ stage' = "exited" /\ exit' = "killed"
          /\ UNCHANGED mailbox
       \/ /\ api # "none"
          /\ mailbox' = 1
          /\ UNCHANGED <<stage, exit>>
    /\ UNCHANGED <<env, config, result, api, metrics, grace,
                   scrapedAtSignal, others>>

-----------------------------------------------------------------------------
(* Requests: each takes one connection of the pool for its statement. *)

Become(r, http, db) ==
    requests' = [requests EXCEPT ![r].http = http, ![r].db = db,
                                 ![r].age = IF http = "open" THEN @ ELSE 0]

Alone(r) == UNCHANGED <<process, servers, pool, scrape, database, outages>>

(* History: part of the shutdown timeout has passed. *)
Late == grace # NULL /\ grace < config.cfg.SERVER_SHUTDOWN_TIMEOUT

(* On a new connection, or on one that an earlier request has left open. *)
Accept(r) ==
    /\ stage # "exited"
    /\ \/ api = "up"
       \/ api = "failed" /\ \E q \in Request : requests[q].http = "answered"
    /\ requests[r] = NoRequest
    /\ requests' = [requests EXCEPT
                      ![r] = [http |-> "open", db |-> "waiting",
                              age |-> 0, late |-> Late]]
    /\ Alone(r)

(* The context of an API request ends with its timeout or its connection;  *)
(* the ping of /health has context.Background().                           *)
ContextDone(r) ==
    r \in ApiRequest /\ (requests[r].age >= RequestTimeout \/ requests[r].http = "cut")

(* net/http: what a handler writes after the write deadline is lost, and   *)
(* the connection is closed.  A timeout of zero or less is none.            *)
WriteTimeout == config.cfg.SERVER_WRITE_TIMEOUT

TooLate(r) == WriteTimeout > 0 /\ requests[r].age >= WriteTimeout

Answered(r) ==
    CASE requests[r].http = "open" /\ ~TooLate(r) -> "answered"
      [] requests[r].http = "open" /\ TooLate(r) -> "lost"
      [] OTHER -> requests[r].http

Acquire(r) ==
    /\ stage # "exited"
    /\ requests[r].db = "waiting"
    /\ pool = "open" /\ database # "refuses" /\ ~ContextDone(r)
    /\ Cardinality(Held) < config.cfg.DATABASE_MAX_CONNS
    /\ Become(r, requests[r].http, "held")
    /\ Alone(r)

(* No connection: an error to the client. *)
GiveUp(r) ==
    /\ stage # "exited"
    /\ requests[r].db = "waiting"
    /\ ContextDone(r) \/ pool # "open" \/ database = "refuses"
    /\ Become(r, Answered(r), "done")
    /\ Alone(r)

(* The statement returns, with rows or with an error. *)
Finish(r) ==
    /\ stage # "exited"
    /\ requests[r].db = "held"
    /\ database # "hangs" \/ ContextDone(r)
    /\ Become(r, Answered(r), "done")
    /\ Alone(r)

ScrapeStarts ==
    /\ metrics = "up" /\ scrape = "none" /\ stage # "exited"
    /\ scrape' = "open"
    /\ UNCHANGED <<process, servers, pool, requests, database, outages>>

ScrapeEnds ==
    /\ scrape = "open" /\ stage # "exited"
    /\ scrape' = "done"
    /\ UNCHANGED <<process, servers, pool, requests, database, outages>>

DatabaseChanges ==
    /\ outages < MaxOutages /\ stage # "exited"
    /\ outages' = outages + 1
    /\ database' \in {"up", "refuses", "hangs"} \ {database}
    /\ UNCHANGED <<process, servers, pool, requests, scrape>>

(* A second passes; not while the main goroutine has something to do in the *)
(* shutdown sequence, or a handler whose context has ended.                 *)
MainReady ==
    \/ stage = "serve" /\ (mailbox = 1 \/ api = "failed")
    \/ stage = "stopMetrics" /\ MetricsStopped
    \/ stage = "stopApi" /\ ApiStopped

HandlerReady == \E r \in Open : ContextDone(r)

TickAll ==   \* mutant: a handler goes on when its context has ended
    /\ stage # "exited" /\ ~MainReady
    /\ \E r \in Open : requests[r].age <= RequestTimeout
    /\ grace' = IF grace # NULL THEN grace - 1 ELSE grace
    /\ requests' = [r \in Request |-> [requests[r] EXCEPT !.age = @ + 1]]
    /\ UNCHANGED <<process, api, metrics, sent, mailbox, scrapedAtSignal, pool,
                   scrape, database, outages>>

(* The requests whose age something will look at. *)
Timed == {r \in Open : r \in ApiRequest \/ requests[r].age < WriteTimeout}

Tick ==
    /\ stage # "exited" /\ ~MainReady /\ ~HandlerReady
    /\ Timed # {} \/ (grace # NULL /\ ~Expired)
    /\ grace' = IF grace # NULL /\ ~Expired THEN grace - 1 ELSE grace
    /\ requests' = [r \in Request |-> IF r \in Timed
                                        THEN [requests[r] EXCEPT !.age = @ + 1]
                                        ELSE requests[r]]
    /\ UNCHANGED <<process, api, metrics, sent, mailbox, scrapedAtSignal, pool,
                   scrape, database, outages>>

RequestStep(r) == Acquire(r) \/ GiveUp(r) \/ Finish(r)

LifecycleNext ==
    \/ Main \/ ApiListens \/ ApiFails \/ MetricsListens \/ Signal
    \/ \E r \in Request : Accept(r) \/ RequestStep(r)
    \/ ScrapeStarts \/ ScrapeEnds \/ DatabaseChanges \/ Tick

(* Goroutines that can run do, and time passes.  Clients, operators, the    *)
(* scraper and the database owe nothing.                                    *)
LifecycleSpec ==
    /\ LifecycleInit /\ [][LifecycleNext]_lifecycleVars
    /\ WF_lifecycleVars(Main)
    /\ WF_lifecycleVars(ApiListens)
    /\ WF_lifecycleVars(Tick)
    /\ \A r \in Request : WF_lifecycleVars(RequestStep(r))

-----------------------------------------------------------------------------
(* Properties *)

(* What an operator may expect of Load: the environments it accepts, and  *)
(* the numbers that reach the pool as they were given.                     *)
Sound(e) ==
    /\ \A k \in EnvKey : e[k] # Malformed
    /\ e.DATABASE_URL # Unset /\ e.JWT_SECRET_LENGTH # Unset
    /\ e.JWT_SECRET_LENGTH.value >= 32
    /\ e.SERVER_PORT # Unset => e.SERVER_PORT.value \in 1..MaxPort
    /\ ~ /\ e.CORS_ALLOWED_ORIGINS # Unset /\ "*" \in e.CORS_ALLOWED_ORIGINS.value
         /\ e.CORS_ALLOW_CREDENTIALS # Given(FALSE)

Fits(e, k) ==
    \/ k \notin {"DATABASE_MAX_CONNS", "DATABASE_MIN_CONNS"}
    \/ e[k] = Unset
    \/ e[k].value \in (-MaxInt32 - 1)..MaxInt32

(* Load accepts an environment exactly when no variable is malformed and   *)
(* nothing required is missing, whatever the order in which it meets them, *)
(* and then every variable has the value given or its default, but for     *)
(* sizes of the pool that int32 does not hold.                             *)
LoadExact ==
    config # NULL =>
      /\ (config.err = nil) <=> Sound(env)
      /\ Sound(env) => \A i \in DOMAIN Parsed :
           LET k == Parsed[i].key
           IN  Fits(env, k) => config.cfg[k] = IF env[k] = Unset THEN Parsed[i].default
                                                                ELSE env[k].value

(* Exit status 0 means that every request that was accepted was answered,  *)
(* but for those that took longer than the write timeout: health checks,    *)
(* and requests to the API unless the write timeout is longer than theirs   *)
(* (by default both are 30 seconds).                                        *)
MayBeLost(r) ==
    WriteTimeout > 0 /\ (r \in HealthRequest \/ WriteTimeout <= RequestTimeout)

CleanExit ==
    exit = "0" => \A r \in Request :
      \/ requests[r].http \in {"none", "answered"}
      \/ requests[r].http = "lost" /\ MayBeLost(r)

(* In a shutdown a request is cut only when the whole shutdown timeout has  *)
(* passed, and was accepted before any of it had: unless a scrape of the    *)
(* metrics, which has the same deadline, kept the API's listener open       *)
(* meanwhile.  Without a signal only the failure of the listener cuts       *)
(* requests, which have no grace then, and the exit status tells.           *)
GraceKept ==
    \A r \in Request : requests[r].http = "cut" =>
      IF grace = NULL THEN api = "failed" /\ exit = "1"
      ELSE Expired /\ (requests[r].late => scrapedAtSignal)

(* The listener opens after the ping, and the pool closes after the last   *)
(* answer or cut; only a process that ends because its listener failed      *)
(* closes the pool under requests, and never a shutdown.                    *)
ServedWithPool ==
    /\ api = "up" => pool = "open"
    /\ Open # {} => pool = "open" \/ (api = "failed" /\ grace = NULL /\ result = "1")

(* A process that has caught a signal exits; only a health check whose ping *)
(* the database never answers can keep pool.Close from returning.           *)
PingHangs == database = "hangs" /\ Held \cap HealthRequest # {}

SignalEndsProcess == (sent > 0 ~> stage = "exited") \/ <>[]PingHangs

=============================================================================
