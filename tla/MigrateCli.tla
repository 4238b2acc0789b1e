----------------------------- MODULE MigrateCli -----------------------------
(***************************************************************************)
(* cmd/migrate: operators run it, possibly several at a time, against one  *)
(* database.  golang-migrate (external) keeps the version it has reached   *)
(* and a dirty flag in schema_migrations, and holds an advisory lock of    *)
(* its session while it works.  A file is sent as one query, so it takes   *)
(* effect as a whole, but not together with the two updates of the version *)
(* around it.  Migrations has the same files with what they do to the rows. *)
(***************************************************************************)
EXTENDS Integers

CONSTANTS
    Process,         \* invocations of cmd/migrate at one time
    Invocations,     \* the command lines operators use
    MaxCommands, MaxCrashes,   \* bounds: invocations, processes that are killed
    NULL

VARIABLES
    version, dirty,  \* schema_migrations; version is NilVersion when it is empty
    applied,         \* the files in force
    lock,            \* the holder of pg_advisory_lock, or NULL
    pc, command,     \* per process: its step, and what run() dispatched on
    phase,           \* "up" or "down": the half of reset it is in
    job,             \* the file at hand and the version it leads to
    outcome,         \* how the last invocation ended: NULL, "ok", "error"
    commands, crashes,
    startedAt,       \* history: the version an invocation found
    misforced, seedRefused   \* history: force to a version that is not the truth;
                             \* the rows of the tables refused the seed

schemaVars == <<version, dirty, applied>>
processVars == <<pc, command, phase, job, outcome>>
historyVars == <<commands, crashes, startedAt, misforced, seedRefused>>
cliVars == <<schemaVars, lock, processVars, historyVars>>

NilVersion == -1
Files == 1..6

(* A command line: -command c, or c as an argument; -version v. *)
ASSUME MigrateCliAssumption ==
    /\ Invocations \subseteq
         [flag : {NULL, "up", "down", "reset", "force", "version", "drop"},
          argument : {NULL, "up", "down", "reset", "force", "version"},
          version : Int]
    /\ MaxCommands \in Nat /\ MaxCrashes \in Nat

ASSUME NullAssumption == NULL \notin Process \cup {"ok", "error"}

NoJob == [file |-> 0, target |-> NilVersion]

Idle == [flag |-> NULL, argument |-> NULL, version |-> 0]

CliTypeOK ==
    /\ version \in Int /\ dirty \in BOOLEAN /\ applied \subseteq Files
    /\ version = NilVersion \/ version >= 1
    /\ lock \in Process \cup {NULL}
    /\ pc \in [Process -> {"idle", "lock", "check", "force", "mark", "run", "clean"}]
    /\ command \in [Process -> Invocations \cup {Idle}]
    /\ phase \in [Process -> {"up", "down"}]
    /\ job \in [Process -> [file : {0} \cup Files, target : {NilVersion} \cup Files]]
    /\ outcome \in [Process -> {NULL, "ok", "error"}]
    /\ commands \in 0..MaxCommands /\ crashes \in 0..MaxCrashes
    /\ startedAt \in [Process -> Int]
    /\ misforced \in BOOLEAN /\ seedRefused \in BOOLEAN

CliInit ==
    /\ version = NilVersion /\ dirty = FALSE /\ applied = {}
    /\ lock = NULL
    /\ pc = [p \in Process |-> "idle"]
    /\ command = [p \in Process |-> Idle]
    /\ phase = [p \in Process |-> "up"]
    /\ job = [p \in Process |-> NoJob]
    /\ outcome = [p \in Process |-> NULL]
    /\ commands = 0 /\ crashes = 0
    /\ startedAt = [p \in Process |-> NilVersion]
    /\ misforced = FALSE /\ seedRefused = FALSE

-----------------------------------------------------------------------------
(* The files.  CREATE TABLE IF NOT EXISTS repeats, CREATE INDEX does not,   *)
(* and 000003 and 000006 have no index; foreign keys and the seed need the  *)
(* tables they refer to.                                                    *)
Needs(f) == CASE f = 2 -> {1} [] f = 4 -> {2, 3} [] f = 5 -> {2}
              [] f = 6 -> {1, 2, 3, 4, 5} [] OTHER -> {}

UpRefused(f) == ~(Needs(f) \subseteq applied) \/ (f \in applied /\ f \notin {3, 6})

(* DROP TABLE IF EXISTS never fails; 000006 deletes from four tables. *)
DownRefused(f) == f = 6 /\ ~({2, 3, 4, 5} \subseteq applied)

-----------------------------------------------------------------------------
(* run(): flag.Parse takes -command, and leaves an argument alone. *)
Dispatch(i) == IF i.flag = NULL THEN "up" ELSE i.flag

End(p, how) ==
    /\ pc' = [pc EXCEPT ![p] = "idle"]
    /\ phase' = [phase EXCEPT ![p] = "up"]
    /\ job' = [job EXCEPT ![p] = NoJob]
    /\ outcome' = [outcome EXCEPT ![p] = how]
    /\ lock' = IF lock = p THEN NULL ELSE lock
    /\ UNCHANGED command

EndsAtOnceButForce(i) ==   \* mutant: force without -version is let through
    Dispatch(i) \in {"drop", "version"}

(* An unknown command and force without a version are errors; version only *)
(* reads schema_migrations.                                                *)
EndsAtOnce(i) ==
    Dispatch(i) \in {"drop", "version"} \/ (Dispatch(i) = "force" /\ i.version = 0)

(* migrate.New and the switch. *)
Invoke(p) ==
    /\ pc[p] = "idle"
    /\ commands < MaxCommands
    /\ commands' = commands + 1
    /\ startedAt' = [startedAt EXCEPT ![p] = version]
    /\ \E i \in Invocations :
         LET c == Dispatch(i)
         IN  /\ command' = [command EXCEPT ![p] = i]
             /\ \/ /\ ~EndsAtOnce(i)
                   /\ pc' = [pc EXCEPT ![p] = "lock"]
                   /\ phase' = [phase EXCEPT ![p] = IF c = "up" THEN "up" ELSE "down"]
                   /\ outcome' = [outcome EXCEPT ![p] = NULL]
                \/ /\ EndsAtOnce(i)
                   /\ outcome' = [outcome EXCEPT
                                    ![p] = IF c = "version" /\ version # NilVersion
                                             THEN "ok" ELSE "error"]
                   /\ UNCHANGED <<pc, phase>>
    /\ UNCHANGED <<schemaVars, lock, job, crashes, misforced, seedRefused>>

TakeLockFreely(p) ==   \* mutant: no advisory lock
    /\ pc[p] = "lock"
    /\ lock' = p
    /\ pc' = [pc EXCEPT ![p] = IF Dispatch(command[p]) = "force" THEN "force"
                                                                  ELSE "check"]
    /\ UNCHANGED <<schemaVars, command, phase, job, outcome, historyVars>>

TakeLock(p) ==
    /\ pc[p] = "lock"
    /\ lock = NULL
    /\ lock' = p
    /\ pc' = [pc EXCEPT ![p] = IF Dispatch(command[p]) = "force" THEN "force"
                                                                  ELSE "check"]
    /\ UNCHANGED <<schemaVars, command, phase, job, outcome, historyVars>>

(* ErrLockTimeout, after 15 seconds. *)
LockTimeout(p) ==
    /\ pc[p] = "lock"
    /\ lock # NULL
    /\ End(p, "error")
    /\ UNCHANGED <<schemaVars, historyVars>>

(* runForce: any version from -1 up is written, clean, whatever the truth.  *)
RunForce(p) ==
    /\ pc[p] = "force"
    /\ LET v == command[p].version
       IN  \/ /\ v < NilVersion
              /\ End(p, "error")
              /\ UNCHANGED <<schemaVars, misforced>>
           \/ /\ v >= NilVersion
              /\ version' = v /\ dirty' = FALSE
              /\ misforced' = (misforced \/ applied # {f \in Files : f <= v}
                                         \/ v > 6)
              /\ End(p, "ok")
              /\ UNCHANGED applied
    /\ UNCHANGED <<commands, crashes, startedAt, seedRefused>>

(* The next file of a phase from a version, and the version after it. *)
NextJob(ph, v) ==
    IF ph = "up" THEN [file |-> IF v = NilVersion THEN 1 ELSE v + 1,
                       target |-> IF v = NilVersion THEN 1 ELSE v + 1]
    ELSE [file |-> v, target |-> IF v = 1 THEN NilVersion ELSE v - 1]

Finished(ph, v) == v = IF ph = "up" THEN 6 ELSE NilVersion

PhaseOverAgain(p) ==   \* mutant: the first half of reset is repeated
    \/ /\ Dispatch(command[p]) = "reset"
       /\ pc' = [pc EXCEPT ![p] = "lock"]
       /\ job' = [job EXCEPT ![p] = NoJob]
       /\ lock' = NULL
       /\ UNCHANGED <<phase, command, outcome>>
    \/ Dispatch(command[p]) # "reset" /\ End(p, "ok")

(* The lock is released; runReset goes on with Up, under a lock of its own. *)
PhaseOver(p) ==
    \/ /\ Dispatch(command[p]) = "reset" /\ phase[p] = "down"
       /\ phase' = [phase EXCEPT ![p] = "up"]
       /\ pc' = [pc EXCEPT ![p] = "lock"]
       /\ job' = [job EXCEPT ![p] = NoJob]
       /\ lock' = NULL
       /\ UNCHANGED <<command, outcome>>
    \/ /\ Dispatch(command[p]) # "reset" \/ phase[p] = "up"
       /\ End(p, "ok")

Begin(p, v) ==
    /\ job' = [job EXCEPT ![p] = NextJob(phase[p], v)]
    /\ pc' = [pc EXCEPT ![p] = "mark"]
    /\ UNCHANGED <<lock, command, phase, outcome>>

CheckNoChangeFirst(p) ==   \* mutant: nothing to do is reported before dirty
    /\ pc[p] = "check"
    /\ \/ Finished(phase[p], version) /\ PhaseOver(p)
       \/ ~Finished(phase[p], version) /\ (dirty \/ version > 6) /\ End(p, "error")
       \/ ~Finished(phase[p], version) /\ ~dirty /\ version <= 6 /\ Begin(p, version)
    /\ UNCHANGED <<schemaVars, historyVars>>

(* Up and Down refuse a dirty version, and one that has no file; with      *)
(* nothing to do they report ErrNoChange, which is no error.               *)
Check(p) ==
    /\ pc[p] = "check"
    /\ \/ (dirty \/ version > 6) /\ End(p, "error")
       \/ ~dirty /\ version <= 6 /\ Finished(phase[p], version) /\ PhaseOver(p)
       \/ ~dirty /\ version <= 6 /\ ~Finished(phase[p], version) /\ Begin(p, version)
    /\ UNCHANGED <<schemaVars, historyVars>>

MarkClean(p) ==   \* mutant: the version is not marked dirty before the file
    /\ pc[p] = "mark"
    /\ version' = job[p].target
    /\ pc' = [pc EXCEPT ![p] = "run"]
    /\ UNCHANGED <<dirty, applied, lock, command, phase, job, outcome, historyVars>>

(* SetVersion(target, true) *)
Mark(p) ==
    /\ pc[p] = "mark"
    /\ version' = job[p].target /\ dirty' = TRUE
    /\ pc' = [pc EXCEPT ![p] = "run"]
    /\ UNCHANGED <<applied, lock, command, phase, job, outcome, historyVars>>

(* Run(body).  The schema may refuse a file, and the rows of the tables    *)
(* the seed: see SeedRefused in Migrations.                                 *)
RunFile(p) ==
    /\ pc[p] = "run"
    /\ LET f == job[p].file
           up == phase[p] = "up"
           refused == IF up THEN UpRefused(f) ELSE DownRefused(f)
       IN  \/ /\ ~refused
              /\ applied' = IF up THEN applied \cup {f} ELSE applied \ {f}
              /\ pc' = [pc EXCEPT ![p] = "clean"]
              /\ UNCHANGED <<lock, command, phase, job, outcome, seedRefused>>
           \/ /\ refused
              /\ End(p, "error")
              /\ UNCHANGED <<applied, seedRefused>>
           \/ /\ ~refused /\ up /\ f = 6
              /\ End(p, "error")
              /\ seedRefused' = TRUE
              /\ UNCHANGED applied
    /\ UNCHANGED <<version, dirty, commands, crashes, startedAt, misforced>>

(* SetVersion(target, false), and the next file or the end. *)
Clean(p) ==
    /\ pc[p] = "clean"
    /\ version' = job[p].target /\ dirty' = FALSE
    /\ \/ Finished(phase[p], version') /\ PhaseOver(p)
       \/ ~Finished(phase[p], version') /\ Begin(p, version')
    /\ UNCHANGED <<applied, historyVars>>

(* The process is killed: its session ends, and the lock with it. *)
Crash(p) ==
    /\ pc[p] # "idle"
    /\ crashes < MaxCrashes
    /\ crashes' = crashes + 1
    /\ End(p, NULL)
    /\ UNCHANGED <<schemaVars, commands, startedAt, misforced, seedRefused>>

ProcessStep(p) == TakeLock(p) \/ LockTimeout(p) \/ RunForce(p) \/ Check(p) \/ Mark(p)
                  \/ RunFile(p) \/ Clean(p)

CliNext == \E p \in Process : Invoke(p) \/ ProcessStep(p) \/ Crash(p)

(* A process that is running goes on; nobody has to start one. *)
CliSpec == /\ CliInit /\ [][CliNext]_cliVars
           /\ \A p \in Process : WF_cliVars(ProcessStep(p))

-----------------------------------------------------------------------------
(* Properties *)

(* Whatever is killed or refused, and however many run at once, a version  *)
(* that is not dirty names exactly the files in force, and a dirty one is  *)
(* at most one file off: unless someone forced it to something else.       *)
VersionTrue ==
    LET level == IF version = NilVersion THEN 0 ELSE version
    IN  ~misforced =>
          \E n \in Files \cup {0} : /\ applied = 1..n
                                    /\ n = level \/ (dirty /\ n \in {level - 1, level + 1})

(* A database that is dirty with nobody at work on it has had a process    *)
(* killed, its seed refused by the rows, or a version forced that was not   *)
(* the truth: processes that overlap never make the schema refuse a file.   *)
DirtyHasCause ==
    dirty /\ (\A p \in Process : pc[p] \notin {"run", "clean"})
      => crashes > 0 \/ seedRefused \/ misforced

(* up, down and reset report success only if the files are all applied, or  *)
(* all gone, at that moment, whatever others do between the halves of reset. *)
SuccessIsTrue ==
    [][\A p \in Process :
         pc[p] \in {"check", "clean"} /\ outcome'[p] = "ok" /\ ~misforced =>
           applied' = IF Dispatch(command[p]) = "down" THEN {} ELSE Files]_cliVars

(* A command that was started ends, though it meets a lock, a dirty version *)
(* or a holder of the lock that is killed.                                  *)
CommandsEnd == \A p \in Process : pc[p] # "idle" ~> pc[p] = "idle"

(* README and Makefile: "make migrate-down" rolls back the last migration. *)
MakeDownRollsBackOne ==
    [][\A p \in Process :
         /\ pc[p] \in {"check", "clean"} /\ outcome'[p] = "ok"
         /\ command[p].flag = NULL /\ command[p].argument = "down"
         /\ startedAt[p] > 1
         => version' = startedAt[p] - 1]_cliVars

=============================================================================
