-------------------------- MODULE MigrateCliProofs --------------------------
(***************************************************************************)
(* The bookkeeping of cmd/migrate is right for any number of processes,    *)
(* commands and crashes: the recorded version is true, a dirty database    *)
(* has a cause, and what is reported as done is done.                      *)
(***************************************************************************)
EXTENDS MigrateCli, TLAPS

-----------------------------------------------------------------------------
(* The inductive invariant *)

Working == {"check", "force", "mark", "run", "clean"}

(* A process works on the schema exactly while it holds the lock. *)
LockInv == \A p \in Process : pc[p] \in Working <=> lock = p

(* CliTypeOK, split into what SMT and what Zenon proves. *)
FlagsOK == dirty \in BOOLEAN /\ misforced \in BOOLEAN /\ seedRefused \in BOOLEAN

SchemaOK ==
    /\ version \in Int /\ applied \subseteq Files
    /\ version = NilVersion \/ version >= 1
    /\ lock \in Process \cup {NULL}
    /\ commands \in 0..MaxCommands /\ crashes \in 0..MaxCrashes

ProcessesOK ==
    /\ pc \in [Process -> {"idle", "lock", "check", "force", "mark", "run", "clean"}]
    /\ command \in [Process -> Invocations \cup {Idle}]
    /\ phase \in [Process -> {"up", "down"}]
    /\ job \in [Process -> [file : {0} \cup Files, target : {NilVersion} \cup Files]]
    /\ outcome \in [Process -> {NULL, "ok", "error"}]
    /\ startedAt \in [Process -> Int]

(* What a process knows of its own command at each step. *)
ProcInv(p) ==
    /\ pc[p] # "idle" => outcome[p] = NULL /\ ~EndsAtOnce(command[p])
    /\ pc[p] = "force" => Dispatch(command[p]) = "force"
    /\ pc[p] \in Working \ {"force"} => Dispatch(command[p]) # "force"
    /\ pc[p] # "idle" /\ Dispatch(command[p]) = "up" => phase[p] = "up"
    /\ pc[p] # "idle" /\ Dispatch(command[p]) = "down" => phase[p] = "down"

(* The file at hand, and what is in force before and after it. *)
Lower(p) == job[p].file - 1
Before(p) == IF phase[p] = "up" THEN Lower(p) ELSE job[p].file
After(p) == IF phase[p] = "up" THEN job[p].file ELSE Lower(p)

Level(v) == IF v = NilVersion THEN 0 ELSE v

JobInv(p) ==
    /\ pc[p] \in {"mark", "run", "clean"} =>
         job[p].file \in Files /\ Level(job[p].target) = After(p)
    /\ pc[p] = "mark" => ~dirty
    /\ pc[p] \in {"run", "clean"} => dirty /\ version = job[p].target
    /\ pc[p] \in {"mark", "run"} /\ ~misforced => applied = 1..Before(p)
    /\ pc[p] = "clean" /\ ~misforced => applied = 1..After(p)

(* A dirty version is being worked on, or has been left by a mishap. *)
DirtyInv ==
    dirty => \/ crashes > 0 \/ seedRefused \/ misforced
             \/ \E p \in Process : pc[p] \in {"run", "clean"}

CliInv ==
    /\ FlagsOK /\ SchemaOK /\ ProcessesOK
    /\ LockInv
    /\ \A p \in Process : ProcInv(p)
    /\ \A p \in Process : JobInv(p)
    /\ VersionTrue
    /\ DirtyInv

-----------------------------------------------------------------------------
(* What a process dispatches on, once it has passed the first tests. *)
LEMMA CommandNames ==
  ASSUME ProcessesOK, NEW p \in Process, ~EndsAtOnce(command[p])
  PROVE  /\ Dispatch(command[p]) \in {"up", "down", "reset", "force"}
         /\ Dispatch(command[p]) = "force" => command[p].version # 0
         /\ command[p].version \in Int
BY MigrateCliAssumption DEF ProcessesOK, EndsAtOnce, Dispatch, Idle

(* Initially nothing runs and nothing is applied. *)
LEMMA CliInitInv == CliInit => CliInv
<1> SUFFICES ASSUME CliInit PROVE CliInv
  OBVIOUS
<1>1. FlagsOK
  BY DEF CliInit, FlagsOK
<1>2. SchemaOK
  BY MigrateCliAssumption DEF CliInit, SchemaOK, NilVersion, Files
<1>3. ProcessesOK
  BY DEF CliInit, ProcessesOK, NilVersion, NoJob, Files
<1>4. LockInv
  BY NullAssumption DEF CliInit, LockInv, Working
<1>5. \A p \in Process : ProcInv(p) /\ JobInv(p)
  BY DEF CliInit, ProcInv, JobInv, Working
<1>6. VersionTrue
  <2>1. applied = 1..0
    BY DEF CliInit
  <2> QED
    BY <2>1 DEF CliInit, VersionTrue, NilVersion, Files
<1>7. DirtyInv
  BY DEF CliInit, DirtyInv
<1> QED
  BY <1>1, <1>2, <1>3, <1>4, <1>5, <1>6, <1>7 DEF CliInv

-----------------------------------------------------------------------------
(* A step of one process leaves the locals of the others alone. *)
OnlyLocal(p) ==
    \A q \in Process \ {p} : /\ pc'[q] = pc[q] /\ command'[q] = command[q]
                             /\ phase'[q] = phase[q] /\ job'[q] = job[q]
                             /\ outcome'[q] = outcome[q]

SchemaKept == UNCHANGED <<version, dirty, applied, misforced>>

(* What is left to show of a step: its effect on the process that takes it. *)
LEMMA LocalStep ==
  ASSUME CliInv, NEW p \in Process, OnlyLocal(p),
         SchemaKept \/ pc[p] \in Working,
         pc'[p] \in Working <=> lock' = p,
         lock' = lock \/ (lock \in {p, NULL} /\ lock' \in {p, NULL}),
         ProcInv(p)', JobInv(p)'
  PROVE  LockInv' /\ \A q \in Process : ProcInv(q)' /\ JobInv(q)'
<1> SUFFICES ASSUME NEW q \in Process \ {p}
             PROVE  (pc'[q] \in Working <=> lock' = q) /\ ProcInv(q)' /\ JobInv(q)'
  BY DEF LockInv
<1> USE DEF CliInv
<1>1. pc'[q] \in Working <=> lock' = q
  BY NullAssumption DEF OnlyLocal, LockInv
<1>2. ProcInv(q)'
  BY DEF OnlyLocal, ProcInv
<1>3. JobInv(q)'
  <2>1. CASE SchemaKept
    BY <2>1 DEF OnlyLocal, JobInv, SchemaKept, Before, After, Lower
  <2>2. CASE pc[p] \in Working
    <3>1. pc'[q] \notin {"mark", "run", "clean"}
      BY <2>2 DEF OnlyLocal, LockInv, Working
    <3> QED
      BY <3>1 DEF JobInv
  <2> QED
    BY <2>1, <2>2
<1> QED
  BY <1>1, <1>2, <1>3

(* A dirty version keeps its cause when p was not the one working on it. *)
LEMMA DirtyKept ==
  ASSUME CliInv, NEW p \in Process, OnlyLocal(p), pc[p] \notin {"run", "clean"},
         dirty' => dirty, crashes' = crashes \/ crashes' > 0,
         seedRefused => seedRefused', misforced => misforced'
  PROVE  DirtyInv'
BY DEF CliInv, DirtyInv, OnlyLocal

(* End(p, how) in the terms of the lemmas above. *)
LEMMA EndStep ==
  ASSUME CliInv, NEW p \in Process, NEW how \in {NULL, "ok", "error"}, End(p, how),
         startedAt' = startedAt
  PROVE  /\ OnlyLocal(p) /\ ProcessesOK'
         /\ pc'[p] = "idle" /\ outcome'[p] = how
         /\ pc'[p] \in Working <=> lock' = p
         /\ lock' = lock \/ (lock \in {p, NULL} /\ lock' \in {p, NULL})
         /\ lock' \in Process \cup {NULL}
         /\ ProcInv(p)' /\ JobInv(p)'
<1> USE DEF CliInv
<1>1. OnlyLocal(p)
  BY DEF End, OnlyLocal, ProcessesOK
<1>2. ProcessesOK'
  BY DEF End, ProcessesOK, NoJob
<1>3. pc'[p] = "idle" /\ outcome'[p] = how
  BY DEF End, ProcessesOK
<1>4. /\ pc'[p] \in Working <=> lock' = p
      /\ lock' = lock \/ (lock \in {p, NULL} /\ lock' \in {p, NULL})
      /\ lock' \in Process \cup {NULL}
  BY <1>3, NullAssumption DEF End, Working, SchemaOK
<1>5. ProcInv(p)' /\ JobInv(p)'
  BY <1>3 DEF ProcInv, JobInv, Working
<1> QED
  BY <1>1, <1>2, <1>3, <1>4, <1>5

-----------------------------------------------------------------------------
(* One lemma per action. *)

LEMMA InvokeInv ==
  ASSUME CliInv, NEW p \in Process, Invoke(p)
  PROVE  CliInv'
<1> USE DEF CliInv
<1>1. PICK i \in Invocations :
        /\ command' = [command EXCEPT ![p] = i]
        /\ \/ /\ ~EndsAtOnce(i)
              /\ pc' = [pc EXCEPT ![p] = "lock"]
              /\ phase' = [phase EXCEPT ![p] = IF Dispatch(i) = "up" THEN "up" ELSE "down"]
              /\ outcome' = [outcome EXCEPT ![p] = NULL]
           \/ /\ EndsAtOnce(i)
              /\ \E how \in {"ok", "error"} : outcome' = [outcome EXCEPT ![p] = how]
              /\ UNCHANGED <<pc, phase>>
  BY DEF Invoke
<1>2. /\ pc[p] = "idle" /\ commands' = commands + 1 /\ commands < MaxCommands
      /\ startedAt' = [startedAt EXCEPT ![p] = version]
      /\ UNCHANGED <<version, dirty, applied, lock, job, crashes, misforced, seedRefused>>
  BY DEF Invoke, schemaVars
<1>3. FlagsOK'
  BY <1>2 DEF FlagsOK
<1>4. SchemaOK'
  BY <1>2, MigrateCliAssumption DEF SchemaOK
<1>5. ProcessesOK' /\ OnlyLocal(p) /\ command'[p] = i /\ pc'[p] \in {"idle", "lock"}
  BY <1>1, <1>2 DEF ProcessesOK, SchemaOK, OnlyLocal
<1>6. ProcInv(p)' /\ JobInv(p)'
  <2>1. CASE EndsAtOnce(i)
    BY <1>1, <1>2, <2>1 DEF ProcInv, JobInv, Working, ProcessesOK
  <2>2. CASE ~EndsAtOnce(i)
    <3>1. /\ pc'[p] = "lock" /\ outcome'[p] = NULL /\ command'[p] = i
          /\ phase'[p] = IF Dispatch(i) = "up" THEN "up" ELSE "down"
      BY <1>1, <2>2 DEF ProcessesOK
    <3> QED
      BY <3>1, <2>2 DEF ProcInv, JobInv, Working, Dispatch, EndsAtOnce
  <2> QED
    BY <2>1, <2>2
<1>7. lock # p /\ pc'[p] \notin Working
  BY <1>2, <1>5 DEF LockInv, Working
<1>8. LockInv' /\ \A q \in Process : ProcInv(q)' /\ JobInv(q)'
  BY <1>2, <1>5, <1>6, <1>7, LocalStep DEF SchemaKept
<1>9. VersionTrue'
  BY <1>2 DEF VersionTrue
<1>10. DirtyInv'
  BY <1>2, <1>5, DirtyKept
<1> QED
  BY <1>3, <1>4, <1>5, <1>8, <1>9, <1>10

LEMMA TakeLockInv ==
  ASSUME CliInv, NEW p \in Process, TakeLock(p)
  PROVE  CliInv'
<1> USE DEF CliInv
<1>1. /\ pc[p] = "lock" /\ lock = NULL /\ lock' = p
      /\ UNCHANGED <<version, dirty, applied, command, phase, job, outcome,
                     commands, crashes, startedAt, misforced, seedRefused>>
  BY DEF TakeLock, schemaVars, historyVars
<1>2. pc' = [pc EXCEPT ![p] = IF Dispatch(command[p]) = "force" THEN "force" ELSE "check"]
  BY DEF TakeLock
<1>3. FlagsOK' /\ SchemaOK'
  BY <1>1 DEF FlagsOK, SchemaOK
<1>4. ProcessesOK' /\ OnlyLocal(p)
  BY <1>1, <1>2 DEF ProcessesOK, OnlyLocal
<1>5. pc'[p] = IF Dispatch(command[p]) = "force" THEN "force" ELSE "check"
  BY <1>2 DEF ProcessesOK
<1>6. ProcInv(p)' /\ JobInv(p)'
  BY <1>1, <1>5 DEF ProcInv, JobInv, Working, Dispatch, EndsAtOnce
<1>7. LockInv' /\ \A q \in Process : ProcInv(q)' /\ JobInv(q)'
  BY <1>1, <1>4, <1>5, <1>6, LocalStep DEF SchemaKept, Working
<1>8. VersionTrue'
  BY <1>1 DEF VersionTrue
<1>9. DirtyInv'
  BY <1>1, <1>4, DirtyKept
<1> QED
  BY <1>3, <1>4, <1>7, <1>8, <1>9

LEMMA LockTimeoutInv ==
  ASSUME CliInv, NEW p \in Process, LockTimeout(p)
  PROVE  CliInv'
<1> USE DEF CliInv
<1>1. /\ pc[p] = "lock" /\ End(p, "error")
      /\ UNCHANGED <<version, dirty, applied, commands, crashes, startedAt,
                     misforced, seedRefused>>
  BY DEF LockTimeout, schemaVars, historyVars
<1>2. /\ OnlyLocal(p) /\ ProcessesOK' /\ lock' \in Process \cup {NULL}
      /\ LockInv' /\ \A q \in Process : ProcInv(q)' /\ JobInv(q)'
  BY <1>1, EndStep, LocalStep DEF SchemaKept
<1>3. FlagsOK' /\ SchemaOK'
  BY <1>1, <1>2 DEF FlagsOK, SchemaOK
<1>4. VersionTrue'
  BY <1>1 DEF VersionTrue
<1>5. DirtyInv'
  BY <1>1, <1>2, DirtyKept
<1> QED
  BY <1>2, <1>3, <1>4, <1>5

LEMMA CrashInv ==
  ASSUME CliInv, NEW p \in Process, Crash(p)
  PROVE  CliInv'
<1> USE DEF CliInv
<1>1. /\ End(p, NULL) /\ crashes' = crashes + 1 /\ crashes < MaxCrashes
      /\ UNCHANGED <<version, dirty, applied, commands, startedAt, misforced, seedRefused>>
  BY DEF Crash, schemaVars
<1>2. /\ ProcessesOK' /\ lock' \in Process \cup {NULL}
      /\ LockInv' /\ \A q \in Process : ProcInv(q)' /\ JobInv(q)'
  BY <1>1, EndStep, LocalStep DEF SchemaKept
<1>3. FlagsOK'
  BY <1>1 DEF FlagsOK
<1>4. SchemaOK' /\ crashes' > 0
  BY <1>1, <1>2, MigrateCliAssumption DEF SchemaOK
<1>5. VersionTrue'
  BY <1>1 DEF VersionTrue
<1>6. DirtyInv'
  BY <1>4 DEF DirtyInv
<1> QED
  BY <1>2, <1>3, <1>4, <1>5, <1>6

LEMMA RunForceInv ==
  ASSUME CliInv, NEW p \in Process, RunForce(p)
  PROVE  CliInv'
<1> DEFINE v == command[p].version
           right == applied = {f \in Files : f <= v} /\ v <= 6
<1> USE DEF CliInv
<1>1. /\ pc[p] = "force" /\ UNCHANGED <<applied, commands, crashes, startedAt, seedRefused>>
      /\ \/ End(p, "error") /\ UNCHANGED <<version, dirty, misforced>>
         \/ /\ v >= NilVersion /\ version' = v /\ dirty' = FALSE /\ End(p, "ok")
            /\ misforced' = (misforced \/ applied # {f \in Files : f <= v} \/ v > 6)
  BY DEF RunForce, schemaVars
<1>2. v \in Int /\ v # 0
  BY <1>1, CommandNames DEF ProcInv
<1>3. /\ OnlyLocal(p) /\ ProcessesOK' /\ lock' \in Process \cup {NULL}
      /\ LockInv' /\ \A q \in Process : ProcInv(q)' /\ JobInv(q)'
  BY <1>1, EndStep, LocalStep DEF Working
<1>4. FlagsOK'
  BY <1>1 DEF FlagsOK
<1>5. SchemaOK'
  BY <1>1, <1>2, <1>3 DEF SchemaOK, NilVersion
<1>6. VersionTrue'
  <2>1. CASE UNCHANGED <<version, dirty, misforced>>
    BY <1>1, <2>1 DEF VersionTrue
  <2>2. CASE version' = v /\ v >= NilVersion /\ (~misforced' => right)
    <3>1. SUFFICES ASSUME ~misforced'
                   PROVE  \E n \in Files \cup {0} : applied' = 1..n /\ n = Level(version')
      BY DEF VersionTrue, Level
    <3>2. Level(v) \in Files \cup {0} /\ {f \in Files : f <= v} = 1..Level(v)
      <4>1. v \in {NilVersion} \cup Files
        BY <1>2, <2>2, <3>1 DEF Files, NilVersion
      <4> HIDE DEF v
      <4> QED
        BY <4>1 DEF Files, Level, NilVersion
    <3>3. applied' = 1..Level(v)
      BY <1>1, <2>2, <3>1, <3>2
    <3> QED
      BY <2>2, <3>2, <3>3
  <2>3. ~(v > 6) => v <= 6
    BY <1>2
  <2> QED
    BY <1>1, <2>1, <2>2, <2>3, Zenon
<1>7. DirtyInv'
  <2>1. CASE dirty' = FALSE
    BY <2>1 DEF DirtyInv
  <2>2. CASE UNCHANGED <<version, dirty, misforced>>
    BY <1>1, <1>3, <2>2, DirtyKept
  <2> QED
    BY <1>1, <2>1, <2>2
<1> QED
  BY <1>3, <1>4, <1>5, <1>6, <1>7

(* Begin(p, v): the next file, from a version that is true. *)
LEMMA BeginStep ==
  ASSUME CliInv, NEW p \in Process, pc[p] \in {"check", "clean"}, Begin(p, version'),
         version' \in {NilVersion} \cup Files, ~Finished(phase[p], version'),
         ~dirty', ~misforced' => applied' = 1..Level(version'),
         startedAt' = startedAt
  PROVE  /\ OnlyLocal(p) /\ ProcessesOK' /\ lock' = lock
         /\ LockInv' /\ \A q \in Process : ProcInv(q)' /\ JobInv(q)'
<1> USE DEF CliInv
<1>1. /\ job' = [job EXCEPT ![p] = NextJob(phase[p], version')]
      /\ pc' = [pc EXCEPT ![p] = "mark"]
      /\ UNCHANGED <<lock, command, phase, outcome>>
  BY DEF Begin
<1>2. phase[p] \in {"up", "down"} /\ pc'[p] = "mark" /\ job'[p] = NextJob(phase[p], version')
  BY <1>1 DEF ProcessesOK
<1>3. /\ job'[p].file \in Files /\ job'[p].target \in {NilVersion} \cup Files
      /\ job'[p] \in [file : {0} \cup Files, target : {NilVersion} \cup Files]
      /\ phase[p] = "up" => /\ job'[p].file - 1 = Level(version')
                            /\ Level(job'[p].target) = job'[p].file
      /\ phase[p] = "down" => /\ job'[p].file = Level(version')
                              /\ Level(job'[p].target) = job'[p].file - 1
  BY <1>2 DEF NextJob, Finished, Level, NilVersion, Files
<1>4. ProcessesOK' /\ OnlyLocal(p)
  BY <1>1, <1>2, <1>3 DEF ProcessesOK, OnlyLocal
<1>5. ProcInv(p)'
  BY <1>1, <1>2 DEF ProcInv, Working
<1>6. JobInv(p)'
  <2>1. Level(job'[p].target) = After(p)' /\ Level(version') = Before(p)'
    BY <1>1, <1>2, <1>3 DEF Before, After, Lower
  <2> QED
    BY <1>2, <1>3, <2>1 DEF JobInv, Level
<1> QED
  BY <1>1, <1>2, <1>4, <1>5, <1>6, LocalStep DEF LockInv, Working

(* PhaseOver(p): a command ends well, or reset goes on to its second half. *)
LEMMA PhaseOverStep ==
  ASSUME CliInv, NEW p \in Process, pc[p] \in {"check", "clean"}, PhaseOver(p),
         startedAt' = startedAt
  PROVE  /\ OnlyLocal(p) /\ ProcessesOK' /\ lock' \in Process \cup {NULL}
         /\ LockInv' /\ \A q \in Process : ProcInv(q)' /\ JobInv(q)'
<1> USE DEF CliInv
<1>1. CASE End(p, "ok")
  BY <1>1, EndStep, LocalStep DEF Working
<1>2. CASE /\ Dispatch(command[p]) = "reset"
           /\ phase' = [phase EXCEPT ![p] = "up"]
           /\ pc' = [pc EXCEPT ![p] = "lock"]
           /\ job' = [job EXCEPT ![p] = NoJob]
           /\ lock' = NULL
           /\ UNCHANGED <<command, outcome>>
  <2>1. ProcessesOK' /\ OnlyLocal(p) /\ pc'[p] = "lock"
    BY <1>2 DEF ProcessesOK, OnlyLocal, NoJob
  <2>2. ProcInv(p)' /\ JobInv(p)'
    BY <1>2, <2>1 DEF ProcInv, JobInv, Working, Dispatch, EndsAtOnce
  <2>3. lock = p
    BY DEF LockInv, Working
  <2> QED
    BY <1>2, <2>1, <2>2, <2>3, NullAssumption, LocalStep DEF Working
<1> QED
  BY <1>1, <1>2 DEF PhaseOver

(* In a clean database the version that is not forced is exactly right. *)
LEMMA CleanVersion ==
  ASSUME CliInv, ~dirty, ~misforced
  PROVE  applied = 1..Level(version)
BY DEF CliInv, VersionTrue, Level

LEMMA CheckInv ==
  ASSUME CliInv, NEW p \in Process, Check(p)
  PROVE  CliInv'
<1> USE DEF CliInv
<1>1. /\ pc[p] = "check"
      /\ UNCHANGED <<version, dirty, applied, commands, crashes, startedAt,
                     misforced, seedRefused>>
  BY DEF Check, schemaVars, historyVars
<1>2. /\ OnlyLocal(p) /\ ProcessesOK' /\ lock' \in Process \cup {NULL}
      /\ LockInv' /\ \A q \in Process : ProcInv(q)' /\ JobInv(q)'
  <2>1. CASE End(p, "error")
    BY <1>1, <2>1, EndStep, LocalStep DEF SchemaKept
  <2>2. CASE PhaseOver(p)
    BY <1>1, <2>2, PhaseOverStep
  <2>3. CASE ~dirty /\ version <= 6 /\ ~Finished(phase[p], version) /\ Begin(p, version)
    <3>1. version' \in {NilVersion} \cup Files
      BY <1>1, <2>3 DEF SchemaOK, Files, NilVersion
    <3>2. ~misforced' => applied' = 1..Level(version')
      BY <1>1, <2>3, CleanVersion
    <3> QED
      BY <1>1, <2>3, <3>1, <3>2, BeginStep DEF SchemaOK
  <2> QED
    BY <2>1, <2>2, <2>3 DEF Check
<1>3. FlagsOK' /\ SchemaOK'
  BY <1>1, <1>2 DEF FlagsOK, SchemaOK
<1>4. VersionTrue'
  BY <1>1 DEF VersionTrue
<1>5. DirtyInv'
  BY <1>1, <1>2, DirtyKept
<1> QED
  BY <1>2, <1>3, <1>4, <1>5

(* While a file is at hand the version is at most one off. *)
LEMMA JobVersion ==
  ASSUME ProcessesOK', NEW p \in Process, JobInv(p)', pc'[p] \in {"run", "clean"}
  PROVE  VersionTrue'
<1>1. job'[p].file \in Files /\ phase'[p] \in {"up", "down"}
  BY DEF JobInv, ProcessesOK
<1>2. dirty' /\ Level(version') = After(p)'
  BY DEF JobInv, Level
<1>3. SUFFICES ASSUME ~misforced'
               PROVE  \E n \in Files \cup {0} :
                        /\ applied' = 1..n
                        /\ n \in {Level(version') - 1, Level(version'), Level(version') + 1}
  BY <1>2 DEF VersionTrue, Level
<1>4. applied' = 1..(Before(p)') \/ applied' = 1..(After(p)')
  BY <1>3 DEF JobInv
<1>5. /\ Before(p)' \in Files \cup {0} /\ After(p)' \in Files \cup {0}
      /\ Before(p)' \in {After(p)' - 1, After(p)' + 1}
  BY <1>1 DEF Before, After, Lower, Files
<1> QED
  BY <1>2, <1>4, <1>5

LEMMA MarkInv ==
  ASSUME CliInv, NEW p \in Process, Mark(p)
  PROVE  CliInv'
<1> USE DEF CliInv
<1>1. /\ pc[p] = "mark" /\ version' = job[p].target /\ dirty' = TRUE
      /\ pc' = [pc EXCEPT ![p] = "run"]
      /\ UNCHANGED <<applied, lock, command, phase, job, outcome, commands, crashes,
                     startedAt, misforced, seedRefused>>
  BY DEF Mark, historyVars
<1>2. FlagsOK'
  BY <1>1 DEF FlagsOK
<1>3. SchemaOK'
  <2>1. job[p].target \in {NilVersion} \cup Files
    BY DEF ProcessesOK
  <2> QED
    BY <1>1, <2>1 DEF SchemaOK, Files, NilVersion
<1>4. ProcessesOK' /\ OnlyLocal(p) /\ pc'[p] = "run"
  BY <1>1 DEF ProcessesOK, OnlyLocal
<1>5. ProcInv(p)'
  BY <1>1, <1>4 DEF ProcInv, Working
<1>6. JobInv(p)'
  BY <1>1, <1>4 DEF JobInv, Before, After, Lower
<1>7. LockInv' /\ \A q \in Process : ProcInv(q)' /\ JobInv(q)'
  BY <1>1, <1>4, <1>5, <1>6, LocalStep DEF LockInv, Working
<1>8. VersionTrue'
  BY <1>1, <1>4, <1>6, JobVersion
<1>9. DirtyInv'
  BY <1>4 DEF DirtyInv
<1> QED
  BY <1>2, <1>3, <1>4, <1>7, <1>8, <1>9

(* The schema never refuses the file at hand, unless a wrong force came    *)
(* before it: exactly the files below it are in force.                     *)
LEMMA NeverRefused ==
  ASSUME CliInv, NEW p \in Process, pc[p] = "run", ~misforced
  PROVE  IF phase[p] = "up" THEN ~UpRefused(job[p].file) ELSE ~DownRefused(job[p].file)
<1> DEFINE f == job[p].file
<1>1. f \in Files /\ applied = 1..Before(p)
  BY DEF CliInv, JobInv
<1>2. CASE phase[p] = "up"
  <2>1. f \in 1..6 /\ applied = 1..(f - 1)
    BY <1>1, <1>2 DEF Before, Lower, Files
  <2> HIDE DEF f
  <2>2. f \notin applied
    BY <2>1
  <2>3. Needs(f) \subseteq applied
    BY <2>1 DEF Needs
  <2> QED
    BY <1>2, <2>2, <2>3 DEF UpRefused, f
<1>3. CASE phase[p] # "up"
  BY <1>1, <1>3 DEF Before, DownRefused
<1> QED
  BY <1>2, <1>3

LEMMA RunFileInv ==
  ASSUME CliInv, NEW p \in Process, RunFile(p)
  PROVE  CliInv'
<1> DEFINE f == job[p].file
           up == phase[p] = "up"
<1> USE DEF CliInv
<1>1. /\ pc[p] = "run"
      /\ UNCHANGED <<version, dirty, commands, crashes, startedAt, misforced>>
      /\ \/ /\ applied' = IF up THEN applied \cup {f} ELSE applied \ {f}
            /\ pc' = [pc EXCEPT ![p] = "clean"]
            /\ UNCHANGED <<lock, command, phase, job, outcome, seedRefused>>
         \/ /\ End(p, "error") /\ UNCHANGED applied
            /\ \/ seedRefused' = TRUE
               \/ UNCHANGED seedRefused /\ (IF up THEN UpRefused(f) ELSE DownRefused(f))
  BY DEF RunFile
<1>2. FlagsOK'
  BY <1>1 DEF FlagsOK
<1>3. CASE /\ End(p, "error") /\ UNCHANGED applied
           /\ \/ seedRefused' = TRUE
              \/ UNCHANGED seedRefused /\ (IF up THEN UpRefused(f) ELSE DownRefused(f))
  <2>1. /\ ProcessesOK' /\ lock' \in Process \cup {NULL}
        /\ LockInv' /\ \A q \in Process : ProcInv(q)' /\ JobInv(q)'
    BY <1>1, <1>3, EndStep, LocalStep DEF SchemaKept
  <2>2. SchemaOK'
    BY <1>1, <1>3, <2>1 DEF SchemaOK
  <2>3. VersionTrue'
    BY <1>1, <1>3 DEF VersionTrue
  <2>4. DirtyInv'
    BY <1>1, <1>3, NeverRefused DEF DirtyInv
  <2> QED
    BY <1>2, <2>1, <2>2, <2>3, <2>4
<1>4. CASE /\ applied' = IF up THEN applied \cup {f} ELSE applied \ {f}
           /\ pc' = [pc EXCEPT ![p] = "clean"]
           /\ UNCHANGED <<lock, command, phase, job, outcome, seedRefused>>
  <2>1. f \in Files
    BY <1>1 DEF JobInv
  <2>2. SchemaOK'
    BY <1>1, <1>4, <2>1 DEF SchemaOK
  <2>3. ProcessesOK' /\ OnlyLocal(p) /\ pc'[p] = "clean"
    BY <1>1, <1>4 DEF ProcessesOK, OnlyLocal
  <2>4. ProcInv(p)'
    BY <1>1, <1>4, <2>3 DEF ProcInv, Working
  <2>5. ~misforced' => applied' = 1..After(p)'
    <3>1. SUFFICES ASSUME ~misforced PROVE applied' = 1..After(p)
      BY <1>1, <1>4 DEF After, Lower
    <3>2. applied = 1..Before(p)
      BY <1>1, <3>1 DEF JobInv
    <3>3. CASE up
      BY <1>4, <2>1, <3>2, <3>3 DEF Before, After, Lower, Files
    <3>4. CASE ~up
      BY <1>4, <2>1, <3>2, <3>4 DEF Before, After, Lower, Files
    <3> QED
      BY <3>3, <3>4
  <2>6. JobInv(p)'
    BY <1>1, <1>4, <2>3, <2>5 DEF JobInv, After, Lower
  <2>7. LockInv' /\ \A q \in Process : ProcInv(q)' /\ JobInv(q)'
    BY <1>1, <1>4, <2>3, <2>4, <2>6, LocalStep DEF LockInv, Working
  <2>8. VersionTrue'
    BY <1>1, <2>3, <2>6, JobVersion
  <2>9. DirtyInv'
    BY <2>3 DEF DirtyInv
  <2> QED
    BY <1>2, <2>2, <2>3, <2>7, <2>8, <2>9
<1> QED
  BY <1>1, <1>3, <1>4

LEMMA CleanInv ==
  ASSUME CliInv, NEW p \in Process, Clean(p)
  PROVE  CliInv'
<1> USE DEF CliInv
<1>1. /\ pc[p] = "clean" /\ version' = job[p].target /\ dirty' = FALSE
      /\ UNCHANGED <<applied, commands, crashes, startedAt, misforced, seedRefused>>
      /\ \/ Finished(phase[p], version') /\ PhaseOver(p)
         \/ ~Finished(phase[p], version') /\ Begin(p, version')
  BY DEF Clean, historyVars
<1>2. version' \in {NilVersion} \cup Files
  BY <1>1 DEF ProcessesOK
<1>3. ~misforced' => applied' = 1..Level(version')
  BY <1>1 DEF JobInv
<1>4. /\ OnlyLocal(p) /\ ProcessesOK' /\ lock' \in Process \cup {NULL}
      /\ LockInv' /\ \A q \in Process : ProcInv(q)' /\ JobInv(q)'
  BY <1>1, <1>2, <1>3, PhaseOverStep, BeginStep DEF SchemaOK
<1>5. FlagsOK'
  BY <1>1 DEF FlagsOK
<1>6. SchemaOK'
  BY <1>1, <1>2, <1>4 DEF SchemaOK, Files, NilVersion
<1>7. VersionTrue'
  <2>1. Level(version') \in Files \cup {0}
    BY <1>2 DEF Level, Files, NilVersion
  <2> QED
    BY <1>3, <2>1 DEF VersionTrue, Level
<1>8. DirtyInv'
  BY <1>1 DEF DirtyInv
<1> QED
  BY <1>4, <1>5, <1>6, <1>7, <1>8

-----------------------------------------------------------------------------
(* The invariant holds for ever. *)
LEMMA CliStepInv == CliInv /\ [CliNext]_cliVars => CliInv'
<1> SUFFICES ASSUME CliInv, [CliNext]_cliVars PROVE CliInv'
  OBVIOUS
<1>1. CASE UNCHANGED cliVars
  BY <1>1 DEF cliVars, schemaVars, processVars, historyVars, CliInv, FlagsOK, SchemaOK,
     ProcessesOK, LockInv, ProcInv, JobInv, Before, After, Lower, VersionTrue, DirtyInv
<1>2. ASSUME NEW p \in Process, Invoke(p) \/ ProcessStep(p) \/ Crash(p) PROVE CliInv'
  BY <1>2, InvokeInv, TakeLockInv, LockTimeoutInv, RunForceInv, CheckInv, MarkInv,
     RunFileInv, CleanInv, CrashInv DEF ProcessStep
<1> QED
  BY <1>1, <1>2 DEF CliNext

LEMMA CliInvariant == CliSpec => []CliInv
<1>1. CliInit => CliInv
  BY CliInitInv
<1>2. CliInv /\ [CliNext]_cliVars => CliInv'
  BY CliStepInv
<1> QED
  BY <1>1, <1>2, PTL DEF CliSpec

(* Type correctness: no sequence of commands, however they overlap or are  *)
(* killed, records a version that golang-migrate could not have written.   *)
THEOREM CliTypeCorrect == CliSpec => []CliTypeOK
<1>1. CliInv => CliTypeOK
  BY ZenonT(30) DEF CliInv, CliTypeOK, FlagsOK, SchemaOK, ProcessesOK
<1> QED
  BY <1>1, CliInvariant, PTL

(* schema_migrations tells the truth, up to the file at hand, for any      *)
(* number of concurrent and killed processes, as long as nobody forces a   *)
(* version that is not in force.                                           *)
THEOREM VersionAlwaysTrue == CliSpec => []VersionTrue
<1>1. CliInv => VersionTrue
  BY DEF CliInv
<1> QED
  BY <1>1, CliInvariant, PTL

(* A version that is dirty with nobody at work had a crash, a seed that    *)
(* the rows refused or a wrong force before it: however many processes     *)
(* overlap, the schema refuses them no file (NeverRefused).                *)
THEOREM DirtyAlwaysHasCause == CliSpec => []DirtyHasCause
<1>1. CliInv => DirtyHasCause
  BY DEF CliInv, DirtyHasCause, DirtyInv
<1> QED
  BY <1>1, CliInvariant, PTL

(* A phase that has finished with a true version has done its work. *)
LEMMA FinishedMeansDone ==
  ASSUME CliInv, NEW p \in Process, pc[p] \in {"check", "clean"}, PhaseOver(p),
         outcome'[p] = "ok", NEW v, Finished(phase[p], v)
  PROVE  1..Level(v) = IF Dispatch(command[p]) = "down" THEN {} ELSE Files
<1>1. outcome[p] # "ok"
  BY NullAssumption DEF CliInv, ProcInv
<1>2. Dispatch(command[p]) # "reset" \/ phase[p] = "up"
  BY <1>1 DEF PhaseOver
<1>3. phase[p] \in {"up", "down"} /\ Dispatch(command[p]) \in {"up", "down", "reset"}
  BY CommandNames DEF CliInv, ProcInv, ProcessesOK, Working
<1>4. phase[p] = "down" <=> Dispatch(command[p]) = "down"
  BY <1>2, <1>3 DEF CliInv, ProcInv
<1>5. Level(v) = IF phase[p] = "up" THEN 6 ELSE 0
  BY DEF Finished, Level, NilVersion
<1>6. 1..0 = {} /\ 1..6 = Files
  BY DEF Files
<1> QED
  BY <1>3, <1>4, <1>5, <1>6

(* up, down and reset report success only when it is true, whatever other  *)
(* processes do meanwhile.                                                 *)
THEOREM SuccessAlwaysTrue == CliSpec => SuccessIsTrue
<1> DEFINE Done(p) == pc[p] \in {"check", "clean"} /\ outcome'[p] = "ok" /\ ~misforced =>
                        applied' = IF Dispatch(command[p]) = "down" THEN {} ELSE Files
<1>1. ASSUME CliInv, CliNext, NEW p \in Process, pc[p] \in {"check", "clean"},
             outcome'[p] = "ok", ~misforced
      PROVE  applied' = IF Dispatch(command[p]) = "down" THEN {} ELSE Files
  <2>1. outcome[p] # "ok" /\ NULL # "ok"
    BY <1>1, NullAssumption DEF CliInv, ProcInv
  <2>2. PICK q \in Process : Invoke(q) \/ ProcessStep(q) \/ Crash(q)
    BY <1>1 DEF CliNext
  <2>3. p = q
    BY <1>1, <2>1, <2>2 DEF CliInv, ProcessesOK, Invoke, ProcessStep, TakeLock, LockTimeout,
       RunForce, Check, Mark, RunFile, Clean, Crash, PhaseOver, Begin, End
  <2>4. Check(p) \/ Clean(p)
    BY <1>1, <2>1, <2>2, <2>3 DEF CliInv, ProcessesOK, Invoke, ProcessStep, TakeLock,
       LockTimeout, RunForce, Mark, RunFile, Crash, End
  <2>5. CASE Check(p)
    <3>1. ~dirty /\ Finished(phase[p], version) /\ PhaseOver(p) /\ applied' = applied
      <4>1. ~End(p, "error") /\ ~Begin(p, version)
        BY <1>1, <2>1 DEF CliInv, ProcessesOK, Begin, End
      <4> QED
        BY <2>5, <4>1 DEF Check, schemaVars
    <3>2. applied = 1..Level(version)
      BY <1>1, <3>1, CleanVersion
    <3> QED
      BY <1>1, <3>1, <3>2, FinishedMeansDone
  <2>6. CASE Clean(p)
    <3>1. /\ pc[p] = "clean" /\ version' = job[p].target /\ applied' = applied
          /\ Finished(phase[p], version') /\ PhaseOver(p)
      BY <1>1, <2>1, <2>6 DEF Clean, Begin
    <3>2. applied = 1..Level(version')
      BY <1>1, <3>1 DEF CliInv, JobInv
    <3> QED
      BY <1>1, <3>1, <3>2, FinishedMeansDone
  <2> QED
    BY <2>4, <2>5, <2>6
<1>2. CliInv /\ [CliNext]_cliVars => [\A p \in Process : Done(p)]_cliVars
  BY <1>1
<1>3. CliSpec => [][\A p \in Process : Done(p)]_cliVars
  BY <1>2, CliInvariant, PTL DEF CliSpec
<1> QED
  BY <1>3 DEF SuccessIsTrue

=============================================================================
