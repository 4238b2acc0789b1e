---------------------------- MODULE MCMigrateCli ----------------------------
(***************************************************************************)
(* Two operators at a time, with the command lines of the help text and    *)
(* with those of the Makefile.                                             *)
(***************************************************************************)
EXTENDS MigrateCli, TLC

CONSTANTS p1, p2

Flag(c, v) == [flag |-> c, argument |-> NULL, version |-> v]
Make(c) == [flag |-> NULL, argument |-> c, version |-> 0]

AllInvocations ==
    {Flag(c, 0) : c \in {"up", "down", "reset", "force", "version", "drop"}}
    \cup {Flag("force", v) : v \in {-2, -1, 1, 3, 7}} \cup {Make("up")}

MakeTargets == {Make(c) : c \in {"up", "down", "reset", "version"}}

=============================================================================
