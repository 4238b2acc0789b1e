----------------------------- MODULE MCBackend -----------------------------
(***************************************************************************)
(* Instances of Backend, with the pools of MCAuth.                         *)
(***************************************************************************)
EXTENDS Backend, TLC

CONSTANTS p1, p2, r1, e1, u1, u2, u3, k1, k2, t1, t2, t3, a30, a31, d1, w1

OneServer == [p \in Request |-> r1]
SeedEmails == SeedEmail
OnlyAdmin == {AdminEmail}
OnePassword == {w1}
Descriptions == {SampleDescription, "changed"}
NoBulks == {<<AdminEmail>>}

OnlyDone == [title |-> NULL, description |-> NULL,
             is_completed |-> TRUE, due_date |-> NULL]
OnlyText == [title |-> NULL, description |-> "changed",
             is_completed |-> NULL, due_date |-> d1]
TwoPatches == {OnlyDone, OnlyText}

Groceries == [title |-> "Sample Todo 1", description |-> NULL, due_date |-> d1]
OneTodo == {Groceries}

Connections == Permutations(Request)

=============================================================================
