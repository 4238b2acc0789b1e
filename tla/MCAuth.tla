------------------------------- MODULE MCAuth -------------------------------
(***************************************************************************)
(* Instances of AuthService: pools of uuids as model values, the seed's    *)
(* addresses and one or two others, who serves which connection.           *)
(***************************************************************************)
EXTENDS AuthRefinement, TLC

CONSTANTS p1, p2, r1, r2, e1, e2, u1, u2, u3, u4, u5, u6, k1, k2, k3, k4, t1, t2,
          t3, t4, a30, a31, a1, a2, w1

OneServer == [p \in Request |-> r1]
TwoServers == (p1 :> r1) @@ (p2 :> r2)

OneEmail == {AdminEmail, UserEmail, e1}
TwoEmails == {AdminEmail, UserEmail, e1, e2}
OnePassword == {w1}
OnlyAdmin == {AdminEmail}
NoBulks == {<<e1>>}
PairBulks == {<<e1, e2>>, <<e1, e1>>}

(* Connections to one replica are interchangeable. *)
Connections == Permutations(Request)

(* With one connection to each replica, so are the two pairs. *)
Replicas == {(p1 :> p2) @@ (p2 :> p1) @@ (r1 :> r2) @@ (r2 :> r1)}

=============================================================================
