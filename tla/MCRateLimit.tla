---------------------------- MODULE MCRateLimit ----------------------------
(***************************************************************************)
(* Two clients, one of them also reached through a trusted proxy.          *)
(***************************************************************************)
EXTENDS RateLimit, TLC

CONSTANTS c1, lb, g1, g2, s1, s2

Direct == [peer |-> c1, forwarded |-> NULL, real |-> NULL]
DirectWithHeader == [peer |-> c1, forwarded |-> lb, real |-> NULL]
Proxied(f, r) == [peer |-> lb, forwarded |-> f, real |-> r]

AllArrivals == {DirectWithHeader, Proxied(c1, NULL), Proxied(Blank, c1)}

(* One request in two seconds, and two requests in no time. *)
SomeConfigs == {[Requests |-> 1, Duration |-> 2], [Requests |-> 2, Duration |-> 0]}

Workers == Permutations(Goroutine) \cup Permutations(Sweeper)

=============================================================================
