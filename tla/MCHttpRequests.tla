---------------------------- MODULE MCHttpRequests ----------------------------
(* The instance of HttpPublishing that TLC checks: two requests at a time, a   *)
(* primary and a fallback host, tokens of one client or of another.            *)
EXTENDS HttpPublishing, TLC

CONSTANTS r1, r2, alice, bob, p, f

MCHosts == <<p, f>>
MCGrants == {alice, bob}
Symmetry == Permutations(Requests) \union Permutations({alice, bob})

===============================================================================
