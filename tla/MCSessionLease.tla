--------------------------- MODULE MCSessionLease ---------------------------
EXTENDS SessionLease, TLC

CONSTANTS p1, p2, l1, l2, l3

TwoProcs == {p1, p2}
ThreeLeases == {l1, l2, l3}
TwoAndOne == (l1 :> p1) @@ (l2 :> p1) @@ (l3 :> p2)
Unix == {"unix"}
BothPlatforms == {"unix", "windows"}
Plan(a, b, c) == (l1 :> a) @@ (l2 :> b) @@ (l3 :> c)
TwoAttempts == {Plan("acquire", m, "none") : m \in {"acquire", "reclaim"}}
               \cup {Plan("acquire", "none", m) : m \in {"acquire", "guard", "sweep"}}
ThreeAcquire == {Plan("acquire", "acquire", "acquire")}
=============================================================================
