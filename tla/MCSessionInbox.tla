--------------------------- MODULE MCSessionInbox ---------------------------
EXTENDS SessionInbox, TLC

CONSTANTS s1, s2, s3, b1, k1, k2, p1, p2

Stems == {s1, s2, s3}
OneBody == {b1}
TwoKeys == {k1, k2}
TwoProcs == {p1, p2}

(* Two processes, one of which dies, and a write that fails; and one whose  *)
(* clients name their requests, with a manifest that is damaged.            *)
Crashing == [procs |-> TwoProcs, bodies |-> 2, intents |-> Intents, keys |-> {},
             faults |-> {"crash", "write"}]
Damaged == [procs |-> {p1}, bodies |-> 3, intents |-> {"followup"}, keys |-> TwoKeys,
            faults |-> {"corrupt"}]
BothScenarios == {Crashing, Damaged}

StoreSym == Permutations(Stems) \cup Permutations(TwoProcs) \cup Permutations(TwoKeys)
=============================================================================
