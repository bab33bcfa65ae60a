-------------------------- MODULE MCBackgroundJobs --------------------------
EXTENDS BackgroundJobs

CONSTANTS j1, j2, f1, n1, w1, a, b

Requests == {j1, j2, f1, n1}
Jobs == {j1, j2}
Writes == {w1}
Writers == {j1, j2, f1}
Nested == {n1}
Regions == {a, b}
Claims == (j1 :> {a}) @@ (j2 :> {a, b}) @@ (f1 :> {b}) @@ (n1 :> {}) @@ (w1 :> {a})

Scenario(jobs, runs, writes, ops) == [jobs |-> jobs, runs |-> runs, writes |-> writes, ops |-> ops]

(* Every kind of caller competes for two slots.                             *)
Competing == Scenario({j1}, {f1, n1}, {w1}, {"kill", "fail"})
(* Two jobs and the parent's write claim the same files.                    *)
Queueing == Scenario({j1, j2}, {}, {w1}, {})
(* Jobs outlive turns, managers and processes.                              *)
Surviving == Scenario({j1}, {}, {}, {"kill", "close", "crash", "plan", "fail", "disk"})
(* The session is cleared under its jobs.                                   *)
Clearing == Scenario({j1, j2}, {}, {}, {"kill", "destroy"})
AllScenarios == {Competing, Queueing, Surviving, Clearing}
Crashing == {Scenario({j1}, {}, {}, {"crash"})}
=============================================================================
