--------------------------- MODULE BackgroundJobs ---------------------------
(***************************************************************************)
(* Background tasks of one session: the job manager, the goroutine of each *)
(* job and the slot it waits for, the records it leaves on disk, and the   *)
(* evidence of what it changed on its way to the turn that reviews it.     *)
(* A process has one manager at a time that is open; one that is closing   *)
(* may still have jobs that have not returned, and the next is opened, or  *)
(* the process dies, while its records are on disk.                        *)
(***************************************************************************)
EXTENDS SubagentScheduler

CONSTANTS
    Job,            \* the requests made by background jobs
    NoJob,
    Scenarios,      \* records: jobs, runs, writes that happen and ops, a subset of AllOps
    MaxManagers     \* bound: managers opened, one after the other

AllOps == {"kill", "destroy", "close", "crash", "plan", "fail", "disk"}
Mgr == 1..MaxManagers

ASSUME JobAssumption == Job \subseteq Req /\ Job \cap NestedReq = {} /\ NoJob \notin Req
ASSUME ScenarioAssumption ==
    /\ MaxManagers \in Nat \ {0}
    /\ \A s \in Scenarios : /\ s.jobs \subseteq Job /\ s.runs \subseteq Req \ Job
                            /\ s.writes \subseteq Parent /\ s.ops \subseteq AllOps

VARIABLES
    scenario,   \* fixed at start
    phase,      \* of each manager
    home,       \* the manager a job was started by; 0 before
    step,       \* of each job's goroutine
    cancelled,  \* jobs whose context is cancelled
    err,        \* jobs whose run returned an error
    fin,        \* the status a job's goroutine decided on
    mem,        \* each manager's Job records
    disk,       \* the metadata files
    notes,      \* completed: jobs whose note is queued for the next turn
    destroying, \* the targets of BeginDestroySession, with what is left to do
    load,       \* SetActiveSessionPath's walk over the metadata files
    turn,       \* the agent's turn
    leases, merged, \* its ledger: leases noted, jobs whose mutation is in the receipts
    mutated, saved, reviewed, staleRepair, \* history
    missed      \* history: jobs of earlier managers the last load did not get to see

work == <<cancelled, err, fin>>
ledger == <<turn, leases, merged>>
history == <<mutated, saved, reviewed, staleRepair, missed>>
jvars == <<scenario, phase, home, step, work, mem, disk, notes, destroying, load, ledger, history>>

Terminal == {"done", "failed", "killed", "interrupted"}
GoSteps == {"none", "registered", "slot", "run", "aborted", "unwind", "meta", "note",
            "status", "close", "ended", "lost"}
Unknown == [status |-> "none", evidence |-> FALSE, committed |-> FALSE, done |-> FALSE]
NoMeta == [status |-> "none", owner |-> 0, evidence |-> FALSE]
NoLoad == [pc |-> "off", todo |-> {}, job |-> NoJob, snap |-> NoMeta, found |-> {}, deferred |-> FALSE]
NoDestroy == [pc |-> "no", targets |-> {}]

JInit ==
    /\ SInit
    /\ scenario \in Scenarios
    /\ phase = [m \in Mgr |-> IF m = 1 THEN "open" ELSE "unused"]
    /\ home = [j \in Job |-> 0] /\ step = [j \in Job |-> "none"]
    /\ cancelled = {} /\ err = {} /\ fin = [j \in Job |-> "none"]
    /\ mem = [m \in Mgr |-> [j \in Job |-> Unknown]] /\ disk = [j \in Job |-> NoMeta]
    /\ notes = {} /\ destroying = NoDestroy
    /\ load = [NoLoad EXCEPT !.pc = "loaded"]
    /\ turn = "idle" /\ leases = {} /\ merged = {}
    /\ mutated = {} /\ saved = {} /\ reviewed = {} /\ staleRepair = FALSE /\ missed = {}

-----------------------------------------------------------------------------
Used == {m \in Mgr : phase[m] # "unused"}
cur == CHOOSE m \in Used : \A n \in Used : n <= m
Open == phase[cur] = "open"
Ended == {"ended", "lost"}
May(op) == op \in scenario.ops
Mine == {j \in Job : home[j] = cur}     \* jobs of the scheduler in use
Pending == {j \in Job : mem[cur][j].done /\ ~mem[cur][j].committed /\ mem[cur][j].evidence}
TurnCalls == scenario.runs \cup scenario.writes
CallsOver ==
    /\ \A c \in TurnCalls : slot[c] \notin {"waiting", "holding", "leaving"}
    /\ \A j \in Job : step[j] # "registered"

-----------------------------------------------------------------------------
(***************************************************************************)
(* The turn, as far as it starts and collects background work.             *)
(***************************************************************************)
TurnStart(mode) ==
    /\ Open /\ turn = "idle" /\ load.pc \in {"loaded", "partial"} /\ destroying.pc = "no"
    /\ mode = "plan" => May("plan")
    /\ turn' = mode
    /\ leases' = IF mode = "plan" THEN {} ELSE Pending
    /\ merged' = leases'
    /\ notes' = {}
    /\ UNCHANGED <<svars, scenario, phase, home, step, work, mem, disk, destroying, load,
                   history>>

(* Slip: the status alone decides.                                          *)
CollectByStatus(j) ==
    /\ turn = "run" /\ mem[cur][j].status \in Terminal
    /\ j \notin leases
    /\ leases' = leases \cup {j}
    /\ merged' = IF j \in Pending THEN merged \cup {j} ELSE merged
    /\ UNCHANGED <<svars, scenario, phase, home, step, work, mem, disk, notes, destroying, load,
                   turn, history>>

(* bash_output or wait reports a job: collectBackgroundEvidence.            *)
Collect(j) ==
    /\ turn = "run" /\ mem[cur][j].status \in Terminal /\ mem[cur][j].done
    /\ j \notin leases
    /\ leases' = leases \cup {j}
    /\ merged' = IF j \in Pending THEN merged \cup {j} ELSE merged
    /\ UNCHANGED <<svars, scenario, phase, home, step, work, mem, disk, notes, destroying, load,
                   turn, history>>

(* The final answer passed the delivery gates: what the ledger holds is     *)
(* reviewed, and the leases are committed one by one.                       *)
TurnDelivers ==
    /\ turn \in {"run", "plan"} /\ CallsOver
    /\ turn' = "commit"
    /\ reviewed' = reviewed \cup merged
    /\ UNCHANGED <<svars, scenario, phase, home, step, work, mem, disk, notes, destroying, load,
                   leases, merged, mutated, saved, staleRepair, missed>>

CommitEvidence(j) ==
    /\ turn = "commit" /\ j \in leases
    /\ leases' = leases \ {j}
    /\ IF mem[cur][j].done /\ ~mem[cur][j].committed
       THEN /\ mem' = [mem EXCEPT ![cur][j].committed = TRUE, ![cur][j].evidence = FALSE]
            /\ \/ /\ mem[cur][j].evidence
                  /\ disk' = [disk EXCEPT ![j] = [status |-> mem[cur][j].status, owner |-> cur,
                                                  evidence |-> FALSE]]
               \/ (~mem[cur][j].evidence \/ May("disk")) /\ UNCHANGED disk
       ELSE UNCHANGED <<mem, disk>>
    /\ UNCHANGED <<svars, scenario, phase, home, step, work, notes, destroying, load,
                   turn, merged, history>>

TurnEnds ==
    /\ \/ turn = "commit" /\ leases = {}
       \/ turn = "stopping" /\ CallsOver
    /\ turn' = "idle" /\ leases' = {} /\ merged' = {}
    /\ UNCHANGED <<svars, scenario, phase, home, step, work, mem, disk, notes, destroying, load, history>>

(* Cancelled, or failed: nothing is committed.                              *)
TurnFails ==
    /\ May("fail") /\ turn \in {"run", "plan"}
    /\ turn' = "stopping"
    /\ UNCHANGED <<svars, scenario, phase, home, step, work, mem, disk, notes, destroying, load,
                   leases, merged, history>>

(* Foreground runs of the turn, runs nested in them and its write tools.    *)
others == <<scenario, phase, home, step, work, mem, disk, notes, destroying, load, ledger, history>>

SomeRun == \E r \in Req : slot[r] = "holding"
ForegroundRun(r) ==
    /\ turn # "idle"
    /\ \/ turn \in {"run", "plan"} /\ (r \in NestedReq => SomeRun) /\ Acquire(r)
       \/ Wake(r)
       \/ turn = "stopping" /\ CancelWait(r)
       \/ Release(r)
    /\ UNCHANGED others

WriteTool(w) ==
    /\ turn # "idle"
    /\ \/ turn = "run" /\ (ReserveParentWrite(w) \/ ParentWriteRefused(w))
       \/ ParentWriteDone(w)
    /\ UNCHANGED others

Pump == PumpStep /\ UNCHANGED others

-----------------------------------------------------------------------------
(***************************************************************************)
(* StartForSession and the goroutine of a job.                             *)
(***************************************************************************)
Register(j) ==
    /\ turn \in {"run", "plan"} /\ step[j] = "none"
    /\ home' = [home EXCEPT ![j] = cur]
    /\ step' = [step EXCEPT ![j] = "registered"]
    /\ mem' = [mem EXCEPT ![cur][j] = [Unknown EXCEPT !.status = "running"]]
    /\ UNCHANGED <<svars, scenario, phase, work, disk, notes, destroying, load, ledger, history>>

(* The running record is written and the goroutine counted and started.     *)
Launch(j) ==
    /\ step[j] = "registered"
    /\ step' = [step EXCEPT ![j] = "slot"]
    /\ \/ disk' = [disk EXCEPT ![j] = [status |-> "running", owner |-> home[j],
                                       evidence |-> mem[home[j]][j].evidence]]
       \/ May("disk") /\ UNCHANGED disk
    /\ UNCHANGED <<svars, scenario, phase, home, work, mem, notes, destroying, load, ledger, history>>

others2 == <<scenario, phase, home, mem, disk, notes, destroying, load, ledger>>

(* acquireSlot.  The scheduler belongs to the manager's controller: a job   *)
(* of an earlier one, cancelled with it, gets its slot or an error there.   *)
AcquireSlot(j) ==
    /\ step[j] = "slot" /\ j \in Mine
    /\ \/ AcquireNow(j) \/ AcquireQueues(j)
       \/ Wake(j)
       \/ j \in cancelled /\ CancelWait(j)
       \/ slot[j] = "leaving" /\ Release(j)
    /\ UNCHANGED <<others2, step, work, history>>

(* A run whose context is already cancelled does no work.                   *)
BeginRun(j) ==
    /\ step[j] = "slot"
    /\ IF j \in Mine
       THEN \/ slot[j] = "holding" /\ step' = [step EXCEPT ![j] = IF j \in cancelled THEN "aborted" ELSE "run"]
            \/ slot[j] = "refused" /\ step' = [step EXCEPT ![j] = "aborted"]
       ELSE step' = [step EXCEPT ![j] = "aborted"]
    /\ UNCHANGED <<svars, others2, work, history>>

(* A writer changes files; the receipt is in the child's own ledger.        *)
Mutate(j) ==
    /\ step[j] = "run" /\ j \in WriterReq /\ j \notin mutated
    /\ mutated' = mutated \cup {j}
    /\ UNCHANGED <<svars, others2, step, work, saved, reviewed, staleRepair, missed>>

(* The run returns or panics: the slot is the first thing given back.       *)
RunEnds(j) ==
    /\ \/ step[j] = "run" /\ err' \in {err} \cup {err \cup {j} : x \in scenario.ops \cap {"fail"}}
       \/ step[j] = "aborted" /\ err' = err \cup {j}
    /\ step' = [step EXCEPT ![j] = "unwind"]
    /\ IF j \in Mine /\ slot[j] = "holding" THEN Release(j) ELSE UNCHANGED svars
    /\ UNCHANGED <<others2, cancelled, fin, history>>

(* Then the evidence is published and the status decided.                   *)
Unwind(j) ==
    /\ step[j] = "unwind"
    /\ step' = [step EXCEPT ![j] = "meta"]
    /\ mem' = [mem EXCEPT ![home[j]][j].evidence = j \in mutated]
    /\ fin' = [fin EXCEPT ![j] = IF j \in cancelled THEN "killed"
                                 ELSE IF j \in err THEN "failed" ELSE "done"]
    /\ UNCHANGED <<svars, scenario, phase, home, cancelled, err, disk, notes, destroying, load, ledger, history>>

WriteMeta(j) ==
    /\ step[j] = "meta"
    /\ step' = [step EXCEPT ![j] = "note"]
    /\ \/ /\ disk' = [disk EXCEPT ![j] = [status |-> fin[j], owner |-> home[j],
                                          evidence |-> mem[home[j]][j].evidence]]
          /\ saved' = saved \cup {j}
       \/ May("disk") /\ UNCHANGED <<disk, saved>>
    /\ UNCHANGED <<svars, scenario, phase, home, work, mem, notes, destroying, load, ledger,
                   mutated, reviewed, staleRepair, missed>>

recordCompletion(j) ==
    /\ step[j] = "note"
    /\ step' = [step EXCEPT ![j] = "status"]
    /\ notes' = IF destroying.pc \in {"no", "finished"} /\ home[j] = cur THEN notes \cup {j} ELSE notes
    /\ UNCHANGED <<svars, scenario, phase, home, work, mem, disk, destroying, load, ledger, history>>

PublishStatus(j) ==
    /\ step[j] = "status"
    /\ step' = [step EXCEPT ![j] = "close"]
    /\ mem' = [mem EXCEPT ![home[j]][j].status = IF @ = "killed" THEN @ ELSE fin[j]]
    /\ UNCHANGED <<svars, scenario, phase, home, work, disk, notes, destroying, load, ledger, history>>

CloseDone(j) ==
    /\ step[j] = "close"
    /\ step' = [step EXCEPT ![j] = "ended"]
    /\ mem' = [mem EXCEPT ![home[j]][j].done = TRUE]
    /\ UNCHANGED <<svars, scenario, phase, home, work, disk, notes, destroying, load, ledger, history>>

-----------------------------------------------------------------------------
(***************************************************************************)
(* Kill, destroy, close, crash.                                            *)
(***************************************************************************)
Kill(j) ==
    /\ May("kill") /\ Open /\ mem[cur][j].status = "running"
    /\ mem' = [mem EXCEPT ![cur][j].status = "killed"]
    /\ cancelled' = cancelled \cup {j}
    /\ UNCHANGED <<svars, scenario, phase, home, step, err, fin, disk, notes, destroying, load, ledger, history>>

Unfinished(status) == {j \in Job : mem[cur][j].status \in status /\ ~mem[cur][j].done}
KilledAll(S) == [mem EXCEPT ![cur] = [j \in Job |-> IF j \in S THEN [@[j] EXCEPT !.status = "killed"] ELSE @[j]]]

(* Slip: only running jobs are waited for.                                  *)
BeginDestroySkipsKilled ==
    /\ May("destroy") /\ Open /\ turn = "idle" /\ destroying.pc = "no" /\ load.pc \in {"loaded", "partial"}
    /\ destroying' = [pc |-> "begun", targets |-> {j \in Job : mem[cur][j].status = "running"}]
    /\ notes' = {}
    /\ mem' = KilledAll({j \in Job : mem[cur][j].status = "running"})
    /\ cancelled' = cancelled \cup {j \in Job : mem[cur][j].status = "running"}
    /\ UNCHANGED <<svars, scenario, phase, home, step, err, fin, disk, load, ledger, history>>

(* The rotation gate keeps turns out while the session is cleared; the      *)
(* next turn belongs to another session.                                    *)
BeginDestroy ==
    /\ May("destroy") /\ Open /\ turn = "idle" /\ destroying.pc = "no" /\ load.pc \in {"loaded", "partial"}
    /\ destroying' = [pc |-> "begun", targets |-> {j \in Job : mem[cur][j].status \in {"running", "killed"}}]
    /\ notes' = {}
    /\ mem' = KilledAll({j \in Job : mem[cur][j].status = "running"})
    /\ cancelled' = cancelled \cup {j \in Job : mem[cur][j].status = "running"}
    /\ UNCHANGED <<svars, scenario, phase, home, step, err, fin, disk, load, ledger, history>>

(* Once every target is done the artifacts are removed, and then the        *)
(* session's records purged.                                                *)
RemoveArtifacts ==
    /\ destroying.pc = "begun" /\ \A j \in destroying.targets : mem[cur][j].done
    /\ destroying' = [destroying EXCEPT !.pc = "removed"]
    /\ disk' = [j \in Job |-> NoMeta]
    /\ UNCHANGED <<svars, scenario, phase, home, step, work, mem, notes, load, ledger, history>>

FinishDestroy ==
    /\ destroying.pc = "removed"
    /\ destroying' = [destroying EXCEPT !.pc = "finished"]
    /\ mem' = [mem EXCEPT ![cur] = [j \in Job |-> Unknown]]
    /\ UNCHANGED <<svars, scenario, phase, home, step, work, disk, notes, load, ledger, history>>

(* Close or CloseAsync: the root context is cancelled.  The turn is         *)
(* cancelled with it, and a start it is in the middle of still completes.   *)
Close ==
    /\ May("close") /\ Open /\ destroying.pc = "no" /\ load.pc \in {"loaded", "partial"}
    /\ phase' = [phase EXCEPT ![cur] = "closing"]
    /\ cancelled' = cancelled \cup Mine
    /\ mem' = KilledAll(Unfinished({"running"}))
    /\ turn' = IF turn = "idle" THEN "idle" ELSE "stopping"
    /\ UNCHANGED <<svars, scenario, home, step, err, fin, disk, notes, destroying, load,
                   leases, merged, history>>

(* wg.Wait returned: every goroutine counted so far is over.                *)
ReleaseOwner(m) ==
    /\ phase[m] = "closing"
    /\ \A j \in Job : home[j] = m => step[j] \in {"registered"} \cup Ended
    /\ phase' = [phase EXCEPT ![m] = "released"]
    /\ UNCHANGED <<svars, scenario, home, step, work, mem, disk, notes, destroying, load, ledger, history>>

Crash ==
    /\ May("crash") /\ Open /\ destroying.pc = "no"
    /\ phase' = [m \in Mgr |-> IF m \in Used THEN "dead" ELSE "unused"]
    /\ step' = [j \in Job |-> IF step[j] = "none" THEN "none" ELSE IF step[j] = "ended" THEN "ended" ELSE "lost"]
    /\ turn' = "idle" /\ leases' = {} /\ merged' = {}
    /\ load' = NoLoad /\ notes' = {}
    /\ UNCHANGED <<svars, scenario, home, work, mem, disk, destroying, history>>

-----------------------------------------------------------------------------
(***************************************************************************)
(* The next manager binds the session and loads what the last one left.    *)
(***************************************************************************)
OnDisk == {j \in Job : disk[j].status # "none"}
Untold(m) == {j \in Job : home[j] # 0 /\ mem[m][j].status = "none"}

(* The directory is listed; when that fails the session counts as loaded.   *)
ListRecords(m) ==
    \/ /\ load' = [NoLoad EXCEPT !.pc = "walk", !.todo = OnDisk]
       /\ missed' = Untold(m) \ OnDisk
    \/ /\ May("disk")
       /\ load' = [NoLoad EXCEPT !.pc = "loaded"]
       /\ missed' = Untold(m)

NewManager ==
    /\ ~Open /\ cur < MaxManagers /\ turn = "idle"
    /\ phase' = [phase EXCEPT ![cur + 1] = "open"]
    /\ ListRecords(cur + 1)
    /\ notes' = {}
    /\ waiters' = <<>> /\ cursor' = 0 /\ ready' = {} /\ activeTotal' = 0 /\ activeWriters' = 0
    /\ activeClaims' = [c \in Claim |-> 0] /\ parentClaims' = [c \in Claim |-> 0]
    /\ slot' = [r \in Req \cup Parent |-> IF slot[r] = "idle" THEN "idle" ELSE "done"]
    /\ UNCHANGED <<scenario, home, step, work, mem, disk, destroying, ledger, mutated, saved,
                   reviewed, staleRepair>>

(* SetActiveSessionPath again, while some record is still deferred.         *)
Rebind ==
    /\ Open /\ turn = "idle" /\ load.pc = "partial" /\ destroying.pc = "no"
    /\ ListRecords(cur)
    /\ UNCHANGED <<svars, scenario, phase, home, step, work, mem, disk, notes, destroying, ledger,
                   mutated, saved, reviewed, staleRepair>>

others3 == <<svars, scenario, phase, home, step, work, notes, destroying, ledger, mutated, saved,
             reviewed>>

(* A record that cannot be read is skipped.                                 *)
ReadRecord(j) ==
    /\ load.pc = "walk" /\ j \in load.todo
    /\ \/ /\ load' = IF disk[j].status = "running"
                     THEN [load EXCEPT !.pc = "judge", !.todo = @ \ {j}, !.job = j, !.snap = disk[j]]
                     ELSE [load EXCEPT !.todo = @ \ {j}, !.found = @ \cup {<<j, disk[j]>>}]
          /\ UNCHANGED missed
       \/ /\ May("disk")
          /\ load' = [load EXCEPT !.todo = @ \ {j}]
          /\ missed' = missed \cup ({j} \cap Untold(cur))
    /\ UNCHANGED <<others3, mem, disk, staleRepair>>

managerOwnerIsLive(m) == phase[m] \in {"open", "closing"}

(* The owner lives, this runtime does not hold the session lease, or the    *)
(* repair could not be written: left for a later bind.                      *)
DeferRecord ==
    /\ load.pc = "judge"
    /\ load' = [load EXCEPT !.pc = "walk", !.job = NoJob, !.snap = NoMeta, !.deferred = TRUE]
    /\ UNCHANGED <<others3, mem, disk, staleRepair, missed>>

(* Slip: the owner is not looked up.                                        *)
RepairRecordAnyOwner ==
    /\ load.pc = "judge"
    /\ LET meta == [load.snap EXCEPT !.status = "interrupted"]
       IN  /\ disk' = [disk EXCEPT ![load.job] = meta]
           /\ load' = [load EXCEPT !.pc = "walk", !.job = NoJob, !.snap = NoMeta,
                                   !.found = @ \cup {<<load.job, meta>>}]
    /\ staleRepair' = (staleRepair \/ disk[load.job] # load.snap)
    /\ UNCHANGED <<others3, mem, missed>>

RepairRecord ==
    /\ load.pc = "judge" /\ ~managerOwnerIsLive(load.snap.owner)
    /\ LET meta == [load.snap EXCEPT !.status = "interrupted"]
       IN  /\ disk' = [disk EXCEPT ![load.job] = meta]
           /\ load' = [load EXCEPT !.pc = "walk", !.job = NoJob, !.snap = NoMeta,
                                   !.found = @ \cup {<<load.job, meta>>}]
    /\ staleRepair' = (staleRepair \/ disk[load.job] # load.snap)
    /\ UNCHANGED <<others3, mem, missed>>

(* mutationEvidenceFromArtifact: a record without a summary had none.       *)
Tombstone(meta) == [status |-> meta.status, evidence |-> meta.evidence, committed |-> FALSE, done |-> TRUE]

LoadEnds ==
    /\ load.pc = "walk" /\ load.todo = {}
    /\ mem' = [mem EXCEPT ![cur] = [j \in Job |->
                 IF @[j].status = "none" /\ \E f \in load.found : f[1] = j
                 THEN Tombstone((CHOOSE f \in load.found : f[1] = j)[2]) ELSE @[j]]]
    /\ load' = [NoLoad EXCEPT !.pc = IF load.deferred THEN "partial" ELSE "loaded"]
    /\ UNCHANGED <<others3, disk, staleRepair, missed>>

-----------------------------------------------------------------------------
GoStep(j) ==
    \/ Launch(j) \/ AcquireSlot(j) \/ BeginRun(j) \/ RunEnds(j) \/ Unwind(j) \/ WriteMeta(j)
    \/ recordCompletion(j) \/ PublishStatus(j) \/ CloseDone(j)

Loading == DeferRecord \/ RepairRecord \/ LoadEnds \/ \E j \in Job : ReadRecord(j)

JNext ==
    \/ \E mode \in {"run", "plan"} : TurnStart(mode)
    \/ TurnDelivers \/ TurnEnds \/ TurnFails
    \/ \E j \in scenario.jobs : Register(j) \/ Collect(j) \/ CommitEvidence(j) \/ Kill(j) \/ Mutate(j) \/ GoStep(j)
    \/ \E r \in scenario.runs : ForegroundRun(r)
    \/ \E w \in scenario.writes : WriteTool(w)
    \/ Pump
    \/ BeginDestroy \/ RemoveArtifacts \/ FinishDestroy \/ Close \/ Crash
    \/ \E m \in Mgr : ReleaseOwner(m)
    \/ NewManager \/ Rebind \/ Loading

JSpec == JInit /\ [][JNext]_<<svars, jvars>>

(* The scheduler's walk, a goroutine's own steps and the tool calls of a    *)
(* turn go on; a run is taken to return in the end.                         *)
JFairSpec ==
    /\ JSpec
    /\ WF_<<svars, jvars>>(Pump)
    /\ \A j \in Job : WF_<<svars, jvars>>(GoStep(j))
    /\ \A r \in Req \ Job : WF_<<svars, jvars>>((Wake(r) \/ Release(r)) /\ UNCHANGED others)
    /\ \A w \in Parent : WF_<<svars, jvars>>(ParentWriteDone(w) /\ UNCHANGED others)

-----------------------------------------------------------------------------
(* The type invariant of jobs, records, turn and scheduler.                *)
JTypeOK ==
    /\ STypeOK
    /\ phase \in [Mgr -> {"unused", "open", "closing", "released", "dead"}]
    /\ home \in [Job -> 0..MaxManagers] /\ step \in [Job -> GoSteps]
    /\ cancelled \subseteq Job /\ err \subseteq Job
    /\ fin \in [Job -> Terminal \cup {"none"}]
    /\ \A m \in Mgr, j \in Job : mem[m][j].status \in Terminal \cup {"none", "running"}
    /\ \A j \in Job : disk[j].status \in Terminal \cup {"none", "running"} /\ disk[j].owner \in 0..MaxManagers
    /\ notes \subseteq Job /\ destroying.targets \subseteq Job
    /\ turn \in {"idle", "run", "plan", "commit", "stopping"} /\ leases \cup merged \subseteq Job
    /\ mutated \cup saved \cup reviewed \cup missed \subseteq Job

(* A mutation a finished job put on record stays in front of the agent until *)
(* a turn that had it in its ledger was delivered: on disk, and in the       *)
(* manager that has loaded the session, whatever turns fail or managers      *)
(* close, die and are replaced on the way.  Two cases are excepted: after a  *)
(* repair from a read that was stale by then (staleRepair) nothing is said,  *)
(* and a manager does not offer the records its load did not get to see      *)
(* (missed): the directory or the record could not be read, or the record    *)
(* was not there yet when the directory was listed.                          *)
MutationAwaitsReview ==
    \A j \in (mutated \cap saved) \ reviewed :
        ~staleRepair /\ destroying.pc \in {"no", "begun"} =>
            /\ disk[j].evidence
            /\ Open /\ load.pc = "loaded" /\ step[j] \in Ended /\ j \notin missed => j \in Pending

(* Evidence is never consumed by a turn that did not have it in its ledger.  *)
CommittedWasReviewed ==
    \A m \in Mgr, j \in Job :
        mem[m][j].committed /\ j \in mutated \cap saved /\ ~staleRepair => j \in reviewed

(* Once a destroyed session's artifacts are removed no job writes one back.  *)
RemovedStaysRemoved == destroying.pc \in {"removed", "finished"} => OnDisk = {}

(* What mutationEvidenceFromArtifact says of a record without a summary:     *)
(* there was nothing to record.  So every mutation of a job that is over, not *)
(* yet reviewed, is offered by the manager that has loaded the session.      *)
MissingSummaryMeansNoMutation ==
    \A j \in mutated \ reviewed :
        Open /\ load.pc = "loaded" /\ step[j] \in Ended => j \in Pending

(* A queued run gets its slot, or gives up.                                  *)
QueueDrains == \A r \in Req : (slot[r] = "waiting") ~> (slot[r] # "waiting")
=============================================================================
