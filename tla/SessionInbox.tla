---------------------------- MODULE SessionInbox ----------------------------
(***************************************************************************)
(* sessioninbox.Store on disk: a manifest file, a directory of immutable   *)
(* body blobs and a file lock that serialises transactions of every Store  *)
(* and process.  A transaction loads the manifest (recovering, salvaging   *)
(* or collecting orphans), writes a blob, replaces the manifest, removes   *)
(* old blobs and releases the lock.  A process may die between any two of  *)
(* these steps, and a write may fail; the operating system then drops the  *)
(* lock.  Restarting a process gives it a new run id.                      *)
(***************************************************************************)
EXTENDS InboxManifest

CONSTANTS
    Stem,           \* random blob stems and item ids, never reused
    Body,           \* prompt bodies (a body is its own checksum and hash)
    Key,            \* client idempotency keys
    Proc,           \* processes that open this inbox
    NoProc, NoStem,
    Scenarios,      \* the ways the directory is used, see below
    MaxCrashes,     \* bound: process deaths
    MaxWriteErrors, \* bound: failed blob or manifest writes
    MaxCorruptions  \* bound: manifests damaged on disk

ASSUME NoneAssumption == NoProc \notin Proc /\ NoStem \notin Stem /\ NoKey \notin Key
ASSUME ProcAssumption == IsFiniteSet(Proc)
Faults == {"crash", "write", "corrupt"}

(* A scenario: the processes that open the directory, how many bodies they  *)
(* write, the intents and keys of their requests, and the faults they meet. *)
ASSUME ScenariosAssumption ==
    \A s \in Scenarios : /\ s.procs \subseteq Proc /\ s.bodies \in Nat
                         /\ s.intents \subseteq Intents /\ s.keys \subseteq Key
                         /\ s.faults \subseteq Faults
ASSUME BoundsAssumption == {MaxCrashes, MaxWriteErrors, MaxCorruptions} \subseteq Nat

VARIABLES
    file,       \* the manifest file: "ok", "missing" or "corrupt"
    man,        \* its content while "ok"
    blobs,      \* blobs/: a function from stems to bodies
    tx,         \* the transaction holding transaction.lock
    runOf,      \* the run id of each process
    used,       \* stems already drawn
    owed,       \* history: blobs of bodies accepted and not yet given up
    flightRun,  \* history: the run that last put each item in flight
    finished,   \* history: the keys that each completing transaction released
    expired,    \* history: keys whose receipt has passed its age limit
    resumed,    \* history: the run that unpaused the inbox since the last change of run
    crashes, writeErrors, corruptions,
    scenario    \* fixed at start

disk == <<file, man, blobs>>
history == <<owed, flightRun, finished, expired, resumed>>
faults == <<crashes, writeErrors, corruptions, scenario>>
vars == <<disk, tx, runOf, used, history, faults>>

Runs == 0..(Cardinality(Proc) + MaxCrashes)
NoRun == 0
NoTx == [proc |-> NoProc, stage |-> "none", op |-> "none", m |-> EmptyManifest(NoRun),
         new |-> NoStem, body |-> NoStem, old |-> {}]

Stages == {"none", "salvage", "recover", "loaded", "write", "commit", "cleanup"}

Init ==
    /\ file = "missing" /\ man = EmptyManifest(NoRun) /\ blobs = <<>>
    /\ tx = NoTx
    /\ \E f \in [Proc -> 1..Cardinality(Proc)] :
          (\A p, q \in Proc : f[p] = f[q] => p = q) /\ runOf = f
    /\ used = {}
    /\ owed = {} /\ flightRun = <<>> /\ finished = <<>> /\ expired = {} /\ resumed = NoRun
    /\ scenario \in Scenarios
    /\ crashes = 0 /\ writeErrors = 0 /\ corruptions = 0

Put(f, k, v) == [x \in DOMAIN f \cup {k} |-> IF x = k THEN v ELSE f[x]]
Drop(f, S) == [x \in DOMAIN f \ S |-> f[x]]

-----------------------------------------------------------------------------
(***************************************************************************)
(* Taking the lock and loading.  A damaged manifest is moved aside before  *)
(* the salvaged one is committed, and body names are drawn at random, so   *)
(* the salvaged items come in any order; orphan blobs are moved to quarantine     *)
(* only by a load that neither salvages nor recovers.                      *)
(***************************************************************************)
Begin(p) ==
    /\ p \in scenario.procs /\ tx = NoTx
    /\ \/ /\ file = "corrupt"
          /\ file' = "missing"
          /\ \E order \in SetToSeqs(DOMAIN blobs) :
                tx' = [NoTx EXCEPT !.proc = p, !.stage = "salvage",
                                   !.m = Salvaged(blobs, order, runOf[p])]
          /\ UNCHANGED blobs
       \/ /\ file = "missing"
          /\ tx' = [NoTx EXCEPT !.proc = p, !.stage = "loaded", !.m = EmptyManifest(runOf[p])]
          /\ UNCHANGED <<file, blobs>>
       \/ /\ file = "ok" /\ Foreign(man, runOf[p])
          /\ tx' = [NoTx EXCEPT !.proc = p, !.stage = "recover", !.m = Recovered(man, runOf[p])]
          /\ UNCHANGED <<file, blobs>>
       \/ /\ file = "ok" /\ ~Foreign(man, runOf[p])
          /\ tx' = [NoTx EXCEPT !.proc = p, !.stage = "loaded", !.m = [man EXCEPT !.run = runOf[p]]]
          /\ blobs' = Drop(blobs, DOMAIN blobs \ BlobsOf(man))
          /\ UNCHANGED file
    /\ UNCHANGED <<man, runOf, used, history, faults>>

WriteManifest ==
    /\ file' = "ok"
    /\ man' = tx.m

InFlightIds(m) == {id \in Ids(m) : StateOf(m, id) \in InFlightStates}

CommitLoad ==
    /\ tx.stage \in {"salvage", "recover"}
    /\ WriteManifest
    /\ tx' = [tx EXCEPT !.stage = "loaded"]
    /\ resumed' = NoRun
    /\ flightRun' = [id \in InFlightIds(tx.m) |-> flightRun[id]]
    /\ UNCHANGED <<blobs, runOf, used, owed, finished, expired, faults>>

-----------------------------------------------------------------------------
(***************************************************************************)
(* One operation of the transaction.  A refused or read-only operation     *)
(* ends it with no further write.                                          *)
(***************************************************************************)
Stage(op, m, old) ==
    /\ tx' = [tx EXCEPT !.stage = "commit", !.op = op, !.m = m, !.old = old]
    /\ UNCHANGED <<disk, runOf, used, history, faults>>

(* Slip: an edit removes the old body before the new manifest is there.     *)
StageWithBlobDropsFirst(op, m, new, body, old) ==
    /\ Cardinality(used) < scenario.bodies
    /\ tx' = [tx EXCEPT !.stage = "write", !.op = op, !.m = m, !.new = new,
                        !.body = body, !.old = old]
    /\ used' = used \cup {new}
    /\ blobs' = Drop(blobs, old)
    /\ UNCHANGED <<file, man, runOf, history, faults>>

StageWithBlob(op, m, new, body, old) ==
    /\ Cardinality(used) < scenario.bodies
    /\ tx' = [tx EXCEPT !.stage = "write", !.op = op, !.m = m, !.new = new,
                        !.body = body, !.old = old]
    /\ used' = used \cup {new}
    /\ UNCHANGED <<disk, runOf, history, faults>>

OpEnqueue ==
    \E s \in Stem \ used, intent \in Intents, k \in Key \cup {NoKey}, b \in Body :
        /\ intent \in scenario.intents /\ k \in scenario.keys \cup {NoKey}
        /\ CanEnqueue(tx.m, k)
        /\ StageWithBlob("enqueue", Enqueue(tx.m, s, intent, k, b), s, b, {})

OpUpdate ==
    \E id \in Ids(tx.m), s \in Stem \ used, b \in Body, k \in Key \cup {NoKey} :
        /\ k \in scenario.keys \cup {NoKey}
        /\ CanUpdate(tx.m, id, k)
        /\ StageWithBlob("update", UpdateItem(tx.m, id, s, b, k, b), s, b,
                         {ItemOf(tx.m, id).blob})

OpRemove ==
    \E ids \in SUBSET Ids(tx.m) :
        /\ CanDiscard(tx.m, ids)
        /\ \E rs \in rememberReceipt(tx.m, KeysFor(tx.m, ids)) :
              Stage("remove", RemoveItems(tx.m, ids, rs), {ItemOf(tx.m, id).blob : id \in ids})

OpAck ==
    \E id \in Ids(tx.m) :
        /\ CanAck(tx.m, id)
        /\ \E rs \in rememberReceipt(tx.m, KeysFor(tx.m, {id})) :
              Stage("remove", RemoveItems(tx.m, {id}, rs), {ItemOf(tx.m, id).blob})

OpMove ==
    \E id \in Ids(tx.m), to \in 1..Len(tx.m.items) :
        /\ IsPending(tx.m, id) /\ tx.m.items[to].id # id
        /\ Stage("move", MoveItem(tx.m, id, to), {})

OpPause ==
    \/ /\ ~tx.m.paused /\ Stage("pause", SetPaused(tx.m, TRUE), {})
    \/ Stage("pause", ForcePause(tx.m), {})

OpResume == tx.m.paused /\ Stage("resume", SetPaused(tx.m, FALSE), {})

OpClaim ==
    \E id \in Ids(tx.m) :
        CanClaim(tx.m, id) /\ Stage("claim", SetItemState(tx.m, id, "running"), {})

OpSetState ==
    \E id \in Ids(tx.m), s \in States \ {"running"} :
        Stage("setstate", SetItemState(tx.m, id, s), {})

OpConvert ==
    \E id \in Ids(tx.m), intent \in Intents :
        /\ intent \in scenario.intents /\ IsPending(tx.m, id)
        /\ Stage("convert", ConvertIntent(tx.m, id, intent), {})

OpRetry ==
    \E id \in Ids(tx.m) :
        CanRetry(tx.m, id) /\ Stage("retry", SetItemState(tx.m, id, "queued"), {})

OpRecoverOrphans ==
    \E owned \in SUBSET Ids(tx.m) :
        /\ Orphans(tx.m, owned) # {}
        /\ Stage("orphans", RecoverOrphans(tx.m, owned), {})

Operate ==
    /\ tx.stage = "loaded"
    /\ \/ OpEnqueue \/ OpUpdate \/ OpRemove \/ OpAck \/ OpMove \/ OpPause \/ OpResume
       \/ OpClaim \/ OpSetState \/ OpConvert \/ OpRetry \/ OpRecoverOrphans

Unlock ==
    /\ tx.stage = "loaded"
    /\ tx' = NoTx
    /\ UNCHANGED <<disk, runOf, used, history, faults>>

-----------------------------------------------------------------------------
WriteBlob ==
    /\ tx.stage = "write"
    /\ blobs' = Put(blobs, tx.new, tx.body)
    /\ tx' = [tx EXCEPT !.stage = "commit"]
    /\ UNCHANGED <<file, man, runOf, used, history, faults>>

WasInFlight(id) == file = "ok" /\ id \in InFlightIds(man)
Completed == IF tx.op = "remove" /\ file = "ok" THEN DOMAIN man.keys \ DOMAIN tx.m.keys ELSE {}

CommitManifest ==
    /\ tx.stage = "commit"
    /\ WriteManifest
    /\ tx' = [NoTx EXCEPT !.proc = tx.proc, !.stage = "cleanup", !.old = tx.old]
    /\ owed' = (owed \cup ({tx.new} \ {NoStem})) \ tx.old
    /\ flightRun' = [id \in InFlightIds(tx.m) |->
                        IF WasInFlight(id) THEN flightRun[id] ELSE tx.m.run]
    /\ finished' = IF Completed = {} THEN finished ELSE Append(finished, Completed)
    /\ expired' = expired \ Completed
    /\ resumed' = IF tx.op = "resume" THEN tx.m.run
                  ELSE IF file = "ok" /\ man.run = tx.m.run THEN resumed ELSE NoRun
    /\ UNCHANGED <<blobs, runOf, used, faults>>

Cleanup ==
    /\ tx.stage = "cleanup"
    /\ blobs' = Drop(blobs, tx.old)
    /\ tx' = NoTx
    /\ UNCHANGED <<file, man, runOf, used, history, faults>>

(* Time passes: the receipts up to some time are older than the age limit.  *)
(* Lookups do not see such a receipt and pruning drops it before it counts, *)
(* so it is as good as gone at once, although the file still has it.        *)
ReceiptsExpire ==
    /\ file = "ok" /\ tx = NoTx
    /\ \E k \in DOMAIN man.receipts :
          LET old == {j \in DOMAIN man.receipts : man.receipts[j].at <= man.receipts[k].at}
          IN  /\ man' = [man EXCEPT !.receipts = Restricted(@, DOMAIN @ \ old)]
              /\ expired' = expired \cup old
    /\ UNCHANGED <<file, blobs, tx, runOf, used, owed, flightRun, finished, resumed, faults>>

-----------------------------------------------------------------------------
(* A failed write: the fresh blob, if any, is removed and the lock freed.   *)
WriteFails ==
    /\ tx.stage \in {"salvage", "recover", "write", "commit"}
    /\ "write" \in scenario.faults /\ writeErrors < MaxWriteErrors
    /\ writeErrors' = writeErrors + 1
    /\ blobs' = Drop(blobs, {tx.new})
    /\ tx' = NoTx
    /\ UNCHANGED <<file, man, runOf, used, history, crashes, corruptions, scenario>>

(* A process dies, wherever it is, and is started again under a new run id. *)
Crash(p) ==
    /\ "crash" \in scenario.faults /\ p \in scenario.procs /\ crashes < MaxCrashes
    /\ crashes' = crashes + 1
    /\ runOf' = [runOf EXCEPT ![p] = Cardinality(Proc) + crashes + 1]
    /\ tx' = IF tx.proc = p THEN NoTx ELSE tx
    /\ UNCHANGED <<disk, used, history, writeErrors, corruptions, scenario>>

(* The file system damages the manifest while no transaction holds it.      *)
CorruptManifest ==
    /\ "corrupt" \in scenario.faults /\ corruptions < MaxCorruptions /\ file = "ok" /\ tx = NoTx
    /\ corruptions' = corruptions + 1
    /\ file' = "corrupt"
    /\ man' = EmptyManifest(NoRun)
    /\ UNCHANGED <<blobs, tx, runOf, used, history, crashes, writeErrors, scenario>>

Next ==
    \/ \E p \in Proc : Begin(p) \/ Crash(p)
    \/ CommitLoad \/ Operate \/ Unlock \/ WriteBlob \/ CommitManifest \/ Cleanup
    \/ ReceiptsExpire \/ WriteFails \/ CorruptManifest

Spec == Init /\ [][Next]_vars

-----------------------------------------------------------------------------
(***************************************************************************)
(* The type invariant of the store.                                        *)
(***************************************************************************)
TypeOK ==
    /\ file \in {"ok", "missing", "corrupt"}
    /\ DOMAIN blobs \subseteq used /\ used \subseteq Stem
    /\ tx.proc \in Proc \cup {NoProc} /\ tx.stage \in Stages
    /\ tx = NoTx \/ tx.proc # NoProc
    /\ runOf \in [Proc -> Runs]
    /\ owed \subseteq used
    /\ \A m \in {man, tx.m} :
          /\ Ids(m) \cup BlobsOf(m) \subseteq used
          /\ Cardinality(Ids(m)) = Len(m.items)
          /\ \A it \in ToSet(m.items) : it.intent \in Intents /\ it.state \in States
          /\ \A k \in DOMAIN m.keys : m.keys[k].id \in Ids(m)

(***************************************************************************)
(* The manifest never points at a body that is missing or is not the one   *)
(* it was committed with, at any step of any transaction and after any     *)
(* crash: blobs are written before the manifest that names them and        *)
(* removed only after the manifest that forgets them.                      *)
(***************************************************************************)
BodiesMatchManifest ==
    file = "ok" => \A it \in ToSet(man.items) :
                      it.blob \in DOMAIN blobs /\ blobs[it.blob] = it.sum

(***************************************************************************)
(* The files of the store fit together: well typed, no item listed twice,  *)
(* every key on a listed item, and every item with its body.               *)
(***************************************************************************)
StoreConsistent == TypeOK /\ BodiesMatchManifest

(***************************************************************************)
(* Work the store accepted (Enqueue returned a receipt) is never lost:     *)
(* until it is acknowledged, deleted or replaced by an edit its body stays *)
(* in blobs/, and the manifest, whenever there is one, lists it.           *)
(***************************************************************************)
AcceptedWorkSurvives ==
    /\ owed \subseteq DOMAIN blobs
    /\ file = "ok" => owed \subseteq BlobsOf(man)

(***************************************************************************)
(* Every in-flight item of the manifest was put in flight by the run that  *)
(* wrote the manifest: what a dead run left running has become uncertain   *)
(* before anything else is committed, so a restart never takes it for live.*)
(***************************************************************************)
InFlightBelongsToWriter ==
    file = "ok" => \A it \in ToSet(man.items) :
                      it.state \in InFlightStates => flightRun[it.id] = man.run

(***************************************************************************)
(* Work queued by an earlier run starts only after the inbox was resumed   *)
(* under the current one: recovery pauses, and nothing but an explicit     *)
(* resume (or emptying the queue) lifts that pause.                        *)
(***************************************************************************)
ForeignWorkNeedsResume ==
    [][file' = "ok" => \A it \in ToSet(man'.items) :
          (it.state = "running" /\ it.run # man'.run /\ it \notin ToSet(man.items))
          => resumed = man'.run]_vars

LastDone(k) == Max({i \in DOMAIN finished : k \in finished[i]})
CompletedSince(k) == UNION {finished[j] : j \in LastDone(k)..Len(finished)} \ {k}

(***************************************************************************)
(* A request whose item has left the inbox is not accepted a second time   *)
(* under the same key until its receipt passes its age limit, or at least  *)
(* MaxReceipts other keys completed with it or after it: the cap may drop  *)
(* one of a batch that completed together, but never one that all others   *)
(* precede.  Salvage starts from the bodies alone and forgets every key,   *)
(* so the promise ends there.                                              *)
(***************************************************************************)
DeduplicatedWhileRemembered ==
    [][corruptions = 0 /\ file' = "ok" =>
          \A k \in (DOMAIN man'.keys \ DOMAIN man.keys) \cap UNION ToSet(finished) :
             k \in expired \/ Cardinality(CompletedSince(k)) >= MaxReceipts]_vars

-----------------------------------------------------------------------------
(***************************************************************************)
(* The store as its callers see it: the committed items with the bodies    *)
(* their blobs hold.  A directory without a manifest is an empty queue.    *)
(* Nothing is promised of the queue once its manifest has been damaged.    *)
(***************************************************************************)
Intact == file = "ok" /\ corruptions = 0

Status(s) ==
    CASE s \in {"queued", "blocked"} -> "waiting"
      [] s = "running" -> "running"
      [] s \in {"steer_accepted", "steer_consumed"} -> "steered"
      [] s = "uncertain" -> "uncertain"

Visible(it) == [id |-> it.id, status |-> Status(it.state),
                text |-> IF it.blob \in DOMAIN blobs THEN blobs[it.blob] ELSE NoStem]

Queue == INSTANCE DurableQueue WITH
    EntryId <- Stem, Text <- Body, Capacity <- MaxItems,
    queue <- IF Intact THEN [i \in DOMAIN man.items |-> Visible(man.items[i])] ELSE <<>>,
    paused <- Intact /\ man.paused,
    damaged <- corruptions > 0

(***************************************************************************)
(* The multi-step transactions of several processes, cut short by crashes  *)
(* and failing writes, appear to every reader as the atomic operations of  *)
(* a durable queue: each is visible at its manifest rename and never half, *)
(* until the manifest is damaged on disk.                                  *)
(***************************************************************************)
ImplementsDurableQueue == Queue!QSpec
=============================================================================
