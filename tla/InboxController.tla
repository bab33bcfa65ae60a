-------------------------- MODULE InboxController --------------------------
(***************************************************************************)
(* The Controller's side of the durable inbox: the background dispatcher,  *)
(* mid-turn steers, blocking frontends that run items themselves, turn     *)
(* completion and the frontends' queue commands, all on top of the turn    *)
(* gate (TurnAdmission) and one manifest (InboxManifest).  A transaction   *)
(* of the Store is one step here: SessionInbox shows what it does on disk. *)
(***************************************************************************)
EXTENDS TurnAdmission, InboxManifest

CONSTANTS
    Stem,                \* item ids
    NoStem,
    Frontends,           \* the ways a frontend uses the controller
    MaxDispatchRetries   \* maxInboxDispatchRetryAttempts

AllOps == {"chat", "followup", "steer", "resteer", "pause", "retry", "delete", "edit",
           "cancelwith", "runitem", "rotate", "close", "prompts", "badwrites"}

(* A body's references did not resolve when it was frozen, or it carries    *)
(* images, which cannot be injected in mid-turn; "edited" is another text.  *)
AllBodies == {"text", "edited", "image", "badref"}

(* A frontend: the commands it issues, how many items it ever queues, the   *)
(* bodies of its items and the entry points of its chat turns.  "prompts"   *)
(* is not a command: a question may be pending beside its turns; nor is     *)
(* "badwrites": a store transaction may fail and change nothing.            *)
ASSUME FrontendsAssumption ==
    \A f \in Frontends : /\ f.ops \subseteq AllOps /\ f.bodies \subseteq AllBodies
                         /\ f.chat \subseteq Kinds /\ f.items \in Nat
ASSUME RetriesAssumption == MaxDispatchRetries \in Nat \ {0}
ASSUME NoStemAssumption == NoStem \notin Stem

VARIABLES
    man,        \* the manifest, as committed by the last transaction
    used,       \* item ids already drawn
    active,     \* inbox.activeItemIDs and activeOwnership
    admitting,  \* inbox.admittingOwnership
    admMu,      \* who holds inbox.admissionMu
    item,       \* the inbox item each turn runs and the body it read
    settle,     \* onInboxTurnDone of each finished turn
    disp,       \* the dispatcher loop (inbox.dispatching) and its kick flag
    retry,      \* dispatchRetryAttempts and dispatchRetryScheduled
    agent,      \* the agent's steer queue and where the run loop stands
    steer,      \* a TrySteerInboxItem call in progress
    user,       \* a frontend command in progress
    runner,     \* a blocking frontend's RunInboxTurn that is about to block its item
    front,      \* the frontend of this controller, fixed for its life
    applied,    \* history: items whose text reached the model since last requeued by a user
    acked,      \* history: items removed by an acknowledgement
    unsaved,    \* history: items a write about which failed and was not repeated
    asleep      \* history: the last look of the dispatcher stopped at a pending prompt

gate == <<running, finishing, rotating, closed, cancelFn, canceling, parked,
          pc, kind, swap, writable, published>>
own  == <<active, admitting, admMu>>
hist == <<applied, acked, unsaved, asleep>>
ivars == <<gate, man, used, own, item, settle, disp, retry, agent, steer, user, hist, front, runner>>

NoItem == [id |-> NoStem, body |-> "none"]
SettleOff == [pc |-> "off", ids |-> {}, left |-> {}, failed |-> FALSE]

SteerOff == [pc |-> "off", id |-> NoStem, image |-> FALSE, kick |-> FALSE]
UserOff == [pc |-> "off", id |-> NoStem, wasPaused |-> FALSE]
RunnerOff == [pc |-> "off", id |-> NoStem]

Ops == front.ops
Bodies == front.bodies

IInit ==
    /\ NewGate /\ kind = [t \in Turn |-> "guarded"]
    /\ front \in Frontends
    /\ man = EmptyManifest(0) /\ used = {}
    /\ active = {} /\ admitting = {} /\ admMu = "free"
    /\ item = [t \in Turn |-> NoItem]
    /\ settle = [t \in Turn |-> SettleOff]
    /\ disp = [pc |-> "off", kick |-> FALSE, item |-> NoItem, turn |-> NoTurn]
    /\ retry = [attempts |-> 0, scheduled |-> FALSE]
    /\ agent = [pc |-> "off", up |-> FALSE, queue |-> <<>>, id |-> NoStem, flush |-> <<>>]
    /\ steer = SteerOff
    /\ user = UserOff /\ runner = RunnerOff
    /\ applied = {} /\ acked = {} /\ unsaved = {} /\ asleep = FALSE

Has(id) == id \in Ids(man)
Is(id, s) == Has(id) /\ StateOf(man, id) = s
BodyOf(id) == ItemOf(man, id).sum
(* Slip: recovery forgets the claims that are not yet active.               *)
OwnedActive == active

Owned == active \cup admitting

(* A write that fails leaves the manifest as it was (commitManifestLocked); *)
(* what is left when nobody looks at the error of a write of m.             *)
WritesFail == "badwrites" \in Ops
Tried(m) == {m} \cup (IF WritesFail THEN {man} ELSE {})
Unsaved(id) == unsaved' = unsaved \cup {id}

(* Slip: a kick that finds a live dispatcher is not published.              *)
KickedWhenOff(d) == IF d.pc = "off" THEN [d EXCEPT !.kick = TRUE, !.pc = "loop"] ELSE d

(* maybeDispatchInbox: publish the kick; start the loop unless one is live. *)
Kicked(d) == [d EXCEPT !.kick = TRUE, !.pc = IF @ = "off" THEN "loop" ELSE @]

-----------------------------------------------------------------------------
(***************************************************************************)
(* The dispatcher.                                                         *)
(***************************************************************************)
DispLoop ==
    /\ disp.pc = "loop"
    /\ disp' = IF disp.kick THEN [disp EXCEPT !.pc = "busy", !.kick = FALSE]
               ELSE [disp EXCEPT !.pc = "off"]
    /\ UNCHANGED <<gate, man, used, own, item, settle, retry, agent, steer, user, hist, front, runner>>

BackToLoop == [disp EXCEPT !.pc = "loop", !.item = NoItem, !.turn = NoTurn]
ResetRetries == retry' = [retry EXCEPT !.attempts = 0]
ScheduleRetry ==
    retry' = IF retry.scheduled \/ retry.attempts >= MaxDispatchRetries THEN retry
             ELSE [attempts |-> retry.attempts + 1, scheduled |-> TRUE]

(* dispatchInboxOnce looks for a pending prompt first (hasPending of        *)
(* UserPrompts: any answer is possible here) and nobody kicks when that is  *)
(* answered.  The gate flags are read under c.mu, the store after.          *)
DispBusy ==
    /\ disp.pc = "busy"
    /\ \/ "prompts" \in Ops /\ asleep' = TRUE /\ disp' = BackToLoop /\ ResetRetries
       \/ /\ asleep' = FALSE
          /\ IF ~Idle \/ rotating \/ closed
             THEN disp' = BackToLoop /\ ResetRetries
             ELSE disp' = [disp EXCEPT !.pc = "scan"] /\ UNCHANGED retry
    /\ UNCHANGED <<gate, man, used, own, item, settle, agent, steer, user,
                   applied, acked, unsaved, front, runner>>

DispScan ==
    /\ disp.pc = "scan"
    /\ IF NextQueued(man) = {}
       THEN disp' = BackToLoop /\ ResetRetries
       ELSE /\ \E id \in NextQueued(man) : disp' = [disp EXCEPT !.pc = "submit", !.item.id = id]
            /\ UNCHANGED retry
    /\ UNCHANGED <<gate, man, used, own, item, settle, agent, steer, user, hist, front, runner>>

(* TrySubmitInboxItem under admissionMu: ReadItem and the two early checks. *)
DispRead ==
    /\ disp.pc = "submit" /\ admMu = "free"
    /\ IF CanClaim(man, disp.item.id)
       THEN /\ admMu' = "disp"
            /\ disp' = [disp EXCEPT !.pc = "claim", !.item.body = BodyOf(disp.item.id)]
            /\ UNCHANGED retry
       ELSE disp' = BackToLoop /\ ScheduleRetry /\ UNCHANGED admMu
    /\ UNCHANGED <<gate, man, used, active, admitting, item, settle, agent, steer, user, hist, front, runner>>

(* ClaimItem is the admission boundary.  It checks state and pause once     *)
(* more, the body that was read is not read again.                          *)
DispClaim ==
    /\ disp.pc = "claim" /\ disp.item.body # "badref"
    /\ CanClaim(man, disp.item.id)
    /\ admitting' = admitting \cup {disp.item.id}
    /\ man' = SetItemState(man, disp.item.id, "running")
    /\ disp' = [disp EXCEPT !.pc = "ask"]
    /\ UNCHANGED <<gate, used, active, admMu, item, settle, retry, agent, steer, user, hist, front, runner>>

(* Preparing the turn fails, the claim is refused or cannot be written.     *)
DispClaimError ==
    /\ disp.pc = "claim"
    /\ admMu' = "free"
    /\ disp' = BackToLoop /\ ScheduleRetry
    /\ UNCHANGED <<gate, man, used, active, admitting, item, settle, agent, steer, user, hist, front, runner>>

(* The references, or the invocation, no longer materialise: SetState, then *)
(* the pause.                                                               *)
DispBlock ==
    /\ disp.pc = "claim"
    /\ man' \in Tried(SetItemState(man, disp.item.id, "blocked"))
    /\ disp' = [disp EXCEPT !.pc = "pause"]
    /\ UNCHANGED <<gate, used, own, item, settle, retry, agent, steer, user, hist, front, runner>>

DispBlockPause ==
    /\ disp.pc = "pause"
    /\ man' \in Tried(SetPaused(man, TRUE))
    /\ admMu' = "free"
    /\ disp' = BackToLoop /\ ScheduleRetry
    /\ UNCHANGED <<gate, used, active, admitting, item, settle, agent, steer, user, hist, front, runner>>

(* runGuardedInbox: authority check, then the gate's critical section.      *)
DispAsk ==
    /\ disp.pc = "ask"
    /\ \/ ~writable /\ disp' = [disp EXCEPT !.pc = "rollback"] /\ UNCHANGED <<gate, item>>
       \/ \E t \in Turn :
             /\ Ask(t, "inbox")
             /\ item' = [item EXCEPT ![t] = disp.item]
             /\ disp' = [disp EXCEPT !.pc = "admit", !.turn = t]
    /\ UNCHANGED <<man, used, own, settle, retry, agent, steer, user, hist, front, runner>>

DispStart ==
    /\ disp.pc = "admit" /\ AdmitStart(disp.turn)
    /\ disp' = [disp EXCEPT !.pc = "onstart"]
    /\ UNCHANGED <<man, used, own, item, settle, retry, agent, steer, user, hist, front, runner>>

DispDrop ==
    /\ disp.pc = "admit" /\ AdmitDrop(disp.turn)
    /\ item' = [item EXCEPT ![disp.turn] = NoItem]
    /\ disp' = [disp EXCEPT !.pc = "rollback"]
    /\ UNCHANGED <<man, used, own, settle, retry, agent, steer, user, hist, front, runner>>

DispOnStart ==
    /\ disp.pc = "onstart" /\ Spawn(disp.turn)
    /\ active' = active \cup {disp.item.id}
    /\ disp' = [disp EXCEPT !.pc = "return"]
    /\ UNCHANGED <<man, used, admitting, admMu, item, settle, retry, agent, steer, user, hist, front, runner>>

(* A rejected admission puts the item back.  If it has gone or the write    *)
(* fails, the queue is paused, if that can be written.                      *)
Requeued(id) == Has(id) /\ man' = SetItemState(man, id, "queued") /\ UNCHANGED unsaved
RequeueFailed(id) == (Has(id) => WritesFail) /\ man' \in Tried(ForcePause(man)) /\ Unsaved(id)

DispRollback ==
    /\ disp.pc = "rollback"
    /\ \/ Requeued(disp.item.id) /\ disp' = [disp EXCEPT !.pc = "return"]
       \/ RequeueFailed(disp.item.id) /\ disp' = [disp EXCEPT !.pc = "error"]
    /\ UNCHANGED <<gate, used, own, item, settle, retry, agent, steer, user,
                   applied, acked, asleep, front, runner>>

DispReturn ==
    /\ disp.pc \in {"return", "error"}
    /\ admitting' = admitting \ {disp.item.id}
    /\ admMu' = "free"
    /\ disp' = BackToLoop
    /\ IF disp.pc = "error" THEN ScheduleRetry ELSE ResetRetries
    /\ UNCHANGED <<gate, man, used, active, item, settle, agent, steer, user, hist, front, runner>>

RetryFires ==
    /\ retry.scheduled
    /\ retry' = [retry EXCEPT !.scheduled = FALSE]
    /\ disp' = Kicked(disp)
    /\ UNCHANGED <<gate, man, used, own, item, settle, agent, steer, user, hist, front, runner>>

Dispatcher ==
    \/ DispLoop \/ DispBusy \/ DispScan \/ DispRead \/ DispClaim \/ DispClaimError
    \/ DispBlock \/ DispBlockPause \/ DispAsk \/ DispStart \/ DispDrop
    \/ DispOnStart \/ DispRollback \/ DispReturn \/ RetryFires

-----------------------------------------------------------------------------
(***************************************************************************)
(* A turn in flight.  The agent run accepts steers while it is up, applies *)
(* them one per round and, when it ends abnormally, reports the rest as    *)
(* unapplied.                                                              *)
(***************************************************************************)
AgentRun ==
    /\ agent.pc = "off" /\ \E t \in Turn : pc[t] = "body"
    /\ agent' = [agent EXCEPT !.pc = "run", !.up = TRUE]
    /\ UNCHANGED <<gate, man, used, own, item, settle, disp, retry, steer, user, hist, front, runner>>

(* consumeSteer: the body is read from the store when the steer is applied. *)
AgentConsume ==
    /\ agent.pc = "run" /\ agent.queue # <<>>
    /\ LET id == Head(agent.queue)
           popped == [agent EXCEPT !.queue = Tail(@)]
       IN  \/ /\ Has(id) /\ BodyOf(id) \notin {"image", "badref"}
              /\ agent' = [popped EXCEPT !.pc = "applied", !.id = id]
              /\ applied' = applied \cup {id}
           \/ /\ agent' = [popped EXCEPT !.pc = "unapplied", !.flush = <<id>>]
              /\ UNCHANGED applied
    /\ UNCHANGED <<gate, man, used, own, item, settle, disp, retry, steer, user,
                   acked, unsaved, asleep, front, runner>>

(* The Steer event reaches the inbox sink: onInboxSteerConsumed.            *)
AgentMarkConsumed ==
    /\ agent.pc = "applied"
    /\ man' \in Tried(SetItemState(man, agent.id, "steer_consumed"))
    /\ agent' = [agent EXCEPT !.pc = "run", !.id = NoStem]
    /\ UNCHANGED <<gate, used, own, item, settle, disp, retry, steer, user, hist, front, runner>>

(* closeSteerIntakeIfIdle on a final answer, flushSteerQueue on any exit.   *)
AgentFinish ==
    /\ agent.pc = "run" /\ agent.queue = <<>>
    /\ agent' = [agent EXCEPT !.pc = "off", !.up = FALSE]
    /\ UNCHANGED <<gate, man, used, own, item, settle, disp, retry, steer, user, hist, front, runner>>

(* Slip: an aborted run throws its steer queue away.                        *)
AgentAbortSilent ==
    /\ agent.pc = "run" /\ agent.queue # <<>>
    /\ agent' = [agent EXCEPT !.pc = "off", !.up = FALSE, !.queue = <<>>]
    /\ UNCHANGED <<gate, man, used, own, item, settle, disp, retry, steer, user, hist, front, runner>>

AgentAbort ==
    /\ agent.pc = "run" /\ agent.queue # <<>>
    /\ agent' = [agent EXCEPT !.pc = "unapplied", !.up = FALSE, !.flush = agent.queue, !.queue = <<>>]
    /\ UNCHANGED <<gate, man, used, own, item, settle, disp, retry, steer, user, hist, front, runner>>

(* onInboxUnappliedSteer: state, then pause and ownership.                  *)
AgentUnapplied ==
    /\ agent.pc = "unapplied"
    /\ \/ man' = SetItemState(man, Head(agent.flush), "uncertain") /\ UNCHANGED unsaved
       \/ WritesFail /\ Unsaved(Head(agent.flush)) /\ UNCHANGED man
    /\ agent' = [agent EXCEPT !.pc = "unowned"]
    /\ UNCHANGED <<gate, used, own, item, settle, disp, retry, steer, user,
                   applied, acked, asleep, front, runner>>

AgentUnown ==
    /\ agent.pc = "unowned"
    /\ man' \in Tried(SetPaused(man, TRUE))
    /\ active' = active \ {Head(agent.flush)}
    /\ agent' = [agent EXCEPT !.flush = Tail(@),
                              !.pc = IF Len(agent.flush) > 1 THEN "unapplied"
                                     ELSE IF agent.up THEN "run" ELSE "off"]
    /\ UNCHANGED <<gate, used, admitting, admMu, item, settle, disp, retry, steer, user, hist, front, runner>>

Agent == AgentRun \/ AgentConsume \/ AgentMarkConsumed \/ AgentFinish \/ AgentAbort
         \/ AgentUnapplied \/ AgentUnown

-----------------------------------------------------------------------------
(***************************************************************************)
(* onInboxTurnDone: the ids to settle are those active when it begins, and *)
(* stay owned until every acknowledgement is durable.                      *)
(***************************************************************************)
Settle(t, s) == settle' = [settle EXCEPT ![t] = s]

(* Slip: a blocking turn returns without settling its items.                *)
TurnBodyEndsUnsettled(t) ==
    /\ agent.pc = "off"
    /\ \/ BodyEnds(t) /\ Settle(t, [SettleOff EXCEPT !.pc = "capture"])
       \/ SyncEnds(t) /\ Settle(t, [SettleOff EXCEPT !.pc = "done"])
    /\ applied' = applied \cup ({item[t].id} \ {NoStem})
    /\ item' = [item EXCEPT ![t] = NoItem]
    /\ UNCHANGED <<man, used, own, disp, retry, agent, steer, user,
                   acked, unsaved, asleep, front, runner>>

TurnBodyEnds(t) ==
    /\ agent.pc = "off"
    /\ BodyEnds(t) \/ SyncEnds(t)
    /\ Settle(t, [SettleOff EXCEPT !.pc = "capture"])
    /\ applied' = applied \cup ({item[t].id} \ {NoStem})
    /\ item' = [item EXCEPT ![t] = NoItem]
    /\ UNCHANGED <<man, used, own, disp, retry, agent, steer, user,
                   acked, unsaved, asleep, front, runner>>

(* SnapshotActivity succeeds, or fails and every id becomes uncertain; so   *)
(* does an id whose acknowledgement is refused or cannot be written.  The   *)
(* ids are untracked whether or not that could be written.                  *)
SettleCapture(t) ==
    /\ settle[t].pc = "capture"
    /\ \/ active = {} /\ Settle(t, [SettleOff EXCEPT !.pc = "done"])
       \/ active # {} /\ \E next \in {"ack", "unsaved"} :
             Settle(t, [pc |-> next, ids |-> active, left |-> active, failed |-> next = "unsaved"])
    /\ UNCHANGED <<gate, man, used, own, item, disp, retry, agent, steer, user, hist, front, runner>>

SettleNext(t, id, fails) ==
    Settle(t, [settle[t] EXCEPT !.left = @ \ {id}, !.failed = @ \/ fails])

SettleOne(t) ==
    /\ settle[t].pc \in {"ack", "unsaved"}
    /\ \E id \in settle[t].left :
          \/ /\ settle[t].pc = "ack" /\ CanAck(man, id)
             /\ man' = RemoveItems(man, {id}, man.receipts) /\ acked' = acked \cup {id}
             /\ SettleNext(t, id, FALSE) /\ UNCHANGED unsaved
          \/ /\ man' = SetItemState(man, id, "uncertain")
             /\ SettleNext(t, id, Has(id)) /\ UNCHANGED <<acked, unsaved>>
          \/ /\ WritesFail /\ Has(id) /\ Unsaved(id)
             /\ SettleNext(t, id, TRUE) /\ UNCHANGED <<man, acked>>
    /\ UNCHANGED <<gate, used, own, item, disp, retry, agent, steer, user,
                   applied, asleep, front, runner>>

(* Slip: items that could not be acknowledged are queued again.             *)
SettleUntrackRequeues(t) ==
    /\ settle[t].pc \in {"ack", "unsaved"} /\ settle[t].left = {}
    /\ man' = IF settle[t].failed
              THEN [man EXCEPT !.items = [i \in DOMAIN @ |->
                       IF @[i].id \in settle[t].ids THEN [@[i] EXCEPT !.state = "queued"] ELSE @[i]]]
              ELSE man
    /\ active' = active \ settle[t].ids
    /\ Settle(t, [SettleOff EXCEPT !.pc = "done"])
    /\ UNCHANGED <<gate, used, admitting, admMu, item, disp, retry, agent, steer, user, hist, front, runner>>

SettleUntrack(t) ==
    /\ settle[t].pc \in {"ack", "unsaved"} /\ settle[t].left = {}
    /\ IF settle[t].failed THEN man' \in Tried(SetPaused(man, TRUE)) ELSE UNCHANGED man
    /\ active' = active \ settle[t].ids
    /\ Settle(t, [SettleOff EXCEPT !.pc = "done"])
    /\ UNCHANGED <<gate, used, admitting, admMu, item, disp, retry, agent, steer, user, hist, front, runner>>

(* TurnDone delivered: with nothing parked the window's end kicks the       *)
(* dispatcher; a blocking turn leaves the next item to its frontend.        *)
TurnSettled(t) ==
    /\ settle[t].pc = "done"
    /\ Settle(t, SettleOff)
    /\ \/ /\ Delivered(t)
          /\ disp' = IF closed \/ parked # <<>> THEN disp ELSE Kicked(disp)
       \/ SyncSettled(t) /\ UNCHANGED disp
    /\ UNCHANGED <<man, used, own, item, retry, agent, steer, user, hist, front, runner>>

-----------------------------------------------------------------------------
(***************************************************************************)
(* Turns that do not come from the dispatcher: chat input, and blocking    *)
(* frontends that run a queued item in their own goroutine (RunInboxTurn). *)
(***************************************************************************)
ChatAsk(t) ==
    /\ "chat" \in Ops
    /\ \E k \in front.chat : Ask(t, k)
    /\ UNCHANGED <<man, used, own, item, settle, disp, retry, agent, steer, user, hist, front, runner>>

(* RunInboxTurn reads the item and asks for the gate, or blocks the item    *)
(* and pauses if it cannot run, outside admissionMu.  The frontend's loop   *)
(* runs one item after the other.                                           *)
RunItemAsk(t) ==
    /\ "runitem" \in Ops /\ runner.pc = "off" /\ \A s \in Turn : kind[s] = "sync" => pc[s] = "idle"
    /\ \E id \in Ids(man) :
          /\ Is(id, "queued") /\ BodyOf(id) # "badref"
          /\ Ask(t, "sync")
          /\ item' = [item EXCEPT ![t] = [id |-> id, body |-> BodyOf(id)]]
    /\ UNCHANGED <<man, used, own, settle, disp, retry, agent, steer, user, hist, front, runner>>

RunItemRead ==
    /\ "runitem" \in Ops /\ runner.pc = "off" /\ \A s \in Turn : kind[s] = "sync" => pc[s] = "idle"
    /\ \E id \in Ids(man) : Is(id, "queued") /\ runner' = [pc |-> "block", id |-> id]
    /\ UNCHANGED <<gate, man, used, own, item, settle, disp, retry, agent, steer, user, hist, front>>

RunItemBlock ==
    /\ runner.pc = "block"
    /\ man' \in Tried(SetItemState(man, runner.id, "blocked"))
    /\ runner' = [runner EXCEPT !.pc = "pause"]
    /\ UNCHANGED <<gate, used, own, item, settle, disp, retry, agent, steer, user, hist, front>>

RunItemPause ==
    /\ runner.pc = "pause"
    /\ man' \in Tried(SetPaused(man, TRUE))
    /\ runner' = RunnerOff
    /\ UNCHANGED <<gate, used, own, item, settle, disp, retry, agent, steer, user, hist, front>>

RunItemBlocks == RunItemRead \/ RunItemBlock \/ RunItemPause

TurnAdmit(t) ==
    /\ disp.turn # t
    /\ \/ (AdmitStart(t) \/ AdmitPark(t)) /\ UNCHANGED item
       \/ AdmitDrop(t) /\ item' = [item EXCEPT ![t] = NoItem]
    /\ UNCHANGED <<man, used, own, settle, disp, retry, agent, steer, user, hist, front, runner>>

TurnSpawn(t) ==
    /\ disp.turn # t /\ item[t] = NoItem /\ Spawn(t)
    /\ UNCHANGED <<man, used, own, item, settle, disp, retry, agent, steer, user, hist, front, runner>>

(* onAdmitted of RunInboxTurn claims the item under admissionMu.            *)
RunItemClaim(t) ==
    /\ kind[t] = "sync" /\ item[t] # NoItem /\ admMu = "free"
    /\ \/ /\ CanClaim(man, item[t].id) /\ Spawn(t)
          /\ man' = SetItemState(man, item[t].id, "running")
          /\ active' = active \cup {item[t].id}
          /\ UNCHANGED item
       \/ /\ CanClaim(man, item[t].id) => WritesFail
          /\ SyncAdmittedError(t)
          /\ item' = [item EXCEPT ![t] = NoItem]
          /\ UNCHANGED <<man, active>>
    /\ UNCHANGED <<used, admitting, admMu, settle, disp, retry, agent, steer, user, hist, front, runner>>

Turns(t) == TurnAdmit(t) \/ TurnSpawn(t) \/ RunItemClaim(t) \/ TurnBodyEnds(t)
            \/ SettleCapture(t) \/ SettleOne(t) \/ SettleUntrack(t) \/ TurnSettled(t)

-----------------------------------------------------------------------------
(***************************************************************************)
(* TrySteerInboxItem, under admissionMu to the end.  A rejected steer      *)
(* becomes a follow-up and kicks the dispatcher after the unlock.          *)
(***************************************************************************)
SteerTo(next, kicks) == steer' = [steer EXCEPT !.pc = next, !.kick = kicks]

(* Slip: an item already admitted is steered like a queued one.             *)
SteerReadAdmitted ==
    /\ steer.pc = "called" /\ admMu = "free" /\ Has(steer.id)
    /\ admMu' = "steer"
    /\ man' = SetItemState(man, steer.id, "queued")
    /\ SteerTo("mark", FALSE)
    /\ UNCHANGED <<gate, used, active, admitting, item, settle, disp, retry, agent, user, hist, front, runner>>

RecoveryTried ==
    IF Orphans(man, Owned) = {} THEN UNCHANGED man ELSE man' \in Tried(RecoverOrphans(man, Owned))

(* readSteerCandidate recovers orphans before it trusts an in-flight state; *)
(* whether the body carries images is not looked at again.                  *)
SteerRead ==
    /\ steer.pc = "called" /\ admMu = "free"
    /\ admMu' = "steer"
    /\ LET s == IF Has(steer.id) THEN StateOf(man, steer.id) ELSE "missing"
       IN  \/ /\ s \in {"queued", "uncertain"} /\ ~man.paused
              /\ man' = SetItemState(man, steer.id, "queued")
              /\ applied' = IF s = "uncertain" THEN applied \ {steer.id} ELSE applied
              /\ steer' = [steer EXCEPT !.pc = "mark", !.image = BodyOf(steer.id) = "image"]
           \/ /\ s \in InFlightStates
              /\ RecoveryTried
              /\ SteerTo("return", FALSE) /\ UNCHANGED applied
           \/ /\ \/ s \in {"missing", "blocked"} \/ (s = "uncertain" /\ WritesFail)
                 \/ s \in {"queued", "uncertain"} /\ man.paused
              /\ SteerTo("return", FALSE) /\ UNCHANGED <<man, applied>>
    /\ UNCHANGED <<gate, used, active, admitting, item, settle, disp, retry, agent, user,
                   acked, unsaved, asleep, front, runner>>

(* A closed or rotating controller refuses.  Otherwise the admission        *)
(* boundary is made durable before the agent sees the item; image guidance  *)
(* skips it and is converted at once.  Nothing that moves the gate depends  *)
(* on the manifest, so the look at the gate is one step with the boundary.  *)
SteerMark ==
    /\ steer.pc = "mark"
    /\ \/ /\ closed \/ rotating
          /\ SteerTo("return", ~closed) /\ UNCHANGED <<man, admitting, unsaved>>
       \/ /\ ~closed /\ ~rotating
          /\ admitting' = admitting \cup {steer.id}
          /\ \/ steer.image /\ SteerTo("convert", FALSE) /\ UNCHANGED <<man, unsaved>>
             \/ /\ ~steer.image /\ (Has(steer.id) => WritesFail)
                /\ Unsaved(steer.id) /\ SteerTo("return", FALSE) /\ UNCHANGED man
             \/ /\ ~steer.image /\ Has(steer.id)
                /\ man' = SetItemState(man, steer.id, "steer_accepted")
                /\ SteerTo("enqueue", FALSE) /\ UNCHANGED unsaved
    /\ UNCHANGED <<gate, used, active, admMu, item, settle, disp, retry, agent, user,
                   applied, acked, asleep, front, runner>>

(* Under c.mu: the agent takes the item and it becomes active, or neither.  *)
SteerEnqueue ==
    /\ steer.pc = "enqueue"
    /\ IF ~closed /\ ~rotating /\ running /\ agent.up
       THEN /\ agent' = [agent EXCEPT !.queue = Append(@, steer.id)]
            /\ active' = active \cup {steer.id}
            /\ SteerTo("return", FALSE)
       ELSE SteerTo("requeue", FALSE) /\ UNCHANGED <<agent, active>>
    /\ UNCHANGED <<gate, man, used, admitting, admMu, item, settle, disp, retry, user, hist, front, runner>>

SteerRequeue ==
    /\ steer.pc = "requeue"
    /\ \/ Requeued(steer.id) /\ SteerTo("convert", FALSE)
       \/ RequeueFailed(steer.id) /\ SteerTo("return", FALSE)
    /\ UNCHANGED <<gate, used, own, item, settle, disp, retry, agent, user,
                   applied, acked, asleep, front, runner>>

SteerConvert ==
    /\ steer.pc = "convert"
    /\ \/ /\ IsPending(man, steer.id)
          /\ man' = ConvertIntent(man, steer.id, "followup")
          /\ SteerTo("return", TRUE) /\ UNCHANGED unsaved
       \/ ~IsPending(man, steer.id) /\ SteerTo("return", FALSE) /\ UNCHANGED <<man, unsaved>>
       \/ /\ IsPending(man, steer.id) /\ WritesFail /\ Unsaved(steer.id)
          /\ SteerTo("return", FALSE) /\ UNCHANGED man
    /\ UNCHANGED <<gate, used, own, item, settle, disp, retry, agent, user,
                   applied, acked, asleep, front, runner>>

SteerReturn ==
    /\ steer.pc = "return"
    /\ admitting' = admitting \ {steer.id}
    /\ admMu' = "free"
    /\ disp' = IF steer.kick THEN Kicked(disp) ELSE disp
    /\ steer' = SteerOff
    /\ UNCHANGED <<gate, man, used, active, item, settle, retry, agent, user, hist, front, runner>>

Steering == SteerRead \/ SteerMark \/ SteerEnqueue
            \/ SteerRequeue \/ SteerConvert \/ SteerReturn

-----------------------------------------------------------------------------
(***************************************************************************)
(* The frontends' commands.  A kick that ends a command is taken together  *)
(* with the command's last store transaction.                              *)
(***************************************************************************)
UserTo(next) == user' = [user EXCEPT !.pc = next]

(* A frontend that runs the items itself uses the calls that do not         *)
(* dispatch (EnqueueInbox, SetInboxPausedPassive, RetryInboxItemPassive).   *)
CommandKick(d) == IF "runitem" \in Ops THEN d ELSE Kicked(d)

(* EnqueueInbox: the commit, then block and pause if references failed.     *)
UserEnqueue(intent) ==
    /\ intent \in Ops /\ user.pc = "off"
    /\ CanEnqueue(man, NoKey)
    /\ Cardinality(used) < front.items
    /\ \E id \in Stem \ used, b \in Bodies :
          /\ man' = Enqueue(man, id, intent, NoKey, b)
          /\ used' = used \cup {id}
          /\ user' = [user EXCEPT !.id = id, !.pc = IF b = "badref" THEN "badref" ELSE intent]
    /\ UNCHANGED <<gate, own, item, settle, disp, retry, agent, steer, hist, front, runner>>

UserBadRef ==
    /\ user.pc = "badref"
    /\ \/ /\ Has(user.id) /\ UserTo("badpause")
          /\ man' = SetItemState(man, user.id, "blocked") /\ UNCHANGED unsaved
       \/ /\ Has(user.id) => WritesFail
          /\ user' = UserOff /\ Unsaved(user.id) /\ UNCHANGED man
    /\ UNCHANGED <<gate, used, own, item, settle, disp, retry, agent, steer,
                   applied, acked, asleep, front, runner>>

UserBadPause ==
    /\ user.pc = "badpause"
    /\ man' \in Tried(SetPaused(man, TRUE))
    /\ user' = UserOff
    /\ UNCHANGED <<gate, used, own, item, settle, disp, retry, agent, steer, hist, front, runner>>

(* TryEnqueueFollowup dispatches unless Running() sees a turn in flight or  *)
(* its finishing window.                                                    *)
UserFollowup ==
    /\ user.pc = "followup"
    /\ disp' = IF Idle THEN CommandKick(disp) ELSE disp
    /\ user' = UserOff
    /\ UNCHANGED <<gate, man, used, own, item, settle, retry, agent, steer, hist, front, runner>>

(* TryEnqueueAndSteer, or a frontend that steers an item already queued.    *)
UserSteer ==
    /\ steer.pc = "off"
    /\ \E id \in Ids(man) :
          /\ steer' = [SteerOff EXCEPT !.pc = "called", !.id = id]
          /\ \/ user.pc = "steer" /\ user.id = id /\ user' = UserOff
             \/ "resteer" \in Ops /\ user.pc = "off" /\ UNCHANGED user
    /\ UNCHANGED <<gate, man, used, own, item, settle, disp, retry, agent, hist, front, runner>>

UserPause(p) ==
    /\ "pause" \in Ops
    /\ man' = SetPaused(man, p)
    /\ disp' = IF p THEN disp ELSE CommandKick(disp)
    /\ UNCHANGED <<gate, used, own, item, settle, retry, agent, steer, user, hist, front, runner>>

UserRetry ==
    /\ "retry" \in Ops
    /\ \E id \in Ids(man) :
          /\ CanRetry(man, id)
          /\ man' = SetItemState(man, id, "queued")
          /\ applied' = applied \ {id}
    /\ disp' = CommandKick(disp)
    /\ UNCHANGED <<gate, used, own, item, settle, retry, agent, steer, user,
                   acked, unsaved, asleep, front, runner>>

(* UpdateInboxItem, AppendInboxItem and RefreshInboxReferences: an edited   *)
(* item is queued again, and nobody is told.                                *)
UserEdit ==
    /\ "edit" \in Ops /\ user.pc = "off"
    /\ \E id \in Ids(man), b \in Bodies :
          /\ CanUpdate(man, id, NoKey)
          /\ man' = UpdateItem(man, id, id, b, NoKey, b)
          /\ user' = IF b = "badref" THEN [user EXCEPT !.pc = "badref", !.id = id] ELSE user
    /\ UNCHANGED <<gate, used, own, item, settle, disp, retry, agent, steer, hist, front, runner>>

(* DeleteInboxItem: recovery, DeleteItem, and for an accepted steer the     *)
(* rollback to queued and a second DeleteItem, each a transaction.          *)
UserDelete ==
    /\ "delete" \in Ops /\ user.pc = "off"
    /\ RecoveryTried
    /\ \E id \in Ids(man) : user' = [user EXCEPT !.pc = "delete", !.id = id]
    /\ UNCHANGED <<gate, used, own, item, settle, disp, retry, agent, steer, hist, front, runner>>

UserDeleteItem ==
    /\ user.pc \in {"delete", "redelete"}
    /\ \/ /\ IsPending(man, user.id)
          /\ man' = RemoveItems(man, {user.id}, man.receipts) /\ UNCHANGED unsaved
       \/ ~IsPending(man, user.id) /\ UNCHANGED <<man, unsaved>>
       \/ IsPending(man, user.id) /\ WritesFail /\ Unsaved(user.id) /\ UNCHANGED man
    /\ user' = IF user.pc = "delete" /\ Is(user.id, "steer_accepted")
               THEN [user EXCEPT !.pc = "unaccept"] ELSE UserOff
    /\ UNCHANGED <<gate, used, own, item, settle, disp, retry, agent, steer,
                   applied, acked, asleep, front, runner>>

UserUnaccept ==
    /\ user.pc = "unaccept"
    /\ \/ Has(user.id) /\ man' = SetItemState(man, user.id, "queued") /\ UserTo("redelete")
       \/ (Has(user.id) => WritesFail) /\ user' = UserOff /\ UNCHANGED man
    /\ UNCHANGED <<gate, used, own, item, settle, disp, retry, agent, steer, hist, front, runner>>

(* CancelWithInboxItems: pause, discard, Cancel, unpause if it was not.     *)
UserCancelWith ==
    /\ "cancelwith" \in Ops /\ user.pc = "off"
    /\ \E id \in Ids(man) : user' = [pc |-> "cwpause", id |-> id, wasPaused |-> man.paused]
    /\ UNCHANGED <<gate, man, used, own, item, settle, disp, retry, agent, steer, hist, front, runner>>

UserCancelPause ==
    /\ user.pc = "cwpause"
    /\ \/ man' = SetPaused(man, TRUE) /\ UserTo("cwdiscard")
       \/ WritesFail /\ UserTo("cwcancel") /\ UNCHANGED man
    /\ UNCHANGED <<gate, used, own, item, settle, disp, retry, agent, steer, hist, front, runner>>

UserCancelDiscard ==
    /\ user.pc = "cwdiscard"
    /\ \/ /\ man' = IF CanDiscard(man, {user.id}) THEN RemoveItems(man, {user.id}, man.receipts) ELSE man
          /\ UserTo(IF Has(user.id) /\ ~IsPending(man, user.id) THEN "cwcancel" ELSE "cwcancelresume")
       \/ WritesFail /\ UserTo("cwcancel") /\ UNCHANGED man
    /\ UNCHANGED <<gate, used, own, item, settle, disp, retry, agent, steer, hist, front, runner>>

UserCancelTurn ==
    /\ user.pc \in {"cwcancel", "cwcancelresume"}
    /\ IF cancelFn = NoTurn THEN UNCHANGED gate ELSE Cancel
    /\ user' = IF user.pc = "cwcancel" \/ user.wasPaused THEN UserOff
               ELSE [user EXCEPT !.pc = "cwresume"]
    /\ UNCHANGED <<man, used, own, item, settle, disp, retry, agent, steer, hist, front, runner>>

UserCancelResume ==
    /\ user.pc = "cwresume"
    /\ man' \in Tried(SetPaused(man, FALSE))
    /\ user' = UserOff
    /\ UNCHANGED <<gate, used, own, item, settle, disp, retry, agent, steer, hist, front, runner>>

(* InboxSnapshot recovers what nobody owns.                                 *)
InboxSnapshot ==
    /\ Orphans(man, Owned) # {}
    /\ man' = RecoverOrphans(man, Owned)
    /\ UNCHANGED <<gate, used, own, item, settle, disp, retry, agent, steer, user, hist, front, runner>>

User == \/ \E intent \in Intents : UserEnqueue(intent)
        \/ UserBadRef \/ UserBadPause \/ UserFollowup \/ UserSteer
        \/ \E p \in BOOLEAN : UserPause(p)
        \/ UserRetry \/ UserEdit \/ UserDelete \/ UserDeleteItem \/ UserUnaccept
        \/ UserCancelWith \/ UserCancelPause \/ UserCancelDiscard \/ UserCancelTurn
        \/ UserCancelResume \/ InboxSnapshot

(* A rotation that keeps the session path; its release is a kick.           *)
Rotation(q) ==
    /\ "rotate" \in Ops
    /\ \/ BeginRotation(q) /\ UNCHANGED disp
       \/ EndRotation(q) /\ disp' = Kicked(disp)
    /\ UNCHANGED <<man, used, own, item, settle, retry, agent, steer, user, hist, front, runner>>

Teardown ==
    /\ "close" \in Ops /\ (Close \/ LoseAuthority)
    /\ UNCHANGED <<man, used, own, item, settle, disp, retry, agent, steer, user, hist, front, runner>>

-----------------------------------------------------------------------------
INext ==
    \/ Dispatcher \/ Agent \/ Steering \/ User \/ Teardown \/ RunItemBlocks
    \/ \E t \in Turn : Turns(t) \/ ChatAsk(t) \/ RunItemAsk(t)
    \/ \E q \in Rotator : Rotation(q)

ISpec == IInit /\ [][INext]_ivars

-----------------------------------------------------------------------------
(***************************************************************************)
(* The type invariant of the inbox wiring.                                 *)
(***************************************************************************)
ITypeOK ==
    /\ TypeOK
    /\ active \subseteq Stem /\ admitting \subseteq Stem /\ used \subseteq Stem
    /\ admMu \in {"free", "disp", "steer"}
    /\ retry.attempts \in 0..MaxDispatchRetries
    /\ Ids(man) \subseteq used /\ Len(man.items) <= MaxItems
    /\ \A it \in ToSet(man.items) : it.state \in States /\ it.intent \in Intents
    /\ applied \subseteq used /\ acked \subseteq used /\ unsaved \subseteq used

(***************************************************************************)
(* AckDequeue removes an item only once its text has reached the model:    *)
(* completing one turn never acknowledges work another turn has yet to do. *)
(***************************************************************************)
AckAfterRun == acked \subseteq applied

(* Three uses set an item's state without looking at it again, and can take *)
(* it from a turn that has started it meanwhile: deleting (UserUnaccept),   *)
(* an edit whose references fail (UserBadRef), and a blocking frontend that *)
(* finds an item it cannot run (RunItemBlock).                              *)
Heedless ==
    \/ "delete" \in Ops \/ "runitem" \in Ops
    \/ "edit" \in Ops /\ "badref" \in Bodies

(***************************************************************************)
(* An item whose text has reached the model does not reach it again, by a  *)
(* turn of its own or as a steer, unless a user asks for it: "it must not  *)
(* be applied twice" (TrySteerInboxItem).  Not promised to a frontend that *)
(* is Heedless.                                                            *)
(***************************************************************************)
AppliedNotRerun ==
    [][~Heedless =>
       /\ \A t \in Turn : pc[t] # "body" /\ pc'[t] = "body" => item'[t].id \notin applied
       /\ agent.pc = "run" /\ agent'.pc = "applied" => agent'.id \notin applied]_ivars

(***************************************************************************)
(* While a turn runs an item the manifest says so: no recovery or rollback *)
(* takes the item of a live turn away (ownsItem).  Not promised to a       *)
(* frontend that is Heedless.                                              *)
(***************************************************************************)
LiveTurnItemRunning ==
    ~Heedless => \A t \in Turn : pc[t] = "body" /\ item[t] # NoItem => Is(item[t].id, "running")

(***************************************************************************)
(* A turn runs the text the user last committed for its item: an edit or   *)
(* an append that was accepted is not dropped in the handoff.              *)
(***************************************************************************)
RunsCommittedText ==
    \A t \in Turn : pc[t] = "body" /\ item[t] # NoItem => item[t].body = BodyOf(item[t].id)

(***************************************************************************)
(* One item is never applied twice at the same time: what a turn runs is   *)
(* not also waiting in that turn's steer queue, and is queued there once.  *)
(* Not promised to a frontend that is Heedless.                            *)
(***************************************************************************)
NotRunAndSteered ==
    ~Heedless =>
       /\ \A t \in Turn : pc[t] = "body" /\ item[t] # NoItem
             => item[t].id \notin ToSet(agent.queue)
       /\ \A i, j \in DOMAIN agent.queue : agent.queue[i] = agent.queue[j] => i = j

(* Nothing is under way: whatever is queued now waits for the next command. *)
AtRest ==
    /\ GateOpen /\ Idle /\ writable
    /\ disp.pc = "off" /\ ~retry.scheduled /\ agent.pc = "off"
    /\ steer.pc = "off" /\ user.pc = "off" /\ runner.pc = "off"
    /\ \A t \in Turn : pc[t] = "idle"

(***************************************************************************)
(* No wakeup is lost: an unpaused inbox at rest holds no queued item,      *)
(* unless the bounded dispatch retries are used up.  Three exceptions are  *)
(* the code's: the dispatcher's last look stopped at a pending prompt,     *)
(* whose answer kicks nobody (dispatchInboxOnce); a write about the item   *)
(* failed, after which TrySteerInboxItem and EnqueueInbox return without a *)
(* kick; and a frontend that edits a blocked item (nobody is told), stops  *)
(* with discard (UserCancelResume kicks nobody) or runs the items itself.  *)
(***************************************************************************)
NoLostWakeup ==
    (/\ Ops \cap {"cancelwith", "edit", "runitem"} = {} /\ ~asleep
     /\ AtRest /\ ~man.paused /\ retry.attempts < MaxDispatchRetries)
        => \A it \in ToSet(man.items) : it.state = "queued" => it.id \in unsaved

(***************************************************************************)
(* A controller at rest leaves nothing half done: nothing is owned and     *)
(* every item is pending ("multi-steer rounds leave no orphans"), except   *)
(* an item a write about which failed: rollback, settlement and the        *)
(* unapplied hook give it up all the same, and it stays in flight until    *)
(* InboxSnapshot recovers it.  A second steer of an item can lose its      *)
(* ownership to the late untracking of the first (AgentUnown), so          *)
(* frontends that re-steer are left out.                                   *)
(***************************************************************************)
NoOrphansAtRest ==
    "resteer" \notin Ops /\ AtRest
        => Owned = {} /\ \A it \in ToSet(man.items) : it.state \in Pending \/ it.id \in unsaved
=============================================================================
