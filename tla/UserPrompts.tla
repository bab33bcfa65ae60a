---------------------------- MODULE UserPrompts -----------------------------
(***************************************************************************)
(* Approvals and questions of one controller: who may act without asking,  *)
(* who waits for the one prompt a user sees, and how answers, changes of   *)
(* the approval mode, timeouts, Stop and teardown reach those who wait.    *)
(* A request is one tool call, plan, question or extension prompt; the     *)
(* entries of the two maps of approvalManager are the requests they belong *)
(* to, because ids are never reused.                                       *)
(***************************************************************************)
EXTENDS FiniteSets, Naturals, TLC

CONSTANTS
    Req, Turn, NoTurn,
    Sidecar,        \* owns the prompts of extensions: a connection, not a turn
    Stopper,        \* calls of Cancel or Close; each is made once
    Switcher,       \* calls of ApplyToolApprovalMode; each is made once
    Client,         \* streams a frontend attaches with
    Worlds          \* records: class, owner and scope of each request, modes, ops

Modes == {"ask", "auto", "yolo", "dontask"}
(* The calls that meet the manager, by what decides about them: a tool under *)
(* the fallback rule, under an explicit ask rule, a dynamic shell command,   *)
(* remember and forget, sandbox escape and managed config, the trust of a    *)
(* read-only command, a plan, more write access, and questions.              *)
Gated == {"plain", "rule", "human", "memory"}
Classes == Gated \cup {"escape", "trust", "plan", "write", "ask", "none"}
(* What a controller is built with (guardian, hook, approvalTimeout), and    *)
(* what may happen to it.                                                    *)
Ops == {"guardian", "hook", "timeout", "stop", "close", "attach", "exit"}

ASSUME PromptAssumption ==
    /\ NoTurn \notin Turn /\ Sidecar \notin Turn \cup {NoTurn} /\ "free" \notin Req
    /\ \A w \in Worlds : /\ w.class \in [Req -> Classes] /\ w.owner \in [Req -> Turn \cup {Sidecar}]
                         /\ w.modes \subseteq Modes /\ w.ops \subseteq Ops
                         /\ \A r \in Req : w.owner[r] = Sidecar => w.class[r] \in {"ask", "none"}
                         /\ \A r, o \in Req : w.scope[r] = w.scope[o] => w.class[r] = w.class[o]

VARIABLES
    world,      \* fixed at start
    mode, gate, subGate, \* the posture, and the postures the two gates were built for
    window,     \* planAutoApprove
    grants,     \* session grants, trusted commands and write roots, by scope
    entries,    \* approvals and asks
    queued,     \* asks registered but not shown
    promptMu, emitMu, \* the request that holds each lock, or "free"
    pc,         \* of each request's goroutine
    ghost,      \* asks that left while their goroutine still wants promptMu
    inhand,     \* the answer a resolver took the entry out for
    reply,      \* the buffered reply channels
    outcome,
    turn, over, closed, \* the turn with a cancel function, contexts done, close
    stop, switch,       \* the callers of Cancel and of ApplyToolApprovalMode
    attached, cards,    \* streams, and how often each was sent a prompt
    human, seen         \* history: the user's answers, the postures of a request's life

posture == <<mode, gate, subGate, switch>>
locks == <<promptMu, emitMu, ghost>>
answers == <<inhand, reply, human>>
lives == <<turn, over, closed, stop>>
views == <<attached, cards>>
vars == <<world, posture, window, grants, entries, queued, locks, pc, outcome, answers, lives, views, seen>>

Class(r) == world.class[r]
Owner(r) == world.owner[r]
Scope(r) == world.scope[r]
Asks(r) == Class(r) = "ask"
ContextDone(r) == Owner(r) \in over
Running(r) == pc[r] \notin {"idle", "done"}

Init ==
    /\ world \in Worlds
    /\ mode \in world.modes /\ gate = mode /\ subGate = mode
    /\ window = FALSE /\ grants = {} /\ entries = {} /\ queued = {}
    /\ promptMu = "free" /\ emitMu = "free" /\ ghost = {}
    /\ pc = [r \in Req |-> "idle"]
    /\ outcome = [r \in Req |-> "none"]
    /\ inhand = [r \in Req |-> "none"] /\ reply = inhand /\ human = inhand
    /\ turn = NoTurn /\ over = {} /\ closed = FALSE
    /\ stop = [s \in Stopper |-> [at |-> "idle", turn |-> NoTurn]]
    /\ switch = [s \in Switcher |-> [at |-> "idle", mode |-> "ask", drained |-> {}]]
    /\ attached = (IF "attach" \in world.ops THEN {} ELSE Client) /\ cards = [c \in Client |-> [r \in Req |-> 0]]
    /\ seen = [r \in Req |-> {}]

-----------------------------------------------------------------------------
(* Who may go ahead without a prompt.                                        *)
RequiresFreshApproval(r) == Class(r) \in {"plan", "memory", "escape"}
FreshDecision(r) == Class(r) \in {"escape", "trust"}
AutoApprovalWouldAllow(r) == Class(r) \in {"plain", "memory"}

BypassAllows(r) ==
    \/ Class(r) = "memory" /\ mode \in {"auto", "yolo"}
    \/ ~RequiresFreshApproval(r) /\ (mode = "yolo" \/ (window /\ AutoApprovalWouldAllow(r)))

SessionGrantAllows(r) ==
    /\ RequiresFreshApproval(r) => Class(r) = "escape"
    /\ Class(r) # "trust"
    /\ Scope(r) \in grants

PreApproved(r) ==
    \/ SessionGrantAllows(r)
    \/ Class(r) = "human" /\ mode = "yolo"
    \/ Class(r) # "human" /\ ~FreshDecision(r) /\ BypassAllows(r)

(* What the executor's gate decides by itself.                               *)
GateAllows(r) == AutoApprovalWouldAllow(r) /\ gate \in {"auto", "yolo"}
GateDenies(r) == Class(r) \in Gated /\ gate = "dontask"

(* Where a tool call goes: the gate decides, CheckWriteAccess asks unless the *)
(* roots are granted, trusted commands pass, the rest meets the approver.    *)
Arrival(r) ==
    CASE Class(r) \in {"trust", "write"} /\ Scope(r) \in grants -> "allow"
      [] Class(r) = "write" /\ Scope(r) \notin grants -> IF mode = "dontask" THEN "deny" ELSE "queue"
      [] GateAllows(r) -> "allow"
      [] GateDenies(r) -> "deny"
      [] OTHER -> "check"

(* Slip: fresh decisions are drained with the rest.                          *)
DrainsFresh(r, m) ==
    /\ Class(r) \notin {"ask", "write"}
    /\ m = "yolo" \/ (m = "auto" /\ AutoApprovalWouldAllow(r))

(* What a switch to mode m takes out of the map, to be allowed.              *)
Drains(r, m) ==
    /\ Class(r) \notin {"ask", "write"}
    /\ Class(r) = "memory" \/ ~(FreshDecision(r) \/ RequiresFreshApproval(r))
    /\ m = "yolo" \/ (m = "auto" /\ AutoApprovalWouldAllow(r))

-----------------------------------------------------------------------------
(* A request's goroutine.                                                    *)
Ends(r, result) ==
    /\ pc' = [pc EXCEPT ![r] = IF Class(r) = "plan" /\ result = "allow" THEN "approved" ELSE "done"]
    /\ outcome' = [outcome EXCEPT ![r] = result]

Goes(r, to) == pc' = [pc EXCEPT ![r] = to] /\ UNCHANGED outcome

Unlocks(r) == promptMu' = "free" /\ UNCHANGED <<emitMu, ghost>>

(* The plan is put to the user when the rest of its turn is over, and what   *)
(* executes it runs after the answer.                                        *)
PlanApart(r) ==
    \A o \in Req \ {r} : Owner(o) = Owner(r) /\ Running(o) =>
        /\ Class(r) # "plan"
        /\ Class(o) = "plan" => pc[o] = "window"

(* A tool call passes the permission gate, CheckWriteAccess or the trust     *)
(* check; Ask registers its question before it waits for the prompt lock.    *)
Begin(r) ==
    /\ pc[r] = "idle" /\ Class(r) # "none" /\ PlanApart(r)
    /\ Owner(r) = turn \/ (Owner(r) = Sidecar /\ Sidecar \notin over)
    /\ seen' = [seen EXCEPT ![r] = {mode, gate} \cup (IF window THEN {"plan"} ELSE {})]
    /\ IF Asks(r)
       THEN /\ entries' = entries \cup {r} /\ queued' = queued \cup {r}
            /\ Goes(r, "queue")
       ELSE /\ UNCHANGED <<entries, queued>>
            /\ \/ Arrival(r) \in {"allow", "deny"} /\ Ends(r, Arrival(r))
               \/ Arrival(r) \in {"check", "queue"} /\ Goes(r, Arrival(r))
    /\ UNCHANGED <<world, posture, window, grants, locks, answers, lives, views>>

(* approveWithPolicyReason, and requestApprovalDecisionWithOptions before it *)
(* takes the lock: pre-approval, asked again when the guardian had its say.  *)
Check(r) ==
    /\ pc[r] \in {"check", "reviewed"}
    /\ IF PreApproved(r) THEN Ends(r, "allow")
       ELSE Goes(r, IF pc[r] = "check" /\ "guardian" \in world.ops /\ Class(r) \in Gated \ {"human"}
                    THEN "review" ELSE "queue")
    /\ UNCHANGED <<world, posture, window, grants, entries, queued, locks, answers, lives, views, seen>>

(* The guardian's model allows, sends the call on to the user, or fails.     *)
Review(r) ==
    /\ pc[r] = "review"
    /\ \/ /\ Class(r) \in {"plain", "rule"}
          /\ Ends(r, "allow")
          /\ seen' = [seen EXCEPT ![r] = @ \cup {"helper"}]
       \/ Goes(r, "reviewed") /\ UNCHANGED seen
       \/ Ends(r, "aborted") /\ UNCHANGED seen
    /\ UNCHANGED <<world, posture, window, grants, entries, queued, locks, answers, lives, views>>

Lock(r) ==
    /\ pc[r] = "queue" /\ promptMu = "free"
    /\ promptMu' = r
    /\ Goes(r, IF Class(r) \in {"ask", "write"} THEN "register" ELSE "recheck")
    /\ UNCHANGED <<world, posture, window, grants, entries, queued, emitMu, ghost, answers, lives, views, seen>>

(* Slip: the wait that was given up unlocks what it does not hold.           *)
LeaveQueueUnlocks(r) ==
    /\ pc[r] = "queue" /\ Asks(r) /\ ContextDone(r)
    /\ entries' = entries \ {r} /\ queued' = queued \ {r}
    /\ Ends(r, "aborted") /\ Unlocks(r)
    /\ UNCHANGED <<world, posture, window, grants, answers, lives, views, seen>>

(* lockPromptFor gives up when the context ends; its goroutine stays.        *)
LeaveQueue(r) ==
    /\ pc[r] = "queue" /\ Asks(r) /\ ContextDone(r)
    /\ ghost' = ghost \cup {r}
    /\ entries' = entries \ {r} /\ queued' = queued \ {r}
    /\ Ends(r, "aborted")
    /\ UNCHANGED <<world, posture, window, grants, promptMu, emitMu, answers, lives, views, seen>>

(* Slip: the abandoned goroutine keeps the lock it gets.                     *)
AbandonedLockKept(r) ==
    /\ r \in ghost /\ promptMu = "free"
    /\ ghost' = ghost \ {r} /\ promptMu' = r /\ UNCHANGED emitMu
    /\ UNCHANGED <<world, posture, window, grants, entries, queued, pc, outcome, answers, lives, views, seen>>

AbandonedLock(r) ==
    /\ r \in ghost /\ promptMu = "free"
    /\ ghost' = ghost \ {r} /\ UNCHANGED <<promptMu, emitMu>>
    /\ UNCHANGED <<world, posture, window, grants, entries, queued, pc, outcome, answers, lives, views, seen>>

Recheck(r) ==
    /\ pc[r] = "recheck"
    /\ IF PreApproved(r) THEN Ends(r, "allow") /\ Unlocks(r)
                         ELSE Goes(r, "hook") /\ UNCHANGED locks
    /\ UNCHANGED <<world, posture, window, grants, entries, queued, answers, lives, views, seen>>

(* The PermissionRequest hook has no opinion, denies or allows; there is     *)
(* none for a plan, and it cannot allow what needs a person.                 *)
Hook(r) ==
    /\ pc[r] = "hook"
    /\ \/ Goes(r, "register") /\ UNCHANGED <<locks, seen>>
       \/ /\ "hook" \in world.ops /\ Class(r) # "plan"
          /\ Ends(r, "deny") /\ Unlocks(r) /\ UNCHANGED seen
       \/ /\ "hook" \in world.ops /\ Class(r) \in {"plain", "rule"}
          /\ Ends(r, "allow") /\ Unlocks(r)
          /\ seen' = [seen EXCEPT ![r] = @ \cup {"helper"}]
    /\ UNCHANGED <<world, posture, window, grants, entries, queued, answers, lives, views>>

(* Under promptEmitMu: the entry is made (an ask's is marked shown), then    *)
(* the event goes to every attached stream.                                  *)
Register(r) ==
    /\ pc[r] = "register" /\ emitMu = "free"
    /\ emitMu' = r
    /\ entries' = IF Asks(r) THEN entries ELSE entries \cup {r}
    /\ queued' = queued \ {r}
    /\ Goes(r, "emit")
    /\ UNCHANGED <<world, posture, window, grants, promptMu, ghost, answers, lives, views, seen>>

Emit(r) ==
    /\ pc[r] = "emit"
    /\ cards' = [c \in Client |-> IF c \in attached THEN [cards[c] EXCEPT ![r] = @ + 1] ELSE cards[c]]
    /\ emitMu' = "free"
    /\ Goes(r, "wait")
    /\ UNCHANGED <<world, posture, window, grants, entries, queued, promptMu, ghost, answers, lives, attached, seen>>

ResultOf(a) == CASE a \in {"once", "session", "drain"} -> "allow"
                 [] a \in {"answer", "skip"} -> "answered"
                 [] OTHER -> "deny"

(* The reply arrives. promptMu is released before the grant is recorded.     *)
Receive(r) ==
    /\ pc[r] = "wait" /\ reply[r] # "none"
    /\ IF reply[r] = "session" /\ Class(r) \in {"plain", "rule", "human", "escape", "trust"}
       THEN Goes(r, "grant") ELSE Ends(r, ResultOf(reply[r]))
    /\ Unlocks(r)
    /\ UNCHANGED <<world, posture, window, grants, entries, queued, answers, lives, views, seen>>

RecordGrant(r) ==
    /\ pc[r] = "grant"
    /\ grants' = grants \cup {Scope(r)}
    /\ Ends(r, "allow")
    /\ UNCHANGED <<world, posture, window, entries, queued, locks, answers, lives, views, seen>>

(* The context or the timeout ends the wait; the entry is dropped.           *)
GiveUp(r) ==
    /\ pc[r] = "wait" /\ (ContextDone(r) \/ "timeout" \in world.ops)
    /\ entries' = entries \ {r}
    /\ Ends(r, "aborted") /\ Unlocks(r)
    /\ UNCHANGED <<world, posture, window, grants, queued, answers, lives, views, seen>>

(* The execution of an approved plan.                                        *)
PlanWindow(r) ==
    /\ \/ /\ pc[r] = "approved" /\ window' = TRUE /\ Goes(r, "window")
          /\ seen' = [o \in Req |-> IF Running(o) THEN seen[o] \cup {"plan"} ELSE seen[o]]
       \/ pc[r] = "window" /\ window' = FALSE /\ Goes(r, "done") /\ UNCHANGED seen
    /\ UNCHANGED <<world, posture, grants, entries, queued, locks, answers, lives, views>>

-----------------------------------------------------------------------------
(* The user answers a prompt that is on a screen: the entry is taken out,    *)
(* a receipt written, and then the reply sent.                               *)
OnScreen(r) == r \in entries /\ \E c \in attached : cards[c][r] > 0

Answer(r, a) ==
    /\ OnScreen(r)
    /\ a \in IF Asks(r) THEN {"answer"} ELSE {"deny", "once", "session"}
    /\ entries' = entries \ {r} /\ queued' = queued \ {r}
    /\ inhand' = [inhand EXCEPT ![r] = a]
    /\ human' = [human EXCEPT ![r] = a]
    /\ UNCHANGED <<world, posture, window, grants, locks, pc, outcome, reply, lives, views, seen>>

(* A question answered with nothing selected stops the turn, if there is one.*)
Skip(r, s) ==
    /\ OnScreen(r) /\ Asks(r) /\ stop[s].at = "idle"
    /\ entries' = entries \ {r} /\ queued' = queued \ {r}
    /\ human' = [human EXCEPT ![r] = "skip"]
    /\ IF turn # NoTurn
       THEN stop' = [stop EXCEPT ![s].at = "pressed"] /\ UNCHANGED inhand
       ELSE inhand' = [inhand EXCEPT ![r] = "skip"] /\ UNCHANGED stop
    /\ UNCHANGED <<world, posture, window, grants, locks, pc, outcome, reply, turn, over, closed, views, seen>>

(* For write access the resolver makes the directories, which can fail, and  *)
(* grants them itself before it replies.                                     *)
Send(r) ==
    /\ inhand[r] # "none"
    /\ inhand' = [inhand EXCEPT ![r] = "none"]
    /\ \/ /\ reply' = [reply EXCEPT ![r] = inhand[r]]
          /\ grants' = IF Class(r) = "write" /\ inhand[r] = "session" THEN grants \cup {Scope(r)} ELSE grants
       \/ /\ Class(r) = "write" /\ inhand[r] # "deny"
          /\ reply' = [reply EXCEPT ![r] = "deny"] /\ UNCHANGED grants
    /\ UNCHANGED <<world, posture, window, entries, queued, locks, pc, outcome, human, lives, views, seen>>

-----------------------------------------------------------------------------
(* Turns. The cancel function goes with the turn, and its context is done    *)
(* when its goroutine returns. An extension's context ends with its process. *)
(* Turns that ask for nothing are left out.                                  *)
StartTurn(t) ==
    /\ turn = NoTurn /\ t \notin over /\ ~closed
    /\ \E r \in Req : Owner(r) = t
    /\ turn' = t
    /\ UNCHANGED <<world, posture, window, grants, entries, queued, locks, pc, outcome, answers, over, closed, stop, views, seen>>

FinishTurn ==
    /\ turn # NoTurn
    /\ \A r \in Req : Owner(r) = turn => ~Running(r)
    /\ turn' = NoTurn /\ over' = over \cup {turn}
    /\ UNCHANGED <<world, posture, window, grants, entries, queued, locks, pc, outcome, answers, closed, stop, views, seen>>

SidecarExits ==
    /\ "exit" \in world.ops /\ Sidecar \notin over
    /\ over' = over \cup {Sidecar}
    /\ UNCHANGED <<world, posture, window, grants, entries, queued, locks, pc, outcome, answers, turn, closed, stop, views, seen>>

(* Cancel and close: the cancel function is read under c.mu, every entry is  *)
(* dropped without a signal, and then the function is called.                *)
StopAt(s, to) == stop' = [stop EXCEPT ![s] = [at |-> to, turn |-> turn]]

ReadCancel(s) ==
    /\ \/ /\ stop[s].at = "idle" /\ "stop" \in world.ops /\ turn # NoTurn
          /\ StopAt(s, "read") /\ UNCHANGED closed
       \/ /\ stop[s].at = "pressed"
          /\ StopAt(s, IF turn = NoTurn THEN "done" ELSE "read") /\ UNCHANGED closed
       \/ /\ stop[s].at = "idle" /\ "close" \in world.ops /\ ~closed
          /\ StopAt(s, IF turn = NoTurn THEN "done" ELSE "read") /\ closed' = TRUE
    /\ UNCHANGED <<world, posture, window, grants, entries, queued, locks, pc, outcome, answers, turn, over, views, seen>>

ClearAll(s) ==
    /\ stop[s].at = "read"
    /\ entries' = {} /\ queued' = {}
    /\ stop' = [stop EXCEPT ![s].at = "cleared"]
    /\ UNCHANGED <<world, posture, window, grants, locks, pc, outcome, answers, turn, over, closed, views, seen>>

CallCancel(s) ==
    /\ stop[s].at = "cleared"
    /\ over' = over \cup {stop[s].turn}
    /\ stop' = [stop EXCEPT ![s].at = "done"]
    /\ UNCHANGED <<world, posture, window, grants, entries, queued, locks, pc, outcome, answers, turn, closed, views, seen>>

-----------------------------------------------------------------------------
(* ApplyToolApprovalMode: set the mode and take out what it allows, update   *)
(* the shared gate, rebuild the executor's gate from the mode read again,    *)
(* and answer what was taken out.                                            *)
SetMode(s, m) ==
    /\ switch[s].at = "idle" /\ m \in world.modes /\ m # mode
    /\ mode' = m
    /\ LET drained == {r \in entries : Drains(r, m)}
       IN  /\ entries' = entries \ drained
           /\ switch' = [switch EXCEPT ![s] = [at |-> "set", mode |-> m, drained |-> drained]]
    /\ seen' = [r \in Req |-> IF Running(r) THEN seen[r] \cup {m} ELSE seen[r]]
    /\ UNCHANGED <<world, gate, subGate, window, grants, queued, locks, pc, outcome, answers, lives, views>>

UpdateGates(s) ==
    /\ \/ /\ switch[s].at = "set"
          /\ subGate' = switch[s].mode /\ UNCHANGED gate
          /\ switch' = [switch EXCEPT ![s].at = "sub"]
       \/ /\ switch[s].at = "sub"
          /\ switch' = [switch EXCEPT ![s].at = "read", ![s].mode = mode] /\ UNCHANGED <<gate, subGate>>
       \/ /\ switch[s].at = "read"
          /\ gate' = switch[s].mode /\ UNCHANGED subGate
          /\ switch' = [switch EXCEPT ![s].at = "send"]
    /\ UNCHANGED <<world, mode, window, grants, entries, queued, locks, pc, outcome, answers, lives, views, seen>>

SendDrained(s) ==
    /\ switch[s].at = "send"
    /\ reply' = [r \in Req |-> IF r \in switch[s].drained THEN "drain" ELSE reply[r]]
    /\ switch' = [switch EXCEPT ![s] = [at |-> "done", mode |-> "ask", drained |-> {}]]
    /\ UNCHANGED <<world, mode, gate, subGate, window, grants, entries, queued, locks, pc, outcome, inhand, human, lives, views, seen>>

(* Slip: a prompt may be registered and not yet sent when the stream joins.  *)
AttachUnlocked(c) ==
    /\ c \notin attached /\ "attach" \in world.ops
    /\ attached' = attached \cup {c}
    /\ cards' = [cards EXCEPT ![c] = [r \in Req |-> IF r \in entries \ queued THEN 1 ELSE 0]]
    /\ UNCHANGED <<world, posture, window, grants, entries, queued, locks, pc, outcome, answers, lives, seen>>

(* ReplayPendingPromptsWith: subscribe and be sent what is pending, while    *)
(* promptEmitMu keeps new prompts back.                                      *)
Attach(c) ==
    /\ c \notin attached /\ "attach" \in world.ops /\ emitMu = "free"
    /\ attached' = attached \cup {c}
    /\ cards' = [cards EXCEPT ![c] = [r \in Req |-> IF r \in entries \ queued THEN 1 ELSE 0]]
    /\ UNCHANGED <<world, posture, window, grants, entries, queued, locks, pc, outcome, answers, lives, seen>>

Detach(c) ==
    /\ c \in attached /\ "attach" \in world.ops
    /\ attached' = attached \ {c}
    /\ cards' = [cards EXCEPT ![c] = [r \in Req |-> 0]]
    /\ UNCHANGED <<world, posture, window, grants, entries, queued, locks, pc, outcome, answers, lives, seen>>

-----------------------------------------------------------------------------
RequestStep(r) ==
    \/ Check(r) \/ Review(r) \/ Lock(r) \/ LeaveQueue(r) \/ AbandonedLock(r) \/ Recheck(r) \/ Hook(r)
    \/ Register(r) \/ Emit(r) \/ Receive(r) \/ RecordGrant(r) \/ GiveUp(r) \/ PlanWindow(r)
StopStep(s) == ReadCancel(s) \/ ClearAll(s) \/ CallCancel(s)
SwitchStep(s) == UpdateGates(s) \/ SendDrained(s)

Next ==
    \/ \E r \in Req : \/ Begin(r) \/ RequestStep(r) \/ Send(r)
                      \/ \E a \in {"answer", "deny", "once", "session"} : Answer(r, a)
                      \/ \E s \in Stopper : Skip(r, s)
    \/ \E t \in Turn : StartTurn(t)
    \/ FinishTurn \/ SidecarExits
    \/ \E s \in Stopper : StopStep(s)
    \/ \E s \in Switcher : SwitchStep(s) \/ \E m \in Modes : SetMode(s, m)
    \/ \E c \in Client : Attach(c) \/ Detach(c)

Spec == Init /\ [][Next]_vars

(* Goroutines run on, hooks and plan executions return, resolvers send what  *)
(* they took, a Stop in progress completes and a stopped turn's body         *)
(* returns. Nothing makes a user answer or an extension's process exit.      *)
Fairness ==
    /\ \A r \in Req : WF_vars(RequestStep(r)) /\ WF_vars(Send(r))
    /\ \A s \in Stopper : WF_vars(stop[s].at # "idle" /\ StopStep(s))
    /\ \A s \in Switcher : WF_vars(SwitchStep(s))
    /\ WF_vars(turn \in over /\ FinishTurn)
FairSpec == Spec /\ Fairness

-----------------------------------------------------------------------------
AnswerSet == {"none", "deny", "once", "session", "drain", "answer", "skip"}
Steps == {"idle", "check", "review", "reviewed", "queue", "recheck", "hook", "register", "emit", "wait", "grant",
          "approved", "window", "done"}

(* The controller's prompt state has its shape: locks are held by a request  *)
(* between taking and leaving them, and a stream counts its cards.           *)
PTypeOK ==
    /\ world \in Worlds /\ {mode, gate, subGate} \subseteq Modes /\ window \in BOOLEAN
    /\ entries \subseteq Req /\ queued \subseteq entries /\ ghost \subseteq Req
    /\ promptMu \in Req \cup {"free"} /\ emitMu \in Req \cup {"free"}
    /\ pc \in [Req -> Steps]
    /\ outcome \in [Req -> {"none", "allow", "deny", "answered", "aborted"}]
    /\ inhand \in [Req -> AnswerSet] /\ reply \in [Req -> AnswerSet] /\ human \in [Req -> AnswerSet]
    /\ turn \in Turn \cup {NoTurn} /\ over \subseteq Turn \cup {Sidecar} /\ closed \in BOOLEAN
    /\ stop \in [Stopper -> [at : {"idle", "pressed", "read", "cleared", "done"}, turn : Turn \cup {NoTurn}]]
    /\ switch \in [Switcher -> [at : {"idle", "set", "sub", "read", "send", "done"}, mode : Modes, drained : SUBSET Req]]
    /\ attached \subseteq Client /\ cards \in [Client -> [Req -> Nat]]
    /\ seen \in [Req -> SUBSET (Modes \cup {"plan", "helper"})]

(* Whatever went ahead was allowed by someone entitled to: the user who saw  *)
(* this prompt, the user's grant for the session, or, for ordinary tools     *)
(* only, a posture in force while the call was made. A drain, a hook or a    *)
(* plan's execution never answers a plan, an escape, a trust or write        *)
(* access (preApprovedForDecisionOptions, drainLocked).                      *)
AllowJustified ==
    \A r \in Req : outcome[r] = "allow" =>
        \/ human[r] \in {"once", "session"}
        \/ Class(r) \notin {"plan", "memory"} /\ \E o \in Req : Scope(o) = Scope(r) /\ human[o] = "session"
        \/ Class(r) \in Gated /\ "yolo" \in seen[r]
        \/ Class(r) \in {"plain", "memory"} /\ "auto" \in seen[r]
        \/ Class(r) = "plain" /\ "plan" \in seen[r]
        \/ Class(r) \in {"plain", "rule"} /\ "helper" \in seen[r]

(* At most one prompt is put to the user at a time, and no prompt outlives   *)
(* its request: promptMu is held from before registration until the wait is  *)
(* over, also when asks leave the queue while their goroutine still wants    *)
(* the lock, and an entry that can be answered, replayed or reported by      *)
(* PendingPrompt belongs to a goroutine that is blocked on it.               *)
OneLivePrompt ==
    /\ Cardinality({r \in Req : pc[r] \in {"emit", "wait"}}) <= 1
    /\ \A r \in entries : pc[r] \in {"queue", "register", "emit", "wait"}

(* A stream that is attached has been sent the prompt that is waiting, once, *)
(* and no question that waits behind it, however attaching, registration     *)
(* and emission interleave (ReplayPendingPromptsWith).                       *)
EachCardOnce ==
    \A c \in attached, r \in Req :
        /\ pc[r] = "wait" /\ r \in entries => cards[c][r] = 1
        /\ r \in queued => cards[c][r] = 0

(* What the comment in Close says of Cancel and Close: clearAll is paired    *)
(* with the cancellation "so approval/ask waits always unblock". Who waits   *)
(* can still be answered, has its answer on the way, or its context, its     *)
(* timeout or a Stop in progress ends the wait. Cancel drops the entries of  *)
(* whatever turn there is when it gets to clearAll and cancels the turn it   *)
(* read before: it does not hold.                                            *)
WaitsUnblock ==
    \A r \in Req : pc[r] = "wait" =>
        \/ r \in entries \/ inhand[r] # "none" \/ reply[r] # "none"
        \/ ContextDone(r) \/ "timeout" \in world.ops
        \/ \E s \in Switcher : r \in switch[s].drained
        \/ \E s \in Stopper : stop[s].at \in {"pressed", "read", "cleared"}

(* Once no switch is in progress, both gates follow the posture.             *)
GatesFollowMode ==
    (\A s \in Switcher : switch[s].at \in {"idle", "done"}) => gate = mode /\ subGate = mode

(* While YOLO is on, no ordinary tool approval waits for the user.           *)
YoloAsksNothing ==
    \A r \in Req : mode = "yolo" /\ Class(r) \in Gated /\ r \in entries =>
        pc[r] # "wait"

(* Nobody waits in vain: a stopped turn ends, because its goroutines leave   *)
(* their prompts and the queue for them; and with a timeout every request    *)
(* returns, whoever answers or drops what. Time and again the turn there is, *)
(* if any, is not a stopped one, and no bounded request is under way. Not    *)
(* said of a request that belongs to no turn and has no timeout, such as an  *)
(* extension's question in a frontend without an approval timeout: after a   *)
(* Stop has dropped its entry nothing ends it but the extension's exit.      *)
NothingStuck ==
    []<>(turn \notin over /\ ("timeout" \in world.ops => \A r \in Req : ~Running(r)))
=============================================================================
