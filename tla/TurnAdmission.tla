--------------------------- MODULE TurnAdmission ---------------------------
(***************************************************************************)
(* The turn gate of control.Controller: one mutex (c.mu) guards the flags  *)
(* running, finishing, rotating and closed, the stored cancel function and *)
(* the FIFO of parked turns.  Every caller is a goroutine of its own: a    *)
(* turn asks for admission, is started, parked or dropped, runs its body   *)
(* outside the lock and takes the lock again to finish.  Each action below *)
(* is one critical section of c.mu, or one lock-free step between two.     *)
(***************************************************************************)
EXTENDS Naturals, Sequences, FiniteSets

CONSTANTS
    Turn,       \* caller goroutines, each with at most one turn request at a time
    Kinds,      \* the admission entry points the callers may use
    Rotator,    \* goroutines that swap the session (New, Resume, Rewind, ...)
    NoTurn      \* c.cancel = nil

AllKinds == {"guarded", "orpark", "inbox", "sync"}

ASSUME KindsAssumption  == Kinds \subseteq AllKinds
ASSUME NoTurnAssumption == NoTurn \notin Turn

VARIABLES
    running, finishing, rotating, closed,  \* the flags under c.mu
    cancelFn,   \* the turn whose context c.cancel ends, or NoTurn
    canceling,  \* a Cancel is in progress for the active turn
    parked,     \* c.parkedTurns
    pc,         \* where each turn's goroutine stands
    kind,       \* the entry point each turn came through
    swap,       \* where each rotator stands
    writable,   \* ensureWriteAuthorityReady would succeed
    published   \* the extension PublishGate still admits this generation

flags == <<running, finishing, rotating, closed>>
vars == <<running, finishing, rotating, closed, cancelFn, canceling, parked,
          pc, kind, swap, writable, published>>

Async == {"guarded", "orpark", "inbox"}
InFlight == {"starting", "body"}
PC == {"idle", "asking", "parked", "starting", "body", "delivering", "settling"}

(***************************************************************************)
(* The type invariant of the gate.                                         *)
(***************************************************************************)
TypeOK ==
    /\ running \in BOOLEAN /\ finishing \in BOOLEAN
    /\ rotating \in BOOLEAN /\ closed \in BOOLEAN
    /\ cancelFn \in Turn \cup {NoTurn}
    /\ canceling \in BOOLEAN
    /\ parked \in Seq(Turn)
    /\ pc \in [Turn -> PC]
    /\ kind \in [Turn -> AllKinds]
    /\ swap \in [Rotator -> {"idle", "swapping"}]
    /\ writable \in BOOLEAN /\ published \in BOOLEAN

NewGate ==
    /\ running = FALSE /\ finishing = FALSE /\ rotating = FALSE /\ closed = FALSE
    /\ cancelFn = NoTurn /\ canceling = FALSE
    /\ parked = <<>>
    /\ pc = [t \in Turn |-> "idle"]
    /\ swap = [q \in Rotator |-> "idle"]
    /\ writable = TRUE /\ published = TRUE

(* A caller always comes through the same entry point.                      *)
Init == NewGate /\ kind \in [Turn -> Kinds]

-----------------------------------------------------------------------------
(***************************************************************************)
(* Admission.  The write authority is checked before the lock is taken, so *)
(* everything may change between Ask and the critical section.  A caller   *)
(* whose turn is dropped or over is idle again and may ask another time.   *)
(***************************************************************************)
Ask(t, k) ==
    /\ pc[t] = "idle" /\ writable
    /\ pc' = [pc EXCEPT ![t] = "asking"]
    /\ kind' = [kind EXCEPT ![t] = k]
    /\ UNCHANGED <<flags, cancelFn, canceling, parked, swap, writable, published>>

(* Slips this project shows to be caught are written before the definition  *)
(* they stand in for, and marked so.                                        *)

(* Slip: admission forgets the closed flag.                                 *)
GateOpenIgnoresClosed == published /\ ~rotating

GateOpen == ~closed /\ published /\ ~rotating

(* Slips: a busy check that misses the turn, or its finishing window.       *)
IdleIgnoresRunning == ~finishing
IdleIgnoresFinishing == ~running

Idle == ~running /\ ~finishing

(* A running turn parks only the steer fallback; the finishing window parks *)
(* every volatile turn; inbox items and blocking callers never park.        *)
Parks(t) ==
    \/ running /\ kind[t] = "orpark"
    \/ ~running /\ finishing /\ kind[t] \in {"guarded", "orpark"}

Claim(t) ==
    /\ running' = TRUE
    /\ cancelFn' = t
    /\ canceling' = FALSE

AdmitStart(t) ==
    /\ pc[t] = "asking" /\ GateOpen /\ Idle
    /\ Claim(t)
    /\ pc' = [pc EXCEPT ![t] = "starting"]
    /\ UNCHANGED <<finishing, rotating, closed, parked, kind, swap, writable, published>>

AdmitPark(t) ==
    /\ pc[t] = "asking" /\ GateOpen /\ Parks(t)
    /\ parked' = Append(parked, t)
    /\ pc' = [pc EXCEPT ![t] = "parked"]
    /\ UNCHANGED <<flags, cancelFn, canceling, kind, swap, writable, published>>

AdmitDrop(t) ==
    /\ pc[t] = "asking"
    /\ ~(GateOpen /\ (Idle \/ Parks(t)))
    /\ pc' = [pc EXCEPT ![t] = "idle"]
    /\ UNCHANGED <<flags, cancelFn, canceling, parked, kind, swap, writable, published>>

(* onStart / onAdmitted runs after the claim and outside the lock.          *)
Spawn(t) ==
    /\ pc[t] = "starting"
    /\ pc' = [pc EXCEPT ![t] = "body"]
    /\ UNCHANGED <<flags, cancelFn, canceling, parked, kind, swap, writable, published>>

(* Slip: a finished turn leaves its cancel function behind.                 *)
ReleaseKeepsCancel ==
    /\ running' = FALSE
    /\ cancelFn' = cancelFn
    /\ canceling' = FALSE

Release ==
    /\ running' = FALSE
    /\ cancelFn' = NoTurn
    /\ canceling' = FALSE

(* A blocking caller whose onAdmitted hook fails gives the claim back.      *)
SyncAdmittedError(t) ==
    /\ pc[t] = "starting" /\ kind[t] = "sync"
    /\ Release
    /\ pc' = [pc EXCEPT ![t] = "idle"]
    /\ UNCHANGED <<finishing, rotating, closed, parked, kind, swap, writable, published>>

-----------------------------------------------------------------------------
(***************************************************************************)
(* Completion of an asynchronous turn: a first critical section replaces   *)
(* running by finishing, the TurnDone fan-out runs outside the lock, and a *)
(* second one ends the window and starts the oldest parked turn.           *)
(***************************************************************************)
FinishGuarded(t) ==
    /\ Release
    /\ finishing' = ~closed
    /\ pc' = [pc EXCEPT ![t] = "delivering"]
    /\ UNCHANGED <<rotating, closed, parked, kind, swap, writable, published>>

BodyEnds(t) ==
    /\ pc[t] = "body" /\ kind[t] \in Async
    /\ FinishGuarded(t)

(* Slips: the window closes without the drain, or drains from the back.     *)
EndWindowNoDrain(t, next) ==
    /\ finishing' = FALSE
    /\ pc' = [pc EXCEPT ![t] = next]
    /\ UNCHANGED <<running, cancelFn, canceling, parked, rotating, closed, kind,
                   swap, writable, published>>

EndWindowFromBack(t, next) ==
    /\ finishing' = FALSE
    /\ IF closed \/ parked = <<>>
       THEN /\ pc' = [pc EXCEPT ![t] = next]
            /\ UNCHANGED <<running, cancelFn, canceling, parked>>
       ELSE /\ Claim(parked[Len(parked)])
            /\ parked' = SubSeq(parked, 1, Len(parked) - 1)
            /\ pc' = [pc EXCEPT ![t] = next, ![parked[Len(parked)]] = "body"]
    /\ UNCHANGED <<rotating, closed, kind, swap, writable, published>>

EndWindow(t, next) ==
    /\ finishing' = FALSE
    /\ IF closed \/ parked = <<>>
       THEN /\ pc' = [pc EXCEPT ![t] = next]
            /\ UNCHANGED <<running, cancelFn, canceling, parked>>
       ELSE /\ Claim(Head(parked))
            /\ parked' = Tail(parked)
            /\ pc' = [pc EXCEPT ![t] = next, ![Head(parked)] = "body"]
    /\ UNCHANGED <<rotating, closed, kind, swap, writable, published>>

(* The recovery path of spawnGuardedTurn: a sink that panics while TurnDone *)
(* is delivered unwinds through the deferred window close, and the recover  *)
(* of the goroutine then finishes the turn a second time.                   *)
DeliveryPanics(t) == pc[t] = "delivering" /\ EndWindow(t, "panicked")
FinishAgain(t) == pc[t] = "panicked" /\ FinishGuarded(t)

Delivered(t) == pc[t] = "delivering" /\ EndWindow(t, "idle")

(* A blocking turn opens the gate at once and settles its inbox items after.*)
SyncEnds(t) ==
    /\ pc[t] = "body" /\ kind[t] = "sync"
    /\ Release
    /\ pc' = [pc EXCEPT ![t] = "settling"]
    /\ UNCHANGED <<finishing, rotating, closed, parked, kind, swap, writable, published>>

SyncSettled(t) ==
    /\ pc[t] = "settling"
    /\ pc' = [pc EXCEPT ![t] = "idle"]
    /\ UNCHANGED <<flags, cancelFn, canceling, parked, kind, swap, writable, published>>

-----------------------------------------------------------------------------
Cancel ==
    /\ cancelFn # NoTurn
    /\ canceling' = TRUE
    /\ UNCHANGED <<flags, cancelFn, parked, pc, kind, swap, writable, published>>

(* Slip: a swap looks at running only.                                      *)
BeginRotationIgnoresWindow(q) ==
    /\ swap[q] = "idle"
    /\ ~running /\ ~rotating
    /\ rotating' = TRUE
    /\ swap' = [swap EXCEPT ![q] = "swapping"]
    /\ UNCHANGED <<running, finishing, closed, cancelFn, canceling, parked, pc,
                   kind, writable, published>>

BeginRotation(q) ==
    /\ swap[q] = "idle"
    /\ Idle /\ ~rotating
    /\ rotating' = TRUE
    /\ swap' = [swap EXCEPT ![q] = "swapping"]
    /\ UNCHANGED <<running, finishing, closed, cancelFn, canceling, parked, pc,
                   kind, writable, published>>

EndRotation(q) ==
    /\ swap[q] = "swapping"
    /\ rotating' = FALSE
    /\ swap' = [swap EXCEPT ![q] = "idle"]
    /\ UNCHANGED <<running, finishing, closed, cancelFn, canceling, parked, pc,
                   kind, writable, published>>

(* close drops the parked bodies and opens nothing: running stays truthful  *)
(* until the foreground goroutine exits.                                    *)
Close ==
    /\ ~closed
    /\ closed' = TRUE
    /\ finishing' = FALSE
    /\ canceling' = (canceling \/ cancelFn # NoTurn)
    /\ parked' = <<>>
    /\ pc' = [t \in Turn |-> IF pc[t] = "parked" THEN "idle" ELSE pc[t]]
    /\ UNCHANGED <<running, rotating, cancelFn, kind, swap, writable, published>>

(* The session lease is lost, or a rebuild publishes a newer generation.    *)
LoseAuthority ==
    /\ writable /\ writable' = FALSE
    /\ UNCHANGED <<flags, cancelFn, canceling, parked, pc, kind, swap, published>>

DrainGeneration ==
    /\ published /\ published' = FALSE
    /\ UNCHANGED <<flags, cancelFn, canceling, parked, pc, kind, swap, writable>>

-----------------------------------------------------------------------------
TurnStep(t) ==
    \/ AdmitStart(t) \/ AdmitPark(t) \/ AdmitDrop(t)
    \/ Spawn(t) \/ SyncAdmittedError(t)
    \/ BodyEnds(t) \/ Delivered(t) \/ SyncEnds(t) \/ SyncSettled(t)

Next ==
    \/ \E t \in Turn : TurnStep(t) \/ Ask(t, kind[t])
    \/ \E q \in Rotator : BeginRotation(q) \/ EndRotation(q)
    \/ Cancel \/ Close \/ LoseAuthority \/ DrainGeneration

Fairness ==
    /\ \A t \in Turn : WF_vars(TurnStep(t))
    /\ \A q \in Rotator : WF_vars(EndRotation(q))

Spec == Init /\ [][Next]_vars

FairSpec == Spec /\ Fairness

(* The gate with sinks that may panic.                                      *)
SpecWithPanics ==
    Init /\ [][Next \/ \E t \in Turn : DeliveryPanics(t) \/ FinishAgain(t)]_vars

-----------------------------------------------------------------------------
(***************************************************************************)
(* At most one turn body is in flight, and c.running says exactly whether  *)
(* one is: runGuarded "guards concurrent turns", and close keeps "running  *)
(* truthful until the foreground goroutine actually exits".                *)
(***************************************************************************)
OneTurnInFlight ==
    /\ \A s, t \in Turn : pc[s] \in InFlight /\ pc[t] \in InFlight => s = t
    /\ running <=> \E t \in Turn : pc[t] \in InFlight

(***************************************************************************)
(* The stored cancel function belongs to the turn in flight, and a pending *)
(* Cancel never survives into the next turn: otherwise stopping one turn   *)
(* would abort, or report as cancelled, its successor.                     *)
(***************************************************************************)
CancelTargetsTurnInFlight ==
    /\ \A t \in Turn : cancelFn = t <=> pc[t] \in InFlight
    /\ canceling => running

(***************************************************************************)
(* A session swap is exclusive: one rotator at a time, never beside a turn *)
(* in flight, and on a live controller never beside a TurnDone delivery    *)
(* (beginRotation holds "exclusive rights to swap the executor session").  *)
(***************************************************************************)
RotationExclusive ==
    \A q \in Rotator : swap[q] = "swapping" =>
        /\ rotating
        /\ \A p \in Rotator : swap[p] = "swapping" => p = q
        /\ \A t \in Turn : pc[t] \notin InFlight
        /\ ~closed => \A t \in Turn : pc[t] # "delivering"

(***************************************************************************)
(* While TurnDone is being fanned out on a live controller the gate stays  *)
(* shut: no replacement turn is in flight and finishing is set.            *)
(***************************************************************************)
DeliveryHoldsGate ==
    ~closed => \A t \in Turn : pc[t] = "delivering" =>
                  finishing /\ \A s \in Turn : pc[s] \notin InFlight

(***************************************************************************)
(* close seals the gate: a late completion does not bring finishing back   *)
(* and nothing stays parked, so no turn starts after teardown.             *)
(***************************************************************************)
CloseSeals ==
    closed => ~finishing /\ parked = <<>> /\ \A t \in Turn : pc[t] # "parked"

(***************************************************************************)
(* No turn enters flight on a controller already closed.                   *)
(***************************************************************************)
NoStartAfterClose ==
    [][closed => \A t \in Turn : pc[t] \notin InFlight => pc'[t] \notin InFlight]_vars

(* No turn can park behind a blocking one: the steer fallback, the only one *)
(* that parks behind a running turn, and blocking callers do not meet.      *)
BlockingApart == (\A t \in Turn : kind[t] # "sync") \/ (\A t \in Turn : kind[t] # "orpark")

(***************************************************************************)
(* Parked turns start in FIFO order and nobody overtakes them: a turn that *)
(* enters flight while others are parked is the oldest of them.  Not so    *)
(* when they parked behind a blocking turn, whose end drains nothing.      *)
(***************************************************************************)
NoOvertaking ==
    [][BlockingApart /\ parked # <<>> =>
          \A t \in Turn : pc[t] \notin InFlight /\ pc'[t] \in InFlight => t = Head(parked)]_vars

(***************************************************************************)
(* An idle gate holds nothing back: no turn stays parked once the turn it  *)
(* waited for has finished and the finishing window is over, unless that   *)
(* turn was a blocking one.                                                *)
(***************************************************************************)
NothingParkedAtIdleGate == BlockingApart /\ Idle => parked = <<>>

(***************************************************************************)
(* A parked turn does not wait for ever: it starts, or close discards it,  *)
(* unless it parked behind a blocking one.                                 *)
(***************************************************************************)
ParkedTurnsLeave == \A t \in Turn : BlockingApart /\ pc[t] = "parked" ~> pc[t] # "parked"
=============================================================================
