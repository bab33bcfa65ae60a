------------------------ MODULE TurnAdmissionProofs ------------------------
(***************************************************************************)
(* What the turn gate guarantees for any number of callers and rotators.   *)
(***************************************************************************)
EXTENDS TurnAdmission, SequenceTheorems, TLAPS

(***************************************************************************)
(* The parked queue and the callers' positions agree: whoever is in the    *)
(* queue is parked, and is in it once.                                     *)
(***************************************************************************)
QueueMatchesCallers ==
    /\ \A i \in DOMAIN parked : pc[parked[i]] = "parked"
    /\ \A i, j \in DOMAIN parked : parked[i] = parked[j] => i = j

(***************************************************************************)
(* On a live controller one turn at a time is in its finishing window.     *)
(***************************************************************************)
OneDelivery ==
    ~closed => \A s, t \in Turn : pc[s] = "delivering" /\ pc[t] = "delivering" => s = t

(***************************************************************************)
(* The inductive invariant of the gate.  DeliveryHoldsGate is what makes   *)
(* the handoff of EndWindow safe, and it is stable only with OneDelivery;  *)
(* QueueMatchesCallers says that the turn handed to was not in flight.     *)
(***************************************************************************)
GateInv ==
    /\ TypeOK /\ QueueMatchesCallers /\ OneDelivery
    /\ OneTurnInFlight /\ CancelTargetsTurnInFlight /\ RotationExclusive
    /\ DeliveryHoldsGate /\ CloseSeals

-----------------------------------------------------------------------------
(***************************************************************************)
(* Taking the oldest parked turn leaves a queue of turns.                  *)
(***************************************************************************)
LEMMA QueueHandoff ==
    ASSUME NEW S, NEW q \in Seq(S), q # <<>>
    PROVE  /\ Head(q) \in S /\ Tail(q) \in Seq(S)
           /\ Head(q) = q[1] /\ 1 \in DOMAIN q
           /\ \A i \in DOMAIN Tail(q) : i + 1 \in DOMAIN q /\ Tail(q)[i] = q[i + 1]
PROOF
    BY HeadTailProperties

(***************************************************************************)
(* Type correctness of the gate.                                           *)
(***************************************************************************)
LEMMA TypeInit == Init => TypeOK
PROOF
    BY EmptySeq, KindsAssumption DEF Init, NewGate, TypeOK, PC

(***************************************************************************)
(* Every critical section and every lock-free step of a caller keeps the   *)
(* types.                                                                  *)
(***************************************************************************)
LEMMA TypeNext == TypeOK /\ [Next]_vars => TypeOK'
<1> SUFFICES ASSUME TypeOK, [Next]_vars PROVE TypeOK'
    OBVIOUS
<1> USE DEF TypeOK, PC, flags
<1>1. ASSUME NEW t \in Turn, Ask(t, kind[t]) PROVE TypeOK'
    BY <1>1 DEF Ask
<1>2. ASSUME NEW t \in Turn, AdmitStart(t) PROVE TypeOK'
    BY <1>2 DEF AdmitStart, Claim
<1>3. ASSUME NEW t \in Turn, AdmitPark(t) PROVE TypeOK'
    BY <1>3 DEF AdmitPark
<1>4. ASSUME NEW t \in Turn, AdmitDrop(t) \/ Spawn(t) \/ SyncSettled(t) PROVE TypeOK'
    BY <1>4 DEF AdmitDrop, Spawn, SyncSettled
<1>5. ASSUME NEW t \in Turn, SyncAdmittedError(t) \/ SyncEnds(t) \/ BodyEnds(t) PROVE TypeOK'
    BY <1>5 DEF SyncAdmittedError, SyncEnds, BodyEnds, FinishGuarded, Release
<1>6. ASSUME NEW t \in Turn, Delivered(t) PROVE TypeOK'
    <2>1. CASE closed \/ parked = <<>>
        BY <1>6, <2>1 DEF Delivered, EndWindow
    <2>2. CASE ~(closed \/ parked = <<>>)
        <3>1. Head(parked) \in Turn /\ Tail(parked) \in Seq(Turn)
            BY <2>2, QueueHandoff
        <3> QED BY <1>6, <2>2, <3>1 DEF Delivered, EndWindow, Claim
    <2> QED BY <2>1, <2>2
<1>7. CASE Cancel \/ LoseAuthority \/ DrainGeneration
    BY <1>7 DEF Cancel, LoseAuthority, DrainGeneration
<1>8. CASE Close
    <2>1. parked' \in Seq(Turn) /\ pc' \in [Turn -> PC]
        BY <1>8, EmptySeq DEF Close
    <2>2. canceling' \in BOOLEAN
        BY <1>8 DEF Close
    <2> QED BY <1>8, <2>1, <2>2 DEF Close
<1>9. ASSUME NEW q \in Rotator, BeginRotation(q) \/ EndRotation(q) PROVE TypeOK'
    BY <1>9 DEF BeginRotation, EndRotation
<1>10. CASE UNCHANGED vars
    BY <1>10 DEF vars
<1> QED
    BY <1>1, <1>2, <1>3, <1>4, <1>5, <1>6, <1>7, <1>8, <1>9, <1>10 DEF Next, TurnStep

(***************************************************************************)
(* The flags, the queue and the callers' positions always have their types.*)
(***************************************************************************)
THEOREM TypeCorrect == Spec => []TypeOK
    BY TypeInit, TypeNext, PTL DEF Spec

-----------------------------------------------------------------------------
(***************************************************************************)
(* The gate starts in its invariant.                                       *)
(***************************************************************************)
LEMMA GateInit == Init => GateInv
<1> SUFFICES ASSUME Init PROVE GateInv
    OBVIOUS
<1>1. TypeOK
    BY TypeInit
<1>2. QueueMatchesCallers
    BY DEF Init, NewGate, QueueMatchesCallers
<1>3. OneDelivery /\ OneTurnInFlight /\ DeliveryHoldsGate /\ CloseSeals /\ RotationExclusive
    BY DEF Init, NewGate, OneDelivery, OneTurnInFlight, DeliveryHoldsGate, CloseSeals, RotationExclusive, InFlight
<1>4. CancelTargetsTurnInFlight
    BY NoTurnAssumption DEF Init, NewGate, CancelTargetsTurnInFlight, InFlight
<1> QED BY <1>1, <1>2, <1>3, <1>4 DEF GateInv

(***************************************************************************)
(* A turn that enters flight, as AdmitStart and the handoff of EndWindow   *)
(* do it, finds nobody in flight, delivering or swapping beside it.        *)
(***************************************************************************)
LEMMA StartKeepsGate ==
    ASSUME GateInv, NEW t \in Turn, AdmitStart(t)
    PROVE  GateInv'
<1>1. TypeOK'
    BY TypeNext DEF GateInv, Next, TurnStep
<1> USE DEF GateInv, AdmitStart, Claim, GateOpen, Idle, InFlight, TypeOK
<1>2. QueueMatchesCallers'
    BY DEF QueueMatchesCallers
<1>3. OneDelivery' /\ OneTurnInFlight' /\ CancelTargetsTurnInFlight'
    BY NoTurnAssumption DEF OneDelivery, OneTurnInFlight, CancelTargetsTurnInFlight
<1>4. RotationExclusive' /\ DeliveryHoldsGate' /\ CloseSeals'
    BY DEF RotationExclusive, DeliveryHoldsGate, CloseSeals
<1> QED BY <1>1, <1>2, <1>3, <1>4

(***************************************************************************)
(* Parking a caller behind a running turn or a finishing window keeps the  *)
(* queue and the callers' positions in agreement.                          *)
(***************************************************************************)
LEMMA ParkKeepsGate ==
    ASSUME GateInv, NEW t \in Turn, AdmitPark(t)
    PROVE  GateInv'
<1>1. TypeOK'
    BY TypeNext DEF GateInv, Next, TurnStep
<1> USE DEF GateInv, AdmitPark, GateOpen, InFlight, flags, TypeOK
<1>2. QueueMatchesCallers'
    BY AppendProperties DEF QueueMatchesCallers
<1>3. OneDelivery' /\ OneTurnInFlight' /\ CancelTargetsTurnInFlight'
    BY DEF OneDelivery, OneTurnInFlight, CancelTargetsTurnInFlight
<1>4. RotationExclusive' /\ DeliveryHoldsGate' /\ CloseSeals'
    BY DEF RotationExclusive, DeliveryHoldsGate, CloseSeals
<1> QED BY <1>1, <1>2, <1>3, <1>4

(***************************************************************************)
(* The end of a finishing window, with or without a parked turn to start.  *)
(***************************************************************************)
LEMMA DeliveredKeepsGate ==
    ASSUME GateInv, NEW t \in Turn, Delivered(t)
    PROVE  GateInv'
<1>1. TypeOK'
    BY TypeNext DEF GateInv, Next, TurnStep
<1> USE DEF GateInv, Delivered, EndWindow, InFlight, TypeOK
<1>2. CASE closed \/ parked = <<>>
    <2>1. QueueMatchesCallers' /\ OneDelivery'
        BY <1>2 DEF QueueMatchesCallers, OneDelivery
    <2>2. OneTurnInFlight' /\ CancelTargetsTurnInFlight'
        BY <1>2 DEF OneTurnInFlight, CancelTargetsTurnInFlight
    <2>3. RotationExclusive' /\ DeliveryHoldsGate' /\ CloseSeals'
        BY <1>2 DEF RotationExclusive, DeliveryHoldsGate, CloseSeals, OneDelivery
    <2> QED BY <1>1, <2>1, <2>2, <2>3
<1>3. CASE ~closed /\ parked # <<>>
    <2> DEFINE h == Head(parked)
    <2>1. /\ h \in Turn /\ h = parked[1] /\ 1 \in DOMAIN parked
          /\ \A i \in DOMAIN Tail(parked) :
                i \in Nat /\ i + 1 \in DOMAIN parked /\ Tail(parked)[i] = parked[i + 1]
        BY <1>3, QueueHandoff, HeadTailProperties
    <2>2. pc[h] = "parked" /\ h # t
        BY <2>1 DEF QueueMatchesCallers
    <2>3. pc' = [pc EXCEPT ![t] = "idle", ![h] = "body"]
        BY <1>3
    <2>4. \A s \in Turn : pc[s] \notin InFlight /\ (pc[s] = "delivering" => s = t)
        BY <1>3 DEF DeliveryHoldsGate, OneDelivery
    <2>5. QueueMatchesCallers'
        <3>1. \A i \in DOMAIN parked : parked[i] \in Turn /\ parked[i] # t
            BY DEF QueueMatchesCallers
        <3>2. \A i \in DOMAIN Tail(parked) : parked[i + 1] # h
            BY <2>1 DEF QueueMatchesCallers
        <3>3. \A i \in DOMAIN parked' : pc'[parked'[i]] = "parked"
            BY <1>3, <2>1, <2>3, <3>1, <3>2 DEF QueueMatchesCallers
        <3>4. \A i, j \in DOMAIN parked' : parked'[i] = parked'[j] => i = j
            BY SMTT(20), <1>3, <2>1 DEF QueueMatchesCallers
        <3> QED BY <3>3, <3>4 DEF QueueMatchesCallers
    <2>6. OneDelivery' /\ OneTurnInFlight' /\ CancelTargetsTurnInFlight'
        BY <1>3, <2>1, <2>2, <2>3, <2>4, NoTurnAssumption
           DEF OneDelivery, OneTurnInFlight, CancelTargetsTurnInFlight, Claim
    <2>7. RotationExclusive' /\ DeliveryHoldsGate' /\ CloseSeals'
        BY <1>3, <2>1, <2>2, <2>3, <2>4 DEF RotationExclusive, DeliveryHoldsGate, CloseSeals, Claim
    <2> QED BY <1>1, <2>5, <2>6, <2>7
<1> QED BY <1>2, <1>3

(***************************************************************************)
(* Leaving flight: into the finishing window, or straight to an open gate. *)
(***************************************************************************)
LEMMA FinishKeepsGate ==
    ASSUME GateInv, NEW t \in Turn, BodyEnds(t) \/ SyncEnds(t) \/ SyncAdmittedError(t)
    PROVE  GateInv'
<1>1. TypeOK'
    BY TypeNext DEF GateInv, Next, TurnStep
<1> USE DEF GateInv, BodyEnds, FinishGuarded, SyncEnds, SyncAdmittedError, Release, InFlight, TypeOK
<1>2. \A s \in Turn : s # t => pc[s] \notin InFlight
    BY DEF OneTurnInFlight
<1>3. ~closed => \A s \in Turn : pc[s] # "delivering"
    BY DEF DeliveryHoldsGate
<1>4. QueueMatchesCallers'
    BY DEF QueueMatchesCallers
<1>5. OneDelivery' /\ OneTurnInFlight' /\ CancelTargetsTurnInFlight'
    BY <1>2, <1>3, NoTurnAssumption DEF OneDelivery, OneTurnInFlight, CancelTargetsTurnInFlight
<1>6. RotationExclusive'
    <2>1. \A q \in Rotator : swap[q] # "swapping"
        BY DEF RotationExclusive
    <2> QED BY <2>1 DEF RotationExclusive
<1>7. DeliveryHoldsGate'
    BY <1>2, <1>3 DEF DeliveryHoldsGate
<1>8. CloseSeals'
    BY DEF CloseSeals
<1> QED BY <1>1, <1>4, <1>5, <1>6, <1>7, <1>8

(***************************************************************************)
(* A caller that only moves outside the gate.                              *)
(***************************************************************************)
LEMMA CallerKeepsGate ==
    ASSUME GateInv, NEW t \in Turn,
           AdmitDrop(t) \/ Spawn(t) \/ SyncSettled(t) \/ Ask(t, kind[t])
    PROVE  GateInv'
<1>1. TypeOK'
    BY TypeNext DEF GateInv, Next, TurnStep
<1> USE DEF GateInv, AdmitDrop, Spawn, SyncSettled, Ask, InFlight, flags, TypeOK
<1>2. QueueMatchesCallers'
    BY DEF QueueMatchesCallers
<1>3. OneDelivery' /\ OneTurnInFlight' /\ CancelTargetsTurnInFlight'
    BY DEF OneDelivery, OneTurnInFlight, CancelTargetsTurnInFlight
<1>4. RotationExclusive' /\ DeliveryHoldsGate' /\ CloseSeals'
    BY DEF RotationExclusive, DeliveryHoldsGate, CloseSeals
<1> QED BY <1>1, <1>2, <1>3, <1>4

(***************************************************************************)
(* Session swaps.  beginRotation sees an idle gate, and an idle gate of a  *)
(* live controller has no delivery either.                                 *)
(***************************************************************************)
LEMMA RotationKeepsGate ==
    ASSUME GateInv, NEW q \in Rotator, BeginRotation(q) \/ EndRotation(q)
    PROVE  GateInv'
<1>1. TypeOK'
    BY TypeNext DEF GateInv, Next
<1> USE DEF GateInv, BeginRotation, EndRotation, Idle, TypeOK
<1>2. QueueMatchesCallers' /\ OneDelivery' /\ OneTurnInFlight' /\ CancelTargetsTurnInFlight'
    BY DEF QueueMatchesCallers, OneDelivery, OneTurnInFlight, CancelTargetsTurnInFlight
<1>3. DeliveryHoldsGate' /\ CloseSeals'
    BY DEF DeliveryHoldsGate, CloseSeals
<1>4. CASE BeginRotation(q)
    <2>1. \A t \in Turn : pc[t] \notin InFlight /\ (~closed => pc[t] # "delivering")
        BY <1>4 DEF OneTurnInFlight, DeliveryHoldsGate
    <2>2. \A p \in Rotator : swap[p] # "swapping"
        BY <1>4 DEF RotationExclusive
    <2>3. RotationExclusive'
        BY <1>4, <2>1, <2>2 DEF RotationExclusive
    <2> QED BY <1>1, <1>2, <1>3, <2>3
<1>5. CASE EndRotation(q)
    <2>1. RotationExclusive'
        BY <1>5 DEF RotationExclusive
    <2> QED BY <1>1, <1>2, <1>3, <2>1
<1> QED BY <1>4, <1>5

(***************************************************************************)
(* close, Cancel, the loss of write authority and a drained generation     *)
(* keep the gate's invariant; close empties the queue and the window at    *)
(* once.                                                                   *)
(***************************************************************************)
LEMMA TeardownKeepsGate ==
    ASSUME GateInv, Cancel \/ Close \/ LoseAuthority \/ DrainGeneration
    PROVE  GateInv'
<1>1. TypeOK'
    BY TypeNext DEF GateInv, Next
<1> USE DEF GateInv, InFlight, TypeOK
<1>2. CASE Close
    <2>1. QueueMatchesCallers' /\ OneDelivery'
        BY <1>2 DEF Close, QueueMatchesCallers, OneDelivery
    <2>2. OneTurnInFlight'
        BY <1>2 DEF Close, OneTurnInFlight
    <2>3. CancelTargetsTurnInFlight'
        BY <1>2 DEF Close, CancelTargetsTurnInFlight, OneTurnInFlight
    <2>4. RotationExclusive' /\ DeliveryHoldsGate' /\ CloseSeals'
        BY <1>2 DEF Close, RotationExclusive, DeliveryHoldsGate, CloseSeals
    <2> QED BY <1>1, <2>1, <2>2, <2>3, <2>4
<1>3. CASE Cancel \/ LoseAuthority \/ DrainGeneration
    <2>1. QueueMatchesCallers' /\ OneDelivery' /\ OneTurnInFlight'
        BY <1>3 DEF Cancel, LoseAuthority, DrainGeneration, flags,
                    QueueMatchesCallers, OneDelivery, OneTurnInFlight
    <2>2. CancelTargetsTurnInFlight'
        BY <1>3 DEF Cancel, LoseAuthority, DrainGeneration, flags,
                    CancelTargetsTurnInFlight, OneTurnInFlight
    <2>3. RotationExclusive' /\ DeliveryHoldsGate' /\ CloseSeals'
        BY <1>3 DEF Cancel, LoseAuthority, DrainGeneration, flags,
                    RotationExclusive, DeliveryHoldsGate, CloseSeals
    <2> QED BY <1>1, <2>1, <2>2, <2>3
<1> QED BY <1>2, <1>3

(***************************************************************************)
(* Every step of the gate keeps its invariant.                             *)
(***************************************************************************)
LEMMA GateNext == GateInv /\ [Next]_vars => GateInv'
<1> SUFFICES ASSUME GateInv, [Next]_vars PROVE GateInv'
    OBVIOUS
<1>1. CASE UNCHANGED vars
    BY <1>1 DEF vars, GateInv, TypeOK, QueueMatchesCallers, OneDelivery, OneTurnInFlight,
                CancelTargetsTurnInFlight, RotationExclusive, DeliveryHoldsGate, CloseSeals
<1>2. CASE Next
    BY <1>2, StartKeepsGate, ParkKeepsGate, DeliveredKeepsGate, FinishKeepsGate,
       CallerKeepsGate, RotationKeepsGate, TeardownKeepsGate
       DEF Next, TurnStep
<1> QED BY <1>1, <1>2

-----------------------------------------------------------------------------
(***************************************************************************)
(* The gate's invariant holds in every reachable state.                    *)
(***************************************************************************)
LEMMA GateInvariant == Spec => []GateInv
    BY GateInit, GateNext, PTL DEF Spec

(***************************************************************************)
(* At most one turn body is in flight and c.running says so, whatever the  *)
(* number of callers and whichever entry points they use.                  *)
(***************************************************************************)
THEOREM OneTurn == Spec => []OneTurnInFlight
    BY GateInvariant, PTL DEF GateInv

(***************************************************************************)
(* Cancel only ever reaches the turn in flight.                            *)
(***************************************************************************)
THEOREM CancelReachesItsTurn == Spec => []CancelTargetsTurnInFlight
    BY GateInvariant, PTL DEF GateInv

(***************************************************************************)
(* A session swap excludes turns, deliveries and other swaps.              *)
(***************************************************************************)
THEOREM SwapsAreExclusive == Spec => []RotationExclusive
    BY GateInvariant, PTL DEF GateInv

(***************************************************************************)
(* The gate stays shut while TurnDone is fanned out.                       *)
(***************************************************************************)
THEOREM DeliveryIsShielded == Spec => []DeliveryHoldsGate
    BY GateInvariant, PTL DEF GateInv

(***************************************************************************)
(* close leaves nothing parked and no finishing window behind.             *)
(***************************************************************************)
THEOREM CloseIsFinal == Spec => []CloseSeals
    BY GateInvariant, PTL DEF GateInv

(***************************************************************************)
(* No turn enters flight on a closed controller.                           *)
(***************************************************************************)
THEOREM ClosedStaysQuiet == Spec => NoStartAfterClose
<1>1. GateInv /\ [Next]_vars
      => [closed => \A t \in Turn : pc[t] \notin InFlight => pc'[t] \notin InFlight]_vars
    <2> SUFFICES ASSUME GateInv, Next, closed, NEW t \in Turn, pc[t] \notin InFlight
                 PROVE  pc'[t] \notin InFlight
        OBVIOUS
    <2> USE DEF InFlight, GateInv, TypeOK
    <2>1. CASE Cancel \/ LoseAuthority \/ DrainGeneration \/ \E q \in Rotator : BeginRotation(q) \/ EndRotation(q)
        BY <2>1 DEF Cancel, LoseAuthority, DrainGeneration, BeginRotation, EndRotation
    <2>2. CASE Close
        BY <2>2 DEF Close
    <2>3. ASSUME NEW s \in Turn, TurnStep(s) PROVE pc'[t] \notin InFlight
        BY <2>3 DEF TurnStep, AdmitStart, AdmitPark, AdmitDrop, GateOpen, Spawn, SyncAdmittedError,
                    BodyEnds, FinishGuarded, Delivered, EndWindow, SyncEnds, SyncSettled
    <2>4. ASSUME NEW s \in Turn, Ask(s, kind[s]) PROVE pc'[t] \notin InFlight
        BY <2>4 DEF Ask
    <2> QED BY <2>1, <2>2, <2>3, <2>4 DEF Next
<1> QED BY <1>1, GateInvariant, PTL DEF Spec, NoStartAfterClose

-----------------------------------------------------------------------------
(***************************************************************************)
(* Who drains the queue.  Only a finishing window hands the gate over, so  *)
(* a non-empty queue must keep the gate busy with a turn that ends in one: *)
(* parked turns are asynchronous, and when the steer fallback and blocking *)
(* callers do not meet none of them parks behind a blocking turn.          *)
(***************************************************************************)
ParkedAreAsync == \A t \in Turn : pc[t] = "parked" => kind[t] # "sync"

DrainerIsAsync ==
    BlockingApart /\ parked # <<>> => \A t \in Turn : pc[t] \in InFlight => kind[t] # "sync"

HandoffInv == GateInv /\ NothingParkedAtIdleGate /\ ParkedAreAsync /\ DrainerIsAsync

(***************************************************************************)
(* A caller keeps its entry point for ever.                                *)
(***************************************************************************)
LEMMA KindIsFixed == TypeOK /\ [Next]_vars => kind' = kind
<1> SUFFICES ASSUME TypeOK, [Next]_vars PROVE kind' = kind
    OBVIOUS
<1>1. ASSUME NEW t \in Turn, Ask(t, kind[t]) PROVE kind' = kind
    BY <1>1 DEF Ask, TypeOK
<1>2. ASSUME NEW t \in Turn, TurnStep(t) PROVE kind' = kind
    BY <1>2 DEF TurnStep, AdmitStart, AdmitPark, AdmitDrop, Spawn, SyncAdmittedError, BodyEnds,
                FinishGuarded, Delivered, EndWindow, SyncEnds, SyncSettled
<1>3. ASSUME NEW q \in Rotator, BeginRotation(q) \/ EndRotation(q) PROVE kind' = kind
    BY <1>3 DEF BeginRotation, EndRotation
<1>4. CASE Cancel \/ Close \/ LoseAuthority \/ DrainGeneration
    BY <1>4 DEF Cancel, Close, LoseAuthority, DrainGeneration
<1>5. CASE UNCHANGED vars
    BY <1>5 DEF vars
<1> QED BY <1>1, <1>2, <1>3, <1>4, <1>5 DEF Next

(***************************************************************************)
(* The window hands the gate to the oldest parked turn, and that one will  *)
(* open a window of its own.                                               *)
(***************************************************************************)
LEMMA DeliveredKeepsHandoff ==
    ASSUME HandoffInv, NEW t \in Turn, Delivered(t)
    PROVE  NothingParkedAtIdleGate' /\ ParkedAreAsync' /\ DrainerIsAsync'
<1> USE DEF HandoffInv, GateInv, TypeOK, InFlight
<1>1. kind' = kind
    BY DEF Delivered, EndWindow
<1>2. CASE closed \/ parked = <<>>
    <2>1. parked' = <<>>
        BY <1>2 DEF Delivered, EndWindow, CloseSeals
    <2>2. ParkedAreAsync'
        BY <1>1, <1>2 DEF Delivered, EndWindow, ParkedAreAsync
    <2> QED BY <2>1, <2>2 DEF NothingParkedAtIdleGate, DrainerIsAsync
<1>3. CASE ~(closed \/ parked = <<>>)
    <2> DEFINE next == Head(parked)
    <2>1. next \in Turn /\ next = parked[1] /\ 1 \in DOMAIN parked
        BY <1>3, QueueHandoff
    <2>2. pc[next] = "parked" /\ kind[next] # "sync"
        BY <2>1 DEF QueueMatchesCallers, ParkedAreAsync
    <2>3. running' /\ pc' = [pc EXCEPT ![t] = "idle", ![next] = "body"]
        BY <1>3 DEF Delivered, EndWindow, Claim
    <2>4. \A s \in Turn : pc[s] \notin InFlight
        BY <1>3 DEF Delivered, DeliveryHoldsGate
    <2>5. \A s \in Turn : pc'[s] \in InFlight => s = next
        BY <2>1, <2>3, <2>4
    <2>6. \A s \in Turn : pc'[s] = "parked" => pc[s] = "parked"
        BY <2>1, <2>3
    <2>7. DrainerIsAsync'
        BY <1>1, <2>2, <2>5 DEF DrainerIsAsync
    <2>8. ParkedAreAsync'
        BY <1>1, <2>6 DEF ParkedAreAsync
    <2>9. NothingParkedAtIdleGate'
        BY <2>3 DEF NothingParkedAtIdleGate, Idle
    <2> QED BY <2>7, <2>8, <2>9
<1> QED BY <1>2, <1>3

(***************************************************************************)
(* Every step leaves a parked turn with somebody who will drain it.        *)
(***************************************************************************)
LEMMA HandoffNext == HandoffInv /\ [Next]_vars => HandoffInv'
<1> SUFFICES ASSUME HandoffInv, [Next]_vars PROVE HandoffInv'
    OBVIOUS
<1>1. GateInv' /\ kind' = kind
    BY GateNext, KindIsFixed DEF HandoffInv, GateInv
<1>2. BlockingApart' <=> BlockingApart
    BY <1>1 DEF BlockingApart
<1> USE DEF HandoffInv, GateInv, TypeOK, NothingParkedAtIdleGate, Idle, flags, InFlight,
            ParkedAreAsync, DrainerIsAsync
<1>3. ASSUME NEW t \in Turn, Ask(t, kind[t]) \/ AdmitDrop(t) \/ SyncSettled(t) PROVE HandoffInv'
    BY <1>1, <1>2, <1>3 DEF Ask, AdmitDrop, SyncSettled
<1>4. ASSUME NEW t \in Turn, AdmitStart(t) PROVE HandoffInv'
    <2>1. BlockingApart => parked' = <<>>
        BY <1>4 DEF AdmitStart
    <2> QED BY <1>1, <1>2, <1>4, <2>1 DEF AdmitStart, Claim
<1>5. ASSUME NEW t \in Turn, Spawn(t) PROVE HandoffInv'
    BY <1>1, <1>2, <1>5 DEF Spawn
<1>6. ASSUME NEW t \in Turn, AdmitPark(t) PROVE HandoffInv'
    <2>1. kind[t] # "sync" /\ (running \/ finishing)
        BY <1>6 DEF AdmitPark, Parks
    <2>2. BlockingApart => \A s \in Turn : pc[s] \in InFlight => kind[s] # "sync"
        BY <1>6 DEF AdmitPark, Parks, BlockingApart, OneTurnInFlight
    <2>3. UNCHANGED flags /\ pc' = [pc EXCEPT ![t] = "parked"]
        BY <1>6 DEF AdmitPark
    <2> QED BY <1>1, <1>2, <2>1, <2>2, <2>3
<1>7. ASSUME NEW t \in Turn, SyncAdmittedError(t) \/ SyncEnds(t) PROVE HandoffInv'
    <2>1. pc[t] \in InFlight /\ kind[t] = "sync" /\ parked' = parked
        BY <1>7 DEF SyncAdmittedError, SyncEnds
    <2>2. BlockingApart => parked' = <<>>
        BY <2>1
    <2>3. \A s \in Turn : pc'[s] = "parked" => pc[s] = "parked"
        BY <1>7 DEF SyncAdmittedError, SyncEnds
    <2> QED BY <1>1, <1>2, <2>2, <2>3
<1>8. ASSUME NEW t \in Turn, BodyEnds(t) PROVE HandoffInv'
    <2>1. closed => parked' = <<>>
        BY <1>8 DEF BodyEnds, FinishGuarded, CloseSeals
    <2> QED BY <1>1, <1>2, <1>8, <2>1 DEF BodyEnds, FinishGuarded
<1>9. ASSUME NEW t \in Turn, Delivered(t) PROVE HandoffInv'
    BY <1>1, <1>9, DeliveredKeepsHandoff
<1>10. ASSUME NEW q \in Rotator, BeginRotation(q) \/ EndRotation(q) PROVE HandoffInv'
    BY <1>1, <1>2, <1>10 DEF BeginRotation, EndRotation
<1>11. CASE Cancel \/ LoseAuthority \/ DrainGeneration
    BY <1>1, <1>2, <1>11 DEF Cancel, LoseAuthority, DrainGeneration
<1>12. CASE Close
    BY <1>1, <1>2, <1>12 DEF Close
<1>13. CASE UNCHANGED vars
    BY <1>1, <1>2, <1>13 DEF vars
<1> QED
    BY <1>3, <1>4, <1>5, <1>6, <1>7, <1>8, <1>9, <1>10, <1>11, <1>12, <1>13 DEF Next, TurnStep

(***************************************************************************)
(* A parked turn has a drainer in every reachable state.                   *)
(***************************************************************************)
LEMMA HandoffInvariant == Spec => []HandoffInv
<1>1. Init => HandoffInv
    BY GateInit DEF HandoffInv, Init, NewGate, NothingParkedAtIdleGate, ParkedAreAsync, DrainerIsAsync
<1> QED BY <1>1, HandoffNext, PTL DEF Spec

(***************************************************************************)
(* No turn is stranded: an idle gate has an empty parked queue unless the  *)
(* steer fallback shares the gate with blocking callers.                   *)
(***************************************************************************)
THEOREM NobodyStranded == Spec => []NothingParkedAtIdleGate
    BY HandoffInvariant, PTL DEF HandoffInv

(***************************************************************************)
(* Parked turns start in the order they parked and nobody overtakes them,  *)
(* under the same condition.                                               *)
(***************************************************************************)
THEOREM ParkedFirst == Spec => NoOvertaking
<1>1. HandoffInv /\ [Next]_vars
      => [BlockingApart /\ parked # <<>> =>
             \A t \in Turn : pc[t] \notin InFlight /\ pc'[t] \in InFlight => t = Head(parked)]_vars
    <2> SUFFICES ASSUME HandoffInv, Next, NEW t \in Turn, pc[t] \notin InFlight,
                        pc'[t] \in InFlight, parked # <<>>, BlockingApart
                 PROVE  t = Head(parked)
        OBVIOUS
    <2> USE DEF InFlight, HandoffInv, GateInv, TypeOK
    <2>1. CASE Cancel \/ LoseAuthority \/ DrainGeneration \/ \E q \in Rotator : BeginRotation(q) \/ EndRotation(q)
        BY <2>1 DEF Cancel, LoseAuthority, DrainGeneration, BeginRotation, EndRotation
    <2>2. CASE Close
        BY <2>2 DEF Close
    <2>3. ASSUME NEW s \in Turn, AdmitStart(s) PROVE FALSE
        BY <2>3 DEF AdmitStart, NothingParkedAtIdleGate
    <2>4. ASSUME NEW s \in Turn, Delivered(s) PROVE t = Head(parked)
        BY <2>4 DEF Delivered, EndWindow
    <2>5. ASSUME NEW s \in Turn,
                 AdmitPark(s) \/ AdmitDrop(s) \/ Spawn(s) \/ SyncAdmittedError(s)
                 \/ BodyEnds(s) \/ SyncEnds(s) \/ SyncSettled(s)
          PROVE  FALSE
        BY <2>5 DEF AdmitPark, AdmitDrop, Spawn, SyncAdmittedError, BodyEnds, FinishGuarded,
                    SyncEnds, SyncSettled
    <2>6. ASSUME NEW s \in Turn, Ask(s, kind[s]) PROVE FALSE
        BY <2>6 DEF Ask
    <2> QED BY <2>1, <2>2, <2>3, <2>4, <2>5, <2>6 DEF Next, TurnStep
<1> QED BY <1>1, HandoffInvariant, PTL DEF Spec, NoOvertaking
=============================================================================
