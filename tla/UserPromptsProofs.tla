------------------------- MODULE UserPromptsProofs --------------------------
(***************************************************************************)
(* What the prompts of a controller guarantee for any number of requests,  *)
(* turns, streams, stops and switches of the approval mode.                *)
(***************************************************************************)
EXTENDS UserPrompts, FiniteSetTheorems, TLAPS

(***************************************************************************)
(* promptMu is held from the recheck until the wait is over, and emitMu    *)
(* exactly while a prompt is being sent.                                   *)
(***************************************************************************)
LocksHeld ==
    \A r \in Req : /\ pc[r] \in {"recheck", "hook", "register", "emit", "wait"} => promptMu = r
                   /\ pc[r] = "emit" <=> emitMu = r

(***************************************************************************)
(* Who has an entry is blocked on it.  A question that has one and is not  *)
(* shown is marked queued, and nothing else is.                            *)
(***************************************************************************)
EntriesLive ==
    /\ \A r \in entries : /\ pc[r] \in {"emit", "wait"} \cup (IF Asks(r) THEN {"queue", "register"} ELSE {})
                          /\ pc[r] \in {"queue", "register"} => r \in queued
    /\ \A r \in queued : Asks(r) /\ pc[r] \in {"queue", "register"}

(***************************************************************************)
(* Questions and requests for write access do not pass the pre-approval,   *)
(* and only calls that exist are made.                                     *)
(***************************************************************************)
Routed ==
    \A r \in Req : /\ pc[r] \in {"check", "review", "reviewed", "recheck", "hook"} => ~Asks(r) /\ Class(r) # "write"
                   /\ Class(r) = "none" => pc[r] = "idle"

(***************************************************************************)
(* A request is settled when an answer for it was taken, sent or drained.  *)
(***************************************************************************)
Settled(r) ==
    \/ inhand[r] # "none" \/ reply[r] # "none" \/ human[r] # "none"
    \/ \E s \in Switcher : r \in switch[s].drained

(***************************************************************************)
(* What is settled has no entry, and no goroutine will make it one again.  *)
(***************************************************************************)
SettledOnce ==
    \A r \in Req : Settled(r) =>
        /\ r \notin entries /\ pc[r] # "idle"
        /\ ~Asks(r) => pc[r] \in {"emit", "wait", "grant", "approved", "window", "done"}

(***************************************************************************)
(* An attached stream has no card of a request that was not sent yet, and  *)
(* one of the request that waits.                                          *)
(***************************************************************************)
CardsCounted ==
    \A c \in attached, r \in Req :
        /\ pc[r] \in {"idle", "check", "review", "reviewed", "queue", "recheck", "hook", "register", "emit"} => cards[c][r] = 0
        /\ pc[r] = "wait" /\ r \in entries => cards[c][r] = 1

(***************************************************************************)
(* The postures of a request's life contain the ones in force now.         *)
(***************************************************************************)
SeenTracks ==
    \A r \in Req : Running(r) => mode \in seen[r] /\ (window => "plan" \in seen[r])

(***************************************************************************)
(* What a posture may allow without a person.                              *)
(***************************************************************************)
PostureAllows(r) ==
    \/ Class(r) \in Gated /\ "yolo" \in seen[r]
    \/ Class(r) \in {"plain", "memory"} /\ "auto" \in seen[r]

(***************************************************************************)
(* Every answer on its way comes from the person or from a switch that     *)
(* may allow it, and every grant from a person's answer for the session.   *)
(***************************************************************************)
AnswersJustified ==
    /\ \A r \in Req : /\ inhand[r] # "none" => human[r] = inhand[r] /\ inhand[r] # "drain"
                      /\ reply[r] \in {"once", "session"} => human[r] = reply[r]
                      /\ reply[r] = "drain" => PostureAllows(r)
                      /\ pc[r] = "grant" => human[r] = "session"
                      /\ pc[r] = "idle" => outcome[r] = "none"
    /\ \A s \in Switcher : \A r \in switch[s].drained : PostureAllows(r)
    /\ \A g \in grants : \E o \in Req : Scope(o) = g /\ human[o] = "session"

(***************************************************************************)
(* The ways a request may have been allowed, as AllowJustified lists them. *)
(***************************************************************************)
Justified(r) ==
    \/ human[r] \in {"once", "session"}
    \/ Class(r) \notin {"plan", "memory"} /\ \E o \in Req : Scope(o) = Scope(r) /\ human[o] = "session"
    \/ PostureAllows(r)
    \/ Class(r) = "plain" /\ "plan" \in seen[r]
    \/ Class(r) \in {"plain", "rule"} /\ "helper" \in seen[r]

(***************************************************************************)
(* The turn with a cancel function owns whatever runs for a turn, a Stop   *)
(* in progress holds a turn, and the turn it holds is one that asks.       *)
(***************************************************************************)
StopsHoldTurns ==
    /\ \A r \in Req : Running(r) /\ Owner(r) # Sidecar => turn = Owner(r)
    /\ turn # NoTurn => \E r \in Req : Owner(r) = turn
    /\ \A s \in Stopper : stop[s].at \in {"read", "cleared"} => \E r \in Req : Owner(r) = stop[s].turn

(***************************************************************************)
(* The inductive invariant of the prompts.  LocksHeld carries the one      *)
(* prompt, and needs nothing else.  An answered prompt does not come back  *)
(* because of EntriesLive and SettledOnce together, and that keeps the     *)
(* history of AllowJustified from being overwritten; SeenTracks and Routed *)
(* say under which postures, and for which calls, the pre-approval is      *)
(* asked.                                                                  *)
(***************************************************************************)
PromptInv ==
    /\ PTypeOK /\ LocksHeld /\ EntriesLive /\ Routed /\ SettledOnce /\ CardsCounted
    /\ SeenTracks /\ AnswersJustified /\ AllowJustified /\ StopsHoldTurns

-----------------------------------------------------------------------------
(***************************************************************************)
(* The prompts start with their types.                                     *)
(***************************************************************************)
LEMMA PromptTypeInit == Init => PTypeOK
<1> SUFFICES ASSUME Init PROVE PTypeOK
    OBVIOUS
<1>1. world \in Worlds /\ {mode, gate, subGate} \subseteq Modes /\ attached \subseteq Client
    BY PromptAssumption DEF Init
<1> QED BY <1>1 DEF Init, PTypeOK, Steps, AnswerSet, Modes

(***************************************************************************)
(* What ends or moves a request's goroutine keeps its types.               *)
(***************************************************************************)
LEMMA GoesTypes ==
    ASSUME PTypeOK, NEW r \in Req, NEW to \in Steps, Goes(r, to)
    PROVE  pc' \in [Req -> Steps] /\ outcome' \in [Req -> {"none", "allow", "deny", "answered", "aborted"}]
PROOF
    BY DEF PTypeOK, Goes

(***************************************************************************)
(* The same when it returns a result.                                      *)
(***************************************************************************)
LEMMA EndsTypes ==
    ASSUME PTypeOK, NEW r \in Req, NEW to \in {"allow", "deny", "answered", "aborted"}, Ends(r, to)
    PROVE  pc' \in [Req -> Steps] /\ outcome' \in [Req -> {"none", "allow", "deny", "answered", "aborted"}]
PROOF
    BY DEF PTypeOK, Ends, Steps

(***************************************************************************)
(* Every step keeps the types: a question that is not shown has an entry,  *)
(* so no drain or timeout leaves one behind, and a Stop in progress holds  *)
(* a turn.                                                                 *)
(***************************************************************************)
LEMMA PromptTypeNext == PTypeOK /\ EntriesLive /\ StopsHoldTurns /\ [Next]_vars => PTypeOK'
<1> SUFFICES ASSUME PTypeOK, EntriesLive, StopsHoldTurns, [Next]_vars PROVE PTypeOK'
    OBVIOUS
<1> DEFINE Outcomes == {"none", "allow", "deny", "answered", "aborted"}
           Stops == [at : {"idle", "pressed", "read", "cleared", "done"}, turn : Turn \cup {NoTurn}]
           Switches == [at : {"idle", "set", "sub", "read", "send", "done"}, mode : Modes, drained : SUBSET Req]
           Goroutines == pc' \in [Req -> Steps] /\ outcome' \in [Req -> Outcomes]
           Seen == seen' \in [Req -> SUBSET (Modes \cup {"plan", "helper"})]
<1> USE DEF posture, locks, answers, lives, views
<1>1. ASSUME NEW r \in Req, Begin(r) PROVE PTypeOK'
    <2>1. Goroutines
        BY <1>1, GoesTypes, EndsTypes DEF Begin, Steps
    <2>2. Seen
        BY <1>1 DEF Begin, PTypeOK
    <2>3. entries' \subseteq Req /\ queued' \subseteq entries'
        BY <1>1 DEF Begin, PTypeOK
    <2> QED BY <1>1, <2>1, <2>2, <2>3 DEF Begin, PTypeOK
<1>2. ASSUME NEW r \in Req, Check(r) PROVE PTypeOK'
    <2>1. Goroutines
        BY <1>2, GoesTypes, EndsTypes DEF Check, Steps
    <2> QED BY <1>2, <2>1 DEF Check, PTypeOK
<1>3. ASSUME NEW r \in Req, Review(r) PROVE PTypeOK'
    <2>1. Goroutines
        BY <1>3, GoesTypes, EndsTypes DEF Review, Steps
    <2>2. Seen
        BY <1>3 DEF Review, PTypeOK
    <2> QED BY <1>3, <2>1, <2>2 DEF Review, PTypeOK
<1>4. ASSUME NEW r \in Req, Lock(r) PROVE PTypeOK'
    BY <1>4 DEF Lock, Goes, PTypeOK, Steps
<1>5. ASSUME NEW r \in Req, LeaveQueue(r) \/ AbandonedLock(r) \/ Register(r) \/ RecordGrant(r) PROVE PTypeOK'
    <2>1. CASE LeaveQueue(r)
        BY <2>1 DEF LeaveQueue, Ends, PTypeOK, Steps
    <2>2. CASE AbandonedLock(r)
        BY <2>2 DEF AbandonedLock, PTypeOK
    <2>3. CASE Register(r)
        BY <2>3 DEF Register, Goes, PTypeOK, Steps
    <2>4. CASE RecordGrant(r)
        BY <2>4 DEF RecordGrant, Ends, PTypeOK, Steps
    <2> QED BY <1>5, <2>1, <2>2, <2>3, <2>4
<1>6. ASSUME NEW r \in Req, Recheck(r) PROVE PTypeOK'
    <2>1. Goroutines
        BY <1>6, GoesTypes, EndsTypes DEF Recheck, Steps
    <2>2. promptMu' \in {promptMu, "free"} /\ UNCHANGED <<emitMu, ghost>>
        BY <1>6 DEF Recheck, Unlocks
    <2> QED BY <1>6, <2>1, <2>2 DEF Recheck, PTypeOK
<1>7. ASSUME NEW r \in Req, Hook(r) PROVE PTypeOK'
    <2>1. Goroutines
        BY <1>7, GoesTypes, EndsTypes DEF Hook, Steps
    <2>2. promptMu' \in {promptMu, "free"} /\ UNCHANGED <<emitMu, ghost>>
        BY <1>7 DEF Hook, Unlocks
    <2>3. Seen
        BY <1>7 DEF Hook, PTypeOK
    <2> QED BY <1>7, <2>1, <2>2, <2>3 DEF Hook, PTypeOK
<1>8. ASSUME NEW r \in Req, Emit(r) PROVE PTypeOK'
    BY <1>8 DEF Emit, Goes, PTypeOK, Steps
<1>9. ASSUME NEW r \in Req, Receive(r) PROVE PTypeOK'
    BY ZenonT(60), <1>9 DEF Receive, Ends, Goes, Unlocks, ResultOf, PTypeOK, Steps, AnswerSet
<1>10. ASSUME NEW r \in Req, GiveUp(r) PROVE PTypeOK'
    <2>1. Goroutines
        BY <1>10, EndsTypes DEF GiveUp
    <2>2. r \notin queued
        BY <1>10 DEF GiveUp, EntriesLive
    <2> QED BY <1>10, <2>1, <2>2 DEF GiveUp, Unlocks, PTypeOK
<1>11. ASSUME NEW r \in Req, PlanWindow(r) PROVE PTypeOK'
    <2>1. Goroutines
        BY <1>11, GoesTypes DEF PlanWindow, Steps
    <2>2. Seen
        BY <1>11 DEF PlanWindow, PTypeOK
    <2>3. window' \in BOOLEAN
        BY <1>11 DEF PlanWindow
    <2> QED BY <1>11, <2>1, <2>2, <2>3 DEF PlanWindow, PTypeOK
<1>12. ASSUME NEW r \in Req, Send(r) \/ \E a \in {"answer", "deny", "once", "session"} : Answer(r, a) PROVE PTypeOK'
    <2>1. CASE Send(r)
        BY <2>1 DEF Send, PTypeOK, AnswerSet
    <2>2. ASSUME NEW a \in {"answer", "deny", "once", "session"}, Answer(r, a) PROVE PTypeOK'
        BY <2>2 DEF Answer, PTypeOK, AnswerSet
    <2> QED BY <1>12, <2>1, <2>2
<1>13. ASSUME NEW r \in Req, NEW s \in Stopper, Skip(r, s) PROVE PTypeOK'
    <2>1. stop' \in [Stopper -> Stops]
        BY SMTT(20), <1>13 DEF Skip, PTypeOK
    <2>2. inhand' \in [Req -> AnswerSet] /\ human' \in [Req -> AnswerSet]
        BY <1>13 DEF Skip, PTypeOK, AnswerSet
    <2> QED BY <1>13, <2>1, <2>2 DEF Skip, PTypeOK
<1>14. ASSUME NEW t \in Turn, StartTurn(t) PROVE PTypeOK'
    BY <1>14 DEF StartTurn, PTypeOK
<1>15. CASE FinishTurn \/ SidecarExits
    BY <1>15 DEF FinishTurn, SidecarExits, PTypeOK
<1>16. ASSUME NEW s \in Stopper, ReadCancel(s) PROVE PTypeOK'
    <2>1. stop' \in [Stopper -> Stops]
        BY SMTT(20), <1>16 DEF ReadCancel, StopAt, PTypeOK
    <2>2. closed' \in BOOLEAN
        BY <1>16 DEF ReadCancel, PTypeOK
    <2> QED BY <1>16, <2>1, <2>2 DEF ReadCancel, PTypeOK
<1>17. ASSUME NEW s \in Stopper, ClearAll(s) PROVE PTypeOK'
    <2>1. stop' \in [Stopper -> Stops]
        BY <1>17 DEF ClearAll, PTypeOK
    <2> QED BY <1>17, <2>1 DEF ClearAll, PTypeOK
<1>18. ASSUME NEW s \in Stopper, CallCancel(s) PROVE PTypeOK'
    <2>1. stop' \in [Stopper -> Stops]
        BY <1>18 DEF CallCancel, PTypeOK
    <2>2. stop[s].turn \in Turn \cup {Sidecar}
        BY <1>18, PromptAssumption DEF CallCancel, StopsHoldTurns, Owner, PTypeOK
    <2> QED BY <1>18, <2>1, <2>2 DEF CallCancel, PTypeOK
<1>19. ASSUME NEW s \in Switcher, NEW m \in Modes, SetMode(s, m) PROVE PTypeOK'
    <2>1. switch' \in [Switcher -> Switches]
        BY <1>19 DEF SetMode, PTypeOK
    <2>2. Seen
        BY <1>19 DEF SetMode, PTypeOK
    <2>3. entries' \subseteq Req /\ queued \subseteq entries'
        BY <1>19 DEF SetMode, PTypeOK, EntriesLive, Drains, Asks
    <2> QED BY <1>19, <2>1, <2>2, <2>3 DEF SetMode, PTypeOK
<1>20. ASSUME NEW s \in Switcher, UpdateGates(s) PROVE PTypeOK'
    <2>1. switch' \in [Switcher -> Switches]
        <3>1. switch[s] \in Switches /\ mode \in Modes /\ switch \in [Switcher -> Switches]
            BY DEF PTypeOK
        <3>2. \E sw \in Switches : switch' = [switch EXCEPT ![s] = sw]
            <4>1. CASE switch' = [switch EXCEPT ![s].at = "sub"]
                BY <3>1, <4>1
            <4>2. CASE switch' = [switch EXCEPT ![s].at = "read", ![s].mode = mode]
                BY <3>1, <4>2
            <4>3. CASE switch' = [switch EXCEPT ![s].at = "send"]
                BY <3>1, <4>3
            <4> QED BY <1>20, <4>1, <4>2, <4>3 DEF UpdateGates
        <3> QED BY <3>1, <3>2
    <2>2. switch[s].mode \in Modes
        BY DEF PTypeOK
    <2>3. {gate', subGate'} \subseteq Modes
        BY <1>20, <2>2 DEF UpdateGates, PTypeOK
    <2> QED BY <1>20, <2>1, <2>3 DEF UpdateGates, PTypeOK
<1>21. ASSUME NEW s \in Switcher, SendDrained(s) PROVE PTypeOK'
    <2>1. switch' \in [Switcher -> Switches]
        BY <1>21 DEF SendDrained, PTypeOK, Modes
    <2>2. reply' \in [Req -> AnswerSet]
        BY <1>21 DEF SendDrained, PTypeOK, AnswerSet
    <2> QED BY <1>21, <2>1, <2>2 DEF SendDrained, PTypeOK
<1>22. ASSUME NEW c \in Client, Attach(c) \/ Detach(c) PROVE PTypeOK'
    <2>1. CASE Attach(c)
        BY <2>1 DEF Attach, PTypeOK
    <2>2. CASE Detach(c)
        BY <2>2 DEF Detach, PTypeOK
    <2> QED BY <1>22, <2>1, <2>2
<1>23. CASE UNCHANGED vars
    BY <1>23 DEF vars, PTypeOK
<1> QED
    BY <1>1, <1>2, <1>3, <1>4, <1>5, <1>6, <1>7, <1>8, <1>9, <1>10, <1>11, <1>12, <1>13, <1>14,
       <1>15, <1>16, <1>17, <1>18, <1>19, <1>20, <1>21, <1>22, <1>23
    DEF Next, RequestStep, StopStep, SwitchStep

(***************************************************************************)
(* A lock is taken when it is free and given back by who holds it.         *)
(***************************************************************************)
LEMMA LocksNext == PTypeOK /\ LocksHeld /\ [Next]_vars => LocksHeld'
<1> SUFFICES ASSUME PTypeOK, LocksHeld, [Next]_vars PROVE LocksHeld'
    OBVIOUS
<1> USE PromptAssumption DEF LocksHeld, PTypeOK, posture, locks, answers, lives, views
<1>1. ASSUME NEW r \in Req, Begin(r) PROVE LocksHeld'
    BY <1>1 DEF Begin, Ends, Goes, Arrival
<1>2. ASSUME NEW r \in Req, Check(r) PROVE LocksHeld'
    BY <1>2 DEF Check, Ends, Goes
<1>3. ASSUME NEW r \in Req, Review(r) PROVE LocksHeld'
    BY <1>3 DEF Review, Ends, Goes
<1>4. ASSUME NEW r \in Req, Lock(r) PROVE LocksHeld'
    BY <1>4 DEF Lock, Goes
<1>5. ASSUME NEW r \in Req, LeaveQueue(r) PROVE LocksHeld'
    BY <1>5 DEF LeaveQueue, Ends
<1>6. ASSUME NEW r \in Req, Recheck(r) PROVE LocksHeld'
    BY <1>6 DEF Recheck, Ends, Goes, Unlocks
<1>7. ASSUME NEW r \in Req, Hook(r) PROVE LocksHeld'
    BY <1>7 DEF Hook, Ends, Goes, Unlocks
<1>8. ASSUME NEW r \in Req, Register(r) PROVE LocksHeld'
    BY <1>8 DEF Register, Goes
<1>9. ASSUME NEW r \in Req, Emit(r) PROVE LocksHeld'
    BY <1>9 DEF Emit, Goes
<1>10. ASSUME NEW r \in Req, Receive(r) PROVE LocksHeld'
    BY <1>10 DEF Receive, Ends, Goes, Unlocks
<1>11. ASSUME NEW r \in Req, RecordGrant(r) PROVE LocksHeld'
    BY <1>11 DEF RecordGrant, Ends
<1>12. ASSUME NEW r \in Req, GiveUp(r) PROVE LocksHeld'
    BY <1>12 DEF GiveUp, Ends, Unlocks
<1>13. ASSUME NEW r \in Req, PlanWindow(r) PROVE LocksHeld'
    BY <1>13 DEF PlanWindow, Goes
<1>14. ASSUME UNCHANGED <<pc, promptMu, emitMu>> PROVE LocksHeld'
    BY <1>14
<1>15. ASSUME NEW r \in Req, AbandonedLock(r) \/ Send(r) PROVE LocksHeld'
    BY <1>15, <1>14 DEF AbandonedLock, Send
<1>16. ASSUME NEW r \in Req, NEW a \in {"answer", "deny", "once", "session"}, Answer(r, a) PROVE LocksHeld'
    BY <1>16, <1>14 DEF Answer
<1>17. ASSUME NEW r \in Req, NEW s \in Stopper, Skip(r, s) PROVE LocksHeld'
    BY <1>17, <1>14 DEF Skip
<1>18. ASSUME NEW t \in Turn, StartTurn(t) PROVE LocksHeld'
    BY <1>18, <1>14 DEF StartTurn
<1>19. CASE FinishTurn \/ SidecarExits
    BY <1>19, <1>14 DEF FinishTurn, SidecarExits
<1>20. ASSUME NEW s \in Stopper, ReadCancel(s) \/ ClearAll(s) \/ CallCancel(s) PROVE LocksHeld'
    BY <1>20, <1>14 DEF ReadCancel, ClearAll, CallCancel
<1>21. ASSUME NEW s \in Switcher, NEW m \in Modes, SetMode(s, m) PROVE LocksHeld'
    BY <1>21, <1>14 DEF SetMode
<1>22. ASSUME NEW s \in Switcher, UpdateGates(s) \/ SendDrained(s) PROVE LocksHeld'
    BY <1>22, <1>14 DEF UpdateGates, SendDrained
<1>23. ASSUME NEW c \in Client, Attach(c) \/ Detach(c) PROVE LocksHeld'
    BY <1>23, <1>14 DEF Attach, Detach
<1>24. CASE UNCHANGED vars
    BY <1>24, <1>14 DEF vars
<1> QED
    BY <1>1, <1>2, <1>3, <1>4, <1>5, <1>6, <1>7, <1>8, <1>9, <1>10, <1>11, <1>12, <1>13, <1>15,
       <1>16, <1>17, <1>18, <1>19, <1>20, <1>21, <1>22, <1>23, <1>24
    DEF Next, RequestStep, StopStep, SwitchStep

(***************************************************************************)
(* Who gets an entry blocks on it, and leaves it only without one: a reply *)
(* is there only for who has no entry any more.                            *)
(***************************************************************************)
LEMMA EntriesNext == PTypeOK /\ EntriesLive /\ SettledOnce /\ [Next]_vars => EntriesLive'
<1> SUFFICES ASSUME PTypeOK, EntriesLive, SettledOnce, [Next]_vars PROVE EntriesLive'
    OBVIOUS
<1> USE DEF EntriesLive, PTypeOK, posture, locks, answers, lives, views, Class, Asks, Owner
<1>1. ASSUME NEW r \in Req, Begin(r) PROVE EntriesLive'
    BY <1>1 DEF Begin, Ends, Goes, Arrival
<1>2. ASSUME NEW r \in Req, Check(r) PROVE EntriesLive'
    BY <1>2 DEF Check, Ends, Goes
<1>3. ASSUME NEW r \in Req, Review(r) PROVE EntriesLive'
    BY <1>3 DEF Review, Ends, Goes
<1>4. ASSUME NEW r \in Req, Lock(r) PROVE EntriesLive'
    BY <1>4 DEF Lock, Goes
<1>5. ASSUME NEW r \in Req, LeaveQueue(r) PROVE EntriesLive'
    BY <1>5 DEF LeaveQueue, Ends
<1>6. ASSUME NEW r \in Req, Recheck(r) PROVE EntriesLive'
    BY <1>6 DEF Recheck, Ends, Goes, Unlocks
<1>7. ASSUME NEW r \in Req, Hook(r) PROVE EntriesLive'
    <2>1. r \notin entries /\ \E x \in {"register", "done", "approved"} : pc' = [pc EXCEPT ![r] = x]
        BY <1>7 DEF Hook, Ends, Goes
    <2> QED BY <1>7, <2>1 DEF Hook
<1>8. ASSUME NEW r \in Req, Register(r) PROVE EntriesLive'
    BY <1>8 DEF Register, Goes
<1>9. ASSUME NEW r \in Req, Emit(r) PROVE EntriesLive'
    BY <1>9 DEF Emit, Goes
<1>10. ASSUME NEW r \in Req, Receive(r) PROVE EntriesLive'
    <2>1. \E x \in {"grant", "done", "approved"} : pc' = [pc EXCEPT ![r] = x]
        BY <1>10 DEF Receive, Ends, Goes
    <2>2. r \notin entries /\ pc[r] = "wait"
        BY <1>10 DEF Receive, SettledOnce, Settled
    <2> QED BY <1>10, <2>1, <2>2 DEF Receive
<1>11. ASSUME NEW r \in Req, RecordGrant(r) PROVE EntriesLive'
    BY <1>11 DEF RecordGrant, Ends
<1>12. ASSUME NEW r \in Req, GiveUp(r) PROVE EntriesLive'
    BY <1>12 DEF GiveUp, Ends, Unlocks
<1>13. ASSUME NEW r \in Req, PlanWindow(r) PROVE EntriesLive'
    BY ZenonT(60), <1>13 DEF PlanWindow, Goes
<1>14. ASSUME NEW r \in Req, NEW a \in {"answer", "deny", "once", "session"}, Answer(r, a) PROVE EntriesLive'
    BY <1>14 DEF Answer, OnScreen
<1>15. ASSUME NEW r \in Req, NEW s \in Stopper, Skip(r, s) PROVE EntriesLive'
    BY <1>15 DEF Skip, OnScreen
<1>16. ASSUME NEW s \in Stopper, ClearAll(s) PROVE EntriesLive'
    BY <1>16 DEF ClearAll
<1>17. ASSUME NEW s \in Switcher, NEW m \in Modes, SetMode(s, m) PROVE EntriesLive'
    BY <1>17 DEF SetMode, Drains
<1>18. ASSUME UNCHANGED <<world, pc, entries, queued>> PROVE EntriesLive'
    BY <1>18
<1>19. ASSUME NEW r \in Req, AbandonedLock(r) \/ Send(r) PROVE EntriesLive'
    BY <1>19, <1>18 DEF AbandonedLock, Send
<1>20. ASSUME NEW t \in Turn, StartTurn(t) PROVE EntriesLive'
    BY <1>20, <1>18 DEF StartTurn
<1>21. CASE FinishTurn \/ SidecarExits
    BY <1>21, <1>18 DEF FinishTurn, SidecarExits
<1>22. ASSUME NEW s \in Stopper, ReadCancel(s) \/ CallCancel(s) PROVE EntriesLive'
    BY <1>22, <1>18 DEF ReadCancel, CallCancel
<1>23. ASSUME NEW s \in Switcher, UpdateGates(s) \/ SendDrained(s) PROVE EntriesLive'
    BY <1>23, <1>18 DEF UpdateGates, SendDrained
<1>24. ASSUME NEW c \in Client, Attach(c) \/ Detach(c) PROVE EntriesLive'
    BY <1>24, <1>18 DEF Attach, Detach
<1>25. CASE UNCHANGED vars
    BY <1>25, <1>18 DEF vars
<1> QED
    BY <1>1, <1>2, <1>3, <1>4, <1>5, <1>6, <1>7, <1>8, <1>9, <1>10, <1>11, <1>12, <1>13, <1>14,
       <1>15, <1>16, <1>17, <1>19, <1>20, <1>21, <1>22, <1>23, <1>24, <1>25
    DEF Next, RequestStep, StopStep, SwitchStep

(***************************************************************************)
(* Updating the gates leaves what a switch took out of the map alone.      *)
(***************************************************************************)
LEMMA GatesKeepDrained ==
    ASSUME PTypeOK, NEW s \in Switcher, UpdateGates(s)
    PROVE  \A x \in Switcher : switch'[x].drained = switch[x].drained
<1> USE DEF PTypeOK
<1>1. CASE switch' = [switch EXCEPT ![s].at = "sub"]
    BY <1>1
<1>2. CASE switch' = [switch EXCEPT ![s].at = "read", ![s].mode = mode]
    BY <1>2
<1>3. CASE switch' = [switch EXCEPT ![s].at = "send"]
    BY <1>3
<1> QED BY <1>1, <1>2, <1>3 DEF UpdateGates

(***************************************************************************)
(* Nothing is settled twice: an answer takes the entry out, and only what  *)
(* was not registered yet gets one.                                        *)
(***************************************************************************)
LEMMA SettledNext == PTypeOK /\ EntriesLive /\ SettledOnce /\ [Next]_vars => SettledOnce'
<1> SUFFICES ASSUME PTypeOK, EntriesLive, SettledOnce, [Next]_vars PROVE SettledOnce'
    OBVIOUS
<1> USE DEF SettledOnce, Settled, PTypeOK, posture, locks, answers, lives, views, Class, Asks, Owner
<1>1. ASSUME NEW r \in Req, Begin(r) PROVE SettledOnce'
    BY <1>1 DEF Begin, Ends, Goes, Arrival
<1>2. ASSUME NEW r \in Req, Check(r) PROVE SettledOnce'
    BY <1>2 DEF Check, Ends, Goes
<1>3. ASSUME NEW r \in Req, Review(r) PROVE SettledOnce'
    BY <1>3 DEF Review, Ends, Goes
<1>4. ASSUME NEW r \in Req, Lock(r) PROVE SettledOnce'
    BY <1>4 DEF Lock, Goes
<1>5. ASSUME NEW r \in Req, LeaveQueue(r) PROVE SettledOnce'
    BY <1>5 DEF LeaveQueue, Ends
<1>6. ASSUME NEW r \in Req, Recheck(r) PROVE SettledOnce'
    BY <1>6 DEF Recheck, Ends, Goes, Unlocks
<1>7. ASSUME NEW r \in Req, Hook(r) PROVE SettledOnce'
    BY <1>7 DEF Hook, Ends, Goes, Unlocks
<1>8. ASSUME NEW r \in Req, Register(r) PROVE SettledOnce'
    BY <1>8 DEF Register, Goes
<1>9. ASSUME NEW r \in Req, Emit(r) PROVE SettledOnce'
    BY <1>9 DEF Emit, Goes
<1>10. ASSUME NEW r \in Req, Receive(r) PROVE SettledOnce'
    BY <1>10 DEF Receive, Ends, Goes, Unlocks
<1>11. ASSUME NEW r \in Req, RecordGrant(r) PROVE SettledOnce'
    BY <1>11 DEF RecordGrant, Ends
<1>12. ASSUME NEW r \in Req, GiveUp(r) PROVE SettledOnce'
    BY <1>12 DEF GiveUp, Ends, Unlocks, EntriesLive
<1>13. ASSUME NEW r \in Req, PlanWindow(r) PROVE SettledOnce'
    BY <1>13 DEF PlanWindow, Goes
<1>14. ASSUME NEW r \in Req, Send(r) PROVE SettledOnce'
    BY <1>14 DEF Send
<1>15. ASSUME NEW r \in Req, NEW a \in {"answer", "deny", "once", "session"}, Answer(r, a) PROVE SettledOnce'
    BY <1>15 DEF Answer, OnScreen, EntriesLive
<1>16. ASSUME NEW r \in Req, NEW s \in Stopper, Skip(r, s) PROVE SettledOnce'
    BY <1>16 DEF Skip, OnScreen, EntriesLive
<1>17. ASSUME NEW s \in Stopper, ClearAll(s) PROVE SettledOnce'
    BY <1>17 DEF ClearAll, EntriesLive
<1>18. ASSUME NEW s \in Switcher, NEW m \in Modes, SetMode(s, m) PROVE SettledOnce'
    BY <1>18 DEF SetMode, EntriesLive
<1>19. ASSUME NEW s \in Switcher, UpdateGates(s) PROVE SettledOnce'
    <2>1. \A x \in Switcher : switch'[x].drained = switch[x].drained
        BY <1>19, GatesKeepDrained
    <2>2. UNCHANGED <<world, pc, entries, inhand, reply, human>>
        BY <1>19 DEF UpdateGates
    <2> QED BY <2>1, <2>2
<1>20. ASSUME NEW s \in Switcher, SendDrained(s) PROVE SettledOnce'
    BY <1>20 DEF SendDrained
<1>21. ASSUME UNCHANGED <<world, pc, entries, inhand, reply, human, switch>> PROVE SettledOnce'
    BY <1>21
<1>22. ASSUME NEW r \in Req, AbandonedLock(r) PROVE SettledOnce'
    BY <1>22, <1>21 DEF AbandonedLock
<1>23. ASSUME NEW t \in Turn, StartTurn(t) PROVE SettledOnce'
    BY <1>23, <1>21 DEF StartTurn
<1>24. CASE FinishTurn \/ SidecarExits
    BY <1>24, <1>21 DEF FinishTurn, SidecarExits
<1>25. ASSUME NEW s \in Stopper, ReadCancel(s) \/ CallCancel(s) PROVE SettledOnce'
    BY <1>25, <1>21 DEF ReadCancel, CallCancel
<1>26. ASSUME NEW c \in Client, Attach(c) \/ Detach(c) PROVE SettledOnce'
    BY <1>26, <1>21 DEF Attach, Detach
<1>27. CASE UNCHANGED vars
    BY <1>27, <1>21 DEF vars
<1> QED
    BY <1>1, <1>2, <1>3, <1>4, <1>5, <1>6, <1>7, <1>8, <1>9, <1>10, <1>11, <1>12, <1>13, <1>14,
       <1>15, <1>16, <1>17, <1>18, <1>19, <1>20, <1>22, <1>23, <1>24, <1>25, <1>26, <1>27
    DEF Next, RequestStep, StopStep, SwitchStep

(***************************************************************************)
(* A stream joins while no prompt is between its registration and its      *)
(* event, so it is sent each prompt by one of the two.                     *)
(***************************************************************************)
LEMMA CardsNext == PTypeOK /\ LocksHeld /\ EntriesLive /\ CardsCounted /\ [Next]_vars => CardsCounted'
<1> SUFFICES ASSUME PTypeOK, LocksHeld, EntriesLive, CardsCounted, [Next]_vars PROVE CardsCounted'
    OBVIOUS
<1> USE DEF CardsCounted, PTypeOK, posture, locks, answers, lives, views, Class, Asks, Owner
<1>1. ASSUME NEW r \in Req, Begin(r) PROVE CardsCounted'
    BY <1>1 DEF Begin, Ends, Goes, Arrival
<1>2. ASSUME NEW r \in Req, Check(r) PROVE CardsCounted'
    BY <1>2 DEF Check, Ends, Goes
<1>3. ASSUME NEW r \in Req, Review(r) PROVE CardsCounted'
    BY <1>3 DEF Review, Ends, Goes
<1>4. ASSUME NEW r \in Req, Lock(r) PROVE CardsCounted'
    BY <1>4 DEF Lock, Goes
<1>5. ASSUME NEW r \in Req, LeaveQueue(r) PROVE CardsCounted'
    BY <1>5 DEF LeaveQueue, Ends
<1>6. ASSUME NEW r \in Req, Recheck(r) PROVE CardsCounted'
    BY <1>6 DEF Recheck, Ends, Goes, Unlocks
<1>7. ASSUME NEW r \in Req, Hook(r) PROVE CardsCounted'
    BY <1>7 DEF Hook, Ends, Goes, Unlocks
<1>8. ASSUME NEW r \in Req, Register(r) PROVE CardsCounted'
    BY <1>8 DEF Register, Goes, EntriesLive
<1>9. ASSUME NEW r \in Req, Emit(r) PROVE CardsCounted'
    BY <1>9 DEF Emit, Goes
<1>10. ASSUME NEW r \in Req, Receive(r) PROVE CardsCounted'
    BY <1>10 DEF Receive, Ends, Goes, Unlocks
<1>11. ASSUME NEW r \in Req, RecordGrant(r) PROVE CardsCounted'
    BY <1>11 DEF RecordGrant, Ends
<1>12. ASSUME NEW r \in Req, GiveUp(r) PROVE CardsCounted'
    BY <1>12 DEF GiveUp, Ends, Unlocks
<1>13. ASSUME NEW r \in Req, PlanWindow(r) PROVE CardsCounted'
    BY <1>13 DEF PlanWindow, Goes
<1>14. ASSUME NEW r \in Req, NEW a \in {"answer", "deny", "once", "session"}, Answer(r, a) PROVE CardsCounted'
    BY <1>14 DEF Answer, OnScreen
<1>15. ASSUME NEW r \in Req, NEW s \in Stopper, Skip(r, s) PROVE CardsCounted'
    BY <1>15 DEF Skip, OnScreen
<1>16. ASSUME NEW s \in Stopper, ClearAll(s) PROVE CardsCounted'
    BY <1>16 DEF ClearAll
<1>17. ASSUME NEW s \in Switcher, NEW m \in Modes, SetMode(s, m) PROVE CardsCounted'
    BY <1>17 DEF SetMode
<1>18. ASSUME NEW c \in Client, Attach(c) PROVE CardsCounted'
    BY <1>18, PromptAssumption DEF Attach, EntriesLive, LocksHeld
<1>19. ASSUME NEW c \in Client, Detach(c) PROVE CardsCounted'
    BY <1>19 DEF Detach
<1>20. ASSUME UNCHANGED <<world, pc, entries, attached, cards>> PROVE CardsCounted'
    BY <1>20
<1>21. ASSUME NEW r \in Req, AbandonedLock(r) \/ Send(r) PROVE CardsCounted'
    BY <1>21, <1>20 DEF AbandonedLock, Send
<1>22. ASSUME NEW t \in Turn, StartTurn(t) PROVE CardsCounted'
    BY <1>22, <1>20 DEF StartTurn
<1>23. CASE FinishTurn \/ SidecarExits
    BY <1>23, <1>20 DEF FinishTurn, SidecarExits
<1>24. ASSUME NEW s \in Stopper, ReadCancel(s) \/ CallCancel(s) PROVE CardsCounted'
    BY <1>24, <1>20 DEF ReadCancel, CallCancel
<1>25. ASSUME NEW s \in Switcher, UpdateGates(s) \/ SendDrained(s) PROVE CardsCounted'
    BY <1>25, <1>20 DEF UpdateGates, SendDrained
<1>26. CASE UNCHANGED vars
    BY <1>26, <1>20 DEF vars
<1> QED
    BY <1>1, <1>2, <1>3, <1>4, <1>5, <1>6, <1>7, <1>8, <1>9, <1>10, <1>11, <1>12, <1>13, <1>14,
       <1>15, <1>16, <1>17, <1>18, <1>19, <1>21, <1>22, <1>23, <1>24, <1>25, <1>26
    DEF Next, RequestStep, StopStep, SwitchStep

(***************************************************************************)
(* Every change of the posture reaches the record of each request under    *)
(* way, and a request starts with the posture of its start.                *)
(***************************************************************************)
LEMMA SeenNext == PTypeOK /\ SeenTracks /\ [Next]_vars => SeenTracks'
<1> SUFFICES ASSUME PTypeOK, SeenTracks, [Next]_vars PROVE SeenTracks'
    OBVIOUS
<1> USE DEF SeenTracks, Running, PTypeOK, posture, locks, answers, lives, views, Class, Asks, Owner
<1>1. ASSUME NEW r \in Req, Begin(r) PROVE SeenTracks'
    BY <1>1 DEF Begin, Ends, Goes, Arrival
<1>2. ASSUME NEW r \in Req, Check(r) PROVE SeenTracks'
    BY <1>2 DEF Check, Ends, Goes
<1>3. ASSUME NEW r \in Req, Review(r) PROVE SeenTracks'
    BY <1>3 DEF Review, Ends, Goes
<1>4. ASSUME NEW r \in Req, Lock(r) PROVE SeenTracks'
    BY <1>4 DEF Lock, Goes
<1>5. ASSUME NEW r \in Req, LeaveQueue(r) PROVE SeenTracks'
    BY <1>5 DEF LeaveQueue, Ends
<1>6. ASSUME NEW r \in Req, Recheck(r) PROVE SeenTracks'
    BY <1>6 DEF Recheck, Ends, Goes, Unlocks
<1>7. ASSUME NEW r \in Req, Hook(r) PROVE SeenTracks'
    BY <1>7 DEF Hook, Ends, Goes, Unlocks
<1>8. ASSUME NEW r \in Req, Register(r) PROVE SeenTracks'
    BY <1>8 DEF Register, Goes
<1>9. ASSUME NEW r \in Req, Emit(r) PROVE SeenTracks'
    BY <1>9 DEF Emit, Goes
<1>10. ASSUME NEW r \in Req, Receive(r) PROVE SeenTracks'
    BY <1>10 DEF Receive, Ends, Goes, Unlocks
<1>11. ASSUME NEW r \in Req, RecordGrant(r) PROVE SeenTracks'
    BY <1>11 DEF RecordGrant, Ends
<1>12. ASSUME NEW r \in Req, GiveUp(r) PROVE SeenTracks'
    BY <1>12 DEF GiveUp, Ends, Unlocks
<1>13. ASSUME NEW r \in Req, PlanWindow(r) PROVE SeenTracks'
    BY <1>13 DEF PlanWindow, Goes
<1>14. ASSUME NEW s \in Switcher, NEW m \in Modes, SetMode(s, m) PROVE SeenTracks'
    BY <1>14 DEF SetMode
<1>15. ASSUME UNCHANGED <<mode, window, pc, seen>> PROVE SeenTracks'
    BY <1>15
<1>16. ASSUME NEW r \in Req, AbandonedLock(r) \/ Send(r) PROVE SeenTracks'
    BY <1>16, <1>15 DEF AbandonedLock, Send
<1>17. ASSUME NEW r \in Req, NEW a \in {"answer", "deny", "once", "session"}, Answer(r, a) PROVE SeenTracks'
    BY <1>17, <1>15 DEF Answer
<1>18. ASSUME NEW r \in Req, NEW s \in Stopper, Skip(r, s) PROVE SeenTracks'
    BY <1>18, <1>15 DEF Skip
<1>19. ASSUME NEW t \in Turn, StartTurn(t) PROVE SeenTracks'
    BY <1>19, <1>15 DEF StartTurn
<1>20. CASE FinishTurn \/ SidecarExits
    BY <1>20, <1>15 DEF FinishTurn, SidecarExits
<1>21. ASSUME NEW s \in Stopper, ReadCancel(s) \/ ClearAll(s) \/ CallCancel(s) PROVE SeenTracks'
    BY <1>21, <1>15 DEF ReadCancel, ClearAll, CallCancel
<1>22. ASSUME NEW s \in Switcher, UpdateGates(s) \/ SendDrained(s) PROVE SeenTracks'
    BY <1>22, <1>15 DEF UpdateGates, SendDrained
<1>23. ASSUME NEW c \in Client, Attach(c) \/ Detach(c) PROVE SeenTracks'
    BY <1>23, <1>15 DEF Attach, Detach
<1>24. CASE UNCHANGED vars
    BY <1>24, <1>15 DEF vars
<1> QED
    BY <1>1, <1>2, <1>3, <1>4, <1>5, <1>6, <1>7, <1>8, <1>9, <1>10, <1>11, <1>12, <1>13, <1>14,
       <1>16, <1>17, <1>18, <1>19, <1>20, <1>21, <1>22, <1>23, <1>24
    DEF Next, RequestStep, StopStep, SwitchStep

(***************************************************************************)
(* A turn ends when nothing runs for it, and a Stop reads the turn there   *)
(* is.                                                                     *)
(***************************************************************************)
LEMMA StopsNext == PTypeOK /\ StopsHoldTurns /\ [Next]_vars => StopsHoldTurns'
<1> SUFFICES ASSUME PTypeOK, StopsHoldTurns, [Next]_vars PROVE StopsHoldTurns'
    OBVIOUS
<1> USE DEF StopsHoldTurns, Running, PTypeOK, posture, locks, answers, lives, views, Class, Asks, Owner
<1>1. ASSUME NEW r \in Req, Begin(r) PROVE StopsHoldTurns'
    BY <1>1 DEF Begin, Ends, Goes, Arrival
<1>2. ASSUME NEW r \in Req, Check(r) PROVE StopsHoldTurns'
    BY <1>2 DEF Check, Ends, Goes
<1>3. ASSUME NEW r \in Req, Review(r) PROVE StopsHoldTurns'
    BY <1>3 DEF Review, Ends, Goes
<1>4. ASSUME NEW r \in Req, Lock(r) PROVE StopsHoldTurns'
    BY <1>4 DEF Lock, Goes
<1>5. ASSUME NEW r \in Req, LeaveQueue(r) PROVE StopsHoldTurns'
    BY <1>5 DEF LeaveQueue, Ends
<1>6. ASSUME NEW r \in Req, Recheck(r) PROVE StopsHoldTurns'
    BY <1>6 DEF Recheck, Ends, Goes, Unlocks
<1>7. ASSUME NEW r \in Req, Hook(r) PROVE StopsHoldTurns'
    BY <1>7 DEF Hook, Ends, Goes, Unlocks
<1>8. ASSUME NEW r \in Req, Register(r) PROVE StopsHoldTurns'
    BY <1>8 DEF Register, Goes
<1>9. ASSUME NEW r \in Req, Emit(r) PROVE StopsHoldTurns'
    BY <1>9 DEF Emit, Goes
<1>10. ASSUME NEW r \in Req, Receive(r) PROVE StopsHoldTurns'
    BY <1>10 DEF Receive, Ends, Goes, Unlocks
<1>11. ASSUME NEW r \in Req, RecordGrant(r) PROVE StopsHoldTurns'
    BY <1>11 DEF RecordGrant, Ends
<1>12. ASSUME NEW r \in Req, GiveUp(r) PROVE StopsHoldTurns'
    BY <1>12 DEF GiveUp, Ends, Unlocks
<1>13. ASSUME NEW r \in Req, PlanWindow(r) PROVE StopsHoldTurns'
    BY <1>13 DEF PlanWindow, Goes
<1>14. ASSUME NEW r \in Req, NEW s \in Stopper, Skip(r, s) PROVE StopsHoldTurns'
    <2>1. \A x \in Stopper : stop'[x] = stop[x] \/ stop'[x].at = "pressed"
        BY <1>14 DEF Skip
    <2> QED BY SMTT(20), <1>14, <2>1 DEF Skip
<1>15. ASSUME NEW t \in Turn, StartTurn(t) PROVE StopsHoldTurns'
    <2>1. \A r \in Req : Running(r) => Owner(r) = Sidecar
        BY <1>15, PromptAssumption DEF StartTurn
    <2> QED BY <1>15, <2>1 DEF StartTurn
<1>16. CASE FinishTurn
    BY <1>16 DEF FinishTurn
<1>17. ASSUME NEW s \in Stopper, ReadCancel(s) PROVE StopsHoldTurns'
    BY <1>17 DEF ReadCancel, StopAt
<1>18. ASSUME NEW s \in Stopper, ClearAll(s) PROVE StopsHoldTurns'
    BY <1>18 DEF ClearAll
<1>19. ASSUME NEW s \in Stopper, CallCancel(s) PROVE StopsHoldTurns'
    BY <1>19 DEF CallCancel
<1>20. ASSUME UNCHANGED <<world, turn, pc, stop>> PROVE StopsHoldTurns'
    BY <1>20
<1>21. ASSUME NEW r \in Req, AbandonedLock(r) \/ Send(r) PROVE StopsHoldTurns'
    BY <1>21, <1>20 DEF AbandonedLock, Send
<1>22. ASSUME NEW r \in Req, NEW a \in {"answer", "deny", "once", "session"}, Answer(r, a) PROVE StopsHoldTurns'
    BY <1>22, <1>20 DEF Answer
<1>23. CASE SidecarExits
    BY <1>23, <1>20 DEF SidecarExits
<1>24. ASSUME NEW s \in Switcher, NEW m \in Modes, SetMode(s, m) PROVE StopsHoldTurns'
    BY <1>24, <1>20 DEF SetMode
<1>25. ASSUME NEW s \in Switcher, UpdateGates(s) \/ SendDrained(s) PROVE StopsHoldTurns'
    BY <1>25, <1>20 DEF UpdateGates, SendDrained
<1>26. ASSUME NEW c \in Client, Attach(c) \/ Detach(c) PROVE StopsHoldTurns'
    BY <1>26, <1>20 DEF Attach, Detach
<1>27. CASE UNCHANGED vars
    BY <1>27, <1>20 DEF vars
<1> QED
    BY <1>1, <1>2, <1>3, <1>4, <1>5, <1>6, <1>7, <1>8, <1>9, <1>10, <1>11, <1>12, <1>13, <1>14,
       <1>15, <1>16, <1>17, <1>18, <1>19, <1>21, <1>22, <1>23, <1>24, <1>25, <1>26, <1>27
    DEF Next, RequestStep, StopStep, SwitchStep

(***************************************************************************)
(* Arrival sends what the manager does not pre-approve to the queue.       *)
(***************************************************************************)
LEMMA RoutedNext == PTypeOK /\ Routed /\ [Next]_vars => Routed'
<1> SUFFICES ASSUME PTypeOK, Routed, [Next]_vars PROVE Routed'
    OBVIOUS
<1> USE DEF Routed, PTypeOK, posture, locks, answers, lives, views, Class, Asks, Owner
<1>1. ASSUME NEW r \in Req, Begin(r) PROVE Routed'
    BY <1>1 DEF Begin, Ends, Goes, Arrival
<1>2. ASSUME NEW r \in Req, Check(r) PROVE Routed'
    BY <1>2 DEF Check, Ends, Goes
<1>3. ASSUME NEW r \in Req, Review(r) PROVE Routed'
    BY <1>3 DEF Review, Ends, Goes
<1>4. ASSUME NEW r \in Req, Lock(r) PROVE Routed'
    BY <1>4 DEF Lock, Goes
<1>5. ASSUME NEW r \in Req, LeaveQueue(r) PROVE Routed'
    BY <1>5 DEF LeaveQueue, Ends
<1>6. ASSUME NEW r \in Req, Recheck(r) PROVE Routed'
    BY <1>6 DEF Recheck, Ends, Goes, Unlocks
<1>7. ASSUME NEW r \in Req, Hook(r) PROVE Routed'
    BY <1>7 DEF Hook, Ends, Goes, Unlocks
<1>8. ASSUME NEW r \in Req, Register(r) PROVE Routed'
    BY <1>8 DEF Register, Goes
<1>9. ASSUME NEW r \in Req, Emit(r) PROVE Routed'
    BY <1>9 DEF Emit, Goes
<1>10. ASSUME NEW r \in Req, Receive(r) PROVE Routed'
    BY <1>10 DEF Receive, Ends, Goes, Unlocks
<1>11. ASSUME NEW r \in Req, RecordGrant(r) PROVE Routed'
    BY <1>11 DEF RecordGrant, Ends
<1>12. ASSUME NEW r \in Req, GiveUp(r) PROVE Routed'
    BY <1>12 DEF GiveUp, Ends, Unlocks
<1>13. ASSUME NEW r \in Req, PlanWindow(r) PROVE Routed'
    BY <1>13 DEF PlanWindow, Goes
<1>14. ASSUME UNCHANGED <<world, pc>> PROVE Routed'
    BY <1>14
<1>15. ASSUME NEW r \in Req, AbandonedLock(r) \/ Send(r) PROVE Routed'
    BY <1>15, <1>14 DEF AbandonedLock, Send
<1>16. ASSUME NEW r \in Req, NEW a \in {"answer", "deny", "once", "session"}, Answer(r, a) PROVE Routed'
    BY <1>16, <1>14 DEF Answer
<1>17. ASSUME NEW r \in Req, NEW s \in Stopper, Skip(r, s) PROVE Routed'
    BY <1>17, <1>14 DEF Skip
<1>18. ASSUME NEW t \in Turn, StartTurn(t) PROVE Routed'
    BY <1>18, <1>14 DEF StartTurn
<1>19. CASE FinishTurn \/ SidecarExits
    BY <1>19, <1>14 DEF FinishTurn, SidecarExits
<1>20. ASSUME NEW s \in Stopper, ReadCancel(s) \/ ClearAll(s) \/ CallCancel(s) PROVE Routed'
    BY <1>20, <1>14 DEF ReadCancel, ClearAll, CallCancel
<1>21. ASSUME NEW s \in Switcher, NEW m \in Modes, SetMode(s, m) PROVE Routed'
    BY <1>21, <1>14 DEF SetMode
<1>22. ASSUME NEW s \in Switcher, UpdateGates(s) \/ SendDrained(s) PROVE Routed'
    BY <1>22, <1>14 DEF UpdateGates, SendDrained
<1>23. ASSUME NEW c \in Client, Attach(c) \/ Detach(c) PROVE Routed'
    BY <1>23, <1>14 DEF Attach, Detach
<1>24. CASE UNCHANGED vars
    BY <1>24, <1>14 DEF vars
<1> QED
    BY <1>1, <1>2, <1>3, <1>4, <1>5, <1>6, <1>7, <1>8, <1>9, <1>10, <1>11, <1>12, <1>13, <1>15,
       <1>16, <1>17, <1>18, <1>19, <1>20, <1>21, <1>22, <1>23, <1>24
    DEF Next, RequestStep, StopStep, SwitchStep

(***************************************************************************)
(* What a posture may allow it may still allow when more was seen.         *)
(***************************************************************************)
LEMMA SeenGrows ==
    ASSUME NEW r \in Req, world' = world, seen[r] \subseteq seen'[r], PostureAllows(r)
    PROVE  PostureAllows(r)'
PROOF
    BY DEF PostureAllows, Class

(***************************************************************************)
(* An answer is the person's, or a switch's that may allow the call while  *)
(* the call is under way; a grant follows a person's answer.               *)
(***************************************************************************)
LEMMA AnswersNext == PTypeOK /\ EntriesLive /\ Routed /\ SettledOnce /\ SeenTracks /\ AnswersJustified /\ [Next]_vars => AnswersJustified'
<1> SUFFICES ASSUME PTypeOK, EntriesLive, Routed, SettledOnce, SeenTracks, AnswersJustified, [Next]_vars PROVE AnswersJustified'
    OBVIOUS
<1> USE DEF AnswersJustified, Scope, PTypeOK, posture, locks, answers, lives, views, Class, Asks, Owner
<1>1. ASSUME NEW r \in Req, Begin(r) PROVE AnswersJustified'
    <2>1. pc[r] = "idle" /\ ~Settled(r)
        BY <1>1 DEF Begin, SettledOnce
    <2>2. \E x \in Steps \ {"idle", "grant"} : pc' = [pc EXCEPT ![r] = x]
        BY <1>1 DEF Begin, Ends, Goes, Steps
    <2>3. \A o \in Req : o # r => outcome'[o] = outcome[o]
        BY <1>1 DEF Begin, Ends, Goes
    <2>4. UNCHANGED <<world, inhand, reply, human, switch, grants>>
        BY <1>1 DEF Begin
    <2>5. \A o \in Req : o # r => seen'[o] = seen[o]
        BY <1>1 DEF Begin
    <2>6. ~(r \in UNION {switch[s].drained : s \in Switcher}) /\ inhand[r] = "none" /\ reply[r] = "none"
        BY <2>1 DEF Settled
    <2>7. \A o \in Req : PostureAllows(o) /\ o # r => PostureAllows(o)'
        BY <2>4, <2>5, SeenGrows
    <2> QED BY <2>1, <2>2, <2>3, <2>4, <2>6, <2>7
<1>2. ASSUME NEW r \in Req, Check(r) PROVE AnswersJustified'
    BY <1>2 DEF Check, Ends, Goes, PostureAllows
<1>3. ASSUME NEW r \in Req, Review(r) PROVE AnswersJustified'
    <2>1. \A o \in Req : seen[o] \subseteq seen'[o]
        BY <1>3 DEF Review
    <2>2. UNCHANGED <<world, inhand, reply, human, switch, grants>>
        BY <1>3 DEF Review
    <2>3. pc[r] # "idle" /\ \E x \in Steps \ {"idle", "grant"} : pc' = [pc EXCEPT ![r] = x]
        BY <1>3 DEF Review, Ends, Goes, Steps
    <2>4. \A o \in Req : o # r => outcome'[o] = outcome[o]
        BY <1>3 DEF Review, Ends, Goes
    <2>5. \A o \in Req : PostureAllows(o) => PostureAllows(o)'
        BY <2>1, <2>2, SeenGrows
    <2> QED BY <2>2, <2>3, <2>4, <2>5
<1>4. ASSUME NEW r \in Req, Lock(r) PROVE AnswersJustified'
    BY <1>4 DEF Lock, Goes, PostureAllows
<1>5. ASSUME NEW r \in Req, LeaveQueue(r) PROVE AnswersJustified'
    BY <1>5 DEF LeaveQueue, Ends, PostureAllows
<1>6. ASSUME NEW r \in Req, Recheck(r) PROVE AnswersJustified'
    BY <1>6 DEF Recheck, Ends, Goes, Unlocks, PostureAllows
<1>7. ASSUME NEW r \in Req, Hook(r) PROVE AnswersJustified'
    <2>1. \A o \in Req : seen[o] \subseteq seen'[o]
        BY <1>7 DEF Hook
    <2>2. UNCHANGED <<world, inhand, reply, human, switch, grants>>
        BY <1>7 DEF Hook
    <2>3. pc[r] # "idle" /\ \E x \in Steps \ {"idle", "grant"} : pc' = [pc EXCEPT ![r] = x]
        BY <1>7 DEF Hook, Ends, Goes, Steps
    <2>4. \A o \in Req : o # r => outcome'[o] = outcome[o]
        BY <1>7 DEF Hook, Ends, Goes
    <2>5. \A o \in Req : PostureAllows(o) => PostureAllows(o)'
        BY <2>1, <2>2, SeenGrows
    <2> QED BY <2>2, <2>3, <2>4, <2>5
<1>8. ASSUME NEW r \in Req, Register(r) PROVE AnswersJustified'
    BY <1>8 DEF Register, Goes, PostureAllows
<1>9. ASSUME NEW r \in Req, Emit(r) PROVE AnswersJustified'
    BY <1>9 DEF Emit, Goes, PostureAllows
<1>10. ASSUME NEW r \in Req, Receive(r) PROVE AnswersJustified'
    BY <1>10 DEF Receive, Ends, Goes, Unlocks, PostureAllows
<1>11. ASSUME NEW r \in Req, RecordGrant(r) PROVE AnswersJustified'
    BY <1>11 DEF RecordGrant, Ends, PostureAllows
<1>12. ASSUME NEW r \in Req, GiveUp(r) PROVE AnswersJustified'
    BY <1>12 DEF GiveUp, Ends, Unlocks, PostureAllows
<1>13. ASSUME NEW r \in Req, PlanWindow(r) PROVE AnswersJustified'
    <2>1. \A o \in Req : seen[o] \subseteq seen'[o]
        BY <1>13 DEF PlanWindow
    <2>2. UNCHANGED <<world, inhand, reply, human, switch, grants, outcome>>
        BY <1>13 DEF PlanWindow, Goes
    <2>3. \E x \in {"window", "done"} : pc' = [pc EXCEPT ![r] = x]
        BY <1>13 DEF PlanWindow, Goes
    <2> QED BY <2>1, <2>2, <2>3, SeenGrows
<1>14. ASSUME NEW r \in Req, Send(r) PROVE AnswersJustified'
    <2>1. UNCHANGED <<world, human, switch, pc, outcome, seen>>
        BY <1>14 DEF Send
    <2>2. \A o \in Req : PostureAllows(o)' <=> PostureAllows(o)
        BY <2>1 DEF PostureAllows
    <2>3. inhand' = [inhand EXCEPT ![r] = "none"] /\ human[r] = inhand[r]
        BY <1>14 DEF Send
    <2>4. \E x \in {inhand[r], "deny"} : reply' = [reply EXCEPT ![r] = x]
        BY <1>14 DEF Send
    <2>5. inhand[r] # "drain"
        BY <1>14 DEF Send
    <2>6. \A g \in grants' : \E o \in Req : Scope(o) = g /\ human[o] = "session"
        BY <1>14 DEF Send
    <2> QED BY <2>1, <2>2, <2>3, <2>4, <2>5, <2>6
<1>15. ASSUME NEW r \in Req, NEW a \in {"answer", "deny", "once", "session"}, Answer(r, a) PROVE AnswersJustified'
    BY <1>15 DEF Answer, OnScreen, PostureAllows, SettledOnce, Settled
<1>16. ASSUME NEW r \in Req, NEW s \in Stopper, Skip(r, s) PROVE AnswersJustified'
    BY <1>16 DEF Skip, OnScreen, PostureAllows, SettledOnce, Settled
<1>17. ASSUME NEW s \in Switcher, NEW m \in Modes, SetMode(s, m) PROVE AnswersJustified'
    <2>1. \A o \in Req : seen[o] \subseteq seen'[o]
        BY <1>17 DEF SetMode
    <2>2. UNCHANGED <<world, inhand, reply, human, pc, grants, outcome>>
        BY <1>17 DEF SetMode
    <2>3. ASSUME NEW o \in entries, Drains(o, m) PROVE PostureAllows(o)'
        <3>1. Running(o) /\ Class(o) # "none"
            BY DEF EntriesLive, Routed, Running
        <3>2. m \in seen'[o]
            BY <1>17, <3>1 DEF SetMode
        <3>3. Class(o) \in Gated /\ Class(o)' = Class(o)
            BY <2>2, <2>3, <3>1, PromptAssumption DEF Drains, FreshDecision, RequiresFreshApproval, Classes, Gated
        <3> QED BY <2>3, <3>2, <3>3 DEF PostureAllows, Drains, AutoApprovalWouldAllow
    <2>4. \A x \in Switcher : \A o \in switch'[x].drained : o \in switch[x].drained \/ (o \in entries /\ Drains(o, m))
        BY <1>17 DEF SetMode
    <2> QED BY <2>1, <2>2, <2>3, <2>4, SeenGrows
<1>18. ASSUME NEW s \in Switcher, UpdateGates(s) PROVE AnswersJustified'
    <2>1. \A x \in Switcher : switch'[x].drained = switch[x].drained
        BY <1>18, GatesKeepDrained
    <2>2. UNCHANGED <<world, inhand, reply, human, pc, grants, outcome, seen>>
        BY <1>18 DEF UpdateGates
    <2> QED BY <2>1, <2>2 DEF PostureAllows
<1>19. ASSUME NEW s \in Switcher, SendDrained(s) PROVE AnswersJustified'
    BY <1>19 DEF SendDrained, PostureAllows
<1>20. ASSUME UNCHANGED <<world, inhand, reply, human, pc, outcome, switch, grants, seen>> PROVE AnswersJustified'
    BY <1>20 DEF PostureAllows
<1>21. ASSUME NEW r \in Req, AbandonedLock(r) PROVE AnswersJustified'
    BY <1>21, <1>20 DEF AbandonedLock
<1>22. ASSUME NEW t \in Turn, StartTurn(t) PROVE AnswersJustified'
    BY <1>22, <1>20 DEF StartTurn
<1>23. CASE FinishTurn \/ SidecarExits
    BY <1>23, <1>20 DEF FinishTurn, SidecarExits
<1>24. ASSUME NEW s \in Stopper, ReadCancel(s) \/ ClearAll(s) \/ CallCancel(s) PROVE AnswersJustified'
    BY <1>24, <1>20 DEF ReadCancel, ClearAll, CallCancel
<1>25. ASSUME NEW c \in Client, Attach(c) \/ Detach(c) PROVE AnswersJustified'
    BY <1>25, <1>20 DEF Attach, Detach
<1>26. CASE UNCHANGED vars
    BY <1>26, <1>20 DEF vars
<1> QED
    BY <1>1, <1>2, <1>3, <1>4, <1>5, <1>6, <1>7, <1>8, <1>9, <1>10, <1>11, <1>12, <1>13, <1>14,
       <1>15, <1>16, <1>17, <1>18, <1>19, <1>21, <1>22, <1>23, <1>24, <1>25, <1>26
    DEF Next, RequestStep, StopStep, SwitchStep

(***************************************************************************)
(* A pre-approval of a call that is under way is justified.                *)
(***************************************************************************)
LEMMA PreApprovedJustified ==
    ASSUME PTypeOK, Routed, SeenTracks, AnswersJustified,
           NEW r \in Req, pc[r] \in {"check", "reviewed", "recheck"}, PreApproved(r)
    PROVE  Justified(r)
<1>1. Class(r) \in Classes \ {"ask", "write", "none"} /\ mode \in seen[r] /\ (window => "plan" \in seen[r])
    BY PromptAssumption DEF PTypeOK, Routed, SeenTracks, Running, Class, Asks
<1>2. CASE SessionGrantAllows(r)
    BY <1>1, <1>2 DEF SessionGrantAllows, RequiresFreshApproval, AnswersJustified, Justified
<1>3. CASE mode \in {"auto", "yolo"} /\ Class(r) = "memory"
    BY <1>1, <1>3 DEF Justified, PostureAllows, Gated
<1>4. CASE mode = "yolo" /\ Class(r) \in {"plain", "rule", "human"}
    BY <1>1, <1>4 DEF Justified, PostureAllows, Gated
<1>5. CASE window /\ Class(r) = "plain"
    BY <1>1, <1>5 DEF Justified
<1> QED
    BY <1>1, <1>2, <1>3, <1>4, <1>5
    DEF PreApproved, BypassAllows, RequiresFreshApproval, FreshDecision, AutoApprovalWouldAllow, Classes, Gated

(***************************************************************************)
(* What the gate or a grant allows on arrival is justified by the posture  *)
(* the call starts under.                                                  *)
(***************************************************************************)
LEMMA ArrivalJustified ==
    ASSUME PTypeOK, AnswersJustified, NEW r \in Req, Begin(r), outcome'[r] = "allow", outcome[r] # "allow"
    PROVE  Justified(r)'
<1>1. Arrival(r) = "allow" /\ UNCHANGED <<world, human>>
    BY DEF Begin, Ends, Goes, PTypeOK, answers
<1>2. gate \in seen'[r]
    BY DEF Begin, PTypeOK
<1>3. CASE Class(r) \in {"trust", "write"} /\ Scope(r) \in grants
    BY <1>1, <1>3 DEF AnswersJustified, Justified, Class, Scope
<1>4. CASE GateAllows(r)
    BY <1>1, <1>2, <1>4 DEF GateAllows, AutoApprovalWouldAllow, Justified, PostureAllows, Gated, Class
<1> QED
    BY <1>1, <1>3, <1>4 DEF Arrival

(***************************************************************************)
(* What justified a request stays on record: the postures seen only grow,  *)
(* and a person's answer is not overwritten.                               *)
(***************************************************************************)
LEMMA JustifiedStays ==
    ASSUME NEW r \in Req, world' = world, seen[r] \subseteq seen'[r],
           \A o \in Req : human[o] # "none" => human'[o] = human[o], Justified(r)
    PROVE  Justified(r)'
PROOF
    BY DEF Justified, PostureAllows, Class, Scope

(***************************************************************************)
(* Whatever is allowed is allowed by one of the ways the property names,   *)
(* and what justified it stays on record.                                  *)
(***************************************************************************)
LEMMA AllowNext == PTypeOK /\ Routed /\ SettledOnce /\ SeenTracks /\ AnswersJustified /\ AllowJustified /\ [Next]_vars => AllowJustified'
<1> SUFFICES ASSUME PTypeOK, Routed, SettledOnce, SeenTracks, AnswersJustified, AllowJustified, [Next]_vars PROVE AllowJustified'
    OBVIOUS
<1>0. (\A r \in Req : outcome[r] = "allow" => Justified(r)) /\ (AllowJustified' <=> \A r \in Req : outcome'[r] = "allow" => Justified(r)')
    BY DEF AllowJustified, Justified, PostureAllows
<1> USE <1>0 DEF PTypeOK, posture, locks, answers, lives, views
<1>1. ASSUME NEW r \in Req, Begin(r) PROVE AllowJustified'
    <2>1. pc[r] = "idle" /\ outcome[r] = "none"
        BY <1>1 DEF Begin, AnswersJustified
    <2>2. outcome'[r] = "allow" => Justified(r)'
        BY <1>1, <2>1, ArrivalJustified
    <2>3. UNCHANGED <<world, human>> /\ \A o \in Req : o # r => seen'[o] = seen[o] /\ outcome'[o] = outcome[o]
        BY <1>1 DEF Begin, Ends, Goes
    <2> QED BY <2>2, <2>3, JustifiedStays
<1>2. ASSUME NEW r \in Req, Check(r) PROVE AllowJustified'
    <2>1. UNCHANGED <<world, human>> /\ \A o \in Req : seen[o] \subseteq seen'[o]
        BY <1>2 DEF Check
    <2>2. \A o \in Req : o # r => outcome'[o] = outcome[o]
        BY <1>2 DEF Check, Ends, Goes
    <2>3. outcome'[r] = "allow" => Justified(r)'
        <3>1. outcome'[r] = "allow" => outcome[r] = "allow" \/ PreApproved(r)
            BY <1>2 DEF Check, Ends, Goes
        <3>2. outcome'[r] = "allow" => Justified(r)
            BY <1>2, <3>1, PreApprovedJustified DEF Check
        <3> QED BY <2>1, <3>2, JustifiedStays
    <2> QED BY <2>1, <2>2, <2>3, JustifiedStays
<1>3. ASSUME NEW r \in Req, Review(r) PROVE AllowJustified'
    <2>1. UNCHANGED <<world, human>> /\ \A o \in Req : seen[o] \subseteq seen'[o]
        BY <1>3 DEF Review
    <2>2. \A o \in Req : o # r => outcome'[o] = outcome[o]
        BY <1>3 DEF Review, Ends, Goes
    <2>3. outcome'[r] = "allow" => Justified(r)'
        <3>1. outcome'[r] = "allow" => outcome[r] = "allow" \/ (Class(r) \in {"plain", "rule"} /\ "helper" \in seen'[r])
            BY <1>3 DEF Review, Ends, Goes
        <3>2. CASE outcome[r] = "allow"
            BY <2>1, <3>2, JustifiedStays
        <3>3. CASE Class(r) \in {"plain", "rule"} /\ "helper" \in seen'[r]
            BY <2>1, <3>3 DEF Justified, Class
        <3> QED BY <3>1, <3>2, <3>3
    <2> QED BY <2>1, <2>2, <2>3, JustifiedStays
<1>4. ASSUME NEW r \in Req, Lock(r) PROVE AllowJustified'
    <2>1. world' = world /\ (\A o \in Req : seen[o] \subseteq seen'[o]) /\ \A o \in Req : human[o] # "none" => human'[o] = human[o]
        BY <1>4 DEF Lock, Goes
    <2>2. \A o \in Req : outcome'[o] = "allow" => outcome[o] = "allow"
        BY <1>4 DEF Lock, Goes
    <2> QED BY <2>1, <2>2, JustifiedStays
<1>5. ASSUME NEW r \in Req, LeaveQueue(r) PROVE AllowJustified'
    <2>1. world' = world /\ (\A o \in Req : seen[o] \subseteq seen'[o]) /\ \A o \in Req : human[o] # "none" => human'[o] = human[o]
        BY <1>5 DEF LeaveQueue, Ends
    <2>2. \A o \in Req : outcome'[o] = "allow" => outcome[o] = "allow"
        BY <1>5 DEF LeaveQueue, Ends
    <2> QED BY <2>1, <2>2, JustifiedStays
<1>6. ASSUME NEW r \in Req, Recheck(r) PROVE AllowJustified'
    <2>1. UNCHANGED <<world, human>> /\ \A o \in Req : seen[o] \subseteq seen'[o]
        BY <1>6 DEF Recheck
    <2>2. \A o \in Req : o # r => outcome'[o] = outcome[o]
        BY <1>6 DEF Recheck, Ends, Goes
    <2>3. outcome'[r] = "allow" => Justified(r)'
        <3>1. outcome'[r] = "allow" => outcome[r] = "allow" \/ PreApproved(r)
            BY <1>6 DEF Recheck, Ends, Goes
        <3>2. outcome'[r] = "allow" => Justified(r)
            BY <1>6, <3>1, PreApprovedJustified DEF Recheck
        <3> QED BY <2>1, <3>2, JustifiedStays
    <2> QED BY <2>1, <2>2, <2>3, JustifiedStays
<1>7. ASSUME NEW r \in Req, Hook(r) PROVE AllowJustified'
    <2>1. UNCHANGED <<world, human>> /\ \A o \in Req : seen[o] \subseteq seen'[o]
        BY <1>7 DEF Hook
    <2>2. \A o \in Req : o # r => outcome'[o] = outcome[o]
        BY <1>7 DEF Hook, Ends, Goes
    <2>3. outcome'[r] = "allow" => Justified(r)'
        <3>1. outcome'[r] = "allow" => outcome[r] = "allow" \/ (Class(r) \in {"plain", "rule"} /\ "helper" \in seen'[r])
            BY <1>7 DEF Hook, Ends, Goes
        <3>2. CASE outcome[r] = "allow"
            BY <2>1, <3>2, JustifiedStays
        <3>3. CASE Class(r) \in {"plain", "rule"} /\ "helper" \in seen'[r]
            BY <2>1, <3>3 DEF Justified, Class
        <3> QED BY <3>1, <3>2, <3>3
    <2> QED BY <2>1, <2>2, <2>3, JustifiedStays
<1>8. ASSUME NEW r \in Req, Register(r) PROVE AllowJustified'
    <2>1. world' = world /\ (\A o \in Req : seen[o] \subseteq seen'[o]) /\ \A o \in Req : human[o] # "none" => human'[o] = human[o]
        BY <1>8 DEF Register, Goes
    <2>2. \A o \in Req : outcome'[o] = "allow" => outcome[o] = "allow"
        BY <1>8 DEF Register, Goes
    <2> QED BY <2>1, <2>2, JustifiedStays
<1>9. ASSUME NEW r \in Req, Emit(r) PROVE AllowJustified'
    <2>1. world' = world /\ (\A o \in Req : seen[o] \subseteq seen'[o]) /\ \A o \in Req : human[o] # "none" => human'[o] = human[o]
        BY <1>9 DEF Emit, Goes
    <2>2. \A o \in Req : outcome'[o] = "allow" => outcome[o] = "allow"
        BY <1>9 DEF Emit, Goes
    <2> QED BY <2>1, <2>2, JustifiedStays
<1>10. ASSUME NEW r \in Req, Receive(r) PROVE AllowJustified'
    <2>1. UNCHANGED <<world, human>> /\ \A o \in Req : seen[o] \subseteq seen'[o]
        BY <1>10 DEF Receive
    <2>2. \A o \in Req : o # r => outcome'[o] = outcome[o]
        BY <1>10 DEF Receive, Ends, Goes
    <2>3. outcome'[r] = "allow" => Justified(r)'
        <3>1. outcome'[r] = "allow" => outcome[r] = "allow" \/ reply[r] \in {"once", "session", "drain"}
            BY <1>10 DEF Receive, Ends, Goes, ResultOf
        <3>2. outcome'[r] = "allow" => Justified(r)
            BY <3>1 DEF AnswersJustified, Justified
        <3> QED BY <2>1, <3>2, JustifiedStays
    <2> QED BY <2>1, <2>2, <2>3, JustifiedStays
<1>11. ASSUME NEW r \in Req, RecordGrant(r) PROVE AllowJustified'
    <2>1. UNCHANGED <<world, human>> /\ \A o \in Req : seen[o] \subseteq seen'[o]
        BY <1>11 DEF RecordGrant
    <2>2. \A o \in Req : o # r => outcome'[o] = outcome[o]
        BY <1>11 DEF RecordGrant, Ends, Goes
    <2>3. outcome'[r] = "allow" => Justified(r)'
        <3>1. Justified(r)
            BY <1>11 DEF RecordGrant, AnswersJustified, Justified
        <3> QED BY <2>1, <3>1, JustifiedStays
    <2> QED BY <2>1, <2>2, <2>3, JustifiedStays
<1>12. ASSUME NEW r \in Req, GiveUp(r) PROVE AllowJustified'
    <2>1. world' = world /\ (\A o \in Req : seen[o] \subseteq seen'[o]) /\ \A o \in Req : human[o] # "none" => human'[o] = human[o]
        BY <1>12 DEF GiveUp, Ends, Unlocks
    <2>2. \A o \in Req : outcome'[o] = "allow" => outcome[o] = "allow"
        BY <1>12 DEF GiveUp, Ends, Unlocks
    <2> QED BY <2>1, <2>2, JustifiedStays
<1>13. ASSUME NEW r \in Req, PlanWindow(r) PROVE AllowJustified'
    <2>1. world' = world /\ (\A o \in Req : seen[o] \subseteq seen'[o]) /\ \A o \in Req : human[o] # "none" => human'[o] = human[o]
        BY <1>13 DEF PlanWindow, Goes
    <2>2. \A o \in Req : outcome'[o] = "allow" => outcome[o] = "allow"
        BY <1>13 DEF PlanWindow, Goes
    <2> QED BY <2>1, <2>2, JustifiedStays
<1>14. ASSUME NEW r \in Req, NEW a \in {"answer", "deny", "once", "session"}, Answer(r, a) PROVE AllowJustified'
    <2>1. world' = world /\ (\A o \in Req : seen[o] \subseteq seen'[o]) /\ \A o \in Req : human[o] # "none" => human'[o] = human[o]
        BY <1>14 DEF Answer, OnScreen, SettledOnce, Settled
    <2>2. \A o \in Req : outcome'[o] = "allow" => outcome[o] = "allow"
        BY <1>14 DEF Answer, OnScreen, SettledOnce, Settled
    <2> QED BY <2>1, <2>2, JustifiedStays
<1>15. ASSUME NEW r \in Req, NEW s \in Stopper, Skip(r, s) PROVE AllowJustified'
    <2>1. world' = world /\ (\A o \in Req : seen[o] \subseteq seen'[o]) /\ \A o \in Req : human[o] # "none" => human'[o] = human[o]
        BY <1>15 DEF Skip, OnScreen, SettledOnce, Settled
    <2>2. \A o \in Req : outcome'[o] = "allow" => outcome[o] = "allow"
        BY <1>15 DEF Skip, OnScreen, SettledOnce, Settled
    <2> QED BY <2>1, <2>2, JustifiedStays
<1>16. ASSUME NEW s \in Switcher, NEW m \in Modes, SetMode(s, m) PROVE AllowJustified'
    <2>1. world' = world /\ (\A o \in Req : seen[o] \subseteq seen'[o]) /\ \A o \in Req : human[o] # "none" => human'[o] = human[o]
        BY <1>16 DEF SetMode
    <2>2. \A o \in Req : outcome'[o] = "allow" => outcome[o] = "allow"
        BY <1>16 DEF SetMode
    <2> QED BY <2>1, <2>2, JustifiedStays
<1>17. ASSUME UNCHANGED <<world, outcome, human, seen>> PROVE AllowJustified'
    BY <1>17 DEF AllowJustified, Class, Scope
<1>18. ASSUME NEW r \in Req, AbandonedLock(r) \/ Send(r) PROVE AllowJustified'
    BY <1>18, <1>17 DEF AbandonedLock, Send
<1>19. ASSUME NEW t \in Turn, StartTurn(t) PROVE AllowJustified'
    BY <1>19, <1>17 DEF StartTurn
<1>20. CASE FinishTurn \/ SidecarExits
    BY <1>20, <1>17 DEF FinishTurn, SidecarExits
<1>21. ASSUME NEW s \in Stopper, ReadCancel(s) \/ ClearAll(s) \/ CallCancel(s) PROVE AllowJustified'
    BY <1>21, <1>17 DEF ReadCancel, ClearAll, CallCancel
<1>22. ASSUME NEW s \in Switcher, UpdateGates(s) \/ SendDrained(s) PROVE AllowJustified'
    BY <1>22, <1>17 DEF UpdateGates, SendDrained
<1>23. ASSUME NEW c \in Client, Attach(c) \/ Detach(c) PROVE AllowJustified'
    BY <1>23, <1>17 DEF Attach, Detach
<1>24. CASE UNCHANGED vars
    BY <1>24, <1>17 DEF vars
<1> QED
    BY <1>1, <1>2, <1>3, <1>4, <1>5, <1>6, <1>7, <1>8, <1>9, <1>10, <1>11, <1>12, <1>13, <1>14,
       <1>15, <1>16, <1>18, <1>19, <1>20, <1>21, <1>22, <1>23, <1>24
    DEF Next, RequestStep, StopStep, SwitchStep

-----------------------------------------------------------------------------
(***************************************************************************)
(* A new controller has no prompt, no answer and no grant.                 *)
(***************************************************************************)
LEMMA PromptInit == Init => PromptInv
<1> SUFFICES ASSUME Init PROVE PromptInv
    OBVIOUS
<1>1. PTypeOK
    BY PromptTypeInit
<1>2. \A r \in Req : /\ pc[r] = "idle" /\ outcome[r] = "none" /\ human[r] = "none" /\ inhand[r] = "none" /\ reply[r] = "none"
                     /\ ~Settled(r) /\ ~Running(r)
    BY DEF Init, Settled, Running
<1>3. LocksHeld /\ EntriesLive /\ Routed /\ SettledOnce /\ SeenTracks
    BY <1>2, PromptAssumption DEF Init, LocksHeld, EntriesLive, Routed, SettledOnce, SeenTracks
<1>4. CardsCounted
    BY <1>1, <1>2 DEF Init, CardsCounted, PTypeOK
<1>5. AnswersJustified /\ AllowJustified
    BY <1>2 DEF Init, AnswersJustified, AllowJustified
<1>6. StopsHoldTurns
    BY <1>2 DEF Init, StopsHoldTurns
<1> QED BY <1>1, <1>3, <1>4, <1>5, <1>6 DEF PromptInv

(***************************************************************************)
(* The inductive invariant holds in every reachable state.                 *)
(***************************************************************************)
LEMMA PromptInvariant == Spec => []PromptInv
<1>1. PromptInv /\ [Next]_vars => PromptInv'
    BY PromptTypeNext, LocksNext, EntriesNext, RoutedNext, SettledNext, CardsNext, SeenNext, AnswersNext,
       AllowNext, StopsNext
    DEF PromptInv
<1> QED BY PromptInit, <1>1, PTL DEF Spec

(***************************************************************************)
(* The prompt state always has its shape.                                  *)
(***************************************************************************)
THEOREM PromptTypes == Spec => []PTypeOK
<1>1. PromptInv => PTypeOK
    BY DEF PromptInv
<1> QED BY PromptInvariant, <1>1, PTL

(***************************************************************************)
(* However many requests compete, at most one prompt is put to the user,   *)
(* and every entry belongs to a goroutine blocked on it: two requests past *)
(* their registration would both be the holder of promptMu.                *)
(***************************************************************************)
THEOREM OnePromptAtATime == Spec => []OneLivePrompt
<1>1. PromptInv => OneLivePrompt
    <2> SUFFICES ASSUME PromptInv PROVE OneLivePrompt
        OBVIOUS
    <2> DEFINE Shown == {r \in Req : pc[r] \in {"emit", "wait"}}
    <2>1. Shown \subseteq {promptMu}
        BY DEF PromptInv, LocksHeld
    <2>2. Cardinality(Shown) <= 1
        <3>1. IsFiniteSet({promptMu}) /\ Cardinality({promptMu}) = 1
            BY FS_Singleton
        <3>2. IsFiniteSet(Shown) /\ Cardinality(Shown) <= 1
            BY <2>1, <3>1, FS_Subset
        <3> QED BY <3>2
    <2>3. \A r \in entries : pc[r] \in {"queue", "register", "emit", "wait"}
        BY DEF PromptInv, EntriesLive
    <2> QED BY <2>2, <2>3 DEF OneLivePrompt
<1> QED BY PromptInvariant, <1>1, PTL

(***************************************************************************)
(* Every attached stream has been sent the prompt that waits exactly once, *)
(* and no question that is still queued.                                   *)
(***************************************************************************)
THEOREM CardsSentOnce == Spec => []EachCardOnce
<1>1. PromptInv => EachCardOnce
    BY DEF PromptInv, PTypeOK, EntriesLive, CardsCounted, EachCardOnce
<1> QED BY PromptInvariant, <1>1, PTL

(***************************************************************************)
(* Nothing goes ahead that nobody entitled to allow it allowed.            *)
(***************************************************************************)
THEOREM AllowsAreJustified == Spec => []AllowJustified
<1>1. PromptInv => AllowJustified
    BY DEF PromptInv
<1> QED BY PromptInvariant, <1>1, PTL
=============================================================================
