------------------------- MODULE MCInboxController -------------------------
EXTENDS InboxController, TLC

CONSTANTS t1, t2, q1, s1, s2

Turns2 == {t1, t2}
OneRotator == {q1}
NoRotator == {}
OneStem == {s1}
TwoStems == {s1, s2}

UsedKinds == {"guarded", "sync", "inbox"}

Desktop(ops, bodies, items) == [ops |-> ops, bodies |-> bodies, items |-> items, chat |-> {"guarded"}]
Blocking(ops, bodies, items) == [ops |-> ops, bodies |-> bodies, items |-> items, chat |-> {}]

Dispatching == Desktop({"chat", "followup", "pause", "retry", "rotate", "prompts"}, {"text"}, 2)
Ending == Desktop({"chat", "followup", "pause", "retry", "rotate", "close", "prompts"}, {"text"}, 1)
SteeringTwo == Desktop({"chat", "steer"}, {"text"}, 2)
ClosingDown == Desktop({"chat", "steer", "close"}, {"text"}, 1)
Deleting == Desktop({"chat", "steer", "delete", "rotate"}, {"text"}, 1)
Resteering == Desktop({"chat", "followup", "resteer", "retry"}, {"text", "image"}, 1)
Commanding == Desktop({"chat", "followup", "edit", "cancelwith", "retry"}, {"text", "image"}, 1)
Failing == Desktop({"chat", "followup", "steer", "rotate", "badwrites", "prompts"}, {"text", "image"}, 1)
FailingDelete == Desktop({"chat", "steer", "delete", "badwrites"}, {"text"}, 1)
FailingCancel == Desktop({"chat", "followup", "cancelwith", "badwrites"}, {"text", "badref"}, 1)
RunningItems == Blocking({"followup", "edit", "delete", "cancelwith", "runitem"},
                         {"text", "badref"}, 1)

UsualFrontends == {Dispatching, Ending, SteeringTwo, ClosingDown, Deleting, Resteering,
                   Commanding, Failing, FailingDelete, FailingCancel, RunningItems}
BlockingFrontend == {Blocking({"steer", "runitem"}, {"text"}, 2)}
EditingFrontend == {Desktop({"followup", "edit"}, {"text", "edited"}, 2)}

Sym == Permutations(Turns2) \cup Permutations(TwoStems)
=============================================================================
