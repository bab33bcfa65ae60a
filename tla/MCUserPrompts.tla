--------------------------- MODULE MCUserPrompts ----------------------------
EXTENDS UserPrompts

CONSTANTS r1, r2, r3, t1, t2, a, b, c

Requests == {r1, r2, r3}

World(c1, c2, c3, o2, scopes, modes, ops) ==
    [class |-> (r1 :> c1) @@ (r2 :> c2) @@ (r3 :> c3),
     owner |-> (r1 :> t1) @@ (r2 :> o2) @@ (r3 :> t1),
     scope |-> (r1 :> scopes[1]) @@ (r2 :> scopes[2]) @@ (r3 :> scopes[3]),
     modes |-> modes, ops |-> ops]

Apart == <<a, b, c>>
Same == <<a, a, c>>
Switching == {"ask", "auto", "yolo"}

(* Tools under the postures, with helpers that answer for the user.         *)
Postures ==
    {World(k, "plain", "none", t1, Apart, Switching, {"hook"}) : k \in {"rule", "human", "memory"}}
    \cup {World(k, "ask", "none", t1, Apart, Switching, {"guardian"}) : k \in {"plain", "rule", "memory"}}
    \cup {World(k, "rule", "none", t1, Apart, {"ask", "yolo"}, {"hook"}) : k \in {"escape", "trust", "write"}}
    \cup {World("plan", "plain", "none", t1, Apart, {"ask", "yolo"}, {})}
    \cup {World(k, "write", "none", t1, Apart, {"ask", "dontask"}, {}) : k \in {"rule", "memory"}}
(* Two calls in one scope, one of them possibly granted by the other.       *)
Scopes ==
    {World(k, k, "none", t1, Same, {"ask"}, {}) : k \in {"rule", "escape", "trust", "write", "memory", "plan"}}
(* Stop and teardown with questions and tools in the queue.                 *)
Stopping ==
    {World("ask", "plain", "none", t1, Apart, {"ask", "yolo"}, {"attach", "stop", "close"}),
     World("ask", "rule", "ask", t1, Apart, {"ask"}, {"stop"})}
(* Two turns and an extension, everything bounded by a timeout.             *)
Bounded == {World("ask", "rule", "none", t2, Apart, {"ask"}, {"stop", "timeout"}),
            [World("rule", "ask", "ask", Sidecar, Apart, {"ask"}, {"stop", "timeout", "exit"})
                EXCEPT !.owner[r3] = t2]}

PromptWorlds == Postures \cup Scopes \cup Stopping \cup Bounded
Extension == {World("rule", "ask", "none", Sidecar, Apart, {"ask"}, {"stop"})}
Overtaken == {World("rule", "rule", "none", t2, Apart, {"ask"}, {"stop"})}
Impatient == {World("rule", "none", "none", t1, Apart, {"ask", "yolo"}, {"hook"})}
Competing == {World("rule", "none", "none", t1, Apart, {"ask", "yolo"}, {})}
=============================================================================
