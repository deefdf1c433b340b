----------------------------- MODULE ServerLife -----------------------------
(***************************************************************************)
(* What the program is promised of its HTTP server: it listens or finds    *)
(* that it cannot, it stops listening once, and it ends only when no       *)
(* connection is left in its hands, so that no handler runs after it.      *)
(***************************************************************************)
CONSTANT Conns

VARIABLES
    net,    \* "off", "setup", "listening", "closing" or "done"
    held    \* the connections in the server's hands

life == <<net, held>>

Init == net \in {"off", "setup"} /\ held = {}

Begin == net = "off" /\ net' = "setup" /\ UNCHANGED held

Listen == net = "setup" /\ net' \in {"listening", "done"} /\ UNCHANGED held

Take(c) ==
    /\ net \in {"listening", "closing"}
    /\ held' = held \cup {c}
    /\ UNCHANGED net

Drop(c) ==
    /\ c \in held
    /\ held' = held \ {c}
    /\ UNCHANGED net

Close == net = "listening" /\ net' = "closing" /\ UNCHANGED held

End == net = "closing" /\ held = {} /\ net' = "done" /\ UNCHANGED held

Next == Begin \/ Listen \/ Close \/ End \/ \E c \in Conns : Take(c) \/ Drop(c)

Spec == Init /\ [][Next]_life
=============================================================================
