---------------------------- MODULE MC_ObjectLive ----------------------------
(* The behaviours of ObjectManager in which each client makes its requests   *)
(* about one slot, a corner of it that liveness can be checked on.  A caller *)
(* of c1 or c2 can wait for room while the worker faults in the page it asks *)
(* for, and c3 fills the queue.                                              *)
EXTENDS ObjectManager, TLC

CONSTANTS c1, c2, c3, x, y

Script ==
    c1 :> {r \in Requests : r.slot = x}
      @@ c2 :> {r \in Requests : r.slot = x /\ r.op = "Init"}
      @@ c3 :> {r \in Requests : r.slot = y}

Scripted == \A c \in Clients : pc'[c] # "idle" => req'[c] \in Script[c]

ScriptedSpec == Init /\ [][Next /\ Scripted]_vars /\ Fairness
=============================================================================
