---------------------------- MODULE ObjectService ----------------------------
(***************************************************************************)
(* What the object manager promises the page tables, without queue, worker *)
(* or condition variables: a request about a slot is open until it is      *)
(* answered, a request with a callback is answered exactly once, and a     *)
(* success answer is true when it is given.                                *)
(***************************************************************************)
EXTENDS Naturals

CONSTANTS Clients, Slots, Request, NoReq

VARIABLES page,     \* slot -> its page is resident
          call,     \* client -> its open request, or NoReq
          answer,   \* client -> the answer it has not taken yet
          written   \* clients whose open request needs no write-back any more

vars == <<page, call, answer, written>>

Asking(s) == {c \in Clients : call[c] # NoReq /\ call[c].slot = s}

Init ==
    /\ page = [s \in Slots |-> FALSE]
    /\ call = [c \in Clients |-> NoReq]
    /\ answer = [c \in Clients |-> "none"]
    /\ written = {}

Ask(c, r) ==
    /\ call[c] = NoReq
    /\ call' = [call EXCEPT ![c] = r]
    /\ UNCHANGED <<page, answer, written>>

\* A flush of a slot without resident page is answered on the spot.
AskNothing(c, r) ==
    /\ call[c] = NoReq
    /\ r.op = "Flush" /\ r.cb /\ ~page[r.slot]
    /\ call' = [call EXCEPT ![c] = r]
    /\ answer' = [answer EXCEPT ![c] = "ok"]
    /\ written' = written \cup {c}
    /\ UNCHANGED page

\* An answer is given once, and a success only when it is true.
Answer(c, a) ==
    /\ call[c] # NoReq
    /\ call[c].cb
    /\ answer[c] = "none"
    /\ (a = "ok" /\ call[c].op = "Init") => page[call[c].slot]
    /\ (a = "ok" /\ call[c].op = "Flush") => c \in written
    /\ answer' = [answer EXCEPT ![c] = a]
    /\ UNCHANGED <<page, call, written>>

\* A request with a callback ends when its answer is taken, one without ends
\* at any time.
Return(c) ==
    /\ call[c] # NoReq
    /\ call[c].cb <=> answer[c] # "none"
    /\ call' = [call EXCEPT ![c] = NoReq]
    /\ answer' = [answer EXCEPT ![c] = "none"]
    /\ written' = written \ {c}
    /\ UNCHANGED page

FaultIn(s) ==
    /\ page' = [page EXCEPT ![s] = TRUE]
    /\ UNCHANGED <<call, answer, written>>

WriteBack(s) ==
    /\ page[s]
    /\ written' = written \cup Asking(s)
    /\ UNCHANGED <<page, call, answer>>

\* A slot that nobody asks about can be let go and its place reused.
Reuse(s) ==
    /\ Asking(s) = {}
    /\ page' = [page EXCEPT ![s] = FALSE]
    /\ UNCHANGED <<call, answer, written>>

Next ==
    \/ \E c \in Clients : \E r \in Request : Ask(c, r) \/ AskNothing(c, r)
    \/ \E c \in Clients : \E a \in {"ok", "err"} : Answer(c, a)
    \/ \E c \in Clients : Return(c)
    \/ \E s \in Slots : FaultIn(s) \/ WriteBack(s) \/ Reuse(s)

Spec == Init /\ [][Next]_vars
=============================================================================
