----------------------------- MODULE RemoteCall -----------------------------
(***************************************************************************)
(* What Manager.Call promises its caller, with connections, message ids    *)
(* and goroutines left out (the comment on Call in                         *)
(* internal/ha/manager.go).  A call is refused, or tried until its command *)
(* is known to be sent, or given up; a refused call never reaches Home     *)
(* Assistant; once the command is known to be sent it is not sent again;   *)
(* an answer is the answer to this call's own command and implies that     *)
(* Home Assistant received it.                                             *)
(***************************************************************************)
CONSTANTS Caller, None

VARIABLES
    state,      \* where each call is
    outcome,    \* what it returned, once it has
    received    \* the frames that brought its command to Home Assistant

vars == <<state, outcome, received>>

Ended(k) == [kind |-> k, from |-> None]
Pending  == Ended("none")

Init ==
    /\ state = [c \in Caller |-> "idle"]
    /\ outcome = [c \in Caller |-> Pending]
    /\ received = [c \in Caller |-> {}]

Finish(c, r) ==
    /\ state' = [state EXCEPT ![c] = "returned"]
    /\ outcome' = [outcome EXCEPT ![c] = r]
    /\ UNCHANGED received

(* Policy or budget refuses the call.                                      *)
Refuse(c) ==
    /\ state[c] = "idle"
    /\ \E k \in {"denied", "budget"} : Finish(c, Ended(k))

Try(c) ==
    /\ state[c] = "idle"
    /\ state' = [state EXCEPT ![c] = "trying"]
    /\ UNCHANGED <<outcome, received>>

(* Home Assistant receives the command, in one more frame.                 *)
Receive(c) ==
    /\ state[c] = "trying"
    /\ \E f \in received'[c] \ received[c] : received' = [received EXCEPT ![c] = @ \cup {f}]
    /\ UNCHANGED <<state, outcome>>

(* The command is known to be sent: its outcome is final.                  *)
Commit(c) ==
    /\ state[c] = "trying" /\ received[c] # {}
    /\ state' = [state EXCEPT ![c] = "sent"]
    /\ UNCHANGED <<outcome, received>>

Answer(c) ==
    /\ state[c] = "sent"
    /\ Finish(c, [kind |-> "reply", from |-> c])

(* The connection failed, or the caller's context was done.                *)
Fail(c) ==
    /\ state[c] \in {"trying", "sent"}
    /\ \E k \in {"unavailable", "ctx"} : Finish(c, Ended(k))

Next == \E c \in Caller : \/ Refuse(c) \/ Try(c) \/ Receive(c)
                          \/ Commit(c) \/ Answer(c) \/ Fail(c)

Spec == Init /\ [][Next]_vars
=============================================================================
