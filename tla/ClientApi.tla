------------------------------ MODULE ClientApi ------------------------------
(***************************************************************************)
(* What a FastDFS client object promises its caller, real or mock: nothing  *)
(* works before initialize() has returned true, a call that fails leaves    *)
(* its reason in last_error_, and one that succeeds leaves last_error_ as   *)
(* it is.                                                                   *)
(***************************************************************************)
CONSTANTS
    Clients,      \* the objects
    Operations,   \* their calls on files
    NoReason      \* last_error_ is empty, or a call has not failed

VARIABLES
    on,           \* initialized_
    error,        \* last_error_: the call whose message it is, or "off"
    result        \* the last call: its object, operation and outcome

vars == <<on, error, result>>

Init ==
    /\ on = [c \in Clients |-> FALSE]
    /\ error = [c \in Clients |-> NoReason]
    /\ result = [client |-> NoReason, op |-> NoReason, reason |-> NoReason]

Returned(c, op, reason) ==
    /\ result' = [client |-> c, op |-> op, reason |-> reason]
    /\ error' = IF reason = NoReason THEN error ELSE [error EXCEPT ![c] = reason]

(* initialize() fails for a reason of its own, and then changes nothing.    *)
Initialize(c) ==
    \/ Returned(c, "initialize", NoReason) /\ on' = [on EXCEPT ![c] = TRUE]
    \/ Returned(c, "initialize", "initialize") /\ UNCHANGED on

Cleanup(c) ==
    /\ on' = [on EXCEPT ![c] = FALSE]
    /\ UNCHANGED <<error, result>>

(* A new object at the place of one that is off. *)
Construct(c) ==
    /\ ~on[c]
    /\ error' = [error EXCEPT ![c] = NoReason]
    /\ UNCHANGED <<on, result>>

(* A call on a file: it works or fails when the client is on. *)
Call(c, op) ==
    /\ \E reason \in IF on[c] THEN {NoReason, "arguments", op} ELSE {"off"} :
          Returned(c, op, reason)
    /\ UNCHANGED on

Next ==
    \E c \in Clients :
        \/ Initialize(c) \/ Cleanup(c) \/ Construct(c)
        \/ \E op \in Operations : Call(c, op)

Spec == Init /\ [][Next]_vars
==============================================================================
