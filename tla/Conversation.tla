---------------------------- MODULE Conversation ----------------------------
(***************************************************************************)
(* What the assistant promises a visitor, whatever sessions, retries and   *)
(* tool calls it takes: a message that was sent is answered or fails, an   *)
(* answer is shown as complete only when the exchange has been kept, and   *)
(* what was kept is never lost.  An exchange may be kept although its      *)
(* answer failed to arrive.                                                *)
(***************************************************************************)
EXTENDS Naturals

CONSTANT Turns   \* the messages visitors send

VARIABLES outcome, \* what the visitor sees of each message
          kept     \* the messages whose exchange is stored

vars == <<outcome, kept>>

Init == /\ outcome = [t \in Turns |-> "unsent"]
        /\ kept = {}

Ask(t) == /\ outcome[t] = "unsent"
          /\ outcome' = [outcome EXCEPT ![t] = "waiting"]
          /\ UNCHANGED kept

Keep(t) == /\ outcome[t] # "unsent"
           /\ kept' = kept \cup {t}
           /\ UNCHANGED outcome

Answer(t) == /\ outcome[t] = "waiting"
             /\ t \in kept
             /\ outcome' = [outcome EXCEPT ![t] = "answered"]
             /\ UNCHANGED kept

Fail(t) == /\ outcome[t] = "waiting"
           /\ outcome' = [outcome EXCEPT ![t] = "failed"]
           /\ UNCHANGED kept

Next == \E t \in Turns : Ask(t) \/ Keep(t) \/ Answer(t) \/ Fail(t)

Spec == Init /\ [][Next]_vars
=============================================================================
