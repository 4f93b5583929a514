---------------------------- MODULE TargetRounds ----------------------------
(***************************************************************************)
(* What the analysis tables promise to everybody who shares them, without  *)
(* attempts, leases, messages or time: work on a target happens in rounds, *)
(* every round has a number above all earlier ones, a target has at most   *)
(* one round in progress, and only the round in progress may publish, at   *)
(* most once, for the version the round was begun for.                     *)
(***************************************************************************)
EXTENDS Integers

CONSTANTS Targets, Versions, NoVersion

VARIABLES
    round,      \* the number of the latest round of a target
    open,       \* whether that round may still publish
    version,    \* the analysis version it was begun for
    published   \* the last publication: its version and its round

vars == <<round, open, version, published>>

Init ==
    /\ round = [t \in Targets |-> 0]
    /\ open = [t \in Targets |-> FALSE]
    /\ version = [t \in Targets |-> NoVersion]
    /\ published = [t \in Targets |-> [version |-> NoVersion, generation |-> 0]]

\* New work begins, and closes the round that was open, if any.
Begin(t, v) ==
    /\ round' = [round EXCEPT ![t] = @ + 1]
    /\ open' = [open EXCEPT ![t] = TRUE]
    /\ version' = [version EXCEPT ![t] = v]
    /\ UNCHANGED published

\* The open rounds of T are taken from the workers that had them.
HandOver(T) ==
    /\ \A t \in T : open[t]
    /\ round' = [t \in Targets |-> IF t \in T THEN round[t] + 1 ELSE round[t]]
    /\ UNCHANGED <<open, version, published>>

Publish(t) ==
    /\ open[t]
    /\ open' = [open EXCEPT ![t] = FALSE]
    /\ published' = [published EXCEPT ![t] =
                        [version |-> version[t], generation |-> round[t]]]
    /\ UNCHANGED <<round, version>>

Abandon(t) ==
    /\ open[t]
    /\ open' = [open EXCEPT ![t] = FALSE]
    /\ UNCHANGED <<round, version, published>>

Next ==
    \/ \E t \in Targets :
         \/ \E v \in Versions : Begin(t, v)
         \/ Publish(t)
         \/ Abandon(t)
    \/ \E T \in SUBSET Targets : HandOver(T)

Spec == Init /\ [][Next]_vars
=============================================================================
