-------------------------- MODULE CompletionService --------------------------
(***************************************************************************)
(* What an application is promised about the completions of a connection,  *)
(* without channels, events and arming: completions arrive in a CQ, the    *)
(* application collects none before it arrived and none twice, and as long *)
(* as it keeps waiting it gets each of them.                               *)
(***************************************************************************)
EXTENDS Naturals

CONSTANT Cqs

VARIABLES
    produced,   \* completions that arrived in each CQ
    collected,  \* completions the application got from each CQ
    open        \* the CQs the application still waits for

vars == <<produced, collected, open>>

Init ==
    /\ produced = [c \in Cqs |-> 0]
    /\ collected = [c \in Cqs |-> 0]
    /\ open = Cqs

Produce(c) ==
    /\ produced' = [produced EXCEPT ![c] = @ + 1]
    /\ UNCHANGED <<collected, open>>

Collect(c) ==
    /\ c \in open
    /\ \E n \in 1..(produced[c] - collected[c]) : collected' = [collected EXCEPT ![c] = @ + n]
    /\ UNCHANGED <<produced, open>>

Leave ==
    /\ open' \in SUBSET open
    /\ UNCHANGED <<produced, collected>>

Next == Leave \/ \E c \in Cqs : Produce(c) \/ Collect(c)

Spec == Init /\ [][Next]_vars /\ \A c \in Cqs : WF_vars(Collect(c))
=============================================================================
