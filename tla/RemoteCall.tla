------------------------------ MODULE RemoteCall ------------------------------
(***************************************************************************)
(* What a caller may rely on when it asks a remote node for something that *)
(* must not happen twice: the node runs the call at most once, it has run  *)
(* it if it was answered, never if it was refused, and if the call failed  *)
(* or the caller went away it may have, or may still.                      *)
(***************************************************************************)
EXTENDS Naturals

CONSTANT Calls

VARIABLES
    state,  \* of a call: "none", "open", "refused", "answered", "failed", "dropped"
    runs    \* how often the node has run it

vars == <<state, runs>>

Init ==
    /\ state = [x \in Calls |-> "none"]
    /\ runs = [x \in Calls |-> 0]

Becomes(x, from, to) ==
    /\ state[x] = from
    /\ state' = [state EXCEPT ![x] = to]
    /\ UNCHANGED runs

Open(x) == Becomes(x, "none", "open")
Refuse(x) == Becomes(x, "none", "refused")
Answer(x) == runs[x] = 1 /\ Becomes(x, "open", "answered")
Fail(x) == Becomes(x, "open", "failed")
Drop(x) == Becomes(x, "open", "dropped")

Run(x) ==
    /\ state[x] \in {"open", "failed", "dropped"}
    /\ runs[x] = 0
    /\ runs' = [runs EXCEPT ![x] = 1]
    /\ UNCHANGED state

Next == \E x \in Calls : Open(x) \/ Refuse(x) \/ Answer(x) \/ Fail(x) \/ Drop(x) \/ Run(x)

Spec == Init /\ [][Next]_vars
=============================================================================
