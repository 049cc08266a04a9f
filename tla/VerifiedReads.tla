---------------------------- MODULE VerifiedReads ----------------------------
(***************************************************************************)
(* What a caller may rely on who asks the light client for storage.  There *)
(* are blocks that are settled, and none of them is ever replaced.  The    *)
(* server begins with one of them as its current block and stays with it;  *)
(* a request is answered once, with the storage of the block that it means *)
(* as the server knows the blocks up to its own, or it is refused.  There  *)
(* are no calls, replicas, roots and proofs here, and no block that may    *)
(* yet be replaced: LightClient has them.                                  *)
(***************************************************************************)
EXTENDS Integers

CONSTANTS
    Requests,    \* the requests a server is handling
    BlockIds,    \* what they may ask for
    Storage(_),  \* the value of the storage asked for, in a block
    None         \* nothing asked, or nothing answered

VARIABLES
    settled,     \* the settled blocks, by number
    current,     \* the number of the server's block; 0 until it serves
    request      \* of each request its status, what was asked and the answer

vars == <<settled, current, request>>

NoRequest == [status |-> "none", asked |-> None, value |-> None]

\* More blocks are settled.
Settle ==
    /\ \A n \in DOMAIN settled : n \in DOMAIN settled' /\ settled'[n] = settled[n]
    /\ UNCHANGED <<current, request>>

Begin ==
    /\ current = 0
    /\ current' \in DOMAIN settled
    /\ UNCHANGED <<settled, request>>

Becomes(r, new) ==
    /\ request' = [request EXCEPT ![r] = new]
    /\ UNCHANGED <<settled, current>>

Ask(r) ==
    /\ current # 0
    /\ request[r].status = "none"
    /\ \E id \in BlockIds : Becomes(r, [status |-> "open", asked |-> id, value |-> None])

\* The id means the block n: what is later than the server's block means that one.
Means(id, n) ==
    \/ id.type = "latest" /\ n = current
    \/ id.type = "number" /\ id.number < current /\ n = id.number
    \/ id.type = "number" /\ id.number >= current /\ n = current
    \/ id.type = "hash" /\ settled[n] = id.hash

Answer(r) ==
    /\ request[r].status = "open"
    /\ \E n \in 1 .. current :
        /\ Means(request[r].asked, n)
        /\ Becomes(r, [status |-> "answered", asked |-> request[r].asked,
                       value |-> Storage(settled[n])])

Refuse(r) ==
    /\ request[r].status = "open"
    /\ Becomes(r, [request[r] EXCEPT !.status = "refused"])

\* The caller has its answer; the next request may come.
Finish(r) ==
    /\ request[r].status \in {"answered", "refused"}
    /\ Becomes(r, NoRequest)

Init ==
    /\ 1 \in DOMAIN settled
    /\ current = 0
    /\ request = [r \in Requests |-> NoRequest]

Next ==
    \/ Settle
    \/ Begin
    \/ \E r \in Requests : Ask(r) \/ Answer(r) \/ Refuse(r) \/ Finish(r)

Spec == Init /\ [][Next]_vars
=============================================================================
