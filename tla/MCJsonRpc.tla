------------------------------ MODULE MCJsonRpc ------------------------------
(* A small instance of JsonRpc. *)
EXTENDS JsonRpc

\* Every method with all forms of params, one request at a time.
Requests == {NoSuchMethod} \cup UNION {RequestsOf(m, {1}) : m \in DOMAIN Parameters}
Singles == {<<r>> : r \in Requests}

\* Batches of transactions, reads, executions and notifications.
Sent(method, id) ==
    [method |-> method, params |-> Named(Parameters[method]), id |-> id]
Transaction(id) == Sent("starknet_addInvokeTransaction", id)
Malformed == [Transaction(1) EXCEPT !.params = Absent]
Pairs ==
    {<<>>,
     <<Transaction(None), Transaction(2)>>,
     <<Malformed, Transaction(None)>>,
     <<Sent("starknet_call", None), Transaction(2)>>}

\* The first caller sends one of them; the second, if there is one, a read.
MCBodies(c) ==
    IF c = CHOOSE d \in Conns : TRUE THEN Singles \cup Pairs
    ELSE {<<Sent("starknet_getNonce", 7)>>}
=============================================================================
