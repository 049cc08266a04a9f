------------------------------- MODULE RpcWire -------------------------------
(***************************************************************************)
(* A document on its way through the light client: a sender writes it as   *)
(* a variant of a type (an answer of the node, a parameter of a caller),   *)
(* the server reads it and writes it again (lightclientservice/src/gen.rs),*)
(* and the receiver reads what the server wrote.  Before it is read the    *)
(* document may change, as the documents of another version of the RPC     *)
(* interface differ: a field has another value, is missing, or is new.     *)
(***************************************************************************)
EXTENDS RpcTypes

CONSTANTS
    Changed,    \* the values a field is changed to
    MaxChanges  \* bound: how many fields change

ASSUME RpcWireAssumption == MaxChanges \in Nat

VARIABLES
    type,      \* index of the type
    variant,   \* the variant the sender wrote
    doc,       \* the document
    changes,   \* number of changes made
    read,      \* the variant the server read; 0 if it refused the document
    passed,    \* the document the server wrote
    received   \* the variant the receiver read

vars == <<type, variant, doc, changes, read, passed, received>>

Unread == -1
Refused == 0
-----------------------------------------------------------------------------
(* Reading and writing. *)

Fields(s) == DOMAIN s.req \cup DOMAIN s.opt

\* #[derive(Deserialize)] of a struct: every field it requires has a value of
\* its type, every optional one is absent, null or such a value, and other
\* fields are skipped.  A scalar is no object.
Reads(s, d) ==
    /\ "" \in DOMAIN d <=> "" \in DOMAIN s.req
    /\ \A f \in DOMAIN s.req : f \in DOMAIN d /\ d[f] \in s.req[f]
    /\ \A f \in DOMAIN s.opt : f \in DOMAIN d => d[f] \in s.opt[f] \cup {"null"}

\* #[serde(untagged)]: the first variant that reads the document.
Decode(u, d) ==
    IF \E i \in DOMAIN u : Reads(u[i], d)
    THEN CHOOSE i \in DOMAIN u : Reads(u[i], d) /\ \A j \in 1 .. i - 1 : ~Reads(u[j], d)
    ELSE Refused

\* Mutant: the tag of a struct is read but not written.
WrittenUntagged(s, d) ==
    Restrict(d, {f \in (DOMAIN d \cap Fields(s)) \ {"type"} :
                    f \in DOMAIN s.req \/ d[f] # "null"})

\* #[derive(Serialize)] with skip_serializing_if = "Option::is_none".
Written(s, d) ==
    Restrict(d, {f \in DOMAIN d \cap Fields(s) : f \in DOMAIN s.req \/ d[f] # "null"})
-----------------------------------------------------------------------------
(* The parties. *)

\* What a sender writes as a struct: all optional fields, or none.
Examples(s) ==
    {[f \in opt \cup DOMAIN s.req |->
        CHOOSE v \in (IF f \in DOMAIN s.req THEN s.req[f] ELSE s.opt[f]) : TRUE] :
     opt \in {{}, DOMAIN s.opt}}

Init ==
    /\ type \in DOMAIN Types
    /\ variant \in DOMAIN Types[type]
    /\ doc \in Examples(Types[type][variant])
    /\ changes = 0
    /\ read = Unread
    /\ passed = <<>>
    /\ received = Unread

Change(d) ==
    /\ read = Unread
    /\ changes < MaxChanges
    /\ doc' = d
    /\ changes' = changes + 1
    /\ UNCHANGED <<type, variant, read, passed, received>>

ChangeValue(f, v) == Change([doc EXCEPT ![f] = v])
LeaveOut(f) == Change(Restrict(doc, DOMAIN doc \ {f}))
AddField(f, v) == "" \notin DOMAIN doc /\ f \notin DOMAIN doc /\ Change(Merged(doc, [x \in {f} |-> v]))

\* A field of another variant: how the answers of two methods, or of two
\* versions of one, get mixed up.
FieldsOfOthers == UNION {DOMAIN Types[type][i].req : i \in DOMAIN Types[type]}

Relay ==
    /\ read = Unread
    /\ read' = Decode(Types[type], doc)
    /\ passed' = IF read' = Refused THEN <<>> ELSE Written(Types[type][read'], doc)
    /\ UNCHANGED <<type, variant, doc, changes, received>>

Receive ==
    /\ read \notin {Unread, Refused}
    /\ received = Unread
    /\ received' = Decode(Types[type], passed)
    /\ UNCHANGED <<type, variant, doc, changes, read, passed>>

Next ==
    \/ \E f \in DOMAIN doc, v \in Changed : ChangeValue(f, v)
    \/ \E f \in DOMAIN doc : LeaveOut(f)
    \/ \E f \in FieldsOfOthers, v \in Changed : AddField(f, v)
    \/ Relay
    \/ Receive

Spec == Init /\ [][Next]_vars
-----------------------------------------------------------------------------
(* Properties. *)

Conforms ==
    /\ Reads(Types[type][variant], doc)
    /\ DOMAIN doc \subseteq Fields(Types[type][variant])

\* A document that conforms to the variant it was written as is read as that
\* variant, whatever variants are tried before it, and nothing but its null
\* fields is lost (the order of the variants in gen.rs's untagged enums).
ConformingArrives ==
    read # Unread /\ Conforms =>
        /\ read = variant
        /\ passed = Restrict(doc, {f \in DOMAIN doc : doc[f] # "null"})

\* What the server took as one variant the receiver takes as the same one:
\* nothing the server leaves out when it writes was what told them apart.
BothEndsReadAlike == received # Unread => received = read

Tags == {"type", "version"}
KeepsTags ==
    /\ DOMAIN doc \subseteq Fields(Types[type][variant])
    /\ \A f \in Tags \cap DOMAIN doc : doc[f] \in Types[type][variant].req[f]

WithPending ==
    {GetBlockWithTxHashesResult, GetBlockWithTxsResult, GetTransactionReceiptResult,
     GetStateUpdateResult}

\* A document with missing or wrong fields, but the tags and no other fields
\* than those of its variant, is refused or read as that variant, with two
\* exceptions: a settled block, receipt or state update is read as a pending
\* one, and the trace of a call as that of a revert for no reason.
OnlyPendingIsMisread ==
    /\ read \notin {Unread, Refused, variant}
    /\ KeepsTags
    => Types[type] \in WithPending \cup {InvokeTxnTraceExecuteInvocation}
=============================================================================
