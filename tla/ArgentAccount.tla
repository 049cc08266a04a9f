--------------------------- MODULE ArgentAccount ---------------------------
(***************************************************************************)
(* The smart account of the phone: an owner, a guardian, a backup guardian *)
(* and the escape that lets one of the two parties replace the other after *)
(* a security period (snphone-contracts/src/argent/argent_account.cairo).  *)
(*                                                                         *)
(* A step is one transaction as the sequencer runs it, or a later block.   *)
(* A transaction arrives by __validate__ ("validate": the account pays, a  *)
(* revert of __execute__ keeps what __validate__ wrote) or by              *)
(* execute_from_outside ("outside": somebody else pays and a revert undoes *)
(* everything, so it is no step).  A signature is the signer that made it; *)
(* the fee and tip caps, which read nothing but the transaction, restrict  *)
(* the inputs.  Calls to other contracts and multicalls leave the state    *)
(* alone: a multicall may not call the account.                            *)
(***************************************************************************)
EXTENDS Integers, Sequences, FiniteSets

CONSTANTS
    Keys,                           \* stored values a signer can have
    Zero,                           \* the stored value of an empty slot
    None,                           \* Option::None where a signer may be
    SignerType,                     \* the kinds of signer
    Starknet,                       \* the kind a guardian is restricted to
    OrderedTypes,                   \* owner_ordered_types, guardian_ordered_types
    Paths,                          \* the ways a transaction arrives
    Periods,                        \* bound: the security periods asked for
    MIN_ESCAPE_SECURITY_PERIOD,
    DEFAULT_ESCAPE_SECURITY_PERIOD,
    TIME_BETWEEN_TWO_ESCAPES,
    HOUR,                           \* __validate__ sees the time rounded to it
    U64_MAX,                        \* largest u64
    StartTime,                      \* time of the block that deploys
    MaxTime                         \* bound: the last block's time

ASSUME SignerAssumption ==
    /\ Zero \notin Keys
    /\ None \notin [signer_type : SignerType, stored_value : Keys]
    /\ Starknet \in SignerType
    /\ OrderedTypes \in Seq(SignerType)
    /\ \A t \in SignerType : \E i \in 1 .. Len(OrderedTypes) : OrderedTypes[i] = t
    /\ \A i, j \in 1 .. Len(OrderedTypes) : OrderedTypes[i] = OrderedTypes[j] => i = j

\* A timestamp is seconds since 1970 and a u64 lasts for 584 billion years, so
\* that no block's time reaches the half of it.
ASSUME TimeAssumption ==
    /\ {MIN_ESCAPE_SECURITY_PERIOD, DEFAULT_ESCAPE_SECURITY_PERIOD, HOUR} \subseteq Nat \ {0}
    /\ {TIME_BETWEEN_TWO_ESCAPES, U64_MAX, StartTime, MaxTime} \subseteq Nat
    /\ DEFAULT_ESCAPE_SECURITY_PERIOD \in MIN_ESCAPE_SECURITY_PERIOD .. U64_MAX
    /\ Periods \subseteq 0 .. U64_MAX
    /\ Paths \subseteq {"validate", "outside"}
    /\ TIME_BETWEEN_TWO_ESCAPES % HOUR = 0
    /\ TIME_BETWEEN_TWO_ESCAPES + HOUR <= StartTime
    /\ StartTime <= MaxTime
    /\ 2 * MaxTime <= U64_MAX

VARIABLES
    signer,                  \* _signer and _signer_non_stark
    guardian,                \* _guardian
    guardian_backup,         \* _guardian_backup and _guardian_backup_non_stark
    escape,                  \* _escape
    attempts,                \* the four last_*_attempt fields
    escape_security_period,  \* 0 stands for the default
    now,                     \* get_block_timestamp() in __execute__
    \* History of the run, which no action of the account reads:
    signed,                  \* who signed the transaction this state is from
    triggered,               \* what the account was when the escape began
    paid,                    \* when the account last paid for each attempt
    forgotten                \* the attempts forgotten since they were paid for

storage == <<signer, guardian, guardian_backup, escape, escape_security_period>>
history == <<paid, forgotten>>
vars == <<storage, attempts, now, signed, triggered, history>>

Slots == [SignerType -> Keys \cup {Zero}]
Signer == [signer_type : SignerType, stored_value : Keys]
OptionSigner == Signer \cup {None}
StarknetSigner == [signer_type : {Starknet}, stored_value : Keys]

Escape == [ready_at : 0 .. U64_MAX, escape_type : {"None", "Owner", "Guardian"},
           new_signer : OptionSigner]
NoEscape == [ready_at |-> 0, escape_type |-> "None", new_signer |-> None]

Attempt == {"last_guardian_trigger_escape", "last_owner_trigger_escape",
            "last_guardian_escape", "last_owner_escape"}

Never == -1
-----------------------------------------------------------------------------
(* Reading and writing the signers.                                        *)

FirstSigner(slots) ==
    LET set == {i \in 1 .. Len(OrderedTypes) : slots[OrderedTypes[i]] # Zero}
    IN  IF set = {} THEN None
        ELSE LET i == CHOOSE i \in set : \A j \in set : i <= j
             IN  [signer_type |-> OrderedTypes[i], stored_value |-> slots[OrderedTypes[i]]]

\* The slots once old, if any, is cleared and new, if any, is written.
Replace(slots, old, new) ==
    [t \in SignerType |->
        IF new # None /\ new.signer_type = t THEN new.stored_value
        ELSE IF old # None /\ old.signer_type = t THEN Zero
        ELSE slots[t]]

OnlySlot(s) == Replace([t \in SignerType |-> Zero], None, s)

read_owner == FirstSigner(signer)
read_guardian_backup == FirstSigner(guardian_backup)
read_guardian ==
    IF guardian = Zero THEN None
    ELSE [signer_type |-> Starknet, stored_value |-> guardian]

is_valid_owner(s) == signer[s.signer_type] = s.stored_value
is_valid_guardian(s) == s.signer_type = Starknet /\ guardian = s.stored_value
is_valid_guardian_backup(s) == guardian_backup[s.signer_type] = s.stored_value

\* Mutant: the old owner's slot keeps its key.
write_owner_keeping_old(new) == signer' = Replace(signer, None, new)
write_owner(new) == signer' = Replace(signer, read_owner, new)

write_guardian(new) ==
    /\ new # None => new.signer_type = Starknet
    /\ guardian' = IF new = None THEN Zero ELSE new.stored_value

write_guardian_backup(new) ==
    guardian_backup' = Replace(guardian_backup, read_guardian_backup, new)
-----------------------------------------------------------------------------
(* The escape and its status.                                              *)

get_escape_security_period ==
    IF escape_security_period = 0 THEN DEFAULT_ESCAPE_SECURITY_PERIOD
    ELSE escape_security_period

\* Mutant: sums of u64 are not checked.
AnyNat(n) == TRUE
FitsU64(n) == n <= U64_MAX

\* "Panic" is the overflow of the u64 sum, which reverts the transaction.
get_escape_status(ready_at) ==
    CASE ready_at = 0 -> "None"
      [] ready_at # 0 /\ now < ready_at -> "NotReady"
      [] ready_at # 0 /\ now >= ready_at ->
            LET ends == ready_at + get_escape_security_period
            IN  IF ~FitsU64(ends) THEN "Panic"
                ELSE IF ends <= now THEN "Expired" ELSE "Ready"

status == get_escape_status(escape.ready_at)

\* The account as an escape that begins now finds it.
Parties ==
    [owner |-> read_owner, guardian |-> read_guardian, backup |-> read_guardian_backup,
     period |-> get_escape_security_period, at |-> now]

Trigger == [owner : OptionSigner, guardian : OptionSigner, backup : OptionSigner,
            period : 0 .. U64_MAX, at : 0 .. MaxTime]
NoTrigger == [owner |-> None, guardian |-> None, backup |-> None, period |-> 0, at |-> 0]

write_escape(e) ==
    /\ escape' = e
    /\ triggered' = IF e = NoEscape THEN NoTrigger ELSE Parties

\* Mutant: an escape that is already Ready survives.
reset_escape_unless_ready ==
    IF status = "NotReady" THEN write_escape(NoEscape) ELSE UNCHANGED <<escape, triggered>>
reset_escape ==
    /\ status # "Panic"
    /\ IF status = "None" THEN UNCHANGED <<escape, triggered>>
       ELSE write_escape(NoEscape)

reset_escape_timestamps == attempts' = [a \in Attempt |-> 0]

\* "Values are resets when an escape is completed or canceled": the calls that
\* start the count of the attempts afresh are a change of a role or a cancel by
\* both parties and the completion of an escape, for which the account may pay.
PaidNow(a, path) == [paid EXCEPT ![a] = IF path = "validate" THEN now ELSE @]
CountsAfresh(paid_now) ==
    /\ paid' = paid_now
    /\ forgotten' = {a \in Attempt : paid_now[a] # Never}
-----------------------------------------------------------------------------
(* Who may send what: assert_valid_calls_and_signature.                    *)

is_valid_owner_signature(s) == is_valid_owner(s)
is_valid_guardian_signature(s) == is_valid_guardian(s) \/ is_valid_guardian_backup(s)

\* The transaction is signed by s alone.
SignedByOwner(s) == is_valid_owner_signature(s) /\ signed' = {s}
SignedByGuardian(s) == is_valid_guardian_signature(s) /\ signed' = {s}

\* assert_valid_span_signature: the owner and, if one is set, a guardian.
assert_valid_span_signature(signatures) ==
    /\ Len(signatures) = (IF guardian # Zero THEN 2 ELSE 1)
    /\ is_valid_owner_signature(signatures[1])
    /\ guardian # Zero => is_valid_guardian_signature(signatures[2])

Signatures == {<<o>> : o \in Signer} \cup {<<o, g>> : o, g \in Signer}

ValidateTime == now - (now % HOUR)

\* Mutant: the two attempts may be the limit apart.
EscapeTimeAtLimit(a) == ValidateTime >= attempts[a] + TIME_BETWEEN_TWO_ESCAPES
assert_valid_escape_parameters(a) == ValidateTime > attempts[a] + TIME_BETWEEN_TWO_ESCAPES

\* What __validate__ does for an escape call before it looks at the signature.
MayAttempt(a, path) == path = "validate" => assert_valid_escape_parameters(a)
RecordAttempt(a, path) ==
    IF path = "validate"
    THEN /\ attempts' = [attempts EXCEPT ![a] = ValidateTime]
         /\ paid' = PaidNow(a, path)
         /\ forgotten' = forgotten \ {a}
    ELSE UNCHANGED <<attempts, history>>

validate_trigger_escape_owner(path, s) ==
    /\ MayAttempt("last_guardian_trigger_escape", path)
    /\ SignedByGuardian(s)

validate_escape_owner(path, s) ==
    /\ MayAttempt("last_guardian_escape", path)
    /\ escape.escape_type = "Owner"
    /\ SignedByGuardian(s)

\* Mutant: the guardian's removal is announced whatever the backup is.
validate_trigger_without_backup_check(path, s, new_guardian) ==
    /\ guardian # Zero
    /\ MayAttempt("last_owner_trigger_escape", path)
    /\ new_guardian # None => new_guardian.signer_type = Starknet
    /\ SignedByOwner(s)
validate_trigger_escape_guardian(path, s, new_guardian) ==
    /\ guardian # Zero
    /\ MayAttempt("last_owner_trigger_escape", path)
    /\ IF new_guardian = None THEN read_guardian_backup = None
       ELSE new_guardian.signer_type = Starknet
    /\ SignedByOwner(s)

validate_escape_guardian(path, s) ==
    /\ guardian # Zero
    /\ MayAttempt("last_owner_escape", path)
    /\ escape.escape_type = "Guardian"
    /\ SignedByOwner(s)
-----------------------------------------------------------------------------
(* The calls that the owner and the guardian sign together.                *)

SignedByAll(signatures) ==
    /\ assert_valid_span_signature(signatures)
    /\ signed' = {signatures[i] : i \in 1 .. Len(signatures)}

\* Mutant: only an escape that is not ready yet counts as ongoing.
NoPendingEscape == status \in {"None", "Expired", "Ready"}
NoOngoingEscape == status \in {"None", "Expired"}

\* Mutant: an expired escape is left in place.
KeepExpired == UNCHANGED <<escape, triggered>>
ClearExpired ==
    IF status = "Expired" THEN write_escape(NoEscape) ELSE UNCHANGED <<escape, triggered>>

set_escape_security_period(signatures, new_period) ==
    /\ SignedByAll(signatures)
    /\ new_period >= MIN_ESCAPE_SECURITY_PERIOD
    /\ NoOngoingEscape
    /\ ClearExpired
    /\ escape_security_period' = new_period
    /\ UNCHANGED <<signer, guardian, guardian_backup, attempts, now, history>>

\* The new owner has signed too, for the owner it replaces.
change_owner(signatures, new_owner, old_owner) ==
    /\ assert_valid_span_signature(signatures)
    /\ old_owner = read_owner
    /\ signed' = {signatures[i] : i \in 1 .. Len(signatures)} \cup {new_owner}
    /\ write_owner(new_owner)
    /\ reset_escape
    /\ reset_escape_timestamps
    /\ CountsAfresh(paid)
    /\ UNCHANGED <<guardian, guardian_backup, escape_security_period, now>>

change_guardian(signatures, new_guardian) ==
    /\ SignedByAll(signatures)
    /\ IF new_guardian = None THEN read_guardian_backup = None
       ELSE new_guardian.signer_type = Starknet
    /\ write_guardian(new_guardian)
    /\ reset_escape
    /\ reset_escape_timestamps
    /\ CountsAfresh(paid)
    /\ UNCHANGED <<signer, guardian_backup, escape_security_period, now>>

change_guardian_backup(signatures, new_guardian_backup) ==
    /\ SignedByAll(signatures)
    /\ guardian # Zero
    /\ write_guardian_backup(new_guardian_backup)
    /\ reset_escape
    /\ reset_escape_timestamps
    /\ CountsAfresh(paid)
    /\ UNCHANGED <<signer, guardian, escape_security_period, now>>

cancel_escape(signatures) ==
    /\ SignedByAll(signatures)
    /\ status # "None"
    /\ reset_escape
    /\ reset_escape_timestamps
    /\ CountsAfresh(paid)
    /\ UNCHANGED <<signer, guardian, guardian_backup, escape_security_period, now>>
-----------------------------------------------------------------------------
(* The calls of one party alone.                                           *)

\* Mutant: an escape that has not expired cannot be overridden by anyone.
BeginEscapeIfNoOther(type, new_signer) ==
    /\ NoOngoingEscape
    /\ FitsU64(now + get_escape_security_period)
    /\ write_escape([ready_at |-> now + get_escape_security_period,
                     escape_type |-> type, new_signer |-> new_signer])
    /\ UNCHANGED <<signer, guardian, guardian_backup, escape_security_period, now>>
BeginEscape(type, new_signer) ==
    /\ status # "Panic"
    /\ FitsU64(now + get_escape_security_period)
    /\ write_escape([ready_at |-> now + get_escape_security_period,
                     escape_type |-> type, new_signer |-> new_signer])
    /\ UNCHANGED <<signer, guardian, guardian_backup, escape_security_period, now>>

\* Mutant: the guardian may override whatever escape there is.
OwnerEscapeMayAlwaysBegin == TRUE
OwnerEscapeMayBegin == escape.escape_type = "Guardian" => status = "Expired"

trigger_escape_owner(path, s, new_owner) ==
    /\ validate_trigger_escape_owner(path, s)
    /\ OwnerEscapeMayBegin
    /\ BeginEscape("Owner", new_owner)
    /\ RecordAttempt("last_guardian_trigger_escape", path)

trigger_escape_guardian(path, s, new_guardian) ==
    /\ validate_trigger_escape_guardian(path, s, new_guardian)
    /\ BeginEscape("Guardian", new_guardian)
    /\ RecordAttempt("last_owner_trigger_escape", path)

\* Mutant: an escape completes whatever its status.
SomeEscape == status # "None"
EscapeIsReady == status = "Ready"

escape_owner(path, s) ==
    /\ validate_escape_owner(path, s)
    /\ EscapeIsReady
    /\ reset_escape_timestamps
    /\ CountsAfresh(PaidNow("last_guardian_escape", path))
    /\ write_owner(escape.new_signer)
    /\ write_escape(NoEscape)
    /\ UNCHANGED <<guardian, guardian_backup, escape_security_period, now>>

escape_guardian(path, s) ==
    /\ validate_escape_guardian(path, s)
    /\ EscapeIsReady
    /\ reset_escape_timestamps
    /\ CountsAfresh(PaidNow("last_owner_escape", path))
    /\ write_guardian(escape.new_signer)
    /\ write_escape(NoEscape)
    /\ UNCHANGED <<signer, guardian_backup, escape_security_period, now>>

\* The same four calls once __execute__ reverted, for the handler's assertion
\* or for want of gas: only what __validate__ wrote is left.
Reverted(a) ==
    /\ RecordAttempt(a, "validate")
    /\ UNCHANGED <<storage, now, triggered>>

trigger_escape_owner_reverted(s) ==
    validate_trigger_escape_owner("validate", s) /\ Reverted("last_guardian_trigger_escape")
escape_owner_reverted(s) ==
    validate_escape_owner("validate", s) /\ Reverted("last_guardian_escape")
trigger_escape_guardian_reverted(s, new_guardian) ==
    /\ validate_trigger_escape_guardian("validate", s, new_guardian)
    /\ Reverted("last_owner_trigger_escape")
escape_guardian_reverted(s) ==
    validate_escape_guardian("validate", s) /\ Reverted("last_owner_escape")
-----------------------------------------------------------------------------
\* A later block, whose time is the next one.
Tick ==
    /\ now < MaxTime
    /\ now' = now + 1
    /\ signed' = {}
    /\ UNCHANGED <<storage, attempts, triggered, history>>

\* constructor
Init ==
    /\ signer \in {OnlySlot(owner) : owner \in Signer}
    /\ guardian \in Keys \cup {Zero}
    /\ guardian_backup = [t \in SignerType |-> Zero]
    /\ escape = NoEscape
    /\ attempts = [a \in Attempt |-> 0]
    /\ escape_security_period = 0
    /\ now = StartTime
    /\ signed = {}
    /\ triggered = NoTrigger
    /\ paid = [a \in Attempt |-> Never]
    /\ forgotten = {}

SharedCall ==
    \E signatures \in Signatures :
        \/ \E p \in Periods : set_escape_security_period(signatures, p)
        \/ \E new, old \in Signer : change_owner(signatures, new, old)
        \/ \E new \in OptionSigner : change_guardian(signatures, new)
        \/ \E new \in OptionSigner : change_guardian_backup(signatures, new)
        \/ cancel_escape(signatures)

LoneCall ==
    \E s \in Signer, path \in Paths :
        \/ \E new \in Signer : trigger_escape_owner(path, s, new)
        \/ \E new \in OptionSigner : trigger_escape_guardian(path, s, new)
        \/ escape_owner(path, s)
        \/ escape_guardian(path, s)

RevertedCall ==
    /\ "validate" \in Paths
    /\ \E s \in Signer :
        \/ trigger_escape_owner_reverted(s)
        \/ \E new \in OptionSigner : trigger_escape_guardian_reverted(s, new)
        \/ escape_owner_reverted(s)
        \/ escape_guardian_reverted(s)

Next == SharedCall \/ LoneCall \/ RevertedCall \/ Tick

Spec == Init /\ [][Next]_vars
-----------------------------------------------------------------------------
(* What the account promises.                                              *)

\* Every field holds a value of its type; a u64 never exceeds 64 bits.
TypeOK ==
    /\ signer \in Slots
    /\ guardian \in Keys \cup {Zero}
    /\ guardian_backup \in Slots
    /\ escape \in Escape
    /\ attempts \in [Attempt -> 0 .. MaxTime]
    /\ escape_security_period \in 0 .. U64_MAX
    /\ now \in StartTime .. MaxTime
    /\ signed \in SUBSET Signer
    /\ triggered \in Trigger
    /\ paid \in [Attempt -> {Never} \cup (StartTime .. MaxTime)]
    /\ forgotten \subseteq Attempt

\* Exactly one signer is the owner, whatever kinds of signer the owners so far
\* were: no earlier owner of another kind can sign any more (write_owner).
OneOwner == \E s \in Signer : signer = OnlySlot(s)

\* At most one backup is set and there is none without a guardian, although an
\* escape removes a guardian long after the absence of a backup was checked.
BackupNeedsGuardian ==
    /\ \E s \in OptionSigner : guardian_backup = OnlySlot(s)
    /\ read_guardian_backup # None => guardian # Zero

\* The escape that is stored can be completed as it stands: an owner's escape
\* names a signer (escape_owner unwraps it), a guardian's names one of the type
\* a guardian must have, or none while there is no backup.
EscapeCanComplete ==
    /\ escape.ready_at = 0 <=> escape.escape_type = "None"
    /\ escape.escape_type = "None" => escape = NoEscape
    /\ escape.escape_type = "Owner" => escape.new_signer \in Signer
    /\ escape.escape_type = "Guardian" =>
          \/ escape.new_signer \in StarknetSigner
          \/ escape.new_signer = None /\ read_guardian_backup = None

\* While an escape is stored the owner, the guardian, the backup and the period
\* are those of its trigger: whatever changes one of them ends the escape.
EscapeSeesUnchangedParties ==
    escape.escape_type # "None" =>
        /\ guardian # Zero
        /\ Parties = [triggered EXCEPT !.at = now]
        /\ escape.ready_at = triggered.at + triggered.period

\* The status of the stored escape can always be computed: an overflow there
\* would revert every change of a signer, every escape and every cancel.
StatusNeverPanics == status # "Panic"

Zeroed == \A a \in Attempt : attempts[a] = 0
Ongoing == status \in {"NotReady", "Ready"}

\* An escape that has expired is never revived, whatever happens to the period.
ExpiredStaysExpired ==
    [][status = "Expired" /\ escape' = escape => status' = "Expired"]_vars

BothSigned ==
    /\ \E s \in Signer : is_valid_owner_signature(s) /\ s \in signed'
    /\ guardian # Zero => \E s \in Signer : is_valid_guardian_signature(s) /\ s \in signed'

\* The escape of the given type to new was announced a whole period ago, under
\* the period, the owner and the guardians that are still those of the account,
\* and less than two periods ago.
AnnouncedInTime(type, new) ==
    /\ escape.escape_type = type
    /\ escape.new_signer = new
    /\ Parties = [triggered EXCEPT !.at = now]
    /\ triggered.at + triggered.period <= now
    /\ now < triggered.at + 2 * triggered.period

\* A signer, the backup or the period changes only by a transaction that the
\* owner and a guardian signed, or, for the owner and the guardian, to the
\* signer that the other party announced, once the security period is over and
\* before it is over twice.
RolesChangeTogetherOrAnnounced ==
    [][/\ signer' # signer =>
            \/ BothSigned /\ read_owner' \in signed'
            \/ AnnouncedInTime("Owner", read_owner')
       /\ guardian' # guardian =>
            BothSigned \/ AnnouncedInTime("Guardian", read_guardian')
       /\ <<guardian_backup, escape_security_period>>' # <<guardian_backup, escape_security_period>>
            => BothSigned]_vars

\* "Cannot override an ongoing escape of the guardian": until it expires, no
\* transaction without the owner's signature ends or replaces it.
GuardianEscapeNeedsOwner ==
    [][escape.escape_type = "Guardian" /\ Ongoing /\ escape' # escape =>
          \E s \in Signer : is_valid_owner_signature(s) /\ s \in signed']_vars

\* "Can override an ongoing escape of the owner": while a guardian could take
\* the account over, the owner alone can replace its escape: neither a check of
\* the ongoing escape nor a sum that overflows stands in the way.
OwnerCanAnswer ==
    escape.escape_type = "Owner" /\ status = "Ready" /\ "outside" \in Paths =>
        \A new \in StarknetSigner :
            ENABLED trigger_escape_guardian("outside", read_owner, new)

\* "Limit to one escape every X hours": the account pays again for an attempt
\* of a kind only when it is really so long since it last paid for that kind,
\* although __validate__ sees each time rounded down to the hour.  The one
\* exception is named by the code: an attempt that was paid for before both
\* parties changed a role or canceled an escape, or before an escape was
\* completed, is forgotten, and the next one may follow at once.  A trigger, its
\* replacement by another, a change of the period and an execution that reverts
\* are no such exception.
PaidAttemptsSpaced ==
    [][\A a \in Attempt :
          paid[a] # Never /\ a \notin forgotten /\ paid'[a] # paid[a] =>
              paid'[a] - paid[a] >= TIME_BETWEEN_TWO_ESCAPES]_vars

\* The escape as its parties see it: one that has expired is none.
Announcement ==
    IF Ongoing
    THEN [for |-> escape.escape_type, new |-> escape.new_signer, opens |-> escape.ready_at,
          closes |-> escape.ready_at + get_escape_security_period]
    ELSE [for |-> "None", new |-> None, opens |-> 0, closes |-> 0]

Recovery == INSTANCE AccountRecovery WITH
    Signers <- Signer, GuardianSigners <- StarknetSigner,
    DefaultPeriod <- DEFAULT_ESCAPE_SECURITY_PERIOD,
    MinPeriod <- MIN_ESCAPE_SECURITY_PERIOD, Start <- StartTime,
    owner <- read_owner, guardian <- read_guardian, backup <- read_guardian_backup,
    period <- get_escape_security_period, announcement <- Announcement, by <- signed

\* Whatever the account stores, its parties see an account of AccountRecovery:
\* every transaction is one that both signed, an announcement, its completion in
\* time, or one without effect (all of argent_account.cairo's entry points).
ImplementsRecovery == Recovery!Spec

\* "Values are resets when an escape is completed or canceled": after a step
\* that ends an escape which had not expired, no attempt is remembered.
AttemptsResetWithEscape ==
    [][escape.escape_type # "None" /\ Ongoing /\ escape' # escape => Zeroed']_vars
=============================================================================
