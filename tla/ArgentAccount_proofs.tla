------------------------ MODULE ArgentAccount_proofs ------------------------
(***************************************************************************)
(* What ArgentAccount promises, proved for every set of keys, kinds of     *)
(* signer, period and length of the run: its invariants, what a step may   *)
(* never do, and, last, that it implements AccountRecovery.                *)
(***************************************************************************)
EXTENDS ArgentAccount, TLAPS

-----------------------------------------------------------------------------
(* The slots of a role that at most one signer holds.                      *)

\* Only the slot of the signer's kind is filled.
LEMMA OnlySlotValue ==
    ASSUME NEW s \in OptionSigner
    PROVE  OnlySlot(s) = [t \in SignerType |->
                            IF s # None /\ s.signer_type = t THEN s.stored_value ELSE Zero]
BY DEF OnlySlot, Replace

LEMMA OnlySlotType ==
    ASSUME NEW s \in OptionSigner
    PROVE  OnlySlot(s) \in Slots
BY OnlySlotValue, SignerAssumption DEF Slots, OptionSigner, Signer

\* The loop over the ordered types finds the one signer there is.
LEMMA FirstSignerOfOnlySlot ==
    ASSUME NEW s \in OptionSigner
    PROVE  FirstSigner(OnlySlot(s)) = s
<1> DEFINE set == {i \in 1 .. Len(OrderedTypes) : OnlySlot(s)[OrderedTypes[i]] # Zero}
<1>1. \A i \in 1 .. Len(OrderedTypes) : OrderedTypes[i] \in SignerType
  BY SignerAssumption
<1>2. CASE s = None
  <2>1. set = {}
    BY <1>1, <1>2, OnlySlotValue
  <2> QED BY <2>1, <1>2 DEF FirstSigner
<1>3. CASE s # None
  <2>1. s \in Signer
    BY <1>3 DEF OptionSigner
  <2>2. PICK i \in 1 .. Len(OrderedTypes) : OrderedTypes[i] = s.signer_type
    BY <2>1, SignerAssumption DEF Signer
  <2>3. \A j \in 1 .. Len(OrderedTypes) : OnlySlot(s)[OrderedTypes[j]] # Zero <=> j = i
    <3>1. s.stored_value # Zero /\ s.signer_type \in SignerType
      BY <2>1, SignerAssumption DEF Signer
    <3>2. ASSUME NEW j \in 1 .. Len(OrderedTypes)
          PROVE  OnlySlot(s)[OrderedTypes[j]]
                    = IF s.signer_type = OrderedTypes[j] THEN s.stored_value ELSE Zero
      BY <1>1, <1>3, OnlySlotValue
    <3>3. \A j \in 1 .. Len(OrderedTypes) : OrderedTypes[j] = s.signer_type <=> j = i
      BY <2>2, SignerAssumption
    <3> QED BY <3>1, <3>2, <3>3
  <2>4. set = {i}
    BY <2>2, <2>3
  <2>5. (CHOOSE k \in set : \A j \in set : k <= j) = i
    BY <2>4
  <2>6. OnlySlot(s)[OrderedTypes[i]] = s.stored_value
    BY <1>1, <1>3, <2>1, <2>2, OnlySlotValue
  <2> HIDE DEF set
  <2>7. FirstSigner(OnlySlot(s)) = [signer_type |-> OrderedTypes[i],
                                    stored_value |-> OnlySlot(s)[OrderedTypes[i]]]
    BY <2>4, <2>5 DEF FirstSigner, set
  <2> QED BY <2>1, <2>2, <2>6, <2>7 DEF Signer
<1> QED BY <1>2, <1>3

\* Clearing the slot of the old signer and writing the new one leaves only it.
LEMMA ReplaceOnlySlot ==
    ASSUME NEW old \in OptionSigner, NEW new \in OptionSigner
    PROVE  Replace(OnlySlot(old), old, new) = OnlySlot(new)
BY OnlySlotValue DEF Replace
-----------------------------------------------------------------------------
(* The inductive invariant.  An escape completes in the state of a much    *)
(* later transaction than the one that checked it, so that each part of    *)
(* it needs the others: that the escape sees the parties of its trigger    *)
(* keeps the slots single and the backup guarded when it completes.        *)

IInv ==
    /\ TypeOK
    /\ OneOwner
    /\ BackupNeedsGuardian
    /\ EscapeCanComplete
    /\ EscapeSeesUnchangedParties

\* In every state of the invariant the slots and what is read from them agree.
LEMMA Readers ==
    ASSUME IInv
    PROVE  /\ read_owner \in Signer
           /\ signer = OnlySlot(read_owner)
           /\ read_guardian_backup \in OptionSigner
           /\ guardian_backup = OnlySlot(read_guardian_backup)
           /\ read_guardian \in OptionSigner
           /\ read_guardian = None <=> guardian = Zero
           /\ get_escape_security_period \in 1 .. U64_MAX
           /\ Parties \in Trigger
<1>1. read_owner \in Signer /\ signer = OnlySlot(read_owner)
  <2>1. PICK s \in Signer : signer = OnlySlot(s)
    BY DEF IInv, OneOwner
  <2> QED BY <2>1, FirstSignerOfOnlySlot DEF read_owner, OptionSigner
<1>2. read_guardian_backup \in OptionSigner /\ guardian_backup = OnlySlot(read_guardian_backup)
  <2>1. PICK s \in OptionSigner : guardian_backup = OnlySlot(s)
    BY DEF IInv, BackupNeedsGuardian
  <2> QED BY <2>1, FirstSignerOfOnlySlot DEF read_guardian_backup
<1>3. read_guardian \in OptionSigner /\ (read_guardian = None <=> guardian = Zero)
  BY SignerAssumption DEF IInv, TypeOK, read_guardian, OptionSigner, Signer
<1>4. get_escape_security_period \in 1 .. U64_MAX
  BY TimeAssumption DEF IInv, TypeOK, get_escape_security_period
<1>5. Parties \in Trigger
  BY <1>1, <1>2, <1>3, <1>4, TimeAssumption DEF IInv, TypeOK, Parties, Trigger, OptionSigner
<1> QED BY <1>1, <1>2, <1>3, <1>4, <1>5

\* The status of the stored escape; an overflow would need a time past u64's half.
LEMMA StatusValues ==
    ASSUME IInv
    PROVE  /\ status \in {"None", "NotReady", "Ready", "Expired"}
           /\ status = "None" <=> escape.ready_at = 0
           /\ status = "None" <=> escape.escape_type = "None"
           /\ status = "None" => escape = NoEscape
<1> DEFINE period == get_escape_security_period
<1>1. escape.ready_at \in Nat /\ now \in Nat /\ now <= MaxTime /\ period \in Nat
  BY Readers, TimeAssumption DEF IInv, TypeOK, Escape
<1>2. CASE escape.ready_at = 0
  BY <1>2 DEF status, get_escape_status, IInv, EscapeCanComplete
<1>3. CASE escape.ready_at # 0 /\ now < escape.ready_at
  BY <1>1, <1>3 DEF status, get_escape_status, IInv, EscapeCanComplete
<1>4. CASE escape.ready_at # 0 /\ now >= escape.ready_at
  <2>1. escape.escape_type # "None"
    BY <1>4 DEF IInv, EscapeCanComplete
  <2>2. triggered \in Trigger
    BY DEF IInv, TypeOK
  <2>3. period = triggered.period /\ escape.ready_at = triggered.at + triggered.period
    BY <2>1, <2>2 DEF IInv, EscapeSeesUnchangedParties, Parties, Trigger
  <2>4. triggered.at \in Nat
    BY <2>2 DEF Trigger
  <2>5. FitsU64(escape.ready_at + period)
    BY <1>1, <1>4, <2>3, <2>4, TimeAssumption DEF FitsU64
  <2> QED BY <1>1, <1>4, <2>1, <2>5 DEF status, get_escape_status
<1> QED BY <1>1, <1>2, <1>3, <1>4

\* The constructor's state.
LEMMA InitInvariant == Init => IInv
<1> SUFFICES ASSUME Init PROVE IInv
  OBVIOUS
<1>1. PICK owner \in Signer : signer = OnlySlot(owner)
  BY DEF Init
<1>2. guardian_backup = OnlySlot(None)
  BY OnlySlotValue DEF Init, OptionSigner
<1>3. TypeOK
  <2>1. signer \in Slots /\ guardian_backup \in Slots
    BY <1>1, <1>2, OnlySlotType DEF OptionSigner
  <2>2. escape \in Escape
    BY TimeAssumption DEF Init, NoEscape, Escape, OptionSigner
  <2>3. triggered \in Trigger
    BY TimeAssumption DEF Init, NoTrigger, Trigger, OptionSigner
  <2>4. attempts \in [Attempt -> 0 .. MaxTime]
    BY TimeAssumption DEF Init
  <2>5. now \in StartTime .. MaxTime /\ escape_security_period \in 0 .. U64_MAX
    BY TimeAssumption DEF Init
  <2> QED BY <2>1, <2>2, <2>3, <2>4, <2>5 DEF TypeOK, Init
<1>4. OneOwner
  BY <1>1 DEF OneOwner
<1>5. BackupNeedsGuardian
  <2>1. None \in OptionSigner /\ read_guardian_backup = None
    BY <1>2, FirstSignerOfOnlySlot DEF read_guardian_backup, OptionSigner
  <2> QED BY <1>2, <2>1 DEF BackupNeedsGuardian
<1>6. EscapeCanComplete /\ EscapeSeesUnchangedParties
  BY DEF Init, NoEscape, EscapeCanComplete, EscapeSeesUnchangedParties
<1> QED BY <1>3, <1>4, <1>5, <1>6 DEF IInv
-----------------------------------------------------------------------------
(* What the parts of a transaction do to the parts of the invariant.       *)

\* A role's slots hold one signer again after it is replaced.
LEMMA WriteOwner ==
    ASSUME IInv, NEW new \in Signer, write_owner(new)
    PROVE  signer' = OnlySlot(new) /\ read_owner' = new
<1>1. signer' = OnlySlot(new)
  BY Readers, ReplaceOnlySlot DEF write_owner, OptionSigner
<1>2. read_owner' = FirstSigner(OnlySlot(new))
  BY <1>1 DEF read_owner
<1> QED BY <1>1, <1>2, FirstSignerOfOnlySlot DEF OptionSigner

LEMMA WriteGuardianBackup ==
    ASSUME IInv, NEW new \in OptionSigner, write_guardian_backup(new)
    PROVE  guardian_backup' = OnlySlot(new) /\ read_guardian_backup' = new
<1>1. guardian_backup' = OnlySlot(new)
  BY Readers, ReplaceOnlySlot DEF write_guardian_backup
<1>2. read_guardian_backup' = FirstSigner(OnlySlot(new))
  BY <1>1 DEF read_guardian_backup
<1> QED BY <1>1, <1>2, FirstSignerOfOnlySlot

\* Resetting the escape leaves none, whatever its status was.
LEMMA ResetEscape ==
    ASSUME IInv, reset_escape
    PROVE  escape' = NoEscape /\ triggered' \in Trigger
<1>1. CASE status = "None"
  BY <1>1, StatusValues DEF reset_escape, IInv, TypeOK
<1>2. CASE status # "None"
  BY <1>2, TimeAssumption DEF reset_escape, write_escape, NoTrigger, Trigger, OptionSigner
<1> QED BY <1>1, <1>2

LEMMA WriteNoEscape ==
    ASSUME write_escape(NoEscape)
    PROVE  escape' = NoEscape /\ triggered' \in Trigger
BY TimeAssumption DEF write_escape, NoTrigger, Trigger, OptionSigner

LEMMA NoEscapeIsFine ==
    ASSUME escape' = NoEscape
    PROVE  escape' \in Escape /\ EscapeCanComplete' /\ EscapeSeesUnchangedParties'
BY TimeAssumption DEF NoEscape, Escape, OptionSigner, EscapeCanComplete, EscapeSeesUnchangedParties

\* The rounded time is a time.
LEMMA ValidateTimeType ==
    ASSUME now \in StartTime .. MaxTime
    PROVE  ValidateTime \in 0 .. MaxTime
<1>1. now \in Nat /\ HOUR \in Nat \ {0} /\ HOUR <= now
  BY TimeAssumption
<1>2. now % HOUR \in 0 .. (HOUR - 1)
  BY <1>1
<1>3. ASSUME NEW m \in 0 .. (HOUR - 1)
      PROVE  now - m \in 0 .. MaxTime
  BY <1>1, TimeAssumption
<1> QED BY <1>2, <1>3 DEF ValidateTime

\* The attempts and the times they were paid at, in the next state.
AttemptsFit ==
    /\ attempts' \in [Attempt -> 0 .. MaxTime]
    /\ paid' \in [Attempt -> {Never} \cup (StartTime .. MaxTime)]
    /\ forgotten' \subseteq Attempt

LEMMA PaidNowType ==
    ASSUME IInv, NEW a \in Attempt, NEW path
    PROVE  PaidNow(a, path) \in [Attempt -> {Never} \cup (StartTime .. MaxTime)]
BY DEF IInv, TypeOK, PaidNow

LEMMA ResetTimestampsType ==
    ASSUME IInv, reset_escape_timestamps,
           \/ CountsAfresh(paid)
           \/ \E a \in Attempt : \E path : CountsAfresh(PaidNow(a, path))
    PROVE  AttemptsFit
<1>1. PICK p \in [Attempt -> {Never} \cup (StartTime .. MaxTime)] : CountsAfresh(p)
  BY PaidNowType DEF IInv, TypeOK
<1> QED BY <1>1, TimeAssumption DEF reset_escape_timestamps, CountsAfresh, AttemptsFit

LEMMA RecordAttemptType ==
    ASSUME IInv, NEW a \in Attempt, NEW path, RecordAttempt(a, path)
    PROVE  AttemptsFit
<1>1. CASE path = "validate"
  BY <1>1, PaidNowType, ValidateTimeType DEF IInv, TypeOK, RecordAttempt, AttemptsFit
<1>2. CASE path # "validate"
  BY <1>2 DEF IInv, TypeOK, RecordAttempt, AttemptsFit, history
<1> QED BY <1>1, <1>2

\* The signers of a transaction that validates are signers.
LEMMA SignedType ==
    ASSUME NEW signatures \in Signatures, assert_valid_span_signature(signatures)
    PROVE  {signatures[i] : i \in 1 .. Len(signatures)} \in SUBSET Signer
BY DEF Signatures

\* An escape that begins is one that can complete in the account as it is.
LEMMA BeginEscapeIsFine ==
    ASSUME IInv, guardian # Zero,
           NEW type \in {"Owner", "Guardian"}, NEW new \in OptionSigner,
           type = "Owner" => new \in Signer,
           type = "Guardian" => new \in StarknetSigner \/ (new = None /\ read_guardian_backup = None),
           BeginEscape(type, new)
    PROVE  /\ escape' \in Escape
           /\ triggered' \in Trigger
           /\ OneOwner' /\ BackupNeedsGuardian'
           /\ EscapeCanComplete' /\ EscapeSeesUnchangedParties'
<1> DEFINE p == get_escape_security_period
<1>1. UNCHANGED <<signer, guardian, guardian_backup, escape_security_period, now>>
  BY DEF BeginEscape
<1>2. p \in 1 .. U64_MAX /\ now \in Nat /\ p + now <= U64_MAX /\ Parties \in Trigger
  BY Readers, TimeAssumption DEF IInv, TypeOK, BeginEscape, FitsU64
<1>3. escape' = [ready_at |-> now + p, escape_type |-> type, new_signer |-> new]
  BY DEF BeginEscape, write_escape
<1>4. escape'.ready_at = now + p /\ escape'.escape_type = type /\ escape'.new_signer = new
  BY <1>3
<1>5. triggered' = Parties
  <2>1. escape' # NoEscape
    BY <1>4 DEF NoEscape
  <2> QED BY <2>1 DEF BeginEscape, write_escape
<1>6. escape' \in Escape
  BY <1>2, <1>3 DEF Escape
<1>7. Parties' = Parties /\ read_guardian_backup' = read_guardian_backup
  BY <1>1 DEF Parties, read_owner, read_guardian, read_guardian_backup, get_escape_security_period
<1>8. OneOwner' /\ BackupNeedsGuardian'
  BY <1>1, <1>7 DEF IInv, OneOwner, BackupNeedsGuardian
<1>9. EscapeCanComplete'
  BY <1>2, <1>4, <1>7 DEF EscapeCanComplete
<1>10. EscapeSeesUnchangedParties'
  <2>1. Parties.at = now /\ Parties.period = p
    BY DEF Parties
  <2>2. Parties' = [triggered' EXCEPT !.at = now']
    BY <1>1, <1>2, <1>5, <1>7, <2>1 DEF Trigger
  <2>3. escape'.ready_at = triggered'.at + triggered'.period
    BY <1>2, <1>4, <1>5, <2>1
  <2> QED BY <1>1, <2>2, <2>3 DEF EscapeSeesUnchangedParties
<1> QED BY <1>2, <1>5, <1>6, <1>8, <1>9, <1>10
-----------------------------------------------------------------------------
(* Every step keeps the invariant.                                         *)

LEMMA KeepsSetPeriod ==
    ASSUME IInv, NEW signatures \in Signatures, NEW p \in Periods,
           set_escape_security_period(signatures, p)
    PROVE  IInv'
<1>1. /\ assert_valid_span_signature(signatures)
      /\ signed' = {signatures[i] : i \in 1 .. Len(signatures)}
      /\ UNCHANGED <<signer, guardian, guardian_backup, attempts, now, history>>
      /\ escape_security_period' \in 0 .. U64_MAX
  BY TimeAssumption DEF set_escape_security_period, SignedByAll
<1>2. escape' = NoEscape /\ triggered' \in Trigger
  <2>1. CASE status = "Expired"
    BY <2>1, WriteNoEscape DEF set_escape_security_period, ClearExpired
  <2>2. CASE status = "None"
    BY <2>2, StatusValues DEF set_escape_security_period, ClearExpired, IInv, TypeOK
  <2> QED BY <2>1, <2>2 DEF set_escape_security_period, NoOngoingEscape
<1>3. TypeOK'
  BY <1>1, <1>2, NoEscapeIsFine, SignedType DEF IInv, TypeOK, history
<1>4. OneOwner' /\ BackupNeedsGuardian'
  BY <1>1 DEF IInv, OneOwner, BackupNeedsGuardian, read_guardian_backup
<1> QED BY <1>2, <1>3, <1>4, NoEscapeIsFine DEF IInv

LEMMA KeepsChangeOwner ==
    ASSUME IInv, NEW signatures \in Signatures, NEW new \in Signer, NEW old,
           change_owner(signatures, new, old)
    PROVE  IInv'
<1>0. AttemptsFit
  BY ResetTimestampsType DEF change_owner
<1>1. /\ write_owner(new)
      /\ reset_escape
      /\ reset_escape_timestamps
      /\ UNCHANGED <<guardian, guardian_backup, escape_security_period, now>>
  BY DEF change_owner
<1>2. signer' = OnlySlot(new)
  BY <1>1, WriteOwner
<1>3. signed' \in SUBSET Signer
  BY SignedType DEF change_owner
<1>4. TypeOK'
  BY <1>0, <1>1, <1>2, <1>3, ResetEscape, NoEscapeIsFine, OnlySlotType
     DEF IInv, TypeOK, OptionSigner, AttemptsFit
<1>5. OneOwner' /\ BackupNeedsGuardian'
  BY <1>1, <1>2 DEF IInv, OneOwner, BackupNeedsGuardian, read_guardian_backup
<1> QED BY <1>1, <1>4, <1>5, ResetEscape, NoEscapeIsFine DEF IInv

LEMMA KeepsChangeGuardian ==
    ASSUME IInv, NEW signatures \in Signatures, NEW new \in OptionSigner,
           change_guardian(signatures, new)
    PROVE  IInv'
<1>0. AttemptsFit
  BY ResetTimestampsType DEF change_guardian
<1>1. /\ SignedByAll(signatures)
      /\ write_guardian(new)
      /\ reset_escape
      /\ reset_escape_timestamps
      /\ UNCHANGED <<signer, guardian_backup, escape_security_period, now>>
  BY DEF change_guardian
<1>2. guardian' \in Keys \cup {Zero} /\ (guardian' = Zero => read_guardian_backup = None)
  BY <1>1, SignerAssumption DEF change_guardian, write_guardian, OptionSigner, Signer
<1>3. TypeOK'
  BY <1>0, <1>1, <1>2, ResetEscape, NoEscapeIsFine, SignedType
     DEF IInv, TypeOK, SignedByAll, AttemptsFit
<1>4. OneOwner' /\ BackupNeedsGuardian'
  BY <1>1, <1>2 DEF IInv, OneOwner, BackupNeedsGuardian, read_guardian_backup
<1> QED BY <1>1, <1>3, <1>4, ResetEscape, NoEscapeIsFine DEF IInv

LEMMA KeepsChangeGuardianBackup ==
    ASSUME IInv, NEW signatures \in Signatures, NEW new \in OptionSigner,
           change_guardian_backup(signatures, new)
    PROVE  IInv'
<1>0. AttemptsFit
  BY ResetTimestampsType DEF change_guardian_backup
<1>1. /\ SignedByAll(signatures)
      /\ guardian # Zero
      /\ write_guardian_backup(new)
      /\ reset_escape
      /\ reset_escape_timestamps
      /\ UNCHANGED <<signer, guardian, escape_security_period, now>>
  BY DEF change_guardian_backup
<1>2. guardian_backup' = OnlySlot(new)
  BY <1>1, WriteGuardianBackup
<1>3. TypeOK'
  BY <1>0, <1>1, <1>2, ResetEscape, NoEscapeIsFine, OnlySlotType, SignedType
     DEF IInv, TypeOK, SignedByAll, AttemptsFit
<1>4. OneOwner' /\ BackupNeedsGuardian'
  BY <1>1, <1>2 DEF IInv, OneOwner, BackupNeedsGuardian
<1> QED BY <1>1, <1>3, <1>4, ResetEscape, NoEscapeIsFine DEF IInv

LEMMA KeepsCancelEscape ==
    ASSUME IInv, NEW signatures \in Signatures, cancel_escape(signatures)
    PROVE  IInv'
<1>0. AttemptsFit
  BY ResetTimestampsType DEF cancel_escape
<1>1. /\ SignedByAll(signatures)
      /\ reset_escape
      /\ reset_escape_timestamps
      /\ UNCHANGED <<signer, guardian, guardian_backup, escape_security_period, now>>
  BY DEF cancel_escape
<1>2. TypeOK'
  BY <1>0, <1>1, ResetEscape, NoEscapeIsFine, SignedType
     DEF IInv, TypeOK, SignedByAll, AttemptsFit
<1>3. OneOwner' /\ BackupNeedsGuardian'
  BY <1>1 DEF IInv, OneOwner, BackupNeedsGuardian, read_guardian_backup
<1> QED BY <1>1, <1>2, <1>3, ResetEscape, NoEscapeIsFine DEF IInv

\* A guardian signed, so that one is set: a backup never stands alone.
LEMMA GuardianSigned ==
    ASSUME IInv, NEW s \in Signer, is_valid_guardian_signature(s)
    PROVE  guardian # Zero
<1>1. s.stored_value # Zero /\ s.signer_type \in SignerType /\ s.stored_value \in Keys
  BY SignerAssumption DEF Signer
<1>2. CASE is_valid_guardian(s)
  BY <1>1, <1>2 DEF is_valid_guardian
<1>3. CASE is_valid_guardian_backup(s)
  <2>1. OnlySlot(None)[s.signer_type] = Zero
    BY <1>1, OnlySlotValue DEF OptionSigner
  <2>2. read_guardian_backup # None
    BY <1>1, <1>3, <2>1, Readers DEF is_valid_guardian_backup
  <2> QED BY <2>2 DEF IInv, BackupNeedsGuardian
<1> QED BY <1>2, <1>3 DEF is_valid_guardian_signature

LEMMA KeepsTriggerOwner ==
    ASSUME IInv, NEW path, NEW s \in Signer, NEW new \in Signer,
           trigger_escape_owner(path, s, new)
    PROVE  IInv'
<1>1. /\ SignedByGuardian(s)
      /\ BeginEscape("Owner", new)
      /\ RecordAttempt("last_guardian_trigger_escape", path)
  BY DEF trigger_escape_owner, validate_trigger_escape_owner
<1>2. guardian # Zero
  BY <1>1, GuardianSigned DEF SignedByGuardian
<1>3. AttemptsFit
  BY <1>1, RecordAttemptType DEF Attempt
<1>4. /\ escape' \in Escape /\ triggered' \in Trigger /\ OneOwner' /\ BackupNeedsGuardian'
      /\ EscapeCanComplete' /\ EscapeSeesUnchangedParties'
  BY <1>1, <1>2, BeginEscapeIsFine DEF OptionSigner
<1>5. TypeOK'
  BY <1>1, <1>3, <1>4 DEF IInv, TypeOK, BeginEscape, SignedByGuardian, AttemptsFit
<1> QED BY <1>4, <1>5 DEF IInv

LEMMA KeepsTriggerGuardian ==
    ASSUME IInv, NEW path, NEW s \in Signer, NEW new \in OptionSigner,
           trigger_escape_guardian(path, s, new)
    PROVE  IInv'
<1>1. /\ SignedByOwner(s)
      /\ guardian # Zero
      /\ BeginEscape("Guardian", new)
      /\ RecordAttempt("last_owner_trigger_escape", path)
  BY DEF trigger_escape_guardian, validate_trigger_escape_guardian
<1>2. new \in StarknetSigner \/ (new = None /\ read_guardian_backup = None)
  BY DEF trigger_escape_guardian, validate_trigger_escape_guardian, OptionSigner, Signer,
         StarknetSigner
<1>3. AttemptsFit
  BY <1>1, RecordAttemptType DEF Attempt
<1>4. /\ escape' \in Escape /\ triggered' \in Trigger /\ OneOwner' /\ BackupNeedsGuardian'
      /\ EscapeCanComplete' /\ EscapeSeesUnchangedParties'
  BY <1>1, <1>2, BeginEscapeIsFine
<1>5. TypeOK'
  BY <1>1, <1>3, <1>4 DEF IInv, TypeOK, BeginEscape, SignedByOwner, AttemptsFit
<1> QED BY <1>4, <1>5 DEF IInv

LEMMA KeepsEscapeOwner ==
    ASSUME IInv, NEW path, NEW s \in Signer, escape_owner(path, s)
    PROVE  IInv'
<1>0. AttemptsFit
  BY ResetTimestampsType DEF escape_owner, Attempt
<1>1. /\ escape.escape_type = "Owner"
      /\ signed' = {s}
      /\ reset_escape_timestamps
      /\ write_owner(escape.new_signer)
      /\ write_escape(NoEscape)
      /\ UNCHANGED <<guardian, guardian_backup, escape_security_period, now>>
  BY DEF escape_owner, validate_escape_owner, SignedByGuardian
<1>2. escape.new_signer \in Signer
  BY <1>1 DEF IInv, EscapeCanComplete
<1>3. signer' = OnlySlot(escape.new_signer)
  BY <1>1, <1>2, WriteOwner
<1>4. TypeOK'
  BY <1>0, <1>1, <1>2, <1>3, WriteNoEscape, NoEscapeIsFine, OnlySlotType
     DEF IInv, TypeOK, OptionSigner, AttemptsFit
<1>5. OneOwner' /\ BackupNeedsGuardian'
  BY <1>1, <1>2, <1>3 DEF IInv, OneOwner, BackupNeedsGuardian, read_guardian_backup
<1> QED BY <1>1, <1>4, <1>5, WriteNoEscape, NoEscapeIsFine DEF IInv

LEMMA KeepsEscapeGuardian ==
    ASSUME IInv, NEW path, NEW s \in Signer, escape_guardian(path, s)
    PROVE  IInv'
<1>0. AttemptsFit
  BY ResetTimestampsType DEF escape_guardian, Attempt
<1>1. /\ escape.escape_type = "Guardian"
      /\ signed' = {s}
      /\ reset_escape_timestamps
      /\ write_guardian(escape.new_signer)
      /\ write_escape(NoEscape)
      /\ UNCHANGED <<signer, guardian_backup, escape_security_period, now>>
  BY DEF escape_guardian, validate_escape_guardian, SignedByOwner
<1>2. guardian' \in Keys \cup {Zero} /\ (guardian' = Zero => read_guardian_backup = None)
  BY <1>1, SignerAssumption
     DEF IInv, EscapeCanComplete, StarknetSigner, write_guardian
<1>3. TypeOK'
  BY <1>0, <1>1, <1>2, WriteNoEscape, NoEscapeIsFine
     DEF IInv, TypeOK, AttemptsFit
<1>4. OneOwner' /\ BackupNeedsGuardian'
  BY <1>1, <1>2 DEF IInv, OneOwner, BackupNeedsGuardian, read_guardian_backup
<1> QED BY <1>1, <1>3, <1>4, WriteNoEscape, NoEscapeIsFine DEF IInv

\* What is stored is all that the invariant's parts about signers read.
LEMMA SameStorage ==
    ASSUME IInv, UNCHANGED <<storage, triggered>>,
           now' \in StartTime .. MaxTime, signed' \in SUBSET Signer, AttemptsFit
    PROVE  IInv'
<1>1. UNCHANGED <<signer, guardian, guardian_backup, escape, escape_security_period, triggered>>
  BY DEF storage
<1>2. TypeOK'
  BY <1>1 DEF IInv, TypeOK, AttemptsFit
<1>3. OneOwner' /\ BackupNeedsGuardian' /\ EscapeCanComplete'
  BY <1>1 DEF IInv, OneOwner, BackupNeedsGuardian, EscapeCanComplete, read_guardian_backup
<1>4. EscapeSeesUnchangedParties'
  <2>1. Parties' = [Parties EXCEPT !.at = now']
    BY <1>1 DEF Parties, read_owner, read_guardian, read_guardian_backup,
                get_escape_security_period
  <2>2. triggered \in Trigger
    BY DEF IInv, TypeOK
  <2> QED BY <1>1, <2>1, <2>2 DEF IInv, EscapeSeesUnchangedParties, Trigger
<1> QED BY <1>2, <1>3, <1>4 DEF IInv

LEMMA KeepsReverted ==
    ASSUME IInv, NEW a \in Attempt, Reverted(a), signed' \in SUBSET Signer
    PROVE  IInv'
<1>1. AttemptsFit
  BY RecordAttemptType DEF Reverted
<1>2. now' \in StartTime .. MaxTime /\ UNCHANGED <<storage, triggered>>
  BY DEF Reverted, IInv, TypeOK
<1> QED BY <1>1, <1>2, SameStorage

LEMMA KeepsRevertedCall ==
    ASSUME IInv, RevertedCall
    PROVE  IInv'
<1>1. PICK s \in Signer :
        \/ trigger_escape_owner_reverted(s)
        \/ \E new \in OptionSigner : trigger_escape_guardian_reverted(s, new)
        \/ escape_owner_reverted(s)
        \/ escape_guardian_reverted(s)
  BY DEF RevertedCall
<1>2. signed' = {s}
  BY <1>1 DEF trigger_escape_owner_reverted, trigger_escape_guardian_reverted,
              escape_owner_reverted, escape_guardian_reverted,
              validate_trigger_escape_owner, validate_trigger_escape_guardian,
              validate_escape_owner, validate_escape_guardian,
              SignedByOwner, SignedByGuardian
<1>3. \E a \in Attempt : Reverted(a)
  BY <1>1 DEF trigger_escape_owner_reverted, trigger_escape_guardian_reverted,
              escape_owner_reverted, escape_guardian_reverted, Attempt
<1> QED BY <1>2, <1>3, KeepsReverted

LEMMA KeepsTick ==
    ASSUME IInv, Tick
    PROVE  IInv'
<1>1. now' \in StartTime .. MaxTime
  BY TimeAssumption DEF Tick, IInv, TypeOK
<1>2. UNCHANGED <<storage, triggered>> /\ signed' \in SUBSET Signer /\ AttemptsFit
  BY DEF Tick, IInv, TypeOK, AttemptsFit, history
<1> QED BY <1>1, <1>2, SameStorage

LEMMA KeepsStutter ==
    ASSUME IInv, UNCHANGED vars
    PROVE  IInv'
BY SameStorage DEF vars, IInv, TypeOK, AttemptsFit, history

\* The invariant holds in every reachable state.
THEOREM Invariant == Spec => []IInv
<1>1. ASSUME IInv, [Next]_vars
      PROVE  IInv'
  <2>1. CASE SharedCall
    <3>1. PICK signatures \in Signatures :
            \/ \E p \in Periods : set_escape_security_period(signatures, p)
            \/ \E new, old \in Signer : change_owner(signatures, new, old)
            \/ \E new \in OptionSigner : change_guardian(signatures, new)
            \/ \E new \in OptionSigner : change_guardian_backup(signatures, new)
            \/ cancel_escape(signatures)
      BY <2>1 DEF SharedCall
    <3> QED BY <1>1, <3>1, KeepsSetPeriod, KeepsChangeOwner, KeepsChangeGuardian,
               KeepsChangeGuardianBackup, KeepsCancelEscape
  <2>2. CASE LoneCall
    <3>1. PICK s \in Signer, path \in Paths :
            \/ \E new \in Signer : trigger_escape_owner(path, s, new)
            \/ \E new \in OptionSigner : trigger_escape_guardian(path, s, new)
            \/ escape_owner(path, s)
            \/ escape_guardian(path, s)
      BY <2>2 DEF LoneCall
    <3> QED BY <1>1, <3>1, KeepsTriggerOwner, KeepsTriggerGuardian, KeepsEscapeOwner,
               KeepsEscapeGuardian
  <2>3. CASE RevertedCall
    BY <1>1, <2>3, KeepsRevertedCall
  <2>4. CASE Tick
    BY <1>1, <2>4, KeepsTick
  <2>5. CASE UNCHANGED vars
    BY <1>1, <2>5, KeepsStutter
  <2> QED BY <1>1, <2>1, <2>2, <2>3, <2>4, <2>5 DEF Next
<1> QED BY <1>1, InitInvariant, PTL DEF Spec

\* The type invariant, for every value of the constants.
THEOREM TypeCorrect == Spec => []TypeOK
BY Invariant, PTL DEF IInv

\* No former owner can sign.
THEOREM RolesAreSound == Spec => []OneOwner
BY Invariant, PTL DEF IInv

\* An account has no backup without a guardian, and no former backup can sign.
THEOREM BackupIsGuarded == Spec => []BackupNeedsGuardian
BY Invariant, PTL DEF IInv

\* A stored escape names a signer that the role can take.
THEOREM EscapesComplete == Spec => []EscapeCanComplete
BY Invariant, PTL DEF IInv

\* A stored escape completes in the account it was announced to.
THEOREM EscapesAreSound == Spec => []EscapeSeesUnchangedParties
BY Invariant, PTL DEF IInv

\* No security period, however long, makes the account's calls revert.
THEOREM NoPanic == Spec => []StatusNeverPanics
<1>1. IInv => StatusNeverPanics
  BY StatusValues DEF StatusNeverPanics
<1> QED BY <1>1, Invariant, PTL
-----------------------------------------------------------------------------
(* What a step may do.                                                     *)

\* The guardian alone cannot end an ongoing escape of the guardian.
THEOREM GuardianEscapeSafe == Spec => GuardianEscapeNeedsOwner
<1> DEFINE Step == escape.escape_type = "Guardian" /\ Ongoing /\ escape' # escape =>
                      \E s \in Signer : is_valid_owner_signature(s) /\ s \in signed'
<1>1. ASSUME IInv, Next, escape.escape_type = "Guardian", Ongoing, escape' # escape
      PROVE  \E s \in Signer : is_valid_owner_signature(s) /\ s \in signed'
  <2>1. status # "Expired"
    BY <1>1 DEF Ongoing
  <2>2. CASE SharedCall
    <3>1. PICK signatures \in Signatures :
            /\ assert_valid_span_signature(signatures)
            /\ {signatures[i] : i \in 1 .. Len(signatures)} \subseteq signed'
      BY <2>2 DEF SharedCall, SignedByAll, set_escape_security_period, change_owner,
                  change_guardian, change_guardian_backup, cancel_escape
    <3>2. signatures[1] \in Signer /\ 1 \in 1 .. Len(signatures)
      BY <3>1 DEF Signatures, assert_valid_span_signature
    <3> QED BY <3>1, <3>2 DEF assert_valid_span_signature
  <2>3. CASE LoneCall
    <3>1. PICK s \in Signer, path \in Paths :
            \/ \E new \in Signer : trigger_escape_owner(path, s, new)
            \/ \E new \in OptionSigner : trigger_escape_guardian(path, s, new)
            \/ escape_owner(path, s)
            \/ escape_guardian(path, s)
      BY <2>3 DEF LoneCall
    <3>2. SignedByOwner(s)
      BY <1>1, <2>1, <3>1 DEF trigger_escape_owner, OwnerEscapeMayBegin, escape_owner,
             validate_escape_owner, trigger_escape_guardian, validate_trigger_escape_guardian,
             escape_guardian, validate_escape_guardian
    <3> QED BY <3>2 DEF SignedByOwner
  <2>4. CASE RevertedCall
    BY <1>1, <2>4 DEF RevertedCall, Reverted, storage, trigger_escape_owner_reverted,
           trigger_escape_guardian_reverted, escape_owner_reverted, escape_guardian_reverted
  <2>5. CASE Tick
    BY <1>1, <2>5 DEF Tick, storage
  <2> QED BY <1>1, <2>2, <2>3, <2>4, <2>5 DEF Next
<1>2. IInv /\ [Next]_vars => [Step]_vars
  BY <1>1 DEF vars
<1> QED BY <1>2, Invariant, PTL DEF Spec, GuardianEscapeNeedsOwner

\* An escape that has expired is not revived, not even by a longer period.
THEOREM NoRevival == Spec => ExpiredStaysExpired
<1> DEFINE Step == status = "Expired" /\ escape' = escape => status' = "Expired"
<1>1. ASSUME IInv, Next, status = "Expired", escape' = escape
      PROVE  status' = "Expired"
  <2>1. escape # NoEscape
    BY <1>1, StatusValues DEF NoEscape
  <2>2. escape_security_period' = escape_security_period
    <3>1. CASE SharedCall
      <4>1. ASSUME NEW signatures, NEW p, set_escape_security_period(signatures, p)
            PROVE  FALSE
        BY <1>1, <2>1, <4>1 DEF set_escape_security_period, ClearExpired, write_escape
      <4> QED BY <3>1, <4>1 DEF SharedCall, change_owner, change_guardian,
                                change_guardian_backup, cancel_escape
    <3>2. CASE LoneCall
      BY <3>2 DEF LoneCall, trigger_escape_owner, trigger_escape_guardian, BeginEscape,
                  escape_owner, escape_guardian
    <3>3. CASE RevertedCall
      BY <3>3 DEF RevertedCall, Reverted, storage, trigger_escape_owner_reverted,
             trigger_escape_guardian_reverted, escape_owner_reverted, escape_guardian_reverted
    <3>4. CASE Tick
      BY <3>4 DEF Tick, storage
    <3> QED BY <1>1, <3>1, <3>2, <3>3, <3>4 DEF Next
  <2>3. now \in Nat /\ now' \in {now, now + 1}
    <3>1. now \in Nat
      BY <1>1, TimeAssumption DEF IInv, TypeOK
    <3>2. SharedCall => now' = now
      BY DEF SharedCall, set_escape_security_period, change_owner, change_guardian,
                  change_guardian_backup, cancel_escape
    <3>3. LoneCall => now' = now
      BY DEF LoneCall, trigger_escape_owner, trigger_escape_guardian, BeginEscape,
                  escape_owner, escape_guardian
    <3>4. RevertedCall => now' = now
      BY DEF RevertedCall, Reverted, trigger_escape_owner_reverted,
             trigger_escape_guardian_reverted, escape_owner_reverted, escape_guardian_reverted
    <3> QED BY <1>1, <3>1, <3>2, <3>3, <3>4 DEF Next, Tick
  <2>4. /\ escape.ready_at \in Nat /\ escape.ready_at # 0
        /\ get_escape_security_period \in Nat
        /\ get_escape_security_period' = get_escape_security_period
    BY <1>1, <2>2, StatusValues, Readers DEF IInv, TypeOK, Escape, get_escape_security_period
  <2>5. /\ now >= escape.ready_at
        /\ FitsU64(escape.ready_at + get_escape_security_period)
        /\ escape.ready_at + get_escape_security_period <= now
    BY <1>1, <2>3, <2>4 DEF status, get_escape_status
  <2>6. /\ now' >= escape'.ready_at
        /\ FitsU64(escape'.ready_at + get_escape_security_period')
        /\ escape'.ready_at + get_escape_security_period' <= now'
    BY <1>1, <2>3, <2>4, <2>5
  <2> QED BY <1>1, <2>3, <2>4, <2>6 DEF status, get_escape_status, FitsU64
<1>2. IInv /\ [Next]_vars => [Step]_vars
  BY <1>1 DEF vars
<1> QED BY <1>2, Invariant, PTL DEF Spec, ExpiredStaysExpired

\* A ready escape is one that was announced a whole period ago to this account.
LEMMA ReadyWasAnnounced ==
    ASSUME IInv, status = "Ready"
    PROVE  AnnouncedInTime(escape.escape_type, escape.new_signer)
<1> DEFINE period == get_escape_security_period
<1>1. escape.escape_type # "None" /\ escape.ready_at # 0
  BY StatusValues
<1>2. /\ triggered \in Trigger
      /\ Parties = [triggered EXCEPT !.at = now]
      /\ escape.ready_at = triggered.at + triggered.period
  BY <1>1 DEF IInv, TypeOK, EscapeSeesUnchangedParties
<1>3. period = triggered.period /\ triggered.at \in Nat /\ period \in Nat
  BY <1>2 DEF Parties, Trigger
<1>4. now \in Nat /\ escape.ready_at \in Nat
  BY TimeAssumption DEF IInv, TypeOK, Escape
<1>5. escape.ready_at <= now /\ now < escape.ready_at + period
  BY <1>1, <1>4, <1>3 DEF status, get_escape_status
<1> QED BY <1>2, <1>3, <1>4, <1>5 DEF AnnouncedInTime

\* The signers of a shared call are the owner and, if one is set, a guardian.
LEMMA SharedCallSigned ==
    ASSUME NEW signatures \in Signatures, assert_valid_span_signature(signatures),
           {signatures[i] : i \in 1 .. Len(signatures)} \subseteq signed'
    PROVE  BothSigned
<1>1. signatures[1] \in Signer /\ 1 \in 1 .. Len(signatures)
  BY DEF Signatures, assert_valid_span_signature
<1>2. guardian # Zero => signatures[2] \in Signer /\ 2 \in 1 .. Len(signatures)
  BY DEF Signatures, assert_valid_span_signature
<1> QED BY <1>1, <1>2 DEF assert_valid_span_signature, BothSigned

\* One party replaces the other only as announced; all else takes both.
THEOREM RolesAreGuarded == Spec => RolesChangeTogetherOrAnnounced
<1> DEFINE Step ==
      /\ signer' # signer =>
            \/ BothSigned /\ read_owner' \in signed'
            \/ AnnouncedInTime("Owner", read_owner')
      /\ guardian' # guardian =>
            BothSigned \/ AnnouncedInTime("Guardian", read_guardian')
      /\ <<guardian_backup, escape_security_period>>' # <<guardian_backup, escape_security_period>>
            => BothSigned
<1>1. ASSUME IInv, Next
      PROVE  Step
  <2>1. CASE SharedCall
    <3>1. PICK signatures \in Signatures :
            \/ \E p \in Periods : set_escape_security_period(signatures, p)
            \/ \E new, old \in Signer : change_owner(signatures, new, old)
            \/ \E new \in OptionSigner : change_guardian(signatures, new)
            \/ \E new \in OptionSigner : change_guardian_backup(signatures, new)
            \/ cancel_escape(signatures)
      BY <2>1 DEF SharedCall
    <3>2. BothSigned
      <4>1. /\ assert_valid_span_signature(signatures)
            /\ {signatures[i] : i \in 1 .. Len(signatures)} \subseteq signed'
        BY <3>1 DEF SignedByAll, set_escape_security_period, change_owner,
                    change_guardian, change_guardian_backup, cancel_escape
      <4> QED BY <4>1, SharedCallSigned
    <3>3. signer' # signer => read_owner' \in signed'
      <4>1. ASSUME NEW new \in Signer, NEW old, change_owner(signatures, new, old)
            PROVE  read_owner' \in signed'
        <5>1. read_owner' = new
          BY <1>1, <4>1, WriteOwner DEF change_owner
        <5> QED BY <4>1, <5>1 DEF change_owner
      <4> QED BY <3>1, <4>1 DEF set_escape_security_period, change_guardian,
                                change_guardian_backup, cancel_escape
    <3> QED BY <3>2, <3>3
  <2>2. CASE LoneCall
    <3>1. PICK s \in Signer, path \in Paths :
            \/ \E new \in Signer : trigger_escape_owner(path, s, new)
            \/ \E new \in OptionSigner : trigger_escape_guardian(path, s, new)
            \/ escape_owner(path, s)
            \/ escape_guardian(path, s)
      BY <2>2 DEF LoneCall
    <3>2. CASE escape_owner(path, s)
      <4>1. AnnouncedInTime("Owner", escape.new_signer) /\ escape.new_signer \in Signer
        BY <1>1, <3>2, ReadyWasAnnounced
           DEF escape_owner, validate_escape_owner, EscapeIsReady, IInv, EscapeCanComplete
      <4>2. read_owner' = escape.new_signer
        BY <1>1, <3>2, <4>1, WriteOwner DEF escape_owner
      <4> QED BY <3>2, <4>1, <4>2 DEF escape_owner
    <3>3. CASE escape_guardian(path, s)
      <4>1. AnnouncedInTime("Guardian", escape.new_signer)
        BY <1>1, <3>3, ReadyWasAnnounced
           DEF escape_guardian, validate_escape_guardian, EscapeIsReady
      <4>2. escape.new_signer \in StarknetSigner \cup {None}
        BY <1>1, <3>3 DEF escape_guardian, validate_escape_guardian, IInv, EscapeCanComplete
      <4>3. read_guardian' = escape.new_signer
        BY <3>3, <4>2, SignerAssumption
           DEF escape_guardian, write_guardian, read_guardian, StarknetSigner
      <4> QED BY <3>3, <4>1, <4>3 DEF escape_guardian
    <3>4. CASE ~escape_owner(path, s) /\ ~escape_guardian(path, s)
      BY <3>1, <3>4 DEF trigger_escape_owner, trigger_escape_guardian, BeginEscape
    <3> QED BY <3>2, <3>3, <3>4
  <2>3. CASE RevertedCall
    BY <2>3 DEF RevertedCall, Reverted, storage, trigger_escape_owner_reverted,
           trigger_escape_guardian_reverted, escape_owner_reverted, escape_guardian_reverted
  <2>4. CASE Tick
    BY <2>4 DEF Tick, storage
  <2> QED BY <1>1, <2>1, <2>2, <2>3, <2>4 DEF Next
<1>2. IInv /\ [Next]_vars => [Step]_vars
  BY <1>1
<1> QED BY <1>2, Invariant, PTL DEF Spec, RolesChangeTogetherOrAnnounced
-----------------------------------------------------------------------------
(* The account pays for an attempt only so often, in real time.            *)

\* What is stored of an attempt that was paid for and is not forgotten is the
\* time it was paid at, rounded down to the hour.
PaidInv ==
    \A a \in Attempt :
        paid[a] # Never /\ a \notin forgotten => attempts[a] = paid[a] - (paid[a] % HOUR)

\* Rounded times that are more than a multiple of an hour apart are an hour
\* more apart, which makes up for the rounding of the first one.
LEMMA RoundedTimes ==
    ASSUME NEW t \in Nat, NEW u \in Nat,
           u - (u % HOUR) > (t - (t % HOUR)) + TIME_BETWEEN_TWO_ESCAPES
    PROVE  u - t >= TIME_BETWEEN_TWO_ESCAPES
<1> DEFINE H == HOUR
           T == TIME_BETWEEN_TWO_ESCAPES
<1>1. H \in Nat \ {0} /\ T \in Nat /\ T % H = 0
  BY TimeAssumption
<1>2. /\ t % H \in 0 .. (H - 1) /\ t = H * (t \div H) + (t % H) /\ t \div H \in Int
      /\ u % H \in 0 .. (H - 1) /\ u = H * (u \div H) + (u % H) /\ u \div H \in Int
      /\ T = H * (T \div H) + (T % H) /\ T \div H \in Int
  BY <1>1
<1> HIDE DEF H, T
<1>3. ASSUME NEW a \in Int, NEW b \in Int, NEW c \in Int, H * a > H * b + H * c
      PROVE  H * a >= H * b + H * c + H
  <2>1. a > b + c
    BY <1>1, <1>3
  <2> QED BY <1>1, <2>1
<1>4. H * (u \div H) > H * (t \div H) + H * (T \div H)
  BY <1>1, <1>2 DEF H, T
<1>5. H * (u \div H) >= H * (t \div H) + H * (T \div H) + H
  BY <1>2, <1>3, <1>4
<1> QED BY <1>1, <1>2, <1>5 DEF H, T

LEMMA PaidInvariant == Spec => []PaidInv
<1>1. Init => PaidInv
  BY DEF Init, PaidInv
<1>2. ASSUME PaidInv, IInv, [Next]_vars
      PROVE  PaidInv'
  <2>1. \/ \E p : CountsAfresh(p)
        \/ UNCHANGED <<attempts, history>>
        \/ \E a \in Attempt, path \in {"validate", "outside"} : RecordAttempt(a, path)
    <3>1. SharedCall => (\E p : CountsAfresh(p)) \/ UNCHANGED <<attempts, history>>
      BY DEF SharedCall, set_escape_security_period, change_owner, change_guardian,
             change_guardian_backup, cancel_escape
    <3>2. LoneCall => \/ \E p : CountsAfresh(p)
                      \/ \E a \in Attempt, path \in {"validate", "outside"} : RecordAttempt(a, path)
      BY TimeAssumption DEF LoneCall, trigger_escape_owner, trigger_escape_guardian,
             escape_owner, escape_guardian, Attempt
    <3>3. RevertedCall =>
             \E a \in Attempt, path \in {"validate", "outside"} : RecordAttempt(a, path)
      BY DEF RevertedCall, Reverted, trigger_escape_owner_reverted,
             trigger_escape_guardian_reverted, escape_owner_reverted, escape_guardian_reverted,
             Attempt
    <3> QED BY <1>2, <3>1, <3>2, <3>3 DEF Next, Tick, vars
  <2>2. ASSUME NEW p, CountsAfresh(p)
        PROVE  PaidInv'
    BY <2>2 DEF CountsAfresh, PaidInv
  <2>3. CASE UNCHANGED <<attempts, history>>
    BY <1>2, <2>3 DEF PaidInv, history
  <2>4. ASSUME NEW a \in Attempt, NEW path, RecordAttempt(a, path)
        PROVE  PaidInv'
    <3>1. CASE path = "validate"
      BY <1>2, <2>4, <3>1 DEF RecordAttempt, PaidNow, PaidInv, ValidateTime, IInv, TypeOK
    <3>2. CASE path # "validate"
      BY <2>3, <2>4, <3>2 DEF RecordAttempt
    <3> QED BY <3>1, <3>2
  <2> QED BY <2>1, <2>2, <2>3, <2>4
<1> QED BY <1>1, <1>2, Invariant, PTL DEF Spec

\* A step that pays for an attempt checks first what is stored of the last one.
LEMMA PaymentIsChecked ==
    ASSUME IInv, [Next]_vars, NEW a \in Attempt, paid'[a] # paid[a]
    PROVE  assert_valid_escape_parameters(a) /\ paid'[a] = now
<1> USE DEF IInv, TypeOK
<1>1. ASSUME NEW b \in Attempt, NEW path, paid' = PaidNow(b, path)
      PROVE  a = b /\ path = "validate" /\ paid'[a] = now
  BY <1>1 DEF PaidNow
<1>2. ASSUME NEW b \in Attempt, NEW path, MayAttempt(b, path), paid' = PaidNow(b, path)
      PROVE  assert_valid_escape_parameters(a) /\ paid'[a] = now
  BY <1>1, <1>2 DEF MayAttempt
<1>3. ASSUME NEW b \in Attempt, NEW path, RecordAttempt(b, path)
      PROVE  paid' = PaidNow(b, path)
  BY <1>3 DEF RecordAttempt, PaidNow, history
<1>4. CASE SharedCall
  BY <1>4 DEF SharedCall, set_escape_security_period, change_owner, change_guardian,
         change_guardian_backup, cancel_escape, CountsAfresh, history
<1>5. CASE LoneCall
  <2>1. LoneCall => \E b \in Attempt : \E path : MayAttempt(b, path) /\ paid' = PaidNow(b, path)
    BY <1>3 DEF LoneCall, trigger_escape_owner, trigger_escape_guardian, escape_owner,
           escape_guardian, validate_trigger_escape_owner, validate_trigger_escape_guardian,
           validate_escape_owner, validate_escape_guardian, CountsAfresh, Attempt
  <2> QED BY <1>2, <1>5, <2>1
<1>6. CASE RevertedCall
  <2>1. RevertedCall =>
           \E b \in Attempt : MayAttempt(b, "validate") /\ paid' = PaidNow(b, "validate")
    BY <1>3 DEF RevertedCall, Reverted, trigger_escape_owner_reverted,
           trigger_escape_guardian_reverted, escape_owner_reverted, escape_guardian_reverted,
           validate_trigger_escape_owner, validate_trigger_escape_guardian,
           validate_escape_owner, validate_escape_guardian, Attempt
  <2> QED BY <1>2, <1>6, <2>1
<1> QED BY <1>4, <1>5, <1>6 DEF Next, Tick, vars, history

\* Two paid attempts of one kind are really twelve hours apart, unless both
\* parties changed a role or canceled an escape, or one was completed, between
\* them.
THEOREM AttemptsAreSpaced == Spec => PaidAttemptsSpaced
<1> DEFINE Step == \A a \in Attempt :
                      paid[a] # Never /\ a \notin forgotten /\ paid'[a] # paid[a] =>
                          paid'[a] - paid[a] >= TIME_BETWEEN_TWO_ESCAPES
<1>1. ASSUME PaidInv, IInv, [Next]_vars, NEW a \in Attempt,
             paid[a] # Never, a \notin forgotten, paid'[a] # paid[a]
      PROVE  paid'[a] - paid[a] >= TIME_BETWEEN_TWO_ESCAPES
  <2>1. assert_valid_escape_parameters(a) /\ paid'[a] = now
    BY <1>1, PaymentIsChecked
  <2>2. paid[a] \in Nat /\ now \in Nat /\ attempts[a] = paid[a] - (paid[a] % HOUR)
    BY <1>1, TimeAssumption DEF IInv, TypeOK, PaidInv
  <2>3. now - (now % HOUR) > (paid[a] - (paid[a] % HOUR)) + TIME_BETWEEN_TWO_ESCAPES
    BY <2>1, <2>2 DEF assert_valid_escape_parameters, ValidateTime
  <2> QED BY <2>1, <2>2, <2>3, RoundedTimes
<1>2. PaidInv /\ IInv /\ [Next]_vars => [Step]_vars
  BY <1>1
<1> QED BY <1>2, PaidInvariant, Invariant, PTL DEF Spec, PaidAttemptsSpaced

-----------------------------------------------------------------------------
(* What the owner may always do.  OwnerCanAnswer says it with ENABLED, of  *)
(* which the prover knows nothing: the guards are stated instead, and that *)
(* with them the values the handler assigns make a step of it.             *)

\* The guards of trigger_escape_guardian when the owner has it sent for it.
AnswerAllowed(new) ==
    /\ guardian # Zero
    /\ new \in OptionSigner /\ new # None /\ new.signer_type = Starknet
    /\ read_owner \in Signer /\ is_valid_owner_signature(read_owner)
    /\ status # "Panic"
    /\ FitsU64(now + get_escape_security_period)

LEMMA AnswerIsStep ==
    ASSUME NEW new, AnswerAllowed(new),
           escape' = [ready_at |-> now + get_escape_security_period,
                      escape_type |-> "Guardian", new_signer |-> new],
           triggered' = Parties,
           signed' = {read_owner},
           UNCHANGED <<signer, guardian, guardian_backup, escape_security_period, now>>,
           UNCHANGED <<attempts, history>>
    PROVE  trigger_escape_guardian("outside", read_owner, new)
<1> DEFINE e == [ready_at |-> now + get_escape_security_period,
                 escape_type |-> "Guardian", new_signer |-> new]
<1>1. validate_trigger_escape_guardian("outside", read_owner, new)
  BY DEF AnswerAllowed, validate_trigger_escape_guardian, MayAttempt, SignedByOwner
<1>2. e # NoEscape
  <2>1. e.escape_type = "Guardian" /\ NoEscape.escape_type = "None"
    BY DEF NoEscape
  <2> QED BY <2>1
<1>3. write_escape(e)
  BY <1>2 DEF write_escape
<1>4. BeginEscape("Guardian", new)
  BY <1>3 DEF BeginEscape, AnswerAllowed
<1>5. RecordAttempt("last_owner_trigger_escape", "outside")
  BY DEF RecordAttempt
<1> QED BY <1>1, <1>4, <1>5 DEF trigger_escape_guardian

\* While a guardian could take the account over, the owner alone can replace
\* its escape by one of the guardian, whatever the period is set to.
THEOREM OwnerMayAnswer ==
    Spec => [](escape.escape_type = "Owner" /\ status = "Ready" =>
                  \A new \in StarknetSigner : AnswerAllowed(new))
<1>1. ASSUME IInv, escape.escape_type = "Owner", status = "Ready",
             NEW new \in StarknetSigner
      PROVE  AnswerAllowed(new)
  <2>1. guardian # Zero
    BY <1>1 DEF IInv, EscapeSeesUnchangedParties
  <2>2. new \in Signer /\ new # None /\ new \in OptionSigner /\ new.signer_type = Starknet
    BY SignerAssumption DEF StarknetSigner, Signer, OptionSigner
  <2>3. read_owner \in Signer /\ is_valid_owner_signature(read_owner)
    <3>1. read_owner \in Signer /\ signer = OnlySlot(read_owner)
      BY <1>1, Readers
    <3>2. read_owner \in OptionSigner /\ read_owner # None
      BY <3>1, SignerAssumption DEF OptionSigner, Signer
    <3>3. read_owner.signer_type \in SignerType
      BY <3>1 DEF Signer
    <3> QED BY <3>1, <3>2, <3>3, OnlySlotValue DEF is_valid_owner_signature, is_valid_owner
  <2>4. FitsU64(now + get_escape_security_period)
    <3>1. triggered \in Trigger /\ Parties = [triggered EXCEPT !.at = now]
      BY <1>1 DEF IInv, TypeOK, EscapeSeesUnchangedParties
    <3>2. triggered.at \in Nat /\ triggered.period \in Nat
          /\ get_escape_security_period = triggered.period
      BY <3>1 DEF Parties, Trigger
    <3>3. triggered.at + triggered.period <= now
      BY <1>1, ReadyWasAnnounced DEF AnnouncedInTime
    <3>4. now \in Nat /\ now <= MaxTime
      BY <1>1, TimeAssumption DEF IInv, TypeOK
    <3> QED BY <3>2, <3>3, <3>4, TimeAssumption DEF FitsU64
  <2> QED BY <1>1, <2>1, <2>2, <2>3, <2>4 DEF AnswerAllowed
<1> DEFINE Answer == escape.escape_type = "Owner" /\ status = "Ready" =>
                         \A new \in StarknetSigner : AnswerAllowed(new)
<1>2. IInv => Answer
  BY <1>1
<1> QED BY <1>2, Invariant, PTL
-----------------------------------------------------------------------------
(* ArgentAccount implements AccountRecovery: each of its transactions is one  *)
(* of those the two parties know.                                          *)

(* What the parties see of a state of the invariant.                       *)

RolesFit ==
    /\ read_owner \in Signer
    /\ read_guardian \in StarknetSigner \cup {None}
    /\ read_guardian_backup \in OptionSigner
    /\ read_guardian = None <=> guardian = Zero
    /\ read_guardian = None => read_guardian_backup = None
    /\ get_escape_security_period \in Nat \ {0}

LEMMA RolesFitInv == IInv => RolesFit
<1>1. ASSUME IInv
      PROVE  read_guardian \in StarknetSigner \cup {None}
  BY <1>1 DEF IInv, TypeOK, read_guardian, StarknetSigner
<1> QED BY <1>1, Readers, TimeAssumption DEF IInv, BackupNeedsGuardian, RolesFit

LEMMA RolesFitNext == IInv' => RolesFit'
BY RolesFitInv, PTL

\* An escape is ongoing from its trigger until its window closes.
OngoingInTime ==
    Ongoing <=> escape.ready_at # 0 /\ now < escape.ready_at + get_escape_security_period

LEMMA OngoingInTimeInv == IInv => OngoingInTime
<1> SUFFICES ASSUME IInv
             PROVE  OngoingInTime
  OBVIOUS
<1>1. escape.ready_at \in Nat /\ now \in Nat /\ get_escape_security_period \in Nat \ {0}
  BY RolesFitInv, TimeAssumption DEF IInv, TypeOK, Escape, RolesFit
<1>2. status # "Panic"
  BY StatusValues
<1> QED BY <1>1, <1>2 DEF OngoingInTime, Ongoing, status, get_escape_status

LEMMA OngoingInTimeNext == IInv' => OngoingInTime'
BY OngoingInTimeInv, PTL
-----------------------------------------------------------------------------
(* Who signed.                                                             *)

\* The one slot that is filled is the signer's.
LEMMA InOnlySlot ==
    ASSUME NEW s \in Signer, NEW role \in OptionSigner,
           OnlySlot(role)[s.signer_type] = s.stored_value
    PROVE  s = role
<1>1. s.signer_type \in SignerType /\ s.stored_value # Zero
  BY SignerAssumption DEF Signer
<1>2. role # None /\ role.signer_type = s.signer_type /\ role.stored_value = s.stored_value
  BY <1>1, OnlySlotValue
<1> QED BY <1>2 DEF OptionSigner, Signer

LEMMA OwnerIs ==
    ASSUME IInv, NEW s \in Signer, is_valid_owner_signature(s)
    PROVE  s = read_owner
BY Readers, InOnlySlot DEF is_valid_owner_signature, is_valid_owner, OptionSigner

LEMMA GuardianIs ==
    ASSUME IInv, NEW s \in Signer, is_valid_guardian_signature(s)
    PROVE  read_guardian # None /\ s \in {read_guardian, read_guardian_backup} \ {None}
<1>1. guardian # Zero /\ read_guardian # None
  BY GuardianSigned, Readers
<1>2. s # None
  BY SignerAssumption DEF Signer
<1>3. CASE is_valid_guardian(s)
  <2>1. s = read_guardian
    BY <1>1, <1>3 DEF is_valid_guardian, read_guardian, Signer
  <2> QED BY <1>1, <1>2, <2>1
<1>4. CASE is_valid_guardian_backup(s)
  <2>1. s = read_guardian_backup
    BY <1>4, Readers, InOnlySlot DEF is_valid_guardian_backup
  <2> QED BY <1>1, <1>2, <2>1
<1> QED BY <1>3, <1>4 DEF is_valid_guardian_signature

\* The signers of a shared call are both parties of AccountRecovery.
LEMMA BothParties ==
    ASSUME IInv, NEW signatures \in Signatures, assert_valid_span_signature(signatures),
           {signatures[i] : i \in 1 .. Len(signatures)} \subseteq signed'
    PROVE  Recovery!ByBoth
<1>1. BothSigned
  BY SharedCallSigned
<1>2. read_owner \in signed'
  BY <1>1, OwnerIs DEF BothSigned
<1>3. ASSUME read_guardian # None
      PROVE  Recovery!ByGuardian
  <2>1. PICK s \in Signer : is_valid_guardian_signature(s) /\ s \in signed'
    BY <1>1, <1>3, Readers DEF BothSigned
  <2> QED BY <1>3, <2>1, GuardianIs DEF Recovery!ByGuardian
<1> QED BY <1>2, <1>3 DEF Recovery!ByBoth, Recovery!ByOwner
-----------------------------------------------------------------------------
(* What becomes of the announcement.                                       *)

LEMMA NoEscapeNoAnnouncement ==
    ASSUME escape' = NoEscape
    PROVE  Announcement' = Recovery!NoAnnouncement
<1>1. escape'.ready_at = 0
  BY DEF NoEscape
<1>2. status' = "None"
  BY <1>1 DEF status, get_escape_status
<1> QED BY <1>2 DEF Announcement, Ongoing, Recovery!NoAnnouncement

LEMMA SameAnnouncement ==
    ASSUME UNCHANGED <<escape, escape_security_period, now>>
    PROVE  Announcement' = Announcement
BY DEF Announcement, Ongoing, status, get_escape_status, get_escape_security_period

LEMMA SameRoles ==
    ASSUME UNCHANGED <<signer, guardian, guardian_backup, escape_security_period>>
    PROVE  UNCHANGED <<read_owner, read_guardian, read_guardian_backup,
                       get_escape_security_period>>
BY DEF read_owner, read_guardian, read_guardian_backup, get_escape_security_period

\* A ready escape is an announcement that is open.
LEMMA ReadyIsOpen ==
    ASSUME IInv, EscapeIsReady
    PROVE  /\ Announcement.for = escape.escape_type
           /\ Announcement.new = escape.new_signer
           /\ Announcement.opens <= now
<1>1. Ongoing
  BY DEF EscapeIsReady, Ongoing
<1>2. escape.ready_at <= now
  BY TimeAssumption DEF EscapeIsReady, status, get_escape_status, IInv, TypeOK, Escape
<1> QED BY <1>1, <1>2 DEF Announcement

\* An escape that begins is announced for one period from one period later.
LEMMA BeginAnnounces ==
    ASSUME IInv, IInv', NEW type, NEW new, BeginEscape(type, new)
    PROVE  Recovery!Announce(type, new)
<1> DEFINE p == get_escape_security_period
<1>1. /\ escape' = [ready_at |-> now + p, escape_type |-> type, new_signer |-> new]
      /\ UNCHANGED <<signer, guardian, guardian_backup, escape_security_period, now>>
  BY DEF BeginEscape, write_escape
<1>2. UNCHANGED <<read_owner, read_guardian, read_guardian_backup, p>>
  BY <1>1, SameRoles
<1>3. p \in Nat \ {0} /\ now \in Nat
  BY RolesFitInv, TimeAssumption DEF RolesFit, IInv, TypeOK
<1>4. escape'.ready_at = now + p /\ escape'.escape_type = type /\ escape'.new_signer = new
  BY <1>1
<1>5. Ongoing'
  <2>1. OngoingInTime'
    BY OngoingInTimeNext
  <2>2. now' < escape'.ready_at + p' /\ escape'.ready_at # 0
    BY <1>1, <1>2, <1>3, <1>4
  <2> QED BY <2>1, <2>2 DEF OngoingInTime
<1>6. Announcement' = [for |-> type, new |-> new, opens |-> now + p, closes |-> now + p + p]
  BY <1>2, <1>4, <1>5 DEF Announcement
<1>7. now + p + p = now + 2 * p
  BY <1>3
<1> QED BY <1>1, <1>2, <1>6, <1>7 DEF Recovery!Announce, Recovery!roles
-----------------------------------------------------------------------------
(* Every transaction is one of AccountRecovery.                            *)

\* A shared call is an agreement once its effects on the roles are known.
LEMMA AgreeOnRoles ==
    ASSUME IInv, IInv', NEW signatures \in Signatures,
           assert_valid_span_signature(signatures),
           {signatures[i] : i \in 1 .. Len(signatures)} \subseteq signed',
           read_owner' # read_owner => read_owner' \in signed',
           get_escape_security_period' # get_escape_security_period =>
               Announcement = Recovery!NoAnnouncement
               /\ get_escape_security_period' >= MIN_ESCAPE_SECURITY_PERIOD,
           escape' = NoEscape, now' = now
    PROVE  Recovery!Agree
<1>1. Recovery!ByBoth
  BY BothParties
<1>2. RolesFit'
  BY RolesFitNext
<1>3. Announcement' = Recovery!NoAnnouncement
  BY NoEscapeNoAnnouncement
<1> QED BY <1>1, <1>2, <1>3 DEF RolesFit, OptionSigner, Recovery!Agree

LEMMA SetPeriodAgrees ==
    ASSUME IInv, IInv', NEW signatures \in Signatures, NEW p \in Periods,
           set_escape_security_period(signatures, p)
    PROVE  Recovery!Agree
<1>1. /\ assert_valid_span_signature(signatures)
      /\ signed' = {signatures[i] : i \in 1 .. Len(signatures)}
      /\ UNCHANGED <<signer, guardian, guardian_backup, now>>
      /\ p >= MIN_ESCAPE_SECURITY_PERIOD /\ escape_security_period' = p
  BY DEF set_escape_security_period, SignedByAll
<1>2. Announcement = Recovery!NoAnnouncement
  BY DEF set_escape_security_period, NoOngoingEscape, Announcement, Ongoing,
         Recovery!NoAnnouncement
<1>3. escape' = NoEscape
  BY StatusValues DEF set_escape_security_period, NoOngoingEscape, ClearExpired, write_escape
<1>4. read_owner' = read_owner
  BY <1>1 DEF read_owner
<1>5. get_escape_security_period' = p
  BY <1>1, TimeAssumption DEF get_escape_security_period
<1> QED BY <1>1, <1>2, <1>3, <1>4, <1>5, AgreeOnRoles

LEMMA ChangeOwnerAgrees ==
    ASSUME IInv, IInv', NEW signatures \in Signatures, NEW new \in Signer, NEW old,
           change_owner(signatures, new, old)
    PROVE  Recovery!Agree
<1>1. read_owner' = new /\ escape' = NoEscape
  BY WriteOwner, ResetEscape DEF change_owner
<1>2. /\ assert_valid_span_signature(signatures)
      /\ {signatures[i] : i \in 1 .. Len(signatures)} \subseteq signed'
      /\ new \in signed' /\ now' = now
      /\ escape_security_period' = escape_security_period
  BY DEF change_owner
<1>3. get_escape_security_period' = get_escape_security_period
  BY <1>2 DEF get_escape_security_period
<1> QED BY <1>1, <1>2, <1>3, AgreeOnRoles

\* Whatever else the two sign leaves the owner and the period alone.
LEMMA OtherSharedCallAgrees ==
    ASSUME IInv, IInv', NEW signatures \in Signatures, SignedByAll(signatures), reset_escape,
           UNCHANGED <<signer, escape_security_period, now>>
    PROVE  Recovery!Agree
<1>1. escape' = NoEscape
  BY ResetEscape
<1>2. UNCHANGED <<read_owner, get_escape_security_period>>
  BY DEF read_owner, get_escape_security_period
<1> QED BY <1>1, <1>2, AgreeOnRoles DEF SignedByAll

LEMMA SharedCallAgrees ==
    ASSUME IInv, IInv', SharedCall
    PROVE  Recovery!Agree
<1>1. PICK signatures \in Signatures :
        \/ \E p \in Periods : set_escape_security_period(signatures, p)
        \/ \E new, old \in Signer : change_owner(signatures, new, old)
        \/ \E new \in OptionSigner : change_guardian(signatures, new)
        \/ \E new \in OptionSigner : change_guardian_backup(signatures, new)
        \/ cancel_escape(signatures)
  BY DEF SharedCall
<1>2. CASE \E p \in Periods : set_escape_security_period(signatures, p)
  BY <1>2, SetPeriodAgrees
<1>3. CASE \E new, old \in Signer : change_owner(signatures, new, old)
  BY <1>3, ChangeOwnerAgrees
<1>4. CASE \E new \in OptionSigner : change_guardian(signatures, new)
  BY <1>4, OtherSharedCallAgrees DEF change_guardian
<1>5. CASE \E new \in OptionSigner : change_guardian_backup(signatures, new)
  BY <1>5, OtherSharedCallAgrees DEF change_guardian_backup
<1>6. CASE cancel_escape(signatures)
  BY <1>6, OtherSharedCallAgrees DEF cancel_escape
<1> QED BY <1>1, <1>2, <1>3, <1>4, <1>5, <1>6

\* One party signed alone.
LEMMA GuardianAlone ==
    ASSUME IInv, NEW s \in Signer, SignedByGuardian(s)
    PROVE  Recovery!ByGuardian
BY GuardianIs DEF SignedByGuardian, Recovery!ByGuardian

LEMMA OwnerAlone ==
    ASSUME IInv, NEW s \in Signer, SignedByOwner(s)
    PROVE  Recovery!ByOwner
BY OwnerIs DEF SignedByOwner, Recovery!ByOwner

LEMMA TriggerOwnerAnnounces ==
    ASSUME IInv, IInv', NEW path, NEW s \in Signer, NEW new \in Signer,
           trigger_escape_owner(path, s, new)
    PROVE  Recovery!AnnounceOwner
<1>1. Recovery!ByGuardian
  BY GuardianAlone DEF trigger_escape_owner, validate_trigger_escape_owner
<1>2. Recovery!Announce("Owner", new)
  BY BeginAnnounces DEF trigger_escape_owner
<1>3. Announcement.for # "Guardian"
  BY DEF trigger_escape_owner, OwnerEscapeMayBegin, Announcement, Ongoing
<1> QED BY <1>1, <1>2, <1>3 DEF Recovery!AnnounceOwner

LEMMA TriggerGuardianAnnounces ==
    ASSUME IInv, IInv', NEW path, NEW s \in Signer, NEW new \in OptionSigner,
           trigger_escape_guardian(path, s, new)
    PROVE  Recovery!AnnounceGuardian
<1>1. Recovery!ByOwner /\ read_guardian # None
  BY OwnerAlone, Readers DEF trigger_escape_guardian, validate_trigger_escape_guardian
<1>2. Recovery!Announce("Guardian", new)
  BY BeginAnnounces DEF trigger_escape_guardian
<1>3. /\ new \in StarknetSigner \cup {None}
      /\ new = None => read_guardian_backup = None
  BY DEF trigger_escape_guardian, validate_trigger_escape_guardian, OptionSigner, Signer,
         StarknetSigner
<1> QED BY <1>1, <1>2, <1>3 DEF Recovery!AnnounceGuardian

LEMMA EscapeOwnerCompletes ==
    ASSUME IInv, IInv', NEW path, NEW s \in Signer, escape_owner(path, s)
    PROVE  Recovery!CompleteOwner
<1>1. /\ SignedByGuardian(s) /\ EscapeIsReady /\ escape.escape_type = "Owner"
      /\ write_owner(escape.new_signer) /\ escape' = NoEscape
      /\ UNCHANGED <<guardian, guardian_backup, escape_security_period, now>>
  BY DEF escape_owner, validate_escape_owner, write_escape
<1>2. read_owner' = escape.new_signer
  BY <1>1, WriteOwner DEF IInv, EscapeCanComplete
<1>3. UNCHANGED <<read_guardian, read_guardian_backup, get_escape_security_period>>
  BY <1>1 DEF read_guardian, read_guardian_backup, get_escape_security_period
<1>4. Announcement' = Recovery!NoAnnouncement
  BY <1>1, NoEscapeNoAnnouncement
<1>5. Recovery!ByGuardian
  BY <1>1, GuardianAlone
<1>6. Announcement.for = "Owner" /\ Announcement.new = escape.new_signer /\ Recovery!Open
  BY <1>1, ReadyIsOpen DEF Recovery!Open
<1> QED BY <1>1, <1>2, <1>3, <1>4, <1>5, <1>6 DEF Recovery!CompleteOwner, Recovery!Ended

LEMMA EscapeGuardianCompletes ==
    ASSUME IInv, IInv', NEW path, NEW s \in Signer, escape_guardian(path, s)
    PROVE  Recovery!CompleteGuardian
<1>1. /\ SignedByOwner(s) /\ EscapeIsReady /\ escape.escape_type = "Guardian"
      /\ write_guardian(escape.new_signer) /\ escape' = NoEscape
      /\ UNCHANGED <<signer, guardian_backup, escape_security_period, now>>
  BY DEF escape_guardian, validate_escape_guardian, write_escape
<1>2. read_guardian' = escape.new_signer
  <2>1. escape.new_signer \in StarknetSigner \cup {None}
    BY <1>1 DEF IInv, EscapeCanComplete
  <2> QED BY <1>1, <2>1, SignerAssumption DEF write_guardian, read_guardian, StarknetSigner
<1>3. UNCHANGED <<read_owner, read_guardian_backup, get_escape_security_period>>
  BY <1>1 DEF read_owner, read_guardian_backup, get_escape_security_period
<1>4. Announcement' = Recovery!NoAnnouncement
  BY <1>1, NoEscapeNoAnnouncement
<1>5. Recovery!ByOwner
  BY <1>1, OwnerAlone
<1>6. Announcement.for = "Guardian" /\ Announcement.new = escape.new_signer /\ Recovery!Open
  BY <1>1, ReadyIsOpen DEF Recovery!Open
<1> QED BY <1>1, <1>2, <1>3, <1>4, <1>5, <1>6 DEF Recovery!CompleteGuardian, Recovery!Ended

\* A reverted execution leaves what the parties see as it was.
LEMMA SameStorageNoEffect ==
    ASSUME UNCHANGED <<storage, now>>
    PROVE  Recovery!NoEffect
BY SameRoles, SameAnnouncement DEF storage, Recovery!NoEffect, Recovery!roles

LEMMA RevertedCallNoEffect ==
    ASSUME RevertedCall
    PROVE  Recovery!NoEffect
BY SameStorageNoEffect
   DEF RevertedCall, Reverted, trigger_escape_owner_reverted, escape_owner_reverted,
       trigger_escape_guardian_reverted, escape_guardian_reverted

\* The last second of the window ends the announcement and nothing brings it back.
LEMMA TickCloses ==
    ASSUME IInv, IInv', Tick
    PROVE  Recovery!Tick
<1> DEFINE closes == escape.ready_at + get_escape_security_period
<1>1. UNCHANGED storage /\ now' = now + 1 /\ signed' = {}
  BY DEF Tick
<1>2. UNCHANGED Recovery!roles /\ UNCHANGED <<escape, get_escape_security_period>>
  BY <1>1, SameRoles DEF storage, Recovery!roles
<1>3. /\ escape.ready_at \in Nat /\ now \in Nat
      /\ get_escape_security_period \in Nat \ {0}
  BY RolesFitInv, TimeAssumption DEF IInv, TypeOK, Escape, RolesFit
<1>4. OngoingInTime /\ OngoingInTime'
  BY OngoingInTimeInv, OngoingInTimeNext
<1>5. CASE ~Ongoing
  <2>1. ~Ongoing'
    BY <1>1, <1>2, <1>3, <1>4, <1>5 DEF OngoingInTime
  <2>2. Announcement.closes = 0 /\ Announcement' = Recovery!NoAnnouncement
    BY <1>5, <2>1 DEF Announcement, Recovery!NoAnnouncement
  <2> QED BY <1>1, <1>2, <1>3, <2>2 DEF Recovery!Tick
<1>6. CASE Ongoing /\ closes <= now + 1
  <2>1. ~Ongoing'
    BY <1>1, <1>2, <1>3, <1>4, <1>6 DEF OngoingInTime
  <2>2. Announcement.closes = closes /\ Announcement' = Recovery!NoAnnouncement
    BY <1>6, <2>1 DEF Announcement, Recovery!NoAnnouncement
  <2> QED BY <1>1, <1>2, <1>6, <2>2 DEF Recovery!Tick
<1>7. CASE Ongoing /\ ~(closes <= now + 1)
  <2>1. Ongoing'
    BY <1>1, <1>2, <1>3, <1>4, <1>7 DEF OngoingInTime
  <2>2. Announcement.closes = closes /\ Announcement' = Announcement
    BY <1>2, <1>7, <2>1 DEF Announcement
  <2> QED BY <1>1, <1>2, <1>7, <2>2 DEF Recovery!Tick
<1> QED BY <1>5, <1>6, <1>7

\* The constructor's account is one nobody has announced anything about.
LEMMA InitRefines ==
    ASSUME Init
    PROVE  Recovery!Init
<1>1. RolesFit
  BY InitInvariant, RolesFitInv
<1>2. escape.ready_at = 0
  BY DEF Init, NoEscape
<1>3. Announcement = Recovery!NoAnnouncement
  BY <1>2 DEF Announcement, Ongoing, status, get_escape_status, Recovery!NoAnnouncement
<1>4. read_guardian_backup = None
  <2>1. guardian_backup = OnlySlot(None)
    BY OnlySlotValue DEF Init, OptionSigner
  <2> QED BY <2>1, FirstSignerOfOnlySlot DEF read_guardian_backup, OptionSigner
<1>5. get_escape_security_period = DEFAULT_ESCAPE_SECURITY_PERIOD
  BY DEF Init, get_escape_security_period
<1> QED BY <1>1, <1>3, <1>4, <1>5 DEF Init, RolesFit, Recovery!Init

\* The account implements the promise: its parties cannot tell it from one
\* that has no slots, kinds of signer, statuses or attempts.
THEOREM Implements == Spec => ImplementsRecovery
<1>1. Init => Recovery!Init
  BY InitRefines
<1>2. IInv /\ IInv' /\ [Next]_vars => [Recovery!Next]_Recovery!vars
  <2> SUFFICES ASSUME IInv, IInv', [Next]_vars
               PROVE  [Recovery!Next]_Recovery!vars
    OBVIOUS
  <2>1. CASE SharedCall
    BY <2>1, SharedCallAgrees DEF Recovery!Next
  <2>2. CASE LoneCall
    <3>1. PICK s \in Signer, path \in Paths :
            \/ \E new \in Signer : trigger_escape_owner(path, s, new)
            \/ \E new \in OptionSigner : trigger_escape_guardian(path, s, new)
            \/ escape_owner(path, s)
            \/ escape_guardian(path, s)
      BY <2>2 DEF LoneCall
    <3> QED BY <3>1, TriggerOwnerAnnounces, TriggerGuardianAnnounces, EscapeOwnerCompletes,
               EscapeGuardianCompletes DEF Recovery!Next
  <2>3. CASE RevertedCall
    BY <2>3, RevertedCallNoEffect DEF Recovery!Next
  <2>4. CASE Tick
    BY <2>4, TickCloses DEF Recovery!Next
  <2>5. CASE UNCHANGED vars
    BY <2>5, SameStorageNoEffect DEF vars, storage, Recovery!Next
  <2> QED BY <2>1, <2>2, <2>3, <2>4, <2>5 DEF Next
<1> QED BY <1>1, <1>2, Invariant, PTL DEF Spec, ImplementsRecovery, Recovery!Spec
=============================================================================
