----------------------------- MODULE Wallet_proofs -----------------------------
(***************************************************************************)
(* What the wallet promises, for any number of coroutines, launches,       *)
(* kills, fetches and confirmations. What is on disk, or still to be       *)
(* written, is what was chosen last unless two choices overlapped or one   *)
(* was lost; the PIN stands before the account it was set for; and what    *)
(* is sent was confirmed, checked and sent once.                           *)
(***************************************************************************)
EXTENDS Onboarding, Transfers, SequenceTheorems, TLAPS

(* The edits of the preferences (Onboarding).                              *)

Edits == [key : {"acc_name"}, value : Names]
    \cup [key : {"private_key"}, value : PrivateKeys]
    \cup [key : {"pin_hash"}, value : {hashPin(pin) : pin \in Pins}]
    \cup [key : {"has_account"}, value : {TRUE}]

EditsIn(coroutines) ==
    {e \in Edits : \E k \in DOMAIN coroutines : \E i \in DOMAIN coroutines[k] :
                        coroutines[k][i] = e}

\* The edits that are still to be made.
Pending == EditsIn(tasks)

LEMMA EditKey ==
    ASSUME NEW e \in Edits
    PROVE  e.key \in Preferences
BY DEF Edits, Preferences

LEMMA KeysOfEdits ==
    ASSUME NEW ts \in Seq(Seq(Edits))
    PROVE  UNION {Edited(ts[k]) : k \in DOMAIN ts} = {e.key : e \in EditsIn(ts)}
<1>1. ASSUME NEW k \in DOMAIN ts, NEW p \in Edited(ts[k])
      PROVE  \E e \in EditsIn(ts) : p = e.key
  <2>1. PICK i \in DOMAIN ts[k] : p = ts[k][i].key
    BY DEF Range, Edited
  <2>2. ts[k][i] \in Edits
    OBVIOUS
  <2> QED BY <2>1, <2>2 DEF EditsIn
<1>2. ASSUME NEW e \in EditsIn(ts)
      PROVE  \E k \in DOMAIN ts : e.key \in Edited(ts[k])
  <2>1. PICK k \in DOMAIN ts : \E i \in DOMAIN ts[k] : ts[k][i] = e
    BY DEF EditsIn
  <2>2. e \in Range(ts[k])
    BY <2>1 DEF Range
  <2> QED BY <2>1, <2>2 DEF Edited
<1> QED BY <1>1, <1>2

\* What is under way, in a state and in the next.
LEMMA UnderWayIsPending ==
    /\ tasks \in Seq(Seq(Edits)) => UnderWay = {e.key : e \in Pending}
    /\ tasks' \in Seq(Seq(Edits)) => UnderWay' = {e.key : e \in Pending'}
BY KeysOfEdits DEF UnderWay, Pending

\* An edit that is made was pending; the others stay.
LEMMA EditMakesOne ==
    ASSUME tasks \in Seq(Seq(Edits)), NEW k \in DOMAIN tasks, Edit(k)
    PROVE  \E e \in Pending :
              /\ store' = [store EXCEPT ![e.key] = e.value]
              /\ tasks' \in Seq(Seq(Edits))
              /\ Pending \ {e} \subseteq Pending'
              /\ Pending' \subseteq Pending
<1> DEFINE t == tasks[k]
<1>1. /\ t \in Seq(Edits) /\ t # <<>> /\ Len(t) \in Nat
      /\ tasks' = [tasks EXCEPT ![k] = Tail(t)]
      /\ store' = [store EXCEPT ![Head(t).key] = Head(t).value]
  BY DEF Edit
<1>2. /\ Head(t) = t[1] /\ 1 \in DOMAIN t /\ Tail(t) \in Seq(Edits)
      /\ Len(Tail(t)) = Len(t) - 1
      /\ \A i \in 1 .. (Len(t) - 1) : Tail(t)[i] = t[i + 1]
  BY <1>1
<1>3. Head(t) \in Pending
  BY <1>1, <1>2 DEF Pending, EditsIn
<1>4. tasks' \in Seq(Seq(Edits)) /\ DOMAIN tasks' = DOMAIN tasks
  BY <1>1, <1>2
<1>5. ASSUME NEW e \in Pending \ {Head(t)}
      PROVE  e \in Pending'
  <2>1. PICK l \in DOMAIN tasks : \E i \in DOMAIN tasks[l] : tasks[l][i] = e
    BY DEF Pending, EditsIn
  <2>2. CASE l = k
    <3>1. PICK i \in DOMAIN t : t[i] = e
      BY <2>1, <2>2
    <3> DOMAIN t = 1 .. Len(t)
      BY <1>1
    <3>2. i # 1
      BY <1>2, <1>5, <3>1
    <3>3. i - 1 \in 1 .. (Len(t) - 1) /\ (i - 1) + 1 = i
      BY <1>1, <3>1, <3>2
    <3>4. Tail(t)[i - 1] = e /\ i - 1 \in DOMAIN Tail(t)
      BY <1>1, <1>2, <3>1, <3>3
    <3> QED BY <1>1, <1>4, <3>4 DEF Pending, EditsIn
  <2>3. CASE l # k
    <3>1. tasks'[l] = tasks[l] /\ l \in DOMAIN tasks' /\ e \in Edits
      BY <1>1, <1>4, <2>1, <2>3 DEF Pending, EditsIn
    <3> QED BY <2>1, <3>1 DEF Pending, EditsIn
  <2> QED BY <2>2, <2>3
<1>6. ASSUME NEW e \in Pending'
      PROVE  e \in Pending
  <2>1. PICK l \in DOMAIN tasks : \E i \in DOMAIN tasks'[l] : tasks'[l][i] = e
    BY <1>4 DEF Pending, EditsIn
  <2>2. e \in Edits
    BY DEF Pending, EditsIn
  <2>3. CASE l = k
    <3>1. PICK i \in 1 .. (Len(t) - 1) : Tail(t)[i] = e
      BY <1>1, <1>2, <2>1, <2>3
    <3>2. t[i + 1] = e /\ i + 1 \in DOMAIN t
      BY <1>1, <1>2, <3>1
    <3> QED BY <2>2, <3>2 DEF Pending, EditsIn
  <2>4. CASE l # k
    BY <1>1, <2>1, <2>2, <2>4 DEF Pending, EditsIn
  <2> QED BY <2>3, <2>4
<1> QED BY <1>1, <1>3, <1>4, <1>5, <1>6

\* What is launched is pending, with what was.
LEMMA LaunchAdds ==
    ASSUME tasks \in Seq(Seq(Edits)), NEW coroutines \in Seq(Seq(Edits)), Launch(coroutines)
    PROVE  tasks' \in Seq(Seq(Edits)) /\ Pending' = Pending \cup EditsIn(coroutines)
<1>1. /\ tasks' = tasks \o coroutines /\ tasks' \in Seq(Seq(Edits))
      /\ Len(tasks) \in Nat /\ Len(coroutines) \in Nat
      /\ Len(tasks') = Len(tasks) + Len(coroutines)
      /\ DOMAIN tasks' = 1 .. Len(tasks') /\ DOMAIN tasks = 1 .. Len(tasks)
      /\ DOMAIN coroutines = 1 .. Len(coroutines)
      /\ \A k \in 1 .. Len(tasks) : tasks'[k] = tasks[k]
      /\ \A k \in 1 .. Len(coroutines) : tasks'[Len(tasks) + k] = coroutines[k]
  BY DEF Launch
<1>2. ASSUME NEW e \in Pending'
      PROVE  e \in Pending \cup EditsIn(coroutines)
  <2>1. PICK k \in 1 .. Len(tasks') : \E i \in DOMAIN tasks'[k] : tasks'[k][i] = e
    BY <1>1 DEF Pending, EditsIn
  <2>2. e \in Edits
    BY DEF Pending, EditsIn
  <2>3. CASE k \in 1 .. Len(tasks)
    BY <1>1, <2>1, <2>2, <2>3 DEF Pending, EditsIn
  <2>4. CASE k \notin 1 .. Len(tasks)
    <3>1. k - Len(tasks) \in 1 .. Len(coroutines) /\ Len(tasks) + (k - Len(tasks)) = k
      BY <1>1, <2>1, <2>4
    <3> QED BY <1>1, <2>1, <2>2, <3>1 DEF EditsIn
  <2> QED BY <2>3, <2>4
<1>3. ASSUME NEW e \in Pending
      PROVE  e \in Pending'
  <2>1. PICK k \in 1 .. Len(tasks) : \E i \in DOMAIN tasks[k] : tasks[k][i] = e
    BY <1>1 DEF Pending, EditsIn
  <2>2. k \in DOMAIN tasks' /\ e \in Edits
    BY <1>1 DEF Pending, EditsIn
  <2> QED BY <1>1, <2>1, <2>2 DEF Pending, EditsIn
<1>4. ASSUME NEW e \in EditsIn(coroutines)
      PROVE  e \in Pending'
  <2>1. PICK k \in 1 .. Len(coroutines) : \E i \in DOMAIN coroutines[k] : coroutines[k][i] = e
    BY <1>1 DEF EditsIn
  <2>2. Len(tasks) + k \in DOMAIN tasks' /\ e \in Edits
    BY <1>1, <2>1 DEF EditsIn
  <2>3. tasks'[Len(tasks) + k] = coroutines[k]
    BY <1>1
  <2> QED BY <2>1, <2>2, <2>3 DEF Pending, EditsIn
<1> QED BY <1>1, <1>2, <1>3, <1>4
-----------------------------------------------------------------------------
(* What is stored, and what was chosen (Onboarding).                       *)

Stored == Names \cup PrivateKeys \cup {hashPin(pin) : pin \in Pins} \cup {TRUE, Unset}

AccountUnderWay == store.has_account = TRUE \/ "has_account" \in UnderWay

\* Until a preference races or is lost, everything pending is what was chosen last,
\* and the store holds it once nothing is pending.
LastChoiceOK ==
    \A p \in Preferences \ (raced \cup lost) :
        /\ \A e \in Pending : e.key = p => e.value = chosen[p]
        /\ p \notin UnderWay => store[p] = chosen[p]

\* The account comes with a PIN and was chosen with it; in a first passage there is
\* no other PIN.
PinOK ==
    /\ AccountUnderWay =>
        /\ store.pin_hash # Unset \/ "pin_hash" \in UnderWay \cup lost
        /\ chosen.has_account = TRUE
    /\ chosen.has_account # TRUE => store.pin_hash = Unset /\ "pin_hash" \notin UnderWay
    /\ ~again =>
        /\ store.pin_hash \in {Unset, chosen.pin_hash}
        /\ \A e \in Pending : e.key = "pin_hash" => e.value = chosen.pin_hash

DataIInv ==
    /\ tasks \in Seq(Seq(Edits))
    /\ store \in [Preferences -> Stored]
    /\ chosen \in [Preferences -> Stored]
    /\ again \in BOOLEAN
    /\ LastChoiceOK
    /\ PinOK

LEMMA DataEdit ==
    ASSUME DataIInv, NEW k \in DOMAIN tasks, Edit(k)
    PROVE  DataIInv'
<1>1. PICK e \in Pending :
        /\ store' = [store EXCEPT ![e.key] = e.value]
        /\ tasks' \in Seq(Seq(Edits))
        /\ Pending \ {e} \subseteq Pending'
        /\ Pending' \subseteq Pending
  BY EditMakesOne DEF DataIInv
<1>2. e \in Edits /\ e.key \in Preferences /\ e.value \in Stored
  BY OnboardingAssumption DEF Pending, EditsIn, Edits, Preferences, Stored
<1>3. UNCHANGED <<chosen, raced, lost, again>>
  BY DEF Edit, history
<1>4. /\ UnderWay = {d.key : d \in Pending} /\ UnderWay' = {d.key : d \in Pending'}
      /\ UnderWay \subseteq UnderWay' \cup {e.key} /\ UnderWay' \subseteq UnderWay
      /\ e.key \in UnderWay
  <2>1. UnderWay = {d.key : d \in Pending} /\ UnderWay' = {d.key : d \in Pending'}
    BY <1>1, UnderWayIsPending DEF DataIInv
  <2> QED BY <1>1, <2>1
<1>5. store' \in [Preferences -> Stored]
  BY <1>1, <1>2 DEF DataIInv
<1>6. /\ store'[e.key] = e.value
      /\ \A p \in Preferences : p # e.key => store'[p] = store[p]
  BY <1>1, <1>2 DEF DataIInv
<1>7. LastChoiceOK'
  <2>1. SUFFICES ASSUME NEW p \in Preferences, p \notin raced \cup lost
                 PROVE  /\ \A d \in Pending' : d.key = p => d.value = chosen[p]
                        /\ p \notin UnderWay' => store'[p] = chosen[p]
    BY <1>3 DEF LastChoiceOK
  <2>2. /\ \A d \in Pending : d.key = p => d.value = chosen[p]
        /\ p \notin UnderWay => store[p] = chosen[p]
    BY <2>1 DEF DataIInv, LastChoiceOK
  <2>3. p \notin UnderWay' => store'[p] = chosen[p]
    BY <1>4, <1>6, <2>1, <2>2
  <2> QED BY <1>1, <2>2, <2>3
<1>8. PinOK'
  <2>1. e.key = "pin_hash" => e.value # Unset
    BY <1>2, OnboardingAssumption DEF Edits
  <2>2. {"pin_hash", "has_account"} \subseteq Preferences
    BY DEF Preferences
  <2>3. AccountUnderWay' => AccountUnderWay
    BY <1>4, <1>6, <2>2 DEF AccountUnderWay
  <2>4. AccountUnderWay' => /\ store'.pin_hash # Unset \/ "pin_hash" \in UnderWay' \cup lost'
                            /\ chosen'.has_account = TRUE
    BY <1>3, <1>4, <1>6, <2>1, <2>2, <2>3 DEF DataIInv, PinOK
  <2>5. chosen'.has_account # TRUE => store'.pin_hash = Unset /\ "pin_hash" \notin UnderWay'
    BY <1>3, <1>4, <1>6, <2>2 DEF DataIInv, PinOK
  <2>6. ~again => /\ store'.pin_hash \in {Unset, chosen'.pin_hash}
                  /\ \A d \in Pending' : d.key = "pin_hash" => d.value = chosen'.pin_hash
    BY <1>1, <1>3, <1>6, <2>2 DEF DataIInv, PinOK
  <2> QED BY <1>3, <2>4, <2>5, <2>6 DEF PinOK
<1> QED BY <1>1, <1>3, <1>5, <1>7, <1>8 DEF DataIInv

\* A choice is made, and what is launched stores it; a PIN is chosen with an account.
LEMMA DataChoose ==
    ASSUME DataIInv, NEW coroutines \in Seq(Seq(Edits)), NEW choices,
           Launch(coroutines), Choose(choices), store' = store,
           \A e \in EditsIn(coroutines) :
                e.key \in DOMAIN choices /\ e.value = choices[e.key],
           DOMAIN choices = {e.key : e \in EditsIn(coroutines)},
           "pin_hash" \in DOMAIN choices <=> "has_account" \in DOMAIN choices,
           "has_account" \in DOMAIN choices => choices["has_account"] = TRUE
    PROVE  DataIInv'
<1> DEFINE L == EditsIn(coroutines)
           D == DOMAIN choices
<1>1. tasks' \in Seq(Seq(Edits)) /\ Pending' = Pending \cup L
  BY LaunchAdds DEF DataIInv
<1>2. UnderWay = {e.key : e \in Pending} /\ UnderWay' = UnderWay \cup D
  <2>1. UnderWay = {e.key : e \in Pending} /\ UnderWay' = {e.key : e \in Pending'}
    BY <1>1, UnderWayIsPending DEF DataIInv
  <2> QED BY <1>1, <2>1
<1>3. /\ chosen' = [p \in Preferences |-> IF p \in D THEN choices[p] ELSE chosen[p]]
      /\ raced' = raced \cup (UnderWay \cap D) /\ lost' = lost
      /\ again' = (again \/ chosen.has_account = TRUE)
  BY DEF Choose
<1>4. /\ \A e \in L : /\ e \in Edits /\ e.key \in D /\ e.value = choices[e.key]
                      /\ e.value \in Stored
      /\ D \subseteq Preferences
      /\ \A p \in D : choices[p] \in Stored
  <2>1. \A e \in Edits : e.value \in Stored /\ e.key \in Preferences
    BY EditKey DEF Edits, Stored
  <2>2. L \subseteq Edits
    BY DEF EditsIn
  <2>3. \A p \in D : \E e \in L : p = e.key
    OBVIOUS
  <2> QED BY <2>1, <2>2, <2>3
<1> HIDE DEF L, D
<1>5. chosen' \in [Preferences -> Stored] /\ again' \in BOOLEAN
  BY <1>3, <1>4 DEF DataIInv
<1>6. \A p \in Preferences : chosen'[p] = IF p \in D THEN choices[p] ELSE chosen[p]
  BY <1>3
<1>7. LastChoiceOK'
  <2>1. SUFFICES ASSUME NEW p \in Preferences, p \notin raced' \cup lost'
                 PROVE  /\ \A e \in Pending' : e.key = p => e.value = chosen'[p]
                        /\ p \notin UnderWay' => store'[p] = chosen'[p]
    BY DEF LastChoiceOK
  <2>2. /\ \A e \in Pending : e.key = p => e.value = chosen[p]
        /\ p \notin UnderWay => store[p] = chosen[p]
        /\ p \notin UnderWay \cap D
    BY <1>3, <2>1 DEF DataIInv, LastChoiceOK
  <2>3. CASE p \in D
    <3>1. \A e \in Pending : e.key # p
      BY <1>2, <2>2, <2>3
    <3> QED BY <1>1, <1>2, <1>4, <1>6, <2>3, <3>1
  <2>4. CASE p \notin D
    BY <1>1, <1>2, <1>4, <1>6, <2>2, <2>4
  <2> QED BY <2>3, <2>4
<1>8. PinOK'
  <2>1. {"pin_hash", "has_account"} \subseteq Preferences
    BY DEF Preferences
  <2>2. "pin_hash" \in D <=> "has_account" \in D
    BY DEF D
  <2>3. "has_account" \in D => choices["has_account"] = TRUE
    BY DEF D
  <2>4. chosen'.has_account = IF "has_account" \in D THEN TRUE ELSE chosen.has_account
    BY <1>6, <2>1, <2>3
  <2>5. AccountUnderWay' => AccountUnderWay \/ "has_account" \in D
    BY <1>2 DEF AccountUnderWay
  <2>6. AccountUnderWay' => /\ store'.pin_hash # Unset \/ "pin_hash" \in UnderWay' \cup lost'
                            /\ chosen'.has_account = TRUE
    BY <1>2, <1>3, <2>2, <2>4, <2>5 DEF DataIInv, PinOK
  <2>7. chosen'.has_account # TRUE => store'.pin_hash = Unset /\ "pin_hash" \notin UnderWay'
    BY <1>2, <2>2, <2>4 DEF DataIInv, PinOK
  <2>8. ASSUME ~again'
        PROVE  /\ store'.pin_hash \in {Unset, chosen'.pin_hash}
               /\ \A e \in Pending' : e.key = "pin_hash" => e.value = chosen'.pin_hash
    <3>1. store.pin_hash = Unset /\ "pin_hash" \notin UnderWay
      BY <1>3, <2>8 DEF DataIInv, PinOK
    <3>2. ASSUME NEW e \in Pending', e.key = "pin_hash"
          PROVE  e.value = chosen'.pin_hash
      <4>1. e \in L
        BY <1>1, <1>2, <3>1, <3>2
      <4> QED BY <1>4, <1>6, <2>1, <3>2, <4>1
    <3> QED BY <3>1, <3>2
  <2> QED BY <2>6, <2>7, <2>8 DEF PinOK
<1> QED BY <1>1, <1>5, <1>7, <1>8 DEF DataIInv

LEMMA DataCrash ==
    ASSUME DataIInv, Crash
    PROVE  DataIInv'
<1>1. /\ UNCHANGED <<store, chosen, raced, again>> /\ lost' = lost \cup UnderWay
      /\ tasks' = [k \in DOMAIN tasks |-> <<>>]
  BY DEF Crash
<1>2. tasks' \in Seq(Seq(Edits))
  <2>1. DOMAIN tasks = 1 .. Len(tasks) /\ Len(tasks) \in Nat /\ << >> \in Seq(Edits)
    BY DEF DataIInv
  <2> QED BY <1>1, <2>1
<1>3. Pending' = {}
  BY <1>1 DEF Pending, EditsIn
<1>4. UnderWay' = {}
  BY <1>2, <1>3, UnderWayIsPending
<1>5. LastChoiceOK'
  BY <1>1, <1>3, <1>4 DEF DataIInv, LastChoiceOK
<1>6. PinOK'
  BY <1>1, <1>3, <1>4 DEF DataIInv, PinOK, AccountUnderWay
<1> QED BY <1>1, <1>2, <1>5, <1>6 DEF DataIInv

LEMMA DataUnchanged ==
    ASSUME DataIInv, UNCHANGED <<store, tasks, chosen, raced, lost, again>>
    PROVE  DataIInv'
<1>1. UnderWay' = UnderWay /\ Pending' = Pending
  BY DEF UnderWay, Pending
<1>2. LastChoiceOK'
  BY <1>1 DEF DataIInv, LastChoiceOK
<1>3. PinOK'
  BY <1>1 DEF DataIInv, PinOK, AccountUnderWay
<1> QED BY <1>1, <1>2, <1>3 DEF DataIInv
-----------------------------------------------------------------------------
(* The screens, and the account that was entered (Onboarding).             *)

BehindPin == {"EnterPin", "Wallet", "AddToken", "Send", "Receive"}
Screens == BehindPin \cup {"Onboarding", "CreateAccount", "FinalizeAccountCreation",
                           "ImportAccount", "CreatePin"}
Check == [pin : Pins, valid : BOOLEAN \cup {Unset}]

\* What lies above CreatePin is the wallet, from where no way leads back.
StackOK ==
    /\ hasAccount \in BOOLEAN \cup {Unset}
    /\ backStack \in Seq(Screens)
    /\ hasAccount = TRUE =>
        /\ backStack # <<>> /\ backStack[1] = "EnterPin"
        /\ \A i \in 1 .. Len(backStack) : backStack[i] \in BehindPin
    /\ \A i \in 1 .. (Len(backStack) - 1) :
        backStack[i] = "CreatePin" => backStack[i + 1] = "Wallet"

\* Whoever is at CreatePin, or has been there, has entered name and key before.
AccountOK ==
    ~again /\ (chosen.has_account = TRUE \/ Shown("CreatePin")) =>
        account = <<chosen.acc_name, chosen.private_key>>

OnboardingIInv == DataIInv /\ StackOK /\ AccountOK /\ checks \in Seq(Check)

LEMMA PushedScreen ==
    ASSUME StackOK, NEW s \in Screens, Push(s), hasAccount' = hasAccount,
           Shown("CreatePin") => s = "Wallet",
           hasAccount = TRUE => s \in BehindPin
    PROVE  /\ StackOK'
           /\ Shown("CreatePin")' => s = "CreatePin"
<1>1. /\ backStack' = Append(backStack, s) /\ backStack' \in Seq(Screens)
      /\ Len(backStack) \in Nat /\ Len(backStack') = Len(backStack) + 1
      /\ \A i \in 1 .. Len(backStack) : backStack'[i] = backStack[i]
      /\ backStack'[Len(backStack) + 1] = s
  BY DEF Push, StackOK
<1>2. Shown("CreatePin") <=> Len(backStack) > 0 /\ backStack[Len(backStack)] = "CreatePin"
  BY DEF Shown, Screen, Last, StackOK
<1>3. ASSUME NEW i \in 1 .. (Len(backStack') - 1), backStack'[i] = "CreatePin"
      PROVE  backStack'[i + 1] = "Wallet"
  <2>1. i \in 1 .. Len(backStack) /\ backStack[i] = "CreatePin"
    BY <1>1, <1>3
  <2>2. CASE i = Len(backStack)
    BY <1>1, <1>2, <2>1, <2>2
  <2>3. CASE i # Len(backStack)
    <3>1. i \in 1 .. (Len(backStack) - 1) /\ i + 1 \in 1 .. Len(backStack)
      BY <1>1, <2>1, <2>3
    <3> QED BY <1>1, <2>1, <3>1 DEF StackOK
  <2> QED BY <2>2, <2>3
<1>4. ASSUME hasAccount = TRUE
      PROVE  /\ backStack' # <<>> /\ backStack'[1] = "EnterPin"
             /\ \A i \in 1 .. Len(backStack') : backStack'[i] \in BehindPin
  <2>1. /\ Len(backStack) > 0 /\ backStack[1] = "EnterPin"
        /\ \A i \in 1 .. Len(backStack) : backStack[i] \in BehindPin
    BY <1>4 DEF StackOK
  <2>2. 1 \in 1 .. Len(backStack) /\ backStack' # <<>>
    BY <1>1, <2>1
  <2>3. ASSUME NEW i \in 1 .. Len(backStack')
        PROVE  backStack'[i] \in BehindPin
    BY <1>1, <1>4, <2>1
  <2> QED BY <1>1, <2>1, <2>2, <2>3
<1>5. Shown("CreatePin")' => s = "CreatePin"
  BY <1>1 DEF Shown, Screen, Last
<1> QED BY <1>1, <1>3, <1>4, <1>5 DEF StackOK

\* Going back does not lead to CreatePin, nor to before EnterPin.
LEMMA PoppedScreen ==
    ASSUME StackOK, backStack # <<>>, Len(backStack) # 1, ~Shown("Wallet"),
           backStack' = Front(backStack), hasAccount' = hasAccount
    PROVE  StackOK' /\ ~Shown("CreatePin")'
<1>1. /\ Len(backStack) \in Nat /\ Len(backStack) > 1
      /\ backStack' \in Seq(Screens) /\ Len(backStack') = Len(backStack) - 1
      /\ \A i \in 1 .. (Len(backStack) - 1) : backStack'[i] = backStack[i]
  <2>1. backStack' = SubSeq(backStack, 1, Len(backStack) - 1) /\ backStack \in Seq(Screens)
    BY DEF StackOK, Front
  <2>2. Len(backStack) \in Nat /\ Len(backStack) > 1
    <3> DEFINE n == Len(backStack)
    <3>1. n \in Nat /\ n # 0 /\ n # 1
      BY <2>1, EmptySeq
    <3> HIDE DEF n
    <3>2. n > 1
      BY <3>1
    <3> QED BY <3>1, <3>2 DEF n
  <2>3. /\ backStack' \in Seq(Screens) /\ Len(backStack') = Len(backStack) - 1
        /\ \A i \in 1 .. (Len(backStack) - 1) : backStack'[i] = backStack[i]
    BY <2>1, <2>2
  <2> QED BY <2>2, <2>3
<1>2. backStack[Len(backStack)] # "Wallet"
  BY DEF Shown, Screen, Last
<1>3. ~Shown("CreatePin")'
  <2>1. SUFFICES ASSUME backStack'[Len(backStack')] = "CreatePin" PROVE FALSE
    BY DEF Shown, Screen, Last
  <2>2. /\ Len(backStack) - 1 \in 1 .. (Len(backStack) - 1)
        /\ (Len(backStack) - 1) + 1 = Len(backStack)
    BY <1>1
  <2>3. backStack[Len(backStack) - 1] = "CreatePin"
    BY <1>1, <2>1, <2>2
  <2> QED BY <1>2, <2>2, <2>3 DEF StackOK
<1>4. ASSUME NEW i \in 1 .. (Len(backStack') - 1), backStack'[i] = "CreatePin"
      PROVE  backStack'[i + 1] = "Wallet"
  <2>1. i \in 1 .. (Len(backStack) - 1) /\ i + 1 \in 1 .. (Len(backStack) - 1)
    BY <1>1, <1>4
  <2> QED BY <1>1, <1>4, <2>1 DEF StackOK
<1>5. ASSUME hasAccount = TRUE
      PROVE  /\ backStack' # <<>> /\ backStack'[1] = "EnterPin"
             /\ \A i \in 1 .. Len(backStack') : backStack'[i] \in BehindPin
  <2>1. backStack' # <<>> /\ 1 \in 1 .. (Len(backStack) - 1)
    BY <1>1
  <2>2. \A i \in 1 .. Len(backStack') :
            i \in 1 .. (Len(backStack) - 1) /\ i \in 1 .. Len(backStack)
    BY <1>1
  <2> QED BY <1>1, <1>5, <2>1, <2>2 DEF StackOK
<1> QED BY <1>1, <1>3, <1>4, <1>5 DEF StackOK

LEMMA EmptyStack ==
    <<>> \in Seq(Screens) /\ <<>> \in Seq(Check) /\ (1 .. (Len(<<>>) - 1)) = {}
OBVIOUS

LEMMA ClosedStack ==
    ASSUME Closes
    PROVE  StackOK' /\ ~Shown("CreatePin")' /\ checks' \in Seq(Check)
<1>1. hasAccount' = Unset /\ backStack' = <<>> /\ checks' = <<>> /\ Unset # TRUE
  BY OnboardingAssumption DEF Closes
<1> QED BY <1>1, EmptyStack DEF StackOK, Shown

LEMMA CheckRemoved ==
    ASSUME NEW s \in Seq(Check), NEW c \in DOMAIN s
    PROVE  RemoveAt(s, c) \in Seq(Check)
BY DEF RemoveAt

\* Behind EnterPin no screen of onboarding is shown.
LEMMA ShownBefore ==
    ASSUME StackOK,
           \E s \in {"Onboarding", "CreateAccount", "FinalizeAccountCreation", "ImportAccount"} :
                Shown(s)
    PROVE  hasAccount # TRUE /\ ~Shown("CreatePin")
<1>1. PICK s \in {"Onboarding", "CreateAccount", "FinalizeAccountCreation", "ImportAccount"} :
        Shown(s)
  OBVIOUS
<1>2. s \notin BehindPin /\ s # "CreatePin"
  BY <1>1 DEF BehindPin
<1>3. backStack # <<>> /\ backStack \in Seq(Screens) /\ backStack[Len(backStack)] = s
  BY <1>1 DEF StackOK, Shown, Screen, Last
<1>4. Len(backStack) \in 1 .. Len(backStack)
  BY <1>3
<1>5. ~Shown("CreatePin")
  BY <1>2, <1>3 DEF Shown, Screen, Last
<1> QED BY <1>2, <1>3, <1>4, <1>5 DEF StackOK

LEMMA EditsInOne ==
    /\ \A e \in Edits : EditsIn(<< <<e>> >>) = {e}
    /\ \A d, e \in Edits : EditsIn(<< <<d, e>> >>) = {d, e}
BY DEF EditsIn

LEMMA EditsInTwo ==
    \A d, e \in Edits : EditsIn(<< <<d>>, <<e>> >>) = {d, e}
BY DEF EditsIn

\* Nothing is chosen, and CreatePin is not reached.
LEMMA AccountStays ==
    ASSUME OnboardingIInv, UNCHANGED <<chosen, account, again>>,
           Shown("CreatePin")' => Shown("CreatePin")
    PROVE  AccountOK'
BY DEF OnboardingIInv, AccountOK

LEMMA StackStays ==
    ASSUME StackOK, UNCHANGED <<hasAccount, backStack>>
    PROVE  StackOK' /\ Shown("CreatePin")' = Shown("CreatePin")
BY DEF StackOK, Shown, Screen

LEMMA OnboardingInit == Init => OnboardingIInv
<1>1. SUFFICES ASSUME Init PROVE OnboardingIInv
  OBVIOUS
<1>2. tasks \in Seq(Seq(Edits)) /\ Pending = {}
  BY <1>1 DEF Init, Pending, EditsIn
<1>3. UnderWay = {}
  BY <1>2, UnderWayIsPending
<1>4. {"pin_hash", "has_account"} \subseteq Preferences
  BY DEF Preferences
<1>5. /\ \A p \in Preferences : store[p] = Unset /\ chosen[p] = Unset
      /\ store \in [Preferences -> Stored] /\ chosen \in [Preferences -> Stored]
      /\ again = FALSE
  BY <1>1 DEF Init, Stored
<1>6. LastChoiceOK
  BY <1>2, <1>5 DEF LastChoiceOK
<1>7. store.has_account # TRUE /\ store.pin_hash = Unset
  BY <1>4, <1>5, OnboardingAssumption
<1>8. PinOK
  BY <1>2, <1>3, <1>4, <1>5, <1>7 DEF PinOK, AccountUnderWay
<1>9. StackOK /\ ~Shown("CreatePin") /\ checks \in Seq(Check)
  <2>1. hasAccount = Unset /\ backStack = <<>> /\ checks = <<>> /\ Unset # TRUE
    BY <1>1, OnboardingAssumption DEF Init
  <2> QED BY <2>1, EmptyStack DEF StackOK, Shown
<1>10. chosen.has_account # TRUE
  BY <1>4, <1>5, OnboardingAssumption
<1> QED BY <1>2, <1>5, <1>6, <1>8, <1>9, <1>10 DEF OnboardingIInv, DataIInv, AccountOK

\* The screens of onboarding that store nothing.
LEMMA MoveSteps ==
    ASSUME OnboardingIInv,
           \/ Launcher
           \/ \E s \in {"CreateAccount", "ImportAccount"} : OnboardingScreen(s)
           \/ CreateWallet
           \/ GenerateKey
           \/ \E s \in {"AddToken", "Send", "Receive"} : WalletScreen(s)
    PROVE  OnboardingIInv'
<1>1. UNCHANGED <<store, tasks, checks, hasAccount, chosen, account, raced, lost, again>>
  BY DEF Launcher, OnboardingScreen, CreateWallet, GenerateKey, WalletScreen, history
<1>2. DataIInv' /\ checks' \in Seq(Check)
  BY <1>1, DataUnchanged DEF OnboardingIInv
<1>3. \/ backStack' = backStack
      \/ /\ Shown("Onboarding") \/ Shown("CreateAccount")
         /\ \E s \in {"CreateAccount", "ImportAccount", "FinalizeAccountCreation"} : Push(s)
      \/ Shown("Wallet") /\ \E s \in {"AddToken", "Send", "Receive"} : Push(s)
  BY DEF Launcher, OnboardingScreen, CreateWallet, GenerateKey, WalletScreen
<1>4. StackOK' /\ (Shown("CreatePin")' => Shown("CreatePin"))
  <2>1. CASE backStack' = backStack
    BY <1>1, <2>1, StackStays DEF OnboardingIInv
  <2>2. ASSUME NEW s \in {"CreateAccount", "ImportAccount", "FinalizeAccountCreation"},
               Shown("Onboarding") \/ Shown("CreateAccount"), Push(s)
        PROVE  StackOK' /\ (Shown("CreatePin")' => Shown("CreatePin"))
    <3>1. hasAccount # TRUE /\ ~Shown("CreatePin")
      BY <2>2, ShownBefore DEF OnboardingIInv
    <3>2. s \in Screens /\ s # "CreatePin"
      BY DEF Screens
    <3> QED BY <1>1, <2>2, <3>1, <3>2, PushedScreen DEF OnboardingIInv
  <2>3. ASSUME NEW s \in {"AddToken", "Send", "Receive"}, Shown("Wallet"), Push(s)
        PROVE  StackOK' /\ (Shown("CreatePin")' => Shown("CreatePin"))
    <3>1. ~Shown("CreatePin") /\ s \in Screens /\ s \in BehindPin /\ s # "CreatePin"
      BY <2>3 DEF Shown, Screens, BehindPin
    <3> QED BY <1>1, <2>3, <3>1, PushedScreen DEF OnboardingIInv
  <2> QED BY <1>3, <2>1, <2>2, <2>3
<1> QED BY <1>1, <1>2, <1>4, AccountStays DEF OnboardingIInv

\* Leaving and coming back.
LEMMA ActivitySteps ==
    ASSUME OnboardingIInv, Collect \/ navigateUp \/ Crash
    PROVE  OnboardingIInv'
<1>1. UNCHANGED <<chosen, account, again>>
  BY DEF Collect, navigateUp, Crash, history
<1>2. DataIInv'
  <2>1. CASE Crash
    BY <2>1, DataCrash DEF OnboardingIInv
  <2>2. CASE Collect \/ navigateUp
    BY <2>2, DataUnchanged DEF Collect, navigateUp, history, OnboardingIInv
  <2> QED BY <2>1, <2>2
<1>3. StackOK' /\ ~Shown("CreatePin")' /\ checks' \in Seq(Check)
  <2>1. CASE Collect
    <3> DEFINE has == store.has_account = TRUE
    <3>1. hasAccount' = has /\ backStack' = <<StartDestination(has)>> /\ checks' = checks
      BY <2>1 DEF Collect, SetGraph
    <3>2. /\ StartDestination(has) \in {"EnterPin", "Onboarding"}
          /\ has = TRUE => StartDestination(has) = "EnterPin"
      BY DEF StartDestination
    <3> DEFINE start == StartDestination(has)
    <3> HIDE DEF start
    <3>3. backStack' = <<start>> /\ start \in {"EnterPin", "Onboarding"}
          /\ (hasAccount' = TRUE => start = "EnterPin")
      BY <3>1, <3>2 DEF start
    <3>4. /\ backStack' \in Seq(Screens) /\ Len(backStack') = 1 /\ backStack'[1] = start
          /\ backStack' # <<>>
      BY <3>3 DEF Screens, BehindPin
    <3>5. ~Shown("CreatePin")'
      BY <3>3, <3>4 DEF Shown, Screen, Last
    <3>6. hasAccount' \in BOOLEAN
      BY <3>1
    <3>7. hasAccount' = TRUE => \A i \in 1 .. Len(backStack') : backStack'[i] \in BehindPin
      BY <3>3, <3>4 DEF BehindPin
    <3>8. StackOK'
      BY <3>3, <3>4, <3>6, <3>7 DEF StackOK
    <3> QED BY <3>1, <3>5, <3>8 DEF OnboardingIInv
  <2>2. CASE navigateUp
    <3>1. CASE Shown("Wallet") \/ Len(backStack) = 1
      BY <2>2, <3>1, ClosedStack DEF navigateUp
    <3>2. CASE ~(Shown("Wallet") \/ Len(backStack) = 1)
      BY <2>2, <3>2, PoppedScreen DEF navigateUp, OnboardingIInv
    <3> QED BY <3>1, <3>2
  <2>3. CASE Crash
    BY <2>3, ClosedStack DEF Crash
  <2> QED BY <2>1, <2>2, <2>3
<1> QED BY <1>1, <1>2, <1>3, AccountStays DEF OnboardingIInv

\* The PIN is asked for.
LEMMA PinSteps ==
    ASSUME OnboardingIInv,
           \/ \E pin \in Pins : EnterPinScreen(pin)
           \/ \E c \in DOMAIN checks : ReadPin(c)
           \/ \E c \in DOMAIN checks : PinChecked(c)
    PROVE  OnboardingIInv'
<1>1. UNCHANGED <<store, tasks, hasAccount, chosen, account, raced, lost, again>>
  BY DEF EnterPinScreen, ReadPin, PinChecked, history
<1>2. DataIInv'
  BY <1>1, DataUnchanged DEF OnboardingIInv
<1>3. checks' \in Seq(Check)
  <2>1. ASSUME NEW pin \in Pins, EnterPinScreen(pin)
        PROVE  checks' \in Seq(Check)
    <3>1. [pin |-> pin, valid |-> Unset] \in Check
      BY DEF Check
    <3> QED BY <2>1, <3>1 DEF EnterPinScreen, OnboardingIInv
  <2>2. ASSUME NEW c \in DOMAIN checks, ReadPin(c)
        PROVE  checks' \in Seq(Check)
    <3>1. verifyPin(checks[c].pin) \in BOOLEAN /\ checks[c] \in Check
      BY DEF verifyPin, OnboardingIInv
    <3>2. checks' = [checks EXCEPT ![c] = [checks[c] EXCEPT !.valid = verifyPin(checks[c].pin)]]
      BY <2>2 DEF ReadPin
    <3>3. [checks[c] EXCEPT !.valid = verifyPin(checks[c].pin)] \in Check
      BY <3>1 DEF Check
    <3> QED BY <3>2, <3>3 DEF OnboardingIInv
  <2>3. ASSUME NEW c \in DOMAIN checks, PinChecked(c)
        PROVE  checks' \in Seq(Check)
    BY <2>3, CheckRemoved DEF PinChecked, OnboardingIInv
  <2> QED BY <2>1, <2>2, <2>3
<1>4. Push("Wallet") \/ backStack' = backStack
  BY DEF EnterPinScreen, ReadPin, PinChecked
<1>5. StackOK' /\ (Shown("CreatePin")' => Shown("CreatePin"))
  <2>1. "Wallet" \in Screens /\ "Wallet" \in BehindPin
    BY DEF Screens, BehindPin
  <2> QED BY <1>1, <1>4, <2>1, PushedScreen, StackStays DEF OnboardingIInv
<1> QED BY <1>1, <1>2, <1>3, <1>5, AccountStays DEF OnboardingIInv

\* The user enters name, key and PIN.
LEMMA EnterSteps ==
    ASSUME OnboardingIInv,
           \/ AccountInfoView
           \/ \E key \in PrivateKeys : PrivateKeyView(key)
           \/ \E name \in Names : CreateNameView(name)
           \/ \E pin \in Pins : CreatePinScreen(pin)
    PROVE  OnboardingIInv'
<1> USE DEF OnboardingIInv
<1>1. CASE AccountInfoView
  <2> DEFINE name == setAccountName(DefaultName)
             key == setPrivateKey(DefaultKey)
             choices == [acc_name |-> DefaultName, private_key |-> DefaultKey]
  <2>1. {name, key} \subseteq Edits /\ << <<name, key>> >> \in Seq(Seq(Edits))
    BY OnboardingAssumption DEF Edits, setAccountName, setPrivateKey
  <2>2. EditsIn(<< <<name, key>> >>) = {name, key}
    BY <2>1, EditsInOne
  <2>3. /\ DOMAIN choices = {"acc_name", "private_key"}
        /\ choices["acc_name"] = DefaultName /\ choices["private_key"] = DefaultKey
        /\ name.key = "acc_name" /\ name.value = DefaultName
        /\ key.key = "private_key" /\ key.value = DefaultKey
    BY DEF setAccountName, setPrivateKey
  <2>4. /\ Launch(<< <<name, key>> >>) /\ Choose(choices) /\ Shown("FinalizeAccountCreation")
        /\ Push("CreatePin") /\ account' = <<DefaultName, DefaultKey>>
        /\ UNCHANGED <<store, checks, hasAccount>>
    BY <1>1 DEF AccountInfoView
  <2> HIDE DEF name, key, choices
  <2>5. DataIInv'
    BY <2>1, <2>2, <2>3, <2>4, DataChoose
  <2>6. StackOK'
    <3>1. hasAccount # TRUE /\ ~Shown("CreatePin")
      BY <2>4, ShownBefore
    <3>2. "CreatePin" \in Screens
      BY DEF Screens
    <3> QED BY <2>4, <3>1, <3>2, PushedScreen
  <2>7. chosen'.acc_name = DefaultName /\ chosen'.private_key = DefaultKey
    BY <2>3, <2>4 DEF Choose, Preferences
  <2> QED BY <2>4, <2>5, <2>6, <2>7 DEF AccountOK
<1>2. ASSUME NEW key \in PrivateKeys, PrivateKeyView(key)
      PROVE  OnboardingIInv'
  <2> DEFINE edit == setPrivateKey(key)
             choices == [private_key |-> key]
  <2>1. edit \in Edits /\ << <<edit>> >> \in Seq(Seq(Edits))
    BY DEF Edits, setPrivateKey
  <2>2. EditsIn(<< <<edit>> >>) = {edit}
    BY <2>1, EditsInOne
  <2>3. /\ DOMAIN choices = {"private_key"} /\ choices["private_key"] = key
        /\ edit.key = "private_key" /\ edit.value = key
    BY DEF setPrivateKey
  <2>4. /\ Launch(<< <<edit>> >>) /\ Choose(choices) /\ Shown("ImportAccount")
        /\ UNCHANGED <<store, checks, hasAccount, backStack, account>>
    BY <1>2 DEF PrivateKeyView, ImportedKey
  <2> HIDE DEF edit, choices
  <2>5. DataIInv'
    BY <2>1, <2>2, <2>3, <2>4, DataChoose
  <2>6. StackOK' /\ ~Shown("CreatePin")'
    BY <2>4, StackStays DEF Shown
  <2>7. again' = (again \/ chosen.has_account = TRUE)
        /\ chosen'.has_account = chosen.has_account
    BY <2>3, <2>4 DEF Choose, Preferences
  <2> QED BY <2>4, <2>5, <2>6, <2>7 DEF AccountOK
<1>3. ASSUME NEW name \in Names, CreateNameView(name)
      PROVE  OnboardingIInv'
  <2> DEFINE edit == setAccountName(name)
             choices == [acc_name |-> name]
  <2>1. edit \in Edits /\ << <<edit>> >> \in Seq(Seq(Edits))
    BY DEF Edits, setAccountName
  <2>2. EditsIn(<< <<edit>> >>) = {edit}
    BY <2>1, EditsInOne
  <2>3. /\ DOMAIN choices = {"acc_name"} /\ choices["acc_name"] = name
        /\ edit.key = "acc_name" /\ edit.value = name
    BY DEF setAccountName
  <2>4. /\ Launch(<< <<edit>> >>) /\ Choose(choices) /\ Shown("ImportAccount")
        /\ Push("CreatePin") /\ account' = <<name, chosen.private_key>>
        /\ UNCHANGED <<store, checks, hasAccount>>
    BY <1>3 DEF CreateNameView
  <2> HIDE DEF edit, choices
  <2>5. DataIInv'
    BY <2>1, <2>2, <2>3, <2>4, DataChoose
  <2>6. StackOK'
    <3>1. hasAccount # TRUE /\ ~Shown("CreatePin")
      BY <2>4, ShownBefore
    <3>2. "CreatePin" \in Screens
      BY DEF Screens
    <3> QED BY <2>4, <3>1, <3>2, PushedScreen
  <2>7. chosen'.acc_name = name /\ chosen'.private_key = chosen.private_key
    BY <2>3, <2>4 DEF Choose, Preferences
  <2> QED BY <2>4, <2>5, <2>6, <2>7 DEF AccountOK
<1>4. ASSUME NEW pin \in Pins, CreatePinScreen(pin)
      PROVE  OnboardingIInv'
  <2> DEFINE choices == [pin_hash |-> hashPin(pin), has_account |-> TRUE]
             first == setPin(pin)
             second == setHasAccount
  <2>1. {first, second} \subseteq Edits /\ << <<first>>, <<second>> >> \in Seq(Seq(Edits))
    BY DEF Edits, setPin, setHasAccount
  <2>2. EditsIn(<< <<first>>, <<second>> >>) = {first, second}
    BY <2>1, EditsInTwo
  <2>3. /\ DOMAIN choices = {"pin_hash", "has_account"}
        /\ choices["pin_hash"] = hashPin(pin) /\ choices["has_account"] = TRUE
        /\ first.key = "pin_hash" /\ first.value = hashPin(pin)
        /\ second.key = "has_account" /\ second.value = TRUE
    BY DEF setPin, setHasAccount
  <2>4. /\ Launch(<< <<first>>, <<second>> >>) /\ Choose(choices) /\ Shown("CreatePin")
        /\ Push("Wallet") /\ UNCHANGED <<store, checks, hasAccount, account>>
    BY <1>4 DEF CreatePinScreen, Completed
  <2> HIDE DEF first, second, choices
  <2>5. DataIInv'
    BY <2>1, <2>2, <2>3, <2>4, DataChoose
  <2>6. StackOK'
    <3>1. "Wallet" \in Screens /\ "Wallet" \in BehindPin
      BY DEF Screens, BehindPin
    <3> QED BY <2>4, <3>1, PushedScreen
  <2>7. /\ again' = (again \/ chosen.has_account = TRUE)
        /\ chosen'.acc_name = chosen.acc_name /\ chosen'.private_key = chosen.private_key
    BY <2>3, <2>4 DEF Choose, Preferences
  <2> QED BY <2>4, <2>5, <2>6, <2>7 DEF AccountOK
<1> QED BY <1>1, <1>2, <1>3, <1>4

LEMMA EditStep ==
    ASSUME OnboardingIInv, NEW k \in DOMAIN tasks, Edit(k)
    PROVE  OnboardingIInv'
<1>1. UNCHANGED <<checks, hasAccount, backStack, chosen, account, again>>
  BY DEF Edit, history
<1> QED BY <1>1, DataEdit, StackStays, AccountStays DEF OnboardingIInv

LEMMA OnboardingNext == OnboardingIInv /\ [Next]_vars => OnboardingIInv'
<1>1. SUFFICES ASSUME OnboardingIInv, [Next]_vars PROVE OnboardingIInv'
  OBVIOUS
<1>2. CASE UNCHANGED vars
  BY <1>1, <1>2, DataUnchanged, StackStays, AccountStays DEF vars, OnboardingIInv
<1>3. CASE Next
  BY <1>1, <1>3, MoveSteps, ActivitySteps, PinSteps, EnterSteps, EditStep DEF Next
<1> QED BY <1>1, <1>2, <1>3

LEMMA OnboardingInvariant == Spec => []OnboardingIInv
BY OnboardingInit, OnboardingNext, PTL DEF Spec

(* However often the user goes back, leaves and comes again, and whenever   *)
(* the process dies, no account is without a PIN that is stored, under way  *)
(* or lost in a crash.                                                      *)
THEOREM PinWithAccount == Spec => []PinComesWithAccount
<1>1. OnboardingIInv => PinComesWithAccount
  BY DEF OnboardingIInv, DataIInv, PinOK, AccountUnderWay, PinComesWithAccount
<1> QED BY <1>1, OnboardingInvariant, PTL

(* Whatever order any number of coroutines run in, the last choice of what  *)
(* has neither raced nor been lost is what is stored in the end.            *)
THEOREM ChoicesAreStored == Spec => []LastChoiceStored
<1>1. OnboardingIInv => LastChoiceStored
  BY DEF OnboardingIInv, DataIInv, LastChoiceOK, LastChoiceStored
<1> QED BY <1>1, OnboardingInvariant, PTL

(* Name and key of a complete account were entered together.               *)
THEOREM AccountIsOne == Spec => []AccountBelongsTogether
<1>1. OnboardingIInv => AccountBelongsTogether
  <2>1. SUFFICES ASSUME OnboardingIInv, store.has_account = TRUE, UnderWay = {}, ~again,
                        {"acc_name", "private_key"} \intersect (raced \union lost) = {}
                 PROVE  <<store.acc_name, store.private_key>> = account
    BY DEF AccountBelongsTogether
  <2>2. account = <<chosen.acc_name, chosen.private_key>>
    BY <2>1 DEF OnboardingIInv, DataIInv, PinOK, AccountUnderWay, AccountOK
  <2>3. store.acc_name = chosen.acc_name /\ store.private_key = chosen.private_key
    BY <2>1 DEF OnboardingIInv, DataIInv, LastChoiceOK, Preferences
  <2> QED BY <2>2, <2>3
<1> QED BY <1>1, OnboardingInvariant, PTL

(* However the user navigates, a stored account that has been seen is       *)
(* behind EnterPin.                                                         *)
THEOREM BehindThePin == Spec => []AccountIsBehindPin
<1>1. OnboardingIInv => AccountIsBehindPin
  BY DEF OnboardingIInv, StackOK, AccountIsBehindPin, BehindPin, Range
<1> QED BY <1>1, OnboardingInvariant, PTL

(* Whoever's PIN is right has entered the last one chosen, unless the new   *)
(* PIN of a second passage through onboarding is not stored.                *)
THEOREM RightPinIsChosen == Spec => OpensWithChosenPin
<1> DEFINE Step ==
        \A c \in DOMAIN checks:
            /\ ReadPin(c) /\ checks'[c].valid = TRUE
            /\ ~again \/ "pin_hash" \notin UnderWay \union raced \union lost
            => hashPin(checks[c].pin) = chosen.pin_hash
<1>1. ASSUME OnboardingIInv, [Next]_vars
      PROVE  [Step]_vars
  <2>1. SUFFICES ASSUME NEW c \in DOMAIN checks, ReadPin(c), checks'[c].valid = TRUE,
                        ~again \/ "pin_hash" \notin UnderWay \union raced \union lost
                 PROVE  hashPin(checks[c].pin) = chosen.pin_hash
    OBVIOUS
  <2>2. verifyPin(checks[c].pin)
    <3>1. checks[c] \in Check
      BY <1>1 DEF OnboardingIInv
    <3>2. checks'[c].valid = verifyPin(checks[c].pin)
      BY <2>1, <3>1 DEF ReadPin, Check
    <3> QED BY <2>1, <3>2
  <2>3. store.pin_hash # Unset /\ hashPin(checks[c].pin) = store.pin_hash
    BY <2>2 DEF verifyPin
  <2>4. store.pin_hash \in {Unset, chosen.pin_hash}
    BY <1>1, <2>1 DEF OnboardingIInv, DataIInv, PinOK, LastChoiceOK, Preferences
  <2> QED BY <2>3, <2>4
<1> QED BY <1>1, OnboardingInvariant, PTL DEF Spec, OpensWithChosenPin
-----------------------------------------------------------------------------
(* The transfers (Transfers).                                              *)

Form == [amount : Amount, address : BOOLEAN, token : Tokens \cup {NewForm.token},
         activate : BOOLEAN]

\* While a call waits its form stays confirmed, so that the next confirmation is
\* counted when the call is gone: its number is no one else's.
TransfersIInv ==
    /\ confirms \in Nat
    /\ form \in Form
    /\ waiting # {} => screen = "send" /\ launched /\ form.activate
    /\ \A c, d \in waiting : c = d
    /\ \A c \in waiting : c.confirm = confirms /\ c.amount.value < c.checked
    /\ \A t \in sent : t.confirm \in 0 .. confirms /\ t.amount < t.checked
    /\ form.activate => \A t \in sent : t.confirm # confirms
    /\ ConfirmationSendsOnce

LEMMA NewFormType == NewForm \in Form /\ ~NewForm.activate
BY TransfersAssumption DEF NewForm, Form, Amount

LEMMA TransfersInitIInv == TransfersInit => TransfersIInv
BY NewFormType DEF TransfersInit, TransfersIInv, ConfirmationSendsOnce

\* Nothing waits and nothing is confirmed: what is sent stays.
LEMMA NothingUnderWay ==
    ASSUME TransfersIInv, waiting' = {}, form' \in Form, ~form'.activate,
           UNCHANGED <<confirms, sent>>
    PROVE  TransfersIInv'
BY DEF TransfersIInv, ConfirmationSendsOnce

\* The fields change, and nothing else that counts.
LEMMA Untouched ==
    ASSUME TransfersIInv, form' \in Form, form'.activate = form.activate,
           screen' = screen \/ screen # "send",
           UNCHANGED <<launched, waiting, confirms, sent>>
    PROVE  TransfersIInv'
BY DEF TransfersIInv, ConfirmationSendsOnce

LEMMA ClickStep ==
    ASSUME TransfersIInv, onClick
    PROVE  TransfersIInv'
<1>1. form' \in Form /\ form'.activate /\ UNCHANGED <<screen, launched, waiting, sent>>
  BY DEF onClick, TransfersIInv, Form
<1>2. CASE form.activate
  BY <1>1, <1>2, Untouched DEF onClick, TransfersIInv, ConfirmationSendsOnce
<1>3. CASE ~form.activate
  <2>1. waiting = {} /\ confirms' = confirms + 1 /\ confirms' \in Nat
    BY <1>3 DEF onClick, TransfersIInv
  <2> QED BY <1>1, <2>1 DEF TransfersIInv, ConfirmationSendsOnce
<1> QED BY <1>2, <1>3

LEMMA LaunchStep ==
    ASSUME TransfersIInv, handleOnClick
    PROVE  TransfersIInv'
<1>1. /\ waiting = {} /\ launched' /\ form.activate
      /\ UNCHANGED <<confirms, sent>>
  BY DEF handleOnClick, LaunchedEffect, TransfersIInv
<1>2. CASE Accepted(form.amount)
  BY <1>1, <1>2 DEF handleOnClick, Accepted, TransfersIInv, ConfirmationSendsOnce
<1>3. CASE ~Accepted(form.amount)
  <2>1. waiting' = {} /\ form' \in Form /\ ~form'.activate
    BY <1>1, <1>3 DEF handleOnClick, TransfersIInv, Form
  <2> QED BY <1>1, <2>1, NothingUnderWay
<1> QED BY <1>2, <1>3

\* A call that returns is the only one.
LEMMA ReturnedCall ==
    ASSUME TransfersIInv, NEW call \in waiting, Returns(call)
    PROVE  waiting' = {} /\ form' \in Form /\ ~form'.activate /\ confirms' = confirms
BY DEF Returns, TransfersIInv, Form

\* The confirmation of a call has sent nothing before.
LEMMA TransferStep ==
    ASSUME TransfersIInv, NEW call \in waiting, transferFunds(call)
    PROVE  TransfersIInv'
<1>1. /\ waiting' = {} /\ form' \in Form /\ ~form'.activate /\ confirms' = confirms
  BY ReturnedCall DEF transferFunds
<1> DEFINE t == [id |-> Cardinality(sent) + 1, amount |-> call.amount.value,
                 confirm |-> call.confirm, checked |-> call.checked]
<1>2. sent' = sent \cup {t}
  BY DEF transferFunds, AmountGiven
<1>3. /\ t.confirm = confirms /\ t.amount < t.checked
      /\ \A u \in sent : u.confirm # t.confirm
  BY DEF TransfersIInv
<1> HIDE DEF t
<1> QED BY <1>1, <1>2, <1>3 DEF TransfersIInv, ConfirmationSendsOnce

LEMMA TransfersNextIInv == TransfersIInv /\ [TransfersNext]_transfers_vars => TransfersIInv'
<1>1. SUFFICES ASSUME TransfersIInv, [TransfersNext]_transfers_vars PROVE TransfersIInv'
  OBVIOUS
<1>2. CASE Fetch
  <2>1. ASSUME NEW f \in 1 .. MaxFetches, NEW token \in Tokens, getBalance(f, token)
        PROVE  TransfersIInv'
    BY <1>1, <2>1, Untouched DEF getBalance, Fetching, TransfersIInv
  <2>2. ASSUME NEW f \in 1 .. MaxFetches, FetchThrows(f)
        PROVE  TransfersIInv'
    BY <1>1, <2>2, NothingUnderWay, NewFormType DEF FetchThrows
  <2>3. ASSUME NEW f \in 1 .. MaxFetches, awaitAll(f)
        PROVE  TransfersIInv'
    BY <1>1, <2>3, Untouched DEF awaitAll, TransfersIInv
  <2> QED BY <1>2, <2>1, <2>2, <2>3 DEF Fetch
<1>3. CASE Open
  BY <1>1, <1>3, Untouched DEF Open, TransfersIInv
<1>4. CASE onSendPress
  BY <1>1, <1>4, NothingUnderWay, NewFormType DEF onSendPress, TransfersIInv
<1>5. CASE LeaveSendScreen
  BY <1>1, <1>5, NothingUnderWay, NewFormType DEF LeaveSendScreen
<1>6. CASE SendScreen
  <2>1. ASSUME NEW amount \in Amount, EditForm([form EXCEPT !.amount = amount])
        PROVE  TransfersIInv'
    BY <1>1, <2>1, Untouched DEF EditForm, TransfersIInv, Form
  <2>2. ASSUME NEW address \in BOOLEAN, EditForm([form EXCEPT !.address = address])
        PROVE  TransfersIInv'
    BY <1>1, <2>2, Untouched DEF EditForm, TransfersIInv, Form
  <2>3. ASSUME NEW token \in Tokens, EditForm([form EXCEPT !.token = token])
        PROVE  TransfersIInv'
    BY <1>1, <2>3, Untouched DEF EditForm, TransfersIInv, Form
  <2>4. ASSUME NEW call \in waiting, TransferThrows(call)
        PROVE  TransfersIInv'
    BY <1>1, <2>4, ReturnedCall, NothingUnderWay DEF TransferThrows
  <2>5. CASE Dispose
    BY <1>1, <2>5, NothingUnderWay DEF Dispose, TransfersIInv
  <2> QED
    BY <1>1, <1>6, <2>1, <2>2, <2>3, <2>4, <2>5, ClickStep, LaunchStep, TransferStep
    DEF SendScreen
<1>7. ASSUME NEW t \in transfers, Execute(t) \/ TransferFails(t)
      PROVE  TransfersIInv'
  BY <1>1, <1>7, Untouched DEF Execute, TransferFails, TransfersIInv
<1>8. CASE UNCHANGED transfers_vars
  BY <1>1, <1>8, Untouched DEF transfers_vars, TransfersIInv
<1> QED
  BY <1>1, <1>2, <1>3, <1>4, <1>5, <1>6, <1>7, <1>8 DEF TransfersNext

(* However often the button is clicked, the screen is left and the node    *)
(* answers late, a confirmation sends one transfer at most.                *)
THEOREM OneTransferPerConfirmation == TransfersSpec => []ConfirmationSendsOnce
<1>1. TransfersIInv => ConfirmationSendsOnce
  BY DEF TransfersIInv
<1> QED BY <1>1, TransfersInitIInv, TransfersNextIInv, PTL DEF TransfersSpec

(* Whatever is typed, fetched or sent meanwhile, a transfer is below the   *)
(* balance it was checked against.                                         *)
THEOREM TransfersAreChecked == TransfersSpec => []SendsWhatWasChecked
<1>1. TransfersIInv => SendsWhatWasChecked
  BY DEF TransfersIInv, SendsWhatWasChecked
<1> QED BY <1>1, TransfersInitIInv, TransfersNextIInv, PTL DEF TransfersSpec

=============================================================================
