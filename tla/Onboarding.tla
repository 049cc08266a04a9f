------------------------------ MODULE Onboarding ------------------------------
(***************************************************************************)
(* How the wallet gets an account and a PIN, and asks for the PIN later:   *)
(* WalletApp.kt, the screens of ui/onboarding, EnterPinScreen.kt and       *)
(* WalletStoreModule.kt (wallet_app).                                      *)
(*                                                                         *)
(* A button moves to the next screen at once and launches a coroutine that *)
(* edits the data store later.  Coroutines run in any order, and go on when *)
(* the screen, or the whole activity, is gone.  An edit is atomic and stays *)
(* on disk; the process may die between two edits.                         *)
(***************************************************************************)
EXTENDS Integers, Sequences, SequencesExt

CONSTANTS
    Names, PrivateKeys, Pins,  \* the texts a user may enter
    DefaultName, DefaultKey,   \* the name and key of AccountInfoView
    Unset,                     \* no preference, no state yet
    MaxLaunches,               \* bound: the coroutines launched to edit
    MaxChecks,                 \* bound: PINs being verified at a time
    MaxCrashes                 \* bound: how often the process dies

hashPin(pin) == <<"SHA-256", pin>>

ASSUME OnboardingAssumption ==
    /\ {MaxLaunches, MaxChecks, MaxCrashes} \subseteq Nat
    /\ DefaultName \in Names /\ DefaultKey \in PrivateKeys
    /\ Unset \notin Names \union PrivateKeys
    /\ Unset \notin BOOLEAN
    /\ \A pin \in Pins: Unset # hashPin(pin)

VARIABLES
    store,      \* the preferences on disk
    tasks,      \* for each coroutine launched, the edits it has still to make
    checks,     \* the PINs being verified, with what reading the store said
    open,       \* the activity is open
    hasAccount, \* the state that WalletApp collects, Unset before the first value
    backStack,  \* the screens, the visible one last
    step,       \* the half of the visible screen that is shown
    crashes,
    (* What was done, which no action reads. *)
    chosen,     \* the last choice of the user for each preference
    account,    \* the name and key the user last came to CreatePin with
    raced,      \* preferences with two choices under way at once
    lost,       \* preferences with an edit that a crash has lost
    again       \* an account was chosen after one had been completed

vars == <<store, tasks, checks, open, hasAccount, backStack, step, crashes,
          chosen, account, raced, lost, again>>
history == <<chosen, account, raced, lost, again>>

Preferences == {"has_account", "acc_name", "private_key", "pin_hash"}
-----------------------------------------------------------------------------
(* The data store.                                                         *)

\* Mutant: the name is stored under the key of the private key.
setAccountName_as_key(name) == [key |-> "private_key", value |-> name]
setAccountName(name) == [key |-> "acc_name", value |-> name]
setPrivateKey(key) == [key |-> "private_key", value |-> key]
\* Mutant: the PIN is stored under the key of the private key.
setPin_as_key(pin) == [key |-> "private_key", value |-> hashPin(pin)]
setPin(pin) == [key |-> "pin_hash", value |-> hashPin(pin)]
setHasAccount == [key |-> "has_account", value |-> TRUE]

\* Mutant: without a stored PIN every PIN is right.
UnlessStored(pin) == store.pin_hash \in {Unset, hashPin(pin)}
verifyPin(pin) == store.pin_hash # Unset /\ hashPin(pin) = store.pin_hash

\* The coroutine k makes its next edit.
Edit(k) ==
    /\ tasks[k] # <<>>
    /\ store' = [store EXCEPT ![Head(tasks[k]).key] = Head(tasks[k]).value]
    /\ tasks' = [tasks EXCEPT ![k] = Tail(@)]
    /\ UNCHANGED <<checks, open, hasAccount, backStack, step, crashes, history>>

Edited(es) == {e.key : e \in Range(es)}
UnderWay == UNION {Edited(tasks[k]) : k \in DOMAIN tasks}

\* Launches a coroutine for each element of coroutines.
Launch(coroutines) ==
    /\ Len(tasks) + Len(coroutines) <= MaxLaunches
    /\ tasks' = tasks \o coroutines

\* The choices made.
Choose(choices) ==
    /\ chosen' = [p \in Preferences |-> IF p \in DOMAIN choices THEN choices[p] ELSE chosen[p]]
    /\ raced' = raced \union (UnderWay \intersect DOMAIN choices)
    /\ again' = (again \/ chosen.has_account = TRUE)
    /\ UNCHANGED lost
-----------------------------------------------------------------------------
(* The activity and its navigation.                                        *)

Screen == Last(backStack)
Shown(screen) == backStack # <<>> /\ Screen = screen

Push(screen) == backStack' = Append(backStack, screen) /\ step' = 1

Launcher ==
    /\ ~open
    /\ open' = TRUE
    /\ UNCHANGED <<store, tasks, checks, hasAccount, backStack, step, crashes, history>>

Closes ==
    /\ open' = FALSE
    /\ hasAccount' = Unset
    /\ backStack' = <<>>
    /\ step' = 1
    /\ checks' = <<>>

StartDestination(has) == IF has THEN "EnterPin" ELSE "Onboarding"

\* A graph with another start destination replaces the one before and all its
\* screens.
\* Mutant: the graph is built once.
SetGraphOnce(has) == IF hasAccount = Unset THEN <<StartDestination(has)>> ELSE backStack
SetGraph(has) == <<StartDestination(has)>>

\* WalletApp collects a new value of has_account, and is composed again.
Collect ==
    LET has == store.has_account = TRUE
    IN  /\ open
        /\ hasAccount # has
        /\ hasAccount' = has
        /\ backStack' = SetGraph(has)
        /\ step' = 1
        /\ UNCHANGED <<store, tasks, checks, open, crashes, history>>

\* The back button, of the screen or of the system. From the wallet, and from
\* the first screen, it leaves the application.
navigateUp ==
    /\ backStack # <<>>
    /\ IF Shown("Wallet") \/ Len(backStack) = 1
       THEN Closes
       ELSE /\ backStack' = Front(backStack)
            /\ step' = 1
            /\ UNCHANGED <<checks, open, hasAccount>>
    /\ UNCHANGED <<store, tasks, crashes, history>>

\* The process dies, and whatever is not on disk with it.
Crash ==
    /\ crashes < MaxCrashes
    /\ crashes' = crashes + 1
    /\ lost' = lost \union UnderWay
    /\ tasks' = [k \in DOMAIN tasks |-> <<>>]
    /\ Closes
    /\ UNCHANGED <<store, chosen, account, raced, again>>
-----------------------------------------------------------------------------
(* Onboarding.                                                             *)

\* OnboardingScreen.
OnboardingScreen(screen) ==
    /\ Shown("Onboarding")
    /\ Push(screen)
    /\ UNCHANGED <<store, tasks, checks, open, hasAccount, crashes, history>>

\* CreateWallet: the name that is entered here is not kept.
CreateWallet ==
    /\ Shown("CreateAccount") /\ step = 1
    /\ step' = 2
    /\ UNCHANGED <<store, tasks, checks, open, hasAccount, backStack, crashes, history>>

\* GenerateKey and its sheet, which generate nothing.
GenerateKey ==
    /\ Shown("CreateAccount") /\ step = 2
    /\ Push("FinalizeAccountCreation")
    /\ UNCHANGED <<store, tasks, checks, open, hasAccount, crashes, history>>

AccountInfoView ==
    /\ Shown("FinalizeAccountCreation")
    /\ Push("CreatePin")
    /\ Launch(<< <<setAccountName(DefaultName), setPrivateKey(DefaultKey)>> >>)
    /\ Choose([acc_name |-> DefaultName, private_key |-> DefaultKey])
    /\ account' = <<DefaultName, DefaultKey>>
    /\ UNCHANGED <<store, checks, open, hasAccount, crashes>>

\* Mutant: the imported key is shown, and not stored.
NotStored(key) == <<>>
ImportedKey(key) == << <<setPrivateKey(key)>> >>

PrivateKeyView(key) ==
    /\ Shown("ImportAccount") /\ step = 1
    /\ step' = 2
    /\ Launch(ImportedKey(key))
    /\ Choose([private_key |-> key])
    /\ UNCHANGED <<store, checks, open, hasAccount, backStack, crashes, account>>

CreateNameView(name) ==
    /\ Shown("ImportAccount") /\ step = 2
    /\ Push("CreatePin")
    /\ Launch(<< <<setAccountName(name)>> >>)
    /\ Choose([acc_name |-> name])
    /\ account' = <<name, chosen.private_key>>
    /\ UNCHANGED <<store, checks, open, hasAccount, crashes>>

\* Mutant: the account is never marked as complete.
PinOnly(pin) == << <<setPin(pin)>> >>
Completed(pin) == << <<setPin(pin)>>, <<setHasAccount>> >>

CreatePinScreen(pin) ==
    /\ Shown("CreatePin")
    /\ Push("Wallet")
    /\ Launch(Completed(pin))
    /\ Choose([pin_hash |-> hashPin(pin), has_account |-> TRUE])
    /\ UNCHANGED <<store, checks, open, hasAccount, crashes, account>>
-----------------------------------------------------------------------------
(* Entering the PIN, and the screens of the wallet.                        *)

EnterPinScreen(pin) ==
    /\ Shown("EnterPin")
    /\ Len(checks) < MaxChecks
    /\ checks' = Append(checks, [pin |-> pin, valid |-> Unset])
    /\ UNCHANGED <<store, tasks, open, hasAccount, backStack, step, crashes, history>>

\* The coroutine of a check reads the store.
ReadPin(c) ==
    /\ checks[c].valid = Unset
    /\ checks' = [checks EXCEPT ![c].valid = verifyPin(checks[c].pin)]
    /\ UNCHANGED <<store, tasks, open, hasAccount, backStack, step, crashes, history>>

\* Back on the main thread: to the wallet, or a message, whatever is shown now.
PinChecked(c) ==
    /\ checks[c].valid # Unset
    /\ checks' = RemoveAt(checks, c)
    /\ IF checks[c].valid THEN Push("Wallet") ELSE UNCHANGED <<backStack, step>>
    /\ UNCHANGED <<store, tasks, open, hasAccount, crashes, history>>

WalletScreen(screen) ==
    /\ Shown("Wallet")
    /\ Push(screen)
    /\ UNCHANGED <<store, tasks, checks, open, hasAccount, crashes, history>>
-----------------------------------------------------------------------------
Init ==
    /\ store = [p \in Preferences |-> Unset]
    /\ tasks = <<>>
    /\ checks = <<>>
    /\ open = FALSE
    /\ hasAccount = Unset
    /\ backStack = <<>>
    /\ step = 1
    /\ crashes = 0
    /\ chosen = [p \in Preferences |-> Unset]
    /\ account = <<Unset, Unset>>
    /\ raced = {}
    /\ lost = {}
    /\ again = FALSE

Next ==
    \/ Launcher
    \/ Collect
    \/ navigateUp
    \/ Crash
    \/ \E k \in DOMAIN tasks: Edit(k)
    \/ \E screen \in {"CreateAccount", "ImportAccount"}: OnboardingScreen(screen)
    \/ CreateWallet
    \/ GenerateKey
    \/ AccountInfoView
    \/ \E key \in PrivateKeys: PrivateKeyView(key)
    \/ \E name \in Names: CreateNameView(name)
    \/ \E pin \in Pins: CreatePinScreen(pin)
    \/ \E pin \in Pins: EnterPinScreen(pin)
    \/ \E c \in DOMAIN checks: ReadPin(c)
    \/ \E c \in DOMAIN checks: PinChecked(c)
    \/ \E screen \in {"AddToken", "Send", "Receive"}: WalletScreen(screen)

\* Coroutines are dispatched and a changed value is collected; nothing is
\* assumed of the user.
Fairness ==
    /\ WF_vars(\E k \in DOMAIN tasks: Edit(k))
    /\ WF_vars(Collect)

Spec == Init /\ [][Next]_vars /\ Fairness
-----------------------------------------------------------------------------
(* Properties.                                                             *)

\* An account without a PIN locks its user out, as onboarding is never shown
\* again: the PIN is on disk or on its way, except when a crash has come
\* between the two coroutines of CreatePin.
PinComesWithAccount ==
    store.has_account = TRUE /\ store.pin_hash = Unset =>
        "pin_hash" \in UnderWay \union lost

\* Whatever order the coroutines ran in, and however often the user went back:
\* the last choice is what is on disk in the end, except for a preference that
\* was chosen again while an edit of it was under way, or that a crash has hit.
LastChoiceStored ==
    \A p \in Preferences \ (UnderWay \union raced \union lost): store[p] = chosen[p]

\* The name and the key of a complete account were entered together, unless
\* edits of them raced, a crash has lost one, or the wallet was closed and
\* opened again so soon that onboarding began once more.
AccountBelongsTogether ==
    /\ store.has_account = TRUE
    /\ UnderWay = {}
    /\ ~again
    /\ {"acc_name", "private_key"} \intersect (raced \union lost) = {}
    => <<store.acc_name, store.private_key>> = account

\* Once the account has been seen, everything is reached through EnterPin: the
\* wallet that CreatePin opened is gone, and so is the way back to CreatePin.
AccountIsBehindPin ==
    hasAccount = TRUE =>
        /\ Head(backStack) = "EnterPin"
        /\ "CreatePin" \notin Range(backStack)

\* A PIN that is right is the last one chosen, in a first passage through
\* onboarding whatever else is under way; when onboarding has begun once more, as
\* soon as the edit of the new PIN is made, if it has not raced and is not lost.
OpensWithChosenPin ==
    [][\A c \in DOMAIN checks:
        /\ ReadPin(c) /\ checks'[c].valid = TRUE
        /\ ~again \/ "pin_hash" \notin UnderWay \union raced \union lost
        => hashPin(checks[c].pin) = chosen.pin_hash]_vars

\* Who has just chosen a PIN and stays in the wallet is asked for it: has_account
\* is stored and collected, and the graph begins with EnterPin.
AsksForNewPin ==
    (hasAccount = FALSE /\ Shown("Wallet")) ~> (~open \/ Shown("EnterPin"))
=============================================================================
