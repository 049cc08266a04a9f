------------------------------- MODULE Transfers -------------------------------
(***************************************************************************)
(* The wallet's balances and transfers (ui/account/WalletViewModel.kt,     *)
(* ui/transfer/SendScreen.kt): fetches that overlap, a screen whose fields *)
(* may change while a confirmed transfer waits for the node, and transfers *)
(* that outlive the screen.                                                *)
(*                                                                         *)
(* StarknetClient is external: getBalance and transferFunds are not told   *)
(* which token is meant, so that there is one balance; a transfer that is  *)
(* sent is executed or fails.  Compose is external: a change of its state  *)
(* is seen by the next recomposition.  Prices, images and the conversion   *)
(* to two decimals are left out.                                           *)
(***************************************************************************)
EXTENDS Integers, FiniteSets, TLC

CONSTANTS
    Tokens,         \* the tokens of the list
    MaxFunds,       \* bound: what the account holds
    MaxFetches,     \* bound: fetches
    MaxConfirms,    \* bound: confirmations
    None            \* nothing yet

ASSUME TransfersAssumption ==
    /\ {MaxFunds, MaxFetches, MaxConfirms} \subseteq Nat
    /\ None \notin Int

\* What may stand in the field of the amount: no number, or a number and its decimals.
NotANumber == [value |-> None, scale |-> 0]
Amount == [value : -1 .. MaxFunds, scale : {0, 2}] \cup {NotANumber}
NoBalances == [token \in Tokens |-> None]

VARIABLES
    funds,      \* what the account holds on the chain
    fetches,    \* the fetches in progress: what each has for each token
    balances,   \* WalletViewModel.balances
    screen,     \* "wallet", "send", or "crashed"
    form,       \* the fields of SendScreen, and whether Confirm was clicked
    launched,   \* the LaunchedEffect of SendScreen is in its composition
    waiting,    \* the calls of handleOnClick that wait for the id of the chain
    transfers,  \* the transfers launched and not yet sent
    fetched, confirms, sent     \* history: fetches begun, confirmations, transfers launched

transfers_vars == <<funds, fetches, balances, screen, form, launched, waiting, transfers, fetched, confirms,
          sent>>

NewForm == [amount |-> [value |-> 0, scale |-> 2], address |-> FALSE,
            token |-> CHOOSE t \in Tokens : TRUE, activate |-> FALSE]
-----------------------------------------------------------------------------
(* WalletViewModel.fetchBalance.                                           *)

\* One more fetch, unless the bound is reached.
fetchBalance ==
    IF fetched < MaxFetches
    THEN /\ fetches' = fetches @@ ((fetched + 1) :> NoBalances)
         /\ fetched' = fetched + 1
    ELSE UNCHANGED <<fetches, fetched>>

Fetching(f, token, balance) ==
    /\ f \in DOMAIN fetches
    /\ fetches[f][token] = None
    /\ fetches' = [fetches EXCEPT ![f][token] = balance]
    /\ UNCHANGED <<funds, balances, screen, form, launched, waiting, transfers, fetched, confirms, sent>>

\* The node answers, for whichever token, with what the account holds; an error of the
\* node counts as nothing.
getBalance(f, token) == Fetching(f, token, funds) \/ Fetching(f, token, 0)

\* Any other exception leaves the coroutine, and the application with it.
FetchThrows(f) ==
    /\ f \in DOMAIN fetches
    /\ \E token \in Tokens : fetches[f][token] = None
    /\ screen' = "crashed"
    /\ fetches' = <<>>
    /\ balances' = NoBalances
    /\ form' = NewForm
    /\ launched' = FALSE
    /\ waiting' = {}
    /\ transfers' = {}
    /\ UNCHANGED <<funds, fetched, confirms, sent>>

\* The results are shown when all are there.
awaitAll(f) ==
    /\ f \in DOMAIN fetches
    /\ \A token \in Tokens : fetches[f][token] # None
    /\ balances' = fetches[f]
    /\ fetches' = [g \in DOMAIN fetches \ {f} |-> fetches[g]]
    /\ UNCHANGED <<funds, screen, form, launched, waiting, transfers, fetched, confirms, sent>>
-----------------------------------------------------------------------------
(* The screens.                                                            *)

\* The application is opened again; the wallet fetches what it shows.
Open ==
    /\ screen = "crashed"
    /\ screen' = "wallet"
    /\ fetchBalance
    /\ UNCHANGED <<funds, balances, form, launched, waiting, transfers, confirms, sent>>

onSendPress ==
    /\ screen = "wallet"
    /\ screen' = "send"
    /\ form' = NewForm
    /\ UNCHANGED <<funds, fetches, balances, launched, waiting, transfers, fetched, confirms, sent>>

\* Leaving the screen cancels its effect.
LeaveSendScreen ==
    /\ screen = "send"
    /\ screen' = "wallet"
    /\ form' = NewForm
    /\ launched' = FALSE
    /\ waiting' = {}
    /\ fetchBalance
    /\ UNCHANGED <<funds, balances, transfers, confirms, sent>>

EditForm(new) ==
    /\ screen = "send"
    /\ form' = new
    /\ UNCHANGED <<funds, fetches, balances, screen, launched, waiting, transfers, fetched, confirms, sent>>

\* A confirmation is a click that is not the second one of a transfer under way.
onClick ==
    /\ screen = "send"
    /\ form.activate \/ confirms < MaxConfirms
    /\ confirms' = IF form.activate THEN confirms ELSE confirms + 1
    /\ form' = [form EXCEPT !.activate = TRUE]
    /\ UNCHANGED <<funds, fetches, balances, screen, launched, waiting, transfers, fetched, sent>>

\* The check of a transfer, which the effect runs before it first waits.
Accepted(amount) ==
    LET balance == balances[form.token]
    IN  /\ form.address
        /\ amount # NotANumber
        /\ ~(amount.value = 0 /\ amount.scale = 0)
        /\ balance # None /\ balance # 0 /\ balance > amount.value

\* Mutant: every recomposition launches the effect.
LaunchedAgain == form.activate
\* LaunchedEffect(Unit): not again while it is in the composition.
LaunchedEffect == form.activate /\ ~launched

\* Recomposition launches the effect: the transfer is refused, or waits for the id of
\* the chain.
handleOnClick ==
    /\ screen = "send"
    /\ LaunchedEffect
    /\ launched' = TRUE
    /\ IF Accepted(form.amount)
       THEN /\ waiting' = waiting \cup {[amount |-> form.amount, confirm |-> confirms,
                                        checked |-> balances[form.token]]}
            /\ UNCHANGED form
       ELSE /\ form' = [form EXCEPT !.activate = FALSE]
            /\ UNCHANGED waiting
    /\ UNCHANGED <<funds, fetches, balances, screen, transfers, fetched, confirms, sent>>

\* The call returns, and with it the effect.
Returns(call) ==
    /\ call \in waiting
    /\ waiting' = waiting \ {call}
    /\ form' = [form EXCEPT !.activate = FALSE]
    /\ UNCHANGED <<funds, fetches, balances, screen, launched, fetched, confirms>>

\* Mutant: the amount is read from its field again.
AmountShown(call) == form.amount
\* The amount is the argument of handleOnClick.
AmountGiven(call) == call.amount

\* The transfer is launched.
transferFunds(call) ==
    /\ Returns(call)
    /\ AmountGiven(call) # NotANumber
    /\ AmountGiven(call).value >= 0
    /\ LET t == [id |-> Cardinality(sent) + 1, amount |-> AmountGiven(call).value,
                 confirm |-> call.confirm, checked |-> call.checked]
       IN  transfers' = transfers \cup {t} /\ sent' = sent \cup {t}

\* An exception: the node does not answer, or not with an id, or the amount is below
\* zero and no Uint256.
TransferThrows(call) ==
    /\ Returns(call)
    /\ UNCHANGED <<transfers, sent>>

\* Recomposition drops an effect that is not asked for any more, and what it runs.
Dispose ==
    /\ ~form.activate /\ launched
    /\ launched' = FALSE
    /\ waiting' = {}
    /\ UNCHANGED <<funds, fetches, balances, screen, form, transfers, fetched, confirms, sent>>
-----------------------------------------------------------------------------
(* The account on the chain.                                               *)

Execute(t) ==
    /\ t \in transfers
    /\ transfers' = transfers \ {t}
    /\ funds' = IF t.amount <= funds THEN funds - t.amount ELSE funds
    /\ UNCHANGED <<fetches, balances, screen, form, launched, waiting, fetched, confirms, sent>>

\* The coroutine ends with an exception, which is printed.
TransferFails(t) ==
    /\ t \in transfers
    /\ transfers' = transfers \ {t}
    /\ UNCHANGED <<funds, fetches, balances, screen, form, launched, waiting, fetched, confirms, sent>>

TransfersInit ==
    /\ funds \in 1 .. MaxFunds
    /\ fetches = (1 :> NoBalances)
    /\ balances = NoBalances
    /\ screen = "wallet"
    /\ form = NewForm
    /\ launched = FALSE /\ waiting = {}
    /\ transfers = {} /\ sent = {}
    /\ fetched = 1 /\ confirms = 0

Fetch ==
    \E f \in 1 .. MaxFetches :
        \/ \E token \in Tokens : getBalance(f, token)
        \/ FetchThrows(f)
        \/ awaitAll(f)

SendScreen ==
    \/ \E amount \in Amount : EditForm([form EXCEPT !.amount = amount])
    \/ \E address \in BOOLEAN : EditForm([form EXCEPT !.address = address])
    \/ \E token \in Tokens : EditForm([form EXCEPT !.token = token])
    \/ onClick
    \/ handleOnClick
    \/ \E call \in waiting : transferFunds(call) \/ TransferThrows(call)
    \/ Dispose

TransfersNext ==
    \/ Fetch
    \/ Open \/ onSendPress \/ LeaveSendScreen
    \/ SendScreen
    \/ \E t \in transfers : Execute(t) \/ TransferFails(t)

TransfersSpec == TransfersInit /\ [][TransfersNext]_transfers_vars
-----------------------------------------------------------------------------
(* Properties.                                                             *)

(* A confirmation sends one transfer at most, however often the button is  *)
(* clicked while the node is asked for the id of its chain, and whether    *)
(* or not the screen is left and opened again (SendScreen.kt).             *)
ConfirmationSendsOnce ==
    \A t, u \in sent : t.confirm = u.confirm => t = u

(* What is sent is what was checked: a transfer is below the balance that  *)
(* was on the screen when it was confirmed, whatever is typed, fetched or  *)
(* sent while the node is asked for the id of its chain.                   *)
SendsWhatWasChecked ==
    \A t \in sent : t.amount < t.checked
=============================================================================
