------------------------------- MODULE Terminal -------------------------------
(***************************************************************************)
(* One browser tab of apps/web: the session and account state of authStore,*)
(* the wallet panel, the live-trading switch and the live side of the order*)
(* ticket, with every call they await.  A call reads the session's token   *)
(* when it is sent, has its effect on the server, and is answered; between *)
(* these the user may log out or in, reload, leave the ticket or change the*)
(* wallet's account, and another device may use the same account.          *)
(*                                                                         *)
(* The server is AccountBook, with the two order routes: LiveTrading is    *)
(* what goes on behind the second.  The risk decision is an input.  A      *)
(* submit may be delivered more than once, and still be under way when the *)
(* tab has long ceased to wait for it.                                     *)
(***************************************************************************)
EXTENDS AccountBook, Naturals

CONSTANTS
    Trades,         \* the clicks on LIVE TRADE of a behaviour
    MaxDeliveries   \* how often the network delivers one submit, at most

Replies == {"200", "expired", "error"}

ASSUME TerminalAssumption == MaxDeliveries \in Nat \ {0} /\ None \notin Replies

VARIABLES
    session,        \* the account that is logged in, or None
    expired,        \* its token is past expiresAt
    shownWallet,    \* authStore.wallet, which is always verified, or None
    shownLive,      \* authStore.liveTradingEnabled
    connected,      \* the account of the browser wallet, or None
    link,           \* the wallet panel: step, account of the calls, address
    switch,         \* the live-trading controls: step and account
    trade,          \* each live trade: step, account of the click and of the
                    \* submit, browser wallet, prepared wallet, answer or result
    ticket,         \* the trade the order ticket shows, or None
    prepared,       \* the trades whose PreparedLiveOrder Redis holds
    delivered,      \* how often a trade's submit has reached the API (history)
    inHand,         \* deliveries that got the record and have not placed yet
    placing,        \* the trades whose order a delivery is placing
    placed,         \* the trades whose order the exchange has accepted
    foreign         \* (history) the wallet on display was linked in a session
                    \* that had ended when the answer came

termVars == <<linked, live, session, expired, shownWallet, shownLive, connected,
              link, switch, trade, ticket, prepared, delivered, inHand, placing, placed,
              foreign>>
submitVars == <<prepared, delivered, inHand, placing, placed>>
serverVars == <<linked, live, submitVars>>
storeVars  == <<session, expired, shownWallet, shownLive, foreign>>

Users0    == Users \cup {None}
Wallets0  == Addresses \cup {None}
Results   == {"PREPARE_REJECTED", "WALLET_MISMATCH", "SIGNATURE_DECLINED", "SIGNING_FAILED",
              "PREPARE_EXPIRED", "SUBMIT_FAILED", "SUBMITTED"}
Idle      == [at |-> "idle", user |-> None, address |-> None]
Off       == [at |-> "idle", user |-> None]
NoTrade   == [at |-> "none", user |-> None, sender |-> None, client |-> None,
              wallet |-> None, answer |-> None, result |-> None]

TerminalTypeOK ==
    /\ BookTypeOK
    /\ session \in Users0 /\ expired \in BOOLEAN
    /\ shownWallet \in Wallets0 /\ shownLive \in BOOLEAN
    /\ connected \in Wallets0
    /\ link \in [at : {"idle", "challenge", "verify", "linked"}, user : Users0, address : Wallets0]
    /\ switch \in [at : {"idle", "on", "off", "is on", "is off"}, user : Users0]
    /\ trade \in [Trades -> [at : {"none", "prepare", "sign", "submit", "ended", "gone"},
                             user : Users0, sender : Users0, client : Wallets0, wallet : Wallets0,
                             answer : Replies \cup {None}, result : Results \cup {None}]]
    /\ ticket \in Trades \cup {None}
    /\ prepared \subseteq Trades
    /\ delivered \in [Trades -> 0..MaxDeliveries]
    /\ inHand \in [Trades -> 0..MaxDeliveries]
    /\ placing \subseteq Trades
    /\ placed \subseteq Trades
    /\ foreign \in BOOLEAN

TerminalInit ==
    /\ BookInit
    /\ session = None /\ expired = FALSE
    /\ shownWallet = None /\ shownLive = FALSE
    /\ connected = None
    /\ link = Idle /\ switch = Off
    /\ trade = [t \in Trades |-> NoTrade]
    /\ ticket = None
    /\ prepared = {} /\ placing = {} /\ placed = {}
    /\ delivered = [t \in Trades |-> 0]
    /\ inHand = [t \in Trades |-> 0]
    /\ foreign = FALSE

-----------------------------------------------------------------------------
(* authStore.  A login and a logout forget the account state ...            *)
StoreLogin(u) ==
    /\ session' = u /\ expired' = FALSE
    /\ shownWallet' = None /\ shownLive' = FALSE

LogIn(u) ==
    /\ StoreLogin(u)
    /\ foreign' = FALSE
    /\ UNCHANGED <<serverVars, connected, link, switch, trade, ticket>>

LogOut ==
    /\ session # None
    /\ session' = None /\ expired' = FALSE
    /\ shownWallet' = None /\ shownLive' = FALSE
    /\ foreign' = FALSE
    /\ UNCHANGED <<serverVars, connected, link, switch, trade, ticket>>

(* ... and so does a reload, which keeps the token and abandons the calls.  *)
Reload ==
    /\ shownWallet' = None /\ shownLive' = FALSE /\ foreign' = FALSE
    /\ link' = Idle /\ switch' = Off
    /\ trade' = [t \in Trades |-> IF trade[t].at \in {"none", "ended"} THEN trade[t]
                                  ELSE [trade[t] EXCEPT !.at = "gone"]]
    /\ ticket' = None
    /\ UNCHANGED <<serverVars, session, expired, connected>>

TokenExpires ==
    /\ session # None
    /\ expired' = TRUE
    /\ UNCHANGED <<serverVars, session, shownWallet, shownLive, foreign, connected, link, switch, trade, ticket>>

Connect(a) ==
    /\ connected' = a
    /\ UNCHANGED <<serverVars, storeVars, link, switch, trade, ticket>>

(* requireAuth: the account of the token a call is sent with, if it is good.*)
RequireAuth == IF expired THEN None ELSE session

-----------------------------------------------------------------------------
(* WalletLinkPanel.handleLink: the call for a challenge ...                 *)
LinkWalletClick ==
    /\ link.at = "idle"
    /\ connected # None /\ shownWallet # connected
    /\ RequireAuth # None
    /\ link' = [at |-> "challenge", user |-> RequireAuth, address |-> connected]
    /\ UNCHANGED <<serverVars, storeVars, connected, switch, trade, ticket>>

(* ... its answer, signed by the account the wallet has by then, and the    *)
(* call of verify, whose nonce is the one of the token's account ...        *)
SignChallenge ==
    /\ link.at = "challenge"
    /\ link' = IF connected = link.address /\ RequireAuth = link.user
               THEN [link EXCEPT !.at = "verify"] ELSE Idle
    /\ UNCHANGED <<serverVars, storeVars, connected, switch, trade, ticket>>

ServerVerifies ==
    /\ link.at = "verify"
    /\ IF linked[link.address] \in {None, link.user}
       THEN LinkWallet(link.user, link.address) /\ link' = [link EXCEPT !.at = "linked"]
       ELSE UNCHANGED bookVars /\ link' = Idle
    /\ UNCHANGED <<submitVars, storeVars, connected, switch, trade, ticket>>

(* ... and the answer, which is written into whatever session is there.     *)
ShowWallet ==
    /\ link.at = "linked"
    /\ shownWallet' = link.address
    /\ foreign' = (session # link.user)
    /\ link' = Idle
    /\ UNCHANGED <<serverVars, session, expired, shownLive, connected, switch, trade, ticket>>

(* The prompt is declined, a call fails or its answer is lost.              *)
LinkFails ==
    /\ link.at # "idle"
    /\ link' = Idle
    /\ UNCHANGED <<serverVars, storeVars, connected, switch, trade, ticket>>

-----------------------------------------------------------------------------
(* LiveTradingControls: enabling takes a wallet and a confirmation, either  *)
(* button is disabled while a call is out.                                  *)
SwitchClick ==
    /\ switch.at = "idle"
    /\ RequireAuth # None
    /\ ~shownLive => shownWallet # None
    /\ switch' = [at |-> IF shownLive THEN "off" ELSE "on", user |-> RequireAuth]
    /\ UNCHANGED <<serverVars, storeVars, connected, link, trade, ticket>>

ServerSwitches ==
    /\ \/ /\ switch.at = "on"
          /\ IF WalletsOf(switch.user) # {}
             THEN TurnOn(switch.user) /\ switch' = [switch EXCEPT !.at = "is on"]
             ELSE UNCHANGED bookVars /\ switch' = Off
       \/ /\ switch.at = "off"
          /\ TurnOff(switch.user) /\ switch' = [switch EXCEPT !.at = "is off"]
    /\ UNCHANGED <<submitVars, storeVars, connected, link, trade, ticket>>

ShowSwitch ==
    /\ switch.at \in {"is on", "is off"}
    /\ shownLive' = (switch.at = "is on")
    /\ switch' = Off
    /\ UNCHANGED <<serverVars, session, expired, shownWallet, foreign, connected, link, trade, ticket>>

SwitchFails ==
    /\ switch.at # "idle"
    /\ switch' = Off
    /\ UNCHANGED <<serverVars, storeVars, connected, link, trade, ticket>>

-----------------------------------------------------------------------------
(* OrderTicket: the gates of the LIVE TRADE button, without the countdown's,*)
(* which closes and opens at any time.                                      *)
Submitting == ticket # None /\ trade[ticket].at \notin {"none", "ended"}

LiveReady == RequireAuth # None /\ shownWallet # None /\ shownLive /\ ~Submitting

(* handleLiveTrade: the wallet client is the one of the click.              *)
LiveTradeClick(t) ==
    /\ trade[t].at = "none"
    /\ LiveReady
    /\ ticket' = t
    /\ trade' = [trade EXCEPT ![t] =
          IF connected = None
          THEN [NoTrade EXCEPT !.at = "ended", !.result = "SIGNING_FAILED"]
          ELSE [NoTrade EXCEPT !.at = "prepare", !.user = RequireAuth, !.client = connected]]
    /\ UNCHANGED <<serverVars, storeVars, connected, link, switch>>

(* Another page and back: the ticket is a new one, the trade goes on.       *)
LeaveTicket ==
    /\ ticket # None
    /\ ticket' = None
    /\ UNCHANGED <<serverVars, storeVars, connected, link, switch, trade>>

Ends(t, result) == trade' = [trade EXCEPT ![t].at = "ended", ![t].result = result]

(* The connected wallet must be the one the order was prepared for.         *)
CompareWallet(t, a) ==
    trade' = [trade EXCEPT ![t] =
          IF @.client = a THEN [@ EXCEPT !.at = "sign", !.wallet = a]
          ELSE [@ EXCEPT !.at = "ended", !.wallet = a, !.result = "WALLET_MISMATCH"]]

(* POST /api/live/orders/prepare: for an account that has live trading and a*)
(* wallet, unless the risk engine refuses; any other answer is a refusal.   *)
ServerPrepares(t) ==
    /\ trade[t].at = "prepare"
    /\ \/ /\ trade[t].user \in live
          /\ \E a \in WalletsOf(trade[t].user) : CompareWallet(t, a)
          /\ prepared' = prepared \cup {t}
       \/ Ends(t, "PREPARE_REJECTED") /\ UNCHANGED prepared
    /\ UNCHANGED <<bookVars, delivered, inHand, placing, placed>>
    /\ UNCHANGED <<storeVars, connected, link, switch, ticket>>

(* Its 75 seconds are over.                                                 *)
PreparedExpires(t) ==
    /\ t \in prepared
    /\ prepared' = prepared \ {t}
    /\ UNCHANGED <<bookVars, delivered, inHand, placing, placed>>
    /\ UNCHANGED <<storeVars, connected, link, switch, trade, ticket>>

(* client.createOrder, and the call of submit if there is still a token.    *)
SignOrder(t) ==
    /\ trade[t].at = "sign"
    /\ \/ session # None /\ trade' = [trade EXCEPT ![t].at = "submit", ![t].sender = session]
       \/ session = None /\ Ends(t, "SUBMIT_FAILED")
       \/ Ends(t, "SIGNATURE_DECLINED")
       \/ Ends(t, "SIGNING_FAILED")
    /\ UNCHANGED <<serverVars, storeVars, connected, link, switch, ticket>>

(* wrong: anybody's prepared order.                                         *)
AnyAccount(t) == trade[t].user \in Users

OwnOrder(t) == trade[t].user = trade[t].sender

(* wrong: every failure offers another try.                                 *)
FailedIsExpired(answer) ==
    IF answer \in {"expired", "error"} THEN "PREPARE_EXPIRED" ELSE "SUBMIT_FAILED"

(* What submitLiveTrade makes of the answer: isPreparedOrderExpired, and a  *)
(* success whose body {order, fills} has not the orderId and status that    *)
(* SubmitLiveOrderResponseSchema asks for, so that parse throws.            *)
ReadsAs(answer) ==
    IF answer = "expired" THEN "PREPARE_EXPIRED" ELSE "SUBMIT_FAILED"

(* The tab takes an answer if it still waits for one and none was lost.     *)
Takes(t, answer) ==
    /\ trade[t].at = "submit"
    /\ trade' = [trade EXCEPT ![t].at = "ended", ![t].answer = answer, ![t].result = ReadsAs(answer)]

Answered(t, answer) == Takes(t, answer) \/ UNCHANGED trade

(* POST /api/live/orders/submit.  A delivery is told 401 of a token that has*)
(* expired, as one of an earlier session may have, and 410 if there is no   *)
(* record; it gets the record if it comes before another's DEL.             *)
SubmitArrives(t) ==
    /\ trade[t].sender # None
    /\ delivered[t] < MaxDeliveries
    /\ delivered' = [delivered EXCEPT ![t] = @ + 1]
    /\ \/ /\ expired \/ session # trade[t].sender \/ t \notin prepared
          /\ Answered(t, "expired") /\ UNCHANGED inHand
       \/ /\ ~expired /\ t \in prepared
          /\ inHand' = [inHand EXCEPT ![t] = @ + 1]
          /\ UNCHANGED trade
    /\ UNCHANGED <<bookVars, prepared, placing, placed, storeVars, connected, link, switch, ticket>>

(* DEL, the checks of owner and order, and placeOrder: under a lock, so that*)
(* a delivery which meets another in there is told so, with a 409, or gets  *)
(* that one's row.  A prepared order is good for the account and the wallet *)
(* it was prepared for, also after a switch.                                *)
SubmitChecked(t) ==
    /\ inHand[t] > 0
    /\ inHand' = [inHand EXCEPT ![t] = @ - 1]
    /\ prepared' = prepared \ {t}
    /\ \/ Answered(t, "error") /\ UNCHANGED placing
       \/ OwnOrder(t) /\ t \notin placing /\ placing' = placing \cup {t} /\ UNCHANGED trade
       \/ /\ OwnOrder(t) /\ t \in placing
          /\ Answered(t, "expired") \/ Answered(t, "200")
          /\ UNCHANGED placing
    /\ UNCHANGED <<bookVars, delivered, placed, storeVars, connected, link, switch, ticket>>

(* The exchange has accepted the order or has not: the answer is its row, or*)
(* an error if the outcome is ambiguous or something else fails.            *)
SubmitPlaced(t) ==
    /\ t \in placing
    /\ placing' = placing \ {t}
    /\ placed' \in {placed, placed \cup {t}}
    /\ Answered(t, "200") \/ Answered(t, "error")
    /\ UNCHANGED <<bookVars, prepared, delivered, inHand, storeVars, connected, link, switch, ticket>>

(* fetch fails, whatever becomes of what it sent.                           *)
SubmitFails(t) ==
    /\ Takes(t, "error")
    /\ UNCHANGED <<serverVars, storeVars, connected, link, switch, ticket>>

(* LiveResultBanner: what the ticket says of a result.                      *)
LiveResultBanner(result) ==
    CASE result = "SUBMITTED"          -> "SUBMITTED"
      [] result = "SIGNATURE_DECLINED" -> "no order was placed"
      [] result = "PREPARE_EXPIRED"    -> "expired before it could be submitted"
      [] result = "WALLET_MISMATCH"    -> "wallet mismatch"
      [] result = "PREPARE_REJECTED"   -> "risk rejected"
      [] result \in {"SIGNING_FAILED", "SUBMIT_FAILED"} -> "failed"

-----------------------------------------------------------------------------
(* The same account on another device.                                      *)
Elsewhere ==
    /\ BookNext
    /\ UNCHANGED <<submitVars, storeVars, connected, link, switch, trade, ticket>>

TerminalNext ==
    \/ \E u \in Users : LogIn(u)
    \/ LogOut \/ Reload \/ TokenExpires
    \/ \E a \in Addresses : Connect(a)
    \/ LinkWalletClick \/ SignChallenge \/ ServerVerifies \/ ShowWallet \/ LinkFails
    \/ SwitchClick \/ ServerSwitches \/ ShowSwitch \/ SwitchFails
    \/ \E t \in Trades :
        \/ LiveTradeClick(t) \/ ServerPrepares(t) \/ SignOrder(t)
        \/ PreparedExpires(t) \/ SubmitArrives(t) \/ SubmitChecked(t) \/ SubmitPlaced(t)
        \/ SubmitFails(t)
    \/ LeaveTicket
    \/ Elsewhere

TerminalSpec == TerminalInit /\ [][TerminalNext]_termVars

-----------------------------------------------------------------------------
(* An order on the exchange is the order of the account that clicked, and   *)
(* of the wallet that account had in the browser then and has verified,     *)
(* whoever logged in, reconnected or re-linked between click and submit.    *)
OrderIsClickers ==
    \A t \in placed :
        /\ trade[t].sender = trade[t].user
        /\ trade[t].client = trade[t].wallet
        /\ linked[trade[t].wallet] = trade[t].user

(* A submit that was delivered again: the other delivery's 409, or the 410  *)
(* it finds once the first has taken the record, is read as expired.        *)
ToldOfTheOther(t) == trade[t].result = "PREPARE_EXPIRED" /\ delivered[t] > 1

(* The ticket of a trade whose order is on the exchange says submitted, or  *)
(* that the submit failed: never that none was placed, or that signing was  *)
(* refused or failed, and that the order expired before it could be         *)
(* submitted and may be tried again only of a submit delivered twice.       *)
NothingPlacedWhenToldSo ==
    \A t \in Trades :
        /\ trade[t].at = "ended" /\ ~ToldOfTheOther(t)
        /\ \/ LiveResultBanner(trade[t].result) \notin {"SUBMITTED", "failed"}
           \/ trade[t].result = "SIGNING_FAILED"
        => t \notin placed

(* The verified wallet on display is one of the account that is logged in,  *)
(* unless it came with the answer to a link that was asked for in a session *)
(* that had ended by then; and that one goes with the next login, logout or *)
(* reload, like any other.                                                  *)
ShownWalletIsOwn ==
    shownWallet # None /\ ~foreign => linked[shownWallet] = session

(* A placed order is of the account that clicked, after any late answer too;*)
(* a wallet of another account is on display only after the late answer to a*)
(* link, until the session changes.                                         *)
SessionsApart == TerminalTypeOK /\ OrderIsClickers /\ ShownWalletIsOwn

(* What the code says of an accepted submit: it is shown as SUBMITTED.      *)
AcceptedIsShown ==
    \A t \in Trades :
        trade[t].at = "ended" /\ trade[t].answer = "200" => trade[t].result = "SUBMITTED"
=============================================================================
