------------------------------- MODULE Tickets -------------------------------
(***************************************************************************)
(* From the panel to a trade with a ticket channel.  The menus of the      *)
(* panel lead to a form; a submitted form that passes maintenance mode,    *)
(* rate limit and validation gets an offer with a Confirm button: a quote  *)
(* in the database to buy or sell, an entry in memory for the other two    *)
(* directions.  Confirming uses the offer up, opens the channel, creates   *)
(* the trade and posts the message with the Claim button.                  *)
(***************************************************************************)
EXTENDS Settings

CONSTANTS Sessions,     \* one form each
          Cryptos, Methods,
          Limit,        \* RATE_LIMIT_TICKET_PER_USER_PER_HOUR
          Clicks,       \* bound: Confirm clicks handled at once
          NoSession

ASSUME TicketsOK == /\ Cryptos \cap Methods = {}
                    /\ Limit \in Nat \ {0}
                    /\ NoSession \notin Sessions

VARIABLES chosen,      \* what was selected in the panel's menus so far
          offer,       \* the offer of each session
          used,        \* the user's count in the window of the rate limiter
          clicks,      \* the Confirm click in each slot
          channels,    \* ticket channels opened for each session
          trade,       \* status of the session's trades: those of TradeDb
          created,     \* trades created for each session
          posted       \* the sessions whose channel has the Claim button

ticketVars == <<chosen, offer, used, clicks, channels, trade, created, posted>>

NoClick == [session |-> NoSession, at |-> "idle"]

TicketInit == /\ SetInit
              /\ chosen = [s \in Sessions |-> <<>>]
              /\ offer = [s \in Sessions |-> "none"]
              /\ used = 0
              /\ clicks = [c \in Clicks |-> NoClick]
              /\ channels = [s \in Sessions |-> 0]
              /\ trade = [s \in Sessions |-> "none"]
              /\ created = [s \in Sessions |-> 0]
              /\ posted = {}

\* The menus that follow the choice of a direction; then the form is shown.
Directions == {"BUY", "SELL", "SWAP", "FIAT_TO_FIAT"}
Menus == [BUY |-> <<Cryptos, Methods>>, SELL |-> <<Cryptos, Methods>>,
          SWAP |-> <<Cryptos, Cryptos>>, FIAT_TO_FIAT |-> <<Methods, Methods, Cryptos>>]
Complete(path) == path # <<>> /\ Len(path) > Len(Menus[path[1]])
Options(path) == IF path = <<>> THEN Directions
                 ELSE IF Complete(path) THEN {} ELSE Menus[path[1]][Len(path)]

\* The choices that lead on.  The method money is sent from is not offered again,
\* and to swap a coin for itself is asked once more.
Menu(path) == Options(path) \ {path[k] : k \in DOMAIN path}

\* The parameters handleTradeModal accepts.
Valid(path) ==
  CASE path[1] \in {"BUY", "SELL"} -> path[2] \in Cryptos /\ path[3] \in Methods
    [] path[1] = "SWAP"            -> {path[2], path[3]} \subseteq Cryptos /\ path[2] # path[3]
    [] path[1] = "FIAT_TO_FIAT"    -> /\ {path[2], path[3]} \subseteq Methods /\ path[2] # path[3]
                                      /\ path[4] \in Cryptos
FormShown(s) == Complete(chosen[s])
OfferFor(path) == IF path[1] \in {"BUY", "SELL"} THEN "quote" ELSE "pending"
Open(s) == offer[s] \in {"quote", "pending"}

SetOffer(s, to) == offer' = [offer EXCEPT ![s] = to]
Goto(c, at) == clicks' = [clicks EXCEPT ![c].at = at]
EndClick(c) == clicks' = [clicks EXCEPT ![c] = NoClick]

-----------------------------------------------------------------------------
Select(s, x) == /\ offer[s] = "none"
                /\ x \in Menu(chosen[s])
                /\ chosen' = [chosen EXCEPT ![s] = Append(@, x)]
                /\ UNCHANGED <<setVars, offer, used, clicks, channels, trade, created, posted>>

\* handleTradeModal up to its first await after the gates: every form that gets
\* here counts, whether it is valid or not.
SubmitForm(s) == /\ FormShown(s)
                 /\ offer[s] = "none"
                 /\ fresh /\ ~cached
                 /\ used < Limit
                 /\ used' = used + 1
                 /\ SetOffer(s, "quoting")
                 /\ UNCHANGED <<setVars, chosen, clicks, channels, trade, created, posted>>

\* createTradeQuote, or createFiatCollateralQuote and storePendingNoQuote.
MakeOffer(s) == /\ offer[s] = "quoting"
                /\ Valid(chosen[s])
                /\ SetOffer(s, OfferFor(chosen[s]))
                /\ chosen' = [chosen EXCEPT ![s] = <<>>]
                /\ UNCHANGED <<setVars, used, clicks, channels, trade, created, posted>>

\* The amount or the currency is refused, it is out of bounds, or there is no rate.
FormRefused(s) == /\ offer[s] = "quoting"
                  /\ SetOffer(s, "none")
                  /\ UNCHANGED <<setVars, chosen, used, clicks, channels, trade, created, posted>>

\* Five minutes for a quote, ten for an entry in memory.
OfferExpires(s) == /\ Open(s)
                   /\ SetOffer(s, "expired")
                   /\ UNCHANGED <<setVars, chosen, used, clicks, channels, trade, created, posted>>

WindowEnds == /\ used > 0
              /\ used' = 0
              /\ UNCHANGED <<setVars, chosen, offer, clicks, channels, trade, created, posted>>

-----------------------------------------------------------------------------
\* Mutant: the offer is not marked.
ConsumeAgain(c, s) ==
  /\ clicks[c] = NoClick
  /\ Open(s)
  /\ clicks' = [clicks EXCEPT ![c] = [session |-> s, at |-> "channel"]]
  /\ UNCHANGED <<setVars, chosen, offer, used, channels, trade, created, posted>>

\* consumeTradeQuote is one transaction, consumePendingNoQuote has no await;
\* Cancel takes the buttons away, and leaves the offer open for a click on its way.
Consume(c, s) ==
  /\ clicks[c] = NoClick
  /\ Open(s)
  /\ SetOffer(s, "used")
  /\ clicks' = [clicks EXCEPT ![c] = [session |-> s, at |-> "channel"]]
  /\ UNCHANGED <<setVars, chosen, used, channels, trade, created, posted>>

OpenTicketChannel(c) ==
  LET s == clicks[c].session
  IN /\ clicks[c].at = "channel"
     /\ channels' = [channels EXCEPT ![s] = @ + 1]
     /\ Goto(c, "trade")
     /\ UNCHANGED <<setVars, chosen, offer, used, trade, created, posted>>

\* The first statement of createTrade; the second writes a line of trade_logs.
InsertTrade(c) ==
  LET s == clicks[c].session
  IN /\ clicks[c].at = "trade"
     /\ trade' = [trade EXCEPT ![s] = "OPEN"]
     /\ created' = [created EXCEPT ![s] = @ + 1]
     /\ Goto(c, "log")
     /\ UNCHANGED <<setVars, chosen, offer, used, channels, posted>>

LogTrade(c) == /\ clicks[c].at = "log"
               /\ Goto(c, "post")
               /\ UNCHANGED <<setVars, chosen, offer, used, channels, trade, created, posted>>

\* createTrade failed: its channel is deleted, unless that fails as well, which
\* is ignored.  The trade stays when it was the line of the log that failed.
DeleteChannel(c) ==
  LET s == clicks[c].session
  IN /\ clicks[c].at \in {"trade", "log"}
     /\ channels' \in {channels, [channels EXCEPT ![s] = @ - 1]}
     /\ EndClick(c)
     /\ UNCHANGED <<setVars, chosen, offer, used, trade, created, posted>>

PostTicketMessage(c) ==
  /\ clicks[c].at = "post"
  /\ posted' = posted \cup {clicks[c].session}
  /\ EndClick(c)
  /\ UNCHANGED <<setVars, chosen, offer, used, channels, trade, created>>

\* Opening the channel or posting throws: the offer is used up all the same.
ClickFails(c) == /\ clicks[c].at \in {"channel", "post"}
                 /\ EndClick(c)
                 /\ UNCHANGED <<setVars, chosen, offer, used, channels, trade, created, posted>>

TicketsRestart ==
  /\ SettingsRestart
  /\ used' = 0
  /\ clicks' = [c \in Clicks |-> NoClick]
  /\ offer' = [s \in Sessions |-> CASE offer[s] = "quoting"  -> "none"
                                    [] offer[s] = "pending"  -> "expired"
                                    [] OTHER                -> offer[s]]
  /\ UNCHANGED <<chosen, channels, trade, created, posted>>

\* expireOpenTrades: see TradeFlow.
ExpireTrade(s) == /\ trade[s] = "OPEN"
                  /\ trade' = [trade EXCEPT ![s] = "EXPIRED"]
                  /\ UNCHANGED <<setVars, chosen, offer, used, clicks, channels, created, posted>>

TicketNext ==
  \/ SetNext /\ UNCHANGED ticketVars
  \/ WindowEnds
  \/ \E s \in Sessions :
        \/ \E x \in Menu(chosen[s]) : Select(s, x)
        \/ SubmitForm(s) \/ MakeOffer(s) \/ FormRefused(s) \/ OfferExpires(s) \/ ExpireTrade(s)
        \/ \E c \in Clicks : Consume(c, s)
  \/ \E c \in Clicks : \/ OpenTicketChannel(c) \/ InsertTrade(c) \/ LogTrade(c) \/ DeleteChannel(c)
                       \/ PostTicketMessage(c) \/ ClickFails(c)

-----------------------------------------------------------------------------
TicketTypeOK ==
  /\ SetTypeOK
  /\ \A s \in Sessions : FormShown(s) => Valid(chosen[s])
  /\ offer \in [Sessions -> {"none", "quoting", "quote", "pending", "expired", "used"}]
  /\ used \in 0..Limit
  /\ clicks \in [Clicks -> [session: Sessions \cup {NoSession},
                            at: {"idle", "channel", "trade", "log", "post"}]]
  /\ channels \in [Sessions -> Nat] /\ created \in [Sessions -> Nat]
  /\ trade \in [Sessions -> {"none", "OPEN", "FIAT_PENDING", "EXPIRED"}]
  /\ posted \subseteq Sessions

(* However often and however fast Confirm is clicked, before and after      *)
(* restarts, an offer opens one channel and creates one trade, and a        *)
(* channel with the Claim button has its trade.                             *)
OneTradePerOffer == \A s \in Sessions : /\ channels[s] <= 1 /\ created[s] <= 1
                                        /\ s \in posted => channels[s] = 1 /\ created[s] = 1
=============================================================================
