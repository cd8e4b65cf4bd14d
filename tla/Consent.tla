------------------------------- MODULE Consent -------------------------------
(***************************************************************************)
(* Terms and conditions: an exchanger who has set terms gets a trade only  *)
(* after its buyer accepted them.  Claim, in the ticket channel, looks for *)
(* an acceptance of the text in force; without one it posts the terms with *)
(* two buttons, and Accept records the acceptance and claims the trade for *)
(* the exchanger.  Terms may be changed, never removed; all handlers       *)
(* interleave at their queries.                                            *)
(***************************************************************************)
EXTENDS Tickets

CONSTANTS Exchangers,
          Texts,        \* the terms an exchanger may set
          Calls,        \* bound: Claim and Accept handled at once
          MaxMessages,  \* bound: messages of an exchanger's terms in a channel
          NoExchanger, NoText

ASSUME ConsentOK == NoExchanger \notin Exchangers /\ NoText \notin Texts /\ MaxMessages \in Nat

VARIABLES terms,       \* exchangers.terms_and_conditions
          accepted,    \* exchanger_tc_acceptances of the buyer
          messages,    \* the messages with Accept and Decline
          calls,       \* the handler in each slot
          owner,       \* trades.exchanger_id
          gated        \* who had terms when the trade was created

consentVars == <<terms, accepted, messages, calls, owner, gated>>
vars == <<setVars, ticketVars, consentVars>>

NoCall == [exch |-> NoExchanger, session |-> NoSession, at |-> "idle", text |-> NoText]
IdleCall(k) == calls[k] = NoCall

Init == /\ TicketInit
        /\ terms \in [Exchangers -> Texts \cup {NoText}]
        /\ accepted = {}
        /\ messages = [m \in Sessions \X Exchangers |-> 0]
        /\ calls = [k \in Calls |-> NoCall]
        /\ owner = [s \in Sessions |-> NoExchanger]
        /\ gated = [s \in Sessions |-> {}]

OnTicket(k) == <<calls[k].session, calls[k].exch>>
CallTo(k, at) == calls' = [calls EXCEPT ![k].at = at]
EndCall(k) == calls' = [calls EXCEPT ![k] = NoCall]
StartCall(k, e, s, at) == calls' = [calls EXCEPT ![k] = [NoCall EXCEPT !.exch = e, !.session = s, !.at = at]]
ReadTerms(k, at) == calls' = [calls EXCEPT ![k].text = terms[calls[k].exch], ![k].at = at]

SetExchangerTerms(e, text) == /\ terms[e] # text
                              /\ terms' = [terms EXCEPT ![e] = text]
                              /\ UNCHANGED <<setVars, ticketVars, accepted, messages, calls, owner, gated>>

-----------------------------------------------------------------------------
(* handleClaim                                                              *)

BeginClaim(k, e, s) == /\ IdleCall(k)
                       /\ s \in posted /\ trade[s] = "OPEN"
                       /\ StartCall(k, e, s, "check")
                       /\ UNCHANGED <<setVars, ticketVars, terms, accepted, messages, owner, gated>>

\* The first read of hasUserAcceptedTerms; its second looks the text up.
CheckTerms(k) == /\ calls[k].at = "check"
                 /\ ReadTerms(k, IF terms[calls[k].exch] = NoText THEN "claim" ELSE "look up")
                 /\ UNCHANGED <<setVars, ticketVars, terms, accepted, messages, owner, gated>>

LookUpAcceptance(k) ==
  /\ calls[k].at = "look up"
  /\ CallTo(k, IF <<calls[k].exch, calls[k].text>> \in accepted THEN "claim" ELSE "show")
  /\ UNCHANGED <<setVars, ticketVars, terms, accepted, messages, owner, gated>>

\* Reads the terms again and posts them, if there is a channel.
ShowTerms(k) ==
  /\ calls[k].at = "show"
  /\ IF channels[calls[k].session] > 0
       THEN /\ messages[OnTicket(k)] < MaxMessages
            /\ messages' = [messages EXCEPT ![OnTicket(k)] = @ + 1]
       ELSE UNCHANGED messages
  /\ EndCall(k)
  /\ UNCHANGED <<setVars, ticketVars, terms, accepted, owner, gated>>

-----------------------------------------------------------------------------
(* handleTermsAccept, handleTermsDecline                                    *)

\* Mutant: the acceptance is recorded after the claim.
AcceptAndClaim(k, e, s) ==
  /\ IdleCall(k)
  /\ messages[<<s, e>>] > 0
  /\ trade[s] = "OPEN"
  /\ StartCall(k, e, s, "claim")
  /\ UNCHANGED <<setVars, ticketVars, terms, accepted, messages, owner, gated>>

BeginAccept(k, e, s) == /\ IdleCall(k)
                        /\ messages[<<s, e>>] > 0
                        /\ trade[s] = "OPEN"
                        /\ StartCall(k, e, s, "accept")
                        /\ UNCHANGED <<setVars, ticketVars, terms, accepted, messages, owner, gated>>

\* recordTermsAcceptance takes the text in force now for the one that was shown.
ReadAcceptedTerms(k) == /\ calls[k].at = "accept"
                        /\ ReadTerms(k, "record")
                        /\ UNCHANGED <<setVars, ticketVars, terms, accepted, messages, owner, gated>>

RecordAcceptance(k) == /\ calls[k].at = "record"
                       /\ accepted' = accepted \cup {<<calls[k].exch, calls[k].text>>}
                       /\ CallTo(k, "remove")
                       /\ UNCHANGED <<setVars, ticketVars, terms, messages, owner, gated>>

\* The buttons go, unless that fails, which is ignored.
RemoveButtons(k) ==
  /\ calls[k].at = "remove"
  /\ messages' \in {messages, [messages EXCEPT ![OnTicket(k)] = IF @ = 0 THEN 0 ELSE @ - 1]}
  /\ CallTo(k, "claim")
  /\ UNCHANGED <<setVars, ticketVars, terms, accepted, owner, gated>>

Decline(e, s) == /\ messages[<<s, e>>] > 0
                 /\ messages' = [messages EXCEPT ![<<s, e>>] = @ - 1]
                 /\ UNCHANGED <<setVars, ticketVars, terms, accepted, calls, owner, gated>>

-----------------------------------------------------------------------------
\* claimTrade: a transaction that looks at the status again (see TradeDb).
ClaimTrade(k) ==
  LET s == calls[k].session
  IN /\ calls[k].at = "claim"
     /\ trade[s] = "OPEN"
     /\ trade' = [trade EXCEPT ![s] = "FIAT_PENDING"]
     /\ owner' = [owner EXCEPT ![s] = calls[k].exch]
     /\ EndCall(k)
     /\ UNCHANGED <<setVars, chosen, offer, used, clicks, channels, created, posted,
                    terms, accepted, messages, gated>>

\* An await that throws, as the claim does of a trade that is not open.
CallFails(k) == /\ ~IdleCall(k)
                /\ EndCall(k)
                /\ UNCHANGED <<setVars, ticketVars, terms, accepted, messages, owner, gated>>

\* The steps of Tickets; gated notes who has terms when a trade is inserted.
TicketStep == /\ TicketNext
              /\ gated' = [s \in Sessions |->
                             IF created'[s] > created[s] THEN {e \in Exchangers : terms[e] # NoText}
                                                         ELSE gated[s]]
              /\ UNCHANGED <<terms, accepted, messages, calls, owner>>

Restart == /\ TicketsRestart
           /\ calls' = [k \in Calls |-> NoCall]
           /\ UNCHANGED <<terms, accepted, messages, owner, gated>>

CallStep(k) == \/ CheckTerms(k) \/ LookUpAcceptance(k) \/ ShowTerms(k)
               \/ ReadAcceptedTerms(k) \/ RecordAcceptance(k) \/ RemoveButtons(k)
               \/ ClaimTrade(k) \/ CallFails(k)

Next == \/ TicketStep \/ Restart
        \/ \E e \in Exchangers : \/ \E text \in Texts : SetExchangerTerms(e, text)
                                 \/ \E s \in Sessions : Decline(e, s)
        \/ \E k \in Calls, e \in Exchangers, s \in Sessions : BeginClaim(k, e, s) \/ BeginAccept(k, e, s)
        \/ \E k \in Calls : CallStep(k)

Spec == Init /\ [][Next]_vars

\* Time passes, the expiry worker reads settings every minute, and queries are
\* not answered by an error every time.
FairSpec == /\ Spec
            /\ WF_vars(CacheExpires /\ UNCHANGED <<ticketVars, consentVars>>)
            /\ \A l \in Loads : /\ WF_vars(StartLoad(l) /\ UNCHANGED <<ticketVars, consentVars>>)
                                /\ SF_vars(FinishLoad(l) /\ UNCHANGED <<ticketVars, consentVars>>)

-----------------------------------------------------------------------------
(* Type correctness; every path through the panel's menus leads to a form   *)
(* that the validation of the form accepts.                                 *)
ConsentTypeOK ==
  /\ TicketTypeOK
  /\ terms \in [Exchangers -> Texts \cup {NoText}]
  /\ accepted \subseteq Exchangers \X Texts
  /\ messages \in [Sessions \X Exchangers -> 0..MaxMessages]
  /\ \A k \in Calls : calls[k] \in [exch: Exchangers \cup {NoExchanger},
                                    session: Sessions \cup {NoSession}, text: Texts \cup {NoText},
                                    at: {"idle", "check", "look up", "show", "accept", "record",
                                         "remove", "claim"}]
  /\ owner \in [Sessions -> Exchangers \cup {NoExchanger}]
  /\ gated \in [Sessions -> SUBSET Exchangers]

(* "Only after its buyer accepted" (handleClaim's gate): an exchanger who    *)
(* had terms when the trade was opened gets it only if the buyer has        *)
(* accepted a text of his, however Claim, Accept and changes of the terms   *)
(* interleave.                                                              *)
ConsentBeforeClaim ==
  \A s \in Sessions : owner[s] \in gated[s] => \E text \in Texts : <<owner[s], text>> \in accepted
=============================================================================
