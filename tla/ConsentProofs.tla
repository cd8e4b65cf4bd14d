---------------------------- MODULE ConsentProofs ----------------------------
(***************************************************************************)
(* Proofs about Tickets and Consent for any sessions, exchangers, texts,   *)
(* clicks and calls at once: an offer becomes one trade, an exchanger with *)
(* terms gets a trade only from a buyer who accepted some, and a form is   *)
(* shown only when every menu before it was answered (in the types).       *)
(***************************************************************************)
EXTENDS Consent, SequenceTheorems, TLAPS

\* The variables the first theorem is about.
TicketShape ==
  /\ offer \in [Sessions -> {"none", "quoting", "quote", "pending", "expired", "used"}]
  /\ clicks \in [Clicks -> [session: Sessions \cup {NoSession},
                            at: {"idle", "channel", "trade", "log", "post"}]]
  /\ channels \in [Sessions -> Nat] /\ created \in [Sessions -> Nat]
  /\ posted \subseteq Sessions

\* A click that is handled has used up its offer, and is the only one of it.
ClicksApart ==
  \A c \in Clicks :
     IF clicks[c].at = "idle" THEN clicks[c].session = NoSession
     ELSE /\ clicks[c].session \in Sessions
          /\ offer[clicks[c].session] = "used"
          /\ \A d \in Clicks : clicks[d].session = clicks[c].session => d = c

\* How far the click has come is how far its ticket has come.
ClickProgress ==
  \A c \in Clicks : clicks[c].at # "idle" =>
     LET s == clicks[c].session
     IN /\ s \notin posted
        /\ channels[s] = IF clicks[c].at = "channel" THEN 0 ELSE 1
        /\ created[s] = IF clicks[c].at \in {"channel", "trade"} THEN 0 ELSE 1

\* Without a click that used the offer there is nothing yet.
Untouched == \A s \in Sessions : offer[s] # "used" => channels[s] = 0 /\ created[s] = 0

TicketInv == TicketShape /\ ClicksApart /\ ClickProgress /\ Untouched /\ OneTradePerOffer

\* All that the invariant depends on.
ticketCore == <<offer, clicks, channels, created, posted>>

LEMMA TicketCoreUnchanged == TicketInv /\ UNCHANGED ticketCore => TicketInv'
BY DEF ticketCore, TicketInv, TicketShape, ClicksApart, ClickProgress, Untouched, OneTradePerOffer

LEMMA ClickFacts ==
  ASSUME TicketInv, NEW c \in Clicks, clicks[c].at # "idle"
  PROVE  /\ clicks[c].session \in Sessions
         /\ offer[clicks[c].session] = "used"
         /\ clicks[c].session \notin posted
         /\ \A d \in Clicks : clicks[d].session = clicks[c].session => d = c
         /\ channels[clicks[c].session] = IF clicks[c].at = "channel" THEN 0 ELSE 1
         /\ created[clicks[c].session] = IF clicks[c].at \in {"channel", "trade"} THEN 0 ELSE 1
BY DEF TicketInv, ClicksApart, ClickProgress

\* An offer that is not used may become anything but used.
LEMMA OfferStep ==
  ASSUME TicketInv, NEW s \in Sessions, offer[s] # "used",
         NEW to \in {"none", "quoting", "quote", "pending", "expired"}, SetOffer(s, to),
         UNCHANGED <<clicks, channels, created, posted>>
  PROVE  TicketInv'
<1>1. /\ offer'[s] = to /\ \A q \in Sessions \ {s} : offer'[q] = offer[q]
      /\ offer' \in [Sessions -> {"none", "quoting", "quote", "pending", "expired", "used"}]
  BY DEF SetOffer, TicketInv, TicketShape
<1>2. TicketShape'
  BY <1>1 DEF TicketInv, TicketShape
<1>3. ClicksApart' /\ ClickProgress'
  BY <1>1 DEF TicketInv, ClicksApart, ClickProgress
<1>4. Untouched' /\ OneTradePerOffer'
  BY <1>1 DEF TicketInv, Untouched, OneTradePerOffer
<1> QED
  BY <1>2, <1>3, <1>4 DEF TicketInv

LEMMA ConsumeStep ==
  ASSUME TicketInv, NEW c \in Clicks, NEW s \in Sessions, Consume(c, s)
  PROVE  TicketInv'
<1> DEFINE new == [session |-> s, at |-> "channel"]
<1>1. /\ new.session = s /\ new.at = "channel"
      /\ new \in [session: Sessions \cup {NoSession}, at: {"idle", "channel", "trade", "log", "post"}]
  OBVIOUS
<1>2. /\ clicks' = [clicks EXCEPT ![c] = new]
      /\ clicks[c].at = "idle" /\ offer[s] # "used"
      /\ UNCHANGED <<channels, created, posted>>
  BY DEF Consume, NoClick, Open
<1> HIDE DEF new
<1>3. clicks'[c] = new /\ \A d \in Clicks \ {c} : clicks'[d] = clicks[d]
  BY <1>2 DEF TicketInv, TicketShape
<1>4. offer'[s] = "used" /\ \A q \in Sessions \ {s} : offer'[q] = offer[q]
  BY DEF Consume, SetOffer, TicketInv, TicketShape
<1>5. TicketShape'
  BY <1>1, <1>2 DEF TicketInv, TicketShape, Consume, SetOffer
<1>6. \A d \in Clicks : clicks[d].session # s
  BY <1>2, TicketsOK DEF TicketInv, ClicksApart
<1>7. ClicksApart'
  BY <1>1, <1>2, <1>3, <1>4, <1>6 DEF TicketInv, ClicksApart
<1>8. ClickProgress'
  BY <1>1, <1>2, <1>3 DEF TicketInv, ClickProgress, Untouched, OneTradePerOffer
<1>9. Untouched' /\ OneTradePerOffer'
  BY <1>2, <1>4 DEF TicketInv, Untouched, OneTradePerOffer
<1> QED
  BY <1>5, <1>7, <1>8, <1>9 DEF TicketInv

\* A click goes on: the channel is opened, the trade inserted, its log written.
LEMMA GoOnStep ==
  ASSUME TicketInv, NEW c \in Clicks, OpenTicketChannel(c) \/ InsertTrade(c) \/ LogTrade(c)
  PROVE  TicketInv'
<1> DEFINE s == clicks[c].session
<1>1. clicks[c].at \in {"channel", "trade", "log"}
  BY DEF OpenTicketChannel, InsertTrade, LogTrade
<1>2. /\ s \in Sessions /\ offer[s] = "used" /\ s \notin posted
      /\ \A d \in Clicks : clicks[d].session = s => d = c
      /\ channels[s] = IF clicks[c].at = "channel" THEN 0 ELSE 1
      /\ created[s] = IF clicks[c].at \in {"channel", "trade"} THEN 0 ELSE 1
  BY <1>1, ClickFacts
<1>3. UNCHANGED <<offer, posted>>
  BY DEF OpenTicketChannel, InsertTrade, LogTrade
<1>4. PICK to \in {"trade", "log", "post"} :
        /\ Goto(c, to)
        /\ channels' = IF to = "trade" THEN [channels EXCEPT ![s] = 1] ELSE channels
        /\ created' = IF to = "log" THEN [created EXCEPT ![s] = 1] ELSE created
        /\ clicks[c].at = "channel" <=> to = "trade"
        /\ clicks[c].at = "trade" <=> to = "log"
  <2>1. CASE OpenTicketChannel(c)
    <3>1. clicks[c].at = "channel" /\ channels' = [channels EXCEPT ![s] = channels[s] + 1]
      BY <2>1 DEF OpenTicketChannel
    <3>2. channels[s] = 0
      BY <1>2, <3>1
    <3>3. channels' = [channels EXCEPT ![s] = 1]
      BY <3>1, <3>2
    <3>4. Goto(c, "trade") /\ UNCHANGED created
      BY <2>1 DEF OpenTicketChannel
    <3> HIDE DEF s
    <3> QED
      BY <3>1, <3>3, <3>4
  <2>2. CASE InsertTrade(c)
    <3>1. clicks[c].at = "trade" /\ created' = [created EXCEPT ![s] = created[s] + 1]
      BY <2>2 DEF InsertTrade
    <3>2. created[s] = 0
      BY <1>2, <3>1
    <3>3. created' = [created EXCEPT ![s] = 1]
      BY <3>1, <3>2
    <3>4. Goto(c, "log") /\ UNCHANGED channels
      BY <2>2 DEF InsertTrade
    <3> HIDE DEF s
    <3> QED
      BY <3>1, <3>3, <3>4
  <2>3. CASE LogTrade(c)
    BY <2>3 DEF LogTrade
  <2>4. QED
    BY <2>1, <2>2, <2>3
<1>5. /\ clicks'[c].at = to /\ clicks'[c].session = s
      /\ \A d \in Clicks \ {c} : clicks'[d] = clicks[d]
      /\ clicks' \in [Clicks -> [session: Sessions \cup {NoSession},
                                at: {"idle", "channel", "trade", "log", "post"}]]
  BY <1>4 DEF Goto, TicketInv, TicketShape
<1>6. /\ channels' \in [Sessions -> Nat] /\ created' \in [Sessions -> Nat]
      /\ channels'[s] = 1
      /\ created'[s] = IF to = "trade" THEN 0 ELSE 1
      /\ \A q \in Sessions \ {s} : channels'[q] = channels[q] /\ created'[q] = created[q]
  BY <1>2, <1>4 DEF TicketInv, TicketShape
<1>7. TicketShape'
  BY <1>3, <1>5, <1>6 DEF TicketInv, TicketShape
<1>8. ClicksApart'
  BY <1>2, <1>3, <1>5 DEF TicketInv, ClicksApart
<1>9. ClickProgress'
  BY <1>2, <1>3, <1>5, <1>6 DEF TicketInv, ClicksApart, ClickProgress
<1>10. Untouched' /\ OneTradePerOffer'
  BY <1>2, <1>3, <1>6 DEF TicketInv, Untouched, OneTradePerOffer
<1> QED
  BY <1>7, <1>8, <1>9, <1>10 DEF TicketInv

\* A click ends: its ticket is complete, given up, or left as it is.
LEMMA EndStep ==
  ASSUME TicketInv, NEW c \in Clicks,
         PostTicketMessage(c) \/ DeleteChannel(c) \/ ClickFails(c)
  PROVE  TicketInv'
<1> DEFINE s == clicks[c].session
<1>1. clicks[c].at # "idle"
  BY DEF PostTicketMessage, DeleteChannel, ClickFails
<1>2. /\ s \in Sessions /\ offer[s] = "used" /\ s \notin posted
      /\ \A d \in Clicks : clicks[d].session = s => d = c
      /\ channels[s] = IF clicks[c].at = "channel" THEN 0 ELSE 1
      /\ created[s] = IF clicks[c].at \in {"channel", "trade"} THEN 0 ELSE 1
  BY <1>1, ClickFacts
<1>3. clicks' = [clicks EXCEPT ![c] = NoClick] /\ UNCHANGED <<offer, created>>
  BY DEF PostTicketMessage, DeleteChannel, ClickFails, EndClick
<1>4. /\ NoClick.session = NoSession /\ NoClick.at = "idle"
      /\ NoClick \in [session: Sessions \cup {NoSession}, at: {"idle", "channel", "trade", "log", "post"}]
  BY DEF NoClick
<1>5. clicks'[c] = NoClick /\ \A d \in Clicks \ {c} : clicks'[d] = clicks[d]
  BY <1>3 DEF TicketInv, TicketShape
<1>6. /\ channels' \in [Sessions -> Nat] /\ channels'[s] \in {0, 1}
      /\ \A q \in Sessions \ {s} : channels'[q] = channels[q]
      /\ posted' \in {posted, posted \cup {s}}
      /\ s \in posted' => channels'[s] = 1 /\ created[s] = 1
  <2>1. CASE PostTicketMessage(c)
    BY <1>2, <2>1 DEF PostTicketMessage, TicketInv, TicketShape
  <2>2. CASE DeleteChannel(c)
    BY <1>2, <2>2 DEF DeleteChannel, TicketInv, TicketShape
  <2>3. CASE ClickFails(c)
    BY <1>2, <2>3 DEF ClickFails, TicketInv, TicketShape
  <2>4. QED
    BY <2>1, <2>2, <2>3
<1>7. TicketShape'
  BY <1>2, <1>3, <1>4, <1>6 DEF TicketInv, TicketShape
<1>8. ClicksApart'
  BY <1>2, <1>3, <1>4, <1>5, TicketsOK DEF TicketInv, ClicksApart
<1>9. ClickProgress'
  BY <1>2, <1>3, <1>4, <1>5, <1>6 DEF TicketInv, ClicksApart, ClickProgress
<1>10. Untouched' /\ OneTradePerOffer'
  BY <1>2, <1>3, <1>6 DEF TicketInv, Untouched, OneTradePerOffer
<1> QED
  BY <1>7, <1>8, <1>9, <1>10 DEF TicketInv

\* A restart forgets the clicks, and no offer that was used becomes open again.
LEMMA RestartStep == ASSUME TicketInv, TicketsRestart PROVE TicketInv'
<1>1. /\ clicks' = [c \in Clicks |-> NoClick]
      /\ UNCHANGED <<channels, created, posted>>
  BY DEF TicketsRestart
<1>2. /\ NoClick.session = NoSession /\ NoClick.at = "idle"
      /\ NoClick \in [session: Sessions \cup {NoSession}, at: {"idle", "channel", "trade", "log", "post"}]
  BY DEF NoClick
<1>3. \A c \in Clicks : clicks'[c] = NoClick
  BY <1>1
<1>4. /\ offer' \in [Sessions -> {"none", "quoting", "quote", "pending", "expired", "used"}]
      /\ \A s \in Sessions : offer'[s] # "used" => offer[s] # "used"
  BY DEF TicketsRestart, TicketInv, TicketShape
<1>5. TicketShape'
  BY <1>1, <1>2, <1>4 DEF TicketInv, TicketShape
<1>6. ClicksApart' /\ ClickProgress'
  BY <1>2, <1>3 DEF ClicksApart, ClickProgress
<1>7. Untouched' /\ OneTradePerOffer'
  BY <1>1, <1>4 DEF TicketInv, Untouched, OneTradePerOffer
<1> QED
  BY <1>5, <1>6, <1>7 DEF TicketInv

LEMMA TicketStepKeeps == ASSUME TicketInv, TicketNext \/ TicketsRestart PROVE TicketInv'
<1>1. CASE SetNext /\ UNCHANGED ticketVars
  BY <1>1, TicketCoreUnchanged DEF ticketVars, ticketCore
<1>2. CASE WindowEnds
  BY <1>2, TicketCoreUnchanged DEF WindowEnds, ticketCore
<1>3. ASSUME NEW s \in Sessions, NEW x, Select(s, x) PROVE TicketInv'
  BY <1>3, TicketCoreUnchanged DEF Select, ticketCore
<1>4. ASSUME NEW s \in Sessions, SubmitForm(s) PROVE TicketInv'
  BY <1>4, OfferStep DEF SubmitForm
<1>5. ASSUME NEW s \in Sessions, MakeOffer(s) PROVE TicketInv'
  BY <1>5, OfferStep DEF MakeOffer, OfferFor
<1>6. ASSUME NEW s \in Sessions, FormRefused(s) PROVE TicketInv'
  BY <1>6, OfferStep DEF FormRefused
<1>7. ASSUME NEW s \in Sessions, OfferExpires(s) PROVE TicketInv'
  BY <1>7, OfferStep DEF OfferExpires, Open
<1>8. ASSUME NEW s \in Sessions, ExpireTrade(s) PROVE TicketInv'
  BY <1>8, TicketCoreUnchanged DEF ExpireTrade, ticketCore
<1> QED
  BY <1>1, <1>2, <1>3, <1>4, <1>5, <1>6, <1>7, <1>8, ConsumeStep, GoOnStep, EndStep, RestartStep
     DEF TicketNext

LEMMA InitTickets == TicketInit => TicketInv
<1> SUFFICES ASSUME TicketInit PROVE TicketInv
  OBVIOUS
<1>1. /\ NoClick.session = NoSession /\ NoClick.at = "idle"
      /\ NoClick \in [session: Sessions \cup {NoSession}, at: {"idle", "channel", "trade", "log", "post"}]
  BY DEF NoClick
<1>2. \A c \in Clicks : clicks[c] = NoClick
  BY DEF TicketInit
<1>3. TicketShape
  BY <1>1 DEF TicketInit, TicketShape
<1>4. ClicksApart /\ ClickProgress
  BY <1>1, <1>2 DEF ClicksApart, ClickProgress
<1>5. Untouched /\ OneTradePerOffer
  BY DEF TicketInit, Untouched, OneTradePerOffer
<1> QED
  BY <1>3, <1>4, <1>5 DEF TicketInv

-----------------------------------------------------------------------------
(* Consent: what a handler knows at each of its queries                     *)

Stages == {"idle", "check", "look up", "show", "accept", "record", "remove", "claim"}
CallRecords == [exch: Exchangers \cup {NoExchanger}, session: Sessions \cup {NoSession},
                at: Stages, text: Texts \cup {NoText}]

ConsentShape == /\ terms \in [Exchangers -> Texts \cup {NoText}]
                /\ accepted \subseteq Exchangers \X Texts
                /\ messages \in [Sessions \X Exchangers -> Nat]
                /\ calls \in [Calls -> CallRecords]
                /\ owner \in [Sessions -> Exchangers \cup {NoExchanger}]
                /\ gated \in [Sessions -> SUBSET Exchangers]

Consented(e) == \E text \in Texts : <<e, text>> \in accepted

CallOK(k) ==
  LET e == calls[k].exch
      at == calls[k].at
  IN /\ at # "idle" => e \in Exchangers /\ calls[k].session \in posted
     /\ at \in {"look up", "show", "accept", "record"} => terms[e] \in Texts
     /\ at \in {"look up", "record"} => calls[k].text \in Texts
     /\ at \in {"remove", "claim"} /\ e \in gated[calls[k].session] => Consented(e)

CallsOK == \A k \in Calls : CallOK(k)

\* A message with the buttons hangs in a channel with a trade, and shows terms.
MessagesOK == \A s \in Sessions, e \in Exchangers :
                 messages[<<s, e>>] > 0 => s \in posted /\ terms[e] \in Texts

\* Terms are never removed, and a trade has an owner only after it was posted.
GatesOK == \A s \in Sessions : /\ \A e \in gated[s] : terms[e] \in Texts
                               /\ owner[s] # NoExchanger => s \in posted

ConsentInv == ConsentShape /\ CallsOK /\ MessagesOK /\ GatesOK /\ ConsentBeforeClaim

Inv == TicketInv /\ ConsentInv

\* The steps of a handler change its own slot.
LEMMA OneCall ==
  ASSUME CallsOK, NEW k \in Calls, CallOK(k)',
         \A d \in Calls \ {k} : calls'[d] = calls[d],
         UNCHANGED <<terms, posted, gated>>, accepted \subseteq accepted'
  PROVE  CallsOK'
<1> SUFFICES ASSUME NEW d \in Calls, d # k PROVE CallOK(d)'
  BY DEF CallsOK
<1>1. calls'[d] = calls[d] /\ CallOK(d)
  BY DEF CallsOK
<1> QED
  BY <1>1 DEF CallOK, Consented

LEMMA CallToEffect ==
  ASSUME ConsentShape, NEW k \in Calls, NEW at \in Stages, CallTo(k, at)
  PROVE  /\ calls' \in [Calls -> CallRecords]
         /\ \A d \in Calls \ {k} : calls'[d] = calls[d]
         /\ calls'[k].at = at /\ calls'[k].exch = calls[k].exch
         /\ calls'[k].session = calls[k].session /\ calls'[k].text = calls[k].text
BY DEF ConsentShape, CallTo, CallRecords

LEMMA ReadTermsEffect ==
  ASSUME ConsentShape, NEW k \in Calls, NEW at \in Stages, calls[k].exch \in Exchangers,
         ReadTerms(k, at)
  PROVE  /\ calls' \in [Calls -> CallRecords]
         /\ \A d \in Calls \ {k} : calls'[d] = calls[d]
         /\ calls'[k].at = at /\ calls'[k].exch = calls[k].exch
         /\ calls'[k].session = calls[k].session /\ calls'[k].text = terms[calls[k].exch]
<1> DEFINE t == terms[calls[k].exch]
<1>1. t \in Texts \cup {NoText}
  BY DEF ConsentShape
<1>2. calls' = [calls EXCEPT ![k].text = t, ![k].at = at]
  BY DEF ReadTerms
<1> HIDE DEF t
<1> QED
  BY <1>1, <1>2 DEF ConsentShape, CallRecords, t

LEMMA StartCallEffect ==
  ASSUME ConsentShape, NEW k \in Calls, NEW e \in Exchangers, NEW s \in Sessions,
         NEW at \in Stages, StartCall(k, e, s, at)
  PROVE  /\ calls' \in [Calls -> CallRecords]
         /\ \A d \in Calls \ {k} : calls'[d] = calls[d]
         /\ calls'[k].at = at /\ calls'[k].exch = e /\ calls'[k].session = s
<1> DEFINE new == [NoCall EXCEPT !.exch = e, !.session = s, !.at = at]
<1>1. new \in CallRecords /\ new.at = at /\ new.exch = e /\ new.session = s
  BY DEF CallRecords, NoCall
<1>2. calls' = [calls EXCEPT ![k] = new]
  BY DEF StartCall
<1> HIDE DEF new
<1> QED
  BY <1>1, <1>2 DEF ConsentShape

LEMMA EndCallEffect ==
  ASSUME ConsentShape, NEW k \in Calls, EndCall(k)
  PROVE  /\ calls' \in [Calls -> CallRecords]
         /\ \A d \in Calls \ {k} : calls'[d] = calls[d]
         /\ calls'[k].at = "idle"
<1>1. NoCall \in CallRecords /\ NoCall.at = "idle"
  BY DEF NoCall, CallRecords, Stages
<1> QED
  BY <1>1 DEF ConsentShape, EndCall

\* Steps that end a handler and touch nothing else but messages.
LEMMA CallEnds ==
  ASSUME ConsentInv, NEW k \in Calls, EndCall(k),
         UNCHANGED <<terms, posted, gated, accepted>>
  PROVE  CallsOK' /\ calls' \in [Calls -> CallRecords]
<1>1. /\ calls' \in [Calls -> CallRecords]
      /\ \A d \in Calls \ {k} : calls'[d] = calls[d]
      /\ calls'[k].at = "idle"
  BY EndCallEffect DEF ConsentInv
<1>2. CallOK(k)'
  BY <1>1 DEF CallOK
<1> QED
  BY <1>1, <1>2, OneCall DEF ConsentInv

\* Steps that change a handler and at most record an acceptance.
LEMMA OthersStay ==
  ASSUME ConsentInv, CallsOK', calls' \in [Calls -> CallRecords],
         accepted \subseteq accepted', accepted' \subseteq Exchangers \X Texts,
         UNCHANGED <<terms, messages, owner, gated, posted>>
  PROVE  ConsentInv'
<1>1. ConsentShape'
  BY DEF ConsentInv, ConsentShape
<1>2. MessagesOK' /\ GatesOK'
  BY DEF ConsentInv, MessagesOK, GatesOK
<1>3. ConsentBeforeClaim'
  BY DEF ConsentInv, ConsentBeforeClaim
<1> QED
  BY <1>1, <1>2, <1>3 DEF ConsentInv

LEMMA BeginClaimStep ==
  ASSUME ConsentInv, NEW k \in Calls, NEW e \in Exchangers, NEW s \in Sessions, BeginClaim(k, e, s)
  PROVE  ConsentInv'
<1>1. /\ s \in posted /\ UNCHANGED <<terms, messages, owner, gated, posted, accepted>>
      /\ StartCall(k, e, s, "check")
  BY DEF BeginClaim, ticketVars
<1>2. /\ calls' \in [Calls -> CallRecords]
      /\ \A d \in Calls \ {k} : calls'[d] = calls[d]
      /\ calls'[k].at = "check" /\ calls'[k].exch = e /\ calls'[k].session = s
  BY <1>1, StartCallEffect DEF ConsentInv, Stages
<1>3. CallOK(k)'
  BY <1>1, <1>2 DEF CallOK
<1> QED
  BY <1>1, <1>2, <1>3, OneCall, OthersStay DEF ConsentInv, ConsentShape

LEMMA BeginAcceptStep ==
  ASSUME ConsentInv, NEW k \in Calls, NEW e \in Exchangers, NEW s \in Sessions, BeginAccept(k, e, s)
  PROVE  ConsentInv'
<1>1. /\ messages[<<s, e>>] > 0 /\ UNCHANGED <<terms, messages, owner, gated, posted, accepted>>
      /\ StartCall(k, e, s, "accept")
  BY DEF BeginAccept, ticketVars
<1>2. /\ calls' \in [Calls -> CallRecords]
      /\ \A d \in Calls \ {k} : calls'[d] = calls[d]
      /\ calls'[k].at = "accept" /\ calls'[k].exch = e /\ calls'[k].session = s
  BY <1>1, StartCallEffect DEF ConsentInv, Stages
<1>3. s \in posted /\ terms[e] \in Texts
  BY <1>1 DEF ConsentInv, MessagesOK
<1>4. CallOK(k)'
  BY <1>1, <1>2, <1>3 DEF CallOK
<1> QED
  BY <1>1, <1>2, <1>4, OneCall, OthersStay DEF ConsentInv, ConsentShape

\* Who passes without an acceptance has no terms, and had none before.
LEMMA CheckTermsStep ==
  ASSUME Inv, NEW k \in Calls, CheckTerms(k)
  PROVE  ConsentInv'
<1> DEFINE e == calls[k].exch
           at == IF terms[e] = NoText THEN "claim" ELSE "look up"
<1>1. /\ calls[k].at = "check" /\ UNCHANGED <<terms, messages, owner, gated, posted, accepted>>
      /\ ReadTerms(k, at)
  BY DEF CheckTerms, ticketVars
<1>2. e \in Exchangers /\ calls[k].session \in posted
  BY <1>1 DEF Inv, ConsentInv, CallsOK, CallOK
<1>3. at \in Stages
  BY DEF Stages
<1>4. terms[e] \in Texts \/ terms[e] = NoText
  BY <1>2 DEF Inv, ConsentInv, ConsentShape
<1>5. /\ calls' \in [Calls -> CallRecords]
      /\ \A d \in Calls \ {k} : calls'[d] = calls[d]
      /\ calls'[k].at = at /\ calls'[k].exch = e
      /\ calls'[k].session = calls[k].session /\ calls'[k].text = terms[e]
  <2> HIDE DEF at
  <2> QED
    BY <1>1, <1>2, <1>3, ReadTermsEffect DEF Inv, ConsentInv
<1>6. CASE terms[e] = NoText
  <2>1. e \notin gated[calls[k].session]
    BY <1>2, <1>6, ConsentOK DEF Inv, TicketInv, TicketShape, ConsentInv, GatesOK
  <2>2. CallOK(k)'
    BY <1>1, <1>2, <1>5, <1>6, <2>1 DEF CallOK
  <2> QED
    BY <1>1, <1>5, <2>2, OneCall, OthersStay DEF Inv, ConsentInv, ConsentShape
<1>7. CASE terms[e] \in Texts
  <2>1. at = "look up"
    BY <1>7, ConsentOK
  <2>2. CallOK(k)'
    BY <1>1, <1>2, <1>5, <1>7, <2>1 DEF CallOK
  <2> QED
    BY <1>1, <1>5, <2>2, OneCall, OthersStay DEF Inv, ConsentInv, ConsentShape
<1> QED
  BY <1>4, <1>6, <1>7

LEMMA LookUpStep ==
  ASSUME ConsentInv, NEW k \in Calls, LookUpAcceptance(k)
  PROVE  ConsentInv'
<1> DEFINE e == calls[k].exch
           at == IF <<e, calls[k].text>> \in accepted THEN "claim" ELSE "show"
<1>1. /\ calls[k].at = "look up" /\ UNCHANGED <<terms, messages, owner, gated, posted, accepted>>
      /\ CallTo(k, at)
  BY DEF LookUpAcceptance, ticketVars
<1>2. e \in Exchangers /\ calls[k].session \in posted /\ terms[e] \in Texts /\ calls[k].text \in Texts
  BY <1>1 DEF ConsentInv, CallsOK, CallOK
<1>3. at \in Stages /\ at \in {"claim", "show"} /\ (at = "claim" => Consented(e))
  BY <1>2 DEF Stages, Consented
<1> HIDE DEF at
<1>4. /\ calls' \in [Calls -> CallRecords]
      /\ \A d \in Calls \ {k} : calls'[d] = calls[d]
      /\ calls'[k].at = at /\ calls'[k].exch = e /\ calls'[k].session = calls[k].session
  BY <1>1, <1>3, CallToEffect DEF ConsentInv
<1>5. CallOK(k)'
  BY <1>1, <1>2, <1>3, <1>4 DEF CallOK, Consented
<1> QED
  BY <1>1, <1>4, <1>5, OneCall, OthersStay DEF ConsentInv, ConsentShape

LEMMA ReadAcceptedStep ==
  ASSUME ConsentInv, NEW k \in Calls, ReadAcceptedTerms(k)
  PROVE  ConsentInv'
<1> DEFINE e == calls[k].exch
<1>1. /\ calls[k].at = "accept" /\ UNCHANGED <<terms, messages, owner, gated, posted, accepted>>
      /\ ReadTerms(k, "record")
  BY DEF ReadAcceptedTerms, ticketVars
<1>2. e \in Exchangers /\ calls[k].session \in posted /\ terms[e] \in Texts
  BY <1>1 DEF ConsentInv, CallsOK, CallOK
<1>3. /\ calls' \in [Calls -> CallRecords]
      /\ \A d \in Calls \ {k} : calls'[d] = calls[d]
      /\ calls'[k].at = "record" /\ calls'[k].exch = e
      /\ calls'[k].session = calls[k].session /\ calls'[k].text = terms[e]
  BY <1>1, <1>2, ReadTermsEffect DEF ConsentInv, Stages
<1>4. CallOK(k)'
  BY <1>1, <1>2, <1>3 DEF CallOK
<1> QED
  BY <1>1, <1>3, <1>4, OneCall, OthersStay DEF ConsentInv, ConsentShape

\* From here on the buyer has accepted a text of the exchanger's.
LEMMA RecordStep ==
  ASSUME ConsentInv, NEW k \in Calls, RecordAcceptance(k)
  PROVE  ConsentInv'
<1> DEFINE e == calls[k].exch
           text == calls[k].text
<1>1. /\ calls[k].at = "record" /\ UNCHANGED <<terms, messages, owner, gated, posted>>
      /\ CallTo(k, "remove") /\ accepted' = accepted \cup {<<e, text>>}
  BY DEF RecordAcceptance, ticketVars
<1>2. e \in Exchangers /\ calls[k].session \in posted /\ text \in Texts
  BY <1>1 DEF ConsentInv, CallsOK, CallOK
<1>3. /\ calls' \in [Calls -> CallRecords]
      /\ \A d \in Calls \ {k} : calls'[d] = calls[d]
      /\ calls'[k].at = "remove" /\ calls'[k].exch = e /\ calls'[k].session = calls[k].session
  BY <1>1, CallToEffect DEF ConsentInv, Stages
<1>4. <<e, text>> \in accepted' /\ accepted \subseteq accepted' /\ accepted' \subseteq Exchangers \X Texts
  BY <1>1, <1>2 DEF ConsentInv, ConsentShape
<1>5. CallOK(k)'
  BY <1>1, <1>2, <1>3, <1>4 DEF CallOK, Consented
<1> QED
  BY <1>1, <1>3, <1>4, <1>5, OneCall, OthersStay DEF ConsentInv

LEMMA CallFailsStep ==
  ASSUME ConsentInv, NEW k \in Calls, CallFails(k)
  PROVE  ConsentInv'
<1>1. UNCHANGED <<terms, messages, owner, gated, posted, accepted>> /\ EndCall(k)
  BY DEF CallFails, ticketVars
<1> QED
  BY <1>1, CallEnds, OthersStay DEF ConsentInv, ConsentShape

\* Messages appear where a handler shows terms, and otherwise only go away.
LEMMA MessagesChange ==
  ASSUME ConsentInv, CallsOK', calls' \in [Calls -> CallRecords],
         messages' \in [Sessions \X Exchangers -> Nat],
         \A s \in Sessions, e \in Exchangers :
            messages'[<<s, e>>] > 0 => \/ messages[<<s, e>>] > 0
                                       \/ s \in posted /\ terms[e] \in Texts,
         UNCHANGED <<terms, accepted, owner, gated, posted>>
  PROVE  ConsentInv'
<1>1. ConsentShape' /\ GatesOK' /\ ConsentBeforeClaim'
  BY DEF ConsentInv, ConsentShape, GatesOK, ConsentBeforeClaim
<1>2. MessagesOK'
  BY DEF ConsentInv, MessagesOK
<1> QED
  BY <1>1, <1>2 DEF ConsentInv

LEMMA ShowTermsStep ==
  ASSUME Inv, NEW k \in Calls, ShowTerms(k)
  PROVE  ConsentInv'
<1> DEFINE m == <<calls[k].session, calls[k].exch>>
<1>1. /\ calls[k].at = "show" /\ UNCHANGED <<terms, accepted, owner, gated, posted>>
      /\ EndCall(k)
      /\ messages' = messages \/ messages' = [messages EXCEPT ![m] = messages[m] + 1]
  BY DEF ShowTerms, OnTicket, ticketVars
<1>2. /\ calls[k].exch \in Exchangers /\ terms[calls[k].exch] \in Texts
      /\ calls[k].session \in posted /\ calls[k].session \in Sessions
  BY <1>1 DEF Inv, TicketInv, TicketShape, ConsentInv, CallsOK, CallOK
<1>3. CallsOK' /\ calls' \in [Calls -> CallRecords]
  BY <1>1, CallEnds DEF Inv
<1>4. /\ messages' \in [Sessions \X Exchangers -> Nat]
      /\ \A x \in Sessions \X Exchangers : x # m => messages'[x] = messages[x]
  BY <1>1, <1>2 DEF Inv, ConsentInv, ConsentShape
<1>5. ASSUME NEW s \in Sessions, NEW e \in Exchangers, messages'[<<s, e>>] > 0
      PROVE  messages[<<s, e>>] > 0 \/ (s \in posted /\ terms[e] \in Texts)
  <2>1. CASE <<s, e>> = m
    BY <1>2, <2>1
  <2>2. CASE <<s, e>> # m
    BY <1>4, <1>5, <2>2
  <2> QED
    BY <2>1, <2>2
<1> QED
  BY <1>1, <1>3, <1>4, <1>5, MessagesChange DEF Inv

\* What is taken away leaves no message that was not there.
LEMMA FewerMessages ==
  ASSUME ConsentInv, NEW m \in Sessions \X Exchangers,
         messages' = [messages EXCEPT ![m] = IF messages[m] = 0 THEN 0 ELSE messages[m] - 1]
  PROVE  /\ messages' \in [Sessions \X Exchangers -> Nat]
         /\ \A s \in Sessions, e \in Exchangers : messages'[<<s, e>>] > 0 => messages[<<s, e>>] > 0
<1> DEFINE n == messages[m]
           rest == IF n = 0 THEN 0 ELSE n - 1
<1>1. n \in Nat
  BY DEF ConsentInv, ConsentShape
<1>2. rest \in Nat /\ (rest > 0 => n > 0)
  BY <1>1
<1>3. messages' = [messages EXCEPT ![m] = rest]
  OBVIOUS
<1> HIDE DEF rest
<1>4. \A x \in Sessions \X Exchangers :
         /\ messages'[x] \in Nat /\ (messages'[x] > 0 => messages[x] > 0)
  BY <1>2, <1>3 DEF ConsentInv, ConsentShape
<1>5. messages' \in [Sessions \X Exchangers -> Nat]
  BY <1>2, <1>3 DEF ConsentInv, ConsentShape
<1> QED
  BY <1>4, <1>5

LEMMA RemoveButtonsStep ==
  ASSUME Inv, NEW k \in Calls, RemoveButtons(k)
  PROVE  ConsentInv'
<1> DEFINE e == calls[k].exch
           m == <<calls[k].session, calls[k].exch>>
<1>1. /\ calls[k].at = "remove" /\ UNCHANGED <<terms, accepted, owner, gated, posted>>
      /\ CallTo(k, "claim")
      /\ \/ messages' = messages
         \/ messages' = [messages EXCEPT ![m] = IF messages[m] = 0 THEN 0 ELSE messages[m] - 1]
  BY DEF RemoveButtons, OnTicket, ticketVars
<1>2. e \in Exchangers /\ calls[k].session \in posted /\ calls[k].session \in Sessions
  BY <1>1 DEF Inv, TicketInv, TicketShape, ConsentInv, CallsOK, CallOK
<1>3. /\ calls' \in [Calls -> CallRecords]
      /\ \A d \in Calls \ {k} : calls'[d] = calls[d]
      /\ calls'[k].at = "claim" /\ calls'[k].exch = e /\ calls'[k].session = calls[k].session
  BY <1>1, CallToEffect DEF Inv, ConsentInv, Stages
<1>4. e \in gated[calls[k].session] => Consented(e)
  BY <1>1 DEF Inv, ConsentInv, CallsOK, CallOK
<1>5. CallOK(k)'
  BY <1>1, <1>2, <1>3, <1>4 DEF CallOK, Consented
<1>6. CallsOK'
  BY <1>1, <1>3, <1>5, OneCall DEF Inv, ConsentInv
<1>7. /\ messages' \in [Sessions \X Exchangers -> Nat]
      /\ \A s \in Sessions, x \in Exchangers : messages'[<<s, x>>] > 0 => messages[<<s, x>>] > 0
  <2>1. CASE messages' = messages
    BY <2>1 DEF Inv, ConsentInv, ConsentShape
  <2>2. CASE messages' # messages
    <3>1. m \in Sessions \X Exchangers
      BY <1>2
    <3>2. messages' = [messages EXCEPT ![m] = IF messages[m] = 0 THEN 0 ELSE messages[m] - 1]
      BY <1>1, <2>2
    <3> HIDE DEF m
    <3> QED
      BY <3>1, <3>2, FewerMessages DEF Inv
  <2> QED
    BY <2>1, <2>2
<1> QED
  BY <1>1, <1>3, <1>6, <1>7, MessagesChange DEF Inv

LEMMA DeclineStep ==
  ASSUME Inv, NEW e \in Exchangers, NEW s \in Sessions, Decline(e, s)
  PROVE  ConsentInv'
<1> DEFINE m == <<s, e>>
<1>1. /\ messages[m] > 0 /\ UNCHANGED <<terms, accepted, calls, owner, gated, posted>>
      /\ messages' = [messages EXCEPT ![m] = messages[m] - 1]
  BY DEF Decline, ticketVars
<1>2. m \in Sessions \X Exchangers /\ messages[m] \in Nat
  BY DEF Inv, ConsentInv, ConsentShape
<1>3. messages' = [messages EXCEPT ![m] = IF messages[m] = 0 THEN 0 ELSE messages[m] - 1]
  <2> DEFINE n == messages[m]
  <2>1. (IF n = 0 THEN 0 ELSE n - 1) = n - 1
    BY <1>1, <1>2
  <2>2. messages' = [messages EXCEPT ![m] = n - 1]
    BY <1>1
  <2> HIDE DEF n
  <2>3. messages' = [messages EXCEPT ![m] = IF n = 0 THEN 0 ELSE n - 1]
    BY <2>1, <2>2
  <2> QED
    BY <2>3 DEF n
<1> HIDE DEF m
<1>4. /\ messages' \in [Sessions \X Exchangers -> Nat]
      /\ \A q \in Sessions, x \in Exchangers : messages'[<<q, x>>] > 0 => messages[<<q, x>>] > 0
  BY <1>2, <1>3, FewerMessages DEF Inv
<1>5. CallsOK' /\ calls' \in [Calls -> CallRecords]
  BY <1>1 DEF Inv, ConsentInv, ConsentShape, CallsOK, CallOK, Consented
<1> QED
  BY <1>1, <1>4, <1>5, MessagesChange DEF Inv

\* Terms may be changed, never removed.
LEMMA SetTermsStep ==
  ASSUME Inv, NEW x \in Exchangers, NEW text \in Texts, SetExchangerTerms(x, text)
  PROVE  ConsentInv'
<1>1. UNCHANGED <<accepted, messages, calls, owner, gated, posted>>
  BY DEF SetExchangerTerms, ticketVars
<1>2. /\ terms' \in [Exchangers -> Texts \cup {NoText}]
      /\ \A e \in Exchangers : terms[e] \in Texts => terms'[e] \in Texts
  BY DEF SetExchangerTerms, Inv, ConsentInv, ConsentShape
<1>3. ConsentShape' /\ ConsentBeforeClaim'
  BY <1>1, <1>2 DEF Inv, ConsentInv, ConsentShape, ConsentBeforeClaim
<1>4. CallsOK'
  BY <1>1, <1>2 DEF Inv, ConsentInv, CallsOK, CallOK, Consented
<1>5. MessagesOK'
  BY <1>1, <1>2 DEF Inv, ConsentInv, MessagesOK
<1>6. GatesOK'
  BY <1>1, <1>2 DEF Inv, ConsentInv, ConsentShape, GatesOK
<1> QED
  BY <1>3, <1>4, <1>5, <1>6 DEF ConsentInv

\* The owner is the exchanger of the handler, who passed the gate.
LEMMA ClaimTradeStep ==
  ASSUME Inv, NEW k \in Calls, ClaimTrade(k)
  PROVE  ConsentInv'
<1> DEFINE s == calls[k].session
           e == calls[k].exch
<1>1. /\ calls[k].at = "claim" /\ UNCHANGED <<terms, accepted, messages, gated, posted>>
      /\ EndCall(k) /\ owner' = [owner EXCEPT ![s] = e]
  BY DEF ClaimTrade
<1>2. e \in Exchangers /\ s \in posted /\ s \in Sessions /\ (e \in gated[s] => Consented(e))
  BY <1>1 DEF Inv, TicketInv, TicketShape, ConsentInv, CallsOK, CallOK
<1>3. CallsOK' /\ calls' \in [Calls -> CallRecords]
  BY <1>1, CallEnds DEF Inv
<1>4. /\ owner' \in [Sessions -> Exchangers \cup {NoExchanger}]
      /\ owner'[s] = e /\ \A q \in Sessions \ {s} : owner'[q] = owner[q]
  BY <1>1, <1>2 DEF Inv, ConsentInv, ConsentShape
<1>5. ConsentShape' /\ MessagesOK'
  BY <1>1, <1>3, <1>4 DEF Inv, ConsentInv, ConsentShape, MessagesOK
<1>6. GatesOK'
  BY <1>1, <1>2, <1>4 DEF Inv, ConsentInv, GatesOK
<1>7. ConsentBeforeClaim'
  BY <1>1, <1>2, <1>4 DEF Inv, ConsentInv, ConsentBeforeClaim, Consented
<1> QED
  BY <1>3, <1>5, <1>6, <1>7 DEF ConsentInv

\* The panel posts more tickets, and creates no trade for one that is posted.
LEMMA TicketEffect ==
  ASSUME TicketInv, TicketNext \/ TicketsRestart
  PROVE  /\ posted \subseteq posted'
         /\ \A s \in posted : created'[s] = created[s]
<1>1. CASE SetNext /\ UNCHANGED ticketVars
  BY <1>1 DEF ticketVars
<1>2. CASE WindowEnds \/ TicketsRestart
  BY <1>2 DEF WindowEnds, TicketsRestart
<1>3. ASSUME NEW s \in Sessions,
             \/ \E x \in Menu(chosen[s]) : Select(s, x)
             \/ SubmitForm(s) \/ MakeOffer(s) \/ FormRefused(s) \/ OfferExpires(s) \/ ExpireTrade(s)
             \/ \E c \in Clicks : Consume(c, s)
      PROVE  UNCHANGED <<posted, created>>
  BY <1>3 DEF Select, SubmitForm, MakeOffer, FormRefused, OfferExpires, ExpireTrade, Consume
<1>4. ASSUME NEW c \in Clicks,
             OpenTicketChannel(c) \/ LogTrade(c) \/ DeleteChannel(c) \/ ClickFails(c)
      PROVE  UNCHANGED <<posted, created>>
  BY <1>4 DEF OpenTicketChannel, LogTrade, DeleteChannel, ClickFails
<1>5. ASSUME NEW c \in Clicks, PostTicketMessage(c)
      PROVE  posted \subseteq posted' /\ UNCHANGED created
  BY <1>5 DEF PostTicketMessage
<1>6. ASSUME NEW c \in Clicks, InsertTrade(c)
      PROVE  UNCHANGED posted /\ \A s \in posted : created'[s] = created[s]
  <2>1. clicks[c].at = "trade" /\ UNCHANGED posted
        /\ created' = [created EXCEPT ![clicks[c].session] = created[clicks[c].session] + 1]
    BY <1>6 DEF InsertTrade
  <2>2. clicks[c].session \notin posted
    BY <2>1, ClickFacts
  <2> QED
    BY <2>1, <2>2 DEF TicketInv, TicketShape
<1> QED
  BY <1>1, <1>2, <1>3, <1>4, <1>5, <1>6 DEF TicketNext

\* Where a trade exists, who had terms when it was created stays as it was.
LEMMA TicketsOpen ==
  ASSUME Inv, TicketStep
  PROVE  ConsentInv'
<1> DEFINE now == {e \in Exchangers : terms[e] # NoText}
<1>1. UNCHANGED <<terms, accepted, messages, calls, owner>>
  BY DEF TicketStep
<1>2. gated' = [s \in Sessions |-> IF created'[s] > created[s] THEN now ELSE gated[s]]
  BY DEF TicketStep
<1>3. posted \subseteq posted' /\ \A s \in posted : created'[s] = created[s]
  BY TicketEffect DEF TicketStep, Inv
<1>4. \A s \in Sessions : created[s] \in Nat
  BY DEF Inv, TicketInv, TicketShape
<1>5. \A s \in Sessions : s \in posted => gated'[s] = gated[s]
  BY <1>2, <1>3, <1>4
<1>6. \A s \in Sessions : gated'[s] = now \/ gated'[s] = gated[s]
  BY <1>2
<1>7. \A e \in now : terms[e] \in Texts
  BY DEF Inv, ConsentInv, ConsentShape
<1>8. gated' \in [Sessions -> SUBSET Exchangers]
  BY <1>2 DEF Inv, ConsentInv, ConsentShape
<1> HIDE DEF now
<1>9. ConsentShape'
  BY <1>1, <1>8 DEF Inv, ConsentInv, ConsentShape
<1>10. CallsOK'
  BY <1>1, <1>3, <1>5 DEF Inv, TicketInv, TicketShape, ConsentInv, CallsOK, CallOK, Consented
<1>11. MessagesOK' /\ GatesOK'
  BY <1>1, <1>3, <1>6, <1>7 DEF Inv, ConsentInv, MessagesOK, GatesOK
<1>12. ConsentBeforeClaim'
  <2> SUFFICES ASSUME NEW s \in Sessions, owner[s] \in gated'[s]
               PROVE  \E text \in Texts : <<owner[s], text>> \in accepted
    BY <1>1 DEF ConsentBeforeClaim
  <2>1. owner[s] \in Exchangers
    BY <1>8
  <2>2. s \in posted
    BY <2>1, ConsentOK DEF Inv, ConsentInv, GatesOK
  <2> QED
    BY <1>5, <2>2 DEF Inv, ConsentInv, ConsentBeforeClaim
<1> QED
  BY <1>9, <1>10, <1>11, <1>12 DEF ConsentInv

LEMMA RestartKeepsConsent ==
  ASSUME Inv, Restart
  PROVE  ConsentInv'
<1>1. /\ UNCHANGED <<terms, accepted, messages, owner, gated, posted>>
      /\ calls' = [k \in Calls |-> NoCall]
  BY DEF Restart, TicketsRestart
<1>2. NoCall \in CallRecords /\ NoCall.at = "idle"
  BY DEF NoCall, CallRecords, Stages
<1>3. calls' \in [Calls -> CallRecords] /\ CallsOK'
  BY <1>1, <1>2 DEF CallsOK, CallOK
<1> QED
  BY <1>1, <1>3, OthersStay DEF Inv, ConsentInv, ConsentShape

LEMMA ConsentUnchanged == ASSUME Inv, UNCHANGED vars PROVE Inv'
<1>1. UNCHANGED ticketCore /\ UNCHANGED consentVars /\ UNCHANGED posted
  BY DEF vars, ticketVars, ticketCore
<1>2. TicketInv'
  BY <1>1, TicketCoreUnchanged DEF Inv
<1>3. ConsentInv'
  BY <1>1 DEF consentVars, Inv, ConsentInv, ConsentShape, CallsOK, CallOK, MessagesOK, GatesOK,
              ConsentBeforeClaim, Consented
<1> QED
  BY <1>2, <1>3 DEF Inv

LEMMA InvInit == Init => Inv
<1> SUFFICES ASSUME Init PROVE Inv
  OBVIOUS
<1>1. NoCall \in CallRecords /\ NoCall.at = "idle"
  BY DEF NoCall, CallRecords, Stages
<1>2. \A k \in Calls : calls[k] = NoCall
  BY DEF Init
<1>3. ConsentShape /\ CallsOK
  BY <1>1, <1>2 DEF Init, ConsentShape, CallsOK, CallOK
<1>4. \A x \in Sessions \X Exchangers : messages[x] = 0
  BY DEF Init
<1>5. MessagesOK
  BY <1>4 DEF MessagesOK
<1>6. GatesOK /\ ConsentBeforeClaim
  BY DEF Init, GatesOK, ConsentBeforeClaim
<1> QED
  BY <1>3, <1>5, <1>6, InitTickets DEF Init, Inv, ConsentInv

LEMMA InvNext == ASSUME Inv, Next PROVE Inv'
<1>1. TicketInv'
  <2>1. CASE TicketStep \/ Restart
    BY <2>1, TicketStepKeeps DEF TicketStep, Restart, Inv
  <2>2. ASSUME NEW k \in Calls, ClaimTrade(k) PROVE UNCHANGED ticketCore
    BY <2>2 DEF ClaimTrade, ticketCore
  <2>3. ASSUME NEW k \in Calls, CallStep(k) PROVE UNCHANGED ticketCore
    BY <2>2, <2>3 DEF CallStep, CheckTerms, LookUpAcceptance, ShowTerms, ReadAcceptedTerms,
                      RecordAcceptance, RemoveButtons, CallFails, ticketVars, ticketCore
  <2>4. ASSUME NEW k \in Calls, NEW e \in Exchangers, NEW s \in Sessions,
               BeginClaim(k, e, s) \/ BeginAccept(k, e, s)
        PROVE  UNCHANGED ticketCore
    BY <2>4 DEF BeginClaim, BeginAccept, ticketVars, ticketCore
  <2>5. ASSUME NEW e \in Exchangers,
               \/ \E text \in Texts : SetExchangerTerms(e, text)
               \/ \E s \in Sessions : Decline(e, s)
        PROVE  UNCHANGED ticketCore
    BY <2>5 DEF SetExchangerTerms, Decline, ticketVars, ticketCore
  <2> QED
    BY <2>1, <2>3, <2>4, <2>5, TicketCoreUnchanged DEF Next, Inv
<1>2. ConsentInv'
  <2>1. ASSUME NEW k \in Calls, CallStep(k) PROVE ConsentInv'
    BY <2>1, CheckTermsStep, LookUpStep, ShowTermsStep, ReadAcceptedStep, RecordStep,
       RemoveButtonsStep, ClaimTradeStep, CallFailsStep DEF CallStep, Inv
  <2> QED
    BY <2>1, TicketsOpen, RestartKeepsConsent, SetTermsStep, DeclineStep, BeginClaimStep,
       BeginAcceptStep DEF Next, Inv
<1> QED
  BY <1>1, <1>2 DEF Inv

THEOREM InvHolds == Spec => []Inv
<1>1. Init => Inv
  BY InvInit
<1>2. Inv /\ [Next]_vars => Inv'
  BY InvNext, ConsentUnchanged
<1> QED
  BY <1>1, <1>2, PTL DEF Spec

\* An offer opens one channel and creates one trade, however often, however fast
\* and across however many restarts Confirm is clicked (handleTradeConfirm).
THEOREM OneTrade == Spec => []OneTradePerOffer
<1>1. Inv => OneTradePerOffer
  BY DEF Inv, TicketInv
<1> QED
  BY <1>1, InvHolds, PTL

\* The gate of handleClaim: an exchanger with terms gets the trade only if the buyer
\* has accepted a text of his.
THEOREM ConsentFirst == Spec => []ConsentBeforeClaim
<1>1. Inv => ConsentBeforeClaim
  BY DEF Inv, ConsentInv
<1> QED
  BY <1>1, InvHolds, PTL

-----------------------------------------------------------------------------
(* Types, and the menus of the panel                                        *)

\* What a query under way has read or written, if there is one.
Values == {{}, {TRUE}, {FALSE}}

LEMMA ValuesAre == Nothing \in Values /\ (\A b \in BOOLEAN : {b} \in Values)
BY DEF Values, Nothing

LEMMA HasTrue == \A S : (TRUE \in S) \in BOOLEAN
OBVIOUS

LEMMA ValueSet ==
  ASSUME NEW S, NEW f \in [S -> Values], NEW x, NEW b \in Values
  PROVE  [f EXCEPT ![x] = b] \in [S -> Values]
OBVIOUS

LEMMA SettingsStep ==
  ASSUME SetTypeOK, SetNext \/ SettingsRestart \/ UNCHANGED setVars PROVE SetTypeOK'
<1>1. /\ stored \in BOOLEAN /\ cached \in BOOLEAN /\ fresh \in BOOLEAN
      /\ loads \in [Loads -> Values] /\ writes \in [Writers -> Values] /\ updates \in 0..MaxUpdates
  BY DEF SetTypeOK, Values
<1>2. ASSUME stored' \in BOOLEAN, cached' \in BOOLEAN, fresh' \in BOOLEAN,
             loads' \in [Loads -> Values], writes' \in [Writers -> Values], updates' \in 0..MaxUpdates
      PROVE  SetTypeOK'
  BY <1>2 DEF SetTypeOK, Values
<1>3. ASSUME NEW l \in Loads, StartLoad(l) \/ FinishLoad(l) \/ LoadFails(l) PROVE SetTypeOK'
  <2>1. /\ cached' = cached \/ cached' = (TRUE \in loads[l])
        /\ fresh' = fresh \/ fresh' = TRUE
        /\ loads' = [loads EXCEPT ![l] = {stored}] \/ loads' = [loads EXCEPT ![l] = Nothing]
    BY <1>3 DEF StartLoad, FinishLoad, LoadFails
  <2>2. cached' \in BOOLEAN /\ fresh' \in BOOLEAN
    BY <1>1, <2>1, HasTrue, Zenon
  <2>4. {stored} \in Values /\ Nothing \in Values
    BY <1>1, ValuesAre, Zenon
  <2>5. loads' \in [Loads -> Values]
    BY <1>1, <2>1, <2>4, ValueSet, Zenon
  <2>3. UNCHANGED <<stored, writes, updates>>
    BY <1>3 DEF StartLoad, FinishLoad, LoadFails
  <2> QED
    BY <1>1, <1>2, <2>2, <2>3, <2>5
<1>4. ASSUME NEW w \in Writers, NEW value \in BOOLEAN, SetSetting(w, value) PROVE SetTypeOK'
  <2>1. writes' \in [Writers -> Values] /\ stored' \in BOOLEAN
    BY <1>1, <1>4, ValuesAre, ValueSet DEF SetSetting
  <2>2. updates' \in 0..MaxUpdates /\ UNCHANGED <<cached, fresh, loads>>
    BY <1>1, <1>4, SettingsOK DEF SetSetting
  <2> QED
    BY <1>1, <1>2, <2>1, <2>2
<1>5. ASSUME NEW w \in Writers, UpdateCache(w) \/ UpdateUnanswered(w) PROVE SetTypeOK'
  <2>1. cached' \in BOOLEAN
    <3>1. cached' = cached \/ cached' = (TRUE \in writes[w])
      BY <1>5 DEF UpdateCache, UpdateUnanswered
    <3> QED
      BY <1>1, <3>1, HasTrue, Zenon
  <2>2. writes' \in [Writers -> Values]
    <3>1. writes' = [writes EXCEPT ![w] = Nothing] /\ Nothing \in Values
      BY <1>5, ValuesAre DEF UpdateCache, UpdateUnanswered
    <3> QED
      BY <1>1, <3>1, ValueSet
  <2>3. UNCHANGED <<stored, fresh, loads, updates>>
    BY <1>5 DEF UpdateCache, UpdateUnanswered
  <2> QED
    BY <1>1, <1>2, <2>1, <2>2, <2>3
<1>6. CASE CacheExpires
  BY <1>1, <1>2, <1>6 DEF CacheExpires
<1>7. CASE SettingsRestart
  <2>1. loads' \in [Loads -> Values] /\ writes' \in [Writers -> Values]
    BY <1>7, ValuesAre DEF SettingsRestart
  <2>2. cached' = FALSE /\ fresh' = FALSE /\ UNCHANGED <<stored, updates>>
    BY <1>7 DEF SettingsRestart
  <2> QED
    BY <1>1, <1>2, <2>1, <2>2
<1>8. CASE UNCHANGED setVars
  BY <1>1, <1>2, <1>8 DEF setVars
<1> QED
  BY <1>3, <1>4, <1>5, <1>6, <1>7, <1>8 DEF SetNext

\* A path through the menus: a direction, then a choice of each menu of it in turn,
\* and nothing twice.
Choices == Directions \cup Cryptos \cup Methods
Path(q) == /\ q \in Seq(Choices)
           /\ q # <<>> => /\ q[1] \in Directions
                          /\ Len(q) <= Len(Menus[q[1]]) + 1
                          /\ \A k \in 2..Len(q) : q[k] \in Menus[q[1]][k - 1]
                          /\ \A j, k \in 1..Len(q) : j # k => q[j] # q[k]

LEMMA MenusAre ==
  /\ DOMAIN Menus = Directions
  /\ Menus["BUY"] = <<Cryptos, Methods>> /\ Menus["SELL"] = <<Cryptos, Methods>>
  /\ Menus["SWAP"] = <<Cryptos, Cryptos>> /\ Menus["FIAT_TO_FIAT"] = <<Methods, Methods, Cryptos>>
BY DEF Menus, Directions

\* What is selected goes on with the path.
LEMMA SelectGoesOn ==
  ASSUME NEW q, Path(q), NEW x \in Menu(q) PROVE Path(Append(q, x))
<1>1. CASE q = <<>>
  <2>1. x \in Directions /\ Append(q, x) = <<x>>
    BY <1>1 DEF Menu, Options
  <2>2. Len(Menus[x]) \in Nat
    BY <2>1, MenusAre DEF Directions
  <2> QED
    BY <2>1, <2>2 DEF Path, Choices
<1>2. CASE q # <<>>
  <2> DEFINE n == Len(q)
             r == Append(q, x)
  <2>1. /\ q \in Seq(Choices) /\ n \in Nat /\ n > 0 /\ q[1] \in Directions
        /\ n <= Len(Menus[q[1]])
        /\ x \in Menus[q[1]][n] /\ x \notin {q[k] : k \in DOMAIN q}
    BY <1>2, MenusAre DEF Path, Menu, Options, Complete, Directions
  <2>2. x \in Choices
    BY <2>1, MenusAre DEF Directions, Choices
  <2>3. /\ r \in Seq(Choices) /\ Len(r) = n + 1 /\ r[n + 1] = x /\ r # <<>>
        /\ \A k \in 1..n : r[k] = q[k]
    BY <2>1, <2>2, AppendProperties
  <2>4. Len(Menus[q[1]]) \in Nat
    BY <2>1, MenusAre DEF Directions
  <2>5. \A k \in 2..n : q[k] \in Menus[q[1]][k - 1]
    BY <1>2 DEF Path
  <2>6. \A j, k \in 1..n : j # k => q[j] # q[k]
    BY <1>2 DEF Path
  <2>7. \A k \in 1..n : q[k] # x
    BY <2>1
  <2> HIDE DEF r
  <2>8. \A k \in 2..Len(r) : r[k] \in Menus[r[1]][k - 1]
    BY <2>1, <2>3, <2>5
  <2>9. \A j, k \in 1..Len(r) : j # k => r[j] # r[k]
    BY <2>1, <2>3, <2>6, <2>7
  <2>10. Path(r)
    BY <2>1, <2>3, <2>4, <2>8, <2>9 DEF Path
  <2> QED
    BY <2>10 DEF r
<1> QED
  BY <1>1, <1>2

\* The form at the end of the menus is one that handleTradeModal accepts.
LEMMA PathIsValid ==
  ASSUME NEW q, Path(q), Complete(q) PROVE Valid(q)
<1>1. /\ q # <<>> /\ q[1] \in Directions /\ Len(q) = Len(Menus[q[1]]) + 1
      /\ \A k \in 2..Len(q) : q[k] \in Menus[q[1]][k - 1]
      /\ \A j, k \in 1..Len(q) : j # k => q[j] # q[k]
  <2>1. Len(q) \in Nat /\ (q # <<>> => Len(Menus[q[1]]) \in Nat)
    BY MenusAre DEF Path, Directions
  <2> QED
    BY <2>1 DEF Path, Complete
<1>2. CASE q[1] \in {"BUY", "SELL"}
  <2>1. Menus[q[1]] = <<Cryptos, Methods>>
    BY <1>2, MenusAre
  <2>2. q[2] \in Cryptos /\ q[3] \in Methods
    BY <1>1, <2>1
  <2> QED
    BY <1>2, <2>2 DEF Valid
<1>3. CASE q[1] = "SWAP"
  <2>1. q[2] \in Cryptos /\ q[3] \in Cryptos /\ q[2] # q[3]
    BY <1>1, <1>3, MenusAre
  <2> QED
    BY <1>3, <2>1 DEF Valid
<1>4. CASE q[1] = "FIAT_TO_FIAT"
  <2>1. Len(q) = 4 /\ q[2] \in Methods /\ q[3] \in Methods /\ q[4] \in Cryptos /\ q[2] # q[3]
    BY <1>1, <1>4, MenusAre
  <2> QED
    BY <1>4, <2>1 DEF Valid
<1> QED
  BY <1>1, <1>2, <1>3, <1>4 DEF Directions

\* With Inv, what type correctness rests on.
RestOK == /\ SetTypeOK
          /\ DOMAIN chosen = Sessions /\ chosen = [s \in Sessions |-> chosen[s]]
          /\ \A s \in Sessions : Path(chosen[s])
          /\ used \in 0..Limit
          /\ trade \in [Sessions -> {"none", "OPEN", "FIAT_PENDING", "EXPIRED"}]
          /\ messages \in [Sessions \X Exchangers -> 0..MaxMessages]

restVars == <<chosen, used, trade>>

LEMMA TicketRest ==
  ASSUME Inv, RestOK, TicketNext \/ TicketsRestart, UNCHANGED messages PROVE RestOK'
<1>1. CASE SetNext /\ UNCHANGED ticketVars
  BY <1>1, SettingsStep DEF RestOK, ticketVars
<1>2. CASE WindowEnds
  BY <1>2, SettingsStep, TicketsOK DEF RestOK, WindowEnds
<1>3. ASSUME NEW s \in Sessions, NEW x \in Menu(chosen[s]), Select(s, x) PROVE RestOK'
  <2>1. /\ chosen' = [chosen EXCEPT ![s] = Append(chosen[s], x)]
        /\ UNCHANGED <<setVars, used, trade>>
    BY <1>3 DEF Select
  <2>2. Path(Append(chosen[s], x))
    BY <1>3, SelectGoesOn DEF RestOK
  <2>3. /\ \A q \in Sessions : chosen'[q] = IF q = s THEN Append(chosen[s], x) ELSE chosen[q]
        /\ DOMAIN chosen' = Sessions /\ chosen' = [q \in Sessions |-> chosen'[q]]
    BY <2>1 DEF RestOK
  <2>4. \A q \in Sessions : Path(chosen'[q])
    BY <2>2, <2>3 DEF RestOK
  <2>5. \A q \in Sessions : Path(chosen[q])'
    BY <2>4 DEF Path
  <2> QED
    BY <2>1, <2>3, <2>5, SettingsStep DEF RestOK
<1>4. ASSUME NEW s \in Sessions, MakeOffer(s) PROVE RestOK'
  <2>1. chosen' = [chosen EXCEPT ![s] = <<>>] /\ UNCHANGED <<setVars, used, trade>>
    BY <1>4 DEF MakeOffer
  <2>2. /\ \A q \in Sessions : chosen'[q] = IF q = s THEN <<>> ELSE chosen[q]
        /\ DOMAIN chosen' = Sessions /\ chosen' = [q \in Sessions |-> chosen'[q]]
    BY <2>1 DEF RestOK
  <2>3. Path(<<>>)
    BY DEF Path
  <2>4. \A q \in Sessions : Path(chosen'[q])
    BY <2>2, <2>3 DEF RestOK
  <2>5. \A q \in Sessions : Path(chosen[q])'
    BY <2>4 DEF Path
  <2> QED
    BY <2>1, <2>2, <2>5, SettingsStep DEF RestOK
<1>5. ASSUME NEW s \in Sessions, SubmitForm(s) PROVE RestOK'
  <2>1. used' \in 0..Limit /\ UNCHANGED <<setVars, chosen, trade>>
    BY <1>5, TicketsOK DEF SubmitForm, RestOK
  <2> QED
    BY <2>1, SettingsStep DEF RestOK, Path
<1>6. ASSUME UNCHANGED <<setVars, chosen, used>>,
             \/ UNCHANGED trade
             \/ \E s \in Sessions, to \in {"OPEN", "EXPIRED"} : trade' = [trade EXCEPT ![s] = to]
      PROVE  RestOK'
  <2>1. trade' \in [Sessions -> {"none", "OPEN", "FIAT_PENDING", "EXPIRED"}]
    BY <1>6 DEF RestOK
  <2> QED
    BY <1>6, <2>1, SettingsStep DEF RestOK, Path
<1>7. ASSUME NEW s \in Sessions, \/ FormRefused(s) \/ OfferExpires(s) \/ ExpireTrade(s)
                                 \/ \E c \in Clicks : Consume(c, s)
      PROVE  RestOK'
  BY <1>6, <1>7 DEF FormRefused, OfferExpires, ExpireTrade, Consume
<1>8. ASSUME NEW c \in Clicks, \/ OpenTicketChannel(c) \/ LogTrade(c) \/ DeleteChannel(c)
                               \/ PostTicketMessage(c) \/ ClickFails(c)
      PROVE  RestOK'
  BY <1>6, <1>8 DEF OpenTicketChannel, LogTrade, DeleteChannel, PostTicketMessage, ClickFails
<1>9. ASSUME NEW c \in Clicks, InsertTrade(c) PROVE RestOK'
  <2>1. clicks[c].session \in Sessions
    BY <1>9, ClickFacts DEF InsertTrade, Inv
  <2> QED
    BY <1>6, <1>9, <2>1 DEF InsertTrade
<1>10. CASE TicketsRestart
  <2>1. SettingsRestart /\ used' = 0 /\ UNCHANGED <<chosen, trade>>
    BY <1>10 DEF TicketsRestart
  <2> QED
    BY <2>1, SettingsStep, TicketsOK DEF RestOK, Path
<1> QED
  BY <1>1, <1>2, <1>3, <1>4, <1>5, <1>7, <1>8, <1>9, <1>10 DEF TicketNext

\* The handlers of Consent: at most a trade is claimed, or messages come and go.
LEMMA ConsentRest ==
  ASSUME Inv, RestOK, UNCHANGED <<setVars, chosen, used>>,
         trade' \in [Sessions -> {"none", "OPEN", "FIAT_PENDING", "EXPIRED"}],
         messages' \in [Sessions \X Exchangers -> 0..MaxMessages]
  PROVE  RestOK'
BY SettingsStep DEF RestOK, Path

LEMMA MessagesRest ==
  ASSUME Inv, RestOK, UNCHANGED <<setVars, chosen, used, trade>>, NEW m \in Sessions \X Exchangers,
         NEW n \in 0..MaxMessages, messages' = [messages EXCEPT ![m] = n]
  PROVE  RestOK'
BY ConsentRest DEF RestOK

LEMMA CallRest ==
  ASSUME Inv, RestOK, NEW k \in Calls, CallStep(k) PROVE RestOK'
<1> DEFINE m == <<calls[k].session, calls[k].exch>>
<1>1. calls[k].at # "idle" => m \in Sessions \X Exchangers /\ messages[m] \in 0..MaxMessages
  BY DEF Inv, ConsentInv, CallsOK, CallOK, RestOK, TicketInv, TicketShape
<1>2. CASE ShowTerms(k)
  <2>1. calls[k].at = "show" /\ UNCHANGED <<setVars, chosen, used, trade>>
    BY <1>2 DEF ShowTerms, ticketVars
  <2>2. CASE UNCHANGED messages
    BY <2>1, <2>2, ConsentRest DEF RestOK
  <2>3. CASE messages[m] < MaxMessages /\ messages' = [messages EXCEPT ![m] = messages[m] + 1]
    <3>1. messages[m] + 1 \in 0..MaxMessages
      BY <1>1, <2>1, <2>3, ConsentOK
    <3> HIDE DEF m
    <3> QED
      BY <1>1, <2>1, <2>3, <3>1, MessagesRest
  <2> QED
    BY <1>2, <2>2, <2>3 DEF ShowTerms, OnTicket
<1>3. CASE RemoveButtons(k)
  <2>1. calls[k].at = "remove" /\ UNCHANGED <<setVars, chosen, used, trade>>
    BY <1>3 DEF RemoveButtons, ticketVars
  <2>2. CASE UNCHANGED messages
    BY <2>1, <2>2, ConsentRest DEF RestOK
  <2>3. CASE messages' = [messages EXCEPT ![m] = IF messages[m] = 0 THEN 0 ELSE messages[m] - 1]
    <3>1. (IF messages[m] = 0 THEN 0 ELSE messages[m] - 1) \in 0..MaxMessages
      BY <1>1, <2>1, ConsentOK
    <3> HIDE DEF m
    <3> QED
      BY <1>1, <2>1, <2>3, <3>1, MessagesRest
  <2> QED
    BY <1>3, <2>2, <2>3 DEF RemoveButtons, OnTicket
<1>4. CASE ClaimTrade(k)
  <2>1. trade' \in [Sessions -> {"none", "OPEN", "FIAT_PENDING", "EXPIRED"}]
    BY <1>4 DEF ClaimTrade, RestOK
  <2> QED
    BY <1>4, <2>1, ConsentRest DEF ClaimTrade, RestOK
<1>5. CASE \/ CheckTerms(k) \/ LookUpAcceptance(k) \/ ReadAcceptedTerms(k) \/ RecordAcceptance(k)
           \/ CallFails(k)
  <2>1. UNCHANGED <<setVars, chosen, used, trade, messages>>
    BY <1>5 DEF CheckTerms, LookUpAcceptance, ReadAcceptedTerms, RecordAcceptance, CallFails, ticketVars
  <2> QED
    BY <2>1, ConsentRest DEF RestOK
<1> QED
  BY <1>2, <1>3, <1>4, <1>5 DEF CallStep

LEMMA RestNext == ASSUME Inv, RestOK, [Next]_vars PROVE RestOK'
<1>1. CASE TicketStep \/ Restart
  BY <1>1, TicketRest DEF TicketStep, Restart
<1>2. ASSUME NEW e \in Exchangers, NEW s \in Sessions, Decline(e, s) PROVE RestOK'
  <2> DEFINE m == <<s, e>>
  <2>1. /\ messages[m] > 0 /\ messages' = [messages EXCEPT ![m] = messages[m] - 1]
        /\ UNCHANGED <<setVars, chosen, used, trade>>
    BY <1>2 DEF Decline, ticketVars
  <2>2. m \in Sessions \X Exchangers /\ messages[m] - 1 \in 0..MaxMessages
    BY <2>1, ConsentOK DEF RestOK
  <2> HIDE DEF m
  <2> QED
    BY <2>1, <2>2, MessagesRest
<1>3. ASSUME NEW e \in Exchangers, NEW text \in Texts, SetExchangerTerms(e, text) PROVE RestOK'
  <2>1. UNCHANGED <<setVars, chosen, used, trade, messages>>
    BY <1>3 DEF SetExchangerTerms, ticketVars
  <2> QED
    BY <2>1, ConsentRest DEF RestOK
<1>4. ASSUME NEW k \in Calls, NEW e \in Exchangers, NEW s \in Sessions,
             BeginClaim(k, e, s) \/ BeginAccept(k, e, s)
      PROVE  RestOK'
  <2>1. UNCHANGED <<setVars, chosen, used, trade, messages>>
    BY <1>4 DEF BeginClaim, BeginAccept, ticketVars
  <2> QED
    BY <2>1, ConsentRest DEF RestOK
<1>5. CASE UNCHANGED vars
  <2>1. UNCHANGED <<setVars, chosen, used, trade, messages>>
    BY <1>5 DEF vars, ticketVars, consentVars
  <2> QED
    BY <2>1, ConsentRest DEF RestOK
<1> QED
  BY <1>1, <1>2, <1>3, <1>4, <1>5, CallRest DEF Next

LEMMA RestInit == Init => RestOK
<1> SUFFICES ASSUME Init PROVE RestOK
  OBVIOUS
<1>1. SetTypeOK
  <2>1. loads \in [Loads -> Values] /\ writes \in [Writers -> Values]
    BY ValuesAre DEF Init, TicketInit, SetInit
  <2>2. stored \in BOOLEAN /\ cached = FALSE /\ fresh = FALSE /\ updates = 0
    BY DEF Init, TicketInit, SetInit
  <2>3. updates \in 0..MaxUpdates
    BY <2>2, SettingsOK
  <2> QED
    BY <2>1, <2>2, <2>3 DEF SetTypeOK, Values
<1>2. Path(<<>>)
  BY DEF Path
<1>3. chosen = [s \in Sessions |-> <<>>]
  BY DEF Init, TicketInit
<1> QED
  BY <1>1, <1>2, <1>3, TicketsOK, ConsentOK DEF Init, TicketInit, RestOK

\* Every path through the panel's menus leads to a form that the validation of the
\* form accepts, and everything stored has its type.
THEOREM ConsentTypeCorrect == Spec => []ConsentTypeOK
<1>1. Inv /\ RestOK => ConsentTypeOK
  <2> SUFFICES ASSUME Inv, RestOK PROVE ConsentTypeOK
    OBVIOUS
  <2>1. \A s \in Sessions : FormShown(s) => Valid(chosen[s])
    BY PathIsValid DEF FormShown, RestOK
  <2>2. TicketTypeOK
    BY <2>1 DEF TicketTypeOK, RestOK, Inv, TicketInv, TicketShape
  <2>3. ConsentShape
    BY DEF Inv, ConsentInv
  <2>4. messages \in [Sessions \X Exchangers -> 0..MaxMessages]
    BY DEF RestOK
  <2>5. \A k \in Calls : calls[k] \in [exch: Exchangers \cup {NoExchanger},
                                       session: Sessions \cup {NoSession}, text: Texts \cup {NoText},
                                       at: Stages]
    BY <2>3 DEF ConsentShape, CallRecords
  <2> QED
    BY <2>2, <2>3, <2>4, <2>5 DEF ConsentTypeOK, ConsentShape, Stages
<1>2. Inv /\ RestOK /\ [Next]_vars => RestOK'
  BY RestNext
<1> QED
  BY <1>1, <1>2, RestInit, InvHolds, PTL DEF Spec

=============================================================================
