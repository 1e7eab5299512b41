---------------------------- MODULE PeopleProofs ----------------------------
(***************************************************************************)
(* Proofs about the people at the edges of the shop: its visitors, who own *)
(* carts and orders by their session, the users with their address book and*)
(* their one-time codes, and the staff at the gateway desk.  The four share*)
(* no state: each part below is about one of them.                         *)
(***************************************************************************)
EXTENDS Visitors, AddressBook, Accounts, GatewayDesk, SequenceTheorems, WellFoundedInduction,
        TLAPS

(***************************************************************************)
(* The gateway desk: whatever the shop's configuration and whatever fails, *)
(* what a view or the proxy answers tells what the gateway did: what was   *)
(* refused was not done, but for an answer that came back as no JSON, a    *)
(* success was one, and no card data left a shop that did not opt in.      *)
(*                                                                         *)
(* The invariant follows a request through its stages: until it is sent    *)
(* nothing was done, and it is sent with card data only past one of the two*)
(* gates, Dispatch's for the card views and ProxyRefusal's.                *)
(***************************************************************************)

Fields == {"pc", "view", "caller", "op", "keys", "odd", "status", "effect", "answer", "code",
           "genuine"}
Outcome == {"success", "error", "garbled", "nothing", "odd"}
Calling == {"proxy", "card", "order", "invoice"}

\* A request has its fields, a running process and an operation of its view.
AskShape ==
    /\ ask.pc \in {"none", "new", "view", "sent", "heard", "answered"}
    /\ ask.pc # "none" => /\ DOMAIN ask = Fields /\ settings # Down
                          /\ ask.op \in Serves(ask.view)
Unsent == ask.pc \in {"new", "view", "sent"} => ask.effect = "none"
GatedView == ask.pc = "view" /\ ask.view = "card" => settings.cards
GatedCall ==
    ask.pc \in {"sent", "heard"} =>
        ask.view \in Calling /\ (OPERATIONS[ask.op].card_data => settings.cards)
\* What the gateway says it did it did, and what it states as an error it did not.
Heard == ask.pc = "heard" =>
    /\ ask.answer \in Outcome /\ ask.effect \in {"none", "done"}
    /\ ask.answer = "success" => ask.effect = "done"
    /\ ask.answer = "error" => ask.effect = "none"
DeskInv == AskShape /\ Unsent /\ GatedView /\ GatedCall /\ Heard /\ AnswerTellsEffect

-----------------------------------------------------------------------------
(* The stages.                                                             *)

\* The operations of the order and invoice views take no card data.
LEMMA OrdersTakeNoCards ==
    \A op \in {"qr_generate", "invoice_create", "invoice_status"} : ~OPERATIONS[op].card_data
BY DEF OPERATIONS, Operation

\* An answer before the request was sent: only its status matters.
LEMMA AnsweredUnsent ==
    ASSUME DeskInv, ask.pc \in {"new", "view"}, NEW status \in Nat, Answered(status),
           settings' = settings, status \notin {200, 201} \/ ask.view \notin Calling
    PROVE  DeskInv'
<1>1. /\ DOMAIN ask = Fields /\ settings # Down /\ ask.op \in Serves(ask.view)
      /\ ask.effect = "none"
  BY DEF DeskInv, AskShape, Unsent
<1>2. /\ DOMAIN ask' = Fields /\ ask'.pc = "answered" /\ ask'.status = status
      /\ ask'.view = ask.view /\ ask'.op = ask.op /\ ask'.effect = "none"
  BY <1>1 DEF Answered, Fields
<1>3. AskShape'
  BY <1>1, <1>2 DEF AskShape, Serves
<1>4. AnswerTellsEffect'
  BY <1>2 DEF AnswerTellsEffect, Reports, Calling
<1> QED BY <1>2, <1>3, <1>4 DEF DeskInv, Unsent, GatedView, GatedCall, Heard, Outcome

\* A request goes on to the gateway, past the gate of its view.
LEMMA ForwardInv ==
    ASSUME DeskInv, ask.pc = "view", ask.view \in Calling,
           NEW otherwise \in Nat \ {200, 201}, Forward(otherwise), settings' = settings,
           OPERATIONS[ask.op].card_data => settings.cards
    PROVE  DeskInv'
<1>1. CASE Configured(ask.op)
  <2>1. /\ DOMAIN ask = Fields /\ settings # Down /\ ask.op \in Serves(ask.view)
        /\ ask.effect = "none"
    BY DEF DeskInv, AskShape, Unsent
  <2>2. ask' = [ask EXCEPT !.pc = "sent", !.keys = {}]
    BY <1>1 DEF Forward
  <2>3. DOMAIN ask' = DOMAIN ask /\ ask'.pc = "sent"
    BY <2>1, <2>2 DEF Fields
  <2>4. ask'.view = ask.view /\ ask'.op = ask.op /\ ask'.effect = ask.effect
    BY <2>1, <2>2 DEF Fields
  <2>5. AskShape'
    BY <2>1, <2>3, <2>4 DEF AskShape, Serves
  <2> QED BY <2>1, <2>3, <2>4, <2>5 DEF DeskInv, Unsent, GatedView, GatedCall, Heard, Outcome,
          AnswerTellsEffect, Reports
<1>2. CASE ~Configured(ask.op)
  <2>1. Answered(otherwise)
    BY <1>2 DEF Forward
  <2> QED BY <2>1, AnsweredUnsent
<1> QED BY <1>1, <1>2

LEMMA ArriveInv ==
    ASSUME DeskInv, NEW view \in View, NEW caller, NEW op \in Serves(view),
           Arrive(view, caller, op)
    PROVE  DeskInv'
<1>1. PICK keys, odd :
          ask' = [pc |-> "new", view |-> view, caller |-> caller, op |-> op, keys |-> keys,
                  odd |-> odd, status |-> 0, effect |-> "none", answer |-> "none",
                  code |-> "", genuine |-> FALSE]
  BY DEF Arrive
<1>2. settings # Down /\ settings' = settings
  BY DEF Arrive
<1>3. /\ DOMAIN ask' = Fields /\ ask'.pc = "new" /\ ask'.view = view /\ ask'.op = op
      /\ ask'.effect = "none"
  BY <1>1 DEF Fields
<1>4. AskShape'
  BY <1>2, <1>3 DEF AskShape, Serves
<1> QED BY <1>3, <1>4 DEF DeskInv, Unsent, GatedView, GatedCall, Heard, Outcome,
        AnswerTellsEffect, Reports

LEMMA DispatchInv == ASSUME DeskInv, Dispatch PROVE DeskInv'
<1>1. ask.pc = "new" /\ settings' = settings
  BY DEF Dispatch
<1>2. CASE \E status \in {403, 404, 429, 500} : Answered(status)
  BY <1>1, <1>2, AnsweredUnsent
<1>3. CASE ask' = [ask EXCEPT !.pc = "view"] /\ (ask.view = "card" => settings.cards)
  <2>1. /\ DOMAIN ask = Fields /\ settings # Down /\ ask.op \in Serves(ask.view)
        /\ ask.effect = "none"
    BY <1>1 DEF DeskInv, AskShape, Unsent
  <2>2. /\ DOMAIN ask' = Fields /\ ask'.pc = "view" /\ ask'.view = ask.view
        /\ ask'.op = ask.op /\ ask'.effect = "none"
    BY <1>3, <2>1 DEF Fields
  <2>3. AskShape'
    BY <1>1, <2>1, <2>2 DEF AskShape, Serves
  <2> QED BY <1>1, <1>3, <2>2, <2>3 DEF DeskInv, Unsent, GatedView, GatedCall, Heard,
          Outcome, AnswerTellsEffect, Reports
<1> QED BY <1>2, <1>3 DEF Dispatch

LEMMA CallsInv ==
    ASSUME DeskInv, ProxyCall \/ CardCall \/ OrderCall \/ InvoiceStatusCall PROVE DeskInv'
<1>1. ASSUME NoOrder, ask.pc = "view", settings' = settings PROVE DeskInv'
  BY <1>1, AnsweredUnsent DEF NoOrder
<1>2. CASE ProxyCall
  <2>1. ask.pc = "view" /\ ask.view = "proxy" /\ settings' = settings
    BY <1>2 DEF ProxyCall, InView
  <2> DEFINE refusal == ProxyRefusal(ask.op, ask.keys)
  <2>2. refusal \in {0, 400, 403, 500}
    BY DEF ProxyRefusal
  <2>3. Answered(500) \/ IF refusal # 0 THEN Answered(refusal) ELSE Forward(503)
    BY <1>2 DEF ProxyCall
  <2>4. refusal = 0 => (OPERATIONS[ask.op].card_data => settings.cards)
    BY DEF ProxyRefusal, Enabled
  <2> HIDE DEF refusal
  <2> QED BY <2>1, <2>2, <2>3, <2>4, AnsweredUnsent, ForwardInv DEF Calling
<1>3. CASE CardCall
  <2>1. ask.pc = "view" /\ ask.view = "card" /\ settings' = settings
    BY <1>3 DEF CardCall, InView
  <2>2. settings.cards
    BY <2>1 DEF DeskInv, GatedView
  <2>3. Answered(500) \/ Answered(400) \/ NoOrder \/ Forward(502)
    BY <1>3 DEF CardCall
  <2> QED BY <1>1, <2>1, <2>2, <2>3, AnsweredUnsent, ForwardInv DEF Calling
<1>4. CASE OrderCall \/ InvoiceStatusCall
  <2>1. /\ ask.pc = "view" /\ ask.view \in {"order", "invoice"} /\ settings' = settings
        /\ Answered(500) \/ Answered(400) \/ NoOrder \/ Forward(502)
    BY <1>4 DEF OrderCall, InvoiceStatusCall, InView
  <2>2. ask.op \in {"qr_generate", "invoice_create", "invoice_status"}
    BY <2>1 DEF DeskInv, AskShape, Serves
  <2> QED BY <1>1, <2>1, <2>2, OrdersTakeNoCards, AnsweredUnsent, ForwardInv DEF Calling
<1> QED BY <1>2, <1>3, <1>4

LEMMA ExchangeInv == ASSUME DeskInv, Exchange PROVE DeskInv'
<1>1. PICK effect \in {"none", "done"}, answer \in Outcome :
          /\ answer = "success" => effect = "done"
          /\ answer = "error" => effect = "none"
          /\ ask' = [ask EXCEPT !.pc = "heard", !.effect = effect, !.answer = answer]
  BY DEF Exchange, Outcome
<1>2. ask.pc = "sent" /\ settings' = settings
  BY DEF Exchange
<1>3. DOMAIN ask = Fields /\ settings # Down /\ ask.op \in Serves(ask.view)
  BY <1>2 DEF DeskInv, AskShape
<1>4. /\ DOMAIN ask' = Fields /\ ask'.pc = "heard" /\ ask'.view = ask.view
      /\ ask'.op = ask.op /\ ask'.effect = effect /\ ask'.answer = answer
  BY <1>1, <1>3 DEF Fields
<1>5. AskShape'
  BY <1>2, <1>3, <1>4 DEF AskShape, Serves
<1> QED BY <1>1, <1>2, <1>4, <1>5 DEF DeskInv, Unsent, GatedView, GatedCall, Heard,
        Outcome, AnswerTellsEffect, Reports

\* How an answer of the gateway is reported: a success only when it acted, a
\* refusal only when it did not, but for what was garbled.
LEMMA ReplyStatus ==
    ASSUME DeskInv, Reply
    PROVE  \E status \in {200, 201, 400, 500, 502} :
              /\ Answered(status)
              /\ status \in {200, 201} => ask.effect = "done"
              /\ status = 400 => /\ ask.view # "proxy"
                                 /\ ask.effect = "done" => ask.answer = "garbled"
<1>1. /\ ask.answer \in Outcome /\ ask.effect \in {"none", "done"}
      /\ ask.answer = "success" => ask.effect = "done"
      /\ ask.answer = "error" => ask.effect = "none"
  BY DEF Reply, DeskInv, Heard
<1>2. \A answer \in Outcome :
          /\ StatusOf(answer) \in {200, 201, 400, 502}
          /\ StatusOf(answer) \in {200, 201} <=> answer = "success"
          /\ StatusOf(answer) = 400 => ask.view # "proxy" /\ answer # "nothing"
  BY DEF StatusOf, Outcome
<1> DEFINE said == IF ask.effect = "done" THEN "success" ELSE "error"
<1>3. \/ Answered(500)
      \/ ask.answer = "odd" /\ Answered(StatusOf(said))
      \/ ask.answer # "odd" /\ Answered(StatusOf(ask.answer))
  BY DEF Reply
<1>4. said \in Outcome /\ (said = "success" <=> ask.effect = "done")
  BY <1>1 DEF Outcome
<1> HIDE DEF said
<1>5. CASE Answered(500)
  BY <1>5
<1>6. CASE ask.answer = "odd" /\ Answered(StatusOf(said))
  <2>1. /\ StatusOf(said) \in {200, 201, 400, 502}
        /\ StatusOf(said) \in {200, 201} <=> ask.effect = "done"
        /\ StatusOf(said) = 400 => ask.view # "proxy"
    BY <1>2, <1>4
  <2>2. StatusOf(said) = 400 => ask.effect # "done"
    BY <2>1
  <2> QED
    BY <1>6, <2>1, <2>2
<1>7. CASE ask.answer # "odd" /\ Answered(StatusOf(ask.answer))
  <2>1. /\ StatusOf(ask.answer) \in {200, 201, 400, 502}
        /\ StatusOf(ask.answer) \in {200, 201} => ask.effect = "done"
        /\ StatusOf(ask.answer) = 400 => ask.view # "proxy" /\ ask.answer # "nothing"
    BY <1>1, <1>2
  <2>2. StatusOf(ask.answer) = 400 /\ ask.effect = "done" => ask.answer = "garbled"
    BY <1>1, <1>2, <1>7, <2>1 DEF Outcome
  <2> QED
    BY <1>7, <2>1, <2>2
<1> QED
  BY <1>3, <1>5, <1>6, <1>7

LEMMA ReplyInv == ASSUME DeskInv, Reply PROVE DeskInv'
<1>1. ask.pc = "heard" /\ settings' = settings
  BY DEF Reply
<1>2. /\ DOMAIN ask = Fields /\ settings # Down /\ ask.op \in Serves(ask.view)
      /\ ask.view \in Calling /\ (OPERATIONS[ask.op].card_data => settings.cards)
  BY <1>1 DEF DeskInv, AskShape, GatedCall
<1>3. PICK status \in {200, 201, 400, 500, 502} :
              /\ Answered(status)
              /\ status \in {200, 201} => ask.effect = "done"
              /\ status = 400 => /\ ask.view # "proxy"
                                 /\ ask.effect = "done" => ask.answer = "garbled"
  BY ReplyStatus
<1>4. /\ DOMAIN ask' = Fields /\ ask'.pc = "answered" /\ ask'.status = status
      /\ ask'.view = ask.view /\ ask'.op = ask.op /\ ask'.effect = ask.effect
      /\ ask'.answer = ask.answer
  BY <1>2, <1>3 DEF Answered, Fields
<1>5. AskShape'
  BY <1>1, <1>2, <1>4 DEF AskShape, Serves
<1>6. AnswerTellsEffect'
  BY <1>1, <1>2, <1>3, <1>4 DEF AnswerTellsEffect, Refused
<1> QED BY <1>4, <1>5, <1>6 DEF DeskInv, Unsent, GatedView, GatedCall, Heard, Outcome

LEMMA OtherViewsInv == ASSUME DeskInv, Header \/ Callback PROVE DeskInv'
<1>1. ask.pc = "view" /\ ask.view \in {"header", "callback"} /\ settings' = settings
  BY DEF Header, Callback
<1>2. CASE \E status \in {200, 400, 500, 503} : Answered(status)
  BY <1>1, <1>2, AnsweredUnsent DEF Calling
<1>3. CASE \E code, genuine : ask' = [ask EXCEPT !.pc = "answered", !.odd = FALSE,
                                                 !.status = 200, !.code = code, !.genuine = genuine]
  <2>1. DOMAIN ask = Fields /\ settings # Down /\ ask.op \in Serves(ask.view)
    BY <1>1 DEF DeskInv, AskShape
  <2>2. /\ DOMAIN ask' = Fields /\ ask'.pc = "answered" /\ ask'.view = ask.view
        /\ ask'.op = ask.op
    BY <1>3, <2>1 DEF Fields
  <2>3. AskShape'
    BY <1>1, <2>1, <2>2 DEF AskShape, Serves
  <2> QED BY <1>1, <2>2, <2>3 DEF DeskInv, Unsent, GatedView, GatedCall, Heard,
          Outcome, AnswerTellsEffect, Reports
<1>4. CASE Header
  <2>1. Answered(200) \/ Answered(503)
    BY <1>4 DEF Header
  <2> QED BY <1>2, <2>1
<1>5. CASE Callback
  <2>1. PICK data \in CallbackData : Answered(500) \/ Judge(data)
    BY <1>5 DEF Callback
  <2> DEFINE code == CallbackCode(data)
             genuine == Genuine(data) /\ ServiceMatches(data) /\ data.action # "malformed"
  <2>2. \/ Answered(400) \/ Answered(500)
        \/ ask' = [ask EXCEPT !.pc = "answered", !.odd = FALSE, !.status = 200,
                               !.code = code, !.genuine = genuine]
    BY <2>1 DEF Judge
  <2> HIDE DEF code, genuine
  <2>3. CASE Answered(400) \/ Answered(500)
    BY <1>2, <2>3
  <2>4. CASE ask' = [ask EXCEPT !.pc = "answered", !.odd = FALSE, !.status = 200,
                               !.code = code, !.genuine = genuine]
    BY <1>3, <2>4
  <2> QED BY <2>2, <2>3, <2>4
<1> QED BY <1>4, <1>5

-----------------------------------------------------------------------------
(* The theorem.                                                            *)

LEMMA SameAskInv ==
    ASSUME DeskInv, ask' = ask, settings' = settings \/ settings = Down PROVE DeskInv'
BY DEF DeskInv, AskShape, Unsent, GatedView, GatedCall, Heard, AnswerTellsEffect,
       Reports, Refused, Serves, Outcome

LEMMA DeskNextInv == DeskInv /\ [DeskNext]_deskVars => DeskInv'
<1> SUFFICES ASSUME DeskInv, [DeskNext]_deskVars PROVE DeskInv'
  OBVIOUS
<1>1. CASE Start
  BY <1>1, SameAskInv DEF Start
<1>2. CASE Stop
  BY <1>2 DEF Stop, NoAsk, DeskInv, AskShape, Unsent, GatedView, GatedCall, Heard,
     Outcome, AnswerTellsEffect, Reports
<1>3. CASE Health \/ UNCHANGED deskVars
           \/ \E server \in Servers : Lose(server) \/ Restore(server)
  BY <1>3, SameAskInv DEF Health, Lose, Restore, deskVars
<1>4. CASE \E view \in View, caller \in {"guest", "customer", "staff"} :
              \E op \in Serves(view) : Arrive(view, caller, op)
  BY <1>4, ArriveInv
<1>5. CASE Dispatch
  BY <1>5, DispatchInv
<1>6. CASE ProxyCall \/ CardCall \/ OrderCall \/ InvoiceStatusCall
  BY <1>6, CallsInv
<1>7. CASE Exchange \/ Reply
  BY <1>7, ExchangeInv, ReplyInv
<1>8. CASE Header \/ Callback
  BY <1>8, OtherViewsInv
<1> QED BY <1>1, <1>2, <1>3, <1>4, <1>5, <1>6, <1>7, <1>8 DEF DeskNext

\* What a caller of the views and of the proxy is told is what the gateway did,
\* answers lost on the way included
\* (apps/payments/operations.py:8-9, api/payments/views/card.py:41-42).
THEOREM AnswersAreTrue == DeskSpec => []AnswerTellsEffect
<1>1. DeskInit => DeskInv
  BY DEF DeskInit, NoAsk, DeskInv, AskShape, Unsent, GatedView, GatedCall, Heard,
     Outcome, AnswerTellsEffect, Reports
<1>2. DeskInv => AnswerTellsEffect
  BY DEF DeskInv
<1> QED BY <1>1, <1>2, DeskNextInv, PTL DEF DeskSpec

-----------------------------------------------------------------------------
(* What the probes promise of the answers.                                 *)

\* What the last good health check found still answers.
WellIsUp ==
    /\ settings = Down => well = {}
    /\ "database" \in well => "database" \in up
    /\ "cache" \in well => CacheAnswers
LEMMA WellInv == ASSUME WellIsUp, [DeskNext]_deskVars PROVE WellIsUp'
<1>1. CASE Start
  BY <1>1 DEF Start, WellIsUp
<1>2. CASE Stop
  BY <1>2 DEF Stop, WellIsUp
<1>3. CASE Health
  BY <1>3 DEF Health, ChecksPass, CacheAnswers, WellIsUp
<1>4. ASSUME NEW server \in Servers, Lose(server) PROVE WellIsUp'
  <2>1. /\ well' \subseteq well \ {server} /\ up' = up \ {server} /\ settings' = settings
        /\ server = "redis" /\ settings.cache = "redis" => "cache" \notin well'
    BY <1>4 DEF Lose
  <2> QED
    BY <2>1 DEF WellIsUp, CacheAnswers
<1>5. ASSUME NEW server \in Servers, Restore(server) PROVE WellIsUp'
  BY <1>5 DEF Restore, WellIsUp, CacheAnswers
<1>6. CASE settings' = settings /\ up' = up /\ well' = well
  BY <1>6 DEF WellIsUp, CacheAnswers
<1> QED
  BY <1>1, <1>2, <1>3, <1>4, <1>5, <1>6 DEF DeskNext, deskVars, Arrive, Dispatch, ProxyCall,
     CardCall, OrderCall, InvoiceStatusCall, InView, Exchange, Reply, Header, Callback

\* A payment check that reports nothing found every credential.
LEMMA NothingMissing ==
    ASSUME Issues = {}
    PROVE  settings.merchant /\ settings.service_secret /\ settings.VERIFY_SIGNATURE
BY DEF Issues

\* A server error comes of a server that is not there, or of what the code raises on.
Excused == \/ "database" \notin up \/ Odd
           \/ ask.view # "callback" /\ ~CacheAnswers
HonestAnswer ==
    /\ ask'.status = 500 => Excused
    /\ Issues = {} /\ ask.view = "callback" /\ ask'.status = 200
          => (ask'.code \notin {"-1", "-3"} <=> ask'.genuine)
    /\ Issues = {} => ask'.status # 503

LEMMA PlainlyAnswered ==
    ASSUME DeskInv, ask.pc # "none", NEW status, Answered(status),
           status = 500 => Excused, ask.view = "callback" => status # 200,
           Issues = {} => status # 503
    PROVE  HonestAnswer
<1>1. ask'.status = status
  BY DEF Answered, DeskInv, AskShape, Fields
<1> QED
  BY <1>1 DEF HonestAnswer

\* A request that is forwarded is answered at once only for want of a credential.
LEMMA ForwardedHonestly ==
    ASSUME DeskInv, ask.pc = "view", ask.view # "callback", NEW otherwise \in {502, 503},
           Forward(otherwise), ask'.pc = "answered"
    PROVE  HonestAnswer
<1>1. CASE Configured(ask.op)
  <2>1. DOMAIN ask = Fields /\ ask' = [ask EXCEPT !.pc = "sent", !.keys = {}]
    BY <1>1 DEF Forward, DeskInv, AskShape
  <2> QED
    BY <2>1 DEF Fields
<1>2. CASE ~Configured(ask.op)
  <2>1. Answered(otherwise) /\ Issues # {}
    BY <1>2, NothingMissing DEF Forward, Configured
  <2> QED
    BY <2>1, PlainlyAnswered
<1> QED
  BY <1>1, <1>2

LEMMA DispatchHonest ==
    ASSUME DeskInv, Dispatch, ask'.pc = "answered" PROVE HonestAnswer
<1>1. ask.pc = "new"
  BY DEF Dispatch
<1>2. ask' # [ask EXCEPT !.pc = "view"]
  BY <1>1 DEF DeskInv, AskShape, Fields
<1>3. \/ Answered(404) \/ Answered(403) \/ Answered(429)
      \/ Answered(500) /\ Excused
  BY <1>1, <1>2 DEF Dispatch, Throttled, Excused
<1> QED
  BY <1>1, <1>3, PlainlyAnswered

LEMMA CallsHonest ==
    ASSUME DeskInv, ProxyCall \/ CardCall \/ OrderCall \/ InvoiceStatusCall,
           ask'.pc = "answered"
    PROVE  HonestAnswer
<1>1. ask.pc = "view" /\ ask.view \in Calling /\ ask.view # "callback"
  BY DEF ProxyCall, CardCall, OrderCall, InvoiceStatusCall, InView, Calling
<1>2. CASE ProxyCall
  <2> DEFINE refusal == ProxyRefusal(ask.op, ask.keys)
  <2>1. /\ ask.view = "proxy"
        /\ \/ ask.odd /\ Answered(500)
           \/ IF refusal # 0 THEN Answered(refusal) ELSE Forward(503)
    BY <1>2 DEF ProxyCall, InView
  <2>2. /\ refusal \in {0, 400, 403, 500} /\ (refusal = 500 => Excused)
        /\ ask.odd => Excused
    BY <1>1, <2>1 DEF ProxyRefusal, Excused, Odd
  <2> HIDE DEF refusal
  <2> QED
    BY <1>1, <2>1, <2>2, PlainlyAnswered, ForwardedHonestly
<1>3. CASE CardCall \/ OrderCall \/ InvoiceStatusCall
  <2>1. (ask.odd /\ Answered(500)) \/ Answered(400) \/ NoOrder \/ Forward(502)
    BY <1>3 DEF CardCall, OrderCall, InvoiceStatusCall
  <2>2. /\ NoOrder => Answered(404) \/ (Answered(500) /\ Excused)
        /\ ask.odd => Excused
    BY DEF NoOrder, Excused, Odd
  <2> QED
    BY <1>1, <2>1, <2>2, PlainlyAnswered, ForwardedHonestly
<1> QED
  BY <1>2, <1>3

LEMMA ReplyHonest == ASSUME DeskInv, Reply PROVE HonestAnswer
<1>1. ask.pc = "heard" /\ ask.view # "callback"
  BY DEF Reply, DeskInv, GatedCall, Calling
<1>2. \/ Answered(500) /\ Excused
      \/ \E status \in {200, 201, 400, 502} : Answered(status)
  BY DEF Reply, StatusOf, Excused, Odd
<1> QED
  BY <1>1, <1>2, PlainlyAnswered

LEMMA OtherViewsHonest == ASSUME DeskInv, Header \/ Callback PROVE HonestAnswer
<1>1. CASE Header
  <2>1. /\ ask.pc = "view" /\ ask.view = "header"
        /\ Answered(200) \/ (Answered(503) /\ Issues # {})
    BY <1>1, NothingMissing DEF Header
  <2> QED
    BY <2>1, PlainlyAnswered
<1>2. CASE Callback
  <2>1. PICK data \in CallbackData :
            /\ ask.odd <=> data.odd # "none"
            /\ \/ (CallbackRaises(data) \/ MayRaise(data)) /\ Answered(500)
               \/ Judge(data)
    BY <1>2 DEF Callback
  <2>2. ask.pc # "none" /\ (ask.odd \/ "database" \notin up => Excused)
    BY <1>2 DEF Callback, Excused, Odd
  <2>3. CASE (CallbackRaises(data) \/ MayRaise(data)) /\ Answered(500)
    <3>1. ask.odd
      BY <2>1, <2>3 DEF CallbackRaises, MayRaise
    <3> QED
      BY <2>2, <2>3, <3>1, PlainlyAnswered
  <2>4. CASE Answered(400) \/ ("database" \notin up /\ Answered(500))
    BY <2>2, <2>4, PlainlyAnswered
  <2> DEFINE code == CallbackCode(data)
             genuine == Genuine(data) /\ ServiceMatches(data) /\ data.action # "malformed"
  <2>5. Issues = {} => (code \notin {"-1", "-3"} <=> genuine)
    BY NothingMissing DEF CallbackCode, SignatureIsValid
  <2>6. CASE ask' = [ask EXCEPT !.pc = "answered", !.odd = FALSE, !.status = 200,
                                !.code = code, !.genuine = genuine]
    <3> HIDE DEF code, genuine
    <3>1. DOMAIN ask = Fields
      BY <1>2 DEF Callback, DeskInv, AskShape
    <3>2. ask'.status = 200 /\ ask'.code = code /\ ask'.genuine = genuine
      BY <2>6, <3>1 DEF Fields
    <3> QED
      BY <2>5, <3>2 DEF HonestAnswer
  <2> QED
    BY <2>1, <2>3, <2>4, <2>6 DEF Judge
<1> QED
  BY <1>1, <1>2

\* What the health check and the payment check promise of the answers holds
\* until a server is lost, for every request and answer that the code does not
\* itself raise on (HealthCheckView, check_payment_configuration).
THEOREM ProbesAreTrue == DeskSpec => ProbesTellTheTruth
<1>1. DeskInit => DeskInv /\ WellIsUp
  BY DEF DeskInit, NoAsk, DeskInv, AskShape, Unsent, GatedView, GatedCall, Heard,
     Outcome, AnswerTellsEffect, Reports, WellIsUp
<1>2. DeskInv /\ WellIsUp /\ [DeskNext]_deskVars => DeskInv' /\ WellIsUp'
  BY DeskNextInv, WellInv
<1>3. DeskInv /\ WellIsUp /\ [DeskNext]_deskVars
      => \/ ask' # ask /\ ask'.pc = "answered" =>
              /\ "database" \in well /\ ("cache" \in well \/ ask.view = "callback") /\ ~Odd
                    => ask'.status # 500
              /\ Issues = {} /\ ask.view = "callback" /\ ask'.status = 200
                    => (ask'.code \notin {"-1", "-3"} <=> ask'.genuine)
              /\ Issues = {} => ask'.status # 503
         \/ UNCHANGED deskVars
  <2> SUFFICES ASSUME DeskInv, WellIsUp, [DeskNext]_deskVars,
                      ask' # ask, ask'.pc = "answered"
               PROVE  HonestAnswer
    BY DEF HonestAnswer, Excused, WellIsUp
  <2>1. ~(\/ Start \/ Stop \/ Health \/ UNCHANGED deskVars
          \/ \E server \in Servers : Lose(server) \/ Restore(server))
    BY DEF Start, Stop, Health, Lose, Restore, deskVars, NoAsk
  <2>2. ~\E view \in View, caller \in {"guest", "customer", "staff"} :
            \E op \in Serves(view) : Arrive(view, caller, op)
    <3> SUFFICES ASSUME NEW view, NEW caller, NEW op, Arrive(view, caller, op) PROVE FALSE
      OBVIOUS
    <3>1. PICK keys, odd :
              ask' = [pc |-> "new", view |-> view, caller |-> caller, op |-> op, keys |-> keys,
                      odd |-> odd, status |-> 0, effect |-> "none", answer |-> "none",
                      code |-> "", genuine |-> FALSE]
      BY DEF Arrive
    <3> QED
      BY <3>1
  <2>3. ~Exchange
    BY DEF Exchange, DeskInv, AskShape, Fields
  <2> QED
    BY <2>1, <2>2, <2>3, DispatchHonest, CallsHonest, ReplyHonest, OtherViewsHonest DEF DeskNext
<1> QED
  BY <1>1, <1>2, <1>3, PTL DEF DeskSpec, ProbesTellTheTruth

(***************************************************************************)
(* The address book: one default address at most.                          *)
(*                                                                         *)
(* A form that saves a default address clears those it saw when it began   *)
(* to clear.  What it did not see was committed later, by a form that      *)
(* either waits for this one's row, or inserted its row while this one     *)
(* inserted its own: the invariant says so of each two forms.              *)
(***************************************************************************)

SaveRow == [stage : {"none", "save", "clear"}, row : Address \cup {NoAddress},
            new : BOOLEAN, is_default : BOOLEAN, held : SUBSET Address,
            todo : SUBSET Address, want : Address \cup {NoAddress}]

\* A form takes its own row first, and holds it until it ends; the other rows
\* it holds exist, its own does unless it is inserting it.
SaveShape(f) ==
    LET s == saves[f]
    IN  /\ s.stage = "none" => s.want = NoAddress /\ s.held = {} /\ ~s.new
        /\ s.stage # "none" => s.row \in Address
        /\ s.stage = "save" => s.todo = {}
        /\ s.stage = "save" /\ s.want = NoAddress => s.row \in s.held
        /\ s.stage = "save" /\ s.want # NoAddress => s.want = s.row /\ s.held = {}
        /\ s.stage = "clear" => s.row \in s.held /\ s.row \notin s.todo /\ s.want # s.row
        /\ s.held \subseteq Stored \cup {s.row}
        /\ s.new <=> s.row \in s.held /\ s.row \notin Stored

BookType ==
    /\ addresses \in [Address -> {"none", "plain", "default"}]
    /\ saves \in [Form -> SaveRow]
    /\ \A f \in Form : SaveShape(f)

OneHolder ==
    \A f, g \in Form : f # g => saves[f].held \cap saves[g].held = {}

Overlapped(a, b) == {a, b} \in together
Clearing(f) == saves[f].stage = "clear" /\ saves[f].is_default
\* The rows a form has still to clear.
Ahead(f) == saves[f].todo \cup {saves[f].want}
Sees(f, b) == b \in Ahead(f) \cup saves[f].held \/ Overlapped(b, saves[f].row)

\* A default address that a clearing form does not come by, or hold, overlapped it.
ClearsDefaults ==
    \A f \in Form : Clearing(f) =>
        \A b \in Address : b # saves[f].row /\ addresses[b] = "default" => Sees(f, b)
\* So did any row that a form did not see which inserts its own.
InsertSees ==
    \A f \in Form : Clearing(f) /\ saves[f].new =>
        \A b \in Stored : b # saves[f].row => Sees(f, b)
InsertsOverlap ==
    \A f, g \in Form : f # g /\ saves[f].new /\ saves[g].new
        => Overlapped(saves[f].row, saves[g].row)
\* Of two forms that clear, one is still to come by the row of the other.
OneWaits ==
    \A f, g \in Form : f # g /\ Clearing(f) /\ Clearing(g)
        => \/ saves[g].row \in Ahead(f) \/ saves[f].row \in Ahead(g)
           \/ Overlapped(saves[f].row, saves[g].row)

BookInv == /\ BookType /\ OneHolder /\ OneDefault
           /\ ClearsDefaults /\ InsertSees /\ InsertsOverlap /\ OneWaits

LEMMA OverlapIsMutual == \A a, b : Overlapped(a, b) <=> Overlapped(b, a)
<1> SUFFICES ASSUME NEW a, NEW b PROVE {a, b} = {b, a}
  BY DEF Overlapped
<1> QED
  OBVIOUS

\* A row being inserted forgets whom its last insert overlapped, no other does.
LEMMA InsertingOverlaps ==
    ASSUME NEW f \in Form,
           together' = {p \in together : saves[f].row \notin p}
                         \cup {{saves[f].row, saves[g].row} : g \in Inserting}
    PROVE  /\ \A a, b : Overlapped(a, b) /\ a # saves[f].row /\ b # saves[f].row
                          => Overlapped(a, b)'
           /\ \A g \in Inserting : {saves[f].row, saves[g].row} \in together'
<1>1. ASSUME NEW a, NEW b, Overlapped(a, b), a # saves[f].row, b # saves[f].row
      PROVE  {a, b} \in together'
  <2>1. saves[f].row \notin {a, b}
    BY <1>1
  <2>2. {a, b} \in together
    BY <1>1 DEF Overlapped
  <2> QED
    BY <2>1, <2>2
<1>2. ASSUME NEW g \in Inserting PROVE {saves[f].row, saves[g].row} \in together'
  OBVIOUS
<1> QED
  BY <1>1, <1>2 DEF Overlapped

LEMMA NoSaveIsARow ==
    /\ NoSave \in SaveRow
    /\ NoSave.stage = "none" /\ ~NoSave.new /\ NoSave.held = {} /\ NoSave.todo = {}
    /\ NoSave.want = NoAddress
BY DEF NoSave, SaveRow

\* What a form begins with.
Begun(a, default) == [NoSave EXCEPT !.stage = "save", !.row = a, !.is_default = default,
                                    !.want = a]

LEMMA BegunIsARow ==
    ASSUME NEW a \in Address, NEW default \in BOOLEAN
    PROVE  LET n == Begun(a, default)
           IN  /\ n \in SaveRow
               /\ n.stage = "save" /\ n.row = a /\ ~n.new /\ n.is_default = default
               /\ n.held = {} /\ n.todo = {} /\ n.want = a
<1>1. /\ NoSave \in SaveRow
      /\ ~NoSave.new /\ NoSave.held = {} /\ NoSave.todo = {}
  BY NoSaveIsARow
<1> DEFINE n == Begun(a, default)
<1>2. n = [[[[NoSave EXCEPT !.stage = "save"] EXCEPT !.row = a]
                     EXCEPT !.is_default = default] EXCEPT !.want = a]
  BY DEF Begun
<1> HIDE DEF n
<1>3. /\ n \in SaveRow
      /\ n.stage = "save" /\ n.row = a /\ n.is_default = default /\ n.want = a
      /\ n.new = NoSave.new /\ n.held = NoSave.held /\ n.todo = NoSave.todo
  BY <1>1, <1>2 DEF SaveRow
<1> QED
  BY <1>1, <1>3 DEF n

LEMMA SaveKeepsBook ==
    ASSUME BookInv, NEW f \in Form, NEW a \in Address, NEW default \in BOOLEAN,
           Save(f, a, default)
    PROVE  BookInv'
<1> DEFINE n == Begun(a, default)
<1>1. /\ n \in SaveRow
      /\ n.stage = "save" /\ n.row = a /\ ~n.new /\ n.is_default = default
      /\ n.held = {} /\ n.todo = {} /\ n.want = a
  BY BegunIsARow
<1>2. saves' = [saves EXCEPT ![f] = n] /\ UNCHANGED <<addresses, together>>
  BY DEF Save, Begun
<1> HIDE DEF n
<1> USE DEF BookInv, BookType
<1>4. BookType'
  <2>1. saves' \in [Form -> SaveRow]
    BY <1>1, <1>2
  <2>2. SaveShape(f)'
    BY <1>1, <1>2, NoAddressAssumption DEF SaveShape, Stored
  <2>3. \A g \in Form \ {f} : SaveShape(g)'
    BY <1>2 DEF SaveShape, Stored
  <2>4. QED
    BY <1>2, <2>1, <2>2, <2>3
<1>5. OneHolder'
  BY <1>1, <1>2 DEF OneHolder
<1>6. \A g \in Form : /\ Clearing(g)' => g # f /\ Clearing(g)
                      /\ saves'[g].new => g # f /\ saves[g].new
                      /\ g # f => saves'[g] = saves[g]
  BY <1>1, <1>2 DEF Clearing
<1>7. QED
  BY <1>2, <1>4, <1>5, <1>6
     DEF OneDefault, ClearsDefaults, InsertSees, InsertsOverlap, OneWaits, Sees,
         Ahead, Overlapped, Stored

\* What taking a row changes in the form's transaction.
LEMMA TakeChanges ==
    ASSUME BookType, NEW f \in Form, Take(f)
    PROVE  LET s == saves[f]
               n == saves'[f]
           IN  /\ saves' \in [Form -> SaveRow]
               /\ \A g \in Form \ {f} : saves'[g] = saves[g]
               /\ s.want \in Address /\ n.want = NoAddress /\ LockedBy(s.want) = {}
               /\ n.stage = s.stage /\ n.row = s.row /\ n.is_default = s.is_default
               /\ n.todo = s.todo
               /\ n.held = s.held \cup ({s.want} \cap (Stored \cup {s.row}))
               /\ n.new <=> (s.new \/ (s.want = s.row /\ addresses[s.row] = "none"))
               /\ UNCHANGED addresses
<1> DEFINE s == saves[f]
           new == s.new \/ (s.want = s.row /\ addresses[s.row] = "none")
           held == s.held \cup ({s.want} \cap (Stored \cup {s.row}))
<1>1. s \in SaveRow /\ s.want \in Address /\ LockedBy(s.want) = {}
  <2>1. saves \in [Form -> SaveRow] /\ s.want # NoAddress /\ LockedBy(s.want) = {}
    BY DEF Take, BookType
  <2> QED
    BY <2>1 DEF SaveRow
<1>2. saves' = [saves EXCEPT ![f] = [s EXCEPT !.want = NoAddress, !.new = new,
                                              !.held = held]] /\ UNCHANGED addresses
  BY DEF Take
<1>3. new \in BOOLEAN /\ held \in SUBSET Address
  BY <1>1 DEF SaveRow
<1> HIDE DEF new, held
<1> DEFINE n == [s EXCEPT !.want = NoAddress, !.new = new, !.held = held]
<1>4. /\ n \in SaveRow /\ n.want = NoAddress /\ n.new = new /\ n.held = held
      /\ n.stage = s.stage /\ n.row = s.row /\ n.is_default = s.is_default
      /\ n.todo = s.todo
  BY <1>1, <1>3 DEF SaveRow
<1>5. saves' = [saves EXCEPT ![f] = n]
  BY <1>2
<1> HIDE DEF n, s
<1>6. /\ saves' \in [Form -> SaveRow] /\ saves'[f] = n
      /\ \A g \in Form \ {f} : saves'[g] = saves[g]
  BY <1>4, <1>5 DEF BookType
<1> QED
  BY <1>1, <1>2, <1>4, <1>6 DEF s, new, held

LEMMA TakeKeepsShape ==
    ASSUME BookType, OneHolder, NEW f \in Form, Take(f)
    PROVE  BookType' /\ OneHolder'
<1>1. /\ saves' \in [Form -> SaveRow] /\ UNCHANGED addresses
      /\ \A g \in Form \ {f} : saves'[g] = saves[g]
  BY TakeChanges
<1> DEFINE s == saves[f]
           n == saves'[f]
<1>2. /\ s.want \in Address /\ n.want = NoAddress /\ LockedBy(s.want) = {}
      /\ n.stage = s.stage /\ n.row = s.row /\ n.todo = s.todo
      /\ n.held = s.held \cup ({s.want} \cap (Stored \cup {s.row}))
      /\ n.new <=> (s.new \/ (s.want = s.row /\ addresses[s.row] = "none"))
  BY TakeChanges
<1>3. Stored' = Stored
  BY <1>1 DEF Stored
<1>4. SaveShape(f)'
  <2>1. SaveShape(f) /\ s.want # NoAddress /\ s \in SaveRow
    BY <1>2, NoAddressAssumption DEF BookType
  <2>2. s.want = s.row => (s.want \in Stored <=> addresses[s.row] # "none")
    BY <1>2 DEF Stored
  <2> HIDE DEF s, n
  <2>3. s.stage = "save" \/ s.stage = "clear"
    BY <2>1 DEF s, SaveShape, SaveRow
  <2>4. CASE s.stage = "save"
    BY <1>2, <1>3, <2>1, <2>2, <2>4 DEF s, n, SaveShape
  <2>5. CASE s.stage = "clear"
    <3>1. s.want # s.row /\ s.row \in s.held /\ s.row \notin s.todo
          /\ s.held \subseteq Stored \cup {s.row} /\ s.row \in Address
          /\ (s.new <=> s.row \notin Stored)
      BY <2>1, <2>5 DEF s, SaveShape
    <3>2. /\ n.row \in n.held /\ n.held \subseteq Stored \cup {n.row}
          /\ (n.new <=> n.row \notin Stored) /\ n.want # n.row
      BY <1>2, <3>1, NoAddressAssumption
    <3> QED
      BY <1>2, <1>3, <2>5, <3>1, <3>2 DEF n, SaveShape
  <2> QED
    BY <2>3, <2>4, <2>5
<1>5. \A g \in Form \ {f} : SaveShape(g)'
  BY <1>1, <1>3 DEF SaveShape, BookType
<1>6. OneHolder'
  BY <1>1, <1>2 DEF OneHolder, LockedBy
<1> QED
  BY <1>1, <1>4, <1>5, <1>6 DEF BookType

LEMMA TakeKeepsBook ==
    ASSUME BookInv, NEW f \in Form, Take(f)
    PROVE  BookInv'
<1>1. /\ UNCHANGED addresses
      /\ \A g \in Form \ {f} : saves'[g] = saves[g]
  BY TakeChanges DEF BookInv
<1> DEFINE s == saves[f]
           n == saves'[f]
<1>2. /\ s.want \in Address /\ n.want = NoAddress /\ LockedBy(s.want) = {}
      /\ n.stage = s.stage /\ n.row = s.row /\ n.todo = s.todo
      /\ n.is_default = s.is_default
      /\ n.held = s.held \cup ({s.want} \cap (Stored \cup {s.row}))
      /\ n.new <=> (s.new \/ (s.want = s.row /\ addresses[s.row] = "none"))
  BY TakeChanges DEF BookInv
<1>3. BookType /\ OneHolder /\ BookType' /\ OneHolder' /\ Stored' = Stored
  BY <1>1, TakeKeepsShape DEF BookInv, Stored
<1>4. SaveShape(f) /\ \A g \in Form : SaveShape(g) /\ s.stage # "none"
  BY <1>2, NoAddressAssumption, <1>3 DEF BookType, SaveShape
<1>5. \A g \in Form : /\ saves'[g].row = saves[g].row /\ (Clearing(g)' <=> Clearing(g))
                      /\ saves[g].held \subseteq saves'[g].held
  BY <1>1, <1>2 DEF Clearing
<1>6. CASE s.want = s.row /\ addresses[s.row] = "none"
  <2>1. s.row \in Address /\ s.row \notin Stored /\ ~Clearing(f) /\ ~Clearing(f)'
    BY <1>2, <1>4, <1>5, <1>6 DEF SaveShape, Clearing, Stored
  <2>2. together' = {p \in together : saves[f].row \notin p}
                      \cup {{saves[f].row, saves[g].row} : g \in Inserting}
    BY <1>6 DEF Take
  <2>3. /\ \A a, b : Overlapped(a, b) /\ a # s.row /\ b # s.row => Overlapped(a, b)'
        /\ \A g \in Inserting : {s.row, saves[g].row} \in together'
    BY <2>2, InsertingOverlaps
  <2>4. \A g \in Form \ {f} : /\ Clearing(g) \/ saves[g].new => saves[g].row # s.row
                              /\ saves[g].new => g \in Inserting
    BY <1>2, <1>4, <1>6 DEF Clearing, SaveShape, LockedBy, Inserting
  <2>5. OneDefault'
    <3>1. \A a \in Address : addresses[a] = "default" => a # s.row
      BY <1>6
    <3> QED
      BY <1>1, <2>3, <3>1 DEF BookInv, OneDefault, Overlapped
  <2>6. InsertsOverlap'
    <3>1. ASSUME NEW g \in Form \ {f}, saves[g].new
          PROVE  Overlapped(s.row, saves[g].row)' /\ Overlapped(saves[g].row, s.row)'
      <4>1. {s.row, saves[g].row} \in together' /\ s.row = n.row
        BY <1>2, <2>3, <2>4, <3>1
      <4>2. {s.row, saves[g].row} = {saves[g].row, s.row}
        OBVIOUS
      <4> QED
        BY <1>5, <4>1, <4>2 DEF Overlapped
    <3>2. ASSUME NEW g \in Form \ {f}, NEW h \in Form \ {f}, g # h, saves[g].new, saves[h].new
          PROVE  Overlapped(saves[g].row, saves[h].row)'
      BY <1>5, <2>3, <2>4, <3>2 DEF BookInv, InsertsOverlap
    <3> QED
      BY <1>1, <3>1, <3>2 DEF InsertsOverlap
  <2>7. ASSUME NEW g \in Form, NEW b \in Stored, Clearing(g), Sees(g, b) PROVE Sees(g, b)'
    <3>1. g # f /\ b # s.row /\ saves[g].row # s.row /\ saves'[g] = saves[g]
      BY <1>1, <2>1, <2>4, <2>7
    <3>2. Overlapped(b, saves[g].row) => Overlapped(b, saves[g].row)'
      BY <2>3, <3>1
    <3> QED
      BY <2>7, <3>1, <3>2 DEF Sees, Ahead
  <2>8. ClearsDefaults'
    BY <1>1, <1>3, <1>5, <2>7 DEF BookInv, ClearsDefaults, Stored
  <2>9. InsertSees'
    BY <1>1, <1>3, <1>5, <2>1, <2>7 DEF BookInv, InsertSees
  <2>10. OneWaits'
    <3>1. \A g \in Form : Clearing(g) => g # f /\ saves'[g] = saves[g] /\ saves[g].row # s.row
      BY <1>1, <2>1, <2>4
    <3> QED
      BY <1>5, <2>3, <3>1 DEF BookInv, OneWaits, Ahead
  <2> QED
    BY <1>3, <2>5, <2>6, <2>8, <2>9, <2>10 DEF BookInv
<1>7. CASE ~(s.want = s.row /\ addresses[s.row] = "none")
  <2>1. together' = together
    BY <1>7 DEF Take
  <2>2. \A g \in Form : saves'[g].new <=> saves[g].new
    BY <1>1, <1>2, <1>7
  <2>3. \A g \in Form : \A b \in Stored : Sees(g, b) => Sees(g, b)'
    BY <1>1, <1>2, <1>5, <2>1 DEF Sees, Ahead, Overlapped
  <2>4. \A g, h \in Form : saves[h].row \in Ahead(g) /\ Clearing(h) => saves[h].row \in Ahead(g)'
    BY <1>1, <1>2, <1>4 DEF Ahead, Clearing, LockedBy, SaveShape
  <2>5. OneDefault' /\ InsertsOverlap'
    BY <1>1, <1>5, <2>1, <2>2 DEF BookInv, OneDefault, InsertsOverlap, Overlapped
  <2>6. ClearsDefaults'
    BY <1>1, <1>5, <2>3 DEF BookInv, ClearsDefaults, Stored
  <2>7. InsertSees'
    BY <1>3, <1>5, <2>2, <2>3 DEF BookInv, InsertSees
  <2>8. OneWaits'
    BY <1>5, <2>1, <2>4 DEF BookInv, OneWaits, Overlapped
  <2> QED
    BY <1>3, <2>5, <2>6, <2>7, <2>8 DEF BookInv
<1> QED
  BY <1>6, <1>7

\* The other two statements of a form change its transaction only, and take no row.
LEMMA ClearKeepsBook ==
    ASSUME BookInv, NEW f \in Form, ClearOthers(f) \/ ClearNext(f)
    PROVE  BookInv'
<1> DEFINE s == saves[f]
           n == saves'[f]
<1>1. s \in SaveRow /\ SaveShape(f) /\ UNCHANGED <<addresses, together>> /\ s.want = NoAddress
  BY DEF BookInv, BookType, ClearOthers, ClearNext
<1>2. /\ saves' \in [Form -> SaveRow]
      /\ \A g \in Form \ {f} : saves'[g] = saves[g]
      /\ n.row = s.row /\ n.is_default = s.is_default /\ n.held = s.held /\ n.new = s.new
      /\ n.stage = "clear"
      /\ \/ s.stage = "save" /\ n.want = NoAddress /\ n.todo = ToClear(f)
         \/ s.stage = "clear" /\ n.want \in s.todo /\ n.todo = s.todo \ {n.want}
  <2>1. CASE ClearOthers(f)
    <3>1. saves' = [saves EXCEPT ![f] = [s EXCEPT !.stage = "clear", !.todo = ToClear(f)]]
          /\ s.stage = "save"
      BY <2>1 DEF ClearOthers
    <3>2. ToClear(f) \in SUBSET Address
      BY DEF ToClear, Stored
    <3> DEFINE m == [s EXCEPT !.stage = "clear", !.todo = ToClear(f)]
    <3> HIDE DEF s
    <3>3. /\ m \in SaveRow /\ m.stage = "clear" /\ m.todo = ToClear(f) /\ m.row = s.row
          /\ m.is_default = s.is_default /\ m.held = s.held /\ m.new = s.new /\ m.want = s.want
      BY <1>1, <3>2 DEF SaveRow
    <3> HIDE DEF m
    <3>4. saves' \in [Form -> SaveRow] /\ n = m /\ \A g \in Form \ {f} : saves'[g] = saves[g]
      BY <3>1, <3>3 DEF BookInv, BookType, m
    <3> QED
      BY <1>1, <3>1, <3>3, <3>4
  <2>2. CASE ClearNext(f)
    <3>1. PICK a \in s.todo :
              saves' = [saves EXCEPT ![f] = [s EXCEPT !.want = a, !.todo = s.todo \ {a}]]
              /\ s.stage = "clear"
      BY <2>2 DEF ClearNext
    <3> DEFINE m == [s EXCEPT !.want = a, !.todo = s.todo \ {a}]
    <3> HIDE DEF s
    <3>2. /\ m \in SaveRow /\ m.stage = s.stage /\ m.todo = s.todo \ {a} /\ m.row = s.row
          /\ m.is_default = s.is_default /\ m.held = s.held /\ m.new = s.new /\ m.want = a
      BY <1>1 DEF SaveRow
    <3> HIDE DEF m
    <3>3. saves' \in [Form -> SaveRow] /\ n = m /\ \A g \in Form \ {f} : saves'[g] = saves[g]
      BY <3>1, <3>2 DEF BookInv, BookType, m
    <3> QED
      BY <1>1, <3>1, <3>2, <3>3
  <2> QED
    BY <2>1, <2>2
<1>3. Stored' = Stored
  BY <1>1 DEF Stored
<1> HIDE DEF s, n
<1>4. BookType'
  <2>1. n.row \in n.held /\ n.row \notin n.todo /\ n.want # n.row
    BY <1>1, <1>2, NoAddressAssumption DEF s, SaveShape, ToClear
  <2>2. SaveShape(f)'
    BY <1>1, <1>2, <1>3, <2>1 DEF s, n, SaveShape
  <2>3. \A g \in Form \ {f} : SaveShape(g)'
    BY <1>2, <1>3 DEF SaveShape, BookInv, BookType
  <2> QED
    BY <1>1, <1>2, <2>2, <2>3 DEF BookInv, BookType
<1>5. \A g \in Form : /\ saves'[g].row = saves[g].row /\ saves'[g].new = saves[g].new
                      /\ saves'[g].held = saves[g].held
  BY <1>2 DEF s, n
<1>6. OneHolder' /\ OneDefault' /\ InsertsOverlap'
  BY <1>1, <1>5 DEF BookInv, OneHolder, OneDefault, InsertsOverlap, Overlapped
<1>7. ASSUME NEW g \in Form, Clearing(g), NEW b \in Address
      PROVE  Clearing(g)' /\ (b \in Ahead(g) => b \in Ahead(g)') /\ (Sees(g, b) => Sees(g, b)')
  <2>1. g = f => s.stage = "clear"
    BY <1>7 DEF Clearing, s
  <2>2. b \in Ahead(g) => b \in Ahead(g)'
    BY <1>1, <1>2, <2>1, NoAddressAssumption DEF Ahead, s, n
  <2>3. Clearing(g)'
    BY <1>2, <1>7, <2>1 DEF Clearing, s, n
  <2>4. Overlapped(b, saves[g].row) => Overlapped(b, saves[g].row)'
    BY <1>1, <1>5 DEF Overlapped
  <2> QED
    BY <1>5, <2>2, <2>3, <2>4 DEF Sees
<1>8. \A g \in Form : Clearing(g)' =>
          Clearing(g) \/ (g = f /\ \A b \in Stored : b # saves[f].row => b \in Ahead(f)')
  BY <1>2 DEF Clearing, Ahead, ToClear, s, n
<1>9. ClearsDefaults'
  <2> SUFFICES ASSUME NEW g \in Form, Clearing(g)', NEW b \in Address, b # saves[g].row,
                      addresses[b] = "default"
               PROVE  Sees(g, b)'
    BY <1>1, <1>5 DEF ClearsDefaults
  <2>1. CASE Clearing(g)
    BY <1>7, <2>1 DEF BookInv, ClearsDefaults
  <2>2. CASE g = f /\ \A a \in Stored : a # saves[f].row => a \in Ahead(f)'
    BY <2>2 DEF Sees, Stored
  <2> QED
    BY <1>8, <2>1, <2>2
<1>10. InsertSees'
  <2> SUFFICES ASSUME NEW g \in Form, Clearing(g)', saves[g].new, NEW b \in Stored,
                      b # saves[g].row
               PROVE  Sees(g, b)'
    BY <1>3, <1>5 DEF InsertSees
  <2>1. CASE Clearing(g)
    BY <1>7, <2>1 DEF BookInv, InsertSees, Stored
  <2>2. CASE g = f /\ \A a \in Stored : a # saves[f].row => a \in Ahead(f)'
    BY <2>2 DEF Sees
  <2> QED
    BY <1>8, <2>1, <2>2
<1>11. OneWaits'
  <2>1. ASSUME NEW g \in Form, NEW h \in Form, g # h, Clearing(g), Clearing(h)
        PROVE  \/ saves[h].row \in Ahead(g)' \/ saves[g].row \in Ahead(h)'
               \/ Overlapped(saves[g].row, saves[h].row)
    <3>1. saves[g].row \in Address /\ saves[h].row \in Address
      BY <2>1 DEF BookInv, BookType, SaveShape, Clearing
    <3> QED
      BY <1>7, <2>1, <3>1 DEF BookInv, OneWaits
  <2>2. ASSUME NEW g \in Form \ {f}, Clearing(g),
               \A a \in Stored : a # saves[f].row => a \in Ahead(f)'
        PROVE  \/ saves[g].row \in Ahead(f)' \/ saves[f].row \in Ahead(g)'
               \/ Overlapped(saves[f].row, saves[g].row)
    <3>1. /\ saves[g].row \in saves[g].held /\ saves[f].row \in saves[f].held
          /\ saves[g].row \in Address /\ saves[f].row \in Address
          /\ saves[g].row # saves[f].row /\ saves[f].row \notin saves[g].held
      <4>1. SaveShape(g) /\ SaveShape(f)'
        BY <1>4 DEF BookInv, BookType
      <4> QED
        BY <1>2, <1>5, <2>2, <4>1 DEF n, SaveShape, BookInv, OneHolder, Clearing
    <3>2. CASE saves[g].row \in Stored
      BY <2>2, <3>1, <3>2
    <3>3. CASE saves[g].row \notin Stored /\ saves[f].row \notin Stored
      <4>1. saves[g].new /\ saves[f].new
        BY <3>1, <3>3 DEF BookInv, BookType, SaveShape
      <4> QED
        BY <4>1 DEF BookInv, InsertsOverlap
    <3>4. CASE saves[g].row \notin Stored /\ saves[f].row \in Stored
      <4>1. saves[g].new
        BY <3>1, <3>4 DEF BookInv, BookType, SaveShape
      <4>2. Sees(g, saves[f].row)
        BY <2>2, <3>1, <3>4, <4>1 DEF BookInv, InsertSees
      <4> QED
        BY <1>7, <2>2, <3>1, <4>2 DEF Sees
    <3> QED
      BY <3>2, <3>3, <3>4
  <2>3. \A g, h \in Form : g # h /\ Clearing(g)' /\ Clearing(h)' =>
            \/ saves[h].row \in Ahead(g)' \/ saves[g].row \in Ahead(h)'
            \/ Overlapped(saves[g].row, saves[h].row)
    BY <1>8, <2>1, <2>2, OverlapIsMutual
  <2>4. \A a, b : Overlapped(a, b) => Overlapped(a, b)'
    BY <1>1 DEF Overlapped
  <2> QED
    BY <1>5, <2>3, <2>4 DEF OneWaits
<1> QED
  BY <1>4, <1>6, <1>9, <1>10, <1>11 DEF BookInv

LEMMA CommitKeepsBook ==
    ASSUME BookInv, NEW f \in Form, CommitSave(f)
    PROVE  BookInv'
<1> DEFINE s == saves[f]
           kind == IF s.is_default THEN "default" ELSE "plain"
<1>1. /\ addresses' = [a \in Address |->
             IF a = s.row THEN kind ELSE IF a \in s.held THEN "plain" ELSE addresses[a]]
      /\ saves' = [saves EXCEPT ![f] = NoSave] /\ together' = together
      /\ s.stage = "clear" /\ s.want = NoAddress /\ s.todo = {}
  BY DEF CommitSave
<1>2. SaveShape(f) /\ s \in SaveRow /\ s.row \in Address /\ s.row \in s.held
      /\ Ahead(f) = {NoAddress}
  BY <1>1 DEF BookInv, BookType, SaveShape, Ahead
<1>3. kind \in {"plain", "default"} /\ (kind = "default" <=> Clearing(f))
  BY <1>1 DEF Clearing
<1> HIDE DEF kind, s
<1>4. /\ addresses'[s.row] = kind
      /\ \A b \in Address : b # s.row /\ addresses'[b] = "default"
             => addresses[b] = "default" /\ b \notin s.held
      /\ addresses' \in [Address -> {"none", "plain", "default"}]
  BY <1>1, <1>2, <1>3 DEF BookInv, BookType
<1>5. Stored' = Stored \cup {s.row}
  <2>1. s.held \subseteq Stored \cup {s.row}
    BY <1>2 DEF s, SaveShape
  <2>2. \A b \in Address : addresses'[b] # "none" <=> b \in Stored \cup {s.row}
    BY <1>1, <1>2, <1>3, <2>1 DEF Stored
  <2> QED
    BY <1>2, <2>2 DEF Stored
<1>6. /\ saves' \in [Form -> SaveRow] /\ saves'[f] = NoSave
      /\ \A g \in Form \ {f} : saves'[g] = saves[g]
  BY <1>1, NoSaveIsARow DEF BookInv, BookType
<1>7. \A g \in Form : /\ Clearing(g)' => g # f /\ Clearing(g)
                      /\ saves'[g].new => g # f /\ saves[g].new
  BY <1>6, NoSaveIsARow DEF Clearing
<1>8. BookType' /\ OneHolder'
  <2>1. SaveShape(f)'
    BY <1>6, NoSaveIsARow DEF SaveShape
  <2>2. ASSUME NEW g \in Form \ {f} PROVE SaveShape(g)'
    <3>1. SaveShape(g) /\ s.row \notin saves[g].held
      BY <1>2 DEF BookInv, BookType, OneHolder, s
    <3> QED
      BY <1>5, <1>6, <3>1 DEF SaveShape
  <2>3. OneHolder'
    BY <1>6, NoSaveIsARow DEF BookInv, OneHolder
  <2> QED
    BY <1>4, <1>6, <2>1, <2>2, <2>3 DEF BookType
<1>9. \A g \in Form \ {f} : \A b : Sees(g, b) => Sees(g, b)'
  BY <1>1, <1>6 DEF Sees, Ahead, Overlapped
<1>10. \A b \in Address : Clearing(f) /\ b # s.row /\ addresses'[b] = "default"
           => Overlapped(b, s.row) /\ Overlapped(s.row, b)
  <2>1. ASSUME NEW b \in Address, Clearing(f), b # s.row, addresses'[b] = "default"
        PROVE  Overlapped(b, s.row)
    <3>1. Sees(f, b) /\ b \notin s.held /\ b # NoAddress
      BY <1>4, <2>1, NoAddressAssumption DEF BookInv, ClearsDefaults, s
    <3> QED
      BY <1>2, <3>1 DEF Sees, s
  <2> QED
    BY <2>1, OverlapIsMutual
<1>11. OneDefault'
  <2> SUFFICES ASSUME NEW a \in Address, NEW b \in Address, a # b,
                      addresses'[a] = "default", addresses'[b] = "default"
               PROVE  Overlapped(a, b)
    BY <1>1 DEF OneDefault, Overlapped
  <2>1. CASE a # s.row /\ b # s.row
    BY <1>4, <2>1 DEF BookInv, OneDefault, Overlapped
  <2>2. CASE a = s.row \/ b = s.row
    BY <1>3, <1>4, <1>10, <2>2
  <2> QED
    BY <2>1, <2>2
<1>12. ClearsDefaults'
  <2> SUFFICES ASSUME NEW g \in Form \ {f}, Clearing(g), NEW b \in Address, b # saves[g].row,
                      addresses'[b] = "default"
               PROVE  Sees(g, b)
    BY <1>6, <1>7, <1>9 DEF ClearsDefaults
  <2>1. CASE b # s.row
    BY <1>4, <2>1 DEF BookInv, ClearsDefaults
  <2>2. CASE b = s.row
    <3>1. Clearing(f) /\ saves[g].row # NoAddress
      BY <1>3, <1>4, <2>2, NoAddressAssumption DEF BookInv, BookType, SaveShape, Clearing
    <3>2. \/ s.row \in Ahead(g) \/ Overlapped(s.row, saves[g].row)
      BY <1>2, <3>1 DEF BookInv, OneWaits, s
    <3> QED
      BY <2>2, <3>2 DEF Sees
  <2> QED
    BY <2>1, <2>2
<1>13. InsertSees'
  <2> SUFFICES ASSUME NEW g \in Form \ {f}, Clearing(g), saves[g].new,
                      NEW b \in Stored \cup {s.row}, b # saves[g].row
               PROVE  Sees(g, b)
    BY <1>5, <1>6, <1>7, <1>9 DEF InsertSees
  <2>1. CASE b \in Stored
    BY <2>1 DEF BookInv, InsertSees
  <2>2. CASE b = s.row /\ s.row \notin Stored
    <3>1. saves[f].new
      BY <1>2, <2>2 DEF SaveShape, s
    <3> QED
      BY <2>2, <3>1 DEF BookInv, InsertsOverlap, Sees, s
  <2> QED
    BY <2>1, <2>2
<1>14. InsertsOverlap' /\ OneWaits'
  BY <1>1, <1>6, <1>7 DEF BookInv, InsertsOverlap, OneWaits, Overlapped, Ahead
<1> QED
  BY <1>8, <1>11, <1>12, <1>13, <1>14 DEF BookInv

LEMMA VictimKeepsBook ==
    ASSUME BookInv, NEW f \in Form, Victim(f)
    PROVE  BookInv'
<1>1. saves' = [saves EXCEPT ![f] = NoSave] /\ UNCHANGED <<addresses, together>>
  BY DEF Victim
<1>2. /\ saves' \in [Form -> SaveRow] /\ saves'[f] = NoSave
      /\ \A g \in Form \ {f} : saves'[g] = saves[g]
  BY <1>1, NoSaveIsARow DEF BookInv, BookType
<1>3. \A g \in Form : /\ Clearing(g)' => g # f /\ Clearing(g)
                      /\ saves'[g].new => g # f /\ saves[g].new
  BY <1>2, NoSaveIsARow DEF Clearing
<1>4. BookType' /\ OneHolder'
  <2>1. SaveShape(f)'
    BY <1>2, NoSaveIsARow DEF SaveShape
  <2>2. \A g \in Form \ {f} : SaveShape(g)'
    BY <1>1, <1>2 DEF BookInv, BookType, SaveShape, Stored
  <2>3. OneHolder'
    BY <1>2, NoSaveIsARow DEF BookInv, OneHolder
  <2> QED
    BY <1>1, <1>2, <2>1, <2>2, <2>3 DEF BookInv, BookType
<1>5. \A g \in Form \ {f} : \A b : Sees(g, b) => Sees(g, b)'
  BY <1>1, <1>2 DEF Sees, Ahead, Overlapped
<1>6. OneDefault' /\ ClearsDefaults' /\ InsertSees'
  BY <1>1, <1>2, <1>3, <1>5 DEF BookInv, OneDefault, ClearsDefaults, InsertSees, Stored
<1>7. InsertsOverlap' /\ OneWaits'
  BY <1>1, <1>2, <1>3 DEF BookInv, InsertsOverlap, OneWaits, Overlapped, Ahead
<1> QED
  BY <1>4, <1>6, <1>7 DEF BookInv

LEMMA DeleteKeepsBook ==
    ASSUME BookInv, NEW a \in Address, DeleteAddress(a)
    PROVE  BookInv'
<1>1. /\ addresses' = [addresses EXCEPT ![a] = "none"] /\ LockedBy(a) = {}
      /\ UNCHANGED <<saves, together>>
  BY DEF DeleteAddress
<1>2. /\ addresses' \in [Address -> {"none", "plain", "default"}]
      /\ Stored' = Stored \ {a}
      /\ \A b \in Address : addresses'[b] = "default" => addresses[b] = "default"
  BY <1>1 DEF BookInv, BookType, Stored
<1>3. ASSUME NEW g \in Form PROVE SaveShape(g)'
  <2>1. a \notin saves[g].held /\ SaveShape(g)
    BY <1>1 DEF LockedBy, BookInv, BookType
  <2> QED
    BY <1>1, <1>2, <2>1 DEF SaveShape
<1>4. BookType' /\ OneHolder' /\ OneDefault' /\ ClearsDefaults'
  BY <1>1, <1>2, <1>3
     DEF BookInv, BookType, OneHolder, OneDefault, ClearsDefaults, Clearing, Sees, Ahead,
         Overlapped
<1>5. InsertSees' /\ InsertsOverlap' /\ OneWaits'
  BY <1>1, <1>2
     DEF BookInv, InsertSees, InsertsOverlap, OneWaits, Clearing, Sees, Ahead, Overlapped
<1> QED
  BY <1>4, <1>5 DEF BookInv

\* A user has two default addresses only when forms inserted both at once
\* (apps/users/models.py:127-131).
THEOREM OneDefaultAddress == AddressSpec => []OneDefault
<1>1. AddressInit => BookInv
  <2> SUFFICES ASSUME AddressInit PROVE BookInv
    OBVIOUS
  <2>1. BookType /\ OneHolder
    BY NoSaveIsARow DEF AddressInit, BookType, SaveShape, OneHolder
  <2>2. \A f \in Form : ~Clearing(f) /\ ~saves[f].new
    BY NoSaveIsARow DEF AddressInit, Clearing
  <2>3. OneDefault
    BY DEF AddressInit, OneDefault
  <2> QED
    BY <2>1, <2>2, <2>3 DEF BookInv, ClearsDefaults, InsertSees, InsertsOverlap, OneWaits
<1>2. BookInv /\ [AddressNext]_addressVars => BookInv'
  <2> SUFFICES ASSUME BookInv, [AddressNext]_addressVars PROVE BookInv'
    OBVIOUS
  <2>1. CASE UNCHANGED addressVars
    BY <2>1 DEF addressVars, BookInv, BookType, SaveShape, Stored, OneHolder, OneDefault,
       ClearsDefaults, InsertSees, InsertsOverlap, OneWaits, Clearing, Sees, Ahead, Overlapped
  <2>2. ASSUME NEW f \in Form,
               \/ \E a \in Address, default \in BOOLEAN : Save(f, a, default)
               \/ Take(f) \/ ClearOthers(f) \/ ClearNext(f) \/ CommitSave(f) \/ Victim(f)
        PROVE  BookInv'
    BY <2>2, SaveKeepsBook, TakeKeepsBook, ClearKeepsBook, CommitKeepsBook, VictimKeepsBook
  <2> QED
    BY <2>1, <2>2, DeleteKeepsBook DEF AddressNext
<1>3. BookInv => OneDefault
  BY DEF BookInv
<1> QED
  BY <1>1, <1>2, <1>3, PTL DEF AddressSpec

(***************************************************************************)
(* The account and its one-time codes.                                     *)
(*                                                                         *)
(* A request that judges a code, or resets with it, has the row to itself  *)
(* and finds it unused as long as it does: so what it read of it is still  *)
(* true when it writes.                                                    *)
(***************************************************************************)

CodeRow == [purpose : Purpose, created : Nat, expires : Nat, locked : Nat, wrong : Nat,
            resends : Nat, used : BOOLEAN, verified : BOOLEAN]
TokenRow == [by : Nat, revoked : BOOLEAN, raced : BOOLEAN]
ResetRow == [code : Nat, at : Nat]

\* What a request knows at each point.
MayIssue(r) ==
    LET c == call[r]
    IN  /\ c.purpose \in Purpose /\ c.after \in Nat /\ c.resends \in Nat
        /\ c.pc # "issuing" => c.at \in Nat
        /\ c.pc = "locking" => c.after \in DOMAIN codes
        /\ c.pc = "issuing" => c.rows \subseteq DOMAIN codes
Saw(r) ==
    LET c == call[r]
    IN  /\ c.purpose \in Purpose /\ c.at \in Nat
        /\ c.seen \subseteq {i \in DOMAIN codes : codes[i].purpose = c.purpose}
Judges(r) ==
    LET c == call[r]
    IN  /\ c.purpose \in Purpose /\ c.at \in Nat
        /\ \E i \in DOMAIN codes :
              /\ c.rows = {i} /\ ~codes[i].used /\ codes[i].purpose = c.purpose
              /\ c.wrong = codes[i].wrong
Resets(r) ==
    LET c == call[r]
    IN  /\ c.at \in Nat
        /\ \E i \in DOMAIN codes :
              /\ c.rows = {i} /\ ~codes[i].used
              /\ confirmed[i] \in c.at - RESET_WINDOW .. c.at

CallShape(r) ==
    LET c == call[r]
    IN  /\ c.pc \in {"free", "locking", "issue", "issuing", "mailed", "verify", "reset",
                     "judging", "resetting", "revoking", "tokens"}
        /\ c.pc \in {"locking", "issue", "issuing"} => MayIssue(r)
        /\ c.pc = "mailed" => c.row \in DOMAIN codes /\ c.resends \in Nat
        /\ c.pc \in {"verify", "reset"} => Saw(r)
        /\ c.pc = "judging" => Judges(r)
        /\ c.pc \in {"resetting", "revoking"} => Resets(r)
        /\ c.pc = "revoking" => /\ c.tokens \subseteq DOMAIN tokens
                                /\ \A t \in DOMAIN tokens \ c.tokens : tokens[t].raced
        /\ c.pc = "tokens" => c.by \in Nat

\* A row is locked by one transaction at a time.
RowsApart == \A r, s \in Client : r # s => Holds(r) \cap Holds(s) = {}

\* A confirmed code can be used for RESET_WINDOW from then.
WindowsOpen ==
    \A i \in DOMAIN codes : codes[i].verified =>
        /\ confirmed[i] \in Nat /\ confirmed[i] <= clock
        /\ codes[i].expires = confirmed[i] + RESET_WINDOW

AccountsType ==
    /\ clock \in Nat /\ password \in Nat
    /\ codes \in Seq(CodeRow) /\ tokens \in Seq(TokenRow) /\ resets \in Seq(ResetRow)
    /\ guesses \in Seq(Nat) /\ Len(guesses) = Len(codes)
    /\ confirmed \in Seq(Nat \cup {Never}) /\ Len(confirmed) = Len(codes)
    /\ \A k \in DOMAIN resets : resets[k].code \in DOMAIN codes
    /\ DOMAIN call = Client

AccountsInv == /\ AccountsType /\ RowsApart /\ WindowsOpen
               /\ \A r \in Client : CallShape(r)
               /\ GuessesCount /\ OneResetPerCode /\ OnlyRacedTokensSurvive

LEMMA TimesAreNat ==
    /\ OTP_CODE_TTL \in Nat /\ LOCKOUT \in Nat /\ RESET_WINDOW \in Nat
    /\ OTP_MAX_ATTEMPTS \in Nat \ {0}
BY AccountsAssumption

LEMMA CodesAreRows ==
    ASSUME AccountsType
    PROVE  /\ DOMAIN codes = 1 .. Len(codes) /\ Len(codes) \in Nat
           /\ DOMAIN guesses = DOMAIN codes /\ DOMAIN confirmed = DOMAIN codes
           /\ \A i \in DOMAIN codes : /\ codes[i] \in CodeRow /\ guesses[i] \in Nat
                                      /\ confirmed[i] \in Nat \cup {Never}
           /\ \A t \in DOMAIN tokens : tokens[t] \in TokenRow
           /\ \A k \in DOMAIN resets : resets[k] \in ResetRow
BY DEF AccountsType

\* What becomes of a request while others work on rows that are not its own.
LEMMA OthersKeep ==
    ASSUME NEW s \in Client, CallShape(s), call'[s] = call[s],
           DOMAIN codes \subseteq DOMAIN codes',
           \A i \in DOMAIN codes : codes'[i].purpose = codes[i].purpose,
           \A i \in Holds(s) : /\ codes'[i].used = codes[i].used
                               /\ codes'[i].wrong = codes[i].wrong
                               /\ confirmed'[i] = confirmed[i],
           DOMAIN tokens \subseteq DOMAIN tokens',
           \A t \in DOMAIN tokens : tokens'[t].raced = tokens[t].raced,
           \A t \in DOMAIN tokens' \ DOMAIN tokens : In(s, "revoking") => tokens'[t].raced
    PROVE  CallShape(s)' /\ Holds(s)' = Holds(s)
<1>1. Holds(s)' = Holds(s)
  BY DEF Holds
<1>2. MayIssue(s) => MayIssue(s)'
  BY DEF MayIssue
<1>3. Saw(s) => Saw(s)'
  BY DEF Saw
<1>4. call[s].pc = "judging" /\ Judges(s) => Judges(s)'
  BY DEF Judges, Holds
<1>5. call[s].pc \in {"resetting", "revoking"} /\ Resets(s) => Resets(s)'
  BY DEF Resets, Holds
<1>6. call[s].pc = "revoking" =>
         /\ call'[s].tokens \subseteq DOMAIN tokens'
         /\ \A t \in DOMAIN tokens' \ call'[s].tokens : tokens'[t].raced
  BY DEF CallShape, In
<1> QED
  BY <1>1, <1>2, <1>3, <1>4, <1>5, <1>6 DEF CallShape

\* A step of one request that writes no row.
LEMMA OnlyTheCall ==
    ASSUME AccountsInv, UNCHANGED <<clock, codes, password, tokens, guesses, confirmed, resets>>,
           NEW r \in Client, NEW c, Continue(r, c), CallShape(r)',
           \A s \in Client \ {r} : Holds(r)' \cap Holds(s) = {}
    PROVE  AccountsInv'
<1>1. DOMAIN call' = Client /\ \A s \in Client \ {r} : call'[s] = call[s]
  BY DEF AccountsInv, AccountsType, Continue
<1>2. \A s \in Client \ {r} : CallShape(s)' /\ Holds(s)' = Holds(s)
  BY <1>1, OthersKeep DEF AccountsInv
<1>3. RowsApart'
  BY <1>2 DEF AccountsInv, RowsApart
<1>4. AccountsType' /\ WindowsOpen'
  BY <1>1 DEF AccountsInv, AccountsType, WindowsOpen
<1>5. GuessesCount' /\ OneResetPerCode' /\ OnlyRacedTokensSurvive'
  BY DEF AccountsInv, GuessesCount, OneResetPerCode, OnlyRacedTokensSurvive
<1> QED
  BY <1>2, <1>3, <1>4, <1>5 DEF AccountsInv

LEMMA NoCallShape ==
    ASSUME NEW r \in Client, AccountsType, Done(r)
    PROVE  CallShape(r)' /\ Holds(r)' = {} /\ Continue(r, NoCall)
<1>1. call'[r] = NoCall /\ NoCall.pc = "free"
  BY DEF Done, Continue, AccountsType, NoCall
<1> QED
  BY <1>1 DEF CallShape, Holds, Done

\* A row that its request lets go, or that nobody had.
LEMMA RowChanges ==
    ASSUME AccountsInv, NEW r \in Client, Done(r),
           NEW i \in DOMAIN codes, NEW row \in CodeRow, codes' = [codes EXCEPT ![i] = row],
           row.purpose = codes[i].purpose, \A s \in Client \ {r} : i \notin Holds(s),
           \A j \in DOMAIN codes \ {i} : confirmed'[j] = confirmed[j],
           DOMAIN tokens' = DOMAIN tokens,
           \A t \in DOMAIN tokens : tokens'[t].raced = tokens[t].raced
    PROVE  /\ codes' \in Seq(CodeRow) /\ Len(codes') = Len(codes)
           /\ DOMAIN codes' = DOMAIN codes
           /\ codes'[i] = row /\ \A j \in DOMAIN codes \ {i} : codes'[j] = codes[j]
           /\ DOMAIN call' = Client /\ RowsApart'
           /\ \A s \in Client : CallShape(s)'
<1>1. /\ codes' \in Seq(CodeRow) /\ Len(codes') = Len(codes)
      /\ DOMAIN codes' = DOMAIN codes
      /\ codes'[i] = row /\ \A j \in DOMAIN codes \ {i} : codes'[j] = codes[j]
  <2>1. codes \in Seq(CodeRow) /\ DOMAIN codes = 1 .. Len(codes)
    BY CodesAreRows DEF AccountsInv, AccountsType
  <2> QED
    BY <2>1, ExceptSeq
<1>2. DOMAIN call' = Client /\ \A s \in Client \ {r} : call'[s] = call[s]
  BY DEF AccountsInv, AccountsType, Done, Continue
<1>3. \A s \in Client \ {r} : Holds(s) \subseteq DOMAIN codes \ {i}
  BY DEF AccountsInv, CallShape, Holds, MayIssue, Judges, Resets
<1>4. ASSUME NEW s \in Client \ {r} PROVE CallShape(s)' /\ Holds(s)' = Holds(s)
  BY <1>1, <1>2, <1>3, OthersKeep DEF AccountsInv
<1>5. CallShape(r)' /\ Holds(r)' = {}
  BY NoCallShape DEF AccountsInv
<1> QED
  BY <1>1, <1>2, <1>4, <1>5 DEF AccountsInv, RowsApart

\* Rows are used up, mailed again and locked out without anybody's count or
\* window changing.
LEMMA RowKeepsCounts ==
    ASSUME AccountsInv, NEW r \in Client, Done(r),
           NEW i \in DOMAIN codes, NEW row \in CodeRow, codes' = [codes EXCEPT ![i] = row],
           row.purpose = codes[i].purpose, \A s \in Client \ {r} : i \notin Holds(s),
           codes[i].used => row.used, row.wrong = codes[i].wrong,
           row.verified = codes[i].verified, row.expires = codes[i].expires,
           UNCHANGED <<clock, password, tokens, guesses, confirmed, resets>>
    PROVE  AccountsInv'
<1>1. /\ codes' \in Seq(CodeRow) /\ Len(codes') = Len(codes) /\ DOMAIN codes' = DOMAIN codes
      /\ DOMAIN call' = Client /\ RowsApart' /\ \A s \in Client : CallShape(s)'
      /\ codes'[i] = row /\ \A j \in DOMAIN codes \ {i} : codes'[j] = codes[j]
  BY RowChanges
<1>2. \A j \in DOMAIN codes :
          /\ codes'[j].purpose = codes[j].purpose /\ codes'[j].wrong = codes[j].wrong
          /\ codes'[j].verified = codes[j].verified /\ codes'[j].expires = codes[j].expires
          /\ codes[j].used => codes'[j].used
  BY <1>1
<1>3. AccountsType'
  BY <1>1 DEF AccountsInv, AccountsType
<1>4. GuessesCount' /\ WindowsOpen'
  BY <1>1, <1>2 DEF AccountsInv, GuessesCount, WindowsOpen
<1>5. OneResetPerCode'
  BY <1>1, <1>2 DEF AccountsInv, AccountsType, OneResetPerCode
<1>6. OnlyRacedTokensSurvive'
  BY DEF AccountsInv, OnlyRacedTokensSurvive
<1> QED
  BY <1>1, <1>3, <1>4, <1>5, <1>6 DEF AccountsInv

\* The newest of some rows is one of them.
LEMMA NewestIsARow ==
    ASSUME NEW n \in Nat, NEW rows, rows \subseteq 1 .. n, rows # {}
    PROVE  Newest(rows) \in rows /\ Newest(rows) # 0
<1> DEFINE after == {n - i : i \in rows}
<1>1. after \subseteq Nat /\ after # {}
  <2>1. \A i \in rows : n - i \in Nat
    OBVIOUS
  <2> QED
    BY <2>1
<1>2. PICK d \in after : \A e \in after : <<e, d>> \notin OpToRel(<, Nat)
  <2> HIDE DEF after
  <2> QED
    BY <1>1, NatLessThanWellFounded, WFMin
<1>3. PICK i \in rows : d = n - i
  OBVIOUS
<1>4. \A j \in rows : j <= i
  <2>1. ASSUME NEW j \in rows PROVE ~(n - j < d)
    <3>1. n - j \in after /\ n - j \in Nat /\ d \in Nat
      BY <1>1
    <3> HIDE DEF after
    <3> QED
      BY <1>2, <3>1 DEF OpToRel
  <2> QED
    BY <1>3, <2>1
<1>5. Newest(rows) \in rows
  BY <1>4 DEF Newest
<1> QED
  BY <1>5

LEMMA NewestOrNone ==
    ASSUME AccountsType, NEW rows, rows \subseteq DOMAIN codes
    PROVE  Newest(rows) \in rows \/ Newest(rows) = 0
<1>1. rows \subseteq 1 .. Len(codes) /\ Len(codes) \in Nat
  BY CodesAreRows
<1>2. CASE rows = {}
  BY <1>2 DEF Newest
<1>3. CASE rows # {}
  BY <1>1, <1>3, NewestIsARow
<1> QED
  BY <1>2, <1>3

LEMMA IssuingReads ==
    ASSUME AccountsInv, NEW r \in Client, NEW purpose \in Purpose,
           ResendRead(r, purpose) \/ BeginCode(r, purpose) \/ IssueWithdraw(r)
    PROVE  AccountsInv'
<1>1. AccountsType
  BY DEF AccountsInv
<1>2. CASE ResendRead(r, purpose)
  <2> DEFINE current == Newest(Unused(purpose))
             c == [pc |-> IF current # 0 /\ codes[current].resends >= MAX_RESENDS
                          THEN "locking" ELSE "issue",
                   purpose |-> purpose, after |-> current, at |-> clock,
                   resends |-> IF current = 0 THEN 0 ELSE codes[current].resends + 1]
  <2>1. Continue(r, c)
    BY <1>2 DEF ResendRead
  <2>2. current \in DOMAIN codes \/ current = 0
    BY <1>1, NewestOrNone DEF Unused
  <2>3. current \in Nat /\ (IF current = 0 THEN 0 ELSE codes[current].resends + 1) \in Nat
    <3> HIDE DEF current
    <3> QED
      BY <1>1, <2>2, CodesAreRows DEF CodeRow
  <2> HIDE DEF current
  <2>4. /\ c.pc \in {"locking", "issue"} /\ c.purpose = purpose /\ c.after = current
        /\ c.at = clock /\ c.resends \in Nat /\ (c.pc = "locking" => current \in DOMAIN codes)
    BY <2>2, <2>3
  <2>5. call'[r] = c
    BY <1>1, <2>1 DEF Continue, AccountsType
  <2> HIDE DEF c
  <2>6. CallShape(r)' /\ Holds(r)' = {}
    BY <1>1, <1>2, <2>3, <2>4, <2>5 DEF CallShape, MayIssue, Holds, ResendRead, AccountsType
  <2> QED
    BY <1>2, <2>1, <2>6, OnlyTheCall DEF ResendRead
<1>3. CASE BeginCode(r, purpose)
  <2> DEFINE c == [pc |-> "issue", purpose |-> purpose, after |-> 0, at |-> clock, resends |-> 0]
  <2>1. Continue(r, c)
    BY <1>3 DEF BeginCode
  <2>2. call'[r] = c
    BY <1>1, <2>1 DEF Continue, AccountsType
  <2>3. CallShape(r)' /\ Holds(r)' = {}
    BY <1>1, <1>3, <2>2 DEF CallShape, MayIssue, Holds, BeginCode, AccountsType
  <2> HIDE DEF c
  <2> QED
    BY <1>3, <2>1, <2>3, OnlyTheCall DEF BeginCode
<1>4. CASE IssueWithdraw(r)
  <2> DEFINE rows == Unused(call[r].purpose)
             c == [purpose |-> call[r].purpose, after |-> call[r].after,
                   resends |-> call[r].resends, pc |-> "issuing", rows |-> rows]
  <2>1. Continue(r, c) /\ ~Held(rows) /\ call[r].pc = "issue"
    BY <1>4 DEF IssueWithdraw, In
  <2>2. call'[r] = c
    BY <1>1, <2>1 DEF Continue, AccountsType
  <2>3. MayIssue(r) /\ rows \subseteq DOMAIN codes
    BY <2>1 DEF AccountsInv, CallShape, Unused
  <2> HIDE DEF rows
  <2>4. CallShape(r)' /\ Holds(r)' = rows
    BY <1>4, <2>2, <2>3 DEF CallShape, MayIssue, Holds, IssueWithdraw
  <2>5. \A s \in Client \ {r} : Holds(r)' \cap Holds(s) = {}
    BY <2>1, <2>4 DEF Held
  <2> HIDE DEF c
  <2> QED
    BY <1>4, <2>1, <2>4, <2>5, OnlyTheCall DEF IssueWithdraw
<1> QED
  BY <1>2, <1>3, <1>4

LEMMA IssuingWrites ==
    ASSUME AccountsInv, NEW r \in Client, ResendLock(r) \/ ResendCount(r)
    PROVE  AccountsInv'
<1>1. AccountsType /\ CallShape(r)
  BY DEF AccountsInv
<1>2. CASE ResendLock(r)
  <2> DEFINE i == call[r].after
             row == [codes[i] EXCEPT !.locked = call[r].at + LOCKOUT, !.used = TRUE]
  <2>1. codes' = [codes EXCEPT ![i] = row] /\ ~Held({i}) /\ Done(r)
    BY <1>2 DEF ResendLock
  <2>2. i \in DOMAIN codes /\ codes[i] \in CodeRow /\ call[r].at + LOCKOUT \in Nat
    <3>1. i \in DOMAIN codes /\ call[r].at \in Nat
      BY <1>1, <1>2 DEF CallShape, MayIssue, ResendLock, In
    <3> QED
      BY <1>1, <3>1, CodesAreRows, TimesAreNat
  <2>3. /\ row \in CodeRow /\ row.purpose = codes[i].purpose /\ row.used
        /\ row.wrong = codes[i].wrong /\ row.verified = codes[i].verified
        /\ row.expires = codes[i].expires
    BY <2>2 DEF CodeRow
  <2> HIDE DEF row
  <2> QED
    BY <1>2, <2>1, <2>2, <2>3, RowKeepsCounts DEF ResendLock, Held
<1>3. CASE ResendCount(r)
  <2> DEFINE i == call[r].row
             row == [codes[i] EXCEPT !.resends = call[r].resends]
  <2>1. codes' = [codes EXCEPT ![i] = row] /\ ~Held({i}) /\ Done(r)
    BY <1>3 DEF ResendCount
  <2>2. i \in DOMAIN codes /\ codes[i] \in CodeRow /\ call[r].resends \in Nat
    BY <1>1, <1>3, CodesAreRows DEF CallShape, ResendCount, In
  <2>3. /\ row \in CodeRow /\ row.purpose = codes[i].purpose /\ row.used = codes[i].used
        /\ row.wrong = codes[i].wrong /\ row.verified = codes[i].verified
        /\ row.expires = codes[i].expires
    BY <2>2 DEF CodeRow
  <2> HIDE DEF row
  <2> QED
    BY <1>3, <2>1, <2>2, <2>3, RowKeepsCounts DEF ResendCount, Held
<1> QED
  BY <1>2, <1>3

\* What was spent stays spent.
LEMMA ResetsKept ==
    ASSUME AccountsInv, UNCHANGED <<password, resets>>,
           \A i \in DOMAIN codes : codes[i].used => codes'[i].used /\ confirmed'[i] = confirmed[i]
    PROVE  OneResetPerCode'
<1>1. \A k \in DOMAIN resets : resets[k].code \in DOMAIN codes
  BY DEF AccountsInv, AccountsType
<1> QED
  BY <1>1 DEF AccountsInv, OneResetPerCode

\* Withdrawing is not a write of one row but of all that are listed.
LEMMA WithdrawnRows ==
    ASSUME AccountsType, NEW rows
    PROVE  LET after == Withdrawn(rows)
           IN  /\ after \in Seq(CodeRow) /\ Len(after) = Len(codes)
               /\ \A i \in DOMAIN codes :
                    /\ after[i].purpose = codes[i].purpose /\ after[i].wrong = codes[i].wrong
                    /\ after[i].verified = codes[i].verified
                    /\ after[i].expires = codes[i].expires
                    /\ codes[i].used => after[i].used
                    /\ i \notin rows => after[i].used = codes[i].used
<1> DEFINE after == Withdrawn(rows)
<1>1. ASSUME NEW i \in DOMAIN codes
      PROVE  /\ after[i] \in CodeRow
             /\ after[i].purpose = codes[i].purpose /\ after[i].wrong = codes[i].wrong
             /\ after[i].verified = codes[i].verified
             /\ after[i].expires = codes[i].expires
             /\ codes[i].used => after[i].used
             /\ i \notin rows => after[i].used = codes[i].used
  <2>1. codes[i] \in CodeRow /\ after[i] = [codes[i] EXCEPT !.used = @ \/ i \in rows]
    BY CodesAreRows DEF Withdrawn
  <2> DEFINE used == codes[i].used \/ i \in rows
  <2>2. after[i] = [codes[i] EXCEPT !.used = used] /\ used \in BOOLEAN
    BY <2>1
  <2>3. codes[i].used \in BOOLEAN /\ (i \notin rows => used = codes[i].used)
    BY <2>1 DEF CodeRow
  <2>4. codes[i].used => used
    OBVIOUS
  <2> HIDE DEF used, after
  <2> QED
    BY <2>1, <2>2, <2>3, <2>4 DEF CodeRow
<1>2. after = [i \in 1 .. Len(codes) |-> after[i]] /\ Len(codes) \in Nat
  BY CodesAreRows DEF Withdrawn
<1> HIDE DEF after
<1>3. after \in [1 .. Len(codes) -> CodeRow]
  BY <1>1, <1>2, CodesAreRows
<1>4. after \in Seq(CodeRow) /\ Len(after) = Len(codes)
  BY <1>2, <1>3
<1> QED
  BY <1>1, <1>4 DEF after

LEMMA NewCodeIsARow ==
    ASSUME AccountsType, NEW purpose \in Purpose
    PROVE  LET row == NewCode(purpose)
           IN  row \in CodeRow /\ row.wrong = 0 /\ ~row.used /\ ~row.verified
BY TimesAreNat DEF NewCode, CodeRow, AccountsType

LEMMA IssuingCommits ==
    ASSUME AccountsInv, NEW r \in Client, IssueCommit(r)
    PROVE  AccountsInv'
<1> DEFINE n == Len(codes)
           old == Withdrawn(call[r].rows)
           row == NewCode(call[r].purpose)
<1>1. /\ AccountsType /\ MayIssue(r) /\ call[r].pc = "issuing" /\ Holds(r) = call[r].rows
      /\ UNCHANGED <<clock, password, tokens, resets>>
      /\ codes' = Append(old, row) /\ guesses' = Append(guesses, 0)
      /\ confirmed' = Append(confirmed, Never)
  BY DEF AccountsInv, CallShape, IssueCommit, In, Holds
<1>2. /\ old \in Seq(CodeRow) /\ Len(old) = n /\ n \in Nat /\ DOMAIN codes = 1 .. n
      /\ row \in CodeRow /\ row.wrong = 0 /\ ~row.used /\ ~row.verified
  BY <1>1, WithdrawnRows, NewCodeIsARow, CodesAreRows DEF MayIssue
<1>3. \A i \in DOMAIN codes :
         /\ old[i].purpose = codes[i].purpose /\ old[i].wrong = codes[i].wrong
         /\ old[i].verified = codes[i].verified /\ old[i].expires = codes[i].expires
         /\ codes[i].used => old[i].used
         /\ i \notin call[r].rows => old[i].used = codes[i].used
  BY <1>1, WithdrawnRows
<1> HIDE DEF old, row
<1>4. /\ codes' \in Seq(CodeRow) /\ Len(codes') = n + 1 /\ DOMAIN codes' = 1 .. n + 1
      /\ codes'[n + 1] = row /\ \A i \in 1 .. n : codes'[i] = old[i]
  BY <1>1, <1>2, AppendProperties
<1>5. /\ guesses' \in Seq(Nat) /\ Len(guesses') = n + 1
      /\ guesses'[n + 1] = 0 /\ \A i \in 1 .. n : guesses'[i] = guesses[i]
  <2>1. guesses \in Seq(Nat) /\ Len(guesses) = n /\ 0 \in Nat
    BY <1>1 DEF AccountsType
  <2> QED
    BY <1>1, <2>1, AppendProperties
<1>6. /\ confirmed' \in Seq(Nat \cup {Never}) /\ Len(confirmed') = n + 1
      /\ \A i \in 1 .. n : confirmed'[i] = confirmed[i]
  <2>1. /\ confirmed \in Seq(Nat \cup {Never}) /\ Len(confirmed) = n
        /\ Never \in Nat \cup {Never}
    BY <1>1 DEF AccountsType
  <2> HIDE DEF n
  <2> QED
    BY <1>1, <2>1, AppendProperties
<1>7. DOMAIN call' = Client /\ \A s \in Client \ {r} : call'[s] = call[s]
  BY <1>1 DEF IssueCommit, Continue, AccountsType
<1>8. DOMAIN codes \subseteq DOMAIN codes'
  BY <1>2, <1>4
<1>9. ASSUME NEW s \in Client \ {r} PROVE CallShape(s)' /\ Holds(s)' = Holds(s)
  <2>1. Holds(s) \subseteq DOMAIN codes \ call[r].rows
    BY <1>1 DEF AccountsInv, CallShape, Holds, MayIssue, Judges, Resets, RowsApart
  <2> QED
    BY <1>1, <1>2, <1>3, <1>4, <1>6, <1>7, <1>8, <2>1, OthersKeep DEF AccountsInv
<1>10. CallShape(r)' /\ Holds(r)' = {}
  <2>1. call'[r] = IF call[r].after = 0 THEN NoCall
                   ELSE [pc |-> "mailed", row |-> n + 1, resends |-> call[r].resends]
    BY <1>1, <1>4 DEF IssueCommit, Continue, AccountsType
  <2>2. n + 1 \in DOMAIN codes' /\ call[r].resends \in Nat
    BY <1>1, <1>2, <1>4 DEF MayIssue
  <2> QED
    BY <2>1, <2>2 DEF CallShape, Holds, NoCall
<1>11. RowsApart'
  BY <1>9, <1>10 DEF AccountsInv, RowsApart
<1>12. AccountsType'
  BY <1>1, <1>4, <1>5, <1>6, <1>7, <1>8 DEF AccountsType
<1>13. \A i \in DOMAIN codes' : i = n + 1 \/ i \in DOMAIN codes
  BY <1>2, <1>4
<1>14. GuessesCount'
  <2>1. ASSUME NEW i \in DOMAIN codes', codes'[i].purpose = "verify"
        PROVE  /\ codes'[i].wrong = guesses'[i] /\ guesses'[i] <= OTP_MAX_ATTEMPTS
               /\ guesses'[i] = OTP_MAX_ATTEMPTS => codes'[i].used
    <3>1. CASE i = n + 1
      BY <1>2, <1>4, <1>5, <3>1, TimesAreNat
    <3>2. CASE i \in DOMAIN codes
      BY <1>2, <1>3, <1>4, <1>5, <2>1, <3>2 DEF AccountsInv, GuessesCount
    <3> QED
      BY <1>13, <3>1, <3>2
  <2> QED
    BY <2>1 DEF GuessesCount
<1>15. WindowsOpen'
  <2>1. ASSUME NEW i \in DOMAIN codes', codes'[i].verified
        PROVE  /\ confirmed'[i] \in Nat /\ confirmed'[i] <= clock
               /\ codes'[i].expires = confirmed'[i] + RESET_WINDOW
    <3>1. i \in DOMAIN codes
      BY <1>2, <1>4, <1>13, <2>1
    <3>2. /\ codes'[i].verified = codes[i].verified /\ codes'[i].expires = codes[i].expires
          /\ confirmed'[i] = confirmed[i]
      BY <1>2, <1>3, <1>4, <1>6, <3>1
    <3> QED
      BY <2>1, <3>1, <3>2 DEF AccountsInv, WindowsOpen
  <2> HIDE DEF n
  <2>2. clock' = clock
    BY <1>1
  <2> QED
    BY <2>1, <2>2 DEF WindowsOpen
<1>16. OneResetPerCode'
  <2>1. \A i \in DOMAIN codes : codes[i].used => codes'[i].used /\ confirmed'[i] = confirmed[i]
    BY <1>2, <1>3, <1>4, <1>6
  <2> QED
    BY <1>1, <2>1, ResetsKept
<1>17. OnlyRacedTokensSurvive'
  BY <1>1 DEF AccountsInv, OnlyRacedTokensSurvive
<1> QED
  BY <1>9, <1>10, <1>11, <1>12, <1>14, <1>15, <1>16, <1>17 DEF AccountsInv

LEMMA JudgingReads ==
    ASSUME AccountsInv, NEW r \in Client,
           \/ \E purpose \in Purpose, code \in 0 .. Len(codes), next \in {"verify", "reset"} :
                  Ask(r, purpose, code, next)
           \/ TakeCode(r) \/ ResetTake(r)
    PROVE  AccountsInv'
<1>1. AccountsType /\ CallShape(r)
  BY DEF AccountsInv
<1>2. ASSUME NEW purpose \in Purpose, NEW code \in 0 .. Len(codes),
             NEW next \in {"verify", "reset"}, Ask(r, purpose, code, next)
      PROVE  AccountsInv'
  <2> DEFINE seen == {i \in Unused(purpose) : next = "reset" => codes[i].verified}
             c == [pc |-> next, purpose |-> purpose, code |-> code, at |-> clock, seen |-> seen]
  <2>1. Continue(r, c)
    BY <1>2 DEF Ask
  <2>2. seen \subseteq {i \in DOMAIN codes : codes[i].purpose = purpose}
    BY DEF Unused
  <2> HIDE DEF seen
  <2>3. call'[r] = c
    BY <1>1, <2>1 DEF Continue, AccountsType
  <2>4. CallShape(r)' /\ Holds(r)' = {}
    BY <1>1, <1>2, <2>2, <2>3 DEF CallShape, Saw, Holds, Ask, AccountsType
  <2> HIDE DEF c
  <2> QED
    BY <1>2, <2>1, <2>4, OnlyTheCall DEF Ask
<1> DEFINE row == Candidate(r)
           seen == {i \in call[r].seen : ~codes[i].used /\ (In(r, "reset") => codes[i].verified)}
<1>3. row = Newest(seen)
  BY DEF Candidate
<1>4. ASSUME Saw(r), row # 0
      PROVE  /\ row \in DOMAIN codes /\ codes[row].purpose = call[r].purpose
             /\ ~codes[row].used /\ (In(r, "reset") => codes[row].verified)
  <2>1. seen \subseteq DOMAIN codes
    BY <1>4 DEF Saw
  <2>2. row \in seen
    <3> HIDE DEF seen, row
    <3> QED
      BY <1>1, <1>3, <1>4, <2>1, NewestOrNone
  <2> HIDE DEF row
  <2> QED
    BY <1>4, <2>2 DEF Saw
<1> HIDE DEF row, seen
<1>5. CASE TakeCode(r)
  <2>1. /\ Saw(r) /\ ~Held({row})
        /\ UNCHANGED <<clock, codes, password, tokens, guesses, confirmed, resets>>
    BY <1>1, <1>5 DEF TakeCode, CallShape, In, Locks, row
  <2> DEFINE c == [pc |-> "judging", rows |-> {row}, code |-> call[r].code, at |-> call[r].at,
                   wrong |-> codes[row].wrong, purpose |-> call[r].purpose]
  <2>2. CASE Done(r)
    BY <1>1, <2>1, <2>2, NoCallShape, OnlyTheCall
  <2>3. CASE row # 0 /\ Continue(r, c)
    <3>1. call'[r] = c
      BY <1>1, <2>3 DEF Continue, AccountsType
    <3>2. CallShape(r)' /\ Holds(r)' = {row}
      BY <1>4, <2>1, <2>3, <3>1 DEF CallShape, Judges, Holds, Saw
    <3>3. \A s \in Client \ {r} : Holds(r)' \cap Holds(s) = {}
      BY <2>1, <3>2 DEF Held
    <3> HIDE DEF c
    <3> QED
      BY <2>1, <2>3, <3>2, <3>3, OnlyTheCall
  <2> QED
    BY <1>5, <2>2, <2>3 DEF TakeCode, row
<1>6. CASE ResetTake(r)
  <2>1. /\ Saw(r) /\ ~Held({row}) /\ In(r, "reset")
        /\ UNCHANGED <<clock, codes, password, tokens, guesses, confirmed, resets>>
    BY <1>1, <1>6 DEF ResetTake, CallShape, In, Locks, row
  <2> DEFINE c == [pc |-> "resetting", rows |-> {row}, at |-> clock]
  <2>2. CASE Done(r)
    BY <1>1, <2>1, <2>2, NoCallShape, OnlyTheCall
  <2>3. CASE row # 0 /\ codes[row].expires >= clock /\ Continue(r, c)
    <3>1. call'[r] = c
      BY <1>1, <2>3 DEF Continue, AccountsType
    <3>2. /\ row \in DOMAIN codes /\ ~codes[row].used /\ codes[row].verified
      BY <1>4, <2>1, <2>3
    <3>3. confirmed[row] \in clock - RESET_WINDOW .. clock
      <4>1. /\ confirmed[row] \in Nat /\ confirmed[row] <= clock
            /\ codes[row].expires = confirmed[row] + RESET_WINDOW
        BY <3>2 DEF AccountsInv, WindowsOpen
      <4>2. confirmed[row] + RESET_WINDOW >= clock
        BY <2>3, <4>1
      <4> QED
        BY <1>1, <4>1, <4>2, TimesAreNat DEF AccountsType
    <3>4. CallShape(r)' /\ Holds(r)' = {row}
      BY <1>1, <2>1, <3>1, <3>2, <3>3 DEF CallShape, Resets, Holds, AccountsType
    <3>5. \A s \in Client \ {r} : Holds(r)' \cap Holds(s) = {}
      BY <2>1, <3>4 DEF Held
    <3> HIDE DEF c
    <3> QED
      BY <2>1, <2>3, <3>4, <3>5, OnlyTheCall
  <2> QED
    BY <1>6, <2>2, <2>3 DEF ResetTake, row
<1> QED
  BY <1>2, <1>5, <1>6

LEMMA GuessCounts ==
    ASSUME AccountsInv, NEW r \in Client, Wrong(r)
    PROVE  AccountsInv'
<1>1. AccountsType /\ In(r, "judging") /\ Judges(r) /\ Done(r)
      /\ UNCHANGED <<clock, password, tokens, confirmed, resets>> /\ Holds(r) = call[r].rows
  BY DEF AccountsInv, CallShape, Wrong, In, Holds
<1>2. CASE call[r].purpose = "reset"
  <2>1. UNCHANGED <<codes, guesses>>
    BY <1>2 DEF Wrong
  <2> QED
    BY <1>1, <2>1, NoCallShape, OnlyTheCall
<1>3. CASE call[r].purpose # "reset"
  <2>1. PICK i \in DOMAIN codes :
            /\ call[r].rows = {i} /\ ~codes[i].used /\ codes[i].purpose = "verify"
            /\ call[r].wrong = codes[i].wrong
    BY <1>1, <1>3 DEF Judges, Purpose
  <2> DEFINE row == Counted(codes[i], codes[i].wrong, call[r].at)
  <2>2. /\ codes' = [codes EXCEPT ![i] = row] /\ guesses' = [guesses EXCEPT ![i] = @ + 1]
    <3>1. PICK j \in Holds(r) :
              /\ codes' = [codes EXCEPT ![j] = Counted(@, call[r].wrong, call[r].at)]
              /\ guesses' = [guesses EXCEPT ![j] = @ + 1]
      BY <1>3 DEF Wrong
    <3>2. j = i
      BY <1>1, <2>1
    <3> QED
      BY <2>1, <3>1, <3>2
  <2>3. /\ codes[i] \in CodeRow /\ call[r].at \in Nat /\ guesses[i] \in Nat /\ i \in 1 .. Len(guesses)
        /\ codes[i].wrong = guesses[i] /\ guesses[i] < OTP_MAX_ATTEMPTS
    <3>1. codes[i] \in CodeRow /\ call[r].at \in Nat /\ guesses[i] \in Nat /\ i \in 1 .. Len(guesses)
      BY <1>1, CodesAreRows DEF Judges, AccountsType
    <3>2. /\ codes[i].wrong = guesses[i] /\ guesses[i] <= OTP_MAX_ATTEMPTS
          /\ guesses[i] # OTP_MAX_ATTEMPTS
      BY <2>1 DEF AccountsInv, GuessesCount
    <3> QED
      BY <3>1, <3>2, TimesAreNat
  <2>4. /\ row \in CodeRow /\ row.purpose = codes[i].purpose
        /\ row.wrong = guesses[i] + 1 /\ row.wrong <= OTP_MAX_ATTEMPTS
        /\ row.wrong = OTP_MAX_ATTEMPTS => row.used
        /\ row.verified = codes[i].verified /\ row.expires = codes[i].expires
    <3>1. codes[i].wrong + 1 \in Nat /\ call[r].at + LOCKOUT \in Nat
      BY <2>3, TimesAreNat
    <3>2. CASE codes[i].wrong + 1 >= OTP_MAX_ATTEMPTS
      <4>1. row = [codes[i] EXCEPT !.wrong = codes[i].wrong + 1,
                                   !.locked = call[r].at + LOCKOUT, !.used = TRUE]
        BY <3>2 DEF Counted
      <4> HIDE DEF row
      <4>2. /\ row \in CodeRow /\ row.purpose = codes[i].purpose
            /\ row.wrong = codes[i].wrong + 1 /\ row.used
            /\ row.verified = codes[i].verified /\ row.expires = codes[i].expires
        <5>1. codes[i] \in CodeRow
          BY <2>3
        <5> QED
          BY <3>1, <4>1, <5>1 DEF CodeRow
      <4>3. codes[i].wrong + 1 <= OTP_MAX_ATTEMPTS
        BY <2>3, TimesAreNat
      <4> QED
        BY <2>3, <4>2, <4>3
    <3>3. CASE ~(codes[i].wrong + 1 >= OTP_MAX_ATTEMPTS)
      <4>1. row = [codes[i] EXCEPT !.wrong = codes[i].wrong + 1]
        BY <3>3 DEF Counted
      <4> HIDE DEF row
      <4>2. row.wrong # OTP_MAX_ATTEMPTS /\ row.wrong <= OTP_MAX_ATTEMPTS
        BY <2>3, <3>3, <4>1, TimesAreNat DEF CodeRow
      <4> QED
        BY <2>3, <3>1, <4>1, <4>2 DEF CodeRow
    <3> QED
      BY <3>2, <3>3
  <2> HIDE DEF row
  <2>5. \A s \in Client \ {r} : i \notin Holds(s)
    BY <1>1, <2>1 DEF AccountsInv, RowsApart
  <2>6. /\ codes' \in Seq(CodeRow) /\ Len(codes') = Len(codes) /\ DOMAIN codes' = DOMAIN codes
        /\ DOMAIN call' = Client /\ RowsApart' /\ \A s \in Client : CallShape(s)'
        /\ codes'[i] = row /\ \A j \in DOMAIN codes \ {i} : codes'[j] = codes[j]
    BY <1>1, <2>2, <2>4, <2>5, RowChanges
  <2>7. /\ guesses' \in Seq(Nat) /\ Len(guesses') = Len(guesses)
        /\ guesses'[i] = guesses[i] + 1
        /\ \A j \in DOMAIN codes \ {i} : guesses'[j] = guesses[j]
    <3>1. /\ guesses \in Seq(Nat) /\ guesses[i] + 1 \in Nat
          /\ guesses' = [guesses EXCEPT ![i] = guesses[i] + 1] /\ DOMAIN codes = 1 .. Len(guesses)
      BY <1>1, <2>2, <2>3, CodesAreRows DEF AccountsType
    <3> QED
      BY <2>3, <3>1, ExceptSeq
  <2>8. AccountsType'
    BY <1>1, <2>6, <2>7 DEF AccountsType
  <2>9. GuessesCount'
    <3>1. ASSUME NEW j \in DOMAIN codes, codes'[j].purpose = "verify"
          PROVE  /\ codes'[j].wrong = guesses'[j] /\ guesses'[j] <= OTP_MAX_ATTEMPTS
                 /\ guesses'[j] = OTP_MAX_ATTEMPTS => codes'[j].used
      <4>1. CASE j = i
        BY <2>4, <2>6, <2>7, <4>1
      <4>2. CASE j # i
        BY <2>6, <2>7, <3>1, <4>2 DEF AccountsInv, GuessesCount
      <4> QED
        BY <4>1, <4>2
    <3> QED
      BY <2>6, <3>1 DEF GuessesCount
  <2>10. WindowsOpen'
    <3>1. \A j \in DOMAIN codes : /\ codes'[j].verified = codes[j].verified
                                  /\ codes'[j].expires = codes[j].expires
      BY <2>4, <2>6
    <3> QED
      BY <1>1, <2>6, <3>1 DEF AccountsInv, WindowsOpen
  <2>11. OneResetPerCode' /\ OnlyRacedTokensSurvive'
    <3>1. \A j \in DOMAIN codes : codes[j].used => codes'[j].used /\ confirmed'[j] = confirmed[j]
      BY <1>1, <2>1, <2>6
    <3> QED
      BY <1>1, <3>1, ResetsKept DEF AccountsInv, OnlyRacedTokensSurvive
  <2> QED
    BY <2>6, <2>8, <2>9, <2>10, <2>11 DEF AccountsInv
<1> QED
  BY <1>2, <1>3

LEMMA CodeAccepted ==
    ASSUME AccountsInv, NEW r \in Client, Verified(r) \/ Confirmed(r)
    PROVE  AccountsInv'
<1>1. /\ AccountsType /\ Judges(r) /\ Done(r) /\ Holds(r) = call[r].rows
      /\ UNCHANGED <<clock, password, tokens, guesses, resets>>
  BY DEF AccountsInv, CallShape, Verified, Confirmed, In, Holds
<1>2. PICK i \in DOMAIN codes : call[r].rows = {i} /\ ~codes[i].used
  BY <1>1 DEF Judges
<1>3. codes[i] \in CodeRow /\ \A s \in Client \ {r} : i \notin Holds(s)
  BY <1>1, <1>2, CodesAreRows DEF AccountsInv, RowsApart
<1>4. CASE Verified(r)
  <2> DEFINE row == [codes[i] EXCEPT !.used = TRUE]
  <2>1. codes' = [codes EXCEPT ![i] = row] /\ UNCHANGED confirmed
    BY <1>1, <1>2, <1>4 DEF Verified
  <2>2. /\ row \in CodeRow /\ row.purpose = codes[i].purpose /\ row.used
        /\ row.wrong = codes[i].wrong /\ row.verified = codes[i].verified
        /\ row.expires = codes[i].expires
    BY <1>3 DEF CodeRow
  <2> HIDE DEF row
  <2> QED
    BY <1>1, <1>3, <2>1, <2>2, RowKeepsCounts
<1>5. CASE Confirmed(r)
  <2> DEFINE row == [codes[i] EXCEPT !.verified = TRUE, !.expires = clock + RESET_WINDOW]
  <2>1. codes' = [codes EXCEPT ![i] = row] /\ confirmed' = [confirmed EXCEPT ![i] = clock]
    <3>1. PICK j \in Holds(r) :
              /\ codes' = [codes EXCEPT ![j].verified = TRUE,
                                        ![j].expires = clock + RESET_WINDOW]
              /\ confirmed' = [confirmed EXCEPT ![j] = clock]
      BY <1>5 DEF Confirmed
    <3>2. j = i
      BY <1>1, <1>2
    <3> QED
      BY <3>1, <3>2
  <2>2. clock \in Nat /\ clock + RESET_WINDOW \in Nat
    BY <1>1, TimesAreNat DEF AccountsType
  <2>3. /\ row \in CodeRow /\ row.purpose = codes[i].purpose /\ row.used = codes[i].used
        /\ row.wrong = codes[i].wrong /\ row.verified /\ row.expires = clock + RESET_WINDOW
    BY <1>3, <2>2 DEF CodeRow
  <2> HIDE DEF row
  <2>4. /\ confirmed' \in Seq(Nat \cup {Never}) /\ Len(confirmed') = Len(confirmed)
        /\ confirmed'[i] = clock
        /\ \A j \in DOMAIN codes \ {i} : confirmed'[j] = confirmed[j]
    <3>1. /\ confirmed \in Seq(Nat \cup {Never}) /\ clock \in Nat \cup {Never}
          /\ DOMAIN codes = 1 .. Len(confirmed)
      BY <1>1, <2>2, CodesAreRows DEF AccountsType
    <3> QED
      BY <2>1, <3>1, ExceptSeq
  <2>5. /\ codes' \in Seq(CodeRow) /\ Len(codes') = Len(codes) /\ DOMAIN codes' = DOMAIN codes
        /\ DOMAIN call' = Client /\ RowsApart' /\ \A s \in Client : CallShape(s)'
        /\ codes'[i] = row /\ \A j \in DOMAIN codes \ {i} : codes'[j] = codes[j]
    BY <1>1, <1>3, <2>1, <2>3, <2>4, RowChanges
  <2>6. AccountsType'
    BY <1>1, <2>4, <2>5 DEF AccountsType
  <2>7. GuessesCount'
    <3>1. \A j \in DOMAIN codes :
             /\ codes'[j].purpose = codes[j].purpose /\ codes'[j].wrong = codes[j].wrong
             /\ codes'[j].used = codes[j].used
      BY <2>3, <2>5
    <3> QED
      BY <1>1, <2>5, <3>1 DEF AccountsInv, GuessesCount
  <2>8. WindowsOpen'
    <3>1. ASSUME NEW j \in DOMAIN codes, codes'[j].verified
          PROVE  /\ confirmed'[j] \in Nat /\ confirmed'[j] <= clock
                 /\ codes'[j].expires = confirmed'[j] + RESET_WINDOW
      <4>1. CASE j = i
        BY <2>2, <2>3, <2>4, <2>5, <4>1
      <4>2. CASE j # i
        BY <2>4, <2>5, <3>1, <4>2 DEF AccountsInv, WindowsOpen
      <4> QED
        BY <4>1, <4>2
    <3>2. clock' = clock
      BY <1>1
    <3> QED
      BY <2>5, <3>1, <3>2 DEF WindowsOpen
  <2>9. OneResetPerCode' /\ OnlyRacedTokensSurvive'
    <3>1. \A j \in DOMAIN codes : codes[j].used => codes'[j].used /\ confirmed'[j] = confirmed[j]
      BY <1>2, <2>4, <2>5
    <3> QED
      BY <1>1, <3>1, ResetsKept DEF AccountsInv, OnlyRacedTokensSurvive
  <2> QED
    BY <2>5, <2>6, <2>7, <2>8, <2>9 DEF AccountsInv
<1> QED
  BY <1>4, <1>5

LEMMA ResetRevokes ==
    ASSUME AccountsInv, NEW r \in Client, ResetRevoke(r)
    PROVE  AccountsInv'
<1> DEFINE c == [pc |-> "revoking", rows |-> call[r].rows, at |-> call[r].at,
                 tokens |-> DOMAIN tokens]
<1>1. /\ AccountsType /\ Resets(r) /\ Holds(r) = call[r].rows /\ Continue(r, c)
      /\ UNCHANGED <<clock, codes, password, tokens, guesses, confirmed, resets>>
  BY DEF AccountsInv, CallShape, ResetRevoke, Revokes, In, Holds
<1>2. call'[r] = c
  BY <1>1 DEF Continue, AccountsType
<1>3. /\ c.pc = "revoking" /\ c.rows = call[r].rows /\ c.at = call[r].at
      /\ c.tokens = DOMAIN tokens
  OBVIOUS
<1> HIDE DEF c
<1>4. Resets(r)' /\ Holds(r)' = Holds(r)
  BY <1>1, <1>2, <1>3 DEF Resets, Holds
<1>5. CallShape(r)'
  BY <1>1, <1>2, <1>3, <1>4 DEF CallShape
<1>6. \A s \in Client \ {r} : Holds(r)' \cap Holds(s) = {}
  BY <1>4 DEF AccountsInv, RowsApart
<1> QED
  BY <1>1, <1>5, <1>6, OnlyTheCall

\* The password changes: the code goes with it, and every token that was
\* there when the revocation began.
LEMMA ResetCommits ==
    ASSUME AccountsInv, NEW r \in Client, ResetCommit(r)
    PROVE  AccountsInv'
<1>1. /\ AccountsType /\ In(r, "revoking") /\ Resets(r) /\ Done(r) /\ Holds(r) = call[r].rows
      /\ password' = password + 1 /\ UNCHANGED <<clock, guesses, confirmed>>
      /\ tokens' = [t \in DOMAIN tokens |->
                       [tokens[t] EXCEPT !.revoked = @ \/ t \in call[r].tokens]]
      /\ \A t \in DOMAIN tokens \ call[r].tokens : tokens[t].raced
  BY DEF AccountsInv, CallShape, ResetCommit, In, Holds
<1>2. PICK i \in DOMAIN codes :
          /\ call[r].rows = {i} /\ ~codes[i].used
          /\ confirmed[i] \in call[r].at - RESET_WINDOW .. call[r].at
  BY <1>1 DEF Resets
<1> DEFINE row == [codes[i] EXCEPT !.used = TRUE, !.verified = FALSE]
           reset == [code |-> i, at |-> call[r].at]
<1>3. codes' = [codes EXCEPT ![i] = row] /\ resets' = Append(resets, reset)
  <2>1. PICK j \in Holds(r) :
            /\ codes' = [codes EXCEPT ![j].used = TRUE, ![j].verified = FALSE]
            /\ resets' = Append(resets, [code |-> j, at |-> call[r].at])
    BY DEF ResetCommit
  <2>2. j = i
    BY <1>1, <1>2
  <2> QED
    BY <2>1, <2>2
<1>4. codes[i] \in CodeRow /\ \A s \in Client \ {r} : i \notin Holds(s)
  BY <1>1, <1>2, CodesAreRows DEF AccountsInv, RowsApart
<1>5. /\ row \in CodeRow /\ row.purpose = codes[i].purpose /\ row.used
      /\ row.wrong = codes[i].wrong /\ ~row.verified
  BY <1>4 DEF CodeRow
<1>6. reset \in ResetRow /\ reset.code = i /\ reset.at = call[r].at
  BY <1>1, <1>2, CodesAreRows DEF ResetRow, Resets
<1> HIDE DEF row, reset
<1>7. /\ tokens' \in Seq(TokenRow) /\ DOMAIN tokens' = DOMAIN tokens
      /\ \A t \in DOMAIN tokens : /\ tokens'[t].raced = tokens[t].raced
                                  /\ t \in call[r].tokens => tokens'[t].revoked
  <2>1. ASSUME NEW t \in DOMAIN tokens
        PROVE  /\ tokens'[t] \in TokenRow /\ tokens'[t].raced = tokens[t].raced
               /\ t \in call[r].tokens => tokens'[t].revoked
    <3> DEFINE gone == tokens[t].revoked \/ t \in call[r].tokens
    <3>1. tokens[t] \in TokenRow
      BY <1>1, CodesAreRows
    <3>2. tokens'[t] = [tokens[t] EXCEPT !.revoked = gone] /\ gone \in BOOLEAN
      BY <1>1
    <3>3. t \in call[r].tokens => gone
      OBVIOUS
    <3> HIDE DEF gone
    <3> QED
      BY <3>1, <3>2, <3>3 DEF TokenRow
  <2>2. tokens \in Seq(TokenRow) /\ DOMAIN tokens = 1 .. Len(tokens) /\ Len(tokens) \in Nat
    BY <1>1 DEF AccountsType
  <2>3. tokens' = [t \in 1 .. Len(tokens) |-> tokens'[t]]
    BY <1>1, <2>2
  <2>4. DOMAIN tokens' = DOMAIN tokens
    BY <1>1
  <2>5. tokens' \in [1 .. Len(tokens) -> TokenRow]
    BY <2>1, <2>2, <2>3
  <2> QED
    BY <2>1, <2>2, <2>4, <2>5
<1>8. /\ codes' \in Seq(CodeRow) /\ Len(codes') = Len(codes) /\ DOMAIN codes' = DOMAIN codes
      /\ DOMAIN call' = Client /\ RowsApart' /\ \A s \in Client : CallShape(s)'
      /\ codes'[i] = row /\ \A j \in DOMAIN codes \ {i} : codes'[j] = codes[j]
  BY <1>1, <1>3, <1>4, <1>5, <1>7, RowChanges
<1> DEFINE n == Len(resets)
<1>9. /\ resets' \in Seq(ResetRow) /\ DOMAIN resets = 1 .. n /\ DOMAIN resets' = 1 .. n + 1
      /\ Len(resets') = n + 1 /\ n \in Nat /\ resets'[n + 1] = reset
      /\ \A k \in 1 .. n : resets'[k] = resets[k]
  <2>1. resets \in Seq(ResetRow)
    BY <1>1 DEF AccountsType
  <2> QED
    BY <1>3, <1>6, <2>1, AppendProperties
<1>10. n = password /\ \A k \in 1 .. n : resets[k].code \in DOMAIN codes \ {i}
  <2>1. /\ \A k \in DOMAIN resets : resets[k].code \in DOMAIN codes
        /\ OneResetPerCode
    BY <1>1 DEF AccountsInv, AccountsType
  <2> QED
    BY <1>2, <1>9, <2>1 DEF OneResetPerCode
<1> HIDE DEF n
<1>11. \A k \in DOMAIN resets' : k = n + 1 \/ k \in 1 .. n
  BY <1>9
<1>12. AccountsType'
  <2>1. \A k \in DOMAIN resets' : resets'[k].code \in DOMAIN codes'
    BY <1>2, <1>6, <1>8, <1>9, <1>10, <1>11
  <2> QED
    BY <1>1, <1>7, <1>8, <1>9, <2>1 DEF AccountsType
<1>13. GuessesCount'
  <2>1. \A j \in DOMAIN codes :
           /\ codes'[j].purpose = codes[j].purpose /\ codes'[j].wrong = codes[j].wrong
           /\ codes[j].used => codes'[j].used
    BY <1>5, <1>8
  <2> QED
    BY <1>1, <1>8, <2>1 DEF AccountsInv, GuessesCount
<1>14. WindowsOpen'
  <2>1. \A j \in DOMAIN codes : codes'[j].verified => codes'[j] = codes[j]
    BY <1>5, <1>8
  <2> QED
    BY <1>1, <1>8, <2>1 DEF AccountsInv, WindowsOpen
<1>15. OneResetPerCode'
  <2>1. Len(resets') = password'
    BY <1>1, <1>9, <1>10
  <2>2. ASSUME NEW k \in DOMAIN resets'
        PROVE  /\ codes'[resets'[k].code].used
               /\ confirmed'[resets'[k].code] \in
                      resets'[k].at - RESET_WINDOW .. resets'[k].at
               /\ \A l \in DOMAIN resets' : resets'[k].code = resets'[l].code => k = l
    <3>1. CASE k = n + 1
      BY <1>1, <1>2, <1>5, <1>6, <1>8, <1>9, <1>10, <1>11, <3>1
    <3>2. CASE k \in 1 .. n
      <4>1. /\ codes[resets[k].code].used
            /\ confirmed[resets[k].code] \in resets[k].at - RESET_WINDOW .. resets[k].at
            /\ \A l \in 1 .. n : resets[k].code = resets[l].code => k = l
        BY <1>9, <3>2 DEF AccountsInv, OneResetPerCode
      <4>2. resets'[k] = resets[k] /\ resets[k].code \in DOMAIN codes \ {i}
        BY <1>9, <1>10, <3>2
      <4>3. codes'[resets[k].code].used
        BY <1>8, <4>1, <4>2
      <4>4. ASSUME NEW l \in DOMAIN resets', resets'[k].code = resets'[l].code
            PROVE  k = l
        BY <1>6, <1>9, <1>11, <4>1, <4>2, <4>4
      <4>5. confirmed' = confirmed
        BY <1>1
      <4> QED
        BY <4>1, <4>2, <4>3, <4>4, <4>5
    <3> QED
      BY <1>11, <3>1, <3>2
  <2> QED
    BY <2>1, <2>2 DEF OneResetPerCode
<1>16. OnlyRacedTokensSurvive'
  <2>1. \A t \in DOMAIN tokens' : tokens'[t].revoked \/ tokens'[t].raced
    BY <1>1, <1>7
  <2> QED
    BY <2>1 DEF OnlyRacedTokensSurvive
<1> QED
  BY <1>8, <1>12, <1>13, <1>14, <1>15, <1>16 DEF AccountsInv

\* A login that overlaps a revocation is not seen by it.
LEMMA LoginsKeep ==
    ASSUME AccountsInv, NEW r \in Client, Login(r) \/ IssueTokens(r)
    PROVE  AccountsInv'
<1>1. AccountsType /\ CallShape(r)
  BY DEF AccountsInv
<1>2. CASE Login(r)
  <2> DEFINE c == [pc |-> "tokens", by |-> password]
  <2>1. call'[r] = c /\ Continue(r, c)
    BY <1>1, <1>2 DEF Login, Continue, AccountsType
  <2>2. CallShape(r)' /\ Holds(r)' = {}
    BY <1>1, <1>2, <2>1 DEF CallShape, Holds, Login, AccountsType
  <2> HIDE DEF c
  <2> QED
    BY <1>2, <2>1, <2>2, OnlyTheCall DEF Login
<1>3. CASE IssueTokens(r)
  <2> DEFINE raced == call[r].by # password \/ \E s \in Client : In(s, "revoking")
             token == [by |-> call[r].by, revoked |-> FALSE, raced |-> raced]
             n == Len(tokens)
  <2>1. /\ tokens' = Append(tokens, token) /\ Done(r) /\ In(r, "tokens")
        /\ UNCHANGED <<clock, codes, password, guesses, confirmed, resets>>
    BY <1>3 DEF IssueTokens
  <2>2. /\ call[r].by # password => raced
        /\ \A s \in Client : In(s, "revoking") => raced
        /\ raced \in BOOLEAN
    OBVIOUS
  <2> HIDE DEF raced
  <2>3. /\ token \in TokenRow /\ token.by = call[r].by /\ token.raced = raced
    BY <1>1, <2>1, <2>2 DEF TokenRow, CallShape, In
  <2> HIDE DEF token
  <2>4. /\ tokens' \in Seq(TokenRow) /\ DOMAIN tokens = 1 .. n /\ DOMAIN tokens' = 1 .. n + 1
        /\ n \in Nat /\ tokens'[n + 1] = token /\ \A t \in 1 .. n : tokens'[t] = tokens[t]
    <3>1. tokens \in Seq(TokenRow)
      BY <1>1 DEF AccountsType
    <3> QED
      BY <2>1, <2>3, <3>1, AppendProperties
  <2>5. \A t \in DOMAIN tokens' : t = n + 1 \/ t \in DOMAIN tokens
    BY <2>4
  <2>6. DOMAIN call' = Client /\ \A s \in Client \ {r} : call'[s] = call[s]
    BY <1>1, <2>1 DEF Done, Continue, AccountsType
  <2>7. ASSUME NEW s \in Client \ {r} PROVE CallShape(s)' /\ Holds(s)' = Holds(s)
    <3>1. \A t \in DOMAIN tokens' \ DOMAIN tokens : In(s, "revoking") => tokens'[t].raced
      BY <2>2, <2>3, <2>4, <2>5
    <3>2. /\ DOMAIN tokens \subseteq DOMAIN tokens'
          /\ \A t \in DOMAIN tokens : tokens'[t].raced = tokens[t].raced
      BY <2>4
    <3> QED
      BY <2>1, <2>6, <3>1, <3>2, OthersKeep DEF AccountsInv
  <2>8. CallShape(r)' /\ Holds(r)' = {}
    BY <1>1, <2>1, NoCallShape
  <2>9. AccountsType' /\ WindowsOpen'
    BY <2>1, <2>4, <2>6 DEF AccountsInv, AccountsType, WindowsOpen
  <2>10. GuessesCount' /\ OneResetPerCode'
    BY <2>1 DEF AccountsInv, GuessesCount, OneResetPerCode
  <2>11. OnlyRacedTokensSurvive'
    BY <2>1, <2>2, <2>3, <2>4, <2>5 DEF AccountsInv, OnlyRacedTokensSurvive
  <2> QED
    BY <2>7, <2>8, <2>9, <2>10, <2>11 DEF AccountsInv, RowsApart
<1> QED
  BY <1>2, <1>3

LEMMA FailuresKeep ==
    ASSUME AccountsInv, NEW r \in Client, Fails(r)
    PROVE  AccountsInv'
BY NoCallShape, OnlyTheCall DEF Fails, AccountsInv

LEMMA TicksKeep ==
    ASSUME AccountsInv, Tick
    PROVE  AccountsInv'
<1>1. /\ clock \in Nat /\ clock' = clock + 1
      /\ UNCHANGED <<codes, call, password, tokens, guesses, confirmed, resets>>
  BY DEF AccountsInv, AccountsType, Tick
<1>2. AccountsType'
  BY <1>1 DEF AccountsInv, AccountsType
<1>3. \A s \in Client : CallShape(s)' /\ Holds(s)' = Holds(s)
  BY <1>1, OthersKeep DEF AccountsInv
<1>4. WindowsOpen'
  BY <1>1 DEF AccountsInv, WindowsOpen
<1> QED
  BY <1>1, <1>2, <1>3, <1>4
     DEF AccountsInv, RowsApart, GuessesCount, OneResetPerCode, OnlyRacedTokensSurvive

LEMMA AccountsKept == AccountsSpec => []AccountsInv
<1>1. AccountsInit => AccountsInv
  <2> SUFFICES ASSUME AccountsInit PROVE AccountsInv
    OBVIOUS
  <2>1. AccountsType
    BY DEF AccountsInit, AccountsType
  <2>2. \A r \in Client : CallShape(r) /\ Holds(r) = {}
    BY DEF AccountsInit, NoCall, CallShape, Holds
  <2>3. WindowsOpen /\ GuessesCount /\ OneResetPerCode /\ OnlyRacedTokensSurvive
    BY DEF AccountsInit, WindowsOpen, GuessesCount, OneResetPerCode, OnlyRacedTokensSurvive
  <2> QED
    BY <2>1, <2>2, <2>3 DEF AccountsInv, RowsApart
<1>2. AccountsInv /\ [AccountsNext]_accountVars => AccountsInv'
  <2> SUFFICES ASSUME AccountsInv, [AccountsNext]_accountVars PROVE AccountsInv'
    OBVIOUS
  <2>1. CASE UNCHANGED accountVars
    BY <2>1 DEF accountVars, AccountsInv, AccountsType, RowsApart, WindowsOpen, CallShape,
       MayIssue, Saw, Judges, Resets, Holds, GuessesCount, OneResetPerCode,
       OnlyRacedTokensSurvive
  <2>2. ASSUME NEW r \in Client, NEW purpose \in Purpose, Issuing(r, purpose)
        PROVE  AccountsInv'
    BY <2>2, IssuingReads, IssuingWrites, IssuingCommits DEF Issuing
  <2>3. ASSUME NEW r \in Client, NEW purpose \in Purpose, Judging(r, purpose)
        PROVE  AccountsInv'
    BY <2>3, JudgingReads, GuessCounts, CodeAccepted DEF Judging
  <2>4. ASSUME NEW r \in Client, Resetting(r)
        PROVE  AccountsInv'
    <3>1. "reset" \in Purpose
      BY DEF Purpose
    <3> QED
      BY <2>4, <3>1, JudgingReads, ResetRevokes, ResetCommits DEF Resetting
  <2>5. CASE AccountsNext
    BY <2>2, <2>3, <2>4, <2>5, TicksKeep, FailuresKeep, LoginsKeep DEF AccountsNext, Flow
  <2> QED
    BY <2>1, <2>5
<1> QED
  BY <1>1, <1>2, PTL DEF AccountsSpec

\* Every wrong guess at a verification code counts, and the limit holds,
\* however many requests guess at once (verify_code).
THEOREM WrongGuessesCount == AccountsSpec => []GuessesCount
<1>1. AccountsInv => GuessesCount
  BY DEF AccountsInv
<1> QED
  BY <1>1, AccountsKept, PTL

\* Each reset of the password spends a code that was confirmed for it, and no
\* two resets the same one (verify_reset_code, reset_password).
THEOREM CodesResetOnce == AccountsSpec => []OneResetPerCode
<1>1. AccountsInv => OneResetPerCode
  BY DEF AccountsInv
<1> QED
  BY <1>1, AccountsKept, PTL

\* revoke_all_refresh_tokens leaves nothing behind but what logins under way
\* at the time issue after it.
THEOREM TokensDieWithThePassword == AccountsSpec => []OnlyRacedTokensSurvive
<1>1. AccountsInv => OnlyRacedTokensSurvive
  BY DEF AccountsInv
<1> QED
  BY <1>1, AccountsKept, PTL

(***************************************************************************)
(* Guests.                                                                 *)
(*                                                                         *)
(* Every session key belongs to the visitor whose request drew it: only    *)
(* that browser is sent the cookie, so only its requests work with what    *)
(* hangs on the key.  A visitor that waits for its answers has one request *)
(* under way, and one live key, the cookie's or the one on its way.        *)
(***************************************************************************)

Costs == BaseCost \cup {0}
OrderRow == [number : Number \cup {0, 1, 2}, user : {"none", Account},
             key : SessionKey \cup {NoKey}, placer : Visitor \cup {Account}]
CartRow == [key : SessionKey, by : SUBSET Visitor]
Job == [pc : {"session", "list", "cart", "create", "fill", "choose", "number", "place", "answer"},
        visitor : Visitor, kind : {"add", "checkout", "orders", "done"},
        key : SessionKey \cup {NoKey}, fresh : BOOLEAN, cart : Nat,
        city : Zones \cup {"none", "pickup"}, cost : Costs, number : Number \cup {0},
        offered : SUBSET Costs, found : SUBSET OrderRow]
Works(h) == handler[h].pc # "off"

GuestsType ==
    /\ sessions \in [SessionKey -> {"unused", "live", "gone"}]
    /\ cookie \in [Visitor -> SessionKey \cup {NoKey}]
    /\ carts \in Seq(CartRow) /\ orders \subseteq OrderRow
    /\ DOMAIN handler = Handler /\ \A h \in Handler : Works(h) => handler[h] \in Job
    /\ zone \in Zones \cup {"none"} /\ base_cost \in [Zones -> Costs]
    /\ calm \subseteq Visitor

CookiesOwn(own) == \A v \in Visitor : cookie[v] # NoKey =>
    own[cookie[v]] = v /\ sessions[cookie[v]] # "unused"
OrdersOwn(own) == \A o \in orders : o.key # NoKey =>
    own[o.key] = o.placer /\ sessions[o.key] # "unused"
CartsOwn(own) == \A c \in DOMAIN carts :
    /\ carts[c].by \subseteq {own[carts[c].key]} /\ sessions[carts[c].key] # "unused"
    /\ own[carts[c].key] \in calm => CartsOf(carts[c].key) = {c}
OneAtATime == \A g, h \in Handler :
    Works(g) /\ Works(h) /\ handler[g].visitor = handler[h].visitor
        /\ handler[g].visitor \in calm => g = h
LiveKeys(own) == \A v \in calm : \A k \in SessionKey : own[k] = v /\ sessions[k] = "live" =>
    \/ k = cookie[v]
    \/ \E h \in Handler : /\ Works(h) /\ handler[h].visitor = v
                          /\ handler[h].fresh /\ handler[h].key = k

JobIsOwn(own, r) ==
    /\ r.key # NoKey => own[r.key] = r.visitor /\ sessions[r.key] # "unused"
    /\ r.pc \in {"cart", "create", "fill", "choose", "number", "place"} => r.key # NoKey
    /\ r.pc \in {"fill", "choose", "number", "place"} =>
           r.cart \in DOMAIN carts /\ carts[r.cart].key = r.key
    /\ \A o \in r.found : o.placer = r.visitor
JobIsPriced(r) ==
    /\ r.pc = "number" => r.city = "pickup" \/ r.cost \in r.offered
    /\ r.pc = "place" => IF r.city = "pickup" THEN r.cost = 0 ELSE r.cost \in r.offered
JobIsCalm(r) ==
    /\ r.pc = "session" => ~r.fresh
    /\ r.visitor \in calm =>
         /\ r.pc = "session" => r.key = cookie[r.visitor]
         /\ r.fresh => ~Recognised(cookie[r.visitor])
         /\ r.pc = "create" => CartsOf(r.key) = {}
JobOk(own, h) == Works(h) =>
    JobIsOwn(own, handler[h]) /\ JobIsPriced(handler[h]) /\ JobIsCalm(handler[h])

NumbersDiffer == \A o1, o2 \in orders : o1.number = o2.number => o1 = o2

Owners == [SessionKey -> Visitor \cup {Account}]
Belongs(own) ==
    /\ CookiesOwn(own) /\ OrdersOwn(own) /\ CartsOwn(own) /\ LiveKeys(own)
    /\ \A h \in Handler : JobOk(own, h)
GuestsInv == /\ GuestsType /\ OneAtATime /\ NumbersDiffer
             /\ \E own \in Owners : Belongs(own)

LEMMA GuestsFacts ==
    ASSUME GuestsType
    PROVE  /\ \A key \in SessionKey : key # NoKey
           /\ \A c \in DOMAIN carts : carts[c] \in CartRow /\ c \in Nat
           /\ DOMAIN handler = Handler /\ \A h \in Handler : Works(h) => handler[h] \in Job
BY DEF GuestsType, SessionKey, NoKey

\* One request takes a step, on its visitor's own things; the others' remain
\* what they were.
LEMMA JobSteps ==
    ASSUME GuestsType, OneAtATime, NEW own \in Owners, Belongs(own), NEW h \in Handler, Works(h),
           DOMAIN handler' = Handler, \A g \in Handler \ {h} : handler'[g] = handler[g],
           handler'[h] \in Job, handler'[h].visitor = handler[h].visitor,
           handler'[h].fresh = handler[h].fresh,
           handler[h].fresh => handler'[h].key = handler[h].key,
           UNCHANGED <<sessions, cookie, calm>>,
           DOMAIN carts \subseteq DOMAIN carts',
           \A c \in DOMAIN carts : carts'[c].key = carts[c].key,
           \A c \in DOMAIN carts' \ DOMAIN carts :
               carts'[c].key = handler[h].key /\ handler[h].key # NoKey,
           JobOk(own, h)'
    PROVE  /\ \A g \in Handler : Works(g)' => handler'[g] \in Job
           /\ OneAtATime' /\ CookiesOwn(own)' /\ LiveKeys(own)'
           /\ \A g \in Handler : JobOk(own, g)'
<1>1. handler[h] \in Job /\ handler[h].pc # "off" /\ handler'[h].pc # "off"
  BY DEF GuestsType, Works, Job
<1>2. \A g \in Handler : Works(g)' <=> Works(g)
  BY <1>1 DEF Works
<1>3. \A g \in Handler : Works(g)' => handler'[g] \in Job
  BY <1>2 DEF GuestsType
<1>4. OneAtATime'
  BY <1>2 DEF OneAtATime
<1>5. CookiesOwn(own)'
  BY DEF Belongs, CookiesOwn
<1>6. LiveKeys(own)'
  BY <1>2 DEF Belongs, LiveKeys
<1>7. ASSUME NEW g \in Handler \ {h}, Works(g)
      PROVE  JobIsOwn(own, handler[g])' /\ JobIsPriced(handler[g])' /\ JobIsCalm(handler[g])'
  <2>1. JobIsOwn(own, handler[g]) /\ JobIsPriced(handler[g]) /\ JobIsCalm(handler[g])
    BY <1>7 DEF Belongs, JobOk
  <2>2. handler'[g] = handler[g]
    BY <1>7
  <2>3. JobIsOwn(own, handler[g])'
    BY <2>1, <2>2 DEF JobIsOwn
  <2>4. JobIsPriced(handler[g])'
    BY <2>1, <2>2 DEF JobIsPriced
  <2>5. ASSUME handler[g].visitor \in calm, handler[g].pc = "create"
        PROVE  CartsOf(handler[g].key)' = {}
    <3>1. handler[g].visitor # handler[h].visitor
      BY <1>7, <2>5 DEF OneAtATime
    <3>2. CartsOf(handler[g].key) = {} /\ own[handler[g].key] = handler[g].visitor
      BY <2>1, <2>5 DEF JobIsOwn, JobIsCalm
    <3>3. handler[h].key # NoKey => own[handler[h].key] = handler[h].visitor
      BY DEF Belongs, JobOk, JobIsOwn
    <3> QED
      BY <2>2, <3>1, <3>2, <3>3 DEF CartsOf
  <2>6. JobIsCalm(handler[g])'
    BY <2>1, <2>2, <2>5 DEF JobIsCalm, Recognised
  <2> QED
    BY <2>3, <2>4, <2>6
<1>8. \A g \in Handler : JobOk(own, g)'
  BY <1>2, <1>7 DEF JobOk
<1> QED
  BY <1>3, <1>4, <1>5, <1>6, <1>8

LEMMA AnswerOnItsWay ==
    ASSUME GuestsType, OneAtATime, NEW own \in Owners, Belongs(own), NEW h \in Handler, Works(h),
           NEW found, found \subseteq OrderRow, \A o \in found : o.placer = handler[h].visitor,
           Conclude(h, found), UNCHANGED <<sessions, cookie, calm>>,
           DOMAIN carts' = DOMAIN carts,
           \A c \in DOMAIN carts : carts'[c].key = carts[c].key
    PROVE  /\ DOMAIN handler' = Handler
           /\ \A g \in Handler : Works(g)' => handler'[g] \in Job
           /\ OneAtATime' /\ CookiesOwn(own)' /\ LiveKeys(own)'
           /\ \A g \in Handler : JobOk(own, g)'
<1> DEFINE r == handler[h]
           m == [Serving(r.visitor, "done", IF r.fresh THEN r.key ELSE NoKey)
                 EXCEPT !.pc = "answer", !.fresh = r.fresh, !.found = found]
<1>1. r \in Job
  BY DEF GuestsType
<1>2. /\ DOMAIN handler' = Handler /\ \A g \in Handler \ {h} : handler'[g] = handler[g]
      /\ handler'[h] = m
  BY DEF Conclude, GuestsType
<1>3. /\ m \in Job /\ m.pc = "answer" /\ m.visitor = r.visitor /\ m.fresh = r.fresh
      /\ (m.fresh => m.key = r.key) /\ (~m.fresh => m.key = NoKey) /\ m.found = found
  <2> DEFINE key == IF r.fresh THEN r.key ELSE NoKey
  <2>1. /\ r.visitor \in Visitor /\ r.fresh \in BOOLEAN /\ key \in SessionKey \cup {NoKey}
        /\ (r.fresh => key = r.key) /\ (~r.fresh => key = NoKey)
    <3>1. r.visitor \in Visitor /\ r.fresh \in BOOLEAN /\ r.key \in SessionKey \cup {NoKey}
      BY <1>1 DEF Job
    <3> QED
      BY <3>1
  <2> DEFINE s == Serving(r.visitor, "done", key)
  <2>2. m = [s EXCEPT !.pc = "answer", !.fresh = r.fresh, !.found = found]
    OBVIOUS
  <2> HIDE DEF key
  <2>3. s \in Job /\ s.visitor = r.visitor /\ s.key = key
    BY <2>1 DEF Serving, Job, Costs
  <2> HIDE DEF m, s
  <2>4. /\ m \in Job /\ m.pc = "answer" /\ m.visitor = s.visitor /\ m.fresh = r.fresh
        /\ m.key = s.key /\ m.found = found
    BY <2>1, <2>2, <2>3 DEF Job
  <2> QED
    BY <2>1, <2>3, <2>4
<1> HIDE DEF m
<1>4. JobIsOwn(own, r) /\ JobIsCalm(r) /\ Works(h)
  BY DEF Belongs, JobOk
<1>5. JobIsOwn(own, handler[h])' /\ JobIsPriced(handler[h])' /\ JobIsCalm(handler[h])'
  BY <1>2, <1>3, <1>4 DEF JobIsOwn, JobIsPriced, JobIsCalm, Recognised
<1>6. JobOk(own, h)'
  BY <1>5 DEF JobOk
<1> QED
  BY <1>2, <1>3, <1>6, JobSteps

\* Such a step when no row is written.
LEMMA JobOnly ==
    ASSUME GuestsType, OneAtATime, NumbersDiffer, NEW own \in Owners, Belongs(own),
           UNCHANGED <<sessions, cookie, carts, orders, zone, base_cost, calm>>,
           DOMAIN handler' = Handler,
           \A g \in Handler : Works(g)' => handler'[g] \in Job,
           OneAtATime', CookiesOwn(own)', LiveKeys(own)',
           \A g \in Handler : JobOk(own, g)'
    PROVE  GuestsInv'
<1>1. GuestsType' /\ NumbersDiffer'
  BY DEF GuestsType, Works, NumbersDiffer
<1>2. OrdersOwn(own)' /\ CartsOwn(own)'
  BY DEF Belongs, OrdersOwn, CartsOwn, CartsOf
<1>3. Belongs(own)'
  BY <1>2 DEF Belongs
<1> QED
  BY <1>1, <1>3 DEF GuestsInv, Owners, SessionKey

LEMMA AnswersOnly ==
    ASSUME GuestsType, OneAtATime, NumbersDiffer, NEW own \in Owners, Belongs(own),
           NEW h \in Handler, Works(h), NEW found, found \subseteq OrderRow,
           \A o \in found : o.placer = handler[h].visitor, Conclude(h, found),
           UNCHANGED <<sessions, cookie, carts, orders, zone, base_cost, calm>>
    PROVE  GuestsInv'
<1>1. /\ DOMAIN handler' = Handler
      /\ \A g \in Handler : Works(g)' => handler'[g] \in Job
      /\ OneAtATime' /\ CookiesOwn(own)' /\ LiveKeys(own)'
      /\ \A g \in Handler : JobOk(own, g)'
  BY AnswerOnItsWay
<1> QED
  BY <1>1, JobOnly

\* And when the request merely moves on.
LEMMA MovesOnly ==
    ASSUME GuestsType, OneAtATime, NumbersDiffer, NEW own \in Owners, Belongs(own),
           NEW h \in Handler, Works(h), NEW m \in Job, handler' = [handler EXCEPT ![h] = m],
           m.visitor = handler[h].visitor, m.fresh = handler[h].fresh, m.key = handler[h].key,
           m.found = handler[h].found,
           m.pc \in {"create", "fill", "choose", "number", "place"}, m.key # NoKey,
           m.pc # "create" => m.cart \in DOMAIN carts /\ carts[m.cart].key = m.key,
           m.pc = "create" => CartsOf(m.key) = {},
           m.pc = "number" => m.city = "pickup" \/ m.cost \in m.offered,
           m.pc = "place" => IF m.city = "pickup" THEN m.cost = 0 ELSE m.cost \in m.offered,
           UNCHANGED <<sessions, cookie, carts, orders, zone, base_cost, calm>>
    PROVE  GuestsInv'
<1>1. /\ DOMAIN handler' = Handler /\ \A g \in Handler \ {h} : handler'[g] = handler[g]
      /\ handler'[h] = m
  BY DEF GuestsType
<1>2. JobIsOwn(own, handler[h]) /\ JobIsCalm(handler[h])
  BY DEF Belongs, JobOk
<1>3. JobIsOwn(own, handler[h])' /\ JobIsPriced(handler[h])' /\ JobIsCalm(handler[h])'
  BY <1>1, <1>2 DEF JobIsOwn, JobIsPriced, JobIsCalm, Recognised, CartsOf
<1>4. JobOk(own, h)'
  BY <1>3 DEF JobOk
<1>5. /\ \A g \in Handler : Works(g)' => handler'[g] \in Job
      /\ OneAtATime' /\ CookiesOwn(own)' /\ LiveKeys(own)'
      /\ \A g \in Handler : JobOk(own, g)'
  BY <1>1, <1>4, JobSteps
<1> QED
  BY <1>1, <1>5, JobOnly

LEMMA SendKeepsGuests ==
    ASSUME GuestsInv, NEW h \in Handler, NEW v \in Visitor,
           NEW kind \in {"add", "checkout", "orders"}, Send(h, v, kind)
    PROVE  GuestsInv'
<1> DEFINE m == Serving(v, kind, cookie[v])
<1>1. /\ GuestsType /\ OneAtATime /\ NumbersDiffer /\ ~Works(h)
      /\ handler' = [handler EXCEPT ![h] = m]
      /\ UNCHANGED <<sessions, cookie, carts, orders, zone, base_cost>>
  BY DEF GuestsInv, Send, Works
<1>2. PICK own \in Owners : Belongs(own)
  BY DEF GuestsInv
<1>3. /\ m \in Job /\ m.pc = "session" /\ m.visitor = v /\ ~m.fresh /\ m.key = cookie[v]
      /\ m.found = {}
  <2>1. cookie[v] \in SessionKey \cup {NoKey}
    BY <1>1 DEF GuestsType
  <2> QED
    BY <2>1 DEF Serving, Job, Costs
<1> HIDE DEF m
<1>4. /\ DOMAIN handler' = Handler /\ handler'[h] = m
      /\ \A g \in Handler \ {h} : handler'[g] = handler[g]
  BY <1>1 DEF GuestsType
<1>5. /\ calm' \subseteq calm
      /\ v \in calm' => \A g \in Handler : Works(g) => handler[g].visitor # v
  BY <1>1 DEF Send, Busy, Works
<1>6. GuestsType'
  BY <1>1, <1>3, <1>4, <1>5 DEF GuestsType, Works
<1>7. OneAtATime'
  BY <1>1, <1>3, <1>4, <1>5 DEF OneAtATime, Works
<1>8. LiveKeys(own)'
  <2>1. \A g \in Handler : Works(g) => handler'[g] = handler[g] /\ Works(g)'
    BY <1>1, <1>4 DEF Works
  <2> QED
    BY <1>1, <1>2, <1>5, <2>1 DEF Belongs, LiveKeys
<1>9. CookiesOwn(own)' /\ OrdersOwn(own)' /\ CartsOwn(own)' /\ NumbersDiffer'
  BY <1>1, <1>2, <1>5 DEF Belongs, CookiesOwn, OrdersOwn, CartsOwn, CartsOf, NumbersDiffer
<1>10. JobOk(own, h)'
  <2>1. cookie[v] # NoKey => own[cookie[v]] = v /\ sessions[cookie[v]] # "unused"
    BY <1>2 DEF Belongs, CookiesOwn
  <2> QED
    BY <1>1, <1>3, <1>4, <2>1 DEF JobOk, JobIsOwn, JobIsPriced, JobIsCalm
<1>11. ASSUME NEW g \in Handler \ {h} PROVE JobOk(own, g)'
  <2>1. JobOk(own, g) /\ handler'[g] = handler[g]
    BY <1>2, <1>4 DEF Belongs
  <2> QED
    BY <1>1, <1>5, <2>1
       DEF JobOk, JobIsOwn, JobIsPriced, JobIsCalm, Works, Recognised, CartsOf
<1>12. Belongs(own)'
  BY <1>8, <1>9, <1>10, <1>11 DEF Belongs
<1> QED
  BY <1>6, <1>7, <1>9, <1>12 DEF GuestsInv, Owners, SessionKey

\* A new key is nobody's yet.
LEMMA NewKeys ==
    ASSUME GuestsType, OneAtATime, NumbersDiffer, NEW own \in Owners, Belongs(own),
           NEW h \in Handler, Works(h), handler[h].pc = "session",
           ~Recognised(handler[h].key),
           NEW key \in SessionKey, sessions[key] = "unused",
           sessions' = [sessions EXCEPT ![key] = "live"],
           NEW m \in Job, handler' = [handler EXCEPT ![h] = m],
           m.key = key, m.fresh, m.pc = "cart", m.visitor = handler[h].visitor,
           m.found = handler[h].found,
           UNCHANGED <<cookie, carts, orders, zone, base_cost, calm>>
    PROVE  GuestsInv'
<1> DEFINE r == handler[h]
<1>1. r \in Job /\ JobIsOwn(own, r) /\ JobIsCalm(r) /\ key # NoKey
  BY GuestsFacts DEF GuestsType, Belongs, JobOk
<1>2. /\ m \in Job /\ m.key = key /\ m.fresh /\ m.pc = "cart" /\ m.visitor = r.visitor
      /\ m.found = r.found
  OBVIOUS
<1>3. /\ DOMAIN handler' = Handler /\ handler'[h] = m
      /\ \A g \in Handler \ {h} : handler'[g] = handler[g]
  BY DEF GuestsType
<1>4. PICK after \in Owners :
         after[key] = r.visitor /\ \A k \in SessionKey \ {key} : after[k] = own[k]
  <2> DEFINE next == [own EXCEPT ![key] = r.visitor]
  <2>1. r.visitor \in Visitor
    BY <1>1 DEF Job
  <2>2. /\ next \in Owners /\ next[key] = r.visitor
        /\ \A k \in SessionKey \ {key} : next[k] = own[k]
    BY <2>1 DEF Owners
  <2> QED
    BY <2>2
<1>5. /\ sessions' \in [SessionKey -> {"unused", "live", "gone"}] /\ sessions'[key] = "live"
       /\ \A k \in SessionKey \ {key} : sessions'[k] = sessions[k]
  BY DEF GuestsType
<1>6. \A g \in Handler : Works(g)' <=> Works(g)
  BY <1>2, <1>3 DEF Works, Job
<1>7. GuestsType'
  BY <1>2, <1>3, <1>4, <1>5, <1>6 DEF GuestsType
<1>8. OneAtATime' /\ NumbersDiffer'
  BY <1>2, <1>3, <1>6 DEF OneAtATime, NumbersDiffer
<1>9. CookiesOwn(after)'
  <2>1. \A v \in Visitor : cookie[v] # NoKey => cookie[v] \in SessionKey \ {key}
    BY DEF Belongs, CookiesOwn, GuestsType
  <2> QED
    BY <1>4, <1>5, <2>1 DEF Belongs, CookiesOwn
<1>10. OrdersOwn(after)'
  <2>1. \A o \in orders : o.key # NoKey => o.key \in SessionKey \ {key}
    BY DEF Belongs, OrdersOwn, GuestsType, OrderRow
  <2> QED
    BY <1>4, <1>5, <2>1 DEF Belongs, OrdersOwn
<1>11. CartsOwn(after)'
  <2>1. \A c \in DOMAIN carts : carts[c].key \in SessionKey \ {key}
    BY GuestsFacts DEF Belongs, CartsOwn, CartRow
  <2> QED
    BY <1>4, <1>5, <2>1 DEF Belongs, CartsOwn, CartsOf
<1>12. LiveKeys(after)'
  <2>1. ASSUME NEW v \in calm, NEW k \in SessionKey, after[k] = v, sessions'[k] = "live",
               k # cookie[v]
        PROVE  \E g \in Handler : /\ Works(g)' /\ handler'[g].visitor = v
                                  /\ handler'[g].fresh /\ handler'[g].key = k
    <3>1. CASE k = key
      BY <1>2, <1>3, <1>4, <1>5, <1>6, <2>1, <3>1
    <3>2. CASE k # key
      <4>1. PICK g \in Handler : /\ Works(g) /\ handler[g].visitor = v
                                 /\ handler[g].fresh /\ handler[g].key = k
        BY <1>4, <1>5, <2>1, <3>2 DEF Belongs, LiveKeys
      <4>2. g # h
        BY <1>1, <4>1 DEF JobIsCalm
      <4> QED
        BY <1>3, <1>6, <4>1, <4>2
    <3> QED
      BY <3>1, <3>2
  <2> QED
    BY <2>1 DEF LiveKeys
<1>13. JobOk(after, h)'
  <2>1. r.visitor \in calm => ~Recognised(cookie[r.visitor]) /\ cookie[r.visitor] # key
    <3>1. r.visitor \in calm => r.key = cookie[r.visitor]
      BY <1>1 DEF JobIsCalm
    <3>2. r.visitor \in Visitor
      BY <1>1 DEF Job
    <3>3. cookie[r.visitor] # key
      BY <1>1, <3>2 DEF Belongs, CookiesOwn
    <3> QED
      BY <3>1, <3>3
  <2>2. r.visitor \in calm => ~(cookie[r.visitor] # NoKey /\ sessions'[cookie[r.visitor]] = "live")
    BY <2>1 DEF Recognised, GuestsType
  <2> QED
    BY <1>1, <1>2, <1>3, <1>4, <1>5, <2>2
       DEF JobOk, JobIsOwn, JobIsPriced, JobIsCalm, Recognised
<1>14. ASSUME NEW g \in Handler \ {h}, Works(g)
       PROVE  JobIsOwn(after, handler[g])' /\ JobIsPriced(handler[g])' /\ JobIsCalm(handler[g])'
  <2>1. JobIsOwn(own, handler[g]) /\ JobIsPriced(handler[g]) /\ JobIsCalm(handler[g])
    BY <1>14 DEF Belongs, JobOk
  <2>2. handler'[g] = handler[g] /\ handler[g] \in Job
    BY <1>3, <1>14 DEF GuestsType
  <2>3. handler[g].key # NoKey => handler[g].key \in SessionKey \ {key}
    BY <2>1, <2>2 DEF JobIsOwn, Job
  <2>4. JobIsOwn(after, handler[g])'
    BY <1>4, <1>5, <2>1, <2>2, <2>3 DEF JobIsOwn
  <2>5. JobIsPriced(handler[g])'
    BY <2>1, <2>2 DEF JobIsPriced
  <2>6. \A v \in Visitor : cookie[v] # NoKey /\ sessions'[cookie[v]] = "live" =>
                            sessions[cookie[v]] = "live"
    BY <1>4, <1>5 DEF Belongs, CookiesOwn, GuestsType
  <2>7. JobIsCalm(handler[g])'
    <3>1. handler[g].visitor \in Visitor
      BY <2>2 DEF Job
    <3>2. CartsOf(handler[g].key)' = CartsOf(handler[g].key)
      BY <2>2 DEF CartsOf
    <3>3. /\ handler[g].pc = "session" => ~handler[g].fresh
          /\ handler[g].visitor \in calm =>
               /\ handler[g].pc = "session" => handler[g].key = cookie[handler[g].visitor]
               /\ handler[g].fresh => ~Recognised(cookie[handler[g].visitor])
               /\ handler[g].pc = "create" => CartsOf(handler[g].key) = {}
      BY <2>1 DEF JobIsCalm
    <3> QED
      BY <2>2, <2>6, <3>1, <3>2, <3>3 DEF JobIsCalm, Recognised
  <2> QED
    BY <2>4, <2>5, <2>7
<1>15. \A g \in Handler : JobOk(after, g)'
  BY <1>6, <1>13, <1>14 DEF JobOk
<1>16. Belongs(after)'
  BY <1>9, <1>10, <1>11, <1>12, <1>15 DEF Belongs
<1> QED
  BY <1>4, <1>5, <1>7, <1>8, <1>16 DEF GuestsInv, Owners, SessionKey

LEMMA LoadKeepsGuests ==
    ASSUME GuestsInv, NEW h \in Handler, LoadSession(h)
    PROVE  GuestsInv'
<1> DEFINE r == handler[h]
<1>1. /\ GuestsType /\ OneAtATime /\ NumbersDiffer /\ Works(h) /\ r.pc = "session"
      /\ UNCHANGED <<cookie, carts, orders, zone, base_cost, calm>>
  BY DEF GuestsInv, LoadSession, Works
<1>2. PICK own \in Owners : Belongs(own)
  BY DEF GuestsInv
<1>3. r \in Job /\ JobIsOwn(own, r) /\ JobIsCalm(r)
  BY <1>1, <1>2 DEF GuestsType, Belongs, JobOk
<1>4. ASSUME NEW key \in {r.key, NoKey}, NEW pc \in {"list", "cart"},
             pc = "cart" => key # NoKey, UNCHANGED sessions,
             handler' = [handler EXCEPT ![h].key = key, ![h].fresh = FALSE, ![h].pc = pc]
      PROVE  GuestsInv'
  <2> DEFINE m == [r EXCEPT !.key = key, !.fresh = FALSE, !.pc = pc]
  <2>1. /\ m \in Job /\ m.key = key /\ ~m.fresh /\ m.pc = pc /\ m.visitor = r.visitor
        /\ m.found = r.found /\ m.fresh = FALSE
    BY <1>3 DEF Job, NoKey
  <2>2. handler' = [handler EXCEPT ![h] = m]
    BY <1>4
  <2> HIDE DEF m
  <2>3. /\ DOMAIN handler' = Handler /\ handler'[h] = m
        /\ \A g \in Handler \ {h} : handler'[g] = handler[g]
    BY <1>1, <2>2 DEF GuestsType
  <2>4. r.fresh = FALSE
    BY <1>1, <1>3 DEF JobIsCalm, Job
  <2>5. JobOk(own, h)'
    BY <1>1, <1>3, <1>4, <2>1, <2>3 DEF JobOk, JobIsOwn, JobIsPriced, JobIsCalm
  <2>6. /\ \A g \in Handler : Works(g)' => handler'[g] \in Job
        /\ OneAtATime' /\ CookiesOwn(own)' /\ LiveKeys(own)'
        /\ \A g \in Handler : JobOk(own, g)'
    <3>1. /\ handler'[h] \in Job /\ handler'[h].visitor = handler[h].visitor
          /\ handler'[h].fresh = handler[h].fresh /\ ~handler[h].fresh
      BY <2>1, <2>3, <2>4
    <3>2. /\ UNCHANGED <<sessions, cookie, calm>> /\ DOMAIN carts' = DOMAIN carts
          /\ \A c \in DOMAIN carts : carts'[c].key = carts[c].key
      BY <1>1, <1>4
    <3> QED
      BY <1>1, <1>2, <2>3, <2>5, <3>1, <3>2, JobSteps
  <2> QED
    BY <1>1, <1>2, <1>4, <2>3, <2>6, JobOnly
<1>5. CASE Recognised(r.key)
  BY <1>1, <1>4, <1>5 DEF LoadSession, Recognised
<1>6. CASE ~Recognised(r.key) /\ r.kind = "orders"
  BY <1>1, <1>4, <1>6 DEF LoadSession
<1>7. CASE ~Recognised(r.key) /\ r.kind = "checkout"
  <2>1. Conclude(h, {}) /\ UNCHANGED sessions
    BY <1>7 DEF LoadSession
  <2> QED
    BY <1>1, <1>2, <2>1, AnswersOnly
<1>8. CASE ~Recognised(r.key) /\ r.kind \notin {"orders", "checkout"}
  <2>1. PICK key \in SessionKey :
            /\ \A k \in SessionKey : sessions[k] = "unused" <=> k >= key
            /\ sessions' = [sessions EXCEPT ![key] = "live"]
            /\ handler' = [handler EXCEPT ![h].key = key, ![h].fresh = TRUE, ![h].pc = "cart"]
    BY <1>8 DEF LoadSession
  <2>2. sessions[key] = "unused"
    BY <2>1 DEF SessionKey
  <2> DEFINE m == [r EXCEPT !.key = key, !.fresh = TRUE, !.pc = "cart"]
  <2>3. /\ m \in Job /\ m.key = key /\ m.fresh /\ m.pc = "cart" /\ m.visitor = r.visitor
        /\ m.found = r.found
    BY <1>3 DEF Job
  <2>4. handler' = [handler EXCEPT ![h] = m]
    BY <2>1
  <2>5. sessions' = [sessions EXCEPT ![key] = "live"]
    BY <2>1
  <2> HIDE DEF m
  <2> QED
    BY <1>1, <1>2, <1>8, <2>2, <2>3, <2>4, <2>5, NewKeys
<1> QED
  BY <1>5, <1>6, <1>7, <1>8

LEMMA ResolveKeepsGuests ==
    ASSUME GuestsInv, NEW h \in Handler, ResolveCart(h)
    PROVE  GuestsInv'
<1> DEFINE r == handler[h]
<1>1. /\ GuestsType /\ OneAtATime /\ NumbersDiffer /\ Works(h) /\ r.pc = "cart"
      /\ UNCHANGED <<sessions, cookie, carts, orders, zone, base_cost, calm>>
  BY DEF GuestsInv, ResolveCart, Works
<1>2. PICK own \in Owners : Belongs(own)
  BY DEF GuestsInv
<1>3. r \in Job /\ r.key # NoKey
  BY <1>1, <1>2 DEF GuestsType, Belongs, JobOk, JobIsOwn
<1>4. ASSUME NEW c \in CartsOf(r.key), NEW pc \in {"fill", "choose"},
             handler' = [handler EXCEPT ![h].cart = c, ![h].pc = pc]
      PROVE  GuestsInv'
  <2> DEFINE m == [r EXCEPT !.cart = c, !.pc = pc]
  <2>1. c \in DOMAIN carts /\ c \in Nat /\ carts[c].key = r.key
    BY <1>1, GuestsFacts DEF CartsOf
  <2>2. /\ m \in Job /\ m.visitor = r.visitor /\ m.fresh = r.fresh /\ m.key = r.key
        /\ m.found = r.found /\ m.pc = pc /\ m.cart = c
    BY <1>3, <2>1 DEF Job
  <2>3. handler' = [handler EXCEPT ![h] = m]
    BY <1>4
  <2> HIDE DEF m
  <2> QED
    BY <1>1, <1>2, <1>3, <2>1, <2>2, <2>3, MovesOnly
<1>5. CASE CartsOf(r.key) = {} /\ Goto(h, "create")
  <2> DEFINE m == [r EXCEPT !.pc = "create"]
  <2>1. /\ m \in Job /\ m.visitor = r.visitor /\ m.fresh = r.fresh /\ m.key = r.key
        /\ m.found = r.found /\ m.pc = "create"
    BY <1>3 DEF Job
  <2>2. handler' = [handler EXCEPT ![h] = m]
    BY <1>5 DEF Goto
  <2> HIDE DEF m
  <2> QED
    BY <1>1, <1>2, <1>3, <1>5, <2>1, <2>2, MovesOnly
<1>6. CASE Conclude(h, {})
  BY <1>1, <1>2, <1>6, AnswersOnly
<1> QED
  BY <1>4, <1>5, <1>6 DEF ResolveCart

LEMMA CreateKeepsGuests ==
    ASSUME GuestsInv, NEW h \in Handler, CreateCart(h)
    PROVE  GuestsInv'
<1> DEFINE r == handler[h]
           n == Len(carts)
           m == [r EXCEPT !.pc = "fill", !.cart = n + 1]
           row == [key |-> r.key, by |-> {}]
<1>1. /\ GuestsType /\ OneAtATime /\ NumbersDiffer /\ Works(h) /\ r.pc = "create"
      /\ carts' = Append(carts, row) /\ handler' = [handler EXCEPT ![h] = m]
      /\ UNCHANGED <<sessions, cookie, orders, zone, base_cost, calm>>
  BY DEF GuestsInv, CreateCart, Works
<1>2. PICK own \in Owners : Belongs(own)
  BY DEF GuestsInv
<1>3. /\ r \in Job /\ r.key \in SessionKey /\ r.key # NoKey
      /\ JobIsOwn(own, r) /\ JobIsCalm(r)
  BY <1>1, <1>2 DEF GuestsType, Belongs, JobOk, JobIsOwn, Job
<1>4. row \in CartRow /\ row.key = r.key /\ row.by = {}
  BY <1>3 DEF CartRow
<1> HIDE DEF row
<1>5. /\ carts' \in Seq(CartRow) /\ DOMAIN carts = 1 .. n /\ DOMAIN carts' = 1 .. n + 1
      /\ n \in Nat /\ carts'[n + 1] = row /\ \A c \in 1 .. n : carts'[c] = carts[c]
  <2>1. carts \in Seq(CartRow)
    BY <1>1 DEF GuestsType
  <2> QED
    BY <1>1, <1>4, <2>1, AppendProperties
<1>6. \A c \in DOMAIN carts' : c = n + 1 \/ c \in DOMAIN carts
  BY <1>5
<1>7. /\ m \in Job /\ m.visitor = r.visitor /\ m.fresh = r.fresh /\ m.key = r.key
      /\ m.found = r.found /\ m.pc = "fill" /\ m.cart = n + 1
  <2> DEFINE k == n + 1
  <2>1. k \in Nat
    BY <1>5
  <2> HIDE DEF n, k
  <2>2. m = [r EXCEPT !.pc = "fill", !.cart = k]
    BY DEF k
  <2>3. m.cart = k /\ k = n + 1
    BY <1>3, <2>2 DEF Job, k
  <2> HIDE DEF m
  <2> QED
    BY <1>3, <2>1, <2>2, <2>3 DEF Job
<1> HIDE DEF m
<1>8. /\ DOMAIN handler' = Handler /\ handler'[h] = m
      /\ \A g \in Handler \ {h} : handler'[g] = handler[g]
  BY <1>1 DEF GuestsType
<1>9. JobOk(own, h)'
  <2>1. m.cart \in DOMAIN carts' /\ carts'[m.cart].key = m.key
    BY <1>4, <1>5, <1>7
  <2> HIDE DEF n
  <2> QED
    BY <1>1, <1>3, <1>7, <1>8, <2>1
       DEF JobOk, JobIsOwn, JobIsPriced, JobIsCalm, Recognised
<1>10. /\ \A g \in Handler : Works(g)' => handler'[g] \in Job
       /\ OneAtATime' /\ CookiesOwn(own)' /\ LiveKeys(own)'
       /\ \A g \in Handler : JobOk(own, g)'
  <2>1. /\ DOMAIN carts \subseteq DOMAIN carts'
        /\ \A c \in DOMAIN carts : carts'[c].key = carts[c].key
        /\ \A c \in DOMAIN carts' \ DOMAIN carts : carts'[c].key = r.key
    BY <1>4, <1>5, <1>6
  <2> HIDE DEF n
  <2> QED
    BY <1>1, <1>2, <1>3, <1>7, <1>8, <1>9, <2>1, JobSteps
<1>11. CartsOwn(own)'
  <2>1. ASSUME NEW c \in DOMAIN carts'
        PROVE  /\ carts'[c].by \subseteq {own[carts'[c].key]}
               /\ sessions[carts'[c].key] # "unused"
               /\ own[carts'[c].key] \in calm =>
                    \A d \in DOMAIN carts' : carts'[d].key = carts'[c].key => d = c
    <3>1. r.visitor \in calm => \A d \in DOMAIN carts : carts[d].key # r.key
      BY <1>1, <1>3 DEF JobIsCalm, CartsOf
    <3>2. own[r.key] = r.visitor /\ sessions[r.key] # "unused"
      BY <1>3 DEF JobIsOwn
    <3>3. \A d \in DOMAIN carts :
             /\ carts[d].by \subseteq {own[carts[d].key]} /\ sessions[carts[d].key] # "unused"
             /\ own[carts[d].key] \in calm =>
                  \A e \in DOMAIN carts : carts[e].key = carts[d].key => e = d
      BY <1>2 DEF Belongs, CartsOwn, CartsOf
    <3>4. CASE c = n + 1
      BY <1>4, <1>5, <1>6, <3>1, <3>2, <3>4
    <3>5. CASE c \in DOMAIN carts
      BY <1>4, <1>5, <1>6, <3>1, <3>2, <3>3, <3>5
    <3> QED
      BY <1>6, <3>4, <3>5
  <2> QED
    BY <1>1, <2>1 DEF CartsOwn, CartsOf
<1>12. OrdersOwn(own)' /\ NumbersDiffer'
  BY <1>1, <1>2 DEF Belongs, OrdersOwn, NumbersDiffer
<1>13. GuestsType'
  BY <1>1, <1>5, <1>8, <1>10 DEF GuestsType
<1>14. Belongs(own)'
  BY <1>10, <1>11, <1>12 DEF Belongs
<1> QED
  BY <1>10, <1>12, <1>13, <1>14 DEF GuestsInv, Owners, SessionKey

\* A request writes into a cart of its visitor's, or empties one.
LEMMA CartWrites ==
    ASSUME GuestsType, NEW own \in Owners, CartsOwn(own),
           NEW i \in DOMAIN carts, NEW by, by \subseteq Visitor, by \subseteq {own[carts[i].key]},
           carts' = [carts EXCEPT ![i].by = by], UNCHANGED <<sessions, calm>>
    PROVE  /\ carts' \in Seq(CartRow) /\ DOMAIN carts' = DOMAIN carts
           /\ \A c \in DOMAIN carts : carts'[c].key = carts[c].key
           /\ CartsOwn(own)'
<1> DEFINE row == [carts[i] EXCEPT !.by = by]
<1>1. row \in CartRow /\ row.key = carts[i].key /\ row.by = by
  BY GuestsFacts DEF CartRow
<1>2. carts' = [carts EXCEPT ![i] = row]
  OBVIOUS
<1> HIDE DEF row
<1>3. /\ carts' \in Seq(CartRow) /\ DOMAIN carts' = DOMAIN carts /\ carts'[i] = row
      /\ \A c \in DOMAIN carts \ {i} : carts'[c] = carts[c]
  <2>1. carts \in Seq(CartRow) /\ DOMAIN carts = 1 .. Len(carts)
    BY DEF GuestsType
  <2> QED
    BY <1>1, <1>2, <2>1, ExceptSeq
<1>4. \A c \in DOMAIN carts : carts'[c].key = carts[c].key
  BY <1>1, <1>3
<1>5. \A c \in DOMAIN carts : carts'[c].by \subseteq {own[carts[c].key]}
  BY <1>1, <1>3 DEF CartsOwn
<1>6. CartsOwn(own)'
  BY <1>3, <1>4, <1>5 DEF CartsOwn, CartsOf
<1> QED
  BY <1>3, <1>4, <1>6

LEMMA FillKeepsGuests ==
    ASSUME GuestsInv, NEW h \in Handler, Fill(h)
    PROVE  GuestsInv'
<1> DEFINE r == handler[h]
<1>1. /\ GuestsType /\ OneAtATime /\ NumbersDiffer /\ Works(h) /\ r.pc = "fill"
      /\ Conclude(h, {}) /\ UNCHANGED <<sessions, cookie, orders, zone, base_cost, calm>>
  BY DEF GuestsInv, Fill, Works
<1>2. PICK own \in Owners : Belongs(own)
  BY DEF GuestsInv
<1>3. CASE UNCHANGED carts
  BY <1>1, <1>2, <1>3, AnswersOnly
<1>4. CASE carts' = [carts EXCEPT ![r.cart].by = @ \cup {r.visitor}]
  <2> DEFINE i == r.cart
             by == carts[i].by \cup {r.visitor}
  <2>1. /\ i \in DOMAIN carts /\ carts[i].key = r.key /\ own[r.key] = r.visitor
        /\ r.visitor \in Visitor
    BY <1>1, <1>2 DEF GuestsType, Belongs, JobOk, JobIsOwn, Job
  <2>2. CartsOwn(own) /\ by \subseteq Visitor /\ by \subseteq {own[carts[i].key]}
    BY <1>1, <1>2, <2>1, GuestsFacts DEF Belongs, CartsOwn, CartRow
  <2>3. carts' = [carts EXCEPT ![i].by = by]
    BY <1>4
  <2> HIDE DEF i, by
  <2>4. /\ carts' \in Seq(CartRow) /\ DOMAIN carts' = DOMAIN carts
        /\ \A c \in DOMAIN carts : carts'[c].key = carts[c].key
        /\ CartsOwn(own)'
    BY <1>1, <2>1, <2>2, <2>3, CartWrites
  <2>5. /\ DOMAIN handler' = Handler
        /\ \A g \in Handler : Works(g)' => handler'[g] \in Job
        /\ OneAtATime' /\ CookiesOwn(own)' /\ LiveKeys(own)'
        /\ \A g \in Handler : JobOk(own, g)'
    BY <1>1, <1>2, <2>4, AnswerOnItsWay
  <2>6. OrdersOwn(own)' /\ NumbersDiffer'
    BY <1>1, <1>2 DEF Belongs, OrdersOwn, NumbersDiffer
  <2>7. GuestsType'
    BY <1>1, <2>4, <2>5 DEF GuestsType
  <2>8. Belongs(own)'
    BY <2>4, <2>5, <2>6 DEF Belongs
  <2> QED
    BY <2>5, <2>6, <2>7, <2>8 DEF GuestsInv, Owners, SessionKey
<1> QED
  BY <1>3, <1>4 DEF Fill

LEMMA ChooseKeepsGuests ==
    ASSUME GuestsInv, NEW h \in Handler, ChooseCity(h)
    PROVE  GuestsInv'
<1> DEFINE r == handler[h]
<1>1. /\ GuestsType /\ OneAtATime /\ NumbersDiffer /\ Works(h) /\ r.pc = "choose"
      /\ UNCHANGED <<sessions, cookie, carts, orders, zone, base_cost, calm>>
  BY DEF GuestsInv, ChooseCity, Works
<1>2. PICK own \in Owners : Belongs(own)
  BY DEF GuestsInv
<1>3. /\ r \in Job /\ r.key # NoKey /\ r.cart \in DOMAIN carts /\ carts[r.cart].key = r.key
  BY <1>1, <1>2 DEF GuestsType, Belongs, JobOk, JobIsOwn
<1>4. CASE Conclude(h, {})
  BY <1>1, <1>2, <1>4, AnswersOnly
<1>5. CASE handler' = [handler EXCEPT ![h].city = "pickup", ![h].pc = "number"]
  <2> DEFINE m == [r EXCEPT !.city = "pickup", !.pc = "number"]
  <2>1. /\ m \in Job /\ m.visitor = r.visitor /\ m.fresh = r.fresh /\ m.key = r.key
        /\ m.found = r.found /\ m.pc = "number" /\ m.cart = r.cart /\ m.city = "pickup"
    BY <1>3 DEF Job
  <2>2. handler' = [handler EXCEPT ![h] = m]
    BY <1>5
  <2> HIDE DEF m
  <2> QED
    BY <1>1, <1>2, <1>3, <2>1, <2>2, MovesOnly
<1>6. CASE /\ zone # "none"
           /\ handler' = [handler EXCEPT ![h].city = zone, ![h].cost = base_cost[zone],
                             ![h].offered = DeliveryCosts, ![h].pc = "number"]
  <2> DEFINE cost == base_cost[zone]
             offered == DeliveryCosts
             m == [r EXCEPT !.city = zone, !.cost = cost, !.offered = offered, !.pc = "number"]
  <2>1. zone \in Zones /\ cost \in Costs /\ offered \subseteq Costs /\ cost \in offered
    BY <1>1, <1>6 DEF GuestsType, DeliveryCosts
  <2>2. handler' = [handler EXCEPT ![h] = m]
    BY <1>6
  <2> HIDE DEF cost, offered
  <2>3. /\ m \in Job /\ m.visitor = r.visitor /\ m.fresh = r.fresh /\ m.key = r.key
        /\ m.found = r.found /\ m.pc = "number" /\ m.cart = r.cart
        /\ m.cost = cost /\ m.offered = offered
    BY <1>3, <2>1 DEF Job
  <2> HIDE DEF m
  <2> QED
    BY <1>1, <1>2, <1>3, <2>1, <2>2, <2>3, MovesOnly
<1> QED
  BY <1>4, <1>5, <1>6 DEF ChooseCity

LEMMA DrawKeepsGuests ==
    ASSUME GuestsInv, NEW h \in Handler, DrawNumber(h)
    PROVE  GuestsInv'
<1> DEFINE r == handler[h]
<1>1. /\ GuestsType /\ OneAtATime /\ NumbersDiffer /\ Works(h) /\ r.pc = "number"
      /\ UNCHANGED <<sessions, cookie, carts, orders, zone, base_cost, calm>>
  BY DEF GuestsInv, DrawNumber, Works
<1>2. PICK own \in Owners : Belongs(own)
  BY DEF GuestsInv
<1>3. /\ r \in Job /\ r.key # NoKey /\ r.cart \in DOMAIN carts /\ carts[r.cart].key = r.key
      /\ r.city = "pickup" \/ r.cost \in r.offered
  <2>1. JobIsOwn(own, r) /\ JobIsPriced(r) /\ r \in Job
    BY <1>1, <1>2 DEF GuestsType, Belongs, JobOk
  <2> QED
    BY <1>1, <2>1 DEF JobIsOwn, JobIsPriced
<1>4. CASE Conclude(h, {})
  BY <1>1, <1>2, <1>4, AnswersOnly
<1>5. ASSUME NEW n \in Number,
             handler' = [handler EXCEPT ![h].number = n, ![h].cost = DeliveryCost(r),
                                        ![h].pc = "place"]
      PROVE  GuestsInv'
  <2> DEFINE cost == DeliveryCost(r)
             m == [r EXCEPT !.number = n, !.cost = cost, !.pc = "place"]
  <2>1. cost \in Costs /\ (IF r.city = "pickup" THEN cost = 0 ELSE cost = r.cost)
    BY <1>3 DEF DeliveryCost, Costs, Job
  <2>2. handler' = [handler EXCEPT ![h] = m]
    BY <1>5
  <2> HIDE DEF cost
  <2>3. /\ m \in Job /\ m.visitor = r.visitor /\ m.fresh = r.fresh /\ m.key = r.key
        /\ m.found = r.found /\ m.pc = "place" /\ m.cart = r.cart
        /\ m.cost = cost /\ m.offered = r.offered /\ m.city = r.city
    BY <1>3, <2>1 DEF Job
  <2> HIDE DEF m
  <2> QED
    BY <1>1, <1>2, <1>3, <2>1, <2>2, <2>3, MovesOnly
<1> QED
  BY <1>4, <1>5 DEF DrawNumber

LEMMA PlaceKeepsGuests ==
    ASSUME GuestsInv, NEW h \in Handler, Place(h)
    PROVE  GuestsInv'
<1> DEFINE r == handler[h]
           o == [number |-> r.number, user |-> "none", key |-> r.key, placer |-> r.visitor]
<1>1. /\ GuestsType /\ OneAtATime /\ NumbersDiffer /\ Works(h) /\ r.pc = "place"
      /\ Conclude(h, {}) /\ UNCHANGED <<sessions, cookie, zone, base_cost, calm>>
  BY DEF GuestsInv, Place, Works
<1>2. PICK own \in Owners : Belongs(own)
  BY DEF GuestsInv
<1>3. CASE UNCHANGED <<carts, orders>>
  BY <1>1, <1>2, <1>3, AnswersOnly
<1>4. CASE /\ r.number \notin Taken /\ orders' = orders \cup {o}
           /\ carts' = [carts EXCEPT ![r.cart].by = {}]
  <2> DEFINE i == r.cart
  <2>1. /\ r \in Job /\ i \in DOMAIN carts /\ own[r.key] = r.visitor
        /\ sessions[r.key] # "unused"
    BY <1>1, <1>2 DEF GuestsType, Belongs, JobOk, JobIsOwn
  <2> DEFINE by == {}
  <2>2. /\ CartsOwn(own) /\ carts' = [carts EXCEPT ![i].by = by]
        /\ by \subseteq Visitor /\ by \subseteq {own[carts[i].key]}
    BY <1>2, <1>4 DEF Belongs
  <2> HIDE DEF i, by
  <2>3. /\ carts' \in Seq(CartRow) /\ DOMAIN carts' = DOMAIN carts
        /\ \A c \in DOMAIN carts : carts'[c].key = carts[c].key
        /\ CartsOwn(own)'
    BY <1>1, <2>1, <2>2, CartWrites
  <2>4. /\ DOMAIN handler' = Handler
        /\ \A g \in Handler : Works(g)' => handler'[g] \in Job
        /\ OneAtATime' /\ CookiesOwn(own)' /\ LiveKeys(own)'
        /\ \A g \in Handler : JobOk(own, g)'
    BY <1>1, <1>2, <2>3, AnswerOnItsWay
  <2>5. o \in OrderRow /\ o.key = r.key /\ o.placer = r.visitor /\ o.number = r.number
    <3>1. /\ r.number \in Number \cup {0} /\ r.key \in SessionKey \cup {NoKey}
          /\ r.visitor \in Visitor
      BY <2>1 DEF Job
    <3> QED
      BY <3>1 DEF OrderRow
  <2> HIDE DEF o
  <2>6. OrdersOwn(own)'
    BY <1>1, <1>2, <1>4, <2>1, <2>5 DEF Belongs, OrdersOwn
  <2>7. NumbersDiffer'
    BY <1>1, <1>4, <2>5 DEF NumbersDiffer, Taken
  <2>8. GuestsType'
    BY <1>1, <1>4, <2>3, <2>4, <2>5 DEF GuestsType
  <2>9. Belongs(own)'
    BY <2>3, <2>4, <2>6 DEF Belongs
  <2> QED
    BY <2>4, <2>7, <2>8, <2>9 DEF GuestsInv, Owners, SessionKey
<1> QED
  BY <1>3, <1>4 DEF Place

\* Only what hangs on the visitor's own key is shown.
LEMMA ShowKeepsGuests ==
    ASSUME GuestsInv, NEW h \in Handler, ListOrders(h) \/ ShowOrder(h)
    PROVE  GuestsInv'
<1> DEFINE r == handler[h]
<1>1. /\ GuestsType /\ OneAtATime /\ NumbersDiffer /\ Works(h)
      /\ UNCHANGED <<sessions, cookie, carts, orders, zone, base_cost, calm>>
  BY DEF GuestsInv, ListOrders, ShowOrder, Works
<1>2. PICK own \in Owners : Belongs(own)
  BY DEF GuestsInv
<1>3. /\ OwnedOrders(r.key) \subseteq OrderRow
      /\ \A o \in OwnedOrders(r.key) : o.placer = r.visitor
  <2>1. r.key # NoKey => own[r.key] = r.visitor
    BY <1>1, <1>2 DEF Belongs, JobOk, JobIsOwn
  <2> QED
    BY <1>1, <1>2, <2>1 DEF GuestsType, Belongs, OrdersOwn, OwnedOrders
<1>4. PICK found : Conclude(h, found) /\ found \subseteq OwnedOrders(r.key)
  BY DEF ListOrders, ShowOrder
<1> QED
  BY <1>1, <1>2, <1>3, <1>4, AnswersOnly

LEMMA RespondKeepsGuests ==
    ASSUME GuestsInv, NEW h \in Handler, Respond(h)
    PROVE  GuestsInv'
<1> DEFINE r == handler[h]
<1>1. /\ GuestsType /\ OneAtATime /\ NumbersDiffer /\ Works(h)
      /\ UNCHANGED <<sessions, carts, orders, zone, base_cost, calm>>
      /\ handler' = [handler EXCEPT ![h] = Off]
      /\ cookie' = IF r.fresh THEN [cookie EXCEPT ![r.visitor] = r.key] ELSE cookie
  BY DEF GuestsInv, Respond, Works
<1>2. PICK own \in Owners : Belongs(own)
  BY DEF GuestsInv
<1>3. /\ DOMAIN handler' = Handler /\ \A g \in Handler \ {h} : handler'[g] = handler[g]
      /\ ~Works(h)'
  BY <1>1 DEF GuestsType, Works, Off
<1>4. r \in Job /\ JobIsOwn(own, r) /\ JobIsCalm(r) /\ r.visitor \in Visitor
  BY <1>1, <1>2 DEF GuestsType, Belongs, JobOk, Job
<1>5. /\ cookie' \in [Visitor -> SessionKey \cup {NoKey}]
      /\ \A v \in Visitor \ {r.visitor} : cookie'[v] = cookie[v]
      /\ r.fresh => cookie'[r.visitor] = r.key
      /\ ~r.fresh => cookie'[r.visitor] = cookie[r.visitor]
  <2>1. cookie \in [Visitor -> SessionKey \cup {NoKey}] /\ r.key \in SessionKey \cup {NoKey}
    BY <1>1, <1>4 DEF GuestsType, Job
  <2> QED
    BY <1>1, <1>4, <2>1
<1>6. GuestsType' /\ OneAtATime' /\ NumbersDiffer'
  BY <1>1, <1>3, <1>5 DEF GuestsType, OneAtATime, NumbersDiffer, Works
<1>7. CookiesOwn(own)'
  <2>1. ASSUME NEW v \in Visitor, cookie'[v] # NoKey
        PROVE  own[cookie'[v]] = v /\ sessions[cookie'[v]] # "unused"
    BY <1>2, <1>4, <1>5, <2>1 DEF Belongs, CookiesOwn, JobIsOwn
  <2> QED
    BY <1>1, <2>1 DEF CookiesOwn
<1>8. OrdersOwn(own)' /\ CartsOwn(own)'
  BY <1>1, <1>2 DEF Belongs, OrdersOwn, CartsOwn, CartsOf
<1>9. LiveKeys(own)'
  <2>1. ASSUME NEW v \in calm, NEW k \in SessionKey, own[k] = v, sessions[k] = "live",
               k # cookie'[v]
        PROVE  \E g \in Handler : /\ Works(g)' /\ handler'[g].visitor = v
                                  /\ handler'[g].fresh /\ handler'[g].key = k
    <3>1. \/ k = cookie[v]
          \/ \E g \in Handler : /\ Works(g) /\ handler[g].visitor = v
                                /\ handler[g].fresh /\ handler[g].key = k
      BY <1>2, <2>1 DEF Belongs, LiveKeys
    <3>2. CASE v = r.visitor
      <4>1. r.fresh => k # cookie[v]
        BY <1>1, <1>4, <2>1, <3>2, GuestsFacts DEF JobIsCalm, Recognised
      <4>2. \A g \in Handler : Works(g) /\ handler[g].visitor = v => g = h
        BY <1>1, <2>1, <3>2 DEF OneAtATime
      <4> QED
        BY <1>5, <2>1, <3>1, <3>2, <4>1, <4>2
    <3>3. CASE v # r.visitor
      <4>1. v \in Visitor /\ cookie'[v] = cookie[v]
        BY <1>1, <1>5, <2>1, <3>3 DEF GuestsType
      <4>2. PICK g \in Handler : /\ Works(g) /\ handler[g].visitor = v
                                 /\ handler[g].fresh /\ handler[g].key = k
        BY <2>1, <3>1, <4>1
      <4> QED
        BY <1>3, <3>3, <4>2 DEF Works
    <3> QED
      BY <3>2, <3>3
  <2> QED
    BY <1>1, <2>1 DEF LiveKeys
<1>10. ASSUME NEW g \in Handler PROVE JobOk(own, g)'
  <2>1. CASE g = h
    BY <1>3, <2>1 DEF JobOk
  <2>2. CASE g # h /\ Works(g)
    <3>1. handler'[g] = handler[g] /\ handler[g].visitor \in Visitor
      BY <1>1, <1>3, <2>2 DEF GuestsType, Job
    <3>2. handler[g].visitor \in calm => cookie'[handler[g].visitor] = cookie[handler[g].visitor]
      BY <1>1, <1>5, <2>2, <3>1 DEF OneAtATime
    <3>3. JobIsOwn(own, handler[g]) /\ JobIsPriced(handler[g]) /\ JobIsCalm(handler[g])
      BY <1>2, <2>2 DEF Belongs, JobOk
    <3> QED
      BY <1>1, <3>1, <3>2, <3>3
         DEF JobOk, JobIsOwn, JobIsPriced, JobIsCalm, Recognised, CartsOf
  <2>3. CASE g # h /\ ~Works(g)
    BY <1>3, <2>3 DEF JobOk, Works
  <2> QED
    BY <2>1, <2>2, <2>3
<1>11. Belongs(own)'
  BY <1>7, <1>8, <1>9, <1>10 DEF Belongs
<1> QED
  BY <1>6, <1>11 DEF GuestsInv, Owners, SessionKey

LEMMA GiveUpKeepsGuests ==
    ASSUME GuestsInv, NEW h \in Handler, GiveUp(h)
    PROVE  GuestsInv'
<1>1. /\ GuestsType /\ OneAtATime /\ NumbersDiffer /\ Works(h)
      /\ UNCHANGED <<sessions, cookie, carts, orders, zone, base_cost>>
      /\ handler' = [handler EXCEPT ![h] = Off] /\ calm' = calm \ {handler[h].visitor}
  BY DEF GuestsInv, GiveUp, Works
<1>2. PICK own \in Owners : Belongs(own)
  BY DEF GuestsInv
<1>3. /\ DOMAIN handler' = Handler /\ \A g \in Handler \ {h} : handler'[g] = handler[g]
      /\ ~Works(h)'
  BY <1>1 DEF GuestsType, Works, Off
<1>4. GuestsType' /\ OneAtATime' /\ NumbersDiffer'
  BY <1>1, <1>3 DEF GuestsType, OneAtATime, NumbersDiffer, Works
<1>5. CookiesOwn(own)' /\ OrdersOwn(own)' /\ CartsOwn(own)'
  BY <1>1, <1>2 DEF Belongs, CookiesOwn, OrdersOwn, CartsOwn, CartsOf
<1>6. LiveKeys(own)'
  <2>1. \A g \in Handler : Works(g) /\ handler[g].visitor \in calm' =>
                              Works(g)' /\ handler'[g] = handler[g]
    BY <1>1, <1>3 DEF Works
  <2> QED
    BY <1>1, <1>2, <2>1 DEF Belongs, LiveKeys
<1>7. ASSUME NEW g \in Handler PROVE JobOk(own, g)'
  <2>1. CASE g = h
    BY <1>3, <2>1 DEF JobOk
  <2>2. CASE g # h
    <3>1. handler'[g] = handler[g] /\ JobOk(own, g)
      BY <1>2, <1>3, <2>2 DEF Belongs
    <3> QED
      BY <1>1, <3>1 DEF JobOk, JobIsOwn, JobIsPriced, JobIsCalm, Recognised, CartsOf, Works
  <2> QED
    BY <2>1, <2>2
<1>8. Belongs(own)'
  BY <1>5, <1>6, <1>7 DEF Belongs
<1> QED
  BY <1>4, <1>8 DEF GuestsInv, Owners, SessionKey

LEMMA ExpireKeepsGuests ==
    ASSUME GuestsInv, NEW key \in SessionKey, Expire(key)
    PROVE  GuestsInv'
<1>1. /\ GuestsType /\ OneAtATime /\ NumbersDiffer
      /\ UNCHANGED <<cookie, carts, orders, handler, zone, base_cost, calm>>
      /\ sessions' = [sessions EXCEPT ![key] = "gone"]
  BY DEF GuestsInv, Expire
<1>2. PICK own \in Owners : Belongs(own)
  BY DEF GuestsInv
<1>3. /\ sessions' \in [SessionKey -> {"unused", "live", "gone"}]
      /\ \A k \in SessionKey : /\ sessions'[k] = "live" => sessions[k] = "live"
                               /\ sessions[k] # "unused" => sessions'[k] # "unused"
  BY <1>1 DEF GuestsType
<1>4. GuestsType' /\ OneAtATime' /\ NumbersDiffer'
  BY <1>1, <1>3 DEF GuestsType, OneAtATime, NumbersDiffer, Works
<1>5. CookiesOwn(own)' /\ OrdersOwn(own)' /\ LiveKeys(own)'
  BY <1>1, <1>2, <1>3
     DEF GuestsType, Belongs, CookiesOwn, OrdersOwn, LiveKeys, OrderRow, Works
<1>6. CartsOwn(own)'
  <2>1. \A c \in DOMAIN carts : carts[c].key \in SessionKey
    BY <1>1, GuestsFacts DEF CartRow
  <2> QED
    BY <1>1, <1>2, <1>3, <2>1 DEF Belongs, CartsOwn, CartsOf
<1>7. ASSUME NEW g \in Handler, Works(g)
      PROVE  JobIsOwn(own, handler[g])' /\ JobIsPriced(handler[g])' /\ JobIsCalm(handler[g])'
  <2>1. JobIsOwn(own, handler[g]) /\ JobIsPriced(handler[g]) /\ JobIsCalm(handler[g])
    BY <1>2, <1>7 DEF Belongs, JobOk
  <2>2. /\ handler[g].key \in SessionKey \cup {NoKey}
        /\ cookie[handler[g].visitor] \in SessionKey \cup {NoKey}
    BY <1>1, <1>7 DEF GuestsType, Job
  <2>3. JobIsOwn(own, handler[g])' /\ JobIsPriced(handler[g])'
    BY <1>1, <1>3, <2>1, <2>2 DEF JobIsOwn, JobIsPriced
  <2>4. JobIsCalm(handler[g])'
    BY <1>1, <1>3, <2>1, <2>2 DEF JobIsCalm, Recognised, CartsOf
  <2> QED
    BY <2>3, <2>4
<1>8. \A g \in Handler : JobOk(own, g)'
  BY <1>1, <1>7 DEF JobOk, Works
<1>9. Belongs(own)'
  BY <1>5, <1>6, <1>8 DEF Belongs
<1> QED
  BY <1>4, <1>9 DEF GuestsInv, Owners, SessionKey

\* An edit of the zones adds to what the city has cost since it was read.
LEMMA ZonesKeepGuests ==
    ASSUME GuestsInv, \/ \E z \in Zones \cup {"none"} : MoveCity(z)
                      \/ \E z \in Zones, cost \in BaseCost : RepriceZone(z, cost)
    PROVE  GuestsInv'
<1>1. /\ GuestsType /\ OneAtATime /\ NumbersDiffer /\ Offering
      /\ UNCHANGED <<sessions, cookie, carts, orders, calm>>
  BY DEF GuestsInv, MoveCity, RepriceZone
<1>2. PICK own \in Owners : Belongs(own)
  BY DEF GuestsInv
<1>3. zone' \in Zones \cup {"none"} /\ base_cost' \in [Zones -> Costs]
  BY <1>1 DEF GuestsType, MoveCity, RepriceZone, Costs
<1>4. DeliveryCosts' \subseteq Costs
  BY <1>3 DEF DeliveryCosts
<1>5. ASSUME NEW g \in Handler, Works(g)
      PROVE  /\ Works(g)' /\ handler'[g] \in Job
             /\ handler'[g].pc = handler[g].pc /\ handler'[g].visitor = handler[g].visitor
             /\ handler'[g].key = handler[g].key /\ handler'[g].fresh = handler[g].fresh
             /\ handler'[g].cart = handler[g].cart /\ handler'[g].found = handler[g].found
             /\ handler'[g].city = handler[g].city /\ handler'[g].cost = handler[g].cost
             /\ handler[g].offered \subseteq handler'[g].offered
  <2> DEFINE costs == DeliveryCosts'
             more == handler[g].offered \cup costs
  <2>1. handler[g] \in Job /\ handler[g].pc # "off"
    BY <1>1, <1>5 DEF GuestsType, Works
  <2>2. \/ handler'[g] = handler[g]
        \/ handler'[g] = [handler[g] EXCEPT !.offered = more]
    BY <1>1 DEF Offering
  <2>3. more \subseteq Costs /\ handler[g].offered \subseteq more
    BY <1>4, <2>1 DEF Job
  <2> HIDE DEF more, costs
  <2>4. CASE handler'[g] = handler[g]
    BY <2>1, <2>4 DEF Works
  <2>5. CASE handler'[g] = [handler[g] EXCEPT !.offered = more]
    BY <2>1, <2>3, <2>5 DEF Job, Works
  <2> QED
    BY <2>2, <2>4, <2>5
<1>6. \A g \in Handler : Works(g)' <=> Works(g)
  <2>1. ASSUME NEW g \in Handler, ~Works(g) PROVE ~Works(g)'
    BY <1>1, <2>1 DEF Offering, Pricing, Works
  <2> QED
    BY <1>5, <2>1
<1>7. GuestsType' /\ OneAtATime' /\ NumbersDiffer'
  <2>1. DOMAIN handler' = Handler
    BY <1>1 DEF Offering
  <2> QED
    BY <1>1, <1>3, <1>5, <1>6, <2>1 DEF GuestsType, OneAtATime, NumbersDiffer
<1>8. CookiesOwn(own)' /\ OrdersOwn(own)' /\ CartsOwn(own)'
  BY <1>1, <1>2 DEF Belongs, CookiesOwn, OrdersOwn, CartsOwn, CartsOf
<1>9. LiveKeys(own)'
  BY <1>1, <1>2, <1>5 DEF Belongs, LiveKeys
<1>10. ASSUME NEW g \in Handler, Works(g)
       PROVE  JobIsOwn(own, handler[g])' /\ JobIsPriced(handler[g])' /\ JobIsCalm(handler[g])'
  <2>1. JobIsOwn(own, handler[g]) /\ JobIsPriced(handler[g]) /\ JobIsCalm(handler[g])
    BY <1>2, <1>10 DEF Belongs, JobOk
  <2>2. JobIsOwn(own, handler[g])'
    BY <1>1, <1>5, <1>10, <2>1 DEF JobIsOwn
  <2>3. JobIsPriced(handler[g])'
    BY <1>5, <1>10, <2>1 DEF JobIsPriced
  <2>4. JobIsCalm(handler[g])'
    BY <1>1, <1>5, <1>10, <2>1 DEF JobIsCalm, Recognised, CartsOf
  <2> QED
    BY <2>2, <2>3, <2>4
<1>11. Belongs(own)'
  BY <1>6, <1>8, <1>9, <1>10 DEF Belongs, JobOk
<1> QED
  BY <1>7, <1>11 DEF GuestsInv, Owners, SessionKey

LEMMA GuestsStart == ASSUME VisitorsInit PROVE GuestsInv
<1>1. \A h \in Handler : ~Works(h)
  BY DEF VisitorsInit, Works, Off
<1>2. GuestsType
  <2>1. orders \subseteq OrderRow
    BY DEF VisitorsInit, OrderRow, NoKey
  <2> QED
    BY <1>1, <2>1 DEF VisitorsInit, GuestsType, Costs, Zones
<1>3. OneAtATime /\ NumbersDiffer
  BY <1>1 DEF VisitorsInit, OneAtATime, NumbersDiffer
<1>4. PICK own \in Owners : \A k \in SessionKey : own[k] = Account
  <2>1. [k \in SessionKey |-> Account] \in Owners
    BY DEF Owners
  <2> QED
    BY <2>1
<1>5. CookiesOwn(own) /\ OrdersOwn(own) /\ CartsOwn(own) /\ LiveKeys(own)
  BY DEF VisitorsInit, CookiesOwn, OrdersOwn, CartsOwn, LiveKeys
<1>6. Belongs(own)
  BY <1>1, <1>5 DEF Belongs, JobOk
<1> QED
  BY <1>2, <1>3, <1>6 DEF GuestsInv

LEMMA GuestsKept == VisitorsSpec => []GuestsInv
<1>1. GuestsInv /\ [VisitorsNext]_visitorVars => GuestsInv'
  <2> SUFFICES ASSUME GuestsInv, [VisitorsNext]_visitorVars PROVE GuestsInv'
    OBVIOUS
  <2>1. CASE UNCHANGED visitorVars
    <3>1. UNCHANGED <<sessions, cookie, carts, orders, handler, zone, base_cost, calm>>
      BY <2>1 DEF visitorVars
    <3>2. PICK own \in Owners : Belongs(own)
      BY DEF GuestsInv
    <3>3. GuestsType' /\ OneAtATime' /\ NumbersDiffer'
      BY <3>1 DEF GuestsInv, GuestsType, OneAtATime, NumbersDiffer, Works
    <3>4. CookiesOwn(own)' /\ OrdersOwn(own)' /\ CartsOwn(own)' /\ LiveKeys(own)'
      BY <3>1, <3>2 DEF Belongs, CookiesOwn, OrdersOwn, CartsOwn, CartsOf, LiveKeys, Works
    <3>5. \A h \in Handler : JobOk(own, h)'
      BY <3>1, <3>2
         DEF Belongs, JobOk, JobIsOwn, JobIsPriced, JobIsCalm, Recognised, CartsOf, Works
    <3> QED
      BY <3>3, <3>4, <3>5 DEF GuestsInv, Belongs, Owners, SessionKey
  <2>2. ASSUME NEW h \in Handler, NEW v \in Visitor,
               NEW kind \in {"add", "checkout", "orders"}, Send(h, v, kind)
        PROVE  GuestsInv'
    BY <2>2, SendKeepsGuests
  <2>3. ASSUME NEW h \in Handler,
               \/ LoadSession(h) \/ ResolveCart(h) \/ CreateCart(h) \/ Fill(h)
               \/ ChooseCity(h) \/ DrawNumber(h) \/ Place(h)
        PROVE  GuestsInv'
    BY <2>3, LoadKeepsGuests, ResolveKeepsGuests, CreateKeepsGuests, FillKeepsGuests,
       ChooseKeepsGuests, DrawKeepsGuests, PlaceKeepsGuests
  <2>4. ASSUME NEW h \in Handler, ListOrders(h) \/ ShowOrder(h) \/ Respond(h) \/ GiveUp(h)
        PROVE  GuestsInv'
    BY <2>4, ShowKeepsGuests, RespondKeepsGuests, GiveUpKeepsGuests
  <2>5. CASE VisitorsNext
    BY <2>2, <2>3, <2>4, <2>5, ExpireKeepsGuests, ZonesKeepGuests DEF VisitorsNext
  <2> QED
    BY <2>1, <2>5
<1> QED
  BY <1>1, GuestsStart, PTL DEF VisitorsSpec

\* Whoever holds a session key put there what hangs on it, and a visitor that
\* waits for its answers never mislays a cart (guest_session_key, resolve_cart,
\* owned_orders).
THEOREM GuestsKeepApart == VisitorsSpec => []YoursAlone
<1>1. GuestsInv => YoursAlone
  <2> SUFFICES ASSUME GuestsInv PROVE YoursAlone
    OBVIOUS
  <2>1. PICK own \in Owners : Belongs(own)
    BY DEF GuestsInv
  <2>2. ASSUME NEW h \in Handler, Works(h)
        PROVE  /\ \A o \in handler[h].found : o.placer = handler[h].visitor
               /\ handler[h].pc = "place" =>
                      carts[handler[h].cart].by \subseteq {handler[h].visitor}
    <3>1. JobIsOwn(own, handler[h])
      BY <2>1, <2>2 DEF Belongs, JobOk
    <3>2. \A c \in DOMAIN carts : carts[c].by \subseteq {own[carts[c].key]}
      BY <2>1 DEF Belongs, CartsOwn
    <3> QED
      BY <3>1, <3>2 DEF JobIsOwn
  <2>3. ASSUME NEW v \in calm, Busy(v) = {}, NEW c \in DOMAIN carts, v \in carts[c].by,
               Recognised(carts[c].key)
        PROVE  carts[c].key = cookie[v] /\ CartsOf(cookie[v]) = {c}
    <3>1. carts[c].key \in SessionKey
      BY GuestsFacts DEF GuestsInv, CartRow
    <3>2. own[carts[c].key] = v /\ CartsOf(carts[c].key) = {c}
      BY <2>1, <2>3 DEF Belongs, CartsOwn
    <3>3. carts[c].key = cookie[v]
      BY <2>1, <2>3, <3>1, <3>2 DEF Belongs, LiveKeys, Recognised, Busy, Works
    <3> QED
      BY <3>2, <3>3
  <2> QED
    BY <2>2, <2>3 DEF YoursAlone, Works
<1> QED
  BY <1>1, GuestsKept, PTL

\* A delivery is charged what its city cost at some moment of the request, and
\* no two orders share a number (place_order, generate_order_number).
THEOREM ChargedAsChosen == VisitorsSpec => []PlacedAsChosen
<1>1. GuestsInv => PlacedAsChosen
  <2> SUFFICES ASSUME GuestsInv PROVE PlacedAsChosen
    OBVIOUS
  <2>1. PICK own \in Owners : Belongs(own)
    BY DEF GuestsInv
  <2>2. ASSUME NEW h \in Handler, handler[h].pc = "place"
        PROVE  IF handler[h].city = "pickup" THEN handler[h].cost = 0
               ELSE handler[h].cost \in handler[h].offered
    BY <2>1, <2>2 DEF Belongs, JobOk, JobIsPriced, Works
  <2> QED
    BY <2>2 DEF PlacedAsChosen, GuestsInv, NumbersDiffer
<1> QED
  BY <1>1, GuestsKept, PTL

=============================================================================
