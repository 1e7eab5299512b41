---------------------------- MODULE GatewayDesk ----------------------------
(***************************************************************************)
(* One process of the shop between its environment and the gateway: how it *)
(* is configured and started, what its views and the gateway client let    *)
(* through, what comes back, and what the probes say of it.  Requests do   *)
(* not meet here (their meeting is OrderPayments'), so one at a time is    *)
(* kept; the database, Redis and the gateway may go at any of its steps.   *)
(***************************************************************************)
EXTENDS Naturals

CONSTANTS Called    \* the operations of the instance

VARIABLES
    settings,   \* of the running process, or Down
    up,         \* what it can reach: a subset of Servers
    ask,        \* the request under way or answered, or NoAsk
    well        \* what the last health check, if it said ok, found and is not lost since

deskVars == <<settings, up, ask, well>>

Servers == {"database", "redis", "gateway"}
Down == [cache |-> "none"]
NoAsk == [pc |-> "none"]

\* OPERATIONS: the arguments the desk takes, and whether they are card data.
Operation(required, optional, card_data) ==
    [required |-> required, allowed |-> required \cup optional, card_data |-> card_data]
OPERATIONS ==
    [pay_init       |-> Operation({"merchant_trans_id", "amount"},
                                  {"phone_number", "return_url"}, FALSE),
     invoice_create |-> Operation({"merchant_trans_id", "amount", "phone_number"}, {}, FALSE),
     invoice_status |-> Operation({"invoice_id"}, {}, FALSE),
     payment_status |-> Operation({"payment_id"}, {}, FALSE),
     status_by_mti  |-> Operation({"merchant_trans_id"}, {}, FALSE),
     refund         |-> Operation({"payment_id"}, {}, FALSE),
     qr_generate    |-> Operation({"amount"}, {"merchant_trans_id", "return_url"}, FALSE),
     card_token_request |-> Operation({"card_number", "expire_date"}, {"temporary"}, TRUE),
     card_token_verify  |-> Operation({"card_token", "sms_code"}, {}, TRUE),
     card_token_payment |-> Operation({"card_token", "amount", "merchant_trans_id"}, {}, TRUE),
     card_token_delete  |-> Operation({"card_token"}, {}, TRUE)]

ASSUME DeskAssumption == Called \subseteq DOMAIN OPERATIONS

\* FintechhubClient's methods, under their operations' names: the arguments
\* they cannot do without, and whether the request is signed.
Endpoint(needs, signed) == [needs |-> needs, signed |-> signed]
FintechhubClient ==
    [pay_init       |-> Endpoint({"merchant_trans_id", "amount"}, FALSE),
     invoice_create |-> Endpoint({"merchant_trans_id", "amount", "phone_number"}, TRUE),
     payment_status |-> Endpoint({"payment_id"}, TRUE),
     status_by_mti  |-> Endpoint({"merchant_trans_id"}, TRUE),
     refund         |-> Endpoint({"payment_id"}, TRUE),
     invoice_status |-> Endpoint({"invoice_id"}, TRUE),
     card_token_request |-> Endpoint({"card_number", "expire_date"}, TRUE),
     card_token_verify  |-> Endpoint({"card_token", "sms_code"}, TRUE),
     card_token_payment |-> Endpoint({"card_token", "amount", "merchant_trans_id"}, TRUE),
     card_token_delete  |-> Endpoint({"card_token"}, TRUE),
     qr_generate    |-> Endpoint({"amount", "merchant_trans_id"}, TRUE)]

-----------------------------------------------------------------------------
(* Settings.                                                               *)

Environment == [DEBUG : BOOLEAN, strong_key : BOOLEAN, REDIS_URL : BOOLEAN,
                REDIS_REQUIRED : BOOLEAN, merchant : BOOLEAN, service_secret : BOOLEAN,
                VERIFY_SIGNATURE : BOOLEAN, CARD_TOKENIZATION : BOOLEAN]
\* production refuses a weak key and, unless told otherwise, no Redis.
Starts(env) ==
    env.DEBUG \/ (env.strong_key /\ (env.REDIS_REQUIRED => env.REDIS_URL))
Settings(env) ==
    [DEBUG |-> env.DEBUG, cache |-> IF env.REDIS_URL THEN "redis" ELSE "process",
     merchant |-> env.merchant, service_secret |-> env.service_secret,
     VERIFY_SIGNATURE |-> env.VERIFY_SIGNATURE, cards |-> env.CARD_TOKENIZATION]
Start ==
    /\ settings = Down
    /\ \E env \in Environment : Starts(env) /\ settings' = Settings(env)
    /\ UNCHANGED <<up, ask, well>>
CacheAnswers == settings.cache = "redis" => "redis" \in up
\* check_payment_configuration
Issues ==
    LET level == IF settings.DEBUG THEN "warning" ELSE "error" IN
    (IF settings.merchant /\ settings.service_secret THEN {} ELSE {<<level, 1>>})
    \cup (IF settings.VERIFY_SIGNATURE THEN {} ELSE {<<level, 2>>})

Lose(server) ==
    /\ server \in up /\ up' = up \ {server}
    /\ well' = well \ {seen \in well : \/ seen = server
                                       \/ server = "redis" /\ settings.cache = "redis"
                                          /\ seen = "cache"}
    /\ UNCHANGED <<settings, ask>>
Restore(server) ==
    /\ server \notin up /\ up' = up \cup {server}
    /\ UNCHANGED <<settings, ask, well>>

-----------------------------------------------------------------------------
(* The framework before a view: its gate, permission and throttle.         *)

View == {"proxy", "header", "card", "order", "invoice", "callback"}
Permitted(view, caller) ==
    CASE view \in {"proxy", "header"}   -> caller = "staff"
      [] view \in {"card", "invoice"}   -> caller # "guest"
      [] view \in {"order", "callback"} -> TRUE
Throttled(view) == view # "callback"
Serves(view) ==
    CASE view = "proxy" -> Called
      [] view = "card"  -> {op \in Called : OPERATIONS[op].card_data}
      [] view = "order" -> Called \cap {"qr_generate", "invoice_create"}
      [] view = "invoice" -> Called \cap {"invoice_status"}
      [] OTHER -> {"none"}

Answered(status) ==
    ask' = [ask EXCEPT !.pc = "answered", !.status = status, !.keys = {}, !.odd = FALSE]
Payloads(view, op) ==
    IF view # "proxy" THEN {{}}
    ELSE LET takes == OPERATIONS[op] IN
         {{}, takes.required, takes.allowed, takes.allowed \cup {"path"}}
\* A body the view reads: deleting a token names it in the path.
TakesBody(op) == op # "card_token_delete"
\* Whose requests may hold a value that is checked nowhere before a line that
\* raises on it: whatever reads a body, for one nested deeper than the parser
\* recurses, say; the proxy, for an amount that is no number and for a character
\* no URL holds; a new card, for an expiry of digits that int() does not read;
\* and the callbacks (CallbackRaises).
MayBeOdd(view, op) == view \notin {"header", "invoice"} /\ TakesBody(op)
\* A request arrives; the views that compose the payload themselves (all but
\* the proxy) pass what the operation takes.
Arrive(view, caller, op) ==
    /\ settings # Down /\ ask.pc \in {"none", "answered"}
    /\ view = "callback" => caller = "guest"
    /\ \E keys \in Payloads(view, op), odd \in BOOLEAN :
          /\ odd => MayBeOdd(view, op)
          /\ ask' = [pc |-> "new", view |-> view, caller |-> caller, op |-> op, keys |-> keys,
                     odd |-> odd, status |-> 0, effect |-> "none", answer |-> "none",
                     code |-> "", genuine |-> FALSE]
    /\ UNCHANGED <<settings, up, well>>
\* 403 stands for 401 as well.
Dispatch ==
    /\ ask.pc = "new"
    /\ CASE ask.view = "card" /\ ~settings.cards -> Answered(404)
         [] ask.caller # "guest" /\ "database" \notin up -> Answered(500)
         [] ~Permitted(ask.view, ask.caller) -> Answered(403)
         [] Throttled(ask.view) /\ ~CacheAnswers -> Answered(500)
         [] OTHER -> \/ ask' = [ask EXCEPT !.pc = "view"]
                     \/ Throttled(ask.view) /\ Answered(429)
    /\ UNCHANGED <<settings, up, well>>

-----------------------------------------------------------------------------
(* The views that call the gateway.                                        *)

\* GatewayProxyView.post before the call.
Enabled(op) == ~OPERATIONS[op].card_data \/ settings.cards
\* The call takes the arguments it got; if not it raises, and no handler of the
\* view looks at that.
Fits(op, keys) == FintechhubClient[op].needs \subseteq keys
ProxyRefusal(op, keys) ==
    IF ~Enabled(op) THEN 403
    ELSE IF ~(keys \subseteq OPERATIONS[op].allowed) \/ ~(OPERATIONS[op].required \subseteq keys)
    THEN 400
    ELSE IF ~Fits(op, keys) THEN 500
    ELSE 0
\* missing_settings, seen by the client.
Configured(op) == FintechhubClient[op].signed => settings.merchant
Forward(otherwise) ==
    IF Configured(ask.op) THEN ask' = [ask EXCEPT !.pc = "sent", !.keys = {}]
    ELSE Answered(otherwise)
InView(view) ==
    ask.pc = "view" /\ ask.view = view /\ UNCHANGED <<settings, up, well>>

\* An odd request raises, unless it is refused before the line that does.
ProxyCall ==
    /\ InView("proxy")
    /\ \/ ask.odd /\ Answered(500)
       \/ LET refusal == ProxyRefusal(ask.op, ask.keys) IN
          IF refusal # 0 THEN Answered(refusal)
          ELSE (ask.odd => ~Configured(ask.op)) /\ Forward(503)
\* _own_order finds it, finds none, or cannot look.
OrderFound == "database" \in up
NoOrder == Answered(IF "database" \in up THEN 404 ELSE 500)
\* An order that is already paid is refused like a bad body.
CardCall ==
    /\ InView("card")
    /\ \/ ask.odd /\ Answered(500)
       \/ ~ask.odd /\ TakesBody(ask.op) /\ Answered(400)
       \/ ~ask.odd /\ ask.op = "card_token_payment" /\ NoOrder
       \/ ~ask.odd /\ (ask.op = "card_token_payment" => OrderFound) /\ Forward(502)
\* A QR code or an invoice for an order of the caller's own.
OrderCall ==
    /\ InView("order")
    /\ IF ask.odd THEN Answered(500)
       ELSE Answered(400) \/ NoOrder \/ (OrderFound /\ Forward(502))
InvoiceStatusCall == InView("invoice") /\ Forward(502)

\* The gateway acts, or does not, and its answer arrives as a success, as an
\* error it states, as something that is no JSON, or not at all; odd is JSON the
\* code cannot use: a list where it looks for a payment_id, an id longer than
\* its column, a value or a character the shop's own answer cannot print.
Exchange ==
    /\ ask.pc = "sent"
    /\ \E effect \in {"none", "done"},
          answer \in {"success", "error", "garbled", "nothing", "odd"} :
          /\ answer = "success" => effect = "done"
          /\ answer = "error" => effect = "none"
          /\ "gateway" \notin up => effect = "none" /\ answer = "nothing"
          /\ ask' = [ask EXCEPT !.pc = "heard", !.effect = effect, !.answer = answer]
    /\ UNCHANGED <<settings, up, well>>
\* The proxy says 502 for every failure, the others only when nothing came back.
StatusOf_lostIsRefused(answer) ==
    IF answer = "success"
    THEN IF ask.op = "invoice_create" /\ ask.view = "order" THEN 201 ELSE 200
    ELSE IF ask.view = "proxy" THEN 502 ELSE 400
StatusOf(answer) ==
    IF answer = "success"
    THEN IF ask.op = "invoice_create" /\ ask.view = "order" THEN 201 ELSE 200
    ELSE IF ask.view = "proxy" \/ answer = "nothing" THEN 502 ELSE 400
\* A charge is recorded before it is reported.  An odd answer raises there, and
\* elsewhere where it is printed, unless it passes for what it says.
Charged == ask.view = "card" /\ ask.op = "card_token_payment" /\ ask.effect = "done"
Reply ==
    /\ ask.pc = "heard"
    /\ IF ask.answer = "odd"
       THEN \/ Answered(500)
            \/ ~Charged /\ Answered(StatusOf(IF ask.effect = "done" THEN "success" ELSE "error"))
       ELSE IF ask.answer = "success" /\ Charged /\ "database" \notin up THEN Answered(500)
       ELSE Answered(StatusOf(ask.answer))
    /\ UNCHANGED <<settings, up, well>>

\* GatewayAuthHeaderView
Header ==
    /\ ask.pc = "view" /\ ask.view = "header"
    /\ Answered(IF settings.merchant THEN 200 ELSE 503)
    /\ UNCHANGED <<settings, up, well>>

-----------------------------------------------------------------------------
(* The callbacks' way in, and the probes.                                  *)

\* A callback's data: the endpoint it came to, or that it does not parse, or
\* that its serializer refuses it; the service and the amount it names (text
\* that is no number is another); what its two ids find; its sign_string, the
\* digest of a secret and of a row of values with nothing between them: this is
\* the row its endpoint makes of its fields, which may also be the row of the
\* other endpoint's, cut elsewhere; and what is odd about it: a body its parser
\* gives up on, a sign_string that is no ASCII, an amount of more digits than
\* memory holds (1e99999999999), or a click_trans_id longer than its column.
CallbackData ==
    [action : {"prepare", "complete", "malformed", "unparsed"},
     service : {"ours", "another"}, amount : {"total", "another"},
     finds : SUBSET {"order", "payment"},
     sign : [secret : {"ours", "another"}, row : {"this", "other"}],
     odd : {"none", "body", "sign_string", "amount", "click_trans_id"}]
Genuine(data) ==
    data.odd # "sign_string" /\ data.sign = [secret |-> "ours", row |-> "this"]
\* The shop may have no secret of its own.
SignatureIsValid(data) ==
    ~settings.VERIFY_SIGNATURE \/ (settings.service_secret /\ Genuine(data))
ServiceMatches(data) == data.service = "ours"
AmountsMatch(data) == data.amount = "total"
\* handle_prepare and handle_complete up to where the order is judged.
CallbackCode(data) ==
    IF data.action = "malformed" THEN "-3"
    ELSE IF ~SignatureIsValid(data) \/ ~ServiceMatches(data) THEN "-1"
    ELSE IF "order" \notin data.finds THEN "-5"
    ELSE IF data.action = "complete" /\ "payment" \notin data.finds THEN "-6"
    ELSE IF ~AmountsMatch(data) THEN "-2" ELSE "judged"
\* Where an odd callback raises: in the parser, in hmac.compare_digest, which
\* takes no other strings than ASCII, where the amounts are formatted, and where
\* a prepare inserts its payment, unless its order is answered for before.
CallbackRaises(data) ==
    \/ data.odd = "body"
    \/ /\ data.odd = "sign_string" /\ data.action \in {"prepare", "complete"}
       /\ settings.VERIFY_SIGNATURE /\ settings.service_secret
    \/ /\ data.odd = "amount" /\ data.action \in {"prepare", "complete"}
       /\ CallbackCode(data) = "-2"
MayRaise(data) ==
    data.odd = "click_trans_id" /\ data.action = "prepare" /\ CallbackCode(data) = "judged"
\* The handlers open a transaction before they look at anything.
Judge(data) ==
    IF data.action = "unparsed" THEN Answered(400)
    ELSE IF "database" \notin up /\ data.action # "malformed" THEN Answered(500)
    ELSE ask' = [ask EXCEPT !.pc = "answered", !.odd = FALSE, !.status = 200,
            !.code = CallbackCode(data),
            !.genuine = Genuine(data) /\ ServiceMatches(data) /\ data.action # "malformed"]
Callback ==
    /\ ask.pc = "view" /\ ask.view = "callback"
    /\ \E data \in CallbackData :
          /\ ask.odd <=> data.odd # "none"
          /\ data.odd = "amount" => data.amount = "another"
          /\ data.odd = "click_trans_id" /\ data.action = "complete" => "payment" \notin data.finds
          /\ \/ (CallbackRaises(data) \/ MayRaise(data)) /\ Answered(500)
             \/ ~CallbackRaises(data) /\ Judge(data)
    /\ UNCHANGED <<settings, up, well>>

\* HealthCheckView; check_redis asks the second question alone.
ChecksPass_database == "database" \in up
ChecksPass == "database" \in up /\ CacheAnswers
Health ==
    /\ settings # Down
    /\ well' = IF ChecksPass THEN {"database", "cache"} ELSE {}
    /\ UNCHANGED <<settings, up, ask>>

\* The worker is killed or restarted: whatever it was doing gets no answer.
Stop ==
    /\ settings # Down
    /\ settings' = Down /\ ask' = NoAsk /\ well' = {}
    /\ UNCHANGED up

DeskInit == settings = Down /\ up = Servers /\ ask = NoAsk /\ well = {}
DeskNext ==
    \/ Start \/ Stop \/ Health
    \/ \E server \in Servers : Lose(server) \/ Restore(server)
    \/ \E view \in View, caller \in {"guest", "customer", "staff"} :
          \E op \in Serves(view) : Arrive(view, caller, op)
    \/ Dispatch \/ ProxyCall \/ CardCall \/ OrderCall \/ InvoiceStatusCall
    \/ Exchange \/ Reply \/ Header \/ Callback
DeskSpec == DeskInit /\ [][DeskNext]_deskVars

-----------------------------------------------------------------------------
(* Properties.                                                             *)

Refused == ask.status \in {400, 403, 404, 429, 503}
Reports == ask.pc = "answered" /\ ask.view \in {"proxy", "card", "order", "invoice"}

\* What the shop reports as refused the gateway did not do, even when its answer
\* was lost: only one that came back as no JSON may be misread, by the views and
\* never by the proxy.  What it reports as done the gateway did; and no card
\* number leaves a shop that did not opt in, by either way
\* (apps/payments/operations.py:8-9, views/card.py:41-42, gateway_error_response).
AnswerTellsEffect == Reports =>
    /\ Refused /\ ask.effect = "done" => ask.answer = "garbled" /\ ask.view # "proxy"
    /\ ask.status \in {200, 201} => ask.effect = "done"
    /\ OPERATIONS[ask.op].card_data /\ ask.effect = "done" => settings.cards

\* What the code is known to raise on: an odd request, an odd answer of the
\* gateway, and a QR code without the order that its operation calls optional.
Odd == \/ ask.odd \/ ask.answer = "odd"
       \/ ask.pc = "view" /\ ask.view = "proxy" /\ ~Fits(ask.op, ask.keys)

\* A process that its health check found well answers with a server error only
\* what its code raises on, until the database or the cache is lost: no state of
\* the gateway and no setting does it, and the callbacks do not even need the
\* cache.  One whose payment check reports nothing judges exactly the callbacks
\* that the shop's secret signed and never lacks a credential.  That the
\* callbacks always answer 200 (views/callbacks.py:9) is not so: see Callback.
ProbesTellTheTruth == [][ask' # ask /\ ask'.pc = "answered" =>
    /\ "database" \in well /\ ("cache" \in well \/ ask.view = "callback") /\ ~Odd
          => ask'.status # 500
    /\ Issues = {} /\ ask.view = "callback" /\ ask'.status = 200
          => (ask'.code \notin {"-1", "-3"} <=> ask'.genuine)
    /\ Issues = {} => ask'.status # 503]_deskVars
=============================================================================
