------------------------------ MODULE Visitors ------------------------------
(***************************************************************************)
(* Guests: the session that stands for an account, the cart and the orders *)
(* it owns, and the city whose zone prices a delivery.  A visitor's tab or *)
(* script may have several requests in flight; the web workers serve them  *)
(* statement by statement while sessions expire and staff edit the zones.  *)
(* Quantities, money and stock are Carts', Pricing's and Checkout's.       *)
(***************************************************************************)
EXTENDS Sequences, FiniteSets, Naturals

CONSTANTS
    Visitor,        \* browsers
    Handler,        \* web workers
    MaxSessions,    \* bound: keys the session store draws
    Number,         \* what generate_order_number may draw
    BaseCost,       \* costs of a zone, 0 at first
    MaxCarts, MaxOrders, MaxChanges     \* bounds: cart rows, guests' orders, staff edits

VARIABLES
    sessions,       \* of each key: "unused", "live" or "gone"
    cookie,         \* of each visitor: the key the browser sends
    carts,          \* the guest cart rows; by: who put something in
    orders,         \* the order rows; placer is who placed it, a history variable
    handler,        \* what each worker is doing
    zone,           \* of the city, or "none"
    base_cost,      \* of each zone
    changes,        \* staff edits so far
    calm            \* visitors all of whose requests were answered, one at a time

visitorVars == <<sessions, cookie, carts, orders, handler, zone, base_cost, changes, calm>>

SessionKey == 1..MaxSessions
NoKey == 0
Zones == {"near", "far"}
Account == "customer"
Off == [pc |-> "off"]
Busy(v) == {h \in Handler : handler[h].pc # "off" /\ handler[h].visitor = v}
Goto(h, pc) == handler' = [handler EXCEPT ![h].pc = pc]
Serving(v, kind, key) ==
    [pc |-> "session", visitor |-> v, kind |-> kind, key |-> key, fresh |-> FALSE, cart |-> 0,
     city |-> "none", cost |-> 0, number |-> 0, offered |-> {}, found |-> {}]
\* The answer is on its way: what the request worked with is forgotten.
Conclude(h, found) ==
    LET r == handler[h] IN
    handler' = [handler EXCEPT ![h] =
        [Serving(r.visitor, "done", IF r.fresh THEN r.key ELSE NoKey)
         EXCEPT !.pc = "answer", !.fresh = r.fresh, !.found = found]]

-----------------------------------------------------------------------------
(* The session and the cart.                                               *)

Send(h, v, kind) ==
    /\ handler[h].pc = "off"
    /\ kind = "checkout" => Cardinality(orders) < 2 + MaxOrders
    /\ handler' = [handler EXCEPT ![h] = Serving(v, kind, cookie[v])]
    /\ calm' = IF Busy(v) = {} THEN calm ELSE calm \ {v}
    /\ UNCHANGED <<sessions, cookie, carts, orders, zone, base_cost, changes>>

\* guest_session_key: a key the store does not know is dropped; a new one is
\* drawn for a request that creates what it needs.
Recognised(key) == key # NoKey /\ sessions[key] = "live"
LoadSession(h) ==
    LET r == handler[h]
        Known(key, fresh) == handler' = [handler EXCEPT ![h].key = key, ![h].fresh = fresh,
              ![h].pc = IF r.kind = "orders" THEN "list" ELSE "cart"] IN
    /\ r.pc = "session"
    /\ IF Recognised(r.key) THEN Known(r.key, FALSE) /\ UNCHANGED sessions
       ELSE IF r.kind = "orders" THEN Known(NoKey, FALSE) /\ UNCHANGED sessions
       ELSE IF r.kind = "checkout" THEN Conclude(h, {}) /\ UNCHANGED sessions
       ELSE \E key \in SessionKey :      \* one key is as good as another
                /\ \A k \in SessionKey : sessions[k] = "unused" <=> k >= key
                /\ sessions' = [sessions EXCEPT ![key] = "live"]
                /\ Known(key, TRUE)
    /\ UNCHANGED <<cookie, carts, orders, zone, base_cost, changes, calm>>

\* resolve_cart: first() takes the one touched last, which may be any of them.
CartsOf(key) == {c \in DOMAIN carts : carts[c].key = key}
ResolveCart(h) ==
    LET r == handler[h] IN
    /\ r.pc = "cart"
    /\ \/ \E c \in CartsOf(r.key) :
             handler' = [handler EXCEPT ![h].cart = c,
                            ![h].pc = IF r.kind = "add" THEN "fill" ELSE "choose"]
       \/ CartsOf(r.key) = {} /\ r.kind = "add" /\ Goto(h, "create")
       \/ CartsOf(r.key) = {} /\ r.kind = "checkout" /\ Conclude(h, {})
    /\ UNCHANGED <<sessions, cookie, carts, orders, zone, base_cost, changes, calm>>
CreateCart(h) ==
    /\ handler[h].pc = "create" /\ Len(carts) < MaxCarts
    /\ carts' = Append(carts, [key |-> handler[h].key, by |-> {}])
    /\ handler' = [handler EXCEPT ![h].pc = "fill", ![h].cart = Len(carts) + 1]
    /\ UNCHANGED <<sessions, cookie, orders, zone, base_cost, changes, calm>>
\* add_item, which may refuse the quantity.
Fill(h) ==
    /\ handler[h].pc = "fill"
    /\ \/ carts' = [carts EXCEPT ![handler[h].cart].by = @ \cup {handler[h].visitor}]
       \/ UNCHANGED carts
    /\ Conclude(h, {})
    /\ UNCHANGED <<sessions, cookie, orders, zone, base_cost, changes, calm>>

-----------------------------------------------------------------------------
(* Placing an order, and finding it again.                                 *)

\* deliverable_cities: what the city costs now, if it is delivered to.
DeliveryCosts == IF zone = "none" THEN {} ELSE {base_cost[zone]}
\* The lines, then the city, read with its zone in one statement.
ChooseCity(h) ==
    LET r == handler[h] IN
    /\ r.pc = "choose"
    /\ \/ carts[r.cart].by = {} /\ Conclude(h, {})
       \/ /\ carts[r.cart].by # {}
          /\ \/ handler' = [handler EXCEPT ![h].city = "pickup", ![h].pc = "number"]
             \/ zone = "none" /\ Conclude(h, {})
             \/ zone # "none" /\ handler' = [handler EXCEPT ![h].city = zone,
                     ![h].cost = base_cost[zone], ![h].offered = DeliveryCosts,
                     ![h].pc = "number"]
    /\ UNCHANGED <<sessions, cookie, carts, orders, zone, base_cost, changes, calm>>
\* What the order is priced with, once the stock rows are locked.
DeliveryCost_reread(r) == IF r.city = "pickup" THEN 0 ELSE base_cost[r.city]
DeliveryCost(r) == IF r.city = "pickup" THEN 0 ELSE r.cost
\* generate_order_number: ten draws may all be taken.
Taken == {o.number : o \in orders}
DrawNumber(h) ==
    LET r == handler[h] IN
    /\ r.pc = "number"
    /\ \/ \E n \in Number \ Taken :
             handler' = [handler EXCEPT ![h].number = n, ![h].cost = DeliveryCost(r),
                                        ![h].pc = "place"]
       \/ Taken # {} /\ Conclude(h, {})
    /\ UNCHANGED <<sessions, cookie, carts, orders, zone, base_cost, changes, calm>>
\* The insert waits for another of the same number and then fails, and the
\* transaction with it.
Place(h) ==
    LET r == handler[h] IN
    /\ r.pc = "place"
    /\ \/ /\ r.number \in Taken
          /\ Conclude(h, {})
          /\ UNCHANGED <<carts, orders>>
       \/ /\ r.number \notin Taken
          /\ orders' = orders \cup {[number |-> r.number, user |-> "none", key |-> r.key,
                                     placer |-> r.visitor]}
          /\ carts' = [carts EXCEPT ![r.cart].by = {}]
          /\ Conclude(h, {})
    /\ UNCHANGED <<sessions, cookie, zone, base_cost, changes, calm>>

\* owned_orders, which every view of an order or of its payments starts from.
OwnedOrders_anyKey(key) == {o \in orders : o.user = "none" /\ o.key = key}
OwnedOrders(key) ==
    IF key = NoKey THEN {} ELSE {o \in orders : o.user = "none" /\ o.key = key}
ListOrders(h) ==
    /\ handler[h].pc = "list"
    /\ Conclude(h, OwnedOrders(handler[h].key))
    /\ UNCHANGED <<sessions, cookie, carts, orders, zone, base_cost, changes, calm>>

\* The page of one order, of its payments, or the check of one of them.
ShowOrder(h) ==
    /\ handler[h].pc = "list"
    /\ \E o \in orders : Conclude(h, OwnedOrders(handler[h].key) \cap {o})
    /\ UNCHANGED <<sessions, cookie, carts, orders, zone, base_cost, changes, calm>>

\* A response carries the cookie of a session its request created.
Respond(h) ==
    LET r == handler[h] IN
    /\ r.pc = "answer"
    /\ handler' = [handler EXCEPT ![h] = Off]
    /\ cookie' = IF r.fresh THEN [cookie EXCEPT ![r.visitor] = r.key] ELSE cookie
    /\ UNCHANGED <<sessions, carts, orders, zone, base_cost, changes, calm>>
\* The worker dies or the connection does: committed rows stay.
GiveUp(h) ==
    /\ handler[h].pc # "off"
    /\ handler' = [handler EXCEPT ![h] = Off]
    /\ calm' = calm \ {handler[h].visitor}
    /\ UNCHANGED <<sessions, cookie, carts, orders, zone, base_cost, changes>>

-----------------------------------------------------------------------------
(* Meanwhile.                                                              *)

\* Two weeks after it was created: a guest's requests do not renew it.
Expire(key) ==
    /\ sessions[key] = "live" /\ sessions' = [sessions EXCEPT ![key] = "gone"]
    /\ UNCHANGED <<cookie, carts, orders, handler, zone, base_cost, changes, calm>>
\* Staff edit the zones; of the few edits of an instance none is spent where
\* no checkout has read its city.
Pricing == {h \in Handler : handler[h].pc \in {"number", "place"}}
Offering ==
    handler' = [h \in Handler |->
        IF h \in Pricing THEN [handler[h] EXCEPT !.offered = @ \cup DeliveryCosts']
        ELSE handler[h]]
MoveCity(z) ==
    /\ Pricing # {} /\ changes < MaxChanges /\ changes' = changes + 1
    /\ zone # z /\ zone' = z /\ UNCHANGED base_cost /\ Offering
    /\ UNCHANGED <<sessions, cookie, carts, orders, calm>>
RepriceZone(z, cost) ==
    /\ Pricing # {} /\ changes < MaxChanges /\ changes' = changes + 1
    /\ base_cost[z] # cost /\ base_cost' = [base_cost EXCEPT ![z] = cost]
    /\ UNCHANGED zone /\ Offering
    /\ UNCHANGED <<sessions, cookie, carts, orders, calm>>

\* There is an order of an account, and one whose account was deleted:
\* Order.user is SET_NULL, so it has no owner at all.
VisitorsInit ==
    /\ sessions = [key \in SessionKey |-> "unused"]
    /\ cookie = [v \in Visitor |-> NoKey]
    /\ carts = <<>>
    /\ orders = {[number |-> 1, user |-> Account, key |-> NoKey, placer |-> Account],
                 [number |-> 2, user |-> "none", key |-> NoKey, placer |-> Account]}
    /\ handler = [h \in Handler |-> Off]
    /\ zone = "near" /\ base_cost = [z \in Zones |-> 0]
    /\ changes = 0 /\ calm = Visitor
VisitorsNext ==
    \/ \E h \in Handler :
          \/ \E v \in Visitor, kind \in {"add", "checkout", "orders"} : Send(h, v, kind)
          \/ LoadSession(h) \/ ResolveCart(h) \/ CreateCart(h) \/ Fill(h) \/ ChooseCity(h)
          \/ DrawNumber(h) \/ Place(h) \/ ListOrders(h) \/ ShowOrder(h)
          \/ Respond(h) \/ GiveUp(h)
    \/ \E key \in SessionKey : Expire(key)
    \/ \E z \in Zones \cup {"none"} : MoveCity(z)
    \/ \E z \in Zones, cost \in BaseCost : RepriceZone(z, cost)
VisitorsSpec == VisitorsInit /\ [][VisitorsNext]_visitorVars

-----------------------------------------------------------------------------
(* Properties.                                                             *)

\* A guest is shown, and orders, only what the same browser put there, also
\* when its session has expired or an account was deleted; and one that takes
\* an answer at a time never mislays a cart: while the session lasts there is
\* one, and the next request finds it (apps/carts/sessions.py:8-11,
\* orders/services.py:69-70).
YoursAlone ==
    /\ \A h \in Handler : handler[h].pc # "off" =>
          /\ \A o \in handler[h].found : o.placer = handler[h].visitor
          /\ handler[h].pc = "place" => carts[handler[h].cart].by \subseteq {handler[h].visitor}
    /\ \A v \in calm : Busy(v) = {} =>
          \A c \in DOMAIN carts : v \in carts[c].by /\ Recognised(carts[c].key)
               => carts[c].key = cookie[v] /\ CartsOf(cookie[v]) = {c}

\* A delivery costs what the chosen city cost at some moment of the request,
\* whatever staff do to the city and its zones meanwhile; pickup is free.
\* No two orders share a number.
PlacedAsChosen ==
    /\ \A h \in Handler : handler[h].pc = "place" =>
          IF handler[h].city = "pickup" THEN handler[h].cost = 0
          ELSE handler[h].cost \in handler[h].offered
    /\ \A o1, o2 \in orders : o1.number = o2.number => o1 = o2
=============================================================================
