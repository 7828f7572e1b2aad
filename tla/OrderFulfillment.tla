-------------------------- MODULE OrderFulfillment --------------------------
(***************************************************************************)
(* Sales orders, the purchases made for them at Ozon, and the fulfilment   *)
(* warehouse (OrderService, WarehouseService).  Operators advance a        *)
(* purchase, one or several at a time, or mark it failed; the sales order  *)
(* is told each new status; clerks book goods in and out.                  *)
(*                                                                         *)
(* A handler runs in a slot of Desk; each of its database or platform      *)
(* calls is a step and may throw, which ends the handler there (Break).    *)
(* The platforms are modelled from their interfaces: today's adapters are  *)
(* stubs that only throw.  A sales order and its purchase share a name, as *)
(* their link is one to one (schema.prisma).                               *)
(***************************************************************************)
EXTENDS Naturals, FiniteSets

CONSTANTS
  Order,        \* sales orders, each with its purchase
  NoOrder,
  Desk,         \* slots for the handlers in progress
  Ordered,      \* quantity of a sales order
  Tracking,     \* tracking numbers
  MaxErrands    \* bound: requests made

ASSUME OrderAssumptions ==
  /\ NoOrder \notin Order /\ IsFiniteSet(Order)
  /\ Ordered \in Nat \ {0} /\ MaxErrands \in Nat

VARIABLES
  onShelf,      \* product.status = ON_SHELF
  sales,        \* salesOrder.status, NONE without a row
  purchase,     \* purchaseOrder.status, NONE without a row
  linked,       \* orders with an orderLink
  placed,       \* orders placed at Ozon for the purchase
  alerts,       \* per order: how many alerts are OPEN and how many RESOLVED
  inbounds,     \* inboundRecord rows
  outbounds,    \* outboundRecord rows
  desk,         \* the handlers in progress
  raced,        \* history: orders two handlers worked on at once, or a handler broke on
  errands       \* history: requests so far

orderVars == <<onShelf, sales, purchase, linked, placed, alerts, inbounds, outbounds,
               desk, raced, errands>>
goods == <<inbounds, outbounds>>

-----------------------------------------------------------------------------
PurchaseStatuses == {"PENDING_PURCHASE", "PURCHASE_SUCCESS", "PURCHASE_FAILED",
                     "SHIPPED_TO_WB", "ARRIVED_WB"}
SalesStatuses == {"PURCHASE_PENDING", "PURCHASING", "IN_TRANSIT_WB", "ARRIVED_WB",
                  "INBOUND", "SHIPPED", "EXCEPTION"}

\* advancePurchaseStatus: "NONE" is null.
AdvancePurchaseStatus(status) ==
  CASE status = "PENDING_PURCHASE" -> "PURCHASE_SUCCESS"
    [] status = "PURCHASE_SUCCESS" -> "SHIPPED_TO_WB"
    [] status = "SHIPPED_TO_WB" -> "ARRIVED_WB"
    [] OTHER -> "NONE"

SalesStatusForPurchase(status) ==
  CASE status = "PENDING_PURCHASE" -> "PURCHASE_PENDING"
    [] status = "PURCHASE_SUCCESS" -> "PURCHASING"
    [] status = "PURCHASE_FAILED" -> "EXCEPTION"
    [] status = "SHIPPED_TO_WB" -> "IN_TRANSIT_WB"
    [] status = "ARRIVED_WB" -> "ARRIVED_WB"
    [] OTHER -> "EXCEPTION"

Free == [pc |-> "free", order |-> NoOrder, todo |-> {}, fail |-> FALSE, next |-> "NONE",
         inform |-> {}, stock |-> 0, tracking |-> CHOOSE t \in Tracking : TRUE]

DeskAt(d, step) == desk[d].pc = step
GotoStep(d, step) == desk' = [desk EXCEPT ![d].pc = step]
Leave(d) == desk' = [desk EXCEPT ![d] = Free]
\* The handlers that have read something of the order.
AtWork(o) == {d \in Desk : desk[d].order = o /\ ~DeskAt(d, "advanceRead")}
\* A handler that takes up an order another one is at.
Meets(d, o) == raced' = IF AtWork(o) \ {d} # {} THEN raced \cup {o} ELSE raced

NewErrand == errands < MaxErrands /\ errands' = errands + 1

\* Whatever call is next throws: the request ends as it stands.
Break(d) ==
  /\ ~DeskAt(d, "free")
  /\ raced' = raced \cup ({desk[d].order} \ {NoOrder})
  /\ Leave(d)
  /\ UNCHANGED <<onShelf, sales, purchase, linked, placed, alerts, goods, errands>>

-----------------------------------------------------------------------------
(* createSales                                                             *)

\* The product goes on and off the shelf (WbListing).
ShelfMoves ==
  /\ onShelf' = ~onShelf /\ NewErrand
  /\ UNCHANGED <<sales, purchase, linked, placed, alerts, goods, desk, raced>>

SalesStart(d) ==
  /\ DeskAt(d, "free") /\ NewErrand /\ onShelf
  /\ \E o \in Order : sales[o] = "NONE" /\ AtWork(o) = {}
                      /\ desk' = [desk EXCEPT ![d] = [Free EXCEPT !.pc = "createSales", !.order = o]]
  /\ UNCHANGED <<onShelf, sales, purchase, linked, placed, alerts, goods, raced>>

CreateSales(d) ==
  /\ DeskAt(d, "createSales")
  /\ sales' = [sales EXCEPT ![desk[d].order] = "PURCHASE_PENDING"]
  /\ GotoStep(d, "createPurchase")
  /\ UNCHANGED <<onShelf, purchase, linked, placed, alerts, goods, raced, errands>>

CreatePurchase(d) ==
  /\ DeskAt(d, "createPurchase")
  /\ purchase' = [purchase EXCEPT ![desk[d].order] = "PENDING_PURCHASE"]
  /\ GotoStep(d, "createLink")
  /\ UNCHANGED <<onShelf, sales, linked, placed, alerts, goods, raced, errands>>

CreateLink(d) ==
  /\ DeskAt(d, "createLink")
  /\ linked' = linked \cup {desk[d].order}
  /\ Leave(d)
  /\ UNCHANGED <<onShelf, sales, purchase, placed, alerts, goods, raced, errands>>

-----------------------------------------------------------------------------
(* advancePurchase and batchAdvance                                        *)

\* batchAdvance does the chosen purchases one after the other; an error ends it.
NextInBatch(d, todo) ==
  IF todo = {} THEN Leave(d)
  ELSE \E o \in todo :
         desk' = [desk EXCEPT ![d] = [Free EXCEPT !.pc = "advanceRead", !.order = o,
                                        !.todo = todo \ {o}]]

AdvanceStart(d, O) ==
  /\ DeskAt(d, "free") /\ NewErrand
  /\ O # {} /\ \A o \in O : purchase[o] # "NONE"
  /\ NextInBatch(d, O)
  /\ UNCHANGED <<onShelf, sales, purchase, linked, placed, alerts, goods, raced>>

MarkFailedStart(d, o) ==
  /\ DeskAt(d, "free") /\ NewErrand
  /\ purchase[o] # "NONE"
  /\ desk' = [desk EXCEPT ![d] = [Free EXCEPT !.pc = "advanceRead", !.order = o, !.fail = TRUE]]
  /\ UNCHANGED <<onShelf, sales, purchase, linked, placed, alerts, goods, raced>>

\* Mutant: what was bought may still be marked failed.
MayFailUntilShipped(o) == purchase[o] \in {"PENDING_PURCHASE", "PURCHASE_SUCCESS"}
MayFail(o) == purchase[o] = "PENDING_PURCHASE"

\* The status and the links are read here and used until the end.
AdvanceRead(d) ==
  LET o == desk[d].order
      next == AdvancePurchaseStatus(purchase[o])
      Read(step, status) ==
        desk' = [desk EXCEPT ![d].pc = step, ![d].next = status,
                             ![d].inform = {o} \cap linked]
  IN
  /\ DeskAt(d, "advanceRead")
  /\ Meets(d, o)
  /\ \/ /\ desk[d].fail /\ MayFail(o)
        /\ Read("advanceWrite", "PURCHASE_FAILED")
     \/ /\ ~desk[d].fail
        /\ next = "PURCHASE_SUCCESS" /\ Read("place", next)
     \/ /\ ~desk[d].fail
        /\ next \in {"SHIPPED_TO_WB", "ARRIVED_WB"} /\ Read("advanceWrite", next)
     \/ /\ IF desk[d].fail THEN ~MayFail(o) ELSE next = "NONE"
        /\ Leave(d)
  /\ UNCHANGED <<onShelf, sales, purchase, linked, placed, alerts, goods, errands>>

\* Ozon takes the order, or answers that it does not: then the method calls itself
\* with fail.
Place(d) ==
  LET o == desk[d].order IN
  /\ DeskAt(d, "place")
  /\ \/ placed' = [placed EXCEPT ![o] = @ + 1] /\ GotoStep(d, "advanceWrite")
     \/ desk' = [desk EXCEPT ![d].pc = "advanceRead", ![d].fail = TRUE] /\ UNCHANGED placed
  /\ UNCHANGED <<onShelf, sales, purchase, linked, alerts, goods, raced, errands>>

AdvanceWrite(d) ==
  /\ DeskAt(d, "advanceWrite")
  /\ purchase' = [purchase EXCEPT ![desk[d].order] = desk[d].next]
  /\ GotoStep(d, "syncSales")
  /\ UNCHANGED <<onShelf, sales, linked, placed, alerts, goods, raced, errands>>

\* A failure also raises an alert, a success goes on with the batch.
SyncSales(d) ==
  LET v == desk[d] IN
  /\ DeskAt(d, "syncSales")
  /\ sales' = [o \in Order |-> IF o \in v.inform THEN SalesStatusForPurchase(v.next)
                               ELSE sales[o]]
  /\ IF v.next = "PURCHASE_FAILED" THEN GotoStep(d, "raiseAlert") ELSE NextInBatch(d, v.todo)
  /\ UNCHANGED <<onShelf, purchase, linked, placed, alerts, goods, raced, errands>>

RaiseAlert(d) ==
  /\ DeskAt(d, "raiseAlert")
  /\ alerts' = [alerts EXCEPT ![desk[d].order].OPEN = @ + 1]
  /\ NextInBatch(d, desk[d].todo)
  /\ UNCHANGED <<onShelf, sales, purchase, linked, placed, goods, raced, errands>>

\* Nothing is asked of the purchase.
ResolveAlert(o) ==
  /\ NewErrand
  /\ alerts[o].OPEN > 0
  /\ alerts' = [alerts EXCEPT ![o].OPEN = @ - 1, ![o].RESOLVED = @ + 1]
  /\ UNCHANGED <<onShelf, sales, purchase, linked, placed, goods, desk, raced>>

-----------------------------------------------------------------------------
(* WarehouseService                                                        *)

InboundOf(o) == {i \in inbounds : i.order = o}

HasArrived(o) == purchase[o] = "ARRIVED_WB"

InboundStart(d, o, quantity) ==
  /\ DeskAt(d, "free") /\ NewErrand
  /\ HasArrived(o) /\ o \in linked
  /\ quantity \in 1 .. Ordered
  /\ Meets(d, o)
  /\ desk' = [desk EXCEPT ![d] = [Free EXCEPT !.pc = "inboundCheck", !.order = o,
                                    !.stock = quantity]]
  /\ UNCHANGED <<onShelf, sales, purchase, linked, placed, alerts, goods>>

InboundCheck(d) ==
  /\ DeskAt(d, "inboundCheck")
  /\ IF InboundOf(desk[d].order) = {} THEN GotoStep(d, "inboundCreate") ELSE Leave(d)
  /\ UNCHANGED <<onShelf, sales, purchase, linked, placed, alerts, goods, raced, errands>>

\* Rows are told apart by their place among the order's.
InboundCreate(d) ==
  LET o == desk[d].order IN
  /\ DeskAt(d, "inboundCreate")
  /\ inbounds' = inbounds \cup {[order |-> o, nr |-> Cardinality(InboundOf(o)) + 1,
                                 quantity |-> desk[d].stock]}
  /\ GotoStep(d, "inboundSales")
  /\ UNCHANGED <<onShelf, sales, purchase, linked, placed, alerts, outbounds, raced, errands>>

InboundSales(d) ==
  /\ DeskAt(d, "inboundSales")
  /\ sales' = [sales EXCEPT ![desk[d].order] = "INBOUND"]
  /\ Leave(d)
  /\ UNCHANGED <<onShelf, purchase, linked, placed, alerts, goods, raced, errands>>

\* desk[d].stock now is the row the goods are taken from.
OutboundStart(d, i, t) ==
  /\ DeskAt(d, "free") /\ NewErrand
  /\ Meets(d, i.order)
  /\ desk' = [desk EXCEPT ![d] = [Free EXCEPT !.pc = "outboundCheck", !.order = i.order,
                                    !.stock = i.nr, !.tracking = t]]
  /\ UNCHANGED <<onShelf, sales, purchase, linked, placed, alerts, goods>>

TakenFrom(o, nr) == {x \in outbounds : x.order = o /\ x.nr = nr}

OutboundCheck(d) ==
  LET v == desk[d] IN
  /\ DeskAt(d, "outboundCheck")
  /\ IF TakenFrom(v.order, v.stock) # {} \/ \E x \in outbounds : x.tracking = v.tracking
     THEN Leave(d) ELSE GotoStep(d, "outboundCreate")
  /\ UNCHANGED <<onShelf, sales, purchase, linked, placed, alerts, goods, raced, errands>>

\* The tracking number is unique in the database, the row it empties is not.
OutboundCreate(d) ==
  LET v == desk[d] IN
  /\ DeskAt(d, "outboundCreate")
  /\ IF \E x \in outbounds : x.tracking = v.tracking
     THEN Leave(d) /\ UNCHANGED outbounds
     ELSE /\ outbounds' = outbounds \cup {[order |-> v.order, nr |-> v.stock,
                                           tracking |-> v.tracking]}
          /\ GotoStep(d, "outboundSales")
  /\ UNCHANGED <<onShelf, sales, purchase, linked, placed, alerts, inbounds, raced, errands>>

OutboundSales(d) ==
  /\ DeskAt(d, "outboundSales")
  /\ sales' = [sales EXCEPT ![desk[d].order] = "SHIPPED"]
  /\ Leave(d)
  /\ UNCHANGED <<onShelf, purchase, linked, placed, alerts, goods, raced, errands>>

-----------------------------------------------------------------------------
\* Some orders may have come as far as Wildberries' warehouse before.
OrderInit ==
  \E arrived \in SUBSET Order :
    /\ sales = [o \in Order |-> IF o \in arrived THEN "ARRIVED_WB" ELSE "NONE"]
    /\ purchase = sales
    /\ placed = [o \in Order |-> IF o \in arrived THEN 1 ELSE 0]
    /\ linked = arrived
    /\ onShelf = TRUE
    /\ alerts = [o \in Order |-> [OPEN |-> 0, RESOLVED |-> 0]]
    /\ inbounds = {} /\ outbounds = {}
    /\ desk = [d \in Desk |-> Free] /\ raced = {} /\ errands = 0

OrderNext ==
  \/ ShelfMoves
  \/ \E o \in Order : ResolveAlert(o)
  \/ \E d \in Desk :
       \/ Break(d)
       \/ SalesStart(d) \/ CreateSales(d) \/ CreatePurchase(d) \/ CreateLink(d)
       \/ \E O \in SUBSET Order : AdvanceStart(d, O)
       \/ \E o \in Order : MarkFailedStart(d, o)
       \/ AdvanceRead(d) \/ Place(d) \/ AdvanceWrite(d) \/ SyncSales(d) \/ RaiseAlert(d)
       \/ \E o \in Order, quantity \in 1 .. Ordered : InboundStart(d, o, quantity)
       \/ InboundCheck(d) \/ InboundCreate(d) \/ InboundSales(d)
       \/ \E i \in inbounds, t \in Tracking : OutboundStart(d, i, t)
       \/ OutboundCheck(d) \/ OutboundCreate(d) \/ OutboundSales(d)

OrderSpec == OrderInit /\ [][OrderNext]_orderVars

-----------------------------------------------------------------------------
(* Properties.  raced excepts the orders two handlers worked on at the same *)
(* time, which the code does not guard, and those a handler broke on.       *)

Undisturbed(o) == o \notin raced /\ AtWork(o) = {}

OrderTypeOK ==
  /\ onShelf \in BOOLEAN
  /\ sales \in [Order -> SalesStatuses \cup {"NONE"}]
  /\ purchase \in [Order -> PurchaseStatuses \cup {"NONE"}]
  /\ linked \subseteq Order /\ raced \subseteq Order
  /\ placed \in [Order -> Nat] /\ errands \in Nat
  /\ alerts \in [Order -> [OPEN : Nat, RESOLVED : Nat]]
  /\ \A i \in inbounds : i.order \in Order /\ i.nr \in Nat /\ i.quantity \in 1 .. Ordered
  /\ \A x \in outbounds : x.order \in Order /\ x.nr \in Nat /\ x.tracking \in Tracking
  /\ \A d \in Desk : desk[d].order \in Order \cup {NoOrder}

\* A sales order says where its purchase is, until its goods are booked in and out,
\* and a failed purchase has been reported: advancePurchase, inbound and outbound
\* each write the two in separate calls.
SalesFollowPurchase == \A o \in Order : Undisturbed(o) =>
  \/ sales[o] = "NONE" /\ purchase[o] = "NONE"
  \/ /\ sales[o] = SalesStatusForPurchase(purchase[o]) /\ InboundOf(o) = {}
     /\ purchase[o] = "PURCHASE_FAILED" => alerts[o].OPEN + alerts[o].RESOLVED > 0
  \/ /\ purchase[o] = "ARRIVED_WB" /\ InboundOf(o) # {}
     /\ sales[o] = IF \E x \in outbounds : x.order = o THEN "SHIPPED" ELSE "INBOUND"

\* What was bought at Ozon is what the purchase says, and it is bought once, however
\* often the purchase is advanced, marked failed or advanced in a batch.
BoughtOnce == \A o \in Order : Undisturbed(o) =>
  placed[o] = IF purchase[o] \in {"PURCHASE_SUCCESS", "SHIPPED_TO_WB", "ARRIVED_WB"}
              THEN 1 ELSE 0

\* Goods are booked in once and out once, and a tracking number is on one parcel
\* only, whoever worked on the order.
GoodsOnce ==
  /\ \A o \in Order \ raced : Cardinality(InboundOf(o)) <= 1
  /\ \A x \in outbounds, y \in outbounds :
       x # y => x.tracking # y.tracking /\ (x.order \in raced \/ x.order # y.order)

\* The records of an order agree: the sales order with its purchase and with the
\* goods, the purchase with what was placed at Ozon, the goods with one another
\* (OrderService, WarehouseService).
OrdersAgree == SalesFollowPurchase /\ BoughtOnce /\ GoodsOnce
=============================================================================
