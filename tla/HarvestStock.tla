----------------------------- MODULE HarvestStock -----------------------------
(***************************************************************************)
(* How many of a product are in stock and from whose warehouse it ships:   *)
(* what the extension gathers of it on one page (content.js, ozon-harvest, *)
(* background.js, seller-bridge.js) and what a task that asks for stock or *)
(* for one kind of warehouse makes of it (collectFilterMismatch).          *)
(*                                                                         *)
(* Four sources speak: the page's own data, a plug-in's panel that may be  *)
(* drawn at any moment, the delivery text, and the seller's back office.   *)
(* NoNumber is a number that is not there, NullCount one the back office gives  *)
(* as null; "" is a warehouse nobody names.                                *)
(***************************************************************************)
EXTENDS Integers, FiniteSetsExt

CONSTANTS PageGoods,    \* [priced, objects] of a page, each object [fbo, fbs, generic, flags]
          Panels,       \* [stock, warehouse] a panel may show
          Insights,     \* [stock, fbo, fbs, fulfillment] of the back office
          TaskFilters   \* [warehouse, inStockOnly, atLeast] a task may have

NoNumber == -1
NullCount == -2
Warehouses == {"FBO", "FBS", "MIXED"}

\* What a page object, a panel, the back office and a task may say.
Amounts == Nat \cup {NoNumber}
Things == [fbo : Amounts, fbs : Amounts, generic : Amounts, flags : SUBSET {"FBO", "FBS"}]
ASSUME StockAssumptions ==
  /\ PageGoods \subseteq [priced : BOOLEAN, objects : SUBSET Things]
  /\ \A page \in PageGoods : IsFiniteSet(page.objects)
  /\ Panels \subseteq [stock : Nat, warehouse : Warehouses \cup {""}]
  /\ Insights \subseteq [stock : Amounts \cup {NullCount}, fbo : Amounts \cup {NullCount},
                        fbs : Amounts \cup {NullCount}, fulfillment : Warehouses \cup {""}]
  /\ TaskFilters \subseteq [warehouse : {"ALL", "FBO", "FBS"}, inStockOnly : BOOLEAN, atLeast : Amounts]

VARIABLES
  pageData,      \* the page's data, and whether it has a price
  delivery,   \* what the delivery text names
  side,       \* the panel, in full
  drawn,      \* whether it is drawn yet
  office,     \* the back office's answer, NoInsight without one
  filter,     \* of the task
  reading,    \* harvest.meta: [stock, warehouse, delivery]
  offered,    \* the product: [stock, fbo, fbs, warehouse]
  named,      \* history: the kinds of warehouse each source that spoke named
  most,       \* history: the largest number page and panel gave
  stockStage      \* "harvest" | "extract" | "merge" | "insight" | "ingest" | the verdict

stockVars == <<pageData, delivery, side, drawn, office, filter, reading, offered, named, most, stockStage>>

NoInsight == [stock |-> NoNumber, fbo |-> NoNumber, fbs |-> NoNumber, fulfillment |-> ""]
NoReading == [stock |-> 0, warehouse |-> "", delivery |-> ""]
Verdict == {"SUCCESS", "unfit", "out of stock", "too few", "other warehouse"}

KindsOf(w) == IF w = "MIXED" THEN {"FBO", "FBS"} ELSE {w} \ {""}
KindOf(fbo, fbs) == CASE fbo /\ fbs -> "MIXED" [] fbo -> "FBO" [] fbs -> "FBS" [] OTHER -> ""
Most(S) == Max(S \cup {0})

-----------------------------------------------------------------------------
\* collectAvailability: what the page's objects say of stock and warehouse.
OfKind(objects, kind) ==
  ({IF kind = "FBO" THEN o.fbo ELSE o.fbs : o \in objects} \ {NoNumber})
    \cup {o.generic : o \in {q \in objects : q.flags = {kind} /\ q.generic # NoNumber}}
Saw(objects, kind) ==
  \/ OfKind(objects, kind) # {}
  \/ \E o \in objects :
       o.generic = NoNumber /\ kind \in o.flags /\ (kind = "FBS" => o.flags = {"FBS"})
CollectAvailability(page) ==
  LET objects == page.objects
      fbo == Saw(objects, "FBO")
      fbs == Saw(objects, "FBS")
      all == {o.generic : o \in objects} \cup OfKind(objects, "FBO") \cup OfKind(objects, "FBS")
  IN  [stock |-> Max(all \cup {IF page.priced THEN 1 ELSE 0}),
       fbo |-> IF fbo THEN Most(OfKind(objects, "FBO")) ELSE NoNumber,
       fbs |-> IF fbs THEN Most(OfKind(objects, "FBS")) ELSE NoNumber,
       warehouse |-> KindOf(fbo, fbs)]

\* The page's 1 for "has a price" gives way; a real count only to a larger one.
LargerStock(own, other) == IF other > 0 /\ (own <= 1 \/ other > own) THEN other ELSE own
FirstNamed(own, other) == IF own = "" THEN other ELSE own
\* Mutant: the other's count, whenever there is one.
OtherStock(own, other) == IF other > 0 THEN other ELSE own
MergedStock(own, other) == LargerStock(own, other)

\* applySeerfarOverlay, on the product as the page gave it.
ApplyOverlay(p) ==
  IF ~drawn THEN p
  ELSE [p EXCEPT !.stock = MergedStock(@, side.stock), !.warehouse = FirstNamed(@, side.warehouse)]

\* seller-bridge sellerCount: Number(null) is 0.
SellerCount(raw) == IF raw = NullCount THEN 0 ELSE raw
SellerWarehouseType(i) == KindOf(SellerCount(i.fbo) > 0, SellerCount(i.fbs) > 0)
Replaced(own, raw) == IF SellerCount(raw) = NoNumber THEN own ELSE SellerCount(raw)
MergeSellerInsight(p, i) ==
  [stock |-> Replaced(p.stock, i.stock), fbo |-> Replaced(p.fbo, i.fbo), fbs |-> Replaced(p.fbs, i.fbs),
   warehouse |-> FirstNamed(p.warehouse, FirstNamed(SellerWarehouseType(i), i.fulfillment))]

ResolveWarehouseType(p) == FirstNamed(p.warehouse, KindOf(p.fbo > 0, p.fbs > 0))
\* unfit: rated, reviewed, sold, priced or measured out of the task's bounds.
CollectFilterMismatch(p, f, unfit) ==
  CASE unfit -> "unfit"
    [] f.inStockOnly /\ p.stock <= 0 -> "out of stock"
    [] f.atLeast # NoNumber /\ p.stock <= f.atLeast -> "too few"
    [] f.warehouse # "ALL" /\ ResolveWarehouseType(p) \notin {f.warehouse, "MIXED"} -> "other warehouse"
    [] OTHER -> "SUCCESS"

-----------------------------------------------------------------------------
StockPageInit ==
  /\ pageData \in PageGoods /\ delivery \in {"", "FBO", "FBS"}
  /\ side \in Panels /\ drawn = FALSE
  /\ office \in Insights /\ filter \in TaskFilters
  /\ reading = NoReading
  /\ offered = [stock |-> 0, fbo |-> NoNumber, fbs |-> NoNumber, warehouse |-> ""]
  /\ named = {} /\ most = 0 /\ stockStage = "harvest"

PanelDrawn ==
  /\ stockStage \in {"harvest", "extract"} /\ ~drawn
  /\ drawn' = TRUE
  /\ UNCHANGED <<pageData, delivery, side, office, filter, reading, offered, named, most, stockStage>>

\* The harvest in the page's own world: delivery widgets, the panel if it is
\* there in time; the whole of it may fail, leaving nothing.
HarvestDelivery(worked) ==
  LET seen == worked /\ drawn
  IN  /\ stockStage = "harvest"
      /\ reading' = [stock     |-> IF seen THEN side.stock ELSE 0,
                     warehouse |-> IF seen THEN side.warehouse ELSE "",
                     delivery  |-> IF worked THEN FirstNamed(delivery, IF seen THEN side.warehouse ELSE "")
                                             ELSE ""]
      /\ named' = IF seen THEN {KindsOf(side.warehouse)} \ {{}} ELSE {}
      /\ most' = IF seen THEN side.stock ELSE 0
      /\ stockStage' = "extract"
      /\ UNCHANGED <<pageData, delivery, side, drawn, office, filter, offered>>

\* The content script: the page's data, and the panel as it is by now.
ExtractStock ==
  LET page == CollectAvailability(pageData)
      shown == IF drawn THEN side ELSE [stock |-> 0, warehouse |-> ""]
  IN  /\ stockStage = "extract"
      /\ offered' = ApplyOverlay(page)
      /\ named' = named \cup ({KindsOf(page.warehouse), KindsOf(shown.warehouse)} \ {{}})
      /\ most' = Max({most, page.stock, shown.stock})
      /\ stockStage' = "merge"
      /\ UNCHANGED <<pageData, delivery, side, drawn, office, filter, reading>>

\* mergeHarvest: the delivery text counts last.
MergeReading ==
  LET text == IF reading.delivery = "MIXED" THEN "" ELSE reading.delivery
  IN  /\ stockStage = "merge"
      /\ offered' = [offered EXCEPT
           !.stock = MergedStock(@, reading.stock),
           !.warehouse = FirstNamed(FirstNamed(@, reading.warehouse), text)]
      /\ named' = named \cup ({KindsOf(text)} \ {{}})
      /\ stockStage' = "insight"
      /\ UNCHANGED <<pageData, delivery, side, drawn, office, filter, reading, most>>

\* querySellerInsights asks in a tab of the back office: no login, no data, an
\* error or a timeout, and the product goes on without.
QuerySellerInsights(answered) == IF answered THEN office ELSE NoInsight

MergeInsight(answered) ==
  LET i == QuerySellerInsights(answered)
  IN  /\ stockStage = "insight"
      /\ office' = i
      /\ offered' = MergeSellerInsight(offered, i)
      /\ named' = named \cup ({KindsOf(SellerWarehouseType(i)), KindsOf(i.fulfillment)} \ {{}})
      /\ stockStage' = "ingest"
      /\ UNCHANGED <<pageData, delivery, side, drawn, filter, reading, most>>

\* ingestSuccess: the task's conditions decide.
JudgeStock(unfit) ==
  /\ stockStage = "ingest"
  /\ stockStage' = CollectFilterMismatch(offered, filter, unfit)
  /\ UNCHANGED <<pageData, delivery, side, drawn, office, filter, reading, offered, named, most>>

StockPageNext ==
  \/ PanelDrawn \/ ExtractStock \/ MergeReading
  \/ \E unfit \in BOOLEAN : JudgeStock(unfit)
  \/ \E worked \in BOOLEAN : HarvestDelivery(worked)
  \/ \E answered \in BOOLEAN : MergeInsight(answered)

StockPageSpec == StockPageInit /\ [][StockPageNext]_stockVars

-----------------------------------------------------------------------------
StockPageTypeOK ==
  /\ offered \in [stock : Nat, fbo : Nat \cup {NoNumber}, fbs : Nat \cup {NoNumber},
                  warehouse : Warehouses \cup {""}]
  /\ reading.stock \in Nat /\ reading.warehouse \in Warehouses \cup {""}
  /\ named \in SUBSET (SUBSET {"FBO", "FBS"}) /\ most \in Nat
  /\ stockStage \in {"harvest", "extract", "merge", "insight", "ingest"} \cup Verdict

\* Whenever the panel was drawn and whichever sources failed: a product is
\* taken for a warehouse only if some source named it, and turned away only if
\* some source named another or none named any.  Its count is the back office's
\* own; without one, no less than page or panel showed; and none at all if the
\* back office leaves the number null, whatever page and panel showed: a task
\* for goods in stock then turns the product away (seller-bridge.js 21-24, 133).
SourcesHeard ==
  /\ (stockStage = "SUCCESS" /\ filter.warehouse # "ALL") => filter.warehouse \in UNION named
  /\ stockStage = "other warehouse" => named = {} \/ \E kinds \in named : filter.warehouse \notin kinds
  /\ (stockStage \in Verdict /\ office.stock = NoNumber) => offered.stock >= most
  /\ (stockStage \in Verdict /\ office.stock >= 0) => offered.stock = office.stock
  /\ (stockStage \in Verdict /\ office.stock = NullCount) => offered.stock = 0
=============================================================================
