----------------------------- MODULE MCPlatform -----------------------------
(***************************************************************************)
(* Components of the API and of the extension that share no state, for     *)
(* TLC, side by side: part says which of them is at work.  The others rest *)
(* in one of their initial states, where their invariants hold, so that    *)
(* each property keeps its own name and needs no condition on part.        *)
(*                                                                         *)
(* The model values a1, a2 stand for whatever the part at work has two of  *)
(* (orders, tenants, subjects, polls), and so do b1, b2 and c1, c2: the    *)
(* parts being apart, one value may play a role in each.                   *)
(***************************************************************************)
EXTENDS OrderFulfillment, Accounts, CategoryMapping, ProductPackages, ShelfPrice,
        CollectorPolling, HarvestWidgets, HarvestMeasures, PageReading,
        ListingHarvest, AiSelection, TLC

VARIABLE part

Symmetry == Permutations(Order) \cup Permutations(Desk) \cup Permutations(Item)

\* Pages of a product: lengths in the tenths of a millimetre the model uses.
Row(names, scope, value) ==
  [names |-> names, scope |-> scope, value |-> value, triple |-> <<>>,
   skip |-> "", apparel |-> FALSE, ai |-> FALSE]
Sized(t) == [Row({}, "plain", 0) EXCEPT !.triple = t]
Long   == Row({"length"}, "plain", 1700)
Wide   == Row({"width"}, "plain", 905)
High   == Row({"height"}, "package", 120)
Across == Row({"length", "width"}, "plain", 6990)
Net    == Row({"weight"}, "net", 300)
Gross  == Row({"weight"}, "package", 350)
Weighs == Row({"weight"}, "plain", 2000)
Lid    == [Sized(<<320, 310, 40>>) EXCEPT !.skip = "lid"]
Guessed == [Row({"width"}, "package", 260) EXCEPT !.ai = TRUE]
MCPages ==
  {{}, {Long, Wide, Net}, {High, Sized(<<400, 7100, 250>>)}, {Across, High, Net, Gross},
   {Long, Weighs, Net}, {Long, Wide, [High EXCEPT !.scope = "plain"], Gross},
   {Across, Weighs, Guessed}, {Wide, Lid}, {Sized(<<600, 0, 400>>), Gross}, {Wide, High, Long, [Net EXCEPT !.value = 0]}}
Says(triple, edge, weight, slash) ==
  [triple |-> triple, edge |-> edge, weight |-> weight, slash |-> slash]
MCTexts ==
  {Says(<<>>, 0, 0, FALSE), Says(<<300, 280, 5>>, 0, 1000, FALSE),
   Says(<<>>, 450, 0, FALSE), Says(<<900, 90, 9>>, 900, 200, TRUE)}
Guess(edges, weight) == [edges |-> edges, weight |-> weight, reason |-> <<>>]
MCAnswers ==
  {[Guess(<<170, 90, 2>>, 700) EXCEPT !.reason = <<350, 200, 120>>], Guess(<<30, 120, 30>>, 0), Guess(<<12, 10, 4>>, 5000),
   Guess(<<40, 39, 38>>, 20), Guess(<<80, 701, 40>>, 50000)}

\* Prices of a page, and what operators ask for.
MCCrawled ==
  [price : {7, 1490}, original : {0, 901, 2990}, discount : {0, 980}]
Asks(mode) == Plainly(mode)
MCRequests ==
  {Asks("keep"), [Asks("dual_times") EXCEPT !.factor = 150],
   [Asks("from_sources") EXCEPT !.listSource = "discount", !.saleFactor = 67],
   [Asks("fixed_list_discount") EXCEPT !.fixedList = 777, !.fixedPercent = 33],
   [Asks("fixed_list_sale") EXCEPT !.fixedSale = 331],
   [Asks("fixed_sale_discount") EXCEPT !.fixedPercent = 35],
   [Asks("keep") EXCEPT !.list = 1999], [Asks("keep") EXCEPT !.sale = 449],
   [Asks("keep") EXCEPT !.percent = 120], [Asks("keep") EXCEPT !.sale = 449, !.percent = 15],
   [Asks("keep") EXCEPT !.list = 449, !.sale = 500],
   [Asks("keep") EXCEPT !.list = 449, !.percent = 50]}

\* Answers a page's requests may have: shells, layouts with and without ids.
Lays(w, hasId, data) == [widget |-> w, named |-> hasId, data |-> data]
MCContents ==
  {[layout |-> {}, states |-> {<<"delivery", 1>>, <<"sale", 1>>}],
   [layout |-> {Lays(<<"delivery", 1>>, FALSE, "own")}, states |-> {}],
   [layout |-> {Lays(<<"outOfStock", 2>>, TRUE, "own"), Lays(<<"sale", 2>>, TRUE, "own")},
    states |-> {<<"delivery", 2>>}],
   [layout |-> {Lays(<<"delivery", 2>>, TRUE, "own"), Lays(<<"outOfStock", 1>>, FALSE, "none")},
    states |-> {}],
   [layout |-> {Lays(<<"outOfStock", 1>>, TRUE, "own")},
    states |-> {<<"outOfStock", 2>>, <<"sale", 2>>}]}

\* What a page, the panel and the back office say of stock and warehouse.
Thing(fbo, fbs, generic, flags) == [fbo |-> fbo, fbs |-> fbs, generic |-> generic, flags |-> flags]
MCPageGoods ==
  [priced : BOOLEAN,
   objects : {{}, {Thing(NoNumber, NoNumber, 4, {})}, {Thing(0, 6, NoNumber, {})},
              {Thing(NoNumber, NoNumber, 3, {"FBS"}), Thing(NoNumber, NoNumber, NoNumber, {"FBO", "FBS"})},
              {Thing(2, NoNumber, 9, {"FBO", "FBS"})}}]
MCPanels == {[stock |-> 0, warehouse |-> "FBO"], [stock |-> 5, warehouse |-> "FBS"],
             [stock |-> 3, warehouse |-> "MIXED"]}
Office(stock, fbo, fbs, by) == [stock |-> stock, fbo |-> fbo, fbs |-> fbs, fulfillment |-> by]
MCInsights == {Office(7, 7, 0, ""), Office(0, NullCount, NullCount, "FBS"), Office(NullCount, NoNumber, NoNumber, "")}
Wants(warehouse, inStock, atLeast) ==
  [warehouse |-> warehouse, inStockOnly |-> inStock, atLeast |-> atLeast]
MCTaskFilters == {Wants("ALL", TRUE, NoNumber), Wants("FBO", FALSE, NoNumber), Wants("FBS", FALSE, 3)}

harvestVars == <<widgetVars, measureVars, stockVars, variantVars, listingVars>>

-----------------------------------------------------------------------------
Init ==
  /\ part \in {"orders", "accounts", "mapping", "packages", "prices", "polling", "widgets", "measures",
              "stock", "variants", "listing", "selection"}
  /\ OrderInit   /\ (part # "orders" => linked = {})
  /\ AccountsInit
  /\ part # "accounts" => /\ \A u \in User \ {Root} : user[u] = NoUser
                          /\ user[Root].tenant = NoTenant
                          /\ \A s \in Shop : shop[s] = NoShop
  /\ MappingInit
  /\ PackageInit /\ (part # "packages" => specs = {} /\ text.edge + text.weight = 0 /\ kind = "generic_parcel")
  /\ ShelfInit   /\ (part # "prices" => product = [price |-> 7, original |-> 0, discount |-> 0])
  /\ PollingInit
  /\ WidgetInit
  /\ MeasureInit /\ (part # "measures" => measure = "edges")
  /\ StockPageInit
  /\ part # "stock" => /\ ~pageData.priced /\ pageData.objects = {} /\ delivery = "" /\ side.stock = 0
                       /\ office.stock = 7 /\ filter.warehouse = "ALL"
  /\ VariantsInit /\ (part # "variants" => productPage.titled = {} /\ productPage.weight = NoChip)
  /\ SelectionInit /\ (part # "selection" => ~hasKey)
  /\ ListingInit /\ (part # "listing" => limit = 2 /\ loaded = 0)

Next ==
  \/ /\ part = "orders" /\ OrderNext
     /\ UNCHANGED <<part, selectionVars, accountVars, mappingVars, packageVars, priceVars, pollVars, harvestVars>>
  \/ /\ part = "accounts" /\ AccountsNext
     /\ UNCHANGED <<part, selectionVars, orderVars, mappingVars, packageVars, priceVars, pollVars, harvestVars>>
  \/ /\ part = "mapping" /\ MappingNext
     /\ UNCHANGED <<part, selectionVars, orderVars, accountVars, packageVars, priceVars, pollVars, harvestVars>>
  \/ /\ part = "packages" /\ PackageNext
     /\ UNCHANGED <<part, selectionVars, orderVars, accountVars, mappingVars, priceVars, pollVars, harvestVars>>
  \/ /\ part = "prices" /\ ShelfNext
     /\ UNCHANGED <<part, selectionVars, orderVars, accountVars, mappingVars, packageVars, pollVars, harvestVars>>
  \/ /\ part = "polling" /\ PollingNext
     /\ UNCHANGED <<part, selectionVars, orderVars, accountVars, mappingVars, packageVars, priceVars, harvestVars>>
  \/ /\ part = "widgets" /\ WidgetNext
     /\ UNCHANGED <<part, selectionVars, orderVars, accountVars, mappingVars, packageVars, priceVars, pollVars, measureVars, stockVars, variantVars, listingVars>>
  \/ /\ part = "measures" /\ MeasureNext
     /\ UNCHANGED <<part, selectionVars, orderVars, accountVars, mappingVars, packageVars, priceVars, pollVars, widgetVars, stockVars, variantVars, listingVars>>
  \/ /\ part = "stock" /\ StockPageNext
     /\ UNCHANGED <<part, selectionVars, orderVars, accountVars, mappingVars, packageVars, priceVars, pollVars, widgetVars, measureVars, variantVars, listingVars>>
  \/ /\ part = "variants" /\ VariantsNext
     /\ UNCHANGED <<part, selectionVars, orderVars, accountVars, mappingVars, packageVars, priceVars, pollVars, widgetVars, measureVars, stockVars, listingVars>>
  \/ /\ part = "listing" /\ ListingNext
     /\ UNCHANGED <<part, selectionVars, orderVars, accountVars, mappingVars, packageVars, priceVars, pollVars, widgetVars, measureVars, stockVars, variantVars>>
  \/ /\ part = "selection" /\ SelectionNext
     /\ UNCHANGED <<part, orderVars, accountVars, mappingVars, packageVars, priceVars, pollVars, harvestVars>>

Spec ==
  Init /\ [][Next]_<<part, selectionVars, orderVars, accountVars, mappingVars, packageVars, priceVars, pollVars, harvestVars>>

\* Every variable of the part at work stays in its type; the others never change.
TypesOK ==
  /\ part = "orders" => OrderTypeOK
  /\ part = "accounts" => AccountsTypeOK
  /\ part = "mapping" => MappingTypeOK
  /\ part = "packages" => PackageTypeOK
  /\ part = "prices" => PriceTypeOK
  /\ part = "polling" => PollingTypeOK
  /\ part = "widgets" => WidgetTypeOK
  /\ part = "measures" => MeasureTypeOK
  /\ part = "stock" => StockPageTypeOK
  /\ part = "variants" => VariantsTypeOK
  /\ part = "listing" => ListingTypeOK
  /\ part = "selection" => SelectionTypeOK
=============================================================================
