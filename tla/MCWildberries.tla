---------------------------- MODULE MCWildberries ----------------------------
(***************************************************************************)
(* The components of the Wildberries side for TLC, side by side: part says *)
(* which of them is at work.  They share no state a property speaks of:    *)
(* the limiter orders the calls of all the others, and the others see each *)
(* call as one step that may fail; what the catalogue store returns is the *)
(* directory the mapper reads.  The parts not at work rest in one of their *)
(* initial states, where their invariants hold.                            *)
(***************************************************************************)
EXTENDS WbStocks, WbLimiter, WbCatalog, WbCards, WbSizes, WbMapper,
        WbPhotos, TLC

CONSTANTS b1, b2, b3

VARIABLE part

Symmetry == Permutations(Caller) \cup Permutations(Loader)

\* Warehouses: three of a shop, of which 6 is in Quanzhou.
House(cargo, quanzhou, delivery, plain) ==
  [cargo |-> cargo, quanzhou |-> quanzhou, delivery |-> delivery, plain |-> plain]
MCFleets ==
  {(5 :> House(1, FALSE, 1, TRUE) @@ 6 :> House(0, TRUE, 1, FALSE) @@ 7 :> House(3, FALSE, 0, TRUE)),
   (5 :> House(1, FALSE, 1, TRUE) @@ 6 :> House(2, FALSE, 0, FALSE) @@ 7 :> House(0, TRUE, 0, TRUE))}
\* Boxes without a size, on the small side, and past each of the two limits.
MCBoxes ==
  {[sides |-> <<>>, weight |-> 0], [sides |-> <<60, 50, 40>>, weight |-> 25],
   [sides |-> <<121, 20, 20>>, weight |-> 1], [sides |-> <<201, 1, 1>>, weight |-> 1]}
\* Numbered labels, no longer than a label may be.
MCNumbered ==
  [again \in Bases \X (2..MaxOptions) |-> again[1] \o "-" \o ToString(again[2])]
MCAttempts == [request |-> 2, media |-> 2, sdk |-> 2]
\* Four brands at Wildberries, the generic one second.
MCBrands == <<b1, Generic, b2, b3>>

Link(photo) == [photo |-> photo, https |-> TRUE]
MCAlbums ==
  {[main |-> <<Link(1)>>, images |-> <<Link(1), Link(2), Link(3)>>, options |-> <<Link(4), Link(2)>>],
   [main |-> <<>>, images |-> <<Link(2), [photo |-> 4, https |-> FALSE], Link(1), Link(3)>>, options |-> <<>>],
   [main |-> <<>>, images |-> <<>>, options |-> <<>>]}

-----------------------------------------------------------------------------
Init ==
  /\ part \in {"stocks", "limiter", "catalog", "cards", "sizes", "mapper", "photos"}
  /\ StockInit   /\ (part # "stocks" => fleet[6].quanzhou)
  /\ LimiterInit /\ (part # "limiter" => \A c \in Caller : caller[c].write /\ caller[c].kind = "request")
  /\ CatalogInit /\ (part # "catalog" => \A e \in Entry : disk[e] = "none")
  /\ CardInit    /\ (part # "cards" => nmKnown = 0 /\ \A n \in Nm : cards[n] = NoCard)
  /\ SizesInit
  /\ MapperInit
  /\ PhotosInit

Next ==
  \/ /\ part = "stocks" /\ StockNext
     /\ UNCHANGED <<part, limiterVars, catalogVars, cardVars, sizeVars, mapperVars, photoVars>>
  \/ /\ part = "limiter" /\ LimiterNext
     /\ UNCHANGED <<part, stockVars, catalogVars, cardVars, sizeVars, mapperVars, photoVars>>
  \/ /\ part = "catalog" /\ CatalogNext
     /\ UNCHANGED <<part, stockVars, limiterVars, cardVars, sizeVars, mapperVars, photoVars>>
  \/ /\ part = "cards" /\ CardNext
     /\ UNCHANGED <<part, stockVars, limiterVars, catalogVars, sizeVars, mapperVars, photoVars>>
  \/ /\ part = "sizes" /\ SizesNext
     /\ UNCHANGED <<part, stockVars, limiterVars, catalogVars, cardVars, mapperVars, photoVars>>
  \/ /\ part = "mapper" /\ MapperNext
     /\ UNCHANGED <<part, stockVars, limiterVars, catalogVars, cardVars, sizeVars, photoVars>>
  \/ /\ part = "photos" /\ PhotosNext
     /\ UNCHANGED <<part, stockVars, limiterVars, catalogVars, cardVars, sizeVars, mapperVars>>

Spec ==
  Init /\ [][Next]_<<part, stockVars, limiterVars, catalogVars, cardVars, sizeVars, mapperVars, photoVars>>

\* Every variable of the part at work stays in its type; the others never change.
TypesOK ==
  /\ part = "stocks" => StockTypeOK
  /\ part = "limiter" => LimiterTypeOK
  /\ part = "catalog" => CatalogTypeOK
  /\ part = "cards" => CardTypeOK
  /\ part = "sizes" => SizesTypeOK
  /\ part = "mapper" => MapperTypeOK
  /\ part = "photos" => PhotoTypeOK
=============================================================================
