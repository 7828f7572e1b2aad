------------------------------ MODULE WbStocks ------------------------------
(***************************************************************************)
(* Where a listing's stock goes.  Goods have a cargo type, worked out from *)
(* their box; a seller's warehouses are ranked for it; the stock is        *)
(* offered to one after another, re-ranked when Wildberries says which     *)
(* type it wants, and the warehouse that took it is remembered in the      *)
(* shop's extra (wb-stock-warehouses.ts, WbListingAdapter.setStocks,       *)
(* WbListingAdapterFactory).  ShopService.update rewrites the same extra.  *)
(***************************************************************************)
EXTENDS Integers, Sequences, FiniteSets, SequencesExt

CONSTANTS
  Fleets,       \* the warehouse lists a shop may have: functions from ids to attributes
  Boxes,        \* the boxes goods come in: [sides, weight], centimetres and kilograms
  Stocker,      \* listing jobs of the shop at work
  EnvWarehouse, \* WB_WAREHOUSE_ID, or 0
  MaxStocked    \* bound: jobs begun

ASSUME StockAssumptions ==
  /\ EnvWarehouse \in Nat /\ MaxStocked \in Nat
  /\ \A f \in Fleets : DOMAIN f \subseteq Nat \ {0} /\ IsFiniteSet(DOMAIN f)

VARIABLES
  fleet,        \* the shop's warehouses
  extra,        \* the shop's extra: [warehouse, byType, brand]
  stocker,      \* the jobs
  brandEdit,    \* the extra a brand edit has read and not yet written, or <<>>
  stocked       \* jobs begun

stockVars == <<fleet, extra, stocker, brandEdit, stocked>>

\* 1 small; 2 oversize; 3 large.  0 stands for undefined.
Longest(box) == CHOOSE n \in ToSet(box.sides) \cup {0} : \A s \in ToSet(box.sides) : s <= n
InferWbCargoType(box) ==
  LET weight == box.weight
      exceeds == \/ weight > 25 \/ Longest(box) > 120
                 \/ Len(box.sides) = 3 /\ box.sides[1] + box.sides[2] + box.sides[3] > 200
  IN IF box.sides = <<>> /\ weight = 0 THEN 0
     ELSE IF ~exceeds THEN 1
     ELSE IF weight > 100 \/ Longest(box) > 200 THEN 3 ELSE 2

FirstSet(s) == IF \E i \in DOMAIN s : s[i] # 0
               THEN s[CHOOSE i \in DOMAIN s : s[i] # 0 /\ \A k \in 1..(i - 1) : s[k] = 0] ELSE 0

\* The warehouse a job is told to prefer.
ResolvePreferred(cargo) ==
  LET byType == extra.byType IN
  FirstSet(<<EnvWarehouse, extra.warehouse>> \o
           CASE cargo \in {2, 3} -> <<byType[2], byType[3]>>
             [] cargo = 1        -> <<byType[1]>>
             [] OTHER            -> byType)

NextShopWarehouseExtra(read, id, cargo) ==
  [read EXCEPT !.warehouse = FirstSet(<<@, id>>),
               !.byType = IF cargo = 0 THEN @ ELSE [@ EXCEPT ![cargo] = id]]

\* needed is a sequence of types, empty when nothing is known of the goods.
CargoCompatible(type, needed) ==
  \/ needed = <<>> \/ type = 0 \/ type \in ToSet(needed)
  \/ type \in {2, 3} /\ ToSet(needed) \cap {2, 3} # {}

Score(id, needed, preferred) ==
  LET w == fleet[id]
      compatible == CargoCompatible(w.cargo, needed)
      typed == needed # <<>> /\ w.cargo # 0
      Points(holds, n) == IF holds THEN n ELSE 0
  IN Points(typed /\ compatible, 400) + Points(typed /\ ~compatible, -500)
     + Points(id = preferred /\ compatible, 80) + Points(w.quanzhou, -300)
     + Points(w.delivery = 1, 50) + Points(w.plain, 10)
     + Points(needed # <<>> /\ w.cargo = Head(needed \o <<0>>), 20)

\* Ties go to the smaller id.
Ahead(a, b, needed, preferred) ==
  \/ Score(a, needed, preferred) > Score(b, needed, preferred)
  \/ Score(a, needed, preferred) = Score(b, needed, preferred) /\ a < b

\* Each at the place that as many are ahead of it leave it.
Rank(ids, needed, preferred) ==
  [k \in 1..Cardinality(ids) |->
     CHOOSE id \in ids : Cardinality({o \in ids : Ahead(o, id, needed, preferred)}) = k - 1]

NoStocker == [pc |-> "idle", cargo |-> 0, preferred |-> 0, listed |-> {}, candidates |-> <<>>,
              index |-> 1, tried |-> {}, attempt |-> 0, read |-> <<>>]
StockerAt(j, step) == stocker[j].pc = step
Step(j, job) == stocker' = [stocker EXCEPT ![j] = job]

\* A job comes to its stock with the preference of the moment; the list of
\* warehouses may fail, which leaves the preferred one alone, or nothing.  Left out:
\* a card whose sizes have no id yet, where the job ends without a stock, a warehouse
\* given for the whole process, and that the preference is of the job's start.
SetStocks(j, box, listed) ==
  LET cargo == InferWbCargoType(box)
      preferred == ResolvePreferred(cargo)
      ranked == Rank(listed, IF cargo = 0 THEN <<>> ELSE <<cargo>>, preferred)
      candidates == IF ranked = <<>> /\ preferred # 0 THEN <<preferred>> ELSE ranked
  IN /\ StockerAt(j, "idle") /\ stocked < MaxStocked /\ stocked' = stocked + 1
     /\ Step(j, [NoStocker EXCEPT !.pc = IF candidates = <<>> THEN "failed" ELSE "put",
                                  !.cargo = cargo, !.preferred = preferred, !.listed = listed,
                                  !.candidates = candidates])
     /\ UNCHANGED <<fleet, extra, brandEdit>>

\* The loop over the candidates goes on with the next one, or the job's stock failed.
NextWarehouse(job) ==
  LET at == job.candidates[job.index]
      moved == [job EXCEPT !.index = @ + 1, !.tried = @ \cup {at}, !.attempt = 0]
  IN IF moved.index > Len(job.candidates) THEN [moved EXCEPT !.pc = "failed"] ELSE moved

\* Mutant: the new ranking starts the list over, and the loop's index skips its head.
RerankedWhole(job, required) ==
  [job EXCEPT !.candidates = Rank(job.listed \ (job.tried \cup {job.candidates[job.index]}), required, 0)]

\* Wildberries named the types it wants: what is left is ranked again behind this one.
Reranked(job, required) ==
  [job EXCEPT !.candidates =
     SubSeq(@, 1, job.index) \o
     Rank(job.listed \ (job.tried \cup {@[job.index]}), required, 0)]

PutOk(j) ==
  /\ StockerAt(j, "put")
  /\ Step(j, [stocker[j] EXCEPT !.pc = "remember"])
  /\ UNCHANGED <<fleet, extra, brandEdit, stocked>>

\* A cargo restriction is not tried again at the same warehouse.
PutRestricted(j, required) ==
  LET job == stocker[j]
      reranked == Reranked(job, required)
      at == job.candidates[job.index]
  IN /\ StockerAt(j, "put")
     /\ Step(j, IF job.index >= Len(reranked.candidates)
                THEN [reranked EXCEPT !.pc = "failed", !.tried = @ \cup {at}]
                ELSE [reranked EXCEPT !.index = @ + 1, !.tried = @ \cup {at}, !.attempt = 0])
     /\ UNCHANGED <<fleet, extra, brandEdit, stocked>>

\* Anything else is: four times when the service is busy, twice when it is not.
PutFails(j, busy) ==
  LET job == stocker[j] IN
  /\ StockerAt(j, "put")
  /\ Step(j, IF job.attempt < (IF busy THEN 3 ELSE 1) THEN [job EXCEPT !.attempt = @ + 1]
             ELSE NextWarehouse(job))
  /\ UNCHANGED <<fleet, extra, brandEdit, stocked>>

\* rememberWarehouse reads the shop ...
RememberWarehouse(j) ==
  /\ StockerAt(j, "remember")
  /\ Step(j, [stocker[j] EXCEPT !.pc = "write", !.read = extra])
  /\ UNCHANGED <<fleet, extra, brandEdit, stocked>>

\* ... and writes its whole extra, unless it would say the same.
RememberWrites(j) ==
  LET job == stocker[j]
      next == NextShopWarehouseExtra(job.read, job.candidates[job.index], job.cargo)
  IN /\ StockerAt(j, "write")
     /\ extra' = IF next = job.read THEN extra ELSE next
     /\ Step(j, NoStocker)
     /\ UNCHANGED <<fleet, brandEdit, stocked>>

\* A failed stock is a warning on the listing.
StockWarning(j) ==
  /\ StockerAt(j, "failed") /\ Step(j, NoStocker)
  /\ UNCHANGED <<fleet, extra, brandEdit, stocked>>

\* The operator changes the shop's brand: the same read and write of the whole extra.
BrandRead == brandEdit = <<>> /\ brandEdit' = <<extra>> /\ UNCHANGED <<fleet, extra, stocker, stocked>>
BrandWrite(brand) ==
  /\ brandEdit # <<>> /\ brandEdit' = <<>>
  /\ extra' = [brandEdit[1] EXCEPT !.brand = brand]
  /\ UNCHANGED <<fleet, stocker, stocked>>

StockInit ==
  /\ fleet \in Fleets /\ brandEdit = <<>> /\ stocked = 0
  /\ extra = [warehouse |-> 0, byType |-> <<0, 0, 0>>, brand |-> FALSE]
  /\ stocker = [j \in Stocker |-> NoStocker]

StockNext ==
  \/ \E j \in Stocker :
       \/ \E box \in Boxes, listed \in {DOMAIN fleet, {}} : SetStocks(j, box, listed)
       \/ PutOk(j)
       \/ \E required \in {<<1>>, <<2, 3>>} : PutRestricted(j, required)
       \/ \E busy \in BOOLEAN : PutFails(j, busy)
       \/ RememberWarehouse(j) \/ RememberWrites(j) \/ StockWarning(j)
  \/ BrandRead \/ \E brand \in BOOLEAN : BrandWrite(brand)

StockSpec == StockInit /\ [][StockNext]_stockVars

WarehouseIds == {EnvWarehouse, 0} \cup UNION {DOMAIN f : f \in Fleets}
Extras == [warehouse : WarehouseIds, byType : [1..3 -> WarehouseIds], brand : BOOLEAN]
\* The variables stay in their types.
StockTypeOK ==
  /\ fleet \in Fleets /\ extra \in Extras /\ stocked \in 0..MaxStocked
  /\ brandEdit = <<>> \/ \E read \in Extras : brandEdit = <<read>>
  /\ \A j \in Stocker : LET job == stocker[j] IN
       /\ job.pc \in {"idle", "put", "remember", "write", "failed"}
       /\ job.cargo \in 0..3 /\ job.attempt \in 0..3 /\ job.preferred \in WarehouseIds
       /\ job.listed \subseteq WarehouseIds /\ job.tried \subseteq WarehouseIds
       /\ job.candidates \in Seq(WarehouseIds) /\ job.index \in 1..(Len(job.candidates) + 1)
       /\ job.read = <<>> \/ job.read \in Extras

\* The stock is given up only after every warehouse of the list was offered it,
\* and no warehouse is offered it again after it refused
\* (wb-listing.adapter.ts 441-464), whatever types the answers asked for.
SyncFindsWarehouse ==
  \A j \in Stocker : LET job == stocker[j] IN
    /\ job.pc = "failed" => job.listed \subseteq job.tried
    /\ job.pc = "put" => job.candidates[job.index] \notin job.tried
=============================================================================
