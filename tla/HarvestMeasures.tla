--------------------------- MODULE HarvestMeasures ---------------------------
(***************************************************************************)
(* From where the size and the weight of a collected product come.  The    *)
(* harvest in the page (ozon-harvest.js) ranks what objects, texts and     *)
(* characteristics say; the content script (content.js) reads the page     *)
(* once more; the background script merges the two and then what the       *)
(* seller's back office knows (seller-bridge.js).  Meanwhile the seerfar   *)
(* panel, which a third party's extension puts on the page, fills up: the  *)
(* harvest and the content script each read it as it stands.               *)
(*                                                                         *)
(* A measure is followed by its source alone, and one measure at a time:   *)
(* the weight, or the three edges, which stand for the specifications      *)
(* Длина, Ширина and Высота.  Of the others it matters only whether the    *)
(* panel showed anything at all.                                           *)
(***************************************************************************)
EXTENDS Naturals

VARIABLES
  measure,   \* the one that is followed
  panel,     \* what the panel shows: the measure, something else
  progress,  \* where the collection is
  attempt,   \* extractTab is called at most twice
  best,      \* per name, the best measure found: [from, score]
  rows,      \* names whose characteristics were met
  seen,      \* what the harvest read of the panel; none: meta.seerfar is not set
  dims,      \* dimSpecs: per name, a source or "none"
  sheet,     \* the product's specifications, likewise
  shown      \* what the content script read of the panel

measureVars == <<measure, panel, progress, attempt, best, rows, seen, dims, sheet, shown>>

\* Goods are measured without packing (Длина, мм; Вес товара, г), the parcel
\* with it (Длина упаковки, мм; Вес брутто, г).
Scope == {"goods", "parcel"}
Sources == {"none", "panel", "seller"} \cup Scope
NoSource == [n \in Scope |-> "none"]
NoBest == [n \in Scope |-> [from |-> "none", score |-> 0]]

\* Objects on the page, by the fields that hold the measure: its plain fields;
\* dimension, packageSize or packageWeight; or those of a delivery widget.
\* own: the object carries the product's number.
Object == [place : {"plain", "logistic", "delivery"}, own : BOOLEAN]

\* pickBest sorts stably: the first of equal score stays.
Better(entry, from, score) ==
  IF score > entry.score THEN [from |-> from, score |-> score] ELSE entry

ScopeOf(object) == IF object.place = "plain" THEN "goods" ELSE "parcel"

\* collectDimsFromObject, in a widget trusted with sizes.
Collected(b, object) ==
  [b EXCEPT ![ScopeOf(object)] = Better(@, ScopeOf(object), IF object.own THEN 2 ELSE 1)]

\* harvestTextFallbacks reads the same answer as text: a dimension anywhere, a
\* weight near the product's number or near a dimension, and takes both for
\* the parcel's.
Matched(b, object) ==
  IF object.place = "logistic" \/ (measure = "weight" /\ object.own)
  THEN [b EXCEPT !["parcel"] = Better(@, ScopeOf(object), 2)]
  ELSE b

\* applySeerfarOverlayToBuckets, then applyPackageFromChars and
\* applyWarehouseFromChars, which fill what nothing was found for.
WithPanel(b, fields) ==
  IF "measure" \in fields THEN [b EXCEPT !["parcel"] = Better(@, "panel", 10)] ELSE b
WithRows(b, met) ==
  [n \in Scope |-> IF b[n].from = "none" /\ n \in met
                   THEN [from |-> n, score |-> IF n = "parcel" THEN 4 ELSE 3] ELSE b[n]]

\* toDimSpecs: edges stand in for each other, weights do not.
DimSpecs(b) ==
  [n \in Scope |-> IF b[n].from = "none" /\ measure = "edges"
                   THEN b[IF n = "goods" THEN "parcel" ELSE "goods"].from ELSE b[n].from]

\* addSpec leaves the eight names alone once they are there; upsertSpec does not.
Filled(list, more) == [n \in Scope |-> IF list[n] = "none" THEN more[n] ELSE list[n]]
PanelOver(list, fields) ==
  IF "measure" \in fields THEN [list EXCEPT !["parcel"] = "panel"] ELSE list

\* Mutant: the harvest's measures replace the content script's.
MergeAll(list, more, keepPanel) == [n \in Scope |-> IF more[n] = "none" THEN list[n] ELSE more[n]]
\* mergeDimSpecs: a name is replaced, but for the parcel's where the panel's
\* stand and the harvest has not read the panel.
MergeDimSpecs(list, more, keepPanel) ==
  [n \in Scope |-> IF more[n] = "none" \/ (list[n] # "none" /\ keepPanel /\ n = "parcel")
                   THEN list[n] ELSE more[n]]

-----------------------------------------------------------------------------
MeasureInit ==
  /\ measure \in {"edges", "weight"} /\ panel = {} /\ progress = "harvest" /\ attempt = 1
  /\ best = NoBest /\ rows = {} /\ seen = {}
  /\ dims = NoSource /\ sheet = NoSource /\ shown = {}

\* The panel's requests are answered one by one.
PanelFills(field) ==
  /\ field \notin panel /\ progress # "done"
  /\ panel' = panel \cup {field}
  /\ UNCHANGED <<measure, progress, attempt, best, rows, seen, dims, sheet, shown>>

\* One object of an answer: its fields are collected, then its text is read.
IngestObject(object) ==
  /\ progress = "harvest"
  /\ best' = Matched(Collected(best, object), object)
  /\ UNCHANGED <<measure, panel, progress, attempt, rows, seen, dims, sheet, shown>>

\* A characteristic, of an answer or of the page itself.
IngestRow(n) ==
  /\ progress = "harvest"
  /\ rows' = rows \cup {n}
  /\ UNCHANGED <<measure, panel, progress, attempt, best, seen, dims, sheet, shown>>

\* The harvest has waited for the panel and goes on with what it shows.
HarvestEnds ==
  /\ progress = "harvest"
  /\ seen' = panel
  /\ dims' = DimSpecs(WithRows(WithPanel(best, panel), rows))
  /\ progress' = "extract"
  /\ UNCHANGED <<measure, panel, attempt, best, rows, sheet, shown>>

\* It takes more than 45 s, cannot be injected, or fails: emptyHarvest.
HarvestFails ==
  /\ progress = "harvest"
  /\ seen' = {} /\ dims' = NoSource
  /\ progress' = "extract"
  /\ UNCHANGED <<measure, panel, attempt, best, rows, sheet, shown>>

\* extract: the page's own objects, the harvest's measures, the page's
\* characteristics, the panel.  Objects name the goods whatever they measure.
Extract(objects, cells) ==
  /\ progress = "extract"
  /\ shown' = panel
  /\ sheet' = PanelOver(Filled(Filled(objects, dims), cells), panel)
  /\ progress' = "merge"
  /\ UNCHANGED <<measure, panel, attempt, best, rows, seen, dims>>

MergeHarvest ==
  /\ progress = "merge"
  /\ sheet' = MergeDimSpecs(sheet, dims, shown # {} /\ seen = {})
  /\ progress' = "seller"
  /\ UNCHANGED <<measure, panel, attempt, best, rows, seen, dims, shown>>

\* mergeSellerInsight: the back office knows the parcel's measure, or not.
SellerInsight(answer) ==
  /\ progress = "seller"
  /\ sheet' = MergeDimSpecs(sheet, [NoSource EXCEPT !["parcel"] = answer], FALSE)
  /\ progress' = "done"
  /\ UNCHANGED <<measure, panel, attempt, best, rows, seen, dims, shown>>

\* collectUrl: a product that is not usable is extracted a second time.
TryAgain ==
  /\ progress = "done" /\ attempt = 1
  /\ attempt' = 2 /\ progress' = "harvest"
  /\ best' = NoBest /\ rows' = {} /\ seen' = {}
  /\ dims' = NoSource /\ sheet' = NoSource /\ shown' = {}
  /\ UNCHANGED <<measure, panel>>

ObjectSpecs == [goods : {"none", "goods", "parcel"}, parcel : {"none", "parcel"}]
CellSpecs == [goods : {"none", "goods"}, parcel : {"none", "parcel"}]

MeasureNext ==
  \/ \E field \in {"measure", "other"} : PanelFills(field)
  \/ \E object \in Object : IngestObject(object)
  \/ \E n \in Scope : IngestRow(n)
  \/ HarvestEnds \/ HarvestFails
  \/ \E objects \in ObjectSpecs, cells \in CellSpecs : Extract(objects, cells)
  \/ MergeHarvest \/ \E answer \in {"none", "seller"} : SellerInsight(answer)
  \/ TryAgain

MeasureSpec == MeasureInit /\ [][MeasureNext]_measureVars

\* The variables stay in their types.
MeasureTypeOK ==
  /\ measure \in {"edges", "weight"} /\ {panel, seen, shown} \subseteq SUBSET {"measure", "other"}
  /\ progress \in {"harvest", "extract", "merge", "seller", "done"} /\ attempt \in {1, 2}
  /\ best \in [Scope -> [from : Sources, score : {0, 1, 2, 3, 4, 10}]] /\ rows \subseteq Scope
  /\ {dims, sheet} \subseteq [Scope -> Sources]

\* What the panel shows of the parcel by the time the content script reads it
\* is what the product is sent with, or what the back office says; guesses
\* from the public page never replace it.  A harvest that met only a part of
\* the panel is left out: it takes the panel for read and its guess wins
\* (background.js 402-406, 452-472, ozon-harvest.js 1117-1146).
PanelWins ==
  progress = "done" /\ "measure" \in shown /\ (seen = {} \/ "measure" \in seen)
    => sheet["parcel"] \in {"panel", "seller"}
=============================================================================
