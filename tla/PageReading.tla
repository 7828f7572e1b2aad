----------------------------- MODULE PageReading -----------------------------
(***************************************************************************)
(* What the extension reads of a product's page, its stock and warehouse   *)
(* (HarvestStock) and its variants (HarvestVariants): the two are read off *)
(* the same page, posted with the same product and share no state.         *)
(***************************************************************************)
EXTENDS HarvestStock, HarvestVariants

PageReadSpec == StockPageSpec /\ VariantsSpec

\* What is read of a product's page is what was said of this product: a warehouse
\* some source named, the back office's count (none when it leaves that null) or
\* else no less than page or panel showed, and this product's own variant.
PageReadRight == SourcesHeard /\ OwnOption
=============================================================================
