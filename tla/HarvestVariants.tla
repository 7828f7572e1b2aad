-------------------------- MODULE HarvestVariants --------------------------
(***************************************************************************)
(* The variants of a collected product: the chips of one group (a color, a *)
(* weight) as the content script finds them in the page's data, its        *)
(* buttons and its links (content.js), what is posted of them              *)
(* (background.js), and what the server keeps of them and which chip it    *)
(* says the product is (packages/shared/src/standard-product.ts).          *)
(*                                                                         *)
(* Groups do not meet, so one is enough.  Collecting the pages of the      *)
(* siblings too is switched off (CRAWL_ALL_SKUS_ENABLED, types.ts 48).     *)
(***************************************************************************)
EXTENDS Integers, SequencesExt

CONSTANTS
  Chip,       \* values a chip may show
  NoChip,
  Sibling,    \* SKUs of the other variants
  Own,        \* the SKU whose page it is
  NoSku,
  MaxChips    \* bound: chips of a page

ASSUME VariantAssumptions ==
  /\ NoChip \notin Chip /\ Own \notin Sibling /\ NoSku \notin Sibling \cup {Own}
  /\ MaxChips \in Nat

VARIABLES
  chips,        \* variantsMap: [value, sku, selected] in the order found
  productPage,  \* its title, how far it is read; history: chips it tied to its own SKU
  stored        \* what the product got of this page: [values, option], or nothing yet

variantVars == <<chips, productPage, stored>>

ChipSku == Sibling \cup {Own}
\* titled: chips whose text is part of the title; weight: what title and address say of it.
ChipPages == [titled : SUBSET Chip, weight : Chip \cup {NoChip}, tied : {{}}, stage : {1}]
NotStored == [values |-> <<>>, option |-> NoChip]

FirstFit(S, Test(_), none) ==
  LET fit == {i \in DOMAIN S : Test(S[i])}
  IN IF fit = {} THEN none ELSE S[CHOOSE i \in fit : \A j \in fit : i <= j]
NoValue == [value |-> NoChip, sku |-> NoSku, selected |-> FALSE]

-----------------------------------------------------------------------------
(* content.js: what the page shows. *)

\* rememberVariant: the first chip of a value stands, its SKU taken from its
\* link, else from its data; a pressed button without either is the page's own.
ChipSkuOf(link, data, pressed) ==
  IF link # NoSku THEN link ELSE IF data # NoSku THEN data ELSE IF pressed THEN Own ELSE NoSku

RememberVariant(value, sku, selected) ==
  IF \E i \in DOMAIN chips : chips[i].value = value THEN chips
  ELSE Append(chips, [value |-> value, sku |-> sku, selected |-> selected])

See(stage, value, sku, selected) ==
  /\ stored = NotStored /\ Len(chips) < MaxChips /\ productPage.stage <= stage
  /\ chips' = RememberVariant(value, sku, selected)
  /\ productPage' = [productPage EXCEPT !.stage = stage,
                                       !.tied = IF sku = Own THEN @ \cup {value} ELSE @]
  /\ UNCHANGED stored

\* extract: first the aspects of the page's data trees, then the buttons of the
\* aspects widget, then the links in its markup.
SeeAspect(value, link, data, selected) ==
  See(1, value, ChipSkuOf(link, data, FALSE), selected)

SeeButton(value, link, data, pressed, checked) ==
  See(2, value, ChipSkuOf(link, data, pressed), pressed \/ checked)

SeeLink(value, link) == See(3, value, link, FALSE)

\* alignedVariants: one chip is the current one; a group needs two.
CurrentChip(S, titled) ==
  LET pressed(c) == c.selected   own(c) == c.sku = Own   named(c) == c.value \in titled
  IN FirstFit(S, own, FirstFit(S, pressed, FirstFit(S, named, NoValue)))

AlignedVariants(S, titled) ==
  IF Len(S) < 2 THEN <<>>
  ELSE [i \in DOMAIN S |-> [S[i] EXCEPT !.selected = S[i].value = CurrentChip(S, titled).value]]

-----------------------------------------------------------------------------
(* background.js and standard-product.ts: what is posted and kept. *)

\* toIngestProduct: the siblings' ids stay behind.
ToIngestValues(S) == [i \in DOMAIN S |-> [S[i] EXCEPT !.sku = IF @ = Own THEN Own ELSE NoSku]]

\* optionsForSku: the chip of the SKU itself, else one the title names, else,
\* of a weight, what title and address say.  Between the two the code tries a chip
\* whose address names the SKU; what is posted carries no address of a chip.
OptionForSku(S, p) ==
  LET own(c) == c.sku = Own
      named(c) == c.value \in p.titled
      found == FirstFit(S, own, FirstFit(S, named, NoValue)).value
  IN IF found = NoChip THEN p.weight ELSE found

\* keepMainSkuOnly, which makes one SKU option, the product's own.
KeepMainSkuOnly(S, p) == [values |-> S, option |-> OptionForSku(S, p)]

IngestVariants ==
  /\ stored = NotStored
  /\ stored' = KeepMainSkuOnly(ToIngestValues(AlignedVariants(chips, productPage.titled)), productPage)
  /\ UNCHANGED <<chips, productPage>>

\* The next page, whatever came of the last one.
NextProductPage ==
  /\ chips' = <<>> /\ productPage' \in ChipPages /\ stored' = NotStored

-----------------------------------------------------------------------------
VariantsInit == chips = <<>> /\ productPage \in ChipPages /\ stored = NotStored

VariantsNext ==
  \/ \E value \in Chip, link, data \in ChipSku \cup {NoSku}, pressed \in BOOLEAN :
       \/ SeeAspect(value, link, data, pressed)
       \/ \E checked \in {pressed, TRUE} : SeeButton(value, link, data, pressed, checked)
  \/ \E value \in Chip, link \in ChipSku : SeeLink(value, link)
  \/ IngestVariants \/ NextProductPage

VariantsSpec == VariantsInit /\ [][VariantsNext]_variantVars

-----------------------------------------------------------------------------
ChipValues == [value : Chip, sku : ChipSku \cup {NoSku}, selected : BOOLEAN]

VariantsTypeOK ==
  /\ chips \in Seq(ChipValues) /\ stored.values \in Seq(ChipValues)
  /\ {productPage.weight, stored.option} \subseteq Chip \cup {NoChip}
  /\ productPage.tied \subseteq Chip

\* A product is described by its own chip, never by the first one at hand
\* (standard-product.ts 254): by one the page tied to its SKU or named in its title
\* or address.  A chip tied to it goes before the title, and is also the selected
\* one, though page and server work it out apart.
OwnOption ==
  LET owned == {i \in DOMAIN stored.values : stored.values[i].sku = Own} IN
  /\ stored.option # NoChip => stored.option \in productPage.tied \cup productPage.titled \cup {productPage.weight}
  /\ owned # {} => /\ stored.option \in productPage.tied
                   /\ \E i \in owned : /\ stored.values[i].selected
                                       /\ stored.values[i].value = stored.option
  /\ \A i \in DOMAIN stored.values : stored.values[i].sku \in {Own, NoSku}
============================================================================
