------------------------------ MODULE WbSizes -------------------------------
(***************************************************************************)
(* The sizes of a product's card at Wildberries and their barcodes, over   *)
(* uploads and updates from changing drafts (the sizes part of             *)
(* wb-listing.mapper.ts, pushUpload and updateExistingCard).  Of an        *)
(* option's text it matters whether it reads as a clothing size ("M"), as  *)
(* one size for all ("free"), as neither ("M-2", a text that is also the   *)
(* label of a second "M"), or is absent; of a category, whether its words  *)
(* forbid or allow sizes.                                                  *)
(***************************************************************************)
EXTENDS Integers, Sequences, SequencesExt, Lists

CONSTANTS
  Numbered,    \* the label of a text met again: its first characters and the count
  MaxOptions,  \* bound: options of a product
  MaxBarcodes  \* bound: barcodes and size ids given out

ASSUME SizeAssumptions == {MaxOptions, MaxBarcodes} \subseteq Nat

VARIABLES
  sizes,   \* the card's sizes, or <<>> when there is no card: [tech, barcode, chrt]
  given,   \* barcodes and size ids given out
  marred   \* history: what a card's sizes may lack, "labels" or "barcodes" of their own

sizeVars == <<sizes, given, marred>>

-----------------------------------------------------------------------------
\* Whether a listing is to have sizes.
LooksLikeApparel(text) == text = "M"
LooksLikeOneSize(text) == text = "free"

DraftLooksOneSize(draft) ==
  LET texts == ToSet(draft.options) IN
  \/ texts \ {""} # {} /\ \A t \in texts \ {""} : ~LooksLikeApparel(t)
  \/ draft.oneSizeName \/ \E t \in texts : LooksLikeOneSize(t)

\* Categories: "home" words forbid sizes and "clothes" words allow them.
IsWbSizedCategory(subject, draft) ==
  /\ subject.isSize # "no"
  /\ "home" \notin {subject.category, draft.category}
  /\ ~DraftLooksOneSize(draft)
  /\ \E t \in ToSet(draft.options) : LooksLikeApparel(t)
  /\ (subject.isSize = "yes" \/ "clothes" \in {subject.category, draft.category})

ResolveWbSizedFlag(hint, subject, draft) == hint # "plain" /\ IsWbSizedCategory(subject, draft)

-----------------------------------------------------------------------------
Texts == {"M", "M-2", "free", ""}
Bases == (Texts \ {""}) \cup {"0"}
Labels == Bases \cup {Numbered[again] : again \in Bases \X (2..MaxOptions)}

\* The label of the i-th option.  Texts are counted, not the labels made of them:
\* a numbered label may be the text of another option, or be cut to a label in use.
Base(text) == IF text = "" THEN "0" ELSE text
TimesMet(options, i) == Cardinality({k \in 1..i : Base(options[k]) = Base(options[i])})
TechSize(options, i) ==
  IF TimesMet(options, i) = 1 THEN Base(options[i]) ELSE Numbered[<<Base(options[i]), TimesMet(options, i)>>]
Plain == "0"
WantedSizes(draft, sized) ==
  IF sized THEN [i \in DOMAIN draft.options |-> TechSize(draft.options, i)] ELSE <<Plain>>

\* New sizes get the next of the barcodes asked for, size ids come from Wildberries.
NewSize(tech, n) == [tech |-> tech, barcode |-> given + n, chrt |-> given + n]

\* mapWbSizes and buildWbUploadPayload for a new card.
MapWbSizes(wanted) == [i \in DOMAIN wanted |-> NewSize(wanted[i], i)]

Techs(card) == {card[i].tech : i \in DOMAIN card}
\* The i-th wanted size is the n-th of those the card does not have.
MissingBefore(wanted, card, i) == Cardinality({k \in 1..i : wanted[k] \notin Techs(card)})
CountMissing(wanted, card) == MissingBefore(wanted, card, Len(wanted))
\* The barcode mapWbSizes puts at place i, of those the card has and the text "0" (0).
NoBarcode == -1
Positional(card, i) ==
  LET held == Sublist(card, {k \in DOMAIN card : card[k].barcode # NoBarcode}) IN
  IF i <= Len(held) THEN held[i].barcode
  ELSE IF i > Len(held) + 1 /\ held # <<>> THEN held[1].barcode ELSE 0

\* The card's own size of a label, the last one if there are several; if it came
\* without a barcode it is sent with the one at its place.
Own(card, tech) == Last(Sublist(card, {k \in DOMAIN card : card[k].tech = tech}))
Kept(card, tech, i) ==
  IF Own(card, tech).barcode # NoBarcode THEN Own(card, tech)
  ELSE [Own(card, tech) EXCEPT !.barcode = Positional(card, i)]

\* Mutant: the barcodes asked for are given out by the position of the wanted size.
MergedByPosition(wanted, card, i) ==
  IF wanted[i] \in Techs(card) THEN Kept(card, wanted[i], i)
  ELSE IF i <= CountMissing(wanted, card) THEN NewSize(wanted[i], i)
  ELSE [NewSize(wanted[i], i) EXCEPT !.barcode = Positional(card, i)]

Merged(wanted, card, i) ==
  IF wanted[i] \in Techs(card) THEN Kept(card, wanted[i], i)
  ELSE NewSize(wanted[i], MissingBefore(wanted, card, i))

\* mergeWbCardSizes: wanted sizes first, then those the card has besides.
MergeWbCardSizes(wanted, card) ==
  [i \in DOMAIN wanted |-> Merged(wanted, card, i)]
    \o Sublist(card, {k \in DOMAIN card : card[k].tech \notin ToSet(wanted)})

ProductDrafts == [options : UNION {[1..n -> Texts] : n \in 1..MaxOptions},
                  category : {"home", "clothes", "other"}, oneSizeName : BOOLEAN]
WbSubjects == [isSize : {"yes", "no", "unsaid"}, category : {"home", "clothes", "other"}]

\* Whether a listing sends two sizes under one label.
Clash(wanted) == IF \E i, k \in DOMAIN wanted : i # k /\ wanted[i] = wanted[k] THEN {"labels"} ELSE {}

\* What may be pushed: as the flag has it, or, after a repair, just the other way.
Push(draft, sized) == [sized |-> sized, wanted |-> WantedSizes(draft, sized)]
Pushes ==
  {Push(draft, ResolveWbSizedFlag(hint, subject, draft) # repaired) :
     draft \in ProductDrafts, subject \in WbSubjects, hint \in {"plain", "none"}, repaired \in BOOLEAN}

UploadSizes(wanted) ==
  /\ sizes = <<>> /\ given + Len(wanted) <= MaxBarcodes
  /\ sizes' = MapWbSizes(wanted) /\ given' = given + Len(wanted)
  /\ marred' = Clash(wanted)

\* An update of the card.  A listing that finds a card with sizes it must not have
\* deletes it first (TrashSizes); one that meets it by a vendor-code conflict does
\* not, so any card may be updated either way.
UpdateSizes(wanted, sized) ==
  LET merged == MergeWbCardSizes(wanted, sizes)
      asked == CountMissing(wanted, sizes)
  IN /\ sizes # <<>> /\ given + asked <= MaxBarcodes /\ given' = given + asked
     /\ sizes' = IF sized THEN merged ELSE SubSeq(merged, 1, 1)
     /\ marred' = marred \cup Clash(wanted)

\* Wildberries answers with a size that has no barcodes (the client reads none as []).
BarcodeMissing(i) ==
  /\ sizes' = [sizes EXCEPT ![i].barcode = NoBarcode]
  /\ marred' = marred \cup {"barcodes"} /\ UNCHANGED given

\* The card goes to the trash to be made anew.
TrashSizes == sizes # <<>> /\ sizes' = <<>> /\ marred' = {} /\ UNCHANGED given

SizesInit == sizes = <<>> /\ given = 0 /\ marred = {}

SizesNext ==
  \/ \E push \in Pushes : UploadSizes(push.wanted) \/ UpdateSizes(push.wanted, push.sized)
  \/ \E i \in DOMAIN sizes : BarcodeMissing(i)
  \/ TrashSizes

SizesSpec == SizesInit /\ [][SizesNext]_sizeVars

\* The variables stay in their types.
SizesTypeOK ==
  /\ \A i \in DOMAIN sizes : /\ sizes[i].tech \in Labels
                             /\ sizes[i].chrt \in 1..MaxBarcodes
                             /\ sizes[i].barcode \in -1..MaxBarcodes
  /\ given \in 0..MaxBarcodes
  /\ marred \subseteq {"labels", "barcodes"}

\* No two sizes of a card share a barcode or a label, through any series of uploads,
\* updates with more, fewer or other options, repairs that take sizes away or add
\* them, and updates behind a vendor-code conflict (wb-listing.mapper.ts 928-1010,
\* wb-listing.adapter.ts 495-550).  Two exceptions: once a listing has sent one
\* label for two options (M, M and M-2 become M, M-2 and M-2), these two may share
\* both; and once Wildberries has answered without a size's barcodes, the size may get
\* the barcode of another.
CardSizes ==
  \A i, k \in DOMAIN sizes : i # k =>
    /\ sizes[i].tech = sizes[k].tech => "labels" \in marred
    /\ sizes[i].barcode = sizes[k].barcode => sizes[i].tech = sizes[k].tech \/ "barcodes" \in marred
=============================================================================
