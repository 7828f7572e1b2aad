------------------------------ MODULE WbCards -------------------------------
(***************************************************************************)
(* One product's cards in one shop of Wildberries.  A listing looks for a  *)
(* card it may update, else uploads one, polls what Wildberries makes of   *)
(* it, and repairs and recreates a card that was refused                   *)
(* (WbListingAdapter.listProduct and the calls under it).  Wildberries     *)
(* takes an upload at once and makes the card later, lists the reasons of  *)
(* refusals, keeps a trash, and holds one card per vendor code outside it; *)
(* cards once made under the legacy code OZ{sku} are still looked for.     *)
(***************************************************************************)
EXTENDS Naturals, FiniteSets

CONSTANTS
  MaxCards,     \* bound: cards ever made
  MaxListings,  \* bound: listings begun
  MaxRefusals,  \* bound: refusals by Wildberries
  Complaints    \* reasons it may give, among those named below

ASSUME CardAssumptions ==
  /\ {MaxCards, MaxListings, MaxRefusals} \subseteq Nat /\ MaxCards > 0
  /\ Complaints \subseteq {"noSize", "needSize", "value", "overflow", "brand", "other"}

VARIABLES
  cards,        \* the cards, by nmId: [key, place, sized]
  wbErrors,     \* reasons Wildberries lists for the vendor code
  errorCache,   \* errorListCache: what a look at the list saw, or NotCached
  listing,      \* the listing at work
  nmKnown,      \* the nmId the listing row keeps, or 0
  unsure,       \* history: a call failed unseen, or a lookup missed a card still queued
  listings,     \* listings begun
  refusals      \* refusals made

cardVars == <<cards, wbErrors, errorCache, listing, nmKnown, unsure, listings, refusals>>
world == <<cards, wbErrors, errorCache, refusals>>

NotCached == {"not cached"}
Keys == <<"primary", "legacy">>
NoListing == [pc |-> "none", keys |-> {}, skip |-> FALSE, conflict |-> FALSE, existing |-> 0,
              attempt |-> 0, poll |-> 0, errors |-> {}, seen |-> 0, returned |-> 0,
              sized |-> FALSE, dropped |-> FALSE, clipped |-> FALSE, generic |-> FALSE]

Nm == 1..MaxCards
At(step) == listing.pc = step
Go(fields) == listing' = fields
Fails == [listing EXCEPT !.pc = "failed"]
In(place, key) == {n \in Nm : cards[n].place = place /\ cards[n].key = key}
SomeOf(S) == IF S = {} THEN 0 ELSE CHOOSE n \in S : TRUE
Standing == {n \in Nm : cards[n].place \in {"queued", "live"}}
\* The vendor code is in use.
Taken == In("live", "primary") \cup In("queued", "primary") # {}
\* The first card of the looked-up keys, in their order.
FirstIn(place, keys) ==
  LET Hit(key) == IF key \in keys THEN SomeOf(In(place, key)) ELSE 0
  IN IF Hit("primary") # 0 THEN Hit("primary") ELSE Hit("legacy")

\* Mutant: cards made under the legacy vendor code are not looked for.
LookupPrimary == {"primary"}
LookupKeys == {"primary", "legacy"}

\* A listing begins; one whose row knows a card looks for that one first.
ListProduct(sized) ==
  /\ At("none") /\ listings < MaxListings /\ listings' = listings + 1
  /\ Go([NoListing EXCEPT !.pc = IF nmKnown # 0 THEN "known" ELSE "find", !.keys = LookupKeys,
                          !.skip = nmKnown = 0, !.sized = sized])
  /\ UNCHANGED <<world, nmKnown, unsure>>

\* resolveExistingCard was called for a new listing, or behind a vendor-code conflict.
Resolved(nm) ==
  IF ~listing.conflict THEN [listing EXCEPT !.pc = "prepare", !.existing = nm]
  ELSE IF nm = 0 THEN Fails ELSE [listing EXCEPT !.pc = "update", !.existing = nm]

\* A lookup that fails is taken for an empty answer.
FindKnown(answered) ==
  LET active == In("live", "primary") IN
  /\ At("known") /\ unsure' = (unsure \/ ~answered \/ In("queued", "primary") # {})
  /\ IF answered /\ active # {}
     THEN Go(Resolved(IF nmKnown \in active THEN nmKnown ELSE SomeOf(active)))
     ELSE Go([listing EXCEPT !.pc = "find", !.keys = @ \ {"primary"}])
  /\ UNCHANGED <<world, nmKnown, listings>>

FindAll(answered) ==
  LET hit == FirstIn("live", answered) IN
  /\ At("find") /\ answered \subseteq listing.keys
  /\ unsure' = (unsure \/ answered # listing.keys \/ In("queued", "primary") # {})
  /\ Go(IF hit # 0 THEN Resolved(hit) ELSE IF listing.skip THEN Resolved(0)
        ELSE [listing EXCEPT !.pc = "trash"])
  /\ UNCHANGED <<world, nmKnown, listings>>

\* The trash is looked through, and what is there recovered; here a failed call
\* fails the listing, and a vendor code in use fails the recovery.
FindTrash ==
  LET nm == FirstIn("trash", LookupKeys) IN
  /\ At("trash")
  /\ IF nm = 0 THEN Go(Resolved(0)) /\ UNCHANGED cards
     ELSE IF cards[nm].key = "primary" /\ Taken THEN Go(Fails) /\ UNCHANGED cards
     ELSE cards' = [cards EXCEPT ![nm].place = "live"] /\ Go(Resolved(nm))
  /\ UNCHANGED <<wbErrors, errorCache, refusals, nmKnown, unsure, listings>>

\* The category, its metadata and the brands: any of it may fail the listing.
Prepare ==
  /\ At("prepare") /\ Go([listing EXCEPT !.pc = IF listing.existing = 0 THEN "push" ELSE "errors"])
  /\ UNCHANGED <<world, nmKnown, unsure, listings>>

\* listCardErrors, through its short cache.
ListErrors == IF errorCache = NotCached THEN wbErrors ELSE errorCache
Trash(nm) == [cards EXCEPT ![nm].place = "trash"]

\* dropBrokenDraft: a card that must be made anew goes to the trash first.
DropBrokenDraft(answered) ==
  LET errors == IF answered THEN ListErrors ELSE {}
      recreate == \/ errors \cap {"noSize", "brand"} # {}
                  \/ ~listing.sized /\ cards[listing.existing].sized
  IN /\ At("errors")
     /\ IF recreate
        THEN /\ cards' = Trash(listing.existing) /\ errorCache' = NotCached
             /\ Go([listing EXCEPT !.pc = "push", !.existing = 0])
        ELSE /\ errorCache' = IF answered THEN ListErrors ELSE errorCache
             /\ Go([listing EXCEPT !.pc = "push"]) /\ UNCHANGED cards
     /\ UNCHANGED <<wbErrors, refusals, nmKnown, unsure, listings>>

\* Anything thrown on the way: no category, a required characteristic missing,
\* no barcodes, a call to Wildberries that failed for good.
Throws ==
  /\ \E step \in {"trash", "prepare", "errors", "push", "update"} : At(step)
  /\ Go(Fails) /\ UNCHANGED <<world, nmKnown, unsure, listings>>

\* pushUpdate; nothing tells the listing when the card went to the trash.
Update ==
  /\ At("update") \/ (At("push") /\ listing.existing # 0)
  /\ cards' = [cards EXCEPT ![listing.existing].sized = listing.sized]
  /\ errorCache' = NotCached
  /\ Go([listing EXCEPT !.pc = "confirm", !.poll = 0])
  /\ UNCHANGED <<wbErrors, refusals, nmKnown, unsure, listings>>

Unmade == {n \in Nm : cards[n].place = "none"}
\* pushUpload: taken into the queue, or refused because the vendor code is in
\* use; it may also be queued, its answer lost, and the client's own retry refused.
Upload(lost) ==
  LET conflicting == [listing EXCEPT !.pc = "find", !.keys = LookupKeys, !.skip = FALSE, !.conflict = TRUE]
      nm == CHOOSE n \in Unmade : \A k \in Unmade : n <= k
  IN /\ At("push") /\ listing.existing = 0
     /\ IF Taken THEN ~lost /\ Go(conflicting) /\ UNCHANGED <<cards, errorCache>>
        ELSE /\ Unmade # {}
             /\ cards' = [cards EXCEPT ![nm] = [key |-> "primary", place |-> "queued", sized |-> listing.sized]]
             /\ IF lost THEN Go(conflicting) /\ UNCHANGED errorCache
                ELSE Go([listing EXCEPT !.pc = "confirm", !.poll = 0]) /\ errorCache' = NotCached
     /\ UNCHANGED <<wbErrors, refusals, nmKnown, unsure, listings>>

\* One poll of confirmCard: errors in the first two, cards in all three.
Confirm(errorsAnswered, cardsAnswered) ==
  LET errors == IF errorsAnswered /\ listing.poll < 2 THEN ListErrors ELSE {}
      card == IF cardsAnswered THEN SomeOf(In("live", "primary")) ELSE 0
      polled == [listing EXCEPT !.errors = errors, !.seen = card]
  IN /\ At("confirm")
     /\ errorCache' = IF errorsAnswered /\ listing.poll < 2 THEN ListErrors ELSE errorCache
     /\ Go(IF errors # {} THEN [polled EXCEPT !.pc = "refused"]
           ELSE IF card # 0 \/ listing.poll = 2
           THEN [polled EXCEPT !.pc = "done", !.returned = IF card # 0 THEN card ELSE listing.existing]
           ELSE [polled EXCEPT !.poll = @ + 1])
     /\ UNCHANGED <<cards, wbErrors, refusals, nmKnown, unsure, listings>>

\* planWbCardRepair: the first repair the errors call for that was not made yet.
\* Each kind is made once here; the code may drop other characteristics, and set
\* smaller limits, in the rounds that are left.
Repairs ==
  LET e == listing.errors IN
  IF listing.sized /\ "noSize" \in e THEN {[listing EXCEPT !.sized = FALSE]}
  ELSE IF ~listing.sized /\ "needSize" \in e THEN {[listing EXCEPT !.sized = TRUE]}
  ELSE IF "value" \in e /\ ~listing.dropped THEN {[listing EXCEPT !.dropped = TRUE]}
  ELSE IF "overflow" \in e /\ ~listing.clipped THEN {[listing EXCEPT !.clipped = TRUE]}
  ELSE IF "brand" \in e /\ ~listing.generic THEN {[listing EXCEPT !.generic = TRUE]}
  ELSE {}

PlanRepair ==
  /\ At("refused")
  /\ Go(IF listing.generic /\ listing.seen # 0 /\ listing.errors = {"brand"}
        THEN [listing EXCEPT !.pc = "done", !.returned = listing.seen]
        ELSE IF Repairs = {} THEN Fails
        ELSE [(CHOOSE r \in Repairs : TRUE) EXCEPT !.pc = "recreate"])
  /\ UNCHANGED <<world, nmKnown, unsure, listings>>

\* Mutant: the card stays the one to update after it went to the trash.
Remade == [listing EXCEPT !.attempt = @ + 1, !.pc = IF listing.attempt = 2 THEN "failed" ELSE "push"]
\* The third repair still deletes the card, and nothing is pushed after it.
Recreated == [Remade EXCEPT !.existing = 0]

\* trashDraftCard: a failed lookup or deletion is passed over.
TrashDraft(found, deleted) ==
  LET card == IF listing.existing # 0 THEN listing.existing
              ELSE IF found THEN SomeOf(In("live", "primary")) ELSE 0
  IN /\ At("recreate") /\ Go(Recreated)
     /\ cards' = IF card # 0 /\ deleted THEN Trash(card) ELSE cards
     /\ errorCache' = IF card # 0 /\ deleted THEN NotCached ELSE errorCache
     /\ unsure' = (unsure \/ ~found \/ ~deleted)
     /\ UNCHANGED <<wbErrors, refusals, nmKnown, listings>>

\* The job stores the number it was given; without one it is tried again.
EndListing ==
  /\ At("done") \/ At("failed")
  /\ nmKnown' = IF At("done") /\ listing.returned # 0 THEN listing.returned ELSE nmKnown
  /\ Go(NoListing)
  /\ UNCHANGED <<world, unsure, listings>>

\* The product is taken off the shelf: its card goes to the trash.  Between two
\* listings only: what an operator's call meets in the middle of one is WbListing's.
Unlist ==
  /\ At("none") /\ nmKnown # 0 /\ cards[nmKnown].place = "live"
  /\ cards' = Trash(nmKnown) /\ errorCache' = NotCached
  /\ UNCHANGED <<wbErrors, refusals, listing, nmKnown, unsure, listings>>

\* Wildberries makes a queued card, or refuses it with or without leaving a
\* draft of it, or finds fault with a card that stands.
Make(n) ==
  /\ cards[n].place = "queued" /\ cards' = [cards EXCEPT ![n].place = "live"]
  /\ UNCHANGED <<wbErrors, errorCache, refusals, listing, nmKnown, unsure, listings>>
Refuse(n, why, place) ==
  /\ refusals < MaxRefusals /\ refusals' = refusals + 1
  /\ \/ cards[n].place = "queued"
     \/ cards[n].place = "live" /\ place = "live"
  /\ cards' = [cards EXCEPT ![n].place = place] /\ wbErrors' = wbErrors \cup {why}
  /\ UNCHANGED <<errorCache, listing, nmKnown, unsure, listings>>
\* It forgets its reasons in its own time, and the cache expires.
ForgetErrors ==
  /\ wbErrors # {} /\ wbErrors' = {}
  /\ UNCHANGED <<cards, errorCache, refusals, listing, nmKnown, unsure, listings>>
ExpireErrors ==
  /\ errorCache # NotCached /\ errorCache' = NotCached
  /\ UNCHANGED <<cards, wbErrors, refusals, listing, nmKnown, unsure, listings>>

NoCard == [key |-> "primary", place |-> "none", sized |-> FALSE]
CardInit ==
  /\ \E first \in {NoCard} \cup [key : {"primary", "legacy"}, place : {"live", "trash"}, sized : BOOLEAN] :
       /\ cards = [n \in Nm |-> IF n = 1 THEN first ELSE NoCard]
       /\ nmKnown \in IF first = NoCard THEN {0} ELSE {0, 1}
  /\ wbErrors = {} /\ errorCache = NotCached /\ listing = NoListing
  /\ unsure = FALSE /\ listings = 0 /\ refusals = 0

CardNext ==
  \/ \E sized \in BOOLEAN : ListProduct(sized)
  \/ \E answered \in BOOLEAN : FindKnown(answered) \/ DropBrokenDraft(answered)
  \/ \E answered \in SUBSET LookupKeys : FindAll(answered)
  \/ FindTrash \/ Prepare \/ Throws \/ Update \/ \E lost \in BOOLEAN : Upload(lost)
  \/ \E e, c \in BOOLEAN : Confirm(e, c) \/ TrashDraft(e, c)
  \/ PlanRepair \/ EndListing \/ Unlist
  \/ \E n \in Nm : Make(n) \/ \E why \in Complaints, place \in {"none", "live"} : Refuse(n, why, place)
  \/ ForgetErrors \/ ExpireErrors

CardSpec == CardInit /\ [][CardNext]_cardVars

\* The variables stay in their types.
CardTypeOK ==
  /\ cards \in [Nm -> [key : {"primary", "legacy"}, place : {"none", "queued", "live", "trash"}, sized : BOOLEAN]]
  /\ wbErrors \subseteq Complaints /\ errorCache \in (SUBSET Complaints) \cup {NotCached}
  /\ nmKnown \in 0..MaxCards /\ unsure \in BOOLEAN /\ listings \in 0..MaxListings /\ refusals \in 0..MaxRefusals
  /\ listing.pc \in {"none", "known", "find", "trash", "prepare", "errors", "push", "update", "confirm",
                     "refused", "recreate", "done", "failed"}
  /\ {listing.existing, listing.seen, listing.returned} \subseteq 0..MaxCards
  /\ listing.attempt \in 0..3 /\ listing.poll \in 0..2 /\ listing.errors \subseteq Complaints

\* A product never has two cards outside the trash, whatever is refused,
\* repaired, retried or recovered ("do not make the card twice",
\* wb-listing.adapter.ts 266), unless a lookup or a deletion failed unseen, or a
\* lookup missed a card that Wildberries had taken and not yet made.
AtMostOneStands == unsure \/ Cardinality(Standing) <= 1

\* The card a listing reports is not in the trash (wb-listing.adapter.ts 184-203):
\* none that the listing itself deleted on the way.
ReturnsLiveCard == (At("done") /\ listing.returned # 0) => cards[listing.returned].place = "live"

\* A listing leaves one card for sale, the one it reports, through vendor-code
\* conflicts, repairs and lost answers (listProduct).
OneCard == AtMostOneStands /\ ReturnsLiveCard
=============================================================================
