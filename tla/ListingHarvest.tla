---------------------------- MODULE ListingHarvest ----------------------------
(***************************************************************************)
(* Reading the product links of one category or search page: the content   *)
(* script (collector-extension/content.js 1-134) called once or twice by   *)
(* collectListing (background.js 853-908).                                 *)
(*                                                                         *)
(* A link is the rank of its product in the listing.  The page mounts only *)
(* Mounted tiles at a time, those around the scroll position, of the       *)
(* loaded ones; the paginator's cursor is the number of the page it asks   *)
(* for.  Time is not counted: a loop with a time budget, and the listing   *)
(* as a whole, may run out of it before any step.                          *)
(***************************************************************************)
EXTENDS Integers, Sequences, SequencesExt, Lists

CONSTANTS Tiles,      \* how many products the listing has
          Mounted,     \* tiles in the DOM at once
          Overscan,    \* of them, those above the visible part
          ScrollStep,  \* tiles one scroll passes
          PageSize,    \* products of an answer of the paginator
          MaxStalls, MaxHops,
          Limits       \* the limits a task may have

ASSUME ListingAssumption ==
  /\ {Tiles, Mounted, Overscan, ScrollStep, PageSize, MaxStalls, MaxHops} \subseteq Nat \ {0}
  /\ Overscan < Mounted
  /\ ScrollStep <= Overscan   \* 700 px, where about 32 tiles are mounted
  /\ Limits \subseteq Nat \ {0}

VARIABLES
  limit,      \* the cap of this listing
  loaded,     \* tiles the page has fetched so far
  scrolled,   \* tiles above the visible part
  links,      \* state.urls of the content script, in order
  cursor,     \* page the next call asks for, 0 when there is none
  hops, stalls,
  taken,      \* urls of collectListing
  rounds,     \* harvests begun
  harvesting  \* "scan" | "api" | "scroll" | "done" | "listed" | "blocked" | "failed"

listingVars ==
  <<limit, loaded, scrolled, links, cursor, hops, stalls, taken, rounds, harvesting>>

Ranks == 1..Tiles
Ended == {"listed", "blocked", "failed"}

ListingTypeOK ==
  /\ limit \in Limits /\ loaded \in 0..Tiles /\ scrolled \in 0..Tiles
  /\ links \in Seq(Ranks) /\ taken \in Seq(Ranks)
  /\ IsInjective(links) /\ IsInjective(taken)
  /\ cursor \in 0..Tiles /\ hops \in 0..MaxHops /\ stalls \in 0..MaxStalls
  /\ rounds \in 1..2
  /\ harvesting \in {"scan", "api", "scroll", "done"} \cup Ended

-----------------------------------------------------------------------------
\* Mutant: a link is pushed each time it is met.
PushAlways(urls, tiles) == urls \o tiles
\* pushListingUrl, one tile after the other.
PushListingUrls(urls, tiles) == Joined(urls, tiles)

AtMost(a, b) == IF a < b THEN a ELSE b
Ascending(first, last) == [i \in 1..(last - first + 1) |-> first + i - 1]

\* The links in the DOM: each mounted tile has one on its picture and one on its name.
\* The code takes every product link of the page; here only the listing's tiles have any.
LinksInDom(above, have) ==
  LET first == IF above > Overscan THEN above - Overscan ELSE 0
      shown == Ascending(first + 1, AtMost(above - Overscan + Mounted, have))
  IN  [i \in 1..(2 * Len(shown)) |-> shown[(i + 1) \div 2]]
ScanListingDom(urls, above, have) == PushListingUrls(urls, LinksInDom(above, have))

\* A scroll moves past ScrollStep tiles, or to the end of what is loaded.
Bottom(have) == IF have > Mounted THEN have - (Mounted - Overscan) ELSE 0
ScrolledTo(above, have) == AtMost(above + ScrollStep, Bottom(have))
\* Mutant: a scroll by more than what is mounted.
ScrolledFar(above, have) == AtMost(above + Mounted, Bottom(have))
ScrollBy(above, have) == ScrolledTo(above, have)

ItemsOf(page) == Ascending((page - 1) * PageSize + 1, AtMost(page * PageSize, Tiles))
\* The loop over the items of an answer stops at the cap.
PushBelowCap(urls, tiles) ==
  LET all == PushListingUrls(urls, tiles) IN SubSeq(all, 1, AtMost(limit, Len(all)))
NextPage(page) == IF page * PageSize < Tiles THEN page + 1 ELSE 0

-----------------------------------------------------------------------------
\* The tab is open and loaded; how much of the listing it shows by now varies.
ListingInit ==
  /\ limit \in Limits
  /\ loaded \in {0, AtMost(Mounted, Tiles)}
  /\ scrolled = 0 /\ links = <<>> /\ cursor = 1 /\ hops = 0 /\ stalls = 0
  /\ taken = <<>> /\ rounds = 1 /\ harvesting = "scan"

\* The page fetches more of its listing on its own, as it is scrolled.
PageLoads ==
  /\ harvesting \notin Ended /\ loaded < Tiles
  /\ loaded = 0 \/ scrolled = Bottom(loaded)
  /\ loaded' = AtMost(loaded + PageSize, Tiles)
  /\ UNCHANGED <<limit, scrolled, links, cursor, hops, stalls, taken, rounds, harvesting>>

\* extractListing: what is mounted, before anything is asked or scrolled.
ScanFirst ==
  /\ harvesting = "scan"
  /\ links' = ScanListingDom(links, scrolled, loaded)
  /\ harvesting' = IF Len(links') < limit THEN "api" ELSE "done"
  /\ UNCHANGED <<limit, loaded, scrolled, cursor, hops, stalls, taken, rounds>>

\* collectListingViaApi, one hop: the cursor of the answer leads on.
ApiHop ==
  /\ harvesting = "api" /\ Len(links) < limit /\ hops < MaxHops
  /\ cursor # 0
  /\ links' = PushBelowCap(links, ItemsOf(cursor))
  /\ cursor' = NextPage(cursor)
  /\ hops' = hops + 1
  /\ UNCHANGED <<limit, loaded, scrolled, stalls, taken, rounds, harvesting>>

\* An answer that fails, the last cursor, the last hop: scrolling takes over
\* where links are missing.
ApiEnds ==
  /\ harvesting = "api"
  /\ harvesting' = IF Len(links) < limit THEN "scroll" ELSE "done"
  /\ UNCHANGED <<limit, loaded, scrolled, links, cursor, hops, stalls, taken, rounds>>

\* collectListingViaScroll, one round: a small scroll, then everything mounted is read.
Scroll ==
  /\ harvesting = "scroll" /\ Len(links) < limit /\ stalls < MaxStalls
  /\ scrolled' = ScrollBy(scrolled, loaded)
  /\ links' = ScanListingDom(links, scrolled', loaded)
  /\ stalls' = IF links' # links THEN 0 ELSE stalls + 1
  /\ UNCHANGED <<limit, loaded, cursor, hops, taken, rounds, harvesting>>

\* Enough links, too many stalls, "you have seen everything", or out of time.
ScrollEnds ==
  /\ harvesting = "scroll"
  /\ harvesting' = "done"
  /\ UNCHANGED <<limit, loaded, scrolled, links, cursor, hops, stalls, taken, rounds>>

\* harvest: the first cap links of the page join those it has not seen.
TakeLinks(challenge) ==
  LET page == SubSeq(links, 1, AtMost(limit, Len(links)))
      all  == PushListingUrls(taken, page)
      empty == all = <<>>
  IN  /\ harvesting = "done"
      /\ challenge => loaded = 0      \* a challenge page shows no tiles
      /\ taken' = all
      /\ IF empty /\ ~challenge /\ rounds = 1
           \* Nothing, and no challenge: the page gets a second harvest.
           THEN /\ rounds' = 2 /\ harvesting' = "scan"
                /\ links' = <<>> /\ cursor' = 1 /\ hops' = 0 /\ stalls' = 0
           ELSE /\ harvesting' = IF empty /\ challenge THEN "blocked" ELSE "listed"
                /\ UNCHANGED <<rounds, links, cursor, hops, stalls>>
      /\ UNCHANGED <<limit, loaded, scrolled>>

\* LISTING_COLLECT_MS: the links of a harvest that has not returned are lost.
ListingTimeout ==
  /\ harvesting \notin Ended
  /\ harvesting' = IF taken # <<>> THEN "listed" ELSE "failed"
  /\ UNCHANGED <<limit, loaded, scrolled, links, cursor, hops, stalls, taken, rounds>>

ListingNext ==
  \/ PageLoads \/ ScanFirst \/ ApiHop \/ ApiEnds \/ Scroll \/ ScrollEnds
  \/ \E challenge \in BOOLEAN : TakeLinks(challenge)
  \/ ListingTimeout

ListingSpec == ListingInit /\ [][ListingNext]_listingVars

-----------------------------------------------------------------------------
\* A TOP-N task is given the first products of the listing: whatever mix of
\* mounted tiles, cursor answers and scrolling produced them, the links are
\* the listing's first ones, none missing between two and none twice, and
\* never more than the cap.
TopOfListing ==
  /\ taken = Ascending(1, Len(taken))
  /\ Len(taken) <= limit
=============================================================================
