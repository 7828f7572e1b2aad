------------------------------- MODULE WbPhotos -------------------------------
(***************************************************************************)
(* The photographs of a Wildberries card: the links of a product gathered  *)
(* for a listing (product.service toWbDraft, wb-listing.mapper             *)
(* collectImageUrls), and LiveWbListingAdapter.saveMedia, which downloads  *)
(* them all, uploads them one by one into numbered slots of the card, and  *)
(* leaves the links to Wildberries when not one could be uploaded.         *)
(*                                                                         *)
(* A link is [photo, https]: the last segment of its path, and whether it  *)
(* is an http(s) link at all.  The downloads try the original and then the *)
(* resized link; here a photograph arrives or it does not.                 *)
(***************************************************************************)
EXTENDS Integers, Sequences, SequencesExt, Lists

CONSTANTS Albums,        \* link lists of products: [main, images, options]
          MaxPhotos,     \* slots a listing fills (10)
          MaxUploads,    \* attempts of one upload (6)
          MaxMediaRuns   \* listings of the card

Links == [photo : Nat \ {0}, https : BOOLEAN]
ASSUME PhotoAssumption ==
  /\ {MaxPhotos, MaxUploads, MaxMediaRuns} \subseteq Nat \ {0}
  /\ Albums \subseteq [main : Seq(Links), images : Seq(Links), options : Seq(Links)]

VARIABLES
  card,        \* slot -> photograph, 0 for an empty slot
  valid,       \* photographs of this listing, in order
  arrived,     \* which of them could be downloaded
  at,          \* the one to upload next
  uploaded,    \* uploads that succeeded
  uploads,     \* attempts of the upload at work
  mediaStage,  \* "idle" | "upload" | "urls" | "saved" | "warned"
  mediaRuns

photoVars == <<card, valid, arrived, at, uploaded, uploads, mediaStage, mediaRuns>>

Photo == {l.photo : l \in UNION {Range(a.main \o a.images \o a.options) : a \in Albums}}
Slot == 1..MaxPhotos

PhotoTypeOK ==
  /\ card \in [Slot -> Photo \cup {0}]
  /\ valid \in Seq(Photo) /\ Len(valid) <= MaxPhotos /\ IsInjective(valid)
  /\ arrived \subseteq 1..Len(valid)
  /\ at \in 1..(MaxPhotos + 1) /\ uploaded \in 0..(at - 1)
  /\ uploads \in 0..(MaxUploads - 1)
  /\ mediaStage \in {"idle", "upload", "urls", "saved", "warned"}
  /\ mediaRuns \in 0..MaxMediaRuns

-----------------------------------------------------------------------------
\* toWbDraft: the main picture first, then the product's and its options'.
DraftImageUrls(album) == album.main \o album.images \o album.options
\* collectImageUrls: each photograph once, where it first stands.
WebLinks(links) == Sublist(links, {i \in DOMAIN links : links[i].https})
CollectImageUrls(album) ==
  LET links == WebLinks(DraftImageUrls(album))
  IN  Joined(<<>>, [i \in DOMAIN links |-> links[i].photo])
FirstOf(list) == SubSeq(list, 1, IF Len(list) < MaxPhotos THEN Len(list) ELSE MaxPhotos)

\* The slot of an upload: the next after those that succeeded.
NextSlot(done, position) == done + 1
\* Mutant: the slot of the photograph's own place in the list.
OwnSlot(done, position) == position
PhotoNumber(done, position) == NextSlot(done, position)

-----------------------------------------------------------------------------
\* A new card has no photographs.
PhotosInit ==
  /\ card = [s \in Slot |-> 0]
  /\ valid = <<>> /\ arrived = {} /\ at = 1 /\ uploaded = 0 /\ uploads = 0
  /\ mediaStage = "idle" /\ mediaRuns = 0

\* saveMedia begins: every download is awaited before the first upload.
BeginMedia(album) ==
  LET photos == FirstOf(CollectImageUrls(album))
  IN  /\ mediaStage \in {"idle", "saved", "warned"} /\ mediaRuns < MaxMediaRuns
      /\ mediaRuns' = mediaRuns + 1
      /\ valid' = photos
      /\ arrived' \in SUBSET (1..Len(photos))
      /\ at' = 1 /\ uploaded' = 0 /\ uploads' = 0
      /\ mediaStage' = IF photos = <<>> THEN "warned" ELSE "upload"
      /\ UNCHANGED card

\* One that did not arrive is a failure of its own.
SkipMissing ==
  /\ mediaStage = "upload" /\ at <= Len(valid) /\ at \notin arrived
  /\ at' = at + 1
  /\ UNCHANGED <<card, valid, arrived, uploaded, uploads, mediaStage, mediaRuns>>

\* uploadMediaFile: refused, or broken off after Wildberries kept the file.
UploadFails(kept) ==
  /\ mediaStage = "upload" /\ at \in arrived
  /\ card' = IF kept THEN [card EXCEPT ![PhotoNumber(uploaded, at)] = valid[at]] ELSE card
  /\ at' = at + 1 /\ uploads' = 0
  /\ UNCHANGED <<valid, arrived, uploaded, mediaStage, mediaRuns>>

\* HTTP 429: the same photograph into the same slot again, or given up.
UploadThrottled ==
  /\ mediaStage = "upload" /\ at \in arrived
  /\ IF uploads + 1 < MaxUploads THEN uploads' = uploads + 1 /\ UNCHANGED at
                                ELSE uploads' = 0 /\ at' = at + 1
  /\ UNCHANGED <<card, valid, arrived, uploaded, mediaStage, mediaRuns>>

UploadDone ==
  /\ mediaStage = "upload" /\ at \in arrived
  /\ card' = [card EXCEPT ![PhotoNumber(uploaded, at)] = valid[at]]
  /\ uploaded' = uploaded + 1 /\ at' = at + 1 /\ uploads' = 0
  /\ UNCHANGED <<valid, arrived, mediaStage, mediaRuns>>

\* Every photograph was tried.
MediaEnds ==
  /\ mediaStage = "upload" /\ at > Len(valid)
  /\ mediaStage' = IF uploaded = 0 THEN "urls" ELSE "saved"
  /\ UNCHANGED <<card, valid, arrived, at, uploaded, uploads, mediaRuns>>

\* media/save: Wildberries fetches the links itself, in place of what the card
\* had; it refuses them, or the answer is lost, and the listing keeps a warning.
SaveByUrl(kept, answered) ==
  /\ mediaStage = "urls"
  /\ card' = IF kept THEN [s \in Slot |-> IF s <= Len(valid) THEN valid[s] ELSE 0] ELSE card
  /\ mediaStage' = IF kept /\ answered THEN "saved" ELSE "warned"
  /\ UNCHANGED <<valid, arrived, at, uploaded, uploads, mediaRuns>>

PhotosNext ==
  \/ \E album \in Albums : BeginMedia(album)
  \/ SkipMissing \/ UploadThrottled \/ UploadDone \/ MediaEnds
  \/ \E kept \in BOOLEAN : UploadFails(kept)
  \/ \E kept, answered \in BOOLEAN : SaveByUrl(kept, answered)

PhotosSpec == PhotosInit /\ [][PhotosNext]_photoVars

-----------------------------------------------------------------------------
Place(p) == CHOOSE i \in 1..Len(valid) : valid[i] = p

\* A photograph that does not arrive, is refused or whose answer is lost moves
\* the later ones up: the card has no empty slot before a filled one, and the
\* slots this listing has filled hold its photographs in the product's order,
\* whatever failed between them.
GalleryInOrder ==
  /\ \A s \in Slot \ {1} : card[s] # 0 => card[s - 1] # 0
  /\ mediaStage = "upload" =>
       \A s \in 1..uploaded : /\ card[s] \in Range(valid)
                              /\ s < uploaded => Place(card[s]) < Place(card[s + 1])
                              /\ s = uploaded => Place(card[s]) < at
=============================================================================
