------------------------------ MODULE WbMapper ------------------------------
(***************************************************************************)
(* What a listing sends of a product besides its sizes: brand,             *)
(* characteristics, category and description (wb-listing.mapper.ts), with  *)
(* the brand directory the catalogue store keeps of a category.  Texts are *)
(* classes: names stand for all their spellings, and of a characteristic's *)
(* value it matters where it comes from.                                   *)
(***************************************************************************)
EXTENDS Integers, Sequences, SequencesExt, Lists

CONSTANTS
  BrandDirectory, \* brands of the category at Wildberries, in its order
  BrandCap,       \* WB_BRAND_DIRECTORY_CAP
  TextLengths,    \* lengths a name and a query may have in common
  WordCounts,     \* numbers of words they may have in common
  ShopBrand,      \* the shop's own brand, or NoBrand
  NoBrand         \* stands for none

Generic == "NoName"
ASSUME MapperAssumptions ==
  /\ BrandDirectory \in Seq(ToSet(BrandDirectory)) /\ BrandCap \in Nat \ {0}
  /\ NoBrand \notin ToSet(BrandDirectory) \cup {Generic}
  /\ TextLengths \subseteq Nat /\ WordCounts \subseteq Nat

VARIABLES
  brands,       \* the brand directory the catalogue store holds, or NotRead
  sent          \* what the listing has decided: a brand, characteristic, category or length

mapperVars == <<brands, sent>>
Undecided == [nothing |-> TRUE]

Lesser(a, b) == IF a < b THEN a ELSE b
Greater(a, b) == IF a > b THEN a ELSE b

-----------------------------------------------------------------------------
(* Brands.                                                                  *)
\* Generic names first, then the names asked for, the rest up to the cap.
CompactWbBrandDirectory(names, keep) ==
  LET Those(name) == Sublist(names, {i \in DOMAIN names : names[i] = name})
      first == Joined(<<>>, Those(Generic) \o Those(keep))
      all == Joined(first, names)
  IN SubSeq(all, 1, Greater(Len(first), Lesser(BrandCap, Len(all))))

\* The directory is read only for a brand that has to be looked up in it, cut
\* down around that brand, and kept so for the next product; a failed read is
\* kept too, as an empty directory.
NotRead == <<NoBrand>>
LooksUp(crawled) == ShopBrand = NoBrand /\ crawled \notin {NoBrand, Generic}
LoadSubjectBrands(crawled, answered) ==
  IF brands # NotRead THEN brands
  ELSE IF answered THEN CompactWbBrandDirectory(BrandDirectory, crawled) ELSE <<>>

ResolveWbBrand(crawled, directory) ==
  IF ShopBrand # NoBrand THEN ShopBrand
  ELSE IF crawled \in ToSet(directory) \cup {Generic} THEN crawled
  ELSE Generic

ListBrand(crawled, answered) ==
  LET directory == LoadSubjectBrands(crawled, answered) IN
  /\ sent = Undecided
  /\ brands' = IF LooksUp(crawled) THEN directory ELSE brands
  /\ sent' = [brand |-> ResolveWbBrand(crawled, IF LooksUp(crawled) THEN directory ELSE <<>>)]
ForgetBrands == brands # NotRead /\ brands' = NotRead /\ UNCHANGED sent

-----------------------------------------------------------------------------
(* Characteristics.  A value is "none" (also a color that names none),      *)
(* "raw" (as collected), "directory" (the directory's spelling of it),      *)
(* "fallback" (a stand-in of the directory), or one of its own kind.        *)
Groups == {"brand", "article", "color", "gender", "country", "season", "vat", "hs", "size", "other"}
\* What a directory holds: nothing, the value, only a stand-in, or neither.
DirectoryKinds == {"empty", "value", "standIn", "neither"}

\* Mutant: what the directory does not know is sent as it was collected.
PickRawValue(value, directory, fallbacks) ==
  IF value = "raw" /\ directory # "value" THEN "raw"
  ELSE IF value = "raw" THEN "directory" ELSE IF directory = "standIn" /\ fallbacks THEN "fallback" ELSE "none"
PickDirectoryValue(value, directory, fallbacks) ==
  IF value = "raw" /\ directory = "value" THEN "directory"
  ELSE IF directory = "empty" THEN value
  ELSE IF directory = "standIn" /\ fallbacks THEN "fallback" ELSE "none"

\* resolveWbColorValue stands in a color even without a directory, if one is required.
ResolveWbColorValue(value, directory, required) ==
  IF directory = "empty" /\ value = "none" THEN IF required THEN "fallback" ELSE "none"
  ELSE PickDirectoryValue(value, directory, required)

CharacteristicValue(group, value, directory, required) ==
  CASE group = "brand"   -> "brand"
    [] group = "article" -> "article"
    [] group = "color"   -> ResolveWbColorValue(value, directory, required)
    [] group = "gender"  -> PickDirectoryValue(value, directory, required)
    [] group = "season"  -> PickDirectoryValue(value, directory, required)
    [] group = "country" -> PickDirectoryValue(value, directory, TRUE)
    [] group = "vat"     -> IF directory = "empty" THEN value ELSE "directory"
    [] group = "hs"      -> IF value = "none" /\ directory # "empty" THEN "directory" ELSE value
    [] OTHER             -> value

\* A characteristic taken out by a repair, or one of size, is neither sent nor missed.
MapWbCharacteristic(group, value, directory, required, skipped) ==
  LET found == CharacteristicValue(group, value, directory, required)
      passed == skipped \/ group = "size"
  IN [group |-> group, directory |-> directory, required |-> required,
      value |-> IF passed THEN "none" ELSE found,
      missing |-> ~passed /\ required /\ found = "none", passed |-> passed]

ListCharacteristic(group, value, directory, required, skipped) ==
  /\ sent = Undecided
  /\ sent' = [characteristic |-> MapWbCharacteristic(group, value, directory, required, skipped)]
  /\ UNCHANGED brands

-----------------------------------------------------------------------------
(* Categories: how a subject's name meets the query at an index: the same,  *)
(* one within the other (n: the shorter's length), the query within a name   *)
(* of two more words, some words in common (n of them), or a common stem.    *)
Meetings ==
  [kind : {"same", "stem", "apart"}, n : {0}] \cup [kind : {"within", "withinLonger"}, n : TextLengths]
    \cup [kind : {"words"}, n : WordCounts]

SubjectScore(meeting, index) ==
  LET score == CASE meeting.kind = "same" -> 100
                 [] meeting.kind = "within" -> 70 + meeting.n
                 [] meeting.kind = "withinLonger" -> 40 + meeting.n
                 [] meeting.kind = "words" -> 40 + 15 * meeting.n
                 [] meeting.kind = "stem" -> 55 [] OTHER -> 0
  IN IF score = 0 THEN 0 ELSE score + Greater(0, 24 - index * 6)

\* The first of the best scored subjects; 0 when none is good enough.
PickWbSubject(meetings) ==
  LET Best(s) == CHOOSE n \in {SubjectScore(meetings[s][q], q - 1) : q \in DOMAIN meetings[s]} :
                   \A q \in DOMAIN meetings[s] : SubjectScore(meetings[s][q], q - 1) <= n
      best == {s \in DOMAIN meetings : \A k \in DOMAIN meetings : Best(k) <= Best(s)}
      first == CHOOSE s \in best : \A k \in best : s <= k
  IN IF Best(first) >= 25 THEN first ELSE 0

ListSubject(meetings) ==
  /\ sent = Undecided
  /\ sent' = [subject |-> PickWbSubject(meetings), meetings |-> meetings]
  /\ UNCHANGED brands

\* The description's length: whole fillers up to the least, as far as there is room.
Filler == 153
DescriptionLength(length, limit) ==
  LET max == Greater(80, Lesser(limit, 1900))
      least == Lesser(1000, (max * 6) \div 10)
      filled == length + Filler * ((Greater(0, least - length) + Filler - 1) \div Filler)
  IN Lesser(filled, max)

ListDescription(length, limit) ==
  /\ sent = Undecided
  /\ sent' = [description |-> DescriptionLength(length, limit), limit |-> limit]
  /\ UNCHANGED brands

-----------------------------------------------------------------------------
Pushed == sent # Undecided /\ sent' = Undecided /\ UNCHANGED brands

MapperInit == brands = NotRead /\ sent = Undecided

MapperNext ==
  \/ \E crawled \in ToSet(BrandDirectory) \cup {NoBrand, Generic, "other"}, answered \in BOOLEAN :
       ListBrand(crawled, answered)
  \/ ForgetBrands \/ Pushed
  \/ \E group \in Groups, value \in {"none", "raw"}, directory \in DirectoryKinds, required, skipped \in BOOLEAN :
       ListCharacteristic(group, value, directory, required, skipped)
  \/ \E meetings \in [1..2 -> [1..2 -> Meetings]] : ListSubject(meetings)
  \/ \E length \in {120, 900, 1600, 2400}, limit \in {40, 100, 1000, 2000} : ListDescription(length, limit)

MapperSpec == MapperInit /\ [][MapperNext]_mapperVars

\* The variables stay in their types.
MapperTypeOK ==
  ToSet(brands) \subseteq ToSet(BrandDirectory) \cup {NoBrand, Generic}

\* What is sent is what Wildberries takes ("enumerations take their directory's
\* values only", wb-listing.mapper.ts 1093-1096, 1198-1201): a brand of the
\* directory, the shop's or a generic one; no collected value of an enumeration
\* whose directory is there; no required characteristic left out unnoticed; the
\* category named like the first query, unless the one taken has so much in common
\* with a query that it scores as high (504-524: 30 characters, 60 of a name with
\* two more words, or four words); and a description no longer than its limit,
\* of which one under 80 counts as 80 (346).
BrandAccepted == sent.brand \in (ToSet(BrandDirectory) \cup {Generic, ShopBrand}) \ {NoBrand}
CharacteristicAccepted ==
  LET c == sent.characteristic IN
  /\ (c.group \in {"color", "gender", "country", "season"} /\ c.directory # "empty") => c.value # "raw"
  /\ (c.required /\ ~c.passed) => c.missing = (c.value = "none")
Outranks(meeting) ==
  \/ meeting.kind = "within" /\ meeting.n >= 30
  \/ meeting.kind = "withinLonger" /\ meeting.n >= 60
  \/ meeting.kind = "words" /\ meeting.n >= 4
SubjectNamed ==
  (\E s \in DOMAIN sent.meetings : sent.meetings[s][1].kind = "same") =>
    /\ sent.subject # 0
    /\ \/ sent.meetings[sent.subject][1].kind = "same"
       \/ \E q \in DOMAIN sent.meetings[sent.subject] : Outranks(sent.meetings[sent.subject][q])
DescriptionFits == sent.description \in 40..1900 /\ sent.description <= Greater(80, sent.limit)
ValuesAccepted ==
  /\ "brand" \in DOMAIN sent => BrandAccepted
  /\ "characteristic" \in DOMAIN sent => CharacteristicAccepted
  /\ "subject" \in DOMAIN sent => SubjectNamed
  /\ "description" \in DOMAIN sent => DescriptionFits
=============================================================================
