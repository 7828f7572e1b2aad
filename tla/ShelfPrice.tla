---------------------------- MODULE ShelfPrice ----------------------------
(***************************************************************************)
(* The prices a product is put on the shelf with                           *)
(* (apps/api/src/modules/product/shelf-price.ts) and what shelving does to *)
(* the product they are computed from: shelfMany writes the price after    *)
(* discount back as the product's price (product.service.ts 421-463), and  *)
(* the next shelving starts from it.                                       *)
(*                                                                         *)
(* Prices are whole roubles, factors and discounts per cent, 0 a price     *)
(* nobody collected, Null a field the request leaves out.                  *)
(***************************************************************************)
EXTENDS Integers, FiniteSetsExt

CONSTANTS
  Crawled,   \* prices a collection may bring: [price, original, discount]
  Requests,  \* what operators ask for when they shelve a product
  MaxPrice   \* bound on the prices followed

\* A request names a mode; the numbers in it may be anything, or are left out (-1).
RequestFields ==
  [mode : {"keep", "from_sources", "dual_times",
           "fixed_list_discount", "fixed_list_sale", "fixed_sale_discount"},
   factor : Nat \ {0}, saleFactor : (Nat \ {0}) \cup {-1},
   listSource : {"original", "discount", "sale"}, saleSource : {"original", "discount", "sale"},
   list : Int, sale : Int, percent : Int, fixedList : Nat, fixedSale : Nat, fixedPercent : Int]

ASSUME PriceAssumptions ==
  /\ Crawled \subseteq [price : Nat, original : Nat, discount : Nat]
  /\ Requests \subseteq RequestFields

VARIABLES
  product,   \* the product's prices
  shelved    \* prices and request of the last shelving, or none

priceVars == <<product, shelved>>

Null == -1
Round(a, b) == (2 * a + b) \div (2 * b)
AtLeastOne(v) == Max({1, v})

\* A request that leaves everything to its mode.
Plainly(mode) ==
  [mode |-> mode, factor |-> 100, saleFactor |-> Null, listSource |-> "original", saleSource |-> "sale",
   list |-> Null, sale |-> Null, percent |-> Null, fixedList |-> 0, fixedSale |-> 0, fixedPercent |-> 0]

-----------------------------------------------------------------------------
Clamp(percent) == Min({99, Max({0, percent})})

\* Mutant: the discount is rounded down.
DiscountDown(list, sale) ==
  IF sale >= list THEN 0 ELSE Clamp((100 * (list - sale)) \div list)

DiscountFromListAndSale(list, sale) ==
  IF sale >= list THEN 0 ELSE Clamp(Round(100 * (list - sale), list))

SaleFromListAndDiscount(list, percent) == AtLeastOne(Round(list * (100 - Clamp(percent)), 100))

ListFromSaleAndDiscount(sale, percent) ==
  CASE Clamp(percent) = 0 -> sale
    [] Clamp(percent) = 99 -> 100 * sale
    [] OTHER -> Max({sale, Round(100 * sale, 100 - Clamp(percent))})

Priced(list, percent) ==
  [list |-> list, sale |-> SaleFromListAndDiscount(list, percent), percent |-> Clamp(percent)]

\* Wildberries takes whole per cents: the sale price follows the discount.
NormalizePair(list, sale) ==
  LET l == Max({1, list, sale})
  IN Priced(l, DiscountFromListAndSale(l, AtLeastOne(sale)))

\* The first of the prices that was collected.
First(a, b, c) == IF a > 0 THEN a ELSE IF b > 0 THEN b ELSE c

CrawledPriceBases(p) ==
  LET discount == First(p.discount, p.price, 0)
      original == First(p.original, Max({discount, p.price}), 0)
  IN [original |-> First(original, discount, p.price), discount |-> First(discount, p.price, original),
      sale |-> First(p.price, discount, original)]

FallbackList(b) == AtLeastOne(First(b.original, b.sale, 1))
FallbackSale(b) == AtLeastOne(First(b.sale, b.discount, b.original))

\* Two fields of three: list and discount, else list and sale, else sale and
\* discount; a single one is completed from the collected prices.
ResolveManualShelfPrice(r, b) ==
  LET list == AtLeastOne(r.list)
      sale == AtLeastOne(r.sale)
  IN CASE r.list # Null /\ r.percent # Null -> Priced(list, r.percent)
       [] r.list # Null /\ r.percent = Null /\ r.sale # Null -> NormalizePair(r.list, r.sale)
       [] r.list = Null /\ r.sale # Null /\ r.percent # Null ->
            Priced(ListFromSaleAndDiscount(sale, r.percent), r.percent)
       [] r.list # Null /\ r.sale = Null /\ r.percent = Null ->
            NormalizePair(r.list, Min({r.list, FallbackSale(b)}))
       [] r.list = Null /\ r.sale # Null /\ r.percent = Null ->
            NormalizePair(Max({r.sale, FallbackList(b)}), r.sale)
       [] OTHER -> Priced(FallbackList(b), r.percent)

Times(price, percent) == AtLeastOne(Round(price * percent, 100))

ComputeWbShelfPrice(p, r) ==
  LET b == CrawledPriceBases(p)
      second == IF r.saleFactor = Null THEN r.factor ELSE r.saleFactor
      fixedList == First(r.fixedList, FallbackList(b), 1)
      fixedSale == First(r.fixedSale, FallbackSale(b), 1)
      capped(list, sale) == NormalizePair(list, Min({list, sale}))
  IN CASE {r.list, r.sale, r.percent} # {Null} -> ResolveManualShelfPrice(r, b)
       [] OTHER ->
     CASE r.mode = "keep" -> capped(AtLeastOne(b.original), AtLeastOne(b.sale))
       [] r.mode = "from_sources" ->
            capped(Times(b[r.listSource], r.factor), Times(b[r.saleSource], second))
       [] r.mode = "dual_times" ->
            capped(Times(FallbackList(b), r.factor), Times(FallbackSale(b), r.factor))
       [] r.mode = "fixed_list_discount" -> Priced(fixedList, r.fixedPercent)
       [] r.mode = "fixed_list_sale" -> NormalizePair(fixedList, fixedSale)
       [] r.mode = "fixed_sale_discount" ->
            Priced(ListFromSaleAndDiscount(fixedSale, r.fixedPercent), r.fixedPercent)

-----------------------------------------------------------------------------
NotShelved == [request |-> Plainly("none"), prices |-> Priced(1, 0)]

ShelfInit == product \in Crawled /\ shelved = NotShelved

\* A collection brings the prices of the page.
Recollect == product' \in Crawled /\ shelved' = NotShelved

\* shelfMany: the sale price becomes the product's price.
Shelve(r) ==
  LET prices == ComputeWbShelfPrice(product, r)
  IN /\ prices.list <= MaxPrice
     /\ product' = [product EXCEPT !.price = prices.sale]
     /\ shelved' = [request |-> r, prices |-> prices]

ShelfNext == Recollect \/ \E r \in Requests : Shelve(r)

ShelfSpec == ShelfInit /\ [][ShelfNext]_priceVars

-----------------------------------------------------------------------------
PriceTypeOK ==
  /\ product.price \in Nat /\ [product EXCEPT !.price = 0] \in {[c EXCEPT !.price = 0] : c \in Crawled}
  /\ shelved.prices.percent \in 0..99 /\ shelved.prices.sale \in 1..shelved.prices.list

\* A request that multiplies what the product costs now multiplies it again
\* when it is repeated.
Multiplies(r) == {r.list, r.sale, r.percent} = {Null} /\ r.mode \in {"dual_times", "from_sources"}

\* Any other request, repeated for a product whose page gave a list price,
\* changes nothing: rounding to whole per cents does not let a price drift,
\* though every shelving starts from the price the last one wrote back
\* (shelf-price.ts 33-73, product.service.ts 446-449).
RelistKeepsPrice ==
  [][/\ shelved' # NotShelved /\ shelved'.request = shelved.request
     /\ ~Multiplies(shelved.request) /\ product.original > 0
     => shelved' = shelved /\ product' = product]_priceVars
============================================================================
