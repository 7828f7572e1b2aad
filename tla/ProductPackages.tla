------------------------- MODULE ProductPackages --------------------------
(***************************************************************************)
(* The parcel of a product: what the collected specifications and texts    *)
(* say of its size and weight (packages/shared/src/package-dims.ts), the   *)
(* estimate an agent gives where they say nothing, reduced to how goods of *)
(* its kind are packed (packages/llm-core/src/package-estimate.ts), and    *)
(* the operation that reads the product, waits for the agent and writes    *)
(* the whole specification list back (product.service.ts).                 *)
(*                                                                         *)
(* Edges of specifications are millimetres and weights grams; an estimate  *)
(* and a parcel have edges in centimetres; 0 is "not given".  A            *)
(* specification is what the patterns of its name and value make of it:    *)
(*   names   the dimensions its name stands for                            *)
(*   scope   "package" for packed or gross, "net" for goods only, "plain"  *)
(*   value   its number; triple its A x B x C, or <<>>                     *)
(*   skip    "flight" for a burst height or a calibre, "lid" for the size  *)
(*           of a lid or a coating, "" else; apparel a garment's size      *)
(*   ai      its name is one an estimate gives its specifications: nothing *)
(*           else tells them from collected ones                           *)
(***************************************************************************)
EXTENDS Integers, Sequences, FiniteSetsExt

CONSTANTS
  Pages,     \* sets of specifications a collection may bring
  Texts,     \* what name and description say: [triple, edge, weight, slash]
  Answers    \* what the agent may answer: [edges, weight, reason], the reason by the A x B x C in it

VARIABLES
  specs, text, kind,   \* the product's specifications, texts, kind of goods
  estimate             \* the estimate in progress: [list, text, gaps] or none

packageVars == <<specs, text, kind, estimate>>

Edges == {"length", "width", "height"}

\* Millimetres and grams, and lists of three edges.
Sizes3 == Nat \X Nat \X Nat
Specs == [names : SUBSET (Edges \cup {"weight"}), scope : {"package", "net", "plain"}, value : Nat,
          triple : {<<>>} \cup Sizes3, skip : {"", "lid", "flight"}, apparel : BOOLEAN, ai : BOOLEAN]

ASSUME PackageAssumptions ==
  /\ \A P \in Pages : IsFiniteSet(P) /\ P \subseteq Specs
  /\ Texts \subseteq [triple : {<<>>} \cup Sizes3, edge : 0..5000, weight : Nat, slash : BOOLEAN]
  /\ Answers \subseteq [edges : Sizes3, weight : Nat, reason : {<<>>} \cup Sizes3]

MaxEdge == 700
Ceil(a, b) == (a + b - 1) \div b

-----------------------------------------------------------------------------
(* package-dims.ts: what is known of the parcel. *)

Usable(mm) == IF mm <= 10 * MaxEdge THEN mm ELSE 0

\* The edges of A x B x C from the longest to the shortest.
Sorted(t) ==
  LET S == {t[1], t[2], t[3]}
  IN <<Max(S), t[1] + t[2] + t[3] - Max(S) - Min(S), Min(S)>>

Triple(t) ==
  LET s == Sorted([i \in 1..3 |-> Usable(t[i])])
  IN [length |-> s[1], width |-> s[2], height |-> s[3]]

Read(r) == r.skip = "" /\ (r.triple = <<>> \/ "weight" \in r.names)

Named(R, d) == Max({0} \cup {Usable(r.value) : r \in {q \in R : Read(q) /\ d \in q.names}})
NamedEdges(R) == [d \in Edges |-> Named(R, d)]

Complete(f) == \A d \in Edges : f[d] > 0

Greatest(f, g) == [d \in Edges |-> Max({f[d], g[d]})]

\* A x B x C specifications count only while a named edge is missing; then even
\* the size of a lid does.
Triples(R) == {q \in R : q.triple # <<>> /\ q.skip # "flight" /\ ~q.apparel}
SizedEdges(R) ==
  IF Complete(NamedEdges(R)) THEN NamedEdges(R)
  ELSE [d \in Edges |-> Max({Named(R, d)} \cup {Triple(q.triple)[d] : q \in Triples(R)})]

\* The texts, only while an edge is still missing and they list no variants' sizes.
TextCounts(R, t) == ~Complete(SizedEdges(R)) /\ ~t.slash
Found(R, t) ==
  LET sized == IF t.triple = <<>> THEN SizedEdges(R) ELSE Greatest(SizedEdges(R), Triple(t.triple))
  IN IF TextCounts(R, t) THEN [sized EXCEPT !.length = Max({@, t.edge})] ELSE SizedEdges(R)

\* Mutant: a fifth of the net weight is always enough.
GrossShare(net) == net + Ceil(net, 5)

ToGross(net) == net + Max({100, Ceil(net, 5)})

Weights(R) == {q \in R : Read(q) /\ "weight" \in q.names /\ q.value > 0}
ScopedTo(R, scope) == {q \in R : q.scope = scope}
Heaviest(R) == Max({0} \cup {q.value : q \in R})

\* Beside a net weight one that says neither net nor gross counts for nothing,
\* unless a gross one is there.
Weight(R, t) ==
  LET most == Heaviest(Weights(R))
      net == Heaviest(ScopedTo(Weights(R), "net"))
      explicit == ScopedTo(Weights(R), "package") # {}
  IN CASE most = 0 -> IF t.weight = 0 THEN 0 ELSE ToGross(t.weight)
       [] net > 0 -> Max({IF explicit THEN most ELSE 0, ToGross(net)})
       [] net = 0 /\ explicit -> most
       [] OTHER -> ToGross(most)

\* One edge measured on the parcel switches the packing allowance off.
Scoped(R) == \E q \in R : Read(q) /\ q.scope = "package" /\ q.names \cap Edges # {}
                          /\ Usable(q.value) > 0

ShippingEdge(mm, scoped) ==
  LET packed == Max({1, Ceil(IF scoped THEN mm ELSE mm + 20, 10)})
  IN IF mm = 0 THEN 0
     ELSE IF packed > MaxEdge THEN Min({MaxEdge, Ceil(mm, 10)}) ELSE packed

Parcel(R, t) ==
  [d \in Edges |-> ShippingEdge(Found(R, t)[d], Scoped(R))]

Gaps(R, t) == (IF Complete(Parcel(R, t)) THEN {} ELSE {"size"})
              \cup (IF Weight(R, t) > 0 THEN {} ELSE {"weight"})

-----------------------------------------------------------------------------
(* package-estimate.ts: how goods are packed, and the agent's answer. *)

Pack(method, alert, length, width, height, typical) ==
  [method |-> method, alert |-> alert, typical |-> typical,
   packed |-> [length |-> length, width |-> width, height |-> height]]

Profiles ==
  [textile_fold    |-> Pack("fold", 55, <<22, 40>>, <<16, 30>>, <<4, 14>>, <<32, 24, 8>>),
   phone_gadget    |-> Pack("mailer", 25, <<12, 28>>, <<8, 20>>, <<2, 10>>, <<18, 12, 4>>),
   roll            |-> Pack("roll", 50, <<18, 70>>, <<8, 22>>, <<8, 22>>, <<35, 14, 14>>),
   shoes           |-> Pack("shoe_box", 45, <<28, 40>>, <<18, 28>>, <<10, 16>>, <<34, 22, 12>>),
   beauty_bottle   |-> Pack("bottle_box", 28, <<10, 24>>, <<7, 16>>, <<8, 28>>, <<16, 10, 18>>),
   cookware        |-> Pack("retail_box", 40, <<22, 42>>, <<18, 38>>, <<6, 18>>, <<32, 32, 10>>),
   electronics_box |-> Pack("retail_box", 55, <<14, 55>>, <<10, 40>>, <<4, 18>>, <<22, 16, 8>>),
   display         |-> Pack("carton", 90, <<40, 140>>, <<8, 80>>, <<8, 70>>, <<110, 70, 16>>),
   furniture_kd    |-> Pack("flat_pack", 80, <<50, 140>>, <<30, 80>>, <<8, 30>>, <<90, 45, 16>>),
   mattress        |-> Pack("roll", 120, <<80, 200>>, <<30, 50>>, <<30, 50>>, <<120, 40, 40>>),
   toy_box         |-> Pack("retail_box", 50, <<16, 45>>, <<12, 35>>, <<6, 25>>, <<28, 20, 12>>),
   sport           |-> Pack("carton", 70, <<20, 90>>, <<12, 40>>, <<8, 30>>, <<40, 20, 14>>),
   auto_part       |-> Pack("carton", 60, <<18, 55>>, <<12, 40>>, <<6, 25>>, <<32, 22, 12>>),
   food            |-> Pack("mailer", 35, <<14, 36>>, <<10, 26>>, <<4, 18>>, <<22, 16, 8>>),
   books           |-> Pack("mailer", 35, <<18, 34>>, <<12, 26>>, <<2, 12>>, <<24, 18, 4>>),
   jewelry         |-> Pack("mailer", 18, <<8, 18>>, <<6, 14>>, <<2, 6>>, <<12, 10, 4>>),
   generic_parcel  |-> Pack("carton", 50, <<16, 45>>, <<12, 32>>, <<4, 22>>, <<30, 22, 12>>)]

Goods == DOMAIN Profiles

Within(v, span) == Min({span[2], Max({span[1], 1, v})})

\* Is this the size in use, spread out or assembled, and not the parcel's?
LooksLikeUseSize(p, e) ==
  \/ e[1] >= p.alert
  \/ 4 * e[1] > 5 * p.packed.length[2] /\ p.method \notin {"carton", "flat_pack"}
  \/ e[3] > p.packed.height[2] /\ 100 * e[1] <= 115 * p.packed.length[2]

\* The parcel of the kind of goods: e is sorted, w the weight in grams.
Cuboid(p, e, w) ==
  LET box(l, b, h) == <<Within(l, p.packed.length), Within(b, p.packed.width),
                        Within(h, p.packed.height)>>
      near(i, pad, room) == Min({e[i] + pad, p.typical[i] + room})
  IN CASE p.method = "fold" -> box(Ceil(e[1], 6), Ceil(e[2], 4), Ceil(3000 + 6 * w, 1000))
       [] p.method = "roll" -> box(Ceil(35 * Min({e[1], 90}), 100), Ceil(10000 + 5 * w, 1000),
                                   Ceil(10000 + 5 * w, 1000))
       [] p.method = "shoe_box" -> p.typical
       [] p.method = "bottle_box" -> box(p.typical[1], p.typical[2],
                                         Min({e[1] + 2, p.typical[3] + 4}))
       [] p.method = "flat_pack" -> box(Min({Ceil(55 * e[1], 100), 120}), Ceil(e[2], 2),
                                        Ceil(8000 + w, 1000))
       [] p.method = "mailer" -> box(near(1, 0, 4), near(2, 0, 4), near(3, 2, 2))
       [] OTHER -> box(near(1, 2, 8), near(2, 2, 6), near(3, 2, 4))

\* What is left of an answer: edges up to 700 cm, 10 g to 40 kg.
Parsed(a) ==
  [edges |-> [i \in 1..3 |-> IF a.edges[i] <= MaxEdge THEN a.edges[i] ELSE 0],
   weight |-> IF 10 <= a.weight /\ a.weight <= 40000 THEN a.weight ELSE 0,
   reason |-> a.reason]

Whole(e) == \A i \in 1..3 : e[i] > 0

RefinePackedEstimate(p, a) ==
  IF Whole(a.edges) /\ LooksLikeUseSize(p, Sorted(a.edges))
  THEN [a EXCEPT !.edges = Cuboid(p, Sorted(a.edges), IF a.weight = 0 THEN 400 ELSE a.weight)]
  ELSE a

Strip(R) == {r \in R : ~r.ai}

AiSpec(d, v) == [names |-> {d}, scope |-> "package", value |-> v, triple |-> <<>>,
                 skip |-> "", apparel |-> FALSE, ai |-> TRUE]
ReasonSpec(t) == [names |-> {}, scope |-> "plain", value |-> 0, triple |-> t,
                  skip |-> "", apparel |-> FALSE, ai |-> TRUE]

SizeSpecs(e) == {AiSpec("length", 10 * e[1]), AiSpec("width", 10 * e[2]), AiSpec("height", 10 * e[3])}

\* Whatever bears such a name goes, the size of an earlier estimate too when only
\* the weight is missing; the agent's reason joins the specifications.
MergeEstimate(R, a, gaps) ==
  Strip(R) \cup {ReasonSpec(a.reason)}
           \cup (IF "size" \in gaps THEN SizeSpecs(a.edges) ELSE {})
           \cup (IF "weight" \in gaps THEN {AiSpec("weight", a.weight)} ELSE {})

-----------------------------------------------------------------------------
(* The operations. *)

NoEstimate == [list |-> {}, gaps |-> {}]

PackageInit ==
  /\ specs \in Pages /\ text \in Texts /\ kind \in Goods
  /\ estimate = NoEstimate

\* A collection replaces the whole specification list.
Collect ==
  /\ specs' \in Pages
  /\ UNCHANGED <<text, kind, estimate>>

EditText ==
  /\ text' \in Texts
  /\ UNCHANGED <<specs, kind, estimate>>

\* estimateProductRecord reads the product; with nothing missing it ends here.
EstimateRead(force) ==
  LET list == IF force THEN Strip(specs) ELSE specs
  IN /\ estimate = NoEstimate
     /\ Gaps(list, text) # {}
     /\ estimate' = [list |-> list, gaps |-> Gaps(list, text)]
     /\ UNCHANGED <<specs, text, kind>>

\* The agent answers; an answer that leaves a gap is refused, and the whole
\* list is written over whatever the product has by now.
EstimateWrite(answer) ==
  LET a == RefinePackedEstimate(Profiles[kind], Parsed(answer))
  IN /\ estimate # NoEstimate
     /\ ("size" \in estimate.gaps => Whole(a.edges))
     /\ ("weight" \in estimate.gaps => a.weight > 0)
     /\ specs' = MergeEstimate(estimate.list, a, estimate.gaps)
     /\ estimate' = NoEstimate
     /\ UNCHANGED <<text, kind>>

\* No answer, a refused one, or a preview that is not kept.
EstimateDrops ==
  /\ estimate # NoEstimate /\ estimate' = NoEstimate
  /\ UNCHANGED <<specs, text, kind>>

PackageNext ==
  \/ Collect \/ EditText \/ EstimateDrops
  \/ \E force \in BOOLEAN : EstimateRead(force)
  \/ \E answer \in Answers : EstimateWrite(answer)

PackageSpec == PackageInit /\ [][PackageNext]_packageVars

-----------------------------------------------------------------------------
Ours(R) == {r \in R : r.ai}

PackageTypeOK ==
  /\ kind \in Goods /\ text \in Texts
  /\ Strip(specs) \in {Strip(P) : P \in Pages}
  /\ specs \in Pages \/ Cardinality(Ours(specs)) <= 5
  /\ estimate.gaps \subseteq {"size", "weight"}

\* A parcel is declared no smaller than what was read of it, on whatever list
\* collections and estimates left: than every named edge, every A x B x C while a
\* name is missing, and the texts while an edge still is ...
SizeEnough ==
  LET covers(d, mm) == 10 * Parcel(specs, text)[d] >= mm
  IN /\ \A r \in {q \in specs : Read(q)} : \A d \in r.names \cap Edges : covers(d, Usable(r.value))
     /\ ~Complete(NamedEdges(specs)) =>
          \A q \in Triples(specs), d \in Edges : covers(d, Triple(q.triple)[d])
     /\ TextCounts(specs, text) =>
          /\ covers("length", text.edge)
          /\ text.triple # <<>> => \A d \in Edges : covers(d, Triple(text.triple)[d])

\* ... and no lighter than any gross weight, heavier by the packing than any net one,
\* and than the texts' when no specification gives one; a weight that says neither
\* is heeded unless there is a net and no gross one, which alone is believed then.
WeightEnough ==
  LET given(scope) == ScopedTo(Weights(specs), scope)
      covers(g) == Weight(specs, text) >= g
  IN /\ \A r \in given("package") : covers(r.value)
     /\ \A r \in given("net") : covers(r.value + 100)
     /\ given("package") # {} => \A r \in Weights(specs) : covers(r.value)
     /\ given("package") \cup given("net") = {} => \A r \in Weights(specs) : covers(r.value + 100)
     /\ Weights(specs) = {} /\ text.weight > 0 => covers(text.weight + 100)

\* A parcel is declared as large and as heavy as what counts of the specifications
\* and texts: what is measured at the warehouse and exceeds the declaration is
\* fined (package-dims.ts 32-37, 221-223, 289-345).
ShipsEnough == SizeEnough /\ WeightEnough
============================================================================
