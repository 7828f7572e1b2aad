--------------------------- MODULE HarvestWidgets ---------------------------
(***************************************************************************)
(* Which widgets of a product page ozon-harvest.js asks Ozon for.  The     *)
(* page's state, cached answers and a dozen page and modal requests are    *)
(* ingested in order; each may name widgets in its layout, where the       *)
(* asyncData is that a request for the widget needs, and in widgetStates,  *)
(* where a delivery widget is often an empty shell.  What is queued then   *)
(* is posted, delivery widgets first.  Recommendations and widgets that    *)
(* are not important are never posted and are left out.                    *)
(***************************************************************************)
EXTENDS Naturals, FiniteSets

CONSTANTS
  Number,      \* the numbers in widget ids
  Contents,    \* what an answer may hold: [layout, states], see Node below
  MaxAnswers,  \* bound: answers ingested before the posting
  MaxWidgets   \* widgets posted at most (24)

ASSUME WidgetAssumptions == {MaxAnswers, MaxWidgets} \subseteq Nat /\ IsFiniteSet(Number)

VARIABLES
  queue,     \* layoutWidgets: per widget [known, data, important]
  answers,   \* answers ingested so far
  batch,     \* the widgets to post, or NotYet
  asked,     \* the deliveries among them that are posted with asyncData
  laid       \* history: widgets a layout ingested so far gave asyncData for

widgetVars == <<queue, answers, batch, asked, laid>>

\* webDelivery-N-default-1, the second id of the same widget on another place,
\* webOutOfStock-N-default-1, and webSale-N-default-1.
Widget == {"delivery", "alias", "outOfStock", "sale"} \X Number
RealDelivery == {"delivery", "alias", "outOfStock"} \X Number

Unknown == [known |-> FALSE, data |-> "none", important |-> FALSE]
NotYet == {<<"not", "yet">>}

\* A node of a layout: its widget, whether it has a stateId, its asyncData.
Node == [widget : {"delivery", "outOfStock", "sale"} \X Number, named : BOOLEAN, data : {"none", "own"}]

ASSUME ContentsAssumption == \A content \in Contents : content.layout \subseteq Node

\* Mutant: a widget met before is left as it is.
FillNone(entry, data) == entry.data
\* An entry gets asyncData that it lacks, and keeps what it has.
Fill(entry, data) == IF entry.data = "none" THEN data ELSE entry.data

Remember(entry, data, important) ==
  IF entry.known
  THEN [entry EXCEPT !.data = Fill(entry, data), !.important = @ \/ important]
  ELSE [known |-> TRUE, data |-> data, important |-> important]

\* A node without stateId is queued under the ids its widget may have; only
\* webDelivery's second id is followed.
IdsOf(node) ==
  {node.widget} \cup IF node.named \/ node.widget[1] # "delivery" THEN {}
                     ELSE {<<"alias", node.widget[2]>>}

\* takeSeerfarDeliveries and collectLayoutWidgets: the data of any node with
\* the id will do, as all nodes of a page with that id carry the same.
TakeLayout(q, layout) ==
  [w \in Widget |->
     LET nodes == {node \in layout : w \in IdsOf(node)}
     IN IF nodes = {} THEN q[w]
        ELSE Remember(q[w], IF \E node \in nodes : node.data = "own" THEN "own" ELSE "none", TRUE)]

TakeStates(q, states) ==
  [w \in Widget |-> IF w \in states THEN Remember(q[w], "none", TRUE) ELSE q[w]]

\* expandQueuedDeliveries: a delivery's number may also be that of a
\* webDelivery and a webSale; a new one borrows the data of some delivery.
Expand(q) ==
  LET numbers == {w[2] : w \in {d \in RealDelivery : q[d].known}}
      lent == IF \E d \in RealDelivery : q[d].known /\ q[d].data # "none" THEN "borrowed" ELSE "none"
      added == {"delivery", "sale"} \X numbers
  IN [w \in Widget |->
        IF w \in added /\ ~q[w].known THEN Remember(q[w], lent, w \in RealDelivery)
        ELSE IF w \in RealDelivery /\ q[w].known THEN [q[w] EXCEPT !.important = TRUE]
        ELSE q[w]]

Taken(q, content) == Expand(TakeStates(TakeLayout(q, content.layout), content.states))

-----------------------------------------------------------------------------
WidgetInit ==
  /\ queue = [w \in Widget |-> Unknown] /\ answers = 0
  /\ batch = NotYet /\ asked = {} /\ laid = {}

\* The page's own state, the cached answers and the requested pages; a request
\* that fails, times out or meets the bot check brings nothing.
IngestPage(content) ==
  /\ batch = NotYet /\ answers < MaxAnswers
  /\ answers' = answers + 1
  /\ queue' = Taken(queue, content)
  /\ laid' = laid \cup {node.widget : node \in {n \in content.layout : n.data = "own"}}
  /\ UNCHANGED <<batch, asked>>

PageFails ==
  /\ batch = NotYet /\ answers < MaxAnswers
  /\ answers' = answers + 1
  /\ UNCHANGED <<queue, batch, asked, laid>>

\* Deliveries come first, those with data before the others.
Rank(w) == IF w \in RealDelivery THEN IF queue[w].data # "none" THEN 7 ELSE 6 ELSE 4
Wanted == {w \in Widget : queue[w].known /\ (w \in RealDelivery \/ queue[w].important)}

CutBatch ==
  /\ batch = NotYet /\ answers = MaxAnswers
  /\ \E chosen \in SUBSET Wanted :
       /\ Cardinality(chosen) = IF Cardinality(Wanted) < MaxWidgets THEN Cardinality(Wanted) ELSE MaxWidgets
       /\ \A w \in chosen, other \in Wanted \ chosen : Rank(w) >= Rank(other)
       /\ batch' = chosen
       /\ asked' = {w \in chosen \cap RealDelivery : queue[w].data # "none"}
  /\ UNCHANGED <<queue, answers, laid>>

\* A posted widget's answer is ingested like a page; what it adds to the queue
\* comes too late for the batch.
PostAnswered(w, content) ==
  /\ batch # NotYet /\ w \in batch
  /\ w \in RealDelivery => w \in asked
  /\ batch' = batch \ {w}
  /\ queue' = Taken(queue, content)
  /\ UNCHANGED <<answers, asked, laid>>

\* It fails; the answer to a delivery posted without data is not looked at.
PostFails(w) ==
  /\ batch # NotYet /\ w \in batch
  /\ batch' = batch \ {w}
  /\ UNCHANGED <<queue, answers, asked, laid>>

WidgetNext ==
  \/ \E content \in Contents : IngestPage(content)
  \/ PageFails \/ CutBatch
  \/ \E w \in Widget : PostFails(w) \/ \E content \in Contents : PostAnswered(w, content)

WidgetSpec == WidgetInit /\ [][WidgetNext]_widgetVars

\* The variables stay in their types.
WidgetTypeOK ==
  /\ queue \in [Widget -> [known : BOOLEAN, data : {"none", "own", "borrowed"}, important : BOOLEAN]]
  /\ answers \in 0..MaxAnswers
  /\ batch = NotYet \/ batch \subseteq Widget
  /\ asked \subseteq RealDelivery /\ laid \subseteq Widget

\* Whatever came first, shell or layout, a delivery widget whose asyncData an
\* answer gave is posted with data, unless there are more of them than may be
\* posted: an entry made without data is filled when the data turns up, and is
\* not reported as missing it (ozon-harvest.js 1050-1056, 1344-1363, 1381-1383).
DeliveriesAsked ==
  batch # NotYet /\ Cardinality({w \in RealDelivery : queue[w].data # "none"}) <= MaxWidgets
    => laid \cap RealDelivery \subseteq asked
=============================================================================
