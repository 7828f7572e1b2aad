---------------------------- MODULE AiSelection ----------------------------
(***************************************************************************)
(* Scoring a new product: what ingestSuccess writes of it after the page   *)
(* is accepted (crawler.service.ts), the job it queues, and the worker     *)
(* that asks a language model (ai-selection.processor.ts, runAiSelection   *)
(* of product.service.ts).                                                 *)
(*                                                                         *)
(* One SKU, met by several task items.  Each write is a call of its own.   *)
(* The task, its agent and the filters are those of CrawlerTask; crawling  *)
(* all SKUs of a family is switched off (CRAWL_ALL_SKUS_ENABLED).          *)
(***************************************************************************)
EXTENDS Naturals, Sequences

CONSTANTS
  Visited,      \* task items that meet the SKU
  NoVisit,
  MaxProducts,  \* bound: products made of it, one after the other
  MaxScores     \* bound: AiSelection rows made

ASSUME SelectionAssumptions ==
  NoVisit \notin Visited /\ MaxProducts \in Nat \ {0} /\ MaxScores \in Nat \ {0}

VARIABLES
  item,      \* [at, direct, fresh, product, score] of each item's ingestion
  snapshots, \* items with a snapshot
  chosen,     \* the product of the SKU: [id, status], id 0 when there is none
  scores,    \* AiSelection: [id, snapshot, product, status, of]; of: history, the snapshot scored
  jobs,      \* the queue ai-selection
  worker,    \* [at, job]
  hasKey,    \* LLM_API_KEY is set
  made,      \* products and rows made so far
  gaps       \* history: <<"lost", p>>: no selection may come of p; <<"mixed", p>>: two wrote it

selectionVars == <<item, snapshots, chosen, scores, jobs, worker, hasKey, made, gaps>>

CatalogStatuses == {"APPROVED", "ON_SHELF", "OFF_SHELF"}
NoneChosen == [id |-> 0, status |-> "NONE"]
NoScoring   == [snapshot |-> NoVisit, product |-> 0, score |-> 0]
Unmet   == [at |-> "none", direct |-> FALSE, fresh |-> FALSE, product |-> 0, score |-> 0]

Stands(i, where) == item[i].at = where
Go(i, to) == item' = [item EXCEPT ![i] = to]
GoTo(i, where) == Go(i, [item[i] EXCEPT !.at = where])

ScoreRow(id) == CHOOSE r \in scores : r.id = id
HasRow(id) == \E r \in scores : r.id = id
SetRow(id, with) == scores' = (scores \ {ScoreRow(id)}) \cup {with}

InFlight(i) == item[i].at \in {"find", "upsert", "mark", "aiFind", "aiWrite", "aiAdd"}
OthersIn(i) == \E j \in Visited \ {i} : InFlight(j)
Lost(P) == {<<"lost", p>> : p \in P \ {0}}

-----------------------------------------------------------------------------
(* crawler.service.ts: ingestion. *)

\* An agent's item, as CrawlerTask hands it out; or ingestDirect, which makes
\* the task and the item itself and ingests at once.
Claimed(i) ==
  /\ Stands(i, "none") /\ Go(i, [Unmet EXCEPT !.at = "open"])
  /\ UNCHANGED <<snapshots, chosen, scores, jobs, worker, hasKey, made, gaps>>

IngestDirect(i) ==
  /\ Stands(i, "none") /\ Go(i, [Unmet EXCEPT !.at = "snapshot", !.direct = TRUE])
  /\ UNCHANGED <<snapshots, chosen, scores, jobs, worker, hasKey, made, gaps>>

IngestStart(i) ==
  /\ Stands(i, "open") /\ GoTo(i, "snapshot")
  /\ UNCHANGED <<snapshots, chosen, scores, jobs, worker, hasKey, made, gaps>>

WriteSnapshot(i) ==
  /\ Stands(i, "snapshot") /\ GoTo(i, "find")
  /\ snapshots' = snapshots \cup {i}
  /\ UNCHANGED <<chosen, scores, jobs, worker, hasKey, made, gaps>>

\* A product still to be chosen is to be scored.
ShouldAi == chosen.id = 0 \/ chosen.status \notin CatalogStatuses

FindProduct(i) ==
  /\ Stands(i, "find") /\ Go(i, [item[i] EXCEPT !.at = "upsert", !.fresh = ShouldAi])
  /\ UNCHANGED <<snapshots, chosen, scores, jobs, worker, hasKey, made, gaps>>

\* The status changes as the product was found, not as it is by now; one found and
\* removed since is made anew, but not scored.
UpsertProduct(i) ==
  /\ Stands(i, "upsert") /\ i \in snapshots
  /\ chosen.id = 0 => made.products < MaxProducts
  /\ made' = IF chosen.id = 0 THEN [made EXCEPT !.products = @ + 1] ELSE made
  /\ chosen' = IF chosen.id = 0 THEN [id |-> made'.products, status |-> "APPROVED"]
              ELSE [chosen EXCEPT !.status = IF item[i].fresh THEN "APPROVED" ELSE @]
  /\ Go(i, [item[i] EXCEPT !.at = "mark", !.product = chosen'.id])
  /\ gaps' = gaps \cup (IF OthersIn(i) THEN {<<"mixed", chosen'.id>>} ELSE {})
                  \cup (IF chosen.id = 0 /\ ~item[i].fresh THEN Lost({chosen'.id}) ELSE {})
  /\ UNCHANGED <<snapshots, scores, jobs, worker, hasKey>>

MarkSuccess(i) ==
  /\ Stands(i, "mark") /\ GoTo(i, IF item[i].fresh THEN "aiFind" ELSE "done")
  /\ UNCHANGED <<snapshots, chosen, scores, jobs, worker, hasKey, made, gaps>>

RowsOf(p) == {r \in scores : r.product = p}

FindSelection(i) ==
  /\ Stands(i, "aiFind")
  /\ LET rows == RowsOf(item[i].product)
     IN Go(i, [item[i] EXCEPT !.at = "aiWrite",
                              !.score = IF rows = {} THEN 0 ELSE (CHOOSE r \in rows : TRUE).id])
  /\ UNCHANGED <<snapshots, chosen, scores, jobs, worker, hasKey, made, gaps>>

\* An update needs the row still to be there; a row is the only one of its
\* snapshot and of its product, and both exist.
UpdateSelection(i) ==
  LET id == item[i].score IN
  /\ Stands(i, "aiWrite") /\ HasRow(id) /\ i \in snapshots
  /\ \A r \in scores : r.snapshot = i => r.id = id
  /\ SetRow(id, [ScoreRow(id) EXCEPT !.snapshot = i, !.status = "QUEUED"])
  /\ GoTo(i, "aiAdd")
  /\ UNCHANGED <<snapshots, chosen, jobs, worker, hasKey, made, gaps>>

CreateSelection(i) ==
  LET p == item[i].product   id == made.scores + 1 IN
  /\ Stands(i, "aiWrite") /\ item[i].score = 0 /\ made.scores < MaxScores
  /\ chosen.id = p /\ i \in snapshots
  /\ \A r \in scores : r.product # p /\ r.snapshot # i
  /\ scores' = scores \cup {[id |-> id, snapshot |-> i, product |-> p, status |-> "QUEUED", of |-> {}]}
  /\ made' = [made EXCEPT !.scores = id]
  /\ Go(i, [item[i] EXCEPT !.at = "aiAdd", !.score = id])
  /\ UNCHANGED <<snapshots, chosen, jobs, worker, hasKey, gaps>>

AddJob(i) ==
  /\ Stands(i, "aiAdd") /\ GoTo(i, "done")
  /\ jobs' = Append(jobs, [snapshot |-> i, product |-> item[i].product, score |-> item[i].score])
  /\ UNCHANGED <<snapshots, chosen, scores, worker, hasKey, made, gaps>>

\* A call fails, as it must when a row it needs is gone or a unique key taken,
\* or the API stops: an item not yet SUCCESS is ingested again by whoever
\* claims it, which a direct one has nobody for.
IngestBreaks(i) ==
  /\ InFlight(i) \/ Stands(i, "snapshot")
  /\ Go(i, IF item[i].at \in {"aiFind", "aiWrite", "aiAdd"} \/ item[i].direct
           THEN [item[i] EXCEPT !.at = "done"] ELSE [Unmet EXCEPT !.at = "open"])
  /\ gaps' = gaps \cup Lost({item[i].product})
  /\ UNCHANGED <<snapshots, chosen, scores, jobs, worker, hasKey, made>>

-----------------------------------------------------------------------------
(* product.service.ts: the worker; jobs run one at a time, with one attempt. *)

Rest == worker' = [at |-> "idle", job |-> NoScoring]

\* Without its snapshot, and with it its row, a job is over.
JobStart ==
  LET job == Head(jobs) IN
  /\ worker.at = "idle" /\ jobs # <<>>
  /\ jobs' = Tail(jobs)
  /\ IF HasRow(job.score) /\ job.snapshot \in snapshots
     THEN /\ SetRow(job.score, [ScoreRow(job.score) EXCEPT !.status = "RUNNING"])
          /\ worker' = [at |-> IF hasKey THEN "ask" ELSE "idle", job |-> IF hasKey THEN job ELSE NoScoring]
     ELSE Rest /\ UNCHANGED scores
  /\ UNCHANGED <<item, snapshots, chosen, hasKey, made, gaps>>

Answered ==
  LET job == worker.job IN
  /\ worker.at = "ask" /\ Rest
  /\ IF HasRow(job.score)
     THEN SetRow(job.score, [ScoreRow(job.score) EXCEPT !.status = "SUCCESS", !.of = {job.snapshot}])
     ELSE UNCHANGED scores
  /\ UNCHANGED <<item, snapshots, chosen, jobs, hasKey, made, gaps>>

\* Mutant: the failure is thrown, as a missing key is.
AnswerThrows ==
  /\ worker.at = "ask" /\ Rest
  /\ UNCHANGED <<item, snapshots, chosen, scores, jobs, hasKey, made, gaps>>

\* The model cannot be reached, or its answer cannot be used or written.
AnswerFails ==
  LET job == worker.job IN
  /\ worker.at = "ask"
  /\ IF HasRow(job.score)
     THEN /\ SetRow(job.score, [ScoreRow(job.score) EXCEPT !.status = "FAILED"])
          /\ worker' = [worker EXCEPT !.at = "touch"]
     ELSE Rest /\ UNCHANGED scores
  /\ UNCHANGED <<item, snapshots, chosen, jobs, hasKey, made, gaps>>

\* touchAiProductStatus: a product in the catalogue stays as it is.
Touched(g) == IF g.id = 0 \/ g.status \in CatalogStatuses THEN g ELSE [g EXCEPT !.status = "AI_DONE"]

TouchProduct ==
  /\ worker.at = "touch" /\ Rest
  /\ chosen' = IF chosen.id = worker.job.product THEN Touched(chosen) ELSE chosen
  /\ UNCHANGED <<item, snapshots, scores, jobs, hasKey, made, gaps>>

\* BullMQ: the job of a worker that died is found stalled and runs again.
Stalled ==
  /\ worker.at \in {"ask", "touch"} /\ Rest
  /\ jobs' = <<worker.job>> \o jobs
  /\ UNCHANGED <<item, snapshots, chosen, scores, hasKey, made, gaps>>

-----------------------------------------------------------------------------
(* What else touches these rows. *)

\* cancelTask and deleteTask: items, snapshots and their selections go with the
\* task; an ingestion under way fails at its next write.
DeleteVisited(i) ==
  /\ item[i].at \notin {"none", "gone"}
  /\ GoTo(i, "gone")
  /\ snapshots' = snapshots \ {i}
  /\ scores' = {r \in scores : r.snapshot # i}
  /\ gaps' = gaps \cup Lost({r.product : r \in scores \ scores'})
                  \cup (IF InFlight(i) \/ <<"mixed", item[i].product>> \in gaps
                            THEN Lost({item[i].product}) ELSE {})
  /\ UNCHANGED <<chosen, jobs, worker, hasKey, made>>

\* remove: a product that is not listed; its selection stays with the snapshot.
RemoveProduct ==
  /\ chosen.id # 0 /\ chosen.status # "ON_SHELF"
  /\ chosen' = NoneChosen
  /\ scores' = {IF r.product = chosen.id THEN [r EXCEPT !.product = 0] ELSE r : r \in scores}
  /\ UNCHANGED <<item, snapshots, jobs, worker, hasKey, made, gaps>>

\* syncProductListingSummary: the product is listed, or no longer.
ListedOrNot ==
  /\ chosen.id # 0
  /\ chosen' = [chosen EXCEPT !.status = IF @ = "ON_SHELF" THEN "OFF_SHELF" ELSE "ON_SHELF"]
  /\ UNCHANGED <<item, snapshots, scores, jobs, worker, hasKey, made, gaps>>

-----------------------------------------------------------------------------
SelectionInit ==
  /\ item = [i \in Visited |-> Unmet] /\ snapshots = {} /\ chosen = NoneChosen
  /\ scores = {} /\ jobs = <<>> /\ worker = [at |-> "idle", job |-> NoScoring]
  /\ hasKey \in BOOLEAN /\ made = [products |-> 0, scores |-> 0] /\ gaps = {}

SelectionNext ==
  \/ \E i \in Visited :
       \/ Claimed(i) \/ IngestDirect(i) \/ IngestStart(i) \/ WriteSnapshot(i) \/ FindProduct(i)
       \/ UpsertProduct(i) \/ MarkSuccess(i) \/ FindSelection(i) \/ UpdateSelection(i)
       \/ CreateSelection(i) \/ AddJob(i) \/ IngestBreaks(i) \/ DeleteVisited(i)
  \/ JobStart \/ Answered \/ AnswerFails \/ TouchProduct \/ Stalled
  \/ RemoveProduct \/ ListedOrNot

SelectionSpec == SelectionInit /\ [][SelectionNext]_selectionVars

-----------------------------------------------------------------------------
SelectionTypeOK ==
  /\ snapshots \subseteq Visited /\ hasKey \in BOOLEAN
  /\ chosen.id \in 0 .. MaxProducts /\ chosen.status \in CatalogStatuses \cup {"AI_DONE", "NONE"}
  /\ \A r \in scores :
       /\ r.id \in 1 .. MaxScores /\ r.product \in 0 .. MaxProducts
       /\ r.status \in {"QUEUED", "RUNNING", "SUCCESS", "FAILED"}
  /\ worker.at \in {"idle", "ask", "touch"}

\* A new product is scored, whatever the model answers, and stays in the catalogue:
\* once nothing is under way its selection is SUCCESS or FAILED (RUNNING for ever
\* where no key is set, product.service.ts 655), and a score is that of the snapshot
\* it names.  Excepted are the products an ingestion broke on after making them, or
\* whose task was deleted, and, for the score, those two ingestions wrote together.
SelectionSettles ==
  LET p == chosen.id
      quiet == jobs = <<>> /\ worker.at = "idle" /\ \A i \in Visited : ~InFlight(i)
  IN p # 0 =>
       /\ chosen.status \in CatalogStatuses
       /\ (quiet /\ <<"lost", p>> \notin gaps) => \E r \in RowsOf(p) :
            /\ r.status \in (IF hasKey THEN {"SUCCESS", "FAILED"} ELSE {"RUNNING"})
            /\ (r.status = "SUCCESS" /\ <<"mixed", p>> \notin gaps) => r.of = {r.snapshot}
============================================================================
