----------------------------- MODULE WbListing -----------------------------
(***************************************************************************)
(* One product and its listings in the Wildberries shops of its tenant     *)
(* (ProductService): putting it on the shelf queues a job per shop, the    *)
(* job uploads a card and records its number, a failed job is retried, a   *)
(* listing is taken off again (which withdraws the card, or cancels the    *)
(* job), the product's own summary follows its listings, and the product   *)
(* may be removed.                                                         *)
(*                                                                         *)
(* As in CrawlerTask a database or Wildberries call of a handler is a      *)
(* step, and what it carries travels in its slot of Call; the reads that   *)
(* open a handler are one step.  The calls of the adapter that cannot fail *)
(* a job (pictures, price, stock) and the polling for the card's number    *)
(* are part of the upload.                                                 *)
(*                                                                         *)
(* The code has gaps: orders of steps in which it loses a request.  They   *)
(* are let happen and remembered in gap; the properties say that nothing   *)
(* else goes wrong.                                                        *)
(***************************************************************************)
EXTENDS Naturals, FiniteSets

CONSTANTS
  Shop,         \* the tenant's Wildberries shops
  Nowhere,      \* a handler that is about no shop
  Call,         \* slots for the handlers in progress
  MaxTries,     \* attempts of a job
  MaxRequests,  \* bound: what users ask for
  MaxRestarts   \* bound: API restarts

ASSUME ListingAssumptions ==
  /\ Nowhere \notin Shop /\ IsFiniteSet(Shop)
  /\ MaxTries \in Nat \ {0} /\ MaxRequests \in Nat /\ MaxRestarts \in Nat

VARIABLES
  product,      \* product.status: CATALOG (any status before the shelf), ON_SHELF ...
  summary,      \* product.wbListingStatus
  row,          \* per shop: productShopListing.status, ABSENT without a row
  numbered,     \* per shop: productShopListing.wbNmId is known
  card,         \* per shop: the card at Wildberries
  job,          \* per shop: the listing job, whose id is the product's and the shop's
  tries,        \* per shop: attempts the job has made
  enabled,      \* per shop: ENABLED, with a token
  call,         \* the handlers in progress
  gap,          \* history: the gaps that opened
  clash,        \* history: the latest sync began while another was under way
  requests,     \* history: what users asked for so far
  restarts      \* history: API restarts so far

rows == <<row, numbered>>
jobs == <<job, tries>>
history == <<requests, restarts>>
notes == <<gap, clash>>
vars == <<product, summary, rows, card, jobs, enabled, call, notes, history>>

-----------------------------------------------------------------------------
RowStatuses == {"QUEUED", "PROCESSING", "LISTED", "UNLISTED", "FAILED"}
Busy == {"QUEUED", "PROCESSING"}
Products == {"CATALOG", "ON_SHELF", "OFF_SHELF", "DELETED"}
Gaps == {"late", "blind", "cleanup", "overwritten", "again", "closed", "outrun",
         "halfway", "unanswered"}

Steps == {"idle", "enqueueRead", "enqueueWrite", "enqueueAdd", "enqueueFail",
          "unlistRead", "unlistCard", "unlistWrite", "removeWrite",
          "jobMark", "jobUpload", "jobCheck", "jobCleanup", "jobList", "jobFail",
          "jobEnd", "syncRead", "syncWrite"}

\* shops still to do, the shop in hand; whether the job is to be tried again;
\* the summary it is about to write.
Idle == [pc |-> "idle", kind |-> "none", todo |-> {}, shop |-> Nowhere,
         retry |-> FALSE, summary |-> "NONE", product |-> "CATALOG"]

Slots == [pc : Steps, kind : {"none", "shelf", "unlist", "remove", "job"},
          todo : SUBSET Shop, shop : Shop \cup {Nowhere}, retry : BOOLEAN,
          summary : RowStatuses \cup {"NONE"}, product : Products]

IsIdle(c) == call[c].pc = "idle"
At(c, step) == call[c].pc = step
Continue(c, slot) == call' = [call EXCEPT ![c] = slot]
Goto(c, step) == Continue(c, [call[c] EXCEPT !.pc = step])
Finish(c) == Continue(c, Idle)

\* The next shop of the request, if there is one left.
NextShop(c, step) ==
  IF call[c].todo = {} THEN Finish(c)
  ELSE \E s \in call[c].todo :
         Continue(c, [call[c] EXCEPT !.pc = step, !.shop = s, !.todo = @ \ {s}])

Opens(kind, s, when) == gap' = IF when THEN gap \cup {<<kind, s>>} ELSE gap
HandlerAt(s, steps) == \E d \in Call : call[d].shop = s /\ call[d].pc \in steps
SetRow(s, status) == row' = [row EXCEPT ![s] = status]

\* product-status.ts: what may be taken off the shelf.
CanUnlist(s) ==
  \/ row[s] \in {"LISTED", "QUEUED", "PROCESSING"}
  \/ row[s] = "FAILED" /\ numbered[s]

-----------------------------------------------------------------------------
(* shelfMany: a request for several shops, one after the other.            *)

Requested == requests < MaxRequests /\ requests' = requests + 1 /\ UNCHANGED restarts

ShelfStart(c, S) ==
  /\ IsIdle(c) /\ Requested
  /\ product # "DELETED" /\ \A s \in S : enabled[s]
  /\ \E s \in S : Continue(c, [Idle EXCEPT !.pc = "enqueueRead", !.kind = "shelf",
                                 !.todo = S \ {s}, !.shop = s])
  /\ UNCHANGED <<product, summary, rows, card, jobs, enabled, notes>>

\* enqueueShopListing.  A listing under way is an error: the rest of the request
\* is dropped.
EnqueueRead(c) ==
  /\ At(c, "enqueueRead")
  /\ IF row[call[c].shop] \in Busy THEN Finish(c) ELSE Goto(c, "enqueueWrite")
  /\ UNCHANGED <<product, summary, rows, card, jobs, enabled, notes, history>>

EnqueueWrite(c) ==
  LET s == call[c].shop IN
  /\ At(c, "enqueueWrite")
  /\ IF product = "DELETED" THEN Finish(c) /\ UNCHANGED <<row, gap>>
     ELSE /\ SetRow(s, "QUEUED") /\ Goto(c, "enqueueAdd")
          /\ Opens("again", s, job[s] = "active")
  /\ UNCHANGED <<product, summary, numbered, card, jobs, enabled, clash, history>>

\* A job of that id may still be in the queue: BullMQ ignores the new one and says
\* nothing, so the branch for "already exists" (product.service.ts 897-899) never runs.
EnqueueAdd(c) ==
  LET s == call[c].shop IN
  /\ At(c, "enqueueAdd")
  /\ IF job[s] = "none"
     THEN job' = [job EXCEPT ![s] = "queued"] /\ tries' = [tries EXCEPT ![s] = 0]
     ELSE UNCHANGED jobs
  /\ Goto(c, "syncRead")
  /\ UNCHANGED <<product, summary, rows, card, enabled, notes, history>>

\* Redis does not take the job.  The branch for an id already there is never taken:
\* BullMQ passes over a second job of an id in silence.
EnqueueRefused(c) ==
  /\ At(c, "enqueueAdd")
  /\ Goto(c, "enqueueFail")
  /\ UNCHANGED <<product, summary, rows, card, jobs, enabled, notes, history>>
EnqueueFailUnmarked(c) ==
  /\ At(c, "enqueueFail")
  /\ Continue(c, [call[c] EXCEPT !.pc = "syncRead", !.todo = {}])
  /\ UNCHANGED <<product, summary, rows, card, jobs, enabled, notes, history>>
EnqueueFail(c) ==
  LET s == call[c].shop IN
  /\ At(c, "enqueueFail")
  /\ row' = IF row[s] = "QUEUED" THEN [row EXCEPT ![s] = "FAILED"] ELSE row
  /\ Continue(c, [call[c] EXCEPT !.pc = "syncRead", !.todo = {}])
  /\ UNCHANGED <<product, summary, numbered, card, jobs, enabled, notes, history>>

\* Off the shelf: the shops whose listing may be taken off when the request comes.
UnlistStart(c, S) ==
  /\ IsIdle(c) /\ Requested
  /\ product # "DELETED" /\ \A s \in S : enabled[s] /\ CanUnlist(s)
  /\ \E s \in S : Continue(c, [Idle EXCEPT !.pc = "unlistRead", !.kind = "unlist",
                                 !.todo = S \ {s}, !.shop = s])
  /\ UNCHANGED <<product, summary, rows, card, jobs, enabled, notes>>

\* unlistFromShop.  Without a number there is no card to withdraw.
UnlistRead(c) ==
  /\ At(c, "unlistRead")
  /\ IF ~CanUnlist(call[c].shop) THEN NextShop(c, "unlistRead")
     ELSE Goto(c, IF numbered[call[c].shop] THEN "unlistCard" ELSE "unlistWrite")
  /\ UNCHANGED <<product, summary, rows, card, jobs, enabled, notes, history>>

Withdraw(s) == card' = [card EXCEPT ![s] = IF @ = "live" THEN "withdrawn" ELSE @]

UnlistCardAnyway(c) ==
  /\ At(c, "unlistCard")
  /\ Withdraw(call[c].shop) \/ UNCHANGED card
  /\ Goto(c, "unlistWrite")
  /\ UNCHANGED <<product, summary, rows, jobs, enabled, notes, history>>
\* Wildberries may refuse, or withdraw the card and its answer be lost: then nothing
\* is written, and the rest of the request is dropped.
UnlistCard(c) ==
  LET s == call[c].shop IN
  /\ At(c, "unlistCard")
  /\ \/ Withdraw(s) /\ Goto(c, "unlistWrite") /\ UNCHANGED gap
     \/ UNCHANGED card /\ Finish(c) /\ UNCHANGED gap
     \/ Withdraw(s) /\ Finish(c) /\ Opens("unanswered", s, TRUE)
  /\ UNCHANGED <<product, summary, rows, jobs, enabled, clash, history>>

\* Too late for a job that has looked, or is about to overwrite the row.
UnlistWrite(c) ==
  LET s == call[c].shop IN
  /\ At(c, "unlistWrite")
  /\ IF row[s] = "ABSENT" THEN Finish(c) /\ UNCHANGED <<row, gap>>
     ELSE /\ SetRow(s, "UNLISTED") /\ Goto(c, "syncRead")
          /\ Opens("late", s, HandlerAt(s, {"jobMark", "jobList", "jobFail"}))
  /\ UNCHANGED <<product, summary, numbered, card, jobs, enabled, clash, history>>

-----------------------------------------------------------------------------
(* syncProductListingSummary: the product shows what its listings say.     *)

SummaryOf(status) ==
  LET now == {row[s] : s \in Shop} IN
  IF now \cap Busy # {} THEN status \in now \cap Busy
  ELSE status = IF "LISTED" \in now THEN "LISTED"
                ELSE IF "FAILED" \in now THEN "FAILED"
                ELSE IF "UNLISTED" \in now THEN "UNLISTED" ELSE "NONE"

ShelfOfListing(status) ==
  IF \E s \in Shop : row[s] = "LISTED" THEN "LISTED" ELSE status
ShelfOf(status) ==
  IF \E s \in Shop : row[s] = "LISTED" THEN "ON_SHELF"
  ELSE IF status = "ON_SHELF" THEN "OFF_SHELF" ELSE status

\* What follows the summary: the request's next shop, or the end of the job.
AfterSync(c) ==
  CASE call[c].kind = "job" -> Goto(c, "jobEnd")
    [] call[c].kind = "shelf" -> NextShop(c, "enqueueRead")
    [] call[c].kind \notin {"job", "shelf"} -> NextShop(c, "unlistRead")

SyncRead(c) ==
  /\ At(c, "syncRead")
  /\ IF product = "DELETED" THEN AfterSync(c)
     ELSE \E status \in RowStatuses \cup {"NONE"} :
            /\ SummaryOf(status)
            /\ Continue(c, [call[c] EXCEPT !.pc = "syncWrite", !.summary = status,
                              !.product = ShelfOf(product)])
  /\ clash' = \E d \in Call \ {c} : At(d, "syncWrite")
  /\ UNCHANGED <<product, summary, rows, card, jobs, enabled, gap, history>>

\* Writing to a removed product is an error, which ends the request or the job.
SyncWrite(c) ==
  /\ At(c, "syncWrite")
  /\ IF product = "DELETED"
     THEN /\ IF call[c].kind = "job" THEN Goto(c, "jobEnd") ELSE Finish(c)
          /\ UNCHANGED <<product, summary>>
     ELSE /\ product' = call[c].product /\ summary' = call[c].summary
          /\ AfterSync(c)
  /\ UNCHANGED <<rows, card, jobs, enabled, notes, history>>

-----------------------------------------------------------------------------
(* processWbListing: one attempt of a job.                                 *)

JobStartAnyway(c, s) ==
  /\ IsIdle(c) /\ job[s] = "queued"
  /\ job' = [job EXCEPT ![s] = "active"]
  /\ LET over == product = "DELETED" \/ ~enabled[s]
     IN Continue(c, [Idle EXCEPT !.pc = IF over THEN "jobEnd" ELSE "jobMark",
                       !.kind = "job", !.shop = s])
  /\ Opens("closed", s, ~enabled[s])
  /\ UNCHANGED <<product, summary, rows, card, tries, enabled, clash, history>>
\* A closed shop ends the job for good; a cancelled listing ends it quietly.
JobStart(c, s) ==
  /\ IsIdle(c) /\ job[s] = "queued"
  /\ job' = [job EXCEPT ![s] = "active"]
  /\ LET over == product = "DELETED" \/ ~enabled[s] \/ row[s] = "UNLISTED"
     IN Continue(c, [Idle EXCEPT !.pc = IF over THEN "jobEnd" ELSE "jobMark",
                       !.kind = "job", !.shop = s])
  /\ Opens("closed", s, ~enabled[s])
  /\ UNCHANGED <<product, summary, rows, card, tries, enabled, clash, history>>

\* (A listing whose product is gone breaks a foreign key, outside the try block.)
JobMark(c) ==
  /\ At(c, "jobMark")
  /\ IF product = "DELETED"
     THEN Continue(c, [call[c] EXCEPT !.pc = "jobEnd", !.retry = TRUE]) /\ UNCHANGED row
     ELSE SetRow(call[c].shop, "PROCESSING") /\ Goto(c, "jobUpload")
  /\ UNCHANGED <<product, summary, numbered, card, jobs, enabled, notes, history>>

\* The card is made, or made again from the recycle bin, and its number comes back.
JobUpload(c) ==
  LET s == call[c].shop IN
  /\ At(c, "jobUpload")
  /\ card' = [card EXCEPT ![s] = "live"]
  /\ Opens("blind", s, HandlerAt(s, {"unlistWrite"}))
  /\ Goto(c, "jobCheck")
  /\ UNCHANGED <<product, summary, rows, jobs, enabled, clash, history>>

\* Or it fails, before or after the card is made, for good or to be tried again;
\* a number that does not come back is of that kind.
JobUploadFails(c, retry) ==
  LET s == call[c].shop IN
  /\ At(c, "jobUpload")
  /\ card' = [card EXCEPT ![s] = "live"] \/ UNCHANGED card
  /\ Opens("blind", s, HandlerAt(s, {"unlistWrite"}))
  /\ Continue(c, [call[c] EXCEPT !.pc = "jobFail", !.retry = retry])
  /\ UNCHANGED <<product, summary, rows, jobs, enabled, clash, history>>

\* Has the listing been cancelled meanwhile?
JobCheck(c) ==
  /\ At(c, "jobCheck")
  /\ Goto(c, IF row[call[c].shop] = "UNLISTED" THEN "jobCleanup" ELSE "jobList")
  /\ UNCHANGED <<product, summary, rows, card, jobs, enabled, notes, history>>

JobCleanup(c) ==
  LET s == call[c].shop IN
  /\ At(c, "jobCleanup")
  /\ \/ Withdraw(s) /\ UNCHANGED gap
     \/ UNCHANGED card /\ Opens("cleanup", s, TRUE)
  /\ Goto(c, "jobEnd")
  /\ UNCHANGED <<product, summary, rows, jobs, enabled, clash, history>>

JobList(c) ==
  LET s == call[c].shop IN
  /\ At(c, "jobList")
  /\ IF row[s] = "ABSENT"
     THEN Goto(c, "jobFail") /\ UNCHANGED <<rows, gap>>
     ELSE /\ SetRow(s, "LISTED")
          /\ numbered' = [numbered EXCEPT ![s] = TRUE]
          /\ Opens("blind", s, HandlerAt(s, {"unlistWrite"}))
          /\ Goto(c, "syncRead")
  /\ UNCHANGED <<product, summary, card, jobs, enabled, clash, history>>

JobFailUnseen(c) ==
  LET s == call[c].shop IN
  /\ At(c, "jobFail")
  /\ row' = IF row[s] = "ABSENT" THEN row
            ELSE [row EXCEPT ![s] = IF call[c].retry THEN "PROCESSING" ELSE "FAILED"]
  /\ Opens("overwritten", s, row[s] = "UNLISTED")
  /\ Goto(c, "jobEnd")
  /\ UNCHANGED <<product, summary, numbered, card, jobs, enabled, clash, history>>
\* The catch block writes over whatever the row says.
JobFail(c) ==
  LET s == call[c].shop IN
  /\ At(c, "jobFail")
  /\ row' = IF row[s] = "ABSENT" THEN row
            ELSE [row EXCEPT ![s] = IF call[c].retry THEN "PROCESSING" ELSE "FAILED"]
  /\ Opens("overwritten", s, row[s] = "UNLISTED")
  /\ Goto(c, "syncRead")
  /\ UNCHANGED <<product, summary, numbered, card, jobs, enabled, clash, history>>

\* The attempt is over: BullMQ queues the job again or drops it.
JobEnd(c) ==
  LET s == call[c].shop IN
  /\ At(c, "jobEnd")
  /\ IF call[c].retry /\ tries[s] + 1 < MaxTries
     THEN /\ job' = [job EXCEPT ![s] = "queued"]
          /\ tries' = [tries EXCEPT ![s] = @ + 1]
     ELSE job' = [job EXCEPT ![s] = "none"] /\ UNCHANGED tries
  /\ Finish(c)
  /\ UNCHANGED <<product, summary, rows, card, enabled, notes, history>>

-----------------------------------------------------------------------------
(* remove, the shop's switch, and a restart of the API.                    *)

RemovableUnlessListed(s) == row[s] \notin Busy \cup {"LISTED"}
Removable(s) ==
  row[s] \notin Busy \cup {"LISTED"} /\ ~(row[s] = "FAILED" /\ numbered[s])

RemoveStart(c) ==
  /\ IsIdle(c) /\ Requested
  /\ product # "DELETED" /\ summary \notin Busy
  /\ \A s \in Shop : Removable(s)
  /\ Continue(c, [Idle EXCEPT !.pc = "removeWrite", !.kind = "remove"])
  /\ UNCHANGED <<product, summary, rows, card, jobs, enabled, notes>>

\* One transaction, which does not look at the listings again, nor at the jobs.
RemoveWrite(c) ==
  /\ At(c, "removeWrite")
  /\ product' = "DELETED" /\ summary' = "NONE"
  /\ row' = [s \in Shop |-> "ABSENT"]
  /\ numbered' = [s \in Shop |-> FALSE]
  /\ gap' = gap \cup ({"outrun"} \X {s \in Shop : ~Removable(s) \/ job[s] = "active"})
  /\ Finish(c)
  /\ UNCHANGED <<card, jobs, enabled, clash, history>>

\* shop.service.ts: the super administrator closes or opens the shop.
ChangeStatus(s) ==
  /\ Requested
  /\ enabled' = [enabled EXCEPT ![s] = ~@]
  /\ UNCHANGED <<product, summary, rows, card, jobs, call, notes>>

\* Handlers are gone, one perhaps between the card and the row, or before it looked
\* whether the card it made is still wanted; BullMQ queues the active jobs again.
Restart ==
  /\ restarts < MaxRestarts
  /\ restarts' = restarts + 1
  /\ call' = [c \in Call |-> Idle]
  /\ job' = [s \in Shop |-> IF job[s] = "active" THEN "queued" ELSE job[s]]
  /\ gap' = gap \cup ({"halfway"} \X
       {s \in Shop : HandlerAt(s, {"unlistWrite", "jobCheck", "jobCleanup", "jobFail"})})
  /\ UNCHANGED <<product, summary, rows, card, tries, enabled, clash, requests>>

Init ==
  /\ product = "CATALOG" /\ summary = "NONE"
  /\ row = [s \in Shop |-> "ABSENT"] /\ numbered = [s \in Shop |-> FALSE]
  /\ card = [s \in Shop |-> "none"]
  /\ job = [s \in Shop |-> "none"] /\ tries = [s \in Shop |-> 0]
  /\ enabled = [s \in Shop |-> TRUE]
  /\ call = [c \in Call |-> Idle]
  /\ gap = {} /\ clash = FALSE /\ requests = 0 /\ restarts = 0

RequestNext(c) ==
  \/ \E S \in (SUBSET Shop) \ {{}} : ShelfStart(c, S) \/ UnlistStart(c, S)
  \/ RemoveStart(c)

HandlerNext(c) ==
  \/ EnqueueRead(c) \/ EnqueueWrite(c) \/ EnqueueAdd(c)
  \/ EnqueueRefused(c) \/ EnqueueFail(c)
  \/ UnlistRead(c) \/ UnlistCard(c) \/ UnlistWrite(c)
  \/ SyncRead(c) \/ SyncWrite(c) \/ RemoveWrite(c)

JobNext(c) ==
  \/ \E s \in Shop : JobStart(c, s)
  \/ JobMark(c) \/ JobUpload(c) \/ \E retry \in BOOLEAN : JobUploadFails(c, retry)
  \/ JobCheck(c) \/ JobCleanup(c) \/ JobList(c) \/ JobFail(c) \/ JobEnd(c)

Next ==
  \/ \E c \in Call : RequestNext(c) \/ HandlerNext(c) \/ JobNext(c)
  \/ \E s \in Shop : ChangeStatus(s)
  \/ Restart

Spec == Init /\ [][Next]_vars

-----------------------------------------------------------------------------
(* Properties.                                                             *)

\* Rows, jobs and handlers are in states the code knows.
TypeOK ==
  /\ product \in Products /\ summary \in RowStatuses \cup {"NONE"}
  /\ row \in [Shop -> RowStatuses \cup {"ABSENT"}] /\ numbered \in [Shop -> BOOLEAN]
  /\ card \in [Shop -> {"none", "live", "withdrawn"}]
  /\ job \in [Shop -> {"none", "queued", "active"}] /\ tries \in [Shop -> Nat]
  /\ enabled \in [Shop -> BOOLEAN]
  /\ call \in [Call -> Slots]
  /\ gap \in SUBSET (Gaps \X Shop) /\ clash \in BOOLEAN
  /\ requests \in Nat /\ restarts \in Nat

AtRest(s) == \A c \in Call : call[c].shop # s
Open(kinds, s) == \E kind \in kinds : <<kind, s>> \in gap

\* When no handler is in progress the product says what its listings say: busy if
\* any is, otherwise listed, failed, off the shelf or never listed; and it is on
\* the shelf exactly if it is listed in some shop.  Not so after a restart, nor when
\* the last two syncs overlapped: the one that read first may write last.
SummaryAgrees ==
  (restarts = 0 /\ ~clash /\ product # "DELETED" /\ \A c \in Call : IsIdle(c)) =>
     /\ SummaryOf(summary)
     /\ product = "ON_SHELF" <=> \E s \in Shop : row[s] = "LISTED"

\* A listing that shows QUEUED with nobody working on it has a job in the queue,
\* unless it was asked for while an older job was still running (the queue ignores a
\* second job of that id) or the shop was closed, or the API went down in between.
QueuedHasJob ==
  \A s \in Shop :
    (restarts = 0 /\ AtRest(s) /\ row[s] = "QUEUED" /\ ~Open({"again", "closed"}, s))
      => job[s] = "queued"

\* A listing taken off the shelf comes back only when somebody asks for it, or goes
\* with its product: a job that was queued or running does not bring it back,
\* unless it had already looked, or fails and overwrites the row.
CancelSticks ==
  [][\A s \in Shop : (row[s] = "UNLISTED" /\ row'[s] # "UNLISTED") =>
       row'[s] \in {"QUEUED", "ABSENT"} \/ Open({"late", "overwritten"}, s)']_vars

\* What the rows say of Wildberries is so once nobody works on the listing and no
\* job waits: a listed product's card is for sale, and one whose card is known is
\* withdrawn once it is off the shelf; the exceptions are the gaps between the two
\* systems, the lost answer to a withdrawal among them.
RowsMatchCards ==
  \A s \in Shop :
    (AtRest(s) /\ job[s] = "none") =>
       /\ row[s] = "LISTED" =>
            card[s] = "live" \/ Open({"late", "blind", "again", "halfway", "unanswered"}, s)
       /\ row[s] = "UNLISTED" /\ numbered[s] =>
            card[s] # "live" \/ Open({"late", "blind", "cleanup", "halfway"}, s)

\* Removing a product forgets the numbers of its cards, so none of them may still be
\* for sale, unless a request or a job overtook the removal.
RemoveKeepsKnown ==
  [][product # "DELETED" /\ product' = "DELETED" =>
       \A s \in Shop : numbered[s] /\ card[s] = "live" =>
          Open({"late", "blind", "cleanup", "halfway", "outrun"}, s)']_vars

\* A failed attempt that is to be tried again leaves its listing PROCESSING, saying
\* that it is being retried ("正在重试", product.service.ts:619): then there is a job
\* in the queue to do so.  (The last attempt does the same, and there is none: the
\* listing stays busy, and may not be put on the shelf again nor the product removed.)
RetryPending ==
  \A s \in Shop : (AtRest(s) /\ row[s] = "PROCESSING") => job[s] = "queued"
=============================================================================
