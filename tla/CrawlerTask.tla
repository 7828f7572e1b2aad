---------------------------- MODULE CrawlerTask ----------------------------
(***************************************************************************)
(* One collection task of CrawlerService and its items: created QUEUED     *)
(* with a prepare job, prepared by a worker, its items claimed by Chrome   *)
(* agents, reported back, retried, back-filled from the category's pool,   *)
(* cancelled and deleted.                                                  *)
(*                                                                         *)
(* No handler uses a transaction, so every database call is a step of its  *)
(* own: a handler (an HTTP request or a queue job) runs in a slot of Call, *)
(* its program counter names its next database call, and what it has read  *)
(* travels in the slot until it is used.  With one slot the handlers run   *)
(* one after the other; with more they interleave at their awaits.         *)
(*                                                                         *)
(* An item is named by its URL.  A product URL is its rank on the category *)
(* page (the order the candidates are taken in); Listing is that page.     *)
(***************************************************************************)
EXTENDS Naturals, FiniteSets

CONSTANTS
  Product,      \* product URLs, by their rank on the category page
  Agent,        \* Chrome collector agents
  NoAgent,      \* assignedAgentId = null
  Call,         \* slots for the handlers in progress
  Modes,        \* the task modes to explore
  ConfigUrls,   \* the URLs a CSV_URL task was created with
  TopN,         \* products a CATEGORY_TOP task shall deliver
  MaxRetry,     \* automatic retries of an item
  MaxHeld,      \* bound: items an agent works on at once
  MaxHarvests,  \* bound: category pages reported with products
  RetryCap,     \* bound: an item that failed this often is not failed again
  UserOps,      \* bound: what the operator asks for
  MaxRestarts   \* bound: API restarts

Listing == 0
Url == Product \cup {Listing}

ASSUME CrawlerAssumptions ==
  /\ Product \subseteq Nat \ {Listing} /\ IsFiniteSet(Product)
  /\ NoAgent \notin Agent /\ IsFiniteSet(Call)
  /\ Modes \subseteq {"CATEGORY_TOP", "CSV_URL"}
  /\ ConfigUrls \subseteq Url
  /\ TopN \in 1..50 /\ MaxRetry \in Nat /\ MaxHeld \in Nat /\ MaxHarvests \in Nat
  /\ UserOps \subseteq {"retry", "cancel", "delete"}
  /\ RetryCap \in Nat /\ MaxRestarts \in Nat

VARIABLES
  mode,         \* task.mode
  taskStatus,   \* task.status, DELETED once the row is gone
  pool,         \* task.config.listingPool
  itemStatus,   \* item.status, ABSENT where there is no row
  assigned,     \* item.assignedAgentId
  retryCount,   \* item.retryCount
  prepare,      \* the prepare job: queued, active, timedout or done
  retryJobs,    \* per item: delayed jobs in the retry queue
  work,         \* what an agent holds: claimed, or unsure its report arrived
  call,         \* the handlers in progress
  userRetried,  \* history: items an operator asked to retry
  harvests,     \* history: category pages expanded so far
  restarts      \* history: API restarts so far

rows == <<taskStatus, pool, itemStatus, assigned, retryCount>>
history == <<mode, userRetried, harvests, restarts>>
vars == <<rows, history, prepare, retryJobs, work, call>>

-----------------------------------------------------------------------------
(* crawler-security.ts: which statuses allow what.                         *)

TaskStatuses == {"PENDING", "QUEUED", "RUNNING", "PAUSED", "SUCCESS",
                 "PARTIAL_FAILED", "FAILED", "CANCELLED"}
ItemStatuses == {"PENDING", "QUEUED", "RUNNING", "RETRYING", "SUCCESS",
                 "FAILED", "SKIPPED"}

Claimable == {"PENDING", "QUEUED", "RUNNING"}
Open == {"PENDING", "QUEUED", "RUNNING", "RETRYING"}
Terminal == {"SUCCESS", "PARTIAL_FAILED", "FAILED", "CANCELLED"}

PreserveAny(status) == status = "PAUSED"
ShouldPreserve(status) == status \in {"CANCELLED", "PAUSED"}
CanCancel(status) == status \in Claimable \cup {"PAUSED"}
CanDelete(status) == status \in Terminal

AgentCanWrite(u, a) == itemStatus[u] = "RUNNING" /\ assigned[u] = a

-----------------------------------------------------------------------------
(* listing-quota.ts: the first n candidates, and how many are missing.     *)

FirstOf(n, S) == {p \in S : Cardinality({q \in S : q < p}) < n}
LeftOver(n, S) == S \ FirstOf(n, S)

ProductsIn(statuses) == {p \in Product : itemStatus[p] \in statuses}
Existing == ProductsIn(ItemStatuses)

DeficitOfSuccess ==
  LET got == Cardinality(ProductsIn({"SUCCESS"}))
  IN  IF got < TopN THEN TopN - got ELSE 0
Deficit ==
  LET got == Cardinality(ProductsIn({"SUCCESS"} \cup Open))
  IN  IF got < TopN THEN TopN - got ELSE 0

(* refreshTaskStatus: the status the items call for.                       *)
StatusOfListing == itemStatus[Listing]
DerivedStatus ==
  LET failed == ProductsIn({"FAILED"}) IN
  CASE Existing = {} /\ itemStatus[Listing] \in Open -> "RUNNING"
    [] Existing = {} /\ itemStatus[Listing] = "FAILED" -> "FAILED"
    [] Existing = {} /\ itemStatus[Listing] \notin Open \cup {"FAILED"} -> "QUEUED"
    [] Existing # {} /\ ProductsIn(Open) # {} -> "RUNNING"
    [] Existing # {} /\ ProductsIn(Open) = {} /\ failed = {} -> "SUCCESS"
    [] Existing # {} /\ ProductsIn(Open) = {} /\ failed # {} ->
         IF ProductsIn({"SUCCESS"}) = {} THEN "FAILED" ELSE "PARTIAL_FAILED"

-----------------------------------------------------------------------------
(* Handler slots.                                                          *)

PrepareSteps == {"prepListing", "prepCheck", "prepUpsert"}
RefreshSteps == {"refresh", "refreshItems", "refreshWrite"}
Steps == PrepareSteps \cup RefreshSteps \cup
  {"idle", "claimFind", "claimTake", "expandUpsert", "expandPool",
   "expandDelete", "successWrite", "skipWrite", "failRead", "failWrite",
   "retryFind", "retryAdd", "retryMark", "fillTask", "fillItems",
   "fillUpsert", "fillPool", "releaseWrite", "cancelItems", "cancelTask",
   "deleteRow"}

\* url and agent it is about; URLs still to write; the pool it has read or will
\* write; a status or reason it has read; a retryCount it has read; the job it runs.
Idle == [pc |-> "idle", url |-> Listing, agent |-> NoAgent, todo |-> {},
         pool |-> {}, seen |-> "none", count |-> 0, job |-> "none"]

Slots == [pc : Steps, url : Url, agent : Agent \cup {NoAgent},
          todo : SUBSET Url, pool : SUBSET Product,
          seen : TaskStatuses \cup {"none", "keep", "captcha", "retryable",
                                    "auto", "user"},
          count : Nat, job : {"none", "prepare", "retry"}]

IsIdle(c) == call[c].pc = "idle"
At(c, step) == call[c].pc = step

\* The handler's next database call, with what it carries there.
Continue(c, slot) ==
  /\ call' = [call EXCEPT ![c] = slot]
  /\ UNCHANGED prepare

Goto(c, step) == Continue(c, [call[c] EXCEPT !.pc = step])

\* It returned, or threw: the queue drops its job.
Finish(c) ==
  /\ call' = [call EXCEPT ![c] = Idle]
  /\ prepare' = IF call[c].job = "prepare" THEN "done" ELSE prepare

ForgetRefresh(c) == Finish(c)

\* The trailing refreshTaskStatus; a retry job still knows its item.
GotoRefresh(c) ==
  Continue(c, [Idle EXCEPT !.pc = "refresh", !.job = call[c].job,
                 !.url = IF call[c].job = "retry" THEN call[c].url ELSE Listing])

SetItem(u, status) == itemStatus' = [itemStatus EXCEPT ![u] = status]

-----------------------------------------------------------------------------
(* Preparing: the queue's worker, once per task.                           *)

PrepareStart(c) ==
  /\ IsIdle(c) /\ prepare = "queued"
  /\ IF taskStatus = "DELETED"
     THEN /\ prepare' = "done"
          /\ UNCHANGED <<taskStatus, call>>
     ELSE /\ taskStatus' = "RUNNING"
          /\ prepare' = "active"
          /\ call' = [call EXCEPT ![c] = [Idle EXCEPT !.job = "prepare",
               !.pc = IF mode = "CATEGORY_TOP" THEN "prepListing" ELSE "prepCheck"]]
  /\ UNCHANGED <<pool, itemStatus, assigned, retryCount, history, retryJobs, work>>

\* A category task starts from one item: the category page.
PrepareListing(c) ==
  /\ At(c, "prepListing")
  /\ IF taskStatus = "DELETED"
     THEN Finish(c) /\ UNCHANGED itemStatus
     ELSE SetItem(Listing, "PENDING") /\ GotoRefresh(c)
  /\ UNCHANGED <<taskStatus, pool, assigned, retryCount, history, retryJobs, work>>

\* The URLs are known: does the task still run?
PrepareCheck(c) ==
  /\ At(c, "prepCheck")
  /\ IF taskStatus = "RUNNING" /\ ConfigUrls # {}
     THEN Continue(c, [call[c] EXCEPT !.pc = "prepUpsert", !.todo = ConfigUrls])
     ELSE Finish(c)
  /\ UNCHANGED <<rows, history, retryJobs, work>>

FailTask ==
  taskStatus' = IF taskStatus \in {"CANCELLED", "DELETED"} THEN taskStatus ELSE "FAILED"

\* The file is missing, or holds no product URL.
PrepareFail(c) ==
  /\ At(c, "prepCheck")
  /\ FailTask
  /\ Finish(c)
  /\ UNCHANGED <<pool, itemStatus, assigned, retryCount, history, retryJobs, work>>

\* 45 s are over: the job fails, prepareTask itself runs on.
PrepareTimeout ==
  /\ prepare = "active"
  /\ FailTask
  /\ prepare' = "timedout"
  /\ UNCHANGED <<pool, itemStatus, assigned, retryCount, history, retryJobs, work, call>>

-----------------------------------------------------------------------------
(* refreshTaskStatus: read the task, read its items, write the status.     *)

RefreshRead(c) ==
  /\ At(c, "refresh")
  /\ IF taskStatus = "DELETED"
     THEN Finish(c)
     ELSE Continue(c, [call[c] EXCEPT !.pc = "refreshItems", !.seen = taskStatus])
  /\ UNCHANGED <<rows, history, retryJobs, work>>

RefreshItems(c) ==
  /\ At(c, "refreshItems")
  /\ Continue(c, [call[c] EXCEPT !.pc = "refreshWrite",
       !.seen = IF ShouldPreserve(call[c].seen) THEN "keep" ELSE DerivedStatus])
  /\ UNCHANGED <<rows, history, retryJobs, work>>

RefreshWrite(c) ==
  /\ At(c, "refreshWrite")
  /\ taskStatus' = IF taskStatus = "DELETED" \/ call[c].seen = "keep"
                   THEN taskStatus ELSE call[c].seen
  /\ Finish(c)
  /\ UNCHANGED <<pool, itemStatus, assigned, retryCount, history, retryJobs, work>>

-----------------------------------------------------------------------------
(* Upserting URLs as PENDING items, and the pool write that follows.       *)

AfterUpserts == [prepUpsert |-> "refresh", expandUpsert |-> "expandPool",
                 fillUpsert |-> "fillPool"]

UpsertItem(c) ==
  /\ call[c].pc \in DOMAIN AfterUpserts
  /\ \E u \in call[c].todo :
       IF taskStatus = "DELETED"
       THEN Finish(c) /\ UNCHANGED itemStatus
       ELSE /\ SetItem(u, "PENDING")
            /\ LET left == call[c].todo \ {u} IN
               Continue(c, [call[c] EXCEPT !.todo = left,
                 !.pc = IF left = {} THEN AfterUpserts[@] ELSE @])
  /\ UNCHANGED <<taskStatus, pool, assigned, retryCount, history, retryJobs, work>>

WritePool(c) ==
  /\ call[c].pc \in {"expandPool", "fillPool"}
  /\ IF taskStatus = "DELETED"
     THEN Finish(c) /\ UNCHANGED pool
     ELSE /\ pool' = call[c].pool
          /\ IF call[c].pc = "fillPool" THEN GotoRefresh(c) ELSE Goto(c, "expandDelete")
  /\ UNCHANGED <<taskStatus, itemStatus, assigned, retryCount, history, retryJobs, work>>

-----------------------------------------------------------------------------
(* Claiming: requeue what the agent left RUNNING for POLL_STUCK_MS, pick a *)
(* PENDING item, take it if it still is PENDING.                           *)

Held(a) == {u \in Url : work[a][u] = "claimed"}
OwnRunning(a) == {u \in Url : AgentCanWrite(u, a)}

ForgetOwner(S) ==
  /\ assigned' = [u \in Url |-> IF u \in S THEN NoAgent ELSE assigned[u]]
  /\ UNCHANGED itemStatus
Requeue(S) ==
  /\ itemStatus' = [u \in Url |-> IF u \in S THEN "PENDING" ELSE itemStatus[u]]
  /\ assigned' = [u \in Url |-> IF u \in S THEN NoAgent ELSE assigned[u]]

\* No clock: any of the agent's RUNNING items may have been stuck that long.
ClaimStart(c, a, stuck) ==
  /\ IsIdle(c) /\ Cardinality(Held(a)) < MaxHeld
  /\ stuck \subseteq OwnRunning(a)
  /\ stuck = {} \/ taskStatus \in Claimable
  /\ Requeue(stuck)
  /\ Continue(c, [Idle EXCEPT !.pc = "claimFind", !.agent = a])
  /\ UNCHANGED <<taskStatus, pool, retryCount, history, retryJobs, work>>

Offered == IF taskStatus \in Claimable
           THEN {u \in Url : itemStatus[u] = "PENDING"} ELSE {}

ClaimFind(c) ==
  /\ At(c, "claimFind")
  /\ IF Offered = {} THEN Finish(c)
     ELSE \E u \in Offered :
            Continue(c, [call[c] EXCEPT !.pc = "claimTake", !.url = u])
  /\ UNCHANGED <<rows, history, retryJobs, work>>

WhateverStatus(u) == itemStatus[u] # "ABSENT"
StillPending(u) == itemStatus[u] = "PENDING"

\* The agent may never see the answer: the item is then RUNNING with nobody at it.
ClaimTake(c, delivered) ==
  LET u == call[c].url
      a == call[c].agent
  IN
  /\ At(c, "claimTake")
  /\ IF StillPending(u)
     THEN /\ SetItem(u, "RUNNING")
          /\ assigned' = [assigned EXCEPT ![u] = a]
          /\ work' = IF delivered THEN [work EXCEPT ![a][u] = "claimed"] ELSE work
     ELSE UNCHANGED <<itemStatus, assigned, work>>
  /\ Finish(c)
  /\ UNCHANGED <<taskStatus, pool, retryCount, history, retryJobs>>

\* The browser restarts: the agent no longer knows its items.
AgentForgets(a) ==
  /\ \E u \in Url : work[a][u] # "none"
  /\ work' = [work EXCEPT ![a] = [u \in Url |-> "none"]]
  /\ UNCHANGED <<rows, history, prepare, retryJobs, call>>

-----------------------------------------------------------------------------
(* Reports.  The reply may get lost: the agent is then unsure, and posts a *)
(* failure for the same item (failClaimed).                                *)

Report(a, u, from) ==
  /\ work[a][u] \in from
  /\ \E after \in (IF work[a][u] = "claimed" THEN {"none", "unsure"} ELSE {"none"}) :
       work' = [work EXCEPT ![a][u] = after]

Accepted(a, u) == ~ShouldPreserve(taskStatus) /\ AgentCanWrite(u, a)

Begin(c, accepted, slot) ==
  /\ IsIdle(c)
  /\ IF accepted THEN Continue(c, slot) ELSE UNCHANGED <<call, prepare>>

\* The category page's products; none of them real is an EMPTY_SEARCH failure.
ReportListing(c, a, harvest) ==
  /\ IF harvest = {} THEN retryCount[Listing] < RetryCap ELSE harvests < MaxHarvests
  /\ Report(a, Listing, {"claimed"})
  /\ Begin(c, Accepted(a, Listing),
       IF harvest = {} THEN [Idle EXCEPT !.pc = "failRead"]
       ELSE [Idle EXCEPT !.pc = "expandUpsert", !.todo = FirstOf(TopN, harvest),
               !.pool = LeftOver(TopN, harvest)])
  /\ harvests' = IF harvest # {} /\ Accepted(a, Listing) THEN harvests + 1 ELSE harvests
  /\ UNCHANGED <<rows, mode, userRetried, restarts, retryJobs>>

\* The category page has been expanded: its item goes.
ExpandDelete(c) ==
  /\ At(c, "expandDelete")
  /\ IF itemStatus[Listing] = "ABSENT"
     THEN Finish(c) /\ UNCHANGED <<itemStatus, assigned, retryCount>>
     ELSE /\ SetItem(Listing, "ABSENT")
          /\ assigned' = [assigned EXCEPT ![Listing] = NoAgent]
          /\ retryCount' = [retryCount EXCEPT ![Listing] = 0]
          /\ GotoRefresh(c)
  /\ UNCHANGED <<taskStatus, pool, history, retryJobs, work>>

\* A collected product: it meets the task's filters, or is skipped.
ReportProduct(c, a, u, mismatch) ==
  /\ u \in Product
  /\ Report(a, u, {"claimed"})
  /\ Begin(c, Accepted(a, u),
       [Idle EXCEPT !.pc = IF mismatch THEN "skipWrite" ELSE "successWrite", !.url = u])
  /\ UNCHANGED <<rows, history, retryJobs>>

\* Snapshot and product are upserted before: both need the item's row.
SuccessWrite(c) ==
  /\ At(c, "successWrite")
  /\ IF itemStatus[call[c].url] = "ABSENT"
     THEN Finish(c) /\ UNCHANGED itemStatus
     ELSE SetItem(call[c].url, "SUCCESS") /\ GotoRefresh(c)
  /\ UNCHANGED <<taskStatus, pool, assigned, retryCount, history, retryJobs, work>>

SkipWrite(c) ==
  /\ At(c, "skipWrite")
  /\ IF itemStatus[call[c].url] = "ABSENT"
     THEN Finish(c) /\ UNCHANGED itemStatus
     ELSE SetItem(call[c].url, "SKIPPED") /\ Goto(c, "fillTask")
  /\ UNCHANGED <<taskStatus, pool, assigned, retryCount, history, retryJobs, work>>

Failing(u, reason) ==
  [Idle EXCEPT !.pc = "failWrite", !.url = u, !.seen = reason, !.count = retryCount[u]]

ReportFailure(c, a, u, reason) ==
  /\ retryCount[u] < RetryCap
  /\ Report(a, u, {"claimed", "unsure"})
  /\ Begin(c, Accepted(a, u), Failing(u, reason))
  /\ UNCHANGED <<rows, history, retryJobs>>

\* ingestFailure called by expandListingFromAgent: it reads the item again.
FailRead(c) ==
  /\ At(c, "failRead")
  /\ IF itemStatus[Listing] = "ABSENT" \/ ShouldPreserve(taskStatus)
     THEN Finish(c)
     ELSE Continue(c, Failing(Listing, "retryable"))
  /\ UNCHANGED <<rows, history, retryJobs, work>>

CanRetry(reason, nextRetry) == reason # "captcha" /\ nextRetry <= MaxRetry

FailWrite(c) ==
  LET u == call[c].url
      nextRetry == call[c].count + 1
  IN
  /\ At(c, "failWrite")
  /\ IF itemStatus[u] = "ABSENT"
     THEN Finish(c) /\ UNCHANGED <<itemStatus, retryCount>>
     ELSE /\ retryCount' = [retryCount EXCEPT ![u] = nextRetry]
          /\ IF CanRetry(call[c].seen, nextRetry)
             THEN /\ SetItem(u, "RETRYING")
                  /\ Continue(c, [Idle EXCEPT !.pc = "retryAdd", !.todo = {u},
                                    !.seen = "auto"])
             ELSE /\ SetItem(u, "FAILED")
                  /\ Goto(c, "fillTask")
  /\ UNCHANGED <<taskStatus, pool, assigned, history, retryJobs, work>>

-----------------------------------------------------------------------------
(* enqueueListingBackfill: what does not count towards TOP N is replaced.  *)

FillTask(c) ==
  /\ At(c, "fillTask")
  /\ IF taskStatus = "DELETED" THEN Finish(c)
     ELSE IF mode # "CATEGORY_TOP" \/ ShouldPreserve(taskStatus) THEN GotoRefresh(c)
     ELSE Continue(c, [call[c] EXCEPT !.pc = "fillItems", !.pool = pool])
  /\ UNCHANGED <<rows, history, retryJobs, work>>

\* nextListingBackfill: candidates that are no item yet, in the page's order.
Candidates(c) == call[c].pool \ Existing

FillItemsPoolFirst(c) ==
  /\ At(c, "fillItems")
  /\ Continue(c, [call[c] EXCEPT !.pc = "fillPool", !.pool = LeftOver(Deficit, Candidates(c))])
  /\ UNCHANGED <<rows, history, retryJobs, work>>
FillItems(c) ==
  LET next == FirstOf(Deficit, Candidates(c)) IN
  /\ At(c, "fillItems")
  /\ IF next = {} THEN GotoRefresh(c)
     ELSE Continue(c, [call[c] EXCEPT !.pc = "fillUpsert", !.todo = next,
                         !.pool = LeftOver(Deficit, Candidates(c))])
  /\ UNCHANGED <<rows, history, retryJobs, work>>

-----------------------------------------------------------------------------
(* enqueueRetry and the retry queue.                                       *)

RetryAdd(c) ==
  /\ At(c, "retryAdd")
  /\ \E u \in call[c].todo :
       /\ retryJobs' = [retryJobs EXCEPT ![u] = @ + 1]
       /\ Continue(c, [call[c] EXCEPT !.pc = "retryMark", !.url = u])
  /\ UNCHANGED <<rows, history, work>>

RetryMark(c) ==
  LET u == call[c].url
      left == call[c].todo \ {u}
  IN
  /\ At(c, "retryMark")
  /\ IF itemStatus[u] = "ABSENT"
     THEN Finish(c) /\ UNCHANGED itemStatus
     ELSE /\ SetItem(u, "RETRYING")
          /\ IF left # {} THEN Continue(c, [call[c] EXCEPT !.pc = "retryAdd", !.todo = left])
             ELSE IF call[c].seen = "auto" THEN GotoRefresh(c) ELSE Finish(c)
  /\ UNCHANGED <<taskStatus, pool, assigned, retryCount, history, retryJobs, work>>

\* releaseItemToAgent, run by a retry job.
ReleaseStart(c, u) ==
  /\ IsIdle(c) /\ retryJobs[u] > 0
  /\ retryJobs' = [retryJobs EXCEPT ![u] = @ - 1]
  /\ IF itemStatus[u] \in {"ABSENT", "SUCCESS"} \/ ShouldPreserve(taskStatus)
     THEN UNCHANGED <<call, prepare>>
     ELSE Continue(c, [Idle EXCEPT !.pc = "releaseWrite", !.url = u, !.job = "retry"])
  /\ UNCHANGED <<rows, history, work>>

ReleaseWrite(c) ==
  /\ At(c, "releaseWrite")
  /\ IF itemStatus[call[c].url] = "ABSENT"
     THEN Finish(c) /\ UNCHANGED <<itemStatus, assigned>>
     ELSE Requeue({call[c].url}) /\ GotoRefresh(c)
  /\ UNCHANGED <<taskStatus, pool, retryCount, history, retryJobs, work>>

-----------------------------------------------------------------------------
(* The operator: retry, cancel, delete.                                    *)

Failed == {u \in Url : itemStatus[u] = "FAILED"}

RetryingByUser(todo) == [Idle EXCEPT !.pc = "retryAdd", !.todo = todo, !.seen = "user"]

RetryItem(c, u) ==
  /\ IsIdle(c)
  /\ u \in Failed /\ ~ShouldPreserve(taskStatus)
  /\ Continue(c, RetryingByUser({u}))
  /\ userRetried' = userRetried \cup {u}
  /\ UNCHANGED <<rows, mode, harvests, restarts, retryJobs, work>>

RetryFailed(c) ==
  /\ IsIdle(c)
  /\ taskStatus # "DELETED" /\ ~ShouldPreserve(taskStatus)
  /\ Continue(c, [Idle EXCEPT !.pc = "retryFind"])
  /\ UNCHANGED <<rows, history, retryJobs, work>>

RetryFind(c) ==
  /\ At(c, "retryFind")
  /\ IF Failed = {} THEN Finish(c) ELSE Continue(c, RetryingByUser(Failed))
  /\ userRetried' = userRetried \cup Failed
  /\ UNCHANGED <<rows, mode, harvests, restarts, retryJobs, work>>

CancelStart(c) ==
  /\ IsIdle(c)
  /\ CanCancel(taskStatus)
  /\ Continue(c, [Idle EXCEPT !.pc = "cancelItems"])
  /\ UNCHANGED <<rows, history, retryJobs, work>>

CancelItems(c) ==
  /\ At(c, "cancelItems")
  /\ itemStatus' = [u \in Url |-> IF itemStatus[u] \in Open THEN "SKIPPED" ELSE itemStatus[u]]
  /\ assigned' = [u \in Url |-> IF itemStatus[u] \in Open THEN NoAgent ELSE assigned[u]]
  /\ Goto(c, "cancelTask")
  /\ UNCHANGED <<taskStatus, pool, retryCount, history, retryJobs, work>>

CancelTask(c) ==
  /\ At(c, "cancelTask")
  /\ IF taskStatus = "DELETED"
     THEN Finish(c) /\ UNCHANGED taskStatus
     ELSE taskStatus' = "CANCELLED" /\ GotoRefresh(c)
  /\ UNCHANGED <<pool, itemStatus, assigned, retryCount, history, retryJobs, work>>

DeleteStart(c) ==
  /\ IsIdle(c)
  /\ CanDelete(taskStatus)
  /\ Continue(c, [Idle EXCEPT !.pc = "deleteRow"])
  /\ UNCHANGED <<rows, history, retryJobs, work>>

\* The items go with the task (onDelete: Cascade); queued jobs stay.
DeleteRow(c) ==
  /\ At(c, "deleteRow")
  /\ taskStatus' = "DELETED"
  /\ pool' = {}
  /\ itemStatus' = [u \in Url |-> "ABSENT"]
  /\ assigned' = [u \in Url |-> NoAgent]
  /\ retryCount' = [u \in Url |-> 0]
  /\ Finish(c)
  /\ UNCHANGED <<history, retryJobs, work>>

-----------------------------------------------------------------------------
(* The API process restarts: handlers in progress are gone, BullMQ finds   *)
(* the jobs they ran stalled and queues them again.                        *)
Restart ==
  /\ restarts < MaxRestarts
  /\ restarts' = restarts + 1
  /\ call' = [c \in Call |-> Idle]
  /\ prepare' = CASE prepare = "active" -> "queued"
                  [] prepare = "timedout" -> "done"
                  [] prepare \in {"queued", "done"} -> prepare
  /\ retryJobs' = [u \in Url |-> retryJobs[u] +
       Cardinality({c \in Call : call[c].job = "retry" /\ call[c].url = u})]
  /\ UNCHANGED <<rows, mode, userRetried, harvests, work>>

-----------------------------------------------------------------------------
Init ==
  /\ mode \in Modes
  /\ taskStatus = "QUEUED"
  /\ pool = {}
  /\ itemStatus = [u \in Url |-> "ABSENT"]
  /\ assigned = [u \in Url |-> NoAgent]
  /\ retryCount = [u \in Url |-> 0]
  /\ prepare = "queued"
  /\ retryJobs = [u \in Url |-> 0]
  /\ work = [a \in Agent |-> [u \in Url |-> "none"]]
  /\ call = [c \in Call |-> Idle]
  /\ userRetried = {}
  /\ harvests = 0
  /\ restarts = 0

PrepareNext(c) ==
  PrepareStart(c) \/ PrepareListing(c) \/ PrepareCheck(c) \/ PrepareFail(c)

RefreshNext(c) == RefreshRead(c) \/ RefreshItems(c) \/ RefreshWrite(c)

\* Handlers already under way, past their first database call.
HandlerNext(c) ==
  \/ UpsertItem(c) \/ WritePool(c)
  \/ ClaimFind(c) \/ \E delivered \in BOOLEAN : ClaimTake(c, delivered)
  \/ ExpandDelete(c) \/ SuccessWrite(c) \/ SkipWrite(c)
  \/ FailRead(c) \/ FailWrite(c)
  \/ FillTask(c) \/ FillItems(c)
  \/ RetryFind(c) \/ RetryAdd(c) \/ RetryMark(c) \/ ReleaseWrite(c)
  \/ CancelItems(c) \/ CancelTask(c) \/ DeleteRow(c)

AgentNext(c, a) ==
  \/ \E stuck \in SUBSET Url : ClaimStart(c, a, stuck)
  \/ \E harvest \in SUBSET Product : ReportListing(c, a, harvest)
  \/ \E u \in Url :
       \/ \E mismatch \in BOOLEAN : ReportProduct(c, a, u, mismatch)
       \/ \E reason \in {"captcha", "retryable"} : ReportFailure(c, a, u, reason)

UserNext(c) ==
  \/ /\ "retry" \in UserOps
     /\ RetryFailed(c) \/ \E u \in Url : RetryItem(c, u)
  \/ "cancel" \in UserOps /\ CancelStart(c)
  \/ "delete" \in UserOps /\ DeleteStart(c)

Next ==
  \/ \E c \in Call :
       \/ PrepareNext(c) \/ RefreshNext(c) \/ HandlerNext(c) \/ UserNext(c)
       \/ \E u \in Url : ReleaseStart(c, u)
       \/ \E a \in Agent : AgentNext(c, a)
  \/ \E a \in Agent : AgentForgets(a)
  \/ PrepareTimeout
  \/ Restart

Spec == Init /\ [][Next]_vars

\* A handler in progress gets on (Node.js resumes what its database answered).
Proceeds(c) ==
  PrepareListing(c) \/ PrepareCheck(c) \/ RefreshNext(c) \/ HandlerNext(c)

\* An agent that can take an item polls, and one day gets the answer.
Polls(c, a) == ClaimStart(c, a, OwnRunning(a))
TakesItem(c, a) == call[c].agent = a /\ ClaimTake(c, TRUE)

\* It does not restart for ever before it reports what it holds.
Answers(c, a) ==
  \E u \in Url :
    /\ work[a][u] = "unsure" \/ (work[a][u] = "claimed" /\ Accepted(a, u))
    /\ \/ \E harvest \in SUBSET Product : ReportListing(c, a, harvest)
       \/ \E mismatch \in BOOLEAN : ReportProduct(c, a, u, mismatch)
       \/ \E reason \in {"captcha", "retryable"} : ReportFailure(c, a, u, reason)

LiveSpec ==
  /\ Spec
  /\ \A c \in Call : WF_vars(Proceeds(c))
  /\ SF_vars(\E c \in Call : PrepareStart(c))
  /\ \A u \in Url : SF_vars(\E c \in Call : ReleaseStart(c, u))
  /\ \A a \in Agent : /\ SF_vars(\E c \in Call : Polls(c, a))
                      /\ SF_vars(\E c \in Call : TakesItem(c, a))
                      /\ SF_vars(\E c \in Call : Answers(c, a))

-----------------------------------------------------------------------------
(* Properties.                                                             *)

RowsOK ==
  /\ taskStatus \in TaskStatuses \cup {"DELETED"}
  /\ pool \in SUBSET Product
  /\ itemStatus \in [Url -> ItemStatuses \cup {"ABSENT"}]
  /\ assigned \in [Url -> Agent \cup {NoAgent}]
  /\ retryCount \in [Url -> Nat]
\* What a handler carries fits its next call: a status to write, an agent to serve.
LoadedSlots ==
  {s \in Slots : /\ s.pc = "refreshWrite" => s.seen \in TaskStatuses \cup {"keep"}
                 /\ s.pc \in {"claimFind", "claimTake"} => s.agent \in Agent}
ControlOK ==
  /\ prepare \in {"queued", "active", "timedout", "done"}
  /\ call \in [Call -> LoadedSlots]
HistoryOK ==
  /\ mode \in Modes
  /\ userRetried \in SUBSET Url
  /\ harvests \in Nat
  /\ restarts \in Nat

\* Every row, job, slot and agent is in a state the code knows.
TypeOK ==
  /\ RowsOK /\ ControlOK /\ HistoryOK
  /\ retryJobs \in [Url -> Nat]
  /\ work \in [Agent -> [Url -> {"none", "claimed", "unsure"}]]

\* A RUNNING item names the agent that took it, whatever interleaves: only that
\* agent's next claim puts it back, so one without a name would never move again.
RunningHasOwner ==
  \A u \in Url : itemStatus[u] = "RUNNING" => assigned[u] \in Agent

\* The hand-out: items go from nobody to one agent, and from one agent to
\* another only through PENDING (claimItem's conditional update).
DispatchState ==
  [u \in Url |-> CASE itemStatus[u] = "ABSENT" -> "none"
                   [] itemStatus[u] = "PENDING" -> "offered"
                   [] itemStatus[u] = "RUNNING" -> "held"
                   [] itemStatus[u] \notin {"ABSENT", "PENDING", "RUNNING"} -> "parked"]
DispatchHolder ==
  [u \in Url |-> IF itemStatus[u] = "RUNNING" THEN assigned[u] ELSE NoAgent]

Dispatching == INSTANCE Dispatch WITH
  Item <- Url, Worker <- Agent, NoWorker <- NoAgent,
  state <- DispatchState, holder <- DispatchHolder

ImplementsDispatch == Dispatching!DispatchSpec

\* A candidate of the category page leaves the pool only as an item of the task:
\* neither a back-fill that writes a pool it read before another one did, nor a
\* cancellation in between, loses one.  (A second report of the same page starts
\* the pool anew.)
NoCandidateLost ==
  [][ harvests <= 1 /\ taskStatus' # "DELETED"
      => \A p \in pool \ pool' : itemStatus[p] # "ABSENT" ]_vars

Quiet == \A c \in Call : IsIdle(c)

\* When nothing is under way the task shows what its items call for.  (A task
\* without items keeps what preparing said, a cancelled one stays cancelled.)
SettledStatus ==
  Quiet /\ prepare = "done" /\ (\A u \in Url : retryJobs[u] = 0 /\ itemStatus[u] # "RETRYING")
  => \/ taskStatus \in {"CANCELLED", "DELETED", DerivedStatus}
     \/ \A u \in Url : itemStatus[u] = "ABSENT"

\* An item waiting for its retry has exactly one job in the queue to release it.
RetryingHasJob ==
  Quiet => \A u \in Url : itemStatus[u] = "RETRYING" => retryJobs[u] = 1

\* TOP N is a quota: what was delivered and what is on its way never exceed it,
\* unless an operator retried items whose place was already back-filled.
NeverAboveQuota ==
  mode = "CATEGORY_TOP" =>
    Cardinality(ProductsIn({"SUCCESS"} \cup Open) \ userRetried) <= TopN

\* The quota is also used up: a finished task that fell short has no candidate left.
FinishedUsedPool ==
  (mode = "CATEGORY_TOP" /\ Quiet /\ prepare = "done"
     /\ taskStatus \in {"SUCCESS", "PARTIAL_FAILED", "FAILED"})
  => \/ Cardinality(ProductsIn({"SUCCESS"} \cup Open)) >= TopN
     \/ pool \subseteq Existing

\* TOP N is met exactly as far as the category page has products (listing-quota.ts).
QuotaHolds == NeverAboveQuota /\ FinishedUsedPool

\* Once it is cancelled, a prepared task stays so, and none of its items is left,
\* or put back, to be claimed, reported or retried.
CancelIsFinal ==
  [][ taskStatus = "CANCELLED" /\ prepare = "done"
      => /\ taskStatus' \in {"CANCELLED", "DELETED"}
         /\ \A u \in Url : itemStatus'[u] \notin Open ]_vars

\* "已作废/结束的任务不再进轮询": a cancelled task never becomes claimable again.
NeverClaimableAgain ==
  [][taskStatus = "CANCELLED" => taskStatus' \notin Claimable]_vars

\* "keeps cancelled status from being overwritten by item refresh".
RefreshKeepsCancelled ==
  [][ taskStatus = "CANCELLED" /\ (\E c \in Call : At(c, "refreshWrite") /\ call'[c] # call[c])
      => taskStatus' = "CANCELLED" ]_vars

\* As long as the agents keep polling and answering, every task comes to an end:
\* each item is settled within its retries, and back-filling uses up its pool.
Settles ==
  <>[](taskStatus \in Terminal /\ \A u \in Url : itemStatus[u] \notin Open)
=============================================================================
