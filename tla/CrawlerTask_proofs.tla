------------------------- MODULE CrawlerTask_proofs -------------------------
(***************************************************************************)
(* Proofs about CrawlerTask, for any products, agents and handler slots.   *)
(***************************************************************************)
EXTENDS CrawlerTask, FiniteSetTheorems, TLAPS

(***************************************************************************)
(* Handler slots: whatever a handler does next, its slot stays loaded.     *)
(***************************************************************************)

\* Steps that ask nothing of what the slot carries.
FreeSteps == Steps \ {"refreshWrite", "claimFind", "claimTake"}

\* A free slot is a legal one.
LEMMA LoadedIdle == Idle \in LoadedSlots
BY DEF Idle, LoadedSlots, Slots, Steps, PrepareSteps, RefreshSteps, Url

Jobs == {"none", "prepare", "retry"}
Seen == TaskStatuses \cup {"captcha", "retryable", "auto", "user"}

\* Changing one field of a slot keeps it legal, if the step it is at asks nothing of that field.
LEMMA LoadedStep ==
  ASSUME NEW s \in LoadedSlots, NEW step \in FreeSteps
  PROVE  /\ [s EXCEPT !.pc = step] \in LoadedSlots
         /\ \A u \in Url : [s EXCEPT !.pc = step, !.url = u] \in LoadedSlots
         /\ \A j \in Jobs : [s EXCEPT !.job = j, !.pc = step] \in LoadedSlots
         /\ \A u \in Url, j \in Jobs : [s EXCEPT !.pc = step, !.job = j, !.url = u] \in LoadedSlots
         /\ \A u \in Url, j \in Jobs : [s EXCEPT !.pc = step, !.url = u, !.job = j] \in LoadedSlots
         /\ \A seen \in Seen : [s EXCEPT !.pc = step, !.seen = seen] \in LoadedSlots
         /\ \A todo \in SUBSET Url, seen \in Seen : [s EXCEPT !.pc = step, !.todo = todo, !.seen = seen] \in LoadedSlots
         /\ \A todo \in SUBSET Url : [s EXCEPT !.pc = step, !.todo = todo] \in LoadedSlots
         /\ \A todo \in SUBSET Url : [s EXCEPT !.todo = todo, !.pc = step] \in LoadedSlots
         /\ \A p \in SUBSET Product : [s EXCEPT !.pc = step, !.pool = p] \in LoadedSlots
         /\ \A todo \in SUBSET Url, p \in SUBSET Product : [s EXCEPT !.pc = step, !.todo = todo, !.pool = p] \in LoadedSlots
         /\ \A u \in Url, seen \in Seen, n \in Nat : [s EXCEPT !.pc = step, !.url = u, !.seen = seen, !.count = n] \in LoadedSlots
<1>1. [s EXCEPT !.pc = step] \in LoadedSlots
  BY DEF LoadedSlots, Slots, FreeSteps, Jobs, Seen
<1>2. \A u \in Url : [s EXCEPT !.pc = step, !.url = u] \in LoadedSlots
  BY DEF LoadedSlots, Slots, FreeSteps, Jobs, Seen
<1>3. \A j \in Jobs : [s EXCEPT !.job = j, !.pc = step] \in LoadedSlots
  BY DEF LoadedSlots, Slots, FreeSteps, Jobs, Seen
<1>4. \A u \in Url, j \in Jobs : [s EXCEPT !.pc = step, !.job = j, !.url = u] \in LoadedSlots
  BY DEF LoadedSlots, Slots, FreeSteps, Jobs, Seen
<1>5. \A u \in Url, j \in Jobs : [s EXCEPT !.pc = step, !.url = u, !.job = j] \in LoadedSlots
  BY DEF LoadedSlots, Slots, FreeSteps, Jobs, Seen
<1>6. \A seen \in Seen : [s EXCEPT !.pc = step, !.seen = seen] \in LoadedSlots
  BY DEF LoadedSlots, Slots, FreeSteps, Jobs, Seen
<1>7. \A todo \in SUBSET Url, seen \in Seen : [s EXCEPT !.pc = step, !.todo = todo, !.seen = seen] \in LoadedSlots
  BY DEF LoadedSlots, Slots, FreeSteps, Jobs, Seen
<1>8. \A todo \in SUBSET Url : [s EXCEPT !.pc = step, !.todo = todo] \in LoadedSlots
  BY DEF LoadedSlots, Slots, FreeSteps, Jobs, Seen
<1>9. \A todo \in SUBSET Url : [s EXCEPT !.todo = todo, !.pc = step] \in LoadedSlots
  BY DEF LoadedSlots, Slots, FreeSteps, Jobs, Seen
<1>10. \A p \in SUBSET Product : [s EXCEPT !.pc = step, !.pool = p] \in LoadedSlots
  BY DEF LoadedSlots, Slots, FreeSteps, Jobs, Seen
<1>11. \A todo \in SUBSET Url, p \in SUBSET Product : [s EXCEPT !.pc = step, !.todo = todo, !.pool = p] \in LoadedSlots
  BY DEF LoadedSlots, Slots, FreeSteps, Jobs, Seen
<1>12. \A u \in Url, seen \in Seen, n \in Nat : [s EXCEPT !.pc = step, !.url = u, !.seen = seen, !.count = n] \in LoadedSlots
  BY DEF LoadedSlots, Slots, FreeSteps, Jobs, Seen
<1> QED BY <1>1, <1>2, <1>3, <1>4, <1>5, <1>6, <1>7, <1>8, <1>9, <1>10, <1>11, <1>12

\* A slot about to write a status carries one.
LEMMA LoadedWrite ==
  ASSUME NEW s \in LoadedSlots, NEW status \in TaskStatuses \cup {"keep"}
  PROVE  [s EXCEPT !.pc = "refreshWrite", !.seen = status] \in LoadedSlots
<1>1. "refreshWrite" \in Steps
  BY DEF Steps, RefreshSteps
<1> QED BY <1>1 DEF LoadedSlots, Slots

\* A slot about to claim carries its agent.
LEMMA LoadedClaim ==
  /\ \A a \in Agent : [Idle EXCEPT !.pc = "claimFind", !.agent = a] \in LoadedSlots
  /\ \A s \in LoadedSlots, u \in Url :
       s.pc = "claimFind" => [s EXCEPT !.pc = "claimTake", !.url = u] \in LoadedSlots
<1>1. {"claimFind", "claimTake"} \subseteq Steps
  BY DEF Steps
<1>2. \A a \in Agent : [Idle EXCEPT !.pc = "claimFind", !.agent = a] \in LoadedSlots
  BY <1>1, LoadedIdle DEF LoadedSlots, Slots
<1>3. ASSUME NEW s \in LoadedSlots, NEW u \in Url, s.pc = "claimFind"
      PROVE  [s EXCEPT !.pc = "claimTake", !.url = u] \in LoadedSlots
  BY <1>1, <1>3 DEF LoadedSlots, Slots
<1> QED BY <1>2, <1>3

\* A handler that goes on with a legal slot leaves every slot legal.
LEMMA ContinueKeeps ==
  ASSUME ControlOK, NEW c \in Call, NEW slot \in LoadedSlots, Continue(c, slot)
  PROVE  ControlOK'
BY DEF ControlOK, Continue

\* So does one that only moves to another step.
LEMMA GotoKeeps ==
  ASSUME ControlOK, NEW c \in Call, NEW step \in FreeSteps, Goto(c, step)
  PROVE  ControlOK'
<1>1. [call[c] EXCEPT !.pc = step] \in LoadedSlots
  BY LoadedStep DEF ControlOK
<1> QED BY <1>1, ContinueKeeps DEF Goto

\* A handler that returns frees its slot and settles the prepare job.
LEMMA FinishKeeps ==
  ASSUME ControlOK, NEW c \in Call, Finish(c)
  PROVE  ControlOK'
BY LoadedIdle DEF ControlOK, Finish

\* The trailing refreshTaskStatus starts from a legal slot.
LEMMA GotoRefreshKeeps ==
  ASSUME ControlOK, NEW c \in Call, GotoRefresh(c)
  PROVE  ControlOK'
<1> DEFINE u == IF call[c].job = "retry" THEN call[c].url ELSE Listing
<1>1. call[c].job \in Jobs /\ u \in Url
  BY DEF ControlOK, LoadedSlots, Slots, Jobs, Url
<1>2. "refresh" \in FreeSteps
  BY DEF FreeSteps, Steps, RefreshSteps
<1>3. [Idle EXCEPT !.pc = "refresh", !.job = call[c].job, !.url = u] \in LoadedSlots
  BY <1>1, <1>2, LoadedStep, LoadedIdle
<1> QED BY <1>3, ContinueKeeps DEF GotoRefresh

\* A report begins with a legal slot or changes nothing.
LEMMA BeginKeeps ==
  ASSUME ControlOK, NEW c \in Call, NEW slot \in LoadedSlots,
         NEW accepted \in BOOLEAN, Begin(c, accepted, slot)
  PROVE  ControlOK'
<1>1. CASE accepted BY <1>1, ContinueKeeps DEF Begin
<1>2. CASE ~accepted BY <1>2 DEF Begin, ControlOK
<1> QED BY <1>1, <1>2

\* The status a refresh derives from the items is a task status.
LEMMA DerivedIsStatus ==
  ASSUME RowsOK
  PROVE  DerivedStatus \in TaskStatuses
<1>1. itemStatus[Listing] \in ItemStatuses \cup {"ABSENT"}
  BY DEF RowsOK, Url
<1> QED BY <1>1 DEF DerivedStatus, TaskStatuses

\* The first candidates are candidates.
LEMMA FirstOfSubset ==
  ASSUME NEW n, NEW S
  PROVE  FirstOf(n, S) \subseteq S /\ LeftOver(n, S) \subseteq S
BY DEF FirstOf, LeftOver

(***************************************************************************)
(* TypeOK is kept by every action.                                         *)
(***************************************************************************)
\* prepareTask and its time limit keep the types.
LEMMA PrepareTypes ==
  ASSUME TypeOK, NEW c \in Call, PrepareNext(c)
  PROVE  TypeOK'
<1> USE DEF TypeOK
<1>1. CASE PrepareStart(c)
  <2> DEFINE step == IF mode = "CATEGORY_TOP" THEN "prepListing" ELSE "prepCheck"
  <2>1. step \in FreeSteps
    BY DEF FreeSteps, Steps, PrepareSteps
  <2>2. [Idle EXCEPT !.job = "prepare", !.pc = step] \in LoadedSlots
    BY <2>1, LoadedStep, LoadedIdle DEF Jobs
  <2>3. ControlOK'
    BY <1>1, <2>2 DEF PrepareStart, ControlOK
  <2> QED BY <1>1, <2>3 DEF PrepareStart, RowsOK, HistoryOK, history, TaskStatuses
<1>2. CASE PrepareListing(c)
  <2>1. ControlOK' BY <1>2, FinishKeeps, GotoRefreshKeeps DEF PrepareListing
  <2> QED BY <1>2, <2>1 DEF PrepareListing, SetItem, RowsOK, HistoryOK, history, ItemStatuses
<1>3. CASE PrepareCheck(c)
  <2>1. "prepUpsert" \in FreeSteps
    BY DEF FreeSteps, Steps, PrepareSteps
  <2>2. [call[c] EXCEPT !.pc = "prepUpsert", !.todo = ConfigUrls] \in LoadedSlots
    BY <2>1, LoadedStep, CrawlerAssumptions DEF ControlOK
  <2>3. ControlOK' BY <1>3, <2>2, FinishKeeps, ContinueKeeps DEF PrepareCheck
  <2> QED BY <1>3, <2>3 DEF PrepareCheck, RowsOK, HistoryOK, rows, history
<1>4. CASE PrepareFail(c)
  <2>1. ControlOK' BY <1>4, FinishKeeps DEF PrepareFail
  <2> QED BY <1>4, <2>1 DEF PrepareFail, FailTask, RowsOK, HistoryOK, history, TaskStatuses
<1> QED BY <1>1, <1>2, <1>3, <1>4 DEF PrepareNext

\* refreshTaskStatus keeps the types.
LEMMA RefreshTypes ==
  ASSUME TypeOK, NEW c \in Call, RefreshNext(c)
  PROVE  TypeOK'
<1> USE DEF TypeOK
<1>1. CASE RefreshRead(c)
  <2>1. "refreshItems" \in FreeSteps
    BY DEF FreeSteps, Steps, RefreshSteps
  <2>2. taskStatus # "DELETED"
        => [call[c] EXCEPT !.pc = "refreshItems", !.seen = taskStatus] \in LoadedSlots
    BY <2>1, LoadedStep DEF RowsOK, ControlOK, Seen
  <2>3. ControlOK' BY <1>1, <2>2, FinishKeeps, ContinueKeeps DEF RefreshRead
  <2> QED BY <1>1, <2>3 DEF RefreshRead, RowsOK, HistoryOK, rows, history
<1>2. CASE RefreshItems(c)
  <2> DEFINE status == IF ShouldPreserve(call[c].seen) THEN "keep" ELSE DerivedStatus
  <2>1. status \in TaskStatuses \cup {"keep"}
    BY DerivedIsStatus
  <2>3. [call[c] EXCEPT !.pc = "refreshWrite", !.seen = status] \in LoadedSlots
    BY <2>1, LoadedWrite DEF ControlOK
  <2>4. ControlOK' BY <1>2, <2>3, ContinueKeeps DEF RefreshItems
  <2> QED BY <1>2, <2>4 DEF RefreshItems, RowsOK, HistoryOK, rows, history
<1>3. CASE RefreshWrite(c)
  <2>1. call[c].seen \in TaskStatuses \cup {"keep"}
    BY <1>3 DEF RefreshWrite, At, ControlOK, LoadedSlots
  <2>2. ControlOK' BY <1>3, FinishKeeps DEF RefreshWrite
  <2> QED BY <1>3, <2>1, <2>2 DEF RefreshWrite, RowsOK, HistoryOK, history
<1> QED BY <1>1, <1>2, <1>3 DEF RefreshNext

\* Upserting items and writing the pool keep the types.
LEMMA UpsertTypes ==
  ASSUME TypeOK, NEW c \in Call, UpsertItem(c) \/ WritePool(c)
  PROVE  TypeOK'
<1> USE DEF TypeOK
<1>0. {"refresh", "expandPool", "fillPool", "prepUpsert", "expandUpsert", "fillUpsert",
       "expandDelete"} \subseteq FreeSteps
  BY DEF FreeSteps, Steps, RefreshSteps, PrepareSteps
<1>1. CASE UpsertItem(c)
  <2>1. PICK u \in call[c].todo :
          IF taskStatus = "DELETED"
          THEN Finish(c) /\ UNCHANGED itemStatus
          ELSE /\ SetItem(u, "PENDING")
               /\ LET left == call[c].todo \ {u} IN
                  Continue(c, [call[c] EXCEPT !.todo = left,
                    !.pc = IF left = {} THEN AfterUpserts[@] ELSE @])
    BY <1>1 DEF UpsertItem
  <2> DEFINE left == call[c].todo \ {u}
             step == IF left = {} THEN AfterUpserts[call[c].pc] ELSE call[c].pc
  <2>2. call[c] \in LoadedSlots /\ left \in SUBSET Url
    BY DEF ControlOK, LoadedSlots, Slots
  <2>a. call[c].pc \in {"prepUpsert", "expandUpsert", "fillUpsert"}
    BY <1>1 DEF UpsertItem, AfterUpserts
  <2>b. AfterUpserts[call[c].pc] \in {"refresh", "expandPool", "fillPool"}
    BY <2>a DEF AfterUpserts
  <2>3. step \in FreeSteps
    BY <1>0, <2>a, <2>b
  <2>4. [call[c] EXCEPT !.todo = left, !.pc = step] \in LoadedSlots
    BY <2>2, <2>3, LoadedStep
  <2>5. ControlOK'
    BY <2>1, <2>4, FinishKeeps, ContinueKeeps
  <2> QED BY <1>1, <2>1, <2>5 DEF UpsertItem, SetItem, RowsOK, HistoryOK, history, ItemStatuses
<1>2. CASE WritePool(c)
  <2>1. ControlOK'
    BY <1>0, <1>2, FinishKeeps, GotoKeeps, GotoRefreshKeeps DEF WritePool
  <2>2. call[c].pool \in SUBSET Product
    BY DEF ControlOK, LoadedSlots, Slots
  <2> QED BY <1>2, <2>1, <2>2 DEF WritePool, RowsOK, HistoryOK, history
<1> QED BY <1>1, <1>2

\* Requeueing a set of items keeps the rows' types.
LEMMA RequeueTypes ==
  ASSUME RowsOK, NEW S \in SUBSET Url, Requeue(S), UNCHANGED <<taskStatus, pool, retryCount>>
  PROVE  RowsOK'
BY DEF RowsOK, Requeue, ItemStatuses

\* claimItem keeps the types.
LEMMA ClaimTypes ==
  ASSUME TypeOK, NEW c \in Call, NEW a \in Agent,
         \/ \E stuck \in SUBSET Url : ClaimStart(c, a, stuck)
         \/ ClaimFind(c)
         \/ \E delivered \in BOOLEAN : ClaimTake(c, delivered)
  PROVE  TypeOK'
<1> USE DEF TypeOK
<1>1. ASSUME NEW stuck \in SUBSET Url, ClaimStart(c, a, stuck)
      PROVE  TypeOK'
  <2>1. ControlOK' BY <1>1, LoadedClaim, ContinueKeeps DEF ClaimStart
  <2>2. RowsOK' BY <1>1, RequeueTypes DEF ClaimStart
  <2> QED BY <1>1, <2>1, <2>2 DEF ClaimStart, HistoryOK, history
<1>2. CASE ClaimFind(c)
  <2>1. ASSUME NEW u \in Offered,
               Continue(c, [call[c] EXCEPT !.pc = "claimTake", !.url = u])
        PROVE  ControlOK'
    <3>1. u \in Url
      BY <2>1 DEF Offered
    <3>2. [call[c] EXCEPT !.pc = "claimTake", !.url = u] \in LoadedSlots
      BY <1>2, <3>1, LoadedClaim DEF ClaimFind, At, ControlOK
    <3> QED BY <2>1, <3>2, ContinueKeeps
  <2>2. ControlOK' BY <1>2, <2>1, FinishKeeps DEF ClaimFind
  <2> QED BY <1>2, <2>2 DEF ClaimFind, RowsOK, HistoryOK, rows, history
<1>3. ASSUME NEW delivered \in BOOLEAN, ClaimTake(c, delivered)
      PROVE  TypeOK'
  <2>1. call[c].url \in Url /\ call[c].agent \in Agent
    BY <1>3 DEF ClaimTake, At, ControlOK, LoadedSlots, Slots
  <2>2. ControlOK' BY <1>3, FinishKeeps DEF ClaimTake
  <2>3. RowsOK'
    BY <1>3, <2>1 DEF ClaimTake, SetItem, RowsOK, ItemStatuses
  <2>4. work' \in [Agent -> [Url -> {"none", "claimed", "unsure"}]]
    BY <1>3, <2>1 DEF ClaimTake
  <2> QED BY <1>3, <2>2, <2>3, <2>4 DEF ClaimTake, HistoryOK, history
<1> QED BY <1>1, <1>2, <1>3

\* A report leaves the agent with nothing, or unsure.
LEMMA ReportWorkTypes ==
  ASSUME work \in [Agent -> [Url -> {"none", "claimed", "unsure"}]],
         NEW a \in Agent, NEW u \in Url, NEW from, Report(a, u, from)
  PROVE  work' \in [Agent -> [Url -> {"none", "claimed", "unsure"}]]
BY DEF Report

\* The first call of each report keeps the types.
LEMMA ReportTypes ==
  ASSUME TypeOK, NEW c \in Call, NEW a \in Agent,
         \/ \E harvest \in SUBSET Product : ReportListing(c, a, harvest)
         \/ \E u \in Url :
              \/ \E mismatch \in BOOLEAN : ReportProduct(c, a, u, mismatch)
              \/ \E reason \in {"captcha", "retryable"} : ReportFailure(c, a, u, reason)
  PROVE  TypeOK'
<1> USE DEF TypeOK
<1>0. {"failRead", "expandUpsert", "skipWrite", "successWrite", "failWrite"} \subseteq FreeSteps
  BY DEF FreeSteps, Steps
<1>1. ASSUME NEW harvest \in SUBSET Product, ReportListing(c, a, harvest)
      PROVE  TypeOK'
  <2> DEFINE todo == FirstOf(TopN, harvest)
             left == LeftOver(TopN, harvest)
             slot == IF harvest = {} THEN [Idle EXCEPT !.pc = "failRead"]
                     ELSE [Idle EXCEPT !.pc = "expandUpsert", !.todo = todo, !.pool = left]
  <2>1. todo \in SUBSET Url /\ left \in SUBSET Product
    BY FirstOfSubset DEF Url
  <2>2. slot \in LoadedSlots
    BY <1>0, <2>1, LoadedIdle, LoadedStep
  <2>3. Accepted(a, Listing) \in BOOLEAN
    BY DEF Accepted, AgentCanWrite, ShouldPreserve
  <2>4. ControlOK' BY <1>1, <2>2, <2>3, BeginKeeps DEF ReportListing
  <2>5. Report(a, Listing, {"claimed"}) /\ Listing \in Url
    BY <1>1 DEF ReportListing, Url
  <2>a. harvests' = harvests \/ harvests' = harvests + 1
    BY <1>1 DEF ReportListing
  <2>b. UNCHANGED <<mode, userRetried, restarts>>
    BY <1>1 DEF ReportListing
  <2>6. HistoryOK' BY <2>a, <2>b DEF HistoryOK
  <2>7. RowsOK' BY <1>1 DEF ReportListing, RowsOK, rows
  <2> QED BY <1>1, <2>4, <2>5, <2>6, <2>7, ReportWorkTypes DEF ReportListing
<1>2. ASSUME NEW u \in Url, NEW mismatch \in BOOLEAN, ReportProduct(c, a, u, mismatch)
      PROVE  TypeOK'
  <2> DEFINE slot == [Idle EXCEPT !.pc = IF mismatch THEN "skipWrite" ELSE "successWrite",
                                  !.url = u]
  <2>1. slot \in LoadedSlots
    BY <1>0, LoadedIdle, LoadedStep
  <2>2. Accepted(a, u) \in BOOLEAN
    BY DEF Accepted, AgentCanWrite, ShouldPreserve
  <2>3. ControlOK' BY <1>2, <2>1, <2>2, BeginKeeps DEF ReportProduct
  <2> QED BY <1>2, <2>3, ReportWorkTypes DEF ReportProduct, RowsOK, HistoryOK, rows, history
<1>3. ASSUME NEW u \in Url, NEW reason \in {"captcha", "retryable"}, ReportFailure(c, a, u, reason)
      PROVE  TypeOK'
  <2>1. Failing(u, reason) \in LoadedSlots
    BY <1>0, LoadedIdle, LoadedStep DEF Failing, RowsOK, Seen
  <2>2. Accepted(a, u) \in BOOLEAN
    BY DEF Accepted, AgentCanWrite, ShouldPreserve
  <2>3. ControlOK' BY <1>3, <2>1, <2>2, BeginKeeps DEF ReportFailure
  <2> QED BY <1>3, <2>3, ReportWorkTypes DEF ReportFailure, RowsOK, HistoryOK, rows, history
<1> QED BY <1>1, <1>2, <1>3

\* What a report does after its checks keeps the types.
LEMMA ResultTypes ==
  ASSUME TypeOK, NEW c \in Call,
         ExpandDelete(c) \/ SuccessWrite(c) \/ SkipWrite(c) \/ FailRead(c) \/ FailWrite(c)
  PROVE  TypeOK'
<1> USE DEF TypeOK
<1>0. {"fillTask", "failWrite", "retryAdd"} \subseteq FreeSteps
  BY DEF FreeSteps, Steps
<1>1. call[c].url \in Url /\ call[c].count \in Nat /\ call[c] \in LoadedSlots
  BY DEF ControlOK, LoadedSlots, Slots
<1>2. CASE ExpandDelete(c)
  <2>1. ControlOK' BY <1>2, FinishKeeps, GotoRefreshKeeps DEF ExpandDelete
  <2> QED BY <1>2, <2>1 DEF ExpandDelete, SetItem, RowsOK, HistoryOK, history
<1>3. CASE SuccessWrite(c)
  <2>1. ControlOK' BY <1>3, FinishKeeps, GotoRefreshKeeps DEF SuccessWrite
  <2> QED BY <1>3, <2>1 DEF SuccessWrite, SetItem, RowsOK, HistoryOK, history, ItemStatuses
<1>4. CASE SkipWrite(c)
  <2>1. ControlOK' BY <1>0, <1>4, FinishKeeps, GotoKeeps DEF SkipWrite
  <2> QED BY <1>4, <2>1 DEF SkipWrite, SetItem, RowsOK, HistoryOK, history, ItemStatuses
<1>5. CASE FailRead(c)
  <2>1. Failing(Listing, "retryable") \in LoadedSlots
    BY <1>0, LoadedIdle, LoadedStep DEF Failing, RowsOK, Seen, Url
  <2>2. ControlOK' BY <1>5, <2>1, FinishKeeps, ContinueKeeps DEF FailRead
  <2> QED BY <1>5, <2>2 DEF FailRead, RowsOK, HistoryOK, rows, history
<1>6. CASE FailWrite(c)
  <2>a. {call[c].url} \in SUBSET Url /\ "auto" \in Seen /\ "retryAdd" \in FreeSteps
    BY <1>0, <1>1 DEF Seen
  <2>1. [Idle EXCEPT !.pc = "retryAdd", !.todo = {call[c].url}, !.seen = "auto"] \in LoadedSlots
    BY <2>a, LoadedIdle, LoadedStep
  <2>2. ControlOK' BY <1>0, <1>6, <2>1, FinishKeeps, GotoKeeps, ContinueKeeps DEF FailWrite
  <2>3. RowsOK' BY <1>1, <1>6 DEF FailWrite, SetItem, RowsOK, ItemStatuses
  <2> QED BY <1>6, <2>2, <2>3 DEF FailWrite, HistoryOK, history
<1> QED BY <1>2, <1>3, <1>4, <1>5, <1>6

\* enqueueListingBackfill keeps the types.
LEMMA FillTypes ==
  ASSUME TypeOK, NEW c \in Call, FillTask(c) \/ FillItems(c)
  PROVE  TypeOK'
<1> USE DEF TypeOK
<1>0. {"fillItems", "fillUpsert"} \subseteq FreeSteps
  BY DEF FreeSteps, Steps
<1>1. call[c] \in LoadedSlots /\ call[c].pool \in SUBSET Product
  BY DEF ControlOK, LoadedSlots, Slots
<1>2. CASE FillTask(c)
  <2>1. [call[c] EXCEPT !.pc = "fillItems", !.pool = pool] \in LoadedSlots
    BY <1>0, <1>1, LoadedStep DEF RowsOK
  <2>2. ControlOK'
    BY <1>2, <2>1, FinishKeeps, GotoRefreshKeeps, ContinueKeeps DEF FillTask
  <2> QED BY <1>2, <2>2 DEF FillTask, RowsOK, HistoryOK, rows, history
<1>3. CASE FillItems(c)
  <2> DEFINE next == FirstOf(Deficit, Candidates(c))
             left == LeftOver(Deficit, Candidates(c))
  <2>1. next \in SUBSET Url /\ left \in SUBSET Product
    BY <1>1, FirstOfSubset DEF Candidates, Url
  <2>2. [call[c] EXCEPT !.pc = "fillUpsert", !.todo = next, !.pool = left] \in LoadedSlots
    BY <1>0, <1>1, <2>1, LoadedStep
  <2>3. ControlOK'
    BY <1>3, <2>2, GotoRefreshKeeps, ContinueKeeps DEF FillItems
  <2> QED BY <1>3, <2>3 DEF FillItems, RowsOK, HistoryOK, rows, history
<1> QED BY <1>2, <1>3

\* Retrying, by an operator or by a job, keeps the types.
LEMMA RetryTypes ==
  ASSUME TypeOK, NEW c \in Call,
         \/ RetryFind(c) \/ RetryAdd(c) \/ RetryMark(c) \/ ReleaseWrite(c)
         \/ RetryFailed(c)
         \/ \E u \in Url : RetryItem(c, u) \/ ReleaseStart(c, u)
  PROVE  TypeOK'
<1> USE DEF TypeOK
<1>0. {"retryAdd", "retryMark", "retryFind", "releaseWrite"} \subseteq FreeSteps
  BY DEF FreeSteps, Steps
<1>1. /\ call[c] \in LoadedSlots /\ call[c].url \in Url /\ call[c].todo \in SUBSET Url
      /\ Failed \in SUBSET Url
  BY DEF ControlOK, LoadedSlots, Slots, Failed
<1>2. \A todo \in SUBSET Url : RetryingByUser(todo) \in LoadedSlots
  BY <1>0, LoadedIdle, LoadedStep DEF RetryingByUser, Seen
<1>3. CASE RetryFind(c)
  <2>1. ControlOK' BY <1>1, <1>2, <1>3, FinishKeeps, ContinueKeeps DEF RetryFind
  <2> QED BY <1>1, <1>3, <2>1 DEF RetryFind, RowsOK, HistoryOK, rows
<1>4. CASE RetryAdd(c)
  <2>1. PICK u \in call[c].todo :
          /\ retryJobs' = [retryJobs EXCEPT ![u] = @ + 1]
          /\ Continue(c, [call[c] EXCEPT !.pc = "retryMark", !.url = u])
    BY <1>4 DEF RetryAdd
  <2>2. [call[c] EXCEPT !.pc = "retryMark", !.url = u] \in LoadedSlots
    BY <1>0, <1>1, LoadedStep
  <2>3. ControlOK' BY <2>1, <2>2, ContinueKeeps
  <2>4. u \in Url /\ retryJobs[u] + 1 \in Nat
    BY <1>1
  <2>5. retryJobs' \in [Url -> Nat]
    BY <2>1, <2>4
  <2> QED BY <1>4, <2>3, <2>5 DEF RetryAdd, RowsOK, HistoryOK, rows, history
<1>5. CASE RetryMark(c)
  <2> DEFINE left == call[c].todo \ {call[c].url}
  <2>1. [call[c] EXCEPT !.pc = "retryAdd", !.todo = left] \in LoadedSlots
    BY <1>0, <1>1, LoadedStep
  <2>2. ControlOK'
    BY <1>5, <2>1, FinishKeeps, GotoRefreshKeeps, ContinueKeeps DEF RetryMark
  <2> QED BY <1>1, <1>5, <2>2 DEF RetryMark, SetItem, RowsOK, HistoryOK, history, ItemStatuses
<1>6. CASE ReleaseWrite(c)
  <2>1. ControlOK' BY <1>6, FinishKeeps, GotoRefreshKeeps DEF ReleaseWrite
  <2>2. RowsOK'
    <3>1. CASE itemStatus[call[c].url] = "ABSENT"
      BY <1>6, <3>1 DEF ReleaseWrite, RowsOK
    <3>2. CASE itemStatus[call[c].url] # "ABSENT"
      BY <1>1, <1>6, <3>2, RequeueTypes DEF ReleaseWrite
    <3> QED BY <3>1, <3>2
  <2> QED BY <1>6, <2>1, <2>2 DEF ReleaseWrite, HistoryOK, history
<1>7. CASE RetryFailed(c)
  <2>1. [Idle EXCEPT !.pc = "retryFind"] \in LoadedSlots
    BY <1>0, LoadedIdle, LoadedStep
  <2>2. ControlOK' BY <1>7, <2>1, ContinueKeeps DEF RetryFailed
  <2> QED BY <1>7, <2>2 DEF RetryFailed, RowsOK, HistoryOK, rows, history
<1>8. ASSUME NEW u \in Url, RetryItem(c, u)
      PROVE  TypeOK'
  <2>1. ControlOK' BY <1>2, <1>8, ContinueKeeps DEF RetryItem
  <2> QED BY <1>8, <2>1 DEF RetryItem, RowsOK, HistoryOK, rows
<1>9. ASSUME NEW u \in Url, ReleaseStart(c, u)
      PROVE  TypeOK'
  <2>1. [Idle EXCEPT !.pc = "releaseWrite", !.url = u, !.job = "retry"] \in LoadedSlots
    BY <1>0, LoadedIdle, LoadedStep DEF Jobs
  <2>2. ControlOK'
    <3>1. CASE UNCHANGED <<call, prepare>> BY <3>1 DEF ControlOK
    <3> QED BY <1>9, <2>1, <3>1, ContinueKeeps DEF ReleaseStart
  <2>c. retryJobs[u] > 0
    BY <1>9 DEF ReleaseStart
  <2>a. retryJobs[u] \in Nat /\ retryJobs[u] - 1 \in Nat
    BY <2>c
  <2>b. retryJobs' = [retryJobs EXCEPT ![u] = retryJobs[u] - 1]
    BY <1>9 DEF ReleaseStart
  <2>3. retryJobs' \in [Url -> Nat]
    BY <2>a, <2>b
  <2> QED BY <1>9, <2>2, <2>3 DEF ReleaseStart, RowsOK, HistoryOK, rows, history
<1> QED BY <1>3, <1>4, <1>5, <1>6, <1>7, <1>8, <1>9

\* Cancelling and deleting keep the types.
LEMMA CloseTypes ==
  ASSUME TypeOK, NEW c \in Call,
         CancelStart(c) \/ CancelItems(c) \/ CancelTask(c) \/ DeleteStart(c) \/ DeleteRow(c)
  PROVE  TypeOK'
<1> USE DEF TypeOK
<1>0. {"cancelItems", "cancelTask", "deleteRow"} \subseteq FreeSteps
  BY DEF FreeSteps, Steps
<1>1. \A step \in FreeSteps : [Idle EXCEPT !.pc = step] \in LoadedSlots
  BY LoadedIdle, LoadedStep
<1>2. CASE CancelStart(c)
  <2>1. ControlOK' BY <1>0, <1>1, <1>2, ContinueKeeps DEF CancelStart
  <2> QED BY <1>2, <2>1 DEF CancelStart, RowsOK, HistoryOK, rows, history
<1>3. CASE CancelItems(c)
  <2>1. ControlOK' BY <1>0, <1>3, GotoKeeps DEF CancelItems
  <2> QED BY <1>3, <2>1 DEF CancelItems, RowsOK, HistoryOK, history, ItemStatuses
<1>4. CASE CancelTask(c)
  <2>1. ControlOK' BY <1>4, FinishKeeps, GotoRefreshKeeps DEF CancelTask
  <2> QED BY <1>4, <2>1 DEF CancelTask, RowsOK, HistoryOK, history, TaskStatuses
<1>5. CASE DeleteStart(c)
  <2>1. ControlOK' BY <1>0, <1>1, <1>5, ContinueKeeps DEF DeleteStart
  <2> QED BY <1>5, <2>1 DEF DeleteStart, RowsOK, HistoryOK, rows, history
<1>6. CASE DeleteRow(c)
  <2>1. ControlOK' BY <1>6, FinishKeeps DEF DeleteRow
  <2> QED BY <1>6, <2>1 DEF DeleteRow, RowsOK, HistoryOK, history
<1> QED BY <1>2, <1>3, <1>4, <1>5, <1>6

\* An agent's restart and the API's keep the types.
LEMMA EnvironmentTypes ==
  ASSUME TypeOK, (\E a \in Agent : AgentForgets(a)) \/ PrepareTimeout \/ Restart
  PROVE  TypeOK'
<1> USE DEF TypeOK
<1>1. ASSUME NEW a \in Agent, AgentForgets(a)
      PROVE  TypeOK'
  BY <1>1 DEF AgentForgets, RowsOK, ControlOK, HistoryOK, rows, history
<1>2. CASE PrepareTimeout
  BY <1>2 DEF PrepareTimeout, FailTask, RowsOK, ControlOK, HistoryOK, history, TaskStatuses
<1>3. CASE Restart
  <2>1. \A u \in Url :
          Cardinality({c \in Call : call[c].job = "retry" /\ call[c].url = u}) \in Nat
    BY CrawlerAssumptions, FS_Subset, FS_CardinalityType
  <2> DEFINE lost(u) == Cardinality({c \in Call : call[c].job = "retry" /\ call[c].url = u})
  <2>a. \A u \in Url : retryJobs[u] + lost(u) \in Nat
    BY <2>1
  <2>b. retryJobs' = [u \in Url |-> retryJobs[u] + lost(u)]
    BY <1>3 DEF Restart
  <2> HIDE DEF lost
  <2>2. retryJobs' \in [Url -> Nat]
    BY <2>a, <2>b
  <2>3. ControlOK'
    BY <1>3, LoadedIdle DEF Restart, ControlOK
  <2> QED BY <1>3, <2>2, <2>3 DEF Restart, RowsOK, HistoryOK, rows
<1> QED BY <1>1, <1>2, <1>3

(***************************************************************************)
(* Type correctness, for any number of products, agents and handlers.      *)
(***************************************************************************)
\* No action leaves the types (the handlers of CrawlerService, one lemma each).
THEOREM TypesKept == TypeOK /\ [Next]_vars => TypeOK'
<1> SUFFICES ASSUME TypeOK, [Next]_vars PROVE TypeOK'
  OBVIOUS
<1>1. ASSUME NEW c \in Call,
             PrepareNext(c) \/ RefreshNext(c) \/ HandlerNext(c) \/ UserNext(c)
             \/ (\E u \in Url : ReleaseStart(c, u)) \/ (\E a \in Agent : AgentNext(c, a))
      PROVE  TypeOK'
  <2>1. CASE PrepareNext(c) BY <2>1, PrepareTypes
  <2>2. CASE RefreshNext(c) BY <2>2, RefreshTypes
  <2>3. CASE HandlerNext(c)
    <3>1. CASE ClaimFind(c) \/ \E delivered \in BOOLEAN : ClaimTake(c, delivered)
      <4>1. \E a \in Agent : TRUE
        BY <3>1 DEF ClaimFind, ClaimTake, At, TypeOK, ControlOK, LoadedSlots
      <4> QED BY <3>1, <4>1, ClaimTypes
    <3> QED BY <2>3, <3>1, UpsertTypes, ResultTypes, FillTypes, RetryTypes, CloseTypes
            DEF HandlerNext
  <2>4. CASE UserNext(c) BY <2>4, RetryTypes, CloseTypes DEF UserNext
  <2>5. CASE \E u \in Url : ReleaseStart(c, u) BY <2>5, RetryTypes
  <2>6. ASSUME NEW a \in Agent, AgentNext(c, a)
        PROVE  TypeOK'
    BY <2>6, ClaimTypes, ReportTypes DEF AgentNext
  <2> QED BY <1>1, <2>1, <2>2, <2>3, <2>4, <2>5, <2>6
<1>2. CASE (\E a \in Agent : AgentForgets(a)) \/ PrepareTimeout \/ Restart
  BY <1>2, EnvironmentTypes
<1>3. CASE UNCHANGED vars
  BY <1>3 DEF vars, rows, history, TypeOK, RowsOK, ControlOK, HistoryOK
<1> QED BY <1>1, <1>2, <1>3 DEF Next

\* Every row, job, slot and agent stays in a state the code knows.
THEOREM TypeCorrect == Spec => []TypeOK
<1>1. Init => TypeOK
  BY LoadedIdle DEF Init, TypeOK, RowsOK, ControlOK, HistoryOK, TaskStatuses, ItemStatuses
<1> QED BY <1>1, TypesKept, PTL DEF Spec

(***************************************************************************)
(* The hand-out: every RUNNING item has an owner, and every step either    *)
(* offers, parks or removes items or hands one that is on offer to one     *)
(* agent.                                                                  *)
(***************************************************************************)

\* What a step may do to the items: nothing, ...
Untouched == UNCHANGED <<itemStatus, assigned>>
\* ... set some of them to a status that is not RUNNING, ...
Sets(S, status) ==
  /\ status \in (ItemStatuses \cup {"ABSENT"}) \ {"RUNNING"}
  /\ itemStatus' = [u \in Url |-> IF u \in S THEN status ELSE itemStatus[u]]
  /\ \A u \in Url \ S : assigned'[u] = assigned[u]
  /\ assigned' \in [Url -> Agent \cup {NoAgent}]
  /\ status \in ItemStatuses \ {"PENDING"} => \A u \in S : itemStatus[u] # "ABSENT"
\* ... or hand out one that is PENDING.
HandsOut(u, a) ==
  /\ itemStatus[u] = "PENDING"
  /\ itemStatus' = [itemStatus EXCEPT ![u] = "RUNNING"]
  /\ assigned' = [assigned EXCEPT ![u] = a]

ItemStep ==
  \/ Untouched
  \/ \E S \in SUBSET Url, status \in ItemStatuses \cup {"ABSENT"} : Sets(S, status)
  \/ \E u \in Url, a \in Agent : HandsOut(u, a)

\* Writing one item's status, and no owner, is an item step unless it writes RUNNING.
LEMMA SetOne ==
  ASSUME TypeOK, NEW u \in Url, NEW status \in (ItemStatuses \cup {"ABSENT"}) \ {"RUNNING"},
         SetItem(u, status), assigned' \in [Url -> Agent \cup {NoAgent}],
         \A v \in Url \ {u} : assigned'[v] = assigned[v],
         status \in {"PENDING", "ABSENT"} \/ itemStatus[u] # "ABSENT"
  PROVE  ItemStep
<1>1. itemStatus' = [v \in Url |-> IF v \in {u} THEN status ELSE itemStatus[v]]
  BY DEF SetItem, TypeOK, RowsOK
<1>2. Sets({u}, status)
  BY <1>1 DEF Sets, ItemStatuses
<1>3. {u} \in SUBSET Url
  OBVIOUS
<1> QED BY <1>2, <1>3 DEF ItemStep

\* The usual case: a status is set, owners are left alone.
LEMMA SetStatusOnly ==
  ASSUME TypeOK, NEW u \in Url, NEW status \in (ItemStatuses \cup {"ABSENT"}) \ {"RUNNING"},
         SetItem(u, status), UNCHANGED assigned,
         status = "PENDING" \/ itemStatus[u] # "ABSENT"
  PROVE  ItemStep
BY SetOne DEF TypeOK, RowsOK

\* Requeueing a set of items is an item step.
LEMMA RequeueStep ==
  ASSUME TypeOK, NEW S \in SUBSET Url, Requeue(S)
  PROVE  ItemStep
<1>1. Sets(S, "PENDING")
  BY DEF Sets, Requeue, TypeOK, RowsOK, ItemStatuses
<1> QED BY <1>1 DEF ItemStep, ItemStatuses

\* Every action does one of three things to the items: nothing, one status and no owner for some of them, or a hand-out.
LEMMA NextIsItemStep ==
  ASSUME TypeOK, [Next]_vars
  PROVE  ItemStep
<1>0. \A c \in Call : /\ call[c].url \in Url /\ call[c].todo \in SUBSET Url
                      /\ At(c, "claimTake") => call[c].agent \in Agent
  BY DEF TypeOK, ControlOK, LoadedSlots, Slots, At
<1>1. ASSUME NEW c \in Call, PrepareNext(c)
      PROVE  ItemStep
  <2>1. CASE PrepareListing(c) /\ taskStatus # "DELETED"
    BY <2>1, SetStatusOnly DEF PrepareListing, ItemStatuses, Url
  <2> QED BY <1>1, <2>1 DEF PrepareNext, PrepareStart, PrepareListing, PrepareCheck, PrepareFail,
                            rows, ItemStep, Untouched
<1>2. ASSUME NEW c \in Call, RefreshNext(c)
      PROVE  ItemStep
  BY <1>2 DEF RefreshNext, RefreshRead, RefreshItems, RefreshWrite, rows, ItemStep, Untouched
<1>3. ASSUME NEW c \in Call, HandlerNext(c)
      PROVE  ItemStep
  <2>1. CASE UpsertItem(c)
    <3>1. ASSUME NEW u \in call[c].todo, SetItem(u, "PENDING")
          PROVE  ItemStep
      BY <1>0, <2>1, <3>1, SetStatusOnly DEF UpsertItem, ItemStatuses
    <3> QED BY <2>1, <3>1 DEF UpsertItem, ItemStep, Untouched
  <2>2. ASSUME NEW delivered \in BOOLEAN, ClaimTake(c, delivered)
        PROVE  ItemStep
    <3> DEFINE u == call[c].url
               a == call[c].agent
    <3>1. CASE StillPending(u)
      <4>1. HandsOut(u, a)
        BY <2>2, <3>1 DEF ClaimTake, HandsOut, SetItem, StillPending
      <4> QED BY <1>0, <2>2, <4>1 DEF ClaimTake, ItemStep
    <3>2. CASE ~StillPending(u)
      BY <2>2, <3>2 DEF ClaimTake, ItemStep, Untouched
    <3> QED BY <3>1, <3>2
  <2>3. CASE ExpandDelete(c)
    <3>1. CASE itemStatus[Listing] = "ABSENT"
      BY <2>3, <3>1 DEF ExpandDelete, ItemStep, Untouched
    <3>2. CASE itemStatus[Listing] # "ABSENT"
      BY <2>3, <3>2, SetOne DEF ExpandDelete, TypeOK, RowsOK, Url
    <3> QED BY <3>1, <3>2
  <2>4. CASE SuccessWrite(c) \/ SkipWrite(c) \/ RetryMark(c) \/ FailWrite(c)
    <3>1. CASE itemStatus[call[c].url] = "ABSENT"
      BY <2>4, <3>1 DEF SuccessWrite, SkipWrite, RetryMark, FailWrite, ItemStep, Untouched
    <3>2. CASE itemStatus[call[c].url] # "ABSENT"
      <4>1. PICK status \in {"SUCCESS", "SKIPPED", "RETRYING", "FAILED"} :
              SetItem(call[c].url, status) /\ UNCHANGED assigned
        BY <2>4, <3>2 DEF SuccessWrite, SkipWrite, RetryMark, FailWrite
      <4> QED BY <1>0, <3>2, <4>1, SetStatusOnly DEF ItemStatuses
    <3> QED BY <3>1, <3>2
  <2>5. CASE ReleaseWrite(c)
    <3>1. CASE itemStatus[call[c].url] = "ABSENT"
      BY <2>5, <3>1 DEF ReleaseWrite, ItemStep, Untouched
    <3>2. CASE itemStatus[call[c].url] # "ABSENT"
      BY <1>0, <2>5, <3>2, RequeueStep DEF ReleaseWrite
    <3> QED BY <3>1, <3>2
  <2>6. CASE CancelItems(c)
    <3> DEFINE S == {u \in Url : itemStatus[u] \in Open}
    <3>1. Sets(S, "SKIPPED")
      BY <2>6 DEF CancelItems, Sets, Open, TypeOK, RowsOK, ItemStatuses
    <3> QED BY <3>1 DEF ItemStep, ItemStatuses
  <2>7. CASE DeleteRow(c)
    <3>1. Sets(Url, "ABSENT")
      BY <2>7 DEF DeleteRow, Sets, ItemStatuses
    <3> QED BY <3>1 DEF ItemStep
  <2>8. CASE WritePool(c) \/ ClaimFind(c) \/ FailRead(c) \/ FillTask(c) \/ FillItems(c)
             \/ RetryFind(c) \/ RetryAdd(c) \/ CancelTask(c)
    BY <2>8 DEF WritePool, ClaimFind, FailRead, FillTask, FillItems, RetryFind, RetryAdd,
                CancelTask, rows, ItemStep, Untouched
  <2> QED BY <1>3, <2>1, <2>2, <2>3, <2>4, <2>5, <2>6, <2>7, <2>8 DEF HandlerNext
<1>4. ASSUME NEW c \in Call,
             UserNext(c) \/ \E u \in Url : ReleaseStart(c, u)
      PROVE  ItemStep
  BY <1>4 DEF UserNext, RetryFailed, RetryItem, CancelStart, DeleteStart, ReleaseStart,
              rows, ItemStep, Untouched
<1>5. ASSUME NEW c \in Call, NEW a \in Agent, AgentNext(c, a)
      PROVE  ItemStep
  <2>1. ASSUME NEW stuck \in SUBSET Url, ClaimStart(c, a, stuck)
        PROVE  ItemStep
    BY <2>1, RequeueStep DEF ClaimStart
  <2> QED BY <1>5, <2>1 DEF AgentNext, ReportListing, ReportProduct, ReportFailure, rows,
                            ItemStep, Untouched
<1>6. CASE (\E a \in Agent : AgentForgets(a)) \/ PrepareTimeout \/ Restart \/ UNCHANGED vars
  BY <1>6 DEF AgentForgets, PrepareTimeout, Restart, vars, rows, ItemStep, Untouched
<1> QED BY <1>1, <1>2, <1>3, <1>4, <1>5, <1>6 DEF Next

\* Only a claim sets RUNNING, and it writes the agent's id with it.
THEOREM OwnersKept == TypeOK /\ RunningHasOwner /\ [Next]_vars => RunningHasOwner'
<1> SUFFICES ASSUME TypeOK, RunningHasOwner, [Next]_vars PROVE RunningHasOwner'
  OBVIOUS
<1>1. CASE Untouched
  BY <1>1 DEF Untouched, RunningHasOwner
<1>2. ASSUME NEW S \in SUBSET Url, NEW status, Sets(S, status)
      PROVE  RunningHasOwner'
  BY <1>2 DEF Sets, RunningHasOwner
<1>3. ASSUME NEW u \in Url, NEW a \in Agent, HandsOut(u, a)
      PROVE  RunningHasOwner'
  BY <1>3 DEF HandsOut, RunningHasOwner, TypeOK, RowsOK
<1> QED BY <1>1, <1>2, <1>3, NextIsItemStep DEF ItemStep

\* A RUNNING item always names the agent that took it, however handlers interleave.
THEOREM RunningOwned == Spec => []RunningHasOwner
<1>1. Init => RunningHasOwner
  BY DEF Init, RunningHasOwner
<1> QED BY <1>1, TypeCorrect, OwnersKept, PTL DEF Spec

(***************************************************************************)
(* CrawlerTask implements Dispatch.                                        *)
(***************************************************************************)
\* Every step of the handlers is a step of Dispatch, or leaves its items alone.
THEOREM HandoutStep ==
  TypeOK /\ RunningHasOwner /\ RunningHasOwner' /\ [Next]_vars
  => [Dispatching!DispatchNext]_(Dispatching!dispatchVars)
<1> SUFFICES ASSUME TypeOK, RunningHasOwner, [Next]_vars
             PROVE  [Dispatching!DispatchNext]_(Dispatching!dispatchVars)
  OBVIOUS
<1>1. CASE Untouched
  BY <1>1 DEF Untouched, Dispatching!dispatchVars, DispatchState, DispatchHolder
<1>2. ASSUME NEW S \in SUBSET Url, NEW status, Sets(S, status)
      PROVE  Dispatching!DispatchNext
  <2> DEFINE abstract == CASE status = "ABSENT" -> "none"
                           [] status = "PENDING" -> "offered"
                           [] status \notin {"ABSENT", "PENDING", "RUNNING"} -> "parked"
  <2>1. DispatchState' = [u \in Url |-> IF u \in S THEN abstract ELSE DispatchState[u]]
    BY <1>2 DEF Sets, DispatchState, ItemStatuses
  <2>2. DispatchHolder' = [u \in Url |-> IF u \in S THEN NoAgent ELSE DispatchHolder[u]]
    BY <1>2 DEF Sets, DispatchHolder
  <2>3. Dispatching!Release(S, abstract)
    BY <2>1, <2>2 DEF Dispatching!Release
  <2>4. CASE status = "ABSENT"
    BY <2>3, <2>4 DEF Dispatching!DispatchNext, Dispatching!Remove
  <2>5. CASE status = "PENDING"
    BY <2>3, <2>5 DEF Dispatching!DispatchNext, Dispatching!Offer
  <2>6. CASE status \notin {"ABSENT", "PENDING"}
    <3>1. abstract = "parked" /\ \A u \in S : DispatchState[u] # "none"
      BY <1>2, <2>6 DEF Sets, DispatchState, TypeOK, RowsOK, ItemStatuses
    <3> QED BY <2>3, <3>1 DEF Dispatching!DispatchNext, Dispatching!Park
  <2> QED BY <2>4, <2>5, <2>6
<1>3. ASSUME NEW u \in Url, NEW a \in Agent, HandsOut(u, a)
      PROVE  Dispatching!DispatchNext
  <2>1. DispatchState[u] = "offered"
    BY <1>3 DEF HandsOut, DispatchState
  <2>2. DispatchState' = [DispatchState EXCEPT ![u] = "held"]
    BY <1>3 DEF HandsOut, DispatchState, TypeOK, RowsOK
  <2>3. DispatchHolder' = [DispatchHolder EXCEPT ![u] = a]
    BY <1>3 DEF HandsOut, DispatchHolder, TypeOK, RowsOK
  <2> QED BY <2>1, <2>2, <2>3 DEF Dispatching!DispatchNext, Dispatching!Take
<1> QED BY <1>1, <1>2, <1>3, NextIsItemStep DEF ItemStep

\* Items go from one agent to another only by being offered again.
THEOREM HandoutImplemented == Spec => ImplementsDispatch
<1>1. Init => Dispatching!DispatchInit
  BY DEF Init, Dispatching!DispatchInit, DispatchState, DispatchHolder
<1> QED BY <1>1, TypeCorrect, RunningOwned, HandoutStep, PTL
        DEF Spec, ImplementsDispatch, Dispatching!DispatchSpec

(***************************************************************************)
(* The category page's candidates: handlers at their awaits may overwrite  *)
(* the pool with what they read of it long ago, and lose none.             *)
(***************************************************************************)
\* A handler that expands the page, or back-fills.
Expanding(c) == call[c].pc \in {"expandUpsert", "expandPool"}
Filling(c) == call[c].pc \in {"fillUpsert", "fillPool"}

\* What a handler carries accounts for the candidates H: they are still in its hands
\* or items already.
Accounts(H, carried, written) == carried \subseteq H /\ H \subseteq carried \cup written \cup Existing

\* The candidates left of the category page, once it was expanded: in the pool, or
\* items; each handler that read the pool accounts for all of them.
Keeps(H) ==
  /\ Accounts(H, pool, {})
  /\ \A c \in Call :
       /\ At(c, "fillItems") => call[c].pool = {} \/ Accounts(H, call[c].pool, {})
       /\ At(c, "fillUpsert") => Accounts(H, call[c].pool, call[c].todo)
       /\ At(c, "fillPool") => Accounts(H, call[c].pool, {})
       /\ Filling(c) => H # {}
       /\ Expanding(c) => H = {} /\ harvests # 0
  /\ harvests = 0 => H = {}
OneExpands == \A c, d \in Call : Expanding(c) /\ Expanding(d) => c = d
PoolKept ==
  (harvests <= 1 /\ taskStatus # "DELETED") => OneExpands /\ \E H \in SUBSET Product : Keeps(H)

\* The steps of a handler that deals with the pool.
PoolSteps == {"fillItems", "fillUpsert", "fillPool", "expandUpsert", "expandPool"}

\* A handler goes elsewhere, and the others stay.
Goes(c, to) == call'[c].pc \in to /\ \A d \in Call : d # c => call'[d] = call[d]

\* Where a handler goes by each of the ways it may go on.
LEMMA GoesBy ==
  ASSUME TypeOK, NEW c \in Call
  PROVE  /\ \A step : Goto(c, step) => Goes(c, {step})
         /\ Finish(c) => Goes(c, {"idle"})
         /\ GotoRefresh(c) => Goes(c, {"refresh"})
         /\ \A slot : Continue(c, slot) => Goes(c, {slot.pc})
<1>1. \A slot : Continue(c, slot) => call'[c] = slot /\ \A d \in Call : d # c => call'[d] = call[d]
  BY DEF TypeOK, ControlOK, Continue
<1>2. \A slot : Continue(c, slot) => Goes(c, {slot.pc})
  BY <1>1 DEF Goes
<1>3. \A step : [call[c] EXCEPT !.pc = step].pc = step
  BY DEF TypeOK, ControlOK, LoadedSlots, Slots
<1>4. \A step : Goto(c, step) => Goes(c, {step})
  BY <1>2, <1>3 DEF Goto
<1>5. GotoRefresh(c) => Goes(c, {"refresh"})
  <2> DEFINE slot == [Idle EXCEPT !.pc = "refresh", !.job = call[c].job,
                        !.url = IF call[c].job = "retry" THEN call[c].url ELSE Listing]
  <2>1. slot.pc = "refresh"
    BY DEF Idle
  <2>2. GotoRefresh(c) => Continue(c, slot)
    BY DEF GotoRefresh
  <2> HIDE DEF slot
  <2> QED BY <1>2, <2>1, <2>2
<1>6. Finish(c) => Goes(c, {"idle"})
  BY DEF Finish, Goes, TypeOK, ControlOK, Idle
<1> QED BY <1>2, <1>4, <1>5, <1>6

\* The steps that have nothing to do with it.
Away == Steps \ PoolSteps
GoesAway(c) == Goes(c, Away) \/ call' = call

\* A step among those is one of them.
LEMMA Widen == ASSUME NEW c \in Call, NEW step \in Away, Goes(c, {step}) PROVE GoesAway(c)
BY DEF Goes, GoesAway

\* Going on to one of those, ending and refreshing go away from the pool.
LEMMA AwayBy ==
  ASSUME TypeOK, NEW c \in Call
  PROVE  /\ \A step \in Away : Goto(c, step) => GoesAway(c)
         /\ \A slot : Continue(c, slot) /\ slot.pc \in Away => GoesAway(c)
         /\ Finish(c) \/ GotoRefresh(c) \/ call' = call => GoesAway(c)
<1>1. {"idle", "refresh"} \subseteq Away
  BY DEF Away, PoolSteps, Steps, RefreshSteps
<1>2. call' = call => GoesAway(c)
  BY DEF GoesAway
<1> QED BY <1>1, <1>2, GoesBy, Widen

\* Preparing, refreshing and claiming have no part in the pool.
LEMMA OtherStarts ==
  ASSUME TypeOK, NEW c \in Call, PrepareNext(c) \/ RefreshNext(c) \/ UserNext(c) \/ \E u \in Url : ReleaseStart(c, u)
  PROVE  GoesAway(c)
<1>0. {"idle", "prepListing", "prepCheck", "prepUpsert", "refresh", "refreshItems", "refreshWrite", "retryAdd",
       "retryFind", "cancelItems", "deleteRow", "releaseWrite"} \subseteq Away
  BY DEF Away, PoolSteps, Steps, PrepareSteps, RefreshSteps
<1>1. CASE PrepareStart(c)
  <2>1. \A slot : call' = [call EXCEPT ![c] = slot] => Goes(c, {slot.pc})
    BY DEF TypeOK, ControlOK, Goes
  <2>2. \A step : [Idle EXCEPT !.job = "prepare", !.pc = step].pc = step
    BY DEF Idle
  <2>3. \A step \in Away : call' = [call EXCEPT ![c] = [Idle EXCEPT !.job = "prepare", !.pc = step]] => GoesAway(c)
    BY <2>1, <2>2, Widen
  <2> QED BY <1>0, <1>1, <2>3, AwayBy DEF PrepareStart
<1>2. CASE PrepareListing(c) \/ PrepareFail(c)
  BY <1>2, AwayBy DEF PrepareListing, PrepareFail
<1>3. CASE PrepareCheck(c)
  <2>1. [call[c] EXCEPT !.pc = "prepUpsert", !.todo = ConfigUrls].pc = "prepUpsert"
    BY DEF TypeOK, ControlOK, LoadedSlots, Slots
  <2>1a. Continue(c, [call[c] EXCEPT !.pc = "prepUpsert", !.todo = ConfigUrls]) => GoesAway(c)
    BY <1>0, <2>1, AwayBy
  <2> QED BY <1>0, <1>3, <2>1a, AwayBy DEF PrepareCheck
<1>4. CASE RefreshNext(c)
  <2>1. \A x : [call[c] EXCEPT !.pc = "refreshItems", !.seen = x].pc = "refreshItems"
    BY DEF TypeOK, ControlOK, LoadedSlots, Slots
  <2>1a. \A x : Continue(c, [call[c] EXCEPT !.pc = "refreshItems", !.seen = x]) => GoesAway(c)
    BY <1>0, <2>1, AwayBy
  <2>2. \A x : [call[c] EXCEPT !.pc = "refreshWrite", !.seen = x].pc = "refreshWrite"
    BY DEF TypeOK, ControlOK, LoadedSlots, Slots
  <2>2a. \A x : Continue(c, [call[c] EXCEPT !.pc = "refreshWrite", !.seen = x]) => GoesAway(c)
    BY <1>0, <2>2, AwayBy
  <2> QED BY <1>0, <1>4, <2>1a, <2>2a, AwayBy DEF RefreshNext, RefreshRead, RefreshItems, RefreshWrite
<1>5. CASE UserNext(c)
  <2>1. \A todo : RetryingByUser(todo).pc = "retryAdd"
    BY DEF RetryingByUser, Idle
  <2>2. \A todo : Continue(c, RetryingByUser(todo)) => GoesAway(c)
    BY <1>0, <2>1, AwayBy
  <2>3. \A step : [Idle EXCEPT !.pc = step].pc = step
    BY DEF Idle
  <2>4. \A step \in Away : Continue(c, [Idle EXCEPT !.pc = step]) => GoesAway(c)
    BY <2>3, AwayBy
  <2> QED BY <1>0, <1>5, <2>2, <2>4 DEF UserNext, RetryItem, RetryFailed, CancelStart, DeleteStart
<1>6. ASSUME NEW u \in Url, ReleaseStart(c, u) PROVE GoesAway(c)
  <2>1. [Idle EXCEPT !.pc = "releaseWrite", !.url = u, !.job = "retry"].pc = "releaseWrite"
    BY DEF Idle
  <2>1a. Continue(c, [Idle EXCEPT !.pc = "releaseWrite", !.url = u, !.job = "retry"]) => GoesAway(c)
    BY <1>0, <2>1, AwayBy
  <2> QED BY <1>0, <1>6, <2>1a, AwayBy DEF ReleaseStart
<1> QED BY <1>1, <1>2, <1>3, <1>4, <1>5, <1>6 DEF PrepareNext

\* Nor have an agent's requests, but for a report of the category page.
LEMMA OtherAgentSteps ==
  ASSUME TypeOK, NEW c \in Call, NEW a \in Agent, AgentNext(c, a),
         ~\E harvest \in SUBSET Product : harvest # {} /\ ReportListing(c, a, harvest)
  PROVE  GoesAway(c)
<1>0. {"claimFind", "failRead", "skipWrite", "successWrite", "failWrite"} \subseteq Away
  BY DEF Away, PoolSteps, Steps
<1>1. ASSUME NEW stuck \in SUBSET Url, ClaimStart(c, a, stuck) PROVE GoesAway(c)
  <2>1. [Idle EXCEPT !.pc = "claimFind", !.agent = a].pc = "claimFind"
    BY DEF Idle
  <2>1a. Continue(c, [Idle EXCEPT !.pc = "claimFind", !.agent = a]) => GoesAway(c)
    BY <1>0, <2>1, AwayBy
  <2> QED BY <1>0, <1>1, <2>1a, AwayBy DEF ClaimStart
<1>2. CASE ReportListing(c, a, {})
  <2>1. [Idle EXCEPT !.pc = "failRead"].pc = "failRead"
    BY DEF Idle
  <2>1a. Continue(c, [Idle EXCEPT !.pc = "failRead"]) => GoesAway(c)
    BY <1>0, <2>1, AwayBy
  <2> QED BY <1>0, <1>2, <2>1a, AwayBy DEF ReportListing, Begin
<1>3. ASSUME NEW u \in Url, NEW mismatch \in BOOLEAN, ReportProduct(c, a, u, mismatch)
      PROVE  GoesAway(c)
  <2>1. [Idle EXCEPT !.pc = IF mismatch THEN "skipWrite" ELSE "successWrite", !.url = u].pc \in {"skipWrite", "successWrite"}
    BY DEF Idle
  <2>1a. Continue(c, [Idle EXCEPT !.pc = IF mismatch THEN "skipWrite" ELSE "successWrite", !.url = u]) => GoesAway(c)
    BY <1>0, <2>1, AwayBy
  <2> QED BY <1>0, <1>3, <2>1a, AwayBy DEF ReportProduct, Begin
<1>4. ASSUME NEW u \in Url, NEW reason \in {"captcha", "retryable"}, ReportFailure(c, a, u, reason)
      PROVE  GoesAway(c)
  <2>1. Failing(u, reason).pc = "failWrite"
    BY DEF Failing, Idle
  <2>1a. Continue(c, Failing(u, reason)) => GoesAway(c)
    BY <1>0, <2>1, AwayBy
  <2> QED BY <1>0, <1>4, <2>1a, AwayBy DEF ReportFailure, Begin
<1> QED BY <1>1, <1>2, <1>3, <1>4 DEF AgentNext

\* Nor have the handlers past their first call, but for those that deal with it.
LEMMA OtherHandlers ==
  ASSUME TypeOK, NEW c \in Call, HandlerNext(c), ~UpsertItem(c), ~WritePool(c), ~FillTask(c), ~FillItems(c)
  PROVE  GoesAway(c)
<1>0. {"idle", "refresh", "claimTake", "fillTask", "failWrite", "retryAdd", "retryMark", "cancelTask"} \subseteq Away
  BY DEF Away, PoolSteps, Steps, RefreshSteps
<1>1. CASE ClaimFind(c) \/ \E delivered \in BOOLEAN : ClaimTake(c, delivered)
  <2>1. \A u : [call[c] EXCEPT !.pc = "claimTake", !.url = u].pc = "claimTake"
    BY DEF TypeOK, ControlOK, LoadedSlots, Slots
  <2>1a. \A u : Continue(c, [call[c] EXCEPT !.pc = "claimTake", !.url = u]) => GoesAway(c)
    BY <1>0, <2>1, AwayBy
  <2> QED BY <1>0, <1>1, <2>1a, AwayBy DEF ClaimFind, ClaimTake
<1>2. CASE ExpandDelete(c) \/ SuccessWrite(c) \/ SkipWrite(c)
  BY <1>0, <1>2, AwayBy DEF ExpandDelete, SuccessWrite, SkipWrite
<1>3. CASE FailRead(c) \/ FailWrite(c)
  <2>1. \A u, reason : Failing(u, reason).pc = "failWrite"
    BY DEF Failing, Idle
  <2>1a. \A u, reason : Continue(c, Failing(u, reason)) => GoesAway(c)
    BY <1>0, <2>1, AwayBy
  <2>2. \A todo : [Idle EXCEPT !.pc = "retryAdd", !.todo = todo, !.seen = "auto"].pc = "retryAdd"
    BY DEF Idle
  <2>2a. \A todo : Continue(c, [Idle EXCEPT !.pc = "retryAdd", !.todo = todo, !.seen = "auto"]) => GoesAway(c)
    BY <1>0, <2>2, AwayBy
  <2> QED BY <1>0, <1>3, <2>1a, <2>2a, AwayBy DEF FailRead, FailWrite
<1>4. CASE RetryFind(c) \/ RetryAdd(c) \/ RetryMark(c)
  <2>1. \A todo : RetryingByUser(todo).pc = "retryAdd"
    BY DEF RetryingByUser, Idle
  <2>1a. \A todo : Continue(c, RetryingByUser(todo)) => GoesAway(c)
    BY <1>0, <2>1, AwayBy
  <2>2. \A u : [call[c] EXCEPT !.pc = "retryMark", !.url = u].pc = "retryMark"
    BY DEF TypeOK, ControlOK, LoadedSlots, Slots
  <2>2a. \A u : Continue(c, [call[c] EXCEPT !.pc = "retryMark", !.url = u]) => GoesAway(c)
    BY <1>0, <2>2, AwayBy
  <2>3. \A todo : [call[c] EXCEPT !.pc = "retryAdd", !.todo = todo].pc = "retryAdd"
    BY DEF TypeOK, ControlOK, LoadedSlots, Slots
  <2>3a. \A todo : Continue(c, [call[c] EXCEPT !.pc = "retryAdd", !.todo = todo]) => GoesAway(c)
    BY <1>0, <2>3, AwayBy
  <2> QED BY <1>0, <1>4, <2>1a, <2>2a, <2>3a, AwayBy DEF RetryFind, RetryAdd, RetryMark
<1>5. CASE ReleaseWrite(c) \/ CancelItems(c) \/ CancelTask(c) \/ DeleteRow(c)
  BY <1>0, <1>5, AwayBy DEF ReleaseWrite, CancelItems, CancelTask, DeleteRow
<1> QED BY <1>1, <1>2, <1>3, <1>4, <1>5 DEF HandlerNext

\* Unless the task is deleted it was not before, and no product item goes.
LEMMA RowsStay ==
  ASSUME TypeOK, [Next]_vars, taskStatus' # "DELETED"
  PROVE  taskStatus # "DELETED" /\ Existing \subseteq Existing' /\ ~\E c \in Call : DeleteRow(c)
<1> DEFINE Kept == \A p \in Product : itemStatus[p] # "ABSENT" => itemStatus'[p] # "ABSENT"
<1>0. itemStatus \in [Url -> ItemStatuses \cup {"ABSENT"}] /\ itemStatus' = itemStatus => Kept
  BY DEF Url
<1>1. ~\E c \in Call : DeleteRow(c)
  BY DEF DeleteRow
<1>2. taskStatus # "DELETED"
  <2>1. ASSUME NEW c \in Call, HandlerNext(c) PROVE taskStatus # "DELETED"
    BY <1>1, <2>1 DEF HandlerNext, UpsertItem, WritePool, ClaimFind, ClaimTake, ExpandDelete, SuccessWrite, SkipWrite,
       FailRead, FailWrite, FillTask, FillItems, RetryFind, RetryAdd, RetryMark, ReleaseWrite, CancelItems,
       CancelTask, rows
  <2>2. ASSUME NEW c \in Call, PrepareNext(c) \/ RefreshNext(c) PROVE taskStatus # "DELETED"
    BY <2>2 DEF PrepareNext, PrepareStart, PrepareListing, PrepareCheck, PrepareFail, FailTask, RefreshNext,
       RefreshRead, RefreshItems, RefreshWrite, rows
  <2>3. ASSUME NEW c \in Call, UserNext(c) \/ \E u \in Url : ReleaseStart(c, u) PROVE taskStatus # "DELETED"
    BY <2>3 DEF UserNext, RetryFailed, RetryItem, CancelStart, DeleteStart, ReleaseStart, rows
  <2>4. ASSUME NEW c \in Call, NEW a \in Agent, AgentNext(c, a) PROVE taskStatus # "DELETED"
    BY <2>4 DEF AgentNext, ClaimStart, ReportListing, ReportProduct, ReportFailure, rows
  <2>5. CASE (\E a \in Agent : AgentForgets(a)) \/ PrepareTimeout \/ Restart \/ UNCHANGED vars
    BY <2>5 DEF AgentForgets, PrepareTimeout, FailTask, Restart, vars, rows
  <2> QED BY <2>1, <2>2, <2>3, <2>4, <2>5 DEF Next
<1>3. \A u \in Url, status \in ItemStatuses : SetItem(u, status) => Kept
  BY DEF SetItem, TypeOK, RowsOK, Url, ItemStatuses
<1>4. \A S \in SUBSET Url : Requeue(S) => Kept
  BY DEF Requeue, Url
<1>5. Kept
  <2>1. ASSUME NEW c \in Call, HandlerNext(c) PROVE Kept
    <3>1. call[c].url \in Url /\ call[c].todo \subseteq Url
      BY DEF TypeOK, ControlOK, LoadedSlots, Slots
    <3>2. CASE UpsertItem(c) \/ SuccessWrite(c) \/ SkipWrite(c) \/ FailWrite(c) \/ RetryMark(c)
               \/ \E delivered \in BOOLEAN : ClaimTake(c, delivered)
      <4>1. {"PENDING", "SUCCESS", "SKIPPED", "RETRYING", "FAILED", "RUNNING"} \subseteq ItemStatuses
        BY DEF ItemStatuses
      <4>2. itemStatus' = itemStatus \/ \E u \in Url, status \in ItemStatuses : SetItem(u, status)
        BY <3>1, <3>2, <4>1 DEF UpsertItem, SuccessWrite, SkipWrite, FailWrite, RetryMark, ClaimTake
      <4> QED BY <1>0, <1>3, <4>2 DEF TypeOK, RowsOK
    <3>3. CASE ExpandDelete(c)
      <4>1. Listing \notin Product
        BY CrawlerAssumptions
      <4> QED BY <3>3, <4>1 DEF ExpandDelete, SetItem, TypeOK, RowsOK, Url
    <3>4. CASE ReleaseWrite(c)
      <4>1. {call[c].url} \subseteq Url
        BY <3>1
      <4> QED BY <1>0, <1>4, <3>4, <4>1 DEF ReleaseWrite, TypeOK, RowsOK
    <3>5. CASE CancelItems(c)
      BY <3>5 DEF CancelItems, Url
    <3>6. CASE WritePool(c) \/ ClaimFind(c) \/ FailRead(c) \/ FillTask(c) \/ FillItems(c)
             \/ RetryFind(c) \/ RetryAdd(c) \/ CancelTask(c)
      BY <1>0, <3>6 DEF WritePool, ClaimFind, FailRead, FillTask, FillItems, RetryFind, RetryAdd, CancelTask, rows, TypeOK, RowsOK
    <3> QED BY <1>1, <2>1, <3>2, <3>3, <3>4, <3>5, <3>6 DEF HandlerNext
  <2>2. ASSUME NEW c \in Call, PrepareNext(c) PROVE Kept
    <3>1. CASE PrepareListing(c)
      BY <1>0, <1>3, <3>1 DEF PrepareListing, TypeOK, RowsOK, Url, ItemStatuses
    <3> QED BY <1>0, <2>2, <3>1 DEF PrepareNext, PrepareStart, PrepareCheck, PrepareFail, rows, TypeOK, RowsOK
  <2>3. ASSUME NEW c \in Call, NEW a \in Agent, NEW stuck \in SUBSET Url, ClaimStart(c, a, stuck) PROVE Kept
    BY <1>4, <2>3 DEF ClaimStart
  <2>4. CASE \/ \E c \in Call : \/ RefreshNext(c) \/ UserNext(c) \/ \E u \in Url : ReleaseStart(c, u)
                              \/ \E a \in Agent : \/ \E harvest \in SUBSET Product : ReportListing(c, a, harvest)
                                                  \/ \E u \in Url :
                                                       \/ \E mismatch \in BOOLEAN : ReportProduct(c, a, u, mismatch)
                                                       \/ \E reason \in {"captcha", "retryable"} : ReportFailure(c, a, u, reason)
             \/ (\E a \in Agent : AgentForgets(a)) \/ PrepareTimeout \/ Restart \/ UNCHANGED vars
    <3>1. itemStatus' = itemStatus
      BY <2>4 DEF RefreshNext, RefreshRead, RefreshItems, RefreshWrite, UserNext, RetryFailed, RetryItem, CancelStart,
         DeleteStart, ReleaseStart, ReportListing, ReportProduct, ReportFailure, AgentForgets, PrepareTimeout, Restart,
         vars, rows
    <3> QED BY <1>0, <3>1 DEF TypeOK, RowsOK
  <2> QED BY <2>1, <2>2, <2>3, <2>4 DEF Next, AgentNext
<1>6. TypeOK'
  BY TypesKept
<1>7. Existing \subseteq Existing'
  BY <1>5, <1>6 DEF Existing, ProductsIn, TypeOK, RowsOK, Url, ItemStatuses
<1> QED BY <1>1, <1>2, <1>7

\* A handler that has no part in the pool leaves it accounted for.
LEMMA AwayKeeps ==
  ASSUME NEW c \in Call, GoesAway(c), pool' = pool, harvests' = harvests, Existing \subseteq Existing',
         OneExpands, NEW H \in SUBSET Product, Keeps(H)
  PROVE  OneExpands' /\ Keeps(H)'
<1>1. CASE call' = call
  BY <1>1 DEF OneExpands, Keeps, Accounts, Expanding, Filling, At
<1>2. CASE Goes(c, Away)
  <2>1. call'[c].pc \notin PoolSteps /\ \A d \in Call : d # c => call'[d] = call[d]
    BY <1>2 DEF Goes, Away
  <2>2. ~Expanding(c)' /\ ~Filling(c)' /\ ~At(c, "fillItems")' /\ ~At(c, "fillUpsert")' /\ ~At(c, "fillPool")'
    BY <2>1 DEF PoolSteps, Expanding, Filling, At
  <2> QED BY <2>1, <2>2 DEF OneExpands, Keeps, Accounts, Expanding, Filling, At
<1> QED BY <1>1, <1>2 DEF GoesAway

\* Every step keeps the candidates: the page is expanded before anything is back-filled,
\* and what a back-fill has read of the pool accounts for them even after another
\* back-fill has written it.
THEOREM PoolStep == TypeOK /\ PoolKept /\ [Next]_vars => PoolKept'
<1> SUFFICES ASSUME TypeOK, PoolKept, [Next]_vars, harvests' <= 1, taskStatus' # "DELETED"
             PROVE  OneExpands' /\ \E H \in SUBSET Product : Keeps(H)'
  BY DEF PoolKept
<1>1. taskStatus # "DELETED" /\ Existing \subseteq Existing' /\ ~\E c \in Call : DeleteRow(c)
  BY RowsStay
<1>2. harvests' \in Nat /\ harvests \in Nat
  BY TypesKept DEF TypeOK, HistoryOK
<1>3. ASSUME NEW c \in Call, NEW a \in Agent, NEW harvest \in SUBSET Product, harvest # {}, ReportListing(c, a, harvest)
      PROVE  OneExpands' /\ \E H \in SUBSET Product : Keeps(H)'
  <2>1. harvests' = (IF Accepted(a, Listing) THEN harvests + 1 ELSE harvests) /\ pool' = pool
    BY <1>3 DEF ReportListing, rows
  <2>2. PICK H \in SUBSET Product : OneExpands /\ Keeps(H)
    BY <1>1, <1>2, <2>1 DEF PoolKept
  <2>3. CASE ~Accepted(a, Listing)
    <3>1. call' = call
      BY <1>3, <2>3 DEF ReportListing, Begin
    <3> QED BY <1>1, <2>1, <2>2, <2>3, <3>1, AwayKeeps DEF GoesAway
  <2>4. CASE Accepted(a, Listing)
    <3>1. harvests = 0 /\ H = {} /\ harvests' # 0
      BY <1>2, <2>1, <2>2, <2>4 DEF Keeps
    <3>2. \A d \in Call : ~Expanding(d) /\ ~Filling(d)
      BY <2>2, <3>1 DEF Keeps
    <3> DEFINE slot == [Idle EXCEPT !.pc = "expandUpsert", !.todo = FirstOf(TopN, harvest), !.pool = LeftOver(TopN, harvest)]
    <3>3. slot.pc = "expandUpsert"
      BY DEF Idle
    <3>4. Continue(c, slot)
      BY <1>3, <2>4 DEF ReportListing, Begin
    <3> HIDE DEF slot
    <3>5. Goes(c, {"expandUpsert"})
      BY <3>3, <3>4, GoesBy
    <3>6. call'[c].pc = "expandUpsert" /\ \A d \in Call : d # c => call'[d] = call[d]
      BY <3>5 DEF Goes
    <3>7. OneExpands'
      BY <3>2, <3>6 DEF OneExpands, Expanding
    <3>8. Keeps(H)'
      BY <1>1, <2>1, <2>2, <3>1, <3>2, <3>6 DEF Keeps, Accounts, Expanding, Filling, At
    <3> QED BY <3>7, <3>8
  <2> QED BY <2>3, <2>4
<1>4. ASSUME NEW c \in Call, UpsertItem(c)
      PROVE  OneExpands' /\ \E H \in SUBSET Product : Keeps(H)'
  <2>1. pool' = pool /\ harvests' = harvests
    BY <1>4 DEF UpsertItem, history
  <2>2. PICK H \in SUBSET Product : OneExpands /\ Keeps(H)
    BY <1>1, <2>1 DEF PoolKept
  <2>3. PICK u \in call[c].todo : SetItem(u, "PENDING") /\
          Continue(c, [call[c] EXCEPT !.todo = call[c].todo \ {u},
            !.pc = IF call[c].todo \ {u} = {} THEN AfterUpserts[@] ELSE @])
    BY <1>1, <1>4 DEF UpsertItem
  <2> DEFINE left == call[c].todo \ {u}
             slot == [call[c] EXCEPT !.todo = left, !.pc = IF left = {} THEN AfterUpserts[@] ELSE @]
  <2>4. call[c].pc \in {"prepUpsert", "expandUpsert", "fillUpsert"}
    BY <1>4 DEF UpsertItem, AfterUpserts
  <2>5. /\ slot.pc = (IF left = {} THEN AfterUpserts[call[c].pc] ELSE call[c].pc)
        /\ slot.todo = left /\ slot.pool = call[c].pool
    BY DEF TypeOK, ControlOK, LoadedSlots, Slots
  <2>6. call'[c] = slot /\ \A d \in Call : d # c => call'[d] = call[d]
    BY <2>3 DEF Continue, TypeOK, ControlOK
  <2>7. u \in Product => u \in Existing'
    BY <2>3 DEF SetItem, TypeOK, RowsOK, Url, Existing, ProductsIn, ItemStatuses
  <2>8. Goes(c, {slot.pc})
    BY <2>6 DEF Goes
  <2> HIDE DEF slot
  <2>9. CASE call[c].pc = "prepUpsert"
    <3>1. slot.pc \in {"prepUpsert", "refresh"}
      BY <2>5, <2>9 DEF AfterUpserts
    <3>2. {"prepUpsert", "refresh"} \subseteq Away
      BY DEF Away, PoolSteps, Steps, PrepareSteps, RefreshSteps
    <3>3. GoesAway(c)
      BY <2>8, <3>1, <3>2, Widen
    <3> QED BY <1>1, <2>1, <2>2, <3>3, AwayKeeps
  <2>10. CASE call[c].pc = "expandUpsert"
    <3>1. slot.pc \in {"expandUpsert", "expandPool"}
      BY <2>5, <2>10 DEF AfterUpserts
    <3>2. Expanding(c) /\ H = {} /\ harvests # 0
      BY <2>2, <2>10 DEF Expanding, Keeps
    <3>3. OneExpands'
      BY <2>2, <2>6, <3>1, <3>2 DEF OneExpands, Expanding
    <3>4. Keeps(H)'
      BY <1>1, <2>1, <2>2, <2>6, <3>1, <3>2 DEF Keeps, Accounts, Expanding, Filling, At
    <3> QED BY <3>3, <3>4
  <2>11. CASE call[c].pc = "fillUpsert"
    <3>1. slot.pc \in {"fillUpsert", "fillPool"} /\ (slot.pc = "fillPool" => left = {})
      BY <2>5, <2>11 DEF AfterUpserts
    <3>2. H # {} /\ Accounts(H, call[c].pool, call[c].todo)
      BY <2>2, <2>11 DEF Keeps, Filling, At
    <3>3. slot.pool \subseteq H /\ H \subseteq slot.pool \cup left \cup Existing'
      BY <1>1, <2>5, <2>7, <3>2 DEF Accounts
    <3>4. OneExpands'
      BY <2>2, <2>6, <3>1 DEF OneExpands, Expanding
    <3>5. Keeps(H)'
      BY <1>1, <2>1, <2>2, <2>5, <2>6, <3>1, <3>2, <3>3 DEF Keeps, Accounts, Expanding, Filling, At
    <3> QED BY <3>4, <3>5
  <2> QED BY <2>4, <2>9, <2>10, <2>11
<1>5. ASSUME NEW c \in Call, WritePool(c)
      PROVE  OneExpands' /\ \E H \in SUBSET Product : Keeps(H)'
  <2>1. pool' = call[c].pool /\ harvests' = harvests /\ call[c].pool \subseteq Product
    BY <1>1, <1>5 DEF WritePool, history, TypeOK, ControlOK, LoadedSlots, Slots
  <2>2. PICK H \in SUBSET Product : OneExpands /\ Keeps(H)
    BY <1>1, <2>1 DEF PoolKept
  <2>3. GoesAway(c) /\ Goes(c, Away)
    <3>1. {"refresh", "expandDelete"} \subseteq Away
      BY DEF Away, PoolSteps, Steps, RefreshSteps
    <3>2. GotoRefresh(c) \/ Goto(c, "expandDelete")
      BY <1>1, <1>5 DEF WritePool
    <3> QED BY <3>1, <3>2, GoesBy DEF Goes, GoesAway
  <2>4. call'[c].pc \notin PoolSteps /\ \A d \in Call : d # c => call'[d] = call[d]
    BY <2>3 DEF Goes, Away
  <2>5. CASE call[c].pc = "expandPool"
    <3>1. H = {} /\ harvests # 0 /\ \A d \in Call : ~Filling(d) /\ (Expanding(d) => d = c)
      BY <2>2, <2>5 DEF Keeps, OneExpands, Expanding
    <3>2. \A d \in Call : At(d, "fillItems") => call[d].pool = {}
      BY <2>2, <3>1 DEF Keeps, Accounts
    <3>3. \A d \in Call : ~Expanding(d)' /\ ~Filling(d)'
      BY <2>4, <3>1 DEF Expanding, Filling, PoolSteps
    <3>4. PICK carried \in SUBSET Product : pool' = carried
      BY <2>1
    <3>5. Keeps(carried)'
      BY <2>1, <2>4, <3>1, <3>2, <3>3, <3>4 DEF Keeps, Accounts, Filling, At, PoolSteps
    <3> QED BY <3>3, <3>5 DEF OneExpands
  <2>6. CASE call[c].pc = "fillPool"
    <3>1. Accounts(H, call[c].pool, {})
      BY <2>2, <2>6 DEF Keeps, At
    <3>2. OneExpands'
      BY <2>2, <2>4 DEF OneExpands, Expanding, PoolSteps
    <3>3. Keeps(H)'
      BY <1>1, <2>1, <2>2, <2>4, <3>1 DEF Keeps, Accounts, Expanding, Filling, At, PoolSteps
    <3> QED BY <3>2, <3>3
  <2> QED BY <1>5, <2>5, <2>6 DEF WritePool
<1>6. ASSUME NEW c \in Call, FillTask(c)
      PROVE  OneExpands' /\ \E H \in SUBSET Product : Keeps(H)'
  <2>1. pool' = pool /\ harvests' = harvests
    BY <1>6 DEF FillTask, rows, history
  <2>2. PICK H \in SUBSET Product : OneExpands /\ Keeps(H)
    BY <1>1, <2>1 DEF PoolKept
  <2> DEFINE slot == [call[c] EXCEPT !.pc = "fillItems", !.pool = pool]
  <2>3. slot.pc = "fillItems" /\ slot.pool = pool
    BY DEF TypeOK, ControlOK, LoadedSlots, Slots
  <2>4. Finish(c) \/ GotoRefresh(c) \/ Continue(c, slot)
    BY <1>6 DEF FillTask
  <2> HIDE DEF slot
  <2>5. CASE Finish(c) \/ GotoRefresh(c)
    BY <1>1, <2>1, <2>2, <2>5, AwayBy, AwayKeeps
  <2>6. CASE Continue(c, slot)
    <3>1. call'[c] = slot /\ \A d \in Call : d # c => call'[d] = call[d]
      BY <2>6 DEF Continue, TypeOK, ControlOK
    <3>2. OneExpands'
      BY <2>2, <2>3, <3>1 DEF OneExpands, Expanding
    <3>3. Keeps(H)'
      BY <1>1, <2>1, <2>2, <2>3, <3>1 DEF Keeps, Accounts, Expanding, Filling, At
    <3> QED BY <3>2, <3>3
  <2> QED BY <2>4, <2>5, <2>6
<1>7. ASSUME NEW c \in Call, FillItems(c)
      PROVE  OneExpands' /\ \E H \in SUBSET Product : Keeps(H)'
  <2>1. pool' = pool /\ harvests' = harvests
    BY <1>7 DEF FillItems, rows, history
  <2>2. PICK H \in SUBSET Product : OneExpands /\ Keeps(H)
    BY <1>1, <2>1 DEF PoolKept
  <2> DEFINE next == FirstOf(Deficit, Candidates(c))
             left == LeftOver(Deficit, Candidates(c))
             slot == [call[c] EXCEPT !.pc = "fillUpsert", !.todo = next, !.pool = left]
  <2>3. slot.pc = "fillUpsert" /\ slot.todo = next /\ slot.pool = left
    BY DEF TypeOK, ControlOK, LoadedSlots, Slots
  <2>4. GotoRefresh(c) \/ (next # {} /\ Continue(c, slot))
    BY <1>7 DEF FillItems
  <2>5. next \subseteq Candidates(c) /\ left = Candidates(c) \ next
    BY FirstOfSubset DEF LeftOver
  <2> HIDE DEF slot, next, left
  <2>6. CASE GotoRefresh(c)
    BY <1>1, <2>1, <2>2, <2>6, AwayBy, AwayKeeps
  <2>7. CASE next # {} /\ Continue(c, slot)
    <3>1. call'[c] = slot /\ \A d \in Call : d # c => call'[d] = call[d]
      BY <2>7 DEF Continue, TypeOK, ControlOK
    <3>2. Accounts(H, call[c].pool, {})
      BY <1>7, <2>2, <2>5, <2>7 DEF FillItems, Keeps, Candidates
    <3>3. Accounts(H, left, next) /\ H # {}
      BY <2>5, <2>7, <3>2 DEF Accounts, Candidates
    <3>4. OneExpands'
      BY <2>2, <2>3, <3>1 DEF OneExpands, Expanding
    <3>5. left \subseteq H /\ H \subseteq left \cup next \cup Existing'
      BY <1>1, <3>3 DEF Accounts
    <3>6. Keeps(H)'
      BY <1>1, <2>1, <2>2, <2>3, <3>1, <3>3, <3>5 DEF Keeps, Accounts, Expanding, Filling, At
    <3> QED BY <3>4, <3>6
  <2> QED BY <2>4, <2>6, <2>7
<1>8. CASE Restart
  <2>1. pool' = pool /\ harvests' = harvests /\ call' = [c \in Call |-> Idle]
    BY <1>8 DEF Restart, rows
  <2>2. PICK H \in SUBSET Product : OneExpands /\ Keeps(H)
    BY <1>1, <2>1 DEF PoolKept
  <2>3. \A c \in Call : call'[c].pc = "idle"
    BY <2>1 DEF Idle
  <2> QED BY <1>1, <2>1, <2>2, <2>3 DEF OneExpands, Keeps, Accounts, Expanding, Filling, At
<1>9. ASSUME NEW c \in Call, GoesAway(c), pool' = pool, harvests' = harvests
      PROVE  OneExpands' /\ \E H \in SUBSET Product : Keeps(H)'
  <2>1. PICK H \in SUBSET Product : OneExpands /\ Keeps(H)
    BY <1>1, <1>9 DEF PoolKept
  <2> QED BY <1>1, <1>9, <2>1, AwayKeeps
<1>10. CASE (\E a \in Agent : AgentForgets(a)) \/ PrepareTimeout \/ UNCHANGED vars
  <2>1. pool' = pool /\ harvests' = harvests /\ call' = call
    BY <1>10 DEF AgentForgets, PrepareTimeout, rows, history, vars
  <2>2. PICK H \in SUBSET Product : OneExpands /\ Keeps(H)
    BY <1>1, <2>1 DEF PoolKept
  <2> QED BY <1>1, <2>1, <2>2 DEF OneExpands, Keeps, Accounts, Expanding, Filling, At
<1>11. ASSUME NEW c \in Call, PrepareNext(c) \/ RefreshNext(c) \/ UserNext(c) \/ \E u \in Url : ReleaseStart(c, u)
       PROVE  OneExpands' /\ \E H \in SUBSET Product : Keeps(H)'
  <2>1. pool' = pool /\ harvests' = harvests
    BY <1>11 DEF PrepareNext, PrepareStart, PrepareListing, PrepareCheck, PrepareFail, RefreshNext, RefreshRead,
       RefreshItems, RefreshWrite, UserNext, RetryFailed, RetryItem, CancelStart, DeleteStart, ReleaseStart, rows, history
  <2> QED BY <1>9, <1>11, <2>1, OtherStarts
<1>12. ASSUME NEW c \in Call, NEW a \in Agent, AgentNext(c, a)
       PROVE  OneExpands' /\ \E H \in SUBSET Product : Keeps(H)'
  <2>1. CASE \E harvest \in SUBSET Product : harvest # {} /\ ReportListing(c, a, harvest)
    BY <1>3, <2>1
  <2>2. CASE ~\E harvest \in SUBSET Product : harvest # {} /\ ReportListing(c, a, harvest)
    <3>1. pool' = pool /\ harvests' = harvests
      BY <1>12, <2>2 DEF AgentNext, ClaimStart, ReportListing, ReportProduct, ReportFailure, rows, history
    <3> QED BY <1>9, <1>12, <2>2, <3>1, OtherAgentSteps
  <2> QED BY <2>1, <2>2
<1>13. ASSUME NEW c \in Call, HandlerNext(c), ~UpsertItem(c), ~WritePool(c), ~FillTask(c), ~FillItems(c)
       PROVE  OneExpands' /\ \E H \in SUBSET Product : Keeps(H)'
  <2>1. pool' = pool /\ harvests' = harvests
    BY <1>1, <1>13 DEF HandlerNext, ClaimFind, ClaimTake, ExpandDelete, SuccessWrite, SkipWrite, FailRead, FailWrite,
       RetryFind, RetryAdd, RetryMark, ReleaseWrite, CancelItems, CancelTask, rows, history
  <2> QED BY <1>9, <1>13, <2>1, OtherHandlers
<1> QED BY <1>4, <1>5, <1>6, <1>7, <1>8, <1>10, <1>11, <1>12, <1>13 DEF Next

\* So it is in every state.
THEOREM PoolAccounted == Spec => []PoolKept
<1>1. Init => PoolKept
  <2> SUFFICES ASSUME Init PROVE OneExpands /\ Keeps({})
    BY DEF PoolKept
  <2>1. \A c \in Call : call[c].pc = "idle"
    BY DEF Init, Idle
  <2> QED BY <2>1 DEF Init, OneExpands, Keeps, Accounts, Expanding, Filling, At
<1> QED BY <1>1, TypeCorrect, PoolStep, PTL DEF Spec

\* What the pool loses is an item: only a handler that back-fills takes candidates
\* out of the pool, after it has made them items.
LEMMA PoolLoss ==
  ASSUME TypeOK, PoolKept, [Next]_vars, harvests <= 1, taskStatus' # "DELETED",
         NEW p \in pool \ pool'
  PROVE  itemStatus[p] # "ABSENT"
<1>1. taskStatus # "DELETED" /\ ~\E c \in Call : DeleteRow(c)
  BY RowsStay
<1>2. PICK H \in SUBSET Product : OneExpands /\ Keeps(H)
  BY <1>1 DEF PoolKept
<1>3. p \in H
  BY <1>2 DEF Keeps, Accounts
<1>4. PICK c \in Call : WritePool(c)
  <2>1. ASSUME NEW c \in Call, HandlerNext(c) PROVE WritePool(c)
    BY <1>1, <2>1 DEF HandlerNext, UpsertItem, ClaimFind, ClaimTake, ExpandDelete, SuccessWrite, SkipWrite, FailRead,
       FailWrite, FillTask, FillItems, RetryFind, RetryAdd, RetryMark, ReleaseWrite, CancelItems, CancelTask, rows
  <2>2. ASSUME NEW c \in Call, PrepareNext(c) \/ RefreshNext(c) \/ UserNext(c) \/ \E u \in Url : ReleaseStart(c, u)
        PROVE  FALSE
    BY <2>2 DEF PrepareNext, PrepareStart, PrepareListing, PrepareCheck, PrepareFail, RefreshNext, RefreshRead,
       RefreshItems, RefreshWrite, UserNext, RetryFailed, RetryItem, CancelStart, DeleteStart, ReleaseStart, rows
  <2>3. ASSUME NEW c \in Call, NEW a \in Agent, AgentNext(c, a) PROVE FALSE
    BY <2>3 DEF AgentNext, ClaimStart, ReportListing, ReportProduct, ReportFailure, rows
  <2>4. CASE (\E a \in Agent : AgentForgets(a)) \/ PrepareTimeout \/ Restart \/ UNCHANGED vars
    BY <2>4 DEF AgentForgets, PrepareTimeout, Restart, vars, rows
  <2> QED BY <2>1, <2>2, <2>3, <2>4 DEF Next
<1>5. p \notin call[c].pool /\ call[c].pc \in {"expandPool", "fillPool"}
  BY <1>1, <1>4 DEF WritePool
<1>6. p \in Existing
  BY <1>2, <1>3, <1>5 DEF Keeps, Accounts, Expanding, At
<1> QED BY <1>6 DEF Existing, ProductsIn, ItemStatuses

\* NoCandidateLost, for any number of handlers at their awaits and any restarts.
THEOREM CandidatesKept == Spec => NoCandidateLost
<1> DEFINE Loss == harvests <= 1 /\ taskStatus' # "DELETED" => \A p \in pool \ pool' : itemStatus[p] # "ABSENT"
<1>1. TypeOK /\ PoolKept /\ [Next]_vars => [Loss]_vars
  BY PoolLoss
<1> QED BY <1>1, TypeCorrect, PoolAccounted, PTL DEF Spec, NoCandidateLost
=============================================================================
