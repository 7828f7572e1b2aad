------------------------ MODULE CrawlerSerial_proofs ------------------------
(***************************************************************************)
(* What CrawlerTask keeps while its handlers take turns: a prepared task   *)
(* that is cancelled stays so, a task's stored status is the one its items *)
(* give, an item waiting for its retry has the job that releases it, and   *)
(* TOP N is met and not exceeded.  The run crawler_refresh_race shows that *)
(* two handlers at a time undo the first.                                  *)
(***************************************************************************)
EXTENDS CrawlerTask_proofs, WellFoundedInduction

(***************************************************************************)
(* One handler at a time, as with a single slot.                           *)
(***************************************************************************)
Serial == Call # {} /\ \A c, d \in Call : c = d

\* Where each way to go on leaves the handler's slot.
LEMMA SlotAfter ==
  ASSUME TypeOK, NEW c \in Call
  PROVE  /\ \A slot : Continue(c, slot) => call'[c] = slot /\ prepare' = prepare
         /\ \A step : Goto(c, step) => /\ call'[c].pc = step /\ call'[c].url = call[c].url /\ call'[c].todo = call[c].todo
                                       /\ call'[c].pool = call[c].pool /\ call'[c].seen = call[c].seen
                                       /\ call'[c].job = call[c].job /\ prepare' = prepare
         /\ Finish(c) => /\ call'[c].pc = "idle" /\ call'[c].job = "none"
                         /\ prepare' = IF call[c].job = "prepare" THEN "done" ELSE prepare
         /\ GotoRefresh(c) => call'[c].pc = "refresh" /\ call'[c].job = call[c].job /\ prepare' = prepare
<1>1. \A slot : Continue(c, slot) => call'[c] = slot /\ prepare' = prepare
  BY DEF TypeOK, ControlOK, Continue
<1>2. ASSUME NEW step, Goto(c, step)
      PROVE  /\ call'[c].pc = step /\ call'[c].url = call[c].url /\ call'[c].todo = call[c].todo
             /\ call'[c].pool = call[c].pool /\ call'[c].seen = call[c].seen
             /\ call'[c].job = call[c].job /\ prepare' = prepare
  <2> DEFINE slot == [call[c] EXCEPT !.pc = step]
  <2>1. /\ slot.pc = step /\ slot.url = call[c].url /\ slot.todo = call[c].todo /\ slot.pool = call[c].pool
        /\ slot.seen = call[c].seen /\ slot.job = call[c].job
    BY DEF TypeOK, ControlOK, LoadedSlots, Slots
  <2>2. Continue(c, slot)
    BY <1>2 DEF Goto
  <2> HIDE DEF slot
  <2> QED BY <1>1, <2>1, <2>2
<1>3. Finish(c) => /\ call'[c].pc = "idle" /\ call'[c].job = "none"
                   /\ prepare' = IF call[c].job = "prepare" THEN "done" ELSE prepare
  BY DEF TypeOK, ControlOK, Finish, Idle
<1>4. GotoRefresh(c) => call'[c].pc = "refresh" /\ call'[c].job = call[c].job /\ prepare' = prepare
  <2> DEFINE slot == [Idle EXCEPT !.pc = "refresh", !.job = call[c].job,
                        !.url = IF call[c].job = "retry" THEN call[c].url ELSE Listing]
  <2>1. slot.pc = "refresh" /\ slot.job = call[c].job
    BY DEF Idle
  <2>2. GotoRefresh(c) => Continue(c, slot)
    BY DEF GotoRefresh
  <2> HIDE DEF slot
  <2> QED BY <1>1, <2>1, <2>2
<1> QED BY <1>1, <1>2, <1>3, <1>4

\* What a handler that prepares or refreshes carries to its next call.
LEMMA PrepareCarries ==
  ASSUME TypeOK, NEW c \in Call
  PROVE  /\ PrepareStart(c) /\ taskStatus # "DELETED" =>
              /\ call'[c].pc = IF mode = "CATEGORY_TOP" THEN "prepListing" ELSE "prepCheck"
              /\ call'[c].job = "prepare" /\ prepare' = "active"
         /\ PrepareCheck(c) =>
              \/ Finish(c)
              \/ /\ taskStatus = "RUNNING" /\ prepare' = prepare
                 /\ call'[c].pc = "prepUpsert" /\ call'[c].todo = ConfigUrls /\ call'[c].job = call[c].job
         /\ RefreshRead(c) =>
              \/ taskStatus = "DELETED" /\ Finish(c)
              \/ /\ taskStatus # "DELETED" /\ prepare' = prepare
                 /\ call'[c].pc = "refreshItems" /\ call'[c].seen = taskStatus /\ call'[c].job = call[c].job
         /\ RefreshItems(c) =>
              /\ call'[c].pc = "refreshWrite" /\ call'[c].job = call[c].job /\ prepare' = prepare
              /\ call'[c].seen = IF ShouldPreserve(call[c].seen) THEN "keep" ELSE DerivedStatus
<1>1. ASSUME PrepareStart(c), taskStatus # "DELETED"
      PROVE  /\ call'[c].pc = IF mode = "CATEGORY_TOP" THEN "prepListing" ELSE "prepCheck"
             /\ call'[c].job = "prepare" /\ prepare' = "active"
  <2> DEFINE slot == [Idle EXCEPT !.job = "prepare", !.pc = IF mode = "CATEGORY_TOP" THEN "prepListing" ELSE "prepCheck"]
  <2>1. slot.pc = (IF mode = "CATEGORY_TOP" THEN "prepListing" ELSE "prepCheck") /\ slot.job = "prepare"
    BY DEF Idle
  <2>2. call'[c] = slot /\ prepare' = "active"
    BY <1>1 DEF PrepareStart, TypeOK, ControlOK
  <2> HIDE DEF slot
  <2> QED BY <2>1, <2>2
<1>2. ASSUME PrepareCheck(c)
      PROVE  \/ Finish(c)
             \/ /\ taskStatus = "RUNNING" /\ prepare' = prepare
                /\ call'[c].pc = "prepUpsert" /\ call'[c].todo = ConfigUrls /\ call'[c].job = call[c].job
  <2> DEFINE slot == [call[c] EXCEPT !.pc = "prepUpsert", !.todo = ConfigUrls]
  <2>1. slot.pc = "prepUpsert" /\ slot.todo = ConfigUrls /\ slot.job = call[c].job
    BY DEF TypeOK, ControlOK, LoadedSlots, Slots
  <2>2. Finish(c) \/ (taskStatus = "RUNNING" /\ Continue(c, slot))
    BY <1>2 DEF PrepareCheck
  <2> HIDE DEF slot
  <2> QED BY <2>1, <2>2, SlotAfter
<1>3. ASSUME RefreshRead(c), taskStatus # "DELETED"
      PROVE  /\ call'[c].pc = "refreshItems" /\ call'[c].seen = taskStatus /\ call'[c].job = call[c].job
             /\ prepare' = prepare
  <2> DEFINE slot == [call[c] EXCEPT !.pc = "refreshItems", !.seen = taskStatus]
  <2>1. slot.pc = "refreshItems" /\ slot.seen = taskStatus /\ slot.job = call[c].job
    BY DEF TypeOK, ControlOK, LoadedSlots, Slots
  <2>2. Continue(c, slot)
    BY <1>3 DEF RefreshRead
  <2> HIDE DEF slot
  <2> QED BY <2>1, <2>2, SlotAfter
<1>4. ASSUME RefreshItems(c)
      PROVE  /\ call'[c].pc = "refreshWrite" /\ call'[c].job = call[c].job /\ prepare' = prepare
             /\ call'[c].seen = IF ShouldPreserve(call[c].seen) THEN "keep" ELSE DerivedStatus
  <2> DEFINE seen == IF ShouldPreserve(call[c].seen) THEN "keep" ELSE DerivedStatus
             slot == [call[c] EXCEPT !.pc = "refreshWrite", !.seen = seen]
  <2>1. slot.pc = "refreshWrite" /\ slot.seen = seen /\ slot.job = call[c].job
    BY DEF TypeOK, ControlOK, LoadedSlots, Slots
  <2>2. Continue(c, slot)
    BY <1>4 DEF RefreshItems
  <2> HIDE DEF slot
  <2> QED BY <2>1, <2>2, SlotAfter
<1>5. RefreshRead(c) /\ taskStatus = "DELETED" => Finish(c)
  BY DEF RefreshRead
<1> QED BY <1>1, <1>2, <1>3, <1>4, <1>5

\* What upserting and back-filling carry.
LEMMA UpsertCarries ==
  ASSUME TypeOK, NEW c \in Call
  PROVE  /\ UpsertItem(c) =>
              \/ taskStatus = "DELETED" /\ Finish(c) /\ UNCHANGED itemStatus
              \/ /\ taskStatus # "DELETED"
                 /\ \E u \in call[c].todo :
                      /\ SetItem(u, "PENDING")
                      /\ call'[c].todo = call[c].todo \ {u}
                      /\ call'[c].pc = IF call[c].todo \ {u} # {} THEN call[c].pc
                                       ELSE IF At(c, "prepUpsert") THEN "refresh"
                                       ELSE IF At(c, "expandUpsert") THEN "expandPool" ELSE "fillPool"
                      /\ call'[c].pool = call[c].pool /\ call'[c].job = call[c].job /\ prepare' = prepare
         /\ UpsertItem(c) => call[c].pc \in {"prepUpsert", "expandUpsert", "fillUpsert"}
         /\ FillTask(c) =>
              \/ taskStatus = "DELETED" /\ Finish(c)
              \/ taskStatus # "DELETED" /\ (mode # "CATEGORY_TOP" \/ ShouldPreserve(taskStatus)) /\ GotoRefresh(c)
              \/ call'[c].pc = "fillItems" /\ call'[c].pool = pool /\ call'[c].job = call[c].job /\ prepare' = prepare
         /\ FillItems(c) =>
              \/ FirstOf(Deficit, Candidates(c)) = {} /\ GotoRefresh(c)
              \/ /\ FirstOf(Deficit, Candidates(c)) # {} /\ prepare' = prepare
                 /\ call'[c].pc = "fillUpsert" /\ call'[c].todo = FirstOf(Deficit, Candidates(c))
                 /\ call'[c].pool = LeftOver(Deficit, Candidates(c)) /\ call'[c].job = call[c].job
<1>0. UpsertItem(c) => call[c].pc \in {"prepUpsert", "expandUpsert", "fillUpsert"}
  BY DEF UpsertItem, AfterUpserts
<1>1. ASSUME UpsertItem(c), taskStatus # "DELETED"
      PROVE  \E u \in call[c].todo :
                      /\ SetItem(u, "PENDING")
                      /\ call'[c].todo = call[c].todo \ {u}
                      /\ call'[c].pc = IF call[c].todo \ {u} # {} THEN call[c].pc
                                       ELSE IF At(c, "prepUpsert") THEN "refresh"
                                       ELSE IF At(c, "expandUpsert") THEN "expandPool" ELSE "fillPool"
                      /\ call'[c].pool = call[c].pool /\ call'[c].job = call[c].job /\ prepare' = prepare
  <2>1. PICK u \in call[c].todo : SetItem(u, "PENDING") /\
          Continue(c, [call[c] EXCEPT !.todo = call[c].todo \ {u},
            !.pc = IF call[c].todo \ {u} = {} THEN AfterUpserts[@] ELSE @])
    BY <1>1 DEF UpsertItem
  <2> DEFINE left == call[c].todo \ {u}
             slot == [call[c] EXCEPT !.todo = left, !.pc = IF left = {} THEN AfterUpserts[@] ELSE @]
  <2>2. /\ slot.pc = (IF left = {} THEN AfterUpserts[call[c].pc] ELSE call[c].pc)
        /\ slot.todo = left /\ slot.pool = call[c].pool /\ slot.job = call[c].job
    BY DEF TypeOK, ControlOK, LoadedSlots, Slots
  <2>3. AfterUpserts[call[c].pc] = IF At(c, "prepUpsert") THEN "refresh"
                                   ELSE IF At(c, "expandUpsert") THEN "expandPool" ELSE "fillPool"
    BY <1>0, <1>1 DEF AfterUpserts, At
  <2>4. Continue(c, slot)
    BY <2>1
  <2> HIDE DEF slot
  <2> QED BY <2>1, <2>2, <2>3, <2>4, SlotAfter
<1>2. ASSUME FillTask(c)
      PROVE  \/ taskStatus = "DELETED" /\ Finish(c)
             \/ taskStatus # "DELETED" /\ (mode # "CATEGORY_TOP" \/ ShouldPreserve(taskStatus)) /\ GotoRefresh(c)
             \/ call'[c].pc = "fillItems" /\ call'[c].pool = pool /\ call'[c].job = call[c].job /\ prepare' = prepare
  <2> DEFINE slot == [call[c] EXCEPT !.pc = "fillItems", !.pool = pool]
  <2>1. slot.pc = "fillItems" /\ slot.pool = pool /\ slot.job = call[c].job
    BY DEF TypeOK, ControlOK, LoadedSlots, Slots
  <2>2. \/ taskStatus = "DELETED" /\ Finish(c)
        \/ taskStatus # "DELETED" /\ (mode # "CATEGORY_TOP" \/ ShouldPreserve(taskStatus)) /\ GotoRefresh(c)
        \/ Continue(c, slot)
    BY <1>2 DEF FillTask
  <2> HIDE DEF slot
  <2> QED BY <2>1, <2>2, SlotAfter
<1>3. ASSUME FillItems(c)
      PROVE  \/ FirstOf(Deficit, Candidates(c)) = {} /\ GotoRefresh(c)
             \/ /\ FirstOf(Deficit, Candidates(c)) # {} /\ prepare' = prepare
                /\ call'[c].pc = "fillUpsert" /\ call'[c].todo = FirstOf(Deficit, Candidates(c))
                /\ call'[c].pool = LeftOver(Deficit, Candidates(c)) /\ call'[c].job = call[c].job
  <2> DEFINE next == FirstOf(Deficit, Candidates(c))
             left == LeftOver(Deficit, Candidates(c))
             slot == [call[c] EXCEPT !.pc = "fillUpsert", !.todo = next, !.pool = left]
  <2>1. slot.pc = "fillUpsert" /\ slot.todo = next /\ slot.pool = left /\ slot.job = call[c].job
    BY DEF TypeOK, ControlOK, LoadedSlots, Slots
  <2>2. (next = {} /\ GotoRefresh(c)) \/ (next # {} /\ Continue(c, slot))
    BY <1>3 DEF FillItems
  <2> HIDE DEF slot
  <2> QED BY <2>1, <2>2, SlotAfter
<1>4. UpsertItem(c) /\ taskStatus = "DELETED" => Finish(c) /\ UNCHANGED itemStatus
  BY DEF UpsertItem
<1> QED BY <1>0, <1>1, <1>2, <1>3, <1>4

\* What a claim carries once it has found an item.
LEMMA ClaimCarries ==
  ASSUME TypeOK, NEW c \in Call, ClaimFind(c)
  PROVE  \/ Finish(c)
         \/ \E u \in Offered : /\ call'[c].pc = "claimTake" /\ call'[c].url = u /\ call'[c].job = call[c].job
                               /\ prepare' = prepare
<1>1. ASSUME NEW u \in Offered, Continue(c, [call[c] EXCEPT !.pc = "claimTake", !.url = u])
      PROVE  call'[c].pc = "claimTake" /\ call'[c].url = u /\ call'[c].job = call[c].job /\ prepare' = prepare
  <2> DEFINE slot == [call[c] EXCEPT !.pc = "claimTake", !.url = u]
  <2>1. slot.pc = "claimTake" /\ slot.url = u /\ slot.job = call[c].job
    BY DEF TypeOK, ControlOK, LoadedSlots, Slots
  <2>2. Continue(c, slot)
    BY <1>1
  <2> HIDE DEF slot
  <2> QED BY <2>1, <2>2, SlotAfter
<1>2. Finish(c) \/ \E u \in Offered : Continue(c, [call[c] EXCEPT !.pc = "claimTake", !.url = u])
  BY DEF ClaimFind
<1> QED BY <1>1, <1>2

\* What an agent's requests carry.
LEMMA AgentCarries ==
  ASSUME TypeOK, NEW c \in Call, NEW a \in Agent
  PROVE  /\ \A stuck \in SUBSET Url : ClaimStart(c, a, stuck) =>
              call'[c].pc = "claimFind" /\ call'[c].agent = a /\ call'[c].job = "none" /\ prepare' = prepare
         /\ \A harvest \in SUBSET Product : ReportListing(c, a, harvest) =>
              \/ ~Accepted(a, Listing) /\ UNCHANGED <<call, prepare>>
              \/ /\ Accepted(a, Listing) /\ prepare' = prepare /\ call'[c].job = "none"
                 /\ IF harvest = {} THEN call'[c].pc = "failRead"
                    ELSE /\ call'[c].pc = "expandUpsert" /\ call'[c].todo = FirstOf(TopN, harvest)
                         /\ call'[c].pool = LeftOver(TopN, harvest)
         /\ \A u \in Url, mismatch \in BOOLEAN : ReportProduct(c, a, u, mismatch) =>
              \/ ~Accepted(a, u) /\ UNCHANGED <<call, prepare>>
              \/ /\ Accepted(a, u) /\ prepare' = prepare /\ call'[c].job = "none"
                 /\ call'[c].pc \in {"skipWrite", "successWrite"} /\ call'[c].url = u
         /\ \A u \in Url, reason \in {"captcha", "retryable"} : ReportFailure(c, a, u, reason) =>
              \/ ~Accepted(a, u) /\ UNCHANGED <<call, prepare>>
              \/ /\ Accepted(a, u) /\ prepare' = prepare /\ call'[c].job = "none"
                 /\ call'[c].pc = "failWrite" /\ call'[c].url = u
<1>1. ASSUME NEW stuck \in SUBSET Url, ClaimStart(c, a, stuck)
      PROVE  call'[c].pc = "claimFind" /\ call'[c].agent = a /\ call'[c].job = "none" /\ prepare' = prepare
  <2> DEFINE slot == [Idle EXCEPT !.pc = "claimFind", !.agent = a]
  <2>1. slot.pc = "claimFind" /\ slot.agent = a /\ slot.job = "none"
    BY DEF Idle
  <2>2. Continue(c, slot)
    BY <1>1 DEF ClaimStart
  <2> HIDE DEF slot
  <2> QED BY <2>1, <2>2, SlotAfter
<1>3. ASSUME NEW harvest \in SUBSET Product, ReportListing(c, a, harvest), Accepted(a, Listing)
      PROVE  /\ prepare' = prepare /\ call'[c].job = "none"
             /\ IF harvest = {} THEN call'[c].pc = "failRead"
                ELSE /\ call'[c].pc = "expandUpsert" /\ call'[c].todo = FirstOf(TopN, harvest)
                     /\ call'[c].pool = LeftOver(TopN, harvest)
  <2> DEFINE fail == [Idle EXCEPT !.pc = "failRead"]
             expand == [Idle EXCEPT !.pc = "expandUpsert", !.todo = FirstOf(TopN, harvest), !.pool = LeftOver(TopN, harvest)]
  <2>1. /\ fail.pc = "failRead" /\ fail.job = "none" /\ expand.pc = "expandUpsert" /\ expand.job = "none"
        /\ expand.todo = FirstOf(TopN, harvest) /\ expand.pool = LeftOver(TopN, harvest)
    BY DEF Idle
  <2>2. Continue(c, IF harvest = {} THEN fail ELSE expand)
    BY <1>3 DEF ReportListing, Begin
  <2> HIDE DEF fail, expand
  <2> QED BY <2>1, <2>2, SlotAfter
<1>4. ASSUME NEW u \in Url, NEW mismatch \in BOOLEAN, ReportProduct(c, a, u, mismatch), Accepted(a, u)
      PROVE  /\ prepare' = prepare /\ call'[c].job = "none"
             /\ call'[c].pc \in {"skipWrite", "successWrite"} /\ call'[c].url = u
  <2> DEFINE slot == [Idle EXCEPT !.pc = IF mismatch THEN "skipWrite" ELSE "successWrite", !.url = u]
  <2>1. slot.pc \in {"skipWrite", "successWrite"} /\ slot.url = u /\ slot.job = "none"
    BY DEF Idle
  <2>2. Continue(c, slot)
    BY <1>4 DEF ReportProduct, Begin
  <2> HIDE DEF slot
  <2> QED BY <2>1, <2>2, SlotAfter
<1>5. ASSUME NEW u \in Url, NEW reason \in {"captcha", "retryable"}, ReportFailure(c, a, u, reason), Accepted(a, u)
      PROVE  prepare' = prepare /\ call'[c].job = "none" /\ call'[c].pc = "failWrite" /\ call'[c].url = u
  <2>1. Failing(u, reason).pc = "failWrite" /\ Failing(u, reason).url = u /\ Failing(u, reason).job = "none"
    BY DEF Failing, Idle
  <2>2. Continue(c, Failing(u, reason))
    BY <1>5 DEF ReportFailure, Begin
  <2> QED BY <2>1, <2>2, SlotAfter
<1>7. /\ \A harvest : ReportListing(c, a, harvest) /\ ~Accepted(a, Listing) => UNCHANGED <<call, prepare>>
      /\ \A u, mismatch : ReportProduct(c, a, u, mismatch) /\ ~Accepted(a, u) => UNCHANGED <<call, prepare>>
      /\ \A u, reason : ReportFailure(c, a, u, reason) /\ ~Accepted(a, u) => UNCHANGED <<call, prepare>>
  BY DEF ReportListing, ReportProduct, ReportFailure, Begin
<1> QED BY <1>1, <1>3, <1>4, <1>5, <1>7

\* What a failed item's handler and a retry carry.
LEMMA RetryCarries ==
  ASSUME TypeOK, NEW c \in Call
  PROVE  /\ FailRead(c) =>
              \/ Finish(c)
              \/ call'[c].pc = "failWrite" /\ call'[c].url = Listing /\ call'[c].job = "none" /\ prepare' = prepare
         /\ FailWrite(c) /\ itemStatus[call[c].url] # "ABSENT" =>
              \/ /\ SetItem(call[c].url, "RETRYING") /\ prepare' = prepare /\ call'[c].job = "none"
                 /\ call'[c].pc = "retryAdd" /\ call'[c].todo = {call[c].url}
              \/ SetItem(call[c].url, "FAILED") /\ Goto(c, "fillTask")
         /\ RetryFind(c) =>
              \/ Finish(c)
              \/ call'[c].pc = "retryAdd" /\ call'[c].todo = Failed /\ call'[c].job = "none" /\ prepare' = prepare
         /\ RetryAdd(c) =>
              \E u \in call[c].todo :
                /\ retryJobs' = [retryJobs EXCEPT ![u] = @ + 1]
                /\ call'[c].pc = "retryMark" /\ call'[c].url = u /\ call'[c].todo = call[c].todo
                /\ call'[c].job = call[c].job /\ prepare' = prepare
         /\ RetryMark(c) /\ itemStatus[call[c].url] # "ABSENT" =>
              /\ SetItem(call[c].url, "RETRYING")
              /\ \/ /\ call'[c].pc = "retryAdd" /\ call'[c].todo = call[c].todo \ {call[c].url}
                    /\ call'[c].job = call[c].job /\ prepare' = prepare
                 \/ call[c].todo \ {call[c].url} = {} /\ (GotoRefresh(c) \/ Finish(c))
<1>1. /\ \A u, reason : Failing(u, reason).pc = "failWrite" /\ Failing(u, reason).url = u /\ Failing(u, reason).job = "none"
      /\ \A todo : RetryingByUser(todo).pc = "retryAdd" /\ RetryingByUser(todo).todo = todo /\ RetryingByUser(todo).job = "none"
  BY DEF Failing, RetryingByUser, Idle
<1>2. ASSUME FailRead(c)
      PROVE  \/ Finish(c)
             \/ call'[c].pc = "failWrite" /\ call'[c].url = Listing /\ call'[c].job = "none" /\ prepare' = prepare
  <2>1. Finish(c) \/ Continue(c, Failing(Listing, "retryable"))
    BY <1>2 DEF FailRead
  <2> QED BY <1>1, <2>1, SlotAfter
<1>3. ASSUME FailWrite(c), itemStatus[call[c].url] # "ABSENT"
      PROVE  \/ /\ SetItem(call[c].url, "RETRYING") /\ prepare' = prepare /\ call'[c].job = "none"
                /\ call'[c].pc = "retryAdd" /\ call'[c].todo = {call[c].url}
             \/ SetItem(call[c].url, "FAILED") /\ Goto(c, "fillTask")
  <2> DEFINE slot == [Idle EXCEPT !.pc = "retryAdd", !.todo = {call[c].url}, !.seen = "auto"]
  <2>1. slot.pc = "retryAdd" /\ slot.todo = {call[c].url} /\ slot.job = "none"
    BY DEF Idle
  <2>2. \/ SetItem(call[c].url, "RETRYING") /\ Continue(c, slot)
        \/ SetItem(call[c].url, "FAILED") /\ Goto(c, "fillTask")
    BY <1>3 DEF FailWrite
  <2> HIDE DEF slot
  <2> QED BY <2>1, <2>2, SlotAfter
<1>4. ASSUME RetryFind(c)
      PROVE  \/ Finish(c)
             \/ call'[c].pc = "retryAdd" /\ call'[c].todo = Failed /\ call'[c].job = "none" /\ prepare' = prepare
  <2>1. Finish(c) \/ Continue(c, RetryingByUser(Failed))
    BY <1>4 DEF RetryFind
  <2> QED BY <1>1, <2>1, SlotAfter
<1>5. ASSUME RetryAdd(c)
      PROVE  \E u \in call[c].todo :
                /\ retryJobs' = [retryJobs EXCEPT ![u] = @ + 1]
                /\ call'[c].pc = "retryMark" /\ call'[c].url = u /\ call'[c].todo = call[c].todo
                /\ call'[c].job = call[c].job /\ prepare' = prepare
  <2>1. PICK u \in call[c].todo : /\ retryJobs' = [retryJobs EXCEPT ![u] = @ + 1]
                                  /\ Continue(c, [call[c] EXCEPT !.pc = "retryMark", !.url = u])
    BY <1>5 DEF RetryAdd
  <2> DEFINE slot == [call[c] EXCEPT !.pc = "retryMark", !.url = u]
  <2>2. slot.pc = "retryMark" /\ slot.url = u /\ slot.todo = call[c].todo /\ slot.job = call[c].job
    BY DEF TypeOK, ControlOK, LoadedSlots, Slots
  <2>3. Continue(c, slot)
    BY <2>1
  <2> HIDE DEF slot
  <2> QED BY <2>1, <2>2, <2>3, SlotAfter
<1>6. ASSUME RetryMark(c), itemStatus[call[c].url] # "ABSENT"
      PROVE  /\ SetItem(call[c].url, "RETRYING")
             /\ \/ /\ call'[c].pc = "retryAdd" /\ call'[c].todo = call[c].todo \ {call[c].url}
                   /\ call'[c].job = call[c].job /\ prepare' = prepare
                \/ call[c].todo \ {call[c].url} = {} /\ (GotoRefresh(c) \/ Finish(c))
  <2> DEFINE left == call[c].todo \ {call[c].url}
             slot == [call[c] EXCEPT !.pc = "retryAdd", !.todo = left]
  <2>1. slot.pc = "retryAdd" /\ slot.todo = left /\ slot.job = call[c].job
    BY DEF TypeOK, ControlOK, LoadedSlots, Slots
  <2>2. SetItem(call[c].url, "RETRYING") /\ (Continue(c, slot) \/ (left = {} /\ (GotoRefresh(c) \/ Finish(c))))
    BY <1>6 DEF RetryMark
  <2> HIDE DEF slot
  <2> QED BY <2>1, <2>2, SlotAfter
<1> QED BY <1>2, <1>3, <1>4, <1>5, <1>6

\* What a retry job and the operator's requests start with.
LEMMA StartCarries ==
  ASSUME TypeOK, NEW c \in Call
  PROVE  /\ \A u \in Url : ReleaseStart(c, u) =>
              \/ (itemStatus[u] \in {"ABSENT", "SUCCESS"} \/ ShouldPreserve(taskStatus)) /\ UNCHANGED <<call, prepare>>
              \/ /\ itemStatus[u] \notin {"ABSENT", "SUCCESS"} /\ ~ShouldPreserve(taskStatus) /\ prepare' = prepare
                 /\ call'[c].pc = "releaseWrite" /\ call'[c].url = u /\ call'[c].job = "retry"
         /\ \A u \in Url : RetryItem(c, u) =>
              call'[c].pc = "retryAdd" /\ call'[c].todo = {u} /\ call'[c].job = "none" /\ prepare' = prepare
         /\ RetryFailed(c) => call'[c].pc = "retryFind" /\ call'[c].job = "none" /\ prepare' = prepare
         /\ CancelStart(c) => call'[c].pc = "cancelItems" /\ call'[c].job = "none" /\ prepare' = prepare
         /\ DeleteStart(c) => call'[c].pc = "deleteRow" /\ call'[c].job = "none" /\ prepare' = prepare
<1>1. /\ \A todo : RetryingByUser(todo).pc = "retryAdd" /\ RetryingByUser(todo).todo = todo /\ RetryingByUser(todo).job = "none"
      /\ [Idle EXCEPT !.pc = "retryFind"].pc = "retryFind" /\ [Idle EXCEPT !.pc = "retryFind"].job = "none"
      /\ [Idle EXCEPT !.pc = "cancelItems"].pc = "cancelItems" /\ [Idle EXCEPT !.pc = "cancelItems"].job = "none"
      /\ [Idle EXCEPT !.pc = "deleteRow"].pc = "deleteRow" /\ [Idle EXCEPT !.pc = "deleteRow"].job = "none"
  BY DEF RetryingByUser, Idle
<1>2. ASSUME NEW u \in Url, ReleaseStart(c, u), itemStatus[u] \notin {"ABSENT", "SUCCESS"}, ~ShouldPreserve(taskStatus)
      PROVE  call'[c].pc = "releaseWrite" /\ call'[c].url = u /\ call'[c].job = "retry" /\ prepare' = prepare
  <2> DEFINE slot == [Idle EXCEPT !.pc = "releaseWrite", !.url = u, !.job = "retry"]
  <2>1. slot.pc = "releaseWrite" /\ slot.url = u /\ slot.job = "retry"
    BY DEF Idle
  <2>2. Continue(c, slot)
    BY <1>2 DEF ReleaseStart
  <2> HIDE DEF slot
  <2> QED BY <2>1, <2>2, SlotAfter
<1>3. \A u \in Url : ReleaseStart(c, u) /\ (itemStatus[u] \in {"ABSENT", "SUCCESS"} \/ ShouldPreserve(taskStatus))
                     => UNCHANGED <<call, prepare>>
  BY DEF ReleaseStart
<1>4. /\ RetryFailed(c) => Continue(c, [Idle EXCEPT !.pc = "retryFind"])
      /\ CancelStart(c) => Continue(c, [Idle EXCEPT !.pc = "cancelItems"])
      /\ DeleteStart(c) => Continue(c, [Idle EXCEPT !.pc = "deleteRow"])
  BY DEF RetryFailed, CancelStart, DeleteStart
<1>5. \A slot : Continue(c, slot) => call'[c] = slot /\ prepare' = prepare
  BY SlotAfter
<1>6. /\ RetryFailed(c) => call'[c] = [Idle EXCEPT !.pc = "retryFind"] /\ prepare' = prepare
      /\ CancelStart(c) => call'[c] = [Idle EXCEPT !.pc = "cancelItems"] /\ prepare' = prepare
      /\ DeleteStart(c) => call'[c] = [Idle EXCEPT !.pc = "deleteRow"] /\ prepare' = prepare
  BY <1>4, <1>5
<1>7. ASSUME NEW u \in Url, RetryItem(c, u)
      PROVE  call'[c].pc = "retryAdd" /\ call'[c].todo = {u} /\ call'[c].job = "none" /\ prepare' = prepare
  <2> DEFINE slot == RetryingByUser({u})
  <2>1. slot.pc = "retryAdd" /\ slot.todo = {u} /\ slot.job = "none"
    BY <1>1
  <2>2. Continue(c, slot)
    BY <1>7 DEF RetryItem
  <2> HIDE DEF slot
  <2> QED BY <2>1, <2>2, SlotAfter
<1>8. /\ RetryFailed(c) => call'[c].pc = "retryFind" /\ call'[c].job = "none" /\ prepare' = prepare
      /\ CancelStart(c) => call'[c].pc = "cancelItems" /\ call'[c].job = "none" /\ prepare' = prepare
      /\ DeleteStart(c) => call'[c].pc = "deleteRow" /\ call'[c].job = "none" /\ prepare' = prepare
  BY <1>1, <1>6
<1>9. \A u \in Url : ReleaseStart(c, u) =>
              \/ (itemStatus[u] \in {"ABSENT", "SUCCESS"} \/ ShouldPreserve(taskStatus)) /\ UNCHANGED <<call, prepare>>
              \/ /\ itemStatus[u] \notin {"ABSENT", "SUCCESS"} /\ ~ShouldPreserve(taskStatus) /\ prepare' = prepare
                 /\ call'[c].pc = "releaseWrite" /\ call'[c].url = u /\ call'[c].job = "retry"
  BY <1>2, <1>3
<1> QED BY <1>7, <1>8, <1>9

\* What the status derived from the items may be.
LEMMA DerivedStatuses ==
  ASSUME RowsOK
  PROVE  DerivedStatus \in {"RUNNING", "FAILED", "QUEUED", "SUCCESS", "PARTIAL_FAILED"}
<1>1. itemStatus[Listing] \in ItemStatuses \cup {"ABSENT"}
  BY DEF RowsOK, Url
<1> QED BY <1>1 DEF DerivedStatus

(***************************************************************************)
(* A cancelled task: none of its items is open, and a refresh under way    *)
(* has seen that it was cancelled.                                         *)
(***************************************************************************)
Withdrawn == \A u \in Url : itemStatus[u] \notin Open

CancelKept ==
  /\ taskStatus = "CANCELLED" => Withdrawn
  /\ \A c \in Call :
       /\ At(c, "cancelTask") => Withdrawn
       /\ At(c, "refreshWrite") => call[c].seen # "CANCELLED"
       /\ taskStatus = "CANCELLED" =>
            /\ call[c].pc \in {"idle", "claimFind", "deleteRow"} \cup RefreshSteps
            /\ At(c, "refreshItems") => call[c].seen = "CANCELLED"
            /\ At(c, "refreshWrite") => call[c].seen = "keep"

\* A step that leaves the task not cancelled, and does not come to one of these calls,
\* has nothing to keep.
LEMMA NotCancelled ==
  ASSUME Serial, NEW c \in Call, taskStatus' # "CANCELLED", call'[c].pc \notin {"cancelTask", "refreshWrite"}
  PROVE  CancelKept'
BY DEF Serial, CancelKept, At

\* Preparing and refreshing keep it.
LEMMA CancelPrepare ==
  ASSUME TypeOK, Serial, CancelKept, NEW c \in Call, PrepareNext(c) \/ RefreshNext(c)
  PROVE  CancelKept'
<1>1. CASE PrepareStart(c)
  <2>1. CASE taskStatus = "DELETED"
    BY <1>1, <2>1, NotCancelled DEF PrepareStart, IsIdle
  <2>2. CASE taskStatus # "DELETED"
    <3>1. taskStatus' = "RUNNING"
      BY <1>1, <2>2 DEF PrepareStart
    <3> QED BY <1>1, <2>2, <3>1, NotCancelled, PrepareCarries
  <2> QED BY <2>1, <2>2
<1>2. CASE PrepareListing(c)
  <2>1. taskStatus' # "CANCELLED"
    BY <1>2 DEF PrepareListing, CancelKept, At, RefreshSteps
  <2> QED BY <1>2, <2>1, NotCancelled, SlotAfter DEF PrepareListing
<1>3. CASE PrepareCheck(c)
  <2>1. taskStatus' # "CANCELLED"
    BY <1>3 DEF PrepareCheck, CancelKept, At, RefreshSteps, rows
  <2> QED BY <1>3, <2>1, NotCancelled, SlotAfter, PrepareCarries
<1>4. CASE PrepareFail(c)
  <2>1. taskStatus' # "CANCELLED"
    BY <1>4 DEF PrepareFail, FailTask, CancelKept, At, RefreshSteps
  <2> QED BY <1>4, <2>1, NotCancelled, SlotAfter DEF PrepareFail
<1>5. CASE RefreshRead(c)
  <2>1. UNCHANGED <<taskStatus, itemStatus>>
    BY <1>5 DEF RefreshRead, rows
  <2>2. call'[c].pc = "idle" \/ (call'[c].pc = "refreshItems" /\ call'[c].seen = taskStatus)
    BY <1>5, PrepareCarries, SlotAfter
  <2> QED BY <2>1, <2>2 DEF Serial, CancelKept, At, RefreshSteps, Withdrawn
<1>6. CASE RefreshItems(c)
  <2>1. UNCHANGED <<taskStatus, itemStatus>> /\ At(c, "refreshItems")
    BY <1>6 DEF RefreshItems, rows
  <2>2. call'[c].pc = "refreshWrite" /\ call'[c].seen = IF ShouldPreserve(call[c].seen) THEN "keep" ELSE DerivedStatus
    BY <1>6, PrepareCarries
  <2>3. DerivedStatus # "CANCELLED"
    BY DerivedStatuses DEF TypeOK
  <2>4. call'[c].seen # "CANCELLED" /\ (call[c].seen = "CANCELLED" => call'[c].seen = "keep")
    BY <2>2, <2>3 DEF ShouldPreserve
  <2> QED BY <2>1, <2>2, <2>4 DEF Serial, CancelKept, At, RefreshSteps, Withdrawn
<1>7. CASE RefreshWrite(c)
  <2>1. call'[c].pc = "idle" /\ UNCHANGED itemStatus
    BY <1>7, SlotAfter DEF RefreshWrite
  <2>2. taskStatus' = "CANCELLED" => taskStatus = "CANCELLED"
    BY <1>7 DEF RefreshWrite, CancelKept
  <2> QED BY <2>1, <2>2 DEF Serial, CancelKept, At, RefreshSteps, Withdrawn
<1> QED BY <1>1, <1>2, <1>3, <1>4, <1>5, <1>6, <1>7 DEF PrepareNext, RefreshNext

\* Handlers past their first call: but for a claim, none is at work on a cancelled task.
LEMMA CancelHandlers ==
  ASSUME TypeOK, Serial, CancelKept, NEW c \in Call, HandlerNext(c)
  PROVE  CancelKept'
<1>1. CASE ClaimFind(c)
  <2>1. UNCHANGED <<taskStatus, itemStatus>>
    BY <1>1 DEF ClaimFind, rows
  <2>2. taskStatus = "CANCELLED" => Offered = {}
    BY DEF Offered, Claimable
  <2>3. call'[c].pc = "idle" \/ (taskStatus # "CANCELLED" /\ call'[c].pc = "claimTake")
    BY <1>1, <2>2, ClaimCarries, SlotAfter
  <2> QED BY <2>1, <2>3 DEF Serial, CancelKept, At, RefreshSteps, Withdrawn
<1>2. CASE DeleteRow(c)
  BY <1>2, NotCancelled, SlotAfter DEF DeleteRow
<1>3. CASE CancelItems(c)
  <2>1. call'[c].pc = "cancelTask"
    BY <1>3, SlotAfter DEF CancelItems
  <2>2. Withdrawn'
    BY <1>3 DEF CancelItems, Withdrawn, Open
  <2>3. taskStatus' # "CANCELLED"
    BY <1>3 DEF CancelItems, CancelKept, At, RefreshSteps
  <2> QED BY <2>1, <2>2, <2>3 DEF Serial, CancelKept, At
<1>4. CASE CancelTask(c)
  <2>1. call'[c].pc \in {"idle", "refresh"}
    BY <1>4, SlotAfter DEF CancelTask
  <2>2. Withdrawn'
    BY <1>4 DEF CancelTask, CancelKept, Withdrawn
  <2> QED BY <2>1, <2>2 DEF Serial, CancelKept, At, RefreshSteps
<1>5. CASE ~ClaimFind(c) /\ ~DeleteRow(c) /\ ~CancelItems(c) /\ ~CancelTask(c)
  <2>1. /\ call[c].pc \notin {"idle", "claimFind", "deleteRow"} \cup RefreshSteps
        /\ taskStatus' = taskStatus
    BY <1>5 DEF HandlerNext, UpsertItem, AfterUpserts, WritePool, ClaimTake, ExpandDelete, SuccessWrite, SkipWrite,
       FailRead, FailWrite, FillTask, FillItems, RetryFind, RetryAdd, RetryMark, ReleaseWrite, At, RefreshSteps, rows
  <2>2. taskStatus' # "CANCELLED"
    BY <2>1 DEF CancelKept
  <2>3. call'[c].pc \notin {"cancelTask", "refreshWrite"}
    <3>1. CASE WritePool(c) \/ (\E delivered \in BOOLEAN : ClaimTake(c, delivered)) \/ ExpandDelete(c)
               \/ SuccessWrite(c) \/ SkipWrite(c) \/ ReleaseWrite(c)
      BY <3>1, SlotAfter DEF WritePool, ClaimTake, ExpandDelete, SuccessWrite, SkipWrite, ReleaseWrite
    <3>2. CASE UpsertItem(c)
      BY <3>2, SlotAfter, UpsertCarries
    <3>3. CASE FillTask(c) \/ FillItems(c)
      BY <3>3, SlotAfter, UpsertCarries
    <3>4. CASE FailRead(c) \/ RetryFind(c) \/ RetryAdd(c)
      BY <3>4, SlotAfter, RetryCarries
    <3>5. CASE FailWrite(c)
      <4>1. Finish(c) \/ itemStatus[call[c].url] # "ABSENT"
        BY <3>5 DEF FailWrite
      <4> QED BY <3>5, <4>1, SlotAfter, RetryCarries
    <3>6. CASE RetryMark(c)
      BY <3>6, SlotAfter, RetryCarries DEF RetryMark
    <3> QED BY <1>5, <3>1, <3>2, <3>3, <3>4, <3>5, <3>6 DEF HandlerNext
  <2> QED BY <2>2, <2>3, NotCancelled
<1> QED BY <1>1, <1>2, <1>3, <1>4, <1>5

\* Requests that begin: only a deletion, or a claim that finds nothing, on a cancelled task.
LEMMA CancelStarts ==
  ASSUME TypeOK, Serial, CancelKept, NEW c \in Call,
         UserNext(c) \/ (\E u \in Url : ReleaseStart(c, u)) \/ \E a \in Agent : AgentNext(c, a)
  PROVE  CancelKept'
<1>1. taskStatus' = taskStatus
  BY DEF UserNext, RetryFailed, RetryItem, CancelStart, DeleteStart, ReleaseStart, AgentNext, ClaimStart,
         ReportListing, ReportProduct, ReportFailure, rows
<1>2. CASE taskStatus # "CANCELLED"
  <2>1. CASE UserNext(c)
    BY <1>1, <1>2, <2>1, StartCarries, NotCancelled DEF UserNext
  <2>2. ASSUME NEW u \in Url, ReleaseStart(c, u) PROVE CancelKept'
    BY <1>1, <1>2, <2>2, StartCarries, NotCancelled DEF ReleaseStart, IsIdle
  <2>3. ASSUME NEW a \in Agent, AgentNext(c, a) PROVE CancelKept'
    <3>1. ASSUME NEW stuck \in SUBSET Url, ClaimStart(c, a, stuck) PROVE CancelKept'
      BY <1>1, <1>2, <3>1, AgentCarries, NotCancelled
    <3>2. ASSUME NEW harvest \in SUBSET Product, ReportListing(c, a, harvest) PROVE CancelKept'
      BY <1>1, <1>2, <3>2, AgentCarries, NotCancelled DEF ReportListing, Begin, IsIdle
    <3>3. ASSUME NEW u \in Url, NEW mismatch \in BOOLEAN, ReportProduct(c, a, u, mismatch) PROVE CancelKept'
      BY <1>1, <1>2, <3>3, AgentCarries, NotCancelled DEF ReportProduct, Begin, IsIdle
    <3>4. ASSUME NEW u \in Url, NEW reason \in {"captcha", "retryable"}, ReportFailure(c, a, u, reason)
          PROVE  CancelKept'
      BY <1>1, <1>2, <3>4, AgentCarries, NotCancelled DEF ReportFailure, Begin, IsIdle
    <3> QED BY <2>3, <3>1, <3>2, <3>3, <3>4 DEF AgentNext
  <2> QED BY <2>1, <2>2, <2>3
<1>3. CASE taskStatus = "CANCELLED"
  <2>1. UNCHANGED itemStatus
    BY <1>3 DEF UserNext, RetryFailed, RetryItem, CancelStart, DeleteStart, ReleaseStart, AgentNext, ClaimStart,
       ReportListing, ReportProduct, ReportFailure, rows, Claimable, Requeue, TypeOK, RowsOK
  <2>2. CASE call' = call
    BY <1>1, <2>1, <2>2 DEF CancelKept, Withdrawn, At
  <2>3. CASE call'[c].pc \in {"claimFind", "deleteRow"}
    BY <1>1, <2>1, <2>3 DEF Serial, CancelKept, Withdrawn, At, RefreshSteps
  <2>4. CASE UserNext(c)
    BY <1>3, <2>3, <2>4, StartCarries DEF UserNext, RetryFailed, RetryItem, CancelStart, CanCancel, Claimable, ShouldPreserve
  <2>5. ASSUME NEW u \in Url, ReleaseStart(c, u) PROVE CancelKept'
    BY <1>3, <2>2, <2>5 DEF ReleaseStart, ShouldPreserve
  <2>6. ASSUME NEW a \in Agent, AgentNext(c, a) PROVE CancelKept'
    <3>1. \A u \in Url : ~Accepted(a, u)
      BY <1>3 DEF Accepted, ShouldPreserve
    <3>2. (\E stuck \in SUBSET Url : ClaimStart(c, a, stuck)) \/ call' = call
      BY <2>6, <3>1 DEF AgentNext, ReportListing, ReportProduct, ReportFailure, Begin, Url
    <3> QED BY <2>2, <2>3, <3>2, AgentCarries
  <2> QED BY <2>4, <2>5, <2>6
<1> QED BY <1>2, <1>3

\* With one handler at a time, whatever restarts: a cancelled task's items stay withdrawn.
THEOREM CancelStep == Serial /\ TypeOK /\ CancelKept /\ [Next]_vars => CancelKept'
<1> SUFFICES ASSUME Serial, TypeOK, CancelKept, [Next]_vars PROVE CancelKept'
  OBVIOUS
<1>1. CASE Restart
  <2>1. UNCHANGED <<taskStatus, itemStatus>> /\ \A c \in Call : call'[c].pc = "idle"
    BY <1>1 DEF Restart, rows, Idle
  <2> QED BY <2>1 DEF CancelKept, Withdrawn, At
<1>2. CASE PrepareTimeout
  BY <1>2 DEF PrepareTimeout, FailTask, CancelKept, Withdrawn, At
<1>3. CASE (\E a \in Agent : AgentForgets(a)) \/ UNCHANGED vars
  <2>1. UNCHANGED <<taskStatus, itemStatus, call>>
    BY <1>3 DEF AgentForgets, vars, rows
  <2> QED BY <2>1 DEF CancelKept, Withdrawn, At
<1> QED BY <1>1, <1>2, <1>3, CancelPrepare, CancelHandlers, CancelStarts DEF Next

\* CancelKept is an invariant, whatever restarts.
THEOREM CancelledWithdrawn == Serial => (Spec => []CancelKept)
<1> SUFFICES ASSUME Serial PROVE Spec => []CancelKept
  OBVIOUS
<1>1. Init => CancelKept
  BY DEF Init, Idle, CancelKept, At
<1> QED BY <1>1, TypeCorrect, CancelStep, PTL DEF Spec

\* With one handler at a time a prepared task that is cancelled stays cancelled, and none
\* of its items is claimable, at work or waiting for a retry again.
THEOREM CancelledForGood == Serial => (Spec => CancelIsFinal)
<1> SUFFICES ASSUME Serial PROVE Spec => CancelIsFinal
  OBVIOUS
<1> DEFINE Final == taskStatus = "CANCELLED" /\ prepare = "done"
                    => /\ taskStatus' \in {"CANCELLED", "DELETED"}
                       /\ \A u \in Url : itemStatus'[u] \notin Open
<1>1. TypeOK /\ CancelKept /\ CancelKept' /\ [Next]_vars => Final
  <2> SUFFICES ASSUME TypeOK, CancelKept, CancelKept', [Next]_vars, taskStatus = "CANCELLED", prepare = "done"
               PROVE  /\ taskStatus' \in {"CANCELLED", "DELETED"}
                      /\ \A u \in Url : itemStatus'[u] \notin Open
    OBVIOUS
  <2>1. (taskStatus' = "CANCELLED") \/ \E c \in Call : DeleteRow(c)
    <3>1. ASSUME NEW c \in Call, PrepareNext(c) PROVE FALSE
      BY <3>1 DEF PrepareNext, PrepareStart, PrepareListing, PrepareCheck, PrepareFail, CancelKept, At, RefreshSteps
    <3>2. ASSUME NEW c \in Call, RefreshNext(c) PROVE taskStatus' = "CANCELLED"
      BY <3>2 DEF RefreshNext, RefreshRead, RefreshItems, RefreshWrite, CancelKept, At, rows
    <3>3. ASSUME NEW c \in Call, HandlerNext(c) PROVE taskStatus' = "CANCELLED" \/ DeleteRow(c)
      BY <3>3 DEF HandlerNext, UpsertItem, WritePool, ClaimFind, ClaimTake, ExpandDelete, SuccessWrite, SkipWrite,
         FailRead, FailWrite, FillTask, FillItems, RetryFind, RetryAdd, RetryMark, ReleaseWrite, CancelItems, CancelTask, rows
    <3>4. ASSUME NEW c \in Call, UserNext(c) \/ (\E u \in Url : ReleaseStart(c, u)) \/ \E a \in Agent : AgentNext(c, a)
          PROVE  taskStatus' = "CANCELLED"
      BY <3>4 DEF UserNext, RetryFailed, RetryItem, CancelStart, DeleteStart, ReleaseStart, AgentNext, ClaimStart,
         ReportListing, ReportProduct, ReportFailure, rows
    <3>5. (\E a \in Agent : AgentForgets(a)) \/ PrepareTimeout \/ Restart \/ UNCHANGED vars => taskStatus' = "CANCELLED"
      BY DEF AgentForgets, PrepareTimeout, Restart, vars, rows
    <3> QED BY <3>1, <3>2, <3>3, <3>4, <3>5 DEF Next
  <2>2. CASE taskStatus' = "CANCELLED"
    BY <2>2 DEF CancelKept, Withdrawn
  <2>3. CASE \E c \in Call : DeleteRow(c)
    BY <2>3 DEF DeleteRow, Open
  <2> QED BY <2>1, <2>2, <2>3
<1>2. Spec => []CancelKept
  BY CancelledWithdrawn
<1> QED BY <1>1, <1>2, TypeCorrect, PTL DEF CancelIsFinal, Spec

(***************************************************************************)
(* The status shown: it is what the items call for, or a refresh is to     *)
(* come that will make it so.                                              *)
(***************************************************************************)
Blank == \A u \in Url : itemStatus[u] = "ABSENT"
Over == taskStatus \in {"CANCELLED", "DELETED"}
Clean == Over \/ taskStatus = DerivedStatus \/ Blank \/ \E u \in Url : itemStatus[u] = "RETRYING"

\* Calls before which a handler has changed nothing that asks for a refresh, or leaves an
\* item to wait for its retry job, which asks for it.
CleanSteps == {"idle", "claimFind", "claimTake", "failRead", "failWrite", "skipWrite", "successWrite",
  "retryFind", "retryAdd", "retryMark", "releaseWrite", "cancelItems", "deleteRow"}
\* Calls a handler may be at while the task waits to be prepared.
QueuedSteps == {"idle", "claimFind", "retryFind", "cancelItems", "cancelTask", "deleteRow"} \cup RefreshSteps
ExpandSteps == {"expandUpsert", "expandPool", "expandDelete"}

SettledAt(c) ==
  /\ call[c].pc \in CleanSteps => Clean
  /\ call[c].pc \in {"prepListing", "prepCheck"} => Blank
  /\ call[c].pc \in ExpandSteps => itemStatus[Listing] # "ABSENT"
  /\ At(c, "refreshItems") /\ ShouldPreserve(call[c].seen) => Over
  /\ At(c, "refreshWrite") => IF call[c].seen = "keep" THEN Over ELSE call[c].seen = DerivedStatus
  /\ call[c].job = "prepare" => call[c].pc \in PrepareSteps \cup RefreshSteps
  /\ prepare = "active" => call[c].job = "prepare"
  /\ prepare = "queued" => call[c].pc \in QueuedSteps

SettledKept ==
  /\ \A c \in Call : SettledAt(c)
  /\ prepare = "queued" => Blank
  /\ taskStatus # "PAUSED"

\* Claiming an item and putting it back are alike to the status.
OpenAlike ==
  \A u \in Url : \/ itemStatus'[u] = itemStatus[u]
                 \/ itemStatus[u] \in {"PENDING", "RUNNING"} /\ itemStatus'[u] \in {"PENDING", "RUNNING"}

\* The status the items give reads open items alike: claiming or releasing one changes nothing.
LEMMA AlikeSettled ==
  ASSUME OpenAlike
  PROVE  /\ DerivedStatus' = DerivedStatus
         /\ Blank' <=> Blank
         /\ taskStatus' = taskStatus => (Clean => Clean')
<1>1. Blank' <=> Blank
  BY DEF OpenAlike, Blank
<1>2. (\E u \in Url : itemStatus[u] = "RETRYING") => \E u \in Url : itemStatus'[u] = "RETRYING"
  BY DEF OpenAlike
<1>3. Existing' = Existing /\ ProductsIn(Open)' = ProductsIn(Open)
  BY DEF OpenAlike, Existing, ProductsIn, Open, ItemStatuses, Url
<1>4. ProductsIn({"FAILED"})' = ProductsIn({"FAILED"}) /\ ProductsIn({"SUCCESS"})' = ProductsIn({"SUCCESS"})
  BY DEF OpenAlike, ProductsIn, Url
<1>5. /\ (itemStatus'[Listing] \in Open) <=> (itemStatus[Listing] \in Open)
      /\ (itemStatus'[Listing] = "FAILED") <=> (itemStatus[Listing] = "FAILED")
  BY DEF OpenAlike, Open, Url
<1>6. DerivedStatus' = DerivedStatus
  <2>1. CASE Existing = {} /\ itemStatus[Listing] \in Open
    BY <1>3, <1>5, <2>1 DEF DerivedStatus, Open
  <2>2. CASE Existing = {} /\ itemStatus[Listing] = "FAILED"
    BY <1>3, <1>5, <2>2 DEF DerivedStatus, Open
  <2>3. CASE Existing = {} /\ itemStatus[Listing] \notin Open \cup {"FAILED"}
    BY <1>3, <1>5, <2>3 DEF DerivedStatus
  <2>4. CASE Existing # {} /\ ProductsIn(Open) # {}
    BY <1>3, <2>4 DEF DerivedStatus
  <2>5. CASE Existing # {} /\ ProductsIn(Open) = {}
    BY <1>3, <1>4, <2>5 DEF DerivedStatus
  <2> QED BY <2>1, <2>2, <2>3, <2>4, <2>5
<1> QED BY <1>1, <1>2, <1>6 DEF Clean, Over

\* What a handler that neither prepares nor refreshes has to see to.
LEMMA SettledGoes ==
  ASSUME Serial, SettledKept, NEW c \in Call,
         call[c].pc \notin PrepareSteps \cup RefreshSteps,
         prepare' = prepare, call'[c].job # "prepare", taskStatus' # "PAUSED",
         call'[c].pc \notin PrepareSteps \cup {"refreshItems", "refreshWrite"},
         prepare = "queued" => Blank' /\ call'[c].pc \in QueuedSteps,
         call'[c].pc \in CleanSteps => Clean',
         call'[c].pc \in ExpandSteps => itemStatus'[Listing] # "ABSENT"
  PROVE  SettledKept'
<1>1. prepare # "active"
  BY DEF SettledKept, SettledAt
<1>2. SettledAt(c)'
  BY <1>1 DEF SettledAt, At, PrepareSteps
<1> QED BY <1>2 DEF SettledKept, Serial

\* Nothing of it changes.
LEMMA SettledFrame ==
  ASSUME SettledKept, UNCHANGED <<taskStatus, itemStatus, call, prepare>>
  PROVE  SettledKept'
<1>1. DerivedStatus' = DerivedStatus /\ (Blank' <=> Blank) /\ (Clean => Clean')
  BY AlikeSettled DEF OpenAlike
<1>2. ASSUME NEW c \in Call PROVE SettledAt(c)'
  BY <1>1 DEF SettledKept, SettledAt, At, Over
<1> QED BY <1>1, <1>2 DEF SettledKept

\* Preparing and refreshing.
LEMMA SettledPrepare ==
  ASSUME TypeOK, Serial, SettledKept, NEW c \in Call, PrepareNext(c) \/ RefreshNext(c)
  PROVE  SettledKept'
<1> USE DEF Serial
<1>0. SettledAt(c)
  BY DEF SettledKept
<1>1. CASE PrepareStart(c)
  <2>1. Blank /\ UNCHANGED itemStatus /\ prepare = "queued" /\ IsIdle(c)
    BY <1>1 DEF PrepareStart, SettledKept
  <2>2. Blank'
    BY <2>1 DEF Blank
  <2>3. CASE taskStatus = "DELETED"
    <3>1. UNCHANGED <<taskStatus, call>> /\ prepare' = "done"
      BY <1>1, <2>3 DEF PrepareStart
    <3>2. SettledAt(c)'
      BY <1>0, <2>1, <2>2, <3>1 DEF SettledAt, Clean, At, IsIdle, PrepareSteps, RefreshSteps, ExpandSteps
    <3> QED BY <2>2, <3>1, <3>2 DEF SettledKept
  <2>4. CASE taskStatus # "DELETED"
    <3>1. taskStatus' = "RUNNING" /\ prepare' = "active" /\ call'[c].job = "prepare"
          /\ call'[c].pc \in {"prepListing", "prepCheck"}
      BY <1>1, <2>4, PrepareCarries DEF PrepareStart
    <3>2. SettledAt(c)'
      BY <2>2, <3>1 DEF SettledAt, At, PrepareSteps, CleanSteps, ExpandSteps
    <3> QED BY <3>1, <3>2 DEF SettledKept
  <2> QED BY <2>3, <2>4
<1>2. ASSUME Finish(c), taskStatus' # "PAUSED", Clean', PrepareNext(c) => prepare # "queued", prepare = "queued" => Blank'
      PROVE  SettledKept'
  <2>1. call'[c].pc = "idle" /\ call'[c].job = "none" /\ prepare' = IF call[c].job = "prepare" THEN "done" ELSE prepare
    BY <1>2, SlotAfter
  <2>2. SettledAt(c)'
    BY <1>0, <1>2, <2>1 DEF SettledAt, At, PrepareSteps, RefreshSteps, ExpandSteps, CleanSteps, QueuedSteps
  <2> QED BY <1>2, <2>1, <2>2 DEF SettledKept
<1>3. CASE PrepareListing(c)
  <2>1. prepare # "queued" /\ taskStatus' = taskStatus /\ At(c, "prepListing")
    BY <1>0, <1>3 DEF PrepareListing, SettledAt, At, QueuedSteps, RefreshSteps
  <2>2. CASE Finish(c) /\ taskStatus = "DELETED"
    BY <1>2, <2>1, <2>2 DEF Clean, Over
  <2>3. CASE GotoRefresh(c)
    <3>1. call'[c].pc = "refresh" /\ call'[c].job = call[c].job /\ prepare' = prepare
      BY <2>3, SlotAfter
    <3>2. SettledAt(c)'
      BY <1>0, <2>1, <3>1 DEF SettledAt, At, RefreshSteps, ExpandSteps, CleanSteps, QueuedSteps
    <3> QED BY <2>1, <3>1, <3>2 DEF SettledKept
  <2> QED BY <1>3, <2>2, <2>3 DEF PrepareListing
<1>4. CASE PrepareCheck(c)
  <2>1. /\ prepare # "queued" /\ UNCHANGED <<taskStatus, itemStatus>> /\ At(c, "prepCheck") /\ Blank
    BY <1>0, <1>4 DEF PrepareCheck, SettledAt, At, QueuedSteps, RefreshSteps, rows
  <2>2. Blank'
    BY <2>1 DEF Blank
  <2>3. CASE Finish(c)
    BY <1>2, <2>1, <2>2, <2>3 DEF Clean, SettledKept
  <2>4. CASE call'[c].pc = "prepUpsert" /\ call'[c].job = call[c].job /\ prepare' = prepare
    <3>1. SettledAt(c)'
      BY <1>0, <2>1, <2>4 DEF SettledAt, At, PrepareSteps, ExpandSteps, CleanSteps, QueuedSteps, RefreshSteps
    <3> QED BY <2>1, <2>4, <3>1 DEF SettledKept
  <2> QED BY <1>4, <2>3, <2>4, PrepareCarries
<1>5. CASE PrepareFail(c)
  <2>1. /\ prepare # "queued" /\ UNCHANGED itemStatus /\ Blank /\ taskStatus' # "PAUSED" /\ Finish(c)
    BY <1>0, <1>5 DEF PrepareFail, FailTask, SettledAt, SettledKept, At, QueuedSteps, RefreshSteps
  <2>2. Blank'
    BY <2>1 DEF Blank
  <2> QED BY <1>2, <2>1, <2>2 DEF Clean
<1>6. CASE RefreshRead(c)
  <2>1. UNCHANGED <<taskStatus, itemStatus>> /\ At(c, "refresh") /\ taskStatus' # "PAUSED"
    BY <1>6 DEF RefreshRead, rows, SettledKept
  <2>2. Blank' <=> Blank
    BY <2>1 DEF Blank
  <2>3. CASE taskStatus = "DELETED" /\ Finish(c)
    BY <1>2, <1>6, <2>1, <2>2, <2>3 DEF Clean, Over, SettledKept, PrepareNext, PrepareStart, PrepareListing, PrepareCheck, PrepareFail, At, IsIdle
  <2>4. CASE call'[c].pc = "refreshItems" /\ call'[c].seen = taskStatus /\ call'[c].job = call[c].job /\ prepare' = prepare
    <3>1. ShouldPreserve(taskStatus) => taskStatus' = "CANCELLED"
      BY <2>1 DEF ShouldPreserve, SettledKept
    <3>2. SettledAt(c)'
      BY <1>0, <2>1, <2>4, <3>1 DEF SettledAt, At, Over, PrepareSteps, RefreshSteps, ExpandSteps, CleanSteps, QueuedSteps
    <3> QED BY <2>1, <2>2, <2>4, <3>2 DEF SettledKept
  <2> QED BY <1>6, <2>3, <2>4, PrepareCarries
<1>7. CASE RefreshItems(c)
  <2>1. UNCHANGED <<taskStatus, itemStatus>> /\ At(c, "refreshItems") /\ taskStatus' # "PAUSED"
    BY <1>7 DEF RefreshItems, rows, SettledKept
  <2>2. (Blank' <=> Blank) /\ DerivedStatus' = DerivedStatus
    BY <2>1, AlikeSettled DEF OpenAlike
  <2>3. /\ call'[c].pc = "refreshWrite" /\ call'[c].job = call[c].job /\ prepare' = prepare
        /\ call'[c].seen = IF ShouldPreserve(call[c].seen) THEN "keep" ELSE DerivedStatus
    BY <1>7, PrepareCarries
  <2>4. DerivedStatus # "keep"
    BY DerivedStatuses DEF TypeOK
  <2>5. IF call'[c].seen = "keep" THEN taskStatus' \in {"CANCELLED", "DELETED"} ELSE call'[c].seen = DerivedStatus'
    BY <1>0, <2>1, <2>2, <2>3, <2>4 DEF SettledAt, Over
  <2>6. SettledAt(c)'
    BY <1>0, <2>1, <2>3, <2>5 DEF SettledAt, At, Over, PrepareSteps, RefreshSteps, ExpandSteps, CleanSteps, QueuedSteps
  <2> QED BY <2>1, <2>2, <2>3, <2>6 DEF SettledKept
<1>8. CASE RefreshWrite(c)
  <2>1. UNCHANGED itemStatus /\ At(c, "refreshWrite") /\ Finish(c)
    BY <1>8 DEF RefreshWrite
  <2>2. (Blank' <=> Blank) /\ DerivedStatus' = DerivedStatus
    BY <2>1, AlikeSettled DEF OpenAlike
  <2>3. Over' \/ taskStatus' = DerivedStatus'
    BY <1>0, <1>8, <2>1, <2>2 DEF RefreshWrite, SettledAt, Over
  <2>4. taskStatus' # "PAUSED"
    BY <2>2, <2>3, DerivedStatuses DEF TypeOK, Over
  <2> QED BY <1>2, <2>1, <2>2, <2>3, <2>4 DEF Clean, SettledKept, PrepareNext, PrepareStart, PrepareListing, PrepareCheck, PrepareFail, At, IsIdle
<1> QED BY <1>1, <1>3, <1>4, <1>5, <1>6, <1>7, <1>8 DEF PrepareNext, RefreshNext

\* Handlers past their first call.
LEMMA SettledHandlers ==
  ASSUME TypeOK, Serial, SettledKept, NEW c \in Call, HandlerNext(c)
  PROVE  SettledKept'
<1>0. SettledAt(c) /\ taskStatus # "PAUSED" /\ (prepare = "queued" => Blank)
  BY DEF SettledKept
<1> DEFINE Working == {"idle", "claimFind", "retryFind", "cancelItems", "cancelTask", "deleteRow"}
<1>1. CASE UpsertItem(c)
  <2>1. CASE taskStatus = "DELETED" /\ Finish(c)
    <3>1. call'[c].pc = "idle" /\ call'[c].job = "none" /\ Over' /\ taskStatus' = taskStatus /\ prepare # "queued"
          /\ prepare' = IF call[c].job = "prepare" THEN "done" ELSE prepare
      BY <1>0, <1>1, <2>1, SlotAfter, UpsertCarries DEF UpsertItem, Over, SettledAt, QueuedSteps, RefreshSteps
    <3>2. SettledAt(c)'
      BY <1>0, <3>1 DEF SettledAt, At, Clean, ExpandSteps
    <3> QED BY <1>0, <3>1, <3>2 DEF SettledKept, Serial
  <2>2. CASE taskStatus # "DELETED"
    <3>1. PICK u \in call[c].todo :
            /\ SetItem(u, "PENDING")
            /\ call'[c].pc = IF call[c].todo \ {u} # {} THEN call[c].pc
                             ELSE IF At(c, "prepUpsert") THEN "refresh"
                             ELSE IF At(c, "expandUpsert") THEN "expandPool" ELSE "fillPool"
            /\ call'[c].job = call[c].job /\ prepare' = prepare
      BY <1>1, <2>2, UpsertCarries
    <3>2. call[c].pc \in {"prepUpsert", "expandUpsert", "fillUpsert"}
      BY <1>1, UpsertCarries
    <3>3. taskStatus' = taskStatus /\ prepare # "queued"
      BY <1>0, <1>1, <3>2 DEF UpsertItem, SettledAt, QueuedSteps, RefreshSteps
    <3>4. call'[c].pc \in ExpandSteps => itemStatus'[Listing] # "ABSENT"
      BY <1>0, <3>1, <3>2 DEF SettledAt, ExpandSteps, At, SetItem, TypeOK, RowsOK, Url
    <3>5. SettledAt(c)'
      BY <1>0, <3>1, <3>2, <3>3, <3>4 DEF SettledAt, At, ExpandSteps, CleanSteps, PrepareSteps, RefreshSteps
    <3> QED BY <1>0, <3>1, <3>3, <3>5 DEF SettledKept, Serial
  <2> QED BY <1>1, <2>1, <2>2, UpsertCarries
<1>2. ASSUME ~UpsertItem(c)
      PROVE  SettledKept'
  <2>0. /\ call[c].pc \notin PrepareSteps \cup RefreshSteps \cup {"idle"}
        /\ call[c].job # "prepare"
        /\ prepare = "queued" => call[c].pc \in Working /\ Blank
    <3>1. call[c].pc \notin PrepareSteps \cup RefreshSteps \cup {"idle"}
      BY <1>2 DEF HandlerNext, WritePool, ClaimFind, ClaimTake, ExpandDelete, SuccessWrite, SkipWrite,
       FailRead, FailWrite, FillTask, FillItems, RetryFind, RetryAdd, RetryMark, ReleaseWrite, CancelItems, CancelTask,
       DeleteRow, At, PrepareSteps, RefreshSteps
    <3> QED BY <1>0, <3>1 DEF SettledAt, QueuedSteps
  <2>1. ASSUME Finish(c), taskStatus' # "PAUSED", Clean', prepare = "queued" => Blank' PROVE SettledKept'
    <3>1. call'[c].pc = "idle" /\ call'[c].job = "none" /\ prepare' = prepare
      BY <2>0, <2>1, SlotAfter
    <3> QED BY <2>0, <2>1, <3>1, SettledGoes DEF QueuedSteps, ExpandSteps, PrepareSteps
  <2>2. ASSUME GotoRefresh(c), taskStatus' # "PAUSED", prepare = "queued" => Blank' PROVE SettledKept'
    <3>1. call'[c].pc = "refresh" /\ call'[c].job = call[c].job /\ prepare' = prepare
      BY <2>2, SlotAfter
    <3> QED BY <2>0, <2>2, <3>1, SettledGoes DEF QueuedSteps, RefreshSteps, ExpandSteps, PrepareSteps, CleanSteps
  <2>3. ASSUME call'[c].pc \notin CleanSteps \cup ExpandSteps \cup PrepareSteps \cup {"refreshItems", "refreshWrite"},
               call'[c].job # "prepare", prepare' = prepare, prepare # "queued", taskStatus' # "PAUSED"
        PROVE  SettledKept'
    BY <2>0, <2>3, SettledGoes
  <2>4. ASSUME call'[c].pc \in CleanSteps, call'[c].job # "prepare", prepare' = prepare, prepare # "queued",
               taskStatus' # "PAUSED", Clean'
        PROVE  SettledKept'
    <3>1. call'[c].pc \notin PrepareSteps \cup ExpandSteps \cup {"refreshItems", "refreshWrite"}
      BY <2>4 DEF CleanSteps, PrepareSteps, ExpandSteps
    <3> QED BY <2>0, <2>4, <3>1, SettledGoes
  <2>5. UNCHANGED <<taskStatus, itemStatus>> => (Clean => Clean') /\ (Blank => Blank')
    BY AlikeSettled DEF OpenAlike
  <2>6. Over => Clean
    BY DEF Clean
  <2>7. taskStatus = "DELETED" /\ taskStatus' = "DELETED" => Clean'
    BY DEF Clean, Over
  <2>8. call[c].pc \in CleanSteps => Clean
    BY <1>0 DEF SettledAt
  <2>11. CASE WritePool(c)
    <3>1. UNCHANGED <<taskStatus, itemStatus>> /\ prepare # "queued" /\ call[c].pc \in {"expandPool", "fillPool"}
      BY <2>0, <2>11 DEF WritePool
    <3>2. CASE taskStatus = "DELETED" /\ Finish(c)
      BY <1>0, <2>1, <2>7, <3>1, <3>2
    <3>3. CASE GotoRefresh(c)
      BY <1>0, <2>2, <3>1, <3>3
    <3>4. CASE At(c, "expandPool") /\ Goto(c, "expandDelete")
      <4>1. call'[c].pc = "expandDelete" /\ call'[c].job = call[c].job /\ prepare' = prepare
        BY <3>4, SlotAfter
      <4>2. itemStatus'[Listing] # "ABSENT"
        BY <1>0, <3>1, <3>4 DEF SettledAt, ExpandSteps, At
      <4> QED BY <1>0, <2>0, <3>1, <4>1, <4>2, SettledGoes DEF PrepareSteps, CleanSteps
    <3> QED BY <2>11, <3>2, <3>3, <3>4 DEF WritePool, At
  <2>12. CASE ClaimFind(c)
    <3>1. UNCHANGED <<taskStatus, itemStatus>> /\ Clean /\ taskStatus' # "PAUSED"
      BY <1>0, <2>8, <2>12 DEF ClaimFind, rows, At, CleanSteps
    <3>2. prepare = "queued" => Offered = {}
      BY <2>0 DEF Blank, Offered
    <3>3. CASE Finish(c)
      BY <2>0, <2>1, <2>5, <3>1, <3>3
    <3>4. CASE prepare # "queued" /\ call'[c].pc = "claimTake" /\ call'[c].job = call[c].job /\ prepare' = prepare
      BY <2>0, <2>4, <2>5, <3>1, <3>4 DEF CleanSteps
    <3> QED BY <2>12, <3>2, <3>3, <3>4, ClaimCarries
  <2>13. ASSUME NEW delivered \in BOOLEAN, ClaimTake(c, delivered) PROVE SettledKept'
    <3>1. taskStatus' = taskStatus /\ Clean /\ prepare # "queued" /\ Finish(c)
      BY <2>0, <2>8, <2>13 DEF ClaimTake, At, CleanSteps
    <3>2. OpenAlike
      BY <2>13 DEF ClaimTake, OpenAlike, StillPending, SetItem, TypeOK, RowsOK
    <3> QED BY <1>0, <2>1, <3>1, <3>2, AlikeSettled
  <2>14. CASE ExpandDelete(c)
    <3>1. prepare # "queued" /\ taskStatus' = taskStatus /\ GotoRefresh(c)
      BY <1>0, <2>0, <2>14 DEF ExpandDelete, SettledAt, At, ExpandSteps
    <3> QED BY <1>0, <2>2, <3>1
  <2>15. CASE SuccessWrite(c)
    <3>1. prepare # "queued" /\ taskStatus' = taskStatus /\ Clean
      BY <2>0, <2>8, <2>15 DEF SuccessWrite, At, CleanSteps
    <3>2. (Finish(c) /\ UNCHANGED itemStatus) \/ GotoRefresh(c)
      BY <2>15 DEF SuccessWrite
    <3> QED BY <1>0, <2>1, <2>2, <2>5, <3>1, <3>2
  <2>16. CASE SkipWrite(c)
    <3>1. prepare # "queued" /\ taskStatus' = taskStatus /\ Clean
      BY <2>0, <2>8, <2>16 DEF SkipWrite, At, CleanSteps
    <3>2. CASE Finish(c) /\ UNCHANGED itemStatus
      BY <1>0, <2>1, <2>5, <3>1, <3>2
    <3>3. CASE Goto(c, "fillTask")
      <4>1. call'[c].pc = "fillTask" /\ call'[c].job = call[c].job /\ prepare' = prepare
        BY <3>3, SlotAfter
      <4> QED BY <1>0, <2>0, <2>3, <3>1, <4>1 DEF CleanSteps, ExpandSteps, PrepareSteps
    <3> QED BY <2>16, <3>2, <3>3 DEF SkipWrite
  <2>17. CASE FailRead(c)
    <3>1. prepare # "queued" /\ UNCHANGED <<taskStatus, itemStatus>> /\ Clean
      BY <2>0, <2>8, <2>17 DEF FailRead, At, CleanSteps, rows
    <3>2. CASE Finish(c)
      BY <1>0, <2>1, <2>5, <3>1, <3>2
    <3>3. CASE call'[c].pc = "failWrite" /\ call'[c].job = "none" /\ prepare' = prepare
      BY <1>0, <2>4, <2>5, <3>1, <3>3 DEF CleanSteps
    <3> QED BY <2>17, <3>2, <3>3, RetryCarries
  <2>18. CASE FailWrite(c)
    <3>1. prepare # "queued" /\ taskStatus' = taskStatus /\ Clean
      BY <2>0, <2>8, <2>18 DEF FailWrite, At, CleanSteps
    <3>2. CASE itemStatus[call[c].url] = "ABSENT"
      <4>1. Finish(c) /\ UNCHANGED itemStatus
        BY <2>18, <3>2 DEF FailWrite
      <4> QED BY <1>0, <2>1, <2>5, <3>1, <4>1
    <3>3. CASE /\ SetItem(call[c].url, "RETRYING") /\ prepare' = prepare /\ call'[c].job = "none"
               /\ call'[c].pc = "retryAdd"
      <4>1. call[c].url \in Url
        BY DEF TypeOK, ControlOK, LoadedSlots, Slots
      <4>2. Clean'
        BY <3>3, <4>1 DEF Clean, SetItem, TypeOK, RowsOK
      <4> QED BY <1>0, <2>4, <3>1, <3>3, <4>2 DEF CleanSteps
    <3>4. CASE Goto(c, "fillTask")
      <4>1. call'[c].pc = "fillTask" /\ call'[c].job = call[c].job /\ prepare' = prepare
        BY <3>4, SlotAfter
      <4> QED BY <1>0, <2>0, <2>3, <3>1, <4>1 DEF CleanSteps, ExpandSteps, PrepareSteps
    <3> QED BY <2>18, <3>2, <3>3, <3>4, RetryCarries
  <2>19. CASE FillTask(c)
    <3>1. prepare # "queued" /\ UNCHANGED <<taskStatus, itemStatus>>
      BY <2>0, <2>19 DEF FillTask, At, rows
    <3>2. CASE taskStatus = "DELETED" /\ Finish(c)
      BY <1>0, <2>1, <2>7, <3>1, <3>2
    <3>3. CASE GotoRefresh(c)
      BY <1>0, <2>2, <3>1, <3>3
    <3>4. CASE call'[c].pc = "fillItems" /\ call'[c].job = call[c].job /\ prepare' = prepare
      BY <1>0, <2>0, <2>3, <3>1, <3>4 DEF CleanSteps, ExpandSteps, PrepareSteps
    <3> QED BY <2>19, <3>2, <3>3, <3>4, UpsertCarries
  <2>20. CASE FillItems(c)
    <3>1. prepare # "queued" /\ UNCHANGED <<taskStatus, itemStatus>>
      BY <2>0, <2>20 DEF FillItems, At, rows
    <3>2. CASE GotoRefresh(c)
      BY <1>0, <2>2, <3>1, <3>2
    <3>3. CASE call'[c].pc = "fillUpsert" /\ call'[c].job = call[c].job /\ prepare' = prepare
      BY <1>0, <2>0, <2>3, <3>1, <3>3 DEF CleanSteps, ExpandSteps, PrepareSteps
    <3> QED BY <2>20, <3>2, <3>3, UpsertCarries
  <2>21. CASE RetryFind(c)
    <3>1. UNCHANGED <<taskStatus, itemStatus>> /\ Clean
      BY <2>8, <2>21 DEF RetryFind, At, CleanSteps, rows
    <3>2. CASE Finish(c)
      BY <1>0, <2>0, <2>1, <2>5, <3>1, <3>2
    <3>3. CASE Failed # {}
      <4>1. prepare # "queued"
        BY <2>0, <3>3 DEF Blank, Failed
      <4>2. CASE call'[c].pc = "retryAdd" /\ call'[c].job = "none" /\ prepare' = prepare
        BY <1>0, <2>4, <2>5, <3>1, <4>1, <4>2 DEF CleanSteps
      <4> QED BY <2>21, <3>2, <4>2, RetryCarries
    <3> QED BY <2>21, <3>2, <3>3 DEF RetryFind
  <2>22. CASE RetryAdd(c)
    <3>1. prepare # "queued" /\ UNCHANGED <<taskStatus, itemStatus>> /\ Clean
      BY <2>0, <2>8, <2>22 DEF RetryAdd, At, CleanSteps, rows
    <3>2. call'[c].pc = "retryMark" /\ call'[c].job = call[c].job /\ prepare' = prepare
      BY <2>22, RetryCarries
    <3> QED BY <1>0, <2>0, <2>4, <2>5, <3>1, <3>2 DEF CleanSteps
  <2>23. CASE RetryMark(c)
    <3>1. prepare # "queued" /\ taskStatus' = taskStatus /\ Clean
      BY <2>0, <2>8, <2>23 DEF RetryMark, At, CleanSteps
    <3>2. CASE itemStatus[call[c].url] = "ABSENT"
      <4>1. Finish(c) /\ UNCHANGED itemStatus
        BY <2>23, <3>2 DEF RetryMark
      <4> QED BY <1>0, <2>1, <2>5, <3>1, <4>1
    <3>3. CASE itemStatus[call[c].url] # "ABSENT"
      <4>1. call[c].url \in Url
        BY DEF TypeOK, ControlOK, LoadedSlots, Slots
      <4>2. SetItem(call[c].url, "RETRYING")
        BY <2>23, <3>3, RetryCarries
      <4>3. Clean'
        BY <4>1, <4>2 DEF Clean, SetItem, TypeOK, RowsOK
      <4>4. CASE call'[c].pc = "retryAdd" /\ call'[c].job = call[c].job /\ prepare' = prepare
        BY <1>0, <2>0, <2>4, <3>1, <4>3, <4>4 DEF CleanSteps
      <4>5. CASE GotoRefresh(c)
        BY <1>0, <2>2, <3>1, <4>5
      <4>6. CASE Finish(c)
        BY <1>0, <2>1, <3>1, <4>3, <4>6
      <4> QED BY <2>23, <3>3, <4>4, <4>5, <4>6, RetryCarries
    <3> QED BY <3>2, <3>3
  <2>24. CASE ReleaseWrite(c)
    <3>1. prepare # "queued" /\ taskStatus' = taskStatus /\ Clean
      BY <2>0, <2>8, <2>24 DEF ReleaseWrite, At, CleanSteps
    <3>2. (Finish(c) /\ UNCHANGED itemStatus) \/ GotoRefresh(c)
      BY <2>24 DEF ReleaseWrite
    <3> QED BY <1>0, <2>1, <2>2, <2>5, <3>1, <3>2
  <2>25. CASE CancelItems(c)
    <3>1. taskStatus' = taskStatus /\ (Blank => Blank')
      BY <2>25 DEF CancelItems, Blank, Open
    <3>2. call'[c].pc = "cancelTask" /\ call'[c].job = call[c].job /\ prepare' = prepare
      BY <2>25, SlotAfter DEF CancelItems
    <3> QED BY <1>0, <2>0, <3>1, <3>2, SettledGoes DEF CleanSteps, ExpandSteps, PrepareSteps, QueuedSteps
  <2>26. CASE CancelTask(c)
    <3>1. UNCHANGED itemStatus /\ (Blank => Blank')
      BY <2>26 DEF CancelTask, Blank
    <3>2. CASE taskStatus = "DELETED" /\ Finish(c) /\ taskStatus' = taskStatus
      BY <1>0, <2>0, <2>1, <2>7, <3>1, <3>2
    <3>3. CASE taskStatus' = "CANCELLED" /\ GotoRefresh(c)
      BY <2>0, <2>2, <3>1, <3>3
    <3> QED BY <2>26, <3>2, <3>3 DEF CancelTask
  <2>27. CASE DeleteRow(c)
    <3>1. taskStatus' = "DELETED" /\ Blank' /\ Finish(c)
      BY <2>27 DEF DeleteRow, Blank
    <3>2. Clean'
      BY <3>1 DEF Clean, Over
    <3> QED BY <2>1, <3>1, <3>2
  <2> QED BY <1>2, <2>11, <2>12, <2>13, <2>14, <2>15, <2>16, <2>17, <2>18, <2>19, <2>20, <2>21, <2>22, <2>23, <2>24,
             <2>25, <2>26, <2>27 DEF HandlerNext
<1> QED BY <1>1, <1>2

\* Requests that begin.
LEMMA SettledStarts ==
  ASSUME TypeOK, Serial, SettledKept, NEW c \in Call,
         UserNext(c) \/ (\E u \in Url : ReleaseStart(c, u)) \/ \E a \in Agent : AgentNext(c, a)
  PROVE  SettledKept'
<1>0. SettledAt(c) /\ taskStatus # "PAUSED" /\ (prepare = "queued" => Blank)
  BY DEF SettledKept
<1>1. taskStatus' = taskStatus
  BY DEF UserNext, RetryFailed, RetryItem, CancelStart, DeleteStart, ReleaseStart, AgentNext, ClaimStart,
         ReportListing, ReportProduct, ReportFailure, rows
<1>2. ASSUME IsIdle(c), OpenAlike, prepare' = prepare, call'[c].job # "prepare", prepare = "queued" => call'[c].pc \in QueuedSteps,
             call'[c].pc \in CleanSteps \cup {"expandUpsert"}, At(c, "idle") /\ call'[c].pc = "expandUpsert" => itemStatus'[Listing] # "ABSENT"
      PROVE  SettledKept'
  <2>1. Clean /\ call[c].pc = "idle"
    BY <1>0, <1>2 DEF IsIdle, SettledAt, CleanSteps
  <2>2. Clean' /\ (prepare = "queued" => Blank')
    BY <1>0, <1>1, <1>2, <2>1, AlikeSettled
  <2>3. call[c].pc \notin PrepareSteps \cup RefreshSteps
    BY <2>1 DEF PrepareSteps, RefreshSteps
  <2>4. call'[c].pc \notin PrepareSteps \cup {"refreshItems", "refreshWrite"}
    BY <1>2 DEF CleanSteps, PrepareSteps
  <2>5. call'[c].pc \in ExpandSteps => itemStatus'[Listing] # "ABSENT"
    BY <1>2, <2>1 DEF CleanSteps, ExpandSteps, At
  <2> QED BY <1>0, <1>1, <1>2, <2>2, <2>3, <2>4, <2>5, SettledGoes
<1>3. ASSUME UNCHANGED <<itemStatus, call, prepare>> PROVE SettledKept'
  BY <1>1, <1>3, SettledFrame
<1>4. itemStatus' = itemStatus => OpenAlike
  BY DEF OpenAlike
<1>5. CASE UserNext(c)
  <2>1. IsIdle(c) /\ UNCHANGED itemStatus
    BY <1>5 DEF UserNext, RetryFailed, RetryItem, CancelStart, DeleteStart, rows
  <2>2. ASSUME NEW u \in Url, RetryItem(c, u) PROVE SettledKept'
    <3>1. prepare # "queued"
      BY <1>0, <2>2 DEF RetryItem, Failed, Blank
    <3>2. call'[c].pc = "retryAdd" /\ call'[c].job = "none" /\ prepare' = prepare
      BY <2>2, StartCarries
    <3> QED BY <1>2, <1>4, <2>1, <3>1, <3>2 DEF CleanSteps
  <2>3. CASE RetryFailed(c) \/ CancelStart(c) \/ DeleteStart(c)
    <3>1. call'[c].pc \in {"retryFind", "cancelItems", "deleteRow"} /\ call'[c].job = "none" /\ prepare' = prepare
      BY <2>3, StartCarries
    <3> QED BY <1>2, <1>4, <2>1, <3>1 DEF CleanSteps, QueuedSteps
  <2> QED BY <1>5, <2>2, <2>3 DEF UserNext
<1>6. ASSUME NEW u \in Url, ReleaseStart(c, u) PROVE SettledKept'
  <2>1. IsIdle(c) /\ UNCHANGED itemStatus
    BY <1>6 DEF ReleaseStart, rows
  <2>2. CASE UNCHANGED <<call, prepare>>
    BY <1>3, <2>1, <2>2
  <2>3. CASE itemStatus[u] # "ABSENT" /\ call'[c].pc = "releaseWrite" /\ call'[c].job = "retry" /\ prepare' = prepare
    <3>1. prepare # "queued"
      BY <1>0, <2>3 DEF Blank
    <3> QED BY <1>2, <1>4, <2>1, <2>3, <3>1 DEF CleanSteps
  <2> QED BY <1>6, <2>2, <2>3, StartCarries
<1>7. ASSUME NEW a \in Agent, AgentNext(c, a) PROVE SettledKept'
  <2>1. ASSUME NEW stuck \in SUBSET Url, ClaimStart(c, a, stuck) PROVE SettledKept'
    <3>1. IsIdle(c) /\ OpenAlike
      BY <2>1 DEF ClaimStart, Requeue, OwnRunning, AgentCanWrite, OpenAlike
    <3>2. call'[c].pc = "claimFind" /\ call'[c].job = "none" /\ prepare' = prepare
      BY <2>1, AgentCarries
    <3> QED BY <1>2, <3>1, <3>2 DEF CleanSteps, QueuedSteps
  <2>2. ASSUME NEW u \in Url, Accepted(a, u) PROVE prepare # "queued" /\ itemStatus[u] = "RUNNING"
    BY <1>0, <2>2 DEF Accepted, AgentCanWrite, Blank
  <2>3. ASSUME NEW harvest \in SUBSET Product, ReportListing(c, a, harvest) PROVE SettledKept'
    <3>1. UNCHANGED itemStatus /\ IsIdle(c)
      BY <2>3 DEF ReportListing, rows, Begin
    <3>2. CASE UNCHANGED <<call, prepare>>
      BY <1>3, <3>1, <3>2
    <3>3. CASE Accepted(a, Listing) /\ prepare' = prepare /\ call'[c].job = "none" /\ call'[c].pc \in {"failRead", "expandUpsert"}
      <4>1. prepare # "queued" /\ itemStatus'[Listing] # "ABSENT"
        BY <2>2, <3>1, <3>3 DEF Url
      <4> QED BY <1>2, <1>4, <3>1, <3>3, <4>1 DEF CleanSteps
    <3> QED BY <2>3, <3>2, <3>3, AgentCarries
  <2>4. ASSUME NEW u \in Url, NEW mismatch \in BOOLEAN, ReportProduct(c, a, u, mismatch) PROVE SettledKept'
    <3>1. UNCHANGED itemStatus /\ IsIdle(c)
      BY <2>4 DEF ReportProduct, rows, Begin
    <3>2. CASE UNCHANGED <<call, prepare>>
      BY <1>3, <3>1, <3>2
    <3>3. CASE Accepted(a, u) /\ prepare' = prepare /\ call'[c].job = "none" /\ call'[c].pc \in {"skipWrite", "successWrite"}
      BY <1>2, <1>4, <2>2, <3>1, <3>3 DEF CleanSteps
    <3> QED BY <2>4, <3>2, <3>3, AgentCarries
  <2>5. ASSUME NEW u \in Url, NEW reason \in {"captcha", "retryable"}, ReportFailure(c, a, u, reason) PROVE SettledKept'
    <3>1. UNCHANGED itemStatus /\ IsIdle(c)
      BY <2>5 DEF ReportFailure, rows, Begin
    <3>2. CASE UNCHANGED <<call, prepare>>
      BY <1>3, <3>1, <3>2
    <3>3. CASE Accepted(a, u) /\ prepare' = prepare /\ call'[c].job = "none" /\ call'[c].pc = "failWrite"
      BY <1>2, <1>4, <2>2, <3>1, <3>3 DEF CleanSteps
    <3> QED BY <2>5, <3>2, <3>3, AgentCarries
  <2> QED BY <1>7, <2>1, <2>3, <2>4, <2>5 DEF AgentNext
<1> QED BY <1>5, <1>6, <1>7

\* With one handler at a time, and no restart.
THEOREM SettledStep == Serial /\ MaxRestarts = 0 /\ TypeOK /\ SettledKept /\ [Next]_vars => SettledKept'
<1> SUFFICES ASSUME Serial, MaxRestarts = 0, TypeOK, SettledKept, [Next]_vars PROVE SettledKept'
  OBVIOUS
<1>1. ~Restart
  BY DEF Restart, TypeOK, HistoryOK
<1>2. CASE PrepareTimeout
  <2>1. prepare = "active" /\ prepare' = "timedout" /\ UNCHANGED <<call, itemStatus>> /\ (Over => Over') /\ taskStatus' # "PAUSED"
    BY <1>2 DEF PrepareTimeout, FailTask, Over, SettledKept
  <2>2. DerivedStatus' = DerivedStatus /\ (Blank' <=> Blank)
    BY <2>1, AlikeSettled DEF OpenAlike
  <2>3. ASSUME NEW c \in Call PROVE SettledAt(c)'
    <3>1. SettledAt(c) /\ call[c].pc \in PrepareSteps \cup RefreshSteps
      BY <2>1 DEF SettledKept, SettledAt
    <3> QED BY <2>1, <2>2, <3>1 DEF SettledAt, At, CleanSteps, PrepareSteps, RefreshSteps
  <2> QED BY <2>1, <2>3 DEF SettledKept
<1>3. CASE (\E a \in Agent : AgentForgets(a)) \/ UNCHANGED vars
  <2>1. UNCHANGED <<taskStatus, itemStatus, call, prepare>>
    BY <1>3 DEF AgentForgets, vars, rows
  <2> QED BY <2>1, SettledFrame
<1> QED BY <1>1, <1>2, <1>3, SettledPrepare, SettledHandlers, SettledStarts DEF Next

\* When no handler is under way, the task is prepared and no item waits for its retry, the
\* task shows what its items call for: no handler that changes an item goes without its
\* refresh, and no refresh writes what it derived from items that changed since.
THEOREM StatusSettles == Serial /\ MaxRestarts = 0 => (Spec => []SettledStatus)
<1> SUFFICES ASSUME Serial, MaxRestarts = 0 PROVE Spec => []SettledStatus
  OBVIOUS
<1>1. Init => SettledKept
  <2> SUFFICES ASSUME Init PROVE SettledKept
    OBVIOUS
  <2>1. Blank /\ taskStatus = "QUEUED" /\ prepare = "queued"
    BY DEF Init, Blank
  <2>2. ASSUME NEW c \in Call PROVE call[c].pc = "idle" /\ call[c].job = "none"
    BY DEF Init, Idle
  <2> QED BY <2>1, <2>2 DEF SettledKept, SettledAt, Clean, At, ExpandSteps, QueuedSteps
<1>2. SettledKept => SettledStatus
  <2> SUFFICES ASSUME SettledKept, Quiet, prepare = "done", \A u \in Url : itemStatus[u] # "RETRYING"
               PROVE  taskStatus \in {"CANCELLED", "DELETED", DerivedStatus} \/ \A u \in Url : itemStatus[u] = "ABSENT"
    BY DEF SettledStatus
  <2>1. PICK c \in Call : IsIdle(c)
    BY DEF Quiet, Serial
  <2>2. Clean
    BY <2>1 DEF SettledKept, SettledAt, IsIdle, CleanSteps
  <2> QED BY <2>2 DEF Clean, Over, Blank
<1>3. TypeOK /\ SettledKept /\ [Next]_vars => SettledKept'
  BY SettledStep
<1> QED BY <1>1, <1>2, <1>3, TypeCorrect, PTL DEF Spec

(***************************************************************************)
(* Retry jobs: an item waits for its retry with one job in the queue,      *)
(* until the job runs.  A list of URLs is taken to hold products: an item  *)
(* of the category page in it would be harvested like a category task's,   *)
(* and its products upserted over the list's own.                          *)
(***************************************************************************)
Pages == mode = "CATEGORY_TOP" \/ ConfigUrls \subseteq Product

\* Items whose retry is not asked for yet, or was just taken from the queue.
Jobless(c, u) == \/ call[c].pc \in {"retryAdd", "retryMark"} /\ u \in call[c].todo
                 \/ At(c, "releaseWrite") /\ u = call[c].url
Owed(c, u) == (itemStatus[u] = "RETRYING" /\ ~Jobless(c, u)) \/ (At(c, "retryMark") /\ u = call[c].url)
JobsAt(c) == Over \/ At(c, "cancelTask") \/ \A u \in Url : retryJobs[u] = IF Owed(c, u) THEN 1 ELSE 0

\* Where no retry is under way: who waits has its job.
Waiting == \A u \in Url : retryJobs[u] = IF itemStatus[u] = "RETRYING" THEN 1 ELSE 0

\* While the category page is an item, the task has no other, and no candidates.
ListingFirst == itemStatus[Listing] = "ABSENT" \/ (pool = {} /\ \A p \in Product : itemStatus[p] = "ABSENT")

\* What a handler has read still holds when it uses it.
ReadsAt(c) ==
  /\ call[c].pc \in ExpandSteps \cup {"failRead"} => itemStatus[Listing] = "RUNNING"
  /\ call[c].pc \in {"successWrite", "skipWrite", "failWrite"} => itemStatus[call[c].url] = "RUNNING"
  /\ call[c].pc \in {"retryAdd", "retryMark"} => \A u \in call[c].todo : itemStatus[u] \in {"FAILED", "RETRYING"}
  /\ At(c, "retryMark") => call[c].url \in call[c].todo
  /\ At(c, "releaseWrite") => itemStatus[call[c].url] = "RETRYING"
  /\ call[c].pc \in {"prepUpsert", "expandUpsert", "fillUpsert"} =>
       call[c].todo \subseteq Product /\ \A u \in call[c].todo : itemStatus[u] = "ABSENT"
  /\ call[c].pc \in {"prepUpsert", "fillUpsert", "fillPool"} => itemStatus[Listing] = "ABSENT"
  /\ At(c, "fillItems") => call[c].pool = pool
  /\ call[c].pc \in {"prepListing", "prepCheck"} => Blank /\ pool = {}
  /\ At(c, "prepListing") => mode = "CATEGORY_TOP"
  /\ call[c].pc \in {"prepCheck", "prepUpsert"} => mode # "CATEGORY_TOP"
  /\ call[c].pc \notin ExpandSteps => ListingFirst

JobsKept ==
  Pages => /\ \A c \in Call : ReadsAt(c) /\ JobsAt(c)
           /\ prepare = "queued" => pool = {} /\ \A u \in Url : retryJobs[u] = 0
           /\ taskStatus = "DELETED" => Blank

\* Where only the last of ReadsAt asks for something, and no retry is under way.
CalmSteps == {"idle", "claimFind", "claimTake", "retryFind", "cancelItems", "cancelTask", "deleteRow", "fillTask"}
             \cup RefreshSteps

\* A call about no retry holds nothing back from the items that wait.
LEMMA JobsCalm ==
  ASSUME NEW c \in Call, call'[c].pc \in CalmSteps, ListingFirst', Over' \/ call'[c].pc = "cancelTask" \/ Waiting'
  PROVE  ReadsAt(c)' /\ JobsAt(c)'
<1>1. ReadsAt(c)'
  BY DEF ReadsAt, At, CalmSteps, RefreshSteps, ExpandSteps
<1>2. \A u \in Url : Owed(c, u)' <=> itemStatus'[u] = "RETRYING"
  BY DEF Owed, Jobless, At, CalmSteps, RefreshSteps
<1>3. Over' \/ At(c, "cancelTask")' \/ \A u \in Url : retryJobs'[u] = IF Owed(c, u)' THEN 1 ELSE 0
  BY <1>2 DEF Waiting, At
<1> QED BY <1>1, <1>3 DEF JobsAt

\* Where no retry is under way, who waits has its job.
LEMMA JobsWait ==
  ASSUME NEW c \in Call, JobsAt(c), call[c].pc \notin {"retryAdd", "retryMark", "releaseWrite", "cancelTask"}
  PROVE  Over \/ Waiting
<1>1. \A u \in Url : Owed(c, u) <=> itemStatus[u] = "RETRYING"
  BY DEF Owed, Jobless, At
<1> QED BY <1>1 DEF JobsAt, Waiting, At

\* ... nor does any call outside a retry.
LEMMA JobsGoOn ==
  ASSUME NEW c \in Call, Over' \/ Waiting', call'[c].pc \notin {"retryAdd", "retryMark", "releaseWrite"}
  PROVE  JobsAt(c)'
<1>1. \A u \in Url : Owed(c, u)' <=> itemStatus'[u] = "RETRYING"
  BY DEF Owed, Jobless, At
<1>2. Over' \/ \A u \in Url : retryJobs'[u] = IF Owed(c, u)' THEN 1 ELSE 0
  BY <1>1 DEF Waiting
<1> QED BY <1>2 DEF JobsAt

\* As long as the same items wait.
LEMMA JobsSame ==
  ASSUME Over \/ Waiting, Over => Over', retryJobs' = retryJobs,
         \A u \in Url : itemStatus'[u] = "RETRYING" <=> itemStatus[u] = "RETRYING"
  PROVE  Over' \/ Waiting'
BY DEF Waiting

\* With one handler, what its call keeps is all there is to keep.
LEMMA JobsTurn ==
  ASSUME Serial, NEW c \in Call, ReadsAt(c)', JobsAt(c)',
         prepare' = "queued" => pool' = {} /\ \A u \in Url : retryJobs'[u] = 0, taskStatus' = "DELETED" => Blank'
  PROVE  JobsKept'
BY DEF JobsKept, Serial

\* Nothing of it changes.
LEMMA JobsFrame ==
  ASSUME JobsKept, UNCHANGED <<mode, taskStatus, itemStatus, pool, call, prepare, retryJobs>>
  PROVE  JobsKept'
<1> SUFFICES ASSUME Pages' PROVE JobsKept'
  BY DEF JobsKept
<1>1. Pages /\ (Blank' <=> Blank) /\ (ListingFirst' <=> ListingFirst) /\ (Over' <=> Over)
  BY DEF Pages, Blank, ListingFirst, Over
<1>2. ASSUME NEW c \in Call PROVE ReadsAt(c)'
  BY <1>1 DEF JobsKept, ReadsAt, At
<1>3. ASSUME NEW c \in Call PROVE JobsAt(c)'
  <2>1. \A u \in Url : Owed(c, u)' <=> Owed(c, u)
    BY DEF Owed, Jobless, At
  <2>2. Over \/ At(c, "cancelTask") \/ \A u \in Url : retryJobs[u] = IF Owed(c, u) THEN 1 ELSE 0
    BY <1>1 DEF JobsKept, JobsAt
  <2>3. Over' \/ At(c, "cancelTask")' \/ \A u \in Url : retryJobs'[u] = IF Owed(c, u)' THEN 1 ELSE 0
    BY <1>1, <2>1, <2>2 DEF At
  <2> QED BY <2>3 DEF JobsAt
<1> QED BY <1>1, <1>2, <1>3 DEF JobsKept

\* The products with a row.
LEMMA ExistingRows ==
  ASSUME RowsOK
  PROVE  \A p \in Product : p \in Existing <=> itemStatus[p] # "ABSENT"
BY DEF RowsOK, Existing, ProductsIn, ItemStatuses, Url

\* Preparing and refreshing.
LEMMA JobsPrepare ==
  ASSUME TypeOK, Serial, Pages, CancelKept, SettledKept, JobsKept, mode' = mode,
         NEW c \in Call, PrepareNext(c) \/ RefreshNext(c)
  PROVE  JobsKept'
<1>0. /\ ReadsAt(c) /\ JobsAt(c) /\ SettledAt(c) /\ (taskStatus = "DELETED" => Blank)
      /\ prepare = "queued" => Blank /\ pool = {} /\ \A u \in Url : retryJobs[u] = 0
  BY DEF JobsKept, SettledKept
<1>00. UNCHANGED <<pool, retryJobs>>
  BY DEF PrepareNext, PrepareStart, PrepareListing, PrepareCheck, PrepareFail, RefreshNext, RefreshRead, RefreshItems,
         RefreshWrite, rows
<1>1. CASE PrepareStart(c)
  <2>1. Blank /\ pool = {} /\ UNCHANGED itemStatus /\ prepare' # "queued" /\ (\A u \in Url : retryJobs[u] = 0) /\ IsIdle(c)
    BY <1>0, <1>1 DEF PrepareStart
  <2>2. Blank' /\ Waiting' /\ ListingFirst'
    BY <1>00, <2>1 DEF Blank, Waiting, ListingFirst, Url
  <2>3. CASE taskStatus = "DELETED"
    <3>1. call' = call
      BY <1>1, <2>3 DEF PrepareStart
    <3>2. call'[c].pc \in CalmSteps
      BY <2>1, <3>1 DEF IsIdle, CalmSteps
    <3> QED BY <2>1, <2>2, <3>2, JobsCalm, JobsTurn
  <2>4. CASE taskStatus # "DELETED"
    <3>1. call'[c].pc = IF mode = "CATEGORY_TOP" THEN "prepListing" ELSE "prepCheck"
      BY <1>1, <2>4, PrepareCarries
    <3>2. JobsAt(c)'
      BY <2>2, <3>1, JobsGoOn
    <3>3. ReadsAt(c)'
      BY <1>00, <2>1, <2>2, <3>1 DEF ReadsAt, At, ExpandSteps
    <3> QED BY <2>1, <2>2, <3>2, <3>3, JobsTurn
  <2> QED BY <2>3, <2>4
<1>2. ~PrepareStart(c) => (prepare' = "queued" => prepare = "queued" /\ ~PrepareNext(c))
  <2>1. PrepareNext(c) /\ ~PrepareStart(c) => prepare # "queued"
    BY <1>0 DEF PrepareNext, PrepareListing, PrepareCheck, PrepareFail, SettledAt, At, QueuedSteps, RefreshSteps
  <2>2. ~PrepareStart(c) => prepare' \in {prepare, "done"}
    BY DEF PrepareNext, PrepareListing, PrepareCheck, PrepareFail, RefreshNext, RefreshRead, RefreshItems, RefreshWrite,
           Continue, Finish, GotoRefresh
  <2> QED BY <2>1, <2>2
<1>3. CASE PrepareListing(c)
  <2>1. Blank /\ At(c, "prepListing") /\ taskStatus' = taskStatus /\ pool = {}
    BY <1>0, <1>3 DEF PrepareListing, ReadsAt, At
  <2>2. Over \/ Waiting
    BY <1>0, <2>1, JobsWait DEF At
  <2>3. /\ \A p \in Product : itemStatus'[p] = "ABSENT"
        /\ \A u \in Url : itemStatus'[u] # "RETRYING"
        /\ taskStatus' = "DELETED" => Blank'
    <3>1. Listing \in Url /\ Listing \notin Product /\ \A p \in Product : p \in Url
      BY CrawlerAssumptions DEF Url
    <3> QED BY <1>3, <2>1, <3>1 DEF PrepareListing, Blank, SetItem, TypeOK, RowsOK
  <2>4. Over' \/ Waiting'
    BY <1>00, <2>1, <2>2, <2>3, JobsSame DEF Blank, Over
  <2>5. call'[c].pc \in CalmSteps
    BY <1>3, SlotAfter DEF PrepareListing, CalmSteps, RefreshSteps
  <2>6. ListingFirst'
    BY <1>00, <2>1, <2>3 DEF ListingFirst
  <2>7. prepare' # "queued"
    BY <1>2, <1>3, <2>1 DEF PrepareNext, PrepareStart, At, IsIdle
  <2> QED BY <2>3, <2>4, <2>5, <2>6, <2>7, JobsCalm, JobsTurn
<1>4. CASE ~PrepareStart(c) /\ ~PrepareListing(c)
  <2>1. UNCHANGED itemStatus
    BY <1>4 DEF PrepareNext, PrepareCheck, PrepareFail, RefreshNext, RefreshRead, RefreshItems, RefreshWrite, rows
  <2>2. call[c].pc \in {"prepCheck"} \cup RefreshSteps
    BY <1>4 DEF PrepareNext, PrepareCheck, PrepareFail, RefreshNext, RefreshRead, RefreshItems, RefreshWrite, At, RefreshSteps
  <2>3. (Over => Over') /\ (taskStatus' = "DELETED" => taskStatus = "DELETED")
    <3>1. RefreshWrite(c) => (Over => Over') /\ (taskStatus' = "DELETED" => taskStatus = "DELETED")
      <4> SUFFICES ASSUME RefreshWrite(c) PROVE (Over => Over') /\ (taskStatus' = "DELETED" => taskStatus = "DELETED")
        OBVIOUS
      <4>1. At(c, "refreshWrite") /\ taskStatus' = IF taskStatus = "DELETED" \/ call[c].seen = "keep" THEN taskStatus ELSE call[c].seen
        BY DEF RefreshWrite
      <4>2. taskStatus = "CANCELLED" => call[c].seen = "keep"
        BY <4>1 DEF CancelKept
      <4>3. call[c].seen # "DELETED"
        BY <4>1 DEF TypeOK, ControlOK, LoadedSlots, TaskStatuses, At
      <4> QED BY <4>1, <4>2, <4>3 DEF Over
    <3>2. PrepareFail(c) => (Over => Over') /\ (taskStatus' = "DELETED" => taskStatus = "DELETED")
      BY DEF PrepareFail, FailTask, Over
    <3> QED BY <1>4, <3>1, <3>2 DEF PrepareNext, PrepareCheck, RefreshNext, RefreshRead, RefreshItems, Over, rows
  <2>4. Over \/ Waiting
    BY <1>0, <2>2, JobsWait DEF RefreshSteps
  <2>5. Over' \/ Waiting'
    BY <1>00, <2>1, <2>3, <2>4, JobsSame
  <2>6. ListingFirst' /\ (taskStatus' = "DELETED" => Blank')
    BY <1>0, <1>00, <2>1, <2>2, <2>3 DEF ReadsAt, ListingFirst, ExpandSteps, RefreshSteps, Blank
  <2>7. prepare' = "queued" => pool' = {} /\ \A u \in Url : retryJobs'[u] = 0
    BY <1>0, <1>00, <1>2, <1>4
  <2>8. CASE call'[c].pc = "prepUpsert" /\ call'[c].todo = ConfigUrls /\ PrepareCheck(c)
    <3>1. Blank /\ mode # "CATEGORY_TOP"
      BY <1>0, <2>8 DEF ReadsAt, PrepareCheck, At
    <3>2. ReadsAt(c)'
      BY <2>1, <2>6, <2>8, <3>1 DEF ReadsAt, At, ExpandSteps, Blank, Pages, Url
    <3>3. JobsAt(c)'
      BY <2>5, <2>8, JobsGoOn
    <3> QED BY <2>6, <2>7, <3>2, <3>3, JobsTurn
  <2>9. CASE call'[c].pc \in CalmSteps
    BY <2>5, <2>6, <2>7, <2>9, JobsCalm, JobsTurn
  <2>10. CASE PrepareCheck(c)
    BY <2>8, <2>9, <2>10, PrepareCarries, SlotAfter DEF CalmSteps
  <2>11. CASE RefreshNext(c) \/ PrepareFail(c)
    <3>1. call'[c].pc \in {"idle"} \cup RefreshSteps
      BY <2>11, PrepareCarries, SlotAfter DEF RefreshNext, PrepareFail, RefreshWrite, RefreshSteps
    <3> QED BY <2>9, <3>1 DEF CalmSteps
  <2> QED BY <1>4, <2>10, <2>11 DEF PrepareNext
<1> QED BY <1>1, <1>3, <1>4

\* What handlers past their first call leave of the queues and of a deleted task.
LEMMA JobsAround ==
  ASSUME TypeOK, Serial, Pages, SettledKept, JobsKept, NEW c \in Call, HandlerNext(c)
  PROVE  /\ prepare' = "queued" => pool' = {} /\ \A u \in Url : retryJobs'[u] = 0
         /\ taskStatus' = "DELETED" => Blank'
         /\ Over => Over'
<1>0. /\ ReadsAt(c) /\ SettledAt(c) /\ (taskStatus = "DELETED" => Blank)
      /\ prepare = "queued" => Blank /\ pool = {} /\ \A u \in Url : retryJobs[u] = 0
  BY DEF JobsKept, SettledKept
<1>1. CASE DeleteRow(c)
  <2>1. pool' = {} /\ retryJobs' = retryJobs /\ taskStatus' = "DELETED" /\ Blank'
    BY <1>1 DEF DeleteRow, Blank
  <2>2. prepare' = "queued" => prepare = "queued"
    BY <1>1 DEF DeleteRow, Finish
  <2> QED BY <1>0, <2>1, <2>2 DEF Over
<1>2. CASE ~DeleteRow(c)
  <2>1. Over => Over'
    BY <1>2 DEF HandlerNext, UpsertItem, WritePool, ClaimFind, ClaimTake, ExpandDelete, SuccessWrite, SkipWrite,
       FailRead, FailWrite, FillTask, FillItems, RetryFind, RetryAdd, RetryMark, ReleaseWrite, CancelItems, CancelTask,
       Over, rows
  <2>2. taskStatus' = "DELETED" => taskStatus = "DELETED"
    BY <1>2 DEF HandlerNext, UpsertItem, WritePool, ClaimFind, ClaimTake, ExpandDelete, SuccessWrite, SkipWrite,
       FailRead, FailWrite, FillTask, FillItems, RetryFind, RetryAdd, RetryMark, ReleaseWrite, CancelItems, CancelTask,
       rows
  <2>3. ASSUME taskStatus = "DELETED" PROVE Blank'
    <3>1. Blank /\ call[c].url \in Url
      BY <1>0, <2>3 DEF TypeOK, ControlOK, LoadedSlots, Slots
    <3>2. \A u \in Url : itemStatus[u] = "ABSENT"
      BY <3>1 DEF Blank
    <3>3. itemStatus' = itemStatus \/ CancelItems(c)
      BY <1>2, <2>3, <3>1, <3>2 DEF HandlerNext, UpsertItem, WritePool, ClaimFind, ClaimTake, ExpandDelete, SuccessWrite,
         SkipWrite, FailRead, FailWrite, FillTask, FillItems, RetryFind, RetryAdd, RetryMark, ReleaseWrite, CancelTask,
         rows, StillPending, Listing, Url
    <3> QED BY <3>2, <3>3 DEF Blank, CancelItems, Open
  <2>4. prepare' \in {prepare, "done"}
    BY <1>2 DEF HandlerNext, UpsertItem, WritePool, ClaimFind, ClaimTake, ExpandDelete, SuccessWrite, SkipWrite,
       FailRead, FailWrite, FillTask, FillItems, RetryFind, RetryAdd, RetryMark, ReleaseWrite, CancelItems, CancelTask,
       Continue, Goto, Finish, GotoRefresh
  <2>5. ASSUME prepare = "queued" PROVE UNCHANGED <<pool, retryJobs>>
    <3>1. call[c].pc \in QueuedSteps
      BY <1>0, <2>5 DEF SettledAt
    <3>2. ClaimFind(c) \/ RetryFind(c) \/ CancelItems(c) \/ CancelTask(c)
      BY <1>2, <3>1 DEF HandlerNext, UpsertItem, AfterUpserts, WritePool, ClaimTake, ExpandDelete, SuccessWrite,
         SkipWrite, FailRead, FailWrite, FillTask, FillItems, RetryAdd, RetryMark, ReleaseWrite,
         QueuedSteps, RefreshSteps, At
    <3> QED BY <3>2 DEF ClaimFind, RetryFind, CancelItems, CancelTask, rows
  <2> QED BY <1>0, <2>1, <2>2, <2>3, <2>4, <2>5
<1> QED BY <1>1, <1>2

\* Upserting and the pool.
LEMMA JobsUpsert ==
  ASSUME TypeOK, Serial, Pages, SettledKept, JobsKept, mode' = mode, NEW c \in Call,
         UpsertItem(c) \/ WritePool(c) \/ FillTask(c) \/ FillItems(c)
  PROVE  ReadsAt(c)' /\ JobsAt(c)'
<1>0. /\ ReadsAt(c) /\ JobsAt(c) /\ (taskStatus = "DELETED" => Blank)
  BY DEF JobsKept
<1>1. /\ Listing \in Url /\ Listing \notin Product /\ \A p \in Product : p \in Url
      /\ itemStatus \in [Url -> ItemStatuses \cup {"ABSENT"}]
  BY CrawlerAssumptions DEF Url, TypeOK, RowsOK
<1>2. /\ call[c].pc \in {"prepUpsert", "expandUpsert", "fillUpsert", "expandPool", "fillPool", "fillTask", "fillItems"}
      /\ UNCHANGED <<taskStatus, retryJobs>>
  BY DEF UpsertItem, AfterUpserts, WritePool, FillTask, FillItems, At, rows
<1>3. Over \/ Waiting
  BY <1>0, <1>2, JobsWait
<1>4. (Over => Over') /\ (taskStatus = "DELETED" => Over')
  BY <1>2 DEF Over
<1>5. CASE UpsertItem(c)
  <2>1. /\ call[c].pc \in {"prepUpsert", "expandUpsert", "fillUpsert"} /\ UNCHANGED pool
        /\ call[c].todo \subseteq Product /\ \A u \in call[c].todo : itemStatus[u] = "ABSENT"
    BY <1>0, <1>5, UpsertCarries DEF UpsertItem, ReadsAt
  <2>2. CASE taskStatus = "DELETED" /\ Finish(c) /\ UNCHANGED itemStatus
    <3>1. ListingFirst' /\ call'[c].pc = "idle"
      BY <1>0, <1>1, <2>2, SlotAfter DEF Blank, ListingFirst
    <3> QED BY <1>4, <2>2, <3>1, JobsCalm DEF CalmSteps
  <2>3. CASE taskStatus # "DELETED"
    <3>1. PICK u \in call[c].todo :
            /\ SetItem(u, "PENDING")
            /\ call'[c].todo = call[c].todo \ {u}
            /\ call'[c].pc = IF call[c].todo \ {u} # {} THEN call[c].pc
                             ELSE IF At(c, "prepUpsert") THEN "refresh"
                             ELSE IF At(c, "expandUpsert") THEN "expandPool" ELSE "fillPool"
      BY <1>5, <2>3, UpsertCarries
    <3>2. /\ u \in Product /\ itemStatus[u] = "ABSENT" /\ itemStatus'[u] = "PENDING"
          /\ \A x \in Url \ {u} : itemStatus'[x] = itemStatus[x]
      BY <1>1, <2>1, <3>1 DEF SetItem
    <3>3. itemStatus'[Listing] = itemStatus[Listing]
      BY <1>1, <3>2
    <3>4. \A x \in Url : itemStatus'[x] = "RETRYING" <=> itemStatus[x] = "RETRYING"
      BY <3>2
    <3>5. Over' \/ Waiting'
      BY <1>2, <1>3, <1>4, <3>4, JobsSame
    <3>6. call'[c].pc \notin {"retryAdd", "retryMark", "releaseWrite"}
      BY <2>1, <3>1
    <3>7. /\ call[c].pc = "expandUpsert" => itemStatus'[Listing] = "RUNNING"
          /\ call[c].pc # "expandUpsert" => itemStatus'[Listing] = "ABSENT"
      BY <1>0, <2>1, <3>3 DEF ReadsAt, ExpandSteps
    <3>8. call'[c].todo \subseteq Product /\ \A x \in call'[c].todo : itemStatus'[x] = "ABSENT"
      BY <1>1, <2>1, <3>1, <3>2
    <3>9. \/ call'[c].pc \in {"prepUpsert", "fillUpsert", "refresh", "fillPool"} /\ call[c].pc # "expandUpsert"
          \/ call'[c].pc \in {"expandUpsert", "expandPool"} /\ call[c].pc = "expandUpsert"
      BY <2>1, <3>1, Zenon DEF At
    <3>11. call'[c].pc = "prepUpsert" => mode' # "CATEGORY_TOP"
      BY <1>0, <2>1, <3>1 DEF ReadsAt
    <3>12. ReadsAt(c)'
      BY <3>7, <3>8, <3>9, <3>11 DEF ReadsAt, At, ExpandSteps, ListingFirst
    <3> QED BY <3>5, <3>6, <3>12, JobsGoOn
  <2> QED BY <1>5, <2>2, <2>3, UpsertCarries
<1>6. CASE WritePool(c)
  <2>0. UNCHANGED itemStatus
    BY <1>6 DEF WritePool
  <2>1. Over' \/ Waiting'
    BY <1>2, <1>3, <1>4, <2>0, JobsSame
  <2>2. CASE taskStatus = "DELETED" /\ Finish(c)
    <3>1. ListingFirst' /\ call'[c].pc = "idle"
      BY <1>0, <1>1, <2>0, <2>2, SlotAfter DEF Blank, ListingFirst
    <3> QED BY <2>1, <3>1, JobsCalm DEF CalmSteps
  <2>3. CASE call[c].pc = "fillPool" /\ GotoRefresh(c)
    <3>1. ListingFirst' /\ call'[c].pc = "refresh"
      BY <1>0, <2>0, <2>3, SlotAfter DEF ReadsAt, ListingFirst
    <3> QED BY <2>1, <3>1, JobsCalm DEF CalmSteps, RefreshSteps
  <2>4. CASE call[c].pc = "expandPool" /\ Goto(c, "expandDelete")
    <3>1. call'[c].pc = "expandDelete" /\ itemStatus'[Listing] = "RUNNING"
      BY <1>0, <2>0, <2>4, SlotAfter DEF ReadsAt, ExpandSteps
    <3>2. ReadsAt(c)'
      BY <3>1 DEF ReadsAt, At, ExpandSteps
    <3> QED BY <2>1, <3>1, <3>2, JobsGoOn
  <2> QED BY <1>6, <2>2, <2>3, <2>4 DEF WritePool
<1>7. CASE FillTask(c) \/ FillItems(c)
  <2>1. UNCHANGED <<itemStatus, pool>> /\ ListingFirst
    BY <1>0, <1>7 DEF FillTask, FillItems, rows, ReadsAt, At, ExpandSteps
  <2>2. Over' \/ Waiting'
    BY <1>2, <1>3, <1>4, <2>1, JobsSame
  <2>3. ListingFirst'
    BY <2>1 DEF ListingFirst
  <2>4. CASE call'[c].pc \in {"idle", "refresh"}
    BY <2>2, <2>3, <2>4, JobsCalm DEF CalmSteps, RefreshSteps
  <2>5. CASE call'[c].pc = "fillItems" /\ call'[c].pool = pool
    <3>1. ReadsAt(c)'
      BY <2>1, <2>3, <2>5 DEF ReadsAt, At, ExpandSteps
    <3> QED BY <2>2, <2>5, <3>1, JobsGoOn
  <2>6. CASE FillTask(c)
    BY <2>4, <2>5, <2>6, SlotAfter, UpsertCarries
  <2>7. CASE FillItems(c) /\ call'[c].pc = "fillUpsert" /\ FirstOf(Deficit, Candidates(c)) # {}
             /\ call'[c].todo = FirstOf(Deficit, Candidates(c))
    <3>1. call'[c].todo \subseteq call[c].pool \ Existing
      BY <2>7 DEF FirstOf, Candidates
    <3>2. call[c].pool = pool /\ pool \subseteq Product
      BY <1>0, <2>7 DEF ReadsAt, FillItems, At, TypeOK, RowsOK
    <3>3. itemStatus'[Listing] = "ABSENT"
      BY <2>1, <2>7, <3>1, <3>2 DEF ListingFirst
    <3>4. call'[c].todo \subseteq Product /\ \A u \in call'[c].todo : itemStatus'[u] = "ABSENT"
      BY <2>1, <3>1, <3>2, ExistingRows DEF TypeOK
    <3>5. ReadsAt(c)'
      BY <2>3, <2>7, <3>3, <3>4 DEF ReadsAt, At, ExpandSteps
    <3> QED BY <2>2, <2>7, <3>5, JobsGoOn
  <2>8. CASE FillItems(c)
    BY <2>4, <2>7, <2>8, SlotAfter, UpsertCarries
  <2> QED BY <1>7, <2>6, <2>8
<1> QED BY <1>5, <1>6, <1>7

\* Claims and reports.
LEMMA JobsReport ==
  ASSUME TypeOK, Serial, Pages, SettledKept, JobsKept, mode' = mode, NEW c \in Call,
         \/ ClaimFind(c) \/ (\E delivered \in BOOLEAN : ClaimTake(c, delivered)) \/ ExpandDelete(c)
         \/ SuccessWrite(c) \/ SkipWrite(c) \/ FailRead(c) \/ FailWrite(c)
  PROVE  ReadsAt(c)' /\ JobsAt(c)'
<1>0. ReadsAt(c) /\ JobsAt(c)
  BY DEF JobsKept
<1>1. /\ Listing \in Url /\ Listing \notin Product /\ (\A p \in Product : p \in Url) /\ call[c].url \in Url
      /\ itemStatus \in [Url -> ItemStatuses \cup {"ABSENT"}]
  BY CrawlerAssumptions DEF Url, TypeOK, RowsOK, ControlOK, LoadedSlots, Slots
<1>2. /\ call[c].pc \in {"claimFind", "claimTake", "expandDelete", "successWrite", "skipWrite", "failRead", "failWrite"}
      /\ UNCHANGED <<taskStatus, retryJobs, pool>>
  BY DEF ClaimFind, ClaimTake, ExpandDelete, SuccessWrite, SkipWrite, FailRead, FailWrite, At, rows
<1>3. (Over \/ Waiting) /\ (Over => Over')
  BY <1>0, <1>2, JobsWait DEF Over
<1>4. ASSUME \A u \in Url : itemStatus'[u] = "RETRYING" <=> itemStatus[u] = "RETRYING" PROVE Over' \/ Waiting'
  BY <1>2, <1>3, <1>4, JobsSame
<1>5. call[c].pc # "expandDelete" => ListingFirst
  BY <1>0, <1>2 DEF ReadsAt, ExpandSteps
<1>6. ASSUME call'[c].pc \in CalmSteps, ListingFirst, \A u \in Url : itemStatus'[u] = "RETRYING" <=> itemStatus[u] = "RETRYING",
             \A u \in Url : itemStatus[u] = "ABSENT" => itemStatus'[u] = "ABSENT"
      PROVE  ReadsAt(c)' /\ JobsAt(c)'
  <2>1. ListingFirst'
    BY <1>1, <1>2, <1>6 DEF ListingFirst
  <2> QED BY <1>4, <1>6, <2>1, JobsCalm
<1>7. CASE ClaimFind(c)
  <2>1. UNCHANGED itemStatus
    BY <1>7 DEF ClaimFind, rows
  <2>2. call'[c].pc \in CalmSteps
    BY <1>7, ClaimCarries, SlotAfter DEF CalmSteps
  <2>3. ListingFirst
    BY <1>5, <1>7 DEF ClaimFind, At
  <2> QED BY <1>6, <2>1, <2>2, <2>3
<1>8. ASSUME NEW delivered \in BOOLEAN, ClaimTake(c, delivered) PROVE ReadsAt(c)' /\ JobsAt(c)'
  <2>1. call'[c].pc \in CalmSteps
    BY <1>8, SlotAfter DEF ClaimTake, CalmSteps
  <2>2. ListingFirst
    BY <1>5, <1>8 DEF ClaimTake, At
  <2>3. itemStatus' = itemStatus \/ (itemStatus[call[c].url] = "PENDING" /\ SetItem(call[c].url, "RUNNING"))
    BY <1>8 DEF ClaimTake, StillPending
  <2>4. \A u \in Url : /\ itemStatus'[u] = "RETRYING" <=> itemStatus[u] = "RETRYING"
                       /\ itemStatus[u] = "ABSENT" => itemStatus'[u] = "ABSENT"
    BY <1>1, <2>3 DEF SetItem
  <2> QED BY <1>6, <2>1, <2>2, <2>4
<1>9. CASE ExpandDelete(c)
  <2>1. itemStatus[Listing] = "RUNNING"
    BY <1>0, <1>9 DEF ExpandDelete, ReadsAt, ExpandSteps, At
  <2>2. SetItem(Listing, "ABSENT") /\ GotoRefresh(c)
    BY <1>9, <2>1 DEF ExpandDelete
  <2>3. ListingFirst' /\ \A u \in Url : itemStatus'[u] = "RETRYING" <=> itemStatus[u] = "RETRYING"
    BY <1>1, <2>1, <2>2 DEF SetItem, ListingFirst
  <2>4. call'[c].pc \in CalmSteps
    BY <2>2, SlotAfter DEF CalmSteps, RefreshSteps
  <2> QED BY <1>4, <2>3, <2>4, JobsCalm
<1>10. ASSUME NEW status \in {"SUCCESS", "SKIPPED", "FAILED"}, SetItem(call[c].url, status), itemStatus[call[c].url] = "RUNNING"
       PROVE  \A u \in Url : /\ itemStatus'[u] = "RETRYING" <=> itemStatus[u] = "RETRYING"
                             /\ itemStatus[u] = "ABSENT" => itemStatus'[u] = "ABSENT"
  BY <1>1, <1>10 DEF SetItem
<1>11. CASE SuccessWrite(c) \/ SkipWrite(c)
  <2>1. itemStatus[call[c].url] = "RUNNING" /\ ListingFirst
    BY <1>0, <1>5, <1>11 DEF SuccessWrite, SkipWrite, ReadsAt, At
  <2>2. \/ SetItem(call[c].url, "SUCCESS") /\ GotoRefresh(c)
        \/ SetItem(call[c].url, "SKIPPED") /\ Goto(c, "fillTask")
    BY <1>11, <2>1 DEF SuccessWrite, SkipWrite
  <2>3. call'[c].pc \in CalmSteps
    BY <2>2, SlotAfter DEF CalmSteps, RefreshSteps
  <2> QED BY <1>6, <1>10, <2>1, <2>2, <2>3
<1>12. CASE FailRead(c)
  <2>1. UNCHANGED itemStatus /\ itemStatus[Listing] = "RUNNING" /\ ListingFirst
    BY <1>0, <1>5, <1>12 DEF FailRead, ReadsAt, At, rows
  <2>2. CASE Finish(c)
    BY <1>6, <2>1, <2>2, SlotAfter DEF CalmSteps
  <2>3. CASE call'[c].pc = "failWrite" /\ call'[c].url = Listing
    <3>1. Over' \/ Waiting'
      BY <1>4, <2>1
    <3>2. ListingFirst'
      BY <1>2, <2>1 DEF ListingFirst
    <3>3. ReadsAt(c)'
      BY <2>1, <2>3, <3>2 DEF ReadsAt, At, ExpandSteps
    <3> QED BY <2>3, <3>1, <3>3, JobsGoOn
  <2> QED BY <1>12, <2>2, <2>3, RetryCarries
<1>13. CASE FailWrite(c)
  <2>1. itemStatus[call[c].url] = "RUNNING" /\ ListingFirst
    BY <1>0, <1>5, <1>13 DEF FailWrite, ReadsAt, At
  <2>2. CASE SetItem(call[c].url, "FAILED") /\ Goto(c, "fillTask")
    <3>1. call'[c].pc \in CalmSteps
      BY <2>2, SlotAfter DEF CalmSteps
    <3> QED BY <1>6, <1>10, <2>1, <2>2, <3>1
  <2>3. CASE SetItem(call[c].url, "RETRYING") /\ call'[c].pc = "retryAdd" /\ call'[c].todo = {call[c].url}
    <3>1. itemStatus' = [itemStatus EXCEPT ![call[c].url] = "RETRYING"]
      BY <2>3 DEF SetItem
    <3>2. ListingFirst'
      BY <1>1, <1>2, <2>1, <3>1 DEF ListingFirst
    <3>3. \A u \in call'[c].todo : itemStatus'[u] = "RETRYING"
      BY <1>1, <2>3, <3>1
    <3>4. ReadsAt(c)'
      BY <2>3, <3>2, <3>3 DEF ReadsAt, At, ExpandSteps
    <3>5. \A u \in Url : Owed(c, u)' <=> itemStatus[u] = "RETRYING"
      BY <1>1, <2>1, <2>3, <3>1 DEF Owed, Jobless, At
    <3>6. Over' \/ \A u \in Url : retryJobs'[u] = IF Owed(c, u)' THEN 1 ELSE 0
      BY <1>2, <1>3, <3>5 DEF Waiting
    <3> QED BY <3>4, <3>6 DEF JobsAt
  <2> QED BY <1>13, <2>1, <2>2, <2>3, RetryCarries
<1> QED BY <1>7, <1>8, <1>9, <1>11, <1>12, <1>13

\* Retries, cancelling and deleting.
LEMMA JobsRetry ==
  ASSUME TypeOK, Serial, Pages, SettledKept, CancelKept, JobsKept, mode' = mode, NEW c \in Call,
         \/ RetryFind(c) \/ RetryAdd(c) \/ RetryMark(c) \/ ReleaseWrite(c)
         \/ CancelItems(c) \/ CancelTask(c) \/ DeleteRow(c)
  PROVE  ReadsAt(c)' /\ JobsAt(c)'
<1>0. ReadsAt(c) /\ JobsAt(c) /\ (taskStatus = "DELETED" => Blank)
  BY DEF JobsKept
<1>1. /\ Listing \in Url /\ Listing \notin Product /\ (\A p \in Product : p \in Url) /\ call[c].url \in Url
      /\ call[c].todo \subseteq Url
      /\ itemStatus \in [Url -> ItemStatuses \cup {"ABSENT"}] /\ retryJobs \in [Url -> Nat]
  BY CrawlerAssumptions DEF Url, TypeOK, RowsOK, ControlOK, LoadedSlots, Slots
<1>2. ListingFirst
  BY <1>0 DEF ReadsAt, ExpandSteps, RetryFind, RetryAdd, RetryMark, ReleaseWrite, CancelItems, CancelTask, DeleteRow, At
<1>3. Over \/ At(c, "cancelTask") \/ \A u \in Url : retryJobs[u] = IF Owed(c, u) THEN 1 ELSE 0
  BY <1>0 DEF JobsAt
<1>4. CASE RetryFind(c)
  <2>1. UNCHANGED <<taskStatus, itemStatus, pool, retryJobs>> /\ ListingFirst'
    BY <1>2, <1>4 DEF RetryFind, rows, ListingFirst
  <2>2. (Over \/ Waiting) /\ (Over' \/ Waiting')
    BY <1>0, <1>4, <2>1, JobsWait, JobsSame DEF RetryFind, At, Over
  <2>3. CASE Finish(c)
    BY <2>1, <2>2, <2>3, SlotAfter, JobsCalm DEF CalmSteps
  <2>4. CASE call'[c].pc = "retryAdd" /\ call'[c].todo = Failed
    <3>1. ReadsAt(c)'
      BY <2>1, <2>4 DEF ReadsAt, At, ExpandSteps, Failed
    <3>2. \A u \in Url : Owed(c, u)' <=> itemStatus'[u] = "RETRYING"
      BY <2>1, <2>4 DEF Owed, Jobless, At, Failed
    <3>3. Over' \/ \A u \in Url : retryJobs'[u] = IF Owed(c, u)' THEN 1 ELSE 0
      BY <2>2, <3>2 DEF Waiting
    <3> QED BY <3>1, <3>3 DEF JobsAt
  <2> QED BY <1>4, <2>3, <2>4, RetryCarries
<1>5. CASE RetryAdd(c)
  <2>1. UNCHANGED <<taskStatus, itemStatus, pool>> /\ ListingFirst' /\ call[c].pc = "retryAdd"
    BY <1>2, <1>5 DEF RetryAdd, rows, ListingFirst, At
  <2>2. PICK u \in call[c].todo :
                /\ retryJobs' = [retryJobs EXCEPT ![u] = @ + 1]
                /\ call'[c].pc = "retryMark" /\ call'[c].url = u /\ call'[c].todo = call[c].todo
    BY <1>5, RetryCarries
  <2>3. ReadsAt(c)'
    BY <1>0, <2>1, <2>2 DEF ReadsAt, At, ExpandSteps
  <2>4. \A x \in Url : x # u => (Owed(c, x)' <=> Owed(c, x))
    BY <2>1, <2>2 DEF Owed, Jobless, At
  <2>5. Owed(c, u)' /\ ~Owed(c, u) /\ u \in Url
    BY <1>1, <2>1, <2>2 DEF Owed, Jobless, At
  <2>6. ~At(c, "cancelTask")
    BY <2>1 DEF At
  <2>7. \A x \in Url : retryJobs'[x] = IF x = u THEN retryJobs[x] + 1 ELSE retryJobs[x]
    BY <1>1, <2>2
  <2>8. Over' \/ \A x \in Url : retryJobs'[x] = IF Owed(c, x)' THEN 1 ELSE 0
    BY <1>3, <2>1, <2>4, <2>5, <2>6, <2>7 DEF Over
  <2> QED BY <2>3, <2>8 DEF JobsAt
<1>6. CASE RetryMark(c)
  <2>1. UNCHANGED <<taskStatus, pool, retryJobs>> /\ call[c].pc = "retryMark"
    BY <1>6 DEF RetryMark, At
  <2>2. call[c].url \in call[c].todo /\ \A u \in call[c].todo : itemStatus[u] \in {"FAILED", "RETRYING"}
    BY <1>0, <2>1 DEF ReadsAt, At
  <2>3. itemStatus' = [itemStatus EXCEPT ![call[c].url] = "RETRYING"]
    BY <1>6, <2>2, RetryCarries DEF SetItem
  <2>4. ListingFirst'
    BY <1>1, <1>2, <2>1, <2>2, <2>3 DEF ListingFirst
  <2>5. \A x \in Url : Owed(c, x) <=> (x = call[c].url \/ (itemStatus[x] = "RETRYING" /\ x \notin call[c].todo))
    BY <2>1 DEF Owed, Jobless, At
  <2>6. CASE call'[c].pc = "retryAdd" /\ call'[c].todo = call[c].todo \ {call[c].url}
    <3>1. ReadsAt(c)'
      BY <1>1, <2>2, <2>3, <2>4, <2>6 DEF ReadsAt, At, ExpandSteps
    <3>2. \A x \in Url : Owed(c, x)' <=> (itemStatus'[x] = "RETRYING" /\ x \notin call[c].todo \ {call[c].url})
      BY <2>6 DEF Owed, Jobless, At
    <3>3. \A x \in Url : Owed(c, x)' <=> Owed(c, x)
      BY <1>1, <2>2, <2>3, <2>5, <3>2
    <3>4. Over' \/ \A x \in Url : retryJobs'[x] = IF Owed(c, x)' THEN 1 ELSE 0
      BY <1>3, <2>1, <3>3 DEF Over, At
    <3> QED BY <3>1, <3>4 DEF JobsAt
  <2>7. CASE call[c].todo \ {call[c].url} = {} /\ (GotoRefresh(c) \/ Finish(c))
    <3>1. \A x \in Url : itemStatus'[x] = "RETRYING" <=> Owed(c, x)
      BY <1>1, <2>2, <2>3, <2>5, <2>7
    <3>2. Over' \/ Waiting'
      BY <1>3, <2>1, <3>1 DEF Over, At, Waiting
    <3>3. call'[c].pc \in CalmSteps
      BY <2>7, SlotAfter DEF CalmSteps, RefreshSteps
    <3> QED BY <2>4, <3>2, <3>3, JobsCalm
  <2> QED BY <1>6, <2>2, <2>6, <2>7, RetryCarries
<1>7. CASE ReleaseWrite(c)
  <2>1. UNCHANGED <<taskStatus, pool, retryJobs>> /\ call[c].pc = "releaseWrite" /\ itemStatus[call[c].url] = "RETRYING"
    BY <1>0, <1>7 DEF ReleaseWrite, At, ReadsAt
  <2>2. Requeue({call[c].url}) /\ GotoRefresh(c)
    BY <1>7, <2>1 DEF ReleaseWrite
  <2>3. ListingFirst'
    BY <1>1, <1>2, <2>1, <2>2 DEF ListingFirst, Requeue
  <2>4. \A x \in Url : itemStatus'[x] = "RETRYING" <=> Owed(c, x)
    BY <1>1, <2>1, <2>2 DEF Owed, Jobless, At, Requeue
  <2>5. Over' \/ Waiting'
    BY <1>3, <2>1, <2>4 DEF Over, At, Waiting
  <2>6. call'[c].pc \in CalmSteps
    BY <2>2, SlotAfter DEF CalmSteps, RefreshSteps
  <2> QED BY <2>3, <2>5, <2>6, JobsCalm
<1>8. CASE CancelItems(c)
  <2>1. call'[c].pc = "cancelTask" /\ pool' = pool
    BY <1>8, SlotAfter DEF CancelItems
  <2>2. ListingFirst'
    BY <1>1, <1>2, <1>8, <2>1 DEF ListingFirst, CancelItems, Open
  <2> QED BY <2>1, <2>2, JobsCalm DEF CalmSteps
<1>9. CASE CancelTask(c) \/ DeleteRow(c)
  <2>1. Over'
    BY <1>9 DEF CancelTask, DeleteRow, Over
  <2>2. ListingFirst'
    BY <1>1, <1>2, <1>9 DEF ListingFirst, CancelTask, DeleteRow
  <2>3. call'[c].pc \in CalmSteps
    BY <1>9, SlotAfter DEF CancelTask, DeleteRow, CalmSteps, RefreshSteps
  <2> QED BY <2>1, <2>2, <2>3, JobsCalm
<1> QED BY <1>4, <1>5, <1>6, <1>7, <1>8, <1>9

\* Requests that begin.
LEMMA JobsStarts ==
  ASSUME TypeOK, Serial, Pages, CancelKept, SettledKept, JobsKept, mode' = mode, NEW c \in Call,
         UserNext(c) \/ (\E u \in Url : ReleaseStart(c, u)) \/ \E a \in Agent : AgentNext(c, a)
  PROVE  JobsKept'
<1>0. /\ ReadsAt(c) /\ JobsAt(c) /\ SettledAt(c) /\ (taskStatus = "DELETED" => Blank) /\ taskStatus # "PAUSED"
      /\ prepare = "queued" => Blank /\ pool = {} /\ \A u \in Url : retryJobs[u] = 0
  BY DEF JobsKept, SettledKept
<1>1. /\ Listing \in Url /\ Listing \notin Product /\ (\A p \in Product : p \in Url)
      /\ itemStatus \in [Url -> ItemStatuses \cup {"ABSENT"}] /\ retryJobs \in [Url -> Nat]
  BY CrawlerAssumptions DEF Url, TypeOK, RowsOK
<1>2. UNCHANGED <<taskStatus, pool>> /\ (Over => Over')
  BY DEF UserNext, RetryFailed, RetryItem, CancelStart, DeleteStart, ReleaseStart, AgentNext, ClaimStart,
         ReportListing, ReportProduct, ReportFailure, rows, Over
<1>3. IsIdle(c) => ListingFirst /\ (Over \/ Waiting)
  BY <1>0, JobsWait DEF IsIdle, ReadsAt, ExpandSteps
<1>4. ASSUME UNCHANGED <<itemStatus, call, prepare, retryJobs>> PROVE JobsKept'
  BY <1>2, <1>4, JobsFrame
<1>5. ASSUME UNCHANGED <<itemStatus, retryJobs>>, prepare' = prepare, ReadsAt(c)', JobsAt(c)' PROVE JobsKept'
  <2>1. Blank' <=> Blank
    BY <1>5 DEF Blank
  <2> QED BY <1>0, <1>2, <1>5, <2>1, JobsTurn
<1>6. ASSUME UNCHANGED <<itemStatus, retryJobs>>, IsIdle(c), prepare' = prepare, call'[c].pc \in CalmSteps PROVE JobsKept'
  <2>1. ListingFirst' /\ (Over' \/ Waiting')
    BY <1>2, <1>3, <1>6, JobsSame DEF ListingFirst
  <2> QED BY <1>5, <1>6, <2>1, JobsCalm
<1>7. ASSUME UNCHANGED <<itemStatus, retryJobs>>, IsIdle(c), prepare' = prepare, ReadsAt(c)',
             call'[c].pc \notin {"retryAdd", "retryMark", "releaseWrite"}
      PROVE  JobsKept'
  <2>1. Over' \/ Waiting'
    BY <1>2, <1>3, <1>7, JobsSame
  <2> QED BY <1>5, <1>7, <2>1, JobsGoOn
<1>8. CASE UserNext(c)
  <2>1. IsIdle(c) /\ UNCHANGED <<itemStatus, retryJobs>>
    BY <1>8 DEF UserNext, RetryFailed, RetryItem, CancelStart, DeleteStart, rows
  <2>2. ASSUME NEW u \in Url, RetryItem(c, u) PROVE JobsKept'
    <3>1. itemStatus[u] = "FAILED"
      BY <2>2 DEF RetryItem, Failed
    <3>2. call'[c].pc = "retryAdd" /\ call'[c].todo = {u} /\ prepare' = prepare
      BY <2>2, StartCarries
    <3>3. ListingFirst'
      BY <1>2, <1>3, <2>1 DEF ListingFirst
    <3>4. ReadsAt(c)'
      BY <2>1, <3>1, <3>2, <3>3 DEF ReadsAt, At, ExpandSteps
    <3>5. \A x \in Url : Owed(c, x)' <=> itemStatus[x] = "RETRYING"
      BY <2>1, <3>1, <3>2 DEF Owed, Jobless, At
    <3>6. Over' \/ \A x \in Url : retryJobs'[x] = IF Owed(c, x)' THEN 1 ELSE 0
      BY <1>2, <1>3, <2>1, <3>5 DEF Waiting
    <3>7. JobsAt(c)'
      BY <3>6 DEF JobsAt
    <3> QED BY <1>5, <2>1, <3>2, <3>4, <3>7
  <2>3. CASE RetryFailed(c) \/ CancelStart(c) \/ DeleteStart(c)
    <3>1. call'[c].pc \in CalmSteps /\ prepare' = prepare
      BY <2>3, StartCarries DEF CalmSteps
    <3> QED BY <1>6, <2>1, <3>1
  <2> QED BY <1>8, <2>2, <2>3 DEF UserNext
<1>9. ASSUME NEW u \in Url, ReleaseStart(c, u) PROVE JobsKept'
  <2>1. IsIdle(c) /\ UNCHANGED itemStatus /\ retryJobs[u] > 0 /\ retryJobs' = [retryJobs EXCEPT ![u] = @ - 1]
    BY <1>9 DEF ReleaseStart, rows
  <2>2. ListingFirst' /\ (Blank' <=> Blank) /\ prepare # "queued"
    BY <1>0, <1>1, <1>2, <1>3, <2>1 DEF ListingFirst, Blank
  <2>3. CASE Over
    <3>1. Over' /\ (taskStatus' = "DELETED" => Blank')
      BY <1>0, <1>2, <2>2, <2>3
    <3>2. CASE UNCHANGED <<call, prepare>>
      <4>1. call'[c].pc \in CalmSteps
        BY <2>1, <3>2 DEF IsIdle, CalmSteps
      <4> QED BY <2>2, <3>1, <3>2, <4>1, JobsCalm, JobsTurn
    <3>3. CASE itemStatus[u] \notin {"ABSENT", "SUCCESS"} /\ ~ShouldPreserve(taskStatus)
      BY <1>0, <2>3, <3>3 DEF Over, ShouldPreserve, Blank
    <3> QED BY <1>9, <3>2, <3>3, StartCarries
  <2>4. CASE ~Over
    <3>1. itemStatus[u] = "RETRYING" /\ retryJobs[u] = 1 /\ ~ShouldPreserve(taskStatus)
      BY <1>0, <1>3, <2>1, <2>4 DEF Waiting, Over, ShouldPreserve
    <3>2. call'[c].pc = "releaseWrite" /\ call'[c].url = u /\ prepare' = prepare
      BY <1>9, <3>1, StartCarries
    <3>3. ReadsAt(c)'
      BY <2>1, <2>2, <3>1, <3>2 DEF ReadsAt, At, ExpandSteps
    <3>4. \A x \in Url : Owed(c, x)' <=> (itemStatus[x] = "RETRYING" /\ x # u)
      BY <2>1, <3>1, <3>2 DEF Owed, Jobless, At
    <3>5. \A x \in Url : retryJobs'[x] = IF x = u THEN 0 ELSE retryJobs[x]
      BY <1>1, <2>1, <3>1
    <3>6. \A x \in Url : retryJobs'[x] = IF Owed(c, x)' THEN 1 ELSE 0
      BY <1>3, <2>1, <2>4, <3>4, <3>5 DEF Waiting
    <3>7. JobsAt(c)'
      BY <3>6 DEF JobsAt
    <3>8. taskStatus' = "DELETED" => Blank'
      BY <1>0, <1>2, <2>2
    <3> QED BY <2>2, <3>2, <3>3, <3>7, <3>8, JobsTurn
  <2> QED BY <2>3, <2>4
<1>10. ASSUME NEW a \in Agent, AgentNext(c, a) PROVE JobsKept'
  <2>1. ASSUME NEW stuck \in SUBSET Url, ClaimStart(c, a, stuck) PROVE JobsKept'
    <3>1. IsIdle(c) /\ stuck \subseteq OwnRunning(a) /\ Requeue(stuck) /\ UNCHANGED retryJobs
      BY <2>1 DEF ClaimStart
    <3>2. call'[c].pc \in CalmSteps /\ prepare' = prepare
      BY <2>1, AgentCarries DEF CalmSteps
    <3>3. \A x \in Url : /\ itemStatus'[x] = "RETRYING" <=> itemStatus[x] = "RETRYING"
                         /\ itemStatus'[x] = "ABSENT" <=> itemStatus[x] = "ABSENT"
      BY <1>1, <3>1 DEF Requeue, OwnRunning, AgentCanWrite
    <3>4. ListingFirst' /\ (Over' \/ Waiting') /\ (Blank' <=> Blank)
      BY <1>1, <1>2, <1>3, <3>1, <3>3, JobsSame DEF ListingFirst, Blank
    <3> QED BY <1>0, <1>2, <3>1, <3>2, <3>4, JobsCalm, JobsTurn
  <2>2. ASSUME NEW harvest \in SUBSET Product, ReportListing(c, a, harvest) PROVE JobsKept'
    <3>1. IsIdle(c) /\ UNCHANGED <<itemStatus, retryJobs>>
      BY <2>2 DEF ReportListing, rows, Begin
    <3>2. CASE UNCHANGED <<call, prepare>>
      BY <1>4, <3>1, <3>2
    <3>3. CASE /\ Accepted(a, Listing) /\ prepare' = prepare
               /\ IF harvest = {} THEN call'[c].pc = "failRead"
                  ELSE call'[c].pc = "expandUpsert" /\ call'[c].todo = FirstOf(TopN, harvest)
      <4>1. itemStatus'[Listing] = "RUNNING" /\ ListingFirst'
        BY <1>2, <1>3, <3>1, <3>3 DEF Accepted, AgentCanWrite, ListingFirst
      <4>2. \A p \in Product : itemStatus'[p] = "ABSENT"
        BY <4>1 DEF ListingFirst
      <4>3. FirstOf(TopN, harvest) \subseteq Product
        BY DEF FirstOf
      <4>4. ReadsAt(c)'
        BY <3>3, <4>1, <4>2, <4>3 DEF ReadsAt, At, ExpandSteps
      <4> QED BY <1>7, <3>1, <3>3, <4>4
    <3> QED BY <2>2, <3>2, <3>3, AgentCarries
  <2>3. ASSUME NEW u \in Url, Accepted(a, u), call'[c].url = u, UNCHANGED <<itemStatus, retryJobs>>,
               IsIdle(c), prepare' = prepare, call'[c].pc \in {"successWrite", "skipWrite", "failWrite"}
        PROVE  JobsKept'
    <3>1. ListingFirst'
      BY <1>2, <1>3, <2>3 DEF ListingFirst
    <3>2. ReadsAt(c)'
      BY <2>3, <3>1 DEF ReadsAt, At, ExpandSteps, Accepted, AgentCanWrite
    <3> QED BY <1>7, <2>3, <3>2
  <2>4. ASSUME NEW u \in Url, NEW mismatch \in BOOLEAN, ReportProduct(c, a, u, mismatch) PROVE JobsKept'
    <3>1. UNCHANGED <<itemStatus, retryJobs>> /\ IsIdle(c)
      BY <2>4 DEF ReportProduct, rows, Begin
    <3> QED BY <1>4, <2>3, <2>4, <3>1, AgentCarries
  <2>5. ASSUME NEW u \in Url, NEW reason \in {"captcha", "retryable"}, ReportFailure(c, a, u, reason) PROVE JobsKept'
    <3>1. UNCHANGED <<itemStatus, retryJobs>> /\ IsIdle(c)
      BY <2>5 DEF ReportFailure, rows, Begin
    <3> QED BY <1>4, <2>3, <2>5, <3>1, AgentCarries
  <2> QED BY <1>10, <2>1, <2>2, <2>4, <2>5 DEF AgentNext
<1> QED BY <1>8, <1>9, <1>10

\* The mode is what the task was created with.
LEMMA ModeStays == ASSUME [Next]_vars PROVE mode' = mode
<1>1. ASSUME NEW c \in Call, PrepareNext(c) \/ RefreshNext(c) \/ UserNext(c) \/ \E u \in Url : ReleaseStart(c, u)
      PROVE  mode' = mode
  BY <1>1 DEF PrepareNext, PrepareStart, PrepareListing, PrepareCheck, PrepareFail, RefreshNext, RefreshRead,
     RefreshItems, RefreshWrite, UserNext, RetryFailed, RetryItem, CancelStart, DeleteStart, ReleaseStart, history
<1>2. ASSUME NEW c \in Call, HandlerNext(c) PROVE mode' = mode
  BY <1>2 DEF HandlerNext, UpsertItem, WritePool, ClaimFind, ClaimTake, ExpandDelete, SuccessWrite, SkipWrite,
     FailRead, FailWrite, FillTask, FillItems, RetryFind, RetryAdd, RetryMark, ReleaseWrite, CancelItems, CancelTask,
     DeleteRow, history
<1>3. ASSUME NEW c \in Call, NEW a \in Agent, AgentNext(c, a) PROVE mode' = mode
  BY <1>3 DEF AgentNext, ClaimStart, ReportListing, ReportProduct, ReportFailure, history
<1>4. (\E a \in Agent : AgentForgets(a)) \/ PrepareTimeout \/ Restart \/ UNCHANGED vars => mode' = mode
  BY DEF AgentForgets, PrepareTimeout, Restart, vars, history
<1> QED BY <1>1, <1>2, <1>3, <1>4 DEF Next

\* With one handler and no restart every step keeps the jobs.
THEOREM JobsStep == Serial /\ MaxRestarts = 0 /\ TypeOK /\ CancelKept /\ SettledKept /\ JobsKept /\ [Next]_vars => JobsKept'
<1> SUFFICES ASSUME Serial, MaxRestarts = 0, TypeOK, CancelKept, SettledKept, JobsKept, [Next]_vars, Pages'
             PROVE  JobsKept'
  BY DEF JobsKept
<1>0. mode' = mode /\ Pages
  BY ModeStays DEF Pages
<1>1. ~Restart
  BY DEF Restart, TypeOK, HistoryOK
<1>2. ASSUME NEW c \in Call, HandlerNext(c) PROVE JobsKept'
  <2>1. ReadsAt(c)' /\ JobsAt(c)'
    <3>1. CASE UpsertItem(c) \/ WritePool(c) \/ FillTask(c) \/ FillItems(c)
      BY <1>0, <3>1, JobsUpsert
    <3>2. CASE ClaimFind(c) \/ (\E delivered \in BOOLEAN : ClaimTake(c, delivered)) \/ ExpandDelete(c)
               \/ SuccessWrite(c) \/ SkipWrite(c) \/ FailRead(c) \/ FailWrite(c)
      BY <1>0, <3>2, JobsReport
    <3>3. CASE RetryFind(c) \/ RetryAdd(c) \/ RetryMark(c) \/ ReleaseWrite(c) \/ CancelItems(c) \/ CancelTask(c) \/ DeleteRow(c)
      BY <1>0, <3>3, JobsRetry
    <3> QED BY <1>2, <3>1, <3>2, <3>3 DEF HandlerNext
  <2> QED BY <1>0, <1>2, <2>1, JobsAround, JobsTurn
<1>3. CASE PrepareTimeout
  <2>1. prepare = "active" /\ prepare' = "timedout" /\ UNCHANGED <<call, itemStatus, pool, retryJobs>> /\ (Over => Over')
        /\ (taskStatus' = "DELETED" => taskStatus = "DELETED")
    BY <1>3 DEF PrepareTimeout, FailTask, Over
  <2>2. (Blank' <=> Blank) /\ (ListingFirst' <=> ListingFirst)
    BY <2>1 DEF Blank, ListingFirst
  <2>3. ASSUME NEW c \in Call PROVE ReadsAt(c)' /\ JobsAt(c)'
    <3>1. ReadsAt(c) /\ JobsAt(c)
      BY <1>0 DEF JobsKept
    <3>2. ReadsAt(c)'
      BY <1>0, <2>1, <2>2, <3>1 DEF ReadsAt, At
    <3>3. \A u \in Url : Owed(c, u)' <=> Owed(c, u)
      BY <2>1 DEF Owed, Jobless, At
    <3>4. Over' \/ At(c, "cancelTask")' \/ \A u \in Url : retryJobs'[u] = IF Owed(c, u)' THEN 1 ELSE 0
      BY <2>1, <3>1, <3>3 DEF JobsAt, At
    <3> QED BY <3>2, <3>4 DEF JobsAt
  <2> QED BY <1>0, <2>1, <2>2, <2>3 DEF JobsKept
<1>4. CASE (\E a \in Agent : AgentForgets(a)) \/ UNCHANGED vars
  <2>1. UNCHANGED <<mode, taskStatus, itemStatus, pool, call, prepare, retryJobs>>
    BY <1>4 DEF AgentForgets, vars, rows, history
  <2> QED BY <2>1, JobsFrame
<1> QED BY <1>0, <1>1, <1>2, <1>3, <1>4, JobsPrepare, JobsStarts DEF Next

\* One slot, no restart: the three together.
SerialKept == CancelKept /\ SettledKept /\ JobsKept

\* They are invariants of the specification.
THEOREM SerialInvariant == Serial /\ MaxRestarts = 0 => (Spec => [](TypeOK /\ SerialKept))
<1> SUFFICES ASSUME Serial, MaxRestarts = 0 PROVE Spec => [](TypeOK /\ SerialKept)
  OBVIOUS
<1>1. Init => SerialKept
  <2> SUFFICES ASSUME Init PROVE SerialKept
    OBVIOUS
  <2>1. Blank /\ taskStatus = "QUEUED" /\ prepare = "queued" /\ pool = {} /\ ListingFirst /\ \A u \in Url : retryJobs[u] = 0
    BY DEF Init, Blank, ListingFirst, Url
  <2>2. ASSUME NEW c \in Call PROVE call[c].pc = "idle" /\ call[c].job = "none"
    BY DEF Init, Idle
  <2>3. SettledKept
    BY <2>1, <2>2 DEF SettledKept, SettledAt, Clean, At, ExpandSteps, QueuedSteps
  <2>4. CancelKept
    BY <2>1, <2>2 DEF CancelKept, At
  <2>5. ASSUME NEW c \in Call PROVE ReadsAt(c) /\ JobsAt(c)
    BY <2>1, <2>2 DEF ReadsAt, JobsAt, Owed, Jobless, At, ExpandSteps, Blank
  <2> QED BY <2>1, <2>3, <2>4, <2>5 DEF SerialKept, JobsKept
<1>2. TypeOK /\ SerialKept /\ [Next]_vars => SerialKept'
  BY CancelStep, SettledStep, JobsStep DEF SerialKept
<1> QED BY <1>1, <1>2, TypeCorrect, PTL DEF Spec

\* Between two handlers an item that waits for its retry has exactly one job to release it,
\* however often it failed, was retried by hand or released: none is stranded, and none is
\* released twice.
THEOREM OneJobPerRetry ==
  Serial /\ MaxRestarts = 0 /\ ConfigUrls \subseteq Product => (Spec => []RetryingHasJob)
<1> SUFFICES ASSUME Serial, MaxRestarts = 0, ConfigUrls \subseteq Product PROVE Spec => []RetryingHasJob
  OBVIOUS
<1>1. SerialKept => RetryingHasJob
  <2> SUFFICES ASSUME SerialKept, Quiet, NEW u \in Url, itemStatus[u] = "RETRYING" PROVE retryJobs[u] = 1
    BY DEF RetryingHasJob
  <2>1. PICK c \in Call : call[c].pc = "idle"
    BY DEF Quiet, IsIdle, Serial
  <2>2. (Over \/ Waiting) /\ (taskStatus = "DELETED" => Blank)
    BY <2>1, JobsWait DEF SerialKept, JobsKept, Pages
  <2>3. taskStatus = "CANCELLED" => itemStatus[u] \notin Open
    BY DEF SerialKept, CancelKept, Withdrawn
  <2> QED BY <2>2, <2>3 DEF Over, Waiting, Blank, Open
<1>2. Spec => [](TypeOK /\ SerialKept)
  BY SerialInvariant
<1> QED BY <1>1, <1>2, PTL

\* A set of naturals has a least element.
LEMMA LeastElement ==
  ASSUME NEW S \in SUBSET Nat, S # {}
  PROVE  \E m \in S : \A q \in S : m <= q
<1>1. PICK m \in S : \A q \in S : <<q, m>> \notin OpToRel(<, Nat)
  BY NatLessThanWellFounded, WFMin
<1>2. ASSUME NEW q \in S PROVE m <= q
  <2>1. q \in Nat /\ m \in Nat
    OBVIOUS
  <2>2. ~(q < m)
    BY <1>1, <2>1 DEF OpToRel
  <2> QED BY <2>1, <2>2
<1> QED BY <1>2

\* The first n of some candidates are at most n, and fewer only if none is left over.
LEMMA FirstBound ==
  ASSUME NEW n \in Nat, NEW S \in SUBSET Nat, IsFiniteSet(S)
  PROVE  /\ Cardinality(FirstOf(n, S)) <= n
         /\ LeftOver(n, S) # {} => Cardinality(FirstOf(n, S)) >= n
         /\ FirstOf(n, S) = {} /\ n > 0 => S = {}
<1> DEFINE Before(p) == {q \in S : q < p}
           First == FirstOf(n, S)
<1>0. \A q \in S : q \in Nat
  OBVIOUS
<1>1. /\ IsFiniteSet(First) /\ Cardinality(First) \in Nat
      /\ \A T \in SUBSET S : IsFiniteSet(T) /\ Cardinality(T) \in Nat
  <2>1. \A T \in SUBSET S : IsFiniteSet(T) /\ Cardinality(T) \in Nat
    BY FS_Subset, FS_CardinalityType
  <2> QED BY <2>1 DEF FirstOf
<1>2. Cardinality(First) <= n
  <2> SUFFICES ASSUME Cardinality(First) > n PROVE FALSE
    BY <1>1
  <2> DEFINE rank == [p \in First |-> Cardinality(Before(p))]
  <2>1. n > 0
    <3> SUFFICES ASSUME n = 0 PROVE FALSE
      OBVIOUS
    <3>1. First = {}
      BY <1>1 DEF FirstOf
    <3> QED BY <3>1, FS_EmptySet
  <2>2. IsFiniteSet(0..(n-1)) /\ Cardinality(0..(n-1)) = n
    BY <2>1, FS_Interval
  <2>3. rank \in [First -> 0..(n-1)]
    BY <1>1 DEF FirstOf
  <2>4. PICK p \in First, q \in First : p # q /\ rank[p] = rank[q]
    <3> HIDE DEF First, rank
    <3> QED BY <1>1, <2>2, <2>3, FS_PigeonHole
  <2>5. ASSUME NEW x \in S, NEW y \in S, x < y PROVE Cardinality(Before(x)) # Cardinality(Before(y))
    <3>1. Before(x) \subseteq Before(y) /\ x \in Before(y) /\ x \notin Before(x)
      <4>1. \A z \in S : z < x => z < y
        <5> TAKE z \in S
        <5>1. z \in Nat /\ x \in Nat /\ y \in Nat
          BY <1>0
        <5> QED BY <2>5, <5>1
      <4>2. x \in Nat /\ ~(x < x)
        BY <1>0
      <4> QED BY <2>5, <4>1, <4>2
    <3>2. IsFiniteSet(Before(y))
      BY <1>1
    <3> HIDE DEF Before
    <3> QED BY <3>1, <3>2, FS_Subset
  <2>6. p \in S /\ q \in S /\ (p < q \/ q < p)
    BY <2>4 DEF FirstOf
  <2>7. Cardinality(Before(p)) = Cardinality(Before(q))
    BY <2>4
  <2> HIDE DEF Before
  <2> QED BY <2>5, <2>6, <2>7
<1>3. ASSUME LeftOver(n, S) # {} PROVE Cardinality(First) >= n
  <2>1. PICK m \in LeftOver(n, S) : \A q \in LeftOver(n, S) : m <= q
    BY <1>3, LeastElement DEF LeftOver
  <2>2. m \in S /\ ~(Cardinality(Before(m)) < n)
    BY <2>1 DEF LeftOver, FirstOf
  <2>3. Before(m) \in SUBSET First
    <3>1. ASSUME NEW q \in S, q < m, q \notin First PROVE FALSE
      <4>1. m \in S /\ q \in LeftOver(n, S)
        BY <2>1, <3>1 DEF LeftOver
      <4>2. m <= q /\ m \in Nat /\ q \in Nat
        BY <1>0, <2>1, <4>1
      <4> QED BY <3>1, <4>2
    <3> QED BY <3>1
  <2>4. Cardinality(Before(m)) <= Cardinality(First)
    BY <1>1, <2>3, FS_Subset
  <2>5. Cardinality(Before(m)) \in Nat
    BY <1>1
  <2> QED BY <1>1, <2>2, <2>4, <2>5
<1>4. ASSUME First = {}, n > 0, S # {} PROVE FALSE
  <2>1. PICK m \in S : \A q \in S : m <= q
    BY <1>4, LeastElement
  <2>2. Before(m) = {}
    <3>1. ASSUME NEW q \in S PROVE ~(q < m)
      <4>1. m <= q /\ m \in Nat /\ q \in Nat
        BY <1>0, <2>1
      <4> QED BY <4>1
    <3> QED BY <3>1
  <2>3. Cardinality(Before(m)) = 0
    BY <2>2, FS_EmptySet
  <2> QED BY <1>4, <2>3 DEF FirstOf
<1> QED BY <1>2, <1>3, <1>4

(***************************************************************************)
(* TOP N: delivered products, those on their way and those a handler is    *)
(* upserting are within the quota, and candidates are left in the pool     *)
(* only while the quota is used up or a back-fill is on its way.           *)
(***************************************************************************)
Counted == ProductsIn({"SUCCESS"} \cup Open)
UpsertSteps == {"prepUpsert", "expandUpsert", "fillUpsert"}
Upserting(c) == IF call[c].pc \in UpsertSteps THEN call[c].todo ELSE {}
Full == Cardinality(Counted) >= TopN \/ pool \subseteq Existing

\* Calls of a handler that is to fill the quota, or to cancel.
FillSteps == {"fillTask", "fillItems", "fillUpsert", "fillPool", "expandUpsert", "expandPool", "cancelTask"}

QuotaAt(c) ==
  /\ Cardinality((Counted \ userRetried) \cup Upserting(c)) <= TopN
  /\ call[c].pc \in {"retryAdd", "retryMark"} => \A u \in call[c].todo : itemStatus[u] = "RETRYING" \/ u \in userRetried
  /\ call[c].pc \in FillSteps \/ Over \/ Full
  /\ call[c].pc \in {"expandUpsert", "fillUpsert", "expandPool", "fillPool"} =>
       call[c].pool = {} \/ Cardinality(Counted \cup Upserting(c)) >= TopN

QuotaKept == mode = "CATEGORY_TOP" => \A c \in Call : QuotaAt(c)

Counts(p) == itemStatus[p] \in {"SUCCESS"} \cup Open

\* Sets of products.
LEMMA ProductSets ==
  /\ IsFiniteSet(Product) /\ Product \in SUBSET Nat /\ TopN \in Nat /\ TopN > 0
  /\ \A S \in SUBSET Product : IsFiniteSet(S) /\ Cardinality(S) \in Nat
  /\ \A S, T \in SUBSET Product : S \subseteq T => Cardinality(S) <= Cardinality(T)
  /\ Counted \in SUBSET Product /\ \A p \in Product : p \in Counted <=> Counts(p)
<1>1. IsFiniteSet(Product) /\ Product \in SUBSET Nat /\ TopN \in Nat /\ TopN > 0
  BY CrawlerAssumptions
<1>2. \A S \in SUBSET Product : IsFiniteSet(S) /\ Cardinality(S) \in Nat
  BY <1>1, FS_Subset, FS_CardinalityType
<1>3. \A S, T \in SUBSET Product : S \subseteq T => Cardinality(S) <= Cardinality(T)
  BY <1>2, FS_Subset
<1>4. Counted \in SUBSET Product /\ \A p \in Product : p \in Counted <=> Counts(p)
  BY DEF Counted, Counts, ProductsIn
<1> QED BY <1>1, <1>2, <1>3, <1>4

\* The products counted after a step.
LEMMA CountedNext ==
  Counted' \in SUBSET Product /\ \A p \in Product : p \in Counted' <=> Counts(p)'
BY DEF Counted, Counts, ProductsIn

\* A full task stays full while its products keep counting and its pool is the same.
LEMMA FullStays ==
  ASSUME TypeOK, TypeOK', Full, pool' = pool,
         \A p \in Product : /\ Counts(p) => Counts(p)'
                            /\ itemStatus[p] # "ABSENT" => itemStatus'[p] # "ABSENT"
  PROVE  Full'
<1>1. Counted \subseteq Counted'
  BY ProductSets, CountedNext
<1>2. Cardinality(Counted) <= Cardinality(Counted')
  BY <1>1, ProductSets, CountedNext
<1>3. \A p \in Product : p \in Existing => p \in Existing'
  BY DEF TypeOK, RowsOK, Existing, ProductsIn, ItemStatuses, Url
<1>4. pool \subseteq Product
  BY DEF TypeOK, RowsOK
<1>5. pool \subseteq Existing => pool' \subseteq Existing'
  BY <1>3, <1>4
<1>6. Cardinality(Counted) \in Nat /\ Cardinality(Counted') \in Nat /\ TopN \in Nat
  BY ProductSets, CountedNext
<1> QED BY <1>2, <1>5, <1>6 DEF Full

\* A step to a call that upserts nothing.
LEMMA QuotaPlain ==
  ASSUME TypeOK, TypeOK', NEW c \in Call, QuotaAt(c),
         call'[c].pc \notin {"prepUpsert", "expandUpsert", "fillUpsert", "expandPool", "fillPool"},
         \A p \in Product : Counts(p)' => Counts(p) \/ p \in userRetried', userRetried \subseteq userRetried',
         call'[c].pc \in {"retryAdd", "retryMark"} => \A u \in call'[c].todo : itemStatus'[u] = "RETRYING" \/ u \in userRetried',
         call'[c].pc \in FillSteps \/ Over' \/ Full'
  PROVE  QuotaAt(c)'
<1> DEFINE now == (Counted \ userRetried) \cup (Upserting(c) \cap Product)
           next == Counted' \ userRetried'
<1>1. next \subseteq now /\ now \in SUBSET Product /\ next \in SUBSET Product
  BY ProductSets, CountedNext
<1>2. Upserting(c)' = {}
  BY DEF Upserting, UpsertSteps
<1>3. Cardinality((Counted \ userRetried) \cup Upserting(c)) <= TopN
  BY DEF QuotaAt
<1>4. IsFiniteSet((Counted \ userRetried) \cup Upserting(c)) /\ now \in SUBSET ((Counted \ userRetried) \cup Upserting(c))
  <2>1. Url = Product \cup {Listing}
    BY DEF Url
  <2>2. IsFiniteSet(Url)
    BY <2>1, ProductSets, FS_AddElement
  <2>3. Upserting(c) \subseteq Url
    BY DEF Upserting, TypeOK, ControlOK, LoadedSlots, Slots
  <2>4. (Counted \ userRetried) \cup Upserting(c) \in SUBSET Url
    BY <2>1, <2>3, ProductSets
  <2> QED BY <2>2, <2>4, FS_Subset
<1>5. Cardinality(next) <= Cardinality(now) /\ Cardinality(now) \in Nat /\ Cardinality(next) \in Nat
  BY <1>1, ProductSets
<1>6. /\ Cardinality(now) <= Cardinality((Counted \ userRetried) \cup Upserting(c))
      /\ Cardinality((Counted \ userRetried) \cup Upserting(c)) \in Nat
  BY <1>4, FS_Subset, FS_CardinalityType
<1>7. Cardinality(next) <= TopN
  <2> HIDE DEF now, next
  <2> QED BY <1>3, <1>5, <1>6, ProductSets
<1>8. (Counted' \ userRetried') \cup Upserting(c)' = next
  BY <1>2
<1> HIDE DEF next
<1> QED BY <1>7, <1>8 DEF QuotaAt

\* With one handler, what its call keeps is all there is to keep.
LEMMA QuotaTurn ==
  ASSUME Serial, NEW c \in Call, QuotaAt(c)'
  PROVE  QuotaKept'
BY DEF QuotaKept, Serial

\* Preparing and refreshing touch no product.
LEMMA QuotaPrepare ==
  ASSUME TypeOK, TypeOK', Serial, SerialKept, QuotaKept, mode = "CATEGORY_TOP",
         NEW c \in Call, PrepareNext(c) \/ RefreshNext(c)
  PROVE  QuotaKept'
<1>0. QuotaAt(c) /\ ReadsAt(c) /\ SettledAt(c) /\ (prepare = "queued" => pool = {}) /\ Pages
  BY DEF QuotaKept, SerialKept, SettledKept, JobsKept, Pages
<1>1. UNCHANGED <<pool, userRetried>>
  BY DEF PrepareNext, PrepareStart, PrepareListing, PrepareCheck, PrepareFail, RefreshNext, RefreshRead, RefreshItems,
         RefreshWrite, rows, history
<1>2. \A p \in Product : itemStatus'[p] = itemStatus[p]
  <2>1. Listing \notin Product /\ \A p \in Product : p \in Url
    BY CrawlerAssumptions DEF Url
  <2> QED BY <2>1 DEF PrepareNext, PrepareStart, PrepareListing, PrepareCheck, PrepareFail, RefreshNext, RefreshRead,
         RefreshItems, RefreshWrite, rows, SetItem, TypeOK, RowsOK
<1>3. \A p \in Product : /\ Counts(p)' <=> Counts(p)
                         /\ itemStatus[p] # "ABSENT" => itemStatus'[p] # "ABSENT"
  BY <1>2 DEF Counts
<1>4. Full => Full'
  BY <1>1, <1>3, FullStays
<1>5. /\ call[c].pc \in PrepareSteps \cup RefreshSteps \cup {"idle"}
      /\ call'[c].pc \in {"idle", "prepListing", "prepCheck", "prepUpsert"} \cup RefreshSteps
  <2>1. CASE PrepareStart(c)
    BY <2>1, PrepareCarries DEF PrepareStart, IsIdle
  <2>2. CASE PrepareListing(c) \/ PrepareFail(c) \/ RefreshWrite(c)
    BY <2>2, SlotAfter DEF PrepareListing, PrepareFail, RefreshWrite, At, PrepareSteps, RefreshSteps
  <2>3. CASE PrepareCheck(c) \/ RefreshRead(c) \/ RefreshItems(c)
    BY <2>3, PrepareCarries, SlotAfter DEF PrepareCheck, RefreshRead, RefreshItems, At, PrepareSteps, RefreshSteps
  <2> QED BY <2>1, <2>2, <2>3 DEF PrepareNext, RefreshNext
<1>6. call'[c].pc # "prepUpsert"
  <2>1. CASE PrepareCheck(c)
    BY <1>0, <2>1 DEF PrepareCheck, ReadsAt, At
  <2>2. CASE ~PrepareCheck(c)
    <3>1. CASE PrepareStart(c)
      BY <3>1, PrepareCarries DEF PrepareStart, IsIdle
    <3>2. CASE PrepareListing(c) \/ PrepareFail(c) \/ RefreshWrite(c)
      BY <3>2, SlotAfter DEF PrepareListing, PrepareFail, RefreshWrite
    <3>3. CASE RefreshRead(c) \/ RefreshItems(c)
      BY <3>3, PrepareCarries, SlotAfter
    <3> QED BY <2>2, <3>1, <3>2, <3>3 DEF PrepareNext, RefreshNext
  <2> QED BY <2>1, <2>2
<1>7. Over' \/ Full'
  <2>1. CASE PrepareStart(c)
    <3>1. pool' = {}
      BY <1>0, <1>1, <2>1 DEF PrepareStart
    <3> QED BY <3>1 DEF Full
  <2>2. CASE ~PrepareStart(c)
    <3>1. Over \/ Full
      BY <1>0, <1>5, <2>2 DEF QuotaAt, FillSteps, PrepareSteps, RefreshSteps
    <3>2. Over => Over'
      <4>1. CASE RefreshWrite(c)
        <5>1. At(c, "refreshWrite") /\ taskStatus' = IF taskStatus = "DELETED" \/ call[c].seen = "keep" THEN taskStatus ELSE call[c].seen
          BY <4>1 DEF RefreshWrite
        <5>2. taskStatus = "CANCELLED" => call[c].seen = "keep"
          BY <5>1 DEF SerialKept, CancelKept
        <5> QED BY <5>1, <5>2 DEF Over
      <4>2. CASE PrepareFail(c)
        BY <4>2 DEF PrepareFail, FailTask, Over
      <4>3. CASE ~RefreshWrite(c) /\ ~PrepareFail(c)
        BY <2>2, <4>3 DEF PrepareNext, PrepareListing, PrepareCheck, RefreshNext, RefreshRead, RefreshItems, Over, rows
      <4> QED BY <4>1, <4>2, <4>3
    <3> QED BY <1>4, <3>1, <3>2
  <2> QED BY <2>1, <2>2
<1>8. call'[c].pc \notin {"prepUpsert", "expandUpsert", "fillUpsert", "expandPool", "fillPool", "retryAdd", "retryMark"}
  BY <1>5, <1>6 DEF RefreshSteps
<1>9. QuotaAt(c)'
  BY <1>0, <1>1, <1>3, <1>7, <1>8, QuotaPlain
<1> QED BY <1>9, QuotaTurn

\* Upserting, and the pool.
LEMMA QuotaUpsert ==
  ASSUME TypeOK, TypeOK', Serial, SerialKept, QuotaKept, mode = "CATEGORY_TOP", NEW c \in Call,
         UpsertItem(c) \/ WritePool(c)
  PROVE  QuotaKept'
<1>0. QuotaAt(c) /\ ReadsAt(c) /\ Pages
  BY DEF QuotaKept, SerialKept, JobsKept, Pages
<1>1. UNCHANGED <<taskStatus, userRetried>>
  BY DEF UpsertItem, WritePool, history
<1>2. CASE taskStatus = "DELETED" /\ Finish(c) /\ UNCHANGED itemStatus
  <2>1. call'[c].pc = "idle" /\ Over'
    BY <1>1, <1>2, SlotAfter DEF Over
  <2>2. \A p \in Product : Counts(p)' <=> Counts(p)
    BY <1>2 DEF Counts
  <2> QED BY <1>0, <1>1, <2>1, <2>2, QuotaPlain, QuotaTurn
<1>3. CASE UpsertItem(c) /\ taskStatus # "DELETED"
  <2>1. PICK u \in call[c].todo :
          /\ SetItem(u, "PENDING")
          /\ call'[c].todo = call[c].todo \ {u}
          /\ call'[c].pc = IF call[c].todo \ {u} # {} THEN call[c].pc
                           ELSE IF At(c, "prepUpsert") THEN "refresh"
                           ELSE IF At(c, "expandUpsert") THEN "expandPool" ELSE "fillPool"
          /\ call'[c].pool = call[c].pool
    BY <1>3, UpsertCarries
  <2>2. call[c].pc \in {"expandUpsert", "fillUpsert"} /\ call[c].todo \subseteq Product
    BY <1>0, <1>3, UpsertCarries DEF ReadsAt
  <2>3. Upserting(c) = call[c].todo /\ Upserting(c)' = call[c].todo \ {u}
    <3>1. call'[c].pc \in UpsertSteps \/ (call'[c].pc \notin UpsertSteps /\ call[c].todo \ {u} = {})
      BY <2>1, <2>2 DEF UpsertSteps
    <3> QED BY <2>1, <2>2, <3>1 DEF Upserting, UpsertSteps
  <2>4. call'[c].pc \in {"expandUpsert", "fillUpsert", "expandPool", "fillPool"}
    BY <2>1, <2>2 DEF At
  <2>5. itemStatus'[u] = "PENDING" /\ \A p \in Product \ {u} : itemStatus'[p] = itemStatus[p]
    BY <2>1, <2>2 DEF SetItem, TypeOK, RowsOK, Url
  <2>6. Counted' = Counted \cup {u}
    <3>1. \A p \in Product \ {u} : Counts(p)' <=> Counts(p)
      BY <2>5 DEF Counts
    <3>2. Counts(u)' /\ u \in Product
      BY <2>2, <2>5 DEF Counts, Open
    <3>3. \A p \in Product : p \in Counted' <=> (p \in Counted \/ p = u)
      BY <3>1, <3>2, ProductSets, CountedNext
    <3> QED BY <3>2, <3>3, ProductSets, CountedNext
  <2>7. Counted' \cup Upserting(c)' = Counted \cup Upserting(c)
    BY <2>3, <2>6
  <2>8. (Counted' \ userRetried') \cup Upserting(c)' \subseteq (Counted \ userRetried) \cup Upserting(c)
    BY <1>1, <2>3, <2>6
  <2>9. Cardinality((Counted' \ userRetried') \cup Upserting(c)') <= TopN
    <3> DEFINE now == (Counted \ userRetried) \cup Upserting(c)
               next == (Counted' \ userRetried') \cup Upserting(c)'
    <3>1. now \in SUBSET Product /\ next \in SUBSET Product /\ next \subseteq now
      BY <2>2, <2>3, <2>8, ProductSets, CountedNext
    <3>2. Cardinality(now) <= TopN
      BY <1>0 DEF QuotaAt
    <3>3. Cardinality(now) \in Nat /\ Cardinality(next) \in Nat /\ Cardinality(next) <= Cardinality(now)
      BY <3>1, ProductSets
    <3> HIDE DEF now, next
    <3>4. Cardinality(next) <= TopN
      BY <3>2, <3>3, ProductSets
    <3> QED BY <3>4 DEF next
  <2>10. call'[c].pool = {} \/ Cardinality(Counted' \cup Upserting(c)') >= TopN
    BY <1>0, <2>1, <2>2, <2>7 DEF QuotaAt
  <2>11. QuotaAt(c)'
    BY <2>4, <2>9, <2>10 DEF QuotaAt, FillSteps
  <2> QED BY <2>11, QuotaTurn
<1>4. CASE WritePool(c) /\ taskStatus # "DELETED"
  <2>1. UNCHANGED itemStatus /\ call[c].pc \in {"expandPool", "fillPool"} /\ pool' = call[c].pool
        /\ (GotoRefresh(c) \/ Goto(c, "expandDelete"))
    BY <1>4 DEF WritePool
  <2>2. call'[c].pc \in {"refresh", "expandDelete"}
    BY <2>1, SlotAfter
  <2>3. \A p \in Product : Counts(p)' <=> Counts(p)
    BY <2>1 DEF Counts
  <2>4. Counted' = Counted
    BY <2>3, ProductSets, CountedNext
  <2>5. Upserting(c) = {}
    BY <2>1 DEF Upserting, UpsertSteps
  <2>6. call[c].pool = {} \/ Cardinality(Counted) >= TopN
    BY <1>0, <2>1, <2>5 DEF QuotaAt
  <2>7. Full'
    BY <2>1, <2>4, <2>6 DEF Full
  <2> QED BY <1>0, <1>1, <2>2, <2>3, <2>7, QuotaPlain, QuotaTurn
<1>5. UpsertItem(c) /\ taskStatus = "DELETED" => Finish(c) /\ UNCHANGED itemStatus
  BY DEF UpsertItem
<1>6. WritePool(c) /\ taskStatus = "DELETED" => Finish(c) /\ UNCHANGED itemStatus
  BY DEF WritePool
<1> QED BY <1>2, <1>3, <1>4, <1>5, <1>6

\* Back-filling takes as many candidates as are missing.
LEMMA QuotaFill ==
  ASSUME TypeOK, TypeOK', Serial, SerialKept, QuotaKept, mode = "CATEGORY_TOP", NEW c \in Call,
         FillTask(c) \/ FillItems(c)
  PROVE  QuotaKept'
<1>0. QuotaAt(c) /\ ReadsAt(c) /\ Pages /\ taskStatus # "PAUSED"
  BY DEF QuotaKept, SerialKept, SettledKept, JobsKept, Pages
<1>1. UNCHANGED <<taskStatus, itemStatus, pool, userRetried>>
  BY DEF FillTask, FillItems, rows, history
<1>2. \A p \in Product : Counts(p)' <=> Counts(p)
  BY <1>1 DEF Counts
<1>3. Counted' = Counted
  BY <1>2, ProductSets, CountedNext
<1>4. CASE FillTask(c)
  <2>1. CASE (taskStatus = "DELETED" /\ Finish(c)) \/ (ShouldPreserve(taskStatus) /\ GotoRefresh(c))
    <3>1. Over' /\ call'[c].pc \in {"idle", "refresh"}
      BY <1>0, <1>1, <2>1, SlotAfter DEF Over, ShouldPreserve
    <3> QED BY <1>0, <1>1, <1>2, <3>1, QuotaPlain, QuotaTurn
  <2>2. CASE call'[c].pc = "fillItems"
    BY <1>0, <1>1, <1>2, <2>2, QuotaPlain, QuotaTurn DEF FillSteps
  <2> QED BY <1>4, <2>1, <2>2, UpsertCarries
<1>5. CASE FillItems(c)
  <2> DEFINE left == Candidates(c)
             next == FirstOf(Deficit, left)
  <2>1. call[c].pool = pool /\ pool \in SUBSET Product /\ left = pool \ Existing
    BY <1>0, <1>5 DEF FillItems, ReadsAt, At, TypeOK, RowsOK, Candidates
  <2>2. left \in SUBSET Product /\ left \in SUBSET Nat /\ IsFiniteSet(left)
    BY <2>1, ProductSets
  <2>3. /\ Cardinality(Counted) \in Nat /\ TopN \in Nat /\ Deficit \in Nat
        /\ Deficit = IF Cardinality(Counted) < TopN THEN TopN - Cardinality(Counted) ELSE 0
    <3>1. Cardinality(Counted) \in Nat /\ TopN \in Nat
      BY ProductSets
    <3>2. Deficit = IF Cardinality(Counted) < TopN THEN TopN - Cardinality(Counted) ELSE 0
      BY DEF Deficit, Counted
    <3> QED BY <3>1, <3>2
  <2>4. /\ Cardinality(next) <= Deficit
        /\ LeftOver(Deficit, left) # {} => Cardinality(next) >= Deficit
        /\ next = {} /\ Deficit > 0 => left = {}
    <3> HIDE DEF left
    <3> QED BY <2>2, <2>3, FirstBound
  <2>5. next \in SUBSET left /\ next \in SUBSET Product /\ Cardinality(next) \in Nat /\ IsFiniteSet(next)
    <3>1. next \in SUBSET left
      BY DEF FirstOf
    <3> HIDE DEF next, left
    <3> QED BY <2>2, <3>1, ProductSets
  <2>6. CASE next = {} /\ GotoRefresh(c)
    <3>1. call'[c].pc = "refresh"
      BY <2>6, SlotAfter
    <3>2. Full
      <4> HIDE DEF left, next
      <4> QED BY <2>1, <2>3, <2>4, <2>6 DEF Full
    <3>3. Full'
      <4>1. \A p \in Product : itemStatus[p] # "ABSENT" => itemStatus'[p] # "ABSENT"
        BY <1>1
      <4> QED BY <1>1, <1>2, <3>2, <4>1, FullStays
    <3> QED BY <1>0, <1>1, <1>2, <3>1, <3>3, QuotaPlain, QuotaTurn
  <2>7. CASE /\ next # {} /\ call'[c].pc = "fillUpsert" /\ call'[c].todo = next
             /\ call'[c].pool = LeftOver(Deficit, left)
    <3>1. Upserting(c)' = next
      BY <2>7 DEF Upserting, UpsertSteps
    <3>2. next \cap Counted = {}
      <4>1. Counted \subseteq Existing
        BY DEF Counted, Existing, ProductsIn, Open, ItemStatuses
      <4>2. next \cap Existing = {}
        <5> HIDE DEF next, left
        <5> QED BY <2>1, <2>5
      <4> QED BY <4>1, <4>2
    <3> HIDE DEF next, left
    <3>3. IsFiniteSet(Counted) /\ Cardinality(Counted \cup next) = Cardinality(Counted) + Cardinality(next)
      <4>1. IsFiniteSet(Counted) /\ Counted \cap next = {} /\ Cardinality({}) = 0
        BY <3>2, ProductSets, FS_EmptySet
      <4>2. Cardinality(Counted \cup next) = Cardinality(Counted) + Cardinality(next) - Cardinality(Counted \cap next)
        BY <2>5, <4>1, FS_Union
      <4>3. Cardinality(Counted \cap next) = 0
        BY <4>1
      <4> QED BY <2>3, <2>5, <4>1, <4>2, <4>3
    <3>4. Deficit > 0 /\ Deficit = TopN - Cardinality(Counted)
      <4>1. Cardinality(next) # 0
        BY <2>5, <2>7, FS_EmptySet
      <4> QED BY <2>3, <2>4, <2>5, <4>1
    <3>5. Cardinality(Counted \cup next) <= TopN
      BY <2>3, <2>4, <2>5, <3>3, <3>4
    <3>6. Cardinality((Counted \ userRetried) \cup next) <= TopN
      <4>1. /\ (Counted \ userRetried) \cup next \in SUBSET Product /\ Counted \cup next \in SUBSET Product
            /\ (Counted \ userRetried) \cup next \subseteq Counted \cup next
        BY <2>5, ProductSets
      <4>2. /\ Cardinality((Counted \ userRetried) \cup next) <= Cardinality(Counted \cup next)
            /\ Cardinality((Counted \ userRetried) \cup next) \in Nat /\ Cardinality(Counted \cup next) \in Nat
        BY <4>1, ProductSets
      <4> QED BY <2>3, <3>5, <4>2
    <3>7. LeftOver(Deficit, left) = {} \/ Cardinality(Counted \cup next) >= TopN
      BY <2>3, <2>4, <2>5, <3>3, <3>4
    <3>8. QuotaAt(c)'
      BY <1>1, <1>3, <2>7, <3>1, <3>6, <3>7 DEF QuotaAt, FillSteps
    <3> QED BY <3>8, QuotaTurn
  <2> QED BY <1>5, <2>6, <2>7, UpsertCarries
<1> QED BY <1>4, <1>5

\* The other handlers past their first call.
LEMMA QuotaHandlers ==
  ASSUME TypeOK, TypeOK', Serial, SerialKept, QuotaKept, mode = "CATEGORY_TOP", NEW c \in Call, HandlerNext(c),
         ~UpsertItem(c), ~WritePool(c), ~FillTask(c), ~FillItems(c)
  PROVE  QuotaKept'
<1>0. QuotaAt(c) /\ ReadsAt(c) /\ Pages /\ SettledKept /\ JobsKept
  BY DEF QuotaKept, SerialKept, JobsKept, Pages
<1>1. Over => Over'
  BY <1>0, JobsAround
<1>2. /\ Listing \notin Product /\ (\A p \in Product : p \in Url) /\ call[c].url \in Url
      /\ itemStatus \in [Url -> ItemStatuses \cup {"ABSENT"}]
  BY CrawlerAssumptions DEF Url, TypeOK, RowsOK, ControlOK, LoadedSlots, Slots
<1>3. ASSUME pool' = pool, userRetried \subseteq userRetried',
             \A p \in Product : /\ Counts(p) => Counts(p)'
                                /\ Counts(p)' => Counts(p) \/ p \in userRetried'
                                /\ itemStatus[p] # "ABSENT" => itemStatus'[p] # "ABSENT",
             call[c].pc \notin FillSteps,
             call'[c].pc \notin {"prepUpsert", "expandUpsert", "fillUpsert", "expandPool", "fillPool"},
             call'[c].pc \in {"retryAdd", "retryMark"} => \A u \in call'[c].todo : itemStatus'[u] = "RETRYING" \/ u \in userRetried'
      PROVE  QuotaKept'
  <2>1. Over' \/ Full'
    BY <1>0, <1>1, <1>3, FullStays DEF QuotaAt
  <2> QED BY <1>0, <1>3, <2>1, QuotaPlain, QuotaTurn
<1>4. ASSUME UNCHANGED userRetried,
             \A p \in Product : Counts(p)' => Counts(p),
             call'[c].pc \in {"fillTask", "cancelTask"} \/ (call'[c].pc \in {"idle", "refresh"} /\ Over')
      PROVE  QuotaKept'
  BY <1>0, <1>4, QuotaPlain, QuotaTurn DEF FillSteps
<1>5. CASE ClaimFind(c) \/ (\E delivered \in BOOLEAN : ClaimTake(c, delivered)) \/ FailRead(c)
  <2>1. UNCHANGED <<pool, userRetried>> /\ call[c].pc \notin FillSteps
    BY <1>5 DEF ClaimFind, ClaimTake, FailRead, rows, history, At, FillSteps
  <2>2. \A p \in Product : itemStatus'[p] = itemStatus[p] \/ (itemStatus[p] = "PENDING" /\ itemStatus'[p] = "RUNNING")
    BY <1>2, <1>5 DEF ClaimFind, ClaimTake, FailRead, rows, StillPending, SetItem
  <2>3. call'[c].pc \in {"idle", "claimTake", "failWrite"}
    <3>1. CASE ClaimFind(c)
      BY <3>1, ClaimCarries, SlotAfter
    <3>2. CASE \E delivered \in BOOLEAN : ClaimTake(c, delivered)
      BY <3>2, SlotAfter DEF ClaimTake
    <3>3. CASE FailRead(c)
      BY <3>3, RetryCarries, SlotAfter
    <3> QED BY <1>5, <3>1, <3>2, <3>3
  <2>4. \A p \in Product : /\ Counts(p)' <=> Counts(p)
                           /\ itemStatus[p] # "ABSENT" => itemStatus'[p] # "ABSENT"
    BY <2>2 DEF Counts, Open
  <2> QED BY <1>3, <2>1, <2>3, <2>4
<1>6. CASE ExpandDelete(c) \/ SuccessWrite(c) \/ ReleaseWrite(c)
  <2>1. UNCHANGED <<pool, userRetried>> /\ call[c].pc \notin FillSteps
    BY <1>6 DEF ExpandDelete, SuccessWrite, ReleaseWrite, history, At, FillSteps
  <2>2. \A p \in Product : \/ itemStatus'[p] = itemStatus[p]
                           \/ itemStatus[p] = "RUNNING" /\ itemStatus'[p] = "SUCCESS"
                           \/ itemStatus[p] = "RETRYING" /\ itemStatus'[p] = "PENDING"
    BY <1>0, <1>2, <1>6 DEF ExpandDelete, SuccessWrite, ReleaseWrite, ReadsAt, SetItem, Requeue, At
  <2>3. call'[c].pc \in {"idle", "refresh"}
    BY <1>6, SlotAfter DEF ExpandDelete, SuccessWrite, ReleaseWrite
  <2>4. \A p \in Product : /\ Counts(p)' <=> Counts(p)
                           /\ itemStatus[p] # "ABSENT" => itemStatus'[p] # "ABSENT"
    BY <2>2 DEF Counts, Open
  <2> QED BY <1>3, <2>1, <2>3, <2>4
<1>7. CASE SkipWrite(c)
  <2>1. itemStatus[call[c].url] = "RUNNING" /\ UNCHANGED <<userRetried>>
    BY <1>0, <1>7 DEF SkipWrite, ReadsAt, At, history
  <2>2. SetItem(call[c].url, "SKIPPED") /\ Goto(c, "fillTask")
    BY <1>7, <2>1 DEF SkipWrite
  <2>3. call'[c].pc = "fillTask" /\ \A p \in Product : Counts(p)' => Counts(p)
    BY <1>2, <2>2, SlotAfter DEF SetItem, Counts, Open
  <2> QED BY <1>4, <2>1, <2>3
<1>8. CASE FailWrite(c)
  <2>1. itemStatus[call[c].url] = "RUNNING" /\ UNCHANGED <<pool, userRetried>> /\ call[c].pc \notin FillSteps
    BY <1>0, <1>8 DEF FailWrite, ReadsAt, At, history, FillSteps
  <2>2. CASE SetItem(call[c].url, "FAILED") /\ Goto(c, "fillTask")
    <3>1. call'[c].pc = "fillTask" /\ \A p \in Product : Counts(p)' => Counts(p)
      BY <1>2, <2>2, SlotAfter DEF SetItem, Counts, Open
    <3> QED BY <1>4, <2>1, <3>1
  <2>3. CASE SetItem(call[c].url, "RETRYING") /\ call'[c].pc = "retryAdd" /\ call'[c].todo = {call[c].url}
    <3>1. \A p \in Product : /\ Counts(p)' <=> Counts(p)
                             /\ itemStatus[p] # "ABSENT" => itemStatus'[p] # "ABSENT"
      BY <1>2, <2>1, <2>3 DEF SetItem, Counts, Open
    <3>2. \A u \in call'[c].todo : itemStatus'[u] = "RETRYING"
      BY <1>2, <2>3 DEF SetItem
    <3> QED BY <1>3, <2>1, <2>3, <3>1, <3>2
  <2> QED BY <1>8, <2>1, <2>2, <2>3, RetryCarries
<1>9. CASE RetryFind(c)
  <2>1. UNCHANGED <<pool, itemStatus>> /\ userRetried' = userRetried \cup Failed /\ call[c].pc \notin FillSteps
    BY <1>9 DEF RetryFind, rows, At, FillSteps
  <2>2. \A p \in Product : /\ Counts(p)' <=> Counts(p)
                           /\ itemStatus[p] # "ABSENT" => itemStatus'[p] # "ABSENT"
    BY <2>1 DEF Counts
  <2>3. call'[c].pc = "idle" \/ (call'[c].pc = "retryAdd" /\ call'[c].todo = Failed)
    BY <1>9, RetryCarries, SlotAfter
  <2> QED BY <1>3, <2>1, <2>2, <2>3
<1>10. CASE RetryAdd(c)
  <2>1. UNCHANGED <<pool, itemStatus, userRetried>> /\ call[c].pc = "retryAdd"
    BY <1>10 DEF RetryAdd, rows, history, At
  <2>2. \A p \in Product : /\ Counts(p)' <=> Counts(p)
                           /\ itemStatus[p] # "ABSENT" => itemStatus'[p] # "ABSENT"
    BY <2>1 DEF Counts
  <2>3. call'[c].pc = "retryMark" /\ call'[c].todo = call[c].todo
    BY <1>10, RetryCarries
  <2>4. \A u \in call[c].todo : itemStatus[u] = "RETRYING" \/ u \in userRetried
    BY <1>0, <2>1 DEF QuotaAt
  <2> QED BY <1>3, <2>1, <2>2, <2>3, <2>4 DEF FillSteps
<1>11. CASE RetryMark(c)
  <2>1. UNCHANGED <<pool, userRetried>> /\ call[c].pc = "retryMark"
    BY <1>11 DEF RetryMark, history, At
  <2>2. call[c].url \in call[c].todo /\ \A u \in call[c].todo : itemStatus[u] \in {"FAILED", "RETRYING"}
    BY <1>0, <2>1 DEF ReadsAt, At
  <2>3. itemStatus' = [itemStatus EXCEPT ![call[c].url] = "RETRYING"]
    BY <1>11, <2>2, RetryCarries DEF SetItem
  <2>4. \A u \in call[c].todo : itemStatus[u] = "RETRYING" \/ u \in userRetried
    BY <1>0, <2>1 DEF QuotaAt
  <2>5. \A p \in Product : /\ Counts(p) => Counts(p)'
                           /\ Counts(p)' => Counts(p) \/ p \in userRetried
                           /\ itemStatus[p] # "ABSENT" => itemStatus'[p] # "ABSENT"
    BY <1>2, <2>2, <2>3, <2>4 DEF Counts, Open
  <2>6. \/ call'[c].pc = "retryAdd" /\ call'[c].todo = call[c].todo \ {call[c].url}
        \/ call'[c].pc \in {"idle", "refresh"}
    BY <1>11, <2>2, RetryCarries, SlotAfter
  <2>7. call'[c].pc \in {"retryAdd", "retryMark"} =>
          \A u \in call'[c].todo : itemStatus'[u] = "RETRYING" \/ u \in userRetried
    <3> SUFFICES ASSUME call'[c].pc = "retryAdd", call'[c].todo = call[c].todo \ {call[c].url}, NEW u \in call'[c].todo
                 PROVE  itemStatus'[u] = "RETRYING" \/ u \in userRetried
      BY <2>6
    <3>1. u \in call[c].todo /\ u # call[c].url /\ u \in Url
      BY DEF TypeOK, ControlOK, LoadedSlots, Slots
    <3> QED BY <1>2, <2>3, <2>4, <3>1
  <2> QED BY <1>3, <2>1, <2>5, <2>6, <2>7 DEF FillSteps
<1>12. CASE CancelItems(c)
  <2>1. UNCHANGED userRetried /\ call'[c].pc = "cancelTask"
    BY <1>12, SlotAfter DEF CancelItems, history
  <2>2. \A p \in Product : Counts(p)' => Counts(p)
    BY <1>2, <1>12 DEF CancelItems, Counts, Open
  <2> QED BY <1>4, <2>1, <2>2
<1>13. CASE CancelTask(c) \/ DeleteRow(c)
  <2>1. UNCHANGED userRetried /\ call'[c].pc \in {"idle", "refresh"} /\ Over'
    BY <1>13, SlotAfter DEF CancelTask, DeleteRow, history, Over
  <2>2. \A p \in Product : Counts(p)' => Counts(p)
    BY <1>2, <1>13 DEF CancelTask, DeleteRow, Counts, Open
  <2> QED BY <1>4, <2>1, <2>2
<1> QED BY <1>5, <1>6, <1>7, <1>8, <1>9, <1>10, <1>11, <1>12, <1>13 DEF HandlerNext

\* Requests that begin.
LEMMA QuotaStarts ==
  ASSUME TypeOK, TypeOK', Serial, SerialKept, QuotaKept, mode = "CATEGORY_TOP", NEW c \in Call,
         UserNext(c) \/ (\E u \in Url : ReleaseStart(c, u)) \/ \E a \in Agent : AgentNext(c, a)
  PROVE  QuotaKept'
<1>0. QuotaAt(c) /\ ReadsAt(c) /\ Pages
  BY DEF QuotaKept, SerialKept, JobsKept, Pages
<1>1. UNCHANGED <<taskStatus, pool>> /\ userRetried \subseteq userRetried'
  BY DEF UserNext, RetryFailed, RetryItem, CancelStart, DeleteStart, ReleaseStart, AgentNext, ClaimStart,
         ReportListing, ReportProduct, ReportFailure, rows, history
<1>2. \A p \in Product : \/ itemStatus'[p] = itemStatus[p]
                         \/ itemStatus[p] = "RUNNING" /\ itemStatus'[p] = "PENDING"
  BY DEF UserNext, RetryFailed, RetryItem, CancelStart, DeleteStart, ReleaseStart, AgentNext, ClaimStart, Requeue,
         OwnRunning, AgentCanWrite, ReportListing, ReportProduct, ReportFailure, rows, Url
<1>3. \A p \in Product : /\ Counts(p)' <=> Counts(p)
                         /\ itemStatus[p] # "ABSENT" => itemStatus'[p] # "ABSENT"
  BY <1>2 DEF Counts, Open
<1>4. IsIdle(c) => Over' \/ Full'
  BY <1>0, <1>1, <1>3, FullStays DEF QuotaAt, IsIdle, FillSteps, Over
<1>5. ASSUME IsIdle(c), call'[c].pc \notin UpsertSteps \cup {"expandPool", "fillPool", "retryAdd", "retryMark"}
      PROVE  QuotaKept'
  BY <1>0, <1>1, <1>3, <1>4, <1>5, QuotaPlain, QuotaTurn DEF UpsertSteps
<1>6. ASSUME IsIdle(c), call' = call
      PROVE  QuotaKept'
  BY <1>5, <1>6 DEF IsIdle, UpsertSteps
<1>7. CASE UserNext(c)
  <2>1. IsIdle(c)
    BY <1>7 DEF UserNext, RetryFailed, RetryItem, CancelStart, DeleteStart
  <2>2. ASSUME NEW u \in Url, RetryItem(c, u) PROVE QuotaKept'
    <3>1. call'[c].pc = "retryAdd" /\ call'[c].todo = {u} /\ u \in userRetried'
      BY <2>2, StartCarries DEF RetryItem
    <3> QED BY <1>0, <1>1, <1>3, <1>4, <2>1, <3>1, QuotaPlain, QuotaTurn
  <2>3. CASE RetryFailed(c) \/ CancelStart(c) \/ DeleteStart(c)
    <3>1. call'[c].pc \in {"retryFind", "cancelItems", "deleteRow"}
      BY <2>3, StartCarries
    <3> QED BY <1>5, <2>1, <3>1 DEF UpsertSteps
  <2> QED BY <1>7, <2>2, <2>3 DEF UserNext
<1>8. ASSUME NEW u \in Url, ReleaseStart(c, u) PROVE QuotaKept'
  <2>1. IsIdle(c) /\ (call' = call \/ call'[c].pc = "releaseWrite")
    BY <1>8, StartCarries DEF ReleaseStart
  <2> QED BY <1>5, <1>6, <2>1 DEF UpsertSteps
<1>9. ASSUME NEW a \in Agent, AgentNext(c, a) PROVE QuotaKept'
  <2>1. ASSUME NEW stuck \in SUBSET Url, ClaimStart(c, a, stuck) PROVE QuotaKept'
    BY <1>5, <2>1, AgentCarries DEF ClaimStart, UpsertSteps
  <2>2. ASSUME NEW harvest \in SUBSET Product, ReportListing(c, a, harvest) PROVE QuotaKept'
    <3>1. IsIdle(c)
      BY <2>2 DEF ReportListing, Begin
    <3>2. CASE call' = call \/ call'[c].pc = "failRead"
      BY <1>5, <1>6, <3>1, <3>2 DEF UpsertSteps
    <3>3. CASE /\ Accepted(a, Listing) /\ call'[c].pc = "expandUpsert" /\ call'[c].todo = FirstOf(TopN, harvest)
               /\ call'[c].pool = LeftOver(TopN, harvest)
      <4> DEFINE next == FirstOf(TopN, harvest)
      <4>1. \A p \in Product : itemStatus[p] = "ABSENT"
        BY <1>0, <3>1, <3>3 DEF Accepted, AgentCanWrite, ReadsAt, ExpandSteps, IsIdle, ListingFirst
      <4>2. \A p \in Product : ~Counts(p)
        BY <4>1 DEF Counts, Open
      <4>3. Counted' = {}
        BY <1>3, <4>2, CountedNext
      <4>4. Upserting(c)' = next
        BY <3>3 DEF Upserting, UpsertSteps
      <4>5. harvest \in SUBSET Nat /\ IsFiniteSet(harvest) /\ TopN \in Nat
        BY ProductSets
      <4>6. Cardinality(next) <= TopN /\ (LeftOver(TopN, harvest) # {} => Cardinality(next) >= TopN)
        BY <4>5, FirstBound
      <4> HIDE DEF next
      <4>7. (Counted' \ userRetried') \cup Upserting(c)' = next /\ Counted' \cup Upserting(c)' = next
        BY <4>3, <4>4
      <4>8. QuotaAt(c)'
        BY <3>3, <4>6, <4>7 DEF QuotaAt, FillSteps
      <4> QED BY <4>8, QuotaTurn
    <3> QED BY <2>2, <3>2, <3>3, AgentCarries
  <2>3. ASSUME NEW u \in Url, NEW mismatch \in BOOLEAN, ReportProduct(c, a, u, mismatch) PROVE QuotaKept'
    <3>1. IsIdle(c) /\ (call' = call \/ call'[c].pc \in {"skipWrite", "successWrite"})
      BY <2>3, AgentCarries DEF ReportProduct, Begin
    <3> QED BY <1>5, <1>6, <3>1 DEF UpsertSteps
  <2>4. ASSUME NEW u \in Url, NEW reason \in {"captcha", "retryable"}, ReportFailure(c, a, u, reason) PROVE QuotaKept'
    <3>1. IsIdle(c) /\ (call' = call \/ call'[c].pc = "failWrite")
      BY <2>4, AgentCarries DEF ReportFailure, Begin
    <3> QED BY <1>5, <1>6, <3>1 DEF UpsertSteps
  <2> QED BY <1>9, <2>1, <2>2, <2>3, <2>4 DEF AgentNext
<1> QED BY <1>7, <1>8, <1>9

\* With one handler and no restart every step keeps the quota.
THEOREM QuotaStep ==
  Serial /\ MaxRestarts = 0 /\ TypeOK /\ TypeOK' /\ SerialKept /\ QuotaKept /\ [Next]_vars => QuotaKept'
<1> SUFFICES ASSUME Serial, MaxRestarts = 0, TypeOK, TypeOK', SerialKept, QuotaKept, [Next]_vars, mode' = "CATEGORY_TOP"
             PROVE  QuotaKept'
  BY DEF QuotaKept
<1>0. mode = "CATEGORY_TOP"
  BY ModeStays
<1>1. ~Restart
  BY DEF Restart, TypeOK, HistoryOK
<1>2. ASSUME NEW c \in Call, HandlerNext(c) PROVE QuotaKept'
  BY <1>0, <1>2, QuotaUpsert, QuotaFill, QuotaHandlers
<1>3. CASE PrepareTimeout \/ (\E a \in Agent : AgentForgets(a)) \/ UNCHANGED vars
  <2>1. UNCHANGED <<itemStatus, pool, call, userRetried>> /\ (Over => Over')
    BY <1>3 DEF PrepareTimeout, FailTask, AgentForgets, vars, rows, history, Over
  <2>2. \A p \in Product : Counts(p)' <=> Counts(p)
    BY <2>1 DEF Counts
  <2>3. Counted' = Counted
    BY <2>2, ProductSets, CountedNext
  <2>4. Full => Full'
    BY <2>1, <2>2, FullStays
  <2>5. ASSUME NEW c \in Call PROVE QuotaAt(c)'
    <3>1. QuotaAt(c) /\ Upserting(c)' = Upserting(c)
      BY <1>0, <2>1 DEF QuotaKept, Upserting
    <3> QED BY <2>1, <2>3, <2>4, <3>1 DEF QuotaAt
  <2> QED BY <2>5 DEF QuotaKept
<1> QED BY <1>0, <1>1, <1>2, <1>3, QuotaPrepare, QuotaStarts DEF Next

\* What is counted without the items an operator retried is within the quota.
LEMMA QuotaWithin ==
  ASSUME TypeOK, NEW c \in Call, QuotaAt(c)
  PROVE  Cardinality(Counted \ userRetried) <= TopN
<1> DEFINE now == (Counted \ userRetried) \cup Upserting(c)
           part == Counted \ userRetried
<1>1. Url = Product \cup {Listing}
  BY DEF Url
<1>2. IsFiniteSet(Url)
  BY <1>1, ProductSets, FS_AddElement
<1>3. Upserting(c) \subseteq Url
  BY DEF Upserting, TypeOK, ControlOK, LoadedSlots, Slots
<1>4. now \in SUBSET Url /\ part \in SUBSET now
  BY <1>1, <1>3, ProductSets
<1>5. IsFiniteSet(now) /\ IsFiniteSet(part)
  BY <1>2, <1>4, FS_Subset
<1>6. Cardinality(now) \in Nat /\ Cardinality(part) \in Nat /\ Cardinality(part) <= Cardinality(now)
  BY <1>4, <1>5, FS_Subset, FS_CardinalityType
<1>7. Cardinality(now) <= TopN
  BY DEF QuotaAt
<1> HIDE DEF now, part
<1>8. Cardinality(part) <= TopN
  BY <1>6, <1>7, ProductSets
<1> QED BY <1>8 DEF part

\* TOP N of a category task is a quota met exactly as far as the category page has products:
\* never exceeded but by items an operator retried, and used up when the task is finished.
THEOREM QuotaMet == Serial /\ MaxRestarts = 0 => (Spec => []QuotaHolds)
<1> SUFFICES ASSUME Serial, MaxRestarts = 0 PROVE Spec => []QuotaHolds
  OBVIOUS
<1>1. Init /\ TypeOK => QuotaKept
  <2> SUFFICES ASSUME Init, TypeOK, NEW c \in Call PROVE QuotaAt(c)
    BY DEF QuotaKept
  <2>1. call[c].pc = "idle" /\ Full
    BY DEF Init, Idle, Full
  <2>2. Counted = {} /\ Upserting(c) = {}
    BY <2>1 DEF Init, Counted, ProductsIn, Open, Url, Upserting, UpsertSteps
  <2>3. Cardinality((Counted \ userRetried) \cup Upserting(c)) <= TopN
    <3>1. (Counted \ userRetried) \cup Upserting(c) = {}
      BY <2>2
    <3> QED BY <3>1, FS_EmptySet, ProductSets
  <2> QED BY <2>1, <2>3 DEF QuotaAt
<1>2. TypeOK /\ QuotaKept => QuotaHolds
  <2> SUFFICES ASSUME TypeOK, QuotaKept, mode = "CATEGORY_TOP"
               PROVE  /\ Cardinality(Counted \ userRetried) <= TopN
                      /\ Quiet /\ taskStatus \in {"SUCCESS", "PARTIAL_FAILED", "FAILED"} => Full
    BY DEF QuotaHolds, NeverAboveQuota, FinishedUsedPool, Counted, Full
  <2>1. PICK c \in Call : QuotaAt(c)
    BY DEF QuotaKept, Serial
  <2>2. Cardinality(Counted \ userRetried) <= TopN
    BY <2>1, QuotaWithin
  <2>3. ASSUME Quiet, taskStatus \in {"SUCCESS", "PARTIAL_FAILED", "FAILED"} PROVE Full
    BY <2>1, <2>3 DEF Quiet, IsIdle, QuotaAt, FillSteps, Over
  <2> QED BY <2>2, <2>3
<1>3. TypeOK /\ TypeOK' /\ SerialKept /\ QuotaKept /\ [Next]_vars => QuotaKept'
  BY QuotaStep
<1>4. Spec => [](TypeOK /\ SerialKept)
  BY SerialInvariant
<1> QED BY <1>1, <1>2, <1>3, <1>4, PTL DEF Spec

=============================================================================
