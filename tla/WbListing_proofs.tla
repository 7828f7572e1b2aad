-------------------------- MODULE WbListing_proofs --------------------------
(***************************************************************************)
(* Proofs about WbListing, for any shops, handlers and number of attempts. *)
(***************************************************************************)
EXTENDS WbListing, TLAPS

JobSteps == {"jobMark", "jobUpload", "jobCheck", "jobCleanup", "jobList", "jobFail", "jobEnd"}
SyncSteps == {"syncRead", "syncWrite"}

\* A handler at work is about a shop, and makes a job's steps for a job.
SortedSlot(v) ==
  /\ v.pc \notin {"idle", "removeWrite"} => v.shop \in Shop
  /\ v.pc \in JobSteps => v.kind = "job"
  /\ v.kind = "job" => v.pc \in JobSteps \cup SyncSteps
Sorted == \A c \in Call : SortedSlot(call[c])

OnJob(c, s) == call[c].kind = "job" /\ call[c].shop = s

\* A job is active while one handler makes an attempt of it.
OneHandler ==
  /\ \A s \in Shop : job[s] = "active" <=> \E c \in Call : OnJob(c, s)
  /\ \A c, d \in Call : \A s \in Shop : OnJob(c, s) /\ OnJob(d, s) => c = d

\* A removed product has no listing, and no listing no number; nobody is about to
\* write a removal as a summary.
Gone ==
  /\ product = "DELETED" => \A s \in Shop : row[s] = "ABSENT"
  /\ \A s \in Shop : row[s] = "ABSENT" => ~numbered[s]
  /\ \A c \in Call : At(c, "syncWrite") => call[c].product # "DELETED"

\* A job about to write over a row taken off the shelf was past its look at it.
Late ==
  \A c \in Call : (call[c].pc \in {"jobMark", "jobList"} /\ row[call[c].shop] = "UNLISTED")
                     => Open({"late"}, call[c].shop)

\* Who is about to write UNLISTED withdrew the card, if it was known.
Withdrew ==
  \A c \in Call : (At(c, "unlistWrite") /\ numbered[call[c].shop] /\ card[call[c].shop] = "live")
                     => Open({"blind"}, call[c].shop)

\* A known card for sale, off the shelf here: a job that made it is not through with it.
Unlisted ==
  \A s \in Shop : (row[s] = "UNLISTED" /\ numbered[s] /\ card[s] = "live") =>
    \/ Open({"late", "blind", "cleanup", "halfway"}, s)
    \/ HandlerAt(s, {"jobCheck", "jobCleanup", "jobFail"})

\* The card of a job about to list is for sale, or about to be taken off.
Sure(s) ==
  card[s] = "live" \/ HandlerAt(s, {"unlistWrite"}) \/ Open({"late", "blind", "again", "halfway", "unanswered"}, s)

\* A job past its upload has a card, or somebody is taking the listing off.
Uploaded ==
  \A c \in Call :
    /\ At(c, "jobCheck") => Sure(call[c].shop) \/ row[call[c].shop] \in {"UNLISTED", "ABSENT"}
    /\ At(c, "jobList") => Sure(call[c].shop) \/ row[call[c].shop] = "ABSENT"
    /\ At(c, "jobCleanup") => row[call[c].shop] \in {"UNLISTED", "ABSENT"} \/ Open({"again"}, call[c].shop)

\* A listed row has a card for sale, but for the gaps.
Listed == \A s \in Shop : row[s] = "LISTED" => Sure(s)

\* A row is QUEUED for a job that is, is about to be, or has just been taken up.
Queued ==
  \A s \in Shop : row[s] = "QUEUED" =>
    /\ \A c \in Call : OnJob(c, s) /\ ~At(c, "jobMark") => Open({"again", "closed"}, s)
    /\ restarts = 0 => \/ Open({"again", "closed"}, s) \/ job[s] = "queued"
                       \/ HandlerAt(s, {"enqueueAdd", "enqueueFail", "jobMark"})

\* Who changed a row and has yet to read the rows for the summary.
Owes(c) ==
  \/ call[c].pc \in {"enqueueAdd", "enqueueFail", "syncRead", "jobList", "jobFail"}
  \/ call[c].pc \in {"jobUpload", "jobCheck"} /\ row[call[c].shop] # "UNLISTED"

\* A summary and a shelf status that say what the rows do.
Agrees(status, shelf) ==
  /\ SummaryOf(status)
  /\ shelf = "ON_SHELF" <=> \E s \in Shop : row[s] = "LISTED"

\* With nobody to change it, the summary is right, or the one about to be written is.
Synced ==
  (restarts = 0 /\ ~clash /\ product # "DELETED" /\ \A c \in Call : ~Owes(c)) =>
     \/ Agrees(summary, product) /\ \A c \in Call : ~At(c, "syncWrite")
     \/ \E c \in Call : /\ At(c, "syncWrite") /\ \A d \in Call \ {c} : ~At(d, "syncWrite")
                        /\ Agrees(call[c].summary, call[c].product)

-----------------------------------------------------------------------------
(* Handler slots: how a step moves its handler.                            *)

\* c goes from one step to one of some others, or rests; the other handlers stay.
Moves(c, from, to) ==
  /\ At(c, from) /\ call' \in [Call -> Slots]
  /\ \A d \in Call : d # c => call'[d] = call[d]
  /\ call'[c].pc \in to
  /\ IF call'[c].pc = "idle" THEN call'[c] = Idle
     ELSE /\ call'[c].kind = call[c].kind /\ call'[c].shop \in Shop
          /\ call'[c].pc \notin {"enqueueRead", "unlistRead"} => call'[c].shop = call[c].shop

\* An idle handler begins a request or a job.
Begins(c, step, kind, shops) ==
  /\ IsIdle(c) /\ call' \in [Call -> Slots]
  /\ \A d \in Call : d # c => call'[d] = call[d]
  /\ call'[c].pc = step /\ call'[c].kind = kind /\ call'[c].shop \in shops

\* A handler at rest.
LEMMA IdleSlot == Idle \in Slots /\ Idle.pc = "idle" /\ Idle.kind = "none" /\ Idle.shop = Nowhere
BY DEF Idle, Slots, Steps, Products

\* A handler that is not idle has its shop in hand.
LEMMA HasShop ==
  ASSUME TypeOK, Sorted, NEW c \in Call, call[c].pc \notin {"idle", "removeWrite"}
  PROVE  call[c] \in Slots /\ call[c].shop \in Shop
BY DEF TypeOK, Sorted, SortedSlot

\* A handler that goes on with its shop.
LEMMA GotoMoves ==
  ASSUME TypeOK, Sorted, NEW c \in Call, NEW from \in Steps \ {"idle", "removeWrite"}, At(c, from),
         NEW slot \in Slots, Continue(c, slot), slot.pc # "idle",
         slot.kind = call[c].kind, slot.shop = call[c].shop
  PROVE  Moves(c, from, {slot.pc})
BY HasShop DEF Moves, Continue, At, TypeOK

\* A handler that is through.
LEMMA FinishMoves ==
  ASSUME TypeOK, NEW c \in Call, NEW from \in Steps, At(c, from), Finish(c)
  PROVE  Moves(c, from, {"idle"})
BY IdleSlot DEF Finish, Moves, Continue, TypeOK

\* A request that goes on to its next shop, if there is one.
LEMMA NextShopMoves ==
  ASSUME TypeOK, NEW c \in Call, NEW from \in Steps, At(c, from),
         NEW step \in {"enqueueRead", "unlistRead"}, NextShop(c, step)
  PROVE  Moves(c, from, {"idle", step})
<1>1. CASE call[c].todo = {}
  BY <1>1, IdleSlot DEF NextShop, Finish, Moves, Continue, TypeOK
<1>2. CASE call[c].todo # {}
  <2>1. PICK s \in call[c].todo :
          Continue(c, [call[c] EXCEPT !.pc = step, !.shop = s, !.todo = @ \ {s}])
    BY <1>2 DEF NextShop
  <2>2. call[c] \in Slots /\ s \in Shop
    BY DEF TypeOK, Slots
  <2> DEFINE slot == [call[c] EXCEPT !.pc = step, !.shop = s, !.todo = @ \ {s}]
  <2>3. slot \in Slots /\ slot.pc = step /\ slot.kind = call[c].kind /\ slot.shop = s
    BY <2>2 DEF Slots, Steps
  <2> HIDE DEF slot
  <2>4. call' = [call EXCEPT ![c] = slot]
    BY <2>1 DEF Continue, slot
  <2> QED BY <2>2, <2>3, <2>4 DEF Moves, TypeOK
<1> QED BY <1>1, <1>2

\* Changing one field of a slot, besides its step.
LEMMA SlotFields ==
  ASSUME NEW v \in Slots, NEW step \in Steps
  PROVE  /\ [v EXCEPT !.pc = step] \in Slots
         /\ [v EXCEPT !.pc = step, !.todo = {}] \in Slots
         /\ \A retry \in BOOLEAN : [v EXCEPT !.pc = step, !.retry = retry] \in Slots
         /\ \A status \in RowStatuses \cup {"NONE"}, shelf \in Products :
              [v EXCEPT !.pc = step, !.summary = status, !.product = shelf] \in Slots
BY DEF Slots

\* A step to one other step.
LEMMA StepMoves ==
  ASSUME TypeOK, Sorted, NEW c \in Call, NEW from \in Steps \ {"idle", "removeWrite"}, At(c, from),
         NEW step \in Steps \ {"idle"}, Goto(c, step)
  PROVE  Moves(c, from, {step})
<1> DEFINE slot == [call[c] EXCEPT !.pc = step]
<1>1. call[c] \in Slots
  BY DEF TypeOK
<1>2. slot \in Slots /\ slot.pc = step /\ slot.kind = call[c].kind /\ slot.shop = call[c].shop
  <2>1. PICK v \in Slots : v = call[c]
    BY <1>1
  <2>2. slot \in Slots
    BY <2>1, SlotFields
  <2>3. slot.pc = step /\ slot.kind = v.kind /\ slot.shop = v.shop
    BY <2>1 DEF Slots
  <2> QED BY <2>1, <2>2, <2>3
<1>3. Continue(c, slot)
  BY DEF Goto
<1> HIDE DEF slot
<1> QED BY <1>2, <1>3, GotoMoves

\* What follows the summary, by kind of handler.
LEMMA AfterSyncMoves ==
  ASSUME TypeOK, Sorted, NEW c \in Call, NEW from \in SyncSteps, At(c, from), AfterSync(c)
  PROVE  IF call[c].kind = "job" THEN Moves(c, from, {"jobEnd"})
         ELSE Moves(c, from, {"idle", "enqueueRead"}) \/ Moves(c, from, {"idle", "unlistRead"})
<1>1. from \in Steps \ {"idle", "removeWrite"} /\ "jobEnd" \in Steps \ {"idle"}
  BY DEF Steps, SyncSteps
<1>2. CASE call[c].kind = "job"
  BY <1>1, <1>2, StepMoves DEF AfterSync
<1>3. CASE call[c].kind = "shelf"
  BY <1>1, <1>3, NextShopMoves DEF AfterSync
<1>4. CASE call[c].kind \notin {"job", "shelf"}
  BY <1>1, <1>4, NextShopMoves DEF AfterSync
<1> QED BY <1>2, <1>3, <1>4

\* How a request and a job begin.
LEMMA RequestMoves ==
  ASSUME TypeOK, NEW c \in Call
  PROVE  /\ \A S \in SUBSET Shop : ShelfStart(c, S) => Begins(c, "enqueueRead", "shelf", Shop)
         /\ \A S \in SUBSET Shop : UnlistStart(c, S) => Begins(c, "unlistRead", "unlist", Shop)
         /\ RemoveStart(c) => Begins(c, "removeWrite", "remove", {Nowhere})
         /\ \A s \in Shop : JobStart(c, s) =>
              Begins(c, "jobMark", "job", {s}) \/ Begins(c, "jobEnd", "job", {s})
<1>1. \A S \in SUBSET Shop, s \in Shop :
        /\ [Idle EXCEPT !.pc = "enqueueRead", !.kind = "shelf", !.todo = S \ {s}, !.shop = s] \in Slots
        /\ [Idle EXCEPT !.pc = "unlistRead", !.kind = "unlist", !.todo = S \ {s}, !.shop = s] \in Slots
        /\ [Idle EXCEPT !.pc = "jobMark", !.kind = "job", !.shop = s] \in Slots
        /\ [Idle EXCEPT !.pc = "jobEnd", !.kind = "job", !.shop = s] \in Slots
  <2> TAKE S \in SUBSET Shop, s \in Shop
  <2>1. S \ {s} \in SUBSET Shop
    OBVIOUS
  <2> DEFINE rest == S \ {s}
  <2> HIDE DEF rest
  <2>2. rest \in SUBSET Shop
    BY <2>1 DEF rest
  <2>3. /\ [Idle EXCEPT !.pc = "enqueueRead", !.kind = "shelf", !.todo = rest, !.shop = s] \in Slots
        /\ [Idle EXCEPT !.pc = "unlistRead", !.kind = "unlist", !.todo = rest, !.shop = s] \in Slots
    BY <2>2 DEF Idle, Slots, Steps, Products
  <2>4. /\ [Idle EXCEPT !.pc = "jobMark", !.kind = "job", !.shop = s] \in Slots
        /\ [Idle EXCEPT !.pc = "jobEnd", !.kind = "job", !.shop = s] \in Slots
    BY DEF Idle, Slots, Steps, Products
  <2> QED BY <2>3, <2>4 DEF rest
<1>2. [Idle EXCEPT !.pc = "removeWrite", !.kind = "remove"] \in Slots
  BY DEF Idle, Slots, Steps, Products
<1>3. ASSUME NEW S \in SUBSET Shop, ShelfStart(c, S) PROVE Begins(c, "enqueueRead", "shelf", Shop)
  <2>1. PICK s \in S : Continue(c, [Idle EXCEPT !.pc = "enqueueRead", !.kind = "shelf", !.todo = S \ {s}, !.shop = s])
    BY <1>3 DEF ShelfStart
  <2> DEFINE slot == [Idle EXCEPT !.pc = "enqueueRead", !.kind = "shelf", !.todo = S \ {s}, !.shop = s]
  <2>2. slot \in Slots /\ slot.pc = "enqueueRead" /\ slot.kind = "shelf" /\ slot.shop \in Shop
    BY <1>1 DEF Idle
  <2>3. call' = [call EXCEPT ![c] = slot] /\ IsIdle(c)
    BY <1>3, <2>1 DEF Continue, ShelfStart
  <2> HIDE DEF slot
  <2> QED BY <2>2, <2>3 DEF Begins, TypeOK
<1>4. ASSUME NEW S \in SUBSET Shop, UnlistStart(c, S) PROVE Begins(c, "unlistRead", "unlist", Shop)
  <2>1. PICK s \in S : Continue(c, [Idle EXCEPT !.pc = "unlistRead", !.kind = "unlist", !.todo = S \ {s}, !.shop = s])
    BY <1>4 DEF UnlistStart
  <2> DEFINE slot == [Idle EXCEPT !.pc = "unlistRead", !.kind = "unlist", !.todo = S \ {s}, !.shop = s]
  <2>2. slot \in Slots /\ slot.pc = "unlistRead" /\ slot.kind = "unlist" /\ slot.shop \in Shop
    BY <1>1 DEF Idle
  <2>3. call' = [call EXCEPT ![c] = slot] /\ IsIdle(c)
    BY <1>4, <2>1 DEF Continue, UnlistStart
  <2> HIDE DEF slot
  <2> QED BY <2>2, <2>3 DEF Begins, TypeOK
<1>5. ASSUME RemoveStart(c) PROVE Begins(c, "removeWrite", "remove", {Nowhere})
  BY <1>2, <1>5 DEF RemoveStart, Begins, Continue, TypeOK, Idle
<1>6. ASSUME NEW s \in Shop, JobStart(c, s)
      PROVE  Begins(c, "jobMark", "job", {s}) \/ Begins(c, "jobEnd", "job", {s})
  BY <1>1, <1>6 DEF JobStart, Begins, Continue, TypeOK, Idle
<1> QED BY <1>3, <1>4, <1>5, <1>6

\* How a request goes on.
LEMMA HandlerMoves ==
  ASSUME TypeOK, Sorted, NEW c \in Call
  PROVE  /\ EnqueueRead(c) => Moves(c, "enqueueRead", {"idle", "enqueueWrite"})
         /\ EnqueueWrite(c) => Moves(c, "enqueueWrite", {"idle", "enqueueAdd"})
         /\ EnqueueAdd(c) => Moves(c, "enqueueAdd", {"syncRead"})
         /\ EnqueueRefused(c) => Moves(c, "enqueueAdd", {"enqueueFail"})
         /\ EnqueueFail(c) => Moves(c, "enqueueFail", {"syncRead"})
         /\ UnlistRead(c) => Moves(c, "unlistRead", {"idle", "unlistRead", "unlistCard", "unlistWrite"})
         /\ UnlistCard(c) => Moves(c, "unlistCard", {"idle", "unlistWrite"})
         /\ UnlistWrite(c) => Moves(c, "unlistWrite", {"idle", "syncRead"})
         /\ RemoveWrite(c) => Moves(c, "removeWrite", {"idle"})
<1> USE DEF Steps
<1>1. EnqueueRead(c) => Moves(c, "enqueueRead", {"idle", "enqueueWrite"})
  BY StepMoves, FinishMoves DEF EnqueueRead, Moves
<1>2. EnqueueWrite(c) => Moves(c, "enqueueWrite", {"idle", "enqueueAdd"})
  BY StepMoves, FinishMoves DEF EnqueueWrite, Moves
<1>3. EnqueueAdd(c) => Moves(c, "enqueueAdd", {"syncRead"})
  BY StepMoves DEF EnqueueAdd
<1>4. EnqueueRefused(c) => Moves(c, "enqueueAdd", {"enqueueFail"})
  BY StepMoves DEF EnqueueRefused
<1>5. ASSUME EnqueueFail(c) PROVE Moves(c, "enqueueFail", {"syncRead"})
  <2> DEFINE slot == [call[c] EXCEPT !.pc = "syncRead", !.todo = {}]
  <2>1. slot \in Slots /\ slot.pc = "syncRead" /\ slot.kind = call[c].kind /\ slot.shop = call[c].shop
    <3>1. call[c] \in Slots
      BY DEF TypeOK
    <3>2. slot \in Slots
      BY <3>1, SlotFields DEF Steps
    <3> QED BY <3>1, <3>2 DEF Slots
  <2>2. Continue(c, slot) /\ At(c, "enqueueFail")
    BY <1>5 DEF EnqueueFail
  <2> HIDE DEF slot
  <2> QED BY <2>1, <2>2, GotoMoves
<1>6. UnlistRead(c) => Moves(c, "unlistRead", {"idle", "unlistRead", "unlistCard", "unlistWrite"})
  BY StepMoves, NextShopMoves DEF UnlistRead, Moves
<1>7. UnlistCard(c) => Moves(c, "unlistCard", {"idle", "unlistWrite"})
  BY StepMoves, FinishMoves DEF UnlistCard, Moves
<1>8. UnlistWrite(c) => Moves(c, "unlistWrite", {"idle", "syncRead"})
  BY StepMoves, FinishMoves DEF UnlistWrite, Moves
<1>9. RemoveWrite(c) => Moves(c, "removeWrite", {"idle"})
  BY FinishMoves DEF RemoveWrite
<1> QED BY <1>1, <1>2, <1>3, <1>4, <1>5, <1>6, <1>7, <1>8, <1>9

\* Where the summary leaves a job, and a request.
AfterSyncSteps(c) == IF call[c].kind = "job" THEN {"jobEnd"} ELSE {"idle", "enqueueRead", "unlistRead"}

\* How a handler reads the rows and writes the summary.
LEMMA SyncMoves ==
  ASSUME TypeOK, Sorted, NEW c \in Call
  PROVE  /\ SyncRead(c) => \/ Moves(c, "syncRead", AfterSyncSteps(c)) /\ product = "DELETED"
                           \/ Moves(c, "syncRead", {"syncWrite"}) /\ product # "DELETED"
         /\ SyncWrite(c) => Moves(c, "syncWrite", AfterSyncSteps(c))
<1>1. ASSUME NEW from \in SyncSteps, At(c, from), AfterSync(c) PROVE Moves(c, from, AfterSyncSteps(c))
  BY <1>1, AfterSyncMoves DEF Moves, AfterSyncSteps
<1>2. ASSUME SyncRead(c), product # "DELETED" PROVE Moves(c, "syncRead", {"syncWrite"})
  <2>1. PICK status \in RowStatuses \cup {"NONE"} :
          Continue(c, [call[c] EXCEPT !.pc = "syncWrite", !.summary = status, !.product = ShelfOf(product)])
    BY <1>2 DEF SyncRead
  <2> DEFINE slot == [call[c] EXCEPT !.pc = "syncWrite", !.summary = status, !.product = ShelfOf(product)]
  <2>2. ShelfOf(product) \in Products
    BY DEF ShelfOf, TypeOK, Products
  <2>3. slot \in Slots /\ slot.pc = "syncWrite" /\ slot.kind = call[c].kind /\ slot.shop = call[c].shop
    <3>1. call[c] \in Slots
      BY DEF TypeOK
    <3>2. slot \in Slots
      BY <2>2, <3>1, SlotFields DEF Steps
    <3> QED BY <3>1, <3>2 DEF Slots
  <2>4. Continue(c, slot) /\ At(c, "syncRead") /\ "syncRead" \in Steps
    BY <1>2, <2>1 DEF SyncRead, Steps
  <2> HIDE DEF slot
  <2> QED BY <2>3, <2>4, GotoMoves
<1>3. ASSUME SyncWrite(c) PROVE Moves(c, "syncWrite", AfterSyncSteps(c))
  BY <1>1, <1>3, StepMoves, FinishMoves DEF SyncWrite, AfterSyncSteps, Moves, Steps, SyncSteps
<1>4. ASSUME SyncRead(c), product = "DELETED" PROVE Moves(c, "syncRead", AfterSyncSteps(c))
  BY <1>1, <1>4 DEF SyncRead, SyncSteps
<1> QED BY <1>2, <1>3, <1>4

\* How an attempt of a job goes on.
LEMMA JobMoves ==
  ASSUME TypeOK, Sorted, NEW c \in Call
  PROVE  /\ JobMark(c) => Moves(c, "jobMark", {"jobEnd", "jobUpload"})
         /\ JobUpload(c) => Moves(c, "jobUpload", {"jobCheck"})
         /\ \A retry \in BOOLEAN : JobUploadFails(c, retry) => Moves(c, "jobUpload", {"jobFail"})
         /\ JobCheck(c) => Moves(c, "jobCheck", {"jobCleanup", "jobList"})
         /\ JobCleanup(c) => Moves(c, "jobCleanup", {"jobEnd"})
         /\ JobList(c) => Moves(c, "jobList", {"jobFail", "syncRead"})
         /\ JobFail(c) => Moves(c, "jobFail", {"syncRead"})
         /\ JobEnd(c) => Moves(c, "jobEnd", {"idle"})
<1> USE DEF Steps
<1>1. ASSUME NEW from \in {"jobMark", "jobUpload"}, At(c, from), NEW step \in {"jobEnd", "jobFail"},
             NEW retry \in BOOLEAN, Continue(c, [call[c] EXCEPT !.pc = step, !.retry = retry])
      PROVE  Moves(c, from, {step})
  <2> DEFINE slot == [call[c] EXCEPT !.pc = step, !.retry = retry]
  <2>1. slot \in Slots /\ slot.pc = step /\ slot.kind = call[c].kind /\ slot.shop = call[c].shop
    <3>1. call[c] \in Slots
      BY DEF TypeOK
    <3>2. slot \in Slots
      BY <1>1, <3>1, SlotFields DEF Steps
    <3> QED BY <3>1, <3>2 DEF Slots
  <2>2. Continue(c, slot)
    BY <1>1
  <2> HIDE DEF slot
  <2> QED BY <1>1, <2>1, <2>2, GotoMoves
<1>2. JobMark(c) => Moves(c, "jobMark", {"jobEnd", "jobUpload"})
  BY <1>1, StepMoves DEF JobMark, Moves
<1>3. JobUpload(c) => Moves(c, "jobUpload", {"jobCheck"})
  BY StepMoves DEF JobUpload
<1>4. ASSUME NEW retry \in BOOLEAN, JobUploadFails(c, retry) PROVE Moves(c, "jobUpload", {"jobFail"})
  BY <1>1, <1>4 DEF JobUploadFails
<1>5. JobCheck(c) => Moves(c, "jobCheck", {"jobCleanup", "jobList"})
  BY StepMoves DEF JobCheck, Moves
<1>6. JobCleanup(c) => Moves(c, "jobCleanup", {"jobEnd"})
  BY StepMoves DEF JobCleanup
<1>7. JobList(c) => Moves(c, "jobList", {"jobFail", "syncRead"})
  BY StepMoves DEF JobList, Moves
<1>8. JobFail(c) => Moves(c, "jobFail", {"syncRead"})
  BY StepMoves DEF JobFail
<1>9. JobEnd(c) => Moves(c, "jobEnd", {"idle"})
  BY FinishMoves DEF JobEnd
<1> QED BY <1>2, <1>3, <1>4, <1>5, <1>6, <1>7, <1>8, <1>9

-----------------------------------------------------------------------------
(* Types.                                                                  *)

\* A handler that moves within what its request is about stays sorted.
LEMMA SortedMove ==
  ASSUME Sorted, NEW c \in Call, NEW from, NEW to, Moves(c, from, to),
         "removeWrite" \notin to,
         IF call[c].kind = "job" THEN to \subseteq JobSteps \cup SyncSteps \cup {"idle"} ELSE to \cap JobSteps = {}
  PROVE  Sorted'
<1>1. SortedSlot(Idle)
  BY IdleSlot DEF SortedSlot, JobSteps
<1>2. SortedSlot(call'[c])
  BY <1>1 DEF Moves, SortedSlot
<1> QED BY <1>2 DEF Sorted, Moves

\* Every step keeps types and slots.
LEMMA TypedStep == ASSUME TypeOK, Sorted, [Next]_vars PROVE TypeOK' /\ Sorted'
<1> USE DEF rows, jobs, history, notes
<1>1. ASSUME NEW c \in Call, NEW S \in SUBSET Shop, ShelfStart(c, S) \/ UnlistStart(c, S) \/ RemoveStart(c)
      PROVE  TypeOK' /\ Sorted'
  <2>1. Begins(c, "enqueueRead", "shelf", Shop) \/ Begins(c, "unlistRead", "unlist", Shop)
        \/ Begins(c, "removeWrite", "remove", {Nowhere})
    BY <1>1, RequestMoves
  <2>2. TypeOK'
    <3>1. CASE ShelfStart(c, S)
      BY <2>1, <3>1 DEF ShelfStart, Requested, Begins, TypeOK
    <3>2. CASE UnlistStart(c, S)
      BY <2>1, <3>2 DEF UnlistStart, Requested, Begins, TypeOK
    <3>3. CASE RemoveStart(c)
      BY <2>1, <3>3 DEF RemoveStart, Requested, Begins, TypeOK
    <3> QED BY <1>1, <3>1, <3>2, <3>3
  <2>3. Sorted'
    BY <2>1 DEF Begins, Sorted, SortedSlot, JobSteps, SyncSteps
  <2> QED BY <2>2, <2>3
<1>2. ASSUME NEW c \in Call, NEW s \in Shop, JobStart(c, s) PROVE TypeOK' /\ Sorted'
  <2>1. Begins(c, "jobMark", "job", {s}) \/ Begins(c, "jobEnd", "job", {s})
    BY <1>2, RequestMoves
  <2>2. TypeOK'
    BY <1>2, <2>1 DEF JobStart, Opens, Begins, TypeOK, Gaps
  <2>3. Sorted'
    BY <2>1 DEF Begins, Sorted, SortedSlot, JobSteps
  <2> QED BY <2>2, <2>3
<1>3. ASSUME NEW c \in Call, EnqueueRead(c) \/ EnqueueWrite(c) \/ EnqueueAdd(c) \/ EnqueueRefused(c) \/ EnqueueFail(c)
      PROVE  TypeOK' /\ Sorted'
  <2>1. PICK from, to : Moves(c, from, to) /\ from \notin JobSteps \cup SyncSteps \cup {"idle", "removeWrite"}
          /\ to \in {{"idle", "enqueueWrite"}, {"idle", "enqueueAdd"}, {"syncRead"}, {"enqueueFail"}}
    BY <1>3, HandlerMoves DEF JobSteps, SyncSteps
  <2>2. call[c].shop \in Shop /\ call[c].kind # "job"
    BY <2>1 DEF Moves, At, Sorted, SortedSlot
  <2>3. TypeOK'
    BY <1>3, <2>1, <2>2 DEF EnqueueRead, EnqueueWrite, EnqueueAdd, EnqueueRefused, EnqueueFail,
       Opens, SetRow, Moves, TypeOK, Gaps, RowStatuses
  <2>4. Sorted'
    BY <2>1, <2>2, SortedMove DEF JobSteps
  <2> QED BY <2>3, <2>4
<1>4. ASSUME NEW c \in Call, UnlistRead(c) \/ UnlistCard(c) \/ UnlistWrite(c) \/ RemoveWrite(c)
      PROVE  TypeOK' /\ Sorted'
  <2>1. PICK from, to : Moves(c, from, to) /\ from \notin JobSteps \cup SyncSteps \cup {"idle"}
          /\ to \in {{"idle", "unlistRead", "unlistCard", "unlistWrite"}, {"idle", "unlistWrite"}, {"idle", "syncRead"}, {"idle"}}
    BY <1>4, HandlerMoves DEF JobSteps, SyncSteps
  <2>2. call[c].kind # "job" /\ (UnlistWrite(c) \/ UnlistCard(c) => call[c].shop \in Shop)
    BY <2>1 DEF Moves, UnlistWrite, UnlistCard, At, Sorted, SortedSlot
  <2>3. TypeOK'
    <3>1. CASE UnlistRead(c)
      BY <2>1, <2>2, <3>1 DEF UnlistRead, Moves, TypeOK
    <3>2. CASE UnlistCard(c)
      BY <2>1, <2>2, <3>2 DEF UnlistCard, Withdraw, Opens, Gaps, Moves, TypeOK
    <3>3. CASE UnlistWrite(c)
      BY <2>1, <2>2, <3>3 DEF UnlistWrite, Opens, SetRow, Gaps, RowStatuses, Moves, TypeOK
    <3>4. CASE RemoveWrite(c)
      BY <2>1, <2>2, <3>4 DEF RemoveWrite, Gaps, Products, Moves, TypeOK
    <3> QED BY <1>4, <3>1, <3>2, <3>3, <3>4
  <2>4. Sorted'
    BY <2>1, <2>2, SortedMove DEF JobSteps
  <2> QED BY <2>3, <2>4
<1>5. ASSUME NEW c \in Call, SyncRead(c) \/ SyncWrite(c) PROVE TypeOK' /\ Sorted'
  <2>1. PICK from, to : Moves(c, from, to) /\ to \in {AfterSyncSteps(c), {"syncWrite"}}
    BY <1>5, SyncMoves
  <2>2. TypeOK'
    <3>1. call[c].product \in Products /\ call[c].summary \in RowStatuses \cup {"NONE"}
      BY DEF TypeOK, Slots
    <3>2. product' \in Products /\ summary' \in RowStatuses \cup {"NONE"} /\ clash' \in BOOLEAN
      BY <1>5, <3>1 DEF SyncRead, SyncWrite, TypeOK
    <3> QED BY <1>5, <2>1, <3>2 DEF SyncRead, SyncWrite, Moves, TypeOK
  <2>3. Sorted'
    <3>1. "removeWrite" \notin to /\ IF call[c].kind = "job" THEN to \subseteq JobSteps \cup SyncSteps \cup {"idle"}
                                   ELSE to \cap JobSteps = {}
      BY <2>1 DEF AfterSyncSteps, JobSteps, SyncSteps
    <3> QED BY <2>1, <3>1, SortedMove
  <2> QED BY <2>2, <2>3
<1>6. ASSUME NEW c \in Call, NEW retry \in BOOLEAN,
             JobMark(c) \/ JobUpload(c) \/ JobUploadFails(c, retry) \/ JobCheck(c) \/ JobCleanup(c)
               \/ JobList(c) \/ JobFail(c) \/ JobEnd(c)
      PROVE  TypeOK' /\ Sorted'
  <2>1. PICK from, to : Moves(c, from, to) /\ from \in JobSteps
          /\ to \subseteq JobSteps \cup SyncSteps \cup {"idle"}
    BY <1>6, JobMoves DEF JobSteps, SyncSteps
  <2>2. call[c].shop \in Shop /\ call[c].kind = "job"
    BY <2>1 DEF Moves, At, Sorted, SortedSlot, JobSteps
  <2>3. TypeOK'
    <3>1. CASE JobMark(c)
      BY <2>1, <2>2, <3>1 DEF JobMark, SetRow, RowStatuses, Moves, TypeOK
    <3>2. CASE JobUpload(c) \/ JobUploadFails(c, retry)
      BY <2>1, <2>2, <3>2 DEF JobUpload, JobUploadFails, Opens, Gaps, Moves, TypeOK
    <3>3. CASE JobCheck(c) \/ JobEnd(c)
      BY <2>1, <2>2, <3>3 DEF JobCheck, JobEnd, Moves, TypeOK
    <3>4. CASE JobCleanup(c)
      BY <2>1, <2>2, <3>4 DEF JobCleanup, Withdraw, Opens, Gaps, Moves, TypeOK
    <3>5. CASE JobList(c)
      <4>1. numbered' \in [Shop -> BOOLEAN]
        BY <2>2, <3>5 DEF JobList, TypeOK
      <4>2. row' \in [Shop -> RowStatuses \cup {"ABSENT"}]
        BY <2>2, <3>5 DEF JobList, TypeOK, SetRow, RowStatuses
      <4>3. gap' \in SUBSET (Gaps \X Shop)
        BY <2>2, <3>5 DEF JobList, TypeOK, Opens, Gaps
      <4> QED BY <2>1, <3>5, <4>1, <4>2, <4>3 DEF JobList, Moves, TypeOK
    <3>6. CASE JobFail(c)
      BY <2>1, <2>2, <3>6 DEF JobFail, Opens, Gaps, RowStatuses, Moves, TypeOK
    <3> QED BY <1>6, <3>1, <3>2, <3>3, <3>4, <3>5, <3>6
  <2>4. Sorted'
    BY <2>1, <2>2, SortedMove DEF JobSteps, SyncSteps
  <2> QED BY <2>3, <2>4
<1>7. ASSUME NEW s \in Shop, ChangeStatus(s) PROVE TypeOK' /\ Sorted'
  BY <1>7 DEF ChangeStatus, Requested, TypeOK, Sorted
<1>8. CASE Restart
  <2>1. TypeOK'
    BY <1>8, IdleSlot DEF Restart, TypeOK, Gaps
  <2>2. Sorted'
    BY <1>8, IdleSlot DEF Restart, Sorted, SortedSlot, JobSteps
  <2> QED BY <2>1, <2>2
<1>9. CASE UNCHANGED vars
  BY <1>9 DEF vars, TypeOK, Sorted
<1> QED BY <1>1, <1>2, <1>3, <1>4, <1>5, <1>6, <1>7, <1>8, <1>9 DEF Next, RequestNext, HandlerNext, JobNext

-----------------------------------------------------------------------------
(* The invariants, one by one.                                             *)

\* A step that is not the last of an attempt leaves handlers and jobs together.
LEMMA SameJobs ==
  ASSUME Sorted, NEW c \in Call, NEW from, NEW to, Moves(c, from, to),
         call[c].kind = "job" => to \subseteq JobSteps \cup SyncSteps
  PROVE  \A d \in Call : \A s \in Shop : OnJob(d, s)' <=> OnJob(d, s)
<1> SUFFICES ASSUME NEW d \in Call, NEW s \in Shop PROVE OnJob(d, s)' <=> OnJob(d, s)
  OBVIOUS
<1>1. CASE d # c
  BY <1>1 DEF Moves, OnJob
<1>2. CASE d = c
  <2>1. CASE call[c].kind = "job"
    <3>1. call'[c].pc \notin {"idle", "enqueueRead", "unlistRead"}
      BY <2>1 DEF Moves, JobSteps, SyncSteps
    <3> QED BY <1>2, <2>1, <3>1 DEF Moves, OnJob
  <2>2. CASE call[c].kind # "job"
    BY <1>2, <2>2, IdleSlot DEF Moves, OnJob
  <2> QED BY <2>1, <2>2
<1> QED BY <1>1, <1>2

\* A request, while it goes on, is about no job.
LEMMA NoJob ==
  ASSUME Sorted, NEW c \in Call, call[c].pc \notin JobSteps \cup SyncSteps
  PROVE  call[c].kind # "job"
BY DEF Sorted, SortedSlot

\* A job is worked at by one handler as long as it is active.
LEMMA OneHandlerStep == ASSUME TypeOK, Sorted, OneHandler, [Next]_vars PROVE OneHandler'
<1> USE DEF rows, jobs, history, notes
<1>1. ASSUME NEW c \in Call, NEW S \in SUBSET Shop, ShelfStart(c, S) \/ UnlistStart(c, S) \/ RemoveStart(c)
      PROVE  OneHandler'
  <2>1. Begins(c, "enqueueRead", "shelf", Shop) \/ Begins(c, "unlistRead", "unlist", Shop)
        \/ Begins(c, "removeWrite", "remove", {Nowhere})
    BY <1>1, RequestMoves
  <2>2. \A d \in Call : \A s \in Shop : OnJob(d, s)' <=> OnJob(d, s)
    BY <2>1, NoJob DEF Begins, OnJob, IsIdle, JobSteps, SyncSteps
  <2>3. job' = job
    BY <1>1 DEF ShelfStart, UnlistStart, RemoveStart
  <2> QED BY <2>2, <2>3 DEF OneHandler
<1>2. ASSUME NEW c \in Call, NEW s \in Shop, JobStart(c, s) PROVE OneHandler'
  <2>1. Begins(c, "jobMark", "job", {s}) \/ Begins(c, "jobEnd", "job", {s})
    BY <1>2, RequestMoves
  <2>2. \A d \in Call : \A t \in Shop : OnJob(d, t)' <=> (IF d = c THEN s = t ELSE OnJob(d, t))
    BY <2>1 DEF Begins, OnJob
  <2>3. \A d \in Call : ~OnJob(d, s)
    BY <1>2 DEF JobStart, OneHandler
  <2>4. \A t \in Shop : ~OnJob(c, t)
    BY <2>1, NoJob DEF Begins, IsIdle, OnJob, JobSteps, SyncSteps
  <2>5. \A t \in Shop : job'[t] = IF t = s THEN "active" ELSE job[t]
    BY <1>2 DEF JobStart, TypeOK
  <2> QED BY <2>2, <2>3, <2>4, <2>5 DEF OneHandler
<1>3. ASSUME NEW c \in Call, EnqueueRead(c) \/ EnqueueWrite(c) \/ EnqueueAdd(c) \/ EnqueueRefused(c) \/ EnqueueFail(c)
                              \/ UnlistRead(c) \/ UnlistCard(c) \/ UnlistWrite(c) \/ RemoveWrite(c)
      PROVE  OneHandler'
  <2>1. PICK from, to : Moves(c, from, to) /\ from \notin JobSteps \cup SyncSteps
    BY <1>3, HandlerMoves DEF JobSteps, SyncSteps
  <2>2. \A d \in Call : \A s \in Shop : OnJob(d, s)' <=> OnJob(d, s)
    BY <2>1, NoJob, SameJobs DEF Moves, At
  <2>3. \A s \in Shop : job'[s] = job[s] \/ (job[s] = "none" /\ job'[s] = "queued")
    BY <1>3 DEF EnqueueRead, EnqueueWrite, EnqueueAdd, EnqueueRefused, EnqueueFail, UnlistRead, UnlistCard, UnlistWrite,
       RemoveWrite, TypeOK
  <2> QED BY <2>2, <2>3 DEF OneHandler
<1>4. ASSUME NEW c \in Call, NEW retry \in BOOLEAN,
             SyncRead(c) \/ SyncWrite(c) \/ JobMark(c) \/ JobUpload(c) \/ JobUploadFails(c, retry) \/ JobCheck(c)
               \/ JobCleanup(c) \/ JobList(c) \/ JobFail(c)
      PROVE  OneHandler'
  <2>1. PICK from, to : Moves(c, from, to) /\ (call[c].kind = "job" => to \subseteq JobSteps \cup SyncSteps)
    BY <1>4, SyncMoves, JobMoves DEF AfterSyncSteps, JobSteps, SyncSteps
  <2>2. \A d \in Call : \A s \in Shop : OnJob(d, s)' <=> OnJob(d, s)
    BY <2>1, SameJobs
  <2>3. job' = job
    BY <1>4 DEF SyncRead, SyncWrite, JobMark, JobUpload, JobUploadFails, JobCheck, JobCleanup, JobList, JobFail
  <2> QED BY <2>2, <2>3 DEF OneHandler
<1>5. ASSUME NEW c \in Call, JobEnd(c) PROVE OneHandler'
  <2>1. Moves(c, "jobEnd", {"idle"})
    BY <1>5, JobMoves
  <2>2. OnJob(c, call[c].shop) /\ call[c].shop \in Shop
    BY <2>1 DEF Moves, At, Sorted, SortedSlot, JobSteps, OnJob
  <2>3. \A d \in Call : \A s \in Shop : OnJob(d, s)' <=> d # c /\ OnJob(d, s)
    BY <2>1, IdleSlot DEF Moves, OnJob
  <2>4. \A s \in Shop : IF s = call[c].shop THEN job'[s] # "active" ELSE job'[s] = job[s]
    BY <1>5 DEF JobEnd, TypeOK
  <2>5. \A s \in Shop : s # call[c].shop => ~OnJob(c, s)
    BY DEF OnJob
  <2> QED BY <2>2, <2>3, <2>4, <2>5 DEF OneHandler
<1>6. CASE Restart
  <2>1. \A s \in Shop : job'[s] # "active"
    BY <1>6 DEF Restart
  <2>2. \A d \in Call : \A s \in Shop : ~OnJob(d, s)'
    BY <1>6, IdleSlot DEF Restart, OnJob
  <2> QED BY <2>1, <2>2 DEF OneHandler
<1>7. CASE UNCHANGED vars \/ \E s \in Shop : ChangeStatus(s)
  BY <1>7 DEF vars, ChangeStatus, OneHandler, OnJob
<1> QED BY <1>1, <1>2, <1>3, <1>4, <1>5, <1>6, <1>7 DEF Next, RequestNext, HandlerNext, JobNext

\* Removal takes every listing along, and nothing makes one afterwards.
LEMMA GoneStep == ASSUME TypeOK, Sorted, Gone, [Next]_vars PROVE Gone'
<1> USE DEF rows, jobs, history, notes
<1>1. ASSUME NEW c \in Call, NEW S \in SUBSET Shop,
             ShelfStart(c, S) \/ UnlistStart(c, S) \/ RemoveStart(c) \/ \E s \in Shop : JobStart(c, s)
      PROVE  Gone'
  <2>1. \E step \in Steps \ {"syncWrite"} : \E kind, shops : Begins(c, step, kind, shops)
    BY <1>1, RequestMoves DEF Steps
  <2>2. product' = product /\ row' = row /\ numbered' = numbered
    BY <1>1 DEF ShelfStart, UnlistStart, RemoveStart, JobStart
  <2> QED BY <2>1, <2>2 DEF Begins, Gone, At
<1>2. ASSUME NEW c \in Call, EnqueueRead(c) \/ EnqueueWrite(c) \/ EnqueueAdd(c) \/ EnqueueRefused(c) \/ EnqueueFail(c)
                              \/ UnlistRead(c) \/ UnlistCard(c) \/ UnlistWrite(c) \/ RemoveWrite(c)
      PROVE  Gone'
  <2>1. PICK from, to : Moves(c, from, to) /\ "syncWrite" \notin to
    BY <1>2, HandlerMoves
  <2>2. \A d \in Call : At(d, "syncWrite")' => At(d, "syncWrite") /\ call'[d] = call[d]
    BY <2>1 DEF Moves, At
  <2>3. CASE EnqueueRead(c) \/ EnqueueAdd(c) \/ EnqueueRefused(c) \/ UnlistRead(c) \/ UnlistCard(c)
    BY <2>2, <2>3 DEF EnqueueRead, EnqueueAdd, EnqueueRefused, UnlistRead, UnlistCard, Gone
  <2>4. CASE EnqueueWrite(c) \/ EnqueueFail(c) \/ UnlistWrite(c)
    BY <2>2, <2>4 DEF EnqueueWrite, EnqueueFail, UnlistWrite, SetRow, TypeOK, Gone
  <2>5. CASE RemoveWrite(c)
    BY <2>2, <2>5 DEF RemoveWrite, Gone
  <2> QED BY <1>2, <2>3, <2>4, <2>5
<1>3. ASSUME NEW c \in Call, NEW retry \in BOOLEAN,
             JobMark(c) \/ JobUpload(c) \/ JobUploadFails(c, retry) \/ JobCheck(c) \/ JobCleanup(c)
               \/ JobList(c) \/ JobFail(c) \/ JobEnd(c)
      PROVE  Gone'
  <2>1. PICK from, to : Moves(c, from, to) /\ "syncWrite" \notin to
    BY <1>3, JobMoves
  <2>2. \A d \in Call : At(d, "syncWrite")' => At(d, "syncWrite") /\ call'[d] = call[d]
    BY <2>1 DEF Moves, At
  <2>3. CASE JobUpload(c) \/ JobUploadFails(c, retry) \/ JobCheck(c) \/ JobCleanup(c) \/ JobEnd(c)
    BY <2>2, <2>3 DEF JobUpload, JobUploadFails, JobCheck, JobCleanup, JobEnd, Gone
  <2>4. CASE JobMark(c) \/ JobFail(c)
    BY <2>2, <2>4 DEF JobMark, JobFail, SetRow, TypeOK, Gone
  <2>5. CASE JobList(c)
    <3>1. \A s \in Shop : IF row[call[c].shop] # "ABSENT" /\ s = call[c].shop THEN row'[s] = "LISTED" ELSE row'[s] = row[s] /\ numbered'[s] = numbered[s]
      BY <2>5 DEF JobList, SetRow, TypeOK
    <3> QED BY <2>2, <2>5, <3>1 DEF JobList, Gone
  <2> QED BY <1>3, <2>3, <2>4, <2>5
<1>4. ASSUME NEW c \in Call, SyncRead(c) PROVE Gone'
  <2>1. CASE product = "DELETED"
    <3>1. Moves(c, "syncRead", AfterSyncSteps(c))
      BY <1>4, <2>1, SyncMoves
    <3>2. \A d \in Call : At(d, "syncWrite")' => At(d, "syncWrite") /\ call'[d] = call[d]
      BY <3>1 DEF Moves, At, AfterSyncSteps
    <3> QED BY <1>4, <3>2 DEF SyncRead, Gone
  <2>2. CASE product # "DELETED"
    <3>1. PICK status \in RowStatuses \cup {"NONE"} :
            Continue(c, [call[c] EXCEPT !.pc = "syncWrite", !.summary = status, !.product = ShelfOf(product)])
      BY <1>4, <2>2 DEF SyncRead
    <3>2. call'[c].product # "DELETED" /\ \A d \in Call : d # c => call'[d] = call[d]
      BY <2>2, <3>1 DEF Continue, TypeOK, Slots, ShelfOf
    <3> QED BY <1>4, <3>2 DEF SyncRead, Gone, At
  <2> QED BY <2>1, <2>2
<1>5. ASSUME NEW c \in Call, SyncWrite(c) PROVE Gone'
  <2>1. Moves(c, "syncWrite", AfterSyncSteps(c))
    BY <1>5, SyncMoves
  <2>2. \A d \in Call : At(d, "syncWrite")' => At(d, "syncWrite") /\ call'[d] = call[d]
    BY <2>1 DEF Moves, At, AfterSyncSteps
  <2> QED BY <1>5, <2>2 DEF SyncWrite, Gone
<1>6. CASE Restart
  BY <1>6, IdleSlot DEF Restart, Gone, At
<1>7. CASE UNCHANGED vars \/ \E s \in Shop : ChangeStatus(s)
  BY <1>7 DEF vars, ChangeStatus, Gone, At
<1> QED BY <1>1, <1>2, <1>3, <1>4, <1>5, <1>6, <1>7 DEF Next, RequestNext, HandlerNext, JobNext

\* The history only grows.
LEMMA GapsGrow ==
  ASSUME TypeOK, [Next]_vars
  PROVE  gap \subseteq gap' /\ \A kinds : \A s \in Shop : Open(kinds, s) => Open(kinds, s)'
<1>1. gap \subseteq gap'
  <2> USE DEF rows, jobs, history, notes, Opens
  <2>1. ASSUME NEW c \in Call, RequestNext(c) PROVE gap \subseteq gap'
    BY <2>1 DEF RequestNext, ShelfStart, UnlistStart, RemoveStart
  <2>2. ASSUME NEW c \in Call, HandlerNext(c) PROVE gap \subseteq gap'
    <3>1. CASE EnqueueRead(c) \/ EnqueueWrite(c) \/ EnqueueAdd(c) \/ EnqueueRefused(c) \/ EnqueueFail(c)
      BY <3>1 DEF EnqueueRead, EnqueueWrite, EnqueueAdd, EnqueueRefused, EnqueueFail
    <3>2. CASE UnlistRead(c) \/ UnlistCard(c) \/ UnlistWrite(c) \/ RemoveWrite(c)
      BY <3>2 DEF UnlistRead, UnlistCard, UnlistWrite, RemoveWrite
    <3>3. CASE SyncRead(c) \/ SyncWrite(c)
      BY <3>3 DEF SyncRead, SyncWrite
    <3> QED BY <2>2, <3>1, <3>2, <3>3 DEF HandlerNext
  <2>3. ASSUME NEW c \in Call, JobNext(c) PROVE gap \subseteq gap'
    <3>1. CASE \E s \in Shop : JobStart(c, s)
      BY <3>1 DEF JobStart
    <3>2. CASE JobMark(c) \/ JobUpload(c) \/ \E retry \in BOOLEAN : JobUploadFails(c, retry)
      BY <3>2 DEF JobMark, JobUpload, JobUploadFails
    <3>3. CASE JobCheck(c) \/ JobCleanup(c) \/ JobList(c) \/ JobFail(c) \/ JobEnd(c)
      BY <3>3 DEF JobCheck, JobCleanup, JobList, JobFail, JobEnd
    <3> QED BY <2>3, <3>1, <3>2, <3>3 DEF JobNext
  <2>4. CASE Restart \/ UNCHANGED vars \/ \E s \in Shop : ChangeStatus(s)
    BY <2>4 DEF Restart, ChangeStatus, vars
  <2> QED BY <2>1, <2>2, <2>3, <2>4 DEF Next
<1> QED BY <1>1 DEF Open

\* A handler's step is about its own shop.
LEMMA OwnShop ==
  ASSUME TypeOK, NEW c \in Call, HandlerNext(c) \/ JobNext(c), ~RemoveWrite(c), ~IsIdle(c),
         NEW s \in Shop, s # call[c].shop
  PROVE  row'[s] = row[s] /\ numbered'[s] = numbered[s] /\ card'[s] = card[s]
<1> USE DEF rows, jobs, history, notes
<1>1. CASE HandlerNext(c)
  <2>1. CASE EnqueueRead(c) \/ EnqueueWrite(c) \/ EnqueueAdd(c) \/ EnqueueRefused(c) \/ EnqueueFail(c)
    BY <2>1 DEF EnqueueRead, EnqueueWrite, EnqueueAdd, EnqueueRefused, EnqueueFail, SetRow, TypeOK
  <2>2. CASE UnlistRead(c) \/ UnlistCard(c) \/ UnlistWrite(c)
    BY <2>2 DEF UnlistRead, UnlistCard, UnlistWrite, SetRow, Withdraw, TypeOK
  <2>3. CASE SyncRead(c) \/ SyncWrite(c)
    BY <2>3 DEF SyncRead, SyncWrite
  <2> QED BY <1>1, <2>1, <2>2, <2>3 DEF HandlerNext
<1>2. CASE JobNext(c)
  <2>1. ~\E t \in Shop : JobStart(c, t)
    BY DEF JobStart
  <2>2. CASE JobMark(c) \/ JobUpload(c) \/ \E retry \in BOOLEAN : JobUploadFails(c, retry)
    BY <2>2 DEF JobMark, JobUpload, JobUploadFails, SetRow, TypeOK
  <2>3. CASE JobCheck(c) \/ JobCleanup(c) \/ JobFail(c) \/ JobEnd(c)
    BY <2>3 DEF JobCheck, JobCleanup, JobFail, JobEnd, Withdraw, TypeOK
  <2>4. CASE JobList(c)
    <3>1. row'[s] = row[s] /\ card' = card
      BY <2>4 DEF JobList, SetRow, TypeOK
    <3>2. numbered'[s] = numbered[s]
      BY <2>4 DEF JobList, TypeOK
    <3> QED BY <3>1, <3>2
  <2> QED BY <1>2, <2>1, <2>2, <2>3, <2>4 DEF JobNext
<1> QED BY <1>1, <1>2

\* Which handlers are at the later steps of a shop other than that of the handler that
\* moves stays the same; of its own shop, the others stay where they are.
LEMMA OthersStay ==
  ASSUME NEW c \in Call, NEW from, NEW to, Moves(c, from, to),
         NEW steps, steps \cap {"idle", "enqueueRead", "unlistRead"} = {}
  PROVE  /\ \A s \in Shop : s # call[c].shop => (HandlerAt(s, steps)' <=> HandlerAt(s, steps))
         /\ \A s \in Shop : HandlerAt(s, steps) => HandlerAt(s, steps)' \/ (from \in steps /\ s = call[c].shop)
         /\ to \subseteq steps => HandlerAt(call[c].shop, steps)'
<1>1. call'[c].pc \in steps => call'[c].shop = call[c].shop
  BY DEF Moves
<1>2. ASSUME NEW s \in Shop, s # call[c].shop PROVE HandlerAt(s, steps)' <=> HandlerAt(s, steps)
  BY <1>1, <1>2 DEF Moves, HandlerAt
<1>3. ASSUME NEW s \in Shop, HandlerAt(s, steps) PROVE HandlerAt(s, steps)' \/ (from \in steps /\ s = call[c].shop)
  BY <1>3 DEF Moves, HandlerAt, At
<1>4. to \subseteq steps => HandlerAt(call[c].shop, steps)'
  BY <1>1 DEF Moves, HandlerAt
<1> QED BY <1>2, <1>3, <1>4

\* Rows: a step other than unlistWrite makes none UNLISTED.
LEMMA UnlistedBy ==
  ASSUME TypeOK, Sorted, [Next]_vars, NEW s \in Shop, row[s] # "UNLISTED", row'[s] = "UNLISTED"
  PROVE  \E c \in Call : UnlistWrite(c) /\ s = call[c].shop
<1> USE DEF rows, jobs, history, notes
<1>1. ASSUME NEW c \in Call, RequestNext(c) PROVE FALSE
  BY <1>1 DEF RequestNext, ShelfStart, UnlistStart, RemoveStart
<1>2. ASSUME NEW c \in Call, HandlerNext(c) PROVE UnlistWrite(c) /\ s = call[c].shop
  <2>1. CASE EnqueueRead(c) \/ EnqueueWrite(c) \/ EnqueueAdd(c) \/ EnqueueRefused(c) \/ EnqueueFail(c)
    BY <2>1 DEF EnqueueRead, EnqueueWrite, EnqueueAdd, EnqueueRefused, EnqueueFail, SetRow, TypeOK
  <2>2. CASE UnlistRead(c) \/ UnlistCard(c) \/ UnlistWrite(c) \/ RemoveWrite(c)
    BY <2>2 DEF UnlistRead, UnlistCard, UnlistWrite, RemoveWrite, SetRow, TypeOK
  <2>3. CASE SyncRead(c) \/ SyncWrite(c)
    BY <2>3 DEF SyncRead, SyncWrite
  <2> QED BY <1>2, <2>1, <2>2, <2>3 DEF HandlerNext
<1>3. ASSUME NEW c \in Call, JobNext(c) PROVE FALSE
  <2>1. CASE \E t \in Shop : JobStart(c, t)
    BY <2>1 DEF JobStart
  <2>2. CASE JobMark(c) \/ JobUpload(c) \/ \E retry \in BOOLEAN : JobUploadFails(c, retry)
    BY <2>2 DEF JobMark, JobUpload, JobUploadFails, SetRow, TypeOK
  <2>3. CASE JobCheck(c) \/ JobCleanup(c) \/ JobEnd(c)
    BY <2>3 DEF JobCheck, JobCleanup, JobEnd
  <2>4. CASE JobFail(c)
    BY <2>4 DEF JobFail, TypeOK
  <2>5. CASE JobList(c)
    <3>1. row' = row \/ SetRow(call[c].shop, "LISTED")
      BY <2>5 DEF JobList
    <3> QED BY <3>1 DEF SetRow, TypeOK
  <2> QED BY <1>3, <2>1, <2>2, <2>3, <2>4, <2>5 DEF JobNext
<1>4. ~(Restart \/ UNCHANGED vars \/ \E t \in Shop : ChangeStatus(t))
  BY DEF Restart, ChangeStatus, vars
<1> QED BY <1>1, <1>2, <1>3, <1>4 DEF Next

\* Handlers come to some steps only by some actions.
Arrives(c, steps) == call'[c].pc \in steps /\ ~(call[c].pc \in steps /\ call'[c].shop = call[c].shop)

\* Who came to a late step came there from the one before, about the same shop.
LEMMA ArrivesBy ==
  ASSUME TypeOK, Sorted, [Next]_vars, NEW d \in Call
  PROVE  /\ Arrives(d, {"jobMark"}) => \E s \in Shop : JobStart(d, s) /\ call'[d].shop = s
         /\ Arrives(d, {"jobUpload"}) => JobMark(d) /\ call'[d].shop = call[d].shop
         /\ Arrives(d, {"jobCheck"}) => JobUpload(d) /\ call'[d].shop = call[d].shop
         /\ Arrives(d, {"jobList"}) \/ Arrives(d, {"jobCleanup"}) => JobCheck(d) /\ call'[d].shop = call[d].shop
         /\ Arrives(d, {"unlistWrite"}) =>
              (UnlistRead(d) \/ UnlistCard(d)) /\ call'[d].shop = call[d].shop
         /\ Arrives(d, {"unlistCard"}) => UnlistRead(d) /\ call'[d].shop = call[d].shop
         /\ Arrives(d, {"syncWrite"}) => SyncRead(d) /\ call'[d].shop = call[d].shop
<1> DEFINE LateSteps == {"jobMark", "jobUpload", "jobCheck", "jobList", "jobCleanup", "unlistWrite", "unlistCard", "syncWrite"}
<1>1. ASSUME NEW c \in Call, RequestNext(c) PROVE call'[d] = call[d] \/ call'[d].pc \notin LateSteps
  BY <1>1, RequestMoves DEF RequestNext, Begins
<1>2. ASSUME NEW c \in Call, NEW from, NEW to, Moves(c, from, to)
      PROVE  /\ d # c => call'[d] = call[d]
             /\ d = c => /\ call'[d].pc \in to
                         /\ call'[d].pc \in LateSteps => call'[d].shop = call[d].shop
  BY <1>2 DEF Moves
<1>3. ASSUME NEW c \in Call, HandlerNext(c)
      PROVE  \/ call'[d] = call[d]
             \/ call'[d].pc \notin LateSteps
             \/ /\ call'[d].shop = call[d].shop
                /\ \/ UnlistRead(d) /\ call'[d].pc \in {"unlistWrite", "unlistCard"}
                   \/ UnlistCard(d) /\ call'[d].pc = "unlistWrite"
                   \/ SyncRead(d) /\ call'[d].pc = "syncWrite"
  <2>1. CASE EnqueueRead(c) \/ EnqueueWrite(c) \/ EnqueueAdd(c) \/ EnqueueRefused(c) \/ EnqueueFail(c)
               \/ UnlistWrite(c) \/ RemoveWrite(c)
    <3>1. PICK from, to : Moves(c, from, to) /\ to \cap LateSteps = {}
      BY <2>1, HandlerMoves
    <3> QED BY <1>2, <3>1
  <2>2. CASE UnlistRead(c)
    BY <1>2, <2>2, HandlerMoves
  <2>3. CASE UnlistCard(c)
    BY <1>2, <2>3, HandlerMoves
  <2>4. CASE SyncRead(c) \/ SyncWrite(c)
    BY <1>2, <2>4, SyncMoves DEF AfterSyncSteps
  <2> QED BY <1>3, <2>1, <2>2, <2>3, <2>4 DEF HandlerNext
<1>4. ASSUME NEW c \in Call, JobNext(c)
      PROVE  \/ call'[d] = call[d]
             \/ call'[d].pc \notin LateSteps
             \/ call'[d].pc = "jobMark" /\ \E s \in Shop : JobStart(d, s) /\ call'[d].shop = s
             \/ /\ call'[d].shop = call[d].shop
                /\ \/ JobMark(d) /\ call'[d].pc = "jobUpload"
                   \/ JobUpload(d) /\ call'[d].pc = "jobCheck"
                   \/ JobCheck(d) /\ call'[d].pc \in {"jobList", "jobCleanup"}
  <2>1. CASE \E s \in Shop : JobStart(c, s)
    BY <2>1, RequestMoves DEF Begins
  <2>2. CASE JobMark(c) \/ JobUpload(c)
    BY <1>2, <2>2, JobMoves
  <2>3. CASE JobCheck(c)
    BY <1>2, <2>3, JobMoves
  <2>4. CASE JobCleanup(c) \/ JobList(c) \/ JobFail(c) \/ JobEnd(c) \/ \E retry \in BOOLEAN : JobUploadFails(c, retry)
    <3>1. PICK from, to : Moves(c, from, to) /\ to \cap LateSteps = {}
      BY <2>4, JobMoves
    <3> QED BY <1>2, <3>1
  <2> QED BY <1>4, <2>1, <2>2, <2>3, <2>4 DEF JobNext
<1>5. CASE Restart
  BY <1>5, IdleSlot DEF Restart, Arrives
<1>6. CASE UNCHANGED vars \/ \E t \in Shop : ChangeStatus(t)
  BY <1>6 DEF vars, ChangeStatus, Arrives
<1> QED BY <1>1, <1>3, <1>4, <1>5, <1>6 DEF Next, Arrives

\* Rows, numbers and cards: who changes them.
LEMMA ChangedBy ==
  ASSUME TypeOK, Sorted, [Next]_vars, NEW s \in Shop
  PROVE  /\ row[s] # "LISTED" /\ row'[s] = "LISTED" => \E c \in Call : JobList(c) /\ s = call[c].shop
         /\ row[s] # "QUEUED" /\ row'[s] = "QUEUED" => \E c \in Call : EnqueueWrite(c) /\ s = call[c].shop
         /\ row[s] # "PROCESSING" /\ row'[s] = "PROCESSING" =>
              \E c \in Call : (JobMark(c) \/ JobFail(c)) /\ s = call[c].shop
         /\ row[s] # "FAILED" /\ row'[s] = "FAILED" =>
              \E c \in Call : ((EnqueueFail(c) /\ row[s] = "QUEUED") \/ JobFail(c)) /\ s = call[c].shop
         /\ row[s] # "ABSENT" /\ row'[s] = "ABSENT" => \E c \in Call : RemoveWrite(c)
         /\ ~numbered[s] /\ numbered'[s] => \E c \in Call : JobList(c) /\ s = call[c].shop
         /\ numbered[s] /\ ~numbered'[s] => \E c \in Call : RemoveWrite(c)
         /\ card[s] # "live" /\ card'[s] = "live" =>
              \E c \in Call : (JobUpload(c) \/ \E retry \in BOOLEAN : JobUploadFails(c, retry)) /\ s = call[c].shop
         /\ card[s] = "live" /\ card'[s] # "live" =>
              \E c \in Call : (UnlistCard(c) \/ JobCleanup(c)) /\ s = call[c].shop
<1> USE DEF rows, jobs, history, notes
<1> DEFINE Same == row'[s] = row[s] /\ numbered'[s] = numbered[s] /\ card'[s] = card[s]
<1>1. ASSUME NEW c \in Call, RequestNext(c) PROVE Same
  BY <1>1 DEF RequestNext, ShelfStart, UnlistStart, RemoveStart
<1>2. CASE Restart \/ UNCHANGED vars \/ \E t \in Shop : ChangeStatus(t)
  BY <1>2 DEF Restart, ChangeStatus, vars
<1>3. ASSUME NEW c \in Call, HandlerNext(c)
      PROVE  \/ Same
             \/ /\ EnqueueWrite(c) /\ s = call[c].shop
                /\ row'[s] = "QUEUED" /\ numbered' = numbered /\ card' = card
             \/ /\ EnqueueFail(c) /\ s = call[c].shop
                /\ row[s] = "QUEUED" /\ row'[s] = "FAILED" /\ numbered' = numbered /\ card' = card
             \/ /\ UnlistCard(c) /\ s = call[c].shop
                /\ row' = row /\ numbered' = numbered /\ card'[s] = "withdrawn"
             \/ /\ UnlistWrite(c) /\ s = call[c].shop
                /\ row'[s] = "UNLISTED" /\ numbered' = numbered /\ card' = card
             \/ RemoveWrite(c) /\ row'[s] = "ABSENT" /\ numbered'[s] = FALSE /\ card' = card
  <2>1. CASE EnqueueRead(c) \/ EnqueueAdd(c) \/ EnqueueRefused(c) \/ UnlistRead(c)
    BY <2>1 DEF EnqueueRead, EnqueueAdd, EnqueueRefused, UnlistRead
  <2>2. CASE EnqueueWrite(c) \/ EnqueueFail(c)
    BY <2>2 DEF EnqueueWrite, EnqueueFail, SetRow, TypeOK
  <2>3. CASE UnlistCard(c) \/ UnlistWrite(c)
    BY <2>3 DEF UnlistCard, UnlistWrite, SetRow, Withdraw, TypeOK
  <2>4. CASE SyncRead(c) \/ SyncWrite(c) \/ RemoveWrite(c)
    BY <2>4 DEF SyncRead, SyncWrite, RemoveWrite
  <2> QED BY <1>3, <2>1, <2>2, <2>3, <2>4 DEF HandlerNext
<1>4. ASSUME NEW c \in Call, JobNext(c)
      PROVE  \/ Same
             \/ /\ JobMark(c) /\ s = call[c].shop
                /\ row'[s] = "PROCESSING" /\ numbered' = numbered /\ card' = card
             \/ /\ JobFail(c) /\ s = call[c].shop
                /\ row'[s] \in {"PROCESSING", "FAILED"} /\ numbered' = numbered /\ card' = card
             \/ /\ JobUpload(c) \/ \E retry \in BOOLEAN : JobUploadFails(c, retry)
                /\ s = call[c].shop /\ row' = row /\ numbered' = numbered /\ card'[s] = "live"
             \/ /\ JobCleanup(c) /\ s = call[c].shop
                /\ row' = row /\ numbered' = numbered /\ card'[s] = "withdrawn"
             \/ /\ JobList(c) /\ s = call[c].shop
                /\ row'[s] = "LISTED" /\ numbered'[s] = TRUE /\ card' = card
  <2>1. CASE JobCheck(c) \/ JobEnd(c) \/ \E t \in Shop : JobStart(c, t)
    BY <2>1 DEF JobCheck, JobEnd, JobStart
  <2>2. CASE JobMark(c) \/ JobFail(c)
    BY <2>2 DEF JobMark, JobFail, SetRow, TypeOK
  <2>3. CASE JobUpload(c) \/ \E retry \in BOOLEAN : JobUploadFails(c, retry)
    BY <2>3 DEF JobUpload, JobUploadFails, TypeOK
  <2>4. CASE JobCleanup(c)
    BY <2>4 DEF JobCleanup, Withdraw, TypeOK
  <2>5. CASE JobList(c)
    <3>1. CASE s # call[c].shop
      BY <2>5, <3>1, OwnShop DEF JobNext, JobList, At, IsIdle, RemoveWrite
    <3>2. CASE s = call[c].shop /\ row[s] # "ABSENT"
      <4>1. numbered'[s] = TRUE
        BY <2>5, <3>2 DEF JobList, TypeOK
      <4>2. row'[s] = "LISTED" /\ card' = card
        BY <2>5, <3>2 DEF JobList, TypeOK, SetRow
      <4> QED BY <2>5, <3>2, <4>1, <4>2
    <3>3. CASE s = call[c].shop /\ row[s] = "ABSENT"
      BY <2>5, <3>3 DEF JobList
    <3> QED BY <3>1, <3>2, <3>3
  <2> QED BY <1>4, <2>1, <2>2, <2>3, <2>4, <2>5 DEF JobNext
<1>5. CASE \E c \in Call : HandlerNext(c)
  <2>1. PICK c \in Call : HandlerNext(c)
    BY <1>5
  <2> QED BY <1>3, <2>1
<1>6. CASE \E c \in Call : JobNext(c)
  <2>1. PICK c \in Call : JobNext(c)
    BY <1>6
  <2> QED BY <1>4, <2>1
<1> QED BY <1>1, <1>2, <1>5, <1>6 DEF Next

\* A job that looked before the listing was taken off is remembered as late.
LEMMA LateStep == ASSUME TypeOK, Sorted, Late, [Next]_vars PROVE Late'
<1>1. \A c \in Call : call'[c].pc \in {"jobMark", "jobList"} => call'[c].shop \in Shop
  BY TypedStep DEF Sorted, SortedSlot
<1> SUFFICES ASSUME NEW c \in Call, NEW s \in Shop, call'[c].shop = s,
                    call'[c].pc \in {"jobMark", "jobList"}, row'[s] = "UNLISTED"
             PROVE  Open({"late"}, s)'
  BY <1>1 DEF Late, Open
<1>2. ASSUME Arrives(c, {"jobMark"}) \/ Arrives(c, {"jobList"}) PROVE FALSE
  <2>1. CASE Arrives(c, {"jobMark"})
    <3>1. JobStart(c, s)
      BY <2>1, ArrivesBy
    <3>2. row[s] # "UNLISTED"
      BY <2>1, <3>1 DEF JobStart, Continue, TypeOK, Arrives, Idle
    <3> QED BY <3>1, <3>2 DEF JobStart, rows
  <2>2. CASE Arrives(c, {"jobList"})
    <3>1. JobCheck(c) /\ s = call[c].shop
      BY <2>2, ArrivesBy
    <3>2. row[s] # "UNLISTED"
      BY <2>2, <3>1 DEF JobCheck, Goto, Continue, TypeOK, Slots, Arrives
    <3> QED BY <3>1, <3>2 DEF JobCheck, rows
  <2> QED BY <1>2, <2>1, <2>2
<1>3. call[c].pc \in {"jobMark", "jobList"} /\ call[c].shop = s
  BY <1>2 DEF Arrives
<1>4. CASE row[s] = "UNLISTED"
  BY <1>1, <1>3, <1>4, GapsGrow DEF Late
<1>5. CASE row[s] # "UNLISTED"
  <2>1. PICK d \in Call : UnlistWrite(d) /\ s = call[d].shop
    BY <1>1, <1>5, UnlistedBy
  <2>2. HandlerAt(s, {"jobMark", "jobList", "jobFail"}) /\ row[s] # "ABSENT"
    <3>1. HandlerAt(s, {"jobMark", "jobList", "jobFail"})
      BY <1>3 DEF HandlerAt
    <3>2. row[s] # "ABSENT"
      BY <2>1 DEF UnlistWrite
    <3> QED BY <3>1, <3>2
  <2>3. <<"late", s>> \in gap'
    BY <2>1, <2>2 DEF UnlistWrite, Opens
  <2> QED BY <2>3 DEF Open
<1> QED BY <1>4, <1>5

\* A handler at work moves by an action of its own, or goes down with the API.
LEMMA DepartsBy ==
  ASSUME TypeOK, Sorted, [Next]_vars, NEW d \in Call, call'[d] # call[d]
  PROVE  \/ RequestNext(d) \/ HandlerNext(d) \/ JobNext(d)
         \/ Restart
<1>1. ASSUME NEW c \in Call, RequestNext(c), c # d PROVE FALSE
  BY <1>1, RequestMoves DEF RequestNext, Begins
<1>2. ASSUME NEW c \in Call, HandlerNext(c), c # d PROVE FALSE
  <2>1. \E from, to : Moves(c, from, to)
    BY <1>2, HandlerMoves, SyncMoves DEF HandlerNext
  <2> QED BY <1>2, <2>1 DEF Moves
<1>3. ASSUME NEW c \in Call, JobNext(c), c # d PROVE FALSE
  <2>1. (\E s \in Shop : \E step, kind : Begins(c, step, kind, {s})) \/ \E from, to : Moves(c, from, to)
    BY <1>3, RequestMoves, JobMoves DEF JobNext
  <2> QED BY <1>3, <2>1 DEF Moves, Begins
<1>4. ~(UNCHANGED vars \/ \E t \in Shop : ChangeStatus(t))
  BY DEF vars, ChangeStatus
<1> QED BY <1>1, <1>2, <1>3, <1>4 DEF Next

\* Which action that is, its step says.
LEMMA DepartsFrom ==
  ASSUME TypeOK, Sorted, [Next]_vars, NEW d \in Call, call'[d] # call[d], ~Restart
  PROVE  /\ At(d, "jobMark") => JobMark(d)
         /\ At(d, "jobUpload") => JobUpload(d) \/ \E retry \in BOOLEAN : JobUploadFails(d, retry)
         /\ At(d, "jobCheck") => JobCheck(d)
         /\ At(d, "jobCleanup") => JobCleanup(d)
         /\ At(d, "jobList") => JobList(d)
         /\ At(d, "jobFail") => JobFail(d)
         /\ At(d, "jobEnd") => JobEnd(d)
         /\ At(d, "unlistWrite") => UnlistWrite(d)
         /\ At(d, "enqueueAdd") => EnqueueAdd(d) \/ EnqueueRefused(d)
         /\ At(d, "enqueueFail") => EnqueueFail(d)
         /\ At(d, "syncRead") => SyncRead(d)
         /\ At(d, "syncWrite") => SyncWrite(d)
<1>1. RequestNext(d) \/ HandlerNext(d) \/ JobNext(d)
  BY DepartsBy
<1>2. RequestNext(d) => At(d, "idle")
  BY DEF RequestNext, ShelfStart, UnlistStart, RemoveStart, IsIdle, At
<1>3. (\E s \in Shop : JobStart(d, s)) => At(d, "idle")
  BY DEF JobStart, IsIdle, At
<1>4. /\ EnqueueRead(d) => At(d, "enqueueRead")
      /\ EnqueueWrite(d) => At(d, "enqueueWrite")
      /\ EnqueueAdd(d) => At(d, "enqueueAdd")
      /\ EnqueueRefused(d) => At(d, "enqueueAdd")
      /\ EnqueueFail(d) => At(d, "enqueueFail")
      /\ UnlistRead(d) => At(d, "unlistRead")
      /\ UnlistCard(d) => At(d, "unlistCard")
      /\ UnlistWrite(d) => At(d, "unlistWrite")
      /\ RemoveWrite(d) => At(d, "removeWrite")
  BY DEF EnqueueRead, EnqueueWrite, EnqueueAdd, EnqueueRefused, EnqueueFail, UnlistRead, UnlistCard, UnlistWrite, RemoveWrite
<1>5. /\ SyncRead(d) => At(d, "syncRead")
      /\ SyncWrite(d) => At(d, "syncWrite")
      /\ JobMark(d) => At(d, "jobMark")
      /\ JobUpload(d) => At(d, "jobUpload")
      /\ (\E retry \in BOOLEAN : JobUploadFails(d, retry)) => At(d, "jobUpload")
      /\ JobCheck(d) => At(d, "jobCheck")
      /\ JobCleanup(d) => At(d, "jobCleanup")
      /\ JobList(d) => At(d, "jobList")
      /\ JobFail(d) => At(d, "jobFail")
      /\ JobEnd(d) => At(d, "jobEnd")
  BY DEF SyncRead, SyncWrite, JobMark, JobUpload, JobUploadFails, JobCheck, JobCleanup, JobList, JobFail, JobEnd
<1> QED BY <1>1, <1>2, <1>3, <1>4, <1>5 DEF HandlerNext, JobNext, At

\* No card is known, or put back on sale, behind the back of who withdrew it.
LEMMA WithdrewStep == ASSUME TypeOK, Sorted, Withdrew, [Next]_vars PROVE Withdrew'
<1>1. \A c \in Call : call'[c].pc = "unlistWrite" => call'[c].shop \in Shop
  BY TypedStep DEF Sorted, SortedSlot
<1> SUFFICES ASSUME NEW c \in Call, NEW s \in Shop, call'[c].shop = s,
                    call'[c].pc = "unlistWrite", numbered'[s], card'[s] = "live"
             PROVE  Open({"blind"}, s)'
  BY <1>1 DEF Withdrew, Open, At
<1>2. CASE Arrives(c, {"unlistWrite"})
  <2>1. (UnlistRead(c) \/ UnlistCard(c)) /\ s = call[c].shop
    BY <1>2, ArrivesBy
  <2>2. ~UnlistRead(c)
    <3>1. SUFFICES ASSUME UnlistRead(c) PROVE FALSE
      OBVIOUS
    <3>2. call'[c].pc = "unlistWrite" => CanUnlist(s) /\ ~numbered[s]
      <4>1. NextShop(c, "unlistRead") => call'[c].pc # "unlistWrite"
        <5>1. "unlistRead" \in Steps /\ At(c, "unlistRead")
          BY <3>1 DEF Steps, UnlistRead
        <5> QED BY <5>1, NextShopMoves DEF Moves
      <4> QED BY <2>1, <3>1, <4>1 DEF UnlistRead, Goto, Continue, TypeOK, Slots
    <3> QED BY <3>1, <3>2 DEF UnlistRead, rows
  <2>3. UnlistCard(c)
    BY <2>1, <2>2
  <2>4. Withdraw(s)
    BY <2>1, <2>3, IdleSlot DEF UnlistCard, Finish, Continue, TypeOK
  <2> QED BY <2>4 DEF Withdraw, TypeOK
<1>3. CASE ~Arrives(c, {"unlistWrite"})
  <2>1. call[c].pc = "unlistWrite" /\ call[c].shop = s
    BY <1>3 DEF Arrives
  <2>2. HandlerAt(s, {"unlistWrite"})
    BY <2>1 DEF HandlerAt
  <2>3. CASE numbered[s] /\ card[s] = "live"
    BY <2>1, <2>3, GapsGrow DEF Withdrew, At
  <2>4. CASE ~numbered[s]
    <3>1. PICK d \in Call : JobList(d) /\ s = call[d].shop
      BY <2>4, ChangedBy
    <3>2. row[s] # "ABSENT"
      BY <2>4, <3>1 DEF JobList, rows
    <3>3. <<"blind", s>> \in gap'
      BY <2>2, <3>1, <3>2 DEF JobList, Opens
    <3> QED BY <3>3 DEF Open
  <2>5. CASE card[s] # "live"
    <3>1. PICK d \in Call : (JobUpload(d) \/ \E retry \in BOOLEAN : JobUploadFails(d, retry)) /\ s = call[d].shop
      BY <2>5, ChangedBy
    <3>2. <<"blind", s>> \in gap'
      BY <2>2, <3>1 DEF JobUpload, JobUploadFails, Opens
    <3> QED BY <3>2 DEF Open
  <2> QED BY <2>3, <2>4, <2>5
<1> QED BY <1>2, <1>3

\* A card put on sale after its listing was taken off has a job to take it off again.
LEMMA UnlistedStep == ASSUME TypeOK, Sorted, Withdrew, Unlisted, [Next]_vars PROVE Unlisted'
<1> SUFFICES ASSUME NEW s \in Shop, row'[s] = "UNLISTED", numbered'[s], card'[s] = "live"
             PROVE  Open({"late", "blind", "cleanup", "halfway"}, s)' \/ HandlerAt(s, {"jobCheck", "jobCleanup", "jobFail"})'
  BY DEF Unlisted
<1>1. CASE row[s] # "UNLISTED"
  <2>1. PICK d \in Call : UnlistWrite(d) /\ s = call[d].shop
    BY <1>1, UnlistedBy
  <2>2. Open({"blind"}, s)
    BY <2>1 DEF UnlistWrite, Withdrew
  <2>3. Open({"blind"}, s)'
    BY <2>2, GapsGrow
  <2> QED BY <2>3 DEF Open
<1>2. CASE ~numbered[s]
  <2>1. PICK d \in Call : JobList(d) /\ s = call[d].shop
    BY <1>2, ChangedBy
  <2>2. row'[s] = "LISTED"
    BY <1>2, <2>1 DEF JobList, SetRow, TypeOK, rows
  <2> QED BY <2>2
<1>3. CASE card[s] # "live"
  <2>1. PICK d \in Call : (JobUpload(d) \/ \E retry \in BOOLEAN : JobUploadFails(d, retry)) /\ s = call[d].shop
    BY <1>3, ChangedBy
  <2>2. Moves(d, "jobUpload", {"jobCheck"}) \/ Moves(d, "jobUpload", {"jobFail"})
    BY <2>1, JobMoves
  <2> QED BY <2>1, <2>2 DEF Moves, HandlerAt
<1>4. CASE row[s] = "UNLISTED" /\ numbered[s] /\ card[s] = "live"
  <2>1. CASE Open({"late", "blind", "cleanup", "halfway"}, s)
    BY <2>1, GapsGrow
  <2>2. CASE HandlerAt(s, {"jobCheck", "jobCleanup", "jobFail"})
    <3>1. PICK d \in Call : call[d].shop = s /\ call[d].pc \in {"jobCheck", "jobCleanup", "jobFail"}
      BY <2>2 DEF HandlerAt
    <3>2. CASE call'[d] = call[d]
      BY <3>1, <3>2 DEF HandlerAt
    <3>3. CASE Restart
      <4>1. <<"halfway", s>> \in gap'
        BY <3>1, <3>3 DEF Restart, HandlerAt
      <4> QED BY <4>1 DEF Open
    <3>4. CASE call'[d] # call[d] /\ ~Restart
      <4>1. JobCheck(d) \/ JobCleanup(d) \/ JobFail(d)
        BY <3>1, <3>4, DepartsFrom DEF At
      <4>2. CASE JobCheck(d)
        <5>1. call'[d].pc = "jobCleanup" /\ call'[d].shop = s
          BY <1>4, <3>1, <4>2 DEF JobCheck, Goto, Continue, TypeOK, Slots
        <5> QED BY <5>1 DEF HandlerAt
      <4>3. CASE JobCleanup(d)
        <5>1. ~Withdraw(s)
          BY <1>4 DEF Withdraw, TypeOK
        <5>2. <<"cleanup", s>> \in gap'
          BY <3>1, <4>3, <5>1 DEF JobCleanup, Opens
        <5> QED BY <5>2 DEF Open
      <4>4. CASE JobFail(d)
        BY <1>4, <3>1, <4>4 DEF JobFail, TypeOK
      <4> QED BY <4>1, <4>2, <4>3, <4>4
    <3> QED BY <3>2, <3>3, <3>4
  <2> QED BY <1>4, <2>1, <2>2 DEF Unlisted
<1> QED BY <1>1, <1>2, <1>3, <1>4

\* What makes a listed row's card sure is lost only when somebody writes UNLISTED or
\* cleans up.
LEMMA SureStep ==
  ASSUME TypeOK, Sorted, [Next]_vars, NEW s \in Shop, Sure(s)
  PROVE  \/ Sure(s)'
         \/ \E d \in Call : (UnlistWrite(d) \/ JobCleanup(d)) /\ s = call[d].shop
<1>1. CASE Open({"late", "blind", "again", "halfway", "unanswered"}, s)
  BY <1>1, GapsGrow DEF Sure
<1>2. CASE HandlerAt(s, {"unlistWrite"})
  <2>1. PICK d \in Call : call[d].shop = s /\ At(d, "unlistWrite")
    BY <1>2 DEF HandlerAt, At
  <2>2. CASE call'[d] = call[d]
    <3>1. HandlerAt(s, {"unlistWrite"})'
      BY <2>1, <2>2 DEF HandlerAt, At
    <3> QED BY <3>1 DEF Sure
  <2>3. CASE Restart
    <3>1. <<"halfway", s>> \in gap'
      BY <2>1, <2>3 DEF Restart, HandlerAt, At
    <3> QED BY <3>1 DEF Sure, Open
  <2> QED BY <2>1, <2>2, <2>3, DepartsFrom
<1>3. CASE card[s] = "live" /\ card'[s] # "live"
  <2>1. PICK d \in Call : (UnlistCard(d) \/ JobCleanup(d)) /\ s = call[d].shop
    BY <1>3, ChangedBy
  <2>2. CASE UnlistCard(d)
    <3>1. Goto(d, "unlistWrite") \/ <<"unanswered", s>> \in gap'
      BY <1>3, <2>1, <2>2 DEF UnlistCard, Opens
    <3>2. CASE Goto(d, "unlistWrite")
      <4>1. call'[d].pc = "unlistWrite" /\ call'[d].shop = s
        BY <2>1, <3>2 DEF Goto, Continue, TypeOK, Slots
      <4>2. HandlerAt(s, {"unlistWrite"})'
        BY <4>1 DEF HandlerAt
      <4> QED BY <4>2 DEF Sure
    <3>3. CASE <<"unanswered", s>> \in gap'
      BY <3>3 DEF Sure, Open
    <3> QED BY <3>1, <3>2, <3>3
  <2> QED BY <2>1, <2>2
<1> QED BY <1>1, <1>2, <1>3 DEF Sure

\* While a job is being worked at, another handler changes its row only by asking for
\* the listing again, by taking it off, or by removing the product.
LEMMA RowOfJob ==
  ASSUME TypeOK, Sorted, OneHandler, [Next]_vars, NEW c \in Call, NEW s \in Shop, OnJob(c, s), call'[c] = call[c]
  PROVE  /\ \/ row'[s] = row[s]
            \/ row'[s] \in {"UNLISTED", "ABSENT"}
            \/ Open({"again"}, s)'
            \/ row[s] = "QUEUED" /\ row'[s] = "FAILED"
         /\ \A d \in Call : JobCleanup(d) => call[d].shop # s
<1>1. \A d \in Call : call[d].kind = "job" /\ call[d].shop = s => d = c
  BY DEF OneHandler, OnJob
<1>2. \A d \in Call : call[d].pc \in JobSteps => call[d].kind = "job"
  BY DEF Sorted, SortedSlot
<1>3. \A d \in Call : call[d].pc \in {"jobList", "jobMark", "jobFail", "jobCleanup"} /\ call[d].shop = s => d = c
  BY <1>1, <1>2 DEF JobSteps
<1>4. /\ JobCleanup(c) => Moves(c, "jobCleanup", {"jobEnd"})
      /\ JobList(c) => Moves(c, "jobList", {"jobFail", "syncRead"})
      /\ JobMark(c) => Moves(c, "jobMark", {"jobEnd", "jobUpload"})
      /\ JobFail(c) => Moves(c, "jobFail", {"syncRead"})
  BY JobMoves
<1>5. ~JobCleanup(c) /\ ~JobList(c) /\ ~JobMark(c) /\ ~JobFail(c)
  BY <1>4 DEF Moves, At
<1>6. \A d \in Call : call[d].shop = s => ~JobCleanup(d) /\ ~JobList(d) /\ ~JobMark(d) /\ ~JobFail(d)
  BY <1>3, <1>5 DEF JobCleanup, JobList, JobMark, JobFail, At
<1>7. ASSUME NEW d \in Call, EnqueueWrite(d), call[d].shop = s, row'[s] # row[s] PROVE Open({"again"}, s)'
  <2>1. job[s] = "active"
    BY DEF OneHandler
  <2>2. <<"again", s>> \in gap'
    BY <1>7, <2>1 DEF EnqueueWrite, Opens
  <2> QED BY <2>2 DEF Open
<1>8. row'[s] \in RowStatuses \cup {"ABSENT"}
  BY TypedStep DEF TypeOK
<1> QED BY <1>6, <1>7, <1>8, ChangedBy DEF RowStatuses

\* A job past its upload has a card, and looks for a cancellation before it lists it.
LEMMA UploadedStep == ASSUME TypeOK, Sorted, OneHandler, Uploaded, [Next]_vars PROVE Uploaded'
<1>1. \A c \in Call : call'[c].pc \in JobSteps => call'[c].shop \in Shop
  BY TypedStep DEF Sorted, SortedSlot, JobSteps
<1>2. ASSUME NEW c \in Call, NEW s \in Shop, call'[c].shop = s, call'[c].pc = "jobCheck"
      PROVE  Sure(s)' \/ row'[s] \in {"UNLISTED", "ABSENT"}
  <2>1. CASE Arrives(c, {"jobCheck"})
    <3>1. JobUpload(c) /\ s = call[c].shop
      BY <1>2, <2>1, ArrivesBy
    <3>2. card'[s] = "live"
      BY <3>1 DEF JobUpload, TypeOK
    <3> QED BY <3>2 DEF Sure
  <2>2. CASE ~Arrives(c, {"jobCheck"})
    <3>1. At(c, "jobCheck") /\ call[c].shop = s
      BY <1>2, <2>2 DEF Arrives, At
    <3>2. call'[c] = call[c]
      <4>1. ~Restart
        BY <1>2, IdleSlot DEF Restart
      <4>2. JobCheck(c) => call'[c].pc # "jobCheck"
        BY JobMoves DEF Moves
      <4> QED BY <1>2, <3>1, <4>1, <4>2, DepartsFrom
    <3>3. OnJob(c, s)
      BY <3>1 DEF OnJob, Sorted, SortedSlot, At, JobSteps
    <3>4. \/ row'[s] = row[s]
          \/ row'[s] \in {"UNLISTED", "ABSENT"}
          \/ Open({"again"}, s)'
          \/ row[s] = "QUEUED" /\ row'[s] = "FAILED"
      BY <3>2, <3>3, RowOfJob
    <3>5. Open({"again"}, s)' => Sure(s)'
      BY DEF Open, Sure
    <3>6. CASE Sure(s)
      <4>1. ASSUME NEW d \in Call, UnlistWrite(d), s = call[d].shop
            PROVE  row'[s] \in {"UNLISTED", "ABSENT"}
        BY <4>1 DEF UnlistWrite, SetRow, TypeOK
      <4> QED BY <3>2, <3>3, <3>6, <4>1, SureStep, RowOfJob
    <3>7. CASE row[s] \in {"UNLISTED", "ABSENT"}
      BY <3>4, <3>5, <3>7
    <3> QED BY <3>1, <3>6, <3>7 DEF Uploaded
  <2> QED BY <2>1, <2>2
<1>3. ASSUME NEW c \in Call, NEW s \in Shop, call'[c].shop = s, call'[c].pc = "jobList"
      PROVE  Sure(s)' \/ row'[s] = "ABSENT"
  <2>1. CASE Arrives(c, {"jobList"})
    <3>1. JobCheck(c) /\ s = call[c].shop
      BY <1>3, <2>1, ArrivesBy
    <3>2. row[s] # "UNLISTED"
      BY <1>3, <3>1 DEF JobCheck, Goto, Continue, TypeOK, Slots
    <3>3. Sure(s) \/ row[s] = "ABSENT"
      BY <3>1, <3>2 DEF Uploaded, JobCheck
    <3>4. row' = row /\ card' = card
      BY <3>1 DEF JobCheck, rows
    <3>5. Moves(c, "jobCheck", {"jobCleanup", "jobList"})
      BY <3>1, JobMoves
    <3>6. HandlerAt(s, {"unlistWrite"}) => HandlerAt(s, {"unlistWrite"})'
      BY <3>5, OthersStay
    <3> QED BY <3>3, <3>4, <3>6, GapsGrow DEF Sure
  <2>2. CASE ~Arrives(c, {"jobList"})
    <3>1. At(c, "jobList") /\ call[c].shop = s
      BY <1>3, <2>2 DEF Arrives, At
    <3>2. call'[c] = call[c]
      <4>1. ~Restart
        BY <1>3, IdleSlot DEF Restart
      <4>2. JobList(c) => call'[c].pc # "jobList"
        BY JobMoves DEF Moves
      <4> QED BY <1>3, <3>1, <4>1, <4>2, DepartsFrom
    <3>3. OnJob(c, s)
      BY <3>1 DEF OnJob, Sorted, SortedSlot, At, JobSteps
    <3>4. \/ row'[s] = row[s]
          \/ row'[s] \in {"UNLISTED", "ABSENT"}
          \/ Open({"again"}, s)'
          \/ row[s] = "QUEUED" /\ row'[s] = "FAILED"
      BY <3>2, <3>3, RowOfJob
    <3>5. Open({"again"}, s)' => Sure(s)'
      BY DEF Open, Sure
    <3>6. ASSUME NEW d \in Call, UnlistWrite(d), s = call[d].shop
          PROVE  Sure(s)' \/ row'[s] = "ABSENT"
      <4>1. HandlerAt(s, {"jobMark", "jobList", "jobFail"})
        BY <3>1 DEF HandlerAt, At
      <4>2. row[s] # "ABSENT" => <<"late", s>> \in gap'
        BY <3>6, <4>1 DEF UnlistWrite, Opens
      <4>3. row[s] = "ABSENT" => row' = row
        BY <3>6 DEF UnlistWrite
      <4> QED BY <4>2, <4>3 DEF Sure, Open
    <3>7. CASE Sure(s)
      BY <3>2, <3>3, <3>6, <3>7, SureStep, RowOfJob
    <3>8. CASE row[s] = "ABSENT"
      <4>1. CASE row'[s] = "UNLISTED"
        BY <3>6, <3>8, <4>1, UnlistedBy
      <4> QED BY <3>4, <3>5, <3>8, <4>1
    <3> QED BY <3>1, <3>7, <3>8 DEF Uploaded
  <2> QED BY <2>1, <2>2
<1>4. ASSUME NEW c \in Call, NEW s \in Shop, call'[c].shop = s, call'[c].pc = "jobCleanup"
      PROVE  row'[s] \in {"UNLISTED", "ABSENT"} \/ Open({"again"}, s)'
  <2>1. CASE Arrives(c, {"jobCleanup"})
    <3>1. JobCheck(c) /\ s = call[c].shop
      BY <1>4, <2>1, ArrivesBy
    <3>2. row[s] = "UNLISTED"
      BY <1>4, <3>1 DEF JobCheck, Goto, Continue, TypeOK, Slots
    <3> QED BY <3>1, <3>2 DEF JobCheck, rows
  <2>2. CASE ~Arrives(c, {"jobCleanup"})
    <3>1. At(c, "jobCleanup") /\ call[c].shop = s
      BY <1>4, <2>2 DEF Arrives, At
    <3>2. call'[c] = call[c]
      <4>1. ~Restart
        BY <1>4, IdleSlot DEF Restart
      <4>2. JobCleanup(c) => call'[c].pc # "jobCleanup"
        BY JobMoves DEF Moves
      <4> QED BY <1>4, <3>1, <4>1, <4>2, DepartsFrom
    <3>3. OnJob(c, s)
      BY <3>1 DEF OnJob, Sorted, SortedSlot, At, JobSteps
    <3>4. row[s] \in {"UNLISTED", "ABSENT"} \/ Open({"again"}, s)
      BY <3>1 DEF Uploaded
    <3> QED BY <3>2, <3>3, <3>4, RowOfJob, GapsGrow
  <2> QED BY <2>1, <2>2
<1> SUFFICES ASSUME NEW c \in Call, NEW s \in Shop, call'[c].shop = s
             PROVE  /\ call'[c].pc = "jobCheck" => Sure(s)' \/ row'[s] \in {"UNLISTED", "ABSENT"}
                    /\ call'[c].pc = "jobList" => Sure(s)' \/ row'[s] = "ABSENT"
                    /\ call'[c].pc = "jobCleanup" => row'[s] \in {"UNLISTED", "ABSENT"} \/ Open({"again"}, s)'
  BY <1>1 DEF Uploaded, At, JobSteps, Sure, Open, HandlerAt
<1> QED BY <1>2, <1>3, <1>4

\* A row says LISTED of a card its job had made sure of.
LEMMA ListedStep == ASSUME TypeOK, Sorted, Uploaded, Listed, [Next]_vars PROVE Listed'
<1> SUFFICES ASSUME NEW s \in Shop, row'[s] = "LISTED" PROVE Sure(s)'
  BY DEF Listed
<1>1. ~\E d \in Call : UnlistWrite(d) /\ s = call[d].shop /\ row[s] \in RowStatuses
  BY DEF UnlistWrite, SetRow, TypeOK, RowStatuses
<1>2. CASE row[s] = "LISTED"
  <2>1. Sure(s)
    BY <1>2 DEF Listed
  <2>2. ASSUME NEW d \in Call, JobCleanup(d), s = call[d].shop PROVE Sure(s)'
    <3>1. Open({"again"}, s)
      BY <1>2, <2>2 DEF Uploaded, JobCleanup
    <3> QED BY <3>1, GapsGrow DEF Sure, Open
  <2> QED BY <1>1, <1>2, <2>1, <2>2, SureStep DEF RowStatuses
<1>3. CASE row[s] # "LISTED"
  <2>1. PICK c \in Call : JobList(c) /\ s = call[c].shop
    BY <1>3, ChangedBy
  <2>2. Sure(s)
    BY <1>3, <2>1 DEF JobList, Uploaded, rows
  <2>3. Moves(c, "jobList", {"jobFail", "syncRead"})
    BY <2>1, JobMoves
  <2>4. HandlerAt(s, {"unlistWrite"}) => HandlerAt(s, {"unlistWrite"})'
    <3>1. {"unlistWrite"} \cap {"idle", "enqueueRead", "unlistRead"} = {} /\ "jobList" \notin {"unlistWrite"}
      OBVIOUS
    <3> QED BY <2>3, <3>1, OthersStay
  <2>5. card' = card
    BY <2>1 DEF JobList
  <2> QED BY <2>2, <2>4, <2>5, GapsGrow DEF Sure
<1> QED BY <1>2, <1>3

\* A queued job leaves the queue when it is taken up.
LEMMA JobLeaves ==
  ASSUME TypeOK, [Next]_vars, NEW s \in Shop, job[s] = "queued", job'[s] # "queued"
  PROVE  \E c \in Call : JobStart(c, s) \/ (JobEnd(c) /\ s = call[c].shop)
<1> USE DEF rows, jobs, history, notes
<1>1. ASSUME NEW c \in Call, RequestNext(c) PROVE FALSE
  BY <1>1 DEF RequestNext, ShelfStart, UnlistStart, RemoveStart
<1>2. ASSUME NEW c \in Call, HandlerNext(c) PROVE FALSE
  <2>1. CASE EnqueueRead(c) \/ EnqueueWrite(c) \/ EnqueueAdd(c) \/ EnqueueRefused(c) \/ EnqueueFail(c)
    BY <2>1 DEF EnqueueRead, EnqueueWrite, EnqueueAdd, EnqueueRefused, EnqueueFail, TypeOK
  <2>2. CASE UnlistRead(c) \/ UnlistCard(c) \/ UnlistWrite(c) \/ RemoveWrite(c) \/ SyncRead(c) \/ SyncWrite(c)
    BY <2>2 DEF UnlistRead, UnlistCard, UnlistWrite, RemoveWrite, SyncRead, SyncWrite
  <2> QED BY <1>2, <2>1, <2>2 DEF HandlerNext
<1>3. ASSUME NEW c \in Call, JobNext(c) PROVE JobStart(c, s) \/ (JobEnd(c) /\ s = call[c].shop)
  <2>1. CASE \E t \in Shop : JobStart(c, t)
    BY <2>1 DEF JobStart, TypeOK
  <2>2. CASE JobMark(c) \/ JobUpload(c) \/ \E retry \in BOOLEAN : JobUploadFails(c, retry)
    BY <2>2 DEF JobMark, JobUpload, JobUploadFails
  <2>3. CASE JobCheck(c) \/ JobCleanup(c) \/ JobList(c) \/ JobFail(c)
    BY <2>3 DEF JobCheck, JobCleanup, JobList, JobFail
  <2>4. CASE JobEnd(c)
    BY <2>4 DEF JobEnd, TypeOK
  <2> QED BY <1>3, <2>1, <2>2, <2>3, <2>4 DEF JobNext
<1>4. ~(Restart \/ UNCHANGED vars \/ \E t \in Shop : ChangeStatus(t))
  BY DEF Restart, ChangeStatus, vars
<1> QED BY <1>1, <1>2, <1>3, <1>4 DEF Next

\* A handler is on a job it was on before, or has just taken up.
LEMMA OnJobBefore ==
  ASSUME TypeOK, Sorted, [Next]_vars, NEW c \in Call, NEW s \in Shop, OnJob(c, s)'
  PROVE  OnJob(c, s) \/ JobStart(c, s)
<1>1. CASE call'[c] = call[c]
  BY <1>1 DEF OnJob
<1>2. ASSUME RequestNext(c) PROVE FALSE
  BY <1>2, RequestMoves DEF RequestNext, Begins, OnJob
<1>3. ASSUME NEW from, NEW to, Moves(c, from, to), call[c].kind = "job" => to \cap {"enqueueRead", "unlistRead"} = {}
      PROVE  OnJob(c, s)
  BY <1>3, IdleSlot DEF Moves, OnJob
<1>4. ASSUME HandlerNext(c) PROVE OnJob(c, s)
  <2>1. CASE SyncRead(c) \/ SyncWrite(c)
    BY <1>3, <2>1, SyncMoves DEF AfterSyncSteps
  <2>2. CASE ~(SyncRead(c) \/ SyncWrite(c))
    <3>1. PICK from, to : Moves(c, from, to) /\ from \notin JobSteps \cup SyncSteps
      BY <1>4, <2>2, HandlerMoves DEF HandlerNext, JobSteps, SyncSteps
    <3>2. call[c].kind # "job"
      BY <3>1, NoJob DEF Moves, At
    <3> QED BY <1>3, <3>1, <3>2
  <2> QED BY <2>1, <2>2
<1>5. ASSUME JobNext(c) PROVE OnJob(c, s) \/ JobStart(c, s)
  <2>1. ASSUME NEW t \in Shop, JobStart(c, t) PROVE t = s
    BY <2>1, RequestMoves DEF Begins, OnJob
  <2>2. CASE \E t \in Shop : JobStart(c, t)
    BY <2>1, <2>2
  <2>3. CASE ~\E t \in Shop : JobStart(c, t)
    <3>1. PICK from, to : Moves(c, from, to) /\ to \cap {"enqueueRead", "unlistRead"} = {}
      BY <1>5, <2>3, JobMoves DEF JobNext
    <3> QED BY <1>3, <3>1
  <2> QED BY <2>2, <2>3
<1>6. ~Restart
  BY IdleSlot DEF Restart, OnJob
<1> QED BY <1>1, <1>2, <1>4, <1>5, <1>6, DepartsBy

\* A job is taken up to be worked at, unless it is of no use.
LEMMA TakenUp ==
  ASSUME TypeOK, NEW c \in Call, NEW s \in Shop, JobStart(c, s)
  PROVE  /\ call'[c].shop = s
         /\ \/ call'[c].pc = "jobMark"
            \/ product = "DELETED" \/ row[s] = "UNLISTED" \/ Open({"closed"}, s)'
<1>1. CASE ~enabled[s]
  BY <1>1, RequestMoves DEF JobStart, Opens, Open, Begins
<1>2. CASE enabled[s]
  BY <1>2 DEF JobStart, Continue, TypeOK, Idle
<1> QED BY <1>1, <1>2 DEF TypeOK

\* Restarts are counted, and nothing else counts as one.
LEMMA RestartsGrow ==
  ASSUME [Next]_vars
  PROVE  restarts' = restarts \/ Restart
<1> USE DEF history, Requested
<1>1. ASSUME NEW c \in Call, RequestNext(c) PROVE restarts' = restarts
  BY <1>1 DEF RequestNext, ShelfStart, UnlistStart, RemoveStart
<1>2. ASSUME NEW c \in Call, HandlerNext(c) PROVE restarts' = restarts
  BY <1>2 DEF HandlerNext, EnqueueRead, EnqueueWrite, EnqueueAdd, EnqueueRefused, EnqueueFail, UnlistRead, UnlistCard,
     UnlistWrite, RemoveWrite, SyncRead, SyncWrite
<1>3. ASSUME NEW c \in Call, JobNext(c) PROVE restarts' = restarts
  BY <1>3 DEF JobNext, JobStart, JobMark, JobUpload, JobUploadFails, JobCheck, JobCleanup, JobList, JobFail, JobEnd
<1>4. CASE UNCHANGED vars \/ \E t \in Shop : ChangeStatus(t)
  BY <1>4 DEF ChangeStatus, vars
<1> QED BY <1>1, <1>2, <1>3, <1>4 DEF Next

\* A row says QUEUED with a job on its way, until that job marks it.
LEMMA QueuedStep == ASSUME TypeOK, Sorted, OneHandler, Gone, Queued, [Next]_vars PROVE Queued'
<1> SUFFICES ASSUME NEW s \in Shop, row'[s] = "QUEUED"
             PROVE  /\ \A c \in Call : OnJob(c, s)' /\ ~At(c, "jobMark")' => Open({"again", "closed"}, s)'
                    /\ restarts' = 0 => \/ Open({"again", "closed"}, s)' \/ job'[s] = "queued"
                                        \/ HandlerAt(s, {"enqueueAdd", "enqueueFail", "jobMark"})'
  BY DEF Queued
<1>1. CASE row[s] # "QUEUED"
  <2>1. PICK d \in Call : EnqueueWrite(d) /\ s = call[d].shop
    BY <1>1, ChangedBy
  <2>2. Moves(d, "enqueueWrite", {"idle", "enqueueAdd"}) /\ row' # row
    BY <1>1, <2>1, HandlerMoves
  <2>3. call'[d].pc = "enqueueAdd" /\ call'[d].shop = s
    BY <2>1, <2>2 DEF EnqueueWrite, Goto, Continue, TypeOK, Slots
  <2>4. HandlerAt(s, {"enqueueAdd", "enqueueFail", "jobMark"})'
    BY <2>3 DEF HandlerAt
  <2>5. ASSUME NEW c \in Call, OnJob(c, s)' PROVE Open({"again", "closed"}, s)'
    <3>1. c # d
      <4>1. call'[d].kind # "job"
        BY <2>3, TypedStep DEF Sorted, SortedSlot, JobSteps, SyncSteps
      <4> QED BY <2>5, <4>1 DEF OnJob
    <3>2. OnJob(c, s)
      BY <2>2, <2>5, <3>1 DEF Moves, OnJob
    <3>3. job[s] = "active"
      BY <3>2 DEF OneHandler
    <3>4. <<"again", s>> \in gap'
      BY <2>1, <2>2, <3>3 DEF EnqueueWrite, Opens
    <3> QED BY <3>4 DEF Open
  <2> QED BY <2>4, <2>5
<1>2. CASE row[s] = "QUEUED"
  <2>1. Open({"again", "closed"}, s) => Open({"again", "closed"}, s)'
    BY GapsGrow
  <2>2. product # "DELETED"
    BY <1>2 DEF Gone
  <2>3. ASSUME NEW c \in Call, JobMark(c), call[c].shop = s PROVE FALSE
    BY <2>2, <2>3 DEF JobMark, SetRow, TypeOK
  <2>4. ASSUME NEW c \in Call, OnJob(c, s), At(c, "jobMark"), ~Restart PROVE call'[c] = call[c]
    BY <2>3, <2>4, DepartsFrom DEF OnJob
  <2>5. ASSUME NEW c \in Call, JobStart(c, s)
        PROVE  Open({"again", "closed"}, s)' \/ (call'[c].shop = s /\ At(c, "jobMark")')
    BY <1>2, <2>2, <2>5, TakenUp DEF Open, At
  <2>6. ASSUME NEW c \in Call, OnJob(c, s)', ~At(c, "jobMark")' PROVE Open({"again", "closed"}, s)'
    <3>1. ~Restart
      BY <2>6, IdleSlot DEF Restart, OnJob
    <3>2. CASE OnJob(c, s)
      <4>1. ~At(c, "jobMark")
        BY <2>4, <2>6, <3>1, <3>2 DEF At
      <4> QED BY <1>2, <2>1, <3>2, <4>1 DEF Queued
    <3>3. CASE JobStart(c, s)
      BY <2>5, <2>6, <3>3
    <3> QED BY <2>6, <3>2, <3>3, OnJobBefore
  <2>7. ASSUME restarts' = 0, ~Open({"again", "closed"}, s)'
        PROVE  job'[s] = "queued" \/ HandlerAt(s, {"enqueueAdd", "enqueueFail", "jobMark"})'
    <3>1. ~Restart /\ restarts = 0
      BY <2>7, RestartsGrow DEF Restart, TypeOK
    <3>2. job[s] = "queued" \/ HandlerAt(s, {"enqueueAdd", "enqueueFail", "jobMark"})
      BY <1>2, <2>1, <2>7, <3>1 DEF Queued
    <3>3. CASE job[s] = "queued"
      <4>1. ASSUME NEW c \in Call, JobEnd(c), s = call[c].shop PROVE FALSE
        <5>1. OnJob(c, s) /\ ~At(c, "jobMark")
          BY <4>1 DEF JobEnd, At, OnJob, Sorted, SortedSlot, JobSteps
        <5> QED BY <1>2, <2>1, <2>7, <5>1 DEF Queued
      <4>2. CASE job'[s] # "queued"
        <5>1. PICK c \in Call : JobStart(c, s)
          BY <3>3, <4>1, <4>2, JobLeaves
        <5> QED BY <2>5, <2>7, <5>1 DEF HandlerAt, At
      <4> QED BY <4>2
    <3>4. CASE HandlerAt(s, {"enqueueAdd", "enqueueFail", "jobMark"})
      <4>1. PICK d \in Call : call[d].shop = s /\ call[d].pc \in {"enqueueAdd", "enqueueFail", "jobMark"}
        BY <3>4 DEF HandlerAt
      <4>2. CASE call'[d] = call[d]
        BY <4>1, <4>2 DEF HandlerAt
      <4>3. CASE call'[d] # call[d]
        <5>1. EnqueueAdd(d) \/ EnqueueRefused(d) \/ EnqueueFail(d) \/ JobMark(d)
          BY <3>1, <4>1, <4>3, DepartsFrom DEF At
        <5>2. CASE EnqueueAdd(d)
          <6>1. CASE job[s] \in {"none", "queued"}
            BY <4>1, <5>2, <6>1 DEF EnqueueAdd, TypeOK, jobs
          <6>2. CASE job[s] = "active"
            <7>1. PICK e \in Call : OnJob(e, s)
              BY <6>2 DEF OneHandler
            <7>2. At(e, "jobMark")
              BY <1>2, <2>1, <2>7, <7>1 DEF Queued
            <7>3. call'[e] = call[e]
              BY <2>4, <3>1, <7>1, <7>2
            <7> QED BY <7>1, <7>2, <7>3 DEF HandlerAt, OnJob, At
          <6> QED BY <6>1, <6>2 DEF TypeOK
        <5>3. CASE EnqueueRefused(d)
          BY <4>1, <5>3, HandlerMoves DEF Moves, HandlerAt
        <5>4. CASE EnqueueFail(d)
          BY <1>2, <4>1, <5>4 DEF EnqueueFail, TypeOK
        <5>5. CASE JobMark(d)
          BY <2>3, <4>1, <5>5
        <5> QED BY <5>1, <5>2, <5>3, <5>4, <5>5
      <4> QED BY <4>2, <4>3
    <3> QED BY <3>2, <3>3, <3>4
  <2> QED BY <2>6, <2>7
<1> QED BY <1>1, <1>2

\* Who changes a row owes the product its summary, and goes on owing it until it reads
\* the rows.
LEMMA OwingStep ==
  ASSUME TypeOK, Sorted, NEW c \in Call, RequestNext(c) \/ HandlerNext(c) \/ JobNext(c), ~SyncRead(c), ~RemoveWrite(c)
  PROVE  Owes(c)' \/ (row' = row /\ ~Owes(c))
<1> USE DEF rows, jobs, history, notes
<1>1. CASE RequestNext(c) \/ \E s \in Shop : JobStart(c, s)
  BY <1>1 DEF RequestNext, ShelfStart, UnlistStart, RemoveStart, JobStart, IsIdle, Owes
<1>2. CASE EnqueueRead(c) \/ UnlistRead(c) \/ UnlistCard(c) \/ SyncWrite(c) \/ JobCleanup(c) \/ JobEnd(c)
  BY <1>2 DEF EnqueueRead, UnlistRead, UnlistCard, SyncWrite, JobCleanup, JobEnd, At, Owes
<1>3. CASE EnqueueWrite(c)
  <2>1. Moves(c, "enqueueWrite", {"idle", "enqueueAdd"})
    BY <1>3, HandlerMoves
  <2>2. Goto(c, "enqueueAdd") => call'[c].pc = "enqueueAdd"
    BY DEF Goto, Continue, TypeOK, Slots
  <2> QED BY <1>3, <2>1, <2>2 DEF EnqueueWrite, Owes, At
<1>4. CASE EnqueueAdd(c) \/ EnqueueRefused(c) \/ EnqueueFail(c) \/ JobList(c) \/ JobFail(c)
           \/ \E retry \in BOOLEAN : JobUploadFails(c, retry)
  <2>1. PICK from, to : Moves(c, from, to) /\ to \subseteq {"syncRead", "enqueueFail", "jobFail"}
    BY <1>4, HandlerMoves, JobMoves
  <2> QED BY <2>1 DEF Moves, Owes
<1>5. CASE UnlistWrite(c)
  <2>1. Goto(c, "syncRead") => call'[c].pc = "syncRead"
    BY DEF Goto, Continue, TypeOK, Slots
  <2> QED BY <1>5, <2>1 DEF UnlistWrite, Owes, At
<1>6. CASE JobMark(c)
  <2>1. CASE product = "DELETED"
    BY <1>6, <2>1 DEF JobMark, At, Owes
  <2>2. CASE product # "DELETED"
    <3>1. call'[c].pc = "jobUpload" /\ call'[c].shop = call[c].shop
      BY <1>6, <2>2 DEF JobMark, Goto, Continue, TypeOK, Slots
    <3>2. call[c].shop \in Shop
      BY <1>6, HasShop DEF JobMark, At
    <3>3. row'[call[c].shop] = "PROCESSING"
      BY <1>6, <2>2, <3>2 DEF JobMark, SetRow, TypeOK
    <3> QED BY <3>1, <3>3 DEF Owes
  <2> QED BY <2>1, <2>2
<1>7. CASE JobUpload(c)
  <2>1. Moves(c, "jobUpload", {"jobCheck"}) /\ row' = row
    BY <1>7, JobMoves DEF JobUpload
  <2> QED BY <2>1 DEF Moves, Owes, At
<1>8. CASE JobCheck(c)
  <2>1. CASE row[call[c].shop] = "UNLISTED"
    BY <1>8, <2>1 DEF JobCheck, At, Owes
  <2>2. CASE row[call[c].shop] # "UNLISTED"
    <3>1. call'[c].pc = "jobList"
      BY <1>8, <2>2 DEF JobCheck, Goto, Continue, TypeOK, Slots
    <3> QED BY <3>1 DEF Owes
  <2> QED BY <2>1, <2>2
<1> QED BY <1>1, <1>2, <1>3, <1>4, <1>5, <1>6, <1>7, <1>8 DEF HandlerNext, JobNext

\* The product changes when a summary is written, or when it is removed, for good.
LEMMA ProductBy ==
  ASSUME [Next]_vars
  PROVE  /\ (product' = product /\ summary' = summary) \/ \E c \in Call : SyncWrite(c) \/ RemoveWrite(c)
         /\ clash' = clash \/ \E c \in Call : SyncRead(c)
         /\ product = "DELETED" => product' = "DELETED"
<1> USE DEF notes
<1>1. ASSUME NEW c \in Call, RequestNext(c) PROVE product' = product /\ summary' = summary /\ clash' = clash
  BY <1>1 DEF RequestNext, ShelfStart, UnlistStart, RemoveStart
<1>2. ASSUME NEW c \in Call, HandlerNext(c), ~SyncRead(c), ~SyncWrite(c), ~RemoveWrite(c)
      PROVE product' = product /\ summary' = summary /\ clash' = clash
  BY <1>2 DEF HandlerNext, EnqueueRead, EnqueueWrite, EnqueueAdd, EnqueueRefused, EnqueueFail, UnlistRead, UnlistCard,
     UnlistWrite
<1>3. ASSUME NEW c \in Call, JobNext(c) PROVE product' = product /\ summary' = summary /\ clash' = clash
  BY <1>3 DEF JobNext, JobStart, JobMark, JobUpload, JobUploadFails, JobCheck, JobCleanup, JobList, JobFail, JobEnd
<1>4. CASE UNCHANGED vars \/ Restart \/ \E t \in Shop : ChangeStatus(t)
  BY <1>4 DEF ChangeStatus, Restart, vars
<1>5. \A c \in Call : /\ SyncRead(c) => product' = product /\ summary' = summary
                      /\ SyncWrite(c) => clash' = clash /\ (product = "DELETED" => product' = "DELETED")
                      /\ RemoveWrite(c) => clash' = clash /\ product' = "DELETED"
  BY DEF SyncRead, SyncWrite, RemoveWrite
<1> QED BY <1>1, <1>2, <1>3, <1>4, <1>5 DEF Next

\* The last reading of the rows is what the product shows, or is about to.
LEMMA SyncedStep == ASSUME TypeOK, Sorted, Gone, Synced, [Next]_vars PROVE Synced'
<1> SUFFICES ASSUME restarts' = 0, ~clash', product' # "DELETED", \A c \in Call : ~Owes(c)'
             PROVE  \/ Agrees(summary, product)' /\ \A c \in Call : ~At(c, "syncWrite")'
                    \/ \E c \in Call : /\ At(c, "syncWrite")' /\ \A d \in Call \ {c} : ~At(d, "syncWrite")'
                                       /\ Agrees(call[c].summary, call[c].product)'
  BY DEF Synced
<1>1. ~Restart /\ restarts = 0 /\ product # "DELETED"
  BY RestartsGrow, ProductBy DEF Restart, TypeOK
<1>2. ASSUME NEW c \in Call, SyncRead(c)
      PROVE  /\ At(c, "syncWrite")' /\ \A d \in Call \ {c} : ~At(d, "syncWrite")'
             /\ Agrees(call[c].summary, call[c].product)'
  <2>1. PICK status \in RowStatuses \cup {"NONE"} :
          /\ SummaryOf(status)
          /\ Continue(c, [call[c] EXCEPT !.pc = "syncWrite", !.summary = status, !.product = ShelfOf(product)])
    BY <1>1, <1>2 DEF SyncRead
  <2>2. /\ call'[c].pc = "syncWrite" /\ call'[c].summary = status /\ call'[c].product = ShelfOf(product)
        /\ \A d \in Call : d # c => call'[d] = call[d]
    BY <2>1 DEF Continue, TypeOK, Slots
  <2>3. \A d \in Call \ {c} : ~At(d, "syncWrite")
    BY <1>2 DEF SyncRead
  <2>4. SummaryOf(status)'
    BY <1>2, <2>1 DEF SyncRead, rows, SummaryOf
  <2>5. ShelfOf(product) = "ON_SHELF" <=> \E s \in Shop : row[s] = "LISTED"
    BY DEF ShelfOf
  <2>6. Agrees(call[c].summary, call[c].product)'
    BY <1>2, <2>2, <2>4, <2>5 DEF SyncRead, rows, Agrees, SummaryOf
  <2> QED BY <2>2, <2>3, <2>6 DEF At
<1>3. CASE \A c \in Call : ~SyncRead(c)
  <2>1. \A c \in Call : ~RemoveWrite(c)
    BY DEF RemoveWrite
  <2>2. row' = row /\ \A c \in Call : ~Owes(c)
    <3>1. CASE \E c \in Call : RequestNext(c) \/ HandlerNext(c) \/ JobNext(c)
      <4>1. PICK c \in Call : RequestNext(c) \/ HandlerNext(c) \/ JobNext(c)
        BY <3>1
      <4>2. row' = row /\ ~Owes(c)
        BY <1>3, <2>1, <4>1, OwingStep
      <4>3. \A d \in Call : d # c => call'[d] = call[d]
        <5>1. CASE RequestNext(c)
          BY <5>1, RequestMoves DEF RequestNext, Begins
        <5>2. CASE HandlerNext(c)
          <6>1. \E from, to : Moves(c, from, to)
            BY <5>2, HandlerMoves, SyncMoves DEF HandlerNext
          <6> QED BY <6>1 DEF Moves
        <5>3. CASE JobNext(c)
          <6>1. (\E s \in Shop : \E step, kind : Begins(c, step, kind, {s})) \/ \E from, to : Moves(c, from, to)
            BY <5>3, RequestMoves, JobMoves DEF JobNext
          <6> QED BY <6>1 DEF Moves, Begins
        <5> QED BY <4>1, <5>1, <5>2, <5>3
      <4>4. \A d \in Call : d # c => (Owes(d)' <=> Owes(d))
        BY <4>2, <4>3 DEF Owes
      <4> QED BY <4>2, <4>4
    <3>2. CASE UNCHANGED vars \/ \E t \in Shop : ChangeStatus(t)
      BY <3>2 DEF vars, rows, ChangeStatus, Owes
    <3> QED BY <1>1, <3>1, <3>2 DEF Next
  <2>3. clash' = clash
    BY <1>3, ProductBy
  <2>4. \/ Agrees(summary, product) /\ \A c \in Call : ~At(c, "syncWrite")
        \/ \E c \in Call : /\ At(c, "syncWrite") /\ \A d \in Call \ {c} : ~At(d, "syncWrite")
                           /\ Agrees(call[c].summary, call[c].product)
    BY <1>1, <2>2, <2>3 DEF Synced
  <2>5. \A c \in Call : At(c, "syncWrite")' => At(c, "syncWrite")
    BY <1>3, ArrivesBy DEF Arrives, At
  <2>6. CASE \E c \in Call : SyncWrite(c)
    <3>1. PICK c \in Call : SyncWrite(c)
      BY <2>6
    <3>2. At(c, "syncWrite") /\ product' = call[c].product /\ summary' = call[c].summary
      BY <1>1, <3>1 DEF SyncWrite
    <3>3. Agrees(call[c].summary, call[c].product) /\ \A d \in Call \ {c} : ~At(d, "syncWrite")
      BY <2>4, <3>2
    <3>4. ~At(c, "syncWrite")'
      BY <3>1, SyncMoves DEF Moves, At, AfterSyncSteps
    <3>5. Agrees(summary, product)'
      BY <2>2, <3>2, <3>3 DEF Agrees, SummaryOf
    <3> QED BY <2>5, <3>3, <3>4, <3>5
  <2>7. CASE \A c \in Call : ~SyncWrite(c)
    <3>1. product' = product /\ summary' = summary
      BY <2>1, <2>7, ProductBy
    <3>2. \A c \in Call : At(c, "syncWrite") => call'[c] = call[c]
      BY <1>1, <2>7, DepartsFrom
    <3>4. CASE Agrees(summary, product) /\ \A c \in Call : ~At(c, "syncWrite")
      <4>1. Agrees(summary, product)'
        BY <2>2, <3>1, <3>4 DEF Agrees, SummaryOf
      <4> QED BY <2>5, <3>4, <4>1
    <3>5. ASSUME NEW c \in Call, At(c, "syncWrite"), \A d \in Call \ {c} : ~At(d, "syncWrite"),
                 Agrees(call[c].summary, call[c].product)
          PROVE  /\ At(c, "syncWrite")' /\ \A d \in Call \ {c} : ~At(d, "syncWrite")'
                 /\ Agrees(call[c].summary, call[c].product)'
      <4>1. call'[c] = call[c]
        BY <3>2, <3>5
      <4>2. Agrees(call[c].summary, call[c].product)'
        BY <2>2, <3>5, <4>1 DEF Agrees, SummaryOf
      <4> QED BY <2>5, <3>5, <4>1, <4>2 DEF At
    <3> QED BY <2>4, <3>4, <3>5
  <2> QED BY <2>6, <2>7
<1> QED BY <1>2, <1>3

-----------------------------------------------------------------------------
(* The theorems.                                                           *)

\* The inductive invariant.
ListingInv ==
  /\ TypeOK /\ Sorted /\ OneHandler /\ Gone
  /\ Late /\ Withdrew /\ Unlisted /\ Uploaded /\ Listed /\ Queued /\ Synced

\* Nothing is listed at first, and nobody is at work.
LEMMA ListingInit == ASSUME Init PROVE ListingInv
<1>1. \A c \in Call : call[c] = Idle
  BY DEF Init
<1>2. \A c \in Call : call[c].pc = "idle" /\ call[c].kind = "none"
  BY <1>1, IdleSlot
<1>3. TypeOK
  BY IdleSlot DEF Init, TypeOK, Products, RowStatuses
<1>4. Sorted /\ OneHandler /\ Gone
  BY <1>2 DEF Init, Sorted, SortedSlot, OneHandler, OnJob, Gone, At, JobSteps
<1>5. Late /\ Withdrew /\ Unlisted /\ Uploaded /\ Listed /\ Queued
  BY <1>2 DEF Init, Late, Withdrew, Unlisted, Uploaded, Listed, Queued, At
<1>6. Synced
  <2>1. Agrees(summary, product)
    BY DEF Init, Agrees, SummaryOf, Busy
  <2> QED BY <1>2, <2>1 DEF Synced, At
<1> QED BY <1>3, <1>4, <1>5, <1>6 DEF ListingInv

\* Every step keeps the invariant.
LEMMA ListingNext == ASSUME ListingInv, [Next]_vars PROVE ListingInv'
<1>1. TypeOK' /\ Sorted' /\ OneHandler' /\ Gone'
  BY TypedStep, OneHandlerStep, GoneStep DEF ListingInv
<1>2. Late' /\ Withdrew' /\ Unlisted'
  BY LateStep, WithdrewStep, UnlistedStep DEF ListingInv
<1>3. Uploaded' /\ Listed' /\ Queued' /\ Synced'
  BY UploadedStep, ListedStep, QueuedStep, SyncedStep DEF ListingInv
<1> QED BY <1>1, <1>2, <1>3 DEF ListingInv

\* The inductive invariant of listings: what the handlers, the jobs and Wildberries
\* owe each other between their steps.
THEOREM ListingInvariant == Spec => []ListingInv
BY ListingInit, ListingNext, PTL DEF Spec

\* Rows, jobs and handlers stay in states the code knows.
THEOREM ListingTypes == Spec => []TypeOK
<1>1. ListingInv => TypeOK
  BY DEF ListingInv
<1> QED BY <1>1, ListingInvariant, PTL

\* A listing that shows QUEUED has a job in the queue once nobody works on it
\* (enqueueShopListing, and the worker that takes the job up), but for the gaps named.
THEOREM QueuedListingsHaveJobs == Spec => []QueuedHasJob
<1>1. ListingInv => QueuedHasJob
  <2> SUFFICES ASSUME ListingInv, NEW s \in Shop, restarts = 0, AtRest(s), row[s] = "QUEUED",
                      ~Open({"again", "closed"}, s)
               PROVE  job[s] = "queued"
    BY DEF QueuedHasJob
  <2> QED BY DEF ListingInv, Queued, AtRest, HandlerAt
<1> QED BY <1>1, ListingInvariant, PTL

\* What a row says of its card at Wildberries is so once nobody works on the listing,
\* but for the gaps named (processWbListing, unlistFromShop).
THEOREM RowsTellOfCards == Spec => []RowsMatchCards
<1>1. ListingInv => RowsMatchCards
  <2> SUFFICES ASSUME ListingInv, NEW s \in Shop, AtRest(s)
               PROVE  /\ row[s] = "LISTED" => (card[s] = "live" \/ Open({"late", "blind", "again", "halfway", "unanswered"}, s))
                      /\ (row[s] = "UNLISTED" /\ numbered[s]) =>
                           (card[s] # "live" \/ Open({"late", "blind", "cleanup", "halfway"}, s))
    BY DEF RowsMatchCards
  <2>1. \A steps : ~HandlerAt(s, steps)
    BY DEF AtRest, HandlerAt
  <2>2. row[s] = "LISTED" => (card[s] = "live" \/ Open({"late", "blind", "again", "halfway", "unanswered"}, s))
    BY <2>1 DEF ListingInv, Listed, Sure
  <2>3. (row[s] = "UNLISTED" /\ numbered[s]) =>
          (card[s] # "live" \/ Open({"late", "blind", "cleanup", "halfway"}, s))
    BY <2>1 DEF ListingInv, Unlisted
  <2> QED BY <2>2, <2>3
<1> QED BY <1>1, ListingInvariant, PTL

\* A listing taken off the shelf comes back only when somebody asks for it: no job
\* brings it back, unless it had looked before, or fails and overwrites the row.
THEOREM CancelledListingsStay == Spec => CancelSticks
<1>1. ASSUME ListingInv, [Next]_vars, NEW s \in Shop, row[s] = "UNLISTED", row'[s] # "UNLISTED"
      PROVE  row'[s] \in {"QUEUED", "ABSENT"} \/ Open({"late", "overwritten"}, s)'
  <2> USE DEF ListingInv
  <2>1. row'[s] \in RowStatuses \cup {"ABSENT"}
    BY <1>1, TypedStep DEF TypeOK
  <2>2. CASE \E c \in Call : JobFail(c) /\ s = call[c].shop
    <3>1. <<"overwritten", s>> \in gap'
      BY <1>1, <2>2 DEF JobFail, Opens
    <3> QED BY <3>1 DEF Open
  <2>3. CASE \E c \in Call : (JobMark(c) \/ JobList(c)) /\ s = call[c].shop
    <3>1. Open({"late"}, s)
      BY <1>1, <2>3 DEF Late, JobMark, JobList, At
    <3>2. Open({"late"}, s)'
      BY <1>1, <3>1, GapsGrow
    <3> QED BY <3>2 DEF Open
  <2> QED BY <1>1, <2>1, <2>2, <2>3, ChangedBy DEF RowStatuses
<1>2. ListingInv /\ [Next]_vars =>
        \A s \in Shop : (row[s] = "UNLISTED" /\ row'[s] # "UNLISTED") =>
          (row'[s] \in {"QUEUED", "ABSENT"} \/ Open({"late", "overwritten"}, s)')
  BY <1>1
<1> QED BY <1>2, ListingInvariant, PTL DEF Spec, CancelSticks

\* Removing a product (remove) forgets the number of no card that is for sale, but
\* for the gaps named.
THEOREM RemovalForgetsNoCard == Spec => RemoveKeepsKnown
<1>1. ASSUME ListingInv, [Next]_vars, product # "DELETED", product' = "DELETED",
             NEW s \in Shop, numbered[s], card[s] = "live"
      PROVE  Open({"late", "blind", "cleanup", "halfway", "outrun"}, s)'
  <2> USE DEF ListingInv
  <2>1. PICK c \in Call : SyncWrite(c) \/ RemoveWrite(c)
    BY <1>1, ProductBy
  <2>2. ~SyncWrite(c)
    BY <1>1 DEF SyncWrite, Gone
  <2>3. CASE ~Removable(s) \/ job[s] = "active"
    <3>1. <<"outrun", s>> \in gap'
      BY <2>1, <2>2, <2>3 DEF RemoveWrite
    <3> QED BY <3>1 DEF Open
  <2>4. CASE Removable(s) /\ job[s] # "active"
    <3>1. row[s] = "UNLISTED"
      BY <1>1, <2>4 DEF Removable, Gone, TypeOK, RowStatuses, Busy
    <3>2. ~HandlerAt(s, {"jobCheck", "jobCleanup", "jobFail"})
      BY <1>1, <2>4 DEF HandlerAt, OneHandler, OnJob, Sorted, SortedSlot, JobSteps
    <3>3. Open({"late", "blind", "cleanup", "halfway"}, s)
      BY <1>1, <3>1, <3>2 DEF Unlisted
    <3>4. Open({"late", "blind", "cleanup", "halfway"}, s)'
      BY <1>1, <3>3, GapsGrow
    <3> QED BY <3>4 DEF Open
  <2> QED BY <2>3, <2>4
<1>2. ListingInv /\ [Next]_vars =>
        ((product # "DELETED" /\ product' = "DELETED") =>
           \A s \in Shop : (numbered[s] /\ card[s] = "live") =>
             Open({"late", "blind", "cleanup", "halfway", "outrun"}, s)')
  BY <1>1
<1> QED BY <1>2, ListingInvariant, PTL DEF Spec, RemoveKeepsKnown

\* The product's own summary says what its listings say, once no handler is in
\* progress and the last two syncs did not overlap (syncProductListingSummary).
THEOREM SummariesAgree == Spec => []SummaryAgrees
<1>1. ListingInv => SummaryAgrees
  <2> SUFFICES ASSUME ListingInv, restarts = 0, ~clash, product # "DELETED", \A c \in Call : IsIdle(c)
               PROVE  SummaryOf(summary) /\ (product = "ON_SHELF" <=> \E s \in Shop : row[s] = "LISTED")
    BY DEF SummaryAgrees
  <2>1. \A c \in Call : ~Owes(c) /\ ~At(c, "syncWrite")
    BY DEF IsIdle, Owes, At
  <2> QED BY <2>1 DEF ListingInv, Synced, Agrees
<1> QED BY <1>1, ListingInvariant, PTL
=============================================================================
