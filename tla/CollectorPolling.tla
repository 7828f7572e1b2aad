------------------------- MODULE CollectorPolling -------------------------
(***************************************************************************)
(* The service worker of the collector extension                           *)
(* (apps/collector-extension/background.js): the poll loop the popup        *)
(* starts and stops, the one-minute alarm, the lock they share             *)
(* (pollBusy, pollStartedAt, pollGeneration), the items a poll claims and  *)
(* works on, the tabs it opens and the stored list of those tabs, and the  *)
(* worker's death and restart at any await.                                *)
(*                                                                         *)
(* A step runs from one await to the next.  pollGeneration is abstracted   *)
(* to whether a poll's number is still the latest one; pollStartedAt to    *)
(* unset, recent, and older than POLL_STUCK_MS.  What a page yields and    *)
(* what the server makes of the answer are CrawlerTask's business: here an *)
(* item is owed an answer until the call that answers it was made, also    *)
(* while the worker has forgotten it.                                      *)
(***************************************************************************)
EXTENDS Integers, FiniteSets

CONSTANTS
  Poll,       \* invocations of pollOnce that can run at the same time
  Tab,        \* browser tabs
  Item,       \* collection items the server hands out
  MaxLoops    \* bound on the poll loops waiting for their timer

ASSUME PollingAssumptions == IsFiniteSet(Poll) /\ MaxLoops \in Nat

VARIABLES
  polling, saved,       \* the flag in memory; its copy in storage
  alarm,                \* the one-minute alarm exists
  loops,                \* armed timers of pollLoop
  busy, clock,          \* pollBusy; pollStartedAt: "unset", "recent", "stuck"
  poll,                 \* per invocation: [at, loop, latest, overrun]
  job,                  \* per invocation, its first and second item
  startup, starting,    \* progress of the worker's own start; of a START
  open, listed,         \* crawl tabs that exist; the stored list of them
  owed, forgotten       \* items claimed and not answered; those nothing here works on

pollVars == <<polling, saved, alarm, loops, busy, clock, poll, job, startup,
              starting, open, listed, owed, forgotten>>

Slot == 1..2
Kinds == {"product", "listing", "mock"}
NoPoll == [at |-> "off", loop |-> FALSE, latest |-> FALSE, overrun |-> FALSE]
NoJob == [at |-> "none"]
Jobs(i, k) == [at |-> IF k = "mock" THEN "answer" ELSE "open", item |-> i]
Active(p) == poll[p].at \in {"claim", "second", "run"}

PollingInit ==
  /\ polling = FALSE /\ saved = FALSE /\ alarm = FALSE /\ loops = 0
  /\ busy = FALSE /\ clock = "unset"
  /\ poll = [p \in Poll |-> NoPoll]
  /\ job = [p \in Poll |-> [s \in Slot |-> NoJob]]
  /\ startup = "read" /\ starting = "no"
  /\ open = {} /\ listed = {} /\ owed = {} /\ forgotten = {}

-----------------------------------------------------------------------------
(* The lock: pollOnce up to its first await, and its finally. *)

\* The poll with the latest generation, every other one outdated.
Latest(p, now) == [q \in Poll |-> IF q = p THEN now ELSE [poll[q] EXCEPT !.latest = FALSE]]

\* Forced, it runs over those still at work.
Enter(p, loop, force) ==
  /\ poll' = [q \in Poll |->
       IF q = p THEN [at |-> "claim", loop |-> loop, latest |-> TRUE, overrun |-> FALSE]
       ELSE [poll[q] EXCEPT !.latest = FALSE, !.overrun = @ \/ (force /\ Active(q))]]
  /\ busy' = TRUE /\ clock' = "recent"

\* A stuck poll is outdated first; the lock is taken only after the sweep.
PollOnce(p, loop) ==
  /\ poll[p].at = "off"
  /\ \/ ~busy /\ Enter(p, loop, FALSE)
     \/ /\ busy /\ clock = "stuck"
        /\ poll' = Latest(p, [at |-> "sweep", loop |-> loop, latest |-> FALSE, overrun |-> FALSE])
        /\ UNCHANGED <<busy, clock>>
  /\ UNCHANGED <<polling, saved, alarm, job, startup, starting, open, listed, owed, forgotten>>

\* sweepCrawlTabs closes what the list names, then empties the list.
Sweep(p) ==
  /\ poll[p].at = "sweep"
  /\ open' = open \ listed
  /\ poll' = [poll EXCEPT ![p].at = "swept"]
  /\ UNCHANGED <<polling, saved, alarm, loops, busy, clock, job, startup, starting, listed, owed, forgotten>>

Unlock(p) ==
  /\ poll[p].at = "swept"
  /\ listed' = {}
  /\ Enter(p, poll[p].loop, TRUE)
  /\ UNCHANGED <<polling, saved, alarm, loops, job, startup, starting, open, owed, forgotten>>

\* Mutant: a poll releases the lock whoever has it now.
LeavePollUnguarded(p) ==
  /\ busy' = FALSE /\ clock' = "unset"
  /\ poll' = [poll EXCEPT ![p] = NoPoll]
  /\ job' = [job EXCEPT ![p] = [s \in Slot |-> NoJob]]
  /\ loops' = IF poll[p].loop /\ polling THEN loops + 1 ELSE loops
  /\ UNCHANGED <<polling, saved, alarm, startup, starting, open, listed>>

\* An outdated poll leaves the lock alone; a loop's poll arms the next turn.
LeavePoll(p) ==
  /\ IF poll[p].latest THEN busy' = FALSE /\ clock' = "unset" ELSE UNCHANGED <<busy, clock>>
  /\ poll' = [poll EXCEPT ![p] = NoPoll]
  /\ job' = [job EXCEPT ![p] = [s \in Slot |-> NoJob]]
  /\ loops' = IF poll[p].loop /\ polling THEN loops + 1 ELSE loops
  /\ UNCHANGED <<polling, saved, alarm, startup, starting, open, listed>>

StuckNow ==
  /\ clock = "recent"
  /\ clock' = "stuck"
  /\ UNCHANGED <<polling, saved, alarm, loops, busy, poll, job, startup, starting, open, listed, owed, forgotten>>

-----------------------------------------------------------------------------
(* Claiming, and the work on what was claimed. *)

Run(p, first, second) ==
  /\ poll' = [poll EXCEPT ![p].at = "run"]
  /\ job' = [job EXCEPT ![p] = [s \in Slot |-> IF s = 1 THEN first ELSE second]]

\* The server hands out what it does not await an answer for, and again what was
\* forgotten, once its lease is over.
Offered == (Item \ owed) \cup forgotten
Promise(i) == owed' = owed \cup {i} /\ forgotten' = forgotten \ {i}

\* The first claim: nothing to do, a failed call, or an item; a listing or a
\* mock link is worked on alone.
Claim(p) ==
  /\ poll[p].at = "claim"
  /\ \/ LeavePoll(p) /\ UNCHANGED <<owed, forgotten>>
     \/ \E i \in Offered, k \in Kinds :
          /\ Promise(i)
          /\ IF k = "product"
             THEN /\ poll' = [poll EXCEPT ![p].at = "second"]
                  /\ job' = [job EXCEPT ![p][1] = Jobs(i, k)]
             ELSE Run(p, Jobs(i, k), NoJob)
          /\ UNCHANGED <<polling, saved, alarm, loops, busy, clock, startup, starting, open, listed>>

\* The second claim: two products run side by side, anything else after the
\* first.  A failed call throws out of the poll and the first item is forgotten.
ClaimSecond(p) ==
  /\ poll[p].at = "second"
  /\ \/ /\ LeavePoll(p)
        /\ forgotten' = forgotten \cup {job[p][1].item} /\ UNCHANGED owed
     \/ /\ \/ Run(p, job[p][1], NoJob) /\ UNCHANGED <<owed, forgotten>>
           \/ \E i \in Offered, k \in Kinds :
                /\ Promise(i)
                /\ Run(p, job[p][1],
                       IF k = "product" THEN Jobs(i, k)
                       ELSE [at |-> "wait", item |-> i, next |-> Jobs(i, k)])
        /\ UNCHANGED <<polling, saved, alarm, loops, busy, clock, startup, starting, open, listed>>

At(p, s, at) == poll[p].at = "run" /\ job[p][s].at = at
Move(p, s, new) ==
  /\ job' = [job EXCEPT ![p][s] = new]
  /\ UNCHANGED <<polling, saved, alarm, loops, busy, clock, poll, startup, starting>>

TakeSecond(p) ==
  /\ At(p, 2, "wait") /\ job[p][1].at = "none"
  /\ Move(p, 2, job[p][2].next)
  /\ UNCHANGED <<open, listed, owed, forgotten>>

\* A tab id is never given out again while anything still refers to it.
FreeTab == {t \in Tab : t \notin open \cup listed /\
           \A p \in Poll, s \in Slot : job[p][s].at \in {"note", "page", "drop"} =>
             t \notin {job[p][s].tab} \cup job[p][s].ids}

\* openCrawlTab creates the tab and reads the list it will add the tab to.
Open(p, s) ==
  /\ At(p, s, "open")
  /\ \/ \E t \in FreeTab :
          /\ open' = open \cup {t}
          /\ Move(p, s, [at |-> "note", item |-> job[p][s].item, tab |-> t, ids |-> listed])
          /\ UNCHANGED <<listed, owed, forgotten>>
     \/ /\ Move(p, s, [at |-> "answer", item |-> job[p][s].item])
        /\ UNCHANGED <<open, listed, owed, forgotten>>

Note(p, s) ==
  /\ At(p, s, "note")
  /\ listed' = job[p][s].ids \cup {job[p][s].tab}
  /\ Move(p, s, [job[p][s] EXCEPT !.at = "page", !.ids = {}])
  /\ UNCHANGED <<open, owed, forgotten>>

\* The page was read, or its time is over: closeCrawlTab, whatever came of it.
Close(p, s) ==
  /\ At(p, s, "page")
  /\ open' = open \ {job[p][s].tab}
  /\ Move(p, s, [job[p][s] EXCEPT !.at = "drop", !.ids = listed])
  /\ UNCHANGED <<listed, owed, forgotten>>

Drop(p, s) ==
  /\ At(p, s, "drop")
  /\ listed' = job[p][s].ids \ {job[p][s].tab}
  /\ Move(p, s, [at |-> "answer", item |-> job[p][s].item])
  /\ UNCHANGED <<open, owed, forgotten>>

\* The result is posted; if that fails a failure is, and if that fails too
\* nothing more is tried.
Answer(p, s) ==
  /\ At(p, s, "answer")
  /\ owed' = owed \ {job[p][s].item}
  /\ Move(p, s, NoJob)
  /\ UNCHANGED <<open, listed, forgotten>>

Done(p) ==
  /\ poll[p].at = "run" /\ \A s \in Slot : job[p][s] = NoJob
  /\ LeavePoll(p) /\ UNCHANGED <<owed, forgotten>>

-----------------------------------------------------------------------------
(* The loop, the alarm, the popup's messages, and the worker's life. *)

\* A turn of pollLoop; a busy lock only arms the next one.
LoopTurn(p) ==
  /\ loops > 0 /\ polling
  /\ PollOnce(p, TRUE) /\ loops' = loops - 1

\* A failed heartbeat is caught, and the next turn armed.
LoopFails == loops > 0 /\ polling /\ UNCHANGED pollVars

LoopEnds ==
  /\ loops > 0 /\ ~polling
  /\ loops' = loops - 1
  /\ UNCHANGED <<polling, saved, alarm, busy, clock, poll, job, startup, starting, open, listed, owed, forgotten>>

AlarmFires(p) == alarm /\ polling /\ PollOnce(p, FALSE) /\ UNCHANGED loops

Start ==
  /\ starting = "no" /\ startup = "up"
  /\ polling' = TRUE /\ saved' = TRUE /\ starting' = "sweep"
  /\ UNCHANGED <<alarm, loops, busy, clock, poll, job, startup, open, listed, owed, forgotten>>

StartSweeps ==
  /\ starting = "sweep"
  /\ open' = open \ listed /\ starting' = "swept"
  /\ UNCHANGED <<polling, saved, alarm, loops, busy, clock, poll, job, startup, listed, owed, forgotten>>

Started ==
  /\ starting = "swept" /\ loops < MaxLoops
  /\ listed' = {} /\ alarm' = TRUE /\ loops' = loops + 1 /\ starting' = "no"
  /\ UNCHANGED <<polling, saved, busy, clock, poll, job, startup, open, owed, forgotten>>

Stop ==
  /\ polling' = FALSE /\ saved' = FALSE /\ alarm' = FALSE
  /\ UNCHANGED <<loops, busy, clock, poll, job, startup, starting, open, listed, owed, forgotten>>

\* Chrome ends the worker: memory is gone, tabs and storage are not, and the
\* items it owed are the server's to requeue.
Die ==
  /\ polling' = FALSE /\ loops' = 0 /\ busy' = FALSE /\ clock' = "unset"
  /\ poll' = [p \in Poll |-> NoPoll]
  /\ job' = [p \in Poll |-> [s \in Slot |-> NoJob]]
  /\ starting' = "no" /\ startup' = "read" /\ owed' = {} /\ forgotten' = {}
  /\ UNCHANGED <<saved, alarm, open, listed>>

\* The worker starts: the saved flag is read, leftover tabs are swept, and
\* polling resumes if the flag was set when it was read.
Startup ==
  /\ startup = "read"
  /\ startup' = IF saved THEN "resume" ELSE "rest"
  /\ open' = open \ listed
  /\ UNCHANGED <<polling, saved, alarm, loops, busy, clock, poll, job, starting, listed, owed, forgotten>>

Resume ==
  /\ startup \in {"resume", "rest"} /\ loops < MaxLoops
  /\ listed' = {} /\ startup' = "up"
  /\ IF startup = "resume"
     THEN polling' = TRUE /\ alarm' = TRUE /\ loops' = loops + 1
     ELSE UNCHANGED <<polling, alarm, loops>>
  /\ UNCHANGED <<saved, busy, clock, poll, job, starting, open, owed, forgotten>>

PollingNext ==
  \/ \E p \in Poll :
       \/ LoopTurn(p) \/ AlarmFires(p) \/ Sweep(p) \/ Unlock(p)
       \/ Claim(p) \/ ClaimSecond(p) \/ TakeSecond(p) \/ Done(p)
       \/ \E s \in Slot : Open(p, s) \/ Note(p, s) \/ Close(p, s) \/ Drop(p, s) \/ Answer(p, s)
  \/ StuckNow \/ LoopFails \/ LoopEnds \/ Start \/ StartSweeps \/ Started \/ Stop
  \/ Die \/ Startup \/ Resume

PollingSpec == PollingInit /\ [][PollingNext]_pollVars

-----------------------------------------------------------------------------
PollingTypeOK ==
  /\ {polling, saved, alarm, busy} \subseteq BOOLEAN /\ loops \in 0..(MaxLoops + Cardinality(Poll))
  /\ clock \in {"unset", "recent", "stuck"}
  /\ poll \in [Poll -> [at : {"off", "sweep", "swept", "claim", "second", "run"},
                        loop : BOOLEAN, latest : BOOLEAN, overrun : BOOLEAN]]
  /\ \A p \in Poll, s \in Slot :
       job[p][s].at \in {"none", "wait", "open", "note", "page", "drop", "answer"}
  /\ startup \in {"read", "resume", "rest", "up"} /\ starting \in {"no", "sweep", "swept"}
  /\ open \subseteq Tab /\ listed \subseteq Tab
  /\ owed \subseteq Item /\ forgotten \subseteq Item

\* The lock is never lost and never orphaned, whatever stuck poll comes back
\* late: while the poll with the latest number works the lock is taken, and
\* while the lock is taken some poll will release it (background.js 999-1020).
LockMatchesPoll ==
  /\ \A p \in Poll : Active(p) /\ poll[p].latest => busy
  /\ busy => \E p \in Poll : poll[p].at \in {"sweep", "swept"} \/ (Active(p) /\ poll[p].latest)

\* Two polls, of two loops or of a loop and the alarm, are at work at once only if
\* the lock was found stuck and taken over from one of them (background.js 999-1020).
OneAtWork ==
  \A p, q \in Poll : Active(p) /\ Active(q) /\ p # q => poll[p].overrun \/ poll[q].overrun

\* Polling that was switched on keeps a loop going through failed heartbeats,
\* errors and restarts of the worker (background.js 1041-1052, 1129-1135).
LoopSurvives ==
  polling => \/ loops > 0
             \/ \E p \in Poll : poll[p].loop
             \/ starting # "no" \/ startup # "up"

\* An item the worker claimed is being worked on until an answer for it was
\* tried, but for the first item of a poll whose second claim failed, which gets no
\* answer before the server hands it out anew (background.js 1022-1039).
ItemsAnswered ==
  owed \ forgotten \subseteq
    {job[w[1]][w[2]].item : w \in {v \in Poll \X Slot : job[v[1]][v[2]] # NoJob}}

\* The worker keeps its lock, its loop and its promises through stuck polls, failed
\* calls and deaths, and two polls apart (pollOnce and pollLoop).
PollingHolds == LockMatchesPoll /\ OneAtWork /\ LoopSurvives /\ ItemsAnswered
============================================================================
