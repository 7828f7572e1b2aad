----------------------------- MODULE WbCatalog ------------------------------
(***************************************************************************)
(* The catalogue cache every Wildberries adapter of a process shares: a    *)
(* bounded least-recently-used memory over files that other processes      *)
(* write too, and loadCatalogValue, which merges concurrent misses into    *)
(* one call upstream (wb-catalog.store.ts).                                *)
(***************************************************************************)
EXTENDS Integers, Sequences, SequencesExt, Lists

CONSTANTS
  Entry,        \* composite keys, kind|key
  Pinned,       \* those of directories and parent-subjects, which are never evicted
  Persisted,    \* those whose kind is kept on disk
  MaxEntries,   \* entries memory may hold
  Loader,       \* calls of loadCatalogValue in this process
  NoEntry,      \* stands for nothing
  MaxLoads      \* bound: calls begun and lives of an entry ended

ASSUME CatalogAssumptions ==
  /\ Pinned \subseteq Entry /\ Persisted \subseteq Entry /\ NoEntry \notin Entry \cup Loader
  /\ MaxEntries \in Nat \ {0} /\ MaxLoads \in Nat

VARIABLES
  recent,       \* memory's keys, least recently used first
  memory,       \* what memory holds of an entry: "none", "old" or "fresh"
  disk,         \* what its file holds
  inflight,     \* inflightLoads: who loads an entry, or NoEntry
  loader,       \* the calls
  doomed,       \* entries whose files the sweep found old and has not deleted yet
  loads,        \* calls begun and lives ended
  filled        \* history: entries memory has from a file

catalogVars == <<recent, memory, disk, inflight, loader, doomed, loads, filled>>

LoaderAt(c, step) == loader[c].pc = step
LoaderTo(c, step) == loader' = [loader EXCEPT ![c].pc = step]
Without(s, e) == Sublist(s, {i \in DOMAIN s : s[i] # e})

\* Evict from the least recently used on, past what is pinned, until memory fits:
\* in entries, the bound in bytes is left out.
Evicted(s) ==
  LET over == IF Len(s) > MaxEntries THEN Len(s) - MaxEntries ELSE 0
      loose == Sublist(s, {i \in DOMAIN s : s[i] \notin Pinned})
  IN ToSet(SubSeq(loose, 1, IF over < Len(loose) THEN over ELSE Len(loose)))

\* MemoryWbCatalogStore.write
MemoryWrite(e, age) ==
  LET written == Append(Without(recent, e), e)
      gone == Evicted(written)
  IN /\ recent' = Sublist(written, {i \in DOMAIN written : written[i] \notin gone})
     /\ memory' = [x \in Entry |-> IF x \in gone THEN "none" ELSE IF x = e THEN age ELSE memory[x]]

\* What loadCatalogValue does with the entry a read came back with: the first
\* read makes way for a load already under way, or registers its own.
AfterRead(c, age) ==
  LET e == loader[c].entry IN
  IF age = "fresh"
  THEN /\ LoaderTo(c, IF loader[c].second THEN "settling" ELSE "idle")
       /\ UNCHANGED inflight
  ELSE IF loader[c].second THEN LoaderTo(c, "loading") /\ UNCHANGED inflight
  ELSE IF inflight[e] # NoEntry THEN LoaderTo(c, "waiting") /\ UNCHANGED inflight
  ELSE /\ inflight' = [inflight EXCEPT ![e] = c]
       /\ loader' = [loader EXCEPT ![c].pc = "memory", ![c].second = TRUE]

\* Mutant: the load begins without a second look at the cache.
AfterReadOnce(c, age) ==
  LET e == loader[c].entry IN
  IF age = "fresh" THEN LoaderTo(c, "idle") /\ UNCHANGED inflight
  ELSE IF inflight[e] # NoEntry THEN LoaderTo(c, "waiting") /\ UNCHANGED inflight
  ELSE inflight' = [inflight EXCEPT ![e] = c] /\ LoaderTo(c, "loading")

NextRead(c, age) == AfterRead(c, age)

LoadCatalogValue(c, e) ==
  /\ LoaderAt(c, "idle") /\ loads < MaxLoads /\ loads' = loads + 1
  /\ loader' = [loader EXCEPT ![c] = [pc |-> "memory", entry |-> e, second |-> FALSE, read |-> "none"]]
  /\ UNCHANGED <<recent, memory, disk, inflight, doomed, filled>>

\* The first layer; a hit, however old, ends the layered read and is used last.
ReadMemory(c) ==
  LET e == loader[c].entry IN
  /\ LoaderAt(c, "memory")
  /\ IF memory[e] = "none"
     THEN LoaderTo(c, "disk") /\ UNCHANGED <<recent, inflight>>
     ELSE recent' = Append(Without(recent, e), e) /\ NextRead(c, memory[e])
  /\ UNCHANGED <<memory, disk, doomed, loads, filled>>

\* The second layer ...
ReadDisk(c) ==
  LET e == loader[c].entry IN
  /\ LoaderAt(c, "disk")
  /\ IF e \notin Persisted \/ disk[e] = "none"
     THEN NextRead(c, "none")
     ELSE /\ loader' = [loader EXCEPT ![c].pc = "backfill", ![c].read = disk[e]]
          /\ UNCHANGED inflight
  /\ UNCHANGED <<recent, memory, disk, doomed, loads, filled>>

\* ... whose hit is written to memory with its own age, over whatever came there meanwhile.
BackFill(c) ==
  /\ LoaderAt(c, "backfill")
  /\ MemoryWrite(loader[c].entry, loader[c].read)
  /\ NextRead(c, loader[c].read) /\ filled' = filled \cup {loader[c].entry}
  /\ UNCHANGED <<disk, doomed, loads>>

\* A value, or the empty one that stands for a failed lookup, goes to memory at
\* once and to the file a little later.
LoadOk(c) ==
  /\ LoaderAt(c, "loading")
  /\ MemoryWrite(loader[c].entry, "fresh") /\ LoaderTo(c, "storing")
  /\ filled' = filled \ {loader[c].entry}
  /\ UNCHANGED <<disk, inflight, doomed, loads>>

\* The file may be too large or its write may fail: nobody is told.
Store(c, written) ==
  LET e == loader[c].entry IN
  /\ LoaderAt(c, "storing") /\ (written => e \in Persisted)
  /\ disk' = IF written THEN [disk EXCEPT ![e] = "fresh"] ELSE disk
  /\ LoaderTo(c, "settling")
  /\ UNCHANGED <<recent, memory, inflight, doomed, loads, filled>>

\* The load ends, well or badly: those who waited have its outcome.
Settle(c) ==
  LET e == loader[c].entry IN
  /\ LoaderAt(c, "settling") \/ LoaderAt(c, "loading")
  /\ inflight' = [inflight EXCEPT ![e] = NoEntry]
  /\ loader' = [d \in Loader |->
       IF d = c \/ (LoaderAt(d, "waiting") /\ loader[d].entry = e)
       THEN [loader[d] EXCEPT !.pc = "idle"] ELSE loader[d]]
  /\ UNCHANGED <<recent, memory, disk, doomed, loads, filled>>

\* An entry outlives its time to live in every copy.
Expire(e) ==
  LET Aged(age) == IF age = "fresh" THEN "old" ELSE age IN
  /\ loads < MaxLoads /\ loads' = loads + 1
  /\ memory' = [memory EXCEPT ![e] = Aged(@)] /\ disk' = [disk EXCEPT ![e] = Aged(@)]
  /\ loader' = [c \in Loader |-> IF loader[c].entry = e THEN [loader[c] EXCEPT !.read = Aged(@)] ELSE loader[c]]
  /\ UNCHANGED <<recent, inflight, doomed, filled>>

\* Another process loads the entry and writes the file.
OtherProcess(e) ==
  /\ e \in Persisted /\ loads < MaxLoads /\ loads' = loads + 1
  /\ disk' = [disk EXCEPT ![e] = "fresh"]
  /\ UNCHANGED <<recent, memory, inflight, loader, doomed, filled>>

\* The sweep a new process begins with deletes what it found old, whatever is there by then.
SweepRead(e) ==
  /\ disk[e] = "old" /\ doomed' = doomed \cup {e}
  /\ UNCHANGED <<recent, memory, disk, inflight, loader, loads, filled>>
SweepUnlink(e) ==
  /\ e \in doomed /\ doomed' = doomed \ {e} /\ disk' = [disk EXCEPT ![e] = "none"]
  /\ UNCHANGED <<recent, memory, inflight, loader, loads, filled>>

CatalogInit ==
  /\ recent = <<>> /\ memory = [e \in Entry |-> "none"] /\ doomed = {} /\ loads = 0 /\ filled = {}
  /\ disk \in [Entry -> {"none", "old"}] /\ \A e \in Entry \ Persisted : disk[e] = "none"
  /\ inflight = [e \in Entry |-> NoEntry]
  /\ loader = [c \in Loader |-> [pc |-> "idle", entry |-> NoEntry, second |-> FALSE, read |-> "none"]]

CatalogNext ==
  \/ \E c \in Loader :
       \/ \E e \in Entry : LoadCatalogValue(c, e)
       \/ ReadMemory(c) \/ ReadDisk(c) \/ BackFill(c) \/ LoadOk(c) \/ Settle(c)
       \/ \E written \in BOOLEAN : Store(c, written)
  \/ \E e \in Entry : Expire(e) \/ OtherProcess(e) \/ SweepRead(e) \/ SweepUnlink(e)

CatalogSpec == CatalogInit /\ [][CatalogNext]_catalogVars

\* The variables stay in their types, memory's two parts agree, and memory fits
\* but for what is pinned.
CatalogTypeOK ==
  /\ memory \in [Entry -> {"none", "old", "fresh"}] /\ disk \in [Entry -> {"none", "old", "fresh"}]
  /\ ToSet(recent) = {e \in Entry : memory[e] # "none"} /\ IsInjective(recent)
  /\ Len(recent) <= MaxEntries \/ ToSet(recent) \subseteq Pinned
  /\ inflight \in [Entry -> Loader \cup {NoEntry}] /\ doomed \cup filled \subseteq Entry /\ loads \in 0..MaxLoads
  /\ loader \in [Loader -> [pc : {"idle", "memory", "disk", "backfill", "waiting", "loading", "storing", "settling"},
                            entry : Entry \cup {NoEntry}, second : BOOLEAN, read : {"none", "old", "fresh"}]]

Loading(e) == {c \in Loader : loader[c].entry = e /\ loader[c].pc \in {"loading", "storing"}}
\* An entry is loaded by one call at a time, "concurrent misses call upstream
\* once" (wb-catalog.store.spec.ts 60), and a load that ended between a call's
\* first miss and its own turn spares it the load: what a load put into memory
\* is not loaded again while it is there and fresh.
LoadedOnce ==
  [][\A c \in Loader : (~LoaderAt(c, "loading") /\ loader'[c].pc = "loading") =>
       LET e == loader[c].entry IN
       /\ Loading(e) = {} /\ inflight'[e] = c
       /\ memory[e] = "fresh" => e \in filled]_catalogVars
=============================================================================
