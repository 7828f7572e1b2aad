--------------------------- MODULE CategoryMapping ---------------------------
(***************************************************************************)
(* What a tenant remembers about one Ozon category: the Wildberries        *)
(* subject it maps to, set by an operator or learned from listings         *)
(* (WbCategoryMappingService).  A listing job resolves the category before *)
(* it lists and writes back what it used afterwards; that write reads the  *)
(* row first, and an operator may save or delete it in between.            *)
(***************************************************************************)
EXTENDS Integers

CONSTANTS
  Subject,      \* Wildberries subjects
  Unmapped,     \* stands for no row and for no subject
  Lister,       \* listing jobs at work
  MaxMapped     \* bound: rows created and listings begun

Sizes == {"unknown", "sized", "plain"}
MappingRows == [id : 0..(MaxMapped - 1), subject : Subject, source : {"MANUAL", "LEARNED", "AUTO"},
                size : Sizes, error : BOOLEAN]

ASSUME MappingAssumptions == Unmapped \notin Subject \cup MappingRows /\ MaxMapped \in Nat

VARIABLES
  mapping,      \* the row, or Unmapped
  lister,       \* the jobs
  mapped,       \* rows created and listings begun; a row's id
  byHand,       \* history: the subject of the last manual save still standing
  crossed       \* history: a manual save landed between a job's read and its write

mappingVars == <<mapping, lister, mapped, byHand, crossed>>

Resting == [pc |-> "idle", subject |-> Unmapped, size |-> "unknown", learned |-> FALSE, row |-> Unmapped]

IdOf(row) == IF row = Unmapped THEN MaxMapped ELSE row.id
ListerAt(l, step) == lister[l].pc = step
MappingCount == mapped < MaxMapped /\ mapped' = mapped + 1

\* resolve hints at the row's subject, but the job may list under another one: a
\* card already made keeps its own.  It learned something if the card needed repairs.
Resolve(l, subject, size, learned) ==
  /\ ListerAt(l, "idle") /\ MappingCount
  /\ lister' = [lister EXCEPT ![l] = [pc |-> "listing", subject |-> subject, size |-> size,
                                      learned |-> learned, row |-> Unmapped]]
  /\ UNCHANGED <<mapping, byHand, crossed>>

\* A listing that fails, before or after it remembers, leaves its error on the row if there is one.
RecordFailure(l) ==
  /\ ListerAt(l, "listing") \/ ListerAt(l, "listed")
  /\ mapping' = IF mapping = Unmapped THEN mapping ELSE [mapping EXCEPT !.error = TRUE]
  /\ lister' = [lister EXCEPT ![l] = Resting]
  /\ UNCHANGED <<mapped, byHand, crossed>>

Listed(l) ==
  /\ ListerAt(l, "listed")
  /\ lister' = [lister EXCEPT ![l] = Resting]
  /\ UNCHANGED <<mapping, mapped, byHand, crossed>>

\* remember: findUnique ...
RememberRead(l) ==
  /\ ListerAt(l, "listing")
  /\ lister' = [lister EXCEPT ![l].pc = "write", ![l].row = mapping]
  /\ UNCHANGED <<mapping, mapped, byHand, crossed>>

Source(l) == IF lister[l].learned THEN "LEARNED" ELSE "AUTO"

\* Mutant: a manual row is learned over like any other.
RememberedOver(l) ==
  LET job == lister[l] IN
  [mapping EXCEPT !.subject = job.subject, !.source = Source(l), !.error = FALSE,
                  !.size = job.size]

\* The update as the row that was read decides it.
Remembered(l) ==
  LET job == lister[l]
      keepSubject == job.row.source = "MANUAL"
  IN [mapping EXCEPT
        !.subject = IF keepSubject THEN @ ELSE job.subject,
        !.size = job.size,
        !.source = IF keepSubject \/ (job.row.source = "LEARNED" /\ ~job.learned) THEN @ ELSE Source(l),
        !.error = FALSE]

\* ... then create, or update by id.  A row made or deleted meanwhile fails
\* the write, which is logged and forgotten.
RememberWrite(l) ==
  LET job == lister[l] IN
  /\ ListerAt(l, "write")
  /\ \/ /\ job.row = Unmapped /\ mapping = Unmapped /\ MappingCount
        /\ mapping' = [id |-> mapped, subject |-> job.subject, source |-> Source(l),
                       size |-> job.size, error |-> FALSE]
     \/ /\ job.row # Unmapped /\ IdOf(job.row) = IdOf(mapping)
        /\ mapping' = Remembered(l) /\ UNCHANGED mapped
     \/ /\ IdOf(job.row) # IdOf(mapping)
        /\ UNCHANGED <<mapping, mapped>>
  /\ lister' = [lister EXCEPT ![l] = [Resting EXCEPT !.pc = "listed"]]
  /\ UNCHANGED <<byHand, crossed>>

\* An operator saves a mapping: one atomic upsert.  A save that names no size keeps the row's.
UpsertMapping(subject, size) ==
  /\ mapping = Unmapped => MappingCount
  /\ mapping # Unmapped => UNCHANGED mapped
  /\ mapping' = IF mapping = Unmapped
                THEN [id |-> mapped, subject |-> subject, source |-> "MANUAL", size |-> size, error |-> FALSE]
                ELSE [mapping EXCEPT !.subject = subject, !.source = "MANUAL", !.error = FALSE,
                                     !.size = IF size = "unknown" THEN @ ELSE size]
  /\ byHand' = subject
  /\ crossed' = (crossed \/ \E l \in Lister : ListerAt(l, "write"))
  /\ UNCHANGED lister

RemoveMapping ==
  /\ mapping # Unmapped /\ mapping' = Unmapped /\ byHand' = Unmapped
  /\ UNCHANGED <<lister, mapped, crossed>>

MappingInit ==
  /\ mapping = Unmapped /\ byHand = Unmapped /\ crossed = FALSE
  /\ lister = [l \in Lister |-> Resting] /\ mapped = 0

MappingNext ==
  \/ \E subject \in Subject, size \in Sizes : UpsertMapping(subject, size)
  \/ RemoveMapping
  \/ \E l \in Lister :
       \/ \E subject \in Subject, size \in {"sized", "plain"}, learned \in BOOLEAN :
            Resolve(l, subject, size, learned)
       \/ RecordFailure(l) \/ Listed(l) \/ RememberRead(l) \/ RememberWrite(l)

MappingSpec == MappingInit /\ [][MappingNext]_mappingVars

\* The variables stay in their types.
MappingTypeOK ==
  /\ mapping \in MappingRows \cup {Unmapped}
  /\ lister \in [Lister -> [pc : {"idle", "listing", "write", "listed"}, subject : Subject \cup {Unmapped},
                            size : Sizes, learned : BOOLEAN, row : MappingRows \cup {Unmapped}]]
  /\ \A l \in Lister : lister[l].pc \in {"listing", "write"} => lister[l].subject \in Subject
  /\ mapped \in 0..MaxMapped /\ byHand \in Subject \cup {Unmapped} /\ crossed \in BOOLEAN

\* What an operator mapped by hand stands until an operator changes it, whatever
\* the jobs learn meanwhile (wb-category-mapping.service.ts 135-138), except
\* when the save crossed a job that had already read the row.
ManualStands ==
  (byHand # Unmapped /\ ~crossed) =>
    /\ mapping # Unmapped
    /\ mapping.subject = byHand /\ mapping.source = "MANUAL"
=============================================================================
