-------------------------- MODULE Platform_proofs --------------------------
(***************************************************************************)
(* Proofs about components that share no state: what a tenant remembers of *)
(* a category (CategoryMapping), who may do what (Accounts), the scoring   *)
(* of new products (AiSelection), the parcels they are sent in             *)
(* (ProductPackages), what is read of their pages (PageReading), the       *)
(* prices they are put on the shelf with (ShelfPrice), and the records of  *)
(* their orders (OrderFulfillment).                                        *)
(***************************************************************************)
EXTENDS CategoryMapping, Accounts, AiSelection, ProductPackages, PageReading, ShelfPrice, OrderFulfillment,
        FiniteSetTheorems, SequenceTheorems, NaturalsInduction, WellFoundedInduction, TLAPS

-----------------------------------------------------------------------------
(* CategoryMapping, for any subjects and any number of jobs.               *)

\* A job about to write the row it has read: it met the same row.
WritesRow(l) ==
  /\ ListerAt(l, "write") /\ lister[l].row # Unmapped /\ mapping # Unmapped
  /\ lister[l].row.id = mapping.id

\* Such a job knows of a manual row that it is manual, unless a save crossed it.
\* ManualStands is not inductive without: a job that took the row for a learned
\* one would write its own subject over it.
ReadsManual ==
  \A l \in Lister : WritesRow(l) /\ mapping.source = "MANUAL" => lister[l].row.source = "MANUAL"

\* ManualStands, with what makes it inductive.
MappingInv == ManualStands /\ (~crossed => ReadsManual)

-----------------------------------------------------------------------------
\* What a save leaves is a row.
LEMMA UpsertedRow ==
  ASSUME MappingTypeOK, NEW subject \in Subject, NEW size \in Sizes, UpsertMapping(subject, size)
  PROVE  mapping' \in MappingRows /\ mapped' \in 0..MaxMapped
<1>1. CASE mapping = Unmapped
  BY <1>1, MappingAssumptions DEF UpsertMapping, MappingCount, MappingTypeOK, MappingRows
<1>2. CASE mapping # Unmapped
  BY <1>2 DEF UpsertMapping, MappingTypeOK, MappingRows
<1> QED BY <1>1, <1>2

\* So is what a job's update leaves, under the id it had; it may take a row away
\* from an operator, but never gives it to one, nor touches one it knows is manual.
LEMMA RememberedRow ==
  ASSUME MappingTypeOK, NEW l \in Lister, ListerAt(l, "write"), mapping # Unmapped
  PROVE  LET row == Remembered(l) IN
         /\ row \in MappingRows /\ row.id = mapping.id
         /\ row.source = "MANUAL" => mapping.source = "MANUAL"
         /\ lister[l].row.source = "MANUAL" => row.source = mapping.source /\ row.subject = mapping.subject
<1>1. /\ lister[l].subject \in Subject /\ lister[l].size \in Sizes
      /\ Source(l) \in {"LEARNED", "AUTO"} /\ mapping \in MappingRows
  BY DEF ListerAt, MappingTypeOK, Source
<1> QED BY <1>1 DEF Remembered, MappingRows

\* The row, the jobs and the history keep their types in every step of a job or of
\* an operator.
LEMMA MappingTypeStep == MappingTypeOK /\ [MappingNext]_mappingVars => MappingTypeOK'
<1> SUFFICES ASSUME MappingTypeOK, [MappingNext]_mappingVars PROVE MappingTypeOK'
  OBVIOUS
<1> USE MappingAssumptions
<1>1. ASSUME NEW subject \in Subject, NEW size \in Sizes, UpsertMapping(subject, size)
      PROVE  MappingTypeOK'
  <2>1. mapping' \in MappingRows /\ mapped' \in 0..MaxMapped
    BY <1>1, UpsertedRow
  <2>2. crossed' \in BOOLEAN
    BY <1>1 DEF UpsertMapping, MappingTypeOK
  <2> QED BY <1>1, <2>1, <2>2 DEF UpsertMapping, MappingTypeOK
<1>2. CASE RemoveMapping
  BY <1>2 DEF RemoveMapping, MappingTypeOK, MappingRows
<1>3. ASSUME NEW l \in Lister, NEW subject \in Subject, NEW size \in {"sized", "plain"},
             NEW learned \in BOOLEAN, Resolve(l, subject, size, learned)
      PROVE  MappingTypeOK'
  BY <1>3 DEF Resolve, MappingCount, MappingTypeOK, Sizes
<1>4. ASSUME NEW l \in Lister, RecordFailure(l) PROVE MappingTypeOK'
  BY <1>4 DEF RecordFailure, Resting, MappingTypeOK, MappingRows, Sizes
<1>5. ASSUME NEW l \in Lister, Listed(l) PROVE MappingTypeOK'
  BY <1>5 DEF Listed, Resting, MappingTypeOK, Sizes
<1>6. ASSUME NEW l \in Lister, RememberRead(l) PROVE MappingTypeOK'
  <2>1. /\ UNCHANGED <<mapping, mapped, byHand, crossed>> /\ lister[l].pc = "listing"
        /\ lister' = [lister EXCEPT ![l] = [lister[l] EXCEPT !.pc = "write", !.row = mapping]]
    BY <1>6 DEF RememberRead, ListerAt
  <2>2. [lister[l] EXCEPT !.pc = "write", !.row = mapping]
          \in [pc : {"idle", "listing", "write", "listed"}, subject : Subject \cup {Unmapped},
               size : Sizes, learned : BOOLEAN, row : MappingRows \cup {Unmapped}]
    BY DEF MappingTypeOK
  <2> QED BY <2>1, <2>2 DEF MappingTypeOK
<1>7. ASSUME NEW l \in Lister, RememberWrite(l) PROVE MappingTypeOK'
  <2> DEFINE job == lister[l]
  <2>1. /\ job.subject \in Subject /\ job.size \in Sizes /\ job.row \in MappingRows \cup {Unmapped}
        /\ Source(l) \in {"MANUAL", "LEARNED", "AUTO"}
    BY <1>7 DEF RememberWrite, ListerAt, MappingTypeOK, Source
  <2>2. /\ lister' \in [Lister -> [pc : {"idle", "listing", "write", "listed"}, subject : Subject \cup {Unmapped},
                                   size : Sizes, learned : BOOLEAN, row : MappingRows \cup {Unmapped}]]
        /\ \A m \in Lister : lister'[m].pc \in {"listing", "write"} => lister'[m].subject \in Subject
    BY <1>7 DEF RememberWrite, Resting, MappingTypeOK, Sizes
  <2>3. /\ mapping' \in MappingRows \cup {Unmapped}
        /\ mapped' \in 0..MaxMapped
    <3>1. CASE job.row = Unmapped /\ mapping = Unmapped /\ MappingCount
               /\ mapping' = [id |-> mapped, subject |-> job.subject, source |-> Source(l),
                              size |-> job.size, error |-> FALSE]
      BY <2>1, <3>1 DEF MappingCount, MappingTypeOK, MappingRows
    <3>2. CASE mapping # Unmapped /\ mapping' = Remembered(l) /\ UNCHANGED mapped
      BY <1>7, <3>2, RememberedRow DEF RememberWrite, MappingTypeOK
    <3>3. CASE UNCHANGED <<mapping, mapped>>
      BY <3>3 DEF MappingTypeOK
    <3>4. job.row # Unmapped /\ IdOf(job.row) = IdOf(mapping) => mapping # Unmapped
      BY <2>1 DEF IdOf, MappingRows
    <3> QED BY <1>7, <3>1, <3>2, <3>3, <3>4 DEF RememberWrite
  <2> QED BY <1>7, <2>2, <2>3 DEF RememberWrite, MappingTypeOK
<1>8. CASE UNCHANGED mappingVars
  BY <1>8 DEF mappingVars, MappingTypeOK
<1> QED BY <1>1, <1>2, <1>3, <1>4, <1>5, <1>6, <1>7, <1>8 DEF MappingNext

\* The variables of a category's mapping stay in their types.
THEOREM MappingTypeCorrect == MappingSpec => []MappingTypeOK
<1>1. MappingInit => MappingTypeOK
  <2> SUFFICES ASSUME MappingInit PROVE MappingTypeOK
    OBVIOUS
  <2>1. /\ lister \in [Lister -> [pc : {"idle", "listing", "write", "listed"}, subject : Subject \cup {Unmapped},
                                  size : Sizes, learned : BOOLEAN, row : MappingRows \cup {Unmapped}]]
        /\ \A l \in Lister : lister[l].pc = "idle"
    BY DEF MappingInit, Resting, Sizes
  <2>2. mapped \in 0..MaxMapped
    BY MappingAssumptions DEF MappingInit
  <2> QED BY <2>1, <2>2 DEF MappingInit, MappingTypeOK
<1> QED BY <1>1, MappingTypeStep, PTL DEF MappingSpec

-----------------------------------------------------------------------------
\* A save, by which a job may be crossed.
LEMMA UpsertKeepsManual ==
  ASSUME MappingTypeOK, MappingInv, NEW subject \in Subject, NEW size \in Sizes,
         UpsertMapping(subject, size)
  PROVE  MappingInv'
<1>1. CASE \E l \in Lister : ListerAt(l, "write")
  BY <1>1 DEF UpsertMapping, MappingInv, ManualStands
<1>2. CASE ~ \E l \in Lister : ListerAt(l, "write")
  <2>1. ReadsManual'
    BY <1>2 DEF UpsertMapping, ReadsManual, WritesRow, ListerAt
  <2>2. mapping' # Unmapped /\ mapping'.subject = subject /\ mapping'.source = "MANUAL"
    <3>1. mapping' \in MappingRows
      BY UpsertedRow
    <3> QED BY <3>1, MappingAssumptions DEF UpsertMapping, MappingTypeOK, MappingRows
  <2> QED BY <2>1, <2>2 DEF UpsertMapping, MappingInv, ManualStands
<1> QED BY <1>1, <1>2

\* A job's write, of the row as it read it.
LEMMA WriteKeepsManual ==
  ASSUME MappingTypeOK, MappingInv, NEW l \in Lister, RememberWrite(l)
  PROVE  MappingInv'
<1> DEFINE job == lister[l]
<1> SUFFICES ASSUME ~crossed PROVE MappingInv'
  BY DEF MappingInv, ManualStands, RememberWrite
<1>1. ManualStands /\ ReadsManual
  BY DEF MappingInv
<1>2. /\ byHand' = byHand /\ job.row \in MappingRows \cup {Unmapped}
      /\ \A m \in Lister : ListerAt(m, "write")' => m # l /\ lister'[m] = lister[m] /\ ListerAt(m, "write")
  BY DEF RememberWrite, ListerAt, MappingTypeOK, Resting
<1>3. CASE /\ mapping = Unmapped
           /\ mapping' = [id |-> mapped, subject |-> job.subject, source |-> Source(l),
                          size |-> job.size, error |-> FALSE]
  <2>1. byHand' = Unmapped
    BY <1>1, <1>2, <1>3 DEF ManualStands
  <2>2. mapping'.source # "MANUAL"
    BY <1>3 DEF Source
  <2> QED BY <2>1, <2>2 DEF MappingInv, ManualStands, ReadsManual
<1>4. CASE WritesRow(l) /\ mapping' = Remembered(l)
  <2>1. /\ mapping'.id = mapping.id
        /\ mapping'.source = "MANUAL" => mapping.source = "MANUAL"
        /\ job.row.source = "MANUAL" => mapping'.source = mapping.source /\ mapping'.subject = mapping.subject
        /\ mapping' \in MappingRows
    BY <1>4, RememberedRow DEF WritesRow
  <2>2. mapping # Unmapped /\ mapping' # Unmapped
    BY <1>4, <2>1, MappingAssumptions DEF WritesRow
  <2>3. ManualStands'
    BY <1>1, <1>2, <1>4, <2>1, <2>2 DEF ManualStands, ReadsManual
  <2>4. ReadsManual'
    BY <1>1, <1>2, <2>1, <2>2 DEF ReadsManual, WritesRow
  <2> QED BY <2>3, <2>4 DEF MappingInv
<1>5. CASE mapping' = mapping
  <2>1. ReadsManual'
    BY <1>1, <1>2, <1>5 DEF ReadsManual, WritesRow
  <2> QED BY <1>1, <1>2, <1>5, <2>1 DEF MappingInv, ManualStands, RememberWrite
<1>6. job.row # Unmapped /\ IdOf(job.row) = IdOf(mapping) => WritesRow(l)
  BY <1>2, MappingAssumptions DEF IdOf, WritesRow, MappingRows, MappingTypeOK, RememberWrite
<1> QED BY <1>3, <1>4, <1>5, <1>6 DEF RememberWrite

\* Every step keeps the invariant.
LEMMA MappingInvStep ==
  MappingTypeOK /\ MappingInv /\ [MappingNext]_mappingVars => MappingInv'
<1> SUFFICES ASSUME MappingTypeOK, MappingInv, [MappingNext]_mappingVars PROVE MappingInv'
  OBVIOUS
<1>1. ASSUME NEW subject \in Subject, NEW size \in Sizes, UpsertMapping(subject, size)
      PROVE  MappingInv'
  BY <1>1, UpsertKeepsManual
<1>2. CASE RemoveMapping
  BY <1>2 DEF RemoveMapping, MappingInv, ManualStands, ReadsManual, WritesRow
<1>3. ASSUME NEW l \in Lister, NEW subject \in Subject, NEW size \in {"sized", "plain"},
             NEW learned \in BOOLEAN, Resolve(l, subject, size, learned)
      PROVE  MappingInv'
  BY <1>3 DEF Resolve, MappingInv, ManualStands, ReadsManual, WritesRow, ListerAt, MappingTypeOK
<1>4. ASSUME NEW l \in Lister, RecordFailure(l) PROVE MappingInv'
  <2>1. /\ \A m \in Lister : ListerAt(m, "write")' => lister'[m] = lister[m] /\ ListerAt(m, "write")
        /\ byHand' = byHand /\ crossed' = crossed
    BY <1>4 DEF RecordFailure, Resting, ListerAt, MappingTypeOK
  <2>2. /\ mapping = Unmapped <=> mapping' = Unmapped
        /\ mapping # Unmapped => /\ mapping'.id = mapping.id /\ mapping'.source = mapping.source
                                 /\ mapping'.subject = mapping.subject
    BY <1>4, MappingAssumptions DEF RecordFailure, MappingTypeOK, MappingRows
  <2> QED BY <2>1, <2>2 DEF MappingInv, ManualStands, ReadsManual, WritesRow
<1>5. ASSUME NEW l \in Lister, Listed(l) PROVE MappingInv'
  BY <1>5 DEF Listed, Resting, MappingInv, ManualStands, ReadsManual, WritesRow, ListerAt, MappingTypeOK
<1>6. ASSUME NEW l \in Lister, RememberRead(l) PROVE MappingInv'
  <2>1. \A m \in Lister : ListerAt(m, "write")' =>
          \/ m = l /\ lister'[m].row = mapping
          \/ ListerAt(m, "write") /\ lister'[m].row = lister[m].row
    BY <1>6 DEF RememberRead, ListerAt, MappingTypeOK
  <2> QED BY <1>6, <2>1 DEF RememberRead, MappingInv, ManualStands, ReadsManual, WritesRow
<1>7. ASSUME NEW l \in Lister, RememberWrite(l) PROVE MappingInv'
  BY <1>7, WriteKeepsManual
<1>8. CASE UNCHANGED mappingVars
  BY <1>8 DEF mappingVars, MappingInv, ManualStands, ReadsManual, WritesRow, ListerAt
<1> QED BY <1>1, <1>2, <1>3, <1>4, <1>5, <1>6, <1>7, <1>8 DEF MappingNext

\* What an operator mapped by hand stands until an operator changes it, whatever
\* any number of jobs learn meanwhile (wb-category-mapping.service.ts 135-138),
\* unless a save crossed a job that had already read the row.
THEOREM ManualMappingStands == MappingSpec => []ManualStands
<1>1. MappingInit => MappingInv
  BY DEF MappingInit, MappingInv, ManualStands, ReadsManual, WritesRow
<1>2. MappingInv => ManualStands
  BY DEF MappingInv
<1> QED BY <1>1, <1>2, MappingTypeCorrect, MappingInvStep, PTL DEF MappingSpec

-----------------------------------------------------------------------------
(* Accounts, for any tenants, users, shops and requests.                   *)

\* Requests, at each of their steps.
Roles == {"NONE", "SUPER_ADMIN", "TENANT_ADMIN", "OPERATOR"}
Visits ==
  [pc : {"idle", "guards", "newUserShops", "newUser", "userShops", "user", "shop", "grants", "serving",
         "createUser", "updateUser", "createShop", "updateShop", "changeStatus", "tenantStatus", "shelf"},
   op : {"createUser", "updateUser", "createShop", "updateShop", "changeStatus", "tenantStatus", "shelf"},
   by : User, allowed : BOOLEAN, tenant : Tenant \cup {NoTenant}, shops : SUBSET Shop, target : User,
   role : Roles \cup {"ENABLED", "DISABLED"}, modules : {{}}, token : BOOLEAN]

\* A row that is there.
Real(u) == user[u].role # "NONE"

\* Whoever is there has a tenant, or is the super administrator.
RowsTold ==
  \A u \in User : /\ ~Real(u) => user[u] = NoUser /\ granted[u] = {}
                  /\ Real(u) /\ u # Root => user[u].tenant \in Tenant
                  /\ grants[u] \subseteq granted[u]
                  /\ u # Root => \A s \in granted[u] : shop[s].tenant = user[u].tenant

\* What a request knows past each of its steps: who asks is there; a tenant the
\* shops were checked against is theirs still; an operator's shops were granted.
RequestTold(v) ==
  LET q == visit[v] IN
  /\ q.pc # "idle" => Real(q.by)
  /\ q.pc \in {"newUserShops", "newUser"} => q.target # Root /\ q.tenant \in Tenant /\ q.role \in {"TENANT_ADMIN", "OPERATOR"}
  /\ q.pc = "newUser" => \A s \in q.shops : shop[s].tenant = q.tenant
  /\ q.pc \in {"userShops", "user"} => Real(q.target)
  /\ q.pc = "user" /\ q.target # Root => \A s \in q.shops : shop[s].tenant = user[q.target].tenant
  /\ q.pc = "shop" => q.role \in {"ENABLED", "DISABLED"}
  /\ q.pc \in {"shelf", "grants", "serving"} /\ q.by # Root => q.tenant = user[q.by].tenant
  /\ q.pc \in {"grants", "serving"} /\ q.by # Root => \A s \in q.shops : shop[s].tenant = q.tenant
  /\ q.pc = "serving" /\ user[q.by].role = "OPERATOR" => q.shops \subseteq granted[q.by]

\* These with the types: the inductive invariant.
AccountsInv ==
  /\ AccountsTypeOK /\ visit \in [Visit -> Visits]
  /\ RowsTold /\ \A v \in Visit : RequestTold(v)

-----------------------------------------------------------------------------
\* What a step writes of its request: the fields it names.
LEMMA FieldsWritten ==
  ASSUME visit \in [Visit -> Visits], NEW v \in Visit, NEW step, NEW fields, "pc" \notin DOMAIN fields, To(v, step, fields)
  PROVE  /\ DOMAIN visit' = Visit /\ visit' = [w \in Visit |-> visit'[w]] /\ \A w \in Visit \ {v} : visit'[w] = visit[w]
         /\ DOMAIN visit'[v] = DOMAIN Idle /\ visit'[v] = [f \in DOMAIN Idle |-> visit'[v][f]]
         /\ visit'[v].pc = step
         /\ \A f \in DOMAIN Idle \ {"pc"} : visit'[v][f] = IF f \in DOMAIN fields THEN fields[f] ELSE visit[v][f]
<1> DEFINE written == [f \in DOMAIN Idle |-> CASE f = "pc" -> step
                                               [] f \in DOMAIN fields -> fields[f]
                                               [] OTHER -> visit[v][f]]
<1>1. visit' = [visit EXCEPT ![v] = written]
  BY DEF To
<1>2. "pc" \in DOMAIN Idle
  BY DEF Idle
<1>3. written["pc"] = step
  BY <1>2
<1>4. \A f \in DOMAIN Idle \ {"pc"} : written[f] = IF f \in DOMAIN fields THEN fields[f] ELSE visit[v][f]
  OBVIOUS
<1>5. DOMAIN written = DOMAIN Idle /\ written = [f \in DOMAIN Idle |-> written[f]]
  OBVIOUS
<1> HIDE DEF written
<1>6. visit'[v] = written /\ DOMAIN visit' = Visit /\ visit' = [w \in Visit |-> visit'[w]] /\ \A w \in Visit \ {v} : visit'[w] = visit[w]
  BY <1>1
<1> QED BY <1>3, <1>4, <1>5, <1>6

\* A request is one whose fields are.
LEMMA RequestParts ==
  ASSUME NEW q, DOMAIN q = DOMAIN Idle, q = [f \in DOMAIN Idle |-> q[f]],
         q.pc \in {"idle", "guards", "newUserShops", "newUser", "userShops", "user", "shop", "grants", "serving",
         "createUser", "updateUser", "createShop", "updateShop", "changeStatus", "tenantStatus", "shelf"},
         q.op \in {"createUser", "updateUser", "createShop", "updateShop", "changeStatus", "tenantStatus", "shelf"},
         q.by \in User, q.allowed \in BOOLEAN, q.tenant \in Tenant \cup {NoTenant}, q.shops \in SUBSET Shop,
         q.target \in User, q.role \in Roles \cup {"ENABLED", "DISABLED"}, q.modules = {}, q.token \in BOOLEAN
  PROVE  q \in Visits
<1>1. DOMAIN q = {"pc", "op", "by", "allowed", "tenant", "shops", "target", "role", "modules", "token"}
  BY DEF Idle
<1>2. q = [pc |-> q.pc, op |-> q.op, by |-> q.by, allowed |-> q.allowed, tenant |-> q.tenant,
           shops |-> q.shops, target |-> q.target, role |-> q.role, modules |-> q.modules, token |-> q.token]
  BY <1>1 DEF Idle
<1> QED BY <1>2 DEF Visits

\* What every write leaves alone: whoever is there keeps tenant and role and loses no
\* grant of old, and a tenant's shop stays with it.
Tame ==
  /\ \A u \in User : Real(u) => /\ user'[u].role = user[u].role /\ user'[u].tenant = user[u].tenant
                                /\ granted[u] \subseteq granted'[u]
  /\ \A s \in Shop : shop[s].tenant \in Tenant => shop'[s].tenant = shop[s].tenant

\* A request keeps what it knows through the writes of others.
LEMMA StillTold ==
  ASSUME AccountsInv, Tame, NEW w \in Visit, visit'[w] = visit[w]
  PROVE  RequestTold(w)'
<1>1. RequestTold(w) /\ visit[w] \in Visits /\ RowsTold /\ NoTenant \notin Tenant
  BY AccountAssumptions DEF AccountsInv
<1>2. visit[w].by \in User /\ visit[w].target \in User /\ visit[w].shops \subseteq Shop
  BY <1>1 DEF Visits
<1>3. \A u \in User : Real(u) => Real(u)'
  BY DEF Tame, Real
<1>7. PICK q : visit'[w] = q /\ visit[w] = q
  OBVIOUS
<1>4. q.pc # "idle" => Real(q.by) /\ Real(q.by)' /\ user'[q.by].tenant = user[q.by].tenant /\ user'[q.by].role = user[q.by].role
                       /\ granted[q.by] \subseteq granted'[q.by]
                       /\ (q.by # Root => user[q.by].tenant \in Tenant)
  BY <1>1, <1>2, <1>3, <1>7 DEF RequestTold, Tame, RowsTold
<1>5. Real(q.target) => /\ Real(q.target)' /\ user'[q.target].tenant = user[q.target].tenant
                        /\ (q.target # Root => user[q.target].tenant \in Tenant)
  BY <1>1, <1>2, <1>3, <1>7 DEF Tame, RowsTold
<1>6. \A s \in q.shops : shop[s].tenant \in Tenant => shop'[s].tenant = shop[s].tenant
  BY <1>2, <1>7 DEF Tame
<1>8. RequestTold(w)
  BY <1>1
<1>9. ASSUME q.pc \in {"newUserShops", "newUser"}
      PROVE  /\ q.target # Root /\ q.tenant \in Tenant /\ q.role \in {"TENANT_ADMIN", "OPERATOR"}
             /\ q.pc = "newUser" => \A s \in q.shops : shop'[s].tenant = q.tenant
  BY <1>6, <1>7, <1>8, <1>9 DEF RequestTold
<1>10. ASSUME q.pc \in {"userShops", "user"}
       PROVE  /\ Real(q.target)'
              /\ q.pc = "user" /\ q.target # Root => \A s \in q.shops : shop'[s].tenant = user'[q.target].tenant
  BY <1>5, <1>6, <1>7, <1>8, <1>10 DEF RequestTold
<1>11. ASSUME q.pc \in {"shelf", "grants", "serving"}, q.by # Root
       PROVE  /\ q.tenant = user'[q.by].tenant
              /\ q.pc \in {"grants", "serving"} => \A s \in q.shops : shop'[s].tenant = q.tenant
  BY <1>4, <1>6, <1>7, <1>8, <1>11 DEF RequestTold
<1>12. ASSUME q.pc = "serving", user'[q.by].role = "OPERATOR" PROVE q.shops \subseteq granted'[q.by]
  BY <1>4, <1>7, <1>8, <1>12 DEF RequestTold
<1>13. q.pc = "shop" => q.role \in {"ENABLED", "DISABLED"}
  BY <1>7, <1>8 DEF RequestTold
<1> QED
  BY <1>4, <1>7, <1>9, <1>10, <1>11, <1>12, <1>13 DEF RequestTold

\* A check ends the request or lets it go on; it is enough that it goes on knowing.
LEMMA CheckStep ==
  ASSUME AccountsInv, NEW v \in Visit, UNCHANGED <<active, people, shop>>, visits' \in 0..MaxVisits,
         DOMAIN visit' = Visit, visit' = [w \in Visit |-> visit'[w]], \A w \in Visit \ {v} : visit'[w] = visit[w],
         visit'[v] \in Visits, RequestTold(v)'
  PROVE  AccountsInv'
<1>1. UNCHANGED <<active, user, grants, modules, shop, granted>>
  BY DEF people
<1>2. AccountsTypeOK'
  BY <1>1 DEF AccountsInv, AccountsTypeOK
<1>3. RowsTold'
  BY <1>1 DEF AccountsInv, RowsTold, Real
<1>4. Tame
  BY <1>1 DEF Tame
<1>5. \A w \in Visit : visit'[w] \in Visits
  BY DEF AccountsInv
<1>6. visit' \in [Visit -> Visits]
  BY <1>5
<1>7. \A w \in Visit \ {v} : RequestTold(w)'
  BY <1>4, StillTold
<1> QED BY <1>2, <1>3, <1>6, <1>7 DEF AccountsInv

\* A request that is over.
LEMMA Over ==
  ASSUME visit \in [Visit -> Visits], NEW v \in Visit, End(v)
  PROVE  /\ DOMAIN visit' = Visit /\ visit' = [w \in Visit |-> visit'[w]] /\ \A w \in Visit \ {v} : visit'[w] = visit[w]
         /\ visit'[v] \in Visits /\ RequestTold(v)'
<1>1. visit' = [visit EXCEPT ![v] = Idle]
  BY DEF End
<1>2. Idle \in Visits /\ Idle.pc = "idle"
  BY AccountAssumptions DEF Idle, Visits, Roles
<1>3. visit'[v] = Idle
  BY <1>1
<1>4. RequestTold(v)'
  BY <1>2, <1>3 DEF RequestTold
<1> QED BY <1>1, <1>2, <1>3, <1>4

\* A write ends the request.
LEMMA WriteStep ==
  ASSUME AccountsInv, NEW v \in Visit, End(v), Tame, AccountsTypeOK', RowsTold'
  PROVE  AccountsInv'
<1>1. /\ DOMAIN visit' = Visit /\ visit' = [w \in Visit |-> visit'[w]] /\ \A w \in Visit \ {v} : visit'[w] = visit[w]
      /\ visit'[v] \in Visits /\ RequestTold(v)'
  BY Over DEF AccountsInv
<1>2. \A w \in Visit \ {v} : RequestTold(w)'
  BY <1>1, StillTold
<1>3. \A w \in Visit : visit'[w] \in Visits
  BY <1>1 DEF AccountsInv
<1>4. visit' \in [Visit -> Visits]
  BY <1>1, <1>3
<1> QED BY <1>1, <1>2, <1>4 DEF AccountsInv

\* So does a check that fails.
LEMMA RefuseStep ==
  ASSUME AccountsInv, NEW v \in Visit, End(v), UNCHANGED <<active, people, shop, visits>>
  PROVE  AccountsInv'
<1>1. /\ DOMAIN visit' = Visit /\ visit' = [w \in Visit |-> visit'[w]] /\ \A w \in Visit \ {v} : visit'[w] = visit[w]
      /\ visit'[v] \in Visits /\ RequestTold(v)'
  BY Over DEF AccountsInv
<1>2. visits' \in 0..MaxVisits
  BY DEF AccountsInv, AccountsTypeOK
<1>3. UNCHANGED <<active, people, shop>>
  OBVIOUS
<1> QED BY <1>1, <1>2, <1>3, CheckStep

\* A request comes in and passes the guards.
LEMMA GuardSteps ==
  ASSUME AccountsInv, NEW v \in Visit,
         \/ \E u \in User, op \in DOMAIN Required, header \in Tenant \cup {NoTenant} : Authenticate(v, u, op, header)
         \/ Guards(v)
  PROVE  AccountsInv'
<1>0. visit \in [Visit -> Visits] /\ visit[v] \in Visits /\ RequestTold(v) /\ RowsTold /\ AccountsTypeOK
  BY DEF AccountsInv
<1>1. ASSUME NEW u \in User, NEW op \in DOMAIN Required, NEW header \in Tenant \cup {NoTenant}, Authenticate(v, u, op, header)
      PROVE  AccountsInv'
  <2>1. PICK allowed \in BOOLEAN :
          /\ visits < MaxVisits /\ visits' = visits + 1 /\ SignedIn(u) /\ UNCHANGED <<active, people, shop>>
          /\ To(v, "guards", [by |-> u, op |-> op, tenant |-> header, allowed |-> allowed])
    <3> DEFINE allowed == Required[op] \in ResolveEffectivePermissions(user[u].role, modules[u])
    <3>1. allowed \in BOOLEAN
      OBVIOUS
    <3>2. /\ visits < MaxVisits /\ visits' = visits + 1 /\ SignedIn(u) /\ UNCHANGED <<active, people, shop>>
          /\ To(v, "guards", [by |-> u, op |-> op, tenant |-> header, allowed |-> allowed])
      BY <1>1, Zenon DEF Authenticate
    <3> HIDE DEF allowed
    <3> QED BY <3>1, <3>2
  <2>2. /\ DOMAIN visit' = Visit /\ visit' = [w \in Visit |-> visit'[w]] /\ \A w \in Visit \ {v} : visit'[w] = visit[w]
        /\ DOMAIN visit'[v] = DOMAIN Idle /\ visit'[v] = [f \in DOMAIN Idle |-> visit'[v][f]] /\ visit'[v].pc = "guards"
        /\ visit'[v].by = u /\ visit'[v].op = op /\ visit'[v].tenant = header /\ visit'[v].allowed = allowed
        /\ visit'[v].shops = visit[v].shops /\ visit'[v].target = visit[v].target /\ visit'[v].role = visit[v].role
        /\ visit'[v].modules = visit[v].modules /\ visit'[v].token = visit[v].token
    BY <1>0, <2>1, FieldsWritten DEF Idle
  <2>3. op \in {"createUser", "updateUser", "createShop", "updateShop", "changeStatus", "tenantStatus", "shelf"}
    BY DEF Required
  <2>4. visit'[v] \in Visits
    BY <1>0, <2>2, <2>3, RequestParts DEF Visits
  <2>5. Real(u)'
    BY <1>0, <2>1 DEF SignedIn, RowsTold, Real, NoUser, people
  <2>6. RequestTold(v)'
    BY <2>2, <2>5 DEF RequestTold
  <2>7. visits' \in 0..MaxVisits
    BY <1>0, <2>1, AccountAssumptions DEF AccountsTypeOK
  <2> QED BY <2>1, <2>2, <2>4, <2>6, <2>7, CheckStep
<1>2. CASE Guards(v)
  <2>1. PICK tenant \in Tenant \cup {NoTenant} :
          /\ VisitAt(v, "guards") /\ UNCHANGED <<active, people, shop, visits>>
          /\ \/ End(v)
             \/ To(v, visit[v].op, [tenant |-> tenant])
          /\ visit[v].op = "shelf" /\ visit[v].by # Root => tenant = user[visit[v].by].tenant
    <3> DEFINE tenant == IF visit[v].op = "tenantStatus" THEN user[visit[v].by].tenant
                         ELSE RequestTenant(visit[v].by, visit[v].tenant)
    <3>1. tenant \in Tenant \cup {NoTenant}
      BY <1>0 DEF RequestTenant, AccountsTypeOK, Visits
    <3>2. visit[v].op = "shelf" /\ visit[v].by # Root => tenant = user[visit[v].by].tenant
      BY <1>0 DEF RequestTenant, AccountsTypeOK, Visits
    <3>3. VisitAt(v, "guards") /\ UNCHANGED <<active, people, shop, visits>> /\ (End(v) \/ To(v, visit[v].op, [tenant |-> tenant]))
      BY <1>2 DEF Guards, Require
    <3> HIDE DEF tenant
    <3> QED BY <3>1, <3>2, <3>3
  <2>2. CASE End(v)
    BY <2>1, <2>2, RefuseStep
  <2>3. CASE To(v, visit[v].op, [tenant |-> tenant])
    <3>1. /\ DOMAIN visit' = Visit /\ visit' = [w \in Visit |-> visit'[w]] /\ \A w \in Visit \ {v} : visit'[w] = visit[w]
          /\ DOMAIN visit'[v] = DOMAIN Idle /\ visit'[v] = [f \in DOMAIN Idle |-> visit'[v][f]] /\ visit'[v].pc = visit[v].op
          /\ visit'[v].by = visit[v].by /\ visit'[v].op = visit[v].op /\ visit'[v].tenant = tenant /\ visit'[v].allowed = visit[v].allowed
          /\ visit'[v].shops = visit[v].shops /\ visit'[v].target = visit[v].target /\ visit'[v].role = visit[v].role
          /\ visit'[v].modules = visit[v].modules /\ visit'[v].token = visit[v].token
      BY <1>0, <2>3, FieldsWritten DEF Idle
    <3>2. visit'[v] \in Visits
      BY <1>0, <3>1, RequestParts DEF Visits
    <3>3. Real(visit[v].by) /\ user' = user /\ visit[v].op \in {"createUser", "updateUser", "createShop", "updateShop", "changeStatus", "tenantStatus", "shelf"}
      BY <1>0, <2>1 DEF RequestTold, VisitAt, people, Visits
    <3>4. RequestTold(v)'
      BY <2>1, <3>1, <3>3 DEF RequestTold, Real
    <3>5. visits' \in 0..MaxVisits
      BY <1>0, <2>1 DEF AccountsTypeOK
    <3> QED BY <2>1, <3>1, <3>2, <3>4, <3>5, CheckStep
  <2> QED BY <2>1, <2>2, <2>3
<1> QED BY <1>1, <1>2

\* A check that lets its request go on.
LEMMA GoesOn ==
  ASSUME AccountsInv, NEW v \in Visit, UNCHANGED <<active, people, shop, visits>>, NEW step, NEW fields,
         To(v, step, fields), "pc" \notin DOMAIN fields, visit'[v] \in Visits, RequestTold(v)'
  PROVE  AccountsInv'
<1>1. visit \in [Visit -> Visits] /\ visits' \in 0..MaxVisits /\ UNCHANGED <<active, people, shop>>
  BY DEF AccountsInv, AccountsTypeOK
<1>2. DOMAIN visit' = Visit /\ visit' = [w \in Visit |-> visit'[w]] /\ \A w \in Visit \ {v} : visit'[w] = visit[w]
  BY <1>1, FieldsWritten
<1> QED BY <1>1, <1>2, CheckStep

\* The checks of creating a user.
LEMMA CreateUserChecks ==
  ASSUME AccountsInv, NEW v \in Visit,
         \/ \E target \in User, shops \in SUBSET Shop, role \in {"SUPER_ADMIN", "TENANT_ADMIN", "OPERATOR"}, t \in Tenant :
              CreateUserTenant(v, target, role, t, shops)
         \/ CreateUserShops(v)
  PROVE  AccountsInv'
<1>0. visit \in [Visit -> Visits] /\ visit[v] \in Visits /\ RequestTold(v) /\ RowsTold /\ AccountsTypeOK
  BY DEF AccountsInv
<1>1. ASSUME NEW target \in User, NEW shops \in SUBSET Shop, NEW role \in {"SUPER_ADMIN", "TENANT_ADMIN", "OPERATOR"},
             NEW t \in Tenant, CreateUserTenant(v, target, role, t, shops)
      PROVE  AccountsInv'
  <2>1. /\ visit[v].pc = "createUser" /\ target # Root /\ UNCHANGED <<active, people, shop, visits>>
        /\ \/ End(v)
           \/ /\ role \in {"TENANT_ADMIN", "OPERATOR"}
              /\ To(v, "newUserShops", [target |-> target, role |-> role, tenant |-> t, shops |-> shops])
    BY <1>1 DEF CreateUserTenant, VisitAt, Require, CanAssignRole
  <2>2. CASE End(v)
    BY <2>1, <2>2, RefuseStep
  <2>3. CASE ~End(v)
    <3> DEFINE fields == [target |-> target, role |-> role, tenant |-> t, shops |-> shops]
    <3>1. To(v, "newUserShops", fields) /\ role \in {"TENANT_ADMIN", "OPERATOR"} /\ "pc" \notin DOMAIN fields
      BY <2>1, <2>3
    <3>2. /\ DOMAIN visit'[v] = DOMAIN Idle /\ visit'[v] = [f \in DOMAIN Idle |-> visit'[v][f]] /\ visit'[v].pc = "newUserShops"
          /\ visit'[v].by = visit[v].by /\ visit'[v].op = visit[v].op /\ visit'[v].allowed = visit[v].allowed
          /\ visit'[v].tenant = t /\ visit'[v].shops = shops /\ visit'[v].target = target /\ visit'[v].role = role
          /\ visit'[v].modules = visit[v].modules /\ visit'[v].token = visit[v].token
      BY <1>0, <3>1, FieldsWritten DEF Idle
    <3>3. visit'[v] \in Visits
      BY <1>0, <3>1, <3>2, RequestParts DEF Visits, Roles
    <3>4. RequestTold(v)'
      BY <1>0, <2>1, <3>1, <3>2 DEF RequestTold, Real, people
    <3> QED BY <2>1, <3>1, <3>3, <3>4, GoesOn
  <2> QED BY <2>2, <2>3
<1>2. CASE CreateUserShops(v)
  <2>1. /\ visit[v].pc = "newUserShops" /\ UNCHANGED <<active, people, shop, visits>>
        /\ \/ End(v)
           \/ /\ \A s \in visit[v].shops : shop[s].tenant = visit[v].tenant
              /\ To(v, "newUser", [tenant |-> visit[v].tenant])
    BY <1>2 DEF CreateUserShops, VisitAt, Require, AssertShopsInTenant
  <2>2. CASE End(v)
    BY <2>1, <2>2, RefuseStep
  <2>3. CASE ~End(v)
    <3> DEFINE fields == [tenant |-> visit[v].tenant]
    <3>1. To(v, "newUser", fields) /\ "pc" \notin DOMAIN fields
      BY <2>1, <2>3
    <3>2. /\ DOMAIN visit'[v] = DOMAIN Idle /\ visit'[v] = [f \in DOMAIN Idle |-> visit'[v][f]] /\ visit'[v].pc = "newUser"
          /\ visit'[v].by = visit[v].by /\ visit'[v].op = visit[v].op /\ visit'[v].allowed = visit[v].allowed
          /\ visit'[v].tenant = visit[v].tenant /\ visit'[v].shops = visit[v].shops /\ visit'[v].target = visit[v].target
          /\ visit'[v].role = visit[v].role /\ visit'[v].modules = visit[v].modules /\ visit'[v].token = visit[v].token
      BY <1>0, <3>1, FieldsWritten DEF Idle
    <3>3. visit'[v] \in Visits
      BY <1>0, <3>1, <3>2, RequestParts DEF Visits
    <3>4. RequestTold(v)'
      BY <1>0, <2>1, <2>3, <3>2 DEF RequestTold, Real, people
    <3> QED BY <2>1, <3>1, <3>3, <3>4, GoesOn
  <2> QED BY <2>2, <2>3
<1> QED BY <1>1, <1>2

\* The checks of updating one.
LEMMA UpdateUserChecks ==
  ASSUME AccountsInv, NEW v \in Visit,
         (\E target \in User, shops \in SUBSET Shop : UpdateUserRead(v, target, shops)) \/ UpdateUserShops(v)
  PROVE  AccountsInv'
<1>0. visit \in [Visit -> Visits] /\ visit[v] \in Visits /\ RequestTold(v) /\ RowsTold /\ AccountsTypeOK
  BY DEF AccountsInv
<1>1. ASSUME NEW target \in User, NEW shops \in SUBSET Shop, UpdateUserRead(v, target, shops)
      PROVE  AccountsInv'
  <2>1. /\ visit[v].pc = "updateUser" /\ UNCHANGED <<active, people, shop, visits>>
        /\ \/ End(v)
           \/ user[target] # NoUser /\ To(v, "userShops", [target |-> target, shops |-> shops])
    BY <1>1 DEF UpdateUserRead, VisitAt, Require
  <2>2. CASE End(v)
    BY <2>1, <2>2, RefuseStep
  <2>3. CASE ~End(v)
    <3> DEFINE fields == [target |-> target, shops |-> shops]
    <3>1. To(v, "userShops", fields) /\ "pc" \notin DOMAIN fields
      BY <2>1, <2>3
    <3>2. /\ DOMAIN visit'[v] = DOMAIN Idle /\ visit'[v] = [f \in DOMAIN Idle |-> visit'[v][f]] /\ visit'[v].pc = "userShops"
          /\ visit'[v].by = visit[v].by /\ visit'[v].op = visit[v].op /\ visit'[v].allowed = visit[v].allowed
          /\ visit'[v].tenant = visit[v].tenant /\ visit'[v].shops = shops /\ visit'[v].target = target
          /\ visit'[v].role = visit[v].role /\ visit'[v].modules = visit[v].modules /\ visit'[v].token = visit[v].token
      BY <1>0, <3>1, FieldsWritten DEF Idle
    <3>3. visit'[v] \in Visits
      BY <1>0, <3>1, <3>2, RequestParts DEF Visits
    <3>4. Real(target)' /\ Real(visit[v].by) /\ user' = user
      BY <1>0, <2>1, <2>3 DEF RowsTold, Real, people, RequestTold
    <3>5. RequestTold(v)'
      BY <3>2, <3>4 DEF RequestTold, Real
    <3> QED BY <2>1, <3>1, <3>3, <3>5, GoesOn
  <2> QED BY <2>2, <2>3
<1>2. CASE UpdateUserShops(v)
  <2>1. PICK tenant \in Tenant \cup {NoTenant} :
           /\ visit[v].pc = "userShops" /\ UNCHANGED <<active, people, shop, visits>>
           /\ tenant = user[visit[v].target].tenant
           /\ \/ End(v)
              \/ /\ tenant = NoTenant \/ \A s \in visit[v].shops : shop[s].tenant = tenant
                 /\ To(v, "user", [tenant |-> tenant])
    BY <1>0, <1>2 DEF UpdateUserShops, VisitAt, Require, AssertShopsInTenant, AccountsTypeOK, Visits
  <2>2. CASE End(v)
    BY <2>1, <2>2, RefuseStep
  <2>3. CASE ~End(v)
    <3> DEFINE fields == [tenant |-> tenant]
    <3>1. To(v, "user", fields) /\ "pc" \notin DOMAIN fields
      BY <2>1, <2>3
    <3>2. /\ DOMAIN visit'[v] = DOMAIN Idle /\ visit'[v] = [f \in DOMAIN Idle |-> visit'[v][f]] /\ visit'[v].pc = "user"
          /\ visit'[v].by = visit[v].by /\ visit'[v].op = visit[v].op /\ visit'[v].allowed = visit[v].allowed
          /\ visit'[v].tenant = tenant /\ visit'[v].shops = visit[v].shops /\ visit'[v].target = visit[v].target
          /\ visit'[v].role = visit[v].role /\ visit'[v].modules = visit[v].modules /\ visit'[v].token = visit[v].token
      BY <1>0, <3>1, FieldsWritten DEF Idle
    <3>3. visit'[v] \in Visits
      BY <1>0, <3>1, <3>2, RequestParts DEF Visits
    <3>4. Real(visit[v].by) /\ Real(visit[v].target) /\ user' = user /\ shop' = shop
      BY <1>0, <2>1 DEF people, RequestTold
    <3>5. visit[v].target # Root => \A s \in visit[v].shops : shop[s].tenant = user[visit[v].target].tenant
      BY <1>0, <2>1, <2>3, <3>4, AccountAssumptions DEF RowsTold, Visits
    <3>6. RequestTold(v)'
      BY <3>2, <3>4, <3>5 DEF RequestTold, Real
    <3> QED BY <2>1, <3>1, <3>3, <3>6, GoesOn
  <2> QED BY <2>2, <2>3
<1> QED BY <1>1, <1>2

\* The checks of a change to a shop, and of work on shops.
LEMMA ShopChecks ==
  ASSUME AccountsInv, NEW v \in Visit,
         \/ \E s \in Shop, status \in {"ENABLED", "DISABLED"} : ShopRead(v, s, status)
         \/ \E shops \in SUBSET Shop : AssertShopsAccessible(v, shops)
         \/ AssertGranted(v)
  PROVE  AccountsInv'
<1>0. visit \in [Visit -> Visits] /\ visit[v] \in Visits /\ RequestTold(v) /\ RowsTold /\ AccountsTypeOK
  BY DEF AccountsInv
<1>1. ASSUME NEW s \in Shop, NEW status \in {"ENABLED", "DISABLED"}, ShopRead(v, s, status)
      PROVE  AccountsInv'
  <2>1. PICK token \in BOOLEAN, role \in {"ENABLED", "DISABLED"} :
          /\ visit[v].pc \in {"updateShop", "changeStatus"} /\ UNCHANGED <<active, people, shop, visits>>
          /\ End(v) \/ To(v, "shop", [shops |-> {s}, token |-> token, role |-> role])
    <3> DEFINE token == VisitAt(v, "updateShop")
               role == IF VisitAt(v, "changeStatus") THEN status
                       ELSE IF shop[s].status = "DISABLED" THEN "DISABLED" ELSE "ENABLED"
    <3>1. /\ visit[v].pc \in {"updateShop", "changeStatus"} /\ UNCHANGED <<active, people, shop, visits>>
          /\ End(v) \/ To(v, "shop", [shops |-> {s}, token |-> token, role |-> role])
      BY <1>1, Zenon DEF ShopRead, Require, VisitAt
    <3>2. role \in {"ENABLED", "DISABLED"} /\ token \in BOOLEAN
      BY DEF VisitAt
    <3> HIDE DEF token, role
    <3> QED BY <3>1, <3>2
  <2>2. CASE End(v)
    BY <2>1, <2>2, RefuseStep
  <2>3. CASE ~End(v)
    <3> DEFINE fields == [shops |-> {s}, token |-> token, role |-> role]
    <3>1. To(v, "shop", fields) /\ "pc" \notin DOMAIN fields
      BY <2>1, <2>3
    <3>2. /\ DOMAIN visit'[v] = DOMAIN Idle /\ visit'[v] = [f \in DOMAIN Idle |-> visit'[v][f]] /\ visit'[v].pc = "shop"
          /\ visit'[v].by = visit[v].by /\ visit'[v].op = visit[v].op /\ visit'[v].allowed = visit[v].allowed
          /\ visit'[v].tenant = visit[v].tenant /\ visit'[v].shops = {s} /\ visit'[v].target = visit[v].target
          /\ visit'[v].role = role /\ visit'[v].modules = visit[v].modules /\ visit'[v].token = token
      BY <1>0, <3>1, FieldsWritten DEF Idle
    <3>3. visit'[v] \in Visits
      <4>1. {s} \in SUBSET Shop /\ token \in BOOLEAN /\ role \in Roles \cup {"ENABLED", "DISABLED"}
        OBVIOUS
      <4>2. visit'[v].shops \in SUBSET Shop /\ visit'[v].token \in BOOLEAN /\ visit'[v].role \in Roles \cup {"ENABLED", "DISABLED"}
        BY <3>2, <4>1
      <4> QED BY <1>0, <3>2, <4>2, RequestParts DEF Visits
    <3>4. Real(visit[v].by) /\ user' = user
      BY <1>0, <2>1 DEF people, RequestTold
    <3>5. RequestTold(v)'
      BY <3>2, <3>4 DEF RequestTold, Real
    <3> QED BY <2>1, <3>1, <3>3, <3>5, GoesOn
  <2> QED BY <2>2, <2>3
<1>2. ASSUME NEW shops \in SUBSET Shop, AssertShopsAccessible(v, shops)
      PROVE  AccountsInv'
  <2>1. PICK step \in {"serving", "grants"} :
          /\ visit[v].pc = "shelf" /\ UNCHANGED <<active, people, shop, visits>>
          /\ RoleOf(v) = "OPERATOR" => step = "grants"
          /\ \/ End(v)
             \/ /\ \A s \in shops : RoleOf(v) = "SUPER_ADMIN" \/ shop[s].tenant = visit[v].tenant
                /\ To(v, step, [shops |-> shops])
    <3> DEFINE step == IF CanAccessAllTenantShops(RoleOf(v)) THEN "serving" ELSE "grants"
    <3>1. /\ visit[v].pc = "shelf" /\ UNCHANGED <<active, people, shop, visits>>
          /\ \/ End(v)
             \/ /\ \A s \in shops : RoleOf(v) = "SUPER_ADMIN" \/ shop[s].tenant = visit[v].tenant
                /\ To(v, step, [shops |-> shops])
      BY <1>2 DEF AssertShopsAccessible, Require, VisitAt
    <3>2. step \in {"serving", "grants"} /\ (RoleOf(v) = "OPERATOR" => step = "grants")
      BY DEF CanAccessAllTenantShops
    <3> HIDE DEF step
    <3> QED BY <3>1, <3>2
  <2>2. CASE End(v)
    BY <2>1, <2>2, RefuseStep
  <2>3. CASE ~End(v)
    <3> DEFINE fields == [shops |-> shops]
    <3>1. To(v, step, fields) /\ "pc" \notin DOMAIN fields
      BY <2>1, <2>3
    <3>2. /\ DOMAIN visit'[v] = DOMAIN Idle /\ visit'[v] = [f \in DOMAIN Idle |-> visit'[v][f]] /\ visit'[v].pc = step
          /\ visit'[v].by = visit[v].by /\ visit'[v].op = visit[v].op /\ visit'[v].allowed = visit[v].allowed
          /\ visit'[v].tenant = visit[v].tenant /\ visit'[v].shops = shops /\ visit'[v].target = visit[v].target
          /\ visit'[v].role = visit[v].role /\ visit'[v].modules = visit[v].modules /\ visit'[v].token = visit[v].token
      BY <1>0, <3>1, FieldsWritten DEF Idle
    <3>3. visit'[v] \in Visits
      BY <1>0, <3>1, <3>2, RequestParts DEF Visits
    <3>4. Real(visit[v].by) /\ user' = user /\ shop' = shop
      BY <1>0, <2>1 DEF people, RequestTold
    <3>5. visit[v].by # Root =>
            visit[v].tenant = user[visit[v].by].tenant /\ \A s \in shops : shop[s].tenant = visit[v].tenant
      BY <1>0, <2>1, <2>3 DEF RequestTold, RoleOf, AccountsTypeOK, Visits
    <3>6. RequestTold(v)'
      BY <2>1, <3>2, <3>4, <3>5 DEF RequestTold, Real, RoleOf
    <3> QED BY <2>1, <3>1, <3>3, <3>6, GoesOn
  <2> QED BY <2>2, <2>3
<1>3. CASE AssertGranted(v)
  <2>1. /\ visit[v].pc = "grants" /\ UNCHANGED <<active, people, shop, visits>>
        /\ \/ End(v)
           \/ visit[v].shops \subseteq grants[visit[v].by] /\ To(v, "serving", [tenant |-> visit[v].tenant])
    BY <1>3 DEF AssertGranted, Require, VisitAt
  <2>2. CASE End(v)
    BY <2>1, <2>2, RefuseStep
  <2>3. CASE ~End(v)
    <3> DEFINE fields == [tenant |-> visit[v].tenant]
    <3>1. To(v, "serving", fields) /\ "pc" \notin DOMAIN fields
      BY <2>1, <2>3
    <3>2. /\ DOMAIN visit'[v] = DOMAIN Idle /\ visit'[v] = [f \in DOMAIN Idle |-> visit'[v][f]] /\ visit'[v].pc = "serving"
          /\ visit'[v].by = visit[v].by /\ visit'[v].op = visit[v].op /\ visit'[v].allowed = visit[v].allowed
          /\ visit'[v].tenant = visit[v].tenant /\ visit'[v].shops = visit[v].shops /\ visit'[v].target = visit[v].target
          /\ visit'[v].role = visit[v].role /\ visit'[v].modules = visit[v].modules /\ visit'[v].token = visit[v].token
      BY <1>0, <3>1, FieldsWritten DEF Idle
    <3>3. visit'[v] \in Visits
      BY <1>0, <3>1, <3>2, RequestParts DEF Visits
    <3>4. /\ Real(visit[v].by) /\ user' = user /\ shop' = shop /\ granted' = granted
          /\ visit[v].by # Root => visit[v].tenant = user[visit[v].by].tenant
          /\ visit[v].by # Root => \A s \in visit[v].shops : shop[s].tenant = visit[v].tenant
      BY <1>0, <2>1 DEF people, RequestTold
    <3>5. visit[v].shops \subseteq granted[visit[v].by]
      BY <1>0, <2>1, <2>3 DEF RowsTold, Visits
    <3>6. RequestTold(v)'
      BY <3>2, <3>4, <3>5 DEF RequestTold, Real
    <3> QED BY <2>1, <3>1, <3>3, <3>6, GoesOn
  <2> QED BY <2>2, <2>3
<1> QED BY <1>1, <1>2, <1>3

\* A user is made.
LEMMA CreateUserStep ==
  ASSUME AccountsInv, NEW v \in Visit, NEW codes, CreateUserWrite(v, codes)
  PROVE  AccountsInv'
<1>0. visit[v] \in Visits /\ RequestTold(v) /\ RowsTold /\ AccountsTypeOK
  BY DEF AccountsInv
<1>1. /\ visit[v].pc = "newUser" /\ End(v) /\ UNCHANGED <<active, shop, visits>>
      /\ \/ UNCHANGED people
         \/ /\ user[visit[v].target] = NoUser
            /\ visit[v].role = "OPERATOR" => InvalidOperatorModules(codes) = {}
            /\ user' = [user EXCEPT ![visit[v].target] = [tenant |-> visit[v].tenant, role |-> visit[v].role, active |-> TRUE]]
            /\ grants' = [grants EXCEPT ![visit[v].target] = visit[v].shops]
            /\ modules' = [modules EXCEPT ![visit[v].target] = IF visit[v].role = "OPERATOR" THEN codes ELSE {}]
            /\ granted' = [granted EXCEPT ![visit[v].target] = visit[v].shops]
  BY DEF CreateUserWrite, VisitAt
<1>2. CASE UNCHANGED people
  BY <1>1, <1>2, RefuseStep
<1>3. CASE ~UNCHANGED people
  <2>1. PICK u \in User, t \in Tenant, role \in {"TENANT_ADMIN", "OPERATOR"}, shops \in SUBSET Shop, menu \in SUBSET DOMAIN OperatorModuleBundles :
          /\ u # Root /\ user[u] = NoUser /\ \A s \in shops : shop[s].tenant = t
          /\ user' = [user EXCEPT ![u] = [tenant |-> t, role |-> role, active |-> TRUE]]
          /\ grants' = [grants EXCEPT ![u] = shops] /\ modules' = [modules EXCEPT ![u] = menu]
          /\ granted' = [granted EXCEPT ![u] = shops]
    <3> DEFINE menu == IF visit[v].role = "OPERATOR" THEN codes ELSE {}
    <3>1. menu \in SUBSET DOMAIN OperatorModuleBundles
      BY <1>1, <1>3 DEF InvalidOperatorModules
    <3>2. /\ visit[v].target \in User /\ visit[v].target # Root /\ visit[v].tenant \in Tenant
          /\ visit[v].role \in {"TENANT_ADMIN", "OPERATOR"} /\ visit[v].shops \in SUBSET Shop
          /\ \A s \in visit[v].shops : shop[s].tenant = visit[v].tenant
      BY <1>0, <1>1 DEF RequestTold, Visits
    <3>3. modules' = [modules EXCEPT ![visit[v].target] = menu]
      BY <1>1, <1>3
    <3> HIDE DEF menu
    <3>4. /\ user[visit[v].target] = NoUser
          /\ user' = [user EXCEPT ![visit[v].target] = [tenant |-> visit[v].tenant, role |-> visit[v].role, active |-> TRUE]]
          /\ grants' = [grants EXCEPT ![visit[v].target] = visit[v].shops]
          /\ granted' = [granted EXCEPT ![visit[v].target] = visit[v].shops]
      BY <1>1, <1>3
    <3>5. PICK u \in User, t \in Tenant, role \in {"TENANT_ADMIN", "OPERATOR"}, shops \in SUBSET Shop :
            u = visit[v].target /\ t = visit[v].tenant /\ role = visit[v].role /\ shops = visit[v].shops
      BY <3>2
    <3> QED BY <3>1, <3>2, <3>3, <3>4, <3>5
  <2>2. /\ \A w \in User \ {u} : user'[w] = user[w] /\ granted'[w] = granted[w] /\ grants'[w] = grants[w]
        /\ user'[u].role = role /\ user'[u].tenant = t /\ user'[u].active = TRUE /\ granted'[u] = shops /\ grants'[u] = shops
    BY <1>0, <2>1 DEF AccountsTypeOK
  <2>3. AccountsTypeOK'
    BY <1>0, <1>1, <2>1, <2>2 DEF AccountsTypeOK, NoUser
  <2>4. RowsTold'
    BY <1>0, <1>1, <2>1, <2>2 DEF RowsTold, Real
  <2>5. Tame
    BY <1>1, <2>1, <2>2 DEF Tame, Real, NoUser
  <2> QED BY <1>1, <2>3, <2>4, <2>5, WriteStep
<1> QED BY <1>2, <1>3

\* A user is changed.
LEMMA UpdateUserStep ==
  ASSUME AccountsInv, NEW v \in Visit, NEW codes, NEW enabled \in BOOLEAN, UpdateUserWrite(v, codes, enabled)
  PROVE  AccountsInv'
<1>0. visit[v] \in Visits /\ RequestTold(v) /\ RowsTold /\ AccountsTypeOK
  BY DEF AccountsInv
<1>1. PICK u \in User, shops \in SUBSET Shop :
        /\ Real(u) /\ End(v) /\ UNCHANGED <<active, shop, visits>>
        /\ u # Root => \A s \in shops : shop[s].tenant = user[u].tenant
        /\ user' = [user EXCEPT ![u].active = enabled]
        /\ grants' = [grants EXCEPT ![u] = shops]
        /\ granted' = [granted EXCEPT ![u] = @ \cup shops]
  <2> DEFINE shops == IF user[visit[v].target].tenant = NoTenant THEN {} ELSE visit[v].shops
  <2>1. /\ visit[v].pc = "user" /\ End(v) /\ UNCHANGED <<active, shop, visits>>
        /\ user' = [user EXCEPT ![visit[v].target].active = enabled]
        /\ grants' = [grants EXCEPT ![visit[v].target] = shops]
        /\ granted' = [granted EXCEPT ![visit[v].target] = @ \cup shops]
    BY DEF UpdateUserWrite, VisitAt
  <2>2. shops \in SUBSET Shop /\ visit[v].target \in User /\ Real(visit[v].target)
    BY <1>0, <2>1 DEF Visits, RequestTold
  <2>3. visit[v].target # Root => \A s \in shops : shop[s].tenant = user[visit[v].target].tenant
    BY <1>0, <2>1 DEF RequestTold
  <2> HIDE DEF shops
  <2> QED BY <2>1, <2>2, <2>3
<1>2. modules' \in [User -> SUBSET DOMAIN OperatorModuleBundles]
  <2>1. modules' = modules \/ (modules' = [modules EXCEPT ![visit[v].target] = codes] /\ codes \subseteq DOMAIN OperatorModuleBundles)
    BY DEF UpdateUserWrite, InvalidOperatorModules
  <2> QED BY <1>0, <2>1 DEF AccountsTypeOK
<1>3. /\ \A w \in User \ {u} : user'[w] = user[w] /\ granted'[w] = granted[w] /\ grants'[w] = grants[w]
      /\ user'[u].role = user[u].role /\ user'[u].tenant = user[u].tenant
      /\ granted'[u] = granted[u] \cup shops /\ grants'[u] = shops
      /\ user' \in [User -> [tenant : Tenant \cup {NoTenant}, active : BOOLEAN, role : Roles]]
      /\ grants' \in [User -> SUBSET Shop] /\ granted' \in [User -> SUBSET Shop]
  BY <1>0, <1>1 DEF AccountsTypeOK, Roles
<1>4. AccountsTypeOK'
  BY <1>0, <1>1, <1>2, <1>3 DEF AccountsTypeOK, Roles
<1>5. RowsTold'
  BY <1>0, <1>1, <1>3 DEF RowsTold, Real
<1>6. Tame
  BY <1>1, <1>3 DEF Tame, Real
<1> QED BY <1>1, <1>4, <1>5, <1>6, WriteStep

\* What else is written: shops, and the status of a tenant.
LEMMA OtherWrites ==
  ASSUME AccountsInv, NEW v \in Visit,
         \/ \E s \in Shop, t \in Tenant, token \in BOOLEAN : CreateShop(v, s, t, token)
         \/ ShopWrite(v) \/ Serve(v)
         \/ \E t \in Tenant, open \in BOOLEAN : TenantStatus(v, t, open)
  PROVE  AccountsInv'
<1>0. visit[v] \in Visits /\ RequestTold(v) /\ RowsTold /\ AccountsTypeOK
  BY DEF AccountsInv
<1> DEFINE Rows == [tenant : Tenant \cup {NoTenant}, token : BOOLEAN, status : {"NONE", "PLACEHOLDER", "ENABLED", "DISABLED"}]
<1>1. ASSUME End(v), UNCHANGED <<people, visits>>, active' \subseteq Tenant, shop' \in [Shop -> Rows],
             \A s \in Shop : shop[s].tenant \in Tenant => shop'[s].tenant = shop[s].tenant
      PROVE  AccountsInv'
  <2>1. UNCHANGED <<user, grants, modules, granted, visits>>
    BY <1>1 DEF people
  <2>2. AccountsTypeOK'
    BY <1>0, <1>1, <2>1 DEF AccountsTypeOK
  <2>3. RowsTold'
    <3>1. \A u \in User : u # Root => \A s \in granted[u] : shop[s].tenant \in Tenant /\ s \in Shop
      BY <1>0 DEF RowsTold, AccountsTypeOK
    <3> QED BY <1>0, <1>1, <2>1, <3>1 DEF RowsTold, Real
  <2>4. Tame
    BY <1>1, <2>1 DEF Tame
  <2> QED BY <1>1, <2>2, <2>3, <2>4, WriteStep
<1>2. ASSUME NEW s \in Shop, NEW t \in Tenant, NEW token \in BOOLEAN, CreateShop(v, s, t, token) PROVE AccountsInv'
  <2>1. PICK row \in Rows : /\ shop[s] = NoShop /\ End(v) /\ UNCHANGED <<active, people, visits>>
                            /\ shop' \in {shop, [shop EXCEPT ![s] = row]}
    <3> DEFINE row == [tenant |-> t, token |-> token, status |-> IF token THEN "ENABLED" ELSE "PLACEHOLDER"]
    <3>1. row \in Rows
      OBVIOUS
    <3>2. /\ shop[s] = NoShop /\ End(v) /\ UNCHANGED <<active, people, visits>> /\ shop' \in {shop, [shop EXCEPT ![s] = row]}
      BY <1>2 DEF CreateShop
    <3> HIDE DEF row
    <3> QED BY <3>1, <3>2
  <2>2. shop[s].tenant \notin Tenant
    BY <2>1, AccountAssumptions DEF NoShop
  <2>3. shop \in [Shop -> Rows] /\ active \subseteq Tenant
    BY <1>0 DEF AccountsTypeOK
  <2> QED BY <1>1, <2>1, <2>2, <2>3
<1>3. CASE ShopWrite(v)
  <2>1. PICK token \in BOOLEAN, role \in {"ENABLED", "DISABLED"} :
           /\ End(v) /\ UNCHANGED <<active, people, visits>>
           /\ shop' = [s \in Shop |-> IF s \in visit[v].shops
                                      THEN [shop[s] EXCEPT !.token = @ \/ token,
                                                           !.status = IF token /\ role = "DISABLED" THEN shop[s].status ELSE role]
                                      ELSE shop[s]]
    <3>1. visit[v].pc = "shop"
      BY <1>3 DEF ShopWrite, VisitAt
    <3>2. visit[v].token \in BOOLEAN /\ visit[v].role \in {"ENABLED", "DISABLED"}
      BY <1>0, <3>1 DEF RequestTold, Visits
    <3> QED BY <1>3, <3>2, Zenon DEF ShopWrite
  <2>2. \A s \in Shop : shop[s] \in Rows
    BY <1>0 DEF AccountsTypeOK
  <2>3. ASSUME NEW s \in Shop PROVE shop'[s] \in Rows /\ shop'[s].tenant = shop[s].tenant
    <3>1. PICK w \in {"NONE", "PLACEHOLDER", "ENABLED", "DISABLED"} : w = IF token /\ role = "DISABLED" THEN shop[s].status ELSE role
      BY <2>2
    <3>2. PICK held \in BOOLEAN : held = (shop[s].token \/ token)
      OBVIOUS
    <3>3. shop'[s] = IF s \in visit[v].shops THEN [shop[s] EXCEPT !.token = held, !.status = w] ELSE shop[s]
      BY <2>1, <3>1, <3>2
    <3>4. \A row \in Rows : [row EXCEPT !.token = held, !.status = w] \in Rows /\ [row EXCEPT !.token = held, !.status = w].tenant = row.tenant
      OBVIOUS
    <3> QED BY <2>2, <3>3, <3>4
  <2>4. shop' \in [Shop -> Rows] /\ active \subseteq Tenant
    <3>1. shop' = [s \in Shop |-> shop'[s]]
      BY <2>1
    <3> QED BY <1>0, <2>3, <3>1 DEF AccountsTypeOK
  <2> QED BY <1>1, <2>1, <2>3, <2>4
<1>4. CASE Serve(v)
  <2>1. End(v) /\ UNCHANGED <<active, people, shop, visits>>
    BY <1>4 DEF Serve
  <2> QED BY <2>1, RefuseStep
<1>5. ASSUME NEW t \in Tenant, NEW open \in BOOLEAN, TenantStatus(v, t, open) PROVE AccountsInv'
  <2>1. End(v) /\ UNCHANGED <<people, shop, visits>> /\ active' \subseteq active \cup {t}
    BY <1>5 DEF TenantStatus
  <2> QED BY <1>0, <1>1, <2>1 DEF AccountsTypeOK
<1> QED BY <1>2, <1>3, <1>4, <1>5

-----------------------------------------------------------------------------
\* The invariant of users, shops and requests, from which the others follow.
THEOREM AccountsInvariant == AccountsSpec => []AccountsInv
<1>1. AccountsInit => AccountsInv
  <2> SUFFICES ASSUME AccountsInit PROVE AccountsInv
    OBVIOUS
  <2>1. /\ \A u \in User : /\ user[u] \in Staff \cup {NoUser, [NoUser EXCEPT !.role = "SUPER_ADMIN", !.active = TRUE]}
                           /\ user[u].role = "SUPER_ADMIN" <=> u = Root
        /\ user = [u \in User |-> user[u]]
    BY DEF AccountsInit
  <2>2. \A u \in User : /\ user[u] \in [tenant : Tenant \cup {NoTenant}, active : BOOLEAN, role : Roles]
                        /\ ~Real(u) => user[u] = NoUser
                        /\ Real(u) /\ u # Root => user[u].tenant \in Tenant
    <3> TAKE u \in User
    <3> DEFINE super == [NoUser EXCEPT !.role = "SUPER_ADMIN", !.active = TRUE]
    <3>1. CASE user[u] = NoUser
      BY <3>1 DEF NoUser, Real, Roles
    <3>2. CASE user[u] = super
      <4>1. /\ super \in [tenant : Tenant \cup {NoTenant}, active : BOOLEAN, role : Roles]
            /\ super.role = "SUPER_ADMIN"
        BY DEF NoUser, Roles
      <4> QED BY <2>1, <3>2, <4>1 DEF Real
    <3>3. CASE user[u] \in Staff
      BY <3>3 DEF Staff, Real, Roles
    <3> QED BY <2>1, <3>1, <3>2, <3>3
  <2>3. user \in [User -> [tenant : Tenant \cup {NoTenant}, active : BOOLEAN, role : Roles]]
    BY <2>1, <2>2
  <2>4. /\ grants = [u \in User |-> {}] /\ granted = [u \in User |-> {}]
        /\ modules = [u \in User |-> IF user[u].role = "OPERATOR" THEN {"menu:product"} ELSE {}]
        /\ visits = 0 /\ active = Tenant /\ visit = [v \in Visit |-> Idle]
        /\ shop \in [Shop -> {NoShop} \cup {[tenant |-> t, status |-> "ENABLED", token |-> TRUE] : t \in Tenant}]
    BY DEF AccountsInit
  <2>5. modules \in [User -> SUBSET DOMAIN OperatorModuleBundles]
    <3>1. "menu:product" \in DOMAIN OperatorModuleBundles
      BY DEF OperatorModuleBundles
    <3> QED BY <2>4, <3>1
  <2>6. shop \in [Shop -> [tenant : Tenant \cup {NoTenant}, token : BOOLEAN, status : {"NONE", "PLACEHOLDER", "ENABLED", "DISABLED"}]]
    <3> DEFINE Rows == [tenant : Tenant \cup {NoTenant}, token : BOOLEAN, status : {"NONE", "PLACEHOLDER", "ENABLED", "DISABLED"}]
               Open(t) == [tenant |-> t, status |-> "ENABLED", token |-> TRUE]
    <3>1. NoShop \in Rows /\ \A t \in Tenant : Open(t) \in Rows
      BY DEF NoShop
    <3>2. shop \in [Shop -> {NoShop} \cup {Open(t) : t \in Tenant}]
      BY <2>4
    <3> HIDE DEF Rows, Open
    <3>3. shop \in [Shop -> Rows]
      BY <3>1, <3>2
    <3> QED BY <3>3 DEF Rows
  <2>7. AccountsTypeOK
    BY <2>1, <2>3, <2>4, <2>5, <2>6, AccountAssumptions DEF AccountsTypeOK, Roles
  <2>8. RowsTold
    BY <2>2, <2>4 DEF RowsTold
  <2>9. Idle \in Visits /\ Idle.pc = "idle"
    BY AccountAssumptions DEF Idle, Visits, Roles
  <2>10. visit \in [Visit -> Visits] /\ \A v \in Visit : RequestTold(v)
    BY <2>4, <2>9 DEF RequestTold
  <2> QED BY <2>7, <2>8, <2>10 DEF AccountsInv
<1>2. AccountsInv /\ [AccountsNext]_accountVars => AccountsInv'
  <2> SUFFICES ASSUME AccountsInv, [AccountsNext]_accountVars PROVE AccountsInv'
    OBVIOUS
  <2>1. CASE UNCHANGED accountVars
    BY <2>1 DEF accountVars, people, AccountsInv, AccountsTypeOK, RowsTold, RequestTold, Real
  <2>2. CASE AccountsNext
    <3>1. PICK v \in Visit :
            \/ \E u \in User, op \in DOMAIN Required, header \in Tenant \cup {NoTenant} : Authenticate(v, u, op, header)
            \/ Guards(v)
            \/ \E target \in User, shops \in SUBSET Shop, role \in {"SUPER_ADMIN", "TENANT_ADMIN", "OPERATOR"}, t \in Tenant :
                 CreateUserTenant(v, target, role, t, shops)
            \/ CreateUserShops(v)
            \/ (\E target \in User, shops \in SUBSET Shop : UpdateUserRead(v, target, shops)) \/ UpdateUserShops(v)
            \/ \E codes \in Selections : CreateUserWrite(v, codes) \/ \E on \in BOOLEAN : UpdateUserWrite(v, codes, on)
            \/ \E s \in Shop, t \in Tenant, token \in BOOLEAN : CreateShop(v, s, t, token)
            \/ \E s \in Shop, status \in {"ENABLED", "DISABLED"} : ShopRead(v, s, status)
            \/ ShopWrite(v) \/ Serve(v)
            \/ \E t \in Tenant, open \in BOOLEAN : TenantStatus(v, t, open)
            \/ \E shops \in SUBSET Shop : AssertShopsAccessible(v, shops)
            \/ AssertGranted(v)
      BY <2>2, Zenon DEF AccountsNext
    <3>2. CASE \/ \E u \in User, op \in DOMAIN Required, header \in Tenant \cup {NoTenant} : Authenticate(v, u, op, header)
               \/ Guards(v)
      BY <3>2, GuardSteps
    <3>3. CASE \/ \E target \in User, shops \in SUBSET Shop, role \in {"SUPER_ADMIN", "TENANT_ADMIN", "OPERATOR"}, t \in Tenant :
                    CreateUserTenant(v, target, role, t, shops)
               \/ CreateUserShops(v)
      BY <3>3, CreateUserChecks
    <3>4. CASE (\E target \in User, shops \in SUBSET Shop : UpdateUserRead(v, target, shops)) \/ UpdateUserShops(v)
      BY <3>4, UpdateUserChecks
    <3>5. CASE \E codes \in Selections : CreateUserWrite(v, codes) \/ \E on \in BOOLEAN : UpdateUserWrite(v, codes, on)
      BY <3>5, CreateUserStep, UpdateUserStep
    <3>6. CASE \/ \E s \in Shop, t \in Tenant, token \in BOOLEAN : CreateShop(v, s, t, token)
               \/ ShopWrite(v) \/ Serve(v)
               \/ \E t \in Tenant, open \in BOOLEAN : TenantStatus(v, t, open)
      BY <3>6, OtherWrites
    <3>7. CASE \/ \E s \in Shop, status \in {"ENABLED", "DISABLED"} : ShopRead(v, s, status)
               \/ \E shops \in SUBSET Shop : AssertShopsAccessible(v, shops)
               \/ AssertGranted(v)
      BY <3>7, ShopChecks
    <3> QED BY <3>1, <3>2, <3>3, <3>4, <3>5, <3>6, <3>7
  <2> QED BY <2>1, <2>2
<1> QED BY <1>1, <1>2, PTL DEF AccountsSpec

\* Users, shops and permissions keep their types, and there is one super
\* administrator (UserService.create refuses to make another).
THEOREM AccountTypesCorrect == AccountsSpec => []AccountsTypeOK
<1>1. AccountsInv => AccountsTypeOK
  BY DEF AccountsInv
<1> QED BY <1>1, AccountsInvariant, PTL

\* No shop reaches a user of another tenant, nor a request of an operator it was
\* not granted to, however changes to users, shops and tenants interleave with it
\* (UserService, ShopAccessService).
THEOREM GrantsBoundService == AccountsSpec => []ServedWithinGrants
<1>1. AccountsInv => ServedWithinGrants
  <2> SUFFICES ASSUME AccountsInv PROVE ServedWithinGrants
    OBVIOUS
  <2>1. /\ visit \in [Visit -> Visits] /\ RowsTold /\ \A v \in Visit : RequestTold(v)
        /\ \A u \in User : user[u].role = "SUPER_ADMIN" <=> u = Root
    BY DEF AccountsInv, AccountsTypeOK
  <2>2. GrantsInTenant
    <3> SUFFICES ASSUME NEW u \in User \ {Root}, NEW s \in granted[u] \cup ListAccessibleShops(u, user[u].tenant)
                 PROVE  shop[s].tenant = user[u].tenant
      BY DEF GrantsInTenant
    <3>1. ListAccessibleShops(u, user[u].tenant) \subseteq granted[u] \cup {x \in Shop : shop[x].tenant = user[u].tenant}
      BY <2>1 DEF ListAccessibleShops, RowsTold
    <3> QED BY <2>1, <3>1 DEF RowsTold
  <2>3. WorksWithinGrants
    BY <2>1 DEF WorksWithinGrants, RequestTold, RoleOf, VisitAt, Visits
  <2> QED BY <2>2, <2>3 DEF ServedWithinGrants
<1> QED BY <1>1, AccountsInvariant, PTL

-----------------------------------------------------------------------------
(* AiSelection, for any number of items, products and rows.                *)

\* The values of the variables.
Steps == {"none", "open", "snapshot", "find", "upsert", "mark", "aiFind", "aiWrite", "aiAdd", "done", "gone"}
Items == [at : Steps, direct : BOOLEAN, fresh : BOOLEAN, product : 0..MaxProducts, score : 0..MaxScores]
ScoreRows == [id : 1..MaxScores, snapshot : Visited, product : 0..MaxProducts,
              status : {"QUEUED", "RUNNING", "SUCCESS", "FAILED"}, of : SUBSET Visited]
ScoringJobs == [snapshot : Visited, product : 0..MaxProducts, score : 0..MaxScores]

SelectionTypes ==
  /\ item \in [Visited -> Items] /\ snapshots \subseteq Visited /\ hasKey \in BOOLEAN
  /\ chosen \in [id : 0..MaxProducts, status : CatalogStatuses \cup {"AI_DONE", "NONE"}]
  /\ scores \subseteq ScoreRows /\ jobs \in Seq(ScoringJobs)
  /\ worker \in [at : {"idle", "ask", "touch"}, job : ScoringJobs \cup {NoScoring}]
  /\ made \in [products : 0..MaxProducts, scores : 0..MaxScores]

\* Numbers are given once: to products, and to rows, of which one has a number.
Numbered ==
  /\ chosen.id <= made.products /\ (chosen.id # 0 => chosen.status \in CatalogStatuses)
  /\ \A r \in scores : r.id <= made.scores /\ r.product <= made.products
  /\ \A q, r \in scores : q.id = r.id => q = r

\* How far an ingestion has come says what it holds.
Stages ==
  \A i \in Visited :
    /\ item[i].product <= made.products /\ item[i].score <= made.scores
    /\ item[i].at \in {"none", "open", "snapshot", "find", "upsert"} => item[i].product = 0 /\ item[i].score = 0
    /\ item[i].at \in {"mark", "aiFind", "aiWrite", "aiAdd"} => item[i].product # 0
    /\ item[i].at \in {"mark", "aiFind"} => item[i].score = 0
    /\ item[i].at \in {"aiFind", "aiWrite", "aiAdd"} => item[i].fresh

\* A row of a product was written by an item that found the product new.
RowOrigins ==
  \A r \in scores : r.product # 0 =>
    LET k == item[r.snapshot]
    IN k.product = r.product /\ k.fresh /\ k.at \in {"aiAdd", "done"}

\* The row an item found or made is of its product, unless that was removed.
RowsMet ==
  \A i \in Visited, r \in scores :
    item[i].at \in {"aiWrite", "aiAdd", "done", "gone"} /\ r.id = item[i].score =>
      /\ r.product \in {item[i].product, 0}
      /\ item[i].product = chosen.id => r.product = item[i].product

\* A job is that of an item which found its product new, and has ended.
JobsOf(s) == {s[n] : n \in 1..Len(s)}
Waits(job) == job \in JobsOf(jobs) \/ (worker.at # "idle" /\ worker.job = job)
JobOrigins ==
  /\ \A job \in ScoringJobs : Waits(job) =>
       LET k == item[job.snapshot]
       IN k.fresh /\ k.at \in {"done", "gone"} /\ k.score = job.score /\ k.product = job.product
  /\ worker.at # "idle" => hasKey /\ worker.job \in ScoringJobs

\* Two items that found one product new are known to have written it together.
Mixed(p) == <<"mixed", p>> \in gaps
SharedKnown ==
  chosen.id # 0 =>
    /\ \A i \in Visited : item[i].at = "upsert" /\ item[i].fresh => Mixed(chosen.id)
    /\ \A i, j \in Visited :
         /\ item[i].fresh /\ item[i].product = chosen.id
         /\ item[j].fresh /\ item[j].product = chosen.id
         => i = j \/ Mixed(chosen.id)

\* A product not given up has its row, or an item that is to write it; a row that
\* waits to be scored has a job that can, or an item that is to add it; and a score
\* that one item wrote is that of its snapshot.
Outcome == IF hasKey THEN {"SUCCESS", "FAILED"} ELSE {"RUNNING"}
Pending(r) ==
  \/ \E job \in JobsOf(jobs) : job.score = r.id /\ job.snapshot \in snapshots
  \/ worker.at = "ask" /\ worker.job.score = r.id /\ worker.job.snapshot \in snapshots
  \/ \E i \in Visited : item[i].at = "aiAdd" /\ item[i].score = r.id /\ i \in snapshots
Scored ==
  chosen.id # 0 /\ <<"lost", chosen.id>> \notin gaps =>
    /\ \/ \E r \in scores : r.product = chosen.id
       \/ \E i \in Visited : /\ item[i].at \in {"mark", "aiFind", "aiWrite"} /\ item[i].fresh
                             /\ item[i].product = chosen.id
    /\ \A r \in scores : r.product = chosen.id => r.status \in Outcome \/ Pending(r)
ScoreFits ==
  chosen.id # 0 /\ ~Mixed(chosen.id) =>
    \A r \in scores : r.product = chosen.id /\ r.status = "SUCCESS" => r.of = {r.snapshot}

\* All of them: the inductive invariant.
SelectionInv ==
  /\ SelectionTypes /\ Numbered /\ Stages /\ RowOrigins /\ RowsMet /\ JobOrigins
  /\ SharedKnown /\ Scored /\ ScoreFits

-----------------------------------------------------------------------------
\* What a queue holds as a job joins it,
LEMMA QueueJoined ==
  ASSUME NEW S, NEW s \in Seq(S), NEW e \in S
  PROVE  Append(s, e) \in Seq(S) /\ JobsOf(Append(s, e)) = JobsOf(s) \cup {e}
<1>1. /\ Append(s, e) \in Seq(S) /\ Len(Append(s, e)) = Len(s) + 1 /\ Len(s) \in Nat
      /\ \A n \in 1..Len(s) : Append(s, e)[n] = s[n] /\ Append(s, e)[Len(s) + 1] = e
  BY AppendProperties, LenProperties
<1>2. Append(s, e)[Len(s) + 1] = e
  BY AppendProperties
<1>3. 1..(Len(s) + 1) = 1..Len(s) \cup {Len(s) + 1}
  BY <1>1
<1> QED BY <1>1, <1>2, <1>3 DEF JobsOf

\* as a job comes back to it,
LEMMA QueueResumed ==
  ASSUME NEW S, NEW s \in Seq(S), NEW e \in S
  PROVE  <<e>> \o s \in Seq(S) /\ JobsOf(<<e>> \o s) = JobsOf(s) \cup {e}
<1> DEFINE t == <<e>> \o s
<1>1. /\ t \in Seq(S) /\ Len(t) = 1 + Len(s) /\ Len(s) \in Nat
      /\ t[1] = e /\ \A n \in 2..(1 + Len(s)) : t[n] = s[n - 1]
  <2>1. <<e>> \in Seq(S) /\ Len(<<e>>) = 1 /\ <<e>>[1] = e
    OBVIOUS
  <2>2. /\ t \in Seq(S) /\ Len(t) = Len(<<e>>) + Len(s)
        /\ \A n \in 1..(Len(<<e>>) + Len(s)) : t[n] = IF n <= Len(<<e>>) THEN <<e>>[n] ELSE s[n - Len(<<e>>)]
    BY <2>1, ConcatProperties
  <2>3. Len(s) \in Nat
    BY LenProperties
  <2> HIDE DEF t
  <2> QED BY <2>1, <2>2, <2>3
<1> HIDE DEF t
<1>2. JobsOf(t) \subseteq JobsOf(s) \cup {e}
  <2> SUFFICES ASSUME NEW n \in 1..Len(t) PROVE t[n] \in JobsOf(s) \cup {e}
    BY DEF JobsOf
  <2>1. CASE n = 1
    BY <1>1, <2>1
  <2>2. CASE n # 1
    <3>1. n - 1 \in 1..Len(s) /\ t[n] = s[n - 1]
      BY <1>1, <2>2
    <3> QED BY <3>1 DEF JobsOf
  <2> QED BY <2>1, <2>2
<1>3. ASSUME NEW n \in 1..Len(s) PROVE s[n] \in JobsOf(t)
  <2>1. n + 1 \in 1..Len(t) /\ t[n + 1] = s[n]
    BY <1>1
  <2> QED BY <2>1 DEF JobsOf
<1>4. e \in JobsOf(t)
  <2>1. 1 \in 1..Len(t) /\ t[1] = e
    BY <1>1
  <2> QED BY <2>1 DEF JobsOf
<1>5. JobsOf(s) \subseteq JobsOf(t)
  BY <1>3 DEF JobsOf
<1>6. t \in Seq(S) /\ JobsOf(t) = JobsOf(s) \cup {e}
  BY <1>1, <1>2, <1>4, <1>5
<1> QED BY <1>6 DEF t

\* and as a job leaves it.
LEMMA QueueLeft ==
  ASSUME NEW S, NEW s \in Seq(S), s # <<>>
  PROVE  Tail(s) \in Seq(S) /\ Head(s) \in S /\ JobsOf(s) = {Head(s)} \cup JobsOf(Tail(s))
<1>1. /\ Tail(s) \in Seq(S) /\ Head(s) \in S /\ Len(s) \in Nat /\ Len(s) >= 1 /\ Len(Tail(s)) = Len(s) - 1
      /\ Head(s) = s[1] /\ \A n \in 1..Len(Tail(s)) : Tail(s)[n] = s[n + 1]
  BY HeadTailProperties, LenProperties, EmptySeq
<1>2. JobsOf(s) \subseteq {Head(s)} \cup JobsOf(Tail(s))
  <2> SUFFICES ASSUME NEW n \in 1..Len(s) PROVE s[n] \in {Head(s)} \cup JobsOf(Tail(s))
    BY DEF JobsOf
  <2>1. CASE n = 1
    BY <1>1, <2>1
  <2>2. CASE n # 1
    <3>1. n - 1 \in 1..Len(Tail(s)) /\ Tail(s)[n - 1] = s[n]
      BY <1>1, <2>2
    <3> QED BY <3>1 DEF JobsOf
  <2> QED BY <2>1, <2>2
<1>3. ASSUME NEW n \in 1..Len(Tail(s)) PROVE Tail(s)[n] \in JobsOf(s)
  <2>1. n + 1 \in 1..Len(s) /\ Tail(s)[n] = s[n + 1]
    BY <1>1
  <2> QED BY <2>1 DEF JobsOf
<1>4. Head(s) \in JobsOf(s)
  <2>1. 1 \in 1..Len(s) /\ s[1] = Head(s)
    BY <1>1
  <2> QED BY <2>1 DEF JobsOf
<1>5. JobsOf(Tail(s)) \subseteq JobsOf(s)
  BY <1>3 DEF JobsOf
<1> QED BY <1>1, <1>2, <1>4, <1>5

\* The row of a number, where there is one.
LEMMA RowOf ==
  ASSUME Numbered, NEW id, HasRow(id)
  PROVE  ScoreRow(id) \in scores /\ ScoreRow(id).id = id /\ \A r \in scores : r.id = id => r = ScoreRow(id)
<1>1. PICK r \in scores : r.id = id
  BY DEF HasRow
<1>2. ScoreRow(id) \in scores /\ ScoreRow(id).id = id
  BY <1>1 DEF ScoreRow
<1> QED BY <1>2 DEF Numbered

\* An ingestion goes on without writing a product, a row or a job.
LEMMA MoveStep ==
  ASSUME SelectionInv, NEW i \in Visited, NEW to \in Items, item' = [item EXCEPT ![i] = to],
         UNCHANGED <<chosen, scores, jobs, worker, hasKey, made, gaps>>,
         snapshots \subseteq snapshots', snapshots' \subseteq Visited,
         item[i].at \notin {"aiWrite", "aiAdd", "done", "gone"}, to.at \notin {"aiAdd", "gone"},
         to.product = item[i].product, to.product # 0 /\ to.fresh => item[i].fresh, to.product # 0 /\ item[i].fresh => to.fresh, to.score <= made.scores,
         to.at \in {"none", "open", "snapshot", "find", "upsert"} => to.product = 0 /\ to.score = 0,
         to.at \in {"mark", "aiFind", "aiWrite"} => to.product # 0,
         to.at \in {"mark", "aiFind"} => to.score = 0,
         to.at \in {"aiFind", "aiWrite"} => to.fresh,
         to.at = "upsert" /\ to.fresh => chosen.id = 0,
         \A r \in scores : to.at \in {"aiWrite", "done"} /\ r.id = to.score => r.product = to.product,
         item[i].at \in {"mark", "aiFind"} /\ to.fresh => to.at \in {"mark", "aiFind", "aiWrite"}
  PROVE  SelectionInv'
<1>0. /\ SelectionTypes /\ Numbered /\ Stages /\ RowOrigins /\ RowsMet /\ JobOrigins /\ SharedKnown /\ Scored /\ ScoreFits
      /\ item \in [Visited -> Items]
  BY DEF SelectionInv, SelectionTypes
<1>1. item'[i] = to /\ \A j \in Visited \ {i} : item'[j] = item[j]
  BY <1>0
<1>2. SelectionTypes'
  BY <1>0 DEF SelectionTypes
<1>3. Numbered' /\ Stages'
  BY <1>0, <1>1 DEF Numbered, Stages
<1>4. RowOrigins'
  <2>1. \A r \in scores : r.snapshot \in Visited
    BY <1>0 DEF SelectionTypes, ScoreRows
  <2> QED BY <1>0, <1>1, <2>1 DEF RowOrigins
<1>5. RowsMet'
  BY <1>0, <1>1 DEF RowsMet
<1>6. JobOrigins'
  <2>1. \A job \in ScoringJobs : job.snapshot \in Visited
    BY DEF ScoringJobs
  <2> QED BY <1>0, <1>1, <2>1 DEF JobOrigins, Waits
<1>7. SharedKnown'
  BY <1>0, <1>1 DEF SharedKnown, Mixed
<1>8. Scored'
  <2> SUFFICES ASSUME chosen.id # 0, <<"lost", chosen.id>> \notin gaps
               PROVE  /\ \/ \E r \in scores : r.product = chosen.id
                         \/ \E j \in Visited : /\ item'[j].at \in {"mark", "aiFind", "aiWrite"} /\ item'[j].fresh
                                               /\ item'[j].product = chosen.id
                      /\ \A r \in scores : r.product = chosen.id => r.status \in Outcome \/ Pending(r)'
    BY DEF Scored, Outcome
  <2>1. \/ \E r \in scores : r.product = chosen.id
        \/ \E j \in Visited : /\ item'[j].at \in {"mark", "aiFind", "aiWrite"} /\ item'[j].fresh
                              /\ item'[j].product = chosen.id
    BY <1>0, <1>1 DEF Scored
  <2>2. ASSUME NEW r \in scores, Pending(r) PROVE Pending(r)'
    BY <1>1, <2>2 DEF Pending
  <2> QED BY <1>0, <2>1, <2>2 DEF Scored
<1>9. ScoreFits'
  BY <1>0 DEF ScoreFits, Mixed
<1> QED BY <1>2, <1>3, <1>4, <1>5, <1>6, <1>7, <1>8, <1>9 DEF SelectionInv

\* The steps of that kind.
LEMMA Moves ==
  ASSUME SelectionInv, NEW i \in Visited,
         \/ Claimed(i) \/ IngestDirect(i) \/ IngestStart(i) \/ WriteSnapshot(i) \/ FindProduct(i)
         \/ MarkSuccess(i) \/ FindSelection(i)
  PROVE  SelectionInv'
<1>0. /\ SelectionTypes /\ Numbered /\ Stages /\ RowsMet /\ item \in [Visited -> Items] /\ item[i] \in Items /\ snapshots \subseteq Visited
      /\ item[i].product <= made.products /\ item[i].score <= made.scores
      /\ made \in [products : 0..MaxProducts, scores : 0..MaxScores] /\ \A r \in scores : r.id \in 1..MaxScores
      /\ MaxProducts \in Nat \ {0} /\ MaxScores \in Nat \ {0}
  BY SelectionAssumptions DEF SelectionInv, SelectionTypes, Stages, ScoreRows
<1>00. 0 \in 0..MaxProducts /\ 0 \in 0..MaxScores /\ 0 <= made.scores
  BY <1>0
<1>1. CASE Claimed(i) \/ IngestDirect(i)
  <2>1. Unmet \in Items /\ Unmet.product = 0 /\ Unmet.score = 0 /\ Unmet.fresh = FALSE
    BY <1>00 DEF Unmet, Items, Steps
  <2>2. PICK to \in {[Unmet EXCEPT !.at = "open"], [Unmet EXCEPT !.at = "snapshot", !.direct = TRUE]} :
          /\ item[i].at = "none" /\ UNCHANGED <<snapshots, chosen, scores, jobs, worker, hasKey, made, gaps>>
          /\ item' = [item EXCEPT ![i] = to]
    BY <1>1 DEF Claimed, IngestDirect, Stands, Go
  <2>3. to \in Items /\ to.at \in {"open", "snapshot"} /\ ~to.fresh /\ to.product = 0 /\ to.score = 0
    BY <2>1 DEF Items, Steps
  <2>4. item[i].product = 0
    BY <1>0, <2>2 DEF Stages
  <2>5. to.at \notin {"aiWrite", "aiAdd", "done", "gone", "mark", "aiFind", "upsert"} /\ snapshots' \subseteq Visited /\ snapshots \subseteq snapshots'
    BY <1>0, <2>2, <2>3
  <2> QED BY <1>00, <2>2, <2>3, <2>4, <2>5, MoveStep
<1>2. CASE IngestStart(i) \/ WriteSnapshot(i)
  <2>1. PICK step \in {"snapshot", "find"} :
          /\ item[i].at \in {"open", "snapshot"} /\ UNCHANGED <<chosen, scores, jobs, worker, hasKey, made, gaps>>
          /\ item' = [item EXCEPT ![i] = [item[i] EXCEPT !.at = step]]
          /\ snapshots \subseteq snapshots' /\ snapshots' \subseteq Visited
    BY <1>0, <1>2 DEF IngestStart, WriteSnapshot, Stands, GoTo, Go
  <2> DEFINE to == [item[i] EXCEPT !.at = step]
  <2>2. to \in Items /\ to.at = step /\ (to.fresh => item[i].fresh) /\ (item[i].fresh => to.fresh) /\ to.product = item[i].product /\ to.score = item[i].score
    BY <1>0 DEF Items, Steps
  <2>3. item' = [item EXCEPT ![i] = to] /\ item[i].product = 0 /\ item[i].score = 0
    BY <1>0, <2>1 DEF Stages
  <2> HIDE DEF to
  <2>4. to.at \notin {"aiAdd", "gone"} /\ to.product = item[i].product
    BY <2>2
  <2>5. (to.product # 0 /\ to.fresh => item[i].fresh) /\ (to.product # 0 /\ item[i].fresh => to.fresh)
    BY <2>2
  <2>6. to.score <= made.scores
    BY <1>00, <2>2, <2>3
  <2>7. item[i].at \notin {"aiWrite", "aiAdd", "done", "gone"}
    BY <2>1
  <2>8. (to.at \in {"none", "open", "snapshot", "find", "upsert"} => to.product = 0 /\ to.score = 0)
    BY <2>2, <2>3
  <2>9. ~(to.at \in {"mark", "aiFind", "aiWrite", "done", "upsert"})
    BY <2>2
  <2>10. snapshots \subseteq snapshots' /\ snapshots' \subseteq Visited /\ UNCHANGED <<chosen, scores, jobs, worker, hasKey, made, gaps>>
    BY <2>1
  <2> QED BY <2>2, <2>3, <2>4, <2>5, <2>6, <2>7, <2>8, <2>9, <2>10, <2>1, MoveStep
<1>3. CASE FindProduct(i)
  <2>1. PICK fresh \in BOOLEAN : fresh = ShouldAi
    BY DEF ShouldAi
  <2> DEFINE to == [item[i] EXCEPT !.at = "upsert", !.fresh = fresh]
  <2>2. to \in Items /\ to.at = "upsert" /\ to.fresh = fresh /\ to.product = item[i].product /\ to.score = item[i].score
    BY <1>0 DEF Items, Steps
  <2>3. item' = [item EXCEPT ![i] = to] /\ item[i].at = "find" /\ UNCHANGED <<snapshots, chosen, scores, jobs, worker, hasKey, made, gaps>>
    BY <1>3, <2>1 DEF FindProduct, Stands, Go
  <2>4. item[i].product = 0 /\ item[i].score = 0 /\ (fresh => chosen.id = 0) /\ snapshots \subseteq snapshots' /\ snapshots' \subseteq Visited
    BY <1>0, <2>1, <2>3 DEF Stages, ShouldAi, Numbered
  <2> HIDE DEF to
  <2> QED BY <1>00, <2>2, <2>3, <2>4, MoveStep
<1>4. CASE MarkSuccess(i)
  <2>1. PICK step \in {"aiFind", "done"} :
          /\ item[i].at = "mark" /\ UNCHANGED <<snapshots, chosen, scores, jobs, worker, hasKey, made, gaps>>
          /\ item' = [item EXCEPT ![i] = [item[i] EXCEPT !.at = step]]
          /\ step = IF item[i].fresh THEN "aiFind" ELSE "done"
    BY <1>4 DEF MarkSuccess, Stands, GoTo, Go
  <2> DEFINE to == [item[i] EXCEPT !.at = step]
  <2>2. to \in Items /\ to.at = step /\ (to.fresh => item[i].fresh) /\ (item[i].fresh => to.fresh) /\ to.product = item[i].product /\ to.score = item[i].score
    BY <1>0 DEF Items, Steps
  <2>3. item' = [item EXCEPT ![i] = to] /\ item[i].product # 0 /\ item[i].score = 0 /\ \A r \in scores : r.id # 0
    BY <1>0, <2>1 DEF Stages
  <2> HIDE DEF to
  <2>4. to.at \notin {"aiAdd", "gone", "upsert", "none", "open", "snapshot", "find", "mark", "aiWrite"} /\ to.product = item[i].product
    BY <2>1, <2>2
  <2>5. (to.fresh => item[i].fresh) /\ (item[i].fresh => to.fresh)
    BY <2>2
  <2>6. to.score <= made.scores /\ to.score = 0
    BY <1>00, <2>2, <2>3
  <2>7. item[i].at \notin {"aiWrite", "aiAdd", "done", "gone"}
    BY <2>1
  <2>8. (to.at = "aiFind" => to.fresh) /\ (to.fresh => to.at = "aiFind") /\ to.product # 0
    BY <2>1, <2>2, <2>3
  <2>9. snapshots \subseteq snapshots' /\ snapshots' \subseteq Visited /\ UNCHANGED <<chosen, scores, jobs, worker, hasKey, made, gaps>>
    BY <1>0, <2>1
  <2> QED BY <2>2, <2>3, <2>4, <2>5, <2>6, <2>7, <2>8, <2>9, MoveStep
<1>5. CASE FindSelection(i)
  <2>1. PICK score \in 0..MaxScores :
          /\ item[i].at = "aiFind" /\ UNCHANGED <<snapshots, chosen, scores, jobs, worker, hasKey, made, gaps>>
          /\ item' = [item EXCEPT ![i] = [item[i] EXCEPT !.at = "aiWrite", !.score = score]]
          /\ score <= made.scores /\ \A r \in scores : r.id = score => r.product = item[i].product
    <3> DEFINE rows == RowsOf(item[i].product)
               score == IF rows = {} THEN 0 ELSE (CHOOSE r \in rows : TRUE).id
    <3>1. /\ item[i].at = "aiFind" /\ UNCHANGED <<snapshots, chosen, scores, jobs, worker, hasKey, made, gaps>>
          /\ item' = [item EXCEPT ![i] = [item[i] EXCEPT !.at = "aiWrite", !.score = score]]
      BY <1>5 DEF FindSelection, Stands, Go
    <3>2. score = 0 \/ \E q \in scores : q.product = item[i].product /\ score = q.id
      BY DEF RowsOf
    <3> HIDE DEF score, rows
    <3>3. CASE score = 0
      <4>1. \A r \in scores : r.id # score
        BY <1>0, <3>3
      <4> QED BY <1>00, <3>1, <3>3, <4>1
    <3>4. ASSUME NEW q \in scores, q.product = item[i].product, score = q.id
          PROVE  score \in 0..MaxScores /\ score <= made.scores /\ \A r \in scores : r.id = score => r.product = item[i].product
      BY <1>0, <3>4 DEF Numbered
    <3> QED BY <3>1, <3>2, <3>3, <3>4
  <2> DEFINE to == [item[i] EXCEPT !.at = "aiWrite", !.score = score]
  <2>2. to \in Items /\ to.at = "aiWrite" /\ (to.fresh => item[i].fresh) /\ (item[i].fresh => to.fresh) /\ to.product = item[i].product /\ to.score = score
    BY <1>0 DEF Items, Steps
  <2>3. item' = [item EXCEPT ![i] = to] /\ item[i].product # 0 /\ item[i].fresh
    BY <1>0, <2>1 DEF Stages
  <2>4. snapshots \subseteq snapshots' /\ snapshots' \subseteq Visited
    BY <1>0, <2>1
  <2> HIDE DEF to
  <2> QED BY <1>00, <2>1, <2>2, <2>3, <2>4, MoveStep
<1> QED BY <1>1, <1>2, <1>3, <1>4, <1>5

\* The product is made, or brought up to date.
LEMMA UpsertStep ==
  ASSUME SelectionInv, NEW i \in Visited, UpsertProduct(i)
  PROVE  SelectionInv'
<1>0. /\ SelectionTypes /\ Numbered /\ Stages /\ RowOrigins /\ RowsMet /\ JobOrigins /\ SharedKnown /\ Scored /\ ScoreFits
      /\ item \in [Visited -> Items] /\ item[i] \in Items /\ MaxProducts \in Nat \ {0} /\ MaxScores \in Nat \ {0}
      /\ made \in [products : 0..MaxProducts, scores : 0..MaxScores] /\ chosen.id \in 0..MaxProducts
      /\ \A j \in Visited : item[j].product \in 0..MaxProducts /\ item[j].product <= made.products
      /\ \A r \in scores : r.product \in 0..MaxProducts /\ r.product <= made.products /\ r.snapshot \in Visited
  BY SelectionAssumptions DEF SelectionInv, SelectionTypes, Items, Stages, Numbered, ScoreRows
<1>1. PICK p \in 1..MaxProducts, n \in 0..MaxProducts :
        /\ chosen' \in [id : 0..MaxProducts, status : CatalogStatuses \cup {"AI_DONE", "NONE"}]
        /\ chosen'.id = p /\ chosen'.status \in CatalogStatuses
        /\ made' = [made EXCEPT !.products = n] /\ n >= made.products /\ n >= p
        /\ chosen.id # 0 => p = chosen.id
        /\ chosen.id = 0 => p > made.products
  <2>1. chosen.id = 0 => made.products < MaxProducts
    BY DEF UpsertProduct
  <2>2. CASE chosen.id = 0
    <3>1. PICK n \in 1..MaxProducts : n = made.products + 1
      BY <1>0, <2>1, <2>2
    <3>2. made' = [made EXCEPT !.products = n] /\ chosen' = [id |-> made'.products, status |-> "APPROVED"]
      BY <2>2, <3>1 DEF UpsertProduct
    <3>3. made'.products = n
      BY <1>0, <3>2
    <3>4. chosen' = [id |-> n, status |-> "APPROVED"] /\ n \in 0..MaxProducts
      BY <3>2, <3>3
    <3>5. n > made.products /\ n >= made.products /\ n >= n
      BY <1>0, <3>1
    <3> QED BY <2>2, <3>1, <3>2, <3>4, <3>5 DEF CatalogStatuses
  <2>3. CASE chosen.id # 0
    <3>1. PICK status \in CatalogStatuses : chosen' = [chosen EXCEPT !.status = status]
      <4>1. chosen.status \in CatalogStatuses /\ "APPROVED" \in CatalogStatuses
        BY <1>0, <2>3 DEF Numbered, CatalogStatuses
      <4> QED BY <2>3, <4>1 DEF UpsertProduct
    <3>2. chosen' \in [id : 0..MaxProducts, status : CatalogStatuses \cup {"AI_DONE", "NONE"}] /\ chosen'.id = chosen.id /\ chosen'.status = status
      BY <1>0, <3>1 DEF SelectionTypes
    <3>3. made' = made /\ made = [made EXCEPT !.products = made.products] /\ made.products \in 0..MaxProducts
      BY <1>0, <2>3 DEF UpsertProduct
    <3>4. chosen.id \in 1..MaxProducts /\ chosen.id <= made.products /\ made.products >= made.products /\ made.products >= chosen.id
      BY <1>0, <2>3 DEF Numbered
    <3> QED BY <2>3, <3>1, <3>2, <3>3, <3>4
  <2> QED BY <2>2, <2>3
<1>2. /\ item[i].at = "upsert" /\ UNCHANGED <<snapshots, scores, jobs, worker, hasKey>>
      /\ item' = [item EXCEPT ![i] = [item[i] EXCEPT !.at = "mark", !.product = p]]
      /\ gaps \subseteq gaps'
      /\ OthersIn(i) => <<"mixed", p>> \in gaps'
      /\ chosen.id = 0 /\ ~item[i].fresh => <<"lost", p>> \in gaps'
  <2>1. p \in {p} \ {0}
    BY <1>1
  <2> QED BY <1>1, <2>1 DEF UpsertProduct, Stands, Go, Lost
<1> DEFINE to == [item[i] EXCEPT !.at = "mark", !.product = p]
<1>3. to \in Items /\ to.at = "mark" /\ to.product = p /\ to.score = item[i].score /\ (to.fresh => item[i].fresh) /\ (item[i].fresh => to.fresh)
  BY <1>0, <1>1 DEF Items, Steps
<1>4. item' = [item EXCEPT ![i] = to]
  BY <1>2
<1> HIDE DEF to
<1>5. item'[i] = to /\ \A j \in Visited \ {i} : item'[j] = item[j]
  BY <1>0, <1>4
<1>6. made' \in [products : 0..MaxProducts, scores : 0..MaxScores] /\ made'.products = n /\ made'.scores = made.scores
  BY <1>0, <1>1
<1>7. SelectionTypes'
  BY <1>0, <1>1, <1>2, <1>3, <1>4, <1>6 DEF SelectionTypes
<1>8. Numbered'
  BY <1>0, <1>1, <1>2, <1>6 DEF Numbered
<1>9. Stages'
  <2>1. item[i].score = 0 /\ p # 0 /\ 0 <= made.scores
    BY <1>0, <1>1, <1>2 DEF Stages
  <2>2. \A j \in Visited : item[j].product <= n
    BY <1>0, <1>1
  <2> QED BY <1>0, <1>1, <1>3, <1>5, <1>6, <2>1, <2>2 DEF Stages
<1>10. RowOrigins'
  BY <1>0, <1>2, <1>5 DEF RowOrigins
<1>11. RowsMet'
  <2>1. \A j \in Visited \ {i} : item[j].product = p => item[j].product = chosen.id
    BY <1>0, <1>1
  <2> QED BY <1>0, <1>1, <1>2, <1>3, <1>5, <2>1 DEF RowsMet
<1>12. JobOrigins'
  <2>1. \A job \in ScoringJobs : job.snapshot \in Visited
    BY DEF ScoringJobs
  <2> QED BY <1>0, <1>2, <1>5, <2>1 DEF JobOrigins, Waits
<1>13. SharedKnown'
  <2>1. ASSUME NEW j \in Visited, item'[j].at = "upsert" PROVE <<"mixed", p>> \in gaps'
    <3>1. j # i /\ InFlight(j)
      BY <1>3, <1>5, <2>1 DEF InFlight
    <3> QED BY <1>2, <3>1 DEF OthersIn
  <2>2. ASSUME NEW j \in Visited \ {i}, NEW k \in Visited \ {i},
               item[j].fresh, item[j].product = p, item[k].fresh, item[k].product = p
        PROVE  j = k \/ <<"mixed", p>> \in gaps'
    <3>1. chosen.id # 0 /\ p = chosen.id
      BY <1>0, <1>1, <2>2
    <3> QED BY <1>0, <1>2, <2>2, <3>1 DEF SharedKnown, Mixed
  <2>3. ASSUME NEW j \in Visited \ {i}, item[j].product = p, item[i].fresh PROVE <<"mixed", p>> \in gaps'
    <3>1. chosen.id # 0 /\ p = chosen.id
      BY <1>0, <1>1, <2>3
    <3> QED BY <1>0, <1>2, <2>3, <3>1 DEF SharedKnown, Mixed
  <2> QED BY <1>1, <1>3, <1>5, <2>1, <2>2, <2>3 DEF SharedKnown, Mixed
<1>14. Scored'
  <2> SUFFICES ASSUME <<"lost", p>> \notin gaps'
               PROVE  /\ \/ \E r \in scores : r.product = p
                         \/ \E j \in Visited : /\ item'[j].at \in {"mark", "aiFind", "aiWrite"} /\ item'[j].fresh
                                               /\ item'[j].product = p
                      /\ \A r \in scores : r.product = p => r.status \in Outcome \/ Pending(r)'
    BY <1>1, <1>2 DEF Scored, Outcome
  <2>1. CASE chosen.id = 0
    <3>1. to.fresh
      BY <1>2, <1>3, <2>1
    <3>2. \A r \in scores : r.product # p
      BY <1>0, <1>1, <2>1
    <3> QED BY <1>3, <1>5, <3>1, <3>2
  <2>2. CASE chosen.id # 0
    <3>1. <<"lost", chosen.id>> \notin gaps /\ p = chosen.id
      BY <1>1, <1>2, <2>2
    <3>2. \/ \E r \in scores : r.product = p
          \/ \E j \in Visited : /\ item'[j].at \in {"mark", "aiFind", "aiWrite"} /\ item'[j].fresh
                                /\ item'[j].product = p
      BY <1>0, <1>2, <1>5, <2>2, <3>1 DEF Scored
    <3>3. ASSUME NEW r \in scores, Pending(r) PROVE Pending(r)'
      BY <1>2, <1>5, <3>3 DEF Pending
    <3> QED BY <1>0, <2>2, <3>1, <3>2, <3>3 DEF Scored
  <2> QED BY <2>1, <2>2
<1>15. ScoreFits'
  <2>1. CASE chosen.id = 0
    <3>1. \A r \in scores : r.product # p
      BY <1>0, <1>1, <2>1
    <3> QED BY <1>1, <1>2, <3>1 DEF ScoreFits
  <2>2. CASE chosen.id # 0
    BY <1>0, <1>1, <1>2, <2>2 DEF ScoreFits, Mixed
  <2> QED BY <2>1, <2>2
<1> QED BY <1>7, <1>8, <1>9, <1>10, <1>11, <1>12, <1>13, <1>14, <1>15 DEF SelectionInv

\* An ingestion breaks, or the task of an item is deleted.
LEMMA BreakStep ==
  ASSUME SelectionInv, NEW i \in Visited, IngestBreaks(i)
  PROVE  SelectionInv'
<1>0. /\ SelectionTypes /\ Numbered /\ Stages /\ RowOrigins /\ RowsMet /\ JobOrigins /\ SharedKnown /\ Scored /\ ScoreFits
      /\ item \in [Visited -> Items] /\ item[i] \in Items /\ MaxProducts \in Nat \ {0} /\ MaxScores \in Nat \ {0}
      /\ made \in [products : 0..MaxProducts, scores : 0..MaxScores]
      /\ \A r \in scores : r.id # 0 /\ r.snapshot \in Visited
  BY SelectionAssumptions DEF SelectionInv, SelectionTypes, ScoreRows
<1>00. 0 \in 0..MaxProducts /\ 0 \in 0..MaxScores /\ 0 <= made.scores /\ 0 <= made.products
  BY <1>0
<1>1. PICK to \in {[item[i] EXCEPT !.at = "done"], [Unmet EXCEPT !.at = "open"]} :
        /\ item' = [item EXCEPT ![i] = to] /\ UNCHANGED <<snapshots, chosen, scores, jobs, worker, hasKey, made>>
        /\ item[i].at \in {"snapshot", "find", "upsert", "mark", "aiFind", "aiWrite", "aiAdd"}
        /\ gaps' = gaps \cup Lost({item[i].product})
        /\ item[i].at \in {"aiFind", "aiWrite", "aiAdd"} => to = [item[i] EXCEPT !.at = "done"]
  BY DEF IngestBreaks, InFlight, Stands, Go
<1>2. gaps \subseteq gaps' /\ (item[i].product # 0 => <<"lost", item[i].product>> \in gaps')
  BY <1>1 DEF Lost
<1>3. Unmet \in Items /\ Unmet.product = 0 /\ Unmet.score = 0 /\ ~Unmet.fresh
  BY <1>00 DEF Unmet, Items, Steps
<1>4. /\ to \in Items
      /\ \/ /\ to.at = "done" /\ to.product = item[i].product /\ to.score = item[i].score
            /\ (to.fresh => item[i].fresh) /\ (item[i].fresh => to.fresh)
         \/ /\ to.at = "open" /\ to.product = 0 /\ to.score = 0 /\ ~to.fresh
            /\ item[i].at \notin {"aiFind", "aiWrite", "aiAdd"}
  <2>1. CASE to = [item[i] EXCEPT !.at = "done"]
    BY <1>0, <2>1 DEF Items, Steps
  <2>2. CASE to = [Unmet EXCEPT !.at = "open"]
    <3>1. to \in Items /\ to.at = "open" /\ to.product = 0 /\ to.score = 0 /\ ~to.fresh
      BY <1>3, <2>2 DEF Items, Steps
    <3>2. [item[i] EXCEPT !.at = "done"].at = "done"
      BY <1>0 DEF Items
    <3> QED BY <1>1, <3>1, <3>2
  <2> QED BY <1>1, <2>1, <2>2
<1>5. item'[i] = to /\ \A j \in Visited \ {i} : item'[j] = item[j]
  BY <1>0, <1>1
<1>6. SelectionTypes'
  BY <1>0, <1>1, <1>4 DEF SelectionTypes
<1>7. Numbered' /\ Stages'
  BY <1>0, <1>00, <1>1, <1>4, <1>5 DEF Numbered, Stages
<1>8. RowOrigins'
  <2>1. ASSUME NEW r \in scores, r.product # 0
        PROVE  item'[r.snapshot].product = r.product /\ item'[r.snapshot].fresh /\ item'[r.snapshot].at \in {"aiAdd", "done"}
    <3>1. r.snapshot \in Visited /\ item[r.snapshot].product = r.product /\ item[r.snapshot].fresh /\ item[r.snapshot].at \in {"aiAdd", "done"}
      BY <1>0, <2>1 DEF RowOrigins
    <3>2. CASE r.snapshot = i
      BY <1>1, <1>4, <1>5, <3>1, <3>2
    <3>3. CASE r.snapshot # i
      BY <1>5, <3>1, <3>3
    <3> QED BY <3>2, <3>3
  <2> QED BY <1>1, <2>1 DEF RowOrigins
<1>9. RowsMet'
  <2>1. item[i].at \in {"aiWrite", "aiAdd"} \/ item[i].score = 0
    BY <1>0, <1>1 DEF Stages
  <2> QED BY <1>0, <1>1, <1>4, <1>5, <2>1 DEF RowsMet
<1>10. JobOrigins'
  <2>1. \A job \in ScoringJobs : job.snapshot \in Visited
    BY DEF ScoringJobs
  <2> QED BY <1>0, <1>1, <1>5, <2>1 DEF JobOrigins, Waits
<1>11. SharedKnown'
  <2>1. ASSUME chosen.id # 0, NEW j \in Visited, item'[j].fresh, item'[j].product = chosen.id
        PROVE  item[j].fresh /\ item[j].product = chosen.id
    BY <1>4, <1>5, <2>1
  <2>2. \A j \in Visited : item'[j].at = "upsert" /\ item'[j].fresh => item[j].at = "upsert" /\ item[j].fresh
    BY <1>4, <1>5
  <2> QED BY <1>0, <1>1, <1>2, <2>1, <2>2 DEF SharedKnown, Mixed
<1>12. Scored'
  <2> SUFFICES ASSUME chosen.id # 0, <<"lost", chosen.id>> \notin gaps'
               PROVE  /\ \/ \E r \in scores : r.product = chosen.id
                         \/ \E j \in Visited : /\ item'[j].at \in {"mark", "aiFind", "aiWrite"} /\ item'[j].fresh
                                               /\ item'[j].product = chosen.id
                      /\ \A r \in scores : r.product = chosen.id => r.status \in Outcome \/ Pending(r)'
    BY <1>1 DEF Scored, Outcome
  <2>1. item[i].product # chosen.id /\ <<"lost", chosen.id>> \notin gaps
    BY <1>2
  <2>2. \/ \E r \in scores : r.product = chosen.id
        \/ \E j \in Visited : /\ item'[j].at \in {"mark", "aiFind", "aiWrite"} /\ item'[j].fresh
                              /\ item'[j].product = chosen.id
    BY <1>0, <1>5, <2>1 DEF Scored
  <2>3. ASSUME NEW r \in scores, r.product = chosen.id, Pending(r) PROVE Pending(r)'
    <3>1. ~(item[i].at = "aiAdd" /\ item[i].score = r.id)
      BY <1>0, <2>1, <2>3 DEF RowsMet
    <3> QED BY <1>1, <1>5, <2>3, <3>1 DEF Pending
  <2> QED BY <1>0, <2>1, <2>2, <2>3 DEF Scored
<1>13. ScoreFits'
  BY <1>0, <1>1, <1>2 DEF ScoreFits, Mixed
<1> QED BY <1>6, <1>7, <1>8, <1>9, <1>10, <1>11, <1>12, <1>13 DEF SelectionInv

\* The task of an item is deleted, its snapshot and the row of that too.
LEMMA DeleteStep ==
  ASSUME SelectionInv, NEW i \in Visited, DeleteVisited(i)
  PROVE  SelectionInv'
<1>0. /\ SelectionTypes /\ Numbered /\ Stages /\ RowOrigins /\ RowsMet /\ JobOrigins /\ SharedKnown /\ Scored /\ ScoreFits
      /\ item \in [Visited -> Items] /\ item[i] \in Items
      /\ \A r \in scores : r.id # 0 /\ r.snapshot \in Visited
      /\ \A job \in ScoringJobs : job.snapshot \in Visited
  BY DEF SelectionInv, SelectionTypes, ScoreRows, ScoringJobs
<1>1. /\ item[i].at \notin {"none", "gone"} /\ item' = [item EXCEPT ![i] = [item[i] EXCEPT !.at = "gone"]]
      /\ snapshots' = snapshots \ {i} /\ scores' = {r \in scores : r.snapshot # i}
      /\ gaps \subseteq gaps' /\ UNCHANGED <<chosen, jobs, worker, hasKey, made>>
      /\ \A r \in scores : r.snapshot = i /\ r.product # 0 => <<"lost", r.product>> \in gaps'
      /\ (InFlight(i) \/ <<"mixed", item[i].product>> \in gaps) /\ item[i].product # 0 => <<"lost", item[i].product>> \in gaps'
  <2>1. /\ item[i].at \notin {"none", "gone"} /\ item' = [item EXCEPT ![i] = [item[i] EXCEPT !.at = "gone"]]
        /\ snapshots' = snapshots \ {i} /\ scores' = {r \in scores : r.snapshot # i}
        /\ gaps' = gaps \cup Lost({r.product : r \in scores \ scores'})
                  \cup (IF InFlight(i) \/ <<"mixed", item[i].product>> \in gaps THEN Lost({item[i].product}) ELSE {})
        /\ UNCHANGED <<chosen, jobs, worker, hasKey, made>>
    BY DEF DeleteVisited, GoTo, Go
  <2>2. ASSUME NEW r \in scores, r.snapshot = i, r.product # 0 PROVE <<"lost", r.product>> \in gaps'
    <3>1. r.product \in {q.product : q \in scores \ scores'} \ {0}
      BY <2>1, <2>2
    <3> QED BY <2>1, <3>1 DEF Lost
  <2>3. ASSUME InFlight(i) \/ <<"mixed", item[i].product>> \in gaps, item[i].product # 0
        PROVE  <<"lost", item[i].product>> \in gaps'
    BY <2>1, <2>3 DEF Lost
  <2> QED BY <2>1, <2>2, <2>3
<1> DEFINE to == [item[i] EXCEPT !.at = "gone"]
<1>2. /\ to \in Items /\ to.at = "gone" /\ to.product = item[i].product /\ to.score = item[i].score
      /\ (to.fresh => item[i].fresh) /\ (item[i].fresh => to.fresh)
  BY <1>0 DEF Items, Steps
<1>3. item' = [item EXCEPT ![i] = to]
  BY <1>1
<1> HIDE DEF to
<1>4. item'[i] = to /\ \A j \in Visited \ {i} : item'[j] = item[j]
  BY <1>0, <1>3
<1>5. SelectionTypes'
  BY <1>0, <1>1, <1>2, <1>3, SMTT(30) DEF SelectionTypes
<1>6. Numbered' /\ Stages'
  BY <1>0, <1>1, <1>2, <1>4 DEF Numbered, Stages
<1>7. RowOrigins'
  BY <1>0, <1>1, <1>4 DEF RowOrigins
<1>8. RowsMet'
  <2>1. item[i].at \in {"aiWrite", "aiAdd", "done", "gone"} \/ item[i].score = 0
    BY <1>0 DEF Stages, Items, Steps
  <2> QED BY <1>0, <1>1, <1>2, <1>4, <2>1 DEF RowsMet
<1>9. JobOrigins'
  BY <1>0, <1>1, <1>2, <1>4 DEF JobOrigins, Waits
<1>10. SharedKnown'
  <2>1. \A j \in Visited : item'[j].fresh /\ item'[j].product = chosen.id => item[j].fresh /\ item[j].product = chosen.id
    BY <1>2, <1>4
  <2>2. \A j \in Visited : item'[j].at = "upsert" /\ item'[j].fresh => item[j].at = "upsert" /\ item[j].fresh
    BY <1>2, <1>4
  <2> QED BY <1>0, <1>1, <2>1, <2>2 DEF SharedKnown, Mixed
<1>11. Scored'
  <2> SUFFICES ASSUME chosen.id # 0, <<"lost", chosen.id>> \notin gaps'
               PROVE  /\ \/ \E r \in scores' : r.product = chosen.id
                         \/ \E j \in Visited : /\ item'[j].at \in {"mark", "aiFind", "aiWrite"} /\ item'[j].fresh
                                               /\ item'[j].product = chosen.id
                      /\ \A r \in scores' : r.product = chosen.id => r.status \in Outcome \/ Pending(r)'
    BY <1>1 DEF Scored, Outcome
  <2>1. <<"lost", chosen.id>> \notin gaps /\ \A r \in scores : r.product = chosen.id => r \in scores' /\ r.snapshot # i
    BY <1>1
  <2>2. item[i].product = chosen.id => ~InFlight(i) /\ ~Mixed(chosen.id)
    BY <1>1 DEF Mixed
  <2>3. \/ \E r \in scores' : r.product = chosen.id
        \/ \E j \in Visited : /\ item'[j].at \in {"mark", "aiFind", "aiWrite"} /\ item'[j].fresh
                              /\ item'[j].product = chosen.id
    BY <1>0, <1>4, <2>1, <2>2 DEF Scored, InFlight
  <2>4. ASSUME NEW r \in scores, r.product = chosen.id, Pending(r) PROVE Pending(r)'
    <3>1. ~(item[i].at = "aiAdd" /\ item[i].score = r.id)
      BY <1>0, <2>2, <2>4 DEF RowsMet, InFlight
    <3>2. ASSUME NEW job \in ScoringJobs, Waits(job), job.score = r.id PROVE job.snapshot # i
      <4>1. SUFFICES ASSUME job.snapshot = i PROVE FALSE
        OBVIOUS
      <4>2. item[i].fresh /\ item[i].at \in {"done", "gone"} /\ item[i].score = r.id
        BY <1>0, <3>2, <4>1 DEF JobOrigins
      <4>3. item[i].product = chosen.id
        BY <1>0, <2>4, <4>2 DEF RowsMet
      <4>4. r.snapshot # i /\ r.snapshot \in Visited /\ item[r.snapshot].fresh /\ item[r.snapshot].product = chosen.id
        BY <1>0, <2>1, <2>4 DEF RowOrigins
      <4>5. Mixed(chosen.id)
        BY <1>0, <4>2, <4>3, <4>4 DEF SharedKnown
      <4> QED BY <2>2, <4>3, <4>5
    <3>3. \A job \in JobsOf(jobs) : job \in ScoringJobs
      BY <1>0 DEF JobsOf, SelectionTypes
    <3>4. CASE \E job \in JobsOf(jobs) : job.score = r.id /\ job.snapshot \in snapshots
      <4>1. PICK job \in JobsOf(jobs) : job.score = r.id /\ job.snapshot \in snapshots
        BY <3>4
      <4>2. job.snapshot \in snapshots'
        BY <1>1, <3>2, <3>3, <4>1 DEF Waits
      <4> QED BY <1>1, <4>1, <4>2 DEF Pending
    <3>5. CASE worker.at = "ask" /\ worker.job.score = r.id /\ worker.job.snapshot \in snapshots
      <4>1. worker.job \in ScoringJobs /\ Waits(worker.job)
        BY <1>0, <3>5 DEF JobOrigins, Waits
      <4> QED BY <1>1, <3>2, <3>5, <4>1 DEF Pending
    <3>6. CASE \E j \in Visited : item[j].at = "aiAdd" /\ item[j].score = r.id /\ j \in snapshots
      BY <1>1, <1>4, <3>1, <3>6 DEF Pending
    <3> QED BY <2>4, <3>4, <3>5, <3>6 DEF Pending
  <2> QED BY <1>0, <1>1, <2>1, <2>3, <2>4 DEF Scored
<1>12. ScoreFits'
  BY <1>0, <1>1 DEF ScoreFits, Mixed
<1> QED BY <1>5, <1>6, <1>7, <1>8, <1>9, <1>10, <1>11, <1>12 DEF SelectionInv

\* The selection found is written for the new snapshot.
LEMMA UpdateStep ==
  ASSUME SelectionInv, NEW i \in Visited, UpdateSelection(i)
  PROVE  SelectionInv'
<1>0. /\ SelectionTypes /\ Numbered /\ Stages /\ RowOrigins /\ RowsMet /\ JobOrigins /\ SharedKnown /\ Scored /\ ScoreFits
      /\ item \in [Visited -> Items] /\ item[i] \in Items /\ scores \subseteq ScoreRows
      /\ \A r \in scores : r.snapshot \in Visited
      /\ \A job \in ScoringJobs : job.snapshot \in Visited
  BY DEF SelectionInv, SelectionTypes, ScoreRows, ScoringJobs
<1>1. PICK row \in scores :
        /\ row.id = item[i].score /\ \A r \in scores : r.id = row.id => r = row
        /\ scores' = (scores \ {row}) \cup {[row EXCEPT !.snapshot = i, !.status = "QUEUED"]}
        /\ item[i].at = "aiWrite" /\ i \in snapshots
        /\ item' = [item EXCEPT ![i] = [item[i] EXCEPT !.at = "aiAdd"]]
        /\ UNCHANGED <<snapshots, chosen, jobs, worker, hasKey, made, gaps>>
  <2>1. /\ HasRow(item[i].score) /\ item[i].at = "aiWrite" /\ i \in snapshots
        /\ scores' = (scores \ {ScoreRow(item[i].score)})
                        \cup {[ScoreRow(item[i].score) EXCEPT !.snapshot = i, !.status = "QUEUED"]}
        /\ item' = [item EXCEPT ![i] = [item[i] EXCEPT !.at = "aiAdd"]]
        /\ UNCHANGED <<snapshots, chosen, jobs, worker, hasKey, made, gaps>>
    BY DEF UpdateSelection, SetRow, Stands, GoTo, Go
  <2>2. PICK row \in scores : row = ScoreRow(item[i].score) /\ row.id = item[i].score /\ \A r \in scores : r.id = row.id => r = row
    <3>1. HasRow(item[i].score) /\ Numbered
      BY <1>0, <2>1
    <3> QED BY <3>1, RowOf
  <2> QED BY <2>1, <2>2
<1> DEFINE with == [row EXCEPT !.snapshot = i, !.status = "QUEUED"]
           to == [item[i] EXCEPT !.at = "aiAdd"]
<1>2. /\ with \in ScoreRows /\ with.id = row.id /\ with.product = row.product /\ with.snapshot = i /\ with.status = "QUEUED"
      /\ scores' = (scores \ {row}) \cup {with}
  BY <1>0, <1>1 DEF ScoreRows
<1>3. /\ to \in Items /\ to.at = "aiAdd" /\ to.product = item[i].product /\ to.score = item[i].score
      /\ (to.fresh => item[i].fresh) /\ (item[i].fresh => to.fresh) /\ item' = [item EXCEPT ![i] = to]
  BY <1>0, <1>1 DEF Items, Steps
<1> HIDE DEF with, to
<1>4. item'[i] = to /\ \A j \in Visited \ {i} : item'[j] = item[j]
  BY <1>0, <1>3
<1>5. item[i].fresh /\ item[i].product # 0 /\ row.product \in {item[i].product, 0}
      /\ (item[i].product = chosen.id => row.product = item[i].product)
  BY <1>0, <1>1 DEF Stages, RowsMet
<1>6. SelectionTypes'
  BY <1>0, <1>1, <1>2, <1>3 DEF SelectionTypes
<1>7. Numbered' /\ Stages'
  BY <1>0, <1>1, <1>2, <1>3, <1>4, <1>5 DEF Numbered, Stages
<1>8. RowOrigins'
  <2>1. ASSUME NEW r \in scores \ {row}, r.product # 0
        PROVE  item'[r.snapshot].product = r.product /\ item'[r.snapshot].fresh /\ item'[r.snapshot].at \in {"aiAdd", "done"}
    <3>1. r.snapshot \in Visited /\ item[r.snapshot].product = r.product /\ item[r.snapshot].fresh /\ item[r.snapshot].at \in {"aiAdd", "done"}
      BY <1>0, <2>1 DEF RowOrigins
    <3> QED BY <1>1, <1>4, <3>1
  <2>2. with.product # 0 => item'[i].product = with.product /\ item'[i].fresh /\ item'[i].at \in {"aiAdd", "done"}
    BY <1>2, <1>3, <1>4, <1>5
  <2> QED BY <1>2, <2>1, <2>2 DEF RowOrigins
<1>9. RowsMet'
  BY <1>0, <1>1, <1>2, <1>3, <1>4 DEF RowsMet
<1>10. JobOrigins'
  BY <1>0, <1>1, <1>4 DEF JobOrigins, Waits
<1>11. SharedKnown'
  <2>1. \A j \in Visited : item'[j].fresh /\ item'[j].product = chosen.id => item[j].fresh /\ item[j].product = chosen.id
    BY <1>3, <1>4
  <2>2. \A j \in Visited : item'[j].at = "upsert" /\ item'[j].fresh => item[j].at = "upsert" /\ item[j].fresh
    BY <1>3, <1>4
  <2> QED BY <1>0, <1>1, <2>1, <2>2 DEF SharedKnown, Mixed
<1>12. Scored'
  <2> SUFFICES ASSUME chosen.id # 0, <<"lost", chosen.id>> \notin gaps
               PROVE  /\ \/ \E r \in scores' : r.product = chosen.id
                         \/ \E j \in Visited : /\ item'[j].at \in {"mark", "aiFind", "aiWrite"} /\ item'[j].fresh
                                               /\ item'[j].product = chosen.id
                      /\ \A r \in scores' : r.product = chosen.id => r.status \in Outcome \/ Pending(r)'
    BY <1>1 DEF Scored, Outcome
  <2>1. \/ \E r \in scores' : r.product = chosen.id
        \/ \E j \in Visited : /\ item'[j].at \in {"mark", "aiFind", "aiWrite"} /\ item'[j].fresh
                              /\ item'[j].product = chosen.id
    <3>1. CASE \E r \in scores : r.product = chosen.id
      BY <1>2, <3>1
    <3>2. CASE item[i].product = chosen.id
      BY <1>2, <1>5, <3>2
    <3>3. CASE \E j \in Visited \ {i} : item[j].at \in {"mark", "aiFind", "aiWrite"} /\ item[j].fresh /\ item[j].product = chosen.id
      BY <1>4, <3>3
    <3> QED BY <1>0, <3>1, <3>2, <3>3 DEF Scored
  <2>2. ASSUME NEW r \in scores, Pending(r) PROVE Pending(r)'
    BY <1>1, <1>4, <2>2 DEF Pending
  <2>3. \E j \in Visited : item'[j].at = "aiAdd" /\ item'[j].score = with.id /\ j \in snapshots'
    BY <1>1, <1>2, <1>3, <1>4
  <2>4. ASSUME NEW r \in scores', r.product = chosen.id PROVE r.status \in Outcome \/ Pending(r)'
    <3>1. CASE r = with
      BY <2>3, <3>1 DEF Pending
    <3>2. CASE r # with
      BY <1>0, <1>2, <2>2, <2>4, <3>2 DEF Scored
    <3> QED BY <3>1, <3>2
  <2> QED BY <2>1, <2>4
<1>13. ScoreFits'
  BY <1>0, <1>1, <1>2 DEF ScoreFits, Mixed
<1> QED BY <1>6, <1>7, <1>8, <1>9, <1>10, <1>11, <1>12, <1>13 DEF SelectionInv

\* A selection is made.
LEMMA CreateStep ==
  ASSUME SelectionInv, NEW i \in Visited, CreateSelection(i)
  PROVE  SelectionInv'
<1>0. /\ SelectionTypes /\ Numbered /\ Stages /\ RowOrigins /\ RowsMet /\ JobOrigins /\ SharedKnown /\ Scored /\ ScoreFits
      /\ item \in [Visited -> Items] /\ item[i] \in Items /\ scores \subseteq ScoreRows
      /\ MaxProducts \in Nat \ {0} /\ MaxScores \in Nat \ {0}
      /\ made \in [products : 0..MaxProducts, scores : 0..MaxScores]
      /\ \A r \in scores : r.snapshot \in Visited /\ r.id \in 1..MaxScores
      /\ \A j \in Visited : item[j].score \in 0..MaxScores /\ item[j].score <= made.scores
      /\ \A job \in ScoringJobs : job.snapshot \in Visited
  BY SelectionAssumptions DEF SelectionInv, SelectionTypes, ScoreRows, ScoringJobs, Stages, Items
<1>1. PICK id \in 1..MaxScores :
        /\ id = made.scores + 1 /\ chosen.id = item[i].product /\ item[i].at = "aiWrite" /\ i \in snapshots
        /\ scores' = scores \cup {[id |-> id, snapshot |-> i, product |-> item[i].product, status |-> "QUEUED", of |-> {}]}
        /\ made' = [made EXCEPT !.scores = id]
        /\ item' = [item EXCEPT ![i] = [item[i] EXCEPT !.at = "aiAdd", !.score = id]]
        /\ UNCHANGED <<snapshots, chosen, jobs, worker, hasKey, gaps>>
  <2>1. made.scores < MaxScores
    BY DEF CreateSelection
  <2>2. made.scores + 1 \in 1..MaxScores
    BY <1>0, <2>1
  <2> QED BY <2>2 DEF CreateSelection, Stands, Go
<1> DEFINE row == [id |-> id, snapshot |-> i, product |-> item[i].product, status |-> "QUEUED", of |-> {}]
           to == [item[i] EXCEPT !.at = "aiAdd", !.score = id]
<1>2. /\ row \in ScoreRows /\ row.id = id /\ row.product = item[i].product /\ row.snapshot = i /\ row.status = "QUEUED"
      /\ scores' = scores \cup {row}
  BY <1>0, <1>1 DEF ScoreRows, Items
<1>3. /\ to \in Items /\ to.at = "aiAdd" /\ to.product = item[i].product /\ to.score = id
      /\ (to.fresh => item[i].fresh) /\ (item[i].fresh => to.fresh) /\ item' = [item EXCEPT ![i] = to]
  <2>1. id \in 0..MaxScores
    BY <1>0
  <2> QED BY <1>0, <1>1, <2>1 DEF Items, Steps
<1> HIDE DEF row, to
<1>4. item'[i] = to /\ \A j \in Visited \ {i} : item'[j] = item[j]
  BY <1>0, <1>3
<1>5. item[i].fresh /\ item[i].product # 0 /\ item[i].product <= made.products
  BY <1>0, <1>1 DEF Stages
<1>6. /\ made' \in [products : 0..MaxProducts, scores : 0..MaxScores] /\ made'.scores = id /\ made'.products = made.products
      /\ made.scores < id /\ made.scores \in 0..MaxScores
  BY <1>0, <1>1
<1>7. SelectionTypes'
  BY <1>0, <1>1, <1>2, <1>3, <1>6 DEF SelectionTypes
<1>8. \A r \in scores : r.id # id /\ r.id <= id
  BY <1>0, <1>6 DEF Numbered
<1>9. \A j \in Visited : item[j].score # id /\ item[j].score <= id
  BY <1>0, <1>6
<1>10. Numbered'
  <2>1. \A q, r \in scores' : q.id = r.id => q = r
    BY <1>0, <1>2, <1>8 DEF Numbered
  <2>2. \A r \in scores' : r.id <= id /\ r.product <= made.products
    BY <1>0, <1>1, <1>2, <1>5, <1>8 DEF Numbered
  <2> QED BY <1>0, <1>1, <1>6, <2>1, <2>2 DEF Numbered
<1>11. Stages'
  <2>1. id <= id
    OBVIOUS
  <2> QED BY <1>0, <1>1, <1>3, <1>4, <1>5, <1>6, <1>9, <2>1 DEF Stages
<1>12. RowOrigins'
  <2>1. ASSUME NEW r \in scores, r.product # 0
        PROVE  item'[r.snapshot].product = r.product /\ item'[r.snapshot].fresh /\ item'[r.snapshot].at \in {"aiAdd", "done"}
    <3>1. r.snapshot \in Visited /\ item[r.snapshot].product = r.product /\ item[r.snapshot].fresh /\ item[r.snapshot].at \in {"aiAdd", "done"}
      BY <1>0, <2>1 DEF RowOrigins
    <3> QED BY <1>1, <1>4, <3>1
  <2>2. item'[i].product = row.product /\ item'[i].fresh /\ item'[i].at \in {"aiAdd", "done"}
    BY <1>2, <1>3, <1>4, <1>5
  <2> QED BY <1>2, <2>1, <2>2 DEF RowOrigins
<1>13. RowsMet'
  BY <1>0, <1>1, <1>2, <1>3, <1>4, <1>8, <1>9 DEF RowsMet
<1>14. JobOrigins'
  BY <1>0, <1>1, <1>4 DEF JobOrigins, Waits
<1>15. SharedKnown'
  <2>1. \A j \in Visited : item'[j].fresh /\ item'[j].product = chosen.id => item[j].fresh /\ item[j].product = chosen.id
    BY <1>3, <1>4
  <2>2. \A j \in Visited : item'[j].at = "upsert" /\ item'[j].fresh => item[j].at = "upsert" /\ item[j].fresh
    BY <1>3, <1>4
  <2> QED BY <1>0, <1>1, <2>1, <2>2 DEF SharedKnown, Mixed
<1>16. Scored'
  <2> SUFFICES ASSUME chosen.id # 0, <<"lost", chosen.id>> \notin gaps
               PROVE  /\ \E r \in scores' : r.product = chosen.id
                      /\ \A r \in scores' : r.product = chosen.id => r.status \in Outcome \/ Pending(r)'
    BY <1>1 DEF Scored, Outcome
  <2>1. ASSUME NEW r \in scores, Pending(r) PROVE Pending(r)'
    BY <1>1, <1>4, <2>1 DEF Pending
  <2>2. \E j \in Visited : item'[j].at = "aiAdd" /\ item'[j].score = row.id /\ j \in snapshots'
    BY <1>1, <1>2, <1>3, <1>4
  <2>3. ASSUME NEW r \in scores', r.product = chosen.id PROVE r.status \in Outcome \/ Pending(r)'
    <3>1. CASE r = row
      BY <2>2, <3>1 DEF Pending
    <3>2. CASE r # row
      BY <1>0, <1>2, <2>1, <2>3, <3>2 DEF Scored
    <3> QED BY <3>1, <3>2
  <2> QED BY <1>1, <1>2, <2>3
<1>17. ScoreFits'
  BY <1>0, <1>1, <1>2 DEF ScoreFits, Mixed
<1> QED BY <1>7, <1>10, <1>11, <1>12, <1>13, <1>14, <1>15, <1>16, <1>17 DEF SelectionInv

\* The job of a selection is queued.
LEMMA AddStep ==
  ASSUME SelectionInv, NEW i \in Visited, AddJob(i)
  PROVE  SelectionInv'
<1>0. /\ SelectionTypes /\ Numbered /\ Stages /\ RowOrigins /\ RowsMet /\ JobOrigins /\ SharedKnown /\ Scored /\ ScoreFits
      /\ item \in [Visited -> Items] /\ item[i] \in Items /\ jobs \in Seq(ScoringJobs)
      /\ \A r \in scores : r.snapshot \in Visited
      /\ \A job \in ScoringJobs : job.snapshot \in Visited
  BY DEF SelectionInv, SelectionTypes, ScoreRows, ScoringJobs
<1>j. PICK job \in ScoringJobs : job = [snapshot |-> i, product |-> item[i].product, score |-> item[i].score]
  BY <1>0 DEF ScoringJobs, Items
<1> DEFINE to == [item[i] EXCEPT !.at = "done"]
<1>1. /\ item[i].at = "aiAdd" /\ item' = [item EXCEPT ![i] = to] /\ jobs' = Append(jobs, job)
      /\ UNCHANGED <<snapshots, chosen, scores, worker, hasKey, made, gaps>>
  BY <1>j DEF AddJob, Stands, GoTo, Go
<1>2. job \in ScoringJobs /\ job.snapshot = i /\ job.product = item[i].product /\ job.score = item[i].score
  BY <1>j
<1>3. /\ to \in Items /\ to.at = "done" /\ to.product = item[i].product /\ to.score = item[i].score
      /\ (to.fresh => item[i].fresh) /\ (item[i].fresh => to.fresh)
  BY <1>0 DEF Items, Steps
<1> HIDE DEF to
<1>4. item'[i] = to /\ \A j \in Visited \ {i} : item'[j] = item[j]
  BY <1>0, <1>1
<1>5. jobs' \in Seq(ScoringJobs) /\ JobsOf(jobs') = JobsOf(jobs) \cup {job}
  <2>1. jobs \in Seq(ScoringJobs) /\ job \in ScoringJobs
    BY <1>0, <1>2
  <2>2. Append(jobs, job) \in Seq(ScoringJobs) /\ JobsOf(Append(jobs, job)) = JobsOf(jobs) \cup {job}
    BY <2>1, QueueJoined
  <2>3. jobs' = Append(jobs, job)
    BY <1>1
  <2> QED BY <2>2, <2>3
<1>6. item[i].fresh /\ item[i].product # 0
  BY <1>0, <1>1 DEF Stages
<1>7. SelectionTypes'
  BY <1>0, <1>1, <1>3, <1>5 DEF SelectionTypes
<1>8. Numbered' /\ Stages'
  BY <1>0, <1>1, <1>3, <1>4, <1>6 DEF Numbered, Stages
<1>9. RowOrigins'
  BY <1>0, <1>1, <1>3, <1>4 DEF RowOrigins
<1>10. RowsMet'
  BY <1>0, <1>1, <1>3, <1>4 DEF RowsMet
<1>11. JobOrigins'
  <2>1. ASSUME NEW x \in ScoringJobs, Waits(x)'
        PROVE  LET k == item'[x.snapshot] IN k.fresh /\ k.at \in {"done", "gone"} /\ k.score = x.score /\ k.product = x.product
    <3>1. CASE x = job
      BY <1>2, <1>3, <1>4, <1>6, <3>1
    <3>2. CASE x # job
      <4>1. Waits(x)
        BY <1>1, <1>5, <2>1, <3>2 DEF Waits
      <4> QED BY <1>0, <1>1, <1>4, <4>1 DEF JobOrigins
    <3> QED BY <3>1, <3>2
  <2> QED BY <1>0, <1>1, <2>1 DEF JobOrigins
<1>12. SharedKnown'
  <2>1. \A j \in Visited : item'[j].fresh /\ item'[j].product = chosen.id => item[j].fresh /\ item[j].product = chosen.id
    BY <1>3, <1>4
  <2>2. \A j \in Visited : item'[j].at = "upsert" /\ item'[j].fresh => item[j].at = "upsert" /\ item[j].fresh
    BY <1>3, <1>4
  <2> QED BY <1>0, <1>1, <2>1, <2>2 DEF SharedKnown, Mixed
<1>13. Scored'
  <2> SUFFICES ASSUME chosen.id # 0, <<"lost", chosen.id>> \notin gaps
               PROVE  /\ \/ \E r \in scores : r.product = chosen.id
                         \/ \E j \in Visited : /\ item'[j].at \in {"mark", "aiFind", "aiWrite"} /\ item'[j].fresh
                                               /\ item'[j].product = chosen.id
                      /\ \A r \in scores : r.product = chosen.id => r.status \in Outcome \/ Pending(r)'
    BY <1>1 DEF Scored, Outcome
  <2>1. \/ \E r \in scores : r.product = chosen.id
        \/ \E j \in Visited : /\ item'[j].at \in {"mark", "aiFind", "aiWrite"} /\ item'[j].fresh
                              /\ item'[j].product = chosen.id
    BY <1>0, <1>1, <1>4 DEF Scored
  <2>2. ASSUME NEW r \in scores, Pending(r) PROVE Pending(r)'
    <3>1. CASE item[i].score = r.id /\ i \in snapshots
      BY <1>1, <1>2, <1>5, <3>1 DEF Pending
    <3>2. CASE ~(item[i].score = r.id /\ i \in snapshots)
      BY <1>1, <1>4, <1>5, <2>2, <3>2 DEF Pending
    <3> QED BY <3>1, <3>2
  <2> QED BY <1>0, <2>1, <2>2 DEF Scored
<1>14. ScoreFits'
  BY <1>0, <1>1 DEF ScoreFits, Mixed
<1> QED BY <1>7, <1>8, <1>9, <1>10, <1>11, <1>12, <1>13, <1>14 DEF SelectionInv

\* The worker and the catalogue leave items, snapshots and numbers alone: it is enough
\* that rows keep number, product and snapshot, and that what waits was waiting.
LEMMA WorkStep ==
  ASSUME SelectionInv, UNCHANGED <<item, snapshots, chosen, hasKey, made, gaps>>,
         jobs' \in Seq(ScoringJobs), worker' \in [at : {"idle", "ask", "touch"}, job : ScoringJobs \cup {NoScoring}],
         \A job \in ScoringJobs : Waits(job)' => Waits(job),
         worker'.at # "idle" => hasKey /\ worker'.job \in ScoringJobs,
         scores' \subseteq ScoreRows, \A q, r \in scores' : q.id = r.id => q = r,
         \A r \in scores' : \E q \in scores : q.id = r.id /\ q.product = r.product /\ q.snapshot = r.snapshot,
         \A q \in scores : \E r \in scores' : q.id = r.id /\ q.product = r.product /\ q.snapshot = r.snapshot,
         \A r \in scores' : chosen.id # 0 /\ <<"lost", chosen.id>> \notin gaps /\ r.product = chosen.id =>
                              r.status \in Outcome \/ Pending(r)',
         \A r \in scores' : chosen.id # 0 /\ ~Mixed(chosen.id) /\ r.product = chosen.id /\ r.status = "SUCCESS" =>
                              r.of = {r.snapshot}
  PROVE  SelectionInv'
<1>0. /\ SelectionTypes /\ Numbered /\ Stages /\ RowOrigins /\ RowsMet /\ JobOrigins /\ SharedKnown /\ Scored /\ ScoreFits
  BY DEF SelectionInv
<1>1. SelectionTypes'
  BY <1>0 DEF SelectionTypes
<1>2. Numbered'
  <2>1. \A r \in scores' : r.id <= made.scores /\ r.product <= made.products
    BY <1>0 DEF Numbered
  <2> QED BY <1>0, <2>1 DEF Numbered
<1>3. Stages'
  BY <1>0 DEF Stages
<1>4. RowOrigins'
  <2>1. ASSUME NEW r \in scores', r.product # 0
        PROVE  item[r.snapshot].product = r.product /\ item[r.snapshot].fresh /\ item[r.snapshot].at \in {"aiAdd", "done"}
    <3>1. PICK q \in scores : q.id = r.id /\ q.product = r.product /\ q.snapshot = r.snapshot
      OBVIOUS
    <3> QED BY <1>0, <2>1, <3>1 DEF RowOrigins
  <2> QED BY <2>1 DEF RowOrigins
<1>5. RowsMet'
  <2>1. ASSUME NEW i \in Visited, NEW r \in scores', item[i].at \in {"aiWrite", "aiAdd", "done", "gone"}, r.id = item[i].score
        PROVE  /\ r.product \in {item[i].product, 0}
               /\ item[i].product = chosen.id => r.product = item[i].product
    <3>1. PICK q \in scores : q.id = r.id /\ q.product = r.product /\ q.snapshot = r.snapshot
      OBVIOUS
    <3> QED BY <1>0, <2>1, <3>1 DEF RowsMet
  <2> QED BY <2>1 DEF RowsMet
<1>6. JobOrigins'
  BY <1>0 DEF JobOrigins
<1>7. SharedKnown'
  BY <1>0 DEF SharedKnown, Mixed
<1>8. Scored'
  <2>1. chosen.id # 0 /\ <<"lost", chosen.id>> \notin gaps =>
           \/ \E r \in scores' : r.product = chosen.id
           \/ \E i \in Visited : /\ item[i].at \in {"mark", "aiFind", "aiWrite"} /\ item[i].fresh
                                 /\ item[i].product = chosen.id
    BY <1>0 DEF Scored
  <2> QED BY <2>1 DEF Scored, Outcome
<1>9. ScoreFits'
  BY DEF ScoreFits, Mixed
<1> QED BY <1>1, <1>2, <1>3, <1>4, <1>5, <1>6, <1>7, <1>8, <1>9 DEF SelectionInv

\* A row that is written anew under its number, product and snapshot.
LEMMA Rewritten ==
  ASSUME SelectionInv, NEW row \in scores, NEW with \in ScoreRows, with.id = row.id, with.product = row.product,
         with.snapshot = row.snapshot, scores' = (scores \ {row}) \cup {with}
  PROVE  /\ scores' \subseteq ScoreRows /\ \A q, r \in scores' : q.id = r.id => q = r
         /\ \A r \in scores' : \E q \in scores : q.id = r.id /\ q.product = r.product /\ q.snapshot = r.snapshot
         /\ \A q \in scores : \E r \in scores' : q.id = r.id /\ q.product = r.product /\ q.snapshot = r.snapshot
<1>1. scores \subseteq ScoreRows /\ \A q, r \in scores : q.id = r.id => q = r
  BY DEF SelectionInv, SelectionTypes, Numbered
<1> QED BY <1>1

\* A job begins.
LEMMA StartStep ==
  ASSUME SelectionInv, JobStart
  PROVE  SelectionInv'
<1>0. /\ SelectionTypes /\ Numbered /\ JobOrigins /\ Scored /\ ScoreFits /\ jobs \in Seq(ScoringJobs) /\ scores \subseteq ScoreRows
  BY DEF SelectionInv, SelectionTypes
<1>1. PICK job \in ScoringJobs : job = Head(jobs) /\ jobs' = Tail(jobs) /\ jobs' \in Seq(ScoringJobs)
                                 /\ JobsOf(jobs) = {job} \cup JobsOf(jobs')
  <2>1. jobs # <<>> /\ jobs' = Tail(jobs)
    BY DEF JobStart
  <2>2. Tail(jobs) \in Seq(ScoringJobs) /\ Head(jobs) \in ScoringJobs /\ JobsOf(jobs) = {Head(jobs)} \cup JobsOf(Tail(jobs))
    <3>1. Head(jobs) \in ScoringJobs
      BY <1>0, <2>1, HeadTailProperties
    <3> QED BY <1>0, <2>1, <3>1, QueueLeft
  <2> QED BY <2>1, <2>2
<1>2. worker.at = "idle" /\ UNCHANGED <<item, snapshots, chosen, hasKey, made, gaps>>
  BY DEF JobStart
<1>3. CASE HasRow(job.score) /\ job.snapshot \in snapshots
  <2>1. PICK row \in scores : /\ row.id = job.score /\ \A r \in scores : r.id = row.id => r = row
                              /\ scores' = (scores \ {row}) \cup {[row EXCEPT !.status = "RUNNING"]}
                              /\ worker' = [at |-> IF hasKey THEN "ask" ELSE "idle", job |-> IF hasKey THEN job ELSE NoScoring]
    BY <1>0, <1>1, <1>3, RowOf DEF JobStart, SetRow
  <2>w. PICK with \in ScoreRows : with = [row EXCEPT !.status = "RUNNING"]
    BY <1>0 DEF ScoreRows
  <2>2. with \in ScoreRows /\ with.id = row.id /\ with.product = row.product /\ with.snapshot = row.snapshot /\ with.status = "RUNNING"
    BY <1>0, <2>w DEF ScoreRows
  <2>3. scores' = (scores \ {row}) \cup {with}
    BY <2>1, <2>w
  <2>4. /\ worker' \in [at : {"idle", "ask", "touch"}, job : ScoringJobs \cup {NoScoring}]
        /\ (hasKey => worker'.at = "ask" /\ worker'.job = job) /\ (~hasKey => worker'.at = "idle")
    BY <2>1
  <2>5. ASSUME NEW x \in ScoringJobs, Waits(x)' PROVE Waits(x)
    BY <1>1, <2>4, <2>5 DEF Waits
  <2>6. ASSUME NEW r \in scores', chosen.id # 0, <<"lost", chosen.id>> \notin gaps, r.product = chosen.id
        PROVE  r.status \in Outcome \/ Pending(r)'
    <3>1. CASE r = with
      BY <1>2, <1>3, <2>1, <2>2, <2>4, <3>1 DEF Outcome, Pending
    <3>2. CASE r # with
      <4>1. r \in scores /\ r.id # job.score
        BY <2>1, <2>3, <3>2
      <4>2. r.status \in Outcome \/ Pending(r)
        BY <1>0, <2>6, <4>1 DEF Scored
      <4> QED BY <1>1, <1>2, <4>1, <4>2 DEF Pending
    <3> QED BY <3>1, <3>2
  <2>7. ASSUME NEW r \in scores', chosen.id # 0, ~Mixed(chosen.id), r.product = chosen.id, r.status = "SUCCESS"
        PROVE  r.of = {r.snapshot}
    BY <1>0, <2>2, <2>3, <2>7 DEF ScoreFits
  <2>8. /\ scores' \subseteq ScoreRows /\ \A q, r \in scores' : q.id = r.id => q = r
        /\ \A r \in scores' : \E q \in scores : q.id = r.id /\ q.product = r.product /\ q.snapshot = r.snapshot
        /\ \A q \in scores : \E r \in scores' : q.id = r.id /\ q.product = r.product /\ q.snapshot = r.snapshot
    <3>1. row \in scores /\ with \in ScoreRows /\ with.id = row.id /\ with.product = row.product /\ with.snapshot = row.snapshot
      BY <2>1, <2>2
    <3>2. SelectionInv
      OBVIOUS
    <3> QED BY <2>3, <3>1, <3>2, Rewritten
  <2> QED BY <1>1, <1>2, <2>4, <2>5, <2>6, <2>7, <2>8, WorkStep
<1>4. CASE ~(HasRow(job.score) /\ job.snapshot \in snapshots)
  <2>1. scores' = scores /\ worker' = [at |-> "idle", job |-> NoScoring]
    BY <1>1, <1>4 DEF JobStart, Rest
  <2>2. worker' \in [at : {"idle", "ask", "touch"}, job : ScoringJobs \cup {NoScoring}] /\ worker'.at = "idle"
    BY <2>1
  <2>3. ASSUME NEW x \in ScoringJobs, Waits(x)' PROVE Waits(x)
    BY <1>1, <2>2, <2>3 DEF Waits
  <2>4. ASSUME NEW r \in scores', chosen.id # 0, <<"lost", chosen.id>> \notin gaps, r.product = chosen.id
        PROVE  r.status \in Outcome \/ Pending(r)'
    <3>1. r \in scores /\ (r.status \in Outcome \/ Pending(r))
      BY <1>0, <2>1, <2>4 DEF Scored
    <3>2. r.id = job.score => job.snapshot \notin snapshots
      BY <1>4, <3>1 DEF HasRow
    <3> QED BY <1>1, <1>2, <3>1, <3>2 DEF Pending
  <2>5. ASSUME NEW r \in scores', chosen.id # 0, ~Mixed(chosen.id), r.product = chosen.id, r.status = "SUCCESS"
        PROVE  r.of = {r.snapshot}
    BY <1>0, <2>1, <2>5 DEF ScoreFits
  <2>6. /\ scores' \subseteq ScoreRows /\ \A q, r \in scores' : q.id = r.id => q = r
        /\ \A r \in scores' : \E q \in scores : q.id = r.id /\ q.product = r.product /\ q.snapshot = r.snapshot
        /\ \A q \in scores : \E r \in scores' : q.id = r.id /\ q.product = r.product /\ q.snapshot = r.snapshot
    BY <1>0, <2>1 DEF Numbered
  <2> QED BY <1>1, <1>2, <2>2, <2>3, <2>4, <2>5, <2>6, WorkStep
<1> QED BY <1>3, <1>4

\* The model answers: the score is of the job's snapshot, which is the row's own
\* unless two ingestions wrote the product.
LEMMA AnsweredStep ==
  ASSUME SelectionInv, Answered
  PROVE  SelectionInv'
<1>0. /\ SelectionTypes /\ Numbered /\ RowOrigins /\ RowsMet /\ JobOrigins /\ SharedKnown /\ Scored /\ ScoreFits
      /\ jobs \in Seq(ScoringJobs) /\ scores \subseteq ScoreRows
      /\ \A r \in scores : r.snapshot \in Visited
      /\ \A x \in ScoringJobs : x.snapshot \in Visited
  BY DEF SelectionInv, SelectionTypes, ScoreRows, ScoringJobs
<1>1. /\ worker.at = "ask" /\ worker' = [at |-> "idle", job |-> NoScoring]
      /\ UNCHANGED <<item, snapshots, chosen, jobs, hasKey, made, gaps>>
  BY DEF Answered, Rest
<1>2. PICK job \in ScoringJobs : job = worker.job /\ hasKey
  BY <1>0, <1>1 DEF JobOrigins
<1>3. /\ jobs' \in Seq(ScoringJobs) /\ worker'.at = "idle"
      /\ worker' \in [at : {"idle", "ask", "touch"}, job : ScoringJobs \cup {NoScoring}]
  BY <1>0, <1>1
<1>4. \A x \in ScoringJobs : Waits(x)' => Waits(x)
  BY <1>1, <1>3 DEF Waits
<1>5. \A r \in scores : Pending(r) /\ r.id # job.score => Pending(r)'
  BY <1>1, <1>2 DEF Pending
<1>6. CASE HasRow(job.score)
  <2>1. PICK row \in scores : /\ row = ScoreRow(job.score) /\ row.id = job.score
                              /\ \A r \in scores : r.id = job.score => r = row
    BY <1>0, <1>6, RowOf
  <2>w. PICK with \in ScoreRows : with = [row EXCEPT !.status = "SUCCESS", !.of = {job.snapshot}]
    BY <1>0 DEF ScoreRows
  <2>2. /\ with.id = row.id /\ with.product = row.product /\ with.snapshot = row.snapshot
        /\ with.status = "SUCCESS" /\ with.of = {job.snapshot}
    BY <1>0, <2>w DEF ScoreRows
  <2>3. scores' = (scores \ {row}) \cup {with}
    BY <1>2, <1>6, <2>1, <2>w DEF Answered, SetRow
  <2>4. /\ scores' \subseteq ScoreRows /\ \A q, r \in scores' : q.id = r.id => q = r
        /\ \A r \in scores' : \E q \in scores : q.id = r.id /\ q.product = r.product /\ q.snapshot = r.snapshot
        /\ \A q \in scores : \E r \in scores' : q.id = r.id /\ q.product = r.product /\ q.snapshot = r.snapshot
    BY <2>2, <2>3, Rewritten
  <2>5. ASSUME NEW r \in scores', chosen.id # 0, <<"lost", chosen.id>> \notin gaps, r.product = chosen.id
        PROVE  r.status \in Outcome \/ Pending(r)'
    <3>1. CASE r = with
      BY <1>2, <2>2, <3>1 DEF Outcome
    <3>2. CASE r # with
      <4>1. r \in scores /\ r.id # job.score
        BY <2>1, <2>3, <3>2
      <4> QED BY <1>0, <1>5, <2>5, <4>1 DEF Scored
    <3> QED BY <3>1, <3>2
  <2>6. ASSUME NEW r \in scores', chosen.id # 0, ~Mixed(chosen.id), r.product = chosen.id, r.status = "SUCCESS"
        PROVE  r.of = {r.snapshot}
    <3>1. CASE r = with
      <4>1. item[row.snapshot].product = chosen.id /\ item[row.snapshot].fresh
        BY <1>0, <2>1, <2>2, <2>6, <3>1 DEF RowOrigins
      <4>2. /\ item[job.snapshot].fresh /\ item[job.snapshot].at \in {"done", "gone"}
            /\ item[job.snapshot].score = row.id
        BY <1>0, <1>1, <1>2, <2>1 DEF JobOrigins, Waits
      <4>3. item[job.snapshot].product = chosen.id
        BY <1>0, <2>1, <2>2, <2>6, <3>1, <4>2 DEF RowsMet
      <4>4. job.snapshot = row.snapshot
        BY <1>0, <2>6, <4>1, <4>2, <4>3 DEF SharedKnown
      <4> QED BY <2>2, <3>1, <4>4
    <3>2. CASE r # with
      BY <1>0, <2>3, <2>6, <3>2 DEF ScoreFits
    <3> QED BY <3>1, <3>2
  <2> QED BY <1>1, <1>3, <1>4, <2>4, <2>5, <2>6, WorkStep
<1>7. CASE ~HasRow(job.score)
  <2>1. scores' = scores
    BY <1>2, <1>7 DEF Answered
  <2>2. /\ scores' \subseteq ScoreRows /\ \A q, r \in scores' : q.id = r.id => q = r
        /\ \A r \in scores' : \E q \in scores : q.id = r.id /\ q.product = r.product /\ q.snapshot = r.snapshot
        /\ \A q \in scores : \E r \in scores' : q.id = r.id /\ q.product = r.product /\ q.snapshot = r.snapshot
    BY <1>0, <2>1 DEF Numbered
  <2>3. ASSUME NEW r \in scores', chosen.id # 0, <<"lost", chosen.id>> \notin gaps, r.product = chosen.id
        PROVE  r.status \in Outcome \/ Pending(r)'
    <3>1. r \in scores /\ r.id # job.score
      BY <1>7, <2>1 DEF HasRow
    <3> QED BY <1>0, <1>5, <2>3, <3>1 DEF Scored
  <2>4. ASSUME NEW r \in scores', chosen.id # 0, ~Mixed(chosen.id), r.product = chosen.id, r.status = "SUCCESS"
        PROVE  r.of = {r.snapshot}
    BY <1>0, <2>1, <2>4 DEF ScoreFits
  <2> QED BY <1>1, <1>3, <1>4, <2>2, <2>3, <2>4, WorkStep
<1> QED BY <1>6, <1>7

\* The model fails: so does the row.
LEMMA FailedStep ==
  ASSUME SelectionInv, AnswerFails
  PROVE  SelectionInv'
<1>0. /\ SelectionTypes /\ Numbered /\ JobOrigins /\ Scored /\ ScoreFits
      /\ jobs \in Seq(ScoringJobs) /\ scores \subseteq ScoreRows
      /\ worker \in [at : {"idle", "ask", "touch"}, job : ScoringJobs \cup {NoScoring}]
  BY DEF SelectionInv, SelectionTypes
<1>1. worker.at = "ask" /\ UNCHANGED <<item, snapshots, chosen, jobs, hasKey, made, gaps>>
  BY DEF AnswerFails
<1>2. PICK job \in ScoringJobs : job = worker.job /\ hasKey
  BY <1>0, <1>1 DEF JobOrigins
<1>3. jobs' \in Seq(ScoringJobs)
  BY <1>0, <1>1
<1>4. \A r \in scores : (Pending(r) /\ r.id # job.score /\ worker'.at # "ask") => Pending(r)'
  BY <1>1, <1>2 DEF Pending
<1>5. CASE HasRow(job.score)
  <2>1. PICK row \in scores : /\ row = ScoreRow(job.score) /\ row.id = job.score
                              /\ \A r \in scores : r.id = job.score => r = row
    BY <1>0, <1>5, RowOf
  <2>w. PICK with \in ScoreRows : with = [row EXCEPT !.status = "FAILED"]
    BY <1>0 DEF ScoreRows
  <2>2. /\ with.id = row.id /\ with.product = row.product /\ with.snapshot = row.snapshot
        /\ with.status = "FAILED"
    BY <1>0, <2>w DEF ScoreRows
  <2>3. scores' = (scores \ {row}) \cup {with} /\ worker' = [worker EXCEPT !.at = "touch"]
    BY <1>2, <1>5, <2>1, <2>w DEF AnswerFails, SetRow
  <2>4. /\ worker' \in [at : {"idle", "ask", "touch"}, job : ScoringJobs \cup {NoScoring}]
        /\ worker'.at = "touch" /\ worker'.job = job
    BY <1>0, <1>2, <2>3
  <2>5. \A x \in ScoringJobs : Waits(x)' => Waits(x)
    BY <1>1, <1>2, <2>4 DEF Waits
  <2>6. /\ scores' \subseteq ScoreRows /\ \A q, r \in scores' : q.id = r.id => q = r
        /\ \A r \in scores' : \E q \in scores : q.id = r.id /\ q.product = r.product /\ q.snapshot = r.snapshot
        /\ \A q \in scores : \E r \in scores' : q.id = r.id /\ q.product = r.product /\ q.snapshot = r.snapshot
    BY <2>2, <2>3, Rewritten
  <2>7. ASSUME NEW r \in scores', chosen.id # 0, <<"lost", chosen.id>> \notin gaps, r.product = chosen.id
        PROVE  r.status \in Outcome \/ Pending(r)'
    <3>1. CASE r = with
      BY <1>2, <2>2, <3>1 DEF Outcome
    <3>2. CASE r # with
      <4>1. r \in scores /\ r.id # job.score
        BY <2>1, <2>3, <3>2
      <4> QED BY <1>0, <1>4, <2>4, <2>7, <4>1 DEF Scored
    <3> QED BY <3>1, <3>2
  <2>8. ASSUME NEW r \in scores', chosen.id # 0, ~Mixed(chosen.id), r.product = chosen.id, r.status = "SUCCESS"
        PROVE  r.of = {r.snapshot}
    BY <1>0, <2>2, <2>3, <2>8 DEF ScoreFits
  <2>9. worker'.at # "idle" => hasKey /\ worker'.job \in ScoringJobs
    BY <1>2, <2>4
  <2> QED BY <1>1, <1>3, <2>4, <2>5, <2>6, <2>7, <2>8, <2>9, WorkStep
<1>6. CASE ~HasRow(job.score)
  <2>1. scores' = scores /\ worker' = [at |-> "idle", job |-> NoScoring]
    BY <1>2, <1>6 DEF AnswerFails, Rest
  <2>2. /\ worker' \in [at : {"idle", "ask", "touch"}, job : ScoringJobs \cup {NoScoring}]
        /\ worker'.at = "idle"
    BY <2>1
  <2>3. \A x \in ScoringJobs : Waits(x)' => Waits(x)
    BY <1>1, <2>2 DEF Waits
  <2>4. /\ scores' \subseteq ScoreRows /\ \A q, r \in scores' : q.id = r.id => q = r
        /\ \A r \in scores' : \E q \in scores : q.id = r.id /\ q.product = r.product /\ q.snapshot = r.snapshot
        /\ \A q \in scores : \E r \in scores' : q.id = r.id /\ q.product = r.product /\ q.snapshot = r.snapshot
    BY <1>0, <2>1 DEF Numbered
  <2>5. ASSUME NEW r \in scores', chosen.id # 0, <<"lost", chosen.id>> \notin gaps, r.product = chosen.id
        PROVE  r.status \in Outcome \/ Pending(r)'
    <3>1. r \in scores /\ r.id # job.score
      BY <1>6, <2>1 DEF HasRow
    <3> QED BY <1>0, <1>4, <2>2, <2>5, <3>1 DEF Scored
  <2>6. ASSUME NEW r \in scores', chosen.id # 0, ~Mixed(chosen.id), r.product = chosen.id, r.status = "SUCCESS"
        PROVE  r.of = {r.snapshot}
    BY <1>0, <2>1, <2>6 DEF ScoreFits
  <2> QED BY <1>1, <1>3, <2>2, <2>3, <2>4, <2>5, <2>6, WorkStep
<1> QED BY <1>5, <1>6

\* A product in the catalogue is left as it is, and a worker that died has its job
\* run again.
LEMMA TouchOrStall ==
  ASSUME SelectionInv, TouchProduct \/ Stalled
  PROVE  SelectionInv'
<1>0. /\ SelectionTypes /\ Numbered /\ JobOrigins /\ Scored /\ ScoreFits
      /\ jobs \in Seq(ScoringJobs) /\ scores \subseteq ScoreRows
  BY DEF SelectionInv, SelectionTypes
<1>1. /\ worker.at \in {"ask", "touch"} /\ worker' = [at |-> "idle", job |-> NoScoring]
      /\ UNCHANGED <<item, snapshots, scores, hasKey, made, gaps>>
  BY DEF TouchProduct, Stalled, Rest
<1>2. UNCHANGED chosen
  BY <1>0 DEF TouchProduct, Stalled, Touched, Numbered
<1>3. worker' \in [at : {"idle", "ask", "touch"}, job : ScoringJobs \cup {NoScoring}] /\ worker'.at = "idle"
  BY <1>1
<1>4. PICK job \in ScoringJobs : job = worker.job
  BY <1>0, <1>1 DEF JobOrigins
<1>5. /\ jobs' \in Seq(ScoringJobs) /\ JobsOf(jobs) \subseteq JobsOf(jobs') /\ JobsOf(jobs') \subseteq JobsOf(jobs) \cup {job}
      /\ worker.at = "ask" => job \in JobsOf(jobs')
  <2>1. CASE TouchProduct
    BY <1>0, <2>1 DEF TouchProduct
  <2>2. CASE Stalled
    <3>1. <<job>> \o jobs \in Seq(ScoringJobs) /\ JobsOf(<<job>> \o jobs) = JobsOf(jobs) \cup {job}
      BY <1>0, QueueResumed
    <3>2. jobs' = <<job>> \o jobs
      BY <1>4, <2>2 DEF Stalled
    <3> QED BY <3>1, <3>2
  <2> QED BY <2>1, <2>2
<1>6. \A x \in ScoringJobs : Waits(x)' => Waits(x)
  BY <1>1, <1>3, <1>4, <1>5 DEF Waits
<1>7. /\ scores' \subseteq ScoreRows /\ \A q, r \in scores' : q.id = r.id => q = r
      /\ \A r \in scores' : \E q \in scores : q.id = r.id /\ q.product = r.product /\ q.snapshot = r.snapshot
      /\ \A q \in scores : \E r \in scores' : q.id = r.id /\ q.product = r.product /\ q.snapshot = r.snapshot
  BY <1>0, <1>1 DEF Numbered
<1>8. ASSUME NEW r \in scores, Pending(r) PROVE Pending(r)'
  BY <1>1, <1>4, <1>5, <1>8 DEF Pending
<1>9. \A r \in scores' : chosen.id # 0 /\ <<"lost", chosen.id>> \notin gaps /\ r.product = chosen.id =>
                           r.status \in Outcome \/ Pending(r)'
  BY <1>0, <1>1, <1>8 DEF Scored
<1>10. \A r \in scores' : chosen.id # 0 /\ ~Mixed(chosen.id) /\ r.product = chosen.id /\ r.status = "SUCCESS" =>
                            r.of = {r.snapshot}
  BY <1>0, <1>1 DEF ScoreFits
<1> QED BY <1>1, <1>2, <1>3, <1>5, <1>6, <1>7, <1>9, <1>10, WorkStep

\* The product is removed: its rows stay, without it.
LEMMA RemoveStep ==
  ASSUME SelectionInv, RemoveProduct
  PROVE  SelectionInv'
<1>0. /\ SelectionTypes /\ Numbered /\ Stages /\ RowOrigins /\ RowsMet /\ JobOrigins /\ scores \subseteq ScoreRows
      /\ MaxProducts \in Nat \ {0} /\ made \in [products : 0..MaxProducts, scores : 0..MaxScores]
  BY SelectionAssumptions DEF SelectionInv, SelectionTypes
<1>1. /\ chosen.id # 0 /\ chosen' = NoneChosen /\ UNCHANGED <<item, snapshots, jobs, worker, hasKey, made, gaps>>
      /\ scores' = {IF r.product = chosen.id THEN [r EXCEPT !.product = 0] ELSE r : r \in scores}
  BY DEF RemoveProduct
<1>2. chosen'.id = 0 /\ chosen' \in [id : 0..MaxProducts, status : CatalogStatuses \cup {"AI_DONE", "NONE"}]
  <2>1. PICK nil \in 0..MaxProducts : nil = 0
    BY <1>0
  <2> QED BY <1>1, <2>1 DEF NoneChosen
<1>3. ASSUME NEW r \in scores'
      PROVE  r \in ScoreRows /\ \E q \in scores : /\ r.id = q.id /\ r.snapshot = q.snapshot
                                                  /\ (r.product = 0 \/ r.product = q.product)
                                                  /\ r = IF q.product = chosen.id THEN [q EXCEPT !.product = 0] ELSE q
  <2>1. PICK q \in scores : r = IF q.product = chosen.id THEN [q EXCEPT !.product = 0] ELSE q
    BY <1>1
  <2>2. PICK nil \in 0..MaxProducts : nil = 0
    BY <1>0
  <2>3. CASE q.product = chosen.id
    <3>1. q \in ScoreRows /\ r = [q EXCEPT !.product = nil]
      BY <1>0, <2>1, <2>2, <2>3
    <3>2. r \in ScoreRows /\ r.id = q.id /\ r.snapshot = q.snapshot /\ r.product = nil
      BY <3>1 DEF ScoreRows
    <3> QED BY <2>1, <2>2, <3>2
  <2>4. CASE q.product # chosen.id
    BY <1>0, <2>1, <2>4
  <2> QED BY <2>3, <2>4
<1>4. SelectionTypes'
  BY <1>0, <1>1, <1>2, <1>3 DEF SelectionTypes
<1>5. Numbered'
  <2>1. \A q, r \in scores' : q.id = r.id => q = r
    BY <1>0, <1>3 DEF Numbered
  <2>2. 0 <= made.products
    BY <1>0
  <2>3. \A r \in scores' : r.id <= made.scores /\ r.product <= made.products
    BY <1>0, <1>3, <2>2 DEF Numbered
  <2> QED BY <1>1, <1>2, <2>1, <2>2, <2>3 DEF Numbered
<1>6. Stages'
  BY <1>0, <1>1 DEF Stages
<1>7. RowOrigins'
  <2>1. ASSUME NEW r \in scores', r.product # 0
        PROVE  item[r.snapshot].product = r.product /\ item[r.snapshot].fresh /\ item[r.snapshot].at \in {"aiAdd", "done"}
    <3>1. PICK q \in scores : r.snapshot = q.snapshot /\ r.product = q.product
      BY <1>3, <2>1
    <3> QED BY <1>0, <2>1, <3>1 DEF RowOrigins
  <2> QED BY <1>1, <2>1 DEF RowOrigins
<1>8. RowsMet'
  <2>1. ASSUME NEW i \in Visited, NEW r \in scores', item[i].at \in {"aiWrite", "aiAdd", "done", "gone"}, r.id = item[i].score
        PROVE  /\ r.product \in {item[i].product, 0}
               /\ item[i].product = 0 => r.product = item[i].product
    <3>1. PICK q \in scores : r.id = q.id /\ (r.product = 0 \/ r.product = q.product)
      BY <1>3
    <3> QED BY <1>0, <2>1, <3>1 DEF RowsMet
  <2> QED BY <1>1, <1>2, <2>1 DEF RowsMet
<1>9. JobOrigins'
  BY <1>0, <1>1 DEF JobOrigins, Waits
<1>10. SharedKnown' /\ Scored' /\ ScoreFits'
  BY <1>2 DEF SharedKnown, Scored, ScoreFits
<1> QED BY <1>4, <1>5, <1>6, <1>7, <1>8, <1>9, <1>10 DEF SelectionInv

\* The product is listed, or no longer.
LEMMA ListedStep ==
  ASSUME SelectionInv, ListedOrNot
  PROVE  SelectionInv'
<1>0. /\ SelectionTypes /\ Numbered /\ Stages /\ RowOrigins /\ RowsMet /\ JobOrigins /\ SharedKnown /\ Scored /\ ScoreFits
      /\ chosen \in [id : 0..MaxProducts, status : CatalogStatuses \cup {"AI_DONE", "NONE"}]
  BY DEF SelectionInv, SelectionTypes
<1>1. UNCHANGED <<item, snapshots, scores, jobs, worker, hasKey, made, gaps>>
  BY DEF ListedOrNot
<1>2. /\ chosen' \in [id : 0..MaxProducts, status : CatalogStatuses \cup {"AI_DONE", "NONE"}]
      /\ chosen'.id = chosen.id /\ chosen'.status \in CatalogStatuses
  BY <1>0 DEF ListedOrNot, CatalogStatuses
<1>3. SelectionTypes'
  BY <1>0, <1>1, <1>2 DEF SelectionTypes
<1>4. Numbered' /\ Stages'
  BY <1>0, <1>1, <1>2 DEF Numbered, Stages
<1>5. RowOrigins' /\ RowsMet'
  BY <1>0, <1>1, <1>2 DEF RowOrigins, RowsMet
<1>6. JobOrigins'
  BY <1>0, <1>1 DEF JobOrigins, Waits
<1>7. SharedKnown' /\ ScoreFits'
  BY <1>0, <1>1, <1>2 DEF SharedKnown, ScoreFits, Mixed
<1>8. Scored'
  BY <1>0, <1>1, <1>2 DEF Scored, Outcome, Pending
<1> QED BY <1>3, <1>4, <1>5, <1>6, <1>7, <1>8 DEF SelectionInv

\* Nothing is met yet.
LEMMA SelectionStarts == SelectionInit => SelectionInv
<1> SUFFICES ASSUME SelectionInit PROVE SelectionInv
  OBVIOUS
<1>1. /\ item = [i \in Visited |-> Unmet] /\ snapshots = {} /\ chosen = NoneChosen
      /\ scores = {} /\ jobs = <<>> /\ worker = [at |-> "idle", job |-> NoScoring]
      /\ hasKey \in BOOLEAN /\ made = [products |-> 0, scores |-> 0]
      /\ MaxProducts \in Nat \ {0} /\ MaxScores \in Nat \ {0}
  BY SelectionAssumptions DEF SelectionInit
<1>2. PICK p \in 0..MaxProducts, s \in 0..MaxScores : p = 0 /\ s = 0
  BY <1>1
<1>3. /\ Unmet \in Items /\ Unmet.at = "none" /\ Unmet.product = 0 /\ Unmet.score = 0 /\ ~Unmet.fresh
      /\ \A i \in Visited : item[i] = Unmet
  <2>1. Unmet = [at |-> "none", direct |-> FALSE, fresh |-> FALSE, product |-> p, score |-> s]
    BY <1>2 DEF Unmet
  <2> QED BY <1>1, <1>2, <2>1 DEF Items, Steps
<1>4. /\ chosen.id = 0 /\ chosen \in [id : 0..MaxProducts, status : CatalogStatuses \cup {"AI_DONE", "NONE"}]
      /\ made \in [products : 0..MaxProducts, scores : 0..MaxScores] /\ made.products = 0 /\ made.scores = 0
  BY <1>1, <1>2 DEF NoneChosen
<1>5. /\ worker \in [at : {"idle", "ask", "touch"}, job : ScoringJobs \cup {NoScoring}] /\ worker.at = "idle"
      /\ jobs \in Seq(ScoringJobs)
  BY <1>1
<1>6. JobsOf(jobs) = {}
  <2>1. Len(jobs) = 0 /\ 1..0 = {}
    BY <1>1
  <2> QED BY <2>1 DEF JobsOf
<1>7. SelectionTypes
  <2>1. item \in [Visited -> Items]
    BY <1>1, <1>3
  <2> QED BY <1>1, <1>4, <1>5, <2>1 DEF SelectionTypes
<1>8. Numbered /\ Stages
  <2>1. 0 <= 0
    OBVIOUS
  <2> QED BY <1>1, <1>3, <1>4, <2>1 DEF Numbered, Stages
<1>9. RowOrigins /\ RowsMet /\ SharedKnown /\ Scored /\ ScoreFits
  BY <1>1, <1>4 DEF RowOrigins, RowsMet, SharedKnown, Scored, ScoreFits
<1>10. JobOrigins
  BY <1>5, <1>6 DEF JobOrigins, Waits
<1> QED BY <1>7, <1>8, <1>9, <1>10 DEF SelectionInv

\* Every step of the ingestions, of the worker and of the catalogue.
LEMMA SelectionSteps == SelectionInv /\ [SelectionNext]_selectionVars => SelectionInv'
<1> SUFFICES ASSUME SelectionInv, [SelectionNext]_selectionVars PROVE SelectionInv'
  OBVIOUS
<1>1. CASE UNCHANGED selectionVars
  <2>1. UNCHANGED <<item, snapshots, chosen, scores, jobs, worker, hasKey, made, gaps>>
    BY <1>1 DEF selectionVars
  <2>2. SelectionTypes' /\ Numbered'
    BY <2>1 DEF SelectionInv, SelectionTypes, Numbered
  <2>3. Stages' /\ RowOrigins' /\ RowsMet'
    BY <2>1 DEF SelectionInv, Stages, RowOrigins, RowsMet
  <2>4. JobOrigins'
    BY <2>1 DEF SelectionInv, JobOrigins, Waits
  <2>5. SharedKnown' /\ ScoreFits'
    BY <2>1 DEF SelectionInv, SharedKnown, ScoreFits, Mixed
  <2>6. Scored'
    BY <2>1 DEF SelectionInv, Scored, Outcome, Pending
  <2> QED BY <2>2, <2>3, <2>4, <2>5, <2>6 DEF SelectionInv
<1>2. ASSUME NEW i \in Visited, \/ Claimed(i) \/ IngestDirect(i) \/ IngestStart(i) \/ WriteSnapshot(i) \/ FindProduct(i)
                                \/ MarkSuccess(i) \/ FindSelection(i)
      PROVE  SelectionInv'
  BY <1>2, Moves
<1>3. ASSUME NEW i \in Visited, UpsertProduct(i) PROVE SelectionInv'
  BY <1>3, UpsertStep
<1>4. ASSUME NEW i \in Visited, UpdateSelection(i) PROVE SelectionInv'
  BY <1>4, UpdateStep
<1>5. ASSUME NEW i \in Visited, CreateSelection(i) PROVE SelectionInv'
  BY <1>5, CreateStep
<1>6. ASSUME NEW i \in Visited, AddJob(i) PROVE SelectionInv'
  BY <1>6, AddStep
<1>7. ASSUME NEW i \in Visited, IngestBreaks(i) PROVE SelectionInv'
  BY <1>7, BreakStep
<1>8. ASSUME NEW i \in Visited, DeleteVisited(i) PROVE SelectionInv'
  BY <1>8, DeleteStep
<1>9. CASE JobStart
  BY <1>9, StartStep
<1>10. CASE Answered
  BY <1>10, AnsweredStep
<1>11. CASE AnswerFails
  BY <1>11, FailedStep
<1>12. CASE TouchProduct \/ Stalled
  BY <1>12, TouchOrStall
<1>13. CASE RemoveProduct
  BY <1>13, RemoveStep
<1>14. CASE ListedOrNot
  BY <1>14, ListedStep
<1> QED BY <1>1, <1>2, <1>3, <1>4, <1>5, <1>6, <1>7, <1>8, <1>9, <1>10, <1>11, <1>12, <1>13, <1>14 DEF SelectionNext

\* The invariant of products, their items, rows and jobs, from which the others follow.
THEOREM SelectionInvariant == SelectionSpec => []SelectionInv
  BY SelectionStarts, SelectionSteps, PTL DEF SelectionSpec

\* A product that was new stays in the catalogue and, once no item and no job is under
\* way, has its score, which is that of the snapshot it names, but for the products an
\* ingestion broke on or two wrote (ingestSuccess and runAiSelection).
THEOREM NewProductsScored == SelectionSpec => []SelectionSettles
<1>1. ASSUME SelectionInv PROVE SelectionSettles
  <2> SUFFICES ASSUME chosen.id # 0
               PROVE  /\ chosen.status \in CatalogStatuses
                      /\ (jobs = <<>> /\ worker.at = "idle" /\ (\A i \in Visited : ~InFlight(i))
                            /\ <<"lost", chosen.id>> \notin gaps) =>
                           \E r \in RowsOf(chosen.id) :
                             /\ r.status \in Outcome
                             /\ (r.status = "SUCCESS" /\ <<"mixed", chosen.id>> \notin gaps) => r.of = {r.snapshot}
    BY DEF SelectionSettles, Outcome
  <2>1. chosen.status \in CatalogStatuses
    BY <1>1 DEF SelectionInv, Numbered
  <2>2. ASSUME jobs = <<>>, worker.at = "idle", \A i \in Visited : ~InFlight(i), <<"lost", chosen.id>> \notin gaps
        PROVE  \E r \in RowsOf(chosen.id) :
                 /\ r.status \in Outcome
                 /\ (r.status = "SUCCESS" /\ <<"mixed", chosen.id>> \notin gaps) => r.of = {r.snapshot}
    <3>1. \A i \in Visited : item[i].at \notin {"mark", "aiFind", "aiWrite", "aiAdd"}
      BY <2>2 DEF InFlight
    <3>2. JobsOf(jobs) = {}
      <4>1. Len(jobs) = 0 /\ 1..0 = {}
        BY <2>2
      <4> QED BY <4>1 DEF JobsOf
    <3>3. \A r \in scores : ~Pending(r)
      BY <2>2, <3>1, <3>2 DEF Pending
    <3>4. PICK r \in scores : r.product = chosen.id
      BY <1>1, <2>2, <3>1 DEF SelectionInv, Scored
    <3>5. r.status \in Outcome
      BY <1>1, <2>2, <3>3, <3>4 DEF SelectionInv, Scored
    <3>6. (r.status = "SUCCESS" /\ <<"mixed", chosen.id>> \notin gaps) => r.of = {r.snapshot}
      BY <1>1, <3>4 DEF SelectionInv, ScoreFits, Mixed
    <3> QED BY <3>4, <3>5, <3>6 DEF RowsOf
  <2> QED BY <2>1, <2>2
<1> QED BY <1>1, SelectionInvariant, PTL

\* Snapshots, the product, its rows and the worker keep their types.
THEOREM SelectionTypesCorrect == SelectionSpec => []SelectionTypeOK
<1>1. SelectionInv => SelectionTypeOK
  BY DEF SelectionInv, SelectionTypes, ScoreRows, SelectionTypeOK
<1> QED BY <1>1, SelectionInvariant, PTL

-----------------------------------------------------------------------------
(* ProductPackages, for any collections, texts and answers.                *)

\* A product's texts.
TextRows == [triple : {<<>>} \cup Sizes3, edge : 0..5000, weight : Nat, slash : BOOLEAN]

\* The three edges of a parcel, and what a kind of goods is packed in.
ThreeNat(e) == e[1] \in Nat /\ e[2] \in Nat /\ e[3] \in Nat
PackTyped(p) ==
  /\ ThreeNat(p.typical)
  /\ p.packed.length[1] \in Nat /\ p.packed.length[2] \in Nat
  /\ p.packed.width[1] \in Nat /\ p.packed.width[2] \in Nat
  /\ p.packed.height[1] \in Nat /\ p.packed.height[2] \in Nat

\* A finite set of integers has a greatest: take a smallest set without one.
LEMMA GreatestOf ==
  ASSUME NEW S \in SUBSET Int, IsFiniteSet(S), S # {}
  PROVE  Max(S) \in S /\ \A x \in S : x <= Max(S)
<1> DEFINE Endless(T) == T # {} /\ \A m \in T : \E x \in T : x > m
           Counts == {n \in Nat : \E T \in SUBSET Int : IsFiniteSet(T) /\ Endless(T) /\ Cardinality(T) = n}
<1>1. ASSUME Counts # {} PROVE FALSE
  <2>1. PICK n \in Counts : \A k \in Counts : <<k, n>> \notin OpToRel(<, Nat)
    BY <1>1, NatLessThanWellFounded, WFMin
  <2>2. PICK T \in SUBSET Int : IsFiniteSet(T) /\ Endless(T) /\ Cardinality(T) = n
    BY <2>1
  <2>3. PICK m \in T : TRUE
    BY <2>2
  <2> DEFINE U == T \ {m}
  <2>4. IsFiniteSet(U) /\ Cardinality(U) = n - 1 /\ n \in Nat /\ Cardinality(U) \in Nat
    BY <2>1, <2>2, <2>3, FS_RemoveElement, FS_CardinalityType
  <2>5. Endless(U)
    <3>0. T \in SUBSET Int /\ Endless(T) /\ m \in T
      BY <2>2, <2>3
    <3>1. PICK x \in T : x > m
      BY <3>0
    <3>2. x \in U
      BY <3>0, <3>1
    <3>3. ASSUME NEW k \in U PROVE \E y \in U : y > k
      <4>1. PICK y \in T : y > k
        BY <3>0, <3>3
      <4>2. k \in Int /\ y \in Int /\ x \in Int /\ m \in Int
        BY <3>0
      <4>3. CASE y # m
        BY <4>1, <4>3
      <4>4. CASE y = m
        BY <3>1, <3>2, <4>1, <4>2, <4>4
      <4> QED BY <4>3, <4>4
    <3> QED BY <3>2, <3>3
  <2>6. n - 1 \in Counts
    BY <2>4, <2>5
  <2>7. <<n - 1, n>> \in OpToRel(<, Nat)
    BY <2>4 DEF OpToRel
  <2> QED BY <2>1, <2>6, <2>7
<1>2. \E m \in S : \A x \in S : m >= x
  <2> SUFFICES ASSUME \A m \in S : \E x \in S : ~(m >= x) PROVE FALSE
    OBVIOUS
  <2>1. ASSUME NEW m \in S PROVE \E x \in S : x > m
    BY <2>1
  <2>2. Cardinality(S) \in Nat
    BY FS_CardinalityType
  <2>3. Cardinality(S) \in Counts
    BY <2>1, <2>2
  <2> QED BY <1>1, <2>3
<1>3. Max(S) \in S /\ \A x \in S : Max(S) >= x
  BY <1>2 DEF Max
<1> QED BY <1>3

\* The greatest and the least of a few.
LEMMA OfThree ==
  ASSUME NEW a \in Int, NEW b \in Int, NEW c \in Int
  PROVE  /\ Max({a, b, c}) \in {a, b, c} /\ Max({a, b, c}) >= a /\ Max({a, b, c}) >= b /\ Max({a, b, c}) >= c
         /\ Min({a, b, c}) \in {a, b, c} /\ Min({a, b, c}) <= a /\ Min({a, b, c}) <= b /\ Min({a, b, c}) <= c
<1>1. \E x \in {a, b, c} : \A y \in {a, b, c} : x >= y
  OBVIOUS
<1>2. \E x \in {a, b, c} : \A y \in {a, b, c} : x =< y
  OBVIOUS
<1> QED BY <1>1, <1>2 DEF Max, Min

LEMMA OfTwo ==
  ASSUME NEW a \in Int, NEW b \in Int
  PROVE  /\ Max({a, b}) \in {a, b} /\ Max({a, b}) >= a /\ Max({a, b}) >= b
         /\ Min({a, b}) \in {a, b} /\ Min({a, b}) <= a /\ Min({a, b}) <= b
<1>1. {a, b} = {a, b, b}
  OBVIOUS
<1> QED BY <1>1, OfThree

LEMMA SortedTypes ==
  ASSUME NEW t, t[1] \in Int, t[2] \in Int, t[3] \in Int
  PROVE  Sorted(t)[1] \in Int /\ Sorted(t)[2] \in Int /\ Sorted(t)[3] \in Int
<1>1. Max({t[1], t[2], t[3]}) \in Int /\ Min({t[1], t[2], t[3]}) \in Int
  BY OfThree
<1> QED BY <1>1 DEF Sorted

\* Lengths, weights and lists of three edges are numbers, as a row's type says.
LEMMA SpecTypes == \A r \in Specs : r.value \in Nat /\ r.triple \in {<<>>} \cup Sizes3
BY DEF Specs

LEMMA TripleTypes ==
  ASSUME NEW t \in Sizes3, NEW d \in Edges
  PROVE  Triple(t)[d] \in Int /\ Triple(t)[d] <= 7000
<1> DEFINE u == [i \in 1..3 |-> Usable(t[i])]
<1>1. \A n \in Nat : Usable(n) \in Nat /\ Usable(n) <= 7000
  BY DEF Usable, MaxEdge
<1>2. t[1] \in Nat /\ t[2] \in Nat /\ t[3] \in Nat
  BY DEF Sizes3
<1>3. PICK a \in Nat, b \in Nat, c \in Nat :
        /\ u[1] = a /\ u[2] = b /\ u[3] = c
        /\ a <= 7000 /\ b <= 7000 /\ c <= 7000
  BY <1>1, <1>2
<1> HIDE DEF u
<1>4. a \in Int /\ b \in Int /\ c \in Int
  OBVIOUS
<1>5. /\ Max({a, b, c}) \in {a, b, c} /\ Max({a, b, c}) >= a /\ Max({a, b, c}) >= b /\ Max({a, b, c}) >= c
      /\ Min({a, b, c}) \in {a, b, c} /\ Min({a, b, c}) <= a /\ Min({a, b, c}) <= b /\ Min({a, b, c}) <= c
  BY ONLY <1>4, OfThree
<1>6. PICK M \in Nat, m \in Nat :
        /\ M = Max({a, b, c}) /\ m = Min({a, b, c}) /\ M \in {a, b, c} /\ m \in {a, b, c}
        /\ M >= a /\ M >= b /\ M >= c /\ m <= a /\ m <= b /\ m <= c
  BY <1>5
<1>7. Sorted(u) = <<M, a + b + c - M - m, m>>
  BY <1>3, <1>6 DEF Sorted
<1>8. Triple(t) = [length |-> Sorted(u)[1], width |-> Sorted(u)[2], height |-> Sorted(u)[3]]
  BY DEF Triple, u
<1>9. /\ Triple(t)["length"] = M /\ Triple(t)["width"] = a + b + c - M - m /\ Triple(t)["height"] = m
  BY <1>7, <1>8
<1>10. a + b + c - M - m \in Int /\ a + b + c - M - m <= 7000 /\ M <= 7000 /\ m <= 7000
  BY <1>3, <1>6
<1> QED BY <1>6, <1>9, <1>10 DEF Edges

\* The greatest of a set and one more number.
LEMMA GreatestWith ==
  ASSUME NEW a \in Int, NEW V \in SUBSET Int, IsFiniteSet(V)
  PROVE  /\ Max({a} \cup V) \in Int /\ Max({a} \cup V) \in {a} \cup V
         /\ Max({a} \cup V) >= a /\ \A x \in V : Max({a} \cup V) >= x
<1>1. V \cup {a} = {a} \cup V /\ {a} \cup V \in SUBSET Int /\ {a} \cup V # {}
  OBVIOUS
<1>2. IsFiniteSet({a} \cup V)
  BY <1>1, FS_AddElement
<1>3. Max({a} \cup V) \in {a} \cup V /\ \A x \in {a} \cup V : x <= Max({a} \cup V)
  BY <1>1, <1>2, GreatestOf
<1> QED BY <1>1, <1>3

\* A named edge is no less than any specification that names it.
LEMMA NamedEnough ==
  ASSUME NEW R \in SUBSET Specs, IsFiniteSet(R), NEW e \in Edges
  PROVE  /\ Named(R, e) \in Int
         /\ \A r \in R : Read(r) /\ e \in r.names => Named(R, e) >= Usable(r.value)
<1> DEFINE Q == {q \in R : Read(q) /\ e \in q.names}
           V == {Usable(r.value) : r \in Q}
<1>1. IsFiniteSet(Q)
  BY FS_Subset
<1>2. IsFiniteSet(V)
  <2>1. [r \in Q |-> Usable(r.value)] \in Surjection(Q, V)
    <3> HIDE DEF Q
    <3> QED BY DEF Surjection
  <2> QED BY <1>1, <2>1, FS_Surjection
<1>3. V \in SUBSET Int
  BY SpecTypes DEF Usable
<1>4. \A r \in R : Read(r) /\ e \in r.names => Usable(r.value) \in V
  OBVIOUS
<1>5. Named(R, e) = Max({0} \cup V)
  BY DEF Named
<1> HIDE DEF V, Q
<1>6. 0 \in Int
  OBVIOUS
<1>7. Max({0} \cup V) \in Int /\ \A x \in V : Max({0} \cup V) >= x
  BY <1>2, <1>3, <1>6, GreatestWith, Zenon
<1> QED BY <1>4, <1>5, <1>7

\* With the A x B x C specifications, while they count.
LEMMA SizedEnough ==
  ASSUME NEW R \in SUBSET Specs, IsFiniteSet(R), NEW d \in Edges
  PROVE  /\ SizedEdges(R)[d] \in Int /\ SizedEdges(R)[d] >= Named(R, d)
         /\ ~Complete(NamedEdges(R)) => \A q \in Triples(R) : SizedEdges(R)[d] >= Triple(q.triple)[d]
<1>1. Named(R, d) \in Int
  BY NamedEnough
<1>2. CASE Complete(NamedEdges(R))
  <2>1. SizedEdges(R)[d] = Named(R, d)
    BY <1>2 DEF SizedEdges, NamedEdges
  <2> QED BY <1>1, <1>2, <2>1
<1>3. CASE ~Complete(NamedEdges(R))
  <2> DEFINE V == {Triple(q.triple)[d] : q \in Triples(R)}
  <2>1. SizedEdges(R)[d] = Max({Named(R, d)} \cup V)
    BY <1>3 DEF SizedEdges
  <2>2. IsFiniteSet(Triples(R))
    BY FS_Subset DEF Triples
  <2>3. IsFiniteSet(V)
    <3>1. [q \in Triples(R) |-> Triple(q.triple)[d]] \in Surjection(Triples(R), V)
      BY DEF Surjection
    <3> QED BY <2>2, <3>1, FS_Surjection
  <2>4. \A q \in Triples(R) : q.triple \in Sizes3
    BY SpecTypes DEF Triples
  <2>5. V \in SUBSET Int
    BY <2>4, TripleTypes
  <2>6. \A q \in Triples(R) : Triple(q.triple)[d] \in V
    OBVIOUS
  <2> HIDE DEF V
  <2>7. /\ Max({Named(R, d)} \cup V) \in Int /\ Max({Named(R, d)} \cup V) >= Named(R, d)
        /\ \A x \in V : Max({Named(R, d)} \cup V) >= x
    BY <1>1, <2>3, <2>5, GreatestWith
  <2> QED BY <2>1, <2>6, <2>7
<1> QED BY <1>2, <1>3

LEMMA SizedTypes ==
  ASSUME NEW R \in SUBSET Specs, IsFiniteSet(R)
  PROVE  SizedEdges(R) \in [Edges -> Int]
<1>1. \A d \in Edges : SizedEdges(R)[d] \in Int
  BY SizedEnough
<1>2. CASE Complete(NamedEdges(R))
  <2>1. SizedEdges(R) = [d \in Edges |-> Named(R, d)]
    BY <1>2 DEF SizedEdges, NamedEdges
  <2> QED BY <2>1, NamedEnough
<1>3. CASE ~Complete(NamedEdges(R))
  <2>1. SizedEdges(R) = [d \in Edges |-> Max({Named(R, d)} \cup {Triple(q.triple)[d] : q \in Triples(R)})]
    BY <1>3 DEF SizedEdges
  <2>2. SizedEdges(R) = [d \in Edges |-> SizedEdges(R)[d]]
    BY <2>1
  <2> QED BY <1>1, <2>2
<1> QED BY <1>2, <1>3

LEMMA TextEdge == \A t \in TextRows : t.edge \in Int /\ t.edge <= 7000
<1> TAKE t \in TextRows
<1>1. PICK n : n \in 0..5000 /\ n = t.edge
  BY DEF TextRows
<1>2. n \in 0..5000
  BY <1>1, Zenon
<1>3. n \in Int /\ n <= 7000
  BY ONLY <1>2
<1> QED BY <1>1, <1>3

\* With the texts, while they count.
LEMMA FoundEnough ==
  ASSUME NEW R \in SUBSET Specs, IsFiniteSet(R), NEW t \in TextRows, NEW d \in Edges
  PROVE  /\ Found(R, t)[d] \in Int /\ Found(R, t)[d] >= SizedEdges(R)[d]
         /\ TextCounts(R, t) => /\ d = "length" => Found(R, t)[d] >= t.edge
                                /\ t.triple # <<>> => Found(R, t)[d] >= Triple(t.triple)[d]
<1> DEFINE sized == IF t.triple = <<>> THEN SizedEdges(R) ELSE Greatest(SizedEdges(R), Triple(t.triple))
<1>1. SizedEdges(R) \in [Edges -> Int]
  BY SizedTypes
<1>2. /\ sized \in [Edges -> Int]
      /\ \A e \in Edges : sized[e] >= SizedEdges(R)[e] /\ (t.triple # <<>> => sized[e] >= Triple(t.triple)[e])
  <2>1. CASE t.triple = <<>>
    BY <1>1, <2>1
  <2>2. CASE t.triple # <<>>
    <3>1. PICK tr \in Sizes3 : tr = t.triple
      BY <2>2 DEF TextRows
    <3>2. sized = [e \in Edges |-> Max({SizedEdges(R)[e], Triple(tr)[e]})]
      BY <2>2, <3>1 DEF Greatest
    <3>3. ASSUME NEW e \in Edges
          PROVE  LET m == Max({SizedEdges(R)[e], Triple(tr)[e]})
                 IN m \in Int /\ m >= SizedEdges(R)[e] /\ m >= Triple(tr)[e]
      <4>1. SizedEdges(R)[e] \in Int /\ Triple(tr)[e] \in Int
        BY <1>1, TripleTypes
      <4> QED BY <4>1, OfTwo
    <3> HIDE DEF sized
    <3> QED BY <3>1, <3>2, <3>3
  <2> QED BY <2>1, <2>2
<1>3. Found(R, t) = IF TextCounts(R, t) THEN [sized EXCEPT !.length = Max({@, t.edge})] ELSE SizedEdges(R)
  BY DEF Found
<1> HIDE DEF sized
<1>4. CASE ~TextCounts(R, t)
  BY <1>1, <1>3, <1>4
<1>5. CASE TextCounts(R, t)
  <2>1. PICK f \in [Edges -> Int] : f = sized
    BY <1>2
  <2>2. PICK x \in Int, y \in Int : x = f["length"] /\ y = t.edge
    BY TextEdge DEF Edges
  <2>3. PICK m \in Int : m = Max({f["length"], t.edge}) /\ m >= f["length"] /\ m >= t.edge
    <3>1. Max({x, y}) \in {x, y} /\ Max({x, y}) >= x /\ Max({x, y}) >= y
      BY OfTwo
    <3> QED BY <2>2, <3>1
  <2>4. Found(R, t) = [f EXCEPT !["length"] = m]
    BY <1>3, <1>5, <2>1, <2>3
  <2>5. Found(R, t)[d] = IF d = "length" THEN m ELSE f[d]
    BY <2>1, <2>4
  <2>6. f[d] \in Int /\ f[d] >= SizedEdges(R)[d] /\ (t.triple # <<>> => f[d] >= Triple(t.triple)[d])
    BY <1>2, <2>1
  <2>7. SizedEdges(R)[d] \in Int /\ (t.triple # <<>> => Triple(t.triple)[d] \in Int)
    <3>1. t.triple # <<>> => t.triple \in Sizes3
      BY DEF TextRows
    <3> QED BY <1>1, <3>1, TripleTypes
  <2>8. CASE d = "length"
    <3>1. Found(R, t)[d] = m /\ m >= f[d]
      BY <2>3, <2>5, <2>8
    <3>2. m >= SizedEdges(R)[d] /\ (t.triple # <<>> => m >= Triple(t.triple)[d])
      BY <2>6, <2>7, <3>1
    <3> QED BY <2>3, <3>1, <3>2
  <2>9. CASE d # "length"
    BY <2>5, <2>6, <2>9
  <2> QED BY <2>8, <2>9
<1> QED BY <1>4, <1>5

\* Rounded up to whole centimetres.
LEMMA Rounded == \A a \in Int : Ceil(a, 10) \in Int /\ 10 * Ceil(a, 10) >= a
BY DEF Ceil

\* A parcel's edge covers what was found of it, up to the longest there is.
LEMMA EdgeCovers ==
  ASSUME NEW mm \in Int, NEW scoped \in BOOLEAN, NEW known \in Int, known <= mm, known <= 7000
  PROVE  10 * ShippingEdge(mm, scoped) >= known
<1>1. PICK c \in Int : c = Ceil(mm, 10) /\ 10 * c >= mm
  BY Rounded
<1>2. PICK x \in Int : x = (IF scoped THEN mm ELSE mm + 20) /\ x >= mm
  OBVIOUS
<1>3. PICK y \in Int : y = Ceil(x, 10) /\ 10 * y >= x
  BY Rounded
<1>4. Max({1, y}) \in Int /\ Max({1, y}) >= y /\ Min({700, c}) \in {700, c}
  <2>1. 1 \in Int /\ 700 \in Int /\ y \in Int /\ c \in Int
    OBVIOUS
  <2>2. Max({1, y}) \in {1, y} /\ Max({1, y}) >= y
    BY <2>1, OfTwo
  <2>3. Min({700, c}) \in {700, c}
    BY <2>1, OfTwo
  <2> QED BY <2>1, <2>2, <2>3
<1>5. PICK packed \in Int : packed = Max({1, y}) /\ packed >= y
  BY <1>4
<1>6. ShippingEdge(mm, scoped) = IF mm = 0 THEN 0 ELSE IF packed > 700 THEN Min({700, c}) ELSE packed
  BY <1>1, <1>2, <1>3, <1>5 DEF ShippingEdge, MaxEdge
<1> QED BY <1>1, <1>2, <1>3, <1>4, <1>5, <1>6

\* A fifth more, and a hundred grams at least.
LEMMA GrossIsMore == \A net \in Nat : ToGross(net) \in Nat /\ ToGross(net) >= net + 100
<1> TAKE net \in Nat
<1>1. Ceil(net, 5) \in Int
  BY DEF Ceil
<1>2. Max({100, Ceil(net, 5)}) \in Int /\ Max({100, Ceil(net, 5)}) >= 100
  BY <1>1, OfTwo
<1> QED BY <1>2 DEF ToGross

\* The greatest value of some specifications.
LEMMA HeaviestOf ==
  ASSUME NEW R \in SUBSET Specs, IsFiniteSet(R)
  PROVE  Heaviest(R) \in Nat /\ (\A r \in R : r.value <= Heaviest(R)) /\ (Heaviest(R) > 0 => R # {})
<1> DEFINE V == {r.value : r \in R}
<1>1. [r \in R |-> r.value] \in Surjection(R, V)
  BY DEF Surjection
<1>2. IsFiniteSet(V)
  BY <1>1, FS_Surjection
<1>3. V \in SUBSET Nat /\ (R = {} => V = {}) /\ \A r \in R : r.value \in V
  BY SpecTypes
<1>4. Heaviest(R) = Max({0} \cup V)
  BY DEF Heaviest
<1> HIDE DEF V
<1>5. V \in SUBSET Int
  BY <1>3
<1>6. 0 \in Int
  OBVIOUS
<1>7. PICK m \in {0} \cup V : m = Max({0} \cup V) /\ \A x \in V : m >= x
  BY <1>2, <1>5, <1>6, GreatestWith, Zenon
<1>8. m \in Nat
  BY <1>3, <1>7
<1>9. \A r \in R : r.value <= m
  <2> TAKE r \in R
  <2>1. PICK v \in V : v = r.value
    BY <1>3
  <2>2. m >= v /\ v \in Nat
    BY <1>3, <1>7
  <2> QED BY <1>8, <2>1, <2>2
<1>10. m > 0 => m \in V
  BY <1>7
<1> QED BY <1>3, <1>4, <1>7, <1>8, <1>9, <1>10

\* A declared weight is no less than a gross one, a net one with its packing, and
\* what says neither, while that counts.
LEMMA WeightCovers ==
  ASSUME specs \in SUBSET Specs, IsFiniteSet(specs), text \in TextRows
  PROVE  WeightEnough
<1> DEFINE rows == Weights(specs)
           gross == ScopedTo(rows, "package")
           netRows == ScopedTo(rows, "net")
           heaviest == Heaviest(rows)
           net == Heaviest(netRows)
<1>1. /\ rows \in SUBSET Specs /\ IsFiniteSet(rows) /\ netRows \in SUBSET rows /\ IsFiniteSet(netRows)
      /\ gross \in SUBSET rows /\ \A r \in rows : r.value \in Nat /\ r.value > 0
  <2>1. Weights(specs) \in SUBSET specs /\ \A r \in Weights(specs) : r.value > 0
    BY DEF Weights
  <2>2. \A S : ScopedTo(S, "net") \in SUBSET S /\ ScopedTo(S, "package") \in SUBSET S
    BY DEF ScopedTo
  <2>3. IsFiniteSet(Weights(specs)) /\ IsFiniteSet(ScopedTo(Weights(specs), "net"))
    BY <2>1, <2>2, FS_Subset
  <2> QED BY <2>1, <2>2, <2>3, SpecTypes
<1>2. Weight(specs, text) =
        CASE heaviest = 0 -> IF text.weight = 0 THEN 0 ELSE ToGross(text.weight)
          [] net > 0 -> Max({IF gross # {} THEN heaviest ELSE 0, ToGross(net)})
          [] net = 0 /\ gross # {} -> heaviest
          [] OTHER -> ToGross(heaviest)
  BY DEF Weight
<1> HIDE DEF rows, netRows, gross, heaviest, net
<1>3. heaviest \in Nat /\ (\A r \in rows : r.value <= heaviest) /\ (heaviest > 0 => rows # {})
  BY <1>1, HeaviestOf DEF heaviest
<1>4. net \in Nat /\ (\A r \in netRows : r.value <= net) /\ (net > 0 => netRows # {})
  BY <1>1, HeaviestOf DEF net
<1>5. heaviest = 0 => rows = {} /\ netRows = {} /\ net = 0 /\ gross = {}
  BY <1>1, <1>3, <1>4
<1>6. net = 0 => netRows = {}
  BY <1>1, <1>4
<1>7. PICK G \in Nat, T \in Nat : G = ToGross(net) /\ G >= net + 100 /\ T = ToGross(heaviest) /\ T >= heaviest + 100
  BY <1>3, <1>4, GrossIsMore
<1>8. PICK W \in Nat : W = Weight(specs, text)
    /\ (gross # {} => W >= heaviest) /\ (net > 0 => W >= net + 100)
    /\ (gross = {} /\ net = 0 /\ heaviest > 0 => W >= heaviest + 100)
    /\ (heaviest = 0 /\ text.weight > 0 => W >= text.weight + 100)
  <2>0. text.weight \in Nat
    BY DEF TextRows
  <2>1. CASE heaviest = 0
    <3>1. Weight(specs, text) = IF text.weight = 0 THEN 0 ELSE ToGross(text.weight)
      BY <1>2, <1>5, <2>1
    <3>2. ToGross(text.weight) \in Nat /\ ToGross(text.weight) >= text.weight + 100
      BY <2>0, GrossIsMore
    <3> QED BY <1>5, <2>0, <2>1, <3>1, <3>2
  <2>2. CASE heaviest # 0 /\ net > 0
    <3>1. PICK g \in Nat : g = (IF gross # {} THEN heaviest ELSE 0)
      BY <1>3
    <3>2. g \in Int /\ G \in Int
      OBVIOUS
    <3>3. Max({g, G}) \in {g, G} /\ Max({g, G}) >= g /\ Max({g, G}) >= G
      BY ONLY <3>2, OfTwo
    <3>4. PICK M \in Nat : M = Max({g, G}) /\ M >= g /\ M >= G
      BY <3>3
    <3>5. Weight(specs, text) = M
      BY <1>2, <1>4, <1>7, <2>2, <3>1, <3>4
    <3> QED BY <1>3, <1>4, <1>7, <2>2, <3>1, <3>4, <3>5
  <2>3. CASE heaviest # 0 /\ net = 0 /\ gross # {}
    BY <1>2, <1>3, <2>3
  <2>4. CASE heaviest # 0 /\ net = 0 /\ gross = {}
    <3>1. Weight(specs, text) = T
      BY <1>2, <1>7, <2>4
    <3> QED BY <1>3, <1>7, <2>4, <3>1
  <2> QED BY <1>4, <2>1, <2>2, <2>3, <2>4
<1>9. /\ \A r \in gross : r.value \in Nat /\ r.value <= heaviest
      /\ \A r \in netRows : r.value \in Nat /\ r.value <= net /\ net > 0
      /\ \A r \in rows : r.value \in Nat /\ r.value <= heaviest /\ heaviest > 0
  BY <1>1, <1>3, <1>4
<1>10. /\ \A r \in gross : W >= r.value
       /\ \A r \in netRows : W >= r.value + 100
       /\ gross # {} => \A r \in rows : W >= r.value
       /\ gross \cup netRows = {} => \A r \in rows : W >= r.value + 100
       /\ rows = {} /\ text.weight > 0 => W >= text.weight + 100
  <2>1. \A r \in gross : W >= r.value
    BY <1>3, <1>8, <1>9
  <2>2. \A r \in netRows : W >= r.value + 100
    BY <1>4, <1>8, <1>9
  <2>3. gross # {} => \A r \in rows : W >= r.value
    BY <1>3, <1>8, <1>9
  <2>4. gross \cup netRows = {} => \A r \in rows : W >= r.value + 100
    <3>1. netRows = {} => net = 0
      BY <1>4
    <3> QED BY <1>3, <1>8, <1>9, <3>1
  <2>5. rows = {} /\ text.weight > 0 => W >= text.weight + 100
    <3>1. rows = {} => heaviest = 0
      BY <1>3
    <3> QED BY <1>8, <3>1
  <2> QED BY <2>1, <2>2, <2>3, <2>4, <2>5
<1> QED BY <1>8, <1>10 DEF WeightEnough, rows, gross, netRows

\* An edge of the parcel covers what was found of it.
LEMMA SizeCovers ==
  ASSUME specs \in SUBSET Specs, IsFiniteSet(specs), text \in TextRows
  PROVE  SizeEnough
<1>1. ASSUME NEW d \in Edges, NEW known \in Int, known <= Found(specs, text)[d], known <= 7000
      PROVE  10 * Parcel(specs, text)[d] >= known
  <2>1. Found(specs, text)[d] \in Int
    BY FoundEnough
  <2>2. Scoped(specs) \in BOOLEAN
    BY DEF Scoped
  <2>3. 10 * ShippingEdge(Found(specs, text)[d], Scoped(specs)) >= known
    BY <1>1, <2>1, <2>2, EdgeCovers
  <2> QED BY <2>3 DEF Parcel
<1>2. ASSUME NEW d \in Edges
      PROVE  /\ Found(specs, text)[d] \in Int /\ SizedEdges(specs)[d] \in Int /\ Named(specs, d) \in Int
             /\ Found(specs, text)[d] >= SizedEdges(specs)[d] /\ SizedEdges(specs)[d] >= Named(specs, d)
  BY FoundEnough, SizedEnough, NamedEnough
<1>3. ASSUME NEW r \in specs, Read(r), NEW d \in r.names \cap Edges
      PROVE  10 * Parcel(specs, text)[d] >= Usable(r.value)
  <2>1. Usable(r.value) \in Int /\ Usable(r.value) <= 7000
    BY SpecTypes DEF Usable, MaxEdge
  <2>2. Named(specs, d) >= Usable(r.value)
    BY <1>3, NamedEnough
  <2>3. Usable(r.value) <= Found(specs, text)[d]
    BY <1>2, <2>1, <2>2
  <2> QED BY <1>1, <2>1, <2>3
<1>4. ASSUME ~Complete(NamedEdges(specs)), NEW q \in Triples(specs), NEW d \in Edges
      PROVE  10 * Parcel(specs, text)[d] >= Triple(q.triple)[d]
  <2>1. q.triple \in Sizes3
    BY SpecTypes DEF Triples
  <2>2. Triple(q.triple)[d] \in Int /\ Triple(q.triple)[d] <= 7000
    BY <2>1, TripleTypes
  <2>3. SizedEdges(specs)[d] >= Triple(q.triple)[d]
    BY <1>4, SizedEnough
  <2>4. Triple(q.triple)[d] <= Found(specs, text)[d]
    BY <1>2, <2>2, <2>3
  <2> QED BY <1>1, <2>2, <2>4
<1>5. ASSUME TextCounts(specs, text) PROVE 10 * Parcel(specs, text)["length"] >= text.edge
  <2>1. text.edge \in Int /\ text.edge <= 7000 /\ "length" \in Edges
    BY TextEdge DEF Edges
  <2>2. text.edge <= Found(specs, text)["length"]
    BY <1>2, <1>5, <2>1, FoundEnough
  <2> QED BY <1>1, <2>1, <2>2
<1>6. ASSUME TextCounts(specs, text), text.triple # <<>>, NEW d \in Edges
      PROVE  10 * Parcel(specs, text)[d] >= Triple(text.triple)[d]
  <2>1. PICK tr \in Sizes3 : tr = text.triple
    BY <1>6 DEF TextRows
  <2>2. Triple(tr)[d] \in Int /\ Triple(tr)[d] <= 7000
    BY TripleTypes
  <2>3. Triple(tr)[d] <= Found(specs, text)[d]
    BY <1>2, <1>6, <2>1, <2>2, FoundEnough
  <2> QED BY <1>1, <2>1, <2>2, <2>3
<1> QED BY <1>3, <1>4, <1>5, <1>6 DEF SizeEnough

LEMMA ProfileTypes == \A k \in Goods : PackTyped(Profiles[k])
BY SMTT(30) DEF Goods, Profiles, Pack, PackTyped, ThreeNat

\* Within a span of centimetres.
LEMMA WithinTypes ==
  ASSUME NEW v \in Int, NEW span, span[1] \in Nat, span[2] \in Nat
  PROVE  Within(v, span) \in Nat
<1>1. PICK low \in Nat, high \in Nat : low = span[1] /\ high = span[2]
  OBVIOUS
<1>2. Max({low, 1, v}) \in Int /\ Max({low, 1, v}) >= 1
  <2>1. low \in Int /\ 1 \in Int /\ v \in Int
    OBVIOUS
  <2>2. Max({low, 1, v}) \in {low, 1, v} /\ Max({low, 1, v}) >= 1
    BY <2>1, OfThree
  <2> QED BY <2>1, <2>2
<1>3. PICK m \in Nat : m = Max({low, 1, v})
  BY <1>2
<1>4. Min({high, m}) \in {high, m}
  <2>1. high \in Int /\ m \in Int
    OBVIOUS
  <2> QED BY <2>1, OfTwo
<1> QED BY <1>1, <1>3, <1>4 DEF Within

LEMMA NearTypes == \A a \in Int, b \in Int : Min({a, b}) \in Int
BY OfTwo

LEMMA CuboidTypes ==
  ASSUME NEW p, PackTyped(p), NEW e, e[1] \in Int, e[2] \in Int, e[3] \in Int, NEW w \in Nat
  PROVE  ThreeNat(Cuboid(p, e, w))
<1> DEFINE box(l, b, h) == <<Within(l, p.packed.length), Within(b, p.packed.width), Within(h, p.packed.height)>>
           near(i, pad, room) == Min({e[i] + pad, p.typical[i] + room})
<1>1. ASSUME NEW l \in Int, NEW b \in Int, NEW h \in Int PROVE ThreeNat(box(l, b, h))
  <2>1. /\ Within(l, p.packed.length) \in Nat /\ Within(b, p.packed.width) \in Nat
        /\ Within(h, p.packed.height) \in Nat
    BY WithinTypes DEF PackTyped
  <2> QED BY <2>1 DEF ThreeNat
<1>2. ThreeNat(p.typical) /\ p.typical[1] \in Nat /\ p.typical[2] \in Nat /\ p.typical[3] \in Nat
  BY DEF PackTyped, ThreeNat
<1>3. /\ near(1, 0, 4) \in Int /\ near(2, 0, 4) \in Int /\ near(3, 2, 2) \in Int
      /\ near(1, 2, 8) \in Int /\ near(2, 2, 6) \in Int /\ near(3, 2, 4) \in Int
  <2>1. ASSUME NEW i \in 1..3, NEW pad \in Nat, NEW room \in Nat PROVE near(i, pad, room) \in Int
    <3>1. e[i] + pad \in Int /\ p.typical[i] + room \in Int
      BY <1>2
    <3> QED BY <3>1, NearTypes
  <2> HIDE DEF near
  <2> QED BY <2>1
<1>4. Min({e[1] + 2, p.typical[3] + 4}) \in Int /\ Min({e[1], 90}) \in Int
  <2>1. e[1] + 2 \in Int /\ p.typical[3] + 4 \in Int /\ 90 \in Int
    BY <1>2
  <2> HIDE DEF box, near
  <2>2. Min({e[1] + 2, p.typical[3] + 4}) \in Int
    BY <2>1, NearTypes
  <2>3. Min({e[1], 90}) \in Int
    BY <2>1, NearTypes
  <2> QED BY <2>2, <2>3
<1>5. /\ Ceil(e[1], 6) \in Int /\ Ceil(e[2], 4) \in Int /\ Ceil(3000 + 6 * w, 1000) \in Int
      /\ Ceil(10000 + 5 * w, 1000) \in Int /\ Ceil(55 * e[1], 100) \in Int
      /\ Ceil(e[2], 2) \in Int /\ Ceil(8000 + w, 1000) \in Int
  BY DEF Ceil
<1>6. Ceil(35 * Min({e[1], 90}), 100) \in Int
  <2>1. \A x \in Int : Ceil(35 * x, 100) \in Int
    BY DEF Ceil
  <2> QED BY <1>4, <2>1
<1>7. Min({Ceil(55 * e[1], 100), 120}) \in Int
  BY <1>5, NearTypes
<1>8. \/ \E l, b, h \in Int : Cuboid(p, e, w) = box(l, b, h)
      \/ Cuboid(p, e, w) = p.typical
  <2> HIDE DEF box, near
  <2>1. Cuboid(p, e, w) =
          CASE p.method = "fold" -> box(Ceil(e[1], 6), Ceil(e[2], 4), Ceil(3000 + 6 * w, 1000))
            [] p.method = "roll" -> box(Ceil(35 * Min({e[1], 90}), 100), Ceil(10000 + 5 * w, 1000),
                                        Ceil(10000 + 5 * w, 1000))
            [] p.method = "shoe_box" -> p.typical
            [] p.method = "bottle_box" -> box(p.typical[1], p.typical[2], Min({e[1] + 2, p.typical[3] + 4}))
            [] p.method = "flat_pack" -> box(Min({Ceil(55 * e[1], 100), 120}), Ceil(e[2], 2), Ceil(8000 + w, 1000))
            [] p.method = "mailer" -> box(near(1, 0, 4), near(2, 0, 4), near(3, 2, 2))
            [] OTHER -> box(near(1, 2, 8), near(2, 2, 6), near(3, 2, 4))
    BY DEF Cuboid, box, near
  <2> QED BY <1>2, <1>3, <1>4, <1>5, <1>6, <1>7, <2>1
<1> HIDE DEF box
<1> QED BY <1>1, <1>2, <1>8

\* What an agent's answer comes to.
LEMMA RefinedTypes ==
  ASSUME NEW k \in Goods, NEW answer \in Answers
  PROVE  LET a == RefinePackedEstimate(Profiles[k], Parsed(answer))
         IN /\ a.edges[1] \in Nat /\ a.edges[2] \in Nat /\ a.edges[3] \in Nat /\ a.weight \in Nat
            /\ a.reason \in {<<>>} \cup Sizes3
<1> DEFINE b == Parsed(answer)
           a == RefinePackedEstimate(Profiles[k], b)
<1> HIDE DEF a
<1>1. answer.edges \in Sizes3 /\ answer.weight \in Nat /\ answer.reason \in {<<>>} \cup Sizes3
  BY PackageAssumptions
<1>2. b = [edges |-> b.edges, weight |-> b.weight, reason |-> answer.reason] /\ b.weight \in Nat
      /\ b.edges[1] \in Nat /\ b.edges[2] \in Nat /\ b.edges[3] \in Nat
  <2> DEFINE edges == [i \in 1..3 |-> IF answer.edges[i] <= MaxEdge THEN answer.edges[i] ELSE 0]
             grams == IF 10 <= answer.weight /\ answer.weight <= 40000 THEN answer.weight ELSE 0
  <2>1. b = [edges |-> edges, weight |-> grams, reason |-> answer.reason]
    BY DEF Parsed
  <2>2. grams \in Nat
    BY <1>1
  <2>3. edges[1] \in Nat /\ edges[2] \in Nat /\ edges[3] \in Nat
    BY <1>1 DEF Sizes3
  <2> HIDE DEF edges, grams, b
  <2> QED BY <2>1, <2>2, <2>3
<1> HIDE DEF b
<1>3. PICK w \in Nat : w = (IF b.weight = 0 THEN 400 ELSE b.weight)
  BY <1>2
<1>4. Sorted(b.edges)[1] \in Int /\ Sorted(b.edges)[2] \in Int /\ Sorted(b.edges)[3] \in Int
  <2>1. b.edges[1] \in Int /\ b.edges[2] \in Int /\ b.edges[3] \in Int
    BY <1>2
  <2> QED BY <2>1, SortedTypes
<1>5. PICK c : c = Cuboid(Profiles[k], Sorted(b.edges), w) /\ ThreeNat(c)
  BY <1>4, ProfileTypes, CuboidTypes
<1>6. a = b \/ a = [b EXCEPT !.edges = c]
  BY <1>3, <1>5 DEF RefinePackedEstimate, a
<1>7. /\ a.edges[1] \in Nat /\ a.edges[2] \in Nat /\ a.edges[3] \in Nat /\ a.weight \in Nat
      /\ a.reason \in {<<>>} \cup Sizes3
  BY <1>1, <1>2, <1>5, <1>6 DEF ThreeNat
<1> QED BY <1>7 DEF a, b

\* Specifications are of their types, on the product and in the estimate's hands.
PackageInv ==
  /\ specs \in SUBSET Specs /\ IsFiniteSet(specs)
  /\ text \in Texts /\ kind \in Goods
  /\ estimate.list \in SUBSET Specs /\ IsFiniteSet(estimate.list)

LEMMA PackageStep == PackageInv /\ [PackageNext]_packageVars => PackageInv'
<1> SUFFICES ASSUME PackageInv, [PackageNext]_packageVars PROVE PackageInv'
  OBVIOUS
<1> USE DEF PackageInv
<1>0. NoEstimate.list \in SUBSET Specs /\ IsFiniteSet(NoEstimate.list)
  BY FS_EmptySet DEF NoEstimate
<1>1. CASE Collect \/ EditText \/ EstimateDrops \/ UNCHANGED packageVars
  BY <1>0, <1>1, PackageAssumptions DEF Collect, EditText, EstimateDrops, packageVars
<1>2. ASSUME NEW force \in BOOLEAN, EstimateRead(force) PROVE PackageInv'
  <2>1. Strip(specs) \in SUBSET specs /\ IsFiniteSet(Strip(specs))
    <3>1. Strip(specs) \in SUBSET specs
      BY DEF Strip
    <3> QED BY <3>1, FS_Subset
  <2>2. estimate'.list = Strip(specs) \/ estimate'.list = specs
    BY <1>2 DEF EstimateRead
  <2> QED BY <1>2, <2>1, <2>2 DEF EstimateRead
<1>3. ASSUME NEW answer \in Answers, EstimateWrite(answer) PROVE PackageInv'
  <2>1. PICK a : a = RefinePackedEstimate(Profiles[kind], Parsed(answer))
    OBVIOUS
  <2>2. /\ a.edges[1] \in Nat /\ a.edges[2] \in Nat /\ a.edges[3] \in Nat /\ a.weight \in Nat
        /\ a.reason \in {<<>>} \cup Sizes3
    BY <2>1, RefinedTypes
  <2>3. specs' = MergeEstimate(estimate.list, a, estimate.gaps) /\ estimate' = NoEstimate /\ UNCHANGED <<text, kind>>
    BY <1>3, <2>1 DEF EstimateWrite
  <2>4. ASSUME NEW d \in Edges \cup {"weight"}, NEW v \in Nat PROVE AiSpec(d, v) \in Specs
    BY <2>4 DEF AiSpec, Specs
  <2> DEFINE sizes == IF "size" \in estimate.gaps THEN SizeSpecs(a.edges) ELSE {}
             weight == IF "weight" \in estimate.gaps THEN {AiSpec("weight", a.weight)} ELSE {}
  <2>5. SizeSpecs(a.edges) \in SUBSET Specs /\ IsFiniteSet(SizeSpecs(a.edges))
    <3>1. PICK l, b, h : /\ l = AiSpec("length", 10 * a.edges[1]) /\ b = AiSpec("width", 10 * a.edges[2])
                         /\ h = AiSpec("height", 10 * a.edges[3])
      OBVIOUS
    <3>2. l \in Specs /\ b \in Specs /\ h \in Specs
      BY <2>2, <2>4, <3>1 DEF Edges
    <3>3. IsFiniteSet({l} \cup {b})
      BY FS_Singleton, FS_AddElement
    <3>4. IsFiniteSet(({l} \cup {b}) \cup {h}) /\ {l, b, h} = ({l} \cup {b}) \cup {h}
      BY <3>3, FS_AddElement
    <3> QED BY <3>1, <3>2, <3>4 DEF SizeSpecs
  <2>6. sizes \in SUBSET Specs /\ IsFiniteSet(sizes)
    BY <2>5, FS_EmptySet
  <2>7. weight \in SUBSET Specs /\ IsFiniteSet(weight)
    <3>1. PICK row \in Specs : row = AiSpec("weight", a.weight)
      BY <2>2, <2>4
    <3>2. weight = {} \/ weight = {row}
      BY <3>1
    <3> HIDE DEF weight
    <3> QED BY <3>2, FS_EmptySet, FS_Singleton
  <2>8. Strip(estimate.list) \in SUBSET Specs /\ IsFiniteSet(Strip(estimate.list))
    <3>1. Strip(estimate.list) \in SUBSET estimate.list
      BY DEF Strip
    <3> QED BY <3>1, FS_Subset
  <2> DEFINE told == {ReasonSpec(a.reason)}
  <2>9. specs' = ((Strip(estimate.list) \cup told) \cup sizes) \cup weight
    BY <2>3 DEF MergeEstimate
  <2>11. told \in SUBSET Specs /\ IsFiniteSet(told)
    <3>1. ReasonSpec(a.reason) \in Specs
      BY <2>2 DEF ReasonSpec, Specs
    <3> QED BY <3>1, FS_Singleton
  <2> HIDE DEF sizes, weight, told
  <2>10. IsFiniteSet(specs') /\ specs' \in SUBSET Specs
    <3>1. IsFiniteSet((Strip(estimate.list) \cup told) \cup sizes)
      BY <2>6, <2>8, <2>11, FS_Union
    <3> QED BY <2>6, <2>7, <2>8, <2>9, <2>11, <3>1, FS_Union
  <2> QED BY <1>0, <2>3, <2>10
<1> QED BY <1>1, <1>2, <1>3 DEF PackageNext

\* A set grows by one element at most.
LEMMA OneMore ==
  ASSUME NEW S, IsFiniteSet(S), NEW n \in Nat, Cardinality(S) <= n, NEW x
  PROVE  IsFiniteSet(S \cup {x}) /\ Cardinality(S \cup {x}) <= n + 1
<1>1. Cardinality(S) \in Nat
  BY FS_CardinalityType
<1>2. /\ IsFiniteSet(S \cup {x})
      /\ Cardinality(S \cup {x}) = IF x \in S THEN Cardinality(S) ELSE Cardinality(S) + 1
  BY FS_AddElement
<1> QED BY <1>1, <1>2

\* Three edges, a weight and a reason are five specifications at most.
LEMMA FiveAtMost ==
  ASSUME NEW l, NEW b, NEW h, NEW w, NEW t, NEW S \in SUBSET ({l, b, h} \cup {w} \cup {t})
  PROVE  Cardinality(S) <= 5
<1>1. IsFiniteSet({l}) /\ Cardinality({l}) <= 1
  BY FS_Singleton
<1>2. IsFiniteSet({l} \cup {b}) /\ Cardinality({l} \cup {b}) <= 2
  BY <1>1, OneMore
<1>3. IsFiniteSet({l} \cup {b} \cup {h}) /\ Cardinality({l} \cup {b} \cup {h}) <= 3
  BY <1>2, OneMore
<1>4. IsFiniteSet({l} \cup {b} \cup {h} \cup {w}) /\ Cardinality({l} \cup {b} \cup {h} \cup {w}) <= 4
  BY <1>3, OneMore
<1>5. IsFiniteSet({l} \cup {b} \cup {h} \cup {w} \cup {t}) /\ Cardinality({l} \cup {b} \cup {h} \cup {w} \cup {t}) <= 5
  BY <1>4, OneMore
<1>6. S \subseteq {l} \cup {b} \cup {h} \cup {w} \cup {t}
  OBVIOUS
<1>7. /\ Cardinality(S) <= Cardinality({l} \cup {b} \cup {h} \cup {w} \cup {t}) /\ Cardinality(S) \in Nat
      /\ Cardinality({l} \cup {b} \cup {h} \cup {w} \cup {t}) \in Nat
  BY <1>5, <1>6, FS_Subset, FS_CardinalityType
<1> QED BY <1>5, <1>7

\* What estimates leave of a product's specifications, in the product and in the hands
\* of an estimate under way, is a page as it was collected, but for the rows that bear
\* an estimate's names.
Stripped == {Strip(P) : P \in Pages}
PackageKept ==
  /\ Strip(specs) \in Stripped /\ (specs \in Pages \/ Cardinality(Ours(specs)) <= 5)
  /\ estimate # NoEstimate => Strip(estimate.list) \in Stripped
  /\ estimate.gaps \subseteq {"size", "weight"}

LEMMA StripTwice == ASSUME NEW R PROVE Strip(Strip(R)) = Strip(R)
BY DEF Strip

LEMMA KeptStep == ASSUME PackageKept, [PackageNext]_packageVars PROVE PackageKept'
<1>0. NoEstimate.gaps = {}
  BY DEF NoEstimate
<1>1. CASE Collect
  BY <1>1 DEF Collect, PackageKept, Stripped
<1>2. CASE EditText \/ UNCHANGED packageVars
  BY <1>2 DEF EditText, packageVars, PackageKept
<1>3. CASE EstimateDrops
  BY <1>0, <1>3 DEF EstimateDrops, PackageKept
<1>4. ASSUME NEW force \in BOOLEAN, EstimateRead(force) PROVE PackageKept'
  <2>1. PICK list : /\ list = (IF force THEN Strip(specs) ELSE specs)
                    /\ estimate' = [list |-> list, gaps |-> Gaps(list, text)] /\ specs' = specs
    BY <1>4 DEF EstimateRead
  <2>2. Strip(list) = Strip(specs)
    BY <2>1, StripTwice
  <2>3. Gaps(list, text) \subseteq {"size", "weight"}
    BY DEF Gaps
  <2> QED BY <2>1, <2>2, <2>3 DEF PackageKept
<1>5. ASSUME NEW answer \in Answers, EstimateWrite(answer) PROVE PackageKept'
  <2>1. PICK a : specs' = MergeEstimate(estimate.list, a, estimate.gaps)
    BY <1>5 DEF EstimateWrite
  <2>2. estimate # NoEstimate /\ estimate' = NoEstimate
    BY <1>5 DEF EstimateWrite
  <2>3. PICK l, b, h, w, t :
          /\ l = AiSpec("length", 10 * a.edges[1]) /\ b = AiSpec("width", 10 * a.edges[2])
          /\ h = AiSpec("height", 10 * a.edges[3]) /\ w = AiSpec("weight", a.weight)
          /\ t = ReasonSpec(a.reason)
    OBVIOUS
  <2>4. l.ai /\ b.ai /\ h.ai /\ w.ai /\ t.ai
    BY <2>3 DEF AiSpec, ReasonSpec
  <2>5. /\ Strip(estimate.list) \subseteq specs'
        /\ specs' \subseteq Strip(estimate.list) \cup ({l, b, h} \cup {w} \cup {t})
    BY <2>1, <2>3 DEF MergeEstimate, SizeSpecs
  <2>6. Strip(specs') = Strip(estimate.list) /\ Ours(specs') \subseteq {l, b, h} \cup {w} \cup {t}
    BY <2>4, <2>5 DEF Strip, Ours
  <2>7. Cardinality(Ours(specs')) <= 5
    BY <2>6, FiveAtMost
  <2> QED BY <1>0, <2>2, <2>6, <2>7 DEF PackageKept
<1> QED BY <1>1, <1>2, <1>3, <1>4, <1>5 DEF PackageNext

LEMMA PackageStart == PackageInit => PackageInv /\ PackageKept
<1>1. PackageInit => PackageInv
  BY PackageAssumptions, FS_EmptySet DEF PackageInit, PackageInv, NoEstimate
<1>2. PackageInit => PackageKept
  BY DEF PackageInit, PackageKept, NoEstimate, Stripped
<1> QED BY <1>1, <1>2

\* But for rows that bear an estimate's names, a product has the specifications of one
\* collection; of rows with such names a page's own or at most one estimate's and its
\* reason; and an estimate under way will leave it so (estimateProductRecord).
THEOREM PackageTypesCorrect == PackageSpec => []PackageTypeOK
<1>1. PackageInv /\ PackageKept => PackageTypeOK
  BY DEF PackageInv, PackageKept, Stripped, PackageTypeOK
<1> QED BY <1>1, PackageStart, PackageStep, KeptStep, PTL DEF PackageSpec

\* Whatever is collected, edited and estimated in between, a parcel is declared no smaller
\* than what counts of specifications and texts, no lighter than any gross weight, and
\* heavier by the packing than any net one; a weight that says neither is covered unless
\* there is a net and no gross one (package-dims.ts 32-37, 221-223, 289-345).
THEOREM ShippedEnough == PackageSpec => []ShipsEnough
<1>1. PackageInv => ShipsEnough
  <2> SUFFICES ASSUME PackageInv PROVE ShipsEnough
    OBVIOUS
  <2>1. text \in TextRows
    BY PackageAssumptions DEF PackageInv, TextRows
  <2> QED BY <2>1, SizeCovers, WeightCovers DEF PackageInv, ShipsEnough
<1> QED BY <1>1, PackageStart, PackageStep, PTL DEF PackageSpec

-----------------------------------------------------------------------------
(* HarvestStock, for any pages, panels, back offices and tasks.            *)

\* What is known of a product: its counts and whose warehouse it is in.
Offers == [stock : Nat, fbo : Amounts, fbs : Amounts, warehouse : Warehouses \cup {""}]
Readings == [stock : Nat, warehouse : Warehouses \cup {""}, delivery : Warehouses \cup {""}]
NamedKinds == SUBSET (SUBSET {"FBO", "FBS"})
StockStages == {"harvest", "extract", "merge", "insight", "ingest"} \cup Verdict

StockTypes ==
  /\ pageData \in PageGoods /\ delivery \in {"", "FBO", "FBS"} /\ side \in Panels
  /\ office \in Insights \cup {NoInsight} /\ filter \in TaskFilters
  /\ reading \in Readings /\ offered \in Offers /\ named \in NamedKinds /\ most \in Nat
  /\ stockStage \in StockStages

\* From the extraction on the product's warehouse is one that a source named, and it
\* has none only while nobody named one but the harvest, whose turn is to come.
WarehouseHeard ==
  /\ stockStage = "extract" => named = {KindsOf(reading.warehouse)} \ {{}}
  /\ stockStage \notin {"harvest", "extract"} =>
       /\ offered.warehouse # "" => KindsOf(offered.warehouse) \in named
       /\ offered.warehouse = "" => offered.fbo <= 0 /\ offered.fbs <= 0
  /\ stockStage = "merge" =>
       /\ reading.warehouse # "" => KindsOf(reading.warehouse) \in named
       /\ offered.warehouse = "" /\ reading.warehouse = "" => named = {}
  /\ stockStage \notin {"harvest", "extract", "merge"} => (offered.warehouse = "" => named = {})

\* Its count is no smaller than what was seen, until the back office gives its own, or a null.
StockHeard ==
  /\ stockStage = "extract" => reading.stock >= most
  /\ stockStage = "merge" => offered.stock >= most \/ reading.stock >= most
  /\ stockStage = "insight" => offered.stock >= most
  /\ stockStage \in {"ingest"} \cup Verdict =>
       /\ office.stock = NoNumber => offered.stock >= most
       /\ office.stock >= 0 => offered.stock = office.stock
       /\ office.stock = NullCount => offered.stock = 0

StockInv == StockTypes /\ WarehouseHeard /\ StockHeard /\ SourcesHeard

LEMMA KindFacts ==
  /\ \A w \in Warehouses : KindsOf(w) # {} /\ KindsOf(w) \in SUBSET {"FBO", "FBS"}
  /\ KindsOf("") = {}
  /\ \A f \in {"FBO", "FBS"}, w \in Warehouses : f \in KindsOf(w) <=> w \in {f, "MIXED"}
BY DEF KindsOf, Warehouses

LEMMA KindOfFacts ==
  ASSUME NEW fbo \in BOOLEAN, NEW fbs \in BOOLEAN
  PROVE  /\ KindOf(fbo, fbs) \in Warehouses \cup {""}
         /\ KindOf(fbo, fbs) = "" <=> ~fbo /\ ~fbs
BY DEF KindOf, Warehouses

LEMMA NamedFirst ==
  ASSUME NEW own \in Warehouses \cup {""}, NEW other \in Warehouses \cup {""}
  PROVE  /\ FirstNamed(own, other) \in Warehouses \cup {""}
         /\ FirstNamed(own, other) = "" <=> own = "" /\ other = ""
         /\ FirstNamed(own, other) \in {own, other}
BY DEF FirstNamed

LEMMA Merged ==
  ASSUME NEW own \in Nat, NEW other \in Nat
  PROVE  MergedStock(own, other) \in Nat /\ MergedStock(own, other) >= own /\ MergedStock(own, other) >= other
BY DEF MergedStock, LargerStock

LEMMA NoLess ==
  ASSUME NEW a \in Nat, NEW b \in Nat, NEW c \in Nat, NEW m \in Nat,
         a >= c \/ b >= c, m >= a, m >= b
  PROVE  m >= c
OBVIOUS

\* The greatest of a finite set of counts.
LEMMA MostCount ==
  ASSUME NEW S \in SUBSET Nat, IsFiniteSet(S)
  PROVE  Most(S) \in Nat
<1>1. IsFiniteSet(S \cup {0}) /\ S \cup {0} \in SUBSET Int /\ S \cup {0} # {}
  BY FS_AddElement
<1>2. Max(S \cup {0}) \in S \cup {0}
  BY <1>1, GreatestOf
<1>3. PICK m \in S \cup {0} : m = Max(S \cup {0})
  BY <1>2
<1> QED BY <1>3 DEF Most

\* What the page's objects say.
LEMMA PageFacts ==
  ASSUME NEW page \in PageGoods
  PROVE  LET p == CollectAvailability(page)
         IN p \in Offers /\ (p.warehouse = "" => p.fbo <= 0 /\ p.fbs <= 0)
<1> DEFINE objects == page.objects
           all == {o.generic : o \in objects} \cup OfKind(objects, "FBO") \cup OfKind(objects, "FBS")
           price == IF page.priced THEN 1 ELSE 0
           stock == Max(all \cup {price})
           fbo == Saw(objects, "FBO")
           fbs == Saw(objects, "FBS")
           fboMost == IF fbo THEN Most(OfKind(objects, "FBO")) ELSE NoNumber
           fbsMost == IF fbs THEN Most(OfKind(objects, "FBS")) ELSE NoNumber
<1>1. objects \in SUBSET Things /\ IsFiniteSet(objects)
  BY StockAssumptions
<1>2. {o.generic : o \in objects} \in SUBSET Amounts /\ IsFiniteSet({o.generic : o \in objects})
  <2> HIDE DEF objects
  <2>1. [o \in objects |-> o.generic] \in Surjection(objects, {o.generic : o \in objects})
    BY DEF Surjection
  <2> QED BY <1>1, <2>1, FS_Surjection DEF Things
<1>3. ASSUME NEW w \in {"FBO", "FBS"}
      PROVE  OfKind(objects, w) \in SUBSET Nat /\ IsFiniteSet(OfKind(objects, w))
  <2> HIDE DEF objects
  <2> DEFINE V == {IF w = "FBO" THEN o.fbo ELSE o.fbs : o \in objects}
             W == {q \in objects : q.flags = {w} /\ q.generic # NoNumber}
             G == {o.generic : o \in W}
  <2>1. V \in SUBSET Amounts /\ G \in SUBSET Nat
    BY <1>1 DEF Things, Amounts
  <2>2. IsFiniteSet(V)
    <3>1. [o \in objects |-> IF w = "FBO" THEN o.fbo ELSE o.fbs] \in Surjection(objects, V)
      BY DEF Surjection
    <3> QED BY <1>1, <3>1, FS_Surjection
  <2>3. IsFiniteSet(G)
    <3>1. IsFiniteSet(W)
      BY <1>1, FS_Subset
    <3>2. [o \in W |-> o.generic] \in Surjection(W, G)
      <4> HIDE DEF W
      <4> QED BY DEF Surjection
    <3> QED BY <3>1, <3>2, FS_Surjection
  <2>4. OfKind(objects, w) = (V \ {NoNumber}) \cup G
    BY DEF OfKind
  <2> HIDE DEF V, W, G
  <2>5. IsFiniteSet(V \ {NoNumber}) /\ V \ {NoNumber} \in SUBSET Nat
    BY <2>1, <2>2, FS_Subset DEF Amounts
  <2> QED BY <2>1, <2>3, <2>4, <2>5, FS_Union
<1>4. /\ OfKind(objects, "FBO") \in SUBSET Nat /\ IsFiniteSet(OfKind(objects, "FBO"))
      /\ OfKind(objects, "FBS") \in SUBSET Nat /\ IsFiniteSet(OfKind(objects, "FBS"))
  BY <1>3
<1>5. fbo \in BOOLEAN /\ fbs \in BOOLEAN
  BY DEF Saw
<1>6. fboMost \in Amounts /\ fboMost \in Int /\ fbsMost \in Int /\ fbsMost \in Amounts
      /\ (~fbo => fboMost <= 0) /\ (~fbs => fbsMost <= 0)
  <2>1. Most(OfKind(objects, "FBO")) \in Nat /\ Most(OfKind(objects, "FBS")) \in Nat
    BY <1>4, MostCount
  <2> HIDE DEF fbo, fbs, objects
  <2> QED BY <2>1 DEF Amounts, NoNumber
<1>7. stock \in Nat
  <2>1. price \in Nat
    OBVIOUS
  <2> HIDE DEF objects
  <2>2. IsFiniteSet({o.generic : o \in objects} \cup OfKind(objects, "FBO"))
    BY <1>2, <1>4, FS_Union
  <2>3. IsFiniteSet(all)
    BY <1>4, <2>2, FS_Union
  <2>4. all \in SUBSET Int
    BY <1>2, <1>4 DEF Amounts, NoNumber
  <2> HIDE DEF all, price
  <2>5. IsFiniteSet(all \cup {price}) /\ all \cup {price} \in SUBSET Int /\ all \cup {price} # {}
    BY <2>1, <2>3, <2>4, FS_AddElement
  <2>6. Max(all \cup {price}) \in all \cup {price} /\ \A x \in all \cup {price} : x <= Max(all \cup {price})
    BY <2>5, GreatestOf
  <2>7. PICK m \in Int : m = Max(all \cup {price}) /\ price <= m
    BY <2>5, <2>6
  <2> QED BY <2>1, <2>7
<1>8. CollectAvailability(page) = [stock |-> stock, fbo |-> fboMost, fbs |-> fbsMost, warehouse |-> KindOf(fbo, fbs)]
  BY DEF CollectAvailability
<1> HIDE DEF stock, fboMost, fbsMost, fbo, fbs
<1>9. KindOf(fbo, fbs) \in Warehouses \cup {""} /\ (KindOf(fbo, fbs) = "" => ~fbo /\ ~fbs)
  BY <1>5, KindOfFacts
<1>10. PICK w \in Warehouses \cup {""} : w = KindOf(fbo, fbs)
  BY <1>9
<1>11. PICK x \in Amounts, y \in Amounts : x = fboMost /\ y = fbsMost
  BY <1>6
<1>12. PICK n \in Nat : n = stock
  BY <1>7
<1>13. PICK p : p = [stock |-> n, fbo |-> x, fbs |-> y, warehouse |-> w]
  OBVIOUS
<1>14. p = CollectAvailability(page)
  BY <1>8, <1>10, <1>11, <1>12, <1>13
<1>15. p \in Offers /\ p.warehouse = w /\ p.fbo = x /\ p.fbs = y
  BY <1>13 DEF Offers
<1>16. w = "" => x <= 0 /\ y <= 0
  BY <1>6, <1>9, <1>10, <1>11
<1>17. p.warehouse = "" => p.fbo <= 0 /\ p.fbs <= 0
  BY <1>15, <1>16
<1> QED BY <1>14, <1>15, <1>17


LEMMA InsightTypes ==
  ASSUME NEW own \in Amounts, NEW raw \in Amounts \cup {NullCount}
  PROVE  /\ SellerCount(raw) \in Amounts /\ Replaced(own, raw) \in Amounts
         /\ own \in Nat => Replaced(own, raw) \in Nat
         /\ raw = NoNumber => Replaced(own, raw) = own
         /\ raw >= 0 => Replaced(own, raw) = raw
         /\ raw = NullCount => Replaced(own, raw) = 0
         /\ own <= 0 /\ ~(SellerCount(raw) > 0) => Replaced(own, raw) <= 0
BY DEF SellerCount, Replaced, Amounts, NoNumber, NullCount

\* The steps of a product's page, each with what it has heard.
LEMMA StockStep == StockInv /\ [StockPageNext]_stockVars => StockInv'
<1> SUFFICES ASSUME StockInv, [StockPageNext]_stockVars PROVE StockInv'
  OBVIOUS
<1>0. StockTypes /\ WarehouseHeard /\ StockHeard /\ SourcesHeard
  BY DEF StockInv
<1>s. side.stock \in Nat /\ side.warehouse \in Warehouses \cup {""}
  BY <1>0, StockAssumptions DEF StockTypes
<1>r. reading.stock \in Nat /\ reading.warehouse \in Warehouses \cup {""} /\ reading.delivery \in Warehouses \cup {""}
  BY <1>0 DEF StockTypes, Readings
<1>k. \A w \in Warehouses \cup {""} : KindsOf(w) \in SUBSET {"FBO", "FBS"} /\ (KindsOf(w) = {} <=> w = "")
  BY KindFacts DEF Warehouses
<1>v. Verdict \cap {"harvest", "extract", "merge", "insight", "ingest"} = {}
  BY DEF Verdict
<1>1. CASE PanelDrawn \/ UNCHANGED stockVars
  <2>1. UNCHANGED <<pageData, delivery, side, office, filter, reading, offered, named, most, stockStage>>
    BY <1>1 DEF PanelDrawn, stockVars
  <2>2. StockTypes'
    BY <1>0, <2>1 DEF StockTypes
  <2>3. WarehouseHeard'
    BY <1>0, <2>1 DEF WarehouseHeard
  <2>4. StockHeard'
    BY <1>0, <2>1 DEF StockHeard
  <2>5. SourcesHeard'
    BY <1>0, <2>1 DEF SourcesHeard
  <2> QED BY <2>2, <2>3, <2>4, <2>5 DEF StockInv
<1>2. ASSUME NEW worked \in BOOLEAN, HarvestDelivery(worked) PROVE StockInv'
  <2>1. PICK seen \in BOOLEAN : seen = (worked /\ drawn)
    <3>1. (worked /\ drawn) \in BOOLEAN
      OBVIOUS
    <3> WITNESS (worked /\ drawn) \in BOOLEAN
    <3> QED OBVIOUS
  <2>2. /\ stockStage' = "extract" /\ UNCHANGED <<pageData, delivery, side, drawn, office, filter, offered>>
        /\ reading' = [stock |-> IF seen THEN side.stock ELSE 0, warehouse |-> IF seen THEN side.warehouse ELSE "",
                       delivery |-> IF worked THEN FirstNamed(delivery, IF seen THEN side.warehouse ELSE "") ELSE ""]
        /\ named' = (IF seen THEN {KindsOf(side.warehouse)} \ {{}} ELSE {})
        /\ most' = (IF seen THEN side.stock ELSE 0)
    BY <1>2, <2>1 DEF HarvestDelivery
  <2>3. reading' \in Readings /\ reading'.stock = most' /\ most' \in Nat
        /\ reading'.warehouse = (IF seen THEN side.warehouse ELSE "")
    <3>1. delivery \in Warehouses \cup {""} /\ (IF seen THEN side.warehouse ELSE "") \in Warehouses \cup {""}
      BY <1>0, <1>s DEF StockTypes, Warehouses
    <3>2. FirstNamed(delivery, IF seen THEN side.warehouse ELSE "") \in Warehouses \cup {""}
      BY <3>1, NamedFirst
    <3> QED BY <1>s, <2>2, <3>1, <3>2 DEF Readings
  <2>4. named' = {KindsOf(reading'.warehouse)} \ {{}} /\ named' \in NamedKinds
    <3>1. CASE seen
      <4>1. PICK K \in SUBSET {"FBO", "FBS"} : K = KindsOf(side.warehouse)
        BY <1>k, <1>s
      <4>2. named' = {K} \ {{}} /\ reading'.warehouse = side.warehouse
        BY <2>2, <2>3, <3>1, <4>1
      <4> QED BY <4>1, <4>2 DEF NamedKinds
    <3>2. CASE ~seen
      <4>1. named' = {} /\ reading'.warehouse = ""
        BY <2>2, <2>3, <3>2
      <4> QED BY <4>1, KindFacts DEF NamedKinds
    <3> QED BY <3>1, <3>2
  <2>5. "extract" \notin Verdict
    BY DEF Verdict
  <2>6. StockTypes'
    BY <1>0, <2>2, <2>3, <2>4 DEF StockTypes, StockStages
  <2>7. WarehouseHeard'
    BY <2>2, <2>4 DEF WarehouseHeard
  <2>8. reading'.stock >= most'
    <3>1. PICK n \in Nat : n = reading'.stock /\ n = most'
      BY <2>3
    <3> QED BY <3>1
  <2>9. StockHeard'
    BY <2>2, <2>5, <2>8 DEF StockHeard
  <2>10. SourcesHeard'
    BY <2>2, <2>5 DEF SourcesHeard, Verdict
  <2> QED BY <2>6, <2>7, <2>9, <2>10 DEF StockInv
<1>3. CASE ExtractStock
  <2> DEFINE page == CollectAvailability(pageData)
             shown == IF drawn THEN side ELSE [stock |-> 0, warehouse |-> ""]
  <2>1. page \in Offers /\ (page.warehouse = "" => page.fbo <= 0 /\ page.fbs <= 0)
    BY <1>0, PageFacts DEF StockTypes
  <2>2. shown.stock \in Nat /\ shown.warehouse \in Warehouses \cup {""}
    BY <1>s
  <2>3. /\ stockStage = "extract" /\ stockStage' = "merge"
        /\ UNCHANGED <<pageData, delivery, side, office, filter, reading>>
        /\ offered' = ApplyOverlay(page)
        /\ named' = named \cup ({KindsOf(page.warehouse), KindsOf(shown.warehouse)} \ {{}})
        /\ most' = Max({most, page.stock, shown.stock})
    BY <1>3 DEF ExtractStock
  <2>4. /\ offered' \in Offers
        /\ offered'.stock >= page.stock /\ offered'.stock >= shown.stock
        /\ offered'.warehouse = FirstNamed(page.warehouse, shown.warehouse)
        /\ offered'.fbo = page.fbo /\ offered'.fbs = page.fbs
    <3> HIDE DEF page
    <3>1. CASE drawn
      <4>1. shown = side
        BY <3>1
      <4>2. offered' = [page EXCEPT !.stock = MergedStock(page.stock, side.stock),
                                    !.warehouse = FirstNamed(page.warehouse, side.warehouse)]
        BY <2>3, <3>1 DEF ApplyOverlay
      <4>3. page.stock \in Nat /\ page.warehouse \in Warehouses \cup {""}
        BY <2>1 DEF Offers
      <4>4. PICK m \in Nat : m = MergedStock(page.stock, side.stock) /\ m >= page.stock /\ m >= side.stock
        BY <1>s, <4>3, Merged
      <4>5. PICK w \in Warehouses \cup {""} : w = FirstNamed(page.warehouse, side.warehouse)
        BY <1>s, <4>3, NamedFirst
      <4>6. PICK p \in Offers : p = page
        BY <2>1
      <4>7. offered' = [stock |-> m, fbo |-> p.fbo, fbs |-> p.fbs, warehouse |-> w]
        BY <4>2, <4>4, <4>5, <4>6 DEF Offers
      <4>8. offered' \in Offers
        BY <4>6, <4>7 DEF Offers
      <4>9. offered'.stock = m /\ m >= page.stock /\ m >= shown.stock
        BY <4>1, <4>4, <4>7
      <4>10. offered'.warehouse = FirstNamed(page.warehouse, shown.warehouse)
        BY <4>1, <4>5, <4>7
      <4>11. offered'.fbo = page.fbo /\ offered'.fbs = page.fbs
        BY <4>6, <4>7
      <4> QED BY <4>8, <4>9, <4>10, <4>11
    <3>2. CASE ~drawn
      <4>1. shown.stock = 0 /\ shown.warehouse = "" /\ offered' = page
        BY <2>3, <3>2 DEF ApplyOverlay
      <4>2. PICK b \in Nat : b = page.stock
        BY <2>1 DEF Offers
      <4>3. b >= 0 /\ b >= b
        BY <4>2
      <4> HIDE DEF shown
      <4>4. page.stock >= 0 /\ page.stock >= page.stock
        BY <4>2, <4>3
      <4>5. FirstNamed(page.warehouse, "") = page.warehouse
        BY DEF FirstNamed
      <4> QED BY <2>1, <4>1, <4>4, <4>5
    <3> QED BY <3>1, <3>2
  <2> HIDE DEF page, shown
  <2>5. page.stock \in Nat /\ page.warehouse \in Warehouses \cup {""}
    BY <2>1 DEF Offers
  <2>6. named = {KindsOf(reading.warehouse)} \ {{}} /\ reading.stock >= most /\ most \in Nat /\ named \in NamedKinds
    BY <1>0, <2>3 DEF WarehouseHeard, StockHeard, StockTypes
  <2>7. most' \in Nat /\ (offered'.stock >= most' \/ reading'.stock >= most')
    <3>1. most' \in {most, page.stock, shown.stock}
      <4>1. PICK a \in Nat : a = most
        BY <2>6
      <4>2. PICK b \in Nat : b = page.stock
        BY <2>5
      <4>3. PICK c \in Nat : c = shown.stock
        BY <2>2
      <4>4. Max({a, b, c}) \in {a, b, c}
        <5>1. a \in Int /\ b \in Int /\ c \in Int
          BY <4>1, <4>2, <4>3
        <5> QED BY <5>1, OfThree
      <4> QED BY <2>3, <4>1, <4>2, <4>3, <4>4
    <3> QED BY <2>2, <2>3, <2>4, <2>5, <2>6, <3>1
  <2>8. named' \in NamedKinds
    <3>1. KindsOf(page.warehouse) \in SUBSET {"FBO", "FBS"} /\ KindsOf(shown.warehouse) \in SUBSET {"FBO", "FBS"}
      BY <1>k, <2>2, <2>5
    <3> QED BY <2>3, <2>6, <3>1 DEF NamedKinds
  <2>9. WarehouseHeard'
    <3>1. offered'.warehouse # "" => KindsOf(offered'.warehouse) \in named'
      <4>1. offered'.warehouse \in {page.warehouse, shown.warehouse}
        BY <2>2, <2>4, <2>5, NamedFirst
      <4> QED BY <1>k, <2>2, <2>3, <2>5, <4>1
    <3>2. offered'.warehouse = "" => page.warehouse = "" /\ shown.warehouse = ""
      BY <2>2, <2>4, <2>5, NamedFirst
    <3>3. offered'.warehouse = "" => offered'.fbo <= 0 /\ offered'.fbs <= 0
      BY <2>1, <2>4, <3>2
    <3>4. reading'.warehouse # "" => KindsOf(reading'.warehouse) \in named'
      BY <1>k, <1>r, <2>3, <2>6
    <3>5. offered'.warehouse = "" /\ reading'.warehouse = "" => named' = {}
      BY <1>k, <2>3, <2>6, <3>2, KindFacts
    <3> QED BY <2>3, <3>1, <3>3, <3>4, <3>5 DEF WarehouseHeard
  <2> QED BY <1>0, <1>v, <2>3, <2>4, <2>7, <2>8, <2>9 DEF StockInv, StockTypes, StockStages, StockHeard, SourcesHeard
<1>4. CASE MergeReading
  <2>1. PICK said \in Warehouses \cup {""} : said = (IF reading.delivery = "MIXED" THEN "" ELSE reading.delivery)
    BY <1>r
  <2>2. /\ stockStage = "merge" /\ stockStage' = "insight"
        /\ UNCHANGED <<pageData, delivery, side, office, filter, reading, most>>
        /\ offered' = [offered EXCEPT
             !.stock = MergedStock(offered.stock, reading.stock),
             !.warehouse = FirstNamed(FirstNamed(offered.warehouse, reading.warehouse), said)]
        /\ named' = named \cup ({KindsOf(said)} \ {{}})
    BY <1>4, <2>1 DEF MergeReading
  <2>3. offered \in Offers /\ offered.stock \in Nat /\ offered.warehouse \in Warehouses \cup {""} /\ named \in NamedKinds
    BY <1>0 DEF StockTypes, Offers
  <2>4. PICK m \in Nat : m = MergedStock(offered.stock, reading.stock) /\ m >= offered.stock /\ m >= reading.stock
    BY <1>r, <2>3, Merged
  <2>5. PICK w \in Warehouses \cup {""} :
               /\ w = FirstNamed(offered.warehouse, reading.warehouse)
               /\ w = "" <=> offered.warehouse = "" /\ reading.warehouse = ""
               /\ w \in {offered.warehouse, reading.warehouse}
    BY <1>r, <2>3, NamedFirst
  <2>6. PICK v \in Warehouses \cup {""} :
               v = FirstNamed(w, said) /\ (v = "" <=> w = "" /\ said = "") /\ v \in {w, said}
    BY NamedFirst
  <2>7. /\ offered' \in Offers /\ offered'.stock = m /\ offered'.warehouse = v
        /\ offered'.fbo = offered.fbo /\ offered'.fbs = offered.fbs
    BY <2>2, <2>3, <2>4, <2>5, <2>6 DEF Offers
  <2>8. named' \in NamedKinds
    <3>1. PICK K \in SUBSET {"FBO", "FBS"} : K = KindsOf(said)
      BY <1>k, <2>1
    <3>2. named' = named \cup ({K} \ {{}})
      BY <2>2, <3>1
    <3> QED BY <2>3, <3>1, <3>2 DEF NamedKinds
  <2>9. StockHeard'
    <3>1. offered.stock >= most \/ reading.stock >= most
      BY <1>0, <2>2 DEF StockHeard
    <3>2. most \in Nat
      BY <1>0 DEF StockTypes
    <3>3. m >= most
      <4>1. offered.stock \in Nat /\ reading.stock \in Nat
        BY <1>r, <2>3
      <4>2. m \in Nat /\ m >= offered.stock /\ m >= reading.stock
        BY <2>4
      <4> QED BY <3>1, <3>2, <4>1, <4>2, NoLess
    <3>4. "insight" \notin Verdict
      BY DEF Verdict
    <3> QED BY <2>2, <2>7, <3>3, <3>4 DEF StockHeard
  <2>10. WarehouseHeard'
    <3>1. v # "" => KindsOf(v) \in named'
      <4>1. offered.warehouse # "" => KindsOf(offered.warehouse) \in named
        BY <1>0, <2>2 DEF WarehouseHeard
      <4>2. reading.warehouse # "" => KindsOf(reading.warehouse) \in named
        BY <1>0, <2>2 DEF WarehouseHeard
      <4>3. said # "" => KindsOf(said) \in named'
        BY <1>k, <2>1, <2>2
      <4> QED BY <2>2, <2>5, <2>6, <4>1, <4>2, <4>3
    <3>2. v = "" => named' = {} /\ offered.fbo <= 0 /\ offered.fbs <= 0
      BY <1>0, <2>2, <2>5, <2>6, KindFacts DEF WarehouseHeard
    <3> QED BY <2>2, <2>7, <3>1, <3>2 DEF WarehouseHeard
  <2> QED BY <1>0, <1>v, <2>2, <2>7, <2>8, <2>9, <2>10 DEF StockInv, StockTypes, StockStages, SourcesHeard
<1>5. ASSUME NEW answered \in BOOLEAN, MergeInsight(answered) PROVE StockInv'
  <2>1. PICK i : i = QuerySellerInsights(answered)
    OBVIOUS
  <2>2. i \in Insights \cup {NoInsight} /\ i.stock \in Amounts \cup {NullCount} /\ i.fbo \in Amounts \cup {NullCount}
        /\ i.fbs \in Amounts \cup {NullCount} /\ i.fulfillment \in Warehouses \cup {""}
    <3>1. i \in Insights \cup {NoInsight}
      BY <1>0, <2>1 DEF QuerySellerInsights, StockTypes
    <3>2. CASE i = NoInsight
      BY <3>1, <3>2 DEF NoInsight, Amounts
    <3>3. CASE i \in Insights
      BY <3>1, <3>3, StockAssumptions
    <3> QED BY <3>1, <3>2, <3>3
  <2>3. PICK theirs \in Warehouses \cup {""} :
               /\ theirs = SellerWarehouseType(i)
               /\ theirs = "" => ~(SellerCount(i.fbo) > 0) /\ ~(SellerCount(i.fbs) > 0)
    <3>1. (SellerCount(i.fbo) > 0) \in BOOLEAN /\ (SellerCount(i.fbs) > 0) \in BOOLEAN
      OBVIOUS
    <3> QED BY <3>1, KindOfFacts DEF SellerWarehouseType
  <2>4. PICK w \in Warehouses \cup {""} :
               /\ w = FirstNamed(theirs, i.fulfillment)
               /\ w = "" <=> theirs = "" /\ i.fulfillment = ""
               /\ w \in {theirs, i.fulfillment}
    BY <2>2, NamedFirst
  <2>5. offered \in Offers /\ offered.stock \in Nat /\ offered.fbo \in Amounts /\ offered.fbs \in Amounts
        /\ offered.warehouse \in Warehouses \cup {""} /\ named \in NamedKinds /\ most \in Nat
    BY <1>0 DEF StockTypes, Offers
  <2>6. PICK v \in Warehouses \cup {""} :
               /\ v = FirstNamed(offered.warehouse, w)
               /\ v = "" <=> offered.warehouse = "" /\ w = ""
               /\ v \in {offered.warehouse, w}
    BY <2>5, NamedFirst
  <2>7. /\ stockStage = "insight" /\ stockStage' = "ingest" /\ office' = i
        /\ UNCHANGED <<pageData, delivery, side, filter, reading, most>>
        /\ offered' = [stock |-> Replaced(offered.stock, i.stock), fbo |-> Replaced(offered.fbo, i.fbo),
                       fbs |-> Replaced(offered.fbs, i.fbs), warehouse |-> v]
        /\ named' = named \cup ({KindsOf(theirs), KindsOf(i.fulfillment)} \ {{}})
    BY <1>5, <2>1, <2>3, <2>4, <2>6 DEF MergeInsight, MergeSellerInsight
  <2>8. offered.stock \in Amounts
    BY <2>5 DEF Amounts
  <2>9. PICK n \in Nat : /\ n = Replaced(offered.stock, i.stock)
                         /\ i.stock = NoNumber => n = offered.stock
                         /\ i.stock >= 0 => n = i.stock
                         /\ i.stock = NullCount => n = 0
    <3>1. PICK own \in Nat : own = offered.stock /\ own \in Amounts
      BY <2>5, <2>8
    <3>2. PICK raw \in Amounts \cup {NullCount} : raw = i.stock
      BY <2>2
    <3>3. /\ Replaced(own, raw) \in Nat
          /\ raw = NoNumber => Replaced(own, raw) = own
          /\ raw >= 0 => Replaced(own, raw) = raw
          /\ raw = NullCount => Replaced(own, raw) = 0
      BY <3>1, InsightTypes
    <3> QED BY <3>1, <3>2, <3>3
  <2>10. PICK x \in Amounts : /\ x = Replaced(offered.fbo, i.fbo)
                              /\ (offered.fbo <= 0 /\ ~(SellerCount(i.fbo) > 0)) => x <= 0
    BY <2>2, <2>5, InsightTypes
  <2>11. PICK y \in Amounts : /\ y = Replaced(offered.fbs, i.fbs)
                              /\ (offered.fbs <= 0 /\ ~(SellerCount(i.fbs) > 0)) => y <= 0
    BY <2>2, <2>5, InsightTypes
  <2>12. /\ offered' \in Offers /\ offered'.stock = n /\ offered'.warehouse = v
         /\ offered'.fbo = x /\ offered'.fbs = y
    <3>1. offered' = [stock |-> n, fbo |-> x, fbs |-> y, warehouse |-> v]
      BY <2>7, <2>9, <2>10, <2>11
    <3> QED BY <2>6, <2>9, <2>10, <2>11, <3>1 DEF Offers
  <2>13. named' \in NamedKinds
    <3>1. KindsOf(theirs) \in SUBSET {"FBO", "FBS"} /\ KindsOf(i.fulfillment) \in SUBSET {"FBO", "FBS"}
      BY <1>k, <2>2
    <3> QED BY <2>5, <2>7, <3>1 DEF NamedKinds
  <2>14. WarehouseHeard'
    <3>1. offered.warehouse # "" => KindsOf(offered.warehouse) \in named
      BY <1>0, <2>7 DEF WarehouseHeard
    <3>2. theirs # "" => KindsOf(theirs) \in named'
      BY <1>k, <2>7
    <3>3. i.fulfillment # "" => KindsOf(i.fulfillment) \in named'
      BY <1>k, <2>2, <2>7
    <3>4. v # "" => KindsOf(v) \in named'
      BY <2>4, <2>6, <2>7, <3>1, <3>2, <3>3
    <3>5. v = "" => named = {} /\ offered.fbo <= 0 /\ offered.fbs <= 0 /\ theirs = "" /\ i.fulfillment = ""
      BY <1>0, <2>4, <2>6, <2>7 DEF WarehouseHeard
    <3>6. v = "" => named' = {}
      BY <2>7, <3>5, KindFacts
    <3>7. v = "" => x <= 0 /\ y <= 0
      BY <2>3, <2>10, <2>11, <3>5
    <3> QED BY <2>7, <2>12, <3>4, <3>6, <3>7 DEF WarehouseHeard
  <2>15. StockHeard'
    <3>1. offered.stock >= most
      BY <1>0, <2>7 DEF StockHeard
    <3> QED BY <2>7, <2>9, <2>12, <3>1 DEF StockHeard
  <2> QED BY <1>0, <1>v, <2>2, <2>7, <2>12, <2>13, <2>14, <2>15 DEF StockInv, StockTypes, StockStages, SourcesHeard
<1>6. ASSUME NEW unfit \in BOOLEAN, JudgeStock(unfit) PROVE StockInv'
  <2>1. /\ stockStage = "ingest" /\ stockStage' = CollectFilterMismatch(offered, filter, unfit)
        /\ UNCHANGED <<pageData, delivery, side, drawn, office, filter, reading, offered, named, most>>
    BY <1>6 DEF JudgeStock
  <2>2. offered \in Offers /\ offered.warehouse \in Warehouses \cup {""} /\ offered.fbo \in Amounts
        /\ offered.fbs \in Amounts /\ filter.warehouse \in {"ALL", "FBO", "FBS"}
    BY <1>0, StockAssumptions DEF StockTypes, Offers
  <2>3. /\ offered.warehouse # "" => KindsOf(offered.warehouse) \in named
        /\ offered.warehouse = "" => offered.fbo <= 0 /\ offered.fbs <= 0 /\ named = {}
    BY <1>0, <2>1 DEF WarehouseHeard
  <2>4. ResolveWarehouseType(offered) = offered.warehouse
    <3>1. CASE offered.warehouse # ""
      BY <3>1 DEF ResolveWarehouseType, FirstNamed
    <3>2. CASE offered.warehouse = ""
      <4>0. Amounts \subseteq Int
        BY DEF Amounts, NoNumber
      <4>f. PICK x \in Int : x = offered.fbo
        BY <2>2, <4>0
      <4>s. PICK y \in Int : y = offered.fbs
        BY <2>2, <4>0
      <4>1. ~(offered.fbo > 0) /\ ~(offered.fbs > 0)
        <5>1. x <= 0 /\ y <= 0
          BY <2>3, <3>2, <4>f, <4>s
        <5>2. ~(x > 0) /\ ~(y > 0)
          BY <5>1
        <5> QED BY <4>f, <4>s, <5>2
      <4>2. KindOf(offered.fbo > 0, offered.fbs > 0) = ""
        BY <4>1 DEF KindOf
      <4> QED BY <3>2, <4>2 DEF ResolveWarehouseType, FirstNamed
    <3> QED BY <3>1, <3>2
  <2>5. stockStage' \in Verdict
    BY <2>1 DEF CollectFilterMismatch, Verdict
  <2>6. ASSUME stockStage' = "SUCCESS", filter.warehouse # "ALL" PROVE filter.warehouse \in UNION named
    <3>1. offered.warehouse \in {filter.warehouse, "MIXED"}
      BY <2>1, <2>4, <2>6 DEF CollectFilterMismatch
    <3>2. offered.warehouse \in Warehouses /\ filter.warehouse \in {"FBO", "FBS"}
      BY <2>2, <2>6, <3>1 DEF Warehouses
    <3>3. filter.warehouse \in KindsOf(offered.warehouse) /\ KindsOf(offered.warehouse) \in named
      BY <2>3, <3>1, <3>2, KindFacts DEF Warehouses
    <3> QED BY <3>3
  <2>7. ASSUME stockStage' = "other warehouse" PROVE named = {} \/ \E kinds \in named : filter.warehouse \notin kinds
    <3>1. filter.warehouse # "ALL" /\ offered.warehouse \notin {filter.warehouse, "MIXED"}
      BY <2>1, <2>4, <2>7 DEF CollectFilterMismatch
    <3>2. CASE offered.warehouse = ""
      BY <2>3, <3>2
    <3>3. CASE offered.warehouse # ""
      <4>1. offered.warehouse \in Warehouses /\ filter.warehouse \in {"FBO", "FBS"}
        BY <2>2, <3>1, <3>3
      <4>2. filter.warehouse \notin KindsOf(offered.warehouse)
        BY <3>1, <4>1, KindFacts
      <4> QED BY <2>3, <3>3, <4>2
    <3> QED BY <3>2, <3>3
  <2>8. SourcesHeard'
    <3>1. /\ office.stock = NoNumber => offered.stock >= most
          /\ office.stock >= 0 => offered.stock = office.stock
          /\ office.stock = NullCount => offered.stock = 0
      BY <1>0, <2>1 DEF StockHeard
    <3> QED BY <2>1, <2>6, <2>7, <3>1 DEF SourcesHeard
  <2>9. StockHeard' /\ WarehouseHeard'
    BY <1>0, <1>v, <2>1, <2>5 DEF StockHeard, WarehouseHeard
  <2> QED BY <1>0, <2>1, <2>5, <2>8, <2>9 DEF StockInv, StockTypes, StockStages
<1> QED BY <1>1, <1>2, <1>3, <1>4, <1>5, <1>6 DEF StockPageNext

LEMMA StockStarts == StockPageInit => StockInv
<1> SUFFICES ASSUME StockPageInit PROVE StockInv
  OBVIOUS
<1>1. reading \in Readings /\ offered \in Offers
  BY DEF StockPageInit, NoReading, Readings, Offers, Amounts
<1>2. StockTypes
  BY <1>1 DEF StockPageInit, StockTypes, NamedKinds, StockStages
<1>3. stockStage = "harvest" /\ "harvest" \notin Verdict
  BY DEF StockPageInit, Verdict
<1>4. WarehouseHeard /\ StockHeard
  BY <1>3 DEF WarehouseHeard, StockHeard
<1>5. SourcesHeard
  BY <1>3 DEF SourcesHeard, Verdict
<1> QED BY <1>2, <1>4, <1>5 DEF StockInv

\* What is read of stock and warehouse keeps its types.
THEOREM StockTypesCorrect == StockPageSpec => []StockPageTypeOK
<1>1. StockInv => StockPageTypeOK
  BY DEF StockInv, StockTypes, StockPageTypeOK, Offers, Amounts, Readings, NamedKinds, StockStages
<1> QED BY <1>1, StockStarts, StockStep, PTL DEF StockPageSpec

-----------------------------------------------------------------------------
(* HarvestVariants, for any chips and any number of pages.                 *)

\* Chips of the page's own SKU are tied to it, and what was kept is the product's own.
VariantInv ==
  /\ chips \in Seq(ChipValues) /\ productPage.titled \subseteq Chip
  /\ productPage.weight \in Chip \cup {NoChip} /\ productPage.tied \subseteq Chip
  /\ \A i \in DOMAIN chips : chips[i].sku = Own => chips[i].value \in productPage.tied
  /\ stored.values \in Seq(ChipValues) /\ stored.option \in Chip \cup {NoChip}
  /\ OwnOption

\* The first of some positions.
LEMMA FirstIndex ==
  ASSUME NEW fit \in SUBSET Nat, fit # {}
  PROVE  (CHOOSE i \in fit : \A j \in fit : i <= j) \in fit
<1>1. PICK n \in fit : \A k \in fit : <<k, n>> \notin OpToRel(<, Nat)
  BY NatLessThanWellFounded, WFMin
<1>2. ASSUME NEW k \in fit PROVE n <= k
  <2>1. ~(k < n)
    BY <1>1 DEF OpToRel
  <2>2. k \in Nat /\ n \in Nat
    OBVIOUS
  <2> QED BY <2>1, <2>2
<1> QED BY <1>1, <1>2

\* The first own chip of a row of chips, the first named one, and how both functions
\* that tell what the product is choose between them.
OwnAt(S) == {i \in DOMAIN S : S[i].sku = Own}
NamedAt(S, titled) == {i \in DOMAIN S : S[i].value \in titled}
Earliest(fit) == CHOOSE i \in fit : \A j \in fit : i <= j

LEMMA FirstIn ==
  ASSUME NEW S, NEW n \in Nat, DOMAIN S = 1..n
  PROVE  /\ OwnAt(S) # {} => Earliest(OwnAt(S)) \in OwnAt(S)
         /\ \A titled : NamedAt(S, titled) # {} => Earliest(NamedAt(S, titled)) \in NamedAt(S, titled)
<1>1. OwnAt(S) \in SUBSET Nat
  BY DEF OwnAt
<1>2. ASSUME NEW titled PROVE NamedAt(S, titled) \in SUBSET Nat
  BY DEF NamedAt
<1> QED BY <1>1, <1>2, FirstIndex DEF Earliest

LEMMA OptionIs ==
  ASSUME NEW S, NEW p
  PROVE  OptionForSku(S, p) =
           LET found == IF OwnAt(S) # {} THEN S[Earliest(OwnAt(S))].value
                        ELSE IF NamedAt(S, p.titled) # {} THEN S[Earliest(NamedAt(S, p.titled))].value
                        ELSE NoChip
           IN IF found = NoChip THEN p.weight ELSE found
BY DEF OptionForSku, FirstFit, OwnAt, NamedAt, Earliest, NoValue

LEMMA CurrentIs ==
  ASSUME NEW S, NEW titled, OwnAt(S) # {}
  PROVE  CurrentChip(S, titled) = S[Earliest(OwnAt(S))]
BY DEF CurrentChip, FirstFit, OwnAt, Earliest

\* What the server is sent of the chips: with an own one among them, that is the
\* selected one, and no sibling's SKU goes along.
LEMMA SentChips ==
  ASSUME NEW S \in Seq(ChipValues), NEW titled
  PROVE  LET T == ToIngestValues(AlignedVariants(S, titled))
         IN /\ T \in Seq(ChipValues)
            /\ T = <<>> \/ DOMAIN T = DOMAIN S
            /\ \A i \in DOMAIN T : /\ T[i].value = S[i].value /\ T[i].sku \in {Own, NoSku}
                                   /\ T[i].sku = Own <=> S[i].sku = Own
                                   /\ T[i].selected = (S[i].value = CurrentChip(S, titled).value)
<1> DEFINE A == AlignedVariants(S, titled)
           T == ToIngestValues(A)
           at(i) == S[i].value = CurrentChip(S, titled).value
<1>1. CASE Len(S) < 2
  <2>1. A = <<>>
    BY <1>1 DEF AlignedVariants
  <2> HIDE DEF A
  <2>2. T = <<>>
    BY <2>1 DEF ToIngestValues
  <2> HIDE DEF T
  <2> QED BY <2>2 DEF T, A
<1>2. CASE ~(Len(S) < 2)
  <2>1. A = [i \in DOMAIN S |-> [S[i] EXCEPT !.selected = at(i)]]
    BY <1>2 DEF AlignedVariants
  <2>2. DOMAIN S = 1..Len(S) /\ Len(S) \in Nat
    OBVIOUS
  <2> HIDE DEF A, at
  <2>3. T = [i \in DOMAIN S |-> [A[i] EXCEPT !.sku = IF A[i].sku = Own THEN Own ELSE NoSku]]
    BY <2>1 DEF ToIngestValues
  <2>4. ASSUME NEW i \in DOMAIN S
        PROVE  /\ T[i] = [value |-> S[i].value, sku |-> IF S[i].sku = Own THEN Own ELSE NoSku, selected |-> at(i)]
               /\ T[i] \in ChipValues
    <3>1. S[i] \in ChipValues
      OBVIOUS
    <3>2. A[i] = [value |-> S[i].value, sku |-> S[i].sku, selected |-> at(i)]
      BY <2>1, <3>1 DEF ChipValues
    <3>3. T[i] = [A[i] EXCEPT !.sku = IF A[i].sku = Own THEN Own ELSE NoSku]
      BY <2>3
    <3> HIDE DEF T
    <3>4. T[i] = [value |-> S[i].value, sku |-> IF S[i].sku = Own THEN Own ELSE NoSku, selected |-> at(i)]
      BY <3>2, <3>3
    <3>5. at(i) \in BOOLEAN
      BY DEF at
    <3> QED BY <3>1, <3>4, <3>5 DEF ChipValues, ChipSku
  <2> HIDE DEF T
  <2>5. T \in Seq(ChipValues) /\ DOMAIN T = DOMAIN S
    <3>1. T \in [1..Len(S) -> ChipValues]
      BY <2>2, <2>3, <2>4
    <3> QED BY <2>2, <3>1, SeqDef
  <2>6. Own # NoSku
    BY VariantAssumptions
  <2>7. ASSUME NEW i \in DOMAIN T
        PROVE  /\ T[i].value = S[i].value /\ T[i].sku \in {Own, NoSku}
               /\ T[i].sku = Own <=> S[i].sku = Own
               /\ T[i].selected = at(i)
    BY <2>4, <2>5, <2>6
  <2> QED BY <2>5, <2>7 DEF T, A, at
<1> QED BY <1>1, <1>2

\* The chips after one more has been met.
LEMMA OneMoreChip ==
  ASSUME VariantInv, NEW stage, NEW value \in Chip, NEW sku \in ChipSku \cup {NoSku}, NEW selected \in BOOLEAN,
         See(stage, value, sku, selected)
  PROVE  VariantInv'
<1>1. /\ stored = NotStored /\ stored' = stored
      /\ chips' = RememberVariant(value, sku, selected)
      /\ productPage' = [productPage EXCEPT !.stage = stage,
                                           !.tied = IF sku = Own THEN productPage.tied \cup {value} ELSE productPage.tied]
  BY DEF See
<1> DEFINE chip == [value |-> value, sku |-> sku, selected |-> selected]
<1>2. chips \in Seq(ChipValues) /\ chip \in ChipValues
  BY DEF VariantInv, ChipValues
<1>3. productPage'.tied = (IF sku = Own THEN productPage.tied \cup {value} ELSE productPage.tied)
      /\ productPage'.titled = productPage.titled /\ productPage'.weight = productPage.weight
  BY <1>1
<1>4. chips' = chips \/ chips' = Append(chips, chip)
  BY <1>1 DEF RememberVariant
<1>5. chips' \in Seq(ChipValues)
  BY <1>2, <1>4
<1>6. \A i \in DOMAIN chips' : chips'[i].sku = Own => chips'[i].value \in productPage'.tied
  <2>1. \A i \in DOMAIN chips : chips[i].sku = Own => chips[i].value \in productPage'.tied
    BY <1>3 DEF VariantInv
  <2>2. CASE chips' = chips
    BY <2>1, <2>2
  <2>3. CASE chips' = Append(chips, chip)
    <3>1. ASSUME NEW i \in DOMAIN chips' PROVE chips'[i].sku = Own => chips'[i].value \in productPage'.tied
      <4>1. (i \in DOMAIN chips /\ chips'[i] = chips[i]) \/ chips'[i] = chip
        BY <1>2, <2>3
      <4>2. chip.sku = Own => chip.value \in productPage'.tied
        BY <1>3
      <4> QED BY <2>1, <4>1, <4>2
    <3> QED BY <3>1
  <2> QED BY <1>4, <2>2, <2>3
<1>7. OwnOption'
  <2>1. stored'.values = <<>> /\ stored'.option = NoChip
    BY <1>1 DEF NotStored
  <2> QED BY <2>1 DEF OwnOption
<1>8. productPage'.tied \subseteq Chip /\ productPage'.titled \subseteq Chip /\ productPage'.weight \in Chip \cup {NoChip}
  BY <1>3 DEF VariantInv
<1>9. stored'.values \in Seq(ChipValues) /\ stored'.option \in Chip \cup {NoChip}
  BY <1>1 DEF VariantInv
<1> QED BY <1>5, <1>6, <1>7, <1>8, <1>9 DEF VariantInv

LEMMA ChipSkus ==
  ASSUME NEW link \in ChipSku \cup {NoSku}, NEW data \in ChipSku \cup {NoSku}, NEW pressed \in BOOLEAN
  PROVE  ChipSkuOf(link, data, pressed) \in ChipSku \cup {NoSku}
BY DEF ChipSkuOf, ChipSku

\* What the server makes of the chips is the product's own.
LEMMA IngestedIsOwn ==
  ASSUME VariantInv, IngestVariants
  PROVE  VariantInv'
<1>1. PICK T : T = ToIngestValues(AlignedVariants(chips, productPage.titled))
  OBVIOUS
<1>2. /\ stored' = KeepMainSkuOnly(T, productPage) /\ UNCHANGED <<chips, productPage>>
  BY <1>1 DEF IngestVariants
<1>3. chips \in Seq(ChipValues)
  BY DEF VariantInv
<1>4. /\ T \in Seq(ChipValues)
      /\ T = <<>> \/ DOMAIN T = DOMAIN chips
      /\ \A i \in DOMAIN T : /\ T[i].value = chips[i].value /\ T[i].sku \in {Own, NoSku}
                             /\ T[i].sku = Own <=> chips[i].sku = Own
                             /\ T[i].selected = (chips[i].value = CurrentChip(chips, productPage.titled).value)
  BY <1>1, <1>3, SentChips
<1>5. stored'.values = T /\ stored'.option = OptionForSku(T, productPage)
  BY <1>2 DEF KeepMainSkuOnly
<1>6. /\ OwnAt(T) # {} => Earliest(OwnAt(T)) \in OwnAt(T)
      /\ NamedAt(T, productPage.titled) # {} => Earliest(NamedAt(T, productPage.titled)) \in NamedAt(T, productPage.titled)
  <2>1. DOMAIN T = 1..Len(T) /\ Len(T) \in Nat
    BY <1>4
  <2> QED BY <2>1, FirstIn
<1>7. NoChip \notin Chip
  BY VariantAssumptions
<1>8. CASE OwnAt(T) # {}
  <2> DEFINE i == Earliest(OwnAt(T))
  <2>1. i \in DOMAIN T /\ T[i].sku = Own
    BY <1>6, <1>8 DEF OwnAt
  <2>2. OwnAt(T) = OwnAt(chips)
    <3>1. DOMAIN T = DOMAIN chips
      BY <1>4, <2>1
    <3> QED BY <1>4, <3>1 DEF OwnAt
  <2>3. CurrentChip(chips, productPage.titled) = chips[i]
    BY <1>8, <2>2, CurrentIs
  <2>4. T[i].value \in Chip /\ T[i].value = chips[i].value
    <3>1. chips[i] \in ChipValues
      BY <1>3, <1>4, <2>1
    <3> HIDE DEF i
    <3>2. T[i].value = chips[i].value
      BY <1>4, <2>1
    <3> QED BY <3>1, <3>2 DEF ChipValues
  <2>5. OptionForSku(T, productPage) = T[i].value
    BY <1>7, <1>8, <2>4, OptionIs
  <2> HIDE DEF i
  <2>6. T[i].value \in productPage.tied
    <3>1. chips[i].sku = Own /\ i \in DOMAIN chips
      BY <1>4, <2>1
    <3> QED BY <2>4, <3>1 DEF VariantInv
  <2>7. T[i].selected = TRUE
    BY <1>4, <2>1, <2>3
  <2>8. OwnOption'
    <3>1. stored'.option \in productPage'.tied
      BY <1>2, <1>5, <2>5, <2>6
    <3>2. \A j \in DOMAIN stored'.values : stored'.values[j].sku \in {Own, NoSku}
      BY <1>4, <1>5
    <3>3. /\ i \in {j \in DOMAIN stored'.values : stored'.values[j].sku = Own}
          /\ stored'.values[i].selected /\ stored'.values[i].value = stored'.option
      BY <1>5, <2>1, <2>5, <2>7
    <3> QED BY <3>1, <3>2, <3>3 DEF OwnOption
  <2> QED BY <1>2, <1>4, <1>5, <2>4, <2>5, <2>8 DEF VariantInv
<1>9. CASE OwnAt(T) = {}
  <2>1. OptionForSku(T, productPage) \in productPage.titled \cup {productPage.weight}
    <3>1. CASE NamedAt(T, productPage.titled) # {}
      <4> DEFINE i == Earliest(NamedAt(T, productPage.titled))
      <4>1. i \in DOMAIN T /\ T[i].value \in productPage.titled
        BY <1>6, <3>1 DEF NamedAt
      <4>2. OptionForSku(T, productPage) = (IF T[i].value = NoChip THEN productPage.weight ELSE T[i].value)
        BY <1>9, <3>1, OptionIs
      <4> QED BY <4>1, <4>2
    <3>2. CASE NamedAt(T, productPage.titled) = {}
      BY <1>9, <3>2, OptionIs
    <3> QED BY <3>1, <3>2
  <2>2. OwnOption'
    <3>1. {j \in DOMAIN stored'.values : stored'.values[j].sku = Own} = {}
      BY <1>5, <1>9 DEF OwnAt
    <3>2. \A j \in DOMAIN stored'.values : stored'.values[j].sku \in {Own, NoSku}
      BY <1>4, <1>5
    <3>3. stored'.option \in productPage'.tied \cup productPage'.titled \cup {productPage'.weight}
      BY <1>2, <1>5, <2>1
    <3> QED BY <3>1, <3>2, <3>3 DEF OwnOption
  <2>3. stored'.option \in Chip \cup {NoChip}
    BY <1>5, <2>1 DEF VariantInv
  <2> QED BY <1>2, <1>4, <1>5, <2>2, <2>3 DEF VariantInv
<1> QED BY <1>8, <1>9

LEMMA VariantStarts ==
  ASSUME NEW page \in ChipPages, NEW row, row = <<>>
  PROVE  /\ row \in Seq(ChipValues) /\ DOMAIN row = {}
         /\ page.titled \subseteq Chip /\ page.weight \in Chip \cup {NoChip} /\ page.tied = {}
BY DEF ChipPages

LEMMA VariantStep == VariantInv /\ [VariantsNext]_variantVars => VariantInv'
<1> SUFFICES ASSUME VariantInv, [VariantsNext]_variantVars PROVE VariantInv'
  OBVIOUS
<1>1. ASSUME NEW value \in Chip, NEW link \in ChipSku \cup {NoSku}, NEW data \in ChipSku \cup {NoSku},
             NEW pressed \in BOOLEAN, SeeAspect(value, link, data, pressed)
      PROVE  VariantInv'
  <2>1. ChipSkuOf(link, data, FALSE) \in ChipSku \cup {NoSku}
    BY ChipSkus
  <2> QED BY <1>1, <2>1, OneMoreChip DEF SeeAspect
<1>2. ASSUME NEW value \in Chip, NEW link \in ChipSku \cup {NoSku}, NEW data \in ChipSku \cup {NoSku},
             NEW pressed \in BOOLEAN, NEW checked \in {pressed, TRUE}, SeeButton(value, link, data, pressed, checked)
      PROVE  VariantInv'
  <2>1. ChipSkuOf(link, data, pressed) \in ChipSku \cup {NoSku}
    BY ChipSkus
  <2>2. PICK picked \in BOOLEAN : picked = (pressed \/ checked)
    <3>1. (pressed \/ checked) \in BOOLEAN
      OBVIOUS
    <3> WITNESS (pressed \/ checked) \in BOOLEAN
    <3> QED OBVIOUS
  <2>3. See(2, value, ChipSkuOf(link, data, pressed), picked)
    BY <1>2, <2>2 DEF SeeButton
  <2> QED BY <2>1, <2>3, OneMoreChip
<1>3. ASSUME NEW value \in Chip, NEW link \in ChipSku, SeeLink(value, link) PROVE VariantInv'
  <2>1. See(3, value, link, FALSE) /\ link \in ChipSku \cup {NoSku}
    BY <1>3 DEF SeeLink
  <2> QED BY <2>1, OneMoreChip
<1>4. CASE IngestVariants
  BY <1>4, IngestedIsOwn
<1>5. CASE NextProductPage
  <2>1. chips' = <<>> /\ productPage' \in ChipPages /\ stored'.values = <<>> /\ stored'.option = NoChip
    BY <1>5 DEF NextProductPage, NotStored
  <2> QED BY <2>1, VariantStarts DEF VariantInv, OwnOption
<1>6. CASE UNCHANGED variantVars
  BY <1>6 DEF variantVars, VariantInv, OwnOption
<1> QED BY <1>1, <1>2, <1>3, <1>4, <1>5, <1>6 DEF VariantsNext

LEMMA VariantsStart == VariantsInit => VariantInv
<1> SUFFICES ASSUME VariantsInit PROVE VariantInv
  OBVIOUS
<1>1. chips = <<>> /\ productPage \in ChipPages /\ stored.values = <<>> /\ stored.option = NoChip
  BY DEF VariantsInit, NotStored
<1> QED BY <1>1, VariantStarts DEF VariantInv, OwnOption

\* Chips, pages and what is kept of them keep their types.
THEOREM VariantTypesCorrect == VariantsSpec => []VariantsTypeOK
<1>1. VariantInv => VariantsTypeOK
  BY DEF VariantInv, VariantsTypeOK
<1> QED BY <1>1, VariantsStart, VariantStep, PTL DEF VariantsSpec

-----------------------------------------------------------------------------
\* A product is taken for a warehouse only if a source named it and turned away only if
\* one named another or none any; its count is the back office's own, without one below
\* none that was shown, and none at all if the back office leaves it null; and the variant
\* kept is the product's own, whenever the panel was drawn, whatever failed and in
\* whichever order the chips were met.
THEOREM PageIsReadRight == PageReadSpec => []PageReadRight
<1>1. (StockInv /\ VariantInv) => PageReadRight
  BY DEF StockInv, VariantInv, PageReadRight
<1> QED BY <1>1, StockStarts, StockStep, VariantsStart, VariantStep, PTL DEF PageReadSpec, StockPageSpec, VariantsSpec

-----------------------------------------------------------------------------
(* ShelfPrice, for any prices and requests.                                *)

\* Rounding halves up, by the number it leads to.
LEMMA RoundIs ==
  ASSUME NEW a \in Int, NEW b \in Nat \ {0}, NEW q \in Int
  PROVE  Round(a, b) = q <=> 2 * (b * q) <= 2 * a + b /\ 2 * a + b < 2 * (b * q) + 2 * b
<1> DEFINE x == 2 * a + b
           y == 2 * b
<1>1. x \in Int /\ y \in Nat \ {0} /\ y * q = 2 * (b * q)
  OBVIOUS
<1>2. Round(a, b) = x \div y
  BY DEF Round
<1> HIDE DEF x, y
<1>3. (x \div y) \in Int /\ y * (x \div y) <= x /\ x < y * (x \div y) + y
  BY <1>1
<1>4. y * q <= x /\ x < y * q + y => x \div y = q
  BY <1>1
<1>5. Round(a, b) = q <=> y * q <= x /\ x < y * q + y
  BY <1>2, <1>3, <1>4
<1> QED BY <1>1, <1>5 DEF x, y

\* A product grows by its first factor, at least, with its second.
LEMMA ProductSteps ==
  ASSUME NEW b \in Nat \ {0}, NEW x \in Int, NEW y \in Int, x < y
  PROVE  b * x + b <= b * y
OBVIOUS

LEMMA RoundType ==
  ASSUME NEW a \in Int, NEW b \in Nat \ {0}
  PROVE  Round(a, b) \in Int
BY DEF Round

\* The extremes of small sets.
LEMMA TwoNumbers ==
  ASSUME NEW a \in Int, NEW b \in Int
  PROVE  Max({a, b}) = (IF a >= b THEN a ELSE b) /\ Min({a, b}) = (IF a <= b THEN a ELSE b)
<1>1. CASE a >= b
  <2>1. \A x \in {a, b} : (\A y \in {a, b} : x >= y) <=> x = a
    BY <1>1
  <2>2. \A x \in {a, b} : (\A y \in {a, b} : x <= y) <=> x = b
    BY <1>1
  <2> QED BY <1>1, <2>1, <2>2 DEF Max, Min
<1>2. CASE a < b
  <2>1. \A x \in {a, b} : (\A y \in {a, b} : x >= y) <=> x = b
    BY <1>2
  <2>2. \A x \in {a, b} : (\A y \in {a, b} : x <= y) <=> x = a
    BY <1>2
  <2> QED BY <1>2, <2>1, <2>2 DEF Max, Min
<1> QED BY <1>1, <1>2

LEMMA ThreeNumbers ==
  ASSUME NEW a \in Int, NEW b \in Int, NEW c \in Int
  PROVE  Max({a, b, c}) = Max({a, Max({b, c})})
<1> DEFINE m == Max({a, Max({b, c})})
<1>1. Max({b, c}) \in {b, c} /\ \A y \in {b, c} : Max({b, c}) >= y
  BY TwoNumbers
<1>2. m \in {a, b, c} /\ \A y \in {a, b, c} : m >= y
  BY <1>1, TwoNumbers
<1> HIDE DEF m
<1>3. \A x \in {a, b, c} : (\A y \in {a, b, c} : x >= y) => x = m
  BY <1>2
<1>4. \A S, x : x \in S /\ (\A y \in S : x >= y) /\ (\A z \in S : (\A y \in S : z >= y) => z = x) => Max(S) = x
  BY DEF Max
<1>5. Max({a, b, c}) = m
  BY <1>2, <1>3, <1>4
<1> QED BY <1>5 DEF m

LEMMA Largest ==
  ASSUME NEW a \in Int, NEW b \in Int
  PROVE  Max({1, a, b}) = IF a >= b THEN IF a >= 1 THEN a ELSE 1 ELSE IF b >= 1 THEN b ELSE 1
<1> DEFINE m == Max({a, b})
<1>1. m = IF a >= b THEN a ELSE b
  BY TwoNumbers
<1> HIDE DEF m
<1>2. m \in Int
  BY <1>1
<1>3. Max({1, m}) = IF 1 >= m THEN 1 ELSE m
  BY <1>2, TwoNumbers
<1>4. Max({1, a, b}) = Max({1, m})
  BY ThreeNumbers DEF m
<1> QED BY <1>1, <1>3, <1>4

LEMMA ClampType ==
  ASSUME NEW percent \in Int
  PROVE  /\ Clamp(percent) \in 0..99
         /\ Clamp(percent) = IF percent < 0 THEN 0 ELSE IF percent > 99 THEN 99 ELSE percent
<1>1. Max({0, percent}) = IF percent < 0 THEN 0 ELSE percent
  BY TwoNumbers
<1>2. Clamp(percent) = IF Max({0, percent}) > 99 THEN 99 ELSE Max({0, percent})
  BY <1>1, TwoNumbers DEF Clamp
<1> QED BY <1>1, <1>2

LEMMA AtLeastOneIs ==
  ASSUME NEW v \in Int
  PROVE  AtLeastOne(v) = IF v >= 1 THEN v ELSE 1
BY TwoNumbers DEF AtLeastOne

-----------------------------------------------------------------------------
\* A price after discount is at least one rouble and no more than the price before.
LEMMA SaleBound ==
  ASSUME NEW list \in Nat \ {0}, NEW percent \in Int
  PROVE  SaleFromListAndDiscount(list, percent) \in 1..list
<1> DEFINE c == Clamp(percent)
           x == list * (100 - c)
           r == Round(x, 100)
<1>1. c \in 0..99
  BY ClampType
<1> HIDE DEF c
<1>2. x \in Int /\ x <= 100 * list
  <2>1. list * c \in Nat /\ x = 100 * list - list * c
    BY <1>1
  <2> QED BY <2>1
<1> HIDE DEF x
<1>3. r \in Int /\ 2 * (100 * r) <= 2 * x + 100
  BY <1>2, RoundType, RoundIs
<1> HIDE DEF r
<1>4. r <= list
  BY <1>2, <1>3
<1>5. SaleFromListAndDiscount(list, percent) = AtLeastOne(r)
  BY DEF SaleFromListAndDiscount, r, x, c
<1> QED BY <1>3, <1>4, <1>5, AtLeastOneIs

\* The arithmetic of a discount rounded to whole per cents: the price it leads
\* to has the same discount.
LEMMA DiscountStands ==
  ASSUME NEW L \in Nat \ {0}, NEW s \in Nat \ {0}, s < L
  PROVE  LET d == DiscountFromListAndSale(L, s)
             t == SaleFromListAndDiscount(L, d)
         IN d \in 0..99 /\ t \in 1..L /\ DiscountFromListAndSale(L, t) = d
<1> DEFINE q == Round(100 * (L - s), L)
           d == DiscountFromListAndSale(L, s)
           t == SaleFromListAndDiscount(L, d)
           X == L * d
           r == Round(L * (100 - d), 100)
<1>1. q \in Int /\ 2 * (L * q) <= 201 * L - 200 * s /\ 201 * L - 200 * s < 2 * (L * q) + 2 * L
  <2>1. q \in Int /\ 2 * (L * q) <= 2 * (100 * (L - s)) + L /\ 2 * (100 * (L - s)) + L < 2 * (L * q) + 2 * L
    <3> DEFINE a == 100 * (L - s)
    <3>1. a \in Int
      OBVIOUS
    <3> HIDE DEF a
    <3>2. Round(a, L) \in Int
      BY <3>1, RoundType
    <3>3. 2 * (L * Round(a, L)) <= 2 * a + L /\ 2 * a + L < 2 * (L * Round(a, L)) + 2 * L
      BY <3>1, <3>2, RoundIs
    <3> QED BY <3>2, <3>3 DEF a
  <2> DEFINE y == L * q
  <2>2. 2 * y <= 2 * (100 * (L - s)) + L /\ 2 * (100 * (L - s)) + L < 2 * y + 2 * L /\ y \in Int
    BY <2>1
  <2>3. q \in Int
    BY <2>1
  <2> HIDE DEF y, q
  <2>4. 2 * y <= 201 * L - 200 * s /\ 201 * L - 200 * s < 2 * y + 2 * L
    BY <2>2
  <2> QED BY <2>3, <2>4 DEF y
<1>2. d = Clamp(q)
  BY DEF DiscountFromListAndSale
<1> HIDE DEF q
<1>3. q >= 0
  <2>1. ASSUME q <= -1 PROVE FALSE
    <3>1. L * q + L <= L * 0
      BY <1>1, <2>1, ProductSteps
    <3> DEFINE y == L * q
    <3>2. y \in Int /\ y + L <= 0 /\ 201 * L - 200 * s < 2 * y + 2 * L
      BY <1>1, <3>1
    <3> HIDE DEF y
    <3> QED BY <3>2
  <2> QED BY <2>1, <1>1
<1>4. d \in 0..99 /\ (q <= 99 => d = q) /\ (q > 99 => d = 99)
  BY <1>1, <1>2, <1>3, ClampType
<1>5. t = AtLeastOne(r)
  BY <1>4, ClampType DEF SaleFromListAndDiscount
<1> HIDE DEF d
<1>6. r \in Int /\ 200 * r <= 200 * L - 2 * X + 100 /\ 200 * L - 2 * X + 100 < 200 * r + 200 /\ X \in Nat
  <2>1. L * (100 - d) = 100 * L - X /\ X \in Nat
    BY <1>4
  <2>2. r \in Int /\ 2 * (100 * r) <= 2 * (L * (100 - d)) + 100 /\ 2 * (L * (100 - d)) + 100 < 2 * (100 * r) + 2 * 100
    <3> DEFINE a == L * (100 - d)
    <3>1. a \in Int
      BY <1>4
    <3> HIDE DEF a
    <3>2. Round(a, 100) \in Int
      BY <3>1, RoundType
    <3>3. 2 * (100 * Round(a, 100)) <= 2 * a + 100 /\ 2 * a + 100 < 2 * (100 * Round(a, 100)) + 2 * 100
      BY <3>1, <3>2, RoundIs
    <3> QED BY <3>2, <3>3 DEF a
  <2> QED BY <2>1, <2>2
<1>7. X <= 99 * L
  BY <1>4
<1>8. /\ q <= 99 => 2 * X <= 201 * L - 200 * s /\ 201 * L - 200 * s < 2 * X + 2 * L
      /\ q > 99 => X = 99 * L /\ L >= 200
  <2>1. CASE q <= 99
    BY <2>1, <1>1, <1>4
  <2>2. CASE q > 99
    <3>1. L * q >= 100 * L
      BY <2>2, <1>1
    <3> QED BY <2>2, <3>1, <1>1, <1>4
  <2> QED BY <2>1, <2>2, <1>1
<1> HIDE DEF X, r
<1>9. r >= 1
  <2>1. CASE q <= 99
    BY <2>1, <1>6, <1>7, <1>8
  <2>2. CASE q > 99
    BY <2>2, <1>6, <1>8
  <2> QED BY <2>1, <2>2, <1>1
<1>10. t = r /\ t \in 1..L
  BY <1>5, <1>6, <1>9, AtLeastOneIs
<1> HIDE DEF t
<1>11. /\ q <= 99 => 2 * X <= 201 * L - 200 * t /\ 201 * L - 200 * t < 2 * X + 2 * L
       /\ q > 99 => 2 * X <= 201 * L - 200 * t
  <2>1. CASE q <= 99 /\ L >= 100
    BY <2>1, <1>6, <1>10
  <2>2. CASE q <= 99 /\ L < 100
    <3>1. t = s
      BY <2>2, <1>6, <1>8, <1>10
    <3> QED BY <2>2, <3>1, <1>8
  <2>3. CASE q > 99
    BY <2>3, <1>6, <1>8, <1>10
  <2> QED BY <2>1, <2>2, <2>3, <1>1
<1> DEFINE p == Round(100 * (L - t), L)
<1>12. p \in Int /\ 2 * (L * p) <= 201 * L - 200 * t /\ 201 * L - 200 * t < 2 * (L * p) + 2 * L
  <2>1. p \in Int /\ 2 * (L * p) <= 2 * (100 * (L - t)) + L /\ 2 * (100 * (L - t)) + L < 2 * (L * p) + 2 * L
    BY <1>10, RoundType, RoundIs
  <2> QED BY <2>1, <1>10
<1>13. Clamp(p) = d
  <2>1. CASE q <= 99
    <3>1. 2 * (L * d) <= 201 * L - 200 * t /\ 201 * L - 200 * t < 2 * (L * d) + 2 * L
      BY <2>1, <1>11 DEF X
    <3>2. 2 * (L * d) <= 2 * (100 * (L - t)) + L /\ 2 * (100 * (L - t)) + L < 2 * (L * d) + 2 * L
      BY <3>1, <1>10
    <3>3. p = d
      <4>1. d \in Int /\ 100 * (L - t) \in Int
        BY <1>4, <1>10
      <4> QED BY <3>2, <4>1, RoundIs
    <3> QED BY <3>3, <1>4, ClampType
  <2>2. CASE q > 99
    <3>1. L * p + L > 99 * L
      <4> DEFINE y == L * p
      <4>1. y \in Int /\ 201 * L - 200 * t < 2 * y + 2 * L
        BY <1>12
      <4> HIDE DEF y
      <4>2. y + L > 99 * L
        BY <4>1, <2>2, <1>8, <1>10, <1>11
      <4> QED BY <4>2 DEF y
    <3>2. ASSUME p <= 98 PROVE FALSE
      <4>1. L * p <= 98 * L
        BY <3>2, <1>12
      <4> QED BY <3>1, <4>1, <1>12
    <3>3. p >= 99
      BY <3>2, <1>12
    <3> QED BY <2>2, <3>3, <1>4, <1>12, ClampType
  <2> QED BY <2>1, <2>2, <1>1
<1>14. DiscountFromListAndSale(L, t) = d
  <2>1. CASE t < L
    BY <2>1, <1>10, <1>13 DEF DiscountFromListAndSale
  <2>2. CASE t >= L
    <3>1. t = L
      BY <2>2, <1>10
    <3>2. DiscountFromListAndSale(L, t) = 0
      BY <2>2 DEF DiscountFromListAndSale
    <3>3. p = 0
      <4>1. 2 * (L * 0) <= 2 * (100 * (L - t)) + L /\ 2 * (100 * (L - t)) + L < 2 * (L * 0) + 2 * L
        BY <3>1
      <4> QED BY <4>1, <1>10, RoundIs
    <3> QED BY <3>2, <3>3, <1>13, ClampType
  <2> QED BY <2>1, <2>2, <1>10
<1> QED BY <1>4, <1>10, <1>14 DEF t, d

\* The arithmetic of a price before discount: discounted, it is the price it was made from.
LEMMA SaleStands ==
  ASSUME NEW s \in Nat \ {0}, NEW percent \in Int
  PROVE  /\ ListFromSaleAndDiscount(s, percent) \in Nat \ {0}
         /\ SaleFromListAndDiscount(ListFromSaleAndDiscount(s, percent), percent) = s
<1> DEFINE c == Clamp(percent)
           list == ListFromSaleAndDiscount(s, percent)
<1>1. c \in 0..99
  BY ClampType
<1>2. ASSUME list \in Nat \ {0}, 200 * s <= 2 * (list * (100 - c)) + 100, 2 * (list * (100 - c)) + 100 < 200 * s + 200
      PROVE  SaleFromListAndDiscount(list, percent) = s
  <2> DEFINE a == list * (100 - c)
  <2>1. a \in Int /\ s \in Int
    BY <1>1, <1>2
  <2>2. SaleFromListAndDiscount(list, percent) = AtLeastOne(Round(a, 100))
    BY DEF SaleFromListAndDiscount
  <2>3. 2 * (100 * s) <= 2 * a + 100 /\ 2 * a + 100 < 2 * (100 * s) + 2 * 100
    BY <1>2
  <2> HIDE DEF a
  <2>4. Round(a, 100) = s
    BY <2>1, <2>3, RoundIs
  <2> QED BY <2>2, <2>4, AtLeastOneIs
<1>3. CASE c = 0
  <2>1. list = s
    BY <1>3 DEF ListFromSaleAndDiscount
  <2> QED BY <1>2, <1>3, <2>1
<1>4. CASE c = 99
  <2>1. list = 100 * s
    BY <1>4 DEF ListFromSaleAndDiscount
  <2> QED BY <1>2, <1>4, <2>1
<1>5. CASE c \in 1..98
  <2> DEFINE k == 100 - c
             r == Round(100 * s, k)
             Y == k * r
  <2>1. k \in 2..99 /\ k \in Nat \ {0} /\ 100 * s \in Int
    BY <1>5
  <2>2. list = Max({s, r})
    BY <1>5 DEF ListFromSaleAndDiscount
  <2> HIDE DEF k
  <2>3. r \in Int
    BY <2>1, RoundType
  <2>4. 2 * Y <= 200 * s + k /\ 200 * s + k < 2 * Y + 2 * k /\ Y \in Int
    <3>1. 2 * (k * r) <= 2 * (100 * s) + k /\ 2 * (100 * s) + k < 2 * (k * r) + 2 * k
      BY <2>1, <2>3, RoundIs
    <3> QED BY <3>1, <2>1, <2>3
  <2> HIDE DEF r
  <2>5. r >= s
    <3> SUFFICES ASSUME r < s PROVE FALSE
      BY <2>3
    <3>1. Y + k <= k * s
      BY <2>1, <2>3, ProductSteps
    <3>2. k * s <= 99 * s
      BY <2>1
    <3> DEFINE z == k * s
    <3>3. z \in Int /\ Y + k <= z /\ z <= 99 * s
      BY <3>1, <3>2, <2>1
    <3> HIDE DEF z, Y
    <3> QED BY <3>3, <2>1, <2>4
  <2>6. list = r
    BY <2>2, <2>3, <2>5, TwoNumbers
  <2>7. list * (100 - c) = Y
    BY <2>1, <2>3, <2>6 DEF k
  <2> HIDE DEF list, Y
  <2>8. list \in Nat \ {0} /\ 200 * s <= 2 * Y + 100 /\ 2 * Y + 100 < 200 * s + 200
    BY <2>1, <2>3, <2>4, <2>5, <2>6
  <2> QED BY <2>7, <2>8, <1>2 DEF list
<1> QED BY <1>1, <1>3, <1>4, <1>5

-----------------------------------------------------------------------------
\* Prices a product may have, and those it may be shelved with.
Prices == [price : Nat, original : Nat, discount : Nat]
Shelved == {p \in [list : Nat \ {0}, sale : Nat \ {0}, percent : 0..99] : p.sale <= p.list}

LEMMA PricedType ==
  ASSUME NEW list \in Nat \ {0}, NEW percent \in Int
  PROVE  Priced(list, percent) \in Shelved /\ Priced(list, percent).list = list
<1>1. SaleFromListAndDiscount(list, percent) \in 1..list /\ Clamp(percent) \in 0..99
  BY SaleBound, ClampType
<1> QED BY <1>1 DEF Priced, Shelved

\* A pair of prices: its list price is the larger; its prices pair up to themselves.
LEMMA PairStands ==
  ASSUME NEW list \in Int, NEW sale \in Int
  PROVE  /\ NormalizePair(list, sale) \in Shelved
         /\ list >= 1 /\ sale >= 1 =>
              /\ NormalizePair(list, NormalizePair(list, sale).sale) = NormalizePair(list, sale)
              /\ sale <= list => NormalizePair(list, sale).list = list
<1> DEFINE s == AtLeastOne(sale)
           l == Max({1, list, sale})
           d == DiscountFromListAndSale(l, s)
           P == NormalizePair(list, sale)
<1>1. s \in Nat \ {0} /\ l \in Nat \ {0} /\ s <= l
  BY AtLeastOneIs, Largest
<1>2. P = Priced(l, d)
  BY DEF NormalizePair
<1> HIDE DEF s, l, P
<1>3. d \in 0..99
  <2>1. CASE s < l
    BY <2>1, <1>1, DiscountStands
  <2>2. CASE s >= l
    BY <2>2 DEF DiscountFromListAndSale
  <2> QED BY <2>1, <2>2, <1>1
<1> HIDE DEF d
<1>4. P \in Shelved /\ P.list = l
  BY <1>1, <1>2, <1>3, PricedType
<1>5. ASSUME list >= 1, sale >= 1
      PROVE  NormalizePair(list, P.sale) = P /\ (sale <= list => P.list = list)
  <2>1. s = sale /\ l = IF sale > list THEN sale ELSE list
    BY <1>5, AtLeastOneIs, Largest DEF s, l
  <2> DEFINE t == P.sale
  <2>2. t = SaleFromListAndDiscount(l, d)
    BY <1>2 DEF Priced
  <2>3. t \in 1..l
    BY <1>1, <1>3, <2>2, SaleBound
  <2>4. CASE sale < list
    <3>1. DiscountFromListAndSale(l, t) = d
      BY <2>1, <2>2, <2>4, <1>1, DiscountStands DEF d
    <3>2. AtLeastOne(t) = t /\ Max({1, list, t}) = l
      BY <2>1, <2>3, <2>4, <1>5, AtLeastOneIs, Largest
    <3>3. NormalizePair(list, t) = Priced(l, d)
      BY <3>1, <3>2 DEF NormalizePair
    <3> QED BY <3>3, <1>2, <1>4, <2>1, <2>4, <1>5
  <2>5. CASE sale >= list
    <3>1. l = sale /\ d = 0
      BY <2>1, <2>5, <1>5 DEF DiscountFromListAndSale, d
    <3>2. t = sale
      <4>1. ListFromSaleAndDiscount(sale, 0) = sale
        BY ClampType DEF ListFromSaleAndDiscount
      <4> QED BY <4>1, <3>1, <2>2, <1>5, SaleStands
    <3> QED BY <3>1, <3>2, <1>4, <2>5, <1>5 DEF P
  <2> QED BY <2>4, <2>5
<1> QED BY <1>4, <1>5 DEF P

-----------------------------------------------------------------------------
\* What prices are computed from.
LEMMA BasesType ==
  ASSUME NEW p \in Prices
  PROVE  LET b == CrawledPriceBases(p) IN
         /\ b \in [{"original", "discount", "sale"} -> Nat]
         /\ FallbackList(b) \in Nat \ {0} /\ FallbackSale(b) \in Nat \ {0}
<1> DEFINE b == CrawledPriceBases(p)
           discount == First(p.discount, p.price, 0)
           m == Max({discount, p.price})
           original == First(p.original, m, 0)
<1>1. p.price \in Nat /\ p.original \in Nat /\ p.discount \in Nat
  BY DEF Prices
<1>2. discount \in Nat
  BY <1>1 DEF First
<1> HIDE DEF discount
<1>3. m \in Nat
  BY <1>1, <1>2, TwoNumbers
<1> HIDE DEF m
<1>4. original \in Nat
  BY <1>1, <1>3 DEF First
<1> HIDE DEF original
<1>5. b = [original |-> First(original, discount, p.price), discount |-> First(discount, p.price, original),
           sale |-> First(p.price, discount, original)]
  BY DEF CrawledPriceBases, original, m, discount
<1>6. b.original \in Nat /\ b.discount \in Nat /\ b.sale \in Nat
  BY <1>1, <1>2, <1>4, <1>5 DEF First
<1>7. b \in [{"original", "discount", "sale"} -> Nat]
  BY <1>5, <1>6
<1> HIDE DEF b
<1>8. First(b.original, b.sale, 1) \in Nat /\ First(b.sale, b.discount, b.original) \in Nat
  BY <1>6 DEF First
<1>9. FallbackList(b) \in Nat \ {0} /\ FallbackSale(b) \in Nat \ {0}
  BY <1>8, AtLeastOneIs DEF FallbackList, FallbackSale
<1> QED BY <1>7, <1>9 DEF b

\* Where the page gave a list price that one stays, and the price is the sale price.
LEMMA BasesStand ==
  ASSUME NEW p \in Prices, p.original > 0
  PROVE  LET b == CrawledPriceBases(p) IN
         /\ FallbackList(b) = p.original /\ AtLeastOne(b.original) = p.original
         /\ AtLeastOne(b.sale) = FallbackSale(b)
         /\ p.price > 0 => FallbackSale(b) = p.price
<1> DEFINE b == CrawledPriceBases(p)
           discount == First(p.discount, p.price, 0)
           original == First(p.original, Max({discount, p.price}), 0)
<1>1. p.price \in Nat /\ p.original \in Nat \ {0} /\ p.discount \in Nat
  BY DEF Prices
<1>2. original = p.original
  BY <1>1 DEF First
<1>3. discount \in Nat
  BY <1>1 DEF First
<1>4. b.original = First(original, discount, p.price) /\ b.sale = First(p.price, discount, original)
  BY DEF CrawledPriceBases
<1> HIDE DEF discount, original
<1>5. b.original = p.original /\ b.sale \in Nat \ {0} /\ (p.price > 0 => b.sale = p.price)
  BY <1>1, <1>2, <1>3, <1>4 DEF First
<1> HIDE DEF b
<1>6. First(b.original, b.sale, 1) = p.original /\ First(b.sale, b.discount, b.original) = b.sale
  BY <1>1, <1>5 DEF First
<1> QED BY <1>1, <1>5, <1>6, AtLeastOneIs DEF FallbackList, FallbackSale, b

\* A product is put on the shelf with prices, the one after discount not the larger.
LEMMA ComputedPrices ==
  ASSUME NEW p \in Prices, NEW r \in RequestFields
  PROVE  ComputeWbShelfPrice(p, r) \in Shelved
<1> DEFINE b == CrawledPriceBases(p)
           L == FallbackList(b)
           S == FallbackSale(b)
           second == IF r.saleFactor = Null THEN r.factor ELSE r.saleFactor
           fixedList == First(r.fixedList, L, 1)
           fixedSale == First(r.fixedSale, S, 1)
           capped(list, sale) == NormalizePair(list, Min({list, sale}))
           P == ComputeWbShelfPrice(p, r)
<1>1. b \in [{"original", "discount", "sale"} -> Nat] /\ L \in Nat \ {0} /\ S \in Nat \ {0}
  BY BasesType
<1> HIDE DEF b, L, S
<1>2. /\ r.mode \in {"keep", "from_sources", "dual_times",
                       "fixed_list_discount", "fixed_list_sale", "fixed_sale_discount"}
      /\ r.factor \in Nat \ {0} /\ second \in Nat \ {0}
      /\ r.listSource \in {"original", "discount", "sale"} /\ r.saleSource \in {"original", "discount", "sale"}
      /\ r.list \in Int /\ r.sale \in Int /\ r.percent \in Int /\ r.fixedPercent \in Int
      /\ r.fixedList \in Nat /\ r.fixedSale \in Nat
  BY DEF RequestFields, Null
<1>3. fixedList \in Nat \ {0} /\ fixedSale \in Nat \ {0}
  BY <1>1, <1>2 DEF First
<1> HIDE DEF second, fixedList, fixedSale
<1>4. \A list, sale \in Int : NormalizePair(list, sale) \in Shelved /\ capped(list, sale) \in Shelved
  <2>1. \A list, sale \in Int : Min({list, sale}) \in Int
    BY TwoNumbers
  <2> QED BY <2>1, PairStands
<1>5. \A list \in Nat \ {0}, percent \in Int : Priced(list, percent) \in Shelved
  BY PricedType
<1>6. \A sale \in Nat \ {0}, percent \in Int : ListFromSaleAndDiscount(sale, percent) \in Nat \ {0}
  BY SaleStands
<1>7. \A v \in Int : AtLeastOne(v) \in Nat \ {0} /\ AtLeastOne(v) \in Int
  BY AtLeastOneIs
<1>8. CASE {r.list, r.sale, r.percent} # {Null}
  <2>1. P = ResolveManualShelfPrice(r, b)
    BY <1>8 DEF ComputeWbShelfPrice, b
  <2>2. Min({r.list, S}) \in Int /\ Max({r.sale, L}) \in Int
    <3>1. r.list \in Int /\ r.sale \in Int /\ S \in Int /\ L \in Int
      BY <1>1, <1>2
    <3> QED BY <3>1, TwoNumbers
  <2>3. CASE r.list # Null /\ r.percent # Null
    BY <2>1, <2>3, <1>2, <1>5, <1>7 DEF ResolveManualShelfPrice
  <2>4. CASE r.list # Null /\ r.percent = Null /\ r.sale # Null
    BY <2>1, <2>4, <1>2, <1>4 DEF ResolveManualShelfPrice
  <2>5. CASE r.list = Null /\ r.sale # Null /\ r.percent # Null
    BY <2>1, <2>5, <1>2, <1>5, <1>6, <1>7 DEF ResolveManualShelfPrice
  <2>6. CASE r.list # Null /\ r.sale = Null /\ r.percent = Null
    BY <2>1, <2>2, <2>6, <1>2, <1>4 DEF ResolveManualShelfPrice, S
  <2>7. CASE r.list = Null /\ r.sale # Null /\ r.percent = Null
    BY <2>1, <2>2, <2>7, <1>2, <1>4 DEF ResolveManualShelfPrice, L
  <2>8. CASE r.list = Null /\ r.sale = Null
    BY <2>1, <2>8, <1>1, <1>2, <1>5 DEF ResolveManualShelfPrice, L
  <2> QED BY <2>3, <2>4, <2>5, <2>6, <2>7, <2>8
<1>9. CASE {r.list, r.sale, r.percent} = {Null}
  <2>1. /\ r.mode = "keep" => P = capped(AtLeastOne(b.original), AtLeastOne(b.sale))
        /\ r.mode = "from_sources" =>
             P = capped(Times(b[r.listSource], r.factor), Times(b[r.saleSource], second))
        /\ r.mode = "dual_times" => P = capped(Times(L, r.factor), Times(S, r.factor))
        /\ r.mode = "fixed_list_discount" => P = Priced(fixedList, r.fixedPercent)
        /\ r.mode = "fixed_list_sale" => P = NormalizePair(fixedList, fixedSale)
        /\ r.mode = "fixed_sale_discount" =>
             P = Priced(ListFromSaleAndDiscount(fixedSale, r.fixedPercent), r.fixedPercent)
    BY <1>9 DEF ComputeWbShelfPrice, b, L, S, second, fixedList, fixedSale
  <2> SUFFICES P \in Shelved
    OBVIOUS
  <2> HIDE DEF P, capped
  <2>2. \A v, f \in Nat : Times(v, f) \in Int
    <3> SUFFICES ASSUME NEW v \in Nat, NEW f \in Nat PROVE Times(v, f) \in Int
      OBVIOUS
    <3>1. v * f \in Int
      OBVIOUS
    <3> QED BY <3>1, <1>7, RoundType DEF Times
  <2>3. /\ AtLeastOne(b.original) \in Int /\ AtLeastOne(b.sale) \in Int
        /\ Times(b[r.listSource], r.factor) \in Int /\ Times(b[r.saleSource], second) \in Int
        /\ Times(L, r.factor) \in Int /\ Times(S, r.factor) \in Int
    <3>1. /\ b["original"] \in Nat /\ b["sale"] \in Nat
          /\ b[r.listSource] \in Nat /\ b[r.saleSource] \in Nat
          /\ L \in Nat /\ S \in Nat /\ r.factor \in Nat /\ second \in Nat
      BY <1>1, <1>2
    <3>2. AtLeastOne(b.original) \in Int /\ AtLeastOne(b.sale) \in Int
      BY <3>1, <1>7
    <3> QED BY <3>1, <3>2, <2>2
  <2>4. CASE r.mode = "keep"
    BY <2>1, <2>3, <2>4, <1>4 DEF capped
  <2>5. CASE r.mode = "from_sources"
    BY <2>1, <2>3, <2>5, <1>4 DEF capped
  <2>6. CASE r.mode = "dual_times"
    BY <2>1, <2>3, <2>6, <1>4 DEF capped
  <2>7. CASE r.mode = "fixed_list_discount"
    BY <2>1, <2>7, <1>2, <1>3, <1>5
  <2>8. CASE r.mode = "fixed_list_sale"
    BY <2>1, <2>8, <1>3, <1>4
  <2>9. CASE r.mode = "fixed_sale_discount"
    BY <2>1, <2>9, <1>2, <1>3, <1>5, <1>6
  <2> QED BY <2>4, <2>5, <2>6, <2>7, <2>8, <2>9, <1>2
<1> QED BY <1>8, <1>9

\* The prices of a request that does not multiply, computed from the price it
\* left, are the same again.
LEMMA PricesStand ==
  ASSUME NEW q \in Prices, q.original > 0, NEW r \in RequestFields, ~Multiplies(r)
  PROVE  LET P == ComputeWbShelfPrice(q, r)
         IN  ComputeWbShelfPrice([q EXCEPT !.price = P.sale], r) = P
<1> DEFINE P == ComputeWbShelfPrice(q, r)
           p == [q EXCEPT !.price = P.sale]
           b == CrawledPriceBases(q)
           c == CrawledPriceBases(p)
           L == q.original
           S == FallbackSale(b)
<1> SUFFICES ComputeWbShelfPrice(p, r) = P
  OBVIOUS
<1>1. P \in Shelved /\ P.sale \in Nat \ {0} /\ P.sale <= P.list
  BY ComputedPrices DEF Shelved
<1> HIDE DEF P
<1>2. p \in Prices /\ p.original = L /\ p.price = P.sale /\ L \in Nat \ {0}
  BY <1>1 DEF Prices
<1> HIDE DEF p, L
<1>3. FallbackList(b) = L /\ AtLeastOne(b.original) = L /\ AtLeastOne(b.sale) = S /\ S \in Nat \ {0}
  BY BasesType, BasesStand DEF L
<1>4. FallbackList(c) = L /\ AtLeastOne(c.original) = L /\ AtLeastOne(c.sale) = FallbackSale(c)
      /\ FallbackSale(c) = P.sale
  BY <1>1, <1>2, BasesStand
<1> HIDE DEF b, c
<1>5. /\ r.mode \in {"keep", "from_sources", "dual_times",
                       "fixed_list_discount", "fixed_list_sale", "fixed_sale_discount"}
      /\ r.list \in Int /\ r.sale \in Int /\ r.percent \in Int /\ r.fixedPercent \in Int
      /\ r.fixedList \in Nat /\ r.fixedSale \in Nat
  BY DEF RequestFields
<1>6. \A sale \in Nat \ {0}, percent \in Int :
        Priced(ListFromSaleAndDiscount(sale, percent), percent).sale = sale
  BY SaleStands DEF Priced
<1>7. \A list \in Nat \ {0} : LET Q == NormalizePair(list, Min({list, S}))
                              IN  NormalizePair(list, Min({list, Q.sale})) = Q
  <2> SUFFICES ASSUME NEW list \in Nat \ {0}
               PROVE  NormalizePair(list, Min({list, NormalizePair(list, Min({list, S})).sale}))
                        = NormalizePair(list, Min({list, S}))
    OBVIOUS
  <2> DEFINE s == Min({list, S})
             Q == NormalizePair(list, s)
  <2>1. s \in Nat \ {0} /\ s <= list
    <3>1. list \in Int /\ S \in Int /\ S >= 1 /\ list >= 1
      BY <1>3
    <3>2. s = IF list <= S THEN list ELSE S
      BY <3>1, TwoNumbers
    <3> HIDE DEF s, S
    <3> QED BY <3>1, <3>2
  <2> HIDE DEF s
  <2>2. Q \in Shelved /\ NormalizePair(list, Q.sale) = Q /\ Q.list = list
    BY <2>1, PairStands
  <2> HIDE DEF Q
  <2>3. Q.sale \in Nat /\ Q.sale <= list
    BY <2>2 DEF Shelved
  <2>4. Min({list, Q.sale}) = Q.sale
    <3> DEFINE t == Q.sale
    <3>1. t \in Int /\ list \in Int /\ t <= list
      BY <2>3
    <3> HIDE DEF t
    <3>2. Min({list, t}) = IF list <= t THEN list ELSE t
      BY <3>1, TwoNumbers
    <3> QED BY <3>1, <3>2 DEF t
  <2> QED BY <2>2, <2>4 DEF Q, s
<1>8. CASE {r.list, r.sale, r.percent} # {Null}
  <2>1. P = ResolveManualShelfPrice(r, b) /\ ComputeWbShelfPrice(p, r) = ResolveManualShelfPrice(r, c)
    BY <1>8 DEF ComputeWbShelfPrice, P, b, c
  <2>2. CASE r.list # Null /\ r.percent # Null
    BY <2>1, <2>2 DEF ResolveManualShelfPrice
  <2>3. CASE r.list # Null /\ r.percent = Null /\ r.sale # Null
    BY <2>1, <2>3 DEF ResolveManualShelfPrice
  <2>4. CASE r.list = Null /\ r.sale # Null /\ r.percent # Null
    BY <2>1, <2>4 DEF ResolveManualShelfPrice
  <2>5. CASE r.list # Null /\ r.sale = Null /\ r.percent = Null
    <3>1. P = NormalizePair(r.list, Min({r.list, S}))
          /\ ComputeWbShelfPrice(p, r) = NormalizePair(r.list, Min({r.list, P.sale}))
      BY <2>1, <2>5, <1>4 DEF ResolveManualShelfPrice
    <3>2. CASE r.list >= 1
      BY <3>1, <3>2, <1>5, <1>7
    <3>3. CASE r.list < 1
      <4>1. Min({r.list, S}) = r.list /\ Min({r.list, P.sale}) = r.list
        <5>1. r.list \in Int /\ S \in Int /\ P.sale \in Int /\ r.list <= S /\ r.list <= P.sale
          BY <3>3, <1>1, <1>3, <1>5
        <5> HIDE DEF S
        <5> QED BY <5>1, TwoNumbers
      <4> QED BY <3>1, <4>1
    <3> QED BY <3>2, <3>3, <1>5
  <2>6. CASE r.list = Null /\ r.sale # Null /\ r.percent = Null
    BY <2>1, <2>6, <1>3, <1>4 DEF ResolveManualShelfPrice
  <2>7. CASE r.list = Null /\ r.sale = Null
    BY <2>1, <2>7, <1>3, <1>4 DEF ResolveManualShelfPrice
  <2> QED BY <2>2, <2>3, <2>4, <2>5, <2>6, <2>7
<1>9. CASE {r.list, r.sale, r.percent} = {Null}
  <2>1. r.mode \in {"keep", "fixed_list_discount", "fixed_list_sale", "fixed_sale_discount"}
    BY <1>5, <1>9 DEF Multiplies
  <2> DEFINE R == ComputeWbShelfPrice(p, r)
  <2>2. CASE r.mode = "keep"
    <3>1. P = NormalizePair(L, Min({L, S})) /\ R = NormalizePair(L, Min({L, P.sale}))
      BY <2>2, <1>3, <1>4, <1>9 DEF ComputeWbShelfPrice, P, b, c
    <3> QED BY <3>1, <1>2, <1>7
  <2>3. CASE r.mode = "fixed_list_discount"
    <3>1. P = Priced(First(r.fixedList, L, 1), r.fixedPercent) /\ R = P
      BY <2>3, <1>3, <1>4, <1>9 DEF ComputeWbShelfPrice, P, b, c
    <3> QED BY <3>1
  <2>4. CASE r.mode = "fixed_list_sale"
    <3> DEFINE list == First(r.fixedList, L, 1)
    <3>1. P = NormalizePair(list, First(r.fixedSale, S, 1)) /\ R = NormalizePair(list, First(r.fixedSale, P.sale, 1))
      BY <2>4, <1>3, <1>4, <1>9 DEF ComputeWbShelfPrice, P, b, c
    <3>2. list \in Nat \ {0}
      BY <1>2, <1>5 DEF First
    <3> HIDE DEF list
    <3>3. CASE r.fixedSale > 0
      BY <3>1, <3>3 DEF First
    <3>4. CASE ~(r.fixedSale > 0)
      <4>1. First(r.fixedSale, S, 1) = S /\ First(r.fixedSale, P.sale, 1) = P.sale
        BY <3>4, <1>1, <1>3 DEF First
      <4>2. NormalizePair(list, P.sale) = P
        BY <3>1, <3>2, <4>1, <1>3, PairStands
      <4> QED BY <3>1, <4>1, <4>2
    <3> QED BY <3>3, <3>4
  <2>5. CASE r.mode = "fixed_sale_discount"
    <3> DEFINE From(sale) == Priced(ListFromSaleAndDiscount(sale, r.fixedPercent), r.fixedPercent)
    <3>1. P = From(First(r.fixedSale, S, 1)) /\ R = From(First(r.fixedSale, P.sale, 1))
      BY <2>5, <1>3, <1>4, <1>9 DEF ComputeWbShelfPrice, P, b, c
    <3>2. CASE r.fixedSale > 0
      BY <3>1, <3>2 DEF First
    <3>3. CASE ~(r.fixedSale > 0)
      <4>1. First(r.fixedSale, S, 1) = S /\ First(r.fixedSale, P.sale, 1) = P.sale
        BY <3>3, <1>1, <1>3 DEF First
      <4>2. P.sale = S
        BY <3>1, <4>1, <1>3, <1>5, <1>6
      <4> QED BY <3>1, <4>1, <4>2
    <3> QED BY <3>2, <3>3
  <2> QED BY <2>1, <2>2, <2>3, <2>4, <2>5
<1> QED BY <1>8, <1>9

-----------------------------------------------------------------------------
\* The product has the price of its last shelving, which started from some price
\* of the same page.  RelistKeepsPrice needs to know where the prices came from.
ShelvedFrom(q) ==
  /\ shelved.request \in Requests
  /\ shelved = [request |-> shelved.request, prices |-> ComputeWbShelfPrice(q, shelved.request)]
  /\ product = [q EXCEPT !.price = shelved.prices.sale]

ShelfInv ==
  /\ product \in Prices /\ [product EXCEPT !.price = 0] \in {[c EXCEPT !.price = 0] : c \in Crawled}
  /\ shelved = NotShelved \/ \E q \in Prices : ShelvedFrom(q)

LEMMA PricesKnown == Crawled \subseteq Prices /\ Requests \subseteq RequestFields /\ \A r \in Requests : r # Plainly("none")
<1>1. Crawled \subseteq Prices /\ Requests \subseteq RequestFields
  BY PriceAssumptions DEF Prices, RequestFields
<1>2. \A r \in Requests : r.mode # "none"
  BY <1>1 DEF RequestFields
<1> QED BY <1>1, <1>2 DEF Plainly

\* What a shelving leaves.
LEMMA ShelveStep ==
  ASSUME ShelfInv, NEW r \in Requests, Shelve(r)
  PROVE  ShelfInv'
<1> DEFINE P == ComputeWbShelfPrice(product, r)
<1>1. P \in Shelved /\ P.sale \in Nat
  BY PricesKnown, ComputedPrices DEF ShelfInv, Shelved
<1>2. product' = [product EXCEPT !.price = P.sale] /\ shelved' = [request |-> r, prices |-> P]
  BY DEF Shelve
<1> HIDE DEF P
<1>3. product' \in Prices
  BY <1>1, <1>2 DEF ShelfInv, Prices
<1>4. [product' EXCEPT !.price = 0] = [product EXCEPT !.price = 0]
  BY <1>2 DEF ShelfInv, Prices
<1>5. /\ shelved'.request = r /\ shelved'.prices = P
      /\ product' = [product EXCEPT !.price = shelved'.prices.sale]
      /\ shelved' = [request |-> shelved'.request, prices |-> ComputeWbShelfPrice(product, shelved'.request)]
  BY <1>2 DEF P
<1>6. PICK q \in Prices : q = product
  BY DEF ShelfInv
<1>7. ShelvedFrom(q)'
  BY <1>5, <1>6 DEF ShelvedFrom
<1>8. [product' EXCEPT !.price = 0] \in {[c EXCEPT !.price = 0] : c \in Crawled}
  BY <1>4 DEF ShelfInv
<1> QED BY <1>3, <1>7, <1>8 DEF ShelfInv

LEMMA ShelfInvariant == ShelfSpec => []ShelfInv
<1>1. ShelfInit => ShelfInv
  <2> SUFFICES ASSUME ShelfInit PROVE ShelfInv
    OBVIOUS
  <2>1. product \in Crawled /\ product \in Prices /\ shelved = NotShelved
    BY PricesKnown DEF ShelfInit
  <2> QED BY <2>1 DEF ShelfInv
<1>2. ShelfInv /\ [ShelfNext]_priceVars => ShelfInv'
  <2> SUFFICES ASSUME ShelfInv, [ShelfNext]_priceVars PROVE ShelfInv'
    OBVIOUS
  <2>1. CASE UNCHANGED priceVars
    BY <2>1 DEF priceVars, ShelfInv, ShelvedFrom
  <2>2. CASE Recollect
    <3>1. product' \in Crawled /\ product' \in Prices /\ shelved' = NotShelved
      BY <2>2, PricesKnown DEF Recollect
    <3> QED BY <3>1 DEF ShelfInv, NotShelved
  <2>3. CASE \E r \in Requests : Shelve(r)
    BY <2>3, ShelveStep
  <2> QED BY <2>1, <2>2, <2>3 DEF ShelfNext
<1> QED BY <1>1, <1>2, PTL DEF ShelfSpec

\* The types of the product's prices; no product is on the shelf with a sale price
\* above its list price, nor below one rouble (computeWbShelfPrice).
THEOREM PriceTypesCorrect == ShelfSpec => []PriceTypeOK
<1>1. ShelfInv => PriceTypeOK
  <2> SUFFICES ASSUME ShelfInv PROVE PriceTypeOK
    OBVIOUS
  <2>1. shelved.prices \in Shelved
    <3>1. CASE shelved = NotShelved
      BY <3>1, PricedType DEF NotShelved
    <3>2. ASSUME NEW q \in Prices, ShelvedFrom(q) PROVE shelved.prices \in Shelved
      BY <3>2, PricesKnown, ComputedPrices DEF ShelvedFrom
    <3> QED BY <3>1, <3>2 DEF ShelfInv
  <2> QED BY <2>1 DEF ShelfInv, PriceTypeOK, Prices, Shelved
<1> QED BY <1>1, ShelfInvariant, PTL

\* Shelving a product again with the same request changes no price, for any prices
\* and any request that does not multiply (shelfMany).
THEOREM RelistingKeepsPrice == ShelfSpec => RelistKeepsPrice
<1>1. ShelfInv /\ [ShelfNext]_priceVars =>
        [/\ shelved' # NotShelved /\ shelved'.request = shelved.request
         /\ ~Multiplies(shelved.request) /\ product.original > 0
         => shelved' = shelved /\ product' = product]_priceVars
  <2> SUFFICES ASSUME ShelfInv, [ShelfNext]_priceVars,
                      shelved' # NotShelved, shelved'.request = shelved.request,
                      ~Multiplies(shelved.request), product.original > 0
               PROVE  shelved' = shelved /\ product' = product
    OBVIOUS
  <2>1. CASE UNCHANGED priceVars
    BY <2>1 DEF priceVars
  <2>2. CASE ShelfNext
    <3>1. PICK r \in Requests : Shelve(r)
      BY <2>2 DEF ShelfNext, Recollect
    <3>2. /\ shelved' = [request |-> r, prices |-> ComputeWbShelfPrice(product, r)]
          /\ product' = [product EXCEPT !.price = shelved'.prices.sale]
      BY <3>1 DEF Shelve
    <3>3. shelved.request = r
      BY <3>2
    <3>4. shelved # NotShelved
      BY <3>3, PricesKnown DEF NotShelved
    <3>5. PICK q \in Prices : ShelvedFrom(q)
      BY <3>4 DEF ShelfInv
    <3> DEFINE P == ComputeWbShelfPrice(q, r)
    <3>6. shelved = [request |-> r, prices |-> P] /\ product = [q EXCEPT !.price = P.sale]
      BY <3>3, <3>5 DEF ShelvedFrom
    <3>7. r \in RequestFields /\ ~Multiplies(r) /\ q.original > 0
      BY <3>3, <3>6, PricesKnown DEF Prices
    <3>8. ComputeWbShelfPrice(product, r) = P
      BY <3>6, <3>7, PricesStand
    <3> HIDE DEF P
    <3>9. shelved' = shelved /\ shelved'.prices.sale = P.sale
      BY <3>2, <3>6, <3>8
    <3> QED BY <3>2, <3>6, <3>9 DEF Prices
  <2> QED BY <2>1, <2>2
<1> QED BY <1>1, ShelfInvariant, PTL DEF ShelfSpec, RelistKeepsPrice

-----------------------------------------------------------------------------
(* OrderFulfillment, for any orders, desks and tracking numbers: the       *)
(* records of an order agree.                                              *)

AdvanceSteps == {"place", "advanceWrite", "syncSales", "raiseAlert"}
InboundSteps == {"inboundCheck", "inboundCreate", "inboundSales"}
OutboundSteps == {"outboundCheck", "outboundCreate", "outboundSales"}
CreateSteps == {"createSales", "createPurchase", "createLink"}
WorkSteps == CreateSteps \cup AdvanceSteps \cup InboundSteps \cup OutboundSteps

Slots ==
  [pc : WorkSteps \cup {"free", "advanceRead"}, order : Order \cup {NoOrder}, todo : SUBSET Order,
   fail : BOOLEAN, next : PurchaseStatuses \cup {"NONE"}, inform : SUBSET Order, stock : Nat,
   tracking : Tracking \cup {Free.tracking}]

\* What a slot holds at each step: an order while it is in use, the quantity of an
\* inbound, and the row and number of a parcel.
SlotOK(v) ==
  /\ v \in Slots
  /\ v.pc = "free" <=> v.order = NoOrder
  /\ v.inform \subseteq {v.order}
  /\ v.pc \in InboundSteps => v.stock \in 1 .. Ordered
  /\ v.pc \in OutboundSteps => /\ v.tracking \in Tracking
                               /\ \E i \in inbounds : i.order = v.order /\ i.nr = v.stock
SlotsOK == desk \in [Desk -> Slots] /\ \A d \in Desk : SlotOK(desk[d])

RowsOK ==
  /\ onShelf \in BOOLEAN
  /\ sales \in [Order -> SalesStatuses \cup {"NONE"}]
  /\ purchase \in [Order -> PurchaseStatuses \cup {"NONE"}]
  /\ linked \subseteq Order /\ raced \subseteq Order
  /\ placed \in [Order -> Nat] /\ errands \in Nat
  /\ alerts \in [Order -> [OPEN : Nat, RESOLVED : Nat]]

GoodsOK ==
  /\ IsFiniteSet(inbounds)
  /\ \A i \in inbounds : i.order \in Order /\ i.nr \in Nat /\ i.quantity \in 1 .. Ordered
  /\ \A x \in outbounds : /\ x.order \in Order /\ x.nr \in Nat /\ x.tracking \in Tracking
                          /\ \E i \in inbounds : i.order = x.order /\ i.nr = x.nr

OrderTypes == RowsOK /\ GoodsOK /\ SlotsOK

-----------------------------------------------------------------------------
(***************************************************************************)
(* The states an order is in while nobody works on it.                     *)
(***************************************************************************)
BoughtStatuses == {"PURCHASE_SUCCESS", "SHIPPED_TO_WB", "ARRIVED_WB"}
Bought(o) == placed[o] = IF purchase[o] \in BoughtStatuses THEN 1 ELSE 0
Parcels(o) == {x \in outbounds : x.order = o}

Unmade(o) == sales[o] = "NONE" /\ purchase[o] = "NONE" /\ o \notin linked /\ InboundOf(o) = {} /\ Bought(o)
Followed(o) ==
  /\ purchase[o] # "NONE" /\ sales[o] = SalesStatusForPurchase(purchase[o])
  /\ o \in linked /\ InboundOf(o) = {} /\ Bought(o)
  /\ purchase[o] = "PURCHASE_FAILED" => alerts[o].OPEN + alerts[o].RESOLVED > 0
Booked(o) == purchase[o] = "ARRIVED_WB" /\ o \in linked /\ InboundOf(o) # {} /\ Bought(o)
Stocked(o) == Booked(o) /\ sales[o] = IF Parcels(o) # {} THEN "SHIPPED" ELSE "INBOUND"
Agrees(o) == Unmade(o) \/ Followed(o) \/ Stocked(o)

\* What a handler knows, at each step, of an order that nobody else worked on.
Knows(d) ==
  LET v == desk[d]
      o == v.order
  IN
  /\ v.pc = "createSales" => Unmade(o)
  /\ v.pc \in {"createPurchase", "createLink"} =>
       /\ purchase[o] = (IF v.pc = "createPurchase" THEN "NONE" ELSE "PENDING_PURCHASE")
       /\ sales[o] = "PURCHASE_PENDING" /\ o \notin linked /\ InboundOf(o) = {} /\ Bought(o)
  /\ v.pc \in AdvanceSteps => o \in linked /\ InboundOf(o) = {}
  /\ v.pc \in {"place", "advanceWrite", "syncSales"} => v.inform = {o}
  /\ v.pc = "place" => Followed(o) /\ purchase[o] = "PENDING_PURCHASE" /\ v.next = "PURCHASE_SUCCESS"
  /\ v.pc = "advanceWrite" => /\ v.next \in BoughtStatuses \cup {"PURCHASE_FAILED"}
                              /\ placed[o] = IF v.next \in BoughtStatuses THEN 1 ELSE 0
  /\ v.pc = "syncSales" => purchase[o] = v.next /\ v.next \in BoughtStatuses \cup {"PURCHASE_FAILED"} /\ Bought(o)
  /\ v.pc = "raiseAlert" => purchase[o] = "PURCHASE_FAILED" /\ sales[o] = "EXCEPTION" /\ Bought(o)
  /\ v.pc \in InboundSteps => purchase[o] = "ARRIVED_WB" /\ o \in linked /\ Bought(o)
  /\ v.pc = "inboundCheck" => Agrees(o)
  /\ v.pc = "inboundCreate" => InboundOf(o) = {}
  /\ v.pc = "inboundSales" => InboundOf(o) # {} /\ Parcels(o) = {}
  /\ v.pc \in {"outboundCheck", "outboundCreate"} => Stocked(o)
  /\ v.pc = "outboundCreate" => Parcels(o) = {}
  /\ v.pc = "outboundSales" => Booked(o) /\ Parcels(o) # {}

Working(d, o) == desk[d].order = o /\ desk[d].pc \in WorkSteps

\* One handler at a time, unless the order is named in raced.
Alone == \A o \in Order \ raced : \A d, e \in Desk : Working(d, o) /\ Working(e, o) => d = e
AllKnow == \A d \in Desk : desk[d].pc \in WorkSteps /\ desk[d].order \notin raced => Knows(d)
RestAgrees == \A o \in Order \ raced : (\A d \in Desk : ~Working(d, o)) => Agrees(o)

\* Goods of an order are booked in once and out once, a tracking number is used once.
GoodsApart ==
  /\ \A i, j \in inbounds : i.order = j.order /\ i.order \notin raced => i = j
  /\ \A x, y \in outbounds : x # y => x.tracking # y.tracking /\ (x.order \in raced \/ x.order # y.order)

OrderInv == OrderTypes /\ Alone /\ AllKnow /\ RestAgrees /\ GoodsApart

-----------------------------------------------------------------------------
\* What the two status functions give.
LEMMA Statuses ==
  /\ SalesStatusForPurchase("PENDING_PURCHASE") = "PURCHASE_PENDING"
  /\ SalesStatusForPurchase("PURCHASE_SUCCESS") = "PURCHASING"
  /\ SalesStatusForPurchase("PURCHASE_FAILED") = "EXCEPTION"
  /\ SalesStatusForPurchase("SHIPPED_TO_WB") = "IN_TRANSIT_WB"
  /\ SalesStatusForPurchase("ARRIVED_WB") = "ARRIVED_WB"
  /\ AdvancePurchaseStatus("PENDING_PURCHASE") = "PURCHASE_SUCCESS"
  /\ AdvancePurchaseStatus("PURCHASE_SUCCESS") = "SHIPPED_TO_WB"
  /\ AdvancePurchaseStatus("SHIPPED_TO_WB") = "ARRIVED_WB"
  /\ AdvancePurchaseStatus("PURCHASE_FAILED") = "NONE"
  /\ AdvancePurchaseStatus("ARRIVED_WB") = "NONE"
  /\ AdvancePurchaseStatus("NONE") = "NONE"
BY DEF SalesStatusForPurchase, AdvancePurchaseStatus

\* Every status of a purchase has a status of its sales order, and is advanced to a status.
LEMMA StatusTypes ==
  \A s \in PurchaseStatuses \cup {"NONE"} :
    /\ s # "NONE" => SalesStatusForPurchase(s) \in SalesStatuses
    /\ AdvancePurchaseStatus(s) \in PurchaseStatuses \cup {"NONE"}
    /\ AdvancePurchaseStatus(s) = "PURCHASE_SUCCESS" => s = "PENDING_PURCHASE"
    /\ AdvancePurchaseStatus(s) = "SHIPPED_TO_WB" => s = "PURCHASE_SUCCESS"
    /\ AdvancePurchaseStatus(s) = "ARRIVED_WB" => s = "SHIPPED_TO_WB"
<1> SUFFICES ASSUME NEW s \in PurchaseStatuses \cup {"NONE"}
             PROVE  /\ s # "NONE" => SalesStatusForPurchase(s) \in SalesStatuses
                    /\ AdvancePurchaseStatus(s) \in PurchaseStatuses \cup {"NONE"}
                    /\ AdvancePurchaseStatus(s) = "PURCHASE_SUCCESS" => s = "PENDING_PURCHASE"
                    /\ AdvancePurchaseStatus(s) = "SHIPPED_TO_WB" => s = "PURCHASE_SUCCESS"
                    /\ AdvancePurchaseStatus(s) = "ARRIVED_WB" => s = "SHIPPED_TO_WB"
  OBVIOUS
<1>1. CASE s = "PENDING_PURCHASE" BY <1>1, Statuses DEF SalesStatuses, PurchaseStatuses
<1>2. CASE s = "PURCHASE_SUCCESS" BY <1>2, Statuses DEF SalesStatuses, PurchaseStatuses
<1>3. CASE s = "PURCHASE_FAILED" BY <1>3, Statuses DEF SalesStatuses, PurchaseStatuses
<1>4. CASE s = "SHIPPED_TO_WB" BY <1>4, Statuses DEF SalesStatuses, PurchaseStatuses
<1>5. CASE s = "ARRIVED_WB" BY <1>5, Statuses DEF SalesStatuses, PurchaseStatuses
<1>6. CASE s = "NONE" BY <1>6, Statuses DEF SalesStatuses, PurchaseStatuses
<1> QED BY <1>1, <1>2, <1>3, <1>4, <1>5, <1>6 DEF PurchaseStatuses

\* An unused slot.
LEMMA FreeSlot ==
  /\ Free \in Slots /\ Free.pc = "free" /\ Free.order = NoOrder /\ Free.inform = {} /\ Free.fail = FALSE
  /\ \A step, o : LET v == [Free EXCEPT !.pc = step, !.order = o]
                  IN  v.pc = step /\ v.order = o /\ v.inform = {}
<1> DEFINE t == CHOOSE x \in Tracking : TRUE
<1>1. Free = [pc |-> "free", order |-> NoOrder, todo |-> {}, fail |-> FALSE, next |-> "NONE",
              inform |-> {}, stock |-> 0, tracking |-> t]
  BY DEF Free
<1> HIDE DEF t
<1>2. Free.tracking = t
  BY <1>1
<1>3. Free \in Slots
  BY <1>1, <1>2 DEF Slots
<1> QED BY <1>1, <1>3

\* Where each way to go on leaves the handler's slot.
LEMMA SlotAfter ==
  ASSUME SlotsOK, NEW d \in Desk
  PROVE  /\ \A step : GotoStep(d, step) => desk' = [desk EXCEPT ![d] = [desk[d] EXCEPT !.pc = step]]
         /\ \A step : LET v == [desk[d] EXCEPT !.pc = step]
                      IN  /\ v.pc = step /\ v.order = desk[d].order /\ v.todo = desk[d].todo /\ v.next = desk[d].next
                          /\ v.inform = desk[d].inform /\ v.stock = desk[d].stock /\ v.tracking = desk[d].tracking
                          /\ step \in WorkSteps => v \in Slots
         /\ Leave(d) => desk' = [desk EXCEPT ![d] = Free]
         /\ \A todo \in SUBSET Order : NextInBatch(d, todo) =>
              \/ desk' = [desk EXCEPT ![d] = Free]
              \/ \E o \in todo, v \in Slots :
                   desk' = [desk EXCEPT ![d] = v] /\ v.pc = "advanceRead" /\ v.order = o /\ v.inform = {}
<1>1. desk[d] \in Slots /\ desk \in [Desk -> Slots]
  BY DEF SlotsOK
<1>2. \A step : GotoStep(d, step) => desk' = [desk EXCEPT ![d] = [desk[d] EXCEPT !.pc = step]]
  BY <1>1 DEF GotoStep
<1>3. \A step : LET v == [desk[d] EXCEPT !.pc = step]
                IN  /\ v.pc = step /\ v.order = desk[d].order /\ v.todo = desk[d].todo /\ v.next = desk[d].next
                    /\ v.inform = desk[d].inform /\ v.stock = desk[d].stock /\ v.tracking = desk[d].tracking
                    /\ step \in WorkSteps => v \in Slots
  BY <1>1 DEF Slots
<1>4. ASSUME NEW todo \in SUBSET Order, NextInBatch(d, todo), todo # {}
      PROVE  \E o \in todo, v \in Slots :
               desk' = [desk EXCEPT ![d] = v] /\ v.pc = "advanceRead" /\ v.order = o /\ v.inform = {}
  <2>1. PICK o \in todo : desk' = [desk EXCEPT ![d] = [Free EXCEPT !.pc = "advanceRead", !.order = o, !.todo = todo \ {o}]]
    BY <1>4 DEF NextInBatch
  <2> DEFINE v == [Free EXCEPT !.pc = "advanceRead", !.order = o, !.todo = todo \ {o}]
  <2>2. v \in Slots /\ v.pc = "advanceRead" /\ v.order = o /\ v.inform = {}
    BY FreeSlot DEF Slots
  <2>3. desk' = [desk EXCEPT ![d] = v]
    BY <2>1
  <2> HIDE DEF v
  <2> QED BY <2>2, <2>3
<1>5. \A todo : NextInBatch(d, todo) /\ todo = {} => desk' = [desk EXCEPT ![d] = Free]
  BY DEF NextInBatch, Leave
<1> QED BY <1>2, <1>3, <1>4, <1>5 DEF Leave

\* A slot that is in order after a step.
SlotNext(v) ==
  /\ v \in Slots
  /\ v.pc = "free" <=> v.order = NoOrder
  /\ v.inform \subseteq {v.order}
  /\ v.pc \in InboundSteps => v.stock \in 1 .. Ordered
  /\ v.pc \in OutboundSteps => /\ v.tracking \in Tracking
                               /\ \E i \in inbounds' : i.order = v.order /\ i.nr = v.stock

\* One slot changes, and goods are only ever booked in.
LEMMA SlotsTurn ==
  ASSUME SlotsOK, inbounds \subseteq inbounds', NEW d \in Desk,
         NEW v, desk' = [desk EXCEPT ![d] = v], SlotNext(v)
  PROVE  SlotsOK'
<1>1. desk' \in [Desk -> Slots] /\ desk'[d] = v /\ \A e \in Desk \ {d} : desk'[e] = desk[e]
  BY DEF SlotsOK, SlotNext
<1>2. ASSUME NEW e \in Desk PROVE SlotOK(desk[e])'
  <2>1. CASE e = d
    BY <1>1, <2>1 DEF SlotNext, SlotOK
  <2>2. CASE e # d
    <3>1. SlotOK(desk[e]) /\ desk'[e] = desk[e]
      BY <1>1, <2>2 DEF SlotsOK
    <3> QED BY <3>1 DEF SlotOK
  <2> QED BY <2>1, <2>2
<1> QED BY <1>1, <1>2 DEF SlotsOK

\* A handler that goes on, stops or takes up the next order of its batch keeps its slot in order.
LEMMA SlotsGoOn ==
  ASSUME OrderTypes, inbounds \subseteq inbounds', NEW d \in Desk,
         \/ Leave(d)
         \/ \E todo \in SUBSET Order : NextInBatch(d, todo)
         \/ desk[d].pc \in CreateSteps \cup AdvanceSteps /\ \E step \in CreateSteps \cup AdvanceSteps : GotoStep(d, step)
         \/ desk[d].pc \in InboundSteps /\ \E step \in InboundSteps : GotoStep(d, step)
         \/ desk[d].pc \in OutboundSteps /\ \E step \in OutboundSteps : GotoStep(d, step)
  PROVE  SlotsOK'
<1>0. SlotsOK /\ SlotOK(desk[d]) /\ desk[d] \in Slots /\ NoOrder \notin Order
  BY OrderAssumptions DEF OrderTypes, SlotsOK
<1>1. CASE desk' = [desk EXCEPT ![d] = Free]
  <2>1. SlotNext(Free)
    BY FreeSlot DEF SlotNext, InboundSteps, OutboundSteps
  <2> QED BY <1>0, <1>1, <2>1, SlotsTurn
<1>2. ASSUME NEW o \in Order, NEW v \in Slots, desk' = [desk EXCEPT ![d] = v], v.pc = "advanceRead", v.order = o, v.inform = {}
      PROVE  SlotsOK'
  <2>1. SlotNext(v)
    BY <1>0, <1>2 DEF SlotNext, InboundSteps, OutboundSteps
  <2> QED BY <1>0, <1>2, <2>1, SlotsTurn
<1>3. ASSUME NEW step \in WorkSteps, GotoStep(d, step), desk[d].pc # "free",
             step \in InboundSteps => desk[d].pc \in InboundSteps, step \in OutboundSteps => desk[d].pc \in OutboundSteps
      PROVE  SlotsOK'
  <2> DEFINE v == [desk[d] EXCEPT !.pc = step]
  <2>1. /\ v \in Slots /\ v.pc = step /\ v.order = desk[d].order /\ v.inform = desk[d].inform
        /\ v.stock = desk[d].stock /\ v.tracking = desk[d].tracking
    BY <1>0, SlotAfter
  <2>2. desk' = [desk EXCEPT ![d] = v]
    BY <1>0, <1>3, SlotAfter
  <2> HIDE DEF v
  <2>3. SlotNext(v)
    BY <1>0, <1>3, <2>1 DEF SlotNext, SlotOK, WorkSteps, CreateSteps, AdvanceSteps, InboundSteps, OutboundSteps
  <2> QED BY <1>0, <2>2, <2>3, SlotsTurn
<1>4. CASE Leave(d)
  BY <1>0, <1>1, <1>4, SlotAfter
<1>5. ASSUME NEW todo \in SUBSET Order, NextInBatch(d, todo) PROVE SlotsOK'
  <2>1. \/ desk' = [desk EXCEPT ![d] = Free]
        \/ \E o \in todo, v \in Slots :
             desk' = [desk EXCEPT ![d] = v] /\ v.pc = "advanceRead" /\ v.order = o /\ v.inform = {}
    BY <1>0, <1>5, SlotAfter
  <2> QED BY <1>1, <1>2, <2>1
<1>6. CASE desk[d].pc \in CreateSteps \cup AdvanceSteps /\ \E step \in CreateSteps \cup AdvanceSteps : GotoStep(d, step)
  BY <1>3, <1>6 DEF WorkSteps, CreateSteps, AdvanceSteps, InboundSteps, OutboundSteps
<1>7. CASE \/ desk[d].pc \in InboundSteps /\ \E step \in InboundSteps : GotoStep(d, step)
           \/ desk[d].pc \in OutboundSteps /\ \E step \in OutboundSteps : GotoStep(d, step)
  BY <1>3, <1>7 DEF WorkSteps, InboundSteps, OutboundSteps
<1> QED BY <1>4, <1>5, <1>6, <1>7

\* The slot of a handler whose order's status has been read.
LEMMA ReadSlot ==
  ASSUME OrderTypes, NEW d \in Desk, AdvanceRead(d)
  PROVE  /\ desk[d].pc = "advanceRead" /\ desk[d].order \in Order
         /\ \/ desk' = [desk EXCEPT ![d] = Free]
            \/ \E v \in Slots :
                 /\ desk' = [desk EXCEPT ![d] = v] /\ v.order = desk[d].order /\ v.inform = {v.order} \cap linked
                 /\ \/ v.pc = "place" /\ v.next = "PURCHASE_SUCCESS" /\ purchase[v.order] = "PENDING_PURCHASE"
                    \/ /\ v.pc = "advanceWrite"
                       /\ \/ v.next = "PURCHASE_FAILED" /\ purchase[v.order] = "PENDING_PURCHASE"
                          \/ v.next = "SHIPPED_TO_WB" /\ purchase[v.order] = "PURCHASE_SUCCESS"
                          \/ v.next = "ARRIVED_WB" /\ purchase[v.order] = "SHIPPED_TO_WB"
<1> DEFINE o == desk[d].order
           next == AdvancePurchaseStatus(purchase[o])
<1>1. SlotOK(desk[d]) /\ desk[d] \in Slots /\ desk[d].pc = "advanceRead" /\ o \in Order /\ desk \in [Desk -> Slots]
  BY DEF OrderTypes, SlotsOK, SlotOK, AdvanceRead, DeskAt, Slots
<1>2. purchase[o] \in PurchaseStatuses \cup {"NONE"} /\ linked \subseteq Order
  BY <1>1 DEF OrderTypes, RowsOK
<1>4. \/ desk' = [desk EXCEPT ![d] = Free]
      \/ /\ desk' = [desk EXCEPT ![d].pc = "advanceWrite", ![d].next = "PURCHASE_FAILED", ![d].inform = {o} \cap linked]
         /\ purchase[o] = "PENDING_PURCHASE"
      \/ /\ desk' = [desk EXCEPT ![d].pc = "place", ![d].next = next, ![d].inform = {o} \cap linked]
         /\ next = "PURCHASE_SUCCESS"
      \/ /\ desk' = [desk EXCEPT ![d].pc = "advanceWrite", ![d].next = next, ![d].inform = {o} \cap linked]
         /\ next \in {"SHIPPED_TO_WB", "ARRIVED_WB"}
  BY DEF AdvanceRead, Leave, MayFail
<1>5. /\ next = "PURCHASE_SUCCESS" => purchase[o] = "PENDING_PURCHASE"
      /\ next = "SHIPPED_TO_WB" => purchase[o] = "PURCHASE_SUCCESS"
      /\ next = "ARRIVED_WB" => purchase[o] = "SHIPPED_TO_WB"
  BY <1>2, StatusTypes
<1> HIDE DEF next
<1>6. CASE desk' = [desk EXCEPT ![d] = Free]
  BY <1>1, <1>6
<1>7. ASSUME NEW status \in PurchaseStatuses, NEW step \in {"place", "advanceWrite"},
             desk' = [desk EXCEPT ![d].pc = step, ![d].next = status, ![d].inform = {o} \cap linked],
             \/ step = "place" /\ status = "PURCHASE_SUCCESS" /\ purchase[o] = "PENDING_PURCHASE"
             \/ /\ step = "advanceWrite"
                /\ \/ status = "PURCHASE_FAILED" /\ purchase[o] = "PENDING_PURCHASE"
                   \/ status = "SHIPPED_TO_WB" /\ purchase[o] = "PURCHASE_SUCCESS"
                   \/ status = "ARRIVED_WB" /\ purchase[o] = "SHIPPED_TO_WB"
      PROVE  \E v \in Slots :
                 /\ desk' = [desk EXCEPT ![d] = v] /\ v.order = o /\ v.inform = {v.order} \cap linked
                 /\ \/ v.pc = "place" /\ v.next = "PURCHASE_SUCCESS" /\ purchase[v.order] = "PENDING_PURCHASE"
                    \/ /\ v.pc = "advanceWrite"
                       /\ \/ v.next = "PURCHASE_FAILED" /\ purchase[v.order] = "PENDING_PURCHASE"
                          \/ v.next = "SHIPPED_TO_WB" /\ purchase[v.order] = "PURCHASE_SUCCESS"
                          \/ v.next = "ARRIVED_WB" /\ purchase[v.order] = "SHIPPED_TO_WB"
  <2> DEFINE v == [desk[d] EXCEPT !.pc = step, !.next = status, !.inform = {o} \cap linked]
  <2>0. desk' = [desk EXCEPT ![d] = v]
    BY <1>1, <1>7
  <2>1. v \in Slots /\ v.order = o /\ v.inform = {v.order} \cap linked /\ v.pc = step /\ v.next = status
    BY <1>1, <1>2 DEF Slots, WorkSteps, AdvanceSteps
  <2> HIDE DEF v
  <2>2. \/ v.pc = "place" /\ v.next = "PURCHASE_SUCCESS" /\ purchase[v.order] = "PENDING_PURCHASE"
        \/ /\ v.pc = "advanceWrite"
           /\ \/ v.next = "PURCHASE_FAILED" /\ purchase[v.order] = "PENDING_PURCHASE"
              \/ v.next = "SHIPPED_TO_WB" /\ purchase[v.order] = "PURCHASE_SUCCESS"
              \/ v.next = "ARRIVED_WB" /\ purchase[v.order] = "SHIPPED_TO_WB"
    <3>1. purchase[v.order] = purchase[o] /\ v.pc = step /\ v.next = status
      BY <2>1
    <3> QED BY <1>7, <3>1
  <2> QED BY <2>0, <2>1, <2>2
<1>8. CASE \/ /\ desk' = [desk EXCEPT ![d].pc = "advanceWrite", ![d].next = "PURCHASE_FAILED", ![d].inform = {o} \cap linked]
              /\ purchase[o] = "PENDING_PURCHASE"
           \/ /\ desk' = [desk EXCEPT ![d].pc = "place", ![d].next = next, ![d].inform = {o} \cap linked]
              /\ next = "PURCHASE_SUCCESS"
           \/ /\ desk' = [desk EXCEPT ![d].pc = "advanceWrite", ![d].next = next, ![d].inform = {o} \cap linked]
              /\ next \in {"SHIPPED_TO_WB", "ARRIVED_WB"}
  <2>1. \E v \in Slots :
                 /\ desk' = [desk EXCEPT ![d] = v] /\ v.order = o /\ v.inform = {v.order} \cap linked
                 /\ \/ v.pc = "place" /\ v.next = "PURCHASE_SUCCESS" /\ purchase[v.order] = "PENDING_PURCHASE"
                    \/ /\ v.pc = "advanceWrite"
                       /\ \/ v.next = "PURCHASE_FAILED" /\ purchase[v.order] = "PENDING_PURCHASE"
                          \/ v.next = "SHIPPED_TO_WB" /\ purchase[v.order] = "PURCHASE_SUCCESS"
                          \/ v.next = "ARRIVED_WB" /\ purchase[v.order] = "SHIPPED_TO_WB"
    BY <1>5, <1>7, <1>8 DEF PurchaseStatuses
  <2> QED BY <1>1, <2>1
<1> QED BY <1>4, <1>6, <1>8

\* The slot a request starts with, and the one a refused purchase is tried again as failed.
LEMMA StartSlot ==
  ASSUME OrderTypes, NEW d \in Desk
  PROVE  /\ SalesStart(d) => \E v \in Slots :
              /\ desk' = [desk EXCEPT ![d] = v] /\ v.pc = "createSales" /\ v.order \in Order /\ v.inform = {}
              /\ sales[v.order] = "NONE" /\ AtWork(v.order) = {}
         /\ \A o \in Order : MarkFailedStart(d, o) => \E v \in Slots :
              desk' = [desk EXCEPT ![d] = v] /\ v.pc = "advanceRead" /\ v.order = o /\ v.inform = {}
         /\ \A o \in Order, quantity \in 1 .. Ordered : InboundStart(d, o, quantity) => \E v \in Slots :
              desk' = [desk EXCEPT ![d] = v] /\ v.pc = "inboundCheck" /\ v.order = o /\ v.inform = {} /\ v.stock = quantity
         /\ \A i \in inbounds, t \in Tracking : OutboundStart(d, i, t) => \E v \in Slots :
              /\ desk' = [desk EXCEPT ![d] = v] /\ v.pc = "outboundCheck" /\ v.order = i.order /\ v.inform = {}
              /\ v.stock = i.nr /\ v.tracking = t
         /\ Place(d) =>
              \/ GotoStep(d, "advanceWrite") /\ placed' = [placed EXCEPT ![desk[d].order] = @ + 1]
              \/ /\ UNCHANGED placed
                 /\ \E v \in Slots : /\ desk' = [desk EXCEPT ![d] = v] /\ v.pc = "advanceRead"
                                     /\ v.order = desk[d].order /\ v.inform = desk[d].inform
<1>0. desk[d] \in Slots /\ desk \in [Desk -> Slots] /\ Ordered \in Nat
  BY OrderAssumptions DEF OrderTypes, SlotsOK
<1>1. ASSUME SalesStart(d)
      PROVE  \E v \in Slots : /\ desk' = [desk EXCEPT ![d] = v] /\ v.pc = "createSales" /\ v.order \in Order
                              /\ v.inform = {} /\ sales[v.order] = "NONE" /\ AtWork(v.order) = {}
  <2>1. PICK o \in Order : /\ sales[o] = "NONE" /\ AtWork(o) = {}
                           /\ desk' = [desk EXCEPT ![d] = [Free EXCEPT !.pc = "createSales", !.order = o]]
    BY <1>1 DEF SalesStart
  <2> DEFINE v == [Free EXCEPT !.pc = "createSales", !.order = o]
  <2>2. v \in Slots /\ v.pc = "createSales" /\ v.order = o /\ v.inform = {}
    BY FreeSlot DEF Slots, WorkSteps, CreateSteps
  <2>3. desk' = [desk EXCEPT ![d] = v]
    BY <2>1
  <2> HIDE DEF v
  <2> QED BY <2>1, <2>2, <2>3
<1>2. ASSUME NEW o \in Order, MarkFailedStart(d, o)
      PROVE  \E v \in Slots : desk' = [desk EXCEPT ![d] = v] /\ v.pc = "advanceRead" /\ v.order = o /\ v.inform = {}
  <2> DEFINE v == [Free EXCEPT !.pc = "advanceRead", !.order = o, !.fail = TRUE]
  <2>1. v \in Slots /\ v.pc = "advanceRead" /\ v.order = o /\ v.inform = {}
    BY FreeSlot DEF Slots
  <2>2. desk' = [desk EXCEPT ![d] = v]
    BY <1>2 DEF MarkFailedStart
  <2> HIDE DEF v
  <2> QED BY <2>1, <2>2
<1>3. ASSUME NEW o \in Order, NEW quantity \in 1 .. Ordered, InboundStart(d, o, quantity)
      PROVE  \E v \in Slots :
               desk' = [desk EXCEPT ![d] = v] /\ v.pc = "inboundCheck" /\ v.order = o /\ v.inform = {} /\ v.stock = quantity
  <2> DEFINE v == [Free EXCEPT !.pc = "inboundCheck", !.order = o, !.stock = quantity]
  <2>0. quantity \in Nat
    BY <1>0
  <2>1. v \in Slots /\ v.pc = "inboundCheck" /\ v.order = o /\ v.inform = {} /\ v.stock = quantity
    BY <2>0, FreeSlot DEF Slots, WorkSteps, InboundSteps
  <2>2. desk' = [desk EXCEPT ![d] = v]
    BY <1>3 DEF InboundStart
  <2> HIDE DEF v
  <2> QED BY <2>1, <2>2
<1>4. ASSUME NEW i \in inbounds, NEW t \in Tracking, OutboundStart(d, i, t)
      PROVE  \E v \in Slots : /\ desk' = [desk EXCEPT ![d] = v] /\ v.pc = "outboundCheck" /\ v.order = i.order
                              /\ v.inform = {} /\ v.stock = i.nr /\ v.tracking = t
  <2> DEFINE v == [Free EXCEPT !.pc = "outboundCheck", !.order = i.order, !.stock = i.nr, !.tracking = t]
  <2>0. i.order \in Order /\ i.nr \in Nat
    BY DEF OrderTypes, GoodsOK
  <2>1. /\ v \in Slots /\ v.pc = "outboundCheck" /\ v.order = i.order /\ v.inform = {}
        /\ v.stock = i.nr /\ v.tracking = t
    BY <2>0, FreeSlot DEF Slots, WorkSteps, OutboundSteps
  <2>2. desk' = [desk EXCEPT ![d] = v]
    BY <1>4 DEF OutboundStart
  <2> HIDE DEF v
  <2> QED BY <2>1, <2>2
<1>5. ASSUME Place(d), ~GotoStep(d, "advanceWrite")
      PROVE  UNCHANGED placed /\ \E v \in Slots : /\ desk' = [desk EXCEPT ![d] = v] /\ v.pc = "advanceRead"
                                                  /\ v.order = desk[d].order /\ v.inform = desk[d].inform
  <2> DEFINE v == [desk[d] EXCEPT !.pc = "advanceRead", !.fail = TRUE]
  <2>1. v \in Slots /\ v.pc = "advanceRead" /\ v.order = desk[d].order /\ v.inform = desk[d].inform
    BY <1>0 DEF Slots
  <2>2. desk' = [desk EXCEPT ![d] = v] /\ UNCHANGED placed
    BY <1>0, <1>5 DEF Place
  <2> HIDE DEF v
  <2> QED BY <2>1, <2>2
<1>6. Place(d) => GotoStep(d, "advanceWrite") \/ ~GotoStep(d, "advanceWrite")
  OBVIOUS
<1>7. Place(d) => \/ GotoStep(d, "advanceWrite") /\ placed' = [placed EXCEPT ![desk[d].order] = @ + 1]
                  \/ UNCHANGED placed /\ ~GotoStep(d, "advanceWrite")
  <2>1. ASSUME Place(d), GotoStep(d, "advanceWrite") PROVE placed' = [placed EXCEPT ![desk[d].order] = @ + 1]
    <3>1. desk'[d].pc = "advanceWrite"
      BY <1>0, <2>1 DEF GotoStep, Slots
    <3>2. desk' # [desk EXCEPT ![d].pc = "advanceRead", ![d].fail = TRUE]
      BY <1>0, <3>1 DEF Slots
    <3> QED BY <2>1, <3>2 DEF Place
  <2> QED BY <1>5, <2>1
<1>8. Place(d) =>
        \/ GotoStep(d, "advanceWrite") /\ placed' = [placed EXCEPT ![desk[d].order] = @ + 1]
        \/ /\ UNCHANGED placed
           /\ \E v \in Slots : /\ desk' = [desk EXCEPT ![d] = v] /\ v.pc = "advanceRead"
                               /\ v.order = desk[d].order /\ v.inform = desk[d].inform
  BY <1>5, <1>7
<1>9. \A i \in inbounds, t \in Tracking : OutboundStart(d, i, t) => \E v \in Slots :
        /\ desk' = [desk EXCEPT ![d] = v] /\ v.pc = "outboundCheck" /\ v.order = i.order /\ v.inform = {}
        /\ v.stock = i.nr /\ v.tracking = t
  BY <1>4
<1>10. \A o \in Order, quantity \in 1 .. Ordered : InboundStart(d, o, quantity) => \E v \in Slots :
        desk' = [desk EXCEPT ![d] = v] /\ v.pc = "inboundCheck" /\ v.order = o /\ v.inform = {} /\ v.stock = quantity
  BY <1>3
<1>11. \A o \in Order : MarkFailedStart(d, o) => \E v \in Slots :
        desk' = [desk EXCEPT ![d] = v] /\ v.pc = "advanceRead" /\ v.order = o /\ v.inform = {}
  BY <1>2
<1> QED BY <1>1, <1>8, <1>9, <1>10, <1>11

\* The columns of an order, the links and the parcels keep their types.
LEMMA RowsStep ==
  ASSUME OrderTypes, OrderNext
  PROVE  RowsOK' /\ GoodsOK' /\ inbounds \subseteq inbounds'
<1>0. RowsOK /\ GoodsOK /\ SlotsOK /\ Ordered \in Nat
  BY OrderAssumptions DEF OrderTypes
<1>1. ASSUME NEW d \in Desk
      PROVE  /\ desk[d] \in Slots /\ SlotOK(desk[d]) /\ (desk[d].pc # "free" => desk[d].order \in Order)
             /\ desk[d].next \in PurchaseStatuses \cup {"NONE"}
  <2>1. desk[d] \in Slots /\ SlotOK(desk[d])
    BY <1>0 DEF SlotsOK
  <2>2. desk[d].order \in Order \cup {NoOrder} /\ desk[d].next \in PurchaseStatuses \cup {"NONE"}
    BY <2>1 DEF Slots
  <2> QED BY <2>1, <2>2 DEF SlotOK
<1>2. ASSUME NEW d \in Desk, raced' = raced \/ \E o \in Order : Meets(d, o)
      PROVE  raced' \subseteq Order
  BY <1>0, <1>2 DEF Meets, RowsOK
<1>3. ASSUME UNCHANGED goods PROVE GoodsOK' /\ inbounds \subseteq inbounds'
  BY <1>0, <1>3 DEF goods, GoodsOK
<1>4. CASE ShelfMoves
  BY <1>0, <1>3, <1>4 DEF ShelfMoves, RowsOK, NewErrand
<1>5. ASSUME NEW o \in Order, ResolveAlert(o) PROVE RowsOK' /\ GoodsOK' /\ inbounds \subseteq inbounds'
  <2>1. alerts[o] \in [OPEN : Nat, RESOLVED : Nat] /\ alerts[o].OPEN > 0
    BY <1>0, <1>5 DEF ResolveAlert, RowsOK
  <2>2. alerts' \in [Order -> [OPEN : Nat, RESOLVED : Nat]]
    BY <1>0, <1>5, <2>1 DEF ResolveAlert, RowsOK
  <2> QED BY <1>0, <1>3, <1>5, <2>2 DEF ResolveAlert, RowsOK, NewErrand
<1>6. ASSUME NEW d \in Desk, Break(d) PROVE RowsOK' /\ GoodsOK' /\ inbounds \subseteq inbounds'
  <2>1. raced' \subseteq Order
    BY <1>0, <1>1, <1>6 DEF Break, DeskAt, RowsOK
  <2> QED BY <1>0, <1>3, <1>6, <2>1 DEF Break, RowsOK
<1>7. ASSUME NEW d \in Desk, SalesStart(d) \/ CreateSales(d) \/ CreatePurchase(d) \/ CreateLink(d)
      PROVE  RowsOK' /\ GoodsOK' /\ inbounds \subseteq inbounds'
  <2>1. UNCHANGED goods
    BY <1>7 DEF SalesStart, CreateSales, CreatePurchase, CreateLink
  <2>2. CASE SalesStart(d)
    <3>1. UNCHANGED <<onShelf, sales, purchase, linked, placed, alerts, raced>> /\ errands' = errands + 1
      BY <2>2 DEF SalesStart, NewErrand
    <3> QED BY <1>0, <1>3, <2>1, <3>1 DEF RowsOK
  <2>3. CASE CreateSales(d)
    BY <1>0, <1>3, <2>1, <2>3 DEF CreateSales, RowsOK, SalesStatuses
  <2>4. CASE CreatePurchase(d)
    BY <1>0, <1>3, <2>1, <2>4 DEF CreatePurchase, RowsOK, PurchaseStatuses
  <2>5. CASE CreateLink(d)
    BY <1>0, <1>1, <1>3, <2>1, <2>5 DEF CreateLink, RowsOK, DeskAt
  <2> QED BY <1>7, <2>2, <2>3, <2>4, <2>5
<1>8. ASSUME NEW d \in Desk,
             (\E O \in SUBSET Order : AdvanceStart(d, O)) \/ \E o \in Order : MarkFailedStart(d, o)
      PROVE  RowsOK' /\ GoodsOK' /\ inbounds \subseteq inbounds'
  <2>1. UNCHANGED <<onShelf, sales, purchase, linked, placed, alerts, goods, raced>> /\ errands' = errands + 1
    BY <1>8 DEF AdvanceStart, MarkFailedStart, NewErrand
  <2> QED BY <1>0, <1>3, <2>1 DEF RowsOK
<1>9. ASSUME NEW d \in Desk, AdvanceRead(d) \/ Place(d) \/ AdvanceWrite(d)
      PROVE  RowsOK' /\ GoodsOK' /\ inbounds \subseteq inbounds'
  <2>1. UNCHANGED goods /\ desk[d].order \in Order
    BY <1>1, <1>9 DEF AdvanceRead, Place, AdvanceWrite, DeskAt
  <2>2. CASE AdvanceRead(d)
    <3>1. raced' \subseteq Order
      BY <1>2, <2>1, <2>2 DEF AdvanceRead
    <3> QED BY <1>0, <1>3, <2>1, <2>2, <3>1 DEF AdvanceRead, RowsOK
  <2>3. CASE Place(d)
    <3>1. placed' \in [Order -> Nat]
      BY <1>0, <2>1, <2>3 DEF Place, RowsOK
    <3> QED BY <1>0, <1>3, <2>1, <2>3, <3>1 DEF Place, RowsOK
  <2>4. CASE AdvanceWrite(d)
    BY <1>0, <1>1, <1>3, <2>1, <2>4 DEF AdvanceWrite, RowsOK
  <2> QED BY <1>9, <2>2, <2>3, <2>4
<1>10. ASSUME NEW d \in Desk, SyncSales(d) \/ RaiseAlert(d)
       PROVE  RowsOK' /\ GoodsOK' /\ inbounds \subseteq inbounds'
  <2>1. UNCHANGED goods /\ desk[d].order \in Order
    BY <1>1, <1>10 DEF SyncSales, RaiseAlert, DeskAt
  <2>2. CASE SyncSales(d)
    <3>1. SalesStatusForPurchase(desk[d].next) \in SalesStatuses
      <4>1. CASE desk[d].next = "NONE"
        <5>1. SalesStatusForPurchase("NONE") = "EXCEPTION"
          BY DEF SalesStatusForPurchase
        <5> QED BY <4>1, <5>1 DEF SalesStatuses
      <4> QED BY <1>1, <4>1, StatusTypes
    <3>2. sales' \in [Order -> SalesStatuses \cup {"NONE"}]
      BY <1>0, <2>2, <3>1 DEF SyncSales, RowsOK
    <3> QED BY <1>0, <1>3, <2>1, <2>2, <3>2 DEF SyncSales, RowsOK
  <2>3. CASE RaiseAlert(d)
    <3>1. alerts[desk[d].order] \in [OPEN : Nat, RESOLVED : Nat]
      BY <1>0, <2>1 DEF RowsOK
    <3>2. alerts' \in [Order -> [OPEN : Nat, RESOLVED : Nat]]
      BY <1>0, <2>1, <2>3, <3>1 DEF RaiseAlert, RowsOK
    <3> QED BY <1>0, <1>3, <2>1, <2>3, <3>2 DEF RaiseAlert, RowsOK
  <2> QED BY <1>10, <2>2, <2>3
<1>11. ASSUME NEW d \in Desk, \/ \E o \in Order, quantity \in 1 .. Ordered : InboundStart(d, o, quantity)
                              \/ \E i \in inbounds, t \in Tracking : OutboundStart(d, i, t)
                              \/ InboundCheck(d) \/ OutboundCheck(d)
       PROVE  RowsOK' /\ GoodsOK' /\ inbounds \subseteq inbounds'
  <2>1. UNCHANGED goods
    BY <1>11 DEF InboundStart, OutboundStart, InboundCheck, OutboundCheck
  <2>2. raced' = raced \/ \E o \in Order : Meets(d, o)
    BY <1>0, <1>11 DEF InboundStart, OutboundStart, InboundCheck, OutboundCheck, GoodsOK
  <2>3. raced' \subseteq Order
    BY <1>2, <2>2
  <2>4. UNCHANGED <<onShelf, sales, purchase, linked, placed, alerts>> /\ errands' \in {errands, errands + 1}
    BY <1>11 DEF InboundStart, OutboundStart, InboundCheck, OutboundCheck, NewErrand
  <2> QED BY <1>0, <1>3, <2>1, <2>3, <2>4 DEF RowsOK
<1>12. ASSUME NEW d \in Desk, InboundSales(d) \/ OutboundSales(d)
       PROVE  RowsOK' /\ GoodsOK' /\ inbounds \subseteq inbounds'
  BY <1>0, <1>3, <1>12 DEF InboundSales, OutboundSales, RowsOK, SalesStatuses
<1>13. ASSUME NEW d \in Desk, InboundCreate(d) PROVE RowsOK' /\ GoodsOK' /\ inbounds \subseteq inbounds'
  <2> DEFINE o == desk[d].order
             row == [order |-> o, nr |-> Cardinality(InboundOf(o)) + 1, quantity |-> desk[d].stock]
  <2>1. o \in Order /\ desk[d].stock \in 1 .. Ordered
    BY <1>1, <1>13 DEF InboundCreate, DeskAt, SlotOK, InboundSteps
  <2>2. IsFiniteSet(InboundOf(o)) /\ Cardinality(InboundOf(o)) \in Nat
    BY <1>0, FS_Subset, FS_CardinalityType DEF GoodsOK, InboundOf
  <2>3. row.order \in Order /\ row.nr \in Nat /\ row.quantity \in 1 .. Ordered
    BY <2>1, <2>2
  <2>4. inbounds' = inbounds \cup {row}
    BY <1>13 DEF InboundCreate
  <2> HIDE DEF row
  <2>5. IsFiniteSet(inbounds')
    BY <1>0, <2>4, FS_AddElement DEF GoodsOK
  <2>6. GoodsOK'
    BY <1>0, <1>13, <2>3, <2>4, <2>5 DEF InboundCreate, GoodsOK
  <2> QED BY <1>0, <1>13, <2>4, <2>6 DEF InboundCreate, RowsOK
<1>14. ASSUME NEW d \in Desk, OutboundCreate(d) PROVE RowsOK' /\ GoodsOK' /\ inbounds \subseteq inbounds'
  <2> DEFINE v == desk[d]
             parcel == [order |-> v.order, nr |-> v.stock, tracking |-> v.tracking]
  <2>1. /\ v.order \in Order /\ v.stock \in Nat /\ v.tracking \in Tracking
        /\ \E i \in inbounds : i.order = v.order /\ i.nr = v.stock
    BY <1>1, <1>14 DEF OutboundCreate, DeskAt, SlotOK, OutboundSteps, Slots
  <2>2. /\ parcel.order \in Order /\ parcel.nr \in Nat /\ parcel.tracking \in Tracking
        /\ \E i \in inbounds : i.order = parcel.order /\ i.nr = parcel.nr
    BY <2>1
  <2>3. outbounds' = outbounds \/ outbounds' = outbounds \cup {parcel}
    BY <1>14 DEF OutboundCreate
  <2> HIDE DEF parcel
  <2>4. GoodsOK'
    BY <1>0, <1>14, <2>2, <2>3 DEF OutboundCreate, GoodsOK
  <2> QED BY <1>0, <1>14, <2>4 DEF OutboundCreate, RowsOK
<1> QED BY <1>4, <1>5, <1>6, <1>7, <1>8, <1>9, <1>10, <1>11, <1>12, <1>13, <1>14 DEF OrderNext

\* Every step keeps the types.
LEMMA TypesStep == OrderTypes /\ [OrderNext]_orderVars => OrderTypes'
<1> SUFFICES ASSUME OrderTypes, [OrderNext]_orderVars PROVE OrderTypes'
  OBVIOUS
<1>0. CASE UNCHANGED orderVars
  BY <1>0 DEF orderVars, goods, OrderTypes, RowsOK, GoodsOK, SlotsOK, SlotOK
<1>1. CASE OrderNext
  <2>0. RowsOK' /\ GoodsOK' /\ inbounds \subseteq inbounds' /\ SlotsOK /\ NoOrder \notin Order
    BY <1>1, RowsStep, OrderAssumptions DEF OrderTypes
  <2>1. CASE UNCHANGED desk
    BY <2>0, <2>1 DEF SlotsOK, SlotOK, OrderTypes
  <2>2. ASSUME NEW d \in Desk, NEW v \in Slots, desk' = [desk EXCEPT ![d] = v], v.order \in Order, v.inform \subseteq {v.order},
               v.pc # "free", v.pc \in InboundSteps => v.stock \in 1 .. Ordered,
               v.pc \in OutboundSteps => v.tracking \in Tracking /\ \E i \in inbounds' : i.order = v.order /\ i.nr = v.stock
        PROVE  OrderTypes'
    <3>1. SlotNext(v)
      BY <2>0, <2>2 DEF SlotNext
    <3> QED BY <2>0, <2>2, <3>1, SlotsTurn DEF OrderTypes
  <2>3. CASE ShelfMoves \/ \E o \in Order : ResolveAlert(o)
    BY <2>1, <2>3 DEF ShelfMoves, ResolveAlert
  <2>4. ASSUME NEW d \in Desk,
               \/ Break(d) \/ CreateSales(d) \/ CreatePurchase(d) \/ CreateLink(d)
               \/ (\E O \in SUBSET Order : AdvanceStart(d, O)) \/ AdvanceWrite(d) \/ SyncSales(d) \/ RaiseAlert(d)
        PROVE  OrderTypes'
    <3>1. desk[d] \in Slots /\ desk[d].todo \in SUBSET Order
      BY DEF OrderTypes, SlotsOK, Slots
    <3>2. \/ Leave(d)
          \/ \E todo \in SUBSET Order : NextInBatch(d, todo)
          \/ desk[d].pc \in CreateSteps \cup AdvanceSteps /\ \E step \in CreateSteps \cup AdvanceSteps : GotoStep(d, step)
      BY <2>4, <3>1 DEF Break, CreateSales, CreatePurchase, CreateLink, AdvanceStart, AdvanceWrite, SyncSales, RaiseAlert,
         DeskAt, CreateSteps, AdvanceSteps
    <3> QED BY <2>0, <3>2, SlotsGoOn DEF OrderTypes
  <2>5. ASSUME NEW d \in Desk, InboundCheck(d) \/ InboundCreate(d) \/ InboundSales(d) \/ OutboundCheck(d)
                               \/ OutboundCreate(d) \/ OutboundSales(d)
        PROVE  OrderTypes'
    <3>1. \/ Leave(d)
          \/ desk[d].pc \in InboundSteps /\ \E step \in InboundSteps : GotoStep(d, step)
          \/ desk[d].pc \in OutboundSteps /\ \E step \in OutboundSteps : GotoStep(d, step)
      BY <2>5 DEF InboundCheck, InboundCreate, InboundSales, OutboundCheck, OutboundCreate, OutboundSales, DeskAt,
         InboundSteps, OutboundSteps
    <3> QED BY <2>0, <3>1, SlotsGoOn DEF OrderTypes
  <2>6. ASSUME NEW d \in Desk, SalesStart(d) PROVE OrderTypes'
    BY <2>2, <2>6, StartSlot DEF InboundSteps, OutboundSteps
  <2>7. ASSUME NEW d \in Desk, NEW o \in Order, MarkFailedStart(d, o) PROVE OrderTypes'
    BY <2>2, <2>7, StartSlot DEF InboundSteps, OutboundSteps
  <2>8. ASSUME NEW d \in Desk, NEW o \in Order, NEW quantity \in 1 .. Ordered, InboundStart(d, o, quantity) PROVE OrderTypes'
    <3>1. PICK v \in Slots :
            desk' = [desk EXCEPT ![d] = v] /\ v.pc = "inboundCheck" /\ v.order = o /\ v.inform = {} /\ v.stock = quantity
      BY <2>8, StartSlot
    <3> QED BY <2>2, <3>1 DEF InboundSteps, OutboundSteps
  <2>9. ASSUME NEW d \in Desk, NEW i \in inbounds, NEW t \in Tracking, OutboundStart(d, i, t) PROVE OrderTypes'
    <3>1. PICK v \in Slots : /\ desk' = [desk EXCEPT ![d] = v] /\ v.pc = "outboundCheck" /\ v.order = i.order
                             /\ v.inform = {} /\ v.stock = i.nr /\ v.tracking = t
      BY <2>9, StartSlot
    <3>2. i.order \in Order /\ i \in inbounds'
      BY <2>0 DEF OrderTypes, GoodsOK
    <3> QED BY <2>2, <3>1, <3>2 DEF InboundSteps, OutboundSteps
  <2>10. ASSUME NEW d \in Desk, AdvanceRead(d) PROVE OrderTypes'
    <3>1. CASE desk' = [desk EXCEPT ![d] = Free]
      <4>1. SlotNext(Free)
        BY FreeSlot DEF SlotNext, InboundSteps, OutboundSteps
      <4> QED BY <2>0, <3>1, <4>1, SlotsTurn DEF OrderTypes
    <3>2. ASSUME NEW v \in Slots, desk' = [desk EXCEPT ![d] = v], v.order = desk[d].order, v.inform = {v.order} \cap linked,
                 v.pc \in {"place", "advanceWrite"}
          PROVE  OrderTypes'
      <4>1. v.order \in Order /\ v.inform \subseteq {v.order}
        BY <2>10, <3>2, ReadSlot
      <4> QED BY <2>2, <3>2, <4>1 DEF InboundSteps, OutboundSteps
    <3> QED BY <2>10, <3>1, <3>2, ReadSlot
  <2>11. ASSUME NEW d \in Desk, Place(d) PROVE OrderTypes'
    <3>0. desk[d].pc = "place" /\ desk[d].order \in Order /\ desk[d].inform \subseteq {desk[d].order}
      BY <2>11 DEF Place, DeskAt, OrderTypes, SlotsOK, SlotOK, Slots
    <3>1. CASE GotoStep(d, "advanceWrite")
      BY <2>0, <3>0, <3>1, SlotsGoOn DEF OrderTypes, AdvanceSteps
    <3>2. ASSUME NEW v \in Slots, desk' = [desk EXCEPT ![d] = v], v.pc = "advanceRead",
                 v.order = desk[d].order, v.inform = desk[d].inform
          PROVE  OrderTypes'
      BY <2>2, <3>0, <3>2 DEF InboundSteps, OutboundSteps
    <3> QED BY <2>11, <3>1, <3>2, StartSlot
  <2> QED BY <1>1, <2>3, <2>4, <2>5, <2>6, <2>7, <2>8, <2>9, <2>10, <2>11 DEF OrderNext
<1> QED BY <1>0, <1>1

-----------------------------------------------------------------------------
\* The invariant but its types and the goods.
Facts == Alone /\ AllKnow /\ RestAgrees

\* An order nothing of which changes, but that an alert about it may be resolved.
Same(p) ==
  /\ sales'[p] = sales[p] /\ purchase'[p] = purchase[p] /\ (p \in linked' <=> p \in linked)
  /\ placed'[p] = placed[p]
  /\ alerts[p].OPEN + alerts[p].RESOLVED > 0 => alerts'[p].OPEN + alerts'[p].RESOLVED > 0
  /\ InboundOf(p)' = InboundOf(p) /\ Parcels(p)' = Parcels(p)

\* Such an order goes on agreeing.
LEMMA AgreesSame ==
  ASSUME NEW p \in Order, Same(p)
  PROVE  /\ Agrees(p) => Agrees(p)'
         /\ Unmade(p) => Unmade(p)'
         /\ Followed(p) => Followed(p)'
         /\ Booked(p) => Booked(p)'
         /\ Stocked(p) => Stocked(p)'
         /\ Bought(p) => Bought(p)'
<1>1. Bought(p) => Bought(p)'
  BY DEF Same, Bought
<1>2. Unmade(p) => Unmade(p)'
  BY <1>1 DEF Same, Unmade
<1>3. Followed(p) => Followed(p)'
  BY <1>1 DEF Same, Followed
<1>4. Booked(p) => Booked(p)'
  BY <1>1 DEF Same, Booked
<1>5. Stocked(p) => Stocked(p)'
  BY <1>4 DEF Same, Stocked
<1> QED BY <1>1, <1>2, <1>3, <1>4, <1>5 DEF Agrees

\* A handler goes on knowing what it knows of an order that does not change.
LEMMA KnowsSame ==
  ASSUME NEW e \in Desk, NEW p \in Order, desk[e].order = p, desk'[e] = desk[e], Same(p), Knows(e)
  PROVE  Knows(e)'
<1> DEFINE v == desk[e]
<1>1. v = desk'[e] /\ v.order = p
  OBVIOUS
<1>2. Same(p) /\ (Agrees(p) => Agrees(p)') /\ (Unmade(p) => Unmade(p)') /\ (Followed(p) => Followed(p)')
      /\ (Booked(p) => Booked(p)') /\ (Stocked(p) => Stocked(p)') /\ (Bought(p) => Bought(p)')
  BY AgreesSame
<1> QED BY <1>1, <1>2 DEF Knows, Same

\* A step of one handler on one order.
LEMMA WorkTurn ==
  ASSUME OrderTypes, OrderTypes', Facts, NEW d \in Desk, NEW o \in Order,
         \A e \in Desk \ {d} : desk'[e] = desk[e],
         \A p \in Order \ {o} : Same(p) /\ (p \in raced' <=> p \in raced),
         \A p \in Order : (Working(d, p) => p = o) /\ (Working(d, p)' => p = o),
         o \in raced => o \in raced',
         o \notin raced' => /\ \A e \in Desk \ {d} : ~Working(e, o)
                            /\ Working(d, o)' => Knows(d)'
                            /\ ~Working(d, o)' => Agrees(o)'
  PROVE  Facts'
<1>1. \A e \in Desk \ {d}, p \in Order : Working(e, p)' <=> Working(e, p)
  BY DEF Working
<1>2. Alone'
  BY <1>1 DEF Facts, Alone
<1>3. ASSUME NEW e \in Desk, desk'[e].pc \in WorkSteps, desk'[e].order \notin raced' PROVE Knows(e)'
  <2>1. CASE e = d
    <3>1. PICK p \in Order : desk'[d].order = p
      BY <1>3, <2>1 DEF OrderTypes, SlotsOK, SlotOK, Slots, WorkSteps, CreateSteps, AdvanceSteps, InboundSteps, OutboundSteps
    <3>2. Working(d, p)'
      BY <1>3, <2>1, <3>1 DEF Working
    <3>3. p = o /\ Working(d, o)'
      BY <3>2
    <3> QED BY <1>3, <2>1, <3>1, <3>3
  <2>2. CASE e # d
    <3>1. desk'[e] = desk[e]
      BY <2>2
    <3>2. PICK p \in Order : desk[e].order = p
      BY <1>3, <3>1 DEF OrderTypes, SlotsOK, SlotOK, Slots, WorkSteps, CreateSteps, AdvanceSteps, InboundSteps, OutboundSteps
    <3>3. Working(e, p)
      BY <1>3, <3>1, <3>2 DEF Working
    <3>4. p # o
      BY <1>3, <2>2, <3>1, <3>2, <3>3
    <3>5. Knows(e)
      BY <1>3, <3>1, <3>2, <3>4 DEF Facts, AllKnow
    <3> QED BY <3>1, <3>2, <3>4, <3>5, KnowsSame
  <2> QED BY <2>1, <2>2
<1>4. ASSUME NEW p \in Order, p \notin raced', \A e \in Desk : ~Working(e, p)' PROVE Agrees(p)'
  <2>1. CASE p = o
    BY <1>4, <2>1
  <2>2. CASE p # o
    <3>1. \A e \in Desk : ~Working(e, p)
      BY <1>1, <1>4, <2>2
    <3> QED BY <1>4, <2>2, <3>1, AgreesSame DEF Facts, RestAgrees
  <2> QED BY <2>1, <2>2
<1> QED BY <1>2, <1>3, <1>4 DEF Facts, AllKnow, RestAgrees

\* A step that changes no order and puts no handler to work or off it.
LEMMA CalmTurn ==
  ASSUME OrderTypes, Facts, \A p \in Order : Same(p), UNCHANGED raced,
         \A e \in Desk : desk'[e] = desk[e] \/ (desk[e].pc \notin WorkSteps /\ desk'[e].pc \notin WorkSteps)
  PROVE  Facts'
<1>1. \A e \in Desk, p \in Order : Working(e, p)' <=> Working(e, p)
  BY DEF Working
<1>2. Alone'
  BY <1>1 DEF Facts, Alone
<1>3. ASSUME NEW e \in Desk, desk'[e].pc \in WorkSteps, desk'[e].order \notin raced' PROVE Knows(e)'
  <2>1. desk'[e] = desk[e]
    BY <1>3
  <2>2. PICK p \in Order : desk[e].order = p
    BY <1>3, <2>1 DEF OrderTypes, SlotsOK, SlotOK, Slots, WorkSteps, CreateSteps, AdvanceSteps, InboundSteps, OutboundSteps
  <2>3. Knows(e)
    BY <1>3, <2>1 DEF Facts, AllKnow
  <2> QED BY <2>1, <2>2, <2>3, KnowsSame
<1>4. ASSUME NEW p \in Order, p \notin raced', \A e \in Desk : ~Working(e, p)' PROVE Agrees(p)'
  BY <1>1, <1>4, AgreesSame DEF Facts, RestAgrees
<1> QED BY <1>2, <1>3, <1>4 DEF Facts, AllKnow, RestAgrees

\* A handler at work on an order goes on with it, or leaves it.
LEMMA HandlerTurn ==
  ASSUME OrderTypes, OrderTypes', Facts, NEW d \in Desk, NEW o \in Order, Working(d, o), UNCHANGED raced,
         \A e \in Desk \ {d} : desk'[e] = desk[e],
         \A p \in Order \ {o} : Same(p),
         desk'[d].order = o \/ desk'[d].pc \notin WorkSteps,
         o \notin raced /\ Knows(d) => /\ Working(d, o)' => Knows(d)'
                                       /\ ~Working(d, o)' => Agrees(o)'
  PROVE  Facts'
<1>1. o \notin raced => Knows(d) /\ \A e \in Desk \ {d} : ~Working(e, o)
  BY DEF Facts, Alone, AllKnow, Working
<1>2. \A p \in Order : (Working(d, p) => p = o) /\ (Working(d, p)' => p = o)
  BY DEF Working
<1> QED BY <1>1, <1>2, WorkTurn

\* What becomes of the handler's slot.
LEMMA DeskAfter ==
  ASSUME OrderTypes, NEW d \in Desk
  PROVE  /\ \A v \in Slots : desk' = [desk EXCEPT ![d] = v] => desk'[d] = v /\ \A e \in Desk \ {d} : desk'[e] = desk[e]
         /\ \A step \in WorkSteps : GotoStep(d, step) =>
              /\ desk'[d].pc = step /\ desk'[d].order = desk[d].order /\ desk'[d].next = desk[d].next
              /\ desk'[d].inform = desk[d].inform /\ \A e \in Desk \ {d} : desk'[e] = desk[e]
         /\ Leave(d) => desk'[d].pc \notin WorkSteps /\ \A e \in Desk \ {d} : desk'[e] = desk[e]
         /\ \A todo \in SUBSET Order : NextInBatch(d, todo) =>
              desk'[d].pc \notin WorkSteps /\ \A e \in Desk \ {d} : desk'[e] = desk[e]
<1>0. SlotsOK /\ desk \in [Desk -> Slots]
  BY DEF OrderTypes, SlotsOK
<1>1. \A v \in Slots : desk' = [desk EXCEPT ![d] = v] => desk'[d] = v /\ \A e \in Desk \ {d} : desk'[e] = desk[e]
  BY <1>0
<1>2. ASSUME NEW step \in WorkSteps, GotoStep(d, step)
      PROVE  /\ desk'[d].pc = step /\ desk'[d].order = desk[d].order /\ desk'[d].next = desk[d].next
             /\ desk'[d].inform = desk[d].inform /\ \A e \in Desk \ {d} : desk'[e] = desk[e]
  <2> DEFINE v == [desk[d] EXCEPT !.pc = step]
  <2>1. /\ v.pc = step /\ v.order = desk[d].order /\ v.next = desk[d].next /\ v.inform = desk[d].inform /\ v \in Slots
    BY <1>0, SlotAfter
  <2>2. desk' = [desk EXCEPT ![d] = v]
    BY <1>0, <1>2, SlotAfter
  <2> HIDE DEF v
  <2> QED BY <1>1, <2>1, <2>2
<1>3. Leave(d) => desk'[d].pc \notin WorkSteps /\ \A e \in Desk \ {d} : desk'[e] = desk[e]
  BY <1>0, <1>1, SlotAfter, FreeSlot DEF WorkSteps, CreateSteps, AdvanceSteps, InboundSteps, OutboundSteps
<1>4. ASSUME NEW todo \in SUBSET Order, NextInBatch(d, todo)
      PROVE  desk'[d].pc \notin WorkSteps /\ \A e \in Desk \ {d} : desk'[e] = desk[e]
  <2>1. \E v \in Slots : desk' = [desk EXCEPT ![d] = v] /\ v.pc \in {"free", "advanceRead"}
    <3>1. \/ desk' = [desk EXCEPT ![d] = Free]
          \/ \E o \in todo, v \in Slots :
               desk' = [desk EXCEPT ![d] = v] /\ v.pc = "advanceRead" /\ v.order = o /\ v.inform = {}
      BY <1>0, <1>4, SlotAfter
    <3> QED BY <3>1, FreeSlot
  <2> QED BY <1>1, <2>1 DEF WorkSteps, CreateSteps, AdvanceSteps, InboundSteps, OutboundSteps
<1> QED BY <1>1, <1>2, <1>3, <1>4

\* Orders other than the one a handler is at.
LEMMA OthersSame ==
  ASSUME OrderTypes, NEW o \in Order,
         \A p \in Order \ {o} : /\ sales'[p] = sales[p] /\ purchase'[p] = purchase[p] /\ placed'[p] = placed[p]
                                /\ alerts'[p] = alerts[p] /\ (p \in linked' <=> p \in linked),
         \E row : row.order = o /\ inbounds' \in {inbounds, inbounds \cup {row}},
         \E row : row.order = o /\ outbounds' \in {outbounds, outbounds \cup {row}}
  PROVE  \A p \in Order \ {o} : Same(p)
<1> SUFFICES ASSUME NEW p \in Order \ {o} PROVE Same(p)
  OBVIOUS
<1>1. InboundOf(p)' = InboundOf(p)
  BY DEF InboundOf
<1>2. Parcels(p)' = Parcels(p)
  BY DEF Parcels
<1> QED BY <1>1, <1>2 DEF Same

\* An order whose goods do not change.
LEMMA GoodsSame ==
  ASSUME NEW o \in Order
  PROVE  /\ UNCHANGED inbounds => InboundOf(o)' = InboundOf(o)
         /\ UNCHANGED outbounds => Parcels(o)' = Parcels(o)
         /\ \E row : row.order = o
<1>1. [order |-> o].order = o
  OBVIOUS
<1>2. \E row : row.order = o
  BY <1>1
<1> QED BY <1>2 DEF InboundOf, Parcels

\* A handler at work has an order.
LEMMA AtWorkOn ==
  ASSUME OrderTypes, NEW d \in Desk, desk[d].pc \in WorkSteps
  PROVE  /\ \E o \in Order : desk[d].order = o /\ Working(d, o)
         /\ desk[d].inform \subseteq {desk[d].order} /\ desk[d].todo \in SUBSET Order
BY DEF OrderTypes, SlotsOK, SlotOK, Slots, Working, WorkSteps, CreateSteps, AdvanceSteps, InboundSteps, OutboundSteps

\* Creating a sales order, its purchase and their link.
LEMMA CreateFacts ==
  ASSUME OrderTypes, OrderTypes', Facts, NEW d \in Desk, CreateSales(d) \/ CreatePurchase(d) \/ CreateLink(d)
  PROVE  Facts'
<1>0. PICK o \in Order : desk[d].order = o /\ Working(d, o)
  BY AtWorkOn DEF CreateSales, CreatePurchase, CreateLink, DeskAt, WorkSteps, CreateSteps
<1>1. /\ sales \in [Order -> SalesStatuses \cup {"NONE"}] /\ purchase \in [Order -> PurchaseStatuses \cup {"NONE"}]
  BY DEF OrderTypes, RowsOK
<1>2. UNCHANGED <<raced, placed, alerts, goods>>
  BY DEF CreateSales, CreatePurchase, CreateLink
<1>3. InboundOf(o)' = InboundOf(o)
  BY <1>2, GoodsSame DEF goods
<1>4. CASE CreateSales(d)
  <2>1. sales' = [sales EXCEPT ![o] = "PURCHASE_PENDING"] /\ UNCHANGED <<purchase, linked>> /\ GotoStep(d, "createPurchase")
        /\ desk[d].pc = "createSales"
    BY <1>0, <1>4 DEF CreateSales, DeskAt
  <2>2. /\ desk'[d].pc = "createPurchase" /\ desk'[d].order = o /\ \A e \in Desk \ {d} : desk'[e] = desk[e]
    BY <1>0, <2>1, DeskAfter DEF WorkSteps, CreateSteps
  <2>3. \A p \in Order \ {o} : Same(p)
    BY <1>1, <1>2, <2>1, GoodsSame, OthersSame DEF goods
  <2>4. ASSUME Knows(d) PROVE Knows(d)'
    <3>1. Unmade(o)
      BY <1>0, <2>1, <2>4 DEF Knows
    <3>2. /\ purchase'[o] = "NONE" /\ sales'[o] = "PURCHASE_PENDING" /\ o \notin linked' /\ InboundOf(o)' = {} /\ Bought(o)'
      BY <1>1, <1>2, <1>3, <2>1, <3>1 DEF Unmade, Bought
    <3> QED BY <2>2, <3>2 DEF Knows, AdvanceSteps, InboundSteps
  <2> QED BY <1>0, <1>2, <2>2, <2>3, <2>4, HandlerTurn DEF Working, WorkSteps, CreateSteps
<1>5. CASE CreatePurchase(d)
  <2>1. purchase' = [purchase EXCEPT ![o] = "PENDING_PURCHASE"] /\ UNCHANGED <<sales, linked>> /\ GotoStep(d, "createLink")
        /\ desk[d].pc = "createPurchase"
    BY <1>0, <1>5 DEF CreatePurchase, DeskAt
  <2>2. /\ desk'[d].pc = "createLink" /\ desk'[d].order = o /\ \A e \in Desk \ {d} : desk'[e] = desk[e]
    BY <1>0, <2>1, DeskAfter DEF WorkSteps, CreateSteps
  <2>3. \A p \in Order \ {o} : Same(p)
    BY <1>1, <1>2, <2>1, GoodsSame, OthersSame DEF goods
  <2>4. ASSUME Knows(d) PROVE Knows(d)'
    <3>1. /\ purchase[o] = "NONE" /\ sales[o] = "PURCHASE_PENDING" /\ o \notin linked /\ InboundOf(o) = {} /\ Bought(o)
      BY <1>0, <2>1, <2>4 DEF Knows
    <3>2. /\ purchase'[o] = "PENDING_PURCHASE" /\ sales'[o] = "PURCHASE_PENDING" /\ o \notin linked'
          /\ InboundOf(o)' = {} /\ Bought(o)'
      BY <1>1, <1>2, <1>3, <2>1, <3>1 DEF Bought, BoughtStatuses
    <3> QED BY <2>2, <3>2 DEF Knows, AdvanceSteps, InboundSteps
  <2> QED BY <1>0, <1>2, <2>2, <2>3, <2>4, HandlerTurn DEF Working, WorkSteps, CreateSteps
<1>6. CASE CreateLink(d)
  <2>1. linked' = linked \cup {o} /\ UNCHANGED <<sales, purchase>> /\ Leave(d) /\ desk[d].pc = "createLink"
    BY <1>0, <1>6 DEF CreateLink, DeskAt
  <2>2. desk'[d].pc \notin WorkSteps /\ \A e \in Desk \ {d} : desk'[e] = desk[e]
    BY <2>1, DeskAfter
  <2>3. \A p \in Order \ {o} : Same(p)
    BY <1>2, <2>1, GoodsSame, OthersSame DEF goods
  <2>4. ASSUME Knows(d) PROVE Agrees(o)'
    <3>1. /\ purchase[o] = "PENDING_PURCHASE" /\ sales[o] = "PURCHASE_PENDING" /\ InboundOf(o) = {} /\ Bought(o)
      BY <1>0, <2>1, <2>4 DEF Knows
    <3>2. SalesStatusForPurchase(purchase[o]) = "PURCHASE_PENDING"
      BY <3>1, Statuses
    <3>3. sales'[o] = SalesStatusForPurchase(purchase'[o])
      BY <2>1, <3>1, <3>2
    <3>4. o \in linked' /\ InboundOf(o)' = {} /\ Bought(o)' /\ purchase'[o] = "PENDING_PURCHASE"
      BY <1>2, <1>3, <2>1, <3>1 DEF Bought
    <3> QED BY <3>3, <3>4 DEF Agrees, Followed
  <2> QED BY <1>0, <1>2, <2>2, <2>3, <2>4, HandlerTurn DEF Working
<1> QED BY <1>4, <1>5, <1>6

\* Advancing a purchase: the order at Ozon, the purchase, the sales order, the alert.
LEMMA AdvanceFacts ==
  ASSUME OrderTypes, OrderTypes', Facts, NEW d \in Desk, Place(d) \/ AdvanceWrite(d) \/ SyncSales(d) \/ RaiseAlert(d)
  PROVE  Facts'
<1>0. PICK o \in Order : desk[d].order = o /\ Working(d, o) /\ desk[d].inform \subseteq {o} /\ desk[d].todo \in SUBSET Order
  BY AtWorkOn DEF Place, AdvanceWrite, SyncSales, RaiseAlert, DeskAt, WorkSteps, AdvanceSteps
<1>1. /\ sales \in [Order -> SalesStatuses \cup {"NONE"}] /\ purchase \in [Order -> PurchaseStatuses \cup {"NONE"}]
      /\ placed \in [Order -> Nat] /\ alerts \in [Order -> [OPEN : Nat, RESOLVED : Nat]]
  BY DEF OrderTypes, RowsOK
<1>2. UNCHANGED <<raced, linked, goods>>
  BY DEF Place, AdvanceWrite, SyncSales, RaiseAlert
<1>3. InboundOf(o)' = InboundOf(o)
  BY <1>2, GoodsSame DEF goods
<1>4. CASE Place(d)
  <2>0. UNCHANGED <<sales, purchase, alerts>> /\ desk[d].pc = "place"
    BY <1>4 DEF Place, DeskAt
  <2>1. CASE GotoStep(d, "advanceWrite") /\ placed' = [placed EXCEPT ![o] = @ + 1]
    <3>1. /\ desk'[d].pc = "advanceWrite" /\ desk'[d].order = o /\ desk'[d].next = desk[d].next
          /\ desk'[d].inform = desk[d].inform /\ \A e \in Desk \ {d} : desk'[e] = desk[e]
      BY <1>0, <2>1, DeskAfter DEF WorkSteps, AdvanceSteps
    <3>2. \A p \in Order \ {o} : Same(p)
      BY <1>1, <1>2, <2>0, <2>1, GoodsSame, OthersSame DEF goods
    <3>3. ASSUME Knows(d) PROVE Knows(d)'
      <4>1. /\ Followed(o) /\ purchase[o] = "PENDING_PURCHASE" /\ desk[d].next = "PURCHASE_SUCCESS"
            /\ desk[d].inform = {o} /\ o \in linked /\ InboundOf(o) = {}
        BY <1>0, <2>0, <3>3 DEF Knows, AdvanceSteps
      <4>2. placed[o] = 0
        BY <4>1 DEF Followed, Bought, BoughtStatuses
      <4>3. placed'[o] = 1
        BY <1>1, <2>1, <4>2
      <4>4. o \in linked' /\ InboundOf(o)' = {} /\ desk'[d].inform = {o} /\ desk'[d].next = "PURCHASE_SUCCESS"
        BY <1>2, <1>3, <3>1, <4>1
      <4> QED BY <3>1, <4>3, <4>4 DEF Knows, AdvanceSteps, InboundSteps, BoughtStatuses
    <3> QED BY <1>0, <1>2, <3>1, <3>2, <3>3, HandlerTurn DEF Working, WorkSteps, AdvanceSteps
  <2>2. ASSUME UNCHANGED placed, NEW v \in Slots, desk' = [desk EXCEPT ![d] = v], v.pc = "advanceRead" PROVE Facts'
    <3>1. desk'[d].pc \notin WorkSteps /\ \A e \in Desk \ {d} : desk'[e] = desk[e]
      BY <2>2, DeskAfter DEF WorkSteps, CreateSteps, AdvanceSteps, InboundSteps, OutboundSteps
    <3>2. \A p \in Order : Same(p)
      BY <1>2, <2>0, <2>2, GoodsSame DEF goods, Same
    <3>3. ASSUME Knows(d) PROVE Agrees(o)'
      <4>1. Followed(o)
        BY <1>0, <2>0, <3>3 DEF Knows
      <4> QED BY <3>2, <4>1, AgreesSame DEF Agrees
    <3> QED BY <1>0, <1>2, <3>1, <3>2, <3>3, HandlerTurn DEF Working
  <2> QED BY <1>0, <1>4, <2>1, <2>2, StartSlot
<1>5. CASE AdvanceWrite(d)
  <2>1. purchase' = [purchase EXCEPT ![o] = desk[d].next] /\ UNCHANGED <<sales, placed, alerts>> /\ GotoStep(d, "syncSales")
        /\ desk[d].pc = "advanceWrite"
    BY <1>0, <1>5 DEF AdvanceWrite, DeskAt
  <2>2. /\ desk'[d].pc = "syncSales" /\ desk'[d].order = o /\ desk'[d].next = desk[d].next
        /\ desk'[d].inform = desk[d].inform /\ \A e \in Desk \ {d} : desk'[e] = desk[e]
    BY <1>0, <2>1, DeskAfter DEF WorkSteps, AdvanceSteps
  <2>3. \A p \in Order \ {o} : Same(p)
    BY <1>1, <1>2, <2>1, GoodsSame, OthersSame DEF goods
  <2>4. ASSUME Knows(d) PROVE Knows(d)'
    <3>1. /\ desk[d].next \in BoughtStatuses \cup {"PURCHASE_FAILED"}
          /\ placed[o] = (IF desk[d].next \in BoughtStatuses THEN 1 ELSE 0)
          /\ desk[d].inform = {o} /\ o \in linked /\ InboundOf(o) = {}
      BY <1>0, <2>1, <2>4 DEF Knows, AdvanceSteps
    <3>2. purchase'[o] = desk[d].next /\ placed'[o] = placed[o]
      BY <1>1, <2>1
    <3>3. Bought(o)'
      BY <3>1, <3>2 DEF Bought
    <3>4. /\ o \in linked' /\ InboundOf(o)' = {} /\ desk'[d].inform = {o} /\ purchase'[o] = desk'[d].next
          /\ desk'[d].next \in BoughtStatuses \cup {"PURCHASE_FAILED"}
      BY <1>2, <1>3, <2>2, <3>1, <3>2
    <3> QED BY <2>2, <3>3, <3>4 DEF Knows, AdvanceSteps, InboundSteps
  <2> QED BY <1>0, <1>2, <2>2, <2>3, <2>4, HandlerTurn DEF Working, WorkSteps, AdvanceSteps
<1>6. CASE SyncSales(d)
  <2>1. /\ sales' = [p \in Order |-> IF p \in desk[d].inform THEN SalesStatusForPurchase(desk[d].next) ELSE sales[p]]
        /\ UNCHANGED <<purchase, placed, alerts>> /\ desk[d].pc = "syncSales"
        /\ IF desk[d].next = "PURCHASE_FAILED" THEN GotoStep(d, "raiseAlert") ELSE NextInBatch(d, desk[d].todo)
    BY <1>6 DEF SyncSales, DeskAt
  <2>2. \A p \in Order \ {o} : Same(p)
    <3>1. \A p \in Order \ {o} : sales'[p] = sales[p]
      BY <1>0, <2>1
    <3> QED BY <1>2, <2>1, <3>1, GoodsSame, OthersSame DEF goods
  <2>3. ASSUME Knows(d)
        PROVE  /\ desk[d].next \in BoughtStatuses \cup {"PURCHASE_FAILED"} /\ purchase'[o] = desk[d].next
               /\ sales'[o] = SalesStatusForPurchase(desk[d].next) /\ o \in linked' /\ InboundOf(o)' = {} /\ Bought(o)'
    <3>1. /\ purchase[o] = desk[d].next /\ desk[d].next \in BoughtStatuses \cup {"PURCHASE_FAILED"} /\ Bought(o)
          /\ desk[d].inform = {o} /\ o \in linked /\ InboundOf(o) = {}
      BY <1>0, <2>1, <2>3 DEF Knows, AdvanceSteps
    <3>2. sales'[o] = SalesStatusForPurchase(desk[d].next)
      BY <2>1, <3>1
    <3> QED BY <1>2, <1>3, <2>1, <3>1, <3>2 DEF Bought
  <2>4. CASE desk[d].next = "PURCHASE_FAILED"
    <3>1. /\ desk'[d].pc = "raiseAlert" /\ desk'[d].order = o /\ \A e \in Desk \ {d} : desk'[e] = desk[e]
      BY <1>0, <2>1, <2>4, DeskAfter DEF WorkSteps, AdvanceSteps
    <3>2. ASSUME Knows(d) PROVE Knows(d)'
      <4>1. sales'[o] = "EXCEPTION" /\ purchase'[o] = "PURCHASE_FAILED"
        BY <2>3, <2>4, <3>2, Statuses
      <4> QED BY <2>3, <3>1, <3>2, <4>1 DEF Knows, AdvanceSteps, InboundSteps
    <3> QED BY <1>0, <1>2, <2>2, <3>1, <3>2, HandlerTurn DEF Working, WorkSteps, AdvanceSteps
  <2>5. CASE desk[d].next # "PURCHASE_FAILED"
    <3>1. desk'[d].pc \notin WorkSteps /\ \A e \in Desk \ {d} : desk'[e] = desk[e]
      BY <1>0, <2>1, <2>5, DeskAfter
    <3>2. ASSUME Knows(d) PROVE Agrees(o)'
      BY <2>3, <2>5, <3>2 DEF Agrees, Followed, BoughtStatuses
    <3> QED BY <1>0, <1>2, <2>2, <3>1, <3>2, HandlerTurn DEF Working
  <2> QED BY <2>4, <2>5
<1>7. CASE RaiseAlert(d)
  <2>1. /\ alerts' = [alerts EXCEPT ![o].OPEN = @ + 1] /\ UNCHANGED <<sales, purchase, placed>> /\ desk[d].pc = "raiseAlert"
        /\ NextInBatch(d, desk[d].todo)
    BY <1>0, <1>7 DEF RaiseAlert, DeskAt
  <2>2. desk'[d].pc \notin WorkSteps /\ \A e \in Desk \ {d} : desk'[e] = desk[e]
    BY <1>0, <2>1, DeskAfter
  <2>3. \A p \in Order \ {o} : Same(p)
    BY <1>1, <1>2, <2>1, GoodsSame, OthersSame DEF goods
  <2>4. ASSUME Knows(d) PROVE Agrees(o)'
    <3>1. /\ purchase[o] = "PURCHASE_FAILED" /\ sales[o] = "EXCEPTION" /\ Bought(o) /\ o \in linked /\ InboundOf(o) = {}
      BY <1>0, <2>1, <2>4 DEF Knows, AdvanceSteps
    <3>2. alerts'[o].OPEN + alerts'[o].RESOLVED > 0
      <4>1. alerts[o] \in [OPEN : Nat, RESOLVED : Nat]
        BY <1>1
      <4>2. alerts'[o].OPEN = alerts[o].OPEN + 1 /\ alerts'[o].RESOLVED = alerts[o].RESOLVED
        BY <1>1, <2>1, <4>1
      <4> QED BY <4>1, <4>2
    <3>3. sales'[o] = SalesStatusForPurchase(purchase'[o])
      BY <2>1, <3>1, Statuses
    <3>4. o \in linked' /\ InboundOf(o)' = {} /\ Bought(o)' /\ purchase'[o] = "PURCHASE_FAILED"
      BY <1>2, <1>3, <2>1, <3>1 DEF Bought
    <3> QED BY <3>2, <3>3, <3>4 DEF Agrees, Followed
  <2> QED BY <1>0, <1>2, <2>2, <2>3, <2>4, HandlerTurn DEF Working
<1> QED BY <1>4, <1>5, <1>6, <1>7

\* Orders and numbers of the goods of an order.
LEMMA GoodsOf ==
  ASSUME OrderTypes, NEW o \in Order
  PROVE  /\ InboundOf(o) = {} => Parcels(o) = {}
         /\ GoodsApart /\ o \notin raced =>
              \A i \in InboundOf(o) : TakenFrom(o, i.nr) = {} => Parcels(o) = {}
BY DEF OrderTypes, GoodsOK, InboundOf, Parcels, TakenFrom, GoodsApart

\* Booking in: the check, the row, the sales order.
LEMMA InboundFacts ==
  ASSUME OrderTypes, OrderTypes', Facts, NEW d \in Desk, InboundCheck(d) \/ InboundCreate(d) \/ InboundSales(d)
  PROVE  Facts'
<1>0. PICK o \in Order : desk[d].order = o /\ Working(d, o)
  BY AtWorkOn DEF InboundCheck, InboundCreate, InboundSales, DeskAt, WorkSteps, InboundSteps
<1>1. sales \in [Order -> SalesStatuses \cup {"NONE"}]
  BY DEF OrderTypes, RowsOK
<1>2. UNCHANGED <<raced, purchase, linked, placed, alerts, outbounds>>
  BY DEF InboundCheck, InboundCreate, InboundSales, goods
<1>3. Parcels(o)' = Parcels(o)
  BY <1>2, GoodsSame
<1>4. CASE InboundCheck(d)
  <2>1. UNCHANGED <<sales, inbounds>> /\ desk[d].pc = "inboundCheck"
    BY <1>4 DEF InboundCheck, DeskAt, goods
  <2>2. \A p \in Order : Same(p)
    BY <1>2, <2>1, GoodsSame DEF Same
  <2>3. CASE InboundOf(o) = {}
    <3>1. desk'[d].pc = "inboundCreate" /\ desk'[d].order = o /\ \A e \in Desk \ {d} : desk'[e] = desk[e]
      BY <1>0, <1>4, <2>3, DeskAfter DEF InboundCheck, WorkSteps, InboundSteps
    <3>2. ASSUME Knows(d) PROVE Knows(d)'
      <4>1. purchase[o] = "ARRIVED_WB" /\ o \in linked /\ Bought(o)
        BY <1>0, <2>1, <3>2 DEF Knows, InboundSteps
      <4>2. purchase'[o] = "ARRIVED_WB" /\ o \in linked' /\ Bought(o)' /\ InboundOf(o)' = {}
        BY <1>2, <2>2, <2>3, <4>1, AgreesSame DEF Same
      <4> QED BY <3>1, <4>2 DEF Knows, AdvanceSteps, InboundSteps
    <3> QED BY <1>0, <1>2, <2>2, <3>1, <3>2, HandlerTurn DEF Working, WorkSteps, InboundSteps
  <2>4. CASE InboundOf(o) # {}
    <3>1. desk'[d].pc \notin WorkSteps /\ \A e \in Desk \ {d} : desk'[e] = desk[e]
      BY <1>0, <1>4, <2>4, DeskAfter DEF InboundCheck
    <3>2. ASSUME Knows(d) PROVE Agrees(o)'
      BY <1>0, <2>1, <2>2, <3>2, AgreesSame DEF Knows
    <3> QED BY <1>0, <1>2, <2>2, <3>1, <3>2, HandlerTurn DEF Working
  <2> QED BY <2>3, <2>4
<1>5. CASE InboundCreate(d)
  <2> DEFINE row == [order |-> o, nr |-> Cardinality(InboundOf(o)) + 1, quantity |-> desk[d].stock]
  <2>1. inbounds' = inbounds \cup {row} /\ UNCHANGED sales /\ GotoStep(d, "inboundSales") /\ desk[d].pc = "inboundCreate"
    BY <1>0, <1>5 DEF InboundCreate, DeskAt
  <2>2. row.order = o
    OBVIOUS
  <2> HIDE DEF row
  <2>3. /\ desk'[d].pc = "inboundSales" /\ desk'[d].order = o /\ \A e \in Desk \ {d} : desk'[e] = desk[e]
    BY <1>0, <2>1, DeskAfter DEF WorkSteps, InboundSteps
  <2>4. \A p \in Order \ {o} : Same(p)
    <3>1. \E r : r.order = o /\ inbounds' \in {inbounds, inbounds \cup {r}}
      BY <2>1, <2>2
    <3>2. \E r : r.order = o /\ outbounds' \in {outbounds, outbounds \cup {r}}
      BY <1>2, <2>2
    <3> QED BY <1>2, <2>1, <3>1, <3>2, OthersSame
  <2>5. ASSUME Knows(d) PROVE Knows(d)'
    <3>1. purchase[o] = "ARRIVED_WB" /\ o \in linked /\ Bought(o) /\ InboundOf(o) = {}
      BY <1>0, <2>1, <2>5 DEF Knows, InboundSteps
    <3>2. Parcels(o)' = {}
      BY <1>3, <3>1, GoodsOf
    <3>3. row \in InboundOf(o)'
      BY <2>1, <2>2 DEF InboundOf
    <3>4. purchase'[o] = "ARRIVED_WB" /\ o \in linked' /\ Bought(o)' /\ InboundOf(o)' # {}
      BY <1>2, <3>1, <3>3 DEF Bought
    <3> QED BY <2>3, <3>2, <3>4 DEF Knows, AdvanceSteps, InboundSteps
  <2> QED BY <1>0, <1>2, <2>3, <2>4, <2>5, HandlerTurn DEF Working, WorkSteps, InboundSteps
<1>6. CASE InboundSales(d)
  <2>1. sales' = [sales EXCEPT ![o] = "INBOUND"] /\ UNCHANGED inbounds /\ Leave(d) /\ desk[d].pc = "inboundSales"
    BY <1>0, <1>6 DEF InboundSales, DeskAt, goods
  <2>2. desk'[d].pc \notin WorkSteps /\ \A e \in Desk \ {d} : desk'[e] = desk[e]
    BY <2>1, DeskAfter
  <2>3. \A p \in Order \ {o} : Same(p)
    BY <1>1, <1>2, <2>1, GoodsSame, OthersSame
  <2>4. ASSUME Knows(d) PROVE Agrees(o)'
    <3>1. purchase[o] = "ARRIVED_WB" /\ o \in linked /\ Bought(o) /\ InboundOf(o) # {} /\ Parcels(o) = {}
      BY <1>0, <2>1, <2>4 DEF Knows, InboundSteps
    <3>2. InboundOf(o)' = InboundOf(o) /\ sales'[o] = "INBOUND" /\ purchase'[o] = purchase[o]
      BY <1>1, <1>2, <2>1, GoodsSame
    <3>3. Bought(o)' /\ o \in linked'
      BY <1>2, <3>1 DEF Bought
    <3> QED BY <1>3, <3>1, <3>2, <3>3 DEF Agrees, Stocked, Booked
  <2> QED BY <1>0, <1>2, <2>2, <2>3, <2>4, HandlerTurn DEF Working
<1> QED BY <1>4, <1>5, <1>6

\* Booking out: the check, the parcel, the sales order.
LEMMA OutboundFacts ==
  ASSUME OrderTypes, OrderTypes', Facts, GoodsApart, NEW d \in Desk, OutboundCheck(d) \/ OutboundCreate(d) \/ OutboundSales(d)
  PROVE  Facts'
<1>0. PICK o \in Order : desk[d].order = o /\ Working(d, o)
  BY AtWorkOn DEF OutboundCheck, OutboundCreate, OutboundSales, DeskAt, WorkSteps, OutboundSteps
<1>1. sales \in [Order -> SalesStatuses \cup {"NONE"}] /\ desk[d] \in Slots
  BY DEF OrderTypes, RowsOK, SlotsOK
<1>2. UNCHANGED <<raced, purchase, linked, placed, alerts, inbounds>>
  BY DEF OutboundCheck, OutboundCreate, OutboundSales, goods
<1>3. InboundOf(o)' = InboundOf(o)
  BY <1>2, GoodsSame
<1>4. CASE OutboundCheck(d)
  <2>1. UNCHANGED <<sales, outbounds>> /\ desk[d].pc = "outboundCheck"
    BY <1>4 DEF OutboundCheck, DeskAt, goods
  <2>2. \A p \in Order : Same(p)
    BY <1>2, <2>1, GoodsSame DEF Same
  <2>3. Leave(d) \/ (TakenFrom(o, desk[d].stock) = {} /\ GotoStep(d, "outboundCreate"))
    BY <1>0, <1>4 DEF OutboundCheck
  <2>4. CASE TakenFrom(o, desk[d].stock) = {} /\ GotoStep(d, "outboundCreate")
    <3>1. desk'[d].pc = "outboundCreate" /\ desk'[d].order = o /\ \A e \in Desk \ {d} : desk'[e] = desk[e]
      BY <1>0, <2>4, DeskAfter DEF WorkSteps, OutboundSteps
    <3>2. ASSUME o \notin raced, Knows(d) PROVE Knows(d)'
      <4>1. Stocked(o)'
        BY <1>0, <2>1, <2>2, <3>2, AgreesSame DEF Knows
      <4>2. PICK i \in inbounds : i.order = o /\ i.nr = desk[d].stock
        BY <1>0, <2>1 DEF OrderTypes, SlotsOK, SlotOK, OutboundSteps
      <4>3. Parcels(o) = {}
        BY <2>4, <3>2, <4>2, GoodsOf DEF InboundOf
      <4>4. Parcels(o)' = {}
        BY <2>2, <4>3 DEF Same
      <4> QED BY <3>1, <4>1, <4>4 DEF Knows, AdvanceSteps, InboundSteps
    <3> QED BY <1>0, <1>2, <2>2, <3>1, <3>2, HandlerTurn DEF Working, WorkSteps, OutboundSteps
  <2>5. CASE Leave(d)
    <3>1. desk'[d].pc \notin WorkSteps /\ \A e \in Desk \ {d} : desk'[e] = desk[e]
      BY <2>5, DeskAfter
    <3>2. ASSUME Knows(d) PROVE Agrees(o)'
      BY <1>0, <2>1, <2>2, <3>2, AgreesSame DEF Knows, Agrees
    <3> QED BY <1>0, <1>2, <2>2, <3>1, <3>2, HandlerTurn DEF Working
  <2> QED BY <2>3, <2>4, <2>5
<1>5. CASE OutboundCreate(d)
  <2> DEFINE row == [order |-> o, nr |-> desk[d].stock, tracking |-> desk[d].tracking]
  <2>1. /\ UNCHANGED sales /\ desk[d].pc = "outboundCreate"
        /\ \/ Leave(d) /\ UNCHANGED outbounds
           \/ outbounds' = outbounds \cup {row} /\ GotoStep(d, "outboundSales")
    BY <1>0, <1>5 DEF OutboundCreate, DeskAt
  <2>2. row.order = o
    OBVIOUS
  <2> HIDE DEF row
  <2>3. CASE Leave(d) /\ UNCHANGED outbounds
    <3>1. desk'[d].pc \notin WorkSteps /\ \A e \in Desk \ {d} : desk'[e] = desk[e]
      BY <2>3, DeskAfter
    <3>2. \A p \in Order : Same(p)
      BY <1>2, <2>1, <2>3, GoodsSame DEF Same
    <3>3. ASSUME Knows(d) PROVE Agrees(o)'
      BY <1>0, <2>1, <3>2, <3>3, AgreesSame DEF Knows, Agrees
    <3> QED BY <1>0, <1>2, <3>1, <3>2, <3>3, HandlerTurn DEF Working
  <2>4. CASE outbounds' = outbounds \cup {row} /\ GotoStep(d, "outboundSales")
    <3>1. /\ desk'[d].pc = "outboundSales" /\ desk'[d].order = o /\ \A e \in Desk \ {d} : desk'[e] = desk[e]
      BY <1>0, <2>4, DeskAfter DEF WorkSteps, OutboundSteps
    <3>2. \A p \in Order \ {o} : Same(p)
      <4>1. \E r : r.order = o /\ inbounds' \in {inbounds, inbounds \cup {r}}
        BY <1>2, <2>2
      <4>2. \E r : r.order = o /\ outbounds' \in {outbounds, outbounds \cup {r}}
        BY <2>2, <2>4
      <4> QED BY <1>2, <2>1, <4>1, <4>2, OthersSame
    <3>3. ASSUME Knows(d) PROVE Knows(d)'
      <4>1. Booked(o)
        BY <1>0, <2>1, <3>3 DEF Knows, Stocked
      <4>2. Booked(o)'
        BY <1>2, <1>3, <4>1 DEF Booked, Bought
      <4>3. row \in Parcels(o)'
        BY <2>2, <2>4 DEF Parcels
      <4> QED BY <3>1, <4>2, <4>3 DEF Knows, AdvanceSteps, InboundSteps
    <3> QED BY <1>0, <1>2, <3>1, <3>2, <3>3, HandlerTurn DEF Working, WorkSteps, OutboundSteps
  <2> QED BY <2>1, <2>3, <2>4
<1>6. CASE OutboundSales(d)
  <2>1. sales' = [sales EXCEPT ![o] = "SHIPPED"] /\ UNCHANGED outbounds /\ Leave(d) /\ desk[d].pc = "outboundSales"
    BY <1>0, <1>6 DEF OutboundSales, DeskAt, goods
  <2>2. desk'[d].pc \notin WorkSteps /\ \A e \in Desk \ {d} : desk'[e] = desk[e]
    BY <2>1, DeskAfter
  <2>3. \A p \in Order \ {o} : Same(p)
    BY <1>1, <1>2, <2>1, GoodsSame, OthersSame
  <2>4. ASSUME Knows(d) PROVE Agrees(o)'
    <3>1. Booked(o) /\ Parcels(o) # {}
      BY <1>0, <2>1, <2>4 DEF Knows
    <3>2. Booked(o)'
      BY <1>2, <1>3, <3>1 DEF Booked, Bought
    <3>3. Parcels(o)' # {} /\ sales'[o] = "SHIPPED"
      BY <1>1, <2>1, <3>1, GoodsSame
    <3> QED BY <3>2, <3>3 DEF Agrees, Stocked
  <2> QED BY <1>0, <1>2, <2>2, <2>3, <2>4, HandlerTurn DEF Working
<1> QED BY <1>4, <1>5, <1>6

\* A handler that meets nobody at an order is alone with it.
LEMMA MeetsNobody ==
  ASSUME OrderTypes, NEW d \in Desk, NEW o \in Order, Meets(d, o)
  PROVE  /\ raced' \subseteq raced \cup {o} /\ raced \subseteq raced'
         /\ o \notin raced' => o \notin raced /\ \A e \in Desk \ {d} : ~Working(e, o)
BY DEF Meets, AtWork, Working, DeskAt, WorkSteps, CreateSteps, AdvanceSteps, InboundSteps, OutboundSteps

\* An order nobody is at agrees.
LEMMA NobodyAt ==
  ASSUME OrderTypes, Facts, NEW d \in Desk, NEW o \in Order, desk[d].pc \notin WorkSteps,
         o \notin raced, \A e \in Desk \ {d} : ~Working(e, o)
  PROVE  Agrees(o)
BY DEF Facts, RestAgrees, Working

\* A handler that takes an order up from its free slot, or that reads its purchase.
LEMMA StartTurn ==
  ASSUME OrderTypes, OrderTypes', Facts, NEW d \in Desk, NEW o \in Order, desk[d].pc \notin WorkSteps,
         UNCHANGED <<sales, purchase, linked, placed, alerts, goods>>,
         raced' \subseteq raced \cup {o}, raced \subseteq raced',
         o \notin raced' => \A e \in Desk \ {d} : ~Working(e, o),
         NEW v \in Slots, desk' = [desk EXCEPT ![d] = v], v.order = o \/ v.pc \notin WorkSteps,
         o \notin raced' /\ Agrees(o) /\ v.pc \in WorkSteps => Knows(d)'
  PROVE  Facts'
<1>1. desk'[d] = v /\ \A e \in Desk \ {d} : desk'[e] = desk[e]
  BY DeskAfter
<1>2. \A p \in Order : Same(p)
  BY GoodsSame DEF Same, goods
<1>3. \A p \in Order \ {o} : p \in raced' <=> p \in raced
  OBVIOUS
<1>4. o \notin raced' => Agrees(o) /\ Agrees(o)'
  BY <1>2, NobodyAt, AgreesSame
<1>5. \A p \in Order : (Working(d, p) => p = o) /\ (Working(d, p)' => p = o)
  BY <1>1 DEF Working
<1>6. Working(d, o)' => v.pc \in WorkSteps
  BY <1>1 DEF Working
<1> QED BY <1>1, <1>2, <1>3, <1>4, <1>5, <1>6, WorkTurn

\* The status of a purchase is read: of an order nobody is at, all is known.
LEMMA ReadFacts ==
  ASSUME OrderTypes, OrderTypes', Facts, NEW d \in Desk, AdvanceRead(d)
  PROVE  Facts'
<1>0. PICK o \in Order : desk[d].pc = "advanceRead" /\ desk[d].order = o
  BY ReadSlot
<1>1. UNCHANGED <<sales, purchase, linked, placed, alerts, goods>> /\ Meets(d, o)
  BY <1>0 DEF AdvanceRead
<1>2. /\ raced' \subseteq raced \cup {o} /\ raced \subseteq raced'
      /\ o \notin raced' => \A e \in Desk \ {d} : ~Working(e, o)
  BY <1>0, <1>1, MeetsNobody
<1>3. desk[d].pc \notin WorkSteps
  BY <1>0 DEF WorkSteps, CreateSteps, AdvanceSteps, InboundSteps, OutboundSteps
<1>4. CASE desk' = [desk EXCEPT ![d] = Free]
  <2>1. Free \in Slots /\ Free.pc \notin WorkSteps
    BY FreeSlot DEF WorkSteps, CreateSteps, AdvanceSteps, InboundSteps, OutboundSteps
  <2> QED BY <1>0, <1>1, <1>2, <1>3, <1>4, <2>1, StartTurn
<1>5. ASSUME NEW v \in Slots, desk' = [desk EXCEPT ![d] = v], v.order = o, v.inform = {v.order} \cap linked,
             \/ v.pc = "place" /\ v.next = "PURCHASE_SUCCESS" /\ purchase[v.order] = "PENDING_PURCHASE"
             \/ /\ v.pc = "advanceWrite"
                /\ \/ v.next = "PURCHASE_FAILED" /\ purchase[v.order] = "PENDING_PURCHASE"
                   \/ v.next = "SHIPPED_TO_WB" /\ purchase[v.order] = "PURCHASE_SUCCESS"
                   \/ v.next = "ARRIVED_WB" /\ purchase[v.order] = "SHIPPED_TO_WB"
      PROVE  Facts'
  <2>1. ASSUME Agrees(o) PROVE Knows(d)'
    <3>1. purchase[o] \in {"PENDING_PURCHASE", "PURCHASE_SUCCESS", "SHIPPED_TO_WB"}
      BY <1>5
    <3>2. Followed(o)
      BY <2>1, <3>1 DEF Agrees, Unmade, Stocked, Booked
    <3>3. o \in linked /\ InboundOf(o) = {} /\ Bought(o) /\ v.inform = {o}
      BY <1>5, <3>2 DEF Followed
    <3>4. desk'[d] = v
      BY <1>5, DeskAfter
    <3>5. \A p \in Order : Same(p)
      BY <1>1, GoodsSame DEF Same, goods
    <3>6. Followed(o)' /\ o \in linked' /\ InboundOf(o)' = {} /\ purchase'[o] = purchase[o] /\ placed'[o] = placed[o]
      BY <1>0, <3>2, <3>3, <3>5, AgreesSame DEF Same
    <3>7. CASE v.pc = "place"
      <4>1. v.next = "PURCHASE_SUCCESS" /\ purchase'[o] = "PENDING_PURCHASE"
        BY <1>5, <3>6, <3>7
      <4> QED BY <1>5, <3>3, <3>4, <3>6, <3>7, <4>1 DEF Knows, AdvanceSteps, InboundSteps
    <3>8. CASE v.pc = "advanceWrite"
      <4>1. /\ v.next \in BoughtStatuses \cup {"PURCHASE_FAILED"}
            /\ placed'[o] = IF v.next \in BoughtStatuses THEN 1 ELSE 0
        BY <1>5, <3>3, <3>6, <3>8 DEF Bought, BoughtStatuses
      <4> QED BY <1>5, <3>3, <3>4, <3>6, <3>8, <4>1 DEF Knows, AdvanceSteps, InboundSteps
    <3> QED BY <1>5, <3>7, <3>8
  <2> QED BY <1>0, <1>1, <1>2, <1>3, <1>5, <2>1, StartTurn
<1> QED BY <1>0, <1>4, <1>5, ReadSlot

\* A sales order is made, goods are to be booked in or out.
LEMMA StartFacts ==
  ASSUME OrderTypes, OrderTypes', Facts, NEW d \in Desk,
         \/ SalesStart(d)
         \/ \E o \in Order, quantity \in 1 .. Ordered : InboundStart(d, o, quantity)
         \/ \E i \in inbounds, t \in Tracking : OutboundStart(d, i, t)
  PROVE  Facts'
<1>0. desk[d].pc = "free" /\ desk[d].pc \notin WorkSteps
  BY DEF SalesStart, InboundStart, OutboundStart, DeskAt, WorkSteps, CreateSteps, AdvanceSteps, InboundSteps, OutboundSteps
<1>1. UNCHANGED <<sales, purchase, linked, placed, alerts, goods>>
  BY DEF SalesStart, InboundStart, OutboundStart
<1>2. \A p \in Order : Same(p)
  BY <1>1, GoodsSame DEF Same, goods
<1>3. CASE SalesStart(d)
  <2>1. PICK o \in Order : /\ sales[o] = "NONE" /\ AtWork(o) = {}
                           /\ desk' = [desk EXCEPT ![d] = [Free EXCEPT !.pc = "createSales", !.order = o]]
    BY <1>3 DEF SalesStart
  <2> DEFINE v == [Free EXCEPT !.pc = "createSales", !.order = o]
  <2>2. v \in Slots /\ v.pc = "createSales" /\ v.order = o
    BY FreeSlot DEF Slots, WorkSteps, CreateSteps
  <2>3. desk' = [desk EXCEPT ![d] = v]
    BY <2>1
  <2> HIDE DEF v
  <2>4. \A e \in Desk : ~Working(e, o)
    BY <2>1 DEF AtWork, Working, DeskAt, WorkSteps, CreateSteps, AdvanceSteps, InboundSteps, OutboundSteps
  <2>5. raced' = raced
    BY <1>3 DEF SalesStart
  <2>6. ASSUME Agrees(o) PROVE Knows(d)'
    <3>1. Unmade(o)
      <4>1. ~Stocked(o)
        BY <2>1 DEF Stocked
      <4>2. ASSUME Followed(o) PROVE FALSE
        <5>1. purchase[o] \in PurchaseStatuses \cup {"NONE"}
          BY DEF OrderTypes, RowsOK
        <5>2. SalesStatusForPurchase(purchase[o]) \in SalesStatuses
          BY <4>2, <5>1, StatusTypes DEF Followed
        <5> QED BY <2>1, <4>2, <5>2 DEF Followed, SalesStatuses
      <4> QED BY <2>6, <4>1, <4>2 DEF Agrees
    <3>2. Unmade(o)' /\ desk'[d] = v
      BY <1>2, <2>2, <2>3, <3>1, AgreesSame, DeskAfter
    <3> QED BY <2>2, <3>2 DEF Knows, AdvanceSteps, InboundSteps
  <2> QED BY <1>0, <1>1, <2>2, <2>3, <2>4, <2>5, <2>6, StartTurn
<1>4. ASSUME NEW o \in Order, NEW quantity \in 1 .. Ordered, InboundStart(d, o, quantity) PROVE Facts'
  <2>1. PICK v \in Slots : desk' = [desk EXCEPT ![d] = v] /\ v.pc = "inboundCheck" /\ v.order = o
    BY <1>4, StartSlot
  <2>2. Meets(d, o) /\ purchase[o] = "ARRIVED_WB" /\ o \in linked
    BY <1>4 DEF InboundStart, HasArrived
  <2>3. /\ raced' \subseteq raced \cup {o} /\ raced \subseteq raced'
        /\ o \notin raced' => \A e \in Desk \ {d} : ~Working(e, o)
    BY <2>2, MeetsNobody
  <2>4. ASSUME Agrees(o) PROVE Knows(d)'
    <3>1. Bought(o)
      BY <2>4 DEF Agrees, Unmade, Followed, Stocked, Booked
    <3>2. /\ desk'[d] = v /\ Bought(o)' /\ Agrees(o)' /\ purchase'[o] = "ARRIVED_WB" /\ o \in linked'
      BY <1>1, <1>2, <2>1, <2>2, <2>4, <3>1, AgreesSame, DeskAfter
    <3> QED BY <2>1, <3>2 DEF Knows, AdvanceSteps, InboundSteps
  <2> QED BY <1>0, <1>1, <2>1, <2>3, <2>4, StartTurn
<1>5. ASSUME NEW i \in inbounds, NEW t \in Tracking, OutboundStart(d, i, t) PROVE Facts'
  <2>0. PICK o \in Order : i.order = o
    BY DEF OrderTypes, GoodsOK
  <2>1. PICK v \in Slots : desk' = [desk EXCEPT ![d] = v] /\ v.pc = "outboundCheck" /\ v.order = o
    BY <1>5, <2>0, StartSlot
  <2>2. Meets(d, o)
    BY <1>5, <2>0 DEF OutboundStart
  <2>3. /\ raced' \subseteq raced \cup {o} /\ raced \subseteq raced'
        /\ o \notin raced' => \A e \in Desk \ {d} : ~Working(e, o)
    BY <2>2, MeetsNobody
  <2>4. ASSUME Agrees(o) PROVE Knows(d)'
    <3>1. InboundOf(o) # {}
      BY <2>0 DEF InboundOf
    <3>2. Stocked(o)
      BY <2>4, <3>1 DEF Agrees, Unmade, Followed
    <3>3. desk'[d] = v /\ Stocked(o)'
      BY <1>2, <2>1, <3>2, AgreesSame, DeskAfter
    <3> QED BY <2>1, <3>3 DEF Knows, AdvanceSteps, InboundSteps
  <2> QED BY <1>0, <1>1, <2>1, <2>3, <2>4, StartTurn
<1> QED BY <1>3, <1>4, <1>5

\* A call that throws ends the handler and names its order in raced.
LEMMA BreakFacts ==
  ASSUME OrderTypes, OrderTypes', Facts, NEW d \in Desk, Break(d)
  PROVE  Facts'
<1>1. PICK o \in Order : desk[d].order = o /\ raced' = raced \cup {o}
  BY OrderAssumptions DEF Break, DeskAt, OrderTypes, SlotsOK, SlotOK, Slots
<1>2. desk'[d] = Free /\ \A e \in Desk \ {d} : desk'[e] = desk[e]
  BY FreeSlot, DeskAfter DEF Break, Leave
<1>3. Free.pc \notin WorkSteps
  BY FreeSlot DEF WorkSteps, CreateSteps, AdvanceSteps, InboundSteps, OutboundSteps
<1>4. \A p \in Order : Same(p)
  BY GoodsSame DEF Break, Same, goods
<1>5. \A p \in Order : (Working(d, p) => p = o) /\ (Working(d, p)' => p = o)
  BY <1>1, <1>2, <1>3 DEF Working
<1> QED BY <1>1, <1>2, <1>4, <1>5, WorkTurn

\* The shelf moves, an alert is resolved, a purchase is to be advanced or marked failed.
LEMMA CalmFacts ==
  ASSUME OrderTypes, OrderTypes', Facts,
         \/ ShelfMoves
         \/ \E o \in Order : ResolveAlert(o)
         \/ \E d \in Desk, O \in SUBSET Order : AdvanceStart(d, O)
         \/ \E d \in Desk, o \in Order : MarkFailedStart(d, o)
         \/ UNCHANGED orderVars
  PROVE  Facts'
<1>1. UNCHANGED <<sales, purchase, linked, placed, goods, raced>>
  BY DEF ShelfMoves, ResolveAlert, AdvanceStart, MarkFailedStart, orderVars, goods
<1>2. CASE UNCHANGED alerts
  <2>1. \A p \in Order : Same(p)
    BY <1>1, <1>2, GoodsSame DEF Same, goods
  <2>2. CASE UNCHANGED desk
    BY <1>1, <2>1, <2>2, CalmTurn
  <2>3. ASSUME NEW d \in Desk, NEW O \in SUBSET Order, AdvanceStart(d, O) PROVE Facts'
    <3>1. desk[d].pc \notin WorkSteps /\ desk'[d].pc \notin WorkSteps /\ \A e \in Desk \ {d} : desk'[e] = desk[e]
      BY <2>3, DeskAfter DEF AdvanceStart, DeskAt, WorkSteps, CreateSteps, AdvanceSteps, InboundSteps, OutboundSteps
    <3> QED BY <1>1, <2>1, <3>1, CalmTurn
  <2>4. ASSUME NEW d \in Desk, NEW o \in Order, MarkFailedStart(d, o) PROVE Facts'
    <3>1. PICK v \in Slots : desk' = [desk EXCEPT ![d] = v] /\ v.pc = "advanceRead"
      BY <2>4, StartSlot
    <3>2. desk'[d].pc = "advanceRead" /\ desk[d].pc = "free" /\ \A e \in Desk \ {d} : desk'[e] = desk[e]
      BY <2>4, <3>1, DeskAfter DEF MarkFailedStart, DeskAt
    <3>3. desk[d].pc \notin WorkSteps /\ desk'[d].pc \notin WorkSteps
      BY <3>2 DEF WorkSteps, CreateSteps, AdvanceSteps, InboundSteps, OutboundSteps
    <3> QED BY <1>1, <2>1, <3>2, <3>3, CalmTurn
  <2> QED BY <2>2, <2>3, <2>4 DEF ShelfMoves, ResolveAlert, orderVars
<1>3. ASSUME NEW o \in Order, ResolveAlert(o) PROVE Facts'
  <2>1. alerts \in [Order -> [OPEN : Nat, RESOLVED : Nat]] /\ alerts[o].OPEN > 0
    BY <1>3 DEF OrderTypes, RowsOK, ResolveAlert
  <2>2. \A p \in Order : alerts[p].OPEN + alerts[p].RESOLVED > 0 => alerts'[p].OPEN + alerts'[p].RESOLVED > 0
    <3> SUFFICES ASSUME NEW p \in Order, alerts[p].OPEN + alerts[p].RESOLVED > 0
                 PROVE  alerts'[p].OPEN + alerts'[p].RESOLVED > 0
      OBVIOUS
    <3>1. CASE p = o
      <4>1. alerts[o] \in [OPEN : Nat, RESOLVED : Nat]
        BY <2>1
      <4>2. alerts'[o].OPEN = alerts[o].OPEN - 1 /\ alerts'[o].RESOLVED = alerts[o].RESOLVED + 1
        BY <1>3, <2>1, <4>1 DEF ResolveAlert
      <4> QED BY <2>1, <3>1, <4>1, <4>2
    <3>2. CASE p # o
      BY <1>3, <2>1, <3>2 DEF ResolveAlert
    <3> QED BY <3>1, <3>2
  <2>3. \A p \in Order : Same(p)
    BY <1>1, <2>2, GoodsSame DEF Same, goods
  <2> QED BY <1>1, <1>3, <2>3, CalmTurn DEF ResolveAlert
<1> QED BY <1>2, <1>3 DEF ShelfMoves, AdvanceStart, MarkFailedStart, orderVars

\* Every step keeps what handlers and orders at rest agree on.
LEMMA FactsStep == OrderTypes /\ OrderTypes' /\ Facts /\ GoodsApart /\ [OrderNext]_orderVars => Facts'
<1> SUFFICES ASSUME OrderTypes, OrderTypes', Facts, GoodsApart, [OrderNext]_orderVars PROVE Facts'
  OBVIOUS
<1>1. CASE \/ ShelfMoves \/ (\E o \in Order : ResolveAlert(o)) \/ UNCHANGED orderVars
           \/ \E d \in Desk : \/ \E O \in SUBSET Order : AdvanceStart(d, O)
                              \/ \E o \in Order : MarkFailedStart(d, o)
  BY <1>1, CalmFacts
<1>2. ASSUME NEW d \in Desk, Break(d) \/ AdvanceRead(d) PROVE Facts'
  BY <1>2, BreakFacts, ReadFacts
<1>3. ASSUME NEW d \in Desk, CreateSales(d) \/ CreatePurchase(d) \/ CreateLink(d) PROVE Facts'
  BY <1>3, CreateFacts
<1>4. ASSUME NEW d \in Desk, Place(d) \/ AdvanceWrite(d) \/ SyncSales(d) \/ RaiseAlert(d) PROVE Facts'
  BY <1>4, AdvanceFacts
<1>5. ASSUME NEW d \in Desk, \/ SalesStart(d)
                             \/ \E o \in Order, quantity \in 1 .. Ordered : InboundStart(d, o, quantity)
                             \/ \E i \in inbounds, t \in Tracking : OutboundStart(d, i, t)
      PROVE  Facts'
  BY <1>5, StartFacts
<1>6. ASSUME NEW d \in Desk, InboundCheck(d) \/ InboundCreate(d) \/ InboundSales(d) PROVE Facts'
  BY <1>6, InboundFacts
<1>7. ASSUME NEW d \in Desk, OutboundCheck(d) \/ OutboundCreate(d) \/ OutboundSales(d) PROVE Facts'
  BY <1>7, OutboundFacts
<1> QED BY <1>1, <1>2, <1>3, <1>4, <1>5, <1>6, <1>7 DEF OrderNext

\* raced only grows.
LEMMA RacedGrows == OrderTypes /\ [OrderNext]_orderVars => raced \subseteq raced'
<1> SUFFICES ASSUME OrderTypes, [OrderNext]_orderVars PROVE raced \subseteq raced'
  OBVIOUS
<1>1. ASSUME NEW d \in Desk, \/ AdvanceRead(d) \/ Break(d)
                             \/ \E o \in Order, quantity \in 1 .. Ordered : InboundStart(d, o, quantity)
                             \/ \E i \in inbounds, t \in Tracking : OutboundStart(d, i, t)
      PROVE  raced \subseteq raced'
  BY <1>1 DEF AdvanceRead, Break, InboundStart, OutboundStart, Meets
<1>2. ASSUME NEW d \in Desk, \/ SalesStart(d) \/ CreateSales(d) \/ CreatePurchase(d) \/ CreateLink(d)
                             \/ Place(d) \/ AdvanceWrite(d) \/ SyncSales(d) \/ RaiseAlert(d)
                             \/ \E O \in SUBSET Order : AdvanceStart(d, O)
                             \/ \E o \in Order : MarkFailedStart(d, o)
                             \/ InboundCheck(d) \/ InboundCreate(d) \/ InboundSales(d)
                             \/ OutboundCheck(d) \/ OutboundCreate(d) \/ OutboundSales(d)
      PROVE  raced' = raced
  BY <1>2 DEF SalesStart, CreateSales, CreatePurchase, CreateLink, Place, AdvanceWrite, SyncSales, RaiseAlert,
     AdvanceStart, MarkFailedStart, InboundCheck, InboundCreate, InboundSales, OutboundCheck, OutboundCreate, OutboundSales
<1>3. CASE ShelfMoves \/ (\E o \in Order : ResolveAlert(o)) \/ UNCHANGED orderVars
  BY <1>3 DEF ShelfMoves, ResolveAlert, orderVars
<1> QED BY <1>1, <1>2, <1>3 DEF OrderNext

\* Every step keeps the goods apart: an order is booked in where it was not, and out
\* where no parcel of it is.
LEMMA GoodsStep == OrderTypes /\ OrderTypes' /\ Facts /\ GoodsApart /\ [OrderNext]_orderVars => GoodsApart'
<1> SUFFICES ASSUME OrderTypes, OrderTypes', Facts, GoodsApart, [OrderNext]_orderVars PROVE GoodsApart'
  OBVIOUS
<1>0. raced \subseteq raced'
  BY RacedGrows
<1>1. CASE UNCHANGED goods
  BY <1>0, <1>1 DEF GoodsApart, goods
<1>2. ASSUME NEW d \in Desk, InboundCreate(d) PROVE GoodsApart'
  <2>1. PICK o \in Order : desk[d].order = o /\ Working(d, o)
    BY <1>2, AtWorkOn DEF InboundCreate, DeskAt, WorkSteps, InboundSteps
  <2> DEFINE row == [order |-> o, nr |-> Cardinality(InboundOf(o)) + 1, quantity |-> desk[d].stock]
  <2>2. inbounds' = inbounds \cup {row} /\ UNCHANGED <<outbounds, raced>> /\ row.order = o
    BY <1>2, <2>1 DEF InboundCreate
  <2> HIDE DEF row
  <2>3. o \notin raced => InboundOf(o) = {}
    BY <1>2, <2>1 DEF InboundCreate, DeskAt, Facts, AllKnow, Knows, WorkSteps, InboundSteps
  <2> QED BY <2>2, <2>3 DEF GoodsApart, InboundOf
<1>3. ASSUME NEW d \in Desk, OutboundCreate(d) PROVE GoodsApart'
  <2>1. PICK o \in Order : desk[d].order = o /\ Working(d, o)
    BY <1>3, AtWorkOn DEF OutboundCreate, DeskAt, WorkSteps, OutboundSteps
  <2>2. CASE UNCHANGED outbounds
    BY <1>3, <2>2, <1>1 DEF OutboundCreate, goods
  <2>3. CASE outbounds' # outbounds
    <3> DEFINE row == [order |-> o, nr |-> desk[d].stock, tracking |-> desk[d].tracking]
    <3>1. /\ outbounds' = outbounds \cup {row} /\ UNCHANGED <<inbounds, raced>> /\ row.order = o
          /\ \A x \in outbounds : x.tracking # row.tracking
      BY <1>3, <2>1, <2>3 DEF OutboundCreate
    <3> HIDE DEF row
    <3>2. o \notin raced => Parcels(o) = {}
      BY <1>3, <2>1 DEF OutboundCreate, DeskAt, Facts, AllKnow, Knows, WorkSteps, OutboundSteps
    <3> QED BY <3>1, <3>2 DEF GoodsApart, Parcels
  <2> QED BY <2>2, <2>3
<1>4. ASSUME NEW d \in Desk, \/ SalesStart(d) \/ CreateSales(d) \/ CreatePurchase(d) \/ CreateLink(d)
                             \/ Break(d) \/ AdvanceRead(d) \/ Place(d) \/ AdvanceWrite(d) \/ SyncSales(d) \/ RaiseAlert(d)
                             \/ \E O \in SUBSET Order : AdvanceStart(d, O)
                             \/ \E o \in Order : MarkFailedStart(d, o)
                             \/ \E o \in Order, quantity \in 1 .. Ordered : InboundStart(d, o, quantity)
                             \/ \E i \in inbounds, t \in Tracking : OutboundStart(d, i, t)
                             \/ InboundCheck(d) \/ InboundSales(d) \/ OutboundCheck(d) \/ OutboundSales(d)
      PROVE  UNCHANGED goods
  BY <1>4 DEF SalesStart, CreateSales, CreatePurchase, CreateLink, Break, AdvanceRead, Place, AdvanceWrite, SyncSales,
     RaiseAlert, AdvanceStart, MarkFailedStart, InboundStart, OutboundStart, InboundCheck, InboundSales, OutboundCheck, OutboundSales
<1>5. CASE ShelfMoves \/ (\E o \in Order : ResolveAlert(o)) \/ UNCHANGED orderVars
  BY <1>1, <1>5 DEF ShelfMoves, ResolveAlert, orderVars, goods
<1> QED BY <1>1, <1>2, <1>3, <1>4, <1>5 DEF OrderNext

-----------------------------------------------------------------------------
\* The first state.
LEMMA OrderStart == OrderInit => OrderInv
<1> SUFFICES ASSUME OrderInit PROVE OrderInv
  OBVIOUS
<1>1. PICK arrived \in SUBSET Order :
        /\ sales = [o \in Order |-> IF o \in arrived THEN "ARRIVED_WB" ELSE "NONE"]
        /\ purchase = sales
        /\ placed = [o \in Order |-> IF o \in arrived THEN 1 ELSE 0]
        /\ linked = arrived
        /\ onShelf = TRUE
        /\ alerts = [o \in Order |-> [OPEN |-> 0, RESOLVED |-> 0]]
        /\ inbounds = {} /\ outbounds = {}
        /\ desk = [d \in Desk |-> Free] /\ raced = {} /\ errands = 0
  BY DEF OrderInit
<1>2. RowsOK
  BY <1>1 DEF RowsOK, SalesStatuses, PurchaseStatuses
<1>3. GoodsOK /\ GoodsApart
  BY <1>1, FS_EmptySet DEF GoodsOK, GoodsApart
<1>4. SlotsOK
  BY <1>1, FreeSlot DEF SlotsOK, SlotOK, InboundSteps, OutboundSteps
<1>5. \A d \in Desk : desk[d].pc \notin WorkSteps
  BY <1>1, FreeSlot DEF WorkSteps, CreateSteps, AdvanceSteps, InboundSteps, OutboundSteps
<1>6. Alone /\ AllKnow
  BY <1>5 DEF Alone, AllKnow, Working
<1>7. ASSUME NEW o \in Order PROVE Agrees(o)
  <2>0. InboundOf(o) = {}
    BY <1>1 DEF InboundOf
  <2>1. CASE o \in arrived
    <3>1. purchase[o] = "ARRIVED_WB" /\ sales[o] = "ARRIVED_WB" /\ placed[o] = 1 /\ o \in linked
      BY <1>1, <2>1
    <3>2. Bought(o)
      BY <3>1 DEF Bought, BoughtStatuses
    <3> QED BY <2>0, <3>1, <3>2, Statuses DEF Agrees, Followed
  <2>2. CASE o \notin arrived
    <3>1. purchase[o] = "NONE" /\ sales[o] = "NONE" /\ placed[o] = 0 /\ o \notin linked
      BY <1>1, <2>2
    <3>2. Bought(o)
      BY <3>1 DEF Bought, BoughtStatuses
    <3> QED BY <2>0, <3>1, <3>2 DEF Agrees, Unmade
  <2> QED BY <2>1, <2>2
<1> QED BY <1>2, <1>3, <1>4, <1>6, <1>7 DEF OrderInv, OrderTypes, RestAgrees

\* The invariant of the proofs: whoever works alone on an order knows where its
\* records stand, and an order nobody works on agrees.
THEOREM OrderInvariant == OrderSpec => []OrderInv
<1>1. OrderInv /\ [OrderNext]_orderVars => OrderInv'
  <2> SUFFICES ASSUME OrderInv, [OrderNext]_orderVars PROVE OrderInv'
    OBVIOUS
  <2>1. OrderTypes'
    BY TypesStep DEF OrderInv
  <2>2. Facts
    BY DEF OrderInv, Facts
  <2>3. Facts' /\ GoodsApart'
    BY <2>1, <2>2, FactsStep, GoodsStep DEF OrderInv
  <2> QED BY <2>1, <2>3 DEF OrderInv, Facts
<1> QED BY <1>1, OrderStart, PTL DEF OrderSpec

\* The types of the orders' records (OrderService, WarehouseService).
THEOREM OrderTypesCorrect == OrderSpec => []OrderTypeOK
<1>1. OrderInv => OrderTypeOK
  BY DEF OrderInv, OrderTypes, RowsOK, GoodsOK, SlotsOK, Slots, OrderTypeOK
<1> QED BY <1>1, OrderInvariant, PTL

\* The sales order, its purchase, the orders placed at Ozon and the goods of an order
\* agree, unless two handlers worked on it at once or one broke off
\* (OrderService.advancePurchase, WarehouseService.inbound and outbound).
THEOREM OrdersKeepAgreeing == OrderSpec => []OrdersAgree
<1>1. OrderInv => OrdersAgree
  <2> SUFFICES ASSUME OrderInv PROVE OrdersAgree
    OBVIOUS
  <2>1. ASSUME NEW o \in Order, Undisturbed(o) PROVE Agrees(o)
    <3>1. \A d \in Desk : ~Working(d, o)
      BY <2>1 DEF Undisturbed, AtWork, Working, DeskAt, WorkSteps, CreateSteps, AdvanceSteps, InboundSteps, OutboundSteps
    <3> QED BY <2>1, <3>1 DEF Undisturbed, OrderInv, RestAgrees
  <2>2. SalesFollowPurchase
    <3> SUFFICES ASSUME NEW o \in Order, Undisturbed(o)
                 PROVE  \/ sales[o] = "NONE" /\ purchase[o] = "NONE"
                        \/ /\ sales[o] = SalesStatusForPurchase(purchase[o]) /\ InboundOf(o) = {}
                           /\ purchase[o] = "PURCHASE_FAILED" => alerts[o].OPEN + alerts[o].RESOLVED > 0
                        \/ /\ purchase[o] = "ARRIVED_WB" /\ InboundOf(o) # {}
                           /\ sales[o] = IF \E x \in outbounds : x.order = o THEN "SHIPPED" ELSE "INBOUND"
      BY DEF SalesFollowPurchase
    <3>1. (\E x \in outbounds : x.order = o) <=> Parcels(o) # {}
      BY DEF Parcels
    <3>2. CASE Stocked(o)
      BY <3>1, <3>2 DEF Stocked, Booked
    <3> QED BY <2>1, <3>2 DEF Agrees, Unmade, Followed
  <2>3. BoughtOnce
    BY <2>1 DEF BoughtOnce, Agrees, Unmade, Followed, Stocked, Booked, Bought, BoughtStatuses
  <2>4. ASSUME NEW o \in Order \ raced PROVE Cardinality(InboundOf(o)) <= 1
    <3>1. CASE InboundOf(o) = {}
      BY <3>1, FS_EmptySet
    <3>2. CASE InboundOf(o) # {}
      <4>1. PICK i : i \in InboundOf(o)
        BY <3>2
      <4>2. InboundOf(o) = {i}
        BY <4>1 DEF InboundOf, OrderInv, GoodsApart
      <4> QED BY <4>2, FS_Singleton
    <3> QED BY <3>1, <3>2
  <2>5. GoodsOnce
    BY <2>4 DEF GoodsOnce, OrderInv, GoodsApart
  <2> QED BY <2>2, <2>3, <2>5 DEF OrdersAgree
<1> QED BY <1>1, OrderInvariant, PTL
=============================================================================
