--------------------------- MODULE EditingProofs ---------------------------
(* Proofs about what operators edit: the services of a project, the prompts    *)
(* with their history, and the proposals that wait for a confirmation.         *)
EXTENDS ServiceCatalogue, PromptEdits, ConfirmSessions, FiniteSetTheorems,
        WellFoundedInduction, TLAPS

(* The lists of services. *)

ServiceRow == [name : Name \cup {"none"}, info : Field, plan : Field]
OfferRow == [name : Name \cup {"none"}, active : BOOLEAN]
JobRow == [pc : {"idle", "get", "delete", "write", "extracted", "retire", "readd"},
           does : {"none", "remove", "confirmed", "schedule", "extract", "remove_offer",
                   "describe"},
           name : Name \cup {"none"}, id : Nat, seen : ServiceRow, plan : Field]

CatalogueTypeOK ==
  /\ catalogue \in [1..MaxRow -> ServiceRow]
  /\ offers \in [1..MaxOffer -> OfferRow]
  /\ nameLock \in [Name -> Job \cup {"none"}]
  /\ job \in [Job -> JobRow]

\* A command is about a service, and the row it is to take off the offer keeps
\* the name under which the command found it.
Fits(r) ==
  /\ r.pc # "idle" => r.name \in Name
  /\ r.pc \in {"get", "delete"} => r.id \in 1..MaxRow
  /\ r.pc = "retire" => r.id \in 1..MaxOffer /\ offers[r.id].name = r.name

CatalogueInv == CatalogueTypeOK /\ \A j \in Job : Fits(job[j])

LEMMA LargestExists ==
  ASSUME NEW n \in Nat, NEW S \in SUBSET (1..n), S # {}
  PROVE  \E x \in S : \A y \in S : y <= x
<1> DEFINE Less == OpToRel(<, Nat)
           depths == {n - x : x \in S}
<1>1. depths \subseteq Nat /\ depths # {}
  <2>1. \A x \in S : n - x \in Nat
    OBVIOUS
  <2>2. PICK y \in S : n - y \in depths
    OBVIOUS
  <2> QED BY <2>1, <2>2
<1>2. IsWellFoundedOn(Less, Nat) BY NatLessThanWellFounded
<1>3. \A c, d \in Nat : c < d => <<c, d>> \in Less BY DEF OpToRel
<1>4. \A x \in S : n - x \in depths
  OBVIOUS
<1>5. \A c \in depths : \E x \in S : c = n - x
  OBVIOUS
<1> HIDE DEF Less, depths
<1>6. PICK c \in depths : \A d \in depths : <<d, c>> \notin Less BY <1>1, <1>2, WFMin
<1>7. PICK x \in S : c = n - x BY <1>5, <1>6
<1>8. ASSUME NEW y \in S PROVE y <= x
  <2>1. n - y \in Nat /\ n - x \in Nat
    OBVIOUS
  <2>2. ~(n - y < n - x) BY <1>3, <1>4, <1>6, <1>7, <2>1
  <2> QED BY <2>1, <2>2
<1> QED BY <1>8

LEMMA LargestIs ==
  ASSUME NEW n \in Nat, NEW S \in SUBSET (1..n)
  PROVE  Largest(S) \in 0..n /\ \A x \in S : x <= Largest(S)
<1>1. CASE S = {} BY <1>1 DEF Largest
<1>2. CASE S # {}
  <2>1. Largest(S) = CHOOSE x \in S : \A y \in S : y <= x BY <1>2 DEF Largest
  <2>2. Largest(S) \in S /\ \A y \in S : y <= Largest(S) BY <1>2, <2>1, LargestExists
  <2>3. Largest(S) \in 1..n BY <2>2
  <2>4. 1..n \subseteq 0..n
    OBVIOUS
  <2> QED BY <2>2, <2>3, <2>4
<1> QED BY <1>1, <1>2

\* The row that is given next is free, if there is one.
LEMMA FreeRowIsFree ==
  ASSUME FreeRow <= MaxRow
  PROVE  FreeRow \in 1..MaxRow /\ catalogue[FreeRow] = NoService
<1> DEFINE taken == {i \in 1..MaxRow : catalogue[i] # NoService}
<1>1. MaxRow \in Nat BY CatalogueBounds
<1>2. taken \in SUBSET (1..MaxRow) /\ \A i \in 1..MaxRow : catalogue[i] # NoService => i \in taken
  OBVIOUS
<1>3. FreeRow = Largest(taken) + 1 BY DEF FreeRow
<1> HIDE DEF taken
<1>4. Largest(taken) \in 0..MaxRow /\ \A x \in taken : x <= Largest(taken)
  BY <1>1, <1>2, LargestIs
<1>5. FreeRow \in 1..MaxRow BY <1>1, <1>3, <1>4
<1> QED BY <1>1, <1>2, <1>3, <1>4, <1>5

LEMMA FreeOfferIsFree ==
  ASSUME FreeOffer <= MaxOffer
  PROVE  FreeOffer \in 1..MaxOffer /\ offers[FreeOffer] = NoOffer
<1> DEFINE taken == {o \in 1..MaxOffer : offers[o] # NoOffer}
<1>1. MaxOffer \in Nat BY CatalogueBounds
<1>2. taken \in SUBSET (1..MaxOffer) /\ \A o \in 1..MaxOffer : offers[o] # NoOffer => o \in taken
  OBVIOUS
<1>3. FreeOffer = Largest(taken) + 1 BY DEF FreeOffer
<1> HIDE DEF taken
<1>4. Largest(taken) \in 0..MaxOffer /\ \A x \in taken : x <= Largest(taken)
  BY <1>1, <1>2, LargestIs
<1>5. FreeOffer \in 1..MaxOffer BY <1>1, <1>3, <1>4
<1> QED BY <1>1, <1>2, <1>3, <1>4, <1>5

LEMMA CatalogueRows ==
  /\ NoService \in ServiceRow /\ NoOffer \in OfferRow /\ NoOffer.name \notin Name
  /\ NoJob \in JobRow /\ NoJob.pc = "idle"
BY CatalogueBounds DEF NoService, NoOffer, NoJob, ServiceRow, OfferRow, JobRow, Field

LEMMA InitCatalogue == CatalogueInit => CatalogueInv
<1> SUFFICES ASSUME CatalogueInit PROVE CatalogueInv
  OBVIOUS
<1>1. CatalogueTypeOK BY CatalogueRows DEF CatalogueInit, CatalogueTypeOK
<1>2. \A j \in Job : Fits(job[j]) BY CatalogueRows DEF CatalogueInit, Fits
<1> QED BY <1>1, <1>2 DEF CatalogueInv

\* The lists change, and at most one command moves on.
LEMMA CatalogueMoves ==
  ASSUME CatalogueInv, catalogue' \in [1..MaxRow -> ServiceRow],
         offers' \in [1..MaxOffer -> OfferRow], nameLock' \in [Name -> Job \cup {"none"}],
         \A o \in 1..MaxOffer : offers[o].name \in Name => offers'[o].name = offers[o].name,
         job' = job \/ \E j \in Job, r \in JobRow : /\ job' = [job EXCEPT ![j] = r]
                                                    /\ Fits(r)'
  PROVE  CatalogueInv'
<1> USE DEF CatalogueInv
<1>1. \A j \in Job : Fits(job[j])' \/ job'[j] = job[j] BY DEF CatalogueTypeOK
<1>2. CatalogueTypeOK' BY DEF CatalogueTypeOK
<1>3. \A j \in Job : Fits(job[j])' BY <1>1 DEF Fits
<1> QED BY <1>2, <1>3

LEMMA UpsertKeeps ==
  ASSUME CatalogueInv, NEW n \in Name, NEW info \in Field, NEW plan \in Field,
         upsert_service(n, info, plan)
  PROVE  /\ catalogue' \in [1..MaxRow -> ServiceRow]
         /\ \A i \in 1..MaxRow :
              IF catalogue[i].name = n
                THEN catalogue'[i] = [name |-> n, info |-> info, plan |-> plan]
                ELSE catalogue[i] # NoService => catalogue'[i] = catalogue[i]
<1> DEFINE row == [name |-> n, info |-> info, plan |-> plan]
<1>1. catalogue \in [1..MaxRow -> ServiceRow] BY DEF CatalogueInv, CatalogueTypeOK
<1>2. row \in ServiceRow BY DEF ServiceRow
<1>3. CASE Rows(n) # {}
  <2>1. catalogue' = [i \in 1..MaxRow |-> IF i \in Rows(n) THEN row ELSE catalogue[i]]
    BY <1>3 DEF upsert_service
  <2>2. \A i \in 1..MaxRow : (i \in Rows(n) <=> catalogue[i].name = n) BY DEF Rows
  <2> HIDE DEF row
  <2> QED BY <1>1, <1>2, <2>1, <2>2 DEF row
<1>4. CASE Rows(n) = {}
  <2>1. FreeRow <= MaxRow /\ catalogue' = [catalogue EXCEPT ![FreeRow] = row]
    BY <1>4 DEF upsert_service
  <2>2. FreeRow \in 1..MaxRow /\ catalogue[FreeRow] = NoService BY <2>1, FreeRowIsFree
  <2>3. \A i \in 1..MaxRow : catalogue[i].name # n BY <1>4 DEF Rows
  <2> HIDE DEF row
  <2> QED BY <1>1, <1>2, <2>1, <2>2, <2>3
<1> QED BY <1>3, <1>4

LEMMA AddOfferKeeps ==
  ASSUME CatalogueInv, NEW n \in Name, AddOffer(n)
  PROVE  /\ offers' \in [1..MaxOffer -> OfferRow]
         /\ \A o \in 1..MaxOffer : offers[o] # NoOffer => offers'[o] = offers[o]
<1> DEFINE row == [name |-> n, active |-> TRUE]
<1>1. offers \in [1..MaxOffer -> OfferRow] BY DEF CatalogueInv, CatalogueTypeOK
<1>2. row \in OfferRow BY Zenon DEF OfferRow
<1>3. FreeOffer \in 1..MaxOffer /\ offers[FreeOffer] = NoOffer BY FreeOfferIsFree DEF AddOffer
<1>4. offers' = [offers EXCEPT ![FreeOffer] = row] BY DEF AddOffer
<1> HIDE DEF row
<1> QED BY <1>1, <1>2, <1>3, <1>4

LEMMA RetireKeeps ==
  ASSUME CatalogueInv, NEW o \in 1..MaxOffer, offers' = [offers EXCEPT ![o].active = FALSE]
  PROVE  /\ offers' \in [1..MaxOffer -> OfferRow]
         /\ \A p \in 1..MaxOffer : offers'[p].name = offers[p].name
         /\ \A p \in 1..MaxOffer : p # o => offers'[p] = offers[p]
<1> DEFINE row == [offers[o] EXCEPT !.active = FALSE]
<1>1. offers \in [1..MaxOffer -> OfferRow] BY DEF CatalogueInv, CatalogueTypeOK
<1>2. offers[o] \in OfferRow BY <1>1
<1>3. row.name = offers[o].name BY <1>2 DEF OfferRow
<1>4. row \in OfferRow BY <1>2, Zenon DEF OfferRow
<1>5. offers' = [offers EXCEPT ![o] = row] BY <1>1
<1> HIDE DEF row
<1> QED BY <1>1, <1>3, <1>4, <1>5

LEMMA Began ==
  ASSUME NEW j \in Job, NEW r, Begins(j, r), r \in JobRow, Fits(r)'
  PROVE  job[j].pc = "idle" /\ \E k \in Job, s \in JobRow : /\ job' = [job EXCEPT ![k] = s]
                                                           /\ Fits(s)'
BY DEF Begins

LEMMA Ended ==
  ASSUME NEW j \in Job, JobEnds(j)
  PROVE  \E k \in Job, s \in JobRow : job' = [job EXCEPT ![k] = s] /\ Fits(s)'
BY CatalogueRows DEF JobEnds, Fits

LEMMA SchedulingKeeps == ASSUME CatalogueInv, ScheduledNext PROVE CatalogueInv'
<1> USE DEF CatalogueInv
<1>0. /\ catalogue \in [1..MaxRow -> ServiceRow] /\ offers \in [1..MaxOffer -> OfferRow]
      /\ nameLock \in [Name -> Job \cup {"none"}] /\ job \in [Job -> JobRow]
  BY DEF CatalogueTypeOK
<1>1. \A i \in 1..MaxRow : [catalogue EXCEPT ![i] = NoService] \in [1..MaxRow -> ServiceRow]
  BY <1>0, CatalogueRows
<1>2. ASSUME NEW n \in Name, NEW info \in Field, NEW plan \in Field,
             do_new_service_upsert(n, info, plan)
      PROVE  CatalogueInv'
  <2>1. UNCHANGED <<offers, nameLock, job>> /\ upsert_service(n, info, plan)
    BY <1>2 DEF do_new_service_upsert, api_project_services_upsert
  <2> QED BY <1>0, <2>1, UpsertKeeps, CatalogueMoves
<1>3. ASSUME NEW n \in Name, NEW plan \in Field, upsert_service_rule(n, plan) PROVE CatalogueInv'
  <2> DEFINE row == [name |-> n, info |-> 0, plan |-> plan]
  <2>1. row \in ServiceRow BY DEF ServiceRow, Field
  <2>2. catalogue' = [catalogue EXCEPT ![FreeRow] = row] /\ UNCHANGED <<offers, nameLock, job>>
    BY <1>3 DEF upsert_service_rule
  <2> HIDE DEF row
  <2>3. catalogue' \in [1..MaxRow -> ServiceRow] BY <1>0, <2>1, <2>2
  <2> QED BY <1>0, <2>2, <2>3, CatalogueMoves
<1>4. ASSUME NEW i \in 1..MaxRow, delete_service_rule(i) PROVE CatalogueInv'
  BY <1>0, <1>1, <1>4, CatalogueMoves DEF delete_service_rule
<1>5. ASSUME NEW j \in Job, NEW n \in Name, do_new_service_remove(j, n) PROVE CatalogueInv'
  <2>1. PICK i \in Rows(n) :
          Begins(j, [NoJob EXCEPT !.pc = "get", !.does = "remove", !.name = n, !.id = i])
    BY <1>5 DEF do_new_service_remove
  <2> DEFINE r == [NoJob EXCEPT !.pc = "get", !.does = "remove", !.name = n, !.id = i]
  <2>2. i \in 1..MaxRow /\ UNCHANGED <<catalogue, offers, nameLock>>
    BY <1>5 DEF do_new_service_remove, Rows
  <2>3. r \in JobRow /\ r.pc = "get" /\ r.name = n /\ r.id = i
    <3>1. i \in Nat BY <2>2, CatalogueBounds
    <3> QED BY <3>1, CatalogueRows DEF NoJob, JobRow, Field
  <2>4. Begins(j, r) BY <2>1
  <2> HIDE DEF r
  <2>5. Fits(r)' BY <2>2, <2>3 DEF Fits
  <2>6. \E k \in Job, s \in JobRow : job' = [job EXCEPT ![k] = s] /\ Fits(s)'
    BY <2>3, <2>4, <2>5, Began
  <2> QED BY <1>0, <2>2, <2>6, CatalogueMoves
<1>6. ASSUME NEW j \in Job, NEW n \in Name, apply_remove(j, n) PROVE CatalogueInv'
  <2>1. ASSUME NEW i \in Rows(n),
               Begins(j, [NoJob EXCEPT !.pc = "delete", !.does = "confirmed", !.name = n, !.id = i]),
               nameLock' = [nameLock EXCEPT ![n] = j], UNCHANGED <<catalogue, offers>>
        PROVE  CatalogueInv'
    <3> DEFINE r == [NoJob EXCEPT !.pc = "delete", !.does = "confirmed", !.name = n, !.id = i]
    <3>1. i \in 1..MaxRow BY DEF Rows
    <3>2. r \in JobRow /\ r.pc = "delete" /\ r.name = n /\ r.id = i
      <4>1. i \in Nat BY <3>1, CatalogueBounds
      <4> QED BY <4>1, CatalogueRows DEF NoJob, JobRow, Field
    <3>3. Begins(j, r) BY <2>1
    <3> HIDE DEF r
    <3>4. Fits(r)' BY <2>1, <3>1, <3>2 DEF Fits
    <3>5. \E k \in Job, s \in JobRow : job' = [job EXCEPT ![k] = s] /\ Fits(s)'
      BY <3>2, <3>3, <3>4, Began
    <3>6. nameLock' \in [Name -> Job \cup {"none"}] BY <1>0, <2>1
    <3> QED BY <1>0, <2>1, <3>5, <3>6, CatalogueMoves
  <2>2. ASSUME job[j].pc = "delete", catalogue' = [catalogue EXCEPT ![job[j].id] = NoService],
               nameLock' = [nameLock EXCEPT ![n] = "none"], JobEnds(j), UNCHANGED offers
        PROVE  CatalogueInv'
    <3>1. catalogue' \in [1..MaxRow -> ServiceRow] BY <1>1, <2>2 DEF Fits
    <3>2. nameLock' \in [Name -> Job \cup {"none"}] BY <1>0, <2>2
    <3>3. \E k \in Job, s \in JobRow : job' = [job EXCEPT ![k] = s] /\ Fits(s)'
      BY <2>2, Ended
    <3> QED BY <1>0, <2>2, <3>1, <3>2, <3>3, CatalogueMoves
  <2> QED BY <1>6, <2>1, <2>2 DEF apply_remove
<1>7. ASSUME NEW j \in Job, NEW n \in Name, ListForSchedule(j, n, 1) PROVE CatalogueInv'
  <2>1. PICK seen : /\ seen = IF Rows(n) = {} THEN NoService
                              ELSE catalogue[CHOOSE i \in Rows(n) : TRUE]
                    /\ Begins(j, [NoJob EXCEPT !.pc = "write", !.does = "schedule", !.name = n,
                                               !.plan = 1, !.seen = seen])
    BY <1>7 DEF ListForSchedule
  <2> DEFINE r == [NoJob EXCEPT !.pc = "write", !.does = "schedule", !.name = n,
                                !.plan = 1, !.seen = seen]
  <2>2. seen \in ServiceRow
    <3>1. Rows(n) # {} => (CHOOSE i \in Rows(n) : TRUE) \in 1..MaxRow BY DEF Rows
    <3> QED BY <1>0, <2>1, <3>1, CatalogueRows
  <2>3. r \in JobRow /\ r.pc = "write" /\ r.name = n
    BY <2>2, CatalogueRows DEF NoJob, JobRow, Field
  <2>4. Begins(j, r) BY <2>1
  <2> HIDE DEF r
  <2>5. Fits(r)' BY <2>3 DEF Fits
  <2>6. \E k \in Job, s \in JobRow : job' = [job EXCEPT ![k] = s] /\ Fits(s)'
    BY <2>3, <2>4, <2>5, Began
  <2>7. UNCHANGED <<catalogue, offers, nameLock>> BY <1>7 DEF ListForSchedule
  <2> QED BY <1>0, <2>6, <2>7, CatalogueMoves
<1>8. ASSUME NEW j \in Job, NEW n \in Name, extract_services(j, n) PROVE CatalogueInv'
  <2> DEFINE r == [NoJob EXCEPT !.pc = "extracted", !.does = "extract", !.name = n]
  <2>1. r \in JobRow /\ r.pc = "extracted" /\ r.name = n BY CatalogueRows DEF NoJob, JobRow
  <2>2. Begins(j, r) /\ UNCHANGED <<catalogue, offers, nameLock>> BY <1>8 DEF extract_services
  <2> HIDE DEF r
  <2>3. Fits(r)' BY <2>1 DEF Fits
  <2>4. \E k \in Job, s \in JobRow : job' = [job EXCEPT ![k] = s] /\ Fits(s)'
    BY <2>1, <2>2, <2>3, Began
  <2> QED BY <1>0, <2>2, <2>4, CatalogueMoves
<1>9. ASSUME NEW j \in Job, api_project_services_delete(j) PROVE CatalogueInv'
  <2>1. CASE JobEnds(j) /\ UNCHANGED <<offers, nameLock>>
             /\ \/ catalogue' = catalogue
                \/ /\ job[j].pc = "delete"
                   /\ catalogue' = [catalogue EXCEPT ![job[j].id] = NoService]
    <3>1. catalogue' \in [1..MaxRow -> ServiceRow] BY <1>0, <1>1, <2>1 DEF Fits
    <3>2. \E k \in Job, s \in JobRow : job' = [job EXCEPT ![k] = s] /\ Fits(s)'
      BY <2>1, Ended
    <3> QED BY <1>0, <2>1, <3>1, <3>2, CatalogueMoves
  <2>2. CASE /\ job[j].pc = "get" /\ UNCHANGED <<catalogue, offers, nameLock>>
             /\ job' = [job EXCEPT ![j].pc = "delete", ![j].seen = catalogue[job[j].id]]
    <3>0. PICK r : r = [job[j] EXCEPT !.pc = "delete", !.seen = catalogue[job[j].id]]
      OBVIOUS
    <3>1. job[j] \in JobRow /\ catalogue[job[j].id] \in ServiceRow BY <1>0, <2>2 DEF Fits
    <3>2. r \in JobRow /\ r.pc = "delete" /\ r.id = job[j].id /\ r.name = job[j].name
      BY <3>0, <3>1 DEF JobRow
    <3>3. job' = [job EXCEPT ![j] = r] BY <1>0, <2>2, <3>0
    <3>4. Fits(r)' BY <2>2, <3>2 DEF Fits
    <3> QED BY <1>0, <2>2, <3>2, <3>3, <3>4, CatalogueMoves
  <2> QED BY <1>9, <2>1, <2>2 DEF api_project_services_delete
<1>10. ASSUME NEW j \in Job, handle_schedule(j) \/ add_extracted(j) PROVE CatalogueInv'
  <2>1. /\ job[j].name \in Name /\ job[j].seen.info \in Field /\ job[j].plan \in Field
        /\ UNCHANGED <<offers, nameLock>> /\ JobEnds(j)
    BY <1>0, <1>10 DEF handle_schedule, add_extracted, Fits, JobRow, ServiceRow
  <2>2. catalogue' \in [1..MaxRow -> ServiceRow]
    <3>1. CASE handle_schedule(j)
      BY <2>1, <3>1, UpsertKeeps DEF handle_schedule, api_project_services_upsert
    <3>2. CASE add_extracted(j) BY <2>1, <3>2, UpsertKeeps DEF add_extracted, Field
    <3> QED BY <1>10, <3>1, <3>2
  <2>3. \E k \in Job, s \in JobRow : job' = [job EXCEPT ![k] = s] /\ Fits(s)'
    BY <2>1, Ended
  <2> QED BY <1>0, <2>1, <2>2, <2>3, CatalogueMoves
<1> QED BY <1>2, <1>3, <1>4, <1>5, <1>6, <1>7, <1>8, <1>9, <1>10 DEF ScheduledNext

LEMMA OffersKeep == ASSUME CatalogueInv, OfferedNext PROVE CatalogueInv'
<1> USE DEF CatalogueInv
<1>0. /\ catalogue \in [1..MaxRow -> ServiceRow] /\ offers \in [1..MaxOffer -> OfferRow]
      /\ nameLock \in [Name -> Job \cup {"none"}] /\ job \in [Job -> JobRow]
  BY DEF CatalogueTypeOK
<1>1. ASSUME NEW n \in Name, AddOffer(n)
      PROVE  /\ offers' \in [1..MaxOffer -> OfferRow]
             /\ \A o \in 1..MaxOffer : offers[o].name \in Name => offers'[o].name = offers[o].name
  BY <1>1, AddOfferKeeps, CatalogueRows
<1>2. ASSUME NEW n \in Name, add_sales_service(n) PROVE CatalogueInv'
  BY <1>0, <1>1, <1>2, CatalogueMoves DEF add_sales_service
<1>3. ASSUME NEW o \in 1..MaxOffer, remove_sales_service(o) PROVE CatalogueInv'
  BY <1>0, <1>3, RetireKeeps, CatalogueMoves DEF remove_sales_service
<1>4. ASSUME NEW j \in Job, NEW n \in Name, NEW does \in {"remove_offer", "describe"},
             ListOffers(j, does, n)
      PROVE  CatalogueInv'
  <2>1. PICK o \in Offered(n) :
          Begins(j, [NoJob EXCEPT !.pc = "retire", !.does = does, !.name = n, !.id = o])
    BY <1>4 DEF ListOffers
  <2> DEFINE r == [NoJob EXCEPT !.pc = "retire", !.does = does, !.name = n, !.id = o]
  <2>2. /\ o \in 1..MaxOffer /\ offers[o].name = n
        /\ UNCHANGED <<catalogue, offers, nameLock>>
    BY <1>4 DEF ListOffers, Offered
  <2>3. r \in JobRow /\ r.pc = "retire" /\ r.name = n /\ r.id = o
    <3>1. o \in Nat BY <2>2, CatalogueBounds
    <3> QED BY <3>1, CatalogueRows DEF NoJob, JobRow, Field
  <2>4. Begins(j, r) BY <2>1
  <2> HIDE DEF r
  <2>5. Fits(r)' BY <2>2, <2>3 DEF Fits
  <2>6. \E k \in Job, s \in JobRow : job' = [job EXCEPT ![k] = s] /\ Fits(s)'
    BY <2>3, <2>4, <2>5, Began
  <2> QED BY <1>0, <2>2, <2>6, CatalogueMoves
<1>5. ASSUME NEW j \in Job, soft_delete(j) PROVE CatalogueInv'
  <2>1. job[j].id \in 1..MaxOffer /\ UNCHANGED <<catalogue, nameLock>> BY <1>5 DEF soft_delete, Fits
  <2>2. /\ offers' \in [1..MaxOffer -> OfferRow]
        /\ \A o \in 1..MaxOffer : offers'[o].name = offers[o].name
    BY <1>0, <1>5, <2>1, RetireKeeps DEF soft_delete
  <2>3. CASE JobEnds(j)
    <3>1. \E k \in Job, s \in JobRow : job' = [job EXCEPT ![k] = s] /\ Fits(s)'
      BY <2>3, Ended
    <3> QED BY <1>0, <2>1, <2>2, <3>1, CatalogueMoves
  <2>4. CASE job' = [job EXCEPT ![j].pc = "readd"]
    <3>0. PICK r : r = [job[j] EXCEPT !.pc = "readd"]
      OBVIOUS
    <3>1. r \in JobRow /\ r.pc = "readd" /\ r.name \in Name
      BY <1>0, <1>5, <3>0 DEF JobRow, Fits, soft_delete
    <3>2. job' = [job EXCEPT ![j] = r] BY <1>0, <2>4, <3>0
    <3>3. Fits(r)' BY <3>1 DEF Fits
    <3> QED BY <1>0, <2>1, <2>2, <3>1, <3>2, <3>3, CatalogueMoves
  <2> QED BY <1>5, <2>3, <2>4 DEF soft_delete
<1>6. ASSUME NEW j \in Job, readd(j) PROVE CatalogueInv'
  <2>1. job[j].name \in Name /\ UNCHANGED <<catalogue, nameLock>> /\ JobEnds(j)
    BY <1>6 DEF readd, Fits
  <2>2. /\ offers' \in [1..MaxOffer -> OfferRow]
        /\ \A o \in 1..MaxOffer : offers[o].name \in Name => offers'[o].name = offers[o].name
    BY <1>0, <1>1, <1>6, <2>1 DEF readd
  <2>3. \E k \in Job, s \in JobRow : job' = [job EXCEPT ![k] = s] /\ Fits(s)'
    BY <2>1, Ended
  <2> QED BY <1>0, <2>1, <2>2, <2>3, CatalogueMoves
<1> QED BY <1>2, <1>3, <1>4, <1>5, <1>6 DEF OfferedNext

LEMMA CatalogueStutters == ASSUME CatalogueInv, UNCHANGED catalogueVars PROVE CatalogueInv'
<1>1. UNCHANGED <<catalogue, offers, nameLock, job>> BY DEF catalogueVars
<1> QED BY <1>1 DEF CatalogueInv, CatalogueTypeOK, Fits

\* Rows, offers and commands are of their types, and a command that is to take a
\* service off the offer has the id of a row of the name it was given.
THEOREM CatalogueInvariant == CatalogueSpec => []CatalogueInv
BY InitCatalogue, SchedulingKeeps, OffersKeep, CatalogueStutters, PTL
   DEF CatalogueSpec, CatalogueNext

LEMMA ScheduleChanges ==
  ASSUME CatalogueInv, NEW j \in Job, handle_schedule(j), NEW i \in 1..MaxRow
  PROVE  IF catalogue[i].name = job[j].name
           THEN catalogue[i] = job[j].seen => catalogue'[i].info = catalogue[i].info
           ELSE catalogue[i] # NoService => catalogue'[i] = catalogue[i]
<1>1. job[j] \in JobRow BY DEF CatalogueInv, CatalogueTypeOK
<1>2. job[j].name \in Name /\ job[j].seen.info \in Field /\ job[j].plan \in Field
  BY <1>1 DEF CatalogueInv, handle_schedule, Fits, JobRow, ServiceRow
<1>3. upsert_service(job[j].name, job[j].seen.info, job[j].plan)
  BY DEF handle_schedule, api_project_services_upsert
<1>4. IF catalogue[i].name = job[j].name
        THEN catalogue'[i] = [name |-> job[j].name, info |-> job[j].seen.info,
                              plan |-> job[j].plan]
        ELSE catalogue[i] # NoService => catalogue'[i] = catalogue[i]
  BY <1>2, <1>3, UpsertKeeps
<1> QED BY <1>4

LEMMA RetireChanges ==
  ASSUME CatalogueInv, NEW j \in Job, soft_delete(j), NEW o \in 1..MaxOffer,
         offers[o].active, ~offers'[o].active
  PROVE  offers[o].name = job[j].name
<1>1. /\ offers \in [1..MaxOffer -> OfferRow] /\ job[j].id \in 1..MaxOffer
      /\ offers[job[j].id].name = job[j].name
  BY DEF CatalogueInv, CatalogueTypeOK, soft_delete, Fits
<1>2. o = job[j].id BY <1>1, RetireKeeps DEF soft_delete
<1> QED BY <1>1, <1>2

\* Only the command that writes moves itself on from its writing point.
LEMMA CommandMoves ==
  ASSUME CatalogueInv, CatalogueNext, NEW j \in Job
  PROVE  /\ job[j].pc = "write" /\ job'[j].pc = "idle" => handle_schedule(j)
         /\ job[j].pc = "retire" /\ job'[j].pc # "retire" => soft_delete(j)
<1> SUFFICES ASSUME \/ job[j].pc = "write" /\ job'[j].pc = "idle"
                    \/ job[j].pc = "retire" /\ job'[j].pc # "retire"
             PROVE  \/ job[j].pc = "write" /\ handle_schedule(j)
                    \/ job[j].pc = "retire" /\ soft_delete(j)
  OBVIOUS
<1>0. job \in [Job -> JobRow] BY DEF CatalogueInv, CatalogueTypeOK
<1>1. ASSUME NEW k \in Job, NEW r, Begins(k, r) PROVE FALSE
  BY <1>0, <1>1 DEF Begins
<1>2. ASSUME NEW k \in Job, JobEnds(k) PROVE k = j
  BY <1>0, <1>2 DEF JobEnds
<1>3. job' # job
  OBVIOUS
<1>4. CASE ScheduledNext
  <2>1. CASE \/ \E n \in Name, info \in Field, plan \in Field :
                  do_new_service_upsert(n, info, plan)
             \/ \E n \in Name, plan \in Field : upsert_service_rule(n, plan)
             \/ \E i \in 1..MaxRow : delete_service_rule(i)
    BY <1>3, <2>1 DEF do_new_service_upsert, upsert_service_rule, delete_service_rule
  <2>2. ASSUME NEW k \in Job, NEW n \in Name,
               do_new_service_remove(k, n) \/ ListForSchedule(k, n, 1) \/ extract_services(k, n)
        PROVE  FALSE
    BY <1>1, <2>2 DEF do_new_service_remove, ListForSchedule, extract_services
  <2>3. ASSUME NEW k \in Job, NEW n \in Name, apply_remove(k, n) PROVE FALSE
    BY <1>1, <1>2, <2>3 DEF apply_remove
  <2>4. ASSUME NEW k \in Job, api_project_services_delete(k) PROVE FALSE
    <3>1. job[k].pc \in {"get", "delete"} BY <2>4 DEF api_project_services_delete
    <3>2. job'[j] = job[j] \/ k = j BY <1>0, <1>2, <2>4 DEF api_project_services_delete
    <3> QED BY <3>1, <3>2
  <2>5. ASSUME NEW k \in Job, handle_schedule(k) \/ add_extracted(k)
        PROVE  job[j].pc = "write" /\ handle_schedule(j)
    <3>1. k = j BY <1>2, <2>5 DEF handle_schedule, add_extracted
    <3>2. job[j].pc \in {"write", "extracted"} BY <2>5, <3>1 DEF handle_schedule, add_extracted
    <3> QED BY <2>5, <3>1, <3>2 DEF add_extracted
  <2> QED BY <1>4, <2>1, <2>2, <2>3, <2>4, <2>5 DEF ScheduledNext
<1>5. CASE OfferedNext
  <2>1. CASE \/ \E n \in Name : add_sales_service(n)
             \/ \E o \in 1..MaxOffer : remove_sales_service(o)
    BY <1>3, <2>1 DEF add_sales_service, remove_sales_service
  <2>2. ASSUME NEW k \in Job, NEW n \in Name, NEW does \in {"remove_offer", "describe"},
               ListOffers(k, does, n)
        PROVE  FALSE
    BY <1>1, <2>2 DEF ListOffers
  <2>3. ASSUME NEW k \in Job, soft_delete(k) PROVE job[j].pc = "retire" /\ soft_delete(j)
    <3>1. job'[j] = job[j] \/ k = j BY <1>0, <1>2, <2>3 DEF soft_delete
    <3> QED BY <2>3, <3>1 DEF soft_delete
  <2>4. ASSUME NEW k \in Job, readd(k) PROVE FALSE
    <3>1. k = j BY <1>2, <2>4 DEF readd
    <3> QED BY <2>4, <3>1 DEF readd
  <2> QED BY <1>5, <2>1, <2>2, <2>3, <2>4 DEF OfferedNext
<1> QED BY <1>4, <1>5 DEF CatalogueNext

\* New working hours in free text change a service only where somebody else changed
\* it after the list, and a free-text command takes off the offer only what it
\* names: sales_service_commands and the service commands of bot_gateway, whatever
\* rows come and go between the list and the call.
THEOREM OnlyItsService == CatalogueSpec => OnlyItsServiceChanges
<1> DEFINE Changes(j) ==
      /\ job[j].pc = "write" /\ job'[j].pc = "idle" =>
           \A i \in 1..MaxRow :
             IF catalogue[i].name = job[j].name
               THEN catalogue[i] = job[j].seen => catalogue'[i].info = catalogue[i].info
               ELSE catalogue[i] # NoService => catalogue'[i] = catalogue[i]
      /\ job[j].pc = "retire" /\ job'[j].pc # "retire" =>
           \A o \in 1..MaxOffer : offers[o].active /\ ~offers'[o].active
                                  => offers[o].name = job[j].name
<1>1. ASSUME CatalogueInv, CatalogueNext PROVE \A j \in Job : Changes(j)
  BY <1>1, CommandMoves, ScheduleChanges, RetireChanges
<1>2. ASSUME CatalogueInv, [CatalogueNext]_catalogueVars
      PROVE  [\A j \in Job : Changes(j)]_catalogueVars
  BY <1>1, <1>2
<1> QED BY <1>2, CatalogueInvariant, PTL DEF CatalogueSpec, OnlyItsServiceChanges

-----------------------------------------------------------------------------

(* Prompts. *)

SaveRow == [pc : {"idle", "forget", "read", "write"}, editor : Editor \cup {"none"},
            prompt : Prompt \cup {"none"}, text : Text \cup {"none"}, version : 0..MaxVersion]

PromptTypeOK ==
  /\ prompt \in [Prompt -> [version : 0..MaxVersion, text : Text \cup {"default"}]]
  /\ versions \in [Prompt -> [Version -> Text \cup {"none"}]]
  /\ armed \in [Editor -> Prompt \cup {"none"}]
  /\ saving \in [Save -> SaveRow]
  /\ promptLog \subseteq [prompt : Prompt, version : Version, text : Text]

\* A request has what its next step needs; the number it has read has not been
\* passed by more than the saves that have come since.
SavesAreReady ==
  \A s \in Save :
    saving[s].pc # "idle" =>
      /\ saving[s].editor \in Editor /\ saving[s].prompt \in Prompt /\ saving[s].text \in Text
      /\ saving[s].pc = "write" =>
           saving[s].version \in 1..(prompt[saving[s].prompt].version + 1)

\* The history of every prompt has no gap and ends with the current value.
NoGap ==
  \A p \in Prompt :
    /\ \A v \in Version : versions[p][v] # "none" <=> v <= prompt[p].version
    /\ prompt[p].version > 0 => versions[p][prompt[p].version] = prompt[p].text

ToldIsKept == \A t \in promptLog : versions[t.prompt][t.version] = t.text

PromptInv == PromptTypeOK /\ SavesAreReady /\ NoGap /\ ToldIsKept

LEMMA InitPrompts == PromptInit => PromptInv
<1> SUFFICES ASSUME PromptInit PROVE PromptInv
  OBVIOUS
<1>1. PromptTypeOK
  BY PromptBounds DEF PromptInit, PromptTypeOK, Version, NoSave, SaveRow
<1>2. SavesAreReady /\ NoGap /\ ToldIsKept
  BY PromptBounds DEF PromptInit, SavesAreReady, NoGap, ToldIsKept, Version, NoSave
<1> QED
  BY <1>1, <1>2 DEF PromptInv

\* Steps that leave prompts and versions alone keep the invariant when they put
\* a sound record in the place of one request.
LEMMA RequestKeeps ==
  ASSUME PromptInv, NEW s \in Save, NEW record \in SaveRow,
         saving' = [saving EXCEPT ![s] = record],
         armed' \in [Editor -> Prompt \cup {"none"}],
         UNCHANGED <<prompt, versions, promptLog>>,
         record.pc # "idle" =>
           record.editor \in Editor /\ record.prompt \in Prompt /\ record.text \in Text,
         record.pc = "write" => record.version \in 1..(prompt[record.prompt].version + 1)
  PROVE  PromptInv'
<1>1. PromptTypeOK'
  BY DEF PromptInv, PromptTypeOK
<1>2. SavesAreReady'
  BY DEF PromptInv, PromptTypeOK, SavesAreReady
<1>3. NoGap' /\ ToldIsKept'
  BY DEF PromptInv, NoGap, ToldIsKept
<1> QED
  BY <1>1, <1>2, <1>3 DEF PromptInv

LEMMA ArmingKeeps ==
  ASSUME PromptInv, NEW e \in Editor,
         cancel_pending(e) \/ \E p \in Prompt : arm_pending(e, p)
  PROVE  PromptInv'
<1>1. UNCHANGED <<prompt, versions, saving, promptLog>>
  BY DEF cancel_pending, arm_pending
<1>2. armed' \in [Editor -> Prompt \cup {"none"}]
  BY DEF cancel_pending, arm_pending, PromptInv, PromptTypeOK
<1> QED
  BY <1>1, <1>2 DEF PromptInv, PromptTypeOK, SavesAreReady, NoGap, ToldIsKept

LEMMA OpeningKeeps ==
  ASSUME PromptInv, NEW s \in Save, NEW e \in Editor
  PROVE  /\ \A text \in Text : dispatch_pending_prompt_edit(s, e, text) => PromptInv'
         /\ \A p \in Prompt, text \in Text : put_project_prompt(s, e, p, text) => PromptInv'
         /\ \A p \in Prompt, v \in Version : restore(s, e, p, v) => PromptInv'
<1>0. armed \in [Editor -> Prompt \cup {"none"}]
  BY DEF PromptInv, PromptTypeOK
<1>1. ASSUME NEW p \in Prompt, NEW text \in Text, NEW pc \in {"forget", "read"},
             saving' = [saving EXCEPT ![s] = [NoSave EXCEPT !.pc = pc, !.editor = e,
                                                            !.prompt = p, !.text = text]],
             UNCHANGED <<prompt, versions, armed, promptLog>>
      PROVE  PromptInv'
  <2> DEFINE record == [NoSave EXCEPT !.pc = pc, !.editor = e, !.prompt = p, !.text = text]
  <2>1. /\ record \in SaveRow /\ record.pc \in {"forget", "read"}
        /\ record.editor = e /\ record.prompt = p /\ record.text = text
    <3>1. NoSave \in SaveRow
      BY PromptBounds DEF SaveRow, NoSave
    <3> QED
      BY <3>1 DEF SaveRow
  <2>2. saving' = [saving EXCEPT ![s] = record]
    BY <1>1
  <2>3. armed' \in [Editor -> Prompt \cup {"none"}]
    BY <1>0, <1>1
  <2> HIDE DEF record
  <2> QED
    BY <1>1, <2>1, <2>2, <2>3, RequestKeeps
<1>2. ASSUME NEW text \in Text, dispatch_pending_prompt_edit(s, e, text) PROVE PromptInv'
  <2>1. armed[e] \in Prompt
    BY <1>0, <1>2 DEF dispatch_pending_prompt_edit
  <2> QED
    BY <1>1, <1>2, <2>1 DEF dispatch_pending_prompt_edit, Opens
<1>3. ASSUME NEW p \in Prompt, NEW text \in Text, put_project_prompt(s, e, p, text)
      PROVE  PromptInv'
  BY <1>1, <1>3 DEF put_project_prompt, Opens
<1>4. ASSUME NEW p \in Prompt, NEW v \in Version, restore(s, e, p, v) PROVE PromptInv'
  <2>1. versions[p][v] \in Text
    BY <1>4 DEF restore, PromptInv, PromptTypeOK
  <2> QED
    BY <1>1, <1>4, <2>1 DEF restore, Opens
<1> QED
  BY <1>2, <1>3, <1>4

LEMMA ReadingKeeps ==
  ASSUME PromptInv, NEW s \in Save, consume_pending(s) \/ ReadVersion(s)
  PROVE  PromptInv'
<1>0. /\ saving[s] \in SaveRow
      /\ saving[s].pc # "idle"
      /\ saving[s].editor \in Editor /\ saving[s].prompt \in Prompt /\ saving[s].text \in Text
  BY DEF PromptInv, PromptTypeOK, SavesAreReady, consume_pending, ReadVersion
<1>1. UNCHANGED <<prompt, versions, promptLog>>
  BY DEF consume_pending, ReadVersion
<1>2. armed' \in [Editor -> Prompt \cup {"none"}]
  BY <1>0 DEF PromptInv, PromptTypeOK, consume_pending, ReadVersion
<1>3. NoSave \in SaveRow /\ NoSave.pc = "idle"
  BY PromptBounds DEF SaveRow, NoSave
<1>4. CASE Closes(s)
  BY <1>1, <1>2, <1>3, <1>4, RequestKeeps DEF Closes
<1>5. CASE Moves(s, "read")
  <2> DEFINE record == [saving[s] EXCEPT !.pc = "read"]
  <2>1. /\ record \in SaveRow /\ record.pc = "read" /\ record.editor = saving[s].editor
        /\ record.prompt = saving[s].prompt /\ record.text = saving[s].text
    BY <1>0 DEF SaveRow
  <2>2. saving' = [saving EXCEPT ![s] = record]
    BY <1>5 DEF Moves
  <2> HIDE DEF record
  <2> QED
    BY <1>0, <1>1, <1>2, <2>1, <2>2, RequestKeeps
<1>6. CASE ReadVersion(s)
  <2> DEFINE current == prompt[saving[s].prompt].version
             record == [saving[s] EXCEPT !.pc = "write", !.version = current + 1]
  <2>1. current \in 0..MaxVersion /\ current < MaxVersion
    BY <1>0, <1>6 DEF ReadVersion, PromptInv, PromptTypeOK
  <2>2. current + 1 \in 0..MaxVersion /\ current + 1 \in 1..(current + 1)
    BY <2>1, PromptBounds
  <2>3. /\ record \in SaveRow /\ record.pc = "write" /\ record.editor = saving[s].editor
        /\ record.prompt = saving[s].prompt /\ record.text = saving[s].text
        /\ record.version = current + 1
    BY <1>0, <2>2 DEF SaveRow
  <2>4. saving' = [saving EXCEPT ![s] = record]
    BY <1>6 DEF ReadVersion, PromptInv, PromptTypeOK
  <2>5. prompt[record.prompt].version = current
    BY <2>3
  <2> HIDE DEF record, current
  <2> QED
    BY <1>0, <1>1, <1>2, <2>2, <2>3, <2>4, <2>5, RequestKeeps
<1> QED
  BY <1>4, <1>5, <1>6 DEF consume_pending

LEMMA SetKeeps ==
  ASSUME PromptInv, NEW s \in Save, set(s)
  PROVE  PromptInv'
<1> DEFINE p == saving[s].prompt
           v == saving[s].version
           text == saving[s].text
<1>1. /\ p \in Prompt /\ text \in Text /\ v \in 0..MaxVersion
      /\ v \in 1..(prompt[p].version + 1)
      /\ prompt[p].version \in 0..MaxVersion
  BY DEF PromptInv, PromptTypeOK, SavesAreReady, SaveRow, set
<1>2. saving' = [saving EXCEPT ![s] = NoSave] /\ UNCHANGED armed
  BY DEF set, Closes
<1>3. NoSave \in SaveRow /\ NoSave.pc = "idle"
  BY PromptBounds DEF SaveRow, NoSave
<1>4. CASE versions[p][v] = "none"
  <2>1. /\ prompt' = [prompt EXCEPT ![p] = [version |-> v, text |-> text]]
        /\ versions' = [versions EXCEPT ![p][v] = text]
        /\ promptLog' = promptLog \cup {[prompt |-> p, version |-> v, text |-> text]}
    BY <1>4 DEF set, Saved
  <2>2. v \in Version /\ text # "none"
    BY <1>1, PromptTexts, PromptBounds DEF Version
  \* The number is free, so it is the next one.
  <2>3. v = prompt[p].version + 1
    BY <1>1, <1>4, <2>2, PromptBounds DEF PromptInv, NoGap
  <2>4. PromptTypeOK'
    BY <1>1, <1>2, <1>3, <2>1, <2>2 DEF PromptInv, PromptTypeOK
  <2>5. SavesAreReady'
    <3>1. \A q \in Prompt : /\ prompt[q].version \in 0..MaxVersion
                            /\ prompt'[q].version \in 0..MaxVersion
                            /\ prompt[q].version <= prompt'[q].version
      BY <1>1, <2>1, <2>3, PromptBounds DEF PromptInv, PromptTypeOK
    <3> QED
      BY <1>2, <1>3, <3>1, PromptBounds DEF PromptInv, PromptTypeOK, SavesAreReady
  <2>6. NoGap'
    <3>1. ASSUME NEW q \in Prompt, q # p
          PROVE  prompt'[q] = prompt[q] /\ versions'[q] = versions[q]
      BY <3>1, <2>1 DEF PromptInv, PromptTypeOK
    <3>2. /\ prompt'[p].version = v /\ prompt'[p].text = text
          /\ versions'[p][v] = text
          /\ \A w \in Version : w # v => versions'[p][w] = versions[p][w]
      BY <1>1, <2>1, <2>2 DEF PromptInv, PromptTypeOK
    <3>3. \A w \in Version : versions'[p][w] # "none" <=> w <= v
      BY <1>1, <2>2, <2>3, <3>2, PromptBounds DEF PromptInv, NoGap, Version
    <3> HIDE DEF p, v, text
    <3> QED
      BY <3>1, <3>2, <3>3 DEF PromptInv, NoGap
  <2>7. ToldIsKept'
    <3>1. ASSUME NEW t \in promptLog PROVE versions'[t.prompt][t.version] = t.text
      <4>1. /\ t.prompt \in Prompt /\ t.version \in Version /\ t.text \in Text
            /\ versions[t.prompt][t.version] = t.text
        BY DEF PromptInv, PromptTypeOK, ToldIsKept
      <4>2. ~(t.prompt = p /\ t.version = v)
        BY <4>1, <1>4, PromptTexts
      <4> QED
        BY <2>1, <4>1, <4>2 DEF PromptInv, PromptTypeOK
    <3>2. versions'[p][v] = text
      BY <1>1, <2>1, <2>2 DEF PromptInv, PromptTypeOK
    <3> QED
      BY <2>1, <3>1, <3>2 DEF ToldIsKept
  <2> QED
    BY <2>4, <2>5, <2>6, <2>7 DEF PromptInv
<1>5. CASE versions[p][v] # "none"
  <2>1. UNCHANGED <<prompt, versions, promptLog>>
    BY <1>5 DEF set
  <2>2. armed' \in [Editor -> Prompt \cup {"none"}]
    BY <1>2 DEF PromptInv, PromptTypeOK
  <2> QED
    BY <1>2, <1>3, <2>1, <2>2, RequestKeeps
<1> QED
  BY <1>4, <1>5

\* Whatever saves overlap, each saved value takes the next free number: what a
\* request has read is behind, and its save refused, or still the last.
THEOREM PromptsInvariant == PromptSpec => []PromptInv
<1>1. PromptInv /\ UNCHANGED promptVars => PromptInv'
  BY DEF promptVars, PromptInv, PromptTypeOK, SavesAreReady, NoGap, ToldIsKept
<1>2. PromptInv /\ [PromptNext]_promptVars => PromptInv'
  BY <1>1, ArmingKeeps, OpeningKeeps, ReadingKeeps, SetKeeps DEF PromptNext
<1> QED
  BY <1>2, InitPrompts, PTL DEF PromptSpec

\* The history of a prompt has no gap, ends with its current value, and holds
\* every value an editor was told is saved.
THEOREM HistoryIsKept == PromptSpec => []PromptsHaveTheirHistory
<1>1. PromptInv => PromptsHaveTheirHistory
  <2> SUFFICES ASSUME PromptInv PROVE PromptsHaveTheirHistory
    OBVIOUS
  <2>1. ASSUME NEW p \in Prompt
        PROVE  {v \in Version : versions[p][v] # "none"} = 1..prompt[p].version
    <3>1. prompt[p].version \in 0..MaxVersion
      BY DEF PromptInv, PromptTypeOK
    <3>2. \A v \in Version : versions[p][v] # "none" <=> v <= prompt[p].version
      BY DEF PromptInv, NoGap
    <3> QED
      BY <3>1, <3>2, PromptBounds DEF Version
  <2> QED
    BY <2>1 DEF PromptInv, NoGap, ToldIsKept, PromptsHaveTheirHistory
<1> QED
  BY <1>1, PromptsInvariant, PTL

-----------------------------------------------------------------------------

(* Proposals that wait for a confirmation. *)

SessionOrNone == 0..MaxSession
SessionRow == [owner : Author \cup {"none"},
               status : {"unused", "pending", "clarify", "cancelled", "confirmed", "expired"},
               tokened : BOOLEAN, old : BOOLEAN]
RequestRow == [pc : {"idle", "preview", "read", "expire", "write", "apply", "answer"},
               does : {"none", "propose", "lookup", "confirm", "cancel"},
               author : Author \cup {"none"}, session : SessionOrNone,
               token : SessionOrNone, number : Nat]
DialogLog == [applied : [Session -> Nat], numbers : [Session -> SUBSET Nat],
              told : SUBSET Session, overlapped : SUBSET Session]

DialogTypeOK ==
  /\ dialog \in {"services", "admin", "knowledge"}
  /\ session \in [Session -> SessionRow]
  /\ remembered \in [Author -> SessionOrNone]
  /\ request \in [Request -> RequestRow]
  /\ dialogLog \in DialogLog

\* Sessions and version numbers are given in a row, so that the next is free.
SessionsInARow ==
  /\ \E n \in SessionOrNone : Used = 1..n
  /\ \A s \in Session \ Used : session[s].owner = "none"
NumbersInARow ==
  \E n \in Nat :
    /\ TakenNumbers = 1..n
    /\ \A r \in Request :
         request[r].pc = "write" /\ request[r].does = "confirm" /\ dialog = "knowledge" =>
           request[r].number \in 1..(n + 1)

\* Requests and memories are of proposals that there are; in the services dialog
\* of none that asks for clarification, except to show it.
OfProposals ==
  /\ \A r \in Request : request[r].pc # "idle" =>
       /\ request[r].session \in Used
       /\ request[r].pc # "preview" /\ dialog = "services" =>
            session[request[r].session].status # "clarify"
  /\ \A a \in Author : remembered[a] # 0 =>
       remembered[a] \in Used /\ session[remembered[a]].status # "clarify"

NewestPending ==
  dialog = "services" =>
    \A s, t \in Session :
      session[s].status = "pending" /\ session[t].owner = session[s].owner /\ t > s =>
        session[t].status = "clarify"

Due(q) == q.pc \in {"write", "expire"}

\* Of two requests between their check and their write, neither is about a
\* proposal that is free of overlaps, if it matters to the other.
DueAlone ==
  \A q, r \in Request :
    Due(request[q]) /\ Due(request[r]) /\ q # r
      /\ (request[q].session = request[r].session \/ dialog = "knowledge") =>
        request[q].session \in dialogLog.overlapped

AppliesAlone ==
  \A q, r \in Request :
    request[q].pc = "apply" /\ request[r].pc = "apply" /\ q # r
      /\ request[q].session = request[r].session =>
        request[q].session \in dialogLog.overlapped

\* What a request has checked still holds.
StillTrue(q) ==
  q.session \notin dialogLog.overlapped =>
    /\ Due(q) => session[q.session].status = "pending"
                 \/ (q.does = "cancel" /\ session[q.session].status = "clarify")
    /\ q.pc = "apply" => /\ session[q.session].status = "confirmed"
                         /\ dialogLog.applied[q.session] = 0
    /\ q.pc = "write" /\ q.does = "confirm" /\ dialog = "knowledge" =>
         q.number \notin TakenNumbers

Consistent(s) ==
  s \notin dialogLog.overlapped =>
    /\ dialogLog.applied[s] <= 1
    /\ dialogLog.applied[s] = 1 => session[s].status = "confirmed"
    /\ s \in dialogLog.told => session[s].status = "cancelled"
    /\ dialogLog.numbers[s] # {} => session[s].status = "confirmed"
    /\ \A m, n \in dialogLog.numbers[s] : m = n
    /\ \A t \in Session \ {s} : t \notin dialogLog.overlapped =>
         dialogLog.numbers[s] \cap dialogLog.numbers[t] = {}

DialogInv ==
  /\ DialogTypeOK /\ SessionsInARow /\ NumbersInARow /\ OfProposals /\ NewestPending
  /\ DueAlone /\ AppliesAlone
  /\ \A r \in Request : StillTrue(request[r])
  /\ \A s \in Session : Consistent(s)

LEMMA DialogRows ==
  /\ 0 \in SessionOrNone /\ \A s \in Session : s \in SessionOrNone /\ s # 0 /\ s \in Nat
  /\ NoRequest \in RequestRow /\ NoRequest.pc = "idle"
  /\ Administrator \in Author /\ "none" \notin Author
<1>1. 0 \in SessionOrNone /\ \A s \in Session : s \in SessionOrNone /\ s # 0 /\ s \in Nat
  BY DialogBounds DEF SessionOrNone, Session
<1>2. NoRequest \in RequestRow /\ NoRequest.pc = "idle" BY <1>1 DEF NoRequest, RequestRow
<1>3. Administrator \in Author /\ "none" \notin Author BY DialogBounds DEF Administrator
<1> QED BY <1>1, <1>2, <1>3

LEMMA NewestIsPending ==
  ASSUME NEW a, Pending(a) # {}
  PROVE  Newest(Pending(a)) \in Pending(a)
<1>1. Pending(a) \in SUBSET (1..MaxSession) /\ MaxSession \in Nat
  BY DialogBounds DEF Pending, Session
<1>2. \E s \in Pending(a) : \A t \in Pending(a) : t <= s BY <1>1, LargestExists
<1> QED BY <1>2 DEF Newest

LEMMA NextSession ==
  ASSUME SessionsInARow, NEW n \in Session, n = Cardinality(Used) + 1
  PROVE  Used = 1..(n - 1) /\ n \notin Used
<1>1. PICK k \in SessionOrNone : Used = 1..k BY DEF SessionsInARow
<1>2. k \in Nat BY <1>1, DialogBounds DEF SessionOrNone
<1>3. Cardinality(Used) = k BY <1>1, <1>2, FS_Interval
<1> QED BY <1>1, <1>2, <1>3

LEMMA NextNumber ==
  ASSUME NEW n \in Nat, TakenNumbers = 1..n
  PROVE  Cardinality(TakenNumbers) + 1 = n + 1 /\ n + 1 \notin TakenNumbers
<1>1. Cardinality(1..n) = n BY FS_Interval
<1> QED BY <1>1

LEMMA InitDialog == DialogInit({"services", "admin", "knowledge"}) => DialogInv
<1> SUFFICES ASSUME DialogInit({"services", "admin", "knowledge"}) PROVE DialogInv
  OBVIOUS
<1>1. /\ dialog \in {"services", "admin", "knowledge"}
      /\ session = [s \in Session |-> Unused] /\ remembered = [a \in Author |-> 0]
      /\ request = [r \in Request |-> NoRequest]
      /\ dialogLog = [applied |-> [s \in Session |-> 0], numbers |-> [s \in Session |-> {}],
                      told |-> {}, overlapped |-> {}]
  BY DEF DialogInit
<1>2. /\ dialogLog \in DialogLog /\ dialogLog.told = {} /\ dialogLog.overlapped = {}
      /\ \A s \in Session : dialogLog.applied[s] = 0 /\ dialogLog.numbers[s] = {}
  BY <1>1 DEF DialogLog
<1>3. Unused \in SessionRow /\ Unused.status = "unused" /\ Unused.owner = "none"
  BY DEF Unused, SessionRow
<1>4. \A r \in Request : request[r].pc = "idle" BY <1>1, DialogRows
<1>5. \A s \in Session : session[s].status = "unused" /\ session[s].owner = "none"
  BY <1>1, <1>3
<1>6. DialogTypeOK BY <1>1, <1>2, <1>3, DialogRows DEF DialogTypeOK
<1>7. SessionsInARow
  <2>1. Used = 1..0 BY <1>5 DEF Used
  <2> QED BY <1>5, <2>1, DialogRows DEF SessionsInARow
<1>8. NumbersInARow
  <2>1. TakenNumbers = 1..0 BY <1>2 DEF TakenNumbers
  <2> QED BY <1>4, <2>1 DEF NumbersInARow
<1>9. OfProposals BY <1>1, <1>4 DEF OfProposals
<1>10. NewestPending BY <1>5 DEF NewestPending
<1>11. DueAlone /\ AppliesAlone BY <1>4 DEF DueAlone, AppliesAlone, Due
<1>12. \A r \in Request : StillTrue(request[r]) BY <1>4 DEF StillTrue, Due
<1>13. \A s \in Session : Consistent(s) BY <1>2 DEF Consistent
<1> QED BY <1>6, <1>7, <1>8, <1>9, <1>10, <1>11, <1>12, <1>13 DEF DialogInv

\* A request moves on and the sessions stay as they are.
RequestMove(r, q) ==
  /\ request' = [request EXCEPT ![r] = q]
  /\ UNCHANGED <<dialog, session>>
  /\ remembered' \in [Author -> SessionOrNone]
  /\ \A a \in Author : remembered'[a] # remembered[a] /\ remembered'[a] # 0 =>
       remembered'[a] \in Used /\ session[remembered'[a]].status # "clarify"
  /\ dialogLog' \in DialogLog
  /\ dialogLog'.applied = dialogLog.applied /\ dialogLog'.numbers = dialogLog.numbers
  /\ dialogLog'.told = dialogLog.told /\ dialogLog.overlapped \subseteq dialogLog'.overlapped

LEMMA RequestMoves ==
  ASSUME DialogInv, NEW r \in Request, NEW q \in RequestRow, RequestMove(r, q),
         q.pc # "apply",
         q.pc # "idle" => /\ q.session \in Used
                          /\ q.pc # "preview" /\ dialog = "services" =>
                               session[q.session].status # "clarify",
         q.pc = "write" /\ q.does = "confirm" /\ dialog = "knowledge" =>
           \A n \in Nat : TakenNumbers = 1..n => q.number = n + 1,
         Due(q) => \A p \in Request : Due(request[p]) /\ p # r
                     /\ (request[p].session = q.session \/ dialog = "knowledge") =>
                       {q.session, request[p].session} \subseteq dialogLog'.overlapped,
         Due(q) => session[q.session].status = "pending"
                   \/ (q.does = "cancel" /\ session[q.session].status = "clarify")
  PROVE  DialogInv'
<1> USE DEF DialogInv
<1>1. /\ request' \in [Request -> RequestRow]
      /\ \A p \in Request : request'[p] = IF p = r THEN q ELSE request[p]
      /\ dialog' = dialog /\ session' = session
  BY DEF DialogTypeOK, RequestMove
<1>2. DialogTypeOK' BY <1>1 DEF DialogTypeOK, RequestMove
<1>3. Used' = Used /\ TakenNumbers' = TakenNumbers
  BY <1>1 DEF Used, TakenNumbers, RequestMove
<1>4. SessionsInARow' BY <1>1, <1>3 DEF SessionsInARow
<1>5. PICK n \in Nat : /\ TakenNumbers = 1..n
                       /\ \A p \in Request : request[p].pc = "write" /\ request[p].does = "confirm"
                            /\ dialog = "knowledge" => request[p].number \in 1..(n + 1)
  BY DEF NumbersInARow
<1>6. NumbersInARow'
  <2>1. q.pc = "write" /\ q.does = "confirm" /\ dialog = "knowledge" => q.number \in 1..(n + 1)
    BY <1>5
  <2>2. \A p \in Request : request'[p].pc = "write" /\ request'[p].does = "confirm"
                           /\ dialog = "knowledge" => request'[p].number \in 1..(n + 1)
    BY <1>1, <1>5, <2>1
  <2> QED BY <1>1, <1>3, <1>5, <2>2 DEF NumbersInARow
<1>7. OfProposals' BY <1>1, <1>3 DEF OfProposals, RequestMove
<1>8. NewestPending' BY <1>1 DEF NewestPending
<1>9. dialogLog.overlapped \subseteq dialogLog'.overlapped BY DEF RequestMove
<1>10. DueAlone' BY <1>1, <1>9 DEF DueAlone
<1>11. AppliesAlone' BY <1>1, <1>9 DEF AppliesAlone
<1>12. ASSUME NEW p \in Request PROVE StillTrue(request[p])'
  <2>1. CASE p # r BY <1>1, <1>3, <1>9, <2>1 DEF StillTrue, RequestMove
  <2>2. CASE p = r
    <3>1. q.pc = "write" /\ q.does = "confirm" /\ dialog = "knowledge" => q.number \notin TakenNumbers
      BY <1>5, NextNumber
    <3>2. request'[p] = q BY <1>1, <2>2
    <3> QED BY <1>1, <1>3, <3>1, <3>2 DEF StillTrue
  <2> QED BY <2>1, <2>2
<1>13. ASSUME NEW s \in Session PROVE Consistent(s)'
  BY <1>1, <1>9 DEF Consistent, RequestMove
<1> QED BY <1>2, <1>4, <1>6, <1>7, <1>8, <1>10, <1>11, <1>12, <1>13

\* A request that is not between its check and its write moves on.
LEMMA QuietMoves ==
  ASSUME DialogInv, NEW r \in Request, NEW q \in RequestRow,
         request' = [request EXCEPT ![r] = q], UNCHANGED <<dialog, session, dialogLog>>,
         remembered' \in [Author -> SessionOrNone],
         \A a \in Author : remembered'[a] # remembered[a] /\ remembered'[a] # 0 =>
           remembered'[a] \in Used /\ session[remembered'[a]].status # "clarify",
         q.pc \in {"idle", "preview", "read", "answer"},
         q.pc # "idle" => /\ q.session \in Used
                          /\ q.pc # "preview" /\ dialog = "services" =>
                               session[q.session].status # "clarify"
  PROVE  DialogInv'
<1>1. dialogLog \in DialogLog /\ dialogLog' = dialogLog BY DEF DialogInv, DialogTypeOK
<1>2. RequestMove(r, q) BY <1>1 DEF RequestMove
<1> QED BY <1>2, RequestMoves DEF Due

LEMMA OverlapMarks ==
  ASSUME DialogInv, NEW s \in Session
  PROVE  /\ Overlap(s) \subseteq Session
         /\ \A p \in Request : Due(request[p]) /\ (request[p].session = s \/ dialog = "knowledge") =>
              {s, request[p].session} \subseteq Overlap(s)
<1>1. \A p \in Deciding(s) : request[p].session \in Session
  BY DEF Deciding, DialogInv, OfProposals, Used
<1>2. \A p \in Request : Due(request[p]) /\ (request[p].session = s \/ dialog = "knowledge") =>
        p \in Deciding(s)
  BY DEF Due, Deciding
<1> QED BY <1>1, <1>2 DEF Overlap

\* A request has checked what it is about to write.
LEMMA DecisionMoves ==
  ASSUME DialogInv, NEW r \in Request, NEW q \in RequestRow, Due(q),
         request' = [request EXCEPT ![r] = q], UNCHANGED <<dialog, session, remembered>>,
         dialogLog' = [dialogLog EXCEPT !.overlapped = @ \cup Overlap(q.session)],
         q.session \in Used, dialog = "services" => session[q.session].status # "clarify",
         session[q.session].status = "pending"
           \/ (q.does = "cancel" /\ session[q.session].status = "clarify"),
         q.pc = "write" /\ q.does = "confirm" /\ dialog = "knowledge" =>
           q.number = Cardinality(TakenNumbers) + 1
  PROVE  DialogInv'
<1>1. dialogLog \in DialogLog /\ remembered \in [Author -> SessionOrNone] /\ q.session \in Session
  BY DEF DialogInv, DialogTypeOK, Used
<1>2. /\ dialogLog' \in DialogLog /\ dialogLog'.applied = dialogLog.applied
      /\ dialogLog'.numbers = dialogLog.numbers /\ dialogLog'.told = dialogLog.told
      /\ dialogLog'.overlapped = dialogLog.overlapped \cup Overlap(q.session)
  BY <1>1, OverlapMarks DEF DialogLog
<1>3. RequestMove(r, q) BY <1>1, <1>2 DEF RequestMove
<1>4. \A p \in Request : Due(request[p]) /\ p # r
        /\ (request[p].session = q.session \/ dialog = "knowledge") =>
          {q.session, request[p].session} \subseteq dialogLog'.overlapped
  BY <1>1, <1>2, OverlapMarks
<1>5. q.pc = "write" /\ q.does = "confirm" /\ dialog = "knowledge" =>
        \A n \in Nat : TakenNumbers = 1..n => q.number = n + 1
  BY NextNumber
<1>6. q.pc # "apply" /\ q.pc # "idle" /\ q.pc # "preview" BY DEF Due
<1> QED BY <1>3, <1>4, <1>5, <1>6, RequestMoves

\* What a request writes concludes its proposal, for the requests that did not
\* overlap with it.
LEMMA WriteMoves ==
  ASSUME DialogInv, NEW r \in Request, NEW q \in RequestRow, NEW s \in Session,
         NEW row \in SessionRow, Due(request[r]), s = request[r].session,
         row.status \in {"expired", "cancelled", "confirmed"}, row.owner = session[s].owner,
         session' = [session EXCEPT ![s] = row], request' = [request EXCEPT ![r] = q],
         UNCHANGED <<dialog, remembered>>,
         q.pc = "idle" \/ (q.pc = "answer" /\ q.session = s)
           \/ (q.pc = "apply" /\ q.session = s /\ row.status = "confirmed"),
         row.status = "confirmed" => request[r].pc = "write" /\ request[r].does = "confirm",
         dialogLog' \in DialogLog, dialogLog'.applied = dialogLog.applied,
         dialogLog'.overlapped = dialogLog.overlapped,
         dialogLog'.told = dialogLog.told
           \/ (row.status = "cancelled" /\ dialogLog'.told = dialogLog.told \cup {s}),
         \A t \in Session : dialogLog'.numbers[t] =
           IF t = s /\ row.status = "confirmed" /\ dialog = "knowledge"
             THEN dialogLog.numbers[s] \cup {request[r].number} ELSE dialogLog.numbers[t]
  PROVE  DialogInv'
<1> USE DEF DialogInv
<1>1. /\ request' \in [Request -> RequestRow] /\ session' \in [Session -> SessionRow]
      /\ \A p \in Request : request'[p] = IF p = r THEN q ELSE request[p]
      /\ \A t \in Session : session'[t] = IF t = s THEN row ELSE session[t]
      /\ dialog' = dialog /\ remembered' = remembered
  BY DEF DialogTypeOK
<1>2. DialogTypeOK' BY <1>1 DEF DialogTypeOK
<1>3. s \in Used /\ (dialog = "services" => session[s].status # "clarify")
  BY DEF OfProposals, Due
<1>4. Used' = Used BY <1>1, <1>3 DEF Used
<1>5. SessionsInARow' BY <1>1, <1>3, <1>4 DEF SessionsInARow, Used
<1>6. PICK n \in Nat : /\ TakenNumbers = 1..n
                       /\ \A p \in Request : request[p].pc = "write" /\ request[p].does = "confirm"
                            /\ dialog = "knowledge" => request[p].number \in 1..(n + 1)
  BY DEF NumbersInARow
<1>7. TakenNumbers' = IF row.status = "confirmed" /\ dialog = "knowledge"
                        THEN TakenNumbers \cup {request[r].number} ELSE TakenNumbers
  BY DEF TakenNumbers
<1>8. NumbersInARow'
  <2>1. PICK k \in {n, n + 1} : TakenNumbers' = 1..k
    <3>1. CASE row.status = "confirmed" /\ dialog = "knowledge"
      <4>1. request[r].number \in 1..(n + 1) BY <1>6, <3>1
      <4>2. TakenNumbers' = (1..n) \cup {request[r].number} BY <1>6, <1>7, <3>1
      <4>3. request[r].number \in 1..n \/ request[r].number = n + 1 BY <4>1
      <4>4. CASE request[r].number \in 1..n
        <5>1. TakenNumbers' = 1..n BY <4>2, <4>4
        <5> QED BY <5>1
      <4>5. CASE request[r].number = n + 1
        <5>1. TakenNumbers' = 1..(n + 1) BY <4>2, <4>5
        <5> QED BY <5>1
      <4> QED BY <4>3, <4>4, <4>5
    <3>2. CASE ~(row.status = "confirmed" /\ dialog = "knowledge") BY <1>6, <1>7, <3>2
    <3> QED BY <3>1, <3>2
  <2>2. k \in Nat /\ 1..(n + 1) \subseteq 1..(k + 1)
    OBVIOUS
  <2>3. \A p \in Request : request'[p].pc = "write" /\ request'[p].does = "confirm"
                           /\ dialog' = "knowledge" => request'[p].number \in 1..(k + 1)
    BY <1>1, <1>6, <2>2
  <2> QED BY <2>1, <2>2, <2>3 DEF NumbersInARow
<1>9. OfProposals'
  <2>1. ASSUME NEW p \in Request, request'[p].pc # "idle"
        PROVE  /\ request'[p].session \in Used
               /\ request'[p].pc # "preview" /\ dialog = "services" =>
                    session'[request'[p].session].status # "clarify"
    <3>1. CASE p = r BY <1>1, <1>3, <2>1, <3>1
    <3>2. CASE p # r BY <1>1, <2>1, <3>2 DEF OfProposals, Used
    <3> QED BY <3>1, <3>2
  <2>2. ASSUME NEW a \in Author, remembered[a] # 0
        PROVE  remembered[a] \in Used /\ session'[remembered[a]].status # "clarify"
    BY <1>1, <2>2 DEF OfProposals, Used
  <2> QED BY <1>1, <1>4, <2>1, <2>2 DEF OfProposals
<1>10. NewestPending'
  <2> SUFFICES ASSUME dialog = "services", NEW u \in Session, NEW t \in Session,
                      session'[u].status = "pending", session'[t].owner = session'[u].owner, t > u
               PROVE  session'[t].status = "clarify"
    BY <1>1 DEF NewestPending
  <2>1. u # s /\ session[u].status = "pending" /\ session[t].owner = session[u].owner
    BY <1>1
  <2>2. session[t].status = "clarify" BY <2>1 DEF NewestPending
  <2> QED BY <1>1, <1>3, <2>2
<1>11. ASSUME s \notin dialogLog.overlapped
       PROVE  /\ session[s].status \in {"pending", "clarify"}
              /\ row.status = "confirmed" => session[s].status = "pending"
              /\ dialogLog.applied[s] = 0 /\ s \notin dialogLog.told /\ dialogLog.numbers[s] = {}
              /\ row.status = "confirmed" /\ dialog = "knowledge" =>
                   request[r].number \notin TakenNumbers
              /\ \A p \in Request \ {r} : request[p].session = s =>
                   ~Due(request[p]) /\ request[p].pc # "apply"
  <2>1. session[s].status \in {"pending", "clarify"} /\ (row.status = "confirmed" => session[s].status = "pending")
    BY <1>11 DEF StillTrue
  <2>2. dialogLog.applied[s] \in Nat BY DEF DialogTypeOK, DialogLog
  <2>3. dialogLog.applied[s] = 0 /\ s \notin dialogLog.told /\ dialogLog.numbers[s] = {}
    BY <1>11, <2>1, <2>2 DEF Consistent
  <2>4. row.status = "confirmed" /\ dialog = "knowledge" => request[r].number \notin TakenNumbers
    BY <1>11 DEF StillTrue
  <2>5. \A p \in Request \ {r} : request[p].session = s =>
          ~Due(request[p]) /\ request[p].pc # "apply"
    BY <1>11, <2>1 DEF DueAlone, StillTrue
  <2> QED BY <2>1, <2>3, <2>4, <2>5
<1>12. ~Due(q) BY DEF Due
<1>13. DueAlone' BY <1>1, <1>12 DEF DueAlone
<1>14. AppliesAlone' BY <1>1, <1>11 DEF AppliesAlone
<1>15. ASSUME NEW p \in Request PROVE StillTrue(request[p])'
  <2>1. CASE p = r
    <3>1. request'[p] = q BY <1>1, <2>1
    <3> QED BY <1>1, <1>11, <1>12, <3>1 DEF StillTrue, Due
  <2>2. CASE p # r /\ request[p].session = s
    <3>1. request'[p] = request[p] BY <1>1, <2>2
    <3> QED BY <1>11, <2>2, <3>1 DEF StillTrue, Due
  <2>3. CASE p # r /\ request[p].session # s
    <3>1. request'[p] = request[p] BY <1>1, <2>3
    <3>2. Due(request[p]) /\ dialog = "knowledge" =>
            request[p].session \in dialogLog.overlapped
      BY <2>3 DEF DueAlone
    <3>3. request[p].session \in Session => session'[request[p].session] = session[request[p].session]
      BY <1>1, <2>3
    <3>4. Due(request[p]) \/ request[p].pc = "apply" => request[p].session \in Session
      BY DEF OfProposals, Used, Due
    <3> QED BY <1>1, <3>1, <3>2, <3>3, <3>4 DEF StillTrue, Due
  <2> QED BY <2>1, <2>2, <2>3
<1>16. \A t \in Session : dialogLog.numbers[t] \subseteq TakenNumbers
  BY DEF TakenNumbers
<1>17. ASSUME NEW t \in Session PROVE Consistent(t)'
  <2>1. CASE t # s
    <3>1. \A u \in Session \ {t} : t \notin dialogLog.overlapped /\ u \notin dialogLog.overlapped =>
            dialogLog'.numbers[t] \cap dialogLog'.numbers[u] = {}
      BY <1>11, <1>16, <2>1 DEF Consistent
    <3> QED BY <1>1, <2>1, <3>1 DEF Consistent
  <2>2. CASE t = s
    <3>1. \A u \in Session \ {t} : t \notin dialogLog.overlapped /\ u \notin dialogLog.overlapped =>
            dialogLog'.numbers[t] \cap dialogLog'.numbers[u] = {}
      BY <1>11, <1>16, <2>2
    <3>2. t \notin dialogLog.overlapped =>
            /\ dialogLog'.numbers[t] = {} \/ (row.status = "confirmed"
                                              /\ dialogLog'.numbers[t] = {request[r].number})
            /\ t \in dialogLog'.told => row.status = "cancelled"
      BY <1>11, <2>2
    <3> QED BY <1>1, <1>11, <2>2, <3>1, <3>2 DEF Consistent
  <2> QED BY <2>1, <2>2
<1> QED BY <1>2, <1>5, <1>8, <1>9, <1>10, <1>13, <1>14, <1>15, <1>17

LEMMA ConsistentKeeps ==
  ASSUME NEW s \in Session, Consistent(s), session'[s].status = session[s].status,
         dialogLog'.applied = dialogLog.applied, dialogLog'.numbers = dialogLog.numbers,
         s \in dialogLog'.told => s \in dialogLog.told,
         dialogLog.overlapped \subseteq dialogLog'.overlapped
  PROVE  Consistent(s)'
BY DEF Consistent

LEMMA StillTrueKeeps ==
  ASSUME NEW q, StillTrue(q), session'[q.session].status = session[q.session].status,
         dialogLog'.applied = dialogLog.applied, TakenNumbers' = TakenNumbers,
         dialog' = dialog, dialogLog.overlapped \subseteq dialogLog'.overlapped
  PROVE  StillTrue(q)'
BY DEF StillTrue

\* A proposal is recorded beside the others, or in place of those that waited.
ProposalMove(r, q, n, a, understood, superseded) ==
  /\ n = Cardinality(Used) + 1
  /\ superseded \subseteq Pending(a)
  /\ dialog = "services" /\ understood => superseded = Pending(a)
  /\ session' = [s \in Session |->
       IF s = n THEN Proposal(a, understood)
       ELSE IF s \in superseded
         THEN [session[s] EXCEPT !.status = "cancelled", !.tokened = FALSE]
         ELSE session[s]]
  /\ dialogLog' = [dialogLog EXCEPT
       !.overlapped = @ \cup {s \in superseded : Deciding(s) # {}},
       !.told = @ \cup superseded]
  /\ UNCHANGED <<dialog, remembered>>
  /\ \/ request' = request
     \/ request' = [request EXCEPT ![r] = q] /\ q.pc = "preview" /\ q.session = n

LEMMA ProposalMoves ==
  ASSUME DialogInv, NEW r \in Request, NEW q \in RequestRow, NEW n \in Session,
         NEW a \in Author, NEW understood \in BOOLEAN, NEW superseded,
         ProposalMove(r, q, n, a, understood, superseded)
  PROVE  DialogInv'
<1> USE DEF DialogInv
<1>1. n \notin Used /\ Used = 1..(n - 1) /\ n \in SessionOrNone /\ n \in Nat /\ n >= 1
  <2>1. n \in SessionOrNone /\ n \in Nat /\ n >= 1
    BY DialogRows
  <2>2. SessionsInARow /\ n = Cardinality(Used) + 1 BY DEF ProposalMove
  <2> QED BY <2>1, <2>2, NextSession
<1>2. session[n].status = "unused" /\ session[n].owner = "none" /\ a # "none"
  BY <1>1, DialogBounds DEF Used, SessionsInARow
<1> DEFINE cancelled(s) == [session[s] EXCEPT !.status = "cancelled", !.tokened = FALSE]
<1>3. \A s \in Session : /\ cancelled(s) \in SessionRow /\ cancelled(s).status = "cancelled"
                         /\ cancelled(s).owner = session[s].owner
  BY DEF DialogTypeOK, SessionRow
<1> DEFINE new == Proposal(a, understood)
<1>4. /\ new \in SessionRow /\ new.owner = a
      /\ new.status = IF understood THEN "pending" ELSE "clarify"
  BY DEF Proposal, SessionRow
<1>5. session' = [s \in Session |-> IF s = n THEN new
                                    ELSE IF s \in superseded THEN cancelled(s) ELSE session[s]]
  BY DEF ProposalMove
<1>6. \A s \in superseded : /\ s \in Session /\ session[s].status = "pending" /\ session[s].owner = a
                            /\ s # n
  BY <1>2 DEF Pending, ProposalMove
<1> HIDE DEF new, cancelled
<1>7. /\ session' \in [Session -> SessionRow] /\ session'[n] = new
      /\ \A s \in Session : session'[s].owner = IF s = n THEN a ELSE session[s].owner
      /\ \A s \in superseded : session'[s].status = "cancelled"
      /\ \A s \in Session \ superseded : s # n => session'[s] = session[s]
      /\ dialog' = dialog /\ remembered' = remembered
  <2>1. session \in [Session -> SessionRow] BY DEF DialogTypeOK
  <2>2. \A s \in Session : session'[s] = IF s = n THEN new
                           ELSE IF s \in superseded THEN cancelled(s) ELSE session[s]
    BY <1>5
  <2>3. session' \in [Session -> SessionRow] BY <1>3, <1>4, <1>5, <2>1
  <2>4. \A s \in Session : session'[s].owner = IF s = n THEN a ELSE session[s].owner
    BY <1>3, <1>4, <2>2
  <2>5. \A s \in superseded : session'[s].status = "cancelled" BY <1>3, <1>6, <2>2
  <2>6. dialog' = dialog /\ remembered' = remembered BY DEF ProposalMove
  <2> QED BY <2>2, <2>3, <2>4, <2>5, <2>6
<1>8. /\ dialogLog' \in DialogLog /\ dialogLog'.applied = dialogLog.applied
      /\ dialogLog'.numbers = dialogLog.numbers
      /\ dialogLog'.told = dialogLog.told \cup superseded
      /\ dialogLog'.overlapped = dialogLog.overlapped \cup {s \in superseded : Deciding(s) # {}}
  BY <1>6 DEF DialogTypeOK, DialogLog, ProposalMove
<1>9. /\ request' \in [Request -> RequestRow]
      /\ \A p \in Request : \/ request'[p] = request[p]
                            \/ request'[p].pc = "preview" /\ request'[p].session = n
  BY DEF DialogTypeOK, ProposalMove
<1>10. DialogTypeOK' BY <1>7, <1>8, <1>9 DEF DialogTypeOK
<1>11. Used' = Used \cup {n}
  <2>1. \A s \in Session : session'[s].status # "unused" <=> s \in Used \/ s = n
    BY <1>4, <1>6, <1>7 DEF Used
  <2> QED BY <2>1 DEF Used
<1>12. SessionsInARow'
  <2>1. Used' = 1..n
    <3>1. Used' = (1..(n - 1)) \cup {n} BY <1>1, <1>11
    <3>2. n \in Nat /\ n >= 1 BY <1>1
    <3>3. (1..(n - 1)) \cup {n} = 1..n BY <3>2
    <3> QED BY <3>1, <3>3
  <2>2. \A s \in Session \ Used' : session'[s].owner = "none" BY <1>7, <1>11 DEF SessionsInARow
  <2> QED BY <1>1, <2>1, <2>2 DEF SessionsInARow
<1>13. TakenNumbers' = TakenNumbers BY <1>8 DEF TakenNumbers
<1>14. NumbersInARow' BY <1>7, <1>9, <1>13 DEF NumbersInARow
<1>15. \A s \in Used : session'[s].status = session[s].status \/ session'[s].status = "cancelled"
  BY <1>1, <1>7 DEF Used
<1>16. OfProposals'
  <2>1. ASSUME NEW p \in Request, request'[p].pc # "idle"
        PROVE  /\ request'[p].session \in Used'
               /\ request'[p].pc # "preview" /\ dialog = "services" =>
                    session'[request'[p].session].status # "clarify"
    <3>1. CASE request'[p].pc = "preview" /\ request'[p].session = n BY <1>11, <3>1
    <3>2. CASE request'[p] = request[p] BY <1>11, <1>15, <2>1, <3>2 DEF OfProposals
    <3> QED BY <1>9, <3>1, <3>2
  <2>2. ASSUME NEW b \in Author, remembered[b] # 0
        PROVE  remembered[b] \in Used' /\ session'[remembered[b]].status # "clarify"
    BY <1>11, <1>15, <2>2 DEF OfProposals
  <2> QED BY <1>7, <2>1, <2>2 DEF OfProposals
<1>17. NewestPending'
  <2> SUFFICES ASSUME dialog = "services", NEW s \in Session, NEW t \in Session,
                      session'[s].status = "pending", session'[t].owner = session'[s].owner, t > s
               PROVE  session'[t].status = "clarify"
    BY <1>7 DEF NewestPending
  <2>1. CASE s = n
    <3>1. t \in Nat /\ n \in Nat /\ t > n BY <2>1, DialogRows
    <3>2. t \notin 1..(n - 1) /\ t # n BY <3>1
    <3>3. session[t].owner = "none" BY <1>1, <3>2 DEF SessionsInARow
    <3>4. session'[t].owner = "none" /\ session'[s].owner = a BY <1>7, <2>1, <3>2, <3>3
    <3> QED BY <1>2, <3>4
  <2>2. CASE s # n /\ t = n
    <3>1. session[s].status = "pending" /\ session[s].owner = a /\ s \notin superseded
      BY <1>7, <2>2
    <3>2. s \in Pending(a) BY <3>1 DEF Pending
    <3> QED BY <1>4, <1>7, <2>2, <3>1, <3>2 DEF ProposalMove
  <2>3. CASE s # n /\ t # n
    <3>1. session[s].status = "pending" /\ session[t].owner = session[s].owner BY <1>7, <2>3
    <3>2. session[t].status = "clarify" BY <3>1 DEF NewestPending
    <3> QED BY <1>6, <1>7, <2>3, <3>2
  <2> QED BY <2>1, <2>2, <2>3
<1>18. dialogLog.overlapped \subseteq dialogLog'.overlapped BY <1>8
<1>19. DueAlone' /\ AppliesAlone'
  <2>1. \A p \in Request : request'[p].pc # "preview" => request'[p] = request[p] BY <1>9
  <2>2. DueAlone' BY <1>7, <1>18, <2>1 DEF DueAlone, Due
  <2>3. AppliesAlone' BY <1>18, <2>1 DEF AppliesAlone
  <2> QED BY <2>2, <2>3
<1>20. ASSUME NEW s \in superseded, s \notin dialogLog'.overlapped
       PROVE  \A p \in Request : request[p].session = s =>
                ~Due(request[p]) /\ request[p].pc # "apply"
  <2>1. Deciding(s) = {} /\ s \notin dialogLog.overlapped BY <1>8, <1>20
  <2> QED BY <1>6, <2>1 DEF Deciding, Due, StillTrue
<1>21. ASSUME NEW p \in Request PROVE StillTrue(request[p])'
  <2>1. CASE request'[p].pc \in {"idle", "preview"} BY <2>1 DEF StillTrue, Due
  <2>2. CASE request'[p] = request[p] /\ request[p].pc \notin {"idle", "preview"}
    <3>1. request[p].session \in Used /\ request[p].session \in Session
      BY <2>2 DEF OfProposals, Used
    <3>2. CASE request[p].session \in superseded BY <1>20, <2>2, <3>2 DEF StillTrue, Due
    <3>3. CASE request[p].session \notin superseded
      <4>1. PICK u : u = request[p]
        OBVIOUS
      <4>2. session'[u.session] = session[u.session] BY <1>1, <1>7, <3>1, <3>3, <4>1
      <4>3. StillTrue(u) BY <4>1
      <4>4. StillTrue(u)' BY <1>7, <1>8, <1>13, <1>18, <4>2, <4>3, StillTrueKeeps
      <4> QED BY <2>2, <4>1, <4>4 DEF StillTrue
    <3> QED BY <3>2, <3>3
  <2> QED BY <1>9, <2>1, <2>2
<1>22. ASSUME NEW s \in Session PROVE Consistent(s)'
  <2>1. dialogLog.applied[s] \in Nat BY DEF DialogTypeOK, DialogLog
  <2>2. Consistent(s)
    OBVIOUS
  <2>3. CASE s \in superseded \cup {n}
    <3>1. session[s].status \in {"pending", "unused"} BY <1>2, <1>6, <2>3
    <3>2. s \notin dialogLog.overlapped =>
            dialogLog.applied[s] = 0 /\ s \notin dialogLog.told /\ dialogLog.numbers[s] = {}
      BY <2>1, <2>2, <3>1 DEF Consistent
    <3>3. s \in superseded => session'[s].status = "cancelled" BY <1>7
    <3>4. s \notin superseded => (s \in dialogLog'.told <=> s \in dialogLog.told) BY <1>8
    <3>5. s \notin dialogLog'.overlapped => s \notin dialogLog.overlapped BY <1>18
    <3>6. dialogLog'.applied = dialogLog.applied /\ dialogLog'.numbers = dialogLog.numbers
      BY <1>8
    <3> QED BY <3>2, <3>3, <3>4, <3>5, <3>6 DEF Consistent
  <2>4. CASE s \notin superseded \cup {n}
    <3>1. session'[s] = session[s] /\ (s \in dialogLog'.told <=> s \in dialogLog.told)
      BY <1>7, <1>8, <2>4
    <3> QED BY <1>8, <1>18, <2>2, <3>1, ConsistentKeeps
  <2> QED BY <2>3, <2>4
<1> QED BY <1>10, <1>12, <1>14, <1>16, <1>17, <1>19, <1>21, <1>22

LEMMA ProposeKeeps ==
  ASSUME DialogInv, NEW r \in Request, NEW a \in Author, NEW understood \in BOOLEAN,
         propose(r, a, understood)
  PROVE  DialogInv'
<1>0. PICK n : n = Cardinality(Used) + 1
  OBVIOUS
<1>1. PICK superseded : superseded = IF understood THEN Pending(a) ELSE {}
  OBVIOUS
<1>2. n \in Session /\ dialog = "services" /\ Starts(r, "propose", "preview", a, n, n)
  BY <1>0 DEF propose
<1> DEFINE q == [NoRequest EXCEPT !.does = "propose", !.pc = "preview", !.author = a,
                                  !.session = n, !.token = n]
<1>3. q \in RequestRow /\ q.pc = "preview" /\ q.session = n
  BY <1>2, DialogRows DEF RequestRow, NoRequest
<1>4. request' = [request EXCEPT ![r] = q] BY <1>2 DEF Starts
<1> HIDE DEF q
<1>5. /\ session' = [s \in Session |->
           IF s = n THEN Proposal(a, understood)
           ELSE IF s \in superseded
             THEN [session[s] EXCEPT !.status = "cancelled", !.tokened = FALSE]
             ELSE session[s]]
      /\ dialogLog' = [dialogLog EXCEPT
           !.overlapped = @ \cup {s \in superseded : Deciding(s) # {}},
           !.told = @ \cup superseded]
      /\ UNCHANGED <<dialog, remembered>>
  BY <1>0, <1>1 DEF propose
<1>6. ProposalMove(r, q, n, a, understood, superseded)
  BY <1>0, <1>1, <1>3, <1>4, <1>5 DEF ProposalMove
<1> QED BY <1>2, <1>3, <1>6, ProposalMoves

LEMMA ProposeElsewhereKeeps ==
  ASSUME DialogInv, NEW r \in Request, NEW understood \in BOOLEAN,
         propose_admin(r, understood) \/ propose_knowledge(r, understood)
  PROVE  DialogInv'
<1>0. PICK n : n = Cardinality(Used) + 1
  OBVIOUS
<1>1. /\ n \in Session /\ dialog # "services"
      /\ session' = [session EXCEPT ![n] = Proposal(Administrator, understood)]
      /\ UNCHANGED <<dialog, remembered, request, dialogLog>>
  BY <1>0 DEF propose_admin, propose_knowledge
<1>2. session \in [Session -> SessionRow] /\ dialogLog \in DialogLog
  BY DEF DialogInv, DialogTypeOK
<1>3. session' = [s \in Session |->
        IF s = n THEN Proposal(Administrator, understood)
        ELSE IF s \in {}
          THEN [session[s] EXCEPT !.status = "cancelled", !.tokened = FALSE]
          ELSE session[s]]
  BY <1>1, <1>2
<1>4. dialogLog' = [dialogLog EXCEPT !.overlapped = @ \cup {s \in {} : Deciding(s) # {}},
                                     !.told = @ \cup {}]
  BY <1>1, <1>2 DEF DialogLog
<1>5. ProposalMove(r, NoRequest, n, Administrator, understood, {})
  BY <1>0, <1>1, <1>3, <1>4 DEF ProposalMove
<1> QED BY <1>1, <1>5, DialogRows, ProposalMoves

LEMMA PreviewKeeps == ASSUME DialogInv, NEW r \in Request, Preview(r) PROVE DialogInv'
<1>1. /\ request[r].pc = "preview" /\ request[r].session \in Used /\ request[r].session \in SessionOrNone
      /\ remembered \in [Author -> SessionOrNone]
  BY DEF Preview, DialogInv, DialogTypeOK, RequestRow, OfProposals
<1>2. request' = [request EXCEPT ![r] = NoRequest] /\ UNCHANGED <<dialog, session, dialogLog>>
  BY DEF Preview, Ends
<1>3. \/ remembered' = remembered
      \/ /\ session[request[r].session].status # "clarify"
         /\ remembered' = [remembered EXCEPT ![request[r].author] = request[r].session]
  BY DEF Preview
<1>4. /\ remembered' \in [Author -> SessionOrNone]
      /\ \A a \in Author : remembered'[a] # remembered[a] /\ remembered'[a] # 0 =>
           remembered'[a] \in Used /\ session[remembered'[a]].status # "clarify"
  BY <1>1, <1>3
<1> QED BY <1>2, <1>4, DialogRows, QuietMoves

LEMMA AgesKeeps == ASSUME DialogInv, NEW s \in Session, Ages(s) PROVE DialogInv'
<1> USE DEF DialogInv
<1>1. /\ session \in [Session -> SessionRow] /\ session' = [session EXCEPT ![s].old = TRUE]
      /\ UNCHANGED <<dialog, remembered, request, dialogLog>>
  BY DEF Ages, DialogTypeOK
<1> DEFINE row == [session[s] EXCEPT !.old = TRUE]
<1>2. session' = [session EXCEPT ![s] = row] BY <1>1
<1>3. row \in SessionRow BY <1>1, Zenon DEF SessionRow
<1>4. row.status = session[s].status /\ row.owner = session[s].owner BY <1>1 DEF SessionRow
<1> HIDE DEF row
<1>5. /\ session' \in [Session -> SessionRow]
      /\ \A t \in Session : /\ session'[t].status = session[t].status
                            /\ session'[t].owner = session[t].owner
  BY <1>1, <1>2, <1>3, <1>4
<1>6. Used' = Used BY <1>5 DEF Used
<1>7. TakenNumbers' = TakenNumbers BY <1>1 DEF TakenNumbers
<1>8. DialogTypeOK' BY <1>1, <1>5 DEF DialogTypeOK
<1>9. SessionsInARow' BY <1>5, <1>6 DEF SessionsInARow
<1>10. NumbersInARow' BY <1>1, <1>7 DEF NumbersInARow
<1>11. OfProposals'
  <2>1. \A t \in Used : session'[t].status = session[t].status BY <1>5 DEF Used
  <2> QED BY <1>1, <1>6, <2>1 DEF OfProposals
<1>12. NewestPending' BY <1>1, <1>5 DEF NewestPending
<1>13. DueAlone' /\ AppliesAlone' BY <1>1 DEF DueAlone, AppliesAlone
<1>14. ASSUME NEW r \in Request PROVE StillTrue(request[r])'
  <2>1. Due(request[r]) \/ request[r].pc = "apply" => request[r].session \in Session
    BY DEF OfProposals, Used, Due
  <2> QED BY <1>1, <1>5, <1>7, <2>1 DEF StillTrue, Due
<1>15. ASSUME NEW t \in Session PROVE Consistent(t)' BY <1>1, <1>5 DEF Consistent
<1> QED BY <1>8, <1>9, <1>10, <1>11, <1>12, <1>13, <1>14, <1>15

\* A message is turned into a call about a proposal.
LEMMA StartKeeps ==
  ASSUME DialogInv, NEW r \in Request, NEW does \in {"confirm", "cancel"},
         NEW a \in Author \cup {"none"}, NEW s \in Used, NEW t \in SessionOrNone,
         Starts(r, does, "read", a, s, t),
         dialog = "services" => session[s].status # "clarify",
         UNCHANGED <<dialog, session, remembered, dialogLog>>
  PROVE  DialogInv'
<1> DEFINE q == [NoRequest EXCEPT !.does = does, !.pc = "read", !.author = a,
                                  !.session = s, !.token = t]
<1>1. s \in SessionOrNone BY DialogRows DEF Used
<1>2. q \in RequestRow /\ q.pc = "read" /\ q.session = s
  BY <1>1, DialogRows DEF RequestRow, NoRequest
<1>3. request' = [request EXCEPT ![r] = q] BY DEF Starts
<1> HIDE DEF q
<1>4. remembered \in [Author -> SessionOrNone] BY DEF DialogInv, DialogTypeOK
<1> QED BY <1>2, <1>3, <1>4, QuietMoves

LEMMA LookupKeeps ==
  ASSUME DialogInv, NEW r \in Request, NEW does \in {"confirm", "cancel"}, NEW a \in Author,
         NEW explicit \in SessionOrNone, Lookup(r, does, a, explicit)
  PROVE  DialogInv'
<1>0. PICK s : s = Newest(Pending(a))
  OBVIOUS
<1>1. /\ Pending(a) # {} /\ UNCHANGED <<dialog, session, remembered>>
      /\ IF session[s].old
           THEN /\ Starts(r, "lookup", "expire", a, s, 0)
                /\ dialogLog' = [dialogLog EXCEPT !.overlapped = @ \cup Overlap(s)]
           ELSE /\ Starts(r, does, "read", a, s, IF explicit = 0 THEN s ELSE explicit)
                /\ UNCHANGED dialogLog
  BY <1>0 DEF Lookup
<1>2. s \in Session /\ session[s].status = "pending" /\ s \in Used /\ s \in SessionOrNone
  <2>1. s \in Pending(a) BY <1>0, <1>1, NewestIsPending
  <2>2. s \in Session /\ session[s].status = "pending" BY <2>1 DEF Pending
  <2> QED BY <2>2, DialogRows DEF Used
<1>3. CASE ~session[s].old BY <1>1, <1>2, <1>3, StartKeeps
<1>4. CASE session[s].old
  <2> DEFINE q == [NoRequest EXCEPT !.does = "lookup", !.pc = "expire", !.author = a,
                                    !.session = s, !.token = 0]
  <2>1. q \in RequestRow /\ q.pc = "expire" /\ q.session = s
    BY <1>2, DialogRows DEF RequestRow, NoRequest
  <2>2. request' = [request EXCEPT ![r] = q] BY <1>1, <1>4 DEF Starts
  <2> HIDE DEF q
  <2> QED BY <1>1, <1>2, <1>4, <2>1, <2>2, DecisionMoves DEF Due
<1> QED BY <1>3, <1>4

LEMMA StartsKeep ==
  ASSUME DialogInv, NEW r \in Request,
         \/ \E a \in Author : \/ SayYes(r, a) \/ SayNo(r, a)
                              \/ \E t \in Session : PresentToken(r, a, t)
         \/ AdminConfirms(r) \/ AdminCancels(r)
         \/ \E s \in Session : \/ cancel_nl_op(r, s)
                               \/ \E t \in Session : confirm_nl_op(r, s, t)
  PROVE  DialogInv'
<1>1. \A a \in Author : remembered[a] # 0 =>
        /\ remembered[a] \in Used /\ session[remembered[a]].status # "clarify"
        /\ remembered[a] \in SessionOrNone
  BY DEF DialogInv, DialogTypeOK, OfProposals
<1>2. \A s \in Session : session[s].owner \in Author \cup {"none"} /\ s \in SessionOrNone
  BY DialogRows DEF DialogInv, DialogTypeOK, SessionRow
<1>3. ASSUME NEW a \in Author, SayYes(r, a) PROVE DialogInv'
  BY <1>1, <1>3, StartKeeps DEF SayYes
<1>4. ASSUME NEW a \in Author, SayNo(r, a) PROVE DialogInv'
  <2>1. CASE remembered[a] # 0
    BY <1>1, <1>4, <2>1, DialogRows, StartKeeps DEF SayNo
  <2>2. CASE Lookup(r, "cancel", a, 0) BY <2>2, DialogRows, LookupKeeps
  <2> QED BY <1>4, <2>1, <2>2 DEF SayNo
<1>5. ASSUME NEW a \in Author, NEW t \in Session, PresentToken(r, a, t) PROVE DialogInv'
  BY <1>2, <1>5, LookupKeeps DEF PresentToken
<1>6. CASE AdminConfirms(r) \/ AdminCancels(r)
  BY <1>6, DialogRows, LookupKeeps DEF AdminConfirms, AdminCancels
<1>7. ASSUME NEW s \in Session, NEW t \in Session, confirm_nl_op(r, s, t) PROVE DialogInv'
  <2>1. /\ s \in Used /\ dialog = "knowledge" /\ Starts(r, "confirm", "read", session[s].owner, s, t)
        /\ UNCHANGED <<dialog, session, remembered, dialogLog>>
    BY <1>7 DEF confirm_nl_op
  <2> QED BY <1>2, <2>1, StartKeeps
<1>8. ASSUME NEW s \in Session, cancel_nl_op(r, s) PROVE DialogInv'
  <2>1. /\ s \in Used /\ dialog = "knowledge" /\ Starts(r, "cancel", "read", session[s].owner, s, 0)
        /\ UNCHANGED <<dialog, session, remembered, dialogLog>>
    BY <1>8 DEF cancel_nl_op
  <2> QED BY <1>2, <2>1, DialogRows, StartKeeps
<1> QED BY <1>3, <1>4, <1>5, <1>6, <1>7, <1>8

LEMMA RefusalKeeps ==
  ASSUME DialogInv, NEW r \in Request, request[r].pc = "read", Refuses(r),
         UNCHANGED <<dialog, session, remembered>>
  PROVE  DialogInv'
<1>1. request \in [Request -> RequestRow] /\ request[r] \in RequestRow
      /\ remembered \in [Author -> SessionOrNone]
  BY DEF DialogInv, DialogTypeOK
<1>2. PICK q : q = [request[r] EXCEPT !.pc = "answer"]
  OBVIOUS
<1>3. q \in RequestRow /\ q.pc = "answer" /\ q.session = request[r].session
  BY <1>1, <1>2 DEF RequestRow
<1>4. request' = [request EXCEPT ![r] = q] /\ UNCHANGED <<dialog, session, dialogLog>>
  BY <1>1, <1>2 DEF Refuses, Goes
<1>5. q.session \in Used /\ (dialog = "services" => session[q.session].status # "clarify")
  BY <1>3 DEF DialogInv, OfProposals
<1> QED BY <1>1, <1>3, <1>4, <1>5, QuietMoves

LEMMA DecisionKeeps ==
  ASSUME DialogInv, NEW r \in Request, request[r].pc = "read", NEW pc \in {"write", "expire"},
         Decides(r, pc), UNCHANGED <<dialog, session, remembered>>,
         session[request[r].session].status = "pending"
           \/ (request[r].does = "cancel" /\ session[request[r].session].status = "clarify"),
         request[r].does = "confirm" => dialog # "knowledge"
  PROVE  DialogInv'
<1>1. request \in [Request -> RequestRow] /\ request[r] \in RequestRow
  BY DEF DialogInv, DialogTypeOK
<1>2. PICK q : q = [request[r] EXCEPT !.pc = pc]
  OBVIOUS
<1>3. /\ q \in RequestRow /\ q.pc = pc /\ q.session = request[r].session
      /\ q.does = request[r].does
  BY <1>1, <1>2 DEF RequestRow
<1>4. /\ request' = [request EXCEPT ![r] = q]
      /\ dialogLog' = [dialogLog EXCEPT !.overlapped = @ \cup Overlap(q.session)]
  BY <1>1, <1>2, <1>3 DEF Decides, Goes
<1>5. q.session \in Used /\ (dialog = "services" => session[q.session].status # "clarify")
  BY <1>3 DEF DialogInv, OfProposals
<1> QED BY <1>3, <1>4, <1>5, DecisionMoves DEF Due

LEMMA CheckKeeps ==
  ASSUME DialogInv, NEW r \in Request, consume(r) \/ confirm_admin(r) \/ cancel(r)
  PROVE  DialogInv'
<1>1. request[r].pc = "read" /\ UNCHANGED <<dialog, session, remembered>>
  BY DEF consume, confirm_admin, cancel
<1>2. CASE Refuses(r) BY <1>1, <1>2, RefusalKeeps
<1>3. ASSUME NEW pc \in {"write", "expire"}, Decides(r, pc), ~Refuses(r) PROVE DialogInv'
  <2>1. \/ session[request[r].session].status = "pending"
        \/ request[r].does = "cancel" /\ session[request[r].session].status = "clarify"
    BY <1>3 DEF consume, confirm_admin, cancel
  <2>2. request[r].does = "confirm" => dialog # "knowledge"
    BY DEF consume, confirm_admin, cancel
  <2> QED BY <1>1, <1>3, <2>1, <2>2, DecisionKeeps
<1> QED BY <1>2, <1>3 DEF consume, confirm_admin, cancel

LEMMA ConfirmKnowledgeKeeps ==
  ASSUME DialogInv, NEW r \in Request, confirm_knowledge(r) PROVE DialogInv'
<1>1. /\ request[r].pc = "read" /\ request[r].does = "confirm" /\ dialog = "knowledge"
      /\ UNCHANGED <<dialog, session, remembered>>
  BY DEF confirm_knowledge
<1>2. CASE Refuses(r) BY <1>1, <1>2, RefusalKeeps
<1>3. CASE ~Refuses(r)
  <2>1. request \in [Request -> RequestRow] /\ request[r] \in RequestRow
    BY DEF DialogInv, DialogTypeOK
  <2>2. PICK number : number = Cardinality(TakenNumbers) + 1
    OBVIOUS
  <2>3. number \in Nat BY <2>2, NextNumber DEF DialogInv, NumbersInARow
  <2>4. PICK q : q = [request[r] EXCEPT !.pc = "write", !.number = number]
    OBVIOUS
  <2>5. /\ q \in RequestRow /\ q.pc = "write" /\ q.session = request[r].session
        /\ q.does = "confirm" /\ q.number = number
    BY <1>1, <2>1, <2>3, <2>4 DEF RequestRow
  <2>6. /\ request' = [request EXCEPT ![r].pc = "write", ![r].number = number]
        /\ dialogLog' = [dialogLog EXCEPT !.overlapped = @ \cup Overlap(q.session)]
        /\ session[q.session].status = "pending"
    BY <1>3, <2>2, <2>5 DEF confirm_knowledge
  <2>7. request' = [request EXCEPT ![r] = q] BY <2>1, <2>4, <2>6
  <2>8. q.session \in Used BY <1>1, <2>5 DEF DialogInv, OfProposals
  <2> QED BY <1>1, <2>2, <2>5, <2>6, <2>7, <2>8, DecisionMoves DEF Due
<1> QED BY <1>2, <1>3

LEMMA ExpireKeeps == ASSUME DialogInv, NEW r \in Request, Expire(r) PROVE DialogInv'
<1>0. PICK s : s = request[r].session
  OBVIOUS
<1>1. /\ request \in [Request -> RequestRow] /\ request[r] \in RequestRow
      /\ session \in [Session -> SessionRow] /\ dialogLog \in DialogLog
      /\ request[r].pc = "expire" /\ UNCHANGED <<dialog, remembered, dialogLog>>
  BY DEF DialogInv, DialogTypeOK, Expire
<1>2. s \in Session BY <1>0, <1>1 DEF DialogInv, OfProposals, Used
<1>3. PICK row : row = [session[s] EXCEPT !.status = "expired", !.tokened = FALSE]
  OBVIOUS
<1>4. row \in SessionRow /\ row.status = "expired" /\ row.owner = session[s].owner
  BY <1>1, <1>2, <1>3 DEF SessionRow
<1>5. session' = [session EXCEPT ![s] = row]
  BY <1>0, <1>1, <1>2, <1>3 DEF Expire
<1>6. PICK q \in RequestRow : /\ request' = [request EXCEPT ![r] = q]
                              /\ q.pc = "idle" \/ (q.pc = "answer" /\ q.session = s)
  <2>1. CASE Ends(r) BY <2>1, DialogRows DEF Ends
  <2>2. CASE Goes(r, "answer")
    <3>1. PICK q : q = [request[r] EXCEPT !.pc = "answer"]
      OBVIOUS
    <3>2. q \in RequestRow /\ q.pc = "answer" /\ q.session = s BY <1>0, <1>1, <3>1 DEF RequestRow
    <3>3. request' = [request EXCEPT ![r] = q] BY <1>1, <2>2, <3>1 DEF Goes
    <3> QED BY <3>2, <3>3
  <2> QED BY <2>1, <2>2 DEF Expire
<1>7. Due(request[r]) BY <1>1 DEF Due
<1> QED BY <1>0, <1>1, <1>2, <1>4, <1>5, <1>6, <1>7, WriteMoves

LEMMA WriteKeeps ==
  ASSUME DialogInv, NEW r \in Request, WriteConfirmed(r) \/ WriteCancelled(r) PROVE DialogInv'
<1>0. PICK s : s = request[r].session
  OBVIOUS
<1>1. /\ request \in [Request -> RequestRow] /\ request[r] \in RequestRow
      /\ session \in [Session -> SessionRow] /\ dialogLog \in DialogLog
      /\ request[r].pc = "write" /\ UNCHANGED <<dialog, remembered>>
  BY DEF DialogInv, DialogTypeOK, WriteConfirmed, WriteCancelled
<1>2. s \in Session /\ Due(request[r]) BY <1>0, <1>1 DEF DialogInv, OfProposals, Used, Due
<1>3. PICK pc \in {"apply", "answer"} : /\ Goes(r, pc) /\ (pc = "apply" => WriteConfirmed(r))
                                        /\ pc = "answer" => WriteCancelled(r)
  BY DEF WriteConfirmed, WriteCancelled
<1>4. PICK q : q = [request[r] EXCEPT !.pc = pc]
  OBVIOUS
<1>5. q \in RequestRow /\ q.pc = pc /\ q.session = s BY <1>0, <1>1, <1>4 DEF RequestRow
<1>6. request' = [request EXCEPT ![r] = q] BY <1>1, <1>3, <1>4 DEF Goes
<1>7. CASE pc = "apply"
  <2>1. PICK tokened \in BOOLEAN : tokened = (session[s].tokened /\ dialog = "knowledge")
    BY <1>1, <1>2 DEF SessionRow
  <2>2. PICK row : row = [session[s] EXCEPT !.status = "confirmed", !.tokened = tokened]
    OBVIOUS
  <2>3. row \in SessionRow /\ row.status = "confirmed" /\ row.owner = session[s].owner
    BY <1>1, <1>2, <2>2 DEF SessionRow
  <2>4. session' = [session EXCEPT ![s] = row]
    BY <1>0, <1>1, <1>2, <1>3, <1>7, <2>1, <2>2 DEF WriteConfirmed
  <2>5. request[r].does = "confirm" BY <1>3, <1>7 DEF WriteConfirmed
  <2>6. /\ dialogLog' \in DialogLog /\ dialogLog'.applied = dialogLog.applied
        /\ dialogLog'.overlapped = dialogLog.overlapped /\ dialogLog'.told = dialogLog.told
        /\ \A t \in Session : dialogLog'.numbers[t] =
             IF t = s /\ dialog = "knowledge"
               THEN dialogLog.numbers[s] \cup {request[r].number} ELSE dialogLog.numbers[t]
    <3>1. CASE dialog # "knowledge" BY <1>1, <1>3, <1>7, <3>1 DEF WriteConfirmed
    <3>2. CASE dialog = "knowledge"
      <4> DEFINE numbers == [dialogLog.numbers EXCEPT ![s] = @ \cup {request[r].number}]
      <4>1. request[r].number \in Nat /\ dialogLog.numbers \in [Session -> SUBSET Nat]
        BY <1>1 DEF RequestRow, DialogLog
      <4>2. /\ numbers \in [Session -> SUBSET Nat]
            /\ \A t \in Session : numbers[t] =
                 IF t = s THEN dialogLog.numbers[s] \cup {request[r].number} ELSE dialogLog.numbers[t]
        BY <1>2, <4>1
      <4>3. dialogLog' = [dialogLog EXCEPT !.numbers = numbers]
        BY <1>0, <1>1, <1>3, <1>7, <3>2 DEF WriteConfirmed, DialogLog
      <4> HIDE DEF numbers
      <4>4. /\ dialogLog' \in DialogLog /\ dialogLog'.applied = dialogLog.applied
            /\ dialogLog'.overlapped = dialogLog.overlapped /\ dialogLog'.told = dialogLog.told
            /\ dialogLog'.numbers = numbers
        BY <1>1, <4>2, <4>3 DEF DialogLog
      <4> QED BY <3>2, <4>2, <4>4
    <3> QED BY <3>1, <3>2
  <2>7. \A t \in Session : dialogLog'.numbers[t] =
          IF t = s /\ row.status = "confirmed" /\ dialog = "knowledge"
            THEN dialogLog.numbers[s] \cup {request[r].number} ELSE dialogLog.numbers[t]
    BY <2>3, <2>6
  <2>8. /\ row.status \in {"expired", "cancelled", "confirmed"}
        /\ q.pc = "apply" /\ request[r].pc = "write" /\ UNCHANGED <<dialog, remembered>>
    BY <1>1, <1>5, <1>7, <2>3
  <2> HIDE DEF DialogInv
  <2> QED BY <1>0, <1>2, <1>5, <1>6, <2>3, <2>4, <2>5, <2>6, <2>7, <2>8, WriteMoves
<1>8. CASE pc = "answer"
  <2>1. PICK row : row = [session[s] EXCEPT !.status = "cancelled", !.tokened = FALSE]
    OBVIOUS
  <2>2. row \in SessionRow /\ row.status = "cancelled" /\ row.owner = session[s].owner
    BY <1>1, <1>2, <2>1 DEF SessionRow
  <2>3. session' = [session EXCEPT ![s] = row]
    BY <1>0, <1>1, <1>2, <1>3, <1>8, <2>1 DEF WriteCancelled
  <2>4. dialogLog' = [dialogLog EXCEPT !.told = @ \cup {s}]
    BY <1>0, <1>3, <1>8 DEF WriteCancelled
  <2>5. /\ dialogLog' \in DialogLog /\ dialogLog'.applied = dialogLog.applied
        /\ dialogLog'.overlapped = dialogLog.overlapped
        /\ dialogLog'.told = dialogLog.told \cup {s} /\ dialogLog'.numbers = dialogLog.numbers
    BY <1>1, <1>2, <2>4 DEF DialogLog
  <2> QED BY <1>0, <1>1, <1>2, <1>5, <1>6, <1>8, <2>2, <2>3, <2>5, WriteMoves
<1> QED BY <1>7, <1>8

LEMMA ApplyKeeps == ASSUME DialogInv, NEW r \in Request, Apply(r) PROVE DialogInv'
<1> USE DEF DialogInv
<1>0. PICK s : s = request[r].session
  OBVIOUS
<1>1. /\ request \in [Request -> RequestRow] /\ request[r] \in RequestRow
      /\ session \in [Session -> SessionRow] /\ dialogLog \in DialogLog
      /\ remembered \in [Author -> SessionOrNone]
      /\ request[r].pc = "apply" /\ UNCHANGED <<dialog, session, remembered>>
  BY DEF DialogTypeOK, Apply
<1>2. s \in Used /\ s \in Session /\ (dialog = "services" => session[s].status # "clarify")
  BY <1>0, <1>1 DEF OfProposals, Used
<1>3. PICK q : q = [request[r] EXCEPT !.pc = "answer"]
  OBVIOUS
<1>4. q \in RequestRow /\ q.pc = "answer" /\ q.session = s BY <1>0, <1>1, <1>3 DEF RequestRow
<1>5. request' = [request EXCEPT ![r] = q] BY <1>1, <1>3 DEF Apply, Goes
<1>6. CASE dialogLog' = dialogLog BY <1>1, <1>2, <1>4, <1>5, <1>6, QuietMoves
<1>7. CASE dialogLog' = [dialogLog EXCEPT !.applied[s] = @ + 1]
  <2> DEFINE applied == [dialogLog.applied EXCEPT ![s] = @ + 1]
  <2>1. dialogLog.applied \in [Session -> Nat] BY <1>1 DEF DialogLog
  <2>2. /\ applied \in [Session -> Nat] /\ applied[s] = dialogLog.applied[s] + 1
        /\ \A t \in Session \ {s} : applied[t] = dialogLog.applied[t]
    BY <1>2, <2>1
  <2>3. dialogLog' = [dialogLog EXCEPT !.applied = applied] BY <1>1, <1>7 DEF DialogLog
  <2> HIDE DEF applied
  <2>4. /\ dialogLog' \in DialogLog /\ dialogLog'.applied = applied
        /\ dialogLog'.numbers = dialogLog.numbers /\ dialogLog'.told = dialogLog.told
        /\ dialogLog'.overlapped = dialogLog.overlapped
    BY <1>1, <2>2, <2>3 DEF DialogLog
  <2>5. /\ request' \in [Request -> RequestRow]
        /\ \A p \in Request : request'[p] = IF p = r THEN q ELSE request[p]
        /\ dialog' = dialog /\ session' = session /\ remembered' = remembered
    BY <1>1, <1>4, <1>5
  <2>6. DialogTypeOK' BY <1>1, <2>4, <2>5 DEF DialogTypeOK
  <2>7. Used' = Used /\ TakenNumbers' = TakenNumbers BY <2>4, <2>5 DEF Used, TakenNumbers
  <2>8. SessionsInARow' BY <2>5, <2>7 DEF SessionsInARow
  <2>9. NumbersInARow' BY <1>4, <2>5, <2>7 DEF NumbersInARow
  <2>10. OfProposals' BY <1>2, <1>4, <2>5, <2>7 DEF OfProposals
  <2>11. NewestPending' BY <2>5 DEF NewestPending
  <2>12. DueAlone' /\ AppliesAlone' BY <1>4, <2>4, <2>5 DEF DueAlone, AppliesAlone, Due
  <2>13. s \notin dialogLog.overlapped =>
           /\ session[s].status = "confirmed" /\ dialogLog.applied[s] = 0
           /\ \A p \in Request \ {r} : request[p].session = s =>
                ~Due(request[p]) /\ request[p].pc # "apply"
    BY <1>0, <1>1 DEF StillTrue, AppliesAlone
  <2>14. ASSUME NEW p \in Request PROVE StillTrue(request[p])'
    <3>1. CASE p = r
      <4>1. request'[p] = q BY <2>5, <3>1
      <4> QED BY <1>4, <4>1 DEF StillTrue, Due
    <3>2. CASE p # r /\ request[p].session = s
      <4>1. request'[p] = request[p] BY <2>5, <3>2
      <4> QED BY <2>4, <2>13, <3>2, <4>1 DEF StillTrue, Due
    <3>3. CASE p # r /\ request[p].session # s
      <4>1. request'[p] = request[p] BY <2>5, <3>3
      <4>2. Due(request[p]) \/ request[p].pc = "apply" => request[p].session \in Session
        BY DEF OfProposals, Used, Due
      <4> QED BY <2>2, <2>4, <2>5, <2>7, <3>3, <4>1, <4>2 DEF StillTrue, Due
    <3> QED BY <3>1, <3>2, <3>3
  <2>15. ASSUME NEW t \in Session PROVE Consistent(t)'
    <3>1. CASE t # s BY <2>2, <2>4, <2>5, <3>1 DEF Consistent
    <3>2. CASE t = s
      <4>1. t \notin dialogLog.overlapped => dialogLog'.applied[t] = 1 /\ session[t].status = "confirmed"
        BY <2>2, <2>4, <2>13, <3>2
      <4>2. Consistent(t)
        OBVIOUS
      <4> QED BY <2>4, <2>5, <4>1, <4>2 DEF Consistent
    <3> QED BY <3>1, <3>2
  <2> QED BY <2>6, <2>8, <2>9, <2>10, <2>11, <2>12, <2>14, <2>15
<1> QED BY <1>0, <1>6, <1>7 DEF Apply

LEMMA AnswerKeeps == ASSUME DialogInv, NEW r \in Request, Answer(r) PROVE DialogInv'
<1>1. remembered \in [Author -> SessionOrNone] BY DEF DialogInv, DialogTypeOK
<1>2. request' = [request EXCEPT ![r] = NoRequest] /\ UNCHANGED <<dialog, session, dialogLog>>
  BY DEF Answer, Ends
<1>3. remembered' = remembered \/ remembered' = [remembered EXCEPT ![request[r].author] = 0]
  BY DEF Answer
<1>4. /\ remembered' \in [Author -> SessionOrNone]
      /\ \A a \in Author : remembered'[a] # 0 => remembered'[a] = remembered[a]
  BY <1>1, <1>3, DialogRows
<1> QED BY <1>2, <1>4, DialogRows, QuietMoves

LEMMA RestartBotKeeps == ASSUME DialogInv, RestartBot PROVE DialogInv'
<1> USE DEF DialogInv
<1>1. /\ UNCHANGED <<dialog, session, dialogLog>> /\ remembered' = [a \in Author |-> 0]
      /\ request' = [r \in Request |->
           IF request[r].pc \in {"preview", "answer"} THEN NoRequest ELSE request[r]]
      /\ request \in [Request -> RequestRow]
  BY DEF RestartBot, DialogTypeOK
<1>2. /\ request' \in [Request -> RequestRow] /\ remembered' \in [Author -> SessionOrNone]
      /\ \A r \in Request : request'[r] = request[r] \/ request'[r].pc = "idle"
      /\ \A a \in Author : remembered'[a] = 0
  BY <1>1, DialogRows
<1>3. DialogTypeOK' BY <1>1, <1>2 DEF DialogTypeOK
<1>4. Used' = Used /\ TakenNumbers' = TakenNumbers BY <1>1 DEF Used, TakenNumbers
<1>5. SessionsInARow' BY <1>1, <1>4 DEF SessionsInARow
<1>6. NumbersInARow' BY <1>1, <1>2, <1>4 DEF NumbersInARow
<1>7. OfProposals' BY <1>1, <1>2, <1>4 DEF OfProposals
<1>8. NewestPending' BY <1>1 DEF NewestPending
<1>9. DueAlone' /\ AppliesAlone' BY <1>1, <1>2 DEF DueAlone, AppliesAlone, Due
<1>10. \A r \in Request : StillTrue(request[r])' BY <1>1, <1>2, <1>4 DEF StillTrue, Due
<1>11. \A s \in Session : Consistent(s)' BY <1>1 DEF Consistent
<1> QED BY <1>3, <1>5, <1>6, <1>7, <1>8, <1>9, <1>10, <1>11

LEMMA DialogMoves == ASSUME DialogInv, DialogNext PROVE DialogInv'
<1>1. ASSUME NEW r \in Request, NEW a \in Author, NEW understood \in BOOLEAN,
             \/ propose(r, a, understood) \/ propose_admin(r, understood)
             \/ propose_knowledge(r, understood)
      PROVE  DialogInv'
  BY <1>1, ProposeKeeps, ProposeElsewhereKeeps
<1>2. ASSUME NEW r \in Request,
             \/ \E a \in Author : \/ SayYes(r, a) \/ SayNo(r, a)
                                  \/ \E t \in Session : PresentToken(r, a, t)
             \/ AdminConfirms(r) \/ AdminCancels(r)
             \/ \E s \in Session : \/ cancel_nl_op(r, s)
                                   \/ \E t \in Session : confirm_nl_op(r, s, t)
      PROVE  DialogInv'
  BY <1>2, StartsKeep
<1>3. ASSUME NEW r \in Request,
             \/ Preview(r) \/ consume(r) \/ confirm_admin(r) \/ confirm_knowledge(r)
             \/ cancel(r) \/ Expire(r) \/ WriteConfirmed(r) \/ WriteCancelled(r)
             \/ Apply(r) \/ Answer(r)
      PROVE  DialogInv'
  BY <1>3, PreviewKeeps, CheckKeeps, ConfirmKnowledgeKeeps, ExpireKeeps, WriteKeeps,
     ApplyKeeps, AnswerKeeps
<1>4. ASSUME NEW s \in Session, Ages(s) PROVE DialogInv'
  BY <1>4, AgesKeeps
<1>5. CASE RestartBot BY <1>5, RestartBotKeeps
<1>6. Administrator \in Author BY DialogRows
<1> QED BY <1>1, <1>2, <1>3, <1>4, <1>5, <1>6 DEF DialogNext, DialogStep

LEMMA DialogStutters == ASSUME DialogInv, UNCHANGED dialogVars PROVE DialogInv'
<1>1. UNCHANGED <<dialog, session, remembered, request, dialogLog>> BY DEF dialogVars
<1> QED BY <1>1
        DEF DialogInv, DialogTypeOK, SessionsInARow, NumbersInARow, OfProposals, NewestPending,
            DueAlone, AppliesAlone, StillTrue, Consistent, Used, TakenNumbers

\* Sessions and version numbers are given in a row; requests are about proposals
\* that exist; and while no two requests overlap between check and write, what a
\* request checked still holds when it writes.
THEOREM DialogInvariant == DialogSpec => []DialogInv
BY InitDialog, DialogMoves, DialogStutters, PTL DEF DialogSpec

\* A proposal is applied at most once and never after it was cancelled, and every
\* published version has its own number, unless two requests for it overlap: the
\* service_dialog, admin_nl and nl_ops repositories of the api, for any number of
\* authors, requests and proposals.
THEOREM AppliedOnce == DialogSpec => []AppliedOnceUnlessTheyOverlap
<1>1. ASSUME DialogInv PROVE AppliedOnceUnlessTheyOverlap
  <2> SUFFICES ASSUME NEW s \in Session \ dialogLog.overlapped
               PROVE  /\ dialogLog.applied[s] <= 1
                      /\ dialogLog.applied[s] = 1 => session[s].status = "confirmed"
                      /\ s \in dialogLog.told => dialogLog.applied[s] = 0
                      /\ Cardinality(dialogLog.numbers[s]) <= 1
                      /\ \A t \in Session \ (dialogLog.overlapped \cup {s}) :
                           dialogLog.numbers[s] \cap dialogLog.numbers[t] = {}
    BY DEF AppliedOnceUnlessTheyOverlap
  <2>1. Consistent(s) /\ dialogLog.applied[s] \in Nat
    BY <1>1 DEF DialogInv, DialogTypeOK, DialogLog
  <2>2. dialogLog.applied[s] = 0 \/ dialogLog.applied[s] = 1 BY <2>1 DEF Consistent
  <2>3. Cardinality(dialogLog.numbers[s]) <= 1
    <3>1. CASE dialogLog.numbers[s] = {} BY <3>1, FS_EmptySet
    <3>2. CASE dialogLog.numbers[s] # {}
      <4>1. PICK n : dialogLog.numbers[s] = {n} BY <2>1, <3>2 DEF Consistent
      <4> QED BY <4>1, FS_Singleton
    <3> QED BY <3>1, <3>2
  <2> QED BY <2>1, <2>2, <2>3 DEF Consistent
<1> QED BY <1>1, DialogInvariant, PTL

\* A step that begins or ends the work on another request leaves this one alone.
LEMMA OthersLeaveAlone ==
  ASSUME DialogInv, NEW r \in Request, request[r].pc = "read", NEW p \in Request,
         \/ \E does, pc, a, s, t : Starts(p, does, pc, a, s, t)
         \/ UNCHANGED request
         \/ p # r /\ \E q : request' = [request EXCEPT ![p] = q]
         \/ request[p].pc # "read" /\ \E q : request' = [request EXCEPT ![p] = q]
  PROVE  request'[r].pc = "read"
<1>1. request \in [Request -> RequestRow] BY DEF DialogInv, DialogTypeOK
<1>2. CASE \E does, pc, a, s, t : Starts(p, does, pc, a, s, t)
  <2>1. request[p].pc = "idle" /\ \E q : request' = [request EXCEPT ![p] = q]
    BY <1>2 DEF Starts
  <2> QED BY <1>1, <2>1
<1> QED BY <1>1, <1>2

\* Only the checks of the api let a confirmation pass.
LEMMA OnlyChecksDecide ==
  ASSUME DialogInv, DialogNext, NEW r \in Request, request[r].pc = "read",
         request[r].does = "confirm", request'[r].pc = "write"
  PROVE  consume(r) \/ confirm_admin(r) \/ confirm_knowledge(r)
<1>1. ASSUME NEW p \in Request, NEW a \in Author, NEW understood \in BOOLEAN,
             \/ propose(p, a, understood) \/ propose_admin(p, understood)
             \/ propose_knowledge(p, understood)
      PROVE  FALSE
  <2>1. UNCHANGED request \/ \E does, pc, b, s, t : Starts(p, does, pc, b, s, t)
    BY <1>1 DEF propose, propose_admin, propose_knowledge
  <2> QED BY <2>1, OthersLeaveAlone
<1>2. ASSUME NEW p \in Request,
             \/ \E a \in Author : \/ SayYes(p, a) \/ SayNo(p, a)
                                  \/ \E t \in Session : PresentToken(p, a, t)
             \/ AdminConfirms(p) \/ AdminCancels(p)
             \/ \E s \in Session : \/ cancel_nl_op(p, s)
                                   \/ \E t \in Session : confirm_nl_op(p, s, t)
      PROVE  FALSE
  <2>1. ASSUME NEW does, NEW a, NEW explicit, Lookup(p, does, a, explicit)
        PROVE  \E d, pc, b, s, t : Starts(p, d, pc, b, s, t)
    BY <2>1 DEF Lookup
  <2>2. \E does, pc, a, s, t : Starts(p, does, pc, a, s, t)
    BY <1>2, <2>1 DEF SayYes, SayNo, PresentToken, AdminConfirms, AdminCancels,
                      confirm_nl_op, cancel_nl_op
  <2> QED BY <2>2, OthersLeaveAlone
<1>3. ASSUME NEW p \in Request,
             Preview(p) \/ Expire(p) \/ WriteConfirmed(p) \/ WriteCancelled(p)
               \/ Apply(p) \/ Answer(p)
      PROVE  FALSE
  <2>1. request[p].pc # "read" /\ \E q : request' = [request EXCEPT ![p] = q]
    BY <1>3 DEF Preview, Expire, WriteConfirmed, WriteCancelled, Apply, Answer, Ends, Goes
  <2> QED BY <2>1, OthersLeaveAlone
<1>4. ASSUME NEW p \in Request, consume(p) \/ confirm_admin(p) \/ confirm_knowledge(p) \/ cancel(p)
      PROVE  p = r /\ ~cancel(p)
  <2>1. \E q : request' = [request EXCEPT ![p] = q]
    BY <1>4 DEF consume, confirm_admin, confirm_knowledge, cancel, Decides, Refuses, Goes
  <2>2. p = r BY <2>1, OthersLeaveAlone
  <2> QED BY <2>2 DEF cancel
<1>5. ASSUME NEW s \in Session, Ages(s) PROVE FALSE
  BY <1>5, OthersLeaveAlone DEF Ages
<1>6. CASE RestartBot BY <1>6 DEF RestartBot
<1>7. Administrator \in Author BY DialogRows
<1> QED BY <1>1, <1>2, <1>3, <1>4, <1>5, <1>6, <1>7 DEF DialogNext, DialogStep

\* No token but that of the proposal itself lets a confirmation pass, and in the
\* services dialog it is the newest one that the author was shown: consume of
\* services_dialog/session_repository.py and the confirmations of admin_nl and
\* nl_ops.
THEOREM OnlyTheShown == DialogSpec => ConfirmsWhatWasShown
<1>1. ASSUME DialogInv, DialogNext, NEW r \in Request, request[r].pc = "read",
             request[r].does = "confirm", request'[r].pc = "write"
      PROVE  LET s == request[r].session IN
             /\ request[r].token = s
             /\ dialog = "services" =>
                  /\ session[s].owner = request[r].author
                  /\ \A t \in Session : session[t].owner = request[r].author /\ t > s =>
                       session[t].status = "clarify"
  <2> DEFINE s == request[r].session
  <2>1. request \in [Request -> RequestRow] /\ s \in Session
    BY <1>1 DEF DialogInv, DialogTypeOK, OfProposals, Used
  <2>2. request' # [request EXCEPT ![r].pc = "answer"] /\ request' # [request EXCEPT ![r].pc = "expire"]
    <3>1. request[r] \in RequestRow BY <2>1
    <3>2. ASSUME NEW pc, request' = [request EXCEPT ![r].pc = pc] PROVE request'[r].pc = pc
      BY <2>1, <3>1, <3>2 DEF RequestRow
    <3> QED BY <1>1, <3>2
  <2>3. consume(r) \/ confirm_admin(r) \/ confirm_knowledge(r) BY <1>1, OnlyChecksDecide
  <2>4. /\ TokenFits(r) /\ session[s].status = "pending"
        /\ dialog = "services" => session[s].owner = request[r].author
    BY <2>2, <2>3 DEF consume, confirm_admin, confirm_knowledge, Decides, Refuses, Goes
  <2> QED BY <1>1, <2>1, <2>4 DEF TokenFits, DialogInv, NewestPending
<1>2. ASSUME DialogInv, [DialogNext]_dialogVars
      PROVE  [\A r \in Request :
                request[r].pc = "read" /\ request[r].does = "confirm" /\ request'[r].pc = "write" =>
                  LET s == request[r].session IN
                  /\ request[r].token = s
                  /\ dialog = "services" =>
                       /\ session[s].owner = request[r].author
                       /\ \A t \in Session : session[t].owner = request[r].author /\ t > s =>
                            session[t].status = "clarify"]_dialogVars
  BY <1>1, <1>2
<1> QED BY <1>2, DialogInvariant, PTL DEF DialogSpec, ConfirmsWhatWasShown
=============================================================================
