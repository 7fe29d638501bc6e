-------------------------- MODULE ServiceCatalogue --------------------------
(* The two lists of services of one project: project_services, which the     *)
(* calendar schedules, and the services table, which the sales persona sells. *)
(* Operators change both by slash commands, by free text and by the confirmed *)
(* dialog; a command that needs the list asks the api for it first and then   *)
(* sends its change in a second call. Names are compared after folding, so    *)
(* that a name here is one of its spellings.                                  *)
EXTENDS Integers, FiniteSets

CONSTANTS Job,       \* commands in flight
          Name,      \* names of services
          MaxRow,    \* bound: rows of project_services at a time
          MaxOffer   \* bound: services ever offered

\* No service and no command is called "none", which marks an absent one.
ASSUME CatalogueBounds ==
  /\ MaxRow \in Nat \ {0} /\ MaxOffer \in Nat \ {0}
  /\ "none" \notin Name \cup Job

VARIABLES catalogue, \* project_services: rowid -> row
          offers,    \* services: id -> row, deactivated rows included
          nameLock,  \* acquire_service_upsert_lock: name -> holder
          job

catalogueVars == <<catalogue, offers, nameLock, job>>

\* A field is unset (0) or set: the text fields together, and duration, days
\* and hours together.
Field == {0, 1}
NoService == [name |-> "none", info |-> 0, plan |-> 0]
NoOffer == [name |-> "none", active |-> FALSE]
NoJob == [pc |-> "idle", does |-> "none", name |-> "none", id |-> 0,
          seen |-> NoService, plan |-> 0]

CatalogueInit ==
  /\ catalogue = [i \in 1..MaxRow |-> NoService]
  /\ offers = [o \in 1..MaxOffer |-> NoOffer]
  /\ nameLock = [n \in Name |-> "none"]
  /\ job = [j \in Job |-> NoJob]

Rows(n) == {i \in 1..MaxRow : catalogue[i].name = n}
Offered(n) == {o \in 1..MaxOffer : offers[o].name = n /\ offers[o].active}
Largest(S) == IF S = {} THEN 0 ELSE CHOOSE x \in S : \A y \in S : y <= x

\* project_services has no AUTOINCREMENT: the id after the largest one present.
FreeRow == Largest({i \in 1..MaxRow : catalogue[i] # NoService}) + 1

\* services has: the id after the largest one ever given.
FreeOffer_reusing == Cardinality({o \in 1..MaxOffer : offers[o].active}) + 1
FreeOffer == Largest({o \in 1..MaxOffer : offers[o] # NoOffer}) + 1

JobEnds(j) == job' = [job EXCEPT ![j] = NoJob]
Begins(j, record) == job[j].pc = "idle" /\ job' = [job EXCEPT ![j] = record]

-----------------------------------------------------------------------------
(* project_services *)

\* ProjectServiceRepository.upsert: every column is written, also those the caller
\* left out.
upsert_service(n, info, plan) ==
  LET row == [name |-> n, info |-> info, plan |-> plan] IN
  IF Rows(n) # {}
    THEN catalogue' = [i \in 1..MaxRow |-> IF i \in Rows(n) THEN row ELSE catalogue[i]]
    ELSE FreeRow <= MaxRow /\ catalogue' = [catalogue EXCEPT ![FreeRow] = row]

\* The endpoint writes while it holds the lock of the name.
api_project_services_upsert(n, info, plan) ==
  nameLock[n] = "none" /\ upsert_service(n, info, plan)

\* "/service add" and "/service edit"; a confirmed proposal to add or to edit
\* writes its payload in the same way.
do_new_service_upsert(n, info, plan) ==
  /\ api_project_services_upsert(n, info, plan)
  /\ UNCHANGED <<offers, nameLock, job>>

\* The deprecated "/calendar service add" inserts without the lock; a name that
\* is taken violates the index and changes nothing.
upsert_service_rule(n, plan) ==
  /\ Rows(n) = {} /\ FreeRow <= MaxRow
  /\ catalogue' = [catalogue EXCEPT ![FreeRow] = [name |-> n, info |-> 0, plan |-> plan]]
  /\ UNCHANGED <<offers, nameLock, job>>

\* "/calendar service remove" deletes by id, without the lock.
delete_service_rule(i) ==
  /\ catalogue[i] # NoService
  /\ catalogue' = [catalogue EXCEPT ![i] = NoService]
  /\ UNCHANGED <<offers, nameLock, job>>

\* "/service remove": the id of the name in the list, then the call with it.
do_new_service_remove(j, n) ==
  /\ \E i \in Rows(n) :
       Begins(j, [NoJob EXCEPT !.pc = "get", !.does = "remove", !.name = n, !.id = i])
  /\ UNCHANGED <<catalogue, offers, nameLock>>

\* The api looks the row up, for its name and its lock, and deletes it.
api_project_services_delete(j) ==
  /\ job[j].does = "remove"
  /\ \/ /\ job[j].pc = "get"
        /\ LET row == catalogue[job[j].id] IN
           IF row = NoService THEN JobEnds(j)
           ELSE job' = [job EXCEPT ![j].pc = "delete", ![j].seen = row]
        /\ UNCHANGED <<catalogue, offers, nameLock>>
     \/ /\ job[j].pc = "delete" /\ nameLock[job[j].seen.name] = "none"
        /\ catalogue' = [catalogue EXCEPT ![job[j].id] = NoService]
        /\ JobEnds(j)
        /\ UNCHANGED <<offers, nameLock>>

\* A confirmed removal finds the row and deletes it while it holds the lock.
apply_remove(j, n) ==
  \/ /\ nameLock[n] = "none" /\ Rows(n) # {}
     /\ \E i \in Rows(n) :
          Begins(j, [NoJob EXCEPT !.pc = "delete", !.does = "confirmed", !.name = n, !.id = i])
     /\ nameLock' = [nameLock EXCEPT ![n] = j]
     /\ UNCHANGED <<catalogue, offers>>
  \/ /\ job[j].pc = "delete" /\ job[j].does = "confirmed" /\ job[j].name = n
     /\ catalogue' = [catalogue EXCEPT ![job[j].id] = NoService]
     /\ nameLock' = [nameLock EXCEPT ![n] = "none"]
     /\ JobEnds(j)
     /\ UNCHANGED offers

\* Working hours in free text: the row of the name, if the list has one.
ListForSchedule(j, n, plan) ==
  /\ LET seen == IF Rows(n) = {} THEN NoService
                 ELSE catalogue[CHOOSE i \in Rows(n) : TRUE] IN
     Begins(j, [NoJob EXCEPT !.pc = "write", !.does = "schedule", !.name = n,
                             !.plan = plan, !.seen = seen])
  /\ UNCHANGED <<catalogue, offers, nameLock>>

\* The other fields are sent back as they were listed.
handle_schedule(j) ==
  /\ job[j].pc = "write" /\ job[j].does = "schedule"
  /\ api_project_services_upsert(job[j].name, job[j].seen.info, job[j].plan)
  /\ JobEnds(j)
  /\ UNCHANGED <<offers, nameLock>>

\* The model has read a file of the knowledge base: a service that it names is
\* added if the name is free.
extract_services(j, n) ==
  /\ Rows(n) = {}
  /\ Begins(j, [NoJob EXCEPT !.pc = "extracted", !.does = "extract", !.name = n])
  /\ UNCHANGED <<catalogue, offers, nameLock>>

\* It is written without the lock, over a row that came in between.
add_extracted(j) ==
  /\ job[j].pc = "extracted"
  /\ upsert_service(job[j].name, 1, 0)
  /\ JobEnds(j)
  /\ UNCHANGED <<offers, nameLock>>

-----------------------------------------------------------------------------
(* services: what the sales persona offers *)

AddOffer(n) ==
  /\ Offered(n) = {} /\ FreeOffer <= MaxOffer
  /\ offers' = [offers EXCEPT ![FreeOffer] = [name |-> n, active |-> TRUE]]

\* A name that is on offer is refused.
add_sales_service(n) ==
  /\ AddOffer(n)
  /\ UNCHANGED <<catalogue, nameLock, job>>

\* "/service_remove" names the id.
remove_sales_service(o) ==
  /\ offers[o].active
  /\ offers' = [offers EXCEPT ![o].active = FALSE]
  /\ UNCHANGED <<catalogue, nameLock, job>>

\* Free text to remove or to describe a service takes the id from the list.
ListOffers(j, does, n) ==
  /\ \E o \in Offered(n) :
       Begins(j, [NoJob EXCEPT !.pc = "retire", !.does = does, !.name = n, !.id = o])
  /\ UNCHANGED <<catalogue, offers, nameLock>>

\* An id that is not active any more ends the command.
soft_delete(j) ==
  /\ job[j].pc = "retire"
  /\ IF offers[job[j].id].active
       THEN /\ offers' = [offers EXCEPT ![job[j].id].active = FALSE]
            /\ IF job[j].does = "describe"
                 THEN job' = [job EXCEPT ![j].pc = "readd"] ELSE JobEnds(j)
       ELSE JobEnds(j) /\ UNCHANGED offers
  /\ UNCHANGED <<catalogue, nameLock>>

\* The new description is a new row; when the call fails the service is gone.
readd(j) ==
  /\ job[j].pc = "readd"
  /\ AddOffer(job[j].name) \/ UNCHANGED offers
  /\ JobEnds(j)
  /\ UNCHANGED <<catalogue, nameLock>>

ScheduledNext ==
  \/ \E n \in Name, info \in Field, plan \in Field :
       do_new_service_upsert(n, info, plan)
  \/ \E n \in Name, plan \in Field : upsert_service_rule(n, plan)
  \/ \E i \in 1..MaxRow : delete_service_rule(i)
  \/ \E j \in Job, n \in Name :
       do_new_service_remove(j, n) \/ apply_remove(j, n) \/ ListForSchedule(j, n, 1)
  \/ \E j \in Job, n \in Name : extract_services(j, n)
  \/ \E j \in Job : api_project_services_delete(j) \/ handle_schedule(j) \/ add_extracted(j)

OfferedNext ==
  \/ \E n \in Name : add_sales_service(n)
  \/ \E o \in 1..MaxOffer : remove_sales_service(o)
  \/ \E j \in Job, n \in Name, does \in {"remove_offer", "describe"} : ListOffers(j, does, n)
  \/ \E j \in Job : soft_delete(j) \/ readd(j)

CatalogueNext == ScheduledNext \/ OfferedNext

CatalogueSpec == CatalogueInit /\ [][CatalogueNext]_catalogueVars

-----------------------------------------------------------------------------
\* New working hours leave description, price and tags of the service, and
\* every other service, as they are, unless somebody changed the row after the
\* command had listed it; and a free-text command takes off the offer only a
\* service of the name it was given, however many rows came and went between
\* its list and its call.
OnlyItsServiceChanges ==
  [][\A j \in Job :
       /\ job[j].pc = "write" /\ job'[j].pc = "idle" =>
            \A i \in 1..MaxRow :
              IF catalogue[i].name = job[j].name
                THEN catalogue[i] = job[j].seen => catalogue'[i].info = catalogue[i].info
                ELSE catalogue[i] # NoService => catalogue'[i] = catalogue[i]
       /\ job[j].pc = "retire" /\ job'[j].pc # "retire" =>
            \A o \in 1..MaxOffer : offers[o].active /\ ~offers'[o].active
                                   => offers[o].name = job[j].name]_catalogueVars
=============================================================================
