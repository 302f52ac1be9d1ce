------------------------------- MODULE Museum -------------------------------
(***************************************************************************)
(* The museum (src/museum): visitors, entrance doors, the exit door, the   *)
(* guide with its timer and the administrator are processes that share a   *)
(* count of free places, a count of people who wait for a tour and an      *)
(* "open" flag, and exchange messages.  A queue is the set of its messages *)
(* with their senders: no process sends one twice, and taking them in any  *)
(* order includes the order of arrival.                                    *)
(***************************************************************************)
EXTENDS Integers, FiniteSets

CONSTANTS
  Persons,            \* bound: visitors that come
  Door,               \* entrance doors (ENTRANCE_DOORS of them)
  Exit, Tour,         \* the other two pairs of queues
  Nobody,             \* where no visitor, or door, matters
  MUSEUM_CAP, TOUR_CAP,
  MaxStarts           \* bound: value of the semaphore that starts a tour

VARIABLES
  cap, capSem, open,  \* shared memory of the doors, and its semaphore
  count, countSem,    \* people who wait for a tour, and its semaphore
  startSem,           \* MUSEUM_TOUR_START_SEM
  req,                \* req[q]: people whose request is in queue q
  resp,               \* resp[q]: answers in queue q, <<person, type>>
  ppc, where,         \* visitors: what they do next, the door they chose
  dpc, dmsg,          \* entrance doors: next step, whose request
  gpc                 \* guide: next step

doorPart == <<cap, capSem, dpc, dmsg>>
tourPart == <<count, countSem, startSem, gpc>>
personPart == <<ppc, where>>
vars == <<doorPart, tourPart, personPart, open, req, resp>>

Person == 1..Persons  \* visitors, which stand for their pids
Queue == Door \cup {Exit, Tour}

ASSUME MuseumAssumption ==
  /\ Persons \in Nat
  /\ Exit \notin Door /\ Tour \notin Door /\ Exit # Tour
  /\ Nobody \notin Person \cup Door
  /\ MUSEUM_CAP \in Nat /\ TOUR_CAP \in Nat \ {0} /\ MaxStarts \in Nat \ {0}

\* create_museum, create_tour and the processes main starts.
Init ==
  /\ cap = MUSEUM_CAP /\ capSem = 1 /\ open = TRUE
  /\ count = 0 /\ countSem = 1 /\ startSem = 0
  /\ req = [q \in Queue |-> {}] /\ resp = [q \in Queue |-> {}]
  /\ ppc = [p \in Person |-> "outside"]
  /\ where = [p \in Person |-> Nobody]
  /\ dpc = [d \in Door |-> "idle"]
  /\ dmsg = [d \in Door |-> Nobody]
  /\ gpc = "resting"

-----------------------------------------------------------------------------
(* Entrance doors (entranceDoor.c).                                        *)

\* Variant: the door does not wait for the semaphore.
NoWait == TRUE

\* p(cap_sem) returns.
CapFree == capSem = 1

\* A request is taken; then p(cap_sem) and the test of the places and the flag.
\* That the door has taken it and waits for the semaphore is seen by nobody.
DoorCheck(d) ==
  /\ dpc[d] = "idle" /\ CapFree
  /\ \E p \in req[d] :
       /\ req' = [req EXCEPT ![d] = @ \ {p}]
       /\ dmsg' = [dmsg EXCEPT ![d] = p]
  /\ capSem' = 0
  /\ dpc' = [dpc EXCEPT ![d] = IF cap > 0 /\ open THEN "admit" ELSE "reject"]
  /\ UNCHANGED <<cap, tourPart, personPart, open, resp>>

\* The answer is sent after v(cap_sem).
DoorAnswer(d) ==
  /\ \/ /\ dpc[d] = "admit"
        /\ cap' = cap - 1
        /\ resp' = [resp EXCEPT ![d] = @ \cup {<<dmsg[d], "ACCEPT">>}]
     \/ /\ dpc[d] = "reject"
        /\ resp' = [resp EXCEPT ![d] = @ \cup {<<dmsg[d], "REJECT">>}]
        /\ UNCHANGED cap
  /\ capSem' = 1
  /\ dpc' = [dpc EXCEPT ![d] = "idle"]
  /\ dmsg' = [dmsg EXCEPT ![d] = Nobody]
  /\ UNCHANGED <<tourPart, personPart, open, req>>

EntranceDoor(d) == DoorCheck(d) \/ DoorAnswer(d)

(* The exit door (exitDoor.c).                                             *)

ExitDoor ==
  /\ CapFree
  /\ \E p \in req[Exit] :
       /\ req' = [req EXCEPT ![Exit] = @ \ {p}]
       /\ resp' = [resp EXCEPT ![Exit] = @ \cup {<<p, "ACCEPT">>}]
  /\ cap' = cap + 1
  /\ UNCHANGED <<capSem, dpc, dmsg, tourPart, personPart, open>>

(* The administrator (admin.c), who uses no semaphore.                     *)

Admin ==
  /\ open' = ~open
  /\ UNCHANGED <<doorPart, tourPart, personPart, req, resp>>

-----------------------------------------------------------------------------
(* Visitors (personGen.c, person.c, museumApi.h).                          *)

\* The next person chooses a door and asks to enter.
Arrive(p) ==
  /\ ppc[p] = "outside" /\ \A q \in 1..p - 1 : ppc[q] # "outside"
  /\ \E d \in Door :
       /\ where' = [where EXCEPT ![p] = d]
       /\ req' = [req EXCEPT ![d] = @ \cup {p}]
  /\ ppc' = [ppc EXCEPT ![p] = "entering"]
  /\ UNCHANGED <<doorPart, tourPart, open, resp>>

EnterOrNot(p) ==
  /\ ppc[p] = "entering"
  /\ \/ /\ <<p, "ACCEPT">> \in resp[where[p]]
        /\ \E next \in {"exploring", "joining"} : ppc' = [ppc EXCEPT ![p] = next]
        /\ resp' = [resp EXCEPT ![where[p]] = @ \ {<<p, "ACCEPT">>}]
     \/ /\ <<p, "REJECT">> \in resp[where[p]]
        /\ ppc' = [ppc EXCEPT ![p] = "gone"]
        /\ resp' = [resp EXCEPT ![where[p]] = @ \ {<<p, "REJECT">>}]
  /\ where' = [where EXCEPT ![p] = Nobody]
  /\ UNCHANGED <<doorPart, tourPart, open, req>>

\* p(tour_count_sem) returns.
CountFree == countSem = 1

\* go_on_tour: p(tour_count_sem) and the test of the count.
JoinTour(p) ==
  /\ ppc[p] = "joining" /\ CountFree
  /\ countSem' = 0
  /\ ppc' = [ppc EXCEPT ![p] = IF count < TOUR_CAP THEN "registering" ELSE "turned_away"]
  /\ UNCHANGED <<doorPart, count, startSem, gpc, where, open, req, resp>>

\* Variant: the count is compared before it grows.
RegisterLate(p) ==
  /\ ppc[p] = "registering"
  /\ count' = count + 1
  /\ req' = [req EXCEPT ![Tour] = @ \cup {p}]
  /\ startSem' = IF count = TOUR_CAP THEN startSem + 1 ELSE startSem
  /\ countSem' = 1
  /\ ppc' = [ppc EXCEPT ![p] = "waiting"]
  /\ UNCHANGED <<doorPart, gpc, where, open, resp>>

\* The last one who fits starts the tour.
Register(p) ==
  /\ ppc[p] = "registering"
  /\ count' = count + 1
  /\ req' = [req EXCEPT ![Tour] = @ \cup {p}]
  /\ startSem' = IF count + 1 = TOUR_CAP THEN startSem + 1 ELSE startSem
  /\ countSem' = 1
  /\ ppc' = [ppc EXCEPT ![p] = "waiting"]
  /\ UNCHANGED <<doorPart, gpc, where, open, resp>>

TurnedAway(p) ==
  /\ ppc[p] = "turned_away"
  /\ countSem' = 1
  /\ ppc' = [ppc EXCEPT ![p] = "exploring"]
  /\ UNCHANGED <<doorPart, count, startSem, gpc, where, open, req, resp>>

StartTour(p) ==
  /\ ppc[p] = "waiting" /\ <<p, "TOUR_START">> \in resp[Tour]
  /\ resp' = [resp EXCEPT ![Tour] = @ \ {<<p, "TOUR_START">>}]
  /\ ppc' = [ppc EXCEPT ![p] = "exploring"]
  /\ UNCHANGED <<doorPart, tourPart, where, open, req>>

\* The time in the museum, or on tour, is over.
AskToLeave(p) ==
  /\ ppc[p] = "exploring"
  /\ req' = [req EXCEPT ![Exit] = @ \cup {p}]
  /\ ppc' = [ppc EXCEPT ![p] = "leaving"]
  /\ UNCHANGED <<doorPart, tourPart, where, open, resp>>

Leave(p) ==
  /\ ppc[p] = "leaving" /\ <<p, "ACCEPT">> \in resp[Exit]
  /\ resp' = [resp EXCEPT ![Exit] = @ \ {<<p, "ACCEPT">>}]
  /\ ppc' = [ppc EXCEPT ![p] = "gone"]
  /\ UNCHANGED <<doorPart, tourPart, where, open, req>>

Visit(p) ==
  \/ EnterOrNot(p) \/ JoinTour(p) \/ Register(p) \/ TurnedAway(p)
  \/ StartTour(p) \/ AskToLeave(p) \/ Leave(p)

-----------------------------------------------------------------------------
(* The guide and its timer (guide.c, timer.c).                             *)

GuideCalled ==
  /\ gpc = "resting" /\ startSem > 0
  /\ startSem' = startSem - 1
  /\ gpc' = "called"
  /\ UNCHANGED <<doorPart, count, countSem, personPart, open, req, resp>>

\* p(tour_count_sem) and the number of people of the tour; without any, the
\* semaphore is given back.
GuideStarts ==
  /\ gpc = "called" /\ CountFree
  /\ countSem' = IF count = 0 THEN 1 ELSE 0
  /\ gpc' = IF count = 0 THEN "resting" ELSE "leading"
  /\ UNCHANGED <<doorPart, count, startSem, personPart, open, req, resp>>

\* Variant: the request stays in the queue.
GuidePeeks ==
  /\ gpc = "leading"
  /\ \E p \in req[Tour] : resp' = [resp EXCEPT ![Tour] = @ \cup {<<p, "TOUR_START">>}]
  /\ count' = count - 1
  /\ UNCHANGED <<doorPart, countSem, startSem, gpc, personPart, open, req>>

\* One turn of the loop over the people of the tour.  Its counter stays 0, so
\* that the loop, and the hold on the semaphore, do not end.
GuideLeads ==
  /\ gpc = "leading"
  /\ \E p \in req[Tour] :
       /\ req' = [req EXCEPT ![Tour] = @ \ {p}]
       /\ resp' = [resp EXCEPT ![Tour] = @ \cup {<<p, "TOUR_START">>}]
  /\ count' = count - 1
  /\ UNCHANGED <<doorPart, countSem, startSem, gpc, personPart, open>>

Guide == GuideCalled \/ GuideStarts \/ GuideLeads

\* Variant: the timer leaves a tour that is not full alone.
TourIsFull == count = TOUR_CAP

\* What the timer looks for.
SomebodyWaits == count > 0

\* TOUR_WAIT_TIME is over.
Timer ==
  /\ CountFree /\ SomebodyWaits /\ startSem < MaxStarts
  /\ startSem' = startSem + 1
  /\ UNCHANGED <<doorPart, count, countSem, gpc, personPart, open, req, resp>>

-----------------------------------------------------------------------------
Next ==
  \/ \E d \in Door : EntranceDoor(d)
  \/ ExitDoor \/ Guide \/ Timer \/ Admin
  \/ \E p \in Person : Arrive(p) \/ Visit(p)

Spec == Init /\ [][Next]_vars

\* The processes run when they can; sleeps and visits are finite.  Nobody has
\* to come, and the administrator has nothing to do.
FairSpec ==
  /\ Spec
  /\ \A d \in Door : WF_vars(EntranceDoor(d))
  /\ WF_vars(ExitDoor) /\ WF_vars(Guide) /\ WF_vars(Timer)
  /\ \A p \in Person : WF_vars(Visit(p))

-----------------------------------------------------------------------------
(* Properties.                                                             *)

DoorStep == {"idle", "admit", "reject"}
Step == {"outside", "entering", "exploring", "joining", "registering",
         "turned_away", "waiting", "leaving", "gone"}
Answers == {"ACCEPT", "REJECT", "TOUR_START"}

TypeOK ==
  /\ cap \in Int /\ capSem \in {0, 1} /\ open \in BOOLEAN
  /\ count \in Nat /\ countSem \in {0, 1} /\ startSem \in Nat
  /\ req \in [Queue -> SUBSET Person]
  /\ resp \in [Queue -> SUBSET (Person \X Answers)]
  /\ ppc \in [Person -> Step] /\ where \in [Person -> Door \cup {Nobody}]
  /\ dpc \in [Door -> DoorStep] /\ dmsg \in [Door -> Person \cup {Nobody}]
  /\ gpc \in {"resting", "called", "leading"}

InMuseum ==
  {p \in Person :
     ppc[p] \in {"exploring", "joining", "registering", "turned_away", "waiting"}}

\* However the doors interleave, there are never more people inside than
\* MUSEUM_CAP, and the count of free places is never negative
\* (entranceDoor.c:76-86, exitDoor.c:65-71).
NotOvercrowded == cap >= 0 /\ Cardinality(InMuseum) + cap <= MUSEUM_CAP

\* A tour takes TOUR_CAP people at most, and the count of those who wait is the
\* number of requests that the guide will find (museumApi.h:46-59): with one
\* request too few it would wait for ever, with one too many somebody is lost.
TourMatchesQueue ==
  /\ count = Cardinality(req[Tour])
  /\ count <= TOUR_CAP

\* A full tour is announced, or the guide is on its way (museumApi.h:55-57):
\* nobody who waits depends on the timer then.
FullTourStarts == count = TOUR_CAP => startSem > 0 \/ gpc # "resting"

\* Everybody who waits for a tour is in the guide's queue or has been called
\* (guide.c:84-95), and nobody else is called: answers go by pid alone.
CalledOnce ==
  \A p \in Person :
    /\ ppc[p] = "waiting" <=> (p \in req[Tour] \/ <<p, "TOUR_START">> \in resp[Tour])
    /\ p \in req[Tour] => <<p, "TOUR_START">> \notin resp[Tour]

-----------------------------------------------------------------------------
(* The inductive invariant.                                                *)

Answered(p, d) == <<p, "ACCEPT">> \in resp[d] \/ <<p, "REJECT">> \in resp[d]
Released(p) == <<p, "ACCEPT">> \in resp[Exit]

\* Who occupies a place: from the answer of the door to that of the exit.
Admitted == {p \in Person : ppc[p] = "entering" /\ <<p, "ACCEPT">> \in resp[where[p]]}
NotReleased == {p \in Person : ppc[p] = "leaving" /\ ~Released(p)}
Inside == Admitted \cup InMuseum \cup NotReleased

\* The semaphore lets one door decide at a time.
OneDoorDecides ==
  /\ capSem = 1 => \A d \in Door : dpc[d] = "idle"
  /\ \A d, e \in Door : dpc[d] # "idle" /\ dpc[e] # "idle" => d = e

\* A person's request is in one place, and there is no answer before it is left.
AsksAt(p, d) == ppc[p] = "entering" /\ where[p] = d /\ ~Answered(p, d)

DoorHoldsAskers(d) ==
  /\ \A p \in req[d] : AsksAt(p, d)
  /\ dpc[d] # "idle" => dmsg[d] \in Person \ req[d] /\ AsksAt(dmsg[d], d)
  /\ \A p \in Person : Answered(p, d) => ppc[p] = "entering" /\ where[p] = d
  /\ \A p \in Person : <<p, "ACCEPT">> \notin resp[d] \/ <<p, "REJECT">> \notin resp[d]

DoorsHoldAskers ==
  /\ \A p \in Person : ppc[p] = "entering" => where[p] \in Door
  /\ \A d \in Door : DoorHoldsAskers(d)

ExitHoldsLeavers ==
  /\ \A p \in req[Exit] : ppc[p] = "leaving" /\ ~Released(p)
  /\ \A p \in Person : Released(p) => ppc[p] = "leaving"

PlacesCounted ==
  /\ cap + Cardinality(Inside) = MUSEUM_CAP
  /\ cap >= 0
  /\ \A d \in Door : dpc[d] = "admit" => cap > 0

\* The semaphore of the count is held by one visitor, or by the guide.
OneRegisters ==
  /\ \A p \in Person : ppc[p] \in {"registering", "turned_away"} =>
       /\ countSem = 0 /\ gpc # "leading"
       /\ \A q \in Person : ppc[q] \in {"registering", "turned_away"} => q = p
       /\ ppc[p] = "registering" => count < TOUR_CAP
  /\ gpc = "leading" => countSem = 0

MuseumInv ==
  /\ TypeOK /\ OneDoorDecides /\ DoorsHoldAskers /\ ExitHoldsLeavers /\ PlacesCounted
  /\ OneRegisters /\ TourMatchesQueue /\ FullTourStarts /\ CalledOnce

-----------------------------------------------------------------------------
\* Everybody at the doors, inside and on a tour leaves at last, also when the
\* tour does not fill up (timer.c:43-57); but who waits to register for a tour
\* may wait for ever, since the guide does not free the semaphore.
LeavesUnlessJoining ==
  \A p \in Person :
    ppc[p] \notin {"outside", "joining"} ~> ppc[p] \in {"gone", "joining"}
=============================================================================
