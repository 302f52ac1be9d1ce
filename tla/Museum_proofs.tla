---------------------------- MODULE Museum_proofs ----------------------------
(***************************************************************************)
(* The theorems about the museum, for any number of visitors and doors and *)
(* any capacities.                                                         *)
(***************************************************************************)
EXTENDS Museum, FiniteSetTheorems, TLAPS

LEMMA PersonsFinite == IsFiniteSet(Person)
  BY FS_Interval, MuseumAssumption DEF Person

LEMMA InsideFinite ==
  /\ IsFiniteSet(Inside) /\ Cardinality(Inside) \in Nat
  /\ IsFiniteSet(Inside') /\ Cardinality(Inside') \in Nat
<1>1. Inside \subseteq Person /\ Inside' \subseteq Person
  BY DEF Inside, Admitted, InMuseum, NotReleased
<1> QED
  BY <1>1, PersonsFinite, FS_Subset, FS_CardinalityType

LEMMA DoorCheckKeeps ==
  ASSUME NEW d \in Door, MuseumInv, DoorCheck(d)
  PROVE  MuseumInv'
<1>1. TypeOK'
  BY MuseumAssumption DEF DoorCheck, CapFree, doorPart, tourPart, personPart, Queue, MuseumInv, TypeOK, DoorStep, Step, Answers
<1>2. OneDoorDecides'
  BY MuseumAssumption DEF DoorCheck, CapFree, doorPart, tourPart, personPart, Queue, MuseumInv, OneDoorDecides, TypeOK, DoorStep
<1>3. DoorsHoldAskers'
  BY MuseumAssumption DEF DoorCheck, CapFree, doorPart, tourPart, personPart, Queue, MuseumInv, DoorsHoldAskers, DoorHoldsAskers, AsksAt, Answered, Answers, TypeOK, DoorStep, Step, OneDoorDecides
<1>4. ExitHoldsLeavers'
  BY MuseumAssumption DEF DoorCheck, CapFree, doorPart, tourPart, personPart, Queue, MuseumInv, ExitHoldsLeavers, Released, Answers, TypeOK, Step
<1>5. Inside' = Inside
  BY MuseumAssumption DEF DoorCheck, CapFree, doorPart, tourPart, personPart, Queue, MuseumInv, TypeOK, Step, DoorsHoldAskers, DoorHoldsAskers, ExitHoldsLeavers, AsksAt, Inside, Admitted, InMuseum, NotReleased, Answered, Released, Answers
<1>6. PlacesCounted'
  BY <1>5, MuseumAssumption DEF DoorCheck, CapFree, doorPart, tourPart, personPart, Queue, MuseumInv, TypeOK, DoorStep, PlacesCounted, OneDoorDecides
<1>7. OneRegisters'
  BY MuseumAssumption DEF DoorCheck, CapFree, doorPart, tourPart, personPart, Queue, MuseumInv, OneRegisters, TypeOK, Step
<1>8. TourMatchesQueue'
  BY MuseumAssumption DEF DoorCheck, CapFree, doorPart, tourPart, personPart, Queue, MuseumInv, TourMatchesQueue, TypeOK, OneRegisters
<1>9. FullTourStarts'
  BY MuseumAssumption DEF DoorCheck, CapFree, doorPart, tourPart, personPart, Queue, MuseumInv, FullTourStarts, TypeOK, OneRegisters
<1>10. CalledOnce'
  BY MuseumAssumption DEF DoorCheck, CapFree, doorPart, tourPart, personPart, Queue, MuseumInv, CalledOnce, TypeOK, Step, Answers
<1> QED
  BY <1>1, <1>2, <1>3, <1>4, <1>5, <1>6, <1>7, <1>8, <1>9, <1>10 DEF MuseumInv

LEMMA DoorAnswerKeeps ==
  ASSUME NEW d \in Door, MuseumInv, DoorAnswer(d)
  PROVE  MuseumInv'
<1>1. dmsg[d] \in Person \ req[d] /\ AsksAt(dmsg[d], d) /\ d \in Queue
  BY DEF DoorAnswer, MuseumInv, DoorsHoldAskers, DoorHoldsAskers, Queue
<1>2. PICK type \in {"ACCEPT", "REJECT"} :
       /\ resp' = [resp EXCEPT ![d] = @ \cup {<<dmsg[d], type>>}]
       /\ type = "ACCEPT" <=> dpc[d] = "admit"
  BY DEF DoorAnswer
<1>3. \A q \in Queue, p \in Person, t \in Answers :
       <<p, t>> \in resp'[q] <=> <<p, t>> \in resp[q] \/ (q = d /\ p = dmsg[d] /\ t = type)
  BY <1>1, <1>2 DEF MuseumInv, TypeOK, Queue
<1>4. TypeOK'
  <2>1. <<dmsg[d], type>> \in Person \X Answers
    BY <1>1, <1>2 DEF Answers
  <2>2. resp' \in [Queue -> SUBSET (Person \X Answers)]
    BY <1>1, <1>2, <2>1 DEF MuseumInv, TypeOK
  <2>3. cap' \in Int
    BY DEF DoorAnswer, MuseumInv, TypeOK
  <2> QED
    BY <2>2, <2>3 DEF DoorAnswer, tourPart, personPart, MuseumInv, TypeOK, DoorStep
<1>5. OneDoorDecides'
  BY <1>1, <1>2, <1>3, MuseumAssumption DEF DoorAnswer, doorPart, tourPart, personPart, Queue, MuseumInv, OneDoorDecides, TypeOK, DoorStep
<1>6. DoorsHoldAskers'
  <2> SUFFICES ASSUME NEW e \in Door PROVE DoorHoldsAskers(e)'
    BY DEF DoorsHoldAskers, DoorAnswer, personPart, MuseumInv
  <2>1. /\ UNCHANGED <<req, ppc, where>> /\ e \in Queue
        /\ e # d => dpc'[e] = dpc[e] /\ dmsg'[e] = dmsg[e]
        /\ dpc'[d] = "idle"
    BY DEF DoorAnswer, personPart, MuseumInv, TypeOK, Queue
  <2>2. \A p \in Person : Answered(p, e)' <=> Answered(p, e) \/ (e = d /\ p = dmsg[d])
    BY <1>2, <1>3, <2>1 DEF Answered, Answers
  <2>3. req[e] \subseteq Person
    BY <2>1 DEF MuseumInv, TypeOK
  <2>4. \A p \in Person : <<p, "ACCEPT">> \notin resp'[e] \/ <<p, "REJECT">> \notin resp'[e]
    <3>1. /\ <<dmsg[d], "ACCEPT">> \notin resp[d] /\ <<dmsg[d], "REJECT">> \notin resp[d]
      BY <1>1 DEF AsksAt, Answered, Answers
    <3> QED
      BY <1>1, <1>2, <1>3, <2>1, <3>1 DEF MuseumInv, DoorsHoldAskers, DoorHoldsAskers, Answers
  <2>5. CASE e = d
    BY <1>1, <2>1, <2>2, <2>3, <2>4, <2>5 DEF MuseumInv, DoorsHoldAskers, DoorHoldsAskers, AsksAt
  <2>6. CASE e # d
    BY <1>1, <2>1, <2>2, <2>3, <2>4, <2>6 DEF MuseumInv, DoorsHoldAskers, DoorHoldsAskers, AsksAt
  <2> QED
    BY <2>5, <2>6
<1>7. ExitHoldsLeavers'
  BY <1>1, <1>2, <1>3, MuseumAssumption DEF DoorAnswer, doorPart, tourPart, personPart, Queue, MuseumInv, ExitHoldsLeavers, Released, Answers, TypeOK, Step
<1>8. Inside' = IF dpc[d] = "admit" THEN Inside \cup {dmsg[d]} ELSE Inside
  BY <1>1, <1>2, <1>3, MuseumAssumption DEF DoorAnswer, tourPart, personPart, Queue, MuseumInv, TypeOK, Step, DoorsHoldAskers, DoorHoldsAskers, AsksAt, Inside, Admitted, InMuseum, NotReleased, Answered, Released, Answers
<1>9. PlacesCounted'
  <2>1. dmsg[d] \notin Inside
    BY <1>1 DEF Inside, Admitted, InMuseum, NotReleased, AsksAt, Answered
  <2>2. Cardinality(Inside') = IF dpc[d] = "admit" THEN Cardinality(Inside) + 1 ELSE Cardinality(Inside)
    BY <1>8, <2>1, InsideFinite, FS_AddElement
  <2> QED
    BY <2>2, InsideFinite, MuseumAssumption DEF DoorAnswer, MuseumInv, TypeOK, DoorStep, PlacesCounted, OneDoorDecides
<1>10. OneRegisters'
  BY <1>1, <1>2, <1>3, MuseumAssumption DEF DoorAnswer, doorPart, tourPart, personPart, Queue, MuseumInv, OneRegisters, TypeOK, Step
<1>11. TourMatchesQueue'
  BY <1>1, <1>2, <1>3, MuseumAssumption DEF DoorAnswer, doorPart, tourPart, personPart, Queue, MuseumInv, TourMatchesQueue, TypeOK, OneRegisters
<1>12. FullTourStarts'
  BY <1>1, <1>2, <1>3, MuseumAssumption DEF DoorAnswer, doorPart, tourPart, personPart, Queue, MuseumInv, FullTourStarts, TypeOK, OneRegisters
<1>13. CalledOnce'
  BY <1>1, <1>2, <1>3, MuseumAssumption DEF DoorAnswer, doorPart, tourPart, personPart, Queue, MuseumInv, CalledOnce, TypeOK, Step, Answers
<1> QED
  BY <1>4, <1>5, <1>6, <1>7, <1>8, <1>9, <1>10, <1>11, <1>12, <1>13 DEF MuseumInv

LEMMA ExitDoorKeeps ==
  ASSUME MuseumInv, ExitDoor
  PROVE  MuseumInv'
<1>1. PICK p \in req[Exit] :
       /\ req' = [req EXCEPT ![Exit] = @ \ {p}]
       /\ resp' = [resp EXCEPT ![Exit] = @ \cup {<<p, "ACCEPT">>}]
  BY DEF ExitDoor
<1>2. /\ p \in Person /\ Exit \in Queue
     /\ \A q \in Queue, r \in Person, type \in Answers :
          <<r, type>> \in resp'[q] <=>
            <<r, type>> \in resp[q] \/ (q = Exit /\ r = p /\ type = "ACCEPT")
  BY <1>1 DEF MuseumInv, TypeOK, Queue
<1>3. TypeOK'
  BY <1>1, <1>2, MuseumAssumption DEF ExitDoor, CapFree, doorPart, tourPart, personPart, Queue, MuseumInv, TypeOK, DoorStep, Step, Answers
<1>4. OneDoorDecides'
  BY <1>1, <1>2, MuseumAssumption DEF ExitDoor, CapFree, doorPart, tourPart, personPart, Queue, MuseumInv, OneDoorDecides, TypeOK, DoorStep
<1>5. DoorsHoldAskers'
  BY <1>1, <1>2, MuseumAssumption DEF ExitDoor, CapFree, doorPart, tourPart, personPart, Queue, MuseumInv, DoorsHoldAskers, DoorHoldsAskers, AsksAt, Answered, Answers, TypeOK, DoorStep, Step, OneDoorDecides
<1>6. ExitHoldsLeavers'
  BY <1>1, <1>2, MuseumAssumption DEF ExitDoor, CapFree, doorPart, tourPart, personPart, Queue, MuseumInv, ExitHoldsLeavers, Released, Answers, TypeOK, Step
<1>7. p \in Inside /\ Inside' = Inside \ {p}
  BY <1>1, <1>2, MuseumAssumption DEF ExitDoor, tourPart, personPart, Queue, MuseumInv, TypeOK, Step, ExitHoldsLeavers, DoorsHoldAskers, DoorHoldsAskers, Inside, Admitted, InMuseum, NotReleased, Answered, Released, Answers
<1>8. PlacesCounted'
  <2>1. Cardinality(Inside') = Cardinality(Inside) - 1
    BY <1>7, InsideFinite, FS_RemoveElement
  <2> QED
    BY <2>1, InsideFinite, MuseumAssumption DEF ExitDoor, CapFree, MuseumInv, TypeOK, DoorStep, PlacesCounted, OneDoorDecides
<1>9. OneRegisters'
  BY <1>1, <1>2, MuseumAssumption DEF ExitDoor, CapFree, doorPart, tourPart, personPart, Queue, MuseumInv, OneRegisters, TypeOK, Step
<1>10. TourMatchesQueue'
  BY <1>1, <1>2, MuseumAssumption DEF ExitDoor, CapFree, doorPart, tourPart, personPart, Queue, MuseumInv, TourMatchesQueue, TypeOK, OneRegisters
<1>11. FullTourStarts'
  BY <1>1, <1>2, MuseumAssumption DEF ExitDoor, CapFree, doorPart, tourPart, personPart, Queue, MuseumInv, FullTourStarts, TypeOK, OneRegisters
<1>12. CalledOnce'
  BY <1>1, <1>2, MuseumAssumption DEF ExitDoor, CapFree, doorPart, tourPart, personPart, Queue, MuseumInv, CalledOnce, TypeOK, Step, Answers
<1> QED
  BY <1>3, <1>4, <1>5, <1>6, <1>7, <1>8, <1>9, <1>10, <1>11, <1>12 DEF MuseumInv

LEMMA AdminKeeps ==
  ASSUME MuseumInv, Admin
  PROVE  MuseumInv'
<1>1. TypeOK'
  BY MuseumAssumption DEF Admin, doorPart, tourPart, personPart, Queue, MuseumInv, TypeOK, DoorStep, Step, Answers
<1>2. OneDoorDecides'
  BY MuseumAssumption DEF Admin, doorPart, tourPart, personPart, Queue, MuseumInv, OneDoorDecides, TypeOK, DoorStep
<1>3. DoorsHoldAskers'
  BY MuseumAssumption DEF Admin, doorPart, tourPart, personPart, Queue, MuseumInv, DoorsHoldAskers, DoorHoldsAskers, AsksAt, Answered, Answers, TypeOK, DoorStep, Step, OneDoorDecides
<1>4. ExitHoldsLeavers'
  BY MuseumAssumption DEF Admin, doorPart, tourPart, personPart, Queue, MuseumInv, ExitHoldsLeavers, Released, Answers, TypeOK, Step
<1>5. Inside' = Inside
  BY MuseumAssumption DEF Admin, doorPart, tourPart, personPart, Queue, MuseumInv, TypeOK, Step, DoorsHoldAskers, DoorHoldsAskers, ExitHoldsLeavers, AsksAt, Inside, Admitted, InMuseum, NotReleased, Answered, Released, Answers
<1>6. PlacesCounted'
  BY <1>5, MuseumAssumption DEF Admin, doorPart, tourPart, personPart, Queue, MuseumInv, TypeOK, DoorStep, PlacesCounted, OneDoorDecides
<1>7. OneRegisters'
  BY MuseumAssumption DEF Admin, doorPart, tourPart, personPart, Queue, MuseumInv, OneRegisters, TypeOK, Step
<1>8. TourMatchesQueue'
  BY MuseumAssumption DEF Admin, doorPart, tourPart, personPart, Queue, MuseumInv, TourMatchesQueue, TypeOK, OneRegisters
<1>9. FullTourStarts'
  BY MuseumAssumption DEF Admin, doorPart, tourPart, personPart, Queue, MuseumInv, FullTourStarts, TypeOK, OneRegisters
<1>10. CalledOnce'
  BY MuseumAssumption DEF Admin, doorPart, tourPart, personPart, Queue, MuseumInv, CalledOnce, TypeOK, Step, Answers
<1> QED
  BY <1>1, <1>2, <1>3, <1>4, <1>5, <1>6, <1>7, <1>8, <1>9, <1>10 DEF MuseumInv

LEMMA ArriveKeeps ==
  ASSUME NEW p \in Person, MuseumInv, Arrive(p)
  PROVE  MuseumInv'
<1>1. PICK d \in Door :
       /\ where' = [where EXCEPT ![p] = d]
       /\ req' = [req EXCEPT ![d] = @ \cup {p}]
  BY DEF Arrive
<1>2. TypeOK'
  BY <1>1, MuseumAssumption DEF Arrive, doorPart, tourPart, personPart, Queue, MuseumInv, TypeOK, DoorStep, Step, Answers
<1>3. OneDoorDecides'
  BY <1>1, MuseumAssumption DEF Arrive, doorPart, tourPart, personPart, Queue, MuseumInv, OneDoorDecides, TypeOK, DoorStep
<1>4. DoorsHoldAskers'
  <2>1. /\ ppc[p] = "outside" /\ ppc' = [ppc EXCEPT ![p] = "entering"]
        /\ UNCHANGED <<dpc, dmsg, resp>>
        /\ \A q \in Queue : req[q] \subseteq Person
    BY DEF Arrive, doorPart, MuseumInv, TypeOK
  <2>2. \A r \in Person, e \in Door : AsksAt(r, e) => r # p /\ AsksAt(r, e)'
    BY <1>1, <2>1 DEF AsksAt, Answered, MuseumInv, TypeOK
  <2>3. ppc'[p] = "entering" /\ where'[p] = d
    BY <1>1, <2>1 DEF MuseumInv, TypeOK
  <2>4. \A e \in Door : ~Answered(p, e)
    BY <2>1 DEF MuseumInv, DoorsHoldAskers, DoorHoldsAskers
  <2>5. AsksAt(p, d)'
    BY <2>1, <2>3, <2>4 DEF AsksAt, Answered
  <2>6. \A r \in Person : ppc'[r] = "entering" => where'[r] \in Door
    BY <1>1, <2>1, <2>3 DEF MuseumInv, DoorsHoldAskers, TypeOK
  <2>7. ASSUME NEW e \in Door PROVE DoorHoldsAskers(e)'
    <3>1. /\ e \in Queue /\ req'[e] \subseteq req[e] \cup (IF e = d THEN {p} ELSE {})
          /\ DoorHoldsAskers(e) /\ p \notin req[e]
      BY <1>1, <2>1, <2>2 DEF MuseumInv, TypeOK, Queue, DoorsHoldAskers, DoorHoldsAskers
    <3>2. \A r \in req'[e] : AsksAt(r, e)'
      BY <2>1, <2>2, <2>5, <3>1 DEF DoorHoldsAskers
    <3>3. dpc'[e] # "idle" => dmsg'[e] \in Person \ req'[e] /\ AsksAt(dmsg[e], e)'
      BY <2>1, <2>2, <3>1 DEF DoorHoldsAskers
    <3>4. \A r \in Person : Answered(r, e)' => ppc'[r] = "entering" /\ where'[r] = e
      BY <1>1, <2>1, <2>4, <3>1 DEF DoorHoldsAskers, Answered, MuseumInv, TypeOK
    <3> QED
      BY <2>1, <3>1, <3>2, <3>3, <3>4 DEF DoorHoldsAskers, AsksAt, Answered
  <2> QED
    BY <2>6, <2>7 DEF DoorsHoldAskers
<1>5. ExitHoldsLeavers'
  BY <1>1, MuseumAssumption DEF Arrive, doorPart, tourPart, personPart, Queue, MuseumInv, ExitHoldsLeavers, Released, Answers, TypeOK, Step
<1>6. Inside' = Inside
  BY <1>1, MuseumAssumption DEF Arrive, doorPart, tourPart, personPart, Queue, MuseumInv, TypeOK, Step, DoorsHoldAskers, DoorHoldsAskers, ExitHoldsLeavers, AsksAt, Inside, Admitted, InMuseum, NotReleased, Answered, Released, Answers
<1>7. PlacesCounted'
  BY <1>6, MuseumAssumption DEF Arrive, doorPart, tourPart, personPart, Queue, MuseumInv, TypeOK, DoorStep, PlacesCounted, OneDoorDecides
<1>8. OneRegisters'
  BY <1>1, MuseumAssumption DEF Arrive, doorPart, tourPart, personPart, Queue, MuseumInv, OneRegisters, TypeOK, Step
<1>9. TourMatchesQueue'
  BY <1>1, MuseumAssumption DEF Arrive, doorPart, tourPart, personPart, Queue, MuseumInv, TourMatchesQueue, TypeOK, OneRegisters
<1>10. FullTourStarts'
  BY <1>1, MuseumAssumption DEF Arrive, doorPart, tourPart, personPart, Queue, MuseumInv, FullTourStarts, TypeOK, OneRegisters
<1>11. CalledOnce'
  BY <1>1, MuseumAssumption DEF Arrive, doorPart, tourPart, personPart, Queue, MuseumInv, CalledOnce, TypeOK, Step, Answers
<1> QED
  BY <1>2, <1>3, <1>4, <1>5, <1>6, <1>7, <1>8, <1>9, <1>10, <1>11 DEF MuseumInv

LEMMA EnterOrNotKeeps ==
  ASSUME NEW p \in Person, MuseumInv, EnterOrNot(p)
  PROVE  MuseumInv'
<1>1. PICK type \in {"ACCEPT", "REJECT"} :
       /\ <<p, type>> \in resp[where[p]]
       /\ resp' = [resp EXCEPT ![where[p]] = @ \ {<<p, type>>}]
       /\ IF type = "ACCEPT" THEN \E next \in {"exploring", "joining"} : ppc' = [ppc EXCEPT ![p] = next]
                            ELSE ppc' = [ppc EXCEPT ![p] = "gone"]
  BY DEF EnterOrNot
<1>2. /\ where[p] \in Door /\ where[p] \in Queue
     /\ \A x \in Queue, r \in Person, t \in Answers :
          <<r, t>> \in resp'[x] <=> <<r, t>> \in resp[x] /\ ~(x = where[p] /\ r = p /\ t = type)
  BY <1>1, MuseumAssumption DEF EnterOrNot, MuseumInv, DoorsHoldAskers, TypeOK, Queue
<1>3. TypeOK'
  <2>1. resp' \in [Queue -> SUBSET (Person \X Answers)]
    BY <1>1, <1>2 DEF MuseumInv, TypeOK
  <2>2. ppc' \in [Person -> Step]
    BY <1>1 DEF MuseumInv, TypeOK, Step
  <2>3. where' \in [Person -> Door \cup {Nobody}]
    BY DEF EnterOrNot, MuseumInv, TypeOK
  <2> QED
    BY <2>1, <2>2, <2>3 DEF EnterOrNot, doorPart, tourPart, MuseumInv, TypeOK
<1>4. OneDoorDecides'
  BY <1>1, <1>2, MuseumAssumption DEF EnterOrNot, doorPart, tourPart, personPart, Queue, MuseumInv, OneDoorDecides, TypeOK, DoorStep
<1>5. DoorsHoldAskers'
  <2>1. /\ ppc[p] = "entering" /\ ppc'[p] # "entering" /\ Answered(p, where[p])
        /\ \A r \in Person : r # p => ppc'[r] = ppc[r] /\ where'[r] = where[r]
        /\ UNCHANGED <<dpc, dmsg, req>>
        /\ \A q \in Queue : req[q] \subseteq Person
    BY <1>1 DEF EnterOrNot, doorPart, MuseumInv, TypeOK, Answered
  <2>2. \A r \in Person, e \in Door : Answered(r, e)' => r # p /\ Answered(r, e)
    <3> TAKE r \in Person, e \in Door
    <3>1. e \in Queue /\ {"ACCEPT", "REJECT"} \subseteq Answers BY DEF Queue, Answers
    <3>2. Answered(r, e)' => Answered(r, e) BY <1>1, <1>2, <3>1 DEF Answered
    <3>3. Answered(p, e)' => FALSE
      BY <1>1, <1>2, <2>1, <3>1 DEF Answered, MuseumInv, DoorsHoldAskers, DoorHoldsAskers
    <3> QED BY <3>2, <3>3
  <2>3. \A r \in Person, e \in Door : AsksAt(r, e) => r # p /\ AsksAt(r, e)'
    BY <2>1, <2>2 DEF AsksAt
  <2>4. \A r \in Person : ppc'[r] = "entering" => where'[r] \in Door
    BY <2>1 DEF MuseumInv, DoorsHoldAskers
  <2>5. ASSUME NEW e \in Door PROVE DoorHoldsAskers(e)'
    <3>1. DoorHoldsAskers(e) /\ e \in Queue
      BY DEF MuseumInv, DoorsHoldAskers, Queue
    <3>2. resp'[e] \subseteq resp[e]
      BY <1>1, <1>2, <3>1 DEF MuseumInv, TypeOK
    <3> QED
      BY <2>1, <2>2, <2>3, <3>1, <3>2 DEF DoorHoldsAskers, AsksAt
  <2> QED
    BY <2>4, <2>5 DEF DoorsHoldAskers
<1>6. ExitHoldsLeavers'
  BY <1>1, <1>2, MuseumAssumption DEF EnterOrNot, doorPart, tourPart, personPart, Queue, MuseumInv, ExitHoldsLeavers, Released, Answers, TypeOK, Step
<1>7. Inside' = Inside
  <2>1. \A r \in Person : r # p =>
          /\ ppc'[r] = ppc[r] /\ where'[r] = where[r]
          /\ Released(r)' <=> Released(r)
          /\ \A q \in Queue : <<r, "ACCEPT">> \in resp'[q] <=> <<r, "ACCEPT">> \in resp[q]
    BY <1>1, <1>2 DEF EnterOrNot, MuseumInv, TypeOK, Released, Queue, Answers
  <2>2. \A r \in Person : r # p => (r \in Inside' <=> r \in Inside)
    BY <2>1 DEF Inside, Admitted, InMuseum, NotReleased, MuseumInv, DoorsHoldAskers, Queue
  <2>3. ppc[p] = "entering" /\ (type = "ACCEPT" => ppc'[p] \in {"exploring", "joining"})
                          /\ (type # "ACCEPT" => ppc'[p] = "gone")
    BY <1>1 DEF EnterOrNot, MuseumInv, TypeOK
  <2>4. type = "ACCEPT" <=> <<p, "ACCEPT">> \in resp[where[p]]
    BY <1>1, <1>2 DEF MuseumInv, DoorsHoldAskers, DoorHoldsAskers
  <2>5. p \in Inside' <=> p \in Inside
    BY <2>3, <2>4 DEF Inside, Admitted, InMuseum, NotReleased
  <2> QED
    BY <2>2, <2>5 DEF Inside, Admitted, InMuseum, NotReleased
<1>8. PlacesCounted'
  BY <1>7, MuseumAssumption DEF EnterOrNot, doorPart, tourPart, personPart, Queue, MuseumInv, TypeOK, DoorStep, PlacesCounted, OneDoorDecides
<1>9. OneRegisters'
  BY <1>1, <1>2, MuseumAssumption DEF EnterOrNot, doorPart, tourPart, personPart, Queue, MuseumInv, OneRegisters, TypeOK, Step
<1>10. TourMatchesQueue'
  BY <1>1, <1>2, MuseumAssumption DEF EnterOrNot, doorPart, tourPart, personPart, Queue, MuseumInv, TourMatchesQueue, TypeOK, OneRegisters
<1>11. FullTourStarts'
  BY <1>1, <1>2, MuseumAssumption DEF EnterOrNot, doorPart, tourPart, personPart, Queue, MuseumInv, FullTourStarts, TypeOK, OneRegisters
<1>12. CalledOnce'
  <2>1. resp'[Tour] = resp[Tour] /\ UNCHANGED req
    BY <1>1, <1>2, MuseumAssumption DEF EnterOrNot, MuseumInv, TypeOK, Queue
  <2>2. \A r \in Person : ppc'[r] = "waiting" <=> ppc[r] = "waiting"
    BY <1>1 DEF EnterOrNot, MuseumInv, TypeOK
  <2> QED
    BY <2>1, <2>2 DEF MuseumInv, CalledOnce
<1> QED
  BY <1>3, <1>4, <1>5, <1>6, <1>7, <1>8, <1>9, <1>10, <1>11, <1>12 DEF MuseumInv

LEMMA JoinTourKeeps ==
  ASSUME NEW p \in Person, MuseumInv, JoinTour(p)
  PROVE  MuseumInv'
<1>1. TypeOK'
  BY MuseumAssumption DEF JoinTour, CountFree, doorPart, tourPart, personPart, Queue, MuseumInv, TypeOK, DoorStep, Step, Answers
<1>2. OneDoorDecides'
  BY MuseumAssumption DEF JoinTour, CountFree, doorPart, tourPart, personPart, Queue, MuseumInv, OneDoorDecides, TypeOK, DoorStep
<1>3. DoorsHoldAskers'
  BY MuseumAssumption DEF JoinTour, CountFree, doorPart, tourPart, personPart, Queue, MuseumInv, DoorsHoldAskers, DoorHoldsAskers, AsksAt, Answered, Answers, TypeOK, DoorStep, Step, OneDoorDecides
<1>4. ExitHoldsLeavers'
  BY MuseumAssumption DEF JoinTour, CountFree, doorPart, tourPart, personPart, Queue, MuseumInv, ExitHoldsLeavers, Released, Answers, TypeOK, Step
<1>5. Inside' = Inside
  BY MuseumAssumption DEF JoinTour, CountFree, doorPart, tourPart, personPart, Queue, MuseumInv, TypeOK, Step, DoorsHoldAskers, DoorHoldsAskers, ExitHoldsLeavers, AsksAt, Inside, Admitted, InMuseum, NotReleased, Answered, Released, Answers
<1>6. PlacesCounted'
  BY <1>5, MuseumAssumption DEF JoinTour, CountFree, doorPart, tourPart, personPart, Queue, MuseumInv, TypeOK, DoorStep, PlacesCounted, OneDoorDecides
<1>7. OneRegisters'
  BY MuseumAssumption DEF JoinTour, CountFree, doorPart, tourPart, personPart, Queue, MuseumInv, OneRegisters, TypeOK, Step
<1>8. TourMatchesQueue'
  BY MuseumAssumption DEF JoinTour, CountFree, doorPart, tourPart, personPart, Queue, MuseumInv, TourMatchesQueue, TypeOK, OneRegisters
<1>9. FullTourStarts'
  BY MuseumAssumption DEF JoinTour, CountFree, doorPart, tourPart, personPart, Queue, MuseumInv, FullTourStarts, TypeOK, OneRegisters
<1>10. CalledOnce'
  BY MuseumAssumption DEF JoinTour, CountFree, doorPart, tourPart, personPart, Queue, MuseumInv, CalledOnce, TypeOK, Step, Answers
<1> QED
  BY <1>1, <1>2, <1>3, <1>4, <1>5, <1>6, <1>7, <1>8, <1>9, <1>10 DEF MuseumInv

LEMMA RegisterKeeps ==
  ASSUME NEW p \in Person, MuseumInv, Register(p)
  PROVE  MuseumInv'
<1>1. /\ p \notin req[Tour] /\ Tour \in Queue
     /\ req'[Tour] = req[Tour] \cup {p}
  BY MuseumAssumption DEF Register, MuseumInv, CalledOnce, TypeOK, Queue
<1>2. /\ IsFiniteSet(req[Tour])
     /\ Cardinality(req'[Tour]) = Cardinality(req[Tour]) + 1
  BY <1>1, PersonsFinite, FS_Subset, FS_AddElement DEF MuseumInv, TypeOK
<1>3. TypeOK'
  BY <1>1, <1>2, MuseumAssumption DEF Register, doorPart, tourPart, personPart, Queue, MuseumInv, TypeOK, DoorStep, Step, Answers
<1>4. OneDoorDecides'
  BY <1>1, <1>2, MuseumAssumption DEF Register, doorPart, tourPart, personPart, Queue, MuseumInv, OneDoorDecides, TypeOK, DoorStep
<1>5. DoorsHoldAskers'
  BY <1>1, <1>2, MuseumAssumption DEF Register, doorPart, tourPart, personPart, Queue, MuseumInv, DoorsHoldAskers, DoorHoldsAskers, AsksAt, Answered, Answers, TypeOK, DoorStep, Step, OneDoorDecides
<1>6. ExitHoldsLeavers'
  BY <1>1, <1>2, MuseumAssumption DEF Register, doorPart, tourPart, personPart, Queue, MuseumInv, ExitHoldsLeavers, Released, Answers, TypeOK, Step
<1>7. Inside' = Inside
  BY <1>1, <1>2, MuseumAssumption DEF Register, doorPart, tourPart, personPart, Queue, MuseumInv, TypeOK, Step, DoorsHoldAskers, DoorHoldsAskers, ExitHoldsLeavers, AsksAt, Inside, Admitted, InMuseum, NotReleased, Answered, Released, Answers
<1>8. PlacesCounted'
  BY <1>7, MuseumAssumption DEF Register, doorPart, tourPart, personPart, Queue, MuseumInv, TypeOK, DoorStep, PlacesCounted, OneDoorDecides
<1>9. OneRegisters'
  BY <1>1, <1>2, MuseumAssumption DEF Register, doorPart, tourPart, personPart, Queue, MuseumInv, OneRegisters, TypeOK, Step
<1>10. TourMatchesQueue'
  BY <1>1, <1>2, MuseumAssumption DEF Register, doorPart, tourPart, personPart, Queue, MuseumInv, TourMatchesQueue, TypeOK, OneRegisters
<1>11. FullTourStarts'
  BY <1>1, <1>2, MuseumAssumption DEF Register, doorPart, tourPart, personPart, Queue, MuseumInv, FullTourStarts, TypeOK, OneRegisters
<1>12. CalledOnce'
  BY <1>1, <1>2, MuseumAssumption DEF Register, doorPart, tourPart, personPart, Queue, MuseumInv, CalledOnce, TypeOK, Step, Answers
<1> QED
  BY <1>3, <1>4, <1>5, <1>6, <1>7, <1>8, <1>9, <1>10, <1>11, <1>12 DEF MuseumInv

LEMMA TurnedAwayKeeps ==
  ASSUME NEW p \in Person, MuseumInv, TurnedAway(p)
  PROVE  MuseumInv'
<1>1. TypeOK'
  BY MuseumAssumption DEF TurnedAway, doorPart, tourPart, personPart, Queue, MuseumInv, TypeOK, DoorStep, Step, Answers
<1>2. OneDoorDecides'
  BY MuseumAssumption DEF TurnedAway, doorPart, tourPart, personPart, Queue, MuseumInv, OneDoorDecides, TypeOK, DoorStep
<1>3. DoorsHoldAskers'
  BY MuseumAssumption DEF TurnedAway, doorPart, tourPart, personPart, Queue, MuseumInv, DoorsHoldAskers, DoorHoldsAskers, AsksAt, Answered, Answers, TypeOK, DoorStep, Step, OneDoorDecides
<1>4. ExitHoldsLeavers'
  BY MuseumAssumption DEF TurnedAway, doorPart, tourPart, personPart, Queue, MuseumInv, ExitHoldsLeavers, Released, Answers, TypeOK, Step
<1>5. Inside' = Inside
  BY MuseumAssumption DEF TurnedAway, doorPart, tourPart, personPart, Queue, MuseumInv, TypeOK, Step, DoorsHoldAskers, DoorHoldsAskers, ExitHoldsLeavers, AsksAt, Inside, Admitted, InMuseum, NotReleased, Answered, Released, Answers
<1>6. PlacesCounted'
  BY <1>5, MuseumAssumption DEF TurnedAway, doorPart, tourPart, personPart, Queue, MuseumInv, TypeOK, DoorStep, PlacesCounted, OneDoorDecides
<1>7. OneRegisters'
  BY MuseumAssumption DEF TurnedAway, doorPart, tourPart, personPart, Queue, MuseumInv, OneRegisters, TypeOK, Step
<1>8. TourMatchesQueue'
  BY MuseumAssumption DEF TurnedAway, doorPart, tourPart, personPart, Queue, MuseumInv, TourMatchesQueue, TypeOK, OneRegisters
<1>9. FullTourStarts'
  BY MuseumAssumption DEF TurnedAway, doorPart, tourPart, personPart, Queue, MuseumInv, FullTourStarts, TypeOK, OneRegisters
<1>10. CalledOnce'
  BY MuseumAssumption DEF TurnedAway, doorPart, tourPart, personPart, Queue, MuseumInv, CalledOnce, TypeOK, Step, Answers
<1> QED
  BY <1>1, <1>2, <1>3, <1>4, <1>5, <1>6, <1>7, <1>8, <1>9, <1>10 DEF MuseumInv

LEMMA StartTourKeeps ==
  ASSUME NEW p \in Person, MuseumInv, StartTour(p)
  PROVE  MuseumInv'
<1>1. /\ Tour \in Queue
     /\ \A x \in Queue, r \in Person, type \in Answers :
          <<r, type>> \in resp'[x] <=>
            <<r, type>> \in resp[x] /\ ~(x = Tour /\ r = p /\ type = "TOUR_START")
  BY MuseumAssumption DEF StartTour, MuseumInv, TypeOK, Queue, DoorsHoldAskers
<1>2. TypeOK'
  BY <1>1, MuseumAssumption DEF StartTour, doorPart, tourPart, personPart, Queue, MuseumInv, TypeOK, DoorStep, Step, Answers
<1>3. OneDoorDecides'
  BY <1>1, MuseumAssumption DEF StartTour, doorPart, tourPart, personPart, Queue, MuseumInv, OneDoorDecides, TypeOK, DoorStep
<1>4. DoorsHoldAskers'
  BY <1>1, MuseumAssumption DEF StartTour, doorPart, tourPart, personPart, Queue, MuseumInv, DoorsHoldAskers, DoorHoldsAskers, AsksAt, Answered, Answers, TypeOK, DoorStep, Step, OneDoorDecides
<1>5. ExitHoldsLeavers'
  BY <1>1, MuseumAssumption DEF StartTour, doorPart, tourPart, personPart, Queue, MuseumInv, ExitHoldsLeavers, Released, Answers, TypeOK, Step
<1>6. Inside' = Inside
  BY <1>1, MuseumAssumption DEF StartTour, doorPart, tourPart, personPart, Queue, MuseumInv, TypeOK, Step, DoorsHoldAskers, DoorHoldsAskers, ExitHoldsLeavers, AsksAt, Inside, Admitted, InMuseum, NotReleased, Answered, Released, Answers
<1>7. PlacesCounted'
  BY <1>6, MuseumAssumption DEF StartTour, doorPart, tourPart, personPart, Queue, MuseumInv, TypeOK, DoorStep, PlacesCounted, OneDoorDecides
<1>8. OneRegisters'
  BY <1>1, MuseumAssumption DEF StartTour, doorPart, tourPart, personPart, Queue, MuseumInv, OneRegisters, TypeOK, Step
<1>9. TourMatchesQueue'
  BY <1>1, MuseumAssumption DEF StartTour, doorPart, tourPart, personPart, Queue, MuseumInv, TourMatchesQueue, TypeOK, OneRegisters
<1>10. FullTourStarts'
  BY <1>1, MuseumAssumption DEF StartTour, doorPart, tourPart, personPart, Queue, MuseumInv, FullTourStarts, TypeOK, OneRegisters
<1>11. CalledOnce'
  BY <1>1, MuseumAssumption DEF StartTour, doorPart, tourPart, personPart, Queue, MuseumInv, CalledOnce, TypeOK, Step, Answers
<1> QED
  BY <1>2, <1>3, <1>4, <1>5, <1>6, <1>7, <1>8, <1>9, <1>10, <1>11 DEF MuseumInv

LEMMA AskToLeaveKeeps ==
  ASSUME NEW p \in Person, MuseumInv, AskToLeave(p)
  PROVE  MuseumInv'
<1>1. TypeOK'
  BY MuseumAssumption DEF AskToLeave, doorPart, tourPart, personPart, Queue, MuseumInv, TypeOK, DoorStep, Step, Answers
<1>2. OneDoorDecides'
  BY MuseumAssumption DEF AskToLeave, doorPart, tourPart, personPart, Queue, MuseumInv, OneDoorDecides, TypeOK, DoorStep
<1>3. DoorsHoldAskers'
  BY MuseumAssumption DEF AskToLeave, doorPart, tourPart, personPart, Queue, MuseumInv, DoorsHoldAskers, DoorHoldsAskers, AsksAt, Answered, Answers, TypeOK, DoorStep, Step, OneDoorDecides
<1>4. ExitHoldsLeavers'
  BY MuseumAssumption DEF AskToLeave, doorPart, tourPart, personPart, Queue, MuseumInv, ExitHoldsLeavers, Released, Answers, TypeOK, Step
<1>5. Inside' = Inside
  BY MuseumAssumption DEF AskToLeave, doorPart, tourPart, personPart, Queue, MuseumInv, TypeOK, Step, DoorsHoldAskers, DoorHoldsAskers, ExitHoldsLeavers, AsksAt, Inside, Admitted, InMuseum, NotReleased, Answered, Released, Answers
<1>6. PlacesCounted'
  BY <1>5, MuseumAssumption DEF AskToLeave, doorPart, tourPart, personPart, Queue, MuseumInv, TypeOK, DoorStep, PlacesCounted, OneDoorDecides
<1>7. OneRegisters'
  BY MuseumAssumption DEF AskToLeave, doorPart, tourPart, personPart, Queue, MuseumInv, OneRegisters, TypeOK, Step
<1>8. TourMatchesQueue'
  BY MuseumAssumption DEF AskToLeave, doorPart, tourPart, personPart, Queue, MuseumInv, TourMatchesQueue, TypeOK, OneRegisters
<1>9. FullTourStarts'
  BY MuseumAssumption DEF AskToLeave, doorPart, tourPart, personPart, Queue, MuseumInv, FullTourStarts, TypeOK, OneRegisters
<1>10. CalledOnce'
  BY MuseumAssumption DEF AskToLeave, doorPart, tourPart, personPart, Queue, MuseumInv, CalledOnce, TypeOK, Step, Answers
<1> QED
  BY <1>1, <1>2, <1>3, <1>4, <1>5, <1>6, <1>7, <1>8, <1>9, <1>10 DEF MuseumInv

LEMMA LeaveKeeps ==
  ASSUME NEW p \in Person, MuseumInv, Leave(p)
  PROVE  MuseumInv'
<1>1. /\ Exit \in Queue
     /\ \A x \in Queue, r \in Person, type \in Answers :
          <<r, type>> \in resp'[x] <=>
            <<r, type>> \in resp[x] /\ ~(x = Exit /\ r = p /\ type = "ACCEPT")
  BY MuseumAssumption DEF Leave, MuseumInv, TypeOK, Queue, DoorsHoldAskers
<1>2. TypeOK'
  BY <1>1, MuseumAssumption DEF Leave, doorPart, tourPart, personPart, Queue, MuseumInv, TypeOK, DoorStep, Step, Answers
<1>3. OneDoorDecides'
  BY <1>1, MuseumAssumption DEF Leave, doorPart, tourPart, personPart, Queue, MuseumInv, OneDoorDecides, TypeOK, DoorStep
<1>4. DoorsHoldAskers'
  BY <1>1, MuseumAssumption DEF Leave, doorPart, tourPart, personPart, Queue, MuseumInv, DoorsHoldAskers, DoorHoldsAskers, AsksAt, Answered, Answers, TypeOK, DoorStep, Step, OneDoorDecides
<1>5. ExitHoldsLeavers'
  BY <1>1, MuseumAssumption DEF Leave, doorPart, tourPart, personPart, Queue, MuseumInv, ExitHoldsLeavers, Released, Answers, TypeOK, Step
<1>6. Inside' = Inside
  BY <1>1, MuseumAssumption DEF Leave, doorPart, tourPart, personPart, Queue, MuseumInv, TypeOK, Step, DoorsHoldAskers, DoorHoldsAskers, ExitHoldsLeavers, AsksAt, Inside, Admitted, InMuseum, NotReleased, Answered, Released, Answers
<1>7. PlacesCounted'
  BY <1>6, MuseumAssumption DEF Leave, doorPart, tourPart, personPart, Queue, MuseumInv, TypeOK, DoorStep, PlacesCounted, OneDoorDecides
<1>8. OneRegisters'
  BY <1>1, MuseumAssumption DEF Leave, doorPart, tourPart, personPart, Queue, MuseumInv, OneRegisters, TypeOK, Step
<1>9. TourMatchesQueue'
  BY <1>1, MuseumAssumption DEF Leave, doorPart, tourPart, personPart, Queue, MuseumInv, TourMatchesQueue, TypeOK, OneRegisters
<1>10. FullTourStarts'
  BY <1>1, MuseumAssumption DEF Leave, doorPart, tourPart, personPart, Queue, MuseumInv, FullTourStarts, TypeOK, OneRegisters
<1>11. CalledOnce'
  BY <1>1, MuseumAssumption DEF Leave, doorPart, tourPart, personPart, Queue, MuseumInv, CalledOnce, TypeOK, Step, Answers
<1> QED
  BY <1>2, <1>3, <1>4, <1>5, <1>6, <1>7, <1>8, <1>9, <1>10, <1>11 DEF MuseumInv

LEMMA GuideCalledKeeps ==
  ASSUME MuseumInv, GuideCalled
  PROVE  MuseumInv'
<1>1. TypeOK'
  BY MuseumAssumption DEF GuideCalled, doorPart, tourPart, personPart, Queue, MuseumInv, TypeOK, DoorStep, Step, Answers
<1>2. OneDoorDecides'
  BY MuseumAssumption DEF GuideCalled, doorPart, tourPart, personPart, Queue, MuseumInv, OneDoorDecides, TypeOK, DoorStep
<1>3. DoorsHoldAskers'
  BY MuseumAssumption DEF GuideCalled, doorPart, tourPart, personPart, Queue, MuseumInv, DoorsHoldAskers, DoorHoldsAskers, AsksAt, Answered, Answers, TypeOK, DoorStep, Step, OneDoorDecides
<1>4. ExitHoldsLeavers'
  BY MuseumAssumption DEF GuideCalled, doorPart, tourPart, personPart, Queue, MuseumInv, ExitHoldsLeavers, Released, Answers, TypeOK, Step
<1>5. Inside' = Inside
  BY MuseumAssumption DEF GuideCalled, doorPart, tourPart, personPart, Queue, MuseumInv, TypeOK, Step, DoorsHoldAskers, DoorHoldsAskers, ExitHoldsLeavers, AsksAt, Inside, Admitted, InMuseum, NotReleased, Answered, Released, Answers
<1>6. PlacesCounted'
  BY <1>5, MuseumAssumption DEF GuideCalled, doorPart, tourPart, personPart, Queue, MuseumInv, TypeOK, DoorStep, PlacesCounted, OneDoorDecides
<1>7. OneRegisters'
  BY MuseumAssumption DEF GuideCalled, doorPart, tourPart, personPart, Queue, MuseumInv, OneRegisters, TypeOK, Step
<1>8. TourMatchesQueue'
  BY MuseumAssumption DEF GuideCalled, doorPart, tourPart, personPart, Queue, MuseumInv, TourMatchesQueue, TypeOK, OneRegisters
<1>9. FullTourStarts'
  BY MuseumAssumption DEF GuideCalled, doorPart, tourPart, personPart, Queue, MuseumInv, FullTourStarts, TypeOK, OneRegisters
<1>10. CalledOnce'
  BY MuseumAssumption DEF GuideCalled, doorPart, tourPart, personPart, Queue, MuseumInv, CalledOnce, TypeOK, Step, Answers
<1> QED
  BY <1>1, <1>2, <1>3, <1>4, <1>5, <1>6, <1>7, <1>8, <1>9, <1>10 DEF MuseumInv

LEMMA GuideStartsKeeps ==
  ASSUME MuseumInv, GuideStarts
  PROVE  MuseumInv'
<1>1. TypeOK'
  BY MuseumAssumption DEF GuideStarts, CountFree, doorPart, tourPart, personPart, Queue, MuseumInv, TypeOK, DoorStep, Step, Answers
<1>2. OneDoorDecides'
  BY MuseumAssumption DEF GuideStarts, CountFree, doorPart, tourPart, personPart, Queue, MuseumInv, OneDoorDecides, TypeOK, DoorStep
<1>3. DoorsHoldAskers'
  BY MuseumAssumption DEF GuideStarts, CountFree, doorPart, tourPart, personPart, Queue, MuseumInv, DoorsHoldAskers, DoorHoldsAskers, AsksAt, Answered, Answers, TypeOK, DoorStep, Step, OneDoorDecides
<1>4. ExitHoldsLeavers'
  BY MuseumAssumption DEF GuideStarts, CountFree, doorPart, tourPart, personPart, Queue, MuseumInv, ExitHoldsLeavers, Released, Answers, TypeOK, Step
<1>5. Inside' = Inside
  BY MuseumAssumption DEF GuideStarts, CountFree, doorPart, tourPart, personPart, Queue, MuseumInv, TypeOK, Step, DoorsHoldAskers, DoorHoldsAskers, ExitHoldsLeavers, AsksAt, Inside, Admitted, InMuseum, NotReleased, Answered, Released, Answers
<1>6. PlacesCounted'
  BY <1>5, MuseumAssumption DEF GuideStarts, CountFree, doorPart, tourPart, personPart, Queue, MuseumInv, TypeOK, DoorStep, PlacesCounted, OneDoorDecides
<1>7. OneRegisters'
  BY MuseumAssumption DEF GuideStarts, CountFree, doorPart, tourPart, personPart, Queue, MuseumInv, OneRegisters, TypeOK, Step
<1>8. TourMatchesQueue'
  BY MuseumAssumption DEF GuideStarts, CountFree, doorPart, tourPart, personPart, Queue, MuseumInv, TourMatchesQueue, TypeOK, OneRegisters
<1>9. FullTourStarts'
  BY MuseumAssumption DEF GuideStarts, CountFree, doorPart, tourPart, personPart, Queue, MuseumInv, FullTourStarts, TypeOK, OneRegisters
<1>10. CalledOnce'
  BY MuseumAssumption DEF GuideStarts, CountFree, doorPart, tourPart, personPart, Queue, MuseumInv, CalledOnce, TypeOK, Step, Answers
<1> QED
  BY <1>1, <1>2, <1>3, <1>4, <1>5, <1>6, <1>7, <1>8, <1>9, <1>10 DEF MuseumInv

LEMMA GuideLeadsKeeps ==
  ASSUME MuseumInv, GuideLeads
  PROVE  MuseumInv'
<1>1. PICK p \in req[Tour] :
       /\ req' = [req EXCEPT ![Tour] = @ \ {p}]
       /\ resp' = [resp EXCEPT ![Tour] = @ \cup {<<p, "TOUR_START">>}]
  BY DEF GuideLeads
<1>2. /\ p \in Person /\ Tour \in Queue /\ ppc[p] = "waiting"
     /\ req'[Tour] = req[Tour] \ {p}
     /\ \A q \in Queue, r \in Person, type \in Answers :
          <<r, type>> \in resp'[q] <=>
            <<r, type>> \in resp[q] \/ (q = Tour /\ r = p /\ type = "TOUR_START")
  BY <1>1 DEF MuseumInv, TypeOK, Queue, CalledOnce
<1>3. /\ count > 0
     /\ Cardinality(req'[Tour]) = Cardinality(req[Tour]) - 1
     /\ Cardinality(req'[Tour]) \in Nat
  BY <1>1, <1>2, PersonsFinite, FS_Subset, FS_RemoveElement, FS_CardinalityType DEF MuseumInv, TypeOK, TourMatchesQueue
<1>4. TypeOK'
  BY <1>1, <1>2, <1>3, MuseumAssumption DEF GuideLeads, doorPart, tourPart, personPart, Queue, MuseumInv, TypeOK, DoorStep, Step, Answers
<1>5. OneDoorDecides'
  BY <1>1, <1>2, <1>3, MuseumAssumption DEF GuideLeads, doorPart, tourPart, personPart, Queue, MuseumInv, OneDoorDecides, TypeOK, DoorStep
<1>6. DoorsHoldAskers'
  BY <1>1, <1>2, <1>3, MuseumAssumption DEF GuideLeads, doorPart, tourPart, personPart, Queue, MuseumInv, DoorsHoldAskers, DoorHoldsAskers, AsksAt, Answered, Answers, TypeOK, DoorStep, Step, OneDoorDecides
<1>7. ExitHoldsLeavers'
  BY <1>1, <1>2, <1>3, MuseumAssumption DEF GuideLeads, doorPart, tourPart, personPart, Queue, MuseumInv, ExitHoldsLeavers, Released, Answers, TypeOK, Step
<1>8. Inside' = Inside
  BY <1>1, <1>2, <1>3, MuseumAssumption DEF GuideLeads, doorPart, tourPart, personPart, Queue, MuseumInv, TypeOK, Step, DoorsHoldAskers, DoorHoldsAskers, ExitHoldsLeavers, AsksAt, Inside, Admitted, InMuseum, NotReleased, Answered, Released, Answers
<1>9. PlacesCounted'
  BY <1>8, MuseumAssumption DEF GuideLeads, doorPart, tourPart, personPart, Queue, MuseumInv, TypeOK, DoorStep, PlacesCounted, OneDoorDecides
<1>10. OneRegisters'
  BY <1>1, <1>2, <1>3, MuseumAssumption DEF GuideLeads, doorPart, tourPart, personPart, Queue, MuseumInv, OneRegisters, TypeOK, Step
<1>11. TourMatchesQueue'
  BY <1>1, <1>2, <1>3, MuseumAssumption DEF GuideLeads, doorPart, tourPart, personPart, Queue, MuseumInv, TourMatchesQueue, TypeOK, OneRegisters
<1>12. FullTourStarts'
  BY <1>1, <1>2, <1>3, MuseumAssumption DEF GuideLeads, doorPart, tourPart, personPart, Queue, MuseumInv, FullTourStarts, TypeOK, OneRegisters
<1>13. CalledOnce'
  BY <1>1, <1>2, <1>3, MuseumAssumption DEF GuideLeads, doorPart, tourPart, personPart, Queue, MuseumInv, CalledOnce, TypeOK, Step, Answers
<1> QED
  BY <1>4, <1>5, <1>6, <1>7, <1>8, <1>9, <1>10, <1>11, <1>12, <1>13 DEF MuseumInv

LEMMA TimerKeeps ==
  ASSUME MuseumInv, Timer
  PROVE  MuseumInv'
<1>1. TypeOK'
  BY MuseumAssumption DEF Timer, CountFree, doorPart, tourPart, personPart, Queue, MuseumInv, TypeOK, DoorStep, Step, Answers
<1>2. OneDoorDecides'
  BY MuseumAssumption DEF Timer, CountFree, doorPart, tourPart, personPart, Queue, MuseumInv, OneDoorDecides, TypeOK, DoorStep
<1>3. DoorsHoldAskers'
  BY MuseumAssumption DEF Timer, CountFree, doorPart, tourPart, personPart, Queue, MuseumInv, DoorsHoldAskers, DoorHoldsAskers, AsksAt, Answered, Answers, TypeOK, DoorStep, Step, OneDoorDecides
<1>4. ExitHoldsLeavers'
  BY MuseumAssumption DEF Timer, CountFree, doorPart, tourPart, personPart, Queue, MuseumInv, ExitHoldsLeavers, Released, Answers, TypeOK, Step
<1>5. Inside' = Inside
  BY MuseumAssumption DEF Timer, CountFree, doorPart, tourPart, personPart, Queue, MuseumInv, TypeOK, Step, DoorsHoldAskers, DoorHoldsAskers, ExitHoldsLeavers, AsksAt, Inside, Admitted, InMuseum, NotReleased, Answered, Released, Answers
<1>6. PlacesCounted'
  BY <1>5, MuseumAssumption DEF Timer, CountFree, doorPart, tourPart, personPart, Queue, MuseumInv, TypeOK, DoorStep, PlacesCounted, OneDoorDecides
<1>7. OneRegisters'
  BY MuseumAssumption DEF Timer, CountFree, doorPart, tourPart, personPart, Queue, MuseumInv, OneRegisters, TypeOK, Step
<1>8. TourMatchesQueue'
  BY MuseumAssumption DEF Timer, CountFree, doorPart, tourPart, personPart, Queue, MuseumInv, TourMatchesQueue, TypeOK, OneRegisters
<1>9. FullTourStarts'
  BY MuseumAssumption DEF Timer, CountFree, doorPart, tourPart, personPart, Queue, MuseumInv, FullTourStarts, TypeOK, OneRegisters
<1>10. CalledOnce'
  BY MuseumAssumption DEF Timer, CountFree, doorPart, tourPart, personPart, Queue, MuseumInv, CalledOnce, TypeOK, Step, Answers
<1> QED
  BY <1>1, <1>2, <1>3, <1>4, <1>5, <1>6, <1>7, <1>8, <1>9, <1>10 DEF MuseumInv

LEMMA InitInv == Init => MuseumInv
<1> SUFFICES ASSUME Init PROVE MuseumInv
  OBVIOUS
<1>1. TypeOK
  BY MuseumAssumption DEF Init, TypeOK, DoorStep, Step
<1>2. PlacesCounted
  <2>1. Inside = {}
    BY DEF Init, Inside, Admitted, InMuseum, NotReleased
  <2> QED
    BY <2>1, FS_EmptySet, MuseumAssumption DEF Init, PlacesCounted
<1>3. OneDoorDecides /\ DoorsHoldAskers /\ ExitHoldsLeavers
  BY MuseumAssumption DEF Init, OneDoorDecides, DoorsHoldAskers, DoorHoldsAskers, ExitHoldsLeavers, AsksAt, Answered, Released, Queue
<1>4. TourMatchesQueue
  BY FS_EmptySet, MuseumAssumption DEF Init, TourMatchesQueue, Queue
<1>5. OneRegisters /\ FullTourStarts /\ CalledOnce
  BY MuseumAssumption DEF Init, OneRegisters, FullTourStarts, CalledOnce, Queue
<1> QED
  BY <1>1, <1>2, <1>3, <1>4, <1>5 DEF MuseumInv

\* No step of any process breaks the invariant.
THEOREM NextInv == MuseumInv /\ [Next]_vars => MuseumInv'
<1> SUFFICES ASSUME MuseumInv, [Next]_vars PROVE MuseumInv'
  OBVIOUS
<1>1. ASSUME NEW d \in Door, EntranceDoor(d) PROVE MuseumInv'
  BY <1>1, DoorCheckKeeps, DoorAnswerKeeps DEF EntranceDoor
<1>2. CASE ExitDoor
  BY <1>2, ExitDoorKeeps
<1>3. CASE Guide
  BY <1>3, GuideCalledKeeps, GuideStartsKeeps, GuideLeadsKeeps DEF Guide
<1>4. CASE Timer
  BY <1>4, TimerKeeps
<1>5. CASE Admin
  BY <1>5, AdminKeeps
<1>6. ASSUME NEW p \in Person, Arrive(p) PROVE MuseumInv'
  BY <1>6, ArriveKeeps
<1>7. ASSUME NEW p \in Person, Visit(p) PROVE MuseumInv'
  BY <1>7, EnterOrNotKeeps, JoinTourKeeps, RegisterKeeps, TurnedAwayKeeps, StartTourKeeps,
     AskToLeaveKeeps, LeaveKeeps DEF Visit
<1>8. CASE UNCHANGED vars
  <2> USE <1>8 DEF vars, doorPart, tourPart, personPart, MuseumInv
  <2>1. TypeOK' BY DEF TypeOK
  <2>2. OneDoorDecides' BY DEF OneDoorDecides
  <2>3. DoorsHoldAskers' BY DEF DoorsHoldAskers, DoorHoldsAskers, AsksAt, Answered
  <2>4. ExitHoldsLeavers' BY DEF ExitHoldsLeavers, Released
  <2>5. PlacesCounted' BY DEF PlacesCounted, Inside, Admitted, InMuseum, NotReleased, Released
  <2>6. OneRegisters' BY DEF OneRegisters
  <2>7. TourMatchesQueue' BY DEF TourMatchesQueue
  <2>8. FullTourStarts' BY DEF FullTourStarts
  <2>9. CalledOnce' BY DEF CalledOnce
  <2> QED BY <2>1, <2>2, <2>3, <2>4, <2>5, <2>6, <2>7, <2>8, <2>9
<1> QED
  BY <1>1, <1>2, <1>3, <1>4, <1>5, <1>6, <1>7, <1>8 DEF Next

\* The inductive invariant holds in every museum, whatever the number of doors,
\* the capacities and the number of visitors.
THEOREM MuseumInvAlways == Spec => []MuseumInv
  BY InitInv, NextInv, PTL DEF Spec

\* Types; the count of people who wait for a tour is never negative, although
\* the guide's loop has no bound (guide.c:84-95).
THEOREM TypesCorrect == Spec => []TypeOK
<1>1. MuseumInv => TypeOK
  BY DEF MuseumInv
<1> QED
  BY <1>1, MuseumInvAlways, PTL

\* Never more than MUSEUM_CAP people are inside (entranceDoor.c:76-86).
THEOREM NeverOvercrowded == Spec => []NotOvercrowded
<1>1. MuseumInv => NotOvercrowded
  <2> SUFFICES ASSUME MuseumInv PROVE NotOvercrowded
    OBVIOUS
  <2>1. InMuseum \subseteq Inside
    BY DEF Inside
  <2>2. Cardinality(InMuseum) <= Cardinality(Inside) /\ Cardinality(InMuseum) \in Nat
    BY <2>1, InsideFinite, FS_Subset, FS_CardinalityType
  <2> QED
    BY <2>2, InsideFinite, MuseumAssumption DEF MuseumInv, TypeOK, PlacesCounted, NotOvercrowded
<1> QED
  BY <1>1, MuseumInvAlways, PTL

\* The count of a tour and the guide's queue agree (museumApi.h:46-60).
THEOREM ToursConsistent == Spec => []TourMatchesQueue
<1>1. MuseumInv => TourMatchesQueue
  BY DEF MuseumInv
<1> QED
  BY <1>1, MuseumInvAlways, PTL

\* A full tour is announced or the guide is on its way (museumApi.h:55-57).
THEOREM FullToursAnnounced == Spec => []FullTourStarts
<1>1. MuseumInv => FullTourStarts
  BY DEF MuseumInv
<1> QED
  BY <1>1, MuseumInvAlways, PTL

\* Who waits is in the guide's queue or has been called, once (guide.c:75-102).
THEOREM VisitorsCalledOnce == Spec => []CalledOnce
<1>1. MuseumInv => CalledOnce
  BY DEF MuseumInv
<1> QED
  BY <1>1, MuseumInvAlways, PTL
=============================================================================
