-------------------------- MODULE BrokerRing_proofs --------------------------
(***************************************************************************)
(* The theorems about the ring of brokers, for every number of brokers,    *)
(* every set of clients and topics, and every capacity: what its queues,   *)
(* tables and workers hold, and the messages it carries.                   *)
(***************************************************************************)
EXTENDS BrokerRingInvariants, SequenceTheorems, IntegerSets

-----------------------------------------------------------------------------
(* The two tables the ring is built on: the subscriptions of the central   *)
(* database and a broker's table of ids.                                   *)

\* get_next_id: the id is above every registered one.
LEMMA NextIdFresh ==
  ASSUME IsFiniteSet(users), users \subseteq Nat \ {0}
  PROVE  NextId \in Nat \ {0} /\ \A n \in users : n < NextId
<1> DEFINE S == users \cup {0}
           top == CHOOSE m \in S : \A n \in S : n <= m
<1>1. IsFiniteSet(S) BY FS_AddElement
<1>2. \E m \in S : \A n \in S : n <= m
  <2> S # {} /\ S \subseteq Int OBVIOUS
  <2> HIDE DEF S
  <2> QED BY <1>1, GreatestOfFinite
<1>3. top \in S /\ \A n \in S : n <= top BY <1>2
<1>4. NextId = 1 + top BY DEF NextId
<1>5. top \in Nat
  <2> S \subseteq Nat OBVIOUS
  <2> HIDE DEF S, top
  <2> QED BY <1>3
<1> HIDE DEF top
<1> QED BY <1>3, <1>4, <1>5

\* unsubscribe leaves a finite set of lines, those of the other ids.
LEMMA WithoutType ==
  ASSUME NEW lines \in SUBSET Line, IsFiniteSet(lines), NEW id
  PROVE  /\ Without(lines, id) \in SUBSET Line
         /\ IsFiniteSet(Without(lines, id))
         /\ \A l \in Without(lines, id) : \E k \in lines : k.id # id /\ l.id = k.id
<1> DEFINE kept == {l \in lines : l.id # id}
           upto(l) == {k \in kept : k.pos <= l.pos}
           f == [l \in kept |-> [pos |-> Cardinality(upto(l)), id |-> l.id]]
<1>1. IsFiniteSet(kept) BY FS_Subset
<1>2. \A l \in kept : Cardinality(upto(l)) \in Nat
  <2> TAKE l \in kept
  <2>1. upto(l) \in SUBSET kept OBVIOUS
  <2>2. IsFiniteSet(upto(l)) BY <1>1, <2>1, FS_Subset
  <2> QED BY <2>2, FS_CardinalityType
<1>3. Without(lines, id) = {f[l] : l \in kept} BY DEF Without
<1>4. \A l \in kept : f[l] \in Line BY <1>2 DEF Line
<1>5. f \in Surjection(kept, {f[l] : l \in kept})
  <2> HIDE DEF kept
  <2> QED BY DEF Surjection
<1>6. IsFiniteSet({f[l] : l \in kept}) BY <1>1, <1>5, FS_Surjection
<1>7. \A l \in kept : l \in lines /\ l.id # id /\ f[l].id = l.id OBVIOUS
<1> HIDE DEF f, kept
<1> QED BY <1>3, <1>4, <1>6, <1>7
-----------------------------------------------------------------------------
\* A line that is added names a user; the lines that a deletion leaves do not
\* name the deleted one.
LEMMA DbSubscribeOK ==
  ASSUME DbTypeOK, NoOrphanLines, NEW id, NEW t \in Topic, DbSubscribe(id, t)
  PROVE  DbTypeOK' /\ NoOrphanLines'
<1> DEFINE new == [pos |-> 1 + Cardinality(topics[t]), id |-> id]
<1>1. users' = users /\ id \in users BY DEF DbSubscribe
<1>2. topics' = [topics EXCEPT ![t] = @ \cup {new}] BY DEF DbSubscribe
<1>3. new \in Line
  <2>1. Cardinality(topics[t]) \in Nat BY FS_CardinalityType DEF DbTypeOK
  <2>2. id \in Nat BY <1>1 DEF DbTypeOK
  <2> QED BY <2>1, <2>2 DEF Line
<1>4. new.id = id OBVIOUS
<1> HIDE DEF new
<1>5. topics' \in [Topic -> SUBSET Line] BY <1>2, <1>3 DEF DbTypeOK
<1>6. \A u \in Topic : topics'[u] = IF u = t THEN topics[t] \cup {new} ELSE topics[u]
  BY <1>2 DEF DbTypeOK
<1>7. \A u \in Topic : IsFiniteSet(topics'[u])
  <2>1. IsFiniteSet(topics[t] \cup {new}) BY FS_AddElement DEF DbTypeOK
  <2> QED BY <1>6, <2>1 DEF DbTypeOK
<1>8. NoOrphanLines' BY <1>1, <1>4, <1>6 DEF NoOrphanLines
<1> QED BY <1>1, <1>5, <1>7, <1>8 DEF DbTypeOK

LEMMA DbDeleteOK ==
  ASSUME DbTypeOK, NoOrphanLines, NEW id, DbDelete(id)
  PROVE  DbTypeOK' /\ NoOrphanLines'
<1>1. users' = users \ {id} BY DEF DbDelete
<1>2. topics' = [t \in Topic |-> Without(topics[t], id)] BY DEF DbDelete
<1>3. \A t \in Topic : topics'[t] \in SUBSET Line /\ IsFiniteSet(topics'[t])
  BY <1>2, WithoutType DEF DbTypeOK
<1>4. IsFiniteSet(users') BY <1>1, FS_RemoveElement DEF DbTypeOK
<1>5. NoOrphanLines'
  <2> SUFFICES ASSUME NEW t \in Topic, NEW l \in topics'[t] PROVE l.id \in users'
    BY DEF NoOrphanLines
  <2>1. PICK k \in topics[t] : k.id # id /\ l.id = k.id
    BY <1>2, WithoutType DEF DbTypeOK
  <2> QED BY <1>1, <2>1 DEF NoOrphanLines
<1> QED BY <1>1, <1>2, <1>3, <1>4, <1>5 DEF DbTypeOK

LEMMA DbAddUserOK ==
  ASSUME DbTypeOK, NoOrphanLines, DbAddUser
  PROVE  DbTypeOK' /\ NoOrphanLines'
<1>1. users' = users \cup {NextId} /\ topics' = topics BY DEF DbAddUser, dbVars
<1>2. NextId \in Nat \ {0} BY NextIdFresh DEF DbTypeOK
<1>3. IsFiniteSet(users') BY <1>1, FS_AddElement DEF DbTypeOK
<1> QED BY <1>1, <1>2, <1>3 DEF DbTypeOK, NoOrphanLines

\* The database on its own: every line of a topic names a registered user.
THEOREM DbLinesNameUsers == DbSpec => [](DbTypeOK /\ NoOrphanLines)
<1>1. DbInit => DbTypeOK /\ NoOrphanLines
  BY FS_EmptySet DEF DbInit, DbTypeOK, NoOrphanLines
<1>2. DbTypeOK /\ NoOrphanLines /\ [DbNext]_dbVars => (DbTypeOK /\ NoOrphanLines)'
  <2> SUFFICES ASSUME DbTypeOK, NoOrphanLines, [DbNext]_dbVars
               PROVE  (DbTypeOK /\ NoOrphanLines)'
    OBVIOUS
  <2>1. CASE DbAddUser BY <2>1, DbAddUserOK
  <2>2. ASSUME NEW id \in users, DbDelete(id) PROVE (DbTypeOK /\ NoOrphanLines)'
    BY <2>2, DbDeleteOK
  <2>3. ASSUME NEW id \in users, NEW t \in Topic, DbSubscribe(id, t)
        PROVE  (DbTypeOK /\ NoOrphanLines)'
    BY <2>3, DbSubscribeOK
  <2>4. CASE UNCHANGED dbVars BY <2>4 DEF dbVars, DbTypeOK, NoOrphanLines
  <2> QED BY <2>1, <2>2, <2>3, <2>4 DEF DbNext
<1> QED BY <1>1, <1>2, PTL DEF DbSpec

-----------------------------------------------------------------------------
(* The table of ids.                                                       *)

\* The search of a table stops at a position that holds the id.
LEMMA FirstPositionFound ==
  ASSUME NEW S, NEW table \in Seq(S), NEW id, Positions(table, id) # {}
  PROVE  /\ FirstPosition(table, id) \in Positions(table, id)
         /\ FirstPosition(table, id) \in 1..Len(table)
         /\ \A j \in Positions(table, id) : FirstPosition(table, id) <= j
<1>1. Len(table) \in Nat /\ DOMAIN table = 1..Len(table) BY LenProperties
<1>2. Positions(table, id) \subseteq 1..Len(table) BY <1>1 DEF Positions
<1>3. IsFiniteSet(Positions(table, id)) 
  <2>1. IsFiniteSet(1..Len(table)) BY <1>1, FS_Interval
  <2> QED BY <1>2, <2>1, FS_Subset
<1>4. \E i \in Positions(table, id) : \A j \in Positions(table, id) : i <= j
  <2>1. Positions(table, id) \subseteq Int BY <1>1, <1>2
  <2> QED BY <1>3, <2>1, LeastOfFinite
<1> QED BY <1>2, <1>4 DEF FirstPosition

\* get_mtype answers with the handler of an entry that has the id.
LEMMA GetMtypeFound ==
  ASSUME NEW S, NEW table \in Seq(S), NEW id, Positions(table, id) # {}
  PROVE  \E i \in 1..Len(table) : /\ table[i].global_id = id
                                  /\ GetMtype(table, id) = table[i].mtype
<1>1. FirstPosition(table, id) \in Positions(table, id)
      /\ FirstPosition(table, id) \in 1..Len(table)
  BY FirstPositionFound
<1> QED BY <1>1 DEF GetMtype, Positions

\* remove_global_id adds no entry and keeps those of the other ids.
LEMMA RemoveGlobalIdType ==
  ASSUME NEW S, NEW table \in Seq(S), NEW id
  PROVE  /\ RemoveGlobalId(table, id) \in Seq(S)
         /\ Len(RemoveGlobalId(table, id)) <= Len(table)
         /\ \A i \in 1..Len(RemoveGlobalId(table, id)) :
              \E j \in 1..Len(table) : RemoveGlobalId(table, id)[i] = table[j]
         /\ \A other : other # id /\ Positions(table, other) # {}
                       => Positions(RemoveGlobalId(table, id), other) # {}
<1>0. Len(table) \in Nat /\ \A i \in 1..Len(table) : table[i] \in S
  BY LenProperties, ElementOfSeq
<1>1. CASE Positions(table, id) = {}
  BY <1>0, <1>1 DEF RemoveGlobalId
<1>2. CASE Positions(table, id) # {}
  <2> DEFINE p == FirstPosition(table, id)
             a == SubSeq(table, 1, p - 1)
             b == SubSeq(table, p + 1, Len(table))
  <2>1. p \in 1..Len(table) BY <1>2, FirstPositionFound
  <2> HIDE DEF p
  <2>2. /\ a \in Seq(S) /\ Len(a) = p - 1
        /\ \A i \in 1..p - 1 : a[i] = table[i]
    <3>1. p - 1 \in Int /\ 1 \in Int /\ \A i \in 1..p - 1 : table[i] \in S BY <1>0, <2>1
    <3>2. /\ SubSeq(table, 1, p - 1) \in Seq(S)
          /\ Len(SubSeq(table, 1, p - 1)) = IF 1 <= p - 1 THEN p - 1 - 1 + 1 ELSE 0
          /\ \A i \in 1..p - 1 - 1 + 1 : SubSeq(table, 1, p - 1)[i] = table[1 + i - 1]
      BY <3>1, SubSeqProperties
    <3> QED BY <2>1, <3>2
  <2>3. /\ b \in Seq(S) /\ Len(b) = Len(table) - p
        /\ \A i \in 1..Len(table) - p : b[i] = table[p + i]
    <3>1. p + 1 \in Int /\ Len(table) \in Int /\ \A i \in p + 1..Len(table) : table[i] \in S
      BY <1>0, <2>1
    <3>2. /\ SubSeq(table, p + 1, Len(table)) \in Seq(S)
          /\ Len(SubSeq(table, p + 1, Len(table))) =
               IF p + 1 <= Len(table) THEN Len(table) - (p + 1) + 1 ELSE 0
          /\ \A i \in 1..Len(table) - (p + 1) + 1 :
               SubSeq(table, p + 1, Len(table))[i] = table[p + 1 + i - 1]
      BY <3>1, SubSeqProperties
    <3> QED BY <1>0, <2>1, <3>2
  <2> HIDE DEF a, b
  <2>4. /\ a \o b \in Seq(S) /\ Len(a \o b) = Len(a) + Len(b)
        /\ \A i \in 1..Len(a) + Len(b) :
             (a \o b)[i] = IF i <= Len(a) THEN a[i] ELSE b[i - Len(a)]
    BY <2>2, <2>3, ConcatProperties
  <2>5. RemoveGlobalId(table, id) = a \o b BY <1>2 DEF RemoveGlobalId, a, b, p
  <2>6. ASSUME NEW i \in 1..Len(a \o b)
        PROVE  \E j \in 1..Len(table) : (a \o b)[i] = table[j]
    <3>1. CASE i <= p - 1
      <4>1. (a \o b)[i] = table[i] BY <1>0, <2>1, <2>2, <2>3, <2>4, <3>1
      <4> QED BY <1>0, <2>1, <3>1, <4>1
    <3>2. CASE ~(i <= p - 1)
      <4>1. i - Len(a) \in 1..Len(table) - p BY <1>0, <2>1, <2>2, <2>3, <2>4, <3>2
      <4>2. (a \o b)[i] = b[i - Len(a)] BY <1>0, <2>1, <2>2, <2>3, <2>4, <3>2
      <4>3. b[i - Len(a)] = table[p + (i - Len(a))] BY <2>3, <4>1
      <4>4. p + (i - Len(a)) = i + 1 BY <1>0, <2>1, <2>2, <2>4
      <4>5. (a \o b)[i] = table[i + 1] BY <4>2, <4>3, <4>4
      <4>6. i + 1 \in 1..Len(table) BY <1>0, <2>1, <2>2, <2>3, <2>4
      <4> QED BY <4>5, <4>6
    <3> QED BY <3>1, <3>2
  <2>7. Len(a \o b) <= Len(table) BY <1>0, <2>1, <2>2, <2>3, <2>4
  <2>8. ASSUME NEW other, other # id, Positions(table, other) # {}
        PROVE  Positions(a \o b, other) # {}
    <3>1. PICK j \in 1..Len(table) : table[j].global_id = other
      BY <1>0, <2>8, LenProperties DEF Positions
    <3>2. j # p
      <4>1. p \in Positions(table, id) BY <1>2, FirstPositionFound DEF p
      <4> QED BY <2>8, <3>1, <4>1 DEF Positions
    <3>3. CASE j <= p - 1
      <4>1. j \in 1..Len(a \o b) BY <1>0, <2>1, <2>2, <2>3, <2>4, <3>3
      <4>2. (a \o b)[j] = table[j] BY <1>0, <2>1, <2>2, <2>3, <2>4, <3>3
      <4>3. DOMAIN (a \o b) = 1..Len(a \o b) BY <2>4, LenProperties
      <4> QED BY <3>1, <4>1, <4>2, <4>3 DEF Positions
    <3>4. CASE j >= p + 1
      <4>1. j - 1 \in 1..Len(a \o b) BY <1>0, <2>1, <2>2, <2>3, <2>4, <3>4
      <4>2. (a \o b)[j - 1] = b[(j - 1) - Len(a)]
        BY <1>0, <2>1, <2>2, <2>3, <2>4, <3>4
      <4>3. (j - 1) - Len(a) = j - p BY <2>1, <2>2, <3>1
      <4>4. b[j - p] = table[p + (j - p)] BY <1>0, <2>1, <2>3, <3>1, <3>4
      <4>5. p + (j - p) = j BY <2>1
      <4>6. DOMAIN (a \o b) = 1..Len(a \o b) BY <2>4, LenProperties
      <4> QED BY <3>1, <4>1, <4>2, <4>3, <4>4, <4>5, <4>6 DEF Positions
    <3> QED BY <2>1, <3>2, <3>3, <3>4
  <2> QED BY <2>4, <2>5, <2>6, <2>7, <2>8
<1> QED BY <1>1, <1>2

\* add_global_id keeps the entries and adds the new one at the end.
LEMMA AddGlobalIdType ==
  ASSUME NEW S, NEW table \in Seq(S), NEW id, NEW pid, Entry(id, pid) \in S
  PROVE  /\ AddGlobalId(table, id, pid) \in Seq(S)
         /\ Len(AddGlobalId(table, id, pid)) = Len(table) + 1
         /\ \A i \in 1..Len(table) + 1 :
              AddGlobalId(table, id, pid)[i] =
                IF i = Len(table) + 1 THEN Entry(id, pid) ELSE table[i]
         /\ Positions(AddGlobalId(table, id, pid), id) # {}
         /\ \A other : Positions(table, other) # {}
                         => Positions(AddGlobalId(table, id, pid), other) # {}
<1> DEFINE r == Append(table, Entry(id, pid))
<1>1. Len(table) \in Nat /\ DOMAIN table = 1..Len(table) BY LenProperties
<1>2. r \in Seq(S) /\ Len(r) = Len(table) + 1
  OBVIOUS
<1>3. \A i \in 1..Len(table) + 1 :
        r[i] = IF i = Len(table) + 1 THEN Entry(id, pid) ELSE table[i]
  OBVIOUS
<1>4. DOMAIN r = 1..Len(table) + 1 BY <1>1, <1>2, LenProperties
<1> HIDE DEF r
<1>5. Positions(r, id) # {}
  <2>1. Len(table) + 1 \in DOMAIN r BY <1>1, <1>4
  <2>2. r[Len(table) + 1].global_id = id BY <1>1, <1>3 DEF Entry
  <2> QED BY <2>1, <2>2 DEF Positions
<1>6. ASSUME NEW other, Positions(table, other) # {} PROVE Positions(r, other) # {}
  <2>1. PICK j \in 1..Len(table) : table[j].global_id = other
    BY <1>1, <1>6 DEF Positions
  <2>2. j \in DOMAIN r /\ r[j] = table[j] BY <1>1, <1>3, <1>4
  <2> QED BY <2>1, <2>2 DEF Positions
<1> QED BY <1>2, <1>3, <1>5, <1>6 DEF AddGlobalId, r

\* What remove_global_id leaves, by position.
LEMMA RemovedShape ==
  ASSUME NEW S, NEW table \in Seq(S), NEW id, Positions(table, id) # {}
  PROVE  \E p \in 1..Len(table) :
           /\ table[p].global_id = id
           /\ DOMAIN RemoveGlobalId(table, id) = 1..(Len(table) - 1)
           /\ \A i \in 1..(Len(table) - 1) :
                RemoveGlobalId(table, id)[i] = IF i < p THEN table[i] ELSE table[i + 1]
<1> DEFINE p == FirstPosition(table, id)
           a == SubSeq(table, 1, p - 1)
           b == SubSeq(table, p + 1, Len(table))
<1>0. Len(table) \in Nat /\ \A i \in 1..Len(table) : table[i] \in S
  BY LenProperties, ElementOfSeq
<1>1. p \in 1..Len(table) /\ table[p].global_id = id
  BY FirstPositionFound DEF Positions
<1>5. RemoveGlobalId(table, id) = a \o b BY DEF RemoveGlobalId, a, b, p
<1> HIDE DEF p
<1>2. /\ a \in Seq(S) /\ Len(a) = p - 1
      /\ \A i \in 1..p - 1 : a[i] = table[i]
  <2>1. p - 1 \in Int /\ 1 \in Int /\ \A i \in 1..p - 1 : table[i] \in S BY <1>0, <1>1
  <2>2. /\ SubSeq(table, 1, p - 1) \in Seq(S)
        /\ Len(SubSeq(table, 1, p - 1)) = IF 1 <= p - 1 THEN p - 1 - 1 + 1 ELSE 0
        /\ \A i \in 1..p - 1 - 1 + 1 : SubSeq(table, 1, p - 1)[i] = table[1 + i - 1]
    BY <2>1, SubSeqProperties
  <2> QED BY <1>1, <2>2
<1>3. /\ b \in Seq(S) /\ Len(b) = Len(table) - p
      /\ \A i \in 1..Len(table) - p : b[i] = table[p + i]
  <2>1. p + 1 \in Int /\ Len(table) \in Int /\ \A i \in p + 1..Len(table) : table[i] \in S
    BY <1>0, <1>1
  <2>2. /\ SubSeq(table, p + 1, Len(table)) \in Seq(S)
        /\ Len(SubSeq(table, p + 1, Len(table))) =
             IF p + 1 <= Len(table) THEN Len(table) - (p + 1) + 1 ELSE 0
        /\ \A i \in 1..Len(table) - (p + 1) + 1 :
             SubSeq(table, p + 1, Len(table))[i] = table[p + 1 + i - 1]
    BY <2>1, SubSeqProperties
  <2> QED BY <1>0, <1>1, <2>2
<1> HIDE DEF a, b
<1>4. /\ a \o b \in Seq(S) /\ Len(a \o b) = Len(a) + Len(b)
      /\ \A i \in 1..Len(a) + Len(b) :
           (a \o b)[i] = IF i <= Len(a) THEN a[i] ELSE b[i - Len(a)]
  BY <1>2, <1>3, ConcatProperties
<1>6. PICK r : r = a \o b OBVIOUS
<1>7. Len(r) = Len(table) - 1 /\ DOMAIN r = 1..(Len(table) - 1)
  <2>1. r \in Seq(S) /\ Len(r) = Len(a) + Len(b) BY <1>4, <1>6
  <2>2. Len(r) = Len(table) - 1 BY <1>0, <1>1, <1>2, <1>3, <2>1
  <2> QED BY <2>1, <2>2, LenProperties
<1>8. ASSUME NEW i \in 1..(Len(table) - 1)
      PROVE  r[i] = IF i < p THEN table[i] ELSE table[i + 1]
  <2>0. /\ r[i] = IF i <= p - 1 THEN a[i] ELSE b[i - (p - 1)]
        /\ p - 1 \in Nat /\ i \in Nat /\ p \in Nat
    BY <1>0, <1>1, <1>2, <1>3, <1>4, <1>6
  <2>1. CASE i < p
    <3>1. i \in 1..p - 1 BY <2>0, <2>1
    <3> QED BY <1>2, <2>0, <2>1, <3>1
  <2>2. CASE ~(i < p)
    <3>1. i - (p - 1) \in 1..Len(table) - p BY <1>0, <1>1, <2>0, <2>2
    <3>2. b[i - (p - 1)] = table[p + (i - (p - 1))] BY <1>3, <3>1
    <3>3. p + (i - (p - 1)) = i + 1 BY <2>0
    <3> QED BY <2>0, <2>2, <3>2, <3>3
  <2> QED BY <2>1, <2>2
<1> QED BY <1>1, <1>5, <1>6, <1>7, <1>8

\* remove_global_id removes the entry of the id, and no other.
LEMMA RemovedEntries ==
  ASSUME NEW S, NEW table \in Seq(S), NEW id, UniqueTable(table)
  PROVE  /\ UniqueTable(RemoveGlobalId(table, id))
         /\ \A e : Has(RemoveGlobalId(table, id), e) <=> Has(table, e) /\ e.global_id # id
<1>0. Len(table) \in Nat /\ DOMAIN table = 1..Len(table) BY LenProperties
<1>1. CASE Positions(table, id) = {}
  BY <1>1 DEF RemoveGlobalId, Has, Positions
<1>2. CASE Positions(table, id) # {}
  <2>1. PICK r : r = RemoveGlobalId(table, id) OBVIOUS
  <2>2. PICK p \in 1..Len(table) :
          /\ table[p].global_id = id
          /\ DOMAIN r = 1..(Len(table) - 1)
          /\ \A i \in 1..(Len(table) - 1) : r[i] = IF i < p THEN table[i] ELSE table[i + 1]
    BY <1>2, <2>1, RemovedShape
  <2>3. ASSUME NEW i \in DOMAIN r
        PROVE  \E j \in DOMAIN table : r[i] = table[j] /\ j # p /\ j = IF i < p THEN i ELSE i + 1
    <3>1. CASE i < p BY <1>0, <2>2, <2>3, <3>1
    <3>2. CASE ~(i < p) BY <1>0, <2>2, <2>3, <3>2
    <3> QED BY <3>1, <3>2
  <2>4. ASSUME NEW j \in DOMAIN table, j # p PROVE \E i \in DOMAIN r : r[i] = table[j]
    <3>1. CASE j < p
      <4>1. j \in DOMAIN r BY <1>0, <2>2, <3>1
      <4> QED BY <2>2, <3>1, <4>1
    <3>2. CASE ~(j < p)
      <4>1. j - 1 \in DOMAIN r /\ ~(j - 1 < p) /\ (j - 1) + 1 = j BY <1>0, <2>2, <2>4, <3>2
      <4> QED BY <2>2, <4>1
    <3> QED BY <3>1, <3>2
  <2>5. \A j \in DOMAIN table : j # p => table[j].global_id # id
    BY <1>0, <2>2 DEF UniqueTable
  <2>6. \A e : Has(r, e) <=> Has(table, e) /\ e.global_id # id
    <3> SUFFICES ASSUME NEW e PROVE Has(r, e) <=> Has(table, e) /\ e.global_id # id
      OBVIOUS
    <3>1. ASSUME Has(r, e) PROVE Has(table, e) /\ e.global_id # id
      <4>1. PICK i \in DOMAIN r : r[i] = e BY <3>1 DEF Has
      <4>2. PICK j \in DOMAIN table : r[i] = table[j] /\ j # p BY <2>3
      <4> QED BY <2>5, <4>1, <4>2 DEF Has
    <3>2. ASSUME Has(table, e), e.global_id # id PROVE Has(r, e)
      <4>1. PICK j \in DOMAIN table : table[j] = e BY <3>2 DEF Has
      <4>2. PICK i \in DOMAIN r : r[i] = table[j] BY <2>2, <2>4, <3>2, <4>1
      <4> QED BY <4>1, <4>2 DEF Has
    <3> QED BY <3>1, <3>2
  <2>7. UniqueTable(r)
    <3> SUFFICES ASSUME NEW i \in DOMAIN r, NEW k \in DOMAIN r,
                        r[i].global_id = r[k].global_id \/ r[i].mtype = r[k].mtype
                 PROVE  i = k
      BY DEF UniqueTable
    <3>1. PICK j \in DOMAIN table : r[i] = table[j] /\ j = IF i < p THEN i ELSE i + 1 BY <2>3
    <3>2. PICK l \in DOMAIN table : r[k] = table[l] /\ l = IF k < p THEN k ELSE k + 1 BY <2>3
    <3>3. j = l BY <3>1, <3>2 DEF UniqueTable
    <3> QED BY <1>0, <2>2, <3>1, <3>2, <3>3
  <2> QED BY <2>1, <2>6, <2>7
<1> QED BY <1>1, <1>2

\* add_global_id adds one entry.
LEMMA AddedEntries ==
  ASSUME NEW S, NEW table \in Seq(S), NEW id, NEW pid, Entry(id, pid) \in S
  PROVE  /\ \A e : Has(AddGlobalId(table, id, pid), e) <=> Has(table, e) \/ e = Entry(id, pid)
         /\ UniqueTable(table)
            /\ (\A i \in DOMAIN table : table[i].global_id # id /\ table[i].mtype # pid)
              => UniqueTable(AddGlobalId(table, id, pid))
<1>1. PICK r : r = AddGlobalId(table, id, pid) OBVIOUS
<1>2. Len(table) \in Nat /\ DOMAIN table = 1..Len(table) BY LenProperties
<1>3. /\ DOMAIN r = 1..Len(table) + 1
      /\ \A i \in 1..Len(table) + 1 :
           r[i] = IF i = Len(table) + 1 THEN Entry(id, pid) ELSE table[i]
  BY <1>1, AddGlobalIdType, LenProperties
<1>4. \A e : Has(r, e) <=> Has(table, e) \/ e = Entry(id, pid) BY <1>2, <1>3 DEF Has
<1>5. ASSUME UniqueTable(table),
             \A i \in DOMAIN table : table[i].global_id # id /\ table[i].mtype # pid
      PROVE  UniqueTable(r)
  <2>1. Entry(id, pid).global_id = id /\ Entry(id, pid).mtype = pid BY DEF Entry
  <2> QED BY <1>2, <1>3, <1>5, <2>1 DEF UniqueTable
<1> QED BY <1>1, <1>4, <1>5

\* get_mtype finds the process of the one entry of the id.
LEMMA GetMtypeUnique ==
  ASSUME NEW S, NEW table \in Seq(S), UniqueTable(table), NEW i \in DOMAIN table
  PROVE  GetMtype(table, table[i].global_id) = table[i].mtype
<1>1. i \in Positions(table, table[i].global_id) BY DEF Positions
<1>2. PICK j \in 1..Len(table) : /\ table[j].global_id = table[i].global_id
                                 /\ GetMtype(table, table[i].global_id) = table[j].mtype
  BY <1>1, GetMtypeFound
<1>3. j \in DOMAIN table BY <1>2, LenProperties
<1> QED BY <1>2, <1>3 DEF UniqueTable

-----------------------------------------------------------------------------
(* The ring.                                                               *)

LEMMA Constants ==
  /\ N \in Nat \ {0}
  /\ \A b \in Broker : b \in Nat \ {0} /\ b \notin Client
  /\ \A c \in Client : c \notin Int /\ Home[c] \in Broker
  /\ MAX_CLIENTS \in Nat
BY RingAssumption DEF Broker

\* Numbers of publications and links of the ring, once there, stay.
Kept ==
  /\ \A p \in DOMAIN pubs : p \in DOMAIN pubs' /\ pubs'[p].by = pubs[p].by
  /\ \A b \in Broker : Linked(b) => Linked(b)'

LEMMA NothingLost ==
  ASSUME UNCHANGED <<pubs, ring>>
  PROVE  Kept
BY DEF Kept, Linked

\* What a queue may hold does not shrink.
LEMMA MessagesKept ==
  ASSUME Kept
  PROVE  /\ \A i : PublishedAt(i) \subseteq PublishedAt(i)'
         /\ OnRing \subseteq OnRing'
         /\ Arriving \subseteq Arriving'
         /\ \A b \in Broker : /\ Identified(b) \subseteq Identified(b)'
                              /\ ForWorker(b) \subseteq ForWorker(b)'
                              /\ Answer(b) \subseteq Answer(b)'
         /\ \A c \in Client : FromClient(c) \subseteq FromClient(c)'
<1>1. \A i : PublishedAt(i) \subseteq PublishedAt(i)' BY DEF Kept, PublishedAt
<1>2. OnRing \subseteq OnRing' BY <1>1 DEF OnRing
<1>3. Arriving \subseteq Arriving' BY <1>2 DEF Arriving
<1>4. \A b \in Broker : Identified(b) \subseteq Identified(b)' BY <1>1 DEF Identified
<1>5. \A b \in Broker : Labelled(b) \subseteq Labelled(b)' BY DEF Labelled, Kept, ClientOf
<1>6. \A b \in Broker : Answer(b) \subseteq Answer(b)' BY DEF Answer, ClientOf, Unknown
<1>7. \A c \in Client : FromClient(c) \subseteq FromClient(c)'
  BY <1>4, Constants DEF FromClient, Kept
<1> QED BY <1>1, <1>2, <1>3, <1>4, <1>5, <1>6, <1>7 DEF ForWorker

-----------------------------------------------------------------------------
(* A queue stays well-formed when one of its components gets proper content. *)

LEMMA UpKept == ASSUME UpOK, Kept, up' = up PROVE UpOK'
<1>1. \A c \in Client : up[c] \in Seq(FromClient(c)') BY MessagesKept, SeqMonotonic DEF UpOK
<1>2. \A b \in Broker : up[b] \in Seq(Arriving') BY MessagesKept, SeqMonotonic DEF UpOK
<1> QED BY <1>1, <1>2 DEF UpOK

LEMMA UpChange ==
  ASSUME UpOK, Kept, NEW x \in Connection, NEW q \in Seq(Msg),
         up' = [up EXCEPT ![x] = q],
         x \in Client => q \in Seq(FromClient(x)'),
         x \in Broker => q \in Seq(Arriving')
  PROVE  UpOK'
<1>1. \A c \in Client : up[c] \in Seq(FromClient(c)') BY MessagesKept, SeqMonotonic DEF UpOK
<1>2. \A b \in Broker : up[b] \in Seq(Arriving') BY MessagesKept, SeqMonotonic DEF UpOK
<1>3. up' \in [Connection -> Seq(Msg)] BY DEF UpOK
<1>4. \A y \in Connection : up'[y] = IF y = x THEN q ELSE up[y] BY DEF UpOK
<1>5. Client \subseteq Connection /\ Broker \subseteq Connection BY DEF Connection
<1> QED BY <1>1, <1>2, <1>3, <1>4, <1>5 DEF UpOK

LEMMA WorkQKept == ASSUME WorkQOK, Kept, workerQ' = workerQ PROVE WorkQOK'
<1>1. \A b \in Broker : workerQ[b] \in Seq(ForWorker(b)')
  BY MessagesKept, SeqMonotonic DEF WorkQOK
<1> QED BY <1>1 DEF WorkQOK

LEMMA WorkQChange ==
  ASSUME WorkQOK, Kept, NEW b \in Broker, NEW q \in Seq(Msg),
         workerQ' = [workerQ EXCEPT ![b] = q], q \in Seq(ForWorker(b)')
  PROVE  WorkQOK'
<1>1. \A d \in Broker : workerQ[d] \in Seq(ForWorker(d)')
  BY MessagesKept, SeqMonotonic DEF WorkQOK
<1>2. workerQ' \in [Broker -> Seq(Msg)] BY DEF WorkQOK
<1>3. \A d \in Broker : workerQ'[d] = IF d = b THEN q ELSE workerQ[d] BY DEF WorkQOK
<1> QED BY <1>1, <1>2, <1>3 DEF WorkQOK

LEMMA RespQKept == ASSUME RespQOK, Kept, respQ' = respQ PROVE RespQOK'
<1>1. \A b \in Broker : respQ[b] \in Seq(OnRing') BY MessagesKept, SeqMonotonic DEF RespQOK
<1> QED BY <1>1 DEF RespQOK

LEMMA RespQChange ==
  ASSUME RespQOK, Kept, NEW x \in Connection, NEW q \in Seq(Msg),
         respQ' = [respQ EXCEPT ![x] = q], x \in Broker => q \in Seq(OnRing')
  PROVE  RespQOK'
<1>1. \A b \in Broker : respQ[b] \in Seq(OnRing') BY MessagesKept, SeqMonotonic DEF RespQOK
<1>2. respQ' \in [Connection -> Seq(Msg)] BY DEF RespQOK
<1>3. \A y \in Connection : respQ'[y] = IF y = x THEN q ELSE respQ[y] BY DEF RespQOK
<1>4. Broker \subseteq Connection BY DEF Connection
<1> QED BY <1>1, <1>2, <1>3, <1>4 DEF RespQOK

LEMMA TablesKept ==
  ASSUME TablesOK, UNCHANGED <<ids, ring>>
  PROVE  TablesOK'
BY DEF TablesOK, Linked, ClientOf

\* A table with a new entry: the ring connection's, or a client's after it.
LEMMA TableGrows ==
  ASSUME TablesOK, NEW b \in Broker, NEW id \in Nat, NEW pid \in Connection,
         ~IsFull(ids[b], MAX_CLIENTS),
         ids' = [ids EXCEPT ![b] = AddGlobalId(ids[b], id, pid)],
         \A d \in Broker : Linked(d)' <=> Linked(d) \/ d = b,
         \/ id = NEXT_SERVER_GLOBAL_ID /\ pid = b
         \/ id # NEXT_SERVER_GLOBAL_ID /\ ClientOf(b, pid) /\ Linked(b)
  PROVE  TablesOK'
<1> DEFINE E == [global_id : Nat, mtype : Connection]
           old == ids[b]
           t == AddGlobalId(old, id, pid)
<1>1. old \in Seq(E) /\ Len(old) \in Nat BY LenProperties DEF TablesOK
<1>2. /\ Entry(id, pid) \in E
      /\ Entry(id, pid).global_id = id /\ Entry(id, pid).mtype = pid
  BY DEF Entry
<1>3. /\ t \in Seq(E) /\ Len(t) = Len(old) + 1
      /\ \A i \in 1..Len(old) + 1 :
           t[i] = IF i = Len(old) + 1 THEN Entry(id, pid) ELSE old[i]
      /\ Positions(t, id) # {}
      /\ Positions(old, NEXT_SERVER_GLOBAL_ID) # {}
           => Positions(t, NEXT_SERVER_GLOBAL_ID) # {}
  <2>1. Entry(id, pid) \in E BY <1>2
  <2> HIDE DEF E, old
  <2>2. \A other : Positions(old, other) # {} => Positions(t, other) # {}
    BY ONLY <1>1, <2>1, AddGlobalIdType, SMTT(40)
  <2>3. t \in Seq(E) /\ Len(t) = Len(old) + 1
    BY ONLY <1>1, <2>1, AddGlobalIdType
  <2>4. \A i \in 1..Len(old) + 1 : t[i] = IF i = Len(old) + 1 THEN Entry(id, pid) ELSE old[i]
    BY ONLY <1>1, <2>1, AddGlobalIdType
  <2>5. Positions(t, id) # {}
    BY ONLY <1>1, <2>1, AddGlobalIdType
  <2> QED BY <2>2, <2>3, <2>4, <2>5
<1>4. Len(t) <= MAX_CLIENTS BY <1>1, <1>3, Constants DEF IsFull
<1>5. ids' = [ids EXCEPT ![b] = t] OBVIOUS
<1> HIDE DEF t, E
<1>6. \A d \in Broker : ids'[d] = IF d = b THEN t ELSE ids[d] BY <1>5 DEF TablesOK
<1>7. ids' \in [Broker -> Seq(E)] BY <1>3, <1>5 DEF TablesOK, E
<1>8. \A i \in 1..Len(t) : IF t[i].global_id = NEXT_SERVER_GLOBAL_ID THEN t[i].mtype = b
                           ELSE ClientOf(b, t[i].mtype)
  <2> TAKE i \in 1..Len(t)
  <2>1. CASE i = Len(old) + 1 BY <1>1, <1>2, <1>3, <2>1
  <2>2. CASE i # Len(old) + 1
    <3>1. i \in 1..Len(old) /\ t[i] = old[i] BY <1>1, <1>3, <2>2
    <3> QED BY <3>1 DEF TablesOK
  <2> QED BY <2>1, <2>2
<1>9. Positions(t, NEXT_SERVER_GLOBAL_ID) # {} BY <1>3 DEF TablesOK
<1>10. Linked(b)' OBVIOUS
<1>11. \A d \in Broker \ {b} : ids'[d] = ids[d] /\ (Linked(d)' <=> Linked(d))
  BY <1>6
<1>12. \A d \in Broker \ {b} :
         /\ Len(ids'[d]) <= MAX_CLIENTS
         /\ \A i \in 1..Len(ids'[d]) :
              /\ Linked(d)'
              /\ IF ids'[d][i].global_id = NEXT_SERVER_GLOBAL_ID THEN ids'[d][i].mtype = d
                 ELSE ClientOf(d, ids'[d][i].mtype)
         /\ Linked(d)' => Positions(ids'[d], NEXT_SERVER_GLOBAL_ID) # {}
  BY <1>11 DEF TablesOK
<1>13. ids'[b] = t BY <1>6
<1> QED BY <1>4, <1>7, <1>8, <1>9, <1>10, <1>12, <1>13 DEF TablesOK, E, ClientOf

LEMMA ClientsKept ==
  ASSUME ClientsOK, UNCHANGED <<ring, conn, clientPart, pubs>>, strayed' \subseteq Nat
  PROVE  ClientsOK'
BY DEF ClientsOK, Linked, clientPart

LEMMA DbKept == ASSUME DbOK, UNCHANGED dbVars PROVE DbOK'
BY DEF DbOK, DbTypeOK, NoOrphanLines, dbVars

-----------------------------------------------------------------------------
(* The workers.                                                            *)

LEMMA WorkerKept ==
  ASSUME Kept, NEW b \in Broker, WorkerOK(b),
         wpc'[b] = wpc[b], wmsg'[b] = wmsg[b], wsubs'[b] = wsubs[b]
  PROVE  WorkerOK(b)'
BY MessagesKept DEF WorkerOK, Kept, ClientOf

LEMMA WorkersKept ==
  ASSUME WorkersOK, Kept, UNCHANGED workerPart
  PROVE  WorkersOK'
<1>1. UNCHANGED <<wpc, wmsg, wsubs, wrelayed>> BY DEF workerPart
<1>2. \A b \in Broker : WorkerOK(b)' BY <1>1, WorkerKept DEF WorkersOK
<1> QED BY <1>1, <1>2 DEF WorkersOK

LEMMA WorkersChange ==
  ASSUME WorkersOK, Kept, NEW b \in Broker, WorkerOK(b)',
         wpc' \in [Broker -> Steps], wmsg' \in [Broker -> Msg],
         wsubs' \in [Broker -> SUBSET Line], wrelayed' \in [Broker -> BOOLEAN],
         \A d \in Broker \ {b} :
           wpc'[d] = wpc[d] /\ wmsg'[d] = wmsg[d] /\ wsubs'[d] = wsubs[d]
  PROVE  WorkersOK'
<1>1. \A d \in Broker \ {b} : WorkerOK(d)' BY WorkerKept DEF WorkersOK
<1> QED BY <1>1 DEF WorkersOK

\* The worker of b goes on to another step.
LEMMA WorkerGoes ==
  ASSUME WorkersOK, Kept, NEW b \in Broker, NEW step \in Steps, NEW m \in Msg,
         GoTo(b, step, m),
         wsubs' = wsubs \/ \E lines \in SUBSET Line : wsubs' = [wsubs EXCEPT ![b] = lines],
         wrelayed' = wrelayed \/ \E f \in BOOLEAN : wrelayed' = [wrelayed EXCEPT ![b] = f],
         wpc'[b] = step /\ wmsg'[b] = m => WorkerOK(b)'
  PROVE  WorkersOK'
<1>1. wpc' = [wpc EXCEPT ![b] = step] /\ wmsg' = [wmsg EXCEPT ![b] = m] BY DEF GoTo
<1>2. /\ wpc' \in [Broker -> Steps]
      /\ wmsg' \in [Broker -> Msg]
      /\ wsubs' \in [Broker -> SUBSET Line]
      /\ wrelayed' \in [Broker -> BOOLEAN]
  BY <1>1 DEF WorkersOK
<1>3. \A d \in Broker \ {b} :
        wpc'[d] = wpc[d] /\ wmsg'[d] = wmsg[d] /\ wsubs'[d] = wsubs[d]
  BY <1>1 DEF WorkersOK
<1>4. wpc'[b] = step /\ wmsg'[b] = m BY <1>1 DEF WorkersOK
<1> QED BY <1>2, <1>3, <1>4, WorkersChange

LEMMA IdleMsg == Idle \in Msg
BY RingAssumption DEF Idle, NewRequest, Msg, Request, Ack, Broker

LEMMA WorkerForgets ==
  ASSUME WorkersOK, Kept, NEW b \in Broker, Forget(b)
  PROVE  WorkersOK'
<1>1. GoTo(b, "idle", Idle) /\ wsubs' = [wsubs EXCEPT ![b] = {}]
      /\ wrelayed' = [wrelayed EXCEPT ![b] = FALSE]
  BY DEF Forget
<1>2. wpc'[b] = "idle" => WorkerOK(b)' BY DEF WorkerOK
<1>3. "idle" \in Steps BY DEF Steps
<1> QED BY <1>1, <1>2, <1>3, IdleMsg, WorkerGoes

-----------------------------------------------------------------------------
(* Joining the ring and accepting connections.                             *)

LEMMA RingConnectOK ==
  ASSUME Inv, NEW b \in Broker, RingConnect(b)
  PROVE  Inv'
<1> USE DEF Inv
<1>1. ring' = [ring EXCEPT ![b] = "connected"] /\ ring[b] = "boot" BY DEF RingConnect
<1>2. \A d \in Broker : Linked(d)' <=> Linked(d) BY <1>1 DEF Linked, ClientsOK
<1>3. Kept BY <1>2 DEF Kept, RingConnect
<1>4. DbOK' BY DbKept DEF RingConnect
<1>5. ClientsOK'
  <2>1. ring' \in [Broker -> {"boot", "connected", "linked", "serving"}]
    BY <1>1 DEF ClientsOK
  <2>2. \A c \in Client : conn'[c] # "off" => Linked(Home[c])'
    BY <1>2, Constants DEF ClientsOK, RingConnect
  <2> QED BY <2>1, <2>2 DEF ClientsOK, RingConnect, clientPart
<1>6. TablesOK' BY <1>2 DEF TablesOK, RingConnect, ClientOf
<1>7. UpOK' /\ WorkQOK' /\ RespQOK'
  BY <1>3, UpKept, WorkQKept, RespQKept DEF RingConnect
<1>8. DownOK' BY DEF DownOK, RingConnect, ToClient
<1>9. WorkersOK' BY <1>3, WorkersKept DEF RingConnect
<1> QED BY <1>4, <1>5, <1>6, <1>7, <1>8, <1>9

LEMMA StartServingOK ==
  ASSUME Inv, NEW b \in Broker, StartServing(b)
  PROVE  Inv'
<1> USE DEF Inv
<1>1. ring' = [ring EXCEPT ![b] = "serving"] /\ ring[b] = "linked"
  BY DEF StartServing, ReadyToServe
<1>2. \A d \in Broker : Linked(d)' <=> Linked(d) BY <1>1 DEF Linked, ClientsOK
<1>3. Kept BY <1>2 DEF Kept, StartServing
<1>4. DbOK' BY DbKept DEF StartServing
<1>5. ClientsOK'
  <2>1. ring' \in [Broker -> {"boot", "connected", "linked", "serving"}]
    BY <1>1 DEF ClientsOK
  <2>2. \A c \in Client : conn'[c] # "off" => Linked(Home[c])'
    BY <1>2, Constants DEF ClientsOK, StartServing
  <2> QED BY <2>1, <2>2 DEF ClientsOK, StartServing, clientPart
<1>6. TablesOK' BY <1>2 DEF TablesOK, StartServing, ClientOf
<1>7. UpOK' /\ WorkQOK' /\ RespQOK'
  BY <1>3, UpKept, WorkQKept, RespQKept DEF StartServing
<1>8. DownOK' BY DEF DownOK, StartServing, ToClient
<1>9. WorkersOK' BY <1>3, WorkersKept DEF StartServing
<1> QED BY <1>4, <1>5, <1>6, <1>7, <1>8, <1>9

\* The new entry is the one of id 0; the table had none before.
LEMMA RingRegisterOK ==
  ASSUME Inv, NEW b \in Broker, RingRegister(b)
  PROVE  Inv'
<1> USE DEF Inv
<1>1. ring' = [ring EXCEPT ![b] = "linked"] /\ ring[b] = "connected" BY DEF RingRegister
<1>2. \A d \in Broker : Linked(d)' <=> Linked(d) \/ d = b BY <1>1 DEF Linked, ClientsOK
<1>3. Kept BY <1>2 DEF Kept, RingRegister
<1>4. DbOK' BY DbKept DEF RingRegister
<1>5. ClientsOK'
  <2>1. ring' \in [Broker -> {"boot", "connected", "linked", "serving"}]
    BY <1>1 DEF ClientsOK
  <2>2. \A c \in Client : conn'[c] # "off" => Linked(Home[c])'
    BY <1>2, Constants DEF ClientsOK, RingRegister
  <2> QED BY <2>1, <2>2 DEF ClientsOK, RingRegister, clientPart
<1>6. TablesOK'
  <2>1. ids' = [ids EXCEPT ![b] = AddGlobalId(ids[b], NEXT_SERVER_GLOBAL_ID, b)]
        /\ ~IsFull(ids[b], MAX_CLIENTS)
    BY DEF RingRegister
  <2>2. NEXT_SERVER_GLOBAL_ID \in Nat /\ b \in Connection
    BY DEF NEXT_SERVER_GLOBAL_ID, Connection
  <2> QED BY <1>2, <2>1, <2>2, TableGrows
<1>7. UpOK' /\ WorkQOK' /\ RespQOK'
  BY <1>3, UpKept, WorkQKept, RespQKept DEF RingRegister
<1>8. DownOK' BY DEF DownOK, RingRegister, ToClient
<1>9. WorkersOK' BY <1>3, WorkersKept DEF RingRegister
<1> QED BY <1>4, <1>5, <1>6, <1>7, <1>8, <1>9

LEMMA AcceptClientOK ==
  ASSUME Inv, NEW c \in Client, AcceptClient(c)
  PROVE  Inv'
<1> USE DEF Inv
<1>1. Kept BY NothingLost DEF AcceptClient
<1>2. DbOK' BY DbKept DEF AcceptClient
<1>3. ClientsOK' BY DEF ClientsOK, AcceptClient, Linked, clientPart
<1>4. TablesOK' BY TablesKept DEF AcceptClient
<1>5. UpOK' /\ WorkQOK' /\ RespQOK'
  BY <1>1, UpKept, WorkQKept, RespQKept DEF AcceptClient
<1>6. DownOK' BY DEF DownOK, AcceptClient, ToClient
<1>7. WorkersOK' BY <1>1, WorkersKept DEF AcceptClient
<1> QED BY <1>2, <1>3, <1>4, <1>5, <1>6, <1>7

\* The history of publications keeps its length and its authors.
LEMMA AudienceShrinks ==
  ASSUME ClientsOK, NEW c,
         pubs' = [p \in DOMAIN pubs |-> [pubs[p] EXCEPT !.audience = @ \ {c}]]
  PROVE  /\ pubs' \in Seq([by : Client, topic : Topic, audience : SUBSET Client])
         /\ \A p \in DOMAIN pubs : p \in DOMAIN pubs' /\ pubs'[p].by = pubs[p].by
<1> DEFINE P == [by : Client, topic : Topic, audience : SUBSET Client]
<1>1. /\ Len(pubs) \in Nat /\ DOMAIN pubs = 1..Len(pubs)
      /\ \A p \in 1..Len(pubs) : pubs[p] \in P
  BY LenProperties, ElementOfSeq DEF ClientsOK
<1>2. \A p \in 1..Len(pubs) : [pubs[p] EXCEPT !.audience = @ \ {c}] \in P
  BY <1>1
<1>3. pubs' \in [1..Len(pubs) -> P] BY <1>1, <1>2
<1>4. pubs' \in Seq(P) BY <1>1, <1>3, SeqDef
<1>5. \A p \in DOMAIN pubs : p \in DOMAIN pubs' /\ pubs'[p].by = pubs[p].by BY <1>1
<1> QED BY <1>4, <1>5

LEMMA PublishersAreClients ==
  ASSUME ClientsOK
  PROVE  \A p \in DOMAIN pubs : pubs[p].by \in Client
<1> DEFINE P == [by : Client, topic : Topic, audience : SUBSET Client]
<1>1. DOMAIN pubs = 1..Len(pubs) /\ pubs \in [1..Len(pubs) -> P]
  <2> pubs \in Seq(P) BY DEF ClientsOK
  <2> HIDE DEF P
  <2> QED BY LenProperties
<1>2. \A p \in DOMAIN pubs : pubs[p] \in P
  <2> HIDE DEF P
  <2> QED BY <1>1
<1> QED BY <1>2

LEMMA LoseClientOK ==
  ASSUME Inv, NEW c \in Client, LoseClient(c)
  PROVE  Inv'
<1> USE DEF Inv
<1>1. /\ pubs' \in Seq([by : Client, topic : Topic, audience : SUBSET Client])
      /\ \A p \in DOMAIN pubs : p \in DOMAIN pubs' /\ pubs'[p].by = pubs[p].by
  BY AudienceShrinks DEF LoseClient
<1>2. Kept BY <1>1 DEF Kept, LoseClient, Linked
<1>3. DbOK' BY DbKept DEF LoseClient
<1>4. ClientsOK' BY <1>1 DEF ClientsOK, LoseClient, Linked, clientPart
<1>5. TablesOK' BY TablesKept DEF LoseClient
<1>6. UpOK' /\ WorkQOK' /\ RespQOK'
  BY <1>2, UpKept, WorkQKept, RespQKept DEF LoseClient
<1>7. DownOK'
  <2>1. <<>> \in Seq(ToClient) BY EmptySeq
  <2> QED BY <2>1 DEF DownOK, LoseClient, ToClient
<1>8. WorkersOK' BY <1>2, WorkersKept DEF LoseClient
<1> QED BY <1>3, <1>4, <1>5, <1>6, <1>7, <1>8

LEMMA EndHandlersOK ==
  ASSUME Inv, NEW c \in Client, EndHandlers(c)
  PROVE  Inv'
<1> USE DEF Inv
<1>1. Kept BY NothingLost DEF EndHandlers
<1>2. DbOK' BY DbKept DEF EndHandlers
<1>3. ClientsOK' BY DEF ClientsOK, EndHandlers, Linked, clientPart
<1>4. TablesOK' BY TablesKept DEF EndHandlers
<1>5. UpOK' /\ WorkQOK' /\ RespQOK'
  BY <1>1, UpKept, WorkQKept, RespQKept DEF EndHandlers
<1>6. DownOK' BY DEF DownOK, EndHandlers, ToClient
<1>7. WorkersOK' BY <1>1, WorkersKept DEF EndHandlers
<1> QED BY <1>2, <1>3, <1>4, <1>5, <1>6, <1>7

-----------------------------------------------------------------------------
(* Requests of the clients.                                                *)

\* What every request has in common.
LEMMA SendOK ==
  ASSUME Inv, Kept, NEW c \in Client, NEW m \in Msg, Send(c, m), m \in FromClient(c)'
  PROVE  DbOK' /\ TablesOK' /\ UpOK' /\ WorkQOK' /\ RespQOK' /\ DownOK' /\ WorkersOK'
<1> USE DEF Inv
<1>1. DbOK' BY DbKept DEF Send
<1>2. TablesOK' BY TablesKept DEF Send
<1>3. UpOK'
  <2>1. up' = [up EXCEPT ![c] = Append(up[c], m)] BY DEF Send
  <2>2. c \in Connection /\ c \notin Broker BY Constants DEF Connection
  <2>3. Append(up[c], m) \in Seq(Msg) BY <2>2 DEF UpOK
  <2>4. up[c] \in Seq(FromClient(c)') BY MessagesKept, SeqMonotonic DEF UpOK
  <2>5. Append(up[c], m) \in Seq(FromClient(c)') BY <2>4
  <2> QED BY <2>1, <2>2, <2>3, <2>5, UpChange
<1>4. WorkQOK' /\ RespQOK' BY WorkQKept, RespQKept DEF Send
<1>5. DownOK' BY DEF DownOK, Send, ToClient
<1>6. WorkersOK' BY WorkersKept DEF Send
<1> QED BY <1>1, <1>2, <1>3, <1>4, <1>5, <1>6

LEMMA NewRequestMsg ==
  ASSUME NEW type \in Request, NEW id \in Nat, NEW topic \in Topic \cup {NoTopic},
         NEW pub \in Nat
  PROVE  /\ NewRequest(type, id, topic, pub) \in Msg
         /\ NewRequest(type, id, topic, pub).type = type
         /\ NewRequest(type, id, topic, pub).mtype = id
         /\ NewRequest(type, id, topic, pub).topic = topic
         /\ NewRequest(type, id, topic, pub).pub = pub
         /\ NewRequest(type, id, topic, pub).broker_id = 0
BY DEF NewRequest, Msg

LEMMA CreateOK ==
  ASSUME Inv, NEW c \in Client, Create(c)
  PROVE  Inv'
<1> DEFINE m == NewRequest("CREATE", 0, NoTopic, 0)
<1>1. Kept BY NothingLost DEF Create, Send
<1>2. m \in Msg /\ m.type = "CREATE" /\ m.mtype = 0 BY NewRequestMsg DEF Request
<1>3. Send(c, m) BY DEF Create
<1> HIDE DEF m
<1>4. Linked(Home[c])' BY DEF Inv, ClientsOK, Create, Send, Linked
<1>5. m \in FromClient(c)' BY <1>2, <1>4 DEF FromClient
<1>6. ClientsOK'
  <2>1. m.type \in Request BY <1>2 DEF Request
  <2>2. wait' = [wait EXCEPT ![c] = m.type] BY <1>3 DEF Send
  <2> QED BY <2>1, <2>2 DEF Inv, ClientsOK, Create, Send, Linked
<1> QED BY <1>1, <1>2, <1>3, <1>5, <1>6, SendOK DEF Inv

LEMMA SubscribeToOK ==
  ASSUME Inv, NEW c \in Client, NEW t \in Topic, SubscribeTo(c, t)
  PROVE  Inv'
<1> DEFINE m == NewRequest("SUBSCRIBE", gid[c], t, 0)
<1>1. Kept BY NothingLost DEF SubscribeTo, Send
<1>2. gid[c] \in Nat \ {0} BY DEF Inv, ClientsOK, SubscribeTo
<1>3. /\ m \in Msg /\ m.type = "SUBSCRIBE" /\ m.mtype = gid[c]
      /\ m.topic = t /\ m.broker_id = 0
  BY <1>2, NewRequestMsg DEF Request
<1>4. Send(c, m) BY DEF SubscribeTo
<1> HIDE DEF m
<1>5. m \in FromClient(c)' BY <1>2, <1>3 DEF FromClient, Identified, Request
<1>6. ClientsOK'
  <2>1. m.type \in Request BY <1>3 DEF Request
  <2>2. wait' = [wait EXCEPT ![c] = m.type] BY <1>4 DEF Send
  <2>3. asked' = [asked EXCEPT ![c][t] = @ + 1] BY DEF SubscribeTo
  <2>4. asked' \in [Client -> [Topic -> Nat]] BY <2>3 DEF Inv, ClientsOK
  <2> QED BY <2>1, <2>2, <2>4 DEF Inv, ClientsOK, SubscribeTo, Send, Linked
<1> QED BY <1>1, <1>3, <1>4, <1>5, <1>6, SendOK DEF Inv

\* The new publication is the last of the history.
LEMMA PublishOK ==
  ASSUME Inv, NEW c \in Client, NEW t \in Topic, Publish(c, t)
  PROVE  Inv'
<1> DEFINE P == [by : Client, topic : Topic, audience : SUBSET Client]
           m == NewRequest("PUBLISH", gid[c], t, Len(pubs) + 1)
           new == [by |-> c, topic |-> t, audience |-> {d \in Client : Subscribed(d, t)}]
<1>1. /\ pubs' = Append(pubs, new) /\ new \in P /\ new.by = c
      /\ pubs \in Seq(P) /\ Len(pubs) \in Nat
  BY LenProperties DEF Publish, Inv, ClientsOK
<1>2. gid[c] \in Nat \ {0} BY DEF Inv, ClientsOK, Publish
<1>3. /\ m \in Msg /\ m.type = "PUBLISH" /\ m.mtype = gid[c]
      /\ m.topic = t /\ m.broker_id = 0 /\ m.pub = Len(pubs) + 1
  BY <1>1, <1>2, NewRequestMsg DEF Request
<1>4. Send(c, m) BY DEF Publish
<1> HIDE DEF m, new, P
<1>5. /\ pubs' \in Seq(P) /\ Len(pubs') = Len(pubs) + 1
      /\ DOMAIN pubs = 1..Len(pubs) /\ DOMAIN pubs' = 1..Len(pubs')
      /\ \A p \in 1..Len(pubs) : pubs'[p] = pubs[p]
      /\ pubs'[Len(pubs) + 1] = new
  BY <1>1, LenProperties
<1>6. Kept BY <1>1, <1>5 DEF Kept, Publish, Send, Linked
<1>7. m.pub \in PublishedAt(Home[c])' BY <1>1, <1>3, <1>5 DEF PublishedAt, Publish, Send
<1>8. m \in FromClient(c)' BY <1>2, <1>3, <1>7 DEF FromClient, Identified, Request
<1>9. ClientsOK'
  <2>1. m.type \in Request BY <1>3 DEF Request
  <2>2. wait' = [wait EXCEPT ![c] = m.type] BY <1>4 DEF Send
  <2> QED BY <1>5, <2>1, <2>2 DEF P, Inv, ClientsOK, Publish, Send, Linked
<1> QED BY <1>3, <1>4, <1>6, <1>8, <1>9, SendOK DEF Inv

LEMMA DestroyOK ==
  ASSUME Inv, NEW c \in Client, Destroy(c)
  PROVE  Inv'
<1> DEFINE m == NewRequest("DESTROY", gid[c], NoTopic, 0)
<1>1. /\ pubs' \in Seq([by : Client, topic : Topic, audience : SUBSET Client])
      /\ \A p \in DOMAIN pubs : p \in DOMAIN pubs' /\ pubs'[p].by = pubs[p].by
  BY AudienceShrinks DEF Destroy, Inv
<1>2. Kept BY <1>1 DEF Kept, Destroy, Send, Linked
<1>3. gid[c] \in Nat \ {0} BY DEF Inv, ClientsOK, Destroy
<1>4. m \in Msg /\ m.type = "DESTROY" /\ m.mtype = gid[c] /\ m.broker_id = 0
  <2>1. "DESTROY" \in Request /\ NoTopic \in Topic \cup {NoTopic} /\ 0 \in Nat
    BY DEF Request
  <2>2. gid[c] \in Nat BY <1>3
  <2> QED BY ONLY <2>1, <2>2, NewRequestMsg
<1>5. Send(c, m) BY DEF Destroy
<1> HIDE DEF m
<1>6. m \in FromClient(c)' BY <1>3, <1>4 DEF FromClient, Identified, Request
<1>7. ClientsOK'
  <2>1. m.type \in Request BY <1>4 DEF Request
  <2>2. wait' = [wait EXCEPT ![c] = m.type] BY <1>5 DEF Send
  <2> QED BY <1>1, <2>1, <2>2 DEF Inv, ClientsOK, Destroy, Send, Linked
<1> QED BY <1>2, <1>4, <1>5, <1>6, <1>7, SendOK DEF Inv

LEMMA ClientReceiveOK ==
  ASSUME Inv, NEW c \in Client, ClientReceive(c)
  PROVE  Inv'
<1> USE DEF Inv
<1> DEFINE m == Head(down[c])
<1>1. m \in ToClient /\ Tail(down[c]) \in Seq(ToClient)
  BY HeadTailProperties DEF DownOK, ClientReceive
<1>2. Kept BY NothingLost DEF ClientReceive
<1>3. DbOK' BY DbKept DEF ClientReceive
<1>4. ClientsOK'
  <2>1. gid' = gid \/ gid' = [gid EXCEPT ![c] = m.mtype] \/ gid' = [gid EXCEPT ![c] = 0]
    BY DEF ClientReceive
  <2>2. wait' = wait \/ wait' = [wait EXCEPT ![c] = "none"]
    BY DEF ClientReceive
  <2>3. asked' = asked \/ asked' = [asked EXCEPT ![c] = [t \in Topic |-> 0]]
    BY DEF ClientReceive
  <2>4. \/ got' = got \/ got' = [got EXCEPT ![c] = [p \in 1..MaxPubs |-> 0]]
        \/ got' = [got EXCEPT ![c][m.pub] = @ + 1]
    BY DEF ClientReceive
  <2>5. m.mtype \in Nat BY <1>1 DEF ToClient
  <2> HIDE DEF m
  <2>6. gid \in [Client -> Nat] /\ wait \in [Client -> Request \cup {"none"}]
    BY DEF ClientsOK
  <2>7. gid' \in [Client -> Nat] BY <2>1, <2>5, <2>6
  <2>8. wait' \in [Client -> Request \cup {"none"}] BY <2>2, <2>6
  <2>9. asked' \in [Client -> [Topic -> Nat]]
    <3>1. [t \in Topic |-> 0] \in [Topic -> Nat] OBVIOUS
    <3>2. asked \in [Client -> [Topic -> Nat]] BY DEF ClientsOK
    <3> QED BY <2>3, <3>1, <3>2
  <2>10. got' \in [Client -> [1..MaxPubs -> Nat]]
    <3>1. [p \in 1..MaxPubs |-> 0] \in [1..MaxPubs -> Nat] OBVIOUS
    <3>2. got \in [Client -> [1..MaxPubs -> Nat]] BY DEF ClientsOK
    <3>3. CASE got' = got \/ got' = [got EXCEPT ![c] = [p \in 1..MaxPubs |-> 0]]
      BY <3>1, <3>2, <3>3
    <3>4. CASE got' = [got EXCEPT ![c][m.pub] = @ + 1]
      <4>1. [got[c] EXCEPT ![m.pub] = @ + 1] \in [1..MaxPubs -> Nat]
        <5> DEFINE h == got[c]
        <5>1. h \in [1..MaxPubs -> Nat] BY <3>2
        <5> HIDE DEF h
        <5>2. m.pub \in 1..MaxPubs => h[m.pub] + 1 \in Nat BY <5>1
        <5>3. [h EXCEPT ![m.pub] = h[m.pub] + 1] \in [1..MaxPubs -> Nat] BY <5>1, <5>2
        <5> QED BY <5>3 DEF h
      <4>2. got' = [got EXCEPT ![c] = [got[c] EXCEPT ![m.pub] = @ + 1]] BY <3>4
      <4> QED BY <3>2, <4>1, <4>2
    <3> QED BY <2>4, <3>3, <3>4
  <2> QED BY <2>7, <2>8, <2>9, <2>10 DEF ClientsOK, ClientReceive, Linked
<1>5. TablesOK' BY TablesKept DEF ClientReceive
<1>6. UpOK' /\ WorkQOK' /\ RespQOK'
  BY <1>2, UpKept, WorkQKept, RespQKept DEF ClientReceive
<1>7. DownOK' BY <1>1 DEF DownOK, ClientReceive, ToClient
<1>8. WorkersOK' BY <1>2, WorkersKept DEF ClientReceive
<1> QED BY <1>3, <1>4, <1>5, <1>6, <1>7, <1>8

-----------------------------------------------------------------------------
(* The handlers of a connection.                                           *)

LEMMA ReqHandlerOK ==
  ASSUME Inv, NEW x \in Connection, ReqHandler(x)
  PROVE  Inv'
<1> USE DEF Inv
<1> DEFINE m == Head(up[x])
           b == Server(x)
           l == IF m.type = "CREATE" THEN [m EXCEPT !.mtype = x] ELSE m
<1>1. Kept BY NothingLost DEF ReqHandler
<1>2. DbOK' /\ ClientsOK' /\ TablesOK' /\ RespQOK'
  BY <1>1, DbKept, ClientsKept, TablesKept, RespQKept DEF ReqHandler, ClientsOK
<1>3. DownOK' BY DEF DownOK, ReqHandler, ToClient
<1>4. WorkersOK' BY <1>1, WorkersKept DEF ReqHandler
<1>5. up[x] \in Seq(Msg) /\ up[x] # <<>> BY DEF UpOK, ReqHandler
<1>6. m \in Msg /\ Tail(up[x]) \in Seq(Msg) BY <1>5, HeadTailProperties
<1>7. b \in Broker BY Constants DEF Server, Connection
<1>8. CASE x \in Client
  <2>1. m \in FromClient(x) /\ Tail(up[x]) \in Seq(FromClient(x))
    BY <1>5, <1>8, HeadTailProperties DEF UpOK
  <2>2. UpOK'
    <3>1. Tail(up[x]) \in Seq(FromClient(x)')
      BY <1>1, <1>8, <2>1, MessagesKept, SeqMonotonic
    <3>2. x \notin Broker BY <1>8, Constants
    <3> QED BY <1>1, <1>6, <3>1, <3>2, UpChange DEF ReqHandler
  <2>3. b = Home[x] BY <1>8, Constants DEF Server
  <2>4. l \in Msg /\ l \in ForWorker(b)
    <3>1. CASE m.type = "CREATE"
      <4>1. l \in Msg /\ l.type = "CREATE" /\ l.mtype = x
        BY <1>6, <1>8, <3>1 DEF Msg
      <4>2. Linked(b) BY <2>1, <2>3, <3>1 DEF FromClient, Identified
      <4> HIDE DEF l
      <4> QED BY <1>8, <2>3, <4>1, <4>2 DEF ForWorker, Labelled, ClientOf
    <3>2. CASE m.type # "CREATE"
      <4>1. m \in Identified(b) BY <2>1, <2>3, <3>2 DEF FromClient
      <4> QED BY <1>6, <3>2, <4>1 DEF ForWorker
    <3> QED BY <3>1, <3>2
  <2>5. WorkQOK'
    <3>1. workerQ' = [workerQ EXCEPT ![b] = Append(workerQ[b], l)] BY DEF ReqHandler
    <3> HIDE DEF l, b
    <3>2. workerQ[b] \in Seq(Msg) /\ workerQ[b] \in Seq(ForWorker(b)) BY <1>7 DEF WorkQOK
    <3>3. Append(workerQ[b], l) \in Seq(Msg) /\ Append(workerQ[b], l) \in Seq(ForWorker(b))
      BY <2>4, <3>2
    <3>4. Append(workerQ[b], l) \in Seq(ForWorker(b)')
      BY <1>1, <1>7, <3>3, MessagesKept, SeqMonotonic
    <3> QED BY <1>1, <1>7, <3>1, <3>3, <3>4, WorkQChange
  <2> QED BY <1>2, <1>3, <1>4, <2>2, <2>5
<1>9. CASE x \in Broker
  <2>1. m \in Arriving /\ Tail(up[x]) \in Seq(Arriving)
    BY <1>5, <1>9, HeadTailProperties DEF UpOK
  <2>2. UpOK'
    <3>1. Tail(up[x]) \in Seq(Arriving') BY <1>1, <2>1, MessagesKept, SeqMonotonic
    <3>2. x \notin Client BY <1>9, Constants
    <3> QED BY <1>1, <1>6, <3>1, <3>2, UpChange DEF ReqHandler
  <2>3. l = m /\ m \in ForWorker(b) BY <2>1 DEF Arriving, OnRing, ForWorker
  <2>4. WorkQOK'
    <3>1. workerQ' = [workerQ EXCEPT ![b] = Append(workerQ[b], l)] BY DEF ReqHandler
    <3>2. l \in Msg /\ l \in ForWorker(b) BY <1>6, <2>3
    <3> HIDE DEF l, b
    <3>3. workerQ[b] \in Seq(Msg) /\ workerQ[b] \in Seq(ForWorker(b)) BY <1>7 DEF WorkQOK
    <3>4. Append(workerQ[b], l) \in Seq(Msg) /\ Append(workerQ[b], l) \in Seq(ForWorker(b))
      BY <3>2, <3>3
    <3>5. Append(workerQ[b], l) \in Seq(ForWorker(b)')
      BY <1>1, <1>7, <3>4, MessagesKept, SeqMonotonic
    <3> QED BY <1>1, <1>7, <3>1, <3>4, <3>5, WorkQChange
  <2> QED BY <1>2, <1>3, <1>4, <2>2, <2>4
<1> QED BY <1>8, <1>9 DEF Connection

LEMMA OutgoingMsg ==
  ASSUME NEW m \in Msg
  PROVE  /\ Outgoing(m) \in Msg
         /\ Outgoing(m).mtype \in Nat
         /\ Outgoing(m).type = m.type
         /\ Outgoing(m).topic = m.topic
         /\ Outgoing(m).pub = m.pub
         /\ Outgoing(m).broker_id = m.broker_id
BY DEF Outgoing, Msg

LEMMA RespHandlerOK ==
  ASSUME Inv, NEW c \in Client, RespHandler(c)
  PROVE  Inv'
<1> USE DEF Inv
<1>1. Kept BY NothingLost DEF RespHandler
<1>2. DbOK' /\ ClientsOK' /\ TablesOK' /\ UpOK' /\ WorkQOK'
  BY <1>1, DbKept, ClientsKept, TablesKept, UpKept, WorkQKept DEF RespHandler, ClientsOK
<1>3. WorkersOK' BY <1>1, WorkersKept DEF RespHandler
<1>4. c \in Connection /\ c \notin Broker BY Constants DEF Connection
<1>5. Head(respQ[c]) \in Msg /\ Tail(respQ[c]) \in Seq(Msg)
  BY <1>4, HeadTailProperties DEF RespQOK, RespHandler
<1>6. RespQOK' BY <1>1, <1>4, <1>5, RespQChange DEF RespHandler
<1>7. DownOK'
  <2> DEFINE o == Outgoing(Head(respQ[c]))
  <2>1. o \in ToClient BY <1>5, OutgoingMsg DEF ToClient
  <2> HIDE DEF o
  <2>2. down' = down \/ down' = [down EXCEPT ![c] = Append(down[c], o)]
    BY DEF RespHandler, o
  <2>3. down \in [Client -> Seq(ToClient)] BY DEF DownOK
  <2>4. down[c] \in Seq(ToClient) BY <2>3
  <2>5. Append(down[c], o) \in Seq(ToClient) BY <2>1, <2>4
  <2>6. down' \in [Client -> Seq(ToClient)] BY <2>2, <2>3, <2>5
  <2> QED BY <2>6 DEF DownOK, ToClient
<1> QED BY <1>2, <1>3, <1>6, <1>7

LEMMA SuccBroker == \A b \in Broker : Succ(b) \in Broker
BY Constants DEF Succ, Broker

LEMMA RingRespHandlerOK ==
  ASSUME Inv, NEW b \in Broker, RingRespHandler(b)
  PROVE  Inv'
<1> USE DEF Inv
<1> DEFINE o == Outgoing(Head(respQ[b]))
           d == Succ(b)
<1>1. Kept BY NothingLost DEF RingRespHandler
<1>2. DbOK' /\ ClientsOK' /\ TablesOK' /\ WorkQOK'
  BY <1>1, DbKept, ClientsKept, TablesKept, WorkQKept DEF RingRespHandler, ClientsOK
<1>3. WorkersOK' BY <1>1, WorkersKept DEF RingRespHandler
<1>4. DownOK' BY DEF DownOK, RingRespHandler, ToClient
<1>5. b \in Connection /\ respQ[b] # <<>> /\ respQ[b] \in Seq(Msg) /\ respQ[b] \in Seq(OnRing)
  BY DEF Connection, RespQOK, RingRespHandler
<1>6. Tail(respQ[b]) \in Seq(Msg) /\ Tail(respQ[b]) \in Seq(OnRing) /\ Head(respQ[b]) \in OnRing
  BY <1>5, HeadTailProperties
<1>7. RespQOK'
  <2>1. Tail(respQ[b]) \in Seq(OnRing') BY <1>1, <1>6, MessagesKept, SeqMonotonic
  <2> QED BY <1>1, <1>5, <1>6, <2>1, RespQChange DEF RingRespHandler
<1>8. o \in Msg /\ o \in Arriving BY <1>6, OutgoingMsg DEF Arriving, OnRing
<1>9. d \in Broker /\ d \in Connection /\ d \notin Client
  BY SuccBroker, Constants DEF Connection
<1>10. UpOK'
  <2>1. up' = [up EXCEPT ![d] = Append(up[d], o)] BY DEF RingRespHandler
  <2> HIDE DEF o, d
  <2>2. up[d] \in Seq(Msg) /\ up[d] \in Seq(Arriving) BY <1>9 DEF UpOK
  <2>3. Append(up[d], o) \in Seq(Msg) /\ Append(up[d], o) \in Seq(Arriving)
    BY <1>8, <2>2
  <2>4. Append(up[d], o) \in Seq(Arriving') BY <1>1, <2>3, MessagesKept, SeqMonotonic
  <2> QED BY <1>1, <1>9, <2>1, <2>3, <2>4, UpChange
<1> QED BY <1>2, <1>3, <1>4, <1>7, <1>10

-----------------------------------------------------------------------------
(* The worker.                                                             *)

LEMMA WorkerReceiveOK ==
  ASSUME Inv, NEW b \in Broker, WorkerReceive(b)
  PROVE  Inv'
<1> USE DEF Inv
<1> DEFINE m == Head(workerQ[b])
           rest == Tail(workerQ[b])
<1>1. Kept BY NothingLost DEF WorkerReceive
<1>2. DbOK' /\ ClientsOK' /\ TablesOK' /\ UpOK' /\ RespQOK'
  BY <1>1, DbKept, ClientsKept, TablesKept, UpKept, RespQKept DEF WorkerReceive, ClientsOK
<1>3. DownOK' BY DEF DownOK, WorkerReceive, ToClient
<1>4. /\ m \in Msg /\ rest \in Seq(Msg)
      /\ m \in ForWorker(b) /\ rest \in Seq(ForWorker(b))
  BY HeadTailProperties DEF WorkQOK, WorkerReceive
<1>5. WorkQOK'
  <2>1. rest \in Seq(ForWorker(b)') BY <1>1, <1>4, MessagesKept, SeqMonotonic
  <2> QED BY <1>1, <1>4, <2>1, WorkQChange DEF WorkerReceive
<1>6. WorkersOK'
  <2> DEFINE step == FirstStep[m.type]
  <2>1. GoTo(b, step, m) /\ wsubs' = wsubs /\ wrelayed' = wrelayed
    BY DEF WorkerReceive, GoTo
  <2> HIDE DEF m
  <2>2. \/ m.type = "CREATE" /\ step = "add_user" /\ m \in Labelled(b)
        \/ m.type = "SUBSCRIBE" /\ step = "subscribe" /\ m \in Identified(b)
        \/ m.type = "PUBLISH" /\ step = "publish" /\ m \in Identified(b) \cup Arriving
        \/ m.type = "DESTROY" /\ step = "delete" /\ m \in Identified(b)
    BY <1>4 DEF ForWorker, Labelled, Identified, Arriving, OnRing, Request, FirstStep
  <2> HIDE DEF step
  <2>3. /\ Labelled(b)' = Labelled(b) /\ Identified(b)' = Identified(b)
        /\ Arriving' = Arriving
    BY DEF WorkerReceive, Labelled, Identified, Arriving, OnRing, PublishedAt, Linked,
           ClientOf
  <2>4. wpc'[b] = step /\ wmsg'[b] = m => WorkerOK(b)'
    BY <2>2, <2>3 DEF WorkerOK, Labelled, ClientOf
  <2>5. step \in Steps BY <2>2 DEF Steps
  <2> QED BY <1>1, <1>4, <2>1, <2>4, <2>5, WorkerGoes
<1> QED BY <1>2, <1>3, <1>5, <1>6

\* What the other steps of the worker leave alone.
LEMMA WorkerFrameOK ==
  ASSUME Inv, WorkerFrame, strayed' \subseteq Nat
  PROVE  /\ Kept
         /\ ClientsOK' /\ UpOK' /\ WorkQOK' /\ DownOK'
         /\ \A i : PublishedAt(i)' = PublishedAt(i)
         /\ \A b \in Broker : Linked(b)' = Linked(b)
<1> USE DEF Inv
<1>1. Kept BY NothingLost DEF WorkerFrame
<1>2. ClientsOK' /\ UpOK' /\ WorkQOK'
  BY <1>1, ClientsKept, UpKept, WorkQKept DEF WorkerFrame
<1>3. DownOK' BY DEF DownOK, WorkerFrame, ToClient
<1> QED BY <1>1, <1>2, <1>3 DEF WorkerFrame, PublishedAt, Linked

LEMMA NoFanOutOK ==
  ASSUME Inv, WorkerFrame, NoFanOut
  PROVE  strayed' \subseteq Nat /\ RespQOK' /\ wsubs' = wsubs /\ wrelayed' = wrelayed
BY WorkerFrameOK, RespQKept DEF NoFanOut, Inv, ClientsOK

\* What get_mtype finds in the table of b.
LEMMA HeaderKnown ==
  ASSUME TablesOK, NEW b \in Broker, NEW id, GetMtype(ids[b], id) # NO_MTYPE_FOUND_CODE
  PROVE  /\ Linked(b)
         /\ id = NEXT_SERVER_GLOBAL_ID => GetMtype(ids[b], id) = b
         /\ id # NEXT_SERVER_GLOBAL_ID => ClientOf(b, GetMtype(ids[b], id))
<1>1. Positions(ids[b], id) # {} BY DEF GetMtype
<1>2. PICK i \in 1..Len(ids[b]) : /\ ids[b][i].global_id = id
                                  /\ GetMtype(ids[b], id) = ids[b][i].mtype
  BY <1>1, GetMtypeFound DEF TablesOK
<1> QED BY <1>2 DEF TablesOK

LEMMA NextServerKnown ==
  ASSUME TablesOK, NEW b \in Broker, Linked(b)
  PROVE  GetMtype(ids[b], NEXT_SERVER_GLOBAL_ID) = b
<1>1. Positions(ids[b], NEXT_SERVER_GLOBAL_ID) # {} BY DEF TablesOK
<1>2. PICK i \in 1..Len(ids[b]) :
        /\ ids[b][i].global_id = NEXT_SERVER_GLOBAL_ID
        /\ GetMtype(ids[b], NEXT_SERVER_GLOBAL_ID) = ids[b][i].mtype
  BY <1>1, GetMtypeFound DEF TablesOK
<1> QED BY <1>2 DEF TablesOK

\* The message of an identified client after the look-up.
LEMMA ResolvedMsg ==
  ASSUME TablesOK, NEW b \in Broker, wmsg[b] \in Msg, wmsg[b].mtype \in Nat
  PROVE  /\ Resolved(b) \in Msg
         /\ Resolved(b).global_id = wmsg[b].mtype
         /\ Resolved(b).type = wmsg[b].type
         /\ Resolved(b).topic = wmsg[b].topic
         /\ Resolved(b).pub = wmsg[b].pub
         /\ Resolved(b).broker_id = wmsg[b].broker_id
         /\ wmsg[b].mtype # 0 =>
              Unknown(Resolved(b)) \/ ClientOf(b, Resolved(b).mtype)
<1> DEFINE h == wmsg[b].mtype
           x == GetMtype(ids[b], h)
<1>1. x = NO_MTYPE_FOUND_CODE \/ x \in Connection
  <2> SUFFICES ASSUME x # NO_MTYPE_FOUND_CODE PROVE x \in Connection
    OBVIOUS
  <2>1. h = 0 => x = b BY HeaderKnown DEF NEXT_SERVER_GLOBAL_ID
  <2>2. h # 0 => x \in Client BY HeaderKnown DEF NEXT_SERVER_GLOBAL_ID, ClientOf
  <2> QED BY <2>1, <2>2 DEF Connection
<1>2. x \in Int \cup Client BY <1>1, Constants DEF Connection, NO_MTYPE_FOUND_CODE
<1>3. h # 0 => x = NO_MTYPE_FOUND_CODE \/ ClientOf(b, x)
  BY HeaderKnown DEF NEXT_SERVER_GLOBAL_ID
<1>4. Resolved(b) = [wmsg[b] EXCEPT !.global_id = h, !.mtype = x] BY DEF Resolved
<1> HIDE DEF x
<1>5. Resolved(b) \in Msg /\ Resolved(b).mtype = x BY <1>2, <1>4 DEF Msg
<1>6. /\ Resolved(b).global_id = h
      /\ Resolved(b).type = wmsg[b].type
      /\ Resolved(b).topic = wmsg[b].topic
      /\ Resolved(b).pub = wmsg[b].pub
      /\ Resolved(b).broker_id = wmsg[b].broker_id
  BY <1>4 DEF Msg
<1> QED BY <1>3, <1>5, <1>6 DEF Unknown

LEMMA TypedMsg ==
  ASSUME NEW m \in Msg, NEW type \in Request \cup Ack
  PROVE  /\ [m EXCEPT !.type = type] \in Msg
         /\ [m EXCEPT !.type = type].type = type
         /\ [m EXCEPT !.type = type].mtype = m.mtype
         /\ [m EXCEPT !.type = type].global_id = m.global_id
BY DEF Msg

\* The worker is going to answer one of its clients.
LEMMA GoesToAnswer ==
  ASSUME Inv, WorkerFrame, Kept, NEW b \in Broker, NEW m \in Msg, NEW step,
         step = "respond" \/ (step = "remove_id" /\ m.global_id # 0),
         GoTo(b, step, m), m.type \in Ack, Unknown(m) \/ ClientOf(b, m.mtype),
         wsubs' = wsubs,
         wrelayed' = wrelayed \/ \E f \in BOOLEAN : wrelayed' = [wrelayed EXCEPT ![b] = f]
  PROVE  WorkersOK'
<1>1. m \in Answer(b)' BY DEF Answer, ClientOf, Unknown
<1>2. wpc'[b] = step /\ wmsg'[b] = m => WorkerOK(b)' BY <1>1 DEF WorkerOK
<1>3. step \in Steps BY DEF Steps
<1> QED BY <1>2, <1>3, WorkerGoes DEF Inv

LEMMA CreateUserOK ==
  ASSUME Inv, NEW b \in Broker, CreateUser(b)
  PROVE  Inv'
<1> USE DEF Inv
<1> DEFINE m == [wmsg[b] EXCEPT !.global_id = NextId]
<1>1. WorkerFrame /\ NoFanOut /\ ids' = ids BY DEF CreateUser
<1>2. /\ Kept /\ ClientsOK' /\ UpOK' /\ WorkQOK' /\ DownOK' /\ RespQOK'
      /\ Linked(b)' = Linked(b)
  BY <1>1, WorkerFrameOK, NoFanOutOK
<1>3. TablesOK' BY <1>1, TablesKept DEF WorkerFrame
<1>4. DbOK' BY DbAddUserOK DEF CreateUser, DbOK
<1>5. wmsg[b] \in Msg /\ WorkerOK(b) /\ wpc[b] = "add_user" BY DEF WorkersOK, CreateUser
<1>6. NextId \in Nat \ {0} BY NextIdFresh DEF DbOK, DbTypeOK
<1>7. m \in Msg /\ m.mtype = wmsg[b].mtype /\ m.global_id # 0 BY <1>5, <1>6 DEF Msg
<1>8. GoTo(b, "add_id", m) BY DEF CreateUser
<1> HIDE DEF m
<1>9. wpc'[b] = "add_id" /\ wmsg'[b] = m => WorkerOK(b)'
  BY <1>2, <1>5, <1>7 DEF WorkerOK, ClientOf
<1>10. WorkersOK'
  <2>1. "add_id" \in Steps BY DEF Steps
  <2> QED BY <1>1, <1>2, <1>7, <1>8, <1>9, <2>1, NoFanOutOK, WorkerGoes
<1> QED BY <1>2, <1>3, <1>4, <1>10

LEMMA CreateIdOK ==
  ASSUME Inv, NEW b \in Broker, CreateId(b)
  PROVE  Inv'
<1> USE DEF Inv
<1> DEFINE m == wmsg[b]
<1>1. WorkerFrame /\ NoFanOut /\ UNCHANGED dbVars BY DEF CreateId
<1>2. /\ Kept /\ ClientsOK' /\ UpOK' /\ WorkQOK' /\ DownOK' /\ RespQOK'
      /\ \A d \in Broker : Linked(d)' = Linked(d)
  BY <1>1, WorkerFrameOK, NoFanOutOK
<1>3. DbOK' BY <1>1, DbKept
<1>4. m \in Msg /\ Linked(b) /\ ClientOf(b, m.mtype) BY DEF WorkersOK, WorkerOK, CreateId
<1>5. WorkersOK'
  <2>1. PICK type \in {"ACK_ERROR", "ACK_CREATE"} :
          GoTo(b, "respond", [m EXCEPT !.type = type])
    BY DEF CreateId
  <2> DEFINE n == [m EXCEPT !.type = type]
  <2>2. n \in Msg /\ n.type \in Ack /\ n.mtype = m.mtype
    BY <1>4, TypedMsg DEF Ack
  <2> HIDE DEF n
  <2>3. ClientOf(b, n.mtype) BY <1>4, <2>2
  <2>4. GoTo(b, "respond", n) BY <2>1 DEF n
  <2> QED BY <1>1, <1>2, <2>2, <2>3, <2>4, NoFanOutOK, GoesToAnswer
<1>6. CASE ids' = ids
  BY <1>1, <1>2, <1>3, <1>5, <1>6, TablesKept DEF WorkerFrame
<1>7. CASE /\ ~IsFull(ids[b], MAX_CLIENTS)
           /\ ids' = [ids EXCEPT ![b] = AddGlobalId(@, m.global_id, m.mtype)]
  <2>1. m.global_id \in Nat /\ m.global_id # NEXT_SERVER_GLOBAL_ID /\ m.mtype \in Connection
    BY <1>4 DEF WorkersOK, WorkerOK, CreateId, Msg, NEXT_SERVER_GLOBAL_ID, ClientOf,
                Connection
  <2>2. ids' = [ids EXCEPT ![b] = AddGlobalId(ids[b], m.global_id, m.mtype)] BY <1>7
  <2> HIDE DEF m
  <2>3. TablesOK' BY <1>2, <1>4, <1>7, <2>1, <2>2, TableGrows
  <2> QED BY <1>2, <1>3, <1>5, <2>3
<1> QED BY <1>6, <1>7 DEF CreateId

LEMMA ProcessSubscribeOK ==
  ASSUME Inv, NEW b \in Broker, ProcessSubscribe(b)
  PROVE  Inv'
<1> USE DEF Inv
<1> DEFINE m == Resolved(b)
<1>1. WorkerFrame /\ NoFanOut /\ ids' = ids BY DEF ProcessSubscribe
<1>2. Kept /\ ClientsOK' /\ UpOK' /\ WorkQOK' /\ DownOK' /\ RespQOK'
  BY <1>1, WorkerFrameOK, NoFanOutOK
<1>3. TablesOK' BY <1>1, TablesKept DEF WorkerFrame
<1>4. /\ wmsg[b] \in Msg /\ wmsg[b].mtype \in Nat \ {0}
      /\ wmsg[b].topic \in Topic
  BY DEF WorkersOK, WorkerOK, ProcessSubscribe, Identified
<1>5. m \in Msg /\ m.topic \in Topic /\ (Unknown(m) \/ ClientOf(b, m.mtype))
  BY <1>4, ResolvedMsg
<1>6. DbOK'
  <2>1. UNCHANGED dbVars \/ DbSubscribe(m.global_id, m.topic) BY DEF ProcessSubscribe
  <2> HIDE DEF m
  <2> QED BY <1>5, <2>1, DbKept, DbSubscribeOK DEF DbOK
<1>7. WorkersOK'
  <2>1. PICK type \in {"ACK_ERROR", "ACK_OK"} :
          GoTo(b, "respond", [m EXCEPT !.type = type])
    BY DEF ProcessSubscribe
  <2> DEFINE n == [m EXCEPT !.type = type]
  <2> HIDE DEF m
  <2>2. n \in Msg /\ n.type \in Ack /\ n.mtype = m.mtype BY <1>5, TypedMsg DEF Ack
  <2>3. GoTo(b, "respond", n) BY <2>1
  <2> HIDE DEF n
  <2>4. Unknown(n) \/ ClientOf(b, n.mtype) BY <1>5, <2>2 DEF Unknown
  <2> QED BY <1>1, <1>2, <2>2, <2>3, <2>4, NoFanOutOK, GoesToAnswer
<1> QED BY <1>2, <1>3, <1>6, <1>7

-----------------------------------------------------------------------------
(* Publications in the worker.                                             *)

\* The steps of process_publish that send nothing.
LEMMA PublishFrame ==
  ASSUME Inv, WorkerFrame, UNCHANGED <<dbVars, ids, respQ>>, strayed' \subseteq Nat
  PROVE  /\ Kept
         /\ DbOK' /\ ClientsOK' /\ TablesOK' /\ UpOK' /\ WorkQOK' /\ RespQOK' /\ DownOK'
         /\ \A i : PublishedAt(i)' = PublishedAt(i)
         /\ \A b \in Broker : Linked(b)' = Linked(b)
<1>1. Kept /\ \A b \in Broker : Linked(b)' = Linked(b) BY WorkerFrameOK
<1>2. DbOK' /\ TablesOK' /\ RespQOK'
  BY <1>1, DbKept, TablesKept, RespQKept DEF Inv, WorkerFrame
<1> QED BY <1>1, <1>2, WorkerFrameOK

LEMMA DiscardPublishOK ==
  ASSUME Inv, NEW b \in Broker, DiscardPublish(b)
  PROVE  Inv'
<1>1. /\ WorkerFrame /\ UNCHANGED <<dbVars, ids, respQ>> /\ strayed' \subseteq Nat
      /\ Forget(b)
  BY DEF DiscardPublish, Inv, ClientsOK
<1>2. WorkersOK' BY <1>1, PublishFrame, WorkerForgets DEF Inv
<1> QED BY <1>1, <1>2, PublishFrame DEF Inv

\* A publication at its first broker belongs to a client there, and one that
\* comes from the ring keeps its stamp.
LEMMA StampedMsg ==
  ASSUME Inv, NEW b \in Broker, wpc[b] = "publish", wmsg[b].broker_id # b
  PROVE  /\ Stamped(b) \in Msg
         /\ Stamped(b).type = "PUBLISH"
         /\ Stamped(b).topic \in Topic
         /\ Stamped(b).pub \in PublishedAt(Stamped(b).broker_id)
         /\ Stamped(b).mtype = Resolved(b).mtype
         /\ wmsg[b].broker_id = 0 =>
              /\ Stamped(b).broker_id = b
              /\ Unknown(Stamped(b)) \/ ClientOf(b, Stamped(b).mtype)
         /\ wmsg[b].broker_id # 0 => Stamped(b).broker_id # b
<1> DEFINE m == wmsg[b]
           r == Resolved(b)
<1>1. /\ m \in Msg /\ m.type = "PUBLISH" /\ m \in Identified(b) \cup Arriving
  BY DEF Inv, WorkersOK, WorkerOK
<1>2. m.mtype \in Nat /\ m.topic \in Topic
  BY <1>1 DEF Identified, Arriving, OnRing
<1>3. /\ r \in Msg /\ r.type = "PUBLISH" /\ r.topic = m.topic
      /\ r.pub = m.pub /\ r.broker_id = m.broker_id
      /\ m.mtype # 0 => Unknown(r) \/ ClientOf(b, r.mtype)
  BY <1>1, <1>2, ResolvedMsg DEF Inv
<1> HIDE DEF r
<1>4. CASE m.broker_id = 0
  <2>1. m \in Identified(b)
    <3>1. \A i : i \in PublishedAt(0) => FALSE
      <4>1. \A p \in DOMAIN pubs : pubs[p].by \in Client
        BY PublishersAreClients DEF Inv
      <4> QED BY <4>1, Constants DEF PublishedAt
    <3> QED BY <1>1, <1>4, <3>1 DEF Arriving, OnRing
  <2>2. m.pub \in PublishedAt(b) /\ m.mtype # 0 BY <1>1, <2>1 DEF Identified
  <2>3. Stamped(b) = [r EXCEPT !.broker_id = b] BY <1>4 DEF Stamped, r
  <2>4. /\ Stamped(b) \in Msg /\ Stamped(b).type = "PUBLISH"
        /\ Stamped(b).topic = r.topic /\ Stamped(b).pub = r.pub
        /\ Stamped(b).broker_id = b /\ Stamped(b).mtype = r.mtype
    BY <1>3, <2>3 DEF Msg
  <2> QED BY <1>2, <1>3, <1>4, <2>2, <2>4 DEF r, Unknown
<1>5. CASE m.broker_id # 0
  <2>1. m \in OnRing BY <1>1, <1>5 DEF Identified, Arriving
  <2>2. m.pub \in PublishedAt(m.broker_id) BY <2>1 DEF OnRing
  <2>3. Stamped(b) = r BY <1>5 DEF Stamped, r
  <2> QED BY <1>2, <1>3, <1>5, <2>2, <2>3 DEF r
<1> QED BY <1>4, <1>5

LEMMA RejectPublishOK ==
  ASSUME Inv, NEW b \in Broker, RejectPublish(b)
  PROVE  Inv'
<1> DEFINE m == Stamped(b)
           n == [m EXCEPT !.type = "ACK_ERROR"]
<1>1. WorkerFrame /\ UNCHANGED <<dbVars, ids, respQ>> /\ strayed' \subseteq Nat
  BY DEF RejectPublish, Inv, ClientsOK
<1>2. m \in Msg /\ Unknown(m) BY StampedMsg DEF RejectPublish
<1>3. WorkersOK'
  <2>1. CASE GoTo(b, "respond", n) /\ UNCHANGED <<wsubs, wrelayed>>
    <3> HIDE DEF m
    <3>1. n \in Msg /\ n.type \in Ack /\ n.mtype = m.mtype BY <1>2, TypedMsg DEF Ack
    <3> HIDE DEF n
    <3>2. Unknown(n) BY <1>2, <3>1 DEF Unknown
    <3> QED BY <1>1, <2>1, <3>1, <3>2, PublishFrame, GoesToAnswer
  <2>2. CASE Forget(b)
    BY <1>1, <2>2, PublishFrame, WorkerForgets DEF Inv
  <2> QED BY <2>1, <2>2 DEF RejectPublish
<1> QED BY <1>1, <1>3, PublishFrame DEF Inv

LEMMA FetchSubsOK ==
  ASSUME Inv, NEW b \in Broker, FetchSubs(b)
  PROVE  Inv'
<1> DEFINE m == Stamped(b)
<1>1. WorkerFrame /\ UNCHANGED <<dbVars, ids, wrelayed, respQ>> BY DEF FetchSubs
<1>2. strayed' \subseteq Nat
  <2>1. wmsg[b].pub \in Nat BY DEF Inv, WorkersOK, Msg
  <2> QED BY <2>1 DEF FetchSubs, Inv, ClientsOK
<1>3. /\ m \in Msg /\ m.type = "PUBLISH" /\ m.topic \in Topic
      /\ m.pub \in PublishedAt(m.broker_id)
      /\ m.broker_id = b => ClientOf(b, m.mtype)
      /\ m.mtype = Resolved(b).mtype
  BY StampedMsg DEF FetchSubs
<1>4. Linked(b)
  <2>1. wmsg[b] \in Msg /\ wmsg[b].mtype \in Nat
    BY DEF Inv, WorkersOK, WorkerOK, FetchSubs, Identified, Arriving
  <2>2. Resolved(b).mtype = GetMtype(ids[b], wmsg[b].mtype)
    <3>1. wmsg[b] \in [mtype : Int \cup Client, global_id : Nat, type : Request \cup Ack,
                       topic : Topic \cup {NoTopic}, pub : Nat,
                       broker_id : {0} \cup Broker]
      BY <2>1 DEF Msg
    <3> QED BY <3>1 DEF Resolved
  <2>3. GetMtype(ids[b], wmsg[b].mtype) # NO_MTYPE_FOUND_CODE
    BY <1>3, <2>2 DEF FetchSubs, Unknown
  <2> QED BY <2>3, HeaderKnown DEF Inv
<1>5. \E lines \in SUBSET Line : wsubs' = [wsubs EXCEPT ![b] = lines]
  <2>1. wmsg[b].topic \in Topic
    BY DEF Inv, WorkersOK, WorkerOK, FetchSubs, Identified, Arriving, OnRing
  <2>2. DbGetSubscribed(wmsg[b].topic) \subseteq SUBSET Line
    BY <2>1, GarbageAssumption DEF DbGetSubscribed, Inv, DbOK, DbTypeOK
  <2> QED BY <2>2 DEF FetchSubs
<1>6. GoTo(b, "fan_out", m) BY DEF FetchSubs
<1> HIDE DEF m
<1>7. wpc'[b] = "fan_out" /\ wmsg'[b] = m => WorkerOK(b)'
  BY <1>1, <1>2, <1>3, <1>4, PublishFrame DEF WorkerOK, ClientOf
<1>8. WorkersOK'
  <2>1. "fan_out" \in Steps BY DEF Steps
  <2> QED BY <1>1, <1>2, <1>3, <1>5, <1>6, <1>7, <2>1, PublishFrame, WorkerGoes DEF Inv
<1> QED BY <1>1, <1>2, <1>8, PublishFrame DEF Inv

\* What the worker holds while it sends a publication.
LEMMA FanOutMsg ==
  ASSUME Inv, NEW b \in Broker, wpc[b] = "fan_out"
  PROVE  /\ wmsg[b] \in Msg /\ wsubs[b] \in SUBSET Line
         /\ Linked(b)
         /\ wsubs[b] # {} => wmsg[b].type = "PUBLISH"
         /\ wmsg[b].type \in {"PUBLISH", "ACK_ERROR"}
         /\ wmsg[b].topic \in Topic
         /\ wmsg[b].pub \in PublishedAt(wmsg[b].broker_id)
         /\ wmsg[b].broker_id = b => ClientOf(b, wmsg[b].mtype)
BY DEF Inv, WorkersOK, WorkerOK

LEMMA AddressedMsg ==
  ASSUME Inv, NEW b \in Broker, wpc[b] = "fan_out", NEW l \in wsubs[b],
         NEW pid \in Connection
  PROVE  Addressed(b, l, pid) \in Msg /\ Addressed(b, l, pid) \in OnRing
<1> DEFINE m == wmsg[b]
           a == [m EXCEPT !.global_id = l.id, !.mtype = pid]
<1>1. /\ m \in Msg /\ m.type = "PUBLISH" /\ m.topic \in Topic
      /\ m.pub \in PublishedAt(m.broker_id) /\ l.id \in Nat
  BY FanOutMsg DEF Line
<1>2. pid \in Int \cup Client BY Constants DEF Connection
<1> HIDE DEF m
<1>3. /\ a \in Msg /\ a.type = m.type /\ a.topic = m.topic /\ a.pub = m.pub
      /\ a.broker_id = m.broker_id
  BY <1>1, <1>2 DEF Msg
<1>4. a = Addressed(b, l, pid) BY DEF Addressed, m
<1> HIDE DEF a
<1> QED BY <1>1, <1>3, <1>4 DEF OnRing

\* The message joins the queue of a response handler.
LEMMA QueueRespOK ==
  ASSUME RespQOK, Kept, NEW x \in Connection, NEW m \in Msg, QueueResp(x, m),
         x \in Broker => m \in OnRing
  PROVE  RespQOK'
<1>1. respQ' = [respQ EXCEPT ![x] = Append(respQ[x], m)] BY DEF QueueResp
<1>2. respQ[x] \in Seq(Msg) BY DEF RespQOK
<1>3. Append(respQ[x], m) \in Seq(Msg) BY <1>2
<1>4. x \in Broker => Append(respQ[x], m) \in Seq(OnRing) BY DEF RespQOK
<1>5. x \in Broker => Append(respQ[x], m) \in Seq(OnRing')
  BY <1>4, MessagesKept, SeqMonotonic
<1> QED BY <1>1, <1>3, <1>5, RespQChange

LEMMA SendToLocalOK ==
  ASSUME Inv, NEW b \in Broker, SendToLocal(b)
  PROVE  Inv'
<1>1. PICK l \in wsubs[b] :
        /\ GetMtype(ids[b], l.id) # NO_MTYPE_FOUND_CODE
        /\ QueueResp(GetMtype(ids[b], l.id), Addressed(b, l, GetMtype(ids[b], l.id)))
        /\ wsubs' = [wsubs EXCEPT ![b] = @ \ {l}]
  BY DEF SendToLocal
<1>2. /\ WorkerFrame /\ UNCHANGED <<dbVars, ids, wpc, wmsg, wrelayed, strayed>>
      /\ strayed' \subseteq Nat /\ wpc[b] = "fan_out"
  BY DEF SendToLocal, Inv, ClientsOK
<1>3. Kept /\ ClientsOK' /\ UpOK' /\ WorkQOK' /\ DownOK' BY <1>2, WorkerFrameOK
<1>4. DbOK' /\ TablesOK' BY <1>2, DbKept, TablesKept DEF Inv, WorkerFrame
<1>5. RespQOK'
  <2> DEFINE pid == GetMtype(ids[b], l.id)
  <2>1. pid \in Connection
    <3>1. l.id = NEXT_SERVER_GLOBAL_ID => pid = b BY <1>1, HeaderKnown DEF Inv
    <3>2. l.id # NEXT_SERVER_GLOBAL_ID => ClientOf(b, pid) BY <1>1, HeaderKnown DEF Inv
    <3> QED BY <3>1, <3>2 DEF Connection, ClientOf
  <2>2. QueueResp(pid, Addressed(b, l, pid)) BY <1>1
  <2> HIDE DEF pid
  <2>3. Addressed(b, l, pid) \in Msg /\ Addressed(b, l, pid) \in OnRing
    BY <1>2, <2>1, AddressedMsg
  <2> QED BY <1>3, <2>1, <2>2, <2>3, QueueRespOK DEF Inv
<1>6. WorkersOK'
  <2>1. wsubs' \in [Broker -> SUBSET Line] BY <1>1 DEF Inv, WorkersOK
  <2>2. /\ \A d \in Broker \ {b} :
             wpc'[d] = wpc[d] /\ wmsg'[d] = wmsg[d] /\ wsubs'[d] = wsubs[d]
        /\ wpc'[b] = "fan_out" /\ wmsg'[b] = wmsg[b] /\ wmsg[b].type = "PUBLISH"
    BY <1>1, <1>2, FanOutMsg DEF Inv, WorkersOK
  <2>3. \A i : PublishedAt(i)' = PublishedAt(i) BY <1>2, WorkerFrameOK
  <2>4. Linked(b)' BY <1>2, FanOutMsg, WorkerFrameOK
  <2>5. WorkerOK(b)' BY <1>2, <2>2, <2>3, <2>4, FanOutMsg DEF WorkerOK, ClientOf
  <2> QED BY <1>2, <1>3, <2>1, <2>2, <2>5, WorkersChange DEF Inv, WorkersOK
<1> QED BY <1>3, <1>4, <1>5, <1>6 DEF Inv

LEMMA SendToRingOK ==
  ASSUME Inv, NEW b \in Broker, SendToRing(b)
  PROVE  Inv'
<1> DEFINE pid == GetMtype(ids[b], NEXT_SERVER_GLOBAL_ID)
           unlinked == ~AlreadyRelayed(b) /\ pid = NO_MTYPE_FOUND_CODE
<1>1. PICK l \in wsubs[b] :
        /\ UNCHANGED respQ \/ QueueResp(pid, Addressed(b, l, pid))
        /\ wsubs' = [wsubs EXCEPT ![b] = IF unlinked THEN {} ELSE @ \ {l}]
        /\ wmsg' = [wmsg EXCEPT ![b].type = IF unlinked THEN "ACK_ERROR" ELSE @]
  BY DEF SendToRing
<1>2. /\ WorkerFrame /\ UNCHANGED <<dbVars, ids, wpc, strayed>>
      /\ strayed' \subseteq Nat /\ wpc[b] = "fan_out"
      /\ wrelayed' = [wrelayed EXCEPT ![b] = TRUE]
  BY DEF SendToRing, Inv, ClientsOK
<1>3. Kept /\ ClientsOK' /\ UpOK' /\ WorkQOK' /\ DownOK' BY <1>2, WorkerFrameOK
<1>4. DbOK' /\ TablesOK' BY <1>2, DbKept, TablesKept DEF Inv, WorkerFrame
<1>5. pid = b /\ ~unlinked
  <2>1. pid = b BY <1>2, FanOutMsg, NextServerKnown DEF Inv
  <2> QED BY <2>1, Constants DEF NO_MTYPE_FOUND_CODE
<1> HIDE DEF pid, unlinked
<1>6. RespQOK'
  <2>1. b \in Connection BY DEF Connection
  <2>2. Addressed(b, l, b) \in Msg /\ Addressed(b, l, b) \in OnRing
    BY <1>2, <2>1, AddressedMsg
  <2>3. UNCHANGED respQ \/ QueueResp(b, Addressed(b, l, b)) BY <1>1, <1>5
  <2> QED BY <1>3, <2>1, <2>2, <2>3, QueueRespOK, RespQKept DEF Inv
<1>7. WorkersOK'
  <2>1. wsubs' \in [Broker -> SUBSET Line] BY <1>1, <1>5 DEF Inv, WorkersOK
  <2>2. wmsg' = [wmsg EXCEPT ![b] = [wmsg[b] EXCEPT !.type = @]] BY <1>1, <1>5
  <2>3. [wmsg[b] EXCEPT !.type = @] = wmsg[b] BY FanOutMsg, <1>2 DEF Msg
  <2>4. wmsg' = wmsg BY <2>2, <2>3 DEF Inv, WorkersOK
  <2>5. wrelayed' \in [Broker -> BOOLEAN] BY <1>2 DEF Inv, WorkersOK
  <2>6. /\ \A d \in Broker \ {b} :
             wpc'[d] = wpc[d] /\ wmsg'[d] = wmsg[d] /\ wsubs'[d] = wsubs[d]
        /\ wpc'[b] = "fan_out" /\ wmsg'[b] = wmsg[b] /\ wmsg[b].type = "PUBLISH"
    BY <1>1, <1>2, <2>4, FanOutMsg DEF Inv, WorkersOK
  <2>7. \A i : PublishedAt(i)' = PublishedAt(i) BY <1>2, WorkerFrameOK
  <2>8. Linked(b)' BY <1>2, FanOutMsg, WorkerFrameOK
  <2>9. WorkerOK(b)' BY <1>2, <2>6, <2>7, <2>8, FanOutMsg DEF WorkerOK, ClientOf
  <2> QED BY <1>2, <1>3, <2>1, <2>4, <2>5, <2>6, <2>9, WorkersChange DEF Inv, WorkersOK
<1> QED BY <1>3, <1>4, <1>6, <1>7 DEF Inv

LEMMA EndFanOutOK ==
  ASSUME Inv, NEW b \in Broker, EndFanOut(b)
  PROVE  Inv'
<1> DEFINE m == wmsg[b]
           type == IF m.type = "ACK_ERROR" THEN m.type ELSE "ACK_OK"
           n == [m EXCEPT !.type = type]
<1>1. /\ WorkerFrame /\ UNCHANGED <<dbVars, ids, respQ>> /\ strayed' \subseteq Nat
      /\ wpc[b] = "fan_out"
  BY DEF EndFanOut, Inv, ClientsOK
<1>2. CASE /\ SendAck(b) /\ GoTo(b, "respond", n)
           /\ wrelayed' = [wrelayed EXCEPT ![b] = FALSE] /\ wsubs' = wsubs
  <2>1. m \in Msg /\ ClientOf(b, m.mtype) BY <1>1, <1>2, FanOutMsg DEF SendAck
  <2>2. type \in Ack BY DEF Ack
  <2> HIDE DEF m, type
  <2>3. n \in Msg /\ n.type \in Ack /\ n.mtype = m.mtype BY <2>1, <2>2, TypedMsg
  <2>4. GoTo(b, "respond", n) BY <1>2
  <2> HIDE DEF n
  <2>5. WorkersOK' BY <1>1, <1>2, <2>1, <2>3, <2>4, PublishFrame, GoesToAnswer
  <2> QED BY <1>1, <2>5, PublishFrame DEF Inv
<1>3. CASE Forget(b)
  <2>1. WorkersOK' BY <1>1, <1>3, PublishFrame, WorkerForgets DEF Inv
  <2> QED BY <1>1, <2>1, PublishFrame DEF Inv
<1> QED BY <1>2, <1>3 DEF EndFanOut

-----------------------------------------------------------------------------
(* The end of a client's id, and the answers.                              *)

LEMMA DeleteUserOK ==
  ASSUME Inv, NEW b \in Broker, DeleteUser(b)
  PROVE  Inv'
<1> USE DEF Inv
<1> DEFINE m == Resolved(b)
<1>1. WorkerFrame /\ NoFanOut /\ ids' = ids BY DEF DeleteUser
<1>2. Kept /\ ClientsOK' /\ UpOK' /\ WorkQOK' /\ DownOK' /\ RespQOK'
  BY <1>1, WorkerFrameOK, NoFanOutOK
<1>3. TablesOK' BY <1>1, TablesKept DEF WorkerFrame
<1>4. wmsg[b] \in Msg /\ wmsg[b].mtype \in Nat \ {0}
  BY DEF WorkersOK, WorkerOK, DeleteUser, Identified
<1>5. m \in Msg /\ m.global_id # 0 /\ (Unknown(m) \/ ClientOf(b, m.mtype))
  BY <1>4, ResolvedMsg
<1>6. DbOK'
  <2>1. UNCHANGED dbVars \/ DbDelete(m.global_id) BY DEF DeleteUser
  <2> HIDE DEF m
  <2> QED BY <2>1, DbKept, DbDeleteOK DEF DbOK
<1>7. WorkersOK'
  <2>1. PICK type \in {"ACK_ERROR", "ACK_DESTROY"} :
          GoTo(b, "remove_id", [m EXCEPT !.type = type])
    BY DEF DeleteUser
  <2> DEFINE n == [m EXCEPT !.type = type]
  <2> HIDE DEF m
  <2>2. n \in Msg /\ n.type \in Ack /\ n.mtype = m.mtype /\ n.global_id = m.global_id
    BY <1>5, TypedMsg DEF Ack
  <2>3. GoTo(b, "remove_id", n) BY <2>1
  <2> HIDE DEF n
  <2>4. n.global_id # 0 /\ (Unknown(n) \/ ClientOf(b, n.mtype))
    BY <1>5, <2>2 DEF Unknown
  <2> QED BY <1>1, <1>2, <2>2, <2>3, <2>4, NoFanOutOK, GoesToAnswer
<1> QED BY <1>2, <1>3, <1>6, <1>7

LEMMA RemoveIdOK ==
  ASSUME Inv, NEW b \in Broker, RemoveId(b)
  PROVE  Inv'
<1> USE DEF Inv
<1> DEFINE m == wmsg[b]
           E == [global_id : Nat, mtype : Connection]
           t == RemoveGlobalId(ids[b], m.global_id)
<1>1. WorkerFrame /\ NoFanOut /\ UNCHANGED dbVars BY DEF RemoveId
<1>2. /\ Kept /\ ClientsOK' /\ UpOK' /\ WorkQOK' /\ DownOK' /\ RespQOK'
      /\ \A d \in Broker : Linked(d)' = Linked(d)
  BY <1>1, WorkerFrameOK, NoFanOutOK
<1>3. DbOK' BY <1>1, DbKept
<1>4. m \in Msg /\ m \in Answer(b) /\ m.global_id # 0
  BY DEF WorkersOK, WorkerOK, RemoveId
<1>5. TablesOK'
  <2>1. ids' = [ids EXCEPT ![b] = t] BY DEF RemoveId
  <2>2. ids[b] \in Seq(E) /\ Len(ids[b]) \in Nat BY LenProperties DEF TablesOK
  <2> HIDE DEF m, E
  <2>3. t \in Seq(E) /\ Len(t) <= Len(ids[b])
    BY ONLY <2>2, RemoveGlobalIdType
  <2>4. \A i \in 1..Len(t) : \E j \in 1..Len(ids[b]) : t[i] = ids[b][j]
    BY ONLY <2>2, RemoveGlobalIdType
  <2>5. Positions(ids[b], NEXT_SERVER_GLOBAL_ID) # {}
          => Positions(t, NEXT_SERVER_GLOBAL_ID) # {}
    <3>1. NEXT_SERVER_GLOBAL_ID # m.global_id BY <1>4 DEF NEXT_SERVER_GLOBAL_ID
    <3> QED BY ONLY <2>2, <3>1, RemoveGlobalIdType, SMTT(40)
  <2>6. Len(t) \in Nat BY <2>3, LenProperties
  <2> HIDE DEF t
  <2>7. \A d \in Broker : ids'[d] = IF d = b THEN t ELSE ids[d]
    BY <2>1 DEF TablesOK
  <2>8. ids' \in [Broker -> Seq(E)] BY <2>1, <2>3 DEF TablesOK, E
  <2>9. Len(t) <= MAX_CLIENTS BY <2>2, <2>3, <2>6, Constants DEF TablesOK
  <2>10. \A i \in 1..Len(t) :
           /\ Linked(b)
           /\ IF t[i].global_id = NEXT_SERVER_GLOBAL_ID THEN t[i].mtype = b
              ELSE ClientOf(b, t[i].mtype)
    BY <2>4 DEF TablesOK
  <2>11. Linked(b) => Positions(t, NEXT_SERVER_GLOBAL_ID) # {}
    BY <2>5 DEF TablesOK
  <2> DEFINE Fine(d, s) ==
        /\ Len(s) <= MAX_CLIENTS
        /\ \A i \in 1..Len(s) :
             /\ Linked(d)
             /\ IF s[i].global_id = NEXT_SERVER_GLOBAL_ID THEN s[i].mtype = d
                ELSE ClientOf(d, s[i].mtype)
        /\ Linked(d) => Positions(s, NEXT_SERVER_GLOBAL_ID) # {}
  <2>12. Fine(b, t) BY <2>9, <2>10, <2>11
  <2>13. \A d \in Broker : Fine(d, ids[d]) BY DEF TablesOK
  <2> HIDE DEF Fine
  <2>14. \A d \in Broker : Fine(d, ids'[d]) BY <2>7, <2>12, <2>13
  <2> USE DEF Fine
  <2> QED BY ONLY <1>2, <2>8, <2>14 DEF TablesOK, E, ClientOf
<1>6. WorkersOK'
  <2>1. PICK type \in Ack : GoTo(b, "respond", [m EXCEPT !.type = type])
    BY <1>4 DEF RemoveId, Answer, Ack
  <2> DEFINE n == [m EXCEPT !.type = type]
  <2>2. Unknown(m) \/ ClientOf(b, m.mtype) BY <1>4 DEF Answer
  <2> HIDE DEF m
  <2>3. n \in Msg /\ n.type \in Ack /\ n.mtype = m.mtype BY <1>4, TypedMsg
  <2>4. GoTo(b, "respond", n) BY <2>1
  <2> HIDE DEF n
  <2>5. Unknown(n) \/ ClientOf(b, n.mtype) BY <2>2, <2>3 DEF Unknown
  <2> QED BY <1>1, <1>2, <2>3, <2>4, <2>5, NoFanOutOK, GoesToAnswer
<1> QED BY <1>2, <1>3, <1>5, <1>6

LEMMA RespondOK ==
  ASSUME Inv, NEW b \in Broker, Respond(b)
  PROVE  Inv'
<1> USE DEF Inv
<1> DEFINE m == wmsg[b]
<1>1. /\ WorkerFrame /\ UNCHANGED <<dbVars, ids, strayed>> /\ strayed' \subseteq Nat
      /\ Forget(b)
  BY DEF Respond, ClientsOK
<1>2. Kept /\ ClientsOK' /\ UpOK' /\ WorkQOK' /\ DownOK' BY <1>1, WorkerFrameOK
<1>3. DbOK' /\ TablesOK' BY <1>1, DbKept, TablesKept DEF WorkerFrame
<1>4. m \in Msg /\ (Unknown(m) \/ ClientOf(b, m.mtype))
  BY DEF WorkersOK, WorkerOK, Respond, Answer
<1>5. RespQOK'
  <2>1. CASE Unknown(m) BY <1>2, <2>1, RespQKept DEF Respond
  <2>2. CASE ~Unknown(m)
    <3>1. QueueResp(m.mtype, m) BY <2>2 DEF Respond
    <3>2. m.mtype \in Connection /\ m.mtype \notin Broker
      BY <1>4, <2>2, Constants DEF ClientOf, Connection
    <3> HIDE DEF m
    <3> QED BY <1>2, <1>4, <3>1, <3>2, QueueRespOK
  <2> QED BY <2>1, <2>2
<1>6. WorkersOK' BY <1>1, <1>2, WorkerForgets
<1> QED BY <1>2, <1>3, <1>5, <1>6

LEMMA WorkerStepOK ==
  ASSUME Inv, NEW b \in Broker, WorkerStep(b)
  PROVE  Inv'
BY WorkerReceiveOK, CreateUserOK, CreateIdOK, ProcessSubscribeOK, DiscardPublishOK,
   RejectPublishOK, FetchSubsOK, SendToLocalOK, SendToRingOK, EndFanOutOK,
   DeleteUserOK, RemoveIdOK, RespondOK
   DEF WorkerStep

-----------------------------------------------------------------------------
(* The invariant and what follows from it.                                 *)

LEMMA InitOK == Init => Inv
<1> SUFFICES ASSUME Init PROVE Inv
  OBVIOUS
<1> USE DEF Init
<1>1. DbOK BY FS_EmptySet DEF DbOK, DbInit, DbTypeOK, NoOrphanLines
<1>2. ClientsOK
  <2>1. pubs \in Seq([by : Client, topic : Topic, audience : SUBSET Client])
    BY EmptySeq
  <2> QED BY <2>1 DEF ClientsOK
<1>3. TablesOK
  <2>1. <<>> \in Seq([global_id : Nat, mtype : Connection]) /\ Len(<<>>) = 0
    BY EmptySeq
  <2>2. \A b \in Broker : ids[b] = <<>> /\ ~Linked(b) BY DEF Linked
  <2> QED BY <2>1, <2>2, Constants DEF TablesOK
<1>4. UpOK BY EmptySeq DEF UpOK, Connection
<1>5. WorkQOK BY EmptySeq DEF WorkQOK
<1>6. RespQOK BY EmptySeq DEF RespQOK, Connection
<1>7. DownOK BY EmptySeq DEF DownOK
<1>8. WorkersOK BY IdleMsg DEF WorkersOK, WorkerOK, Steps
<1> QED BY <1>1, <1>2, <1>3, <1>4, <1>5, <1>6, <1>7, <1>8 DEF Inv

LEMMA StutterOK ==
  ASSUME Inv, UNCHANGED vars
  PROVE  Inv'
<1> USE DEF Inv
<1>1. /\ UNCHANGED <<dbVars, ids, ring, conn, up, workerQ, workerPart, respQ, down,
                     clientPart, pubs, strayed>>
  BY DEF vars, dbVars, workerPart, clientPart
<1>2. Kept BY <1>1, NothingLost
<1>3. DbOK' BY <1>1, DbKept
<1>4. ClientsOK' BY <1>1, ClientsKept DEF ClientsOK
<1>5. TablesOK' BY <1>1, TablesKept
<1>6. UpOK' /\ WorkQOK' /\ RespQOK' BY <1>1, <1>2, UpKept, WorkQKept, RespQKept
<1>7. DownOK' BY <1>1 DEF DownOK, ToClient
<1>8. WorkersOK' BY <1>1, <1>2, WorkersKept
<1> QED BY <1>3, <1>4, <1>5, <1>6, <1>7, <1>8

LEMMA NextOK ==
  ASSUME Inv, [Next]_vars
  PROVE  Inv'
<1>1. CASE \E b \in Broker : RingConnect(b) \/ RingRegister(b) \/ StartServing(b)
                              \/ RingRespHandler(b)
  BY <1>1, RingConnectOK, RingRegisterOK, StartServingOK, RingRespHandlerOK
<1>2. CASE \E b \in Broker : WorkerStep(b) BY <1>2, WorkerStepOK
<1>3. CASE \E x \in Connection : ReqHandler(x) BY <1>3, ReqHandlerOK
<1>4. CASE \E c \in Client : AcceptClient(c) \/ LoseClient(c) \/ EndHandlers(c)
  BY <1>4, AcceptClientOK, LoseClientOK, EndHandlersOK
<1>5. CASE \E c \in Client : Create(c) \/ Destroy(c) \/ ClientReceive(c)
                              \/ RespHandler(c)
  BY <1>5, CreateOK, DestroyOK, ClientReceiveOK, RespHandlerOK
<1>6. CASE \E c \in Client, t \in Topic : SubscribeTo(c, t) \/ Publish(c, t)
  BY <1>6, SubscribeToOK, PublishOK
<1>7. CASE UNCHANGED vars BY <1>7, StutterOK
<1> QED BY <1>1, <1>2, <1>3, <1>4, <1>5, <1>6, <1>7 DEF Next

\* Every queue, table and worker holds only what its readers expect, in every
\* behaviour of the ring.
THEOREM InvAlways == Spec => []Inv
<1>1. Inv /\ [Next]_vars => Inv' BY NextOK
<1> QED BY InitOK, <1>1, PTL DEF Spec

\* Every variable has the values the code can give it, and no table of ids
\* exceeds MAX_CLIENTS: add_global_id is the only writer, and it tests first.
THEOREM TypesCorrect == Spec => []TypeOK
<1>1. Inv => TypeOK
  <2> SUFFICES ASSUME Inv PROVE TypeOK
    OBVIOUS
  <2> USE DEF Inv
  <2>1. DbTypeOK BY DEF DbOK
  <2>2. down \in [Client -> Seq(Msg)]
    <3>1. ToClient \subseteq Msg BY DEF ToClient
    <3>2. \A c \in Client : down[c] \in Seq(Msg) BY <3>1, SeqMonotonic DEF DownOK
    <3> QED BY <3>2 DEF DownOK
  <2>3. /\ ids \in [Broker -> Seq([global_id : Nat, mtype : Connection])]
        /\ \A b \in Broker : Len(ids[b]) <= MAX_CLIENTS
    BY DEF TablesOK
  <2>4. /\ up \in [Connection -> Seq(Msg)]
        /\ workerQ \in [Broker -> Seq(Msg)]
        /\ respQ \in [Connection -> Seq(Msg)]
    BY DEF UpOK, WorkQOK, RespQOK
  <2>5. /\ wpc \in [Broker -> {"idle", "add_user", "add_id", "subscribe", "publish",
                                "fan_out", "delete", "remove_id", "respond"}]
        /\ wmsg \in [Broker -> Msg]
        /\ wsubs \in [Broker -> SUBSET Line]
        /\ wrelayed \in [Broker -> BOOLEAN]
    BY DEF WorkersOK, Steps
  <2> QED BY <2>1, <2>2, <2>3, <2>4, <2>5 DEF TypeOK, ClientsOK
<1> QED BY InvAlways, <1>1, PTL

\* No topic keeps a line of a deleted user, however the workers of the brokers
\* interleave their calls to the database: an id that is given out again starts
\* without subscriptions.
THEOREM DeletedUsersForgotten == Spec => []NoOrphanLines
<1>1. Inv => NoOrphanLines BY DEF Inv, DbOK
<1> QED BY InvAlways, <1>1, PTL

\* What one broker sends to the next are publications only, stamped with the
\* broker their publisher is connected to: the test for discarding a message
\* that has gone round is made on the right id.
THEOREM RingMessagesStamped == Spec => []RingCarriesStamped
<1>1. Inv => RingCarriesStamped
  <2> SUFFICES ASSUME Inv, NEW b \in Broker,
                      NEW m \in Elements(respQ[b]) \cup Elements(up[b])
               PROVE  /\ m.type = "PUBLISH"
                      /\ m.pub \in DOMAIN pubs
                      /\ m.broker_id = Home[pubs[m.pub].by]
    BY DEF RingCarriesStamped
  <2>1. Elements(respQ[b]) \subseteq OnRing
    BY ElementOfSeq, LenProperties DEF Elements, Inv, RespQOK
  <2>2. Elements(up[b]) \subseteq Arriving
    BY ElementOfSeq, LenProperties DEF Elements, Inv, UpOK
  <2>3. m \in OnRing BY <2>1, <2>2 DEF Arriving
  <2> QED BY <2>3 DEF OnRing, PublishedAt
<1> QED BY InvAlways, <1>1, PTL

\* A worker with a publication to pass on finds the next broker in its table:
\* nothing reaches it before the ring connection has registered.
THEOREM NextBrokerKnown == Spec => []LinkKnown
<1>1. Inv => LinkKnown
  <2> SUFFICES ASSUME Inv, NEW b \in Broker, wpc[b] = "fan_out"
               PROVE  GetMtype(ids[b], NEXT_SERVER_GLOBAL_ID) # NO_MTYPE_FOUND_CODE
    BY DEF LinkKnown
  <2>1. Linked(b) BY DEF Inv, WorkersOK, WorkerOK
  <2>2. GetMtype(ids[b], NEXT_SERVER_GLOBAL_ID) = b BY <2>1, NextServerKnown DEF Inv
  <2> QED BY <2>2, Constants DEF NO_MTYPE_FOUND_CODE
<1> QED BY InvAlways, <1>1, PTL

-----------------------------------------------------------------------------
(* One copy of a publication on the ring.                                  *)

\* The message of publication p is at place e.
AtPlace(p, e) ==
  \/ \E x \in Connection : \E i \in DOMAIN up[x] : IsCopy(up[x][i], p) /\ e = <<"up", x, i>>
  \/ \E b \in Broker : \E i \in DOMAIN workerQ[b] :
       IsCopy(workerQ[b][i], p) /\ e = <<"work", b, i>>
  \/ \E b \in Broker : \E i \in DOMAIN respQ[b] :
       IsCopy(respQ[b][i], p) /\ e = <<"resp", b, i>>
  \/ \E b \in Broker : /\ wpc[b] \in {"publish", "fan_out"} /\ IsCopy(wmsg[b], p)
                       /\ ~wrelayed[b] /\ e = <<"worker", b, 0>>

\* The four kinds of places.
UpPlaces(p) ==
  UNION {{<<"up", x, i>> : i \in {j \in DOMAIN up[x] : IsCopy(up[x][j], p)}} : x \in Connection}
WorkPlaces(p) ==
  UNION {{<<"work", b, i>> : i \in {j \in DOMAIN workerQ[b] : IsCopy(workerQ[b][j], p)}} :
         b \in Broker}
RespPlaces(p) ==
  UNION {{<<"resp", b, i>> : i \in {j \in DOMAIN respQ[b] : IsCopy(respQ[b][j], p)}} :
         b \in Broker}
WorkerPlaces(p) ==
  {<<"worker", b, 0>> : b \in {d \in Broker : /\ wpc[d] \in {"publish", "fan_out"}
                                              /\ IsCopy(wmsg[d], p)
                                              /\ ~wrelayed[d]}}

LEMMA CarriersAre ==
  ASSUME NEW p, NEW e
  PROVE  /\ e \in Carriers(p) <=> AtPlace(p, e)
         /\ e \in Carriers(p)' <=> AtPlace(p, e)'
<1>1. /\ Carriers(p) = UNION {UpPlaces(p), WorkPlaces(p), RespPlaces(p), WorkerPlaces(p)}
      /\ Carriers(p)' = UNION {UpPlaces(p)', WorkPlaces(p)', RespPlaces(p)', WorkerPlaces(p)'}
  BY Zenon DEF Carriers, UpPlaces, WorkPlaces, RespPlaces, WorkerPlaces
<1>2. /\ e \in UpPlaces(p) <=> \E x \in Connection : \E i \in DOMAIN up[x] :
                                 IsCopy(up[x][i], p) /\ e = <<"up", x, i>>
      /\ e \in UpPlaces(p)' <=> \E x \in Connection : \E i \in DOMAIN up'[x] :
                                 IsCopy(up'[x][i], p) /\ e = <<"up", x, i>>
  BY DEF UpPlaces, IsCopy
<1>3. /\ e \in WorkPlaces(p) <=> \E b \in Broker : \E i \in DOMAIN workerQ[b] :
                                 IsCopy(workerQ[b][i], p) /\ e = <<"work", b, i>>
      /\ e \in WorkPlaces(p)' <=> \E b \in Broker : \E i \in DOMAIN workerQ'[b] :
                                 IsCopy(workerQ'[b][i], p) /\ e = <<"work", b, i>>
  BY DEF WorkPlaces, IsCopy
<1>4. /\ e \in RespPlaces(p) <=> \E b \in Broker : \E i \in DOMAIN respQ[b] :
                                 IsCopy(respQ[b][i], p) /\ e = <<"resp", b, i>>
      /\ e \in RespPlaces(p)' <=> \E b \in Broker : \E i \in DOMAIN respQ'[b] :
                                 IsCopy(respQ'[b][i], p) /\ e = <<"resp", b, i>>
  BY DEF RespPlaces, IsCopy
<1>5. /\ e \in WorkerPlaces(p) <=>
           \E b \in Broker : /\ wpc[b] \in {"publish", "fan_out"} /\ IsCopy(wmsg[b], p)
                             /\ ~wrelayed[b] /\ e = <<"worker", b, 0>>
      /\ e \in WorkerPlaces(p)' <=>
           \E b \in Broker : /\ wpc'[b] \in {"publish", "fan_out"} /\ IsCopy(wmsg'[b], p)
                             /\ ~wrelayed'[b] /\ e = <<"worker", b, 0>>
  BY DEF WorkerPlaces, IsCopy
<1>6. /\ e \in Carriers(p) <=> \/ e \in UpPlaces(p) \/ e \in WorkPlaces(p)
                               \/ e \in RespPlaces(p) \/ e \in WorkerPlaces(p)
      /\ e \in Carriers(p)' <=> \/ e \in UpPlaces(p)' \/ e \in WorkPlaces(p)'
                                \/ e \in RespPlaces(p)' \/ e \in WorkerPlaces(p)'
  BY <1>1
<1> QED BY <1>2, <1>3, <1>4, <1>5, <1>6, Zenon DEF AtPlace, IsCopy

\* Places after the first message of the queue x of kind k has been taken: the
\* others move up, and its copy may be at a new place.
TakesHead(k, x, new, C, D) ==
  \A e \in D :
    \/ e \in C /\ (e[1] # k \/ e[2] # x)
    \/ \E i \in Nat \ {0} : e = <<k, x, i>> /\ <<k, x, i + 1>> \in C
    \/ e = new /\ <<k, x, 1>> \in C

LEMMA HeadMoves ==
  ASSUME NEW k, NEW x, NEW new, NEW C, NEW D, Single(C), TakesHead(k, x, new, C, D)
  PROVE  Single(D)
<1> USE DEF Single, TakesHead
<1> SUFFICES ASSUME NEW e \in D, NEW f \in D PROVE e = f OBVIOUS
<1> DEFINE Stays(g) == g \in C /\ (g[1] # k \/ g[2] # x)
           Shifts(g) == \E i \in Nat \ {0} : g = <<k, x, i>> /\ <<k, x, i + 1>> \in C
           Comes(g) == g = new /\ <<k, x, 1>> \in C
<1>1. ASSUME NEW g, NEW h, Stays(g), Shifts(h) PROVE FALSE
  <2>1. PICK i \in Nat \ {0} : h = <<k, x, i>> /\ <<k, x, i + 1>> \in C BY <1>1
  <2>2. g = <<k, x, i + 1>> BY <1>1, <2>1
  <2> QED BY <1>1, <2>2
<1>2. ASSUME NEW g, NEW h, Stays(g), Comes(h) PROVE FALSE
  <2>1. g = <<k, x, 1>> BY <1>2
  <2> QED BY <1>2, <2>1
<1>3. ASSUME NEW g, NEW h, Shifts(g), Comes(h) PROVE FALSE
  <2>1. PICK i \in Nat \ {0} : g = <<k, x, i>> /\ <<k, x, i + 1>> \in C BY <1>3
  <2>2. <<k, x, i + 1>> = <<k, x, 1>> BY <1>3, <2>1
  <2>3. i + 1 = 1 BY <2>2
  <2> QED BY <2>3
<1>4. ASSUME NEW g, NEW h, Shifts(g), Shifts(h) PROVE g = h
  <2>1. PICK i \in Nat \ {0} : g = <<k, x, i>> /\ <<k, x, i + 1>> \in C BY <1>4
  <2>2. PICK j \in Nat \ {0} : h = <<k, x, j>> /\ <<k, x, j + 1>> \in C BY <1>4
  <2>3. <<k, x, i + 1>> = <<k, x, j + 1>> BY <2>1, <2>2
  <2>4. i = j BY <2>3
  <2> QED BY <2>1, <2>2, <2>4
<1>5. ASSUME NEW g \in D PROVE Stays(g) \/ Shifts(g) \/ Comes(g) OBVIOUS
<1>6. ASSUME NEW g, NEW h, Stays(g), Stays(h) PROVE g = h BY <1>6
<1>7. ASSUME NEW g, NEW h, Comes(g), Comes(h) PROVE g = h BY <1>7
<1> HIDE DEF Stays, Shifts, Comes
<1> QED BY <1>1, <1>2, <1>3, <1>4, <1>5, <1>6, <1>7

\* One place is exchanged for another.
Exchanges(old, new, C, D) ==
  \A e \in D : (e \in C /\ e # old) \/ (e = new /\ old \in C)

LEMMA PlaceMoves ==
  ASSUME NEW old, NEW new, NEW C, NEW D, Single(C), Exchanges(old, new, C, D)
  PROVE  Single(D)
BY DEF Single, Exchanges

\* No place is added.
LEMMA PlacesKept ==
  ASSUME NEW p, \A e, f \in Carriers(p) : e = f,
         \A x \in Connection : \A i \in DOMAIN up'[x] :
           IsCopy(up'[x][i], p) => i \in DOMAIN up[x] /\ IsCopy(up[x][i], p),
         \A b \in Broker : \A i \in DOMAIN workerQ'[b] :
           IsCopy(workerQ'[b][i], p) => i \in DOMAIN workerQ[b] /\ IsCopy(workerQ[b][i], p),
         \A b \in Broker : \A i \in DOMAIN respQ'[b] :
           IsCopy(respQ'[b][i], p) => i \in DOMAIN respQ[b] /\ IsCopy(respQ[b][i], p),
         \A b \in Broker :
           wpc'[b] \in {"publish", "fan_out"} /\ IsCopy(wmsg'[b], p) /\ ~wrelayed'[b] =>
             wpc[b] \in {"publish", "fan_out"} /\ IsCopy(wmsg[b], p) /\ ~wrelayed[b]
  PROVE  (\A e, f \in Carriers(p) : e = f)'
<1>1. ASSUME NEW e, AtPlace(p, e)' PROVE AtPlace(p, e)
  BY <1>1 DEF AtPlace, IsCopy
<1>2. ASSUME NEW e, e \in Carriers(p)' PROVE e \in Carriers(p) BY <1>1, <1>2, CarriersAre
<1> QED BY <1>2

\* Queues after a message has been put in or taken out.
LEMMA PutIn ==
  ASSUME NEW S, NEW q \in [S -> Seq(Msg)], NEW x \in S, NEW m \in Msg, NEW r,
         r = [q EXCEPT ![x] = Append(q[x], m)]
  PROVE  /\ \A y \in S : y # x => r[y] = q[y]
         /\ Len(q[x]) \in Nat /\ Len(r[x]) = Len(q[x]) + 1
         /\ \A y \in S : DOMAIN q[y] = 1..Len(q[y]) /\ DOMAIN r[y] = 1..Len(r[y])
         /\ r[x][Len(q[x]) + 1] = m
         /\ \A y \in S : \A i \in DOMAIN q[y] : i \in DOMAIN r[y] /\ r[y][i] = q[y][i]
         /\ \A y \in S : \A i \in DOMAIN r[y] :
              \/ i \in DOMAIN q[y] /\ r[y][i] = q[y][i]
              \/ y = x /\ i = Len(q[x]) + 1 /\ r[y][i] = m
<1>1. q[x] \in Seq(Msg) /\ r[x] = Append(q[x], m) /\ \A y \in S : y # x => r[y] = q[y]
  OBVIOUS
<1>2. /\ r[x] \in Seq(Msg) /\ Len(q[x]) \in Nat /\ Len(r[x]) = Len(q[x]) + 1
      /\ r[x][Len(q[x]) + 1] = m /\ \A i \in 1..Len(q[x]) : r[x][i] = q[x][i]
  BY <1>1, AppendProperties
<1>3. \A y \in S : DOMAIN q[y] = 1..Len(q[y]) /\ DOMAIN r[y] = 1..Len(r[y])
  BY <1>1, <1>2, LenProperties
<1>4. ASSUME NEW y \in S, NEW i \in DOMAIN q[y]
      PROVE  i \in DOMAIN r[y] /\ r[y][i] = q[y][i]
  BY <1>1, <1>2, <1>3, <1>4
<1>5. ASSUME NEW y \in S, NEW i \in DOMAIN r[y]
      PROVE  \/ i \in DOMAIN q[y] /\ r[y][i] = q[y][i]
             \/ y = x /\ i = Len(q[x]) + 1 /\ r[y][i] = m
  BY <1>1, <1>2, <1>3, <1>5
<1> QED BY <1>1, <1>2, <1>3, <1>4, <1>5

LEMMA TakenOut ==
  ASSUME NEW S, NEW q \in [S -> Seq(Msg)], NEW x \in S, q[x] # <<>>, NEW r,
         r = [q EXCEPT ![x] = Tail(q[x])]
  PROVE  /\ \A y \in S : y # x => r[y] = q[y]
         /\ 1 \in DOMAIN q[x] /\ q[x][1] = Head(q[x]) /\ Head(q[x]) \in Msg
         /\ \A i \in DOMAIN r[x] : i \in Nat \ {0} /\ i + 1 \in DOMAIN q[x] /\ r[x][i] = q[x][i + 1]
         /\ \A i \in DOMAIN q[x] : i = 1 \/ (i - 1 \in DOMAIN r[x] /\ r[x][i - 1] = q[x][i])
<1>1. q[x] \in Seq(Msg) /\ r[x] = Tail(q[x]) /\ \A y \in S : y # x => r[y] = q[y]
  OBVIOUS
<1>2. /\ r[x] \in Seq(Msg) /\ Len(q[x]) \in Nat /\ Len(q[x]) >= 1 /\ Len(r[x]) = Len(q[x]) - 1
      /\ Head(q[x]) \in Msg /\ q[x][1] = Head(q[x])
      /\ \A i \in 1..Len(r[x]) : r[x][i] = q[x][i + 1]
  BY <1>1, HeadTailProperties
<1>3. DOMAIN q[x] = 1..Len(q[x]) /\ DOMAIN r[x] = 1..Len(r[x]) BY <1>1, <1>2, LenProperties
<1>4. ASSUME NEW i \in DOMAIN r[x]
      PROVE  i \in Nat \ {0} /\ i + 1 \in DOMAIN q[x] /\ r[x][i] = q[x][i + 1]
  BY <1>2, <1>3, <1>4
<1>5. ASSUME NEW i \in DOMAIN q[x], i # 1
      PROVE  i - 1 \in DOMAIN r[x] /\ r[x][i - 1] = q[x][i]
  <2>1. i - 1 \in 1..Len(r[x]) /\ (i - 1) + 1 = i BY <1>2, <1>3, <1>5
  <2> QED BY <1>2, <1>3, <2>1
<1> QED BY <1>1, <1>2, <1>3, <1>4, <1>5

\* The lists of the workers keep clear of the next broker.
LEMMA ListsKept ==
  ASSUME ListsProper, strayed \subseteq strayed',
         \A b \in Broker : wpc'[b] = "fan_out" =>
           wpc[b] = "fan_out" /\ wmsg'[b].pub = wmsg[b].pub /\ wsubs'[b] \subseteq wsubs[b]
  PROVE  ListsProper'
BY DEF ListsProper

\* A step that puts no publication anywhere on its way round.
LEMMA Quiet ==
  ASSUME OneCarrier, Proper' \subseteq Proper,
         \A x \in Connection : \A i \in DOMAIN up'[x] : up'[x][i].type = "PUBLISH" =>
           i \in DOMAIN up[x] /\ up'[x][i] = up[x][i],
         workerQ' = workerQ,
         \A b \in Broker : respQ'[b] = respQ[b],
         \A b \in Broker :
           wpc'[b] \in {"publish", "fan_out"} /\ wmsg'[b].type = "PUBLISH" /\ ~wrelayed'[b] =>
             /\ wpc[b] \in {"publish", "fan_out"} /\ ~wrelayed[b]
             /\ wmsg[b].type = "PUBLISH" /\ wmsg[b].pub = wmsg'[b].pub
  PROVE  OneCarrier'
<1> SUFFICES ASSUME NEW p \in Proper' PROVE (\A e, f \in Carriers(p) : e = f)'
  BY DEF OneCarrier
<1>1. \A e, f \in Carriers(p) : e = f BY DEF OneCarrier
<1>2. \A x \in Connection : \A i \in DOMAIN up'[x] :
        IsCopy(up'[x][i], p) => i \in DOMAIN up[x] /\ IsCopy(up[x][i], p)
  BY DEF IsCopy
<1>3. \A b \in Broker :
        wpc'[b] \in {"publish", "fan_out"} /\ IsCopy(wmsg'[b], p) /\ ~wrelayed'[b] =>
          wpc[b] \in {"publish", "fan_out"} /\ IsCopy(wmsg[b], p) /\ ~wrelayed[b]
  BY DEF IsCopy
<1> QED BY <1>1, <1>2, <1>3, PlacesKept

\* The same, for the steps that leave the workers alone.
LEMMA QuietOutside ==
  ASSUME OneCarrier, ListsProper, DOMAIN pubs' = DOMAIN pubs, strayed' = strayed,
         \A x \in Connection : \A i \in DOMAIN up'[x] : up'[x][i].type = "PUBLISH" =>
           i \in DOMAIN up[x] /\ up'[x][i] = up[x][i],
         UNCHANGED <<workerQ, workerPart>>,
         \A b \in Broker : respQ'[b] = respQ[b]
  PROVE  OneCarrier' /\ ListsProper'
<1>1. Proper' \subseteq Proper BY DEF Proper
<1>2. OneCarrier' BY <1>1, Quiet DEF workerPart
<1>3. ListsProper' BY ListsKept DEF workerPart
<1> QED BY <1>2, <1>3

\* The same, for the steps of the worker of b that are not about passing on.
LEMMA QuietWorker ==
  ASSUME Inv, OneCarrier, ListsProper, NEW b \in Broker, NEW step, NEW m,
         WorkerFrame, GoTo(b, step, m), step \notin {"publish", "fan_out"},
         \A d \in Broker : d # b => wsubs'[d] = wsubs[d] /\ wrelayed'[d] = wrelayed[d],
         strayed' = strayed,
         \A d \in Broker : respQ'[d] = respQ[d]
  PROVE  OneCarrier' /\ ListsProper'
<1>1. Proper' \subseteq Proper BY DEF Proper, WorkerFrame
<1>2. /\ wpc'[b] = step
      /\ \A d \in Broker : d # b => wpc'[d] = wpc[d] /\ wmsg'[d] = wmsg[d]
  BY DEF GoTo, Inv, WorkersOK
<1>3. OneCarrier' BY <1>1, <1>2, Quiet DEF WorkerFrame
<1>4. ListsProper' BY <1>2, ListsKept
<1> QED BY <1>3, <1>4

\* A message that is no publication is sent by a client.
LEMMA UpGrows ==
  ASSUME Inv, NEW c \in Client, NEW m \in Msg, m.type # "PUBLISH",
         up' = [up EXCEPT ![c] = Append(@, m)]
  PROVE  \A x \in Connection : \A i \in DOMAIN up'[x] : up'[x][i].type = "PUBLISH" =>
           i \in DOMAIN up[x] /\ up'[x][i] = up[x][i]
<1>1. up \in [Connection -> Seq(Msg)] /\ c \in Connection BY DEF Inv, UpOK, Connection
<1>2. up' = [up EXCEPT ![c] = Append(up[c], m)] OBVIOUS
<1> QED BY <1>1, <1>2, PutIn

LEMMA OutsideCarriers ==
  ASSUME Inv, OneCarrier, ListsProper,
         \/ \E b \in Broker : RingConnect(b) \/ RingRegister(b) \/ StartServing(b)
         \/ \E c \in Client : AcceptClient(c) \/ LoseClient(c) \/ EndHandlers(c) \/ ClientReceive(c)
         \/ UNCHANGED vars
  PROVE  OneCarrier' /\ ListsProper'
<1>1. up' = up /\ UNCHANGED <<workerQ, workerPart, respQ, strayed>>
  BY DEF RingConnect, RingRegister, StartServing, AcceptClient, LoseClient, EndHandlers,
         ClientReceive, vars, workerPart
<1>2. DOMAIN pubs' = DOMAIN pubs
  BY DEF RingConnect, RingRegister, StartServing, AcceptClient, LoseClient, EndHandlers,
         ClientReceive, vars
<1> QED BY <1>1, <1>2, QuietOutside

LEMMA RequestCarriers ==
  ASSUME Inv, OneCarrier, ListsProper, NEW c \in Client,
         Create(c) \/ Destroy(c) \/ \E t \in Topic : SubscribeTo(c, t)
  PROVE  OneCarrier' /\ ListsProper'
<1>1. PICK m \in Msg : Send(c, m) /\ m.type # "PUBLISH"
  <2>1. gid[c] \in Nat BY DEF Inv, ClientsOK
  <2>2. ASSUME Create(c) PROVE \E m \in Msg : Send(c, m) /\ m.type # "PUBLISH"
    <3>1. LET m == NewRequest("CREATE", 0, NoTopic, 0) IN m \in Msg /\ m.type = "CREATE"
      BY NewRequestMsg DEF Request
    <3> QED BY <2>2, <3>1 DEF Create
  <2>3. ASSUME Destroy(c) PROVE \E m \in Msg : Send(c, m) /\ m.type # "PUBLISH"
    <3>1. "DESTROY" \in Request /\ NoTopic \in Topic \cup {NoTopic} /\ 0 \in Nat BY DEF Request
    <3>2. /\ NewRequest("DESTROY", gid[c], NoTopic, 0) \in Msg
          /\ NewRequest("DESTROY", gid[c], NoTopic, 0).type = "DESTROY"
      BY <2>1 DEF NewRequest, Msg, Request
    <3> QED BY <2>3, <3>2 DEF Destroy
  <2>4. ASSUME NEW t \in Topic, SubscribeTo(c, t)
        PROVE  \E m \in Msg : Send(c, m) /\ m.type # "PUBLISH"
    <3>1. LET m == NewRequest("SUBSCRIBE", gid[c], t, 0) IN m \in Msg /\ m.type = "SUBSCRIBE"
      BY <2>1, NewRequestMsg DEF Request
    <3> QED BY <2>4, <3>1 DEF SubscribeTo
  <2> QED BY <2>2, <2>3, <2>4
<1>2. DOMAIN pubs' = DOMAIN pubs BY DEF Create, Destroy, SubscribeTo
<1>3. up' = [up EXCEPT ![c] = Append(@, m)] /\ UNCHANGED <<workerQ, workerPart, respQ, strayed>>
  BY <1>1 DEF Send
<1> QED BY <1>1, <1>2, <1>3, UpGrows, QuietOutside

LEMMA RespHandlerCarriers ==
  ASSUME Inv, OneCarrier, ListsProper, NEW c \in Client, RespHandler(c)
  PROVE  OneCarrier' /\ ListsProper'
<1>1. up' = up /\ UNCHANGED <<workerQ, workerPart, strayed, pubs>>
  BY DEF RespHandler, workerPart
<1>2. \A b \in Broker : respQ'[b] = respQ[b]
  BY Constants DEF RespHandler, Inv, RespQOK, Connection
<1> QED BY <1>1, <1>2, QuietOutside

\* The number of a new publication is nowhere yet.
\* Only publications that have been sent are on their way.
LEMMA PublicationsKnown ==
  ASSUME Inv
  PROVE  /\ \A x \in Connection : \A i \in DOMAIN up[x] : up[x][i].type = "PUBLISH" => up[x][i].pub \in DOMAIN pubs
         /\ \A b \in Broker : \A i \in DOMAIN workerQ[b] :
              workerQ[b][i].type = "PUBLISH" => workerQ[b][i].pub \in DOMAIN pubs
         /\ \A b \in Broker : \A i \in DOMAIN respQ[b] : respQ[b][i].pub \in DOMAIN pubs
         /\ \A b \in Broker : wpc[b] \in {"publish", "fan_out"} => wmsg[b].pub \in DOMAIN pubs
<1>1. /\ \A b : \A k \in Identified(b) : k.type = "PUBLISH" => k.pub \in DOMAIN pubs
      /\ \A k \in OnRing : k.pub \in DOMAIN pubs
      /\ \A b : \A k \in Labelled(b) : k.type # "PUBLISH"
      /\ \A d \in Client : \A k \in FromClient(d) : k.type = "PUBLISH" => k.pub \in DOMAIN pubs
  BY DEF Identified, OnRing, Labelled, PublishedAt, FromClient
<1>2. \A b : \A k \in ForWorker(b) : k.type = "PUBLISH" => k.pub \in DOMAIN pubs
  BY <1>1 DEF ForWorker, Arriving
<1>3. ASSUME NEW x \in Connection, NEW i \in DOMAIN up[x], up[x][i].type = "PUBLISH"
      PROVE  up[x][i].pub \in DOMAIN pubs
  <2>1. x \in Client => up[x][i] \in FromClient(x)
    BY <1>3, ElementOfSeq, LenProperties DEF Inv, UpOK
  <2>2. x \in Broker => up[x][i] \in Arriving
    BY <1>3, ElementOfSeq, LenProperties DEF Inv, UpOK
  <2> QED BY <1>1, <1>3, <2>1, <2>2 DEF Connection, Arriving
<1>4. ASSUME NEW b \in Broker, NEW i \in DOMAIN workerQ[b], workerQ[b][i].type = "PUBLISH"
      PROVE  workerQ[b][i].pub \in DOMAIN pubs
  <2>1. workerQ[b][i] \in ForWorker(b)
    BY <1>4, ElementOfSeq, LenProperties DEF Inv, WorkQOK
  <2> QED BY <1>2, <1>4, <2>1
<1>5. ASSUME NEW b \in Broker, NEW i \in DOMAIN respQ[b] PROVE respQ[b][i].pub \in DOMAIN pubs
  <2>1. respQ[b][i] \in OnRing BY <1>5, ElementOfSeq, LenProperties DEF Inv, RespQOK
  <2> QED BY <1>1, <2>1
<1>6. ASSUME NEW b \in Broker, wpc[b] \in {"publish", "fan_out"} PROVE wmsg[b].pub \in DOMAIN pubs
  BY <1>1, <1>6 DEF Inv, WorkersOK, WorkerOK, Arriving, PublishedAt
<1> QED BY <1>3, <1>4, <1>5, <1>6

LEMMA PublishCarriers ==
  ASSUME Inv, OneCarrier, ListsProper, NEW c \in Client, NEW t \in Topic, Publish(c, t)
  PROVE  OneCarrier' /\ ListsProper'
<1> DEFINE n == Len(pubs) + 1
           m == NewRequest("PUBLISH", gid[c], t, n)
<1>1. Len(pubs) \in Nat /\ DOMAIN pubs = 1..Len(pubs) /\ n \in Nat /\ n \notin DOMAIN pubs
  BY LenProperties DEF Inv, ClientsOK
<1>2. DOMAIN pubs' = DOMAIN pubs \cup {n}
  <2>1. PICK r \in [by : Client, topic : Topic, audience : SUBSET Client] :
          pubs' = Append(pubs, r)
    BY DEF Publish
  <2>2. pubs \in Seq([by : Client, topic : Topic, audience : SUBSET Client])
    BY DEF Inv, ClientsOK
  <2>3. pubs' \in Seq([by : Client, topic : Topic, audience : SUBSET Client]) /\ Len(pubs') = n
    BY <2>1, <2>2, AppendProperties
  <2>4. DOMAIN pubs' = 1..n BY <2>3, LenProperties
  <2> QED BY <1>1, <2>4
<1>3. m \in Msg /\ m.type = "PUBLISH" /\ m.pub = n
  BY <1>1, NewRequestMsg DEF Inv, ClientsOK, Request
<1>4. /\ up' = [up EXCEPT ![c] = Append(up[c], m)]
      /\ UNCHANGED <<workerQ, workerPart, respQ, strayed>>
  BY DEF Publish, Send
<1> HIDE DEF m, n
<1>5. up \in [Connection -> Seq(Msg)] /\ c \in Connection BY DEF Inv, UpOK, Connection
<1>6. /\ \A x \in Connection : \A i \in DOMAIN up[x] : up[x][i].type = "PUBLISH" => up[x][i].pub \in DOMAIN pubs
      /\ \A b \in Broker : \A i \in DOMAIN workerQ[b] :
           workerQ[b][i].type = "PUBLISH" => workerQ[b][i].pub \in DOMAIN pubs
      /\ \A b \in Broker : \A i \in DOMAIN respQ[b] : respQ[b][i].pub \in DOMAIN pubs
      /\ \A b \in Broker : wpc[b] \in {"publish", "fan_out"} => wmsg[b].pub \in DOMAIN pubs
  BY PublicationsKnown
<1>7. ASSUME NEW p \in Proper' PROVE (\A e, f \in Carriers(p) : e = f)'
  <2>1. CASE p = n
    <3>1. ASSUME NEW e, AtPlace(p, e)' PROVE e = <<"up", c, Len(up[c]) + 1>>
      <4>1. CASE \E x \in Connection : \E i \in DOMAIN up'[x] : IsCopy(up'[x][i], p) /\ e = <<"up", x, i>>
        <5>0. PICK x \in Connection : \E i \in DOMAIN up'[x] : IsCopy(up'[x][i], p) /\ e = <<"up", x, i>>
          BY <4>1
        <5>1. PICK i \in DOMAIN up'[x] : IsCopy(up'[x][i], p) /\ e = <<"up", x, i>> BY <5>0
        <5>2. ~(i \in DOMAIN up[x] /\ up'[x][i] = up[x][i])
          BY <1>1, <1>6, <2>1, <5>1 DEF IsCopy
        <5> QED BY <1>3, <1>4, <1>5, <5>1, <5>2, PutIn
      <4>2. CASE \/ \E b \in Broker : \E i \in DOMAIN workerQ[b] : IsCopy(workerQ[b][i], p)
                 \/ \E b \in Broker : \E i \in DOMAIN respQ[b] : IsCopy(respQ[b][i], p)
                 \/ \E b \in Broker : wpc[b] \in {"publish", "fan_out"} /\ IsCopy(wmsg[b], p)
        BY <1>1, <1>6, <2>1, <4>2 DEF IsCopy
      <4> QED BY <1>4, <3>1, <4>1, <4>2 DEF AtPlace, IsCopy, workerPart
    <3> QED BY <3>1, CarriersAre
  <2>2. CASE p # n
    <3>1. p \in Proper BY <1>2, <1>4, <2>2 DEF Proper
    <3>2. \A x \in Connection : \A i \in DOMAIN up'[x] : IsCopy(up'[x][i], p) =>
            i \in DOMAIN up[x] /\ IsCopy(up[x][i], p)
      <4> SUFFICES ASSUME NEW x \in Connection, NEW i \in DOMAIN up'[x], IsCopy(up'[x][i], p)
                   PROVE  i \in DOMAIN up[x] /\ IsCopy(up[x][i], p)
        OBVIOUS
      <4>1. up'[x][i] # m BY <1>3, <2>2 DEF IsCopy
      <4>2. i \in DOMAIN up[x] /\ up'[x][i] = up[x][i] BY <1>3, <1>4, <1>5, <4>1, PutIn
      <4> QED BY <4>2 DEF IsCopy
    <3>3. \A e, f \in Carriers(p) : e = f BY <3>1 DEF OneCarrier
    <3> QED BY <1>4, <3>2, <3>3, PlacesKept DEF workerPart, IsCopy
  <2> QED BY <2>1, <2>2
<1>8. ListsProper' BY <1>4, ListsKept DEF workerPart
<1> QED BY <1>7, <1>8 DEF OneCarrier

-----------------------------------------------------------------------------
(* The steps that move a publication: each takes it from where it was.     *)

\* The index of the place of a message.
LEMMA PlaceIndex ==
  ASSUME NEW S, NEW q \in [S -> Seq(Msg)], NEW x \in S, NEW i \in DOMAIN q[x]
  PROVE  i \in Nat \ {0}
BY LenProperties

LEMMA ReqHandlerCarriers ==
  ASSUME Inv, OneCarrier, ListsProper, NEW x \in Connection, ReqHandler(x)
  PROVE  OneCarrier' /\ ListsProper'
<1> DEFINE m == Head(up[x])
           b == Server(x)
           k == IF m.type = "CREATE" THEN [m EXCEPT !.mtype = x] ELSE m
<1>1. UNCHANGED <<workerPart, respQ, strayed, pubs>>
  BY DEF ReqHandler, workerPart
<1>2. b \in Broker BY Constants DEF Server, Connection
<1>3. up \in [Connection -> Seq(Msg)] /\ workerQ \in [Broker -> Seq(Msg)] /\ up[x] # <<>>
  BY DEF Inv, UpOK, WorkQOK, ReqHandler
<1>4. up' = [up EXCEPT ![x] = Tail(up[x])] /\ workerQ' = [workerQ EXCEPT ![b] = Append(workerQ[b], k)]
  BY DEF ReqHandler
<1>5. m = up[x][1] /\ m \in Msg /\ 1 \in DOMAIN up[x] BY <1>3, <1>4, TakenOut
<1>6. k \in Msg /\ \A p : IsCopy(k, p) => IsCopy(m, p)
  BY <1>5 DEF Msg, IsCopy, Connection, Broker
<1> HIDE DEF k, m, b
<1>7. ASSUME NEW p \in Proper' PROVE (\A e, f \in Carriers(p) : e = f)'
  <2>1. \A e, f \in Carriers(p) : e = f BY <1>1 DEF OneCarrier, Proper
  <2>2. ASSUME NEW e, AtPlace(p, e)'
        PROVE  \/ AtPlace(p, e) /\ (e[1] # "up" \/ e[2] # x)
               \/ \E i \in Nat \ {0} : e = <<"up", x, i>> /\ AtPlace(p, <<"up", x, i + 1>>)
               \/ e = <<"work", b, Len(workerQ[b]) + 1>> /\ AtPlace(p, <<"up", x, 1>>)
    <3>1. ASSUME NEW y \in Connection, NEW i \in DOMAIN up'[y], IsCopy(up'[y][i], p), e = <<"up", y, i>>
          PROVE  \/ AtPlace(p, e) /\ e[2] # x
                 \/ \E j \in Nat \ {0} : e = <<"up", x, j>> /\ AtPlace(p, <<"up", x, j + 1>>)
      <4>1. CASE y = x
        <5>1. i \in Nat \ {0} /\ i + 1 \in DOMAIN up[x] /\ up'[x][i] = up[x][i + 1]
          BY <1>3, <1>4, <3>1, <4>1, TakenOut
        <5>2. AtPlace(p, <<"up", x, i + 1>>) BY <3>1, <4>1, <5>1 DEF AtPlace
        <5> QED BY <3>1, <4>1, <5>1, <5>2
      <4>2. CASE y # x
        <5>1. up'[y] = up[y] BY <1>3, <1>4, <4>2
        <5> QED BY <3>1, <4>2, <5>1 DEF AtPlace
      <4> QED BY <4>1, <4>2
    <3>2. ASSUME NEW d \in Broker, NEW i \in DOMAIN workerQ'[d], IsCopy(workerQ'[d][i], p), e = <<"work", d, i>>
          PROVE  \/ AtPlace(p, e) /\ e[1] # "up"
                 \/ e = <<"work", b, Len(workerQ[b]) + 1>> /\ AtPlace(p, <<"up", x, 1>>)
      <4>1. CASE i \in DOMAIN workerQ[d] /\ workerQ'[d][i] = workerQ[d][i]
        BY <3>2, <4>1 DEF AtPlace
      <4>2. CASE d = b /\ i = Len(workerQ[b]) + 1 /\ workerQ'[d][i] = k
        <5>1. IsCopy(up[x][1], p) BY <1>5, <1>6, <3>2, <4>2
        <5>2. AtPlace(p, <<"up", x, 1>>) BY <1>5, <5>1 DEF AtPlace
        <5> QED BY <3>2, <4>2, <5>2
      <4> QED BY <1>2, <1>3, <1>4, <1>6, <4>1, <4>2, PutIn
    <3>3. ASSUME \/ \E d \in Broker : \E i \in DOMAIN respQ[d] :
                      IsCopy(respQ[d][i], p) /\ e = <<"resp", d, i>>
                 \/ \E d \in Broker : /\ wpc[d] \in {"publish", "fan_out"} /\ IsCopy(wmsg[d], p)
                                      /\ ~wrelayed[d] /\ e = <<"worker", d, 0>>
          PROVE  AtPlace(p, e) /\ e[1] # "up"
      BY <3>3 DEF AtPlace
    <3> QED BY <1>1, <2>2, <3>1, <3>2, <3>3 DEF AtPlace, workerPart, IsCopy
  <2>3. ASSUME NEW e \in Carriers(p)'
        PROVE  \/ e \in Carriers(p) /\ (e[1] # "up" \/ e[2] # x)
               \/ \E i \in Nat \ {0} : e = <<"up", x, i>> /\ <<"up", x, i + 1>> \in Carriers(p)
               \/ e = <<"work", b, Len(workerQ[b]) + 1>> /\ <<"up", x, 1>> \in Carriers(p)
    BY <2>2, <2>3, CarriersAre
  <2>4. PICK C, D : C = Carriers(p) /\ D = Carriers(p)' OBVIOUS
  <2>5. TakesHead("up", x, <<"work", b, Len(workerQ[b]) + 1>>, C, D) BY <2>3, <2>4 DEF TakesHead
  <2>6. Single(C) BY <2>1, <2>4 DEF Single
  <2>7. Single(D) BY <2>5, <2>6, HeadMoves
  <2> QED BY <2>4, <2>7 DEF Single
<1>8. ListsProper' BY <1>1, ListsKept DEF workerPart
<1> QED BY <1>7, <1>8 DEF OneCarrier

LEMMA RingRespHandlerCarriers ==
  ASSUME Inv, OneCarrier, ListsProper, NEW b \in Broker, RingRespHandler(b)
  PROVE  OneCarrier' /\ ListsProper'
<1> DEFINE m == Head(respQ[b])
           x == Succ(b)
           o == Outgoing(m)
<1>1. UNCHANGED <<workerPart, workerQ, strayed, pubs>>
  BY DEF RingRespHandler, workerPart
<1>2. x \in Broker /\ x \in Connection /\ b \in Connection BY SuccBroker DEF Connection
<1>3. up \in [Connection -> Seq(Msg)] /\ respQ \in [Connection -> Seq(Msg)] /\ respQ[b] # <<>>
  BY DEF Inv, UpOK, RespQOK, RingRespHandler
<1>4. respQ' = [respQ EXCEPT ![b] = Tail(respQ[b])] /\ up' = [up EXCEPT ![x] = Append(up[x], o)]
  BY DEF RingRespHandler
<1>5. m = respQ[b][1] /\ m \in Msg /\ 1 \in DOMAIN respQ[b] BY <1>2, <1>3, <1>4, TakenOut
<1>6. o \in Msg /\ \A p : IsCopy(o, p) => IsCopy(m, p) BY <1>5, OutgoingMsg DEF IsCopy
<1> HIDE DEF m, o, x
<1>7. ASSUME NEW p \in Proper' PROVE (\A e, f \in Carriers(p) : e = f)'
  <2>1. \A e, f \in Carriers(p) : e = f BY <1>1 DEF OneCarrier, Proper
  <2>2. ASSUME NEW e, AtPlace(p, e)'
        PROVE  \/ AtPlace(p, e) /\ (e[1] # "resp" \/ e[2] # b)
               \/ \E i \in Nat \ {0} : e = <<"resp", b, i>> /\ AtPlace(p, <<"resp", b, i + 1>>)
               \/ e = <<"up", x, Len(up[x]) + 1>> /\ AtPlace(p, <<"resp", b, 1>>)
    <3>1. ASSUME NEW d \in Broker, NEW i \in DOMAIN respQ'[d], IsCopy(respQ'[d][i], p), e = <<"resp", d, i>>
          PROVE  \/ AtPlace(p, e) /\ e[2] # b
                 \/ \E j \in Nat \ {0} : e = <<"resp", b, j>> /\ AtPlace(p, <<"resp", b, j + 1>>)
      <4>1. CASE d = b
        <5>1. i \in Nat \ {0} /\ i + 1 \in DOMAIN respQ[b] /\ respQ'[b][i] = respQ[b][i + 1]
          BY <1>2, <1>3, <1>4, <3>1, <4>1, TakenOut
        <5>2. AtPlace(p, <<"resp", b, i + 1>>) BY <3>1, <4>1, <5>1 DEF AtPlace
        <5> QED BY <3>1, <4>1, <5>1, <5>2
      <4>2. CASE d # b
        <5>1. respQ'[d] = respQ[d] BY <1>3, <1>4, <4>2 DEF Connection
        <5> QED BY <3>1, <4>2, <5>1 DEF AtPlace
      <4> QED BY <4>1, <4>2
    <3>2. ASSUME NEW y \in Connection, NEW i \in DOMAIN up'[y], IsCopy(up'[y][i], p), e = <<"up", y, i>>
          PROVE  \/ AtPlace(p, e) /\ e[1] # "resp"
                 \/ e = <<"up", x, Len(up[x]) + 1>> /\ AtPlace(p, <<"resp", b, 1>>)
      <4>1. CASE i \in DOMAIN up[y] /\ up'[y][i] = up[y][i]
        BY <3>2, <4>1 DEF AtPlace
      <4>2. CASE y = x /\ i = Len(up[x]) + 1 /\ up'[y][i] = o
        <5>1. IsCopy(respQ[b][1], p) BY <1>5, <1>6, <3>2, <4>2
        <5>2. AtPlace(p, <<"resp", b, 1>>) BY <1>5, <5>1 DEF AtPlace
        <5> QED BY <3>2, <4>2, <5>2
      <4> QED BY <1>2, <1>3, <1>4, <1>6, <4>1, <4>2, PutIn
    <3>3. ASSUME \/ \E d \in Broker : \E i \in DOMAIN workerQ[d] :
                      IsCopy(workerQ[d][i], p) /\ e = <<"work", d, i>>
                 \/ \E d \in Broker : /\ wpc[d] \in {"publish", "fan_out"} /\ IsCopy(wmsg[d], p)
                                      /\ ~wrelayed[d] /\ e = <<"worker", d, 0>>
          PROVE  AtPlace(p, e) /\ e[1] # "resp"
      BY <3>3 DEF AtPlace
    <3> QED BY <1>1, <2>2, <3>1, <3>2, <3>3 DEF AtPlace, workerPart, IsCopy
  <2>3. ASSUME NEW e \in Carriers(p)'
        PROVE  \/ e \in Carriers(p) /\ (e[1] # "resp" \/ e[2] # b)
               \/ \E i \in Nat \ {0} : e = <<"resp", b, i>> /\ <<"resp", b, i + 1>> \in Carriers(p)
               \/ e = <<"up", x, Len(up[x]) + 1>> /\ <<"resp", b, 1>> \in Carriers(p)
    BY <2>2, <2>3, CarriersAre
  <2>4. PICK C, D : C = Carriers(p) /\ D = Carriers(p)' OBVIOUS
  <2>5. TakesHead("resp", b, <<"up", x, Len(up[x]) + 1>>, C, D) BY <2>3, <2>4 DEF TakesHead
  <2>6. Single(C) BY <2>1, <2>4 DEF Single
  <2>7. Single(D) BY <2>5, <2>6, HeadMoves
  <2> QED BY <2>4, <2>7 DEF Single
<1>8. ListsProper' BY <1>1, ListsKept DEF workerPart
<1> QED BY <1>7, <1>8 DEF OneCarrier

LEMMA WorkerReceiveCarriers ==
  ASSUME Inv, OneCarrier, ListsProper, NEW b \in Broker, WorkerReceive(b)
  PROVE  OneCarrier' /\ ListsProper'
<1> DEFINE m == Head(workerQ[b])
<1>1. UNCHANGED <<up, wsubs, wrelayed, respQ, strayed, pubs>>
  BY DEF WorkerReceive
<1>2. workerQ \in [Broker -> Seq(Msg)] /\ workerQ[b] # <<>>
  BY DEF Inv, WorkQOK, WorkerReceive
<1>3. workerQ' = [workerQ EXCEPT ![b] = Tail(workerQ[b])] BY DEF WorkerReceive
<1>4. m = workerQ[b][1] /\ m \in Msg /\ 1 \in DOMAIN workerQ[b] BY <1>2, <1>3, TakenOut
<1>5. wpc'[b] # "fan_out"
  <2>1. m \in ForWorker(b) BY <1>4, ElementOfSeq, LenProperties DEF Inv, WorkQOK
  <2>2. m.type \in Request BY <2>1 DEF ForWorker, Labelled, Identified, Arriving, OnRing, Request
  <2>3. FirstStep[m.type] # "fan_out" BY <2>2 DEF Request, FirstStep
  <2>4. wpc'[b] = FirstStep[m.type] BY DEF WorkerReceive, Inv, WorkersOK
  <2> QED BY <2>3, <2>4
<1>6. /\ wmsg'[b] = m
      /\ \A d \in Broker : d # b => wpc'[d] = wpc[d] /\ wmsg'[d] = wmsg[d]
  BY DEF WorkerReceive, Inv, WorkersOK
<1> HIDE DEF m
<1>7. ASSUME NEW p \in Proper' PROVE (\A e, f \in Carriers(p) : e = f)'
  <2>1. \A e, f \in Carriers(p) : e = f BY <1>1 DEF OneCarrier, Proper
  <2>2. ASSUME NEW e, AtPlace(p, e)'
        PROVE  \/ AtPlace(p, e) /\ (e[1] # "work" \/ e[2] # b)
               \/ \E i \in Nat \ {0} : e = <<"work", b, i>> /\ AtPlace(p, <<"work", b, i + 1>>)
               \/ e = <<"worker", b, 0>> /\ AtPlace(p, <<"work", b, 1>>)
    <3>1. ASSUME NEW d \in Broker, NEW i \in DOMAIN workerQ'[d], IsCopy(workerQ'[d][i], p), e = <<"work", d, i>>
          PROVE  \/ AtPlace(p, e) /\ e[2] # b
                 \/ \E j \in Nat \ {0} : e = <<"work", b, j>> /\ AtPlace(p, <<"work", b, j + 1>>)
      <4>1. CASE d = b
        <5>1. i \in Nat \ {0} /\ i + 1 \in DOMAIN workerQ[b] /\ workerQ'[b][i] = workerQ[b][i + 1]
          BY <1>2, <1>3, <3>1, <4>1, TakenOut
        <5>2. AtPlace(p, <<"work", b, i + 1>>) BY <3>1, <4>1, <5>1 DEF AtPlace
        <5> QED BY <3>1, <4>1, <5>1, <5>2
      <4>2. CASE d # b
        <5>1. workerQ'[d] = workerQ[d] BY <1>2, <1>3, <4>2
        <5> QED BY <3>1, <4>2, <5>1 DEF AtPlace
      <4> QED BY <4>1, <4>2
    <3>2. ASSUME NEW d \in Broker, wpc'[d] \in {"publish", "fan_out"}, IsCopy(wmsg'[d], p),
                 ~wrelayed'[d], e = <<"worker", d, 0>>
          PROVE  \/ AtPlace(p, e) /\ e[1] # "work"
                 \/ e = <<"worker", b, 0>> /\ AtPlace(p, <<"work", b, 1>>)
      <4>1. CASE d = b
        <5>1. IsCopy(workerQ[b][1], p) BY <1>4, <1>6, <3>2, <4>1
        <5>2. AtPlace(p, <<"work", b, 1>>) BY <1>4, <5>1 DEF AtPlace
        <5> QED BY <3>2, <4>1, <5>2
      <4>2. CASE d # b BY <1>1, <1>6, <3>2, <4>2 DEF AtPlace
      <4> QED BY <4>1, <4>2
    <3>3. ASSUME \/ \E y \in Connection : \E i \in DOMAIN up[y] :
                      IsCopy(up[y][i], p) /\ e = <<"up", y, i>>
                 \/ \E d \in Broker : \E i \in DOMAIN respQ[d] :
                      IsCopy(respQ[d][i], p) /\ e = <<"resp", d, i>>
          PROVE  AtPlace(p, e) /\ e[1] # "work"
      BY <3>3 DEF AtPlace
    <3> QED BY <1>1, <2>2, <3>1, <3>2, <3>3 DEF AtPlace, IsCopy
  <2>3. ASSUME NEW e \in Carriers(p)'
        PROVE  \/ e \in Carriers(p) /\ (e[1] # "work" \/ e[2] # b)
               \/ \E i \in Nat \ {0} : e = <<"work", b, i>> /\ <<"work", b, i + 1>> \in Carriers(p)
               \/ e = <<"worker", b, 0>> /\ <<"work", b, 1>> \in Carriers(p)
    BY <2>2, <2>3, CarriersAre
  <2>4. PICK C, D : C = Carriers(p) /\ D = Carriers(p)' OBVIOUS
  <2>5. TakesHead("work", b, <<"worker", b, 0>>, C, D) BY <2>3, <2>4 DEF TakesHead
  <2>6. Single(C) BY <2>1, <2>4 DEF Single
  <2>7. Single(D) BY <2>5, <2>6, HeadMoves
  <2> QED BY <2>4, <2>7 DEF Single
<1>8. ListsProper' BY <1>1, <1>5, <1>6, ListsKept
<1> QED BY <1>7, <1>8 DEF OneCarrier

\* The steps after which the worker is about no publication, or no longer.
LEMMA AnswerCarriers ==
  ASSUME Inv, OneCarrier, ListsProper, NEW b \in Broker,
         \/ CreateUser(b) \/ CreateId(b) \/ ProcessSubscribe(b) \/ DeleteUser(b) \/ RemoveId(b)
         \/ DiscardPublish(b) \/ RejectPublish(b) \/ EndFanOut(b)
  PROVE  OneCarrier' /\ ListsProper'
<1>1. WorkerFrame /\ UNCHANGED <<respQ, strayed>>
  BY DEF CreateUser, CreateId, ProcessSubscribe, DeleteUser, RemoveId, NoFanOut,
         DiscardPublish, RejectPublish, EndFanOut
<1>2. \A d \in Broker : d # b => wsubs'[d] = wsubs[d] /\ wrelayed'[d] = wrelayed[d]
  <2>1. CASE CreateUser(b) \/ CreateId(b) \/ ProcessSubscribe(b) \/ DeleteUser(b) \/ RemoveId(b)
    BY <2>1 DEF CreateUser, CreateId, ProcessSubscribe, DeleteUser, RemoveId, NoFanOut
  <2>2. CASE DiscardPublish(b) \/ RejectPublish(b) \/ EndFanOut(b)
    <3>1. /\ wsubs' = wsubs \/ wsubs' = [wsubs EXCEPT ![b] = {}]
          /\ wrelayed' = wrelayed \/ wrelayed' = [wrelayed EXCEPT ![b] = FALSE]
      BY <2>2 DEF DiscardPublish, RejectPublish, EndFanOut, Forget
    <3> QED BY <3>1 DEF Inv, WorkersOK
  <2> QED BY <2>1, <2>2
<1>3. \E step, m : GoTo(b, step, m) /\ step \notin {"publish", "fan_out"}
  <2>1. CASE CreateUser(b) BY <2>1 DEF CreateUser
  <2>2. CASE CreateId(b) BY <2>2 DEF CreateId
  <2>3. CASE ProcessSubscribe(b) BY <2>3 DEF ProcessSubscribe
  <2>4. CASE DeleteUser(b) BY <2>4 DEF DeleteUser
  <2>5. CASE RemoveId(b) BY <2>5 DEF RemoveId
  <2>6. CASE DiscardPublish(b) BY <2>6 DEF DiscardPublish, Forget
  <2>7. CASE RejectPublish(b) BY <2>7 DEF RejectPublish, Forget
  <2>8. CASE EndFanOut(b) BY <2>8 DEF EndFanOut, Forget
  <2> QED BY <2>1, <2>2, <2>3, <2>4, <2>5, <2>6, <2>7, <2>8
<1> QED BY <1>1, <1>2, <1>3, QuietWorker

\* An answer goes to a client's response handler.
LEMMA RespondCarriers ==
  ASSUME Inv, OneCarrier, ListsProper, NEW b \in Broker, Respond(b)
  PROVE  OneCarrier' /\ ListsProper'
<1>1. WorkerFrame /\ strayed' = strayed /\ GoTo(b, "idle", Idle)
  BY DEF Respond, Forget
<1>2. \A d \in Broker : d # b => wsubs'[d] = wsubs[d] /\ wrelayed'[d] = wrelayed[d]
  BY DEF Respond, Forget, Inv, WorkersOK
<1>3. \A d \in Broker : respQ'[d] = respQ[d]
  <2>1. wmsg[b] \in Answer(b) BY DEF Respond, Inv, WorkersOK, WorkerOK
  <2>2. CASE Unknown(wmsg[b]) BY <2>2 DEF Respond
  <2>3. CASE ~Unknown(wmsg[b])
    <3>1. wmsg[b].mtype \in Client BY <2>1, <2>3 DEF Answer, ClientOf
    <3>2. respQ' = [respQ EXCEPT ![wmsg[b].mtype] = Append(@, wmsg[b])]
      BY <2>3 DEF Respond, QueueResp
    <3> QED BY <3>1, <3>2, Constants DEF Inv, RespQOK, Connection
  <2> QED BY <2>2, <2>3
<1> QED BY <1>1, <1>2, <1>3, QuietWorker

\* The list that the database sends is of users, whose ids are not 0; one that
\* it does not send makes the publication a stray.
LEMMA FetchSubsCarriers ==
  ASSUME Inv, OneCarrier, ListsProper, NEW b \in Broker, FetchSubs(b)
  PROVE  OneCarrier' /\ ListsProper'
<1>1. /\ WorkerFrame /\ UNCHANGED <<wrelayed, respQ>> /\ wpc[b] = "publish"
      /\ GoTo(b, "fan_out", Stamped(b)) /\ wmsg[b].topic \in Topic
      /\ strayed' = IF topics[wmsg[b].topic] = {} THEN strayed \cup {wmsg[b].pub} ELSE strayed
  BY DEF FetchSubs, Inv, WorkersOK, WorkerOK, Identified, Arriving, OnRing
<1>2. PICK lines \in DbGetSubscribed(wmsg[b].topic) : wsubs' = [wsubs EXCEPT ![b] = lines]
  BY DEF FetchSubs
<1>3. Stamped(b).pub = wmsg[b].pub /\ Stamped(b).type = "PUBLISH" /\ wmsg[b].type = "PUBLISH"
  <2>1. wmsg[b].type = "PUBLISH" BY <1>1 DEF Inv, WorkersOK, WorkerOK
  <2>2. wmsg[b] \in [mtype : Int \cup Client, global_id : Nat, type : Request \cup Ack,
                     topic : Topic \cup {NoTopic}, pub : Nat, broker_id : {0} \cup Broker]
    BY DEF Inv, WorkersOK, Msg
  <2> QED BY <2>1, <2>2 DEF Stamped, Resolved
<1>4. /\ wpc'[b] = "fan_out" /\ wmsg'[b] = Stamped(b) /\ wsubs'[b] = lines
      /\ \A d \in Broker : d # b => wpc'[d] = wpc[d] /\ wmsg'[d] = wmsg[d] /\ wsubs'[d] = wsubs[d]
  BY <1>1, <1>2 DEF GoTo, Inv, WorkersOK
<1>5. strayed \subseteq strayed' BY <1>1
<1>6. OneCarrier'
  <2>1. Proper' \subseteq Proper BY <1>1, <1>5 DEF Proper, WorkerFrame
  <2> QED BY <1>1, <1>3, <1>4, <2>1, Quiet DEF WorkerFrame
<1>7. ASSUME NEW d \in Broker, wpc'[d] = "fan_out", wmsg'[d].pub \notin strayed', NEW l \in wsubs'[d]
      PROVE  l.id # NEXT_SERVER_GLOBAL_ID
  <2>1. CASE d = b
    <3>1. topics[wmsg[b].topic] # {} BY <1>1, <1>3, <1>4, <1>7, <2>1
    <3>2. l \in topics[wmsg[b].topic] BY <1>2, <1>4, <1>7, <2>1, <3>1 DEF DbGetSubscribed
    <3>3. l.id \in users /\ users \in SUBSET (Nat \ {0})
      BY <1>1, <3>2 DEF Inv, DbOK, NoOrphanLines, DbTypeOK
    <3> QED BY <3>3 DEF NEXT_SERVER_GLOBAL_ID
  <2>2. CASE d # b BY <1>4, <1>5, <1>7, <2>2 DEF ListsProper
  <2> QED BY <2>1, <2>2
<1> QED BY <1>6, <1>7 DEF ListsProper

\* What a turn of the loop of send_to_subs queues is a copy of what the worker has.
LEMMA AddressedCopy ==
  ASSUME Inv, NEW b \in Broker, wpc[b] = "fan_out", NEW l \in wsubs[b], NEW pid \in Connection
  PROVE  /\ Addressed(b, l, pid) \in Msg
         /\ \A p : IsCopy(Addressed(b, l, pid), p) <=> IsCopy(wmsg[b], p)
<1>1. Addressed(b, l, pid) \in Msg BY AddressedMsg
<1>2. wmsg[b] \in [mtype : Int \cup Client, global_id : Nat, type : Request \cup Ack,
                   topic : Topic \cup {NoTopic}, pub : Nat, broker_id : {0} \cup Broker]
  BY DEF Inv, WorkersOK, Msg
<1>3. /\ Addressed(b, l, pid).type = wmsg[b].type
      /\ Addressed(b, l, pid).pub = wmsg[b].pub
  BY <1>2 DEF Addressed
<1> QED BY <1>1, <1>3 DEF IsCopy

LEMMA SendToLocalCarriers ==
  ASSUME Inv, OneCarrier, ListsProper, NEW b \in Broker, SendToLocal(b)
  PROVE  OneCarrier' /\ ListsProper'
<1>1. PICK l \in wsubs[b] :
        /\ GetMtype(ids[b], l.id) # NO_MTYPE_FOUND_CODE
        /\ QueueResp(GetMtype(ids[b], l.id), Addressed(b, l, GetMtype(ids[b], l.id)))
        /\ wsubs' = [wsubs EXCEPT ![b] = @ \ {l}]
  BY DEF SendToLocal
<1>2. WorkerFrame /\ UNCHANGED <<wpc, wmsg, wrelayed, strayed>> /\ wpc[b] = "fan_out"
  BY DEF SendToLocal
<1>3. PICK pid : pid = GetMtype(ids[b], l.id) OBVIOUS
<1>4. /\ l.id = NEXT_SERVER_GLOBAL_ID => pid = b
      /\ l.id # NEXT_SERVER_GLOBAL_ID => pid \in Client
  BY <1>1, <1>3, HeaderKnown DEF Inv, ClientOf
<1>5. pid \in Connection BY <1>4 DEF Connection
<1>6. PICK m \in Msg : m = Addressed(b, l, pid) /\ \A p : IsCopy(m, p) <=> IsCopy(wmsg[b], p)
  BY <1>2, <1>5, AddressedCopy
<1>7. respQ' = [respQ EXCEPT ![pid] = Append(respQ[pid], m)] BY <1>1, <1>3, <1>6 DEF QueueResp
<1>8. respQ \in [Connection -> Seq(Msg)] BY DEF Inv, RespQOK
<1>9. ASSUME NEW p \in Proper' PROVE (\A e, f \in Carriers(p) : e = f)'
  <2>1. p \in Proper BY <1>2 DEF Proper, WorkerFrame
  <2>2. pid \in Broker => ~IsCopy(m, p)
    BY <1>2, <1>4, <1>6, <2>1, Constants DEF ListsProper, Proper, IsCopy
  <2>3. \A d \in Broker : \A i \in DOMAIN respQ'[d] :
          IsCopy(respQ'[d][i], p) => i \in DOMAIN respQ[d] /\ IsCopy(respQ[d][i], p)
    <3> SUFFICES ASSUME NEW d \in Broker, NEW i \in DOMAIN respQ'[d], IsCopy(respQ'[d][i], p)
                 PROVE  i \in DOMAIN respQ[d] /\ IsCopy(respQ[d][i], p)
      OBVIOUS
    <3>1. d \in Connection BY DEF Connection
    <3>2. CASE i \in DOMAIN respQ[d] /\ respQ'[d][i] = respQ[d][i] BY <3>2
    <3>3. CASE d = pid /\ respQ'[d][i] = m BY <2>2, <3>3
    <3> QED BY <1>5, <1>7, <1>8, <3>1, <3>2, <3>3, PutIn
  <2>4. \A e, f \in Carriers(p) : e = f BY <2>1 DEF OneCarrier
  <2> QED BY <1>2, <2>3, <2>4, PlacesKept DEF WorkerFrame, IsCopy
<1>10. \A d \in Broker : wsubs'[d] \subseteq wsubs[d] BY <1>1 DEF Inv, WorkersOK
<1>11. ListsProper' BY <1>2, <1>10, ListsKept
<1> QED BY <1>9, <1>11 DEF OneCarrier

LEMMA SendToRingCarriers ==
  ASSUME Inv, OneCarrier, ListsProper, NEW b \in Broker, SendToRing(b)
  PROVE  OneCarrier' /\ ListsProper'
<1>1. wpc[b] = "fan_out" /\ WorkerFrame /\ UNCHANGED <<wpc, strayed>>
      /\ wrelayed' = [wrelayed EXCEPT ![b] = TRUE]
  BY DEF SendToRing
<1>2. GetMtype(ids[b], NEXT_SERVER_GLOBAL_ID) = b /\ b # NO_MTYPE_FOUND_CODE
  BY <1>1, FanOutMsg, NextServerKnown, Constants DEF Inv, NO_MTYPE_FOUND_CODE
<1>3. PICK l \in wsubs[b] :
        /\ IF wrelayed[b] THEN UNCHANGED respQ ELSE QueueResp(b, Addressed(b, l, b))
        /\ wsubs' = [wsubs EXCEPT ![b] = @ \ {l}]
        /\ wmsg' = [wmsg EXCEPT ![b].type = @]
  BY <1>2 DEF SendToRing, AlreadyRelayed
<1>4. wmsg' = wmsg
  <2>1. wmsg' = [wmsg EXCEPT ![b] = [wmsg[b] EXCEPT !.type = @]] BY <1>3
  <2>2. [wmsg[b] EXCEPT !.type = @] = wmsg[b] BY FanOutMsg, <1>1 DEF Msg
  <2> QED BY <2>1, <2>2 DEF Inv, WorkersOK
<1>5. wrelayed'[b] = TRUE /\ \A d \in Broker : d # b => wrelayed'[d] = wrelayed[d]
  BY <1>1 DEF Inv, WorkersOK
<1>6. ASSUME NEW p \in Proper' PROVE (\A e, f \in Carriers(p) : e = f)'
  <2>1. p \in Proper BY <1>1 DEF Proper, WorkerFrame
  <2>2. \A e, f \in Carriers(p) : e = f BY <2>1 DEF OneCarrier
  <2>3. CASE wrelayed[b]
    BY <1>1, <1>3, <1>4, <1>5, <2>2, <2>3, PlacesKept DEF WorkerFrame, IsCopy
  <2>4. CASE ~wrelayed[b]
    <3>1. b \in Connection BY DEF Connection
    <3>2. PICK m \in Msg : m = Addressed(b, l, b) /\ \A q : IsCopy(m, q) <=> IsCopy(wmsg[b], q)
      BY <1>1, <3>1, AddressedCopy
    <3>3. respQ' = [respQ EXCEPT ![b] = Append(respQ[b], m)] BY <1>3, <2>4, <3>2 DEF QueueResp
    <3>4. respQ \in [Connection -> Seq(Msg)] BY DEF Inv, RespQOK
    <3>5. PICK n : n = Len(respQ[b]) + 1 OBVIOUS
    <3>6. ASSUME NEW e, AtPlace(p, e)'
          PROVE  \/ AtPlace(p, e) /\ e # <<"worker", b, 0>>
                 \/ e = <<"resp", b, n>> /\ AtPlace(p, <<"worker", b, 0>>)
      <4>1. ASSUME NEW d \in Broker, NEW i \in DOMAIN respQ'[d], IsCopy(respQ'[d][i], p), e = <<"resp", d, i>>
            PROVE  \/ AtPlace(p, e) /\ e[1] # "worker"
                   \/ e = <<"resp", b, n>> /\ AtPlace(p, <<"worker", b, 0>>)
        <5>1. d \in Connection BY DEF Connection
        <5>2. CASE i \in DOMAIN respQ[d] /\ respQ'[d][i] = respQ[d][i]
          BY <4>1, <5>2 DEF AtPlace
        <5>3. CASE d = b /\ i = n /\ respQ'[d][i] = m
          BY <1>1, <2>4, <3>2, <4>1, <5>3 DEF AtPlace
        <5> QED BY <3>1, <3>3, <3>4, <3>5, <5>1, <5>2, <5>3, PutIn
      <4>2. ASSUME NEW d \in Broker, wpc[d] \in {"publish", "fan_out"}, IsCopy(wmsg[d], p),
                   ~wrelayed'[d], e = <<"worker", d, 0>>
            PROVE  AtPlace(p, e) /\ e # <<"worker", b, 0>>
        <5>1. d # b /\ wrelayed'[d] = wrelayed[d] BY <1>5, <4>2
        <5>2. e # <<"worker", b, 0>> BY <4>2, <5>1
        <5> QED BY <4>2, <5>1, <5>2 DEF AtPlace
      <4>3. ASSUME \/ \E y \in Connection : \E i \in DOMAIN up[y] :
                        IsCopy(up[y][i], p) /\ e = <<"up", y, i>>
                   \/ \E d \in Broker : \E i \in DOMAIN workerQ[d] :
                        IsCopy(workerQ[d][i], p) /\ e = <<"work", d, i>>
            PROVE  AtPlace(p, e) /\ e[1] # "worker"
        BY <4>3 DEF AtPlace
      <4>4. e[1] # "worker" => e # <<"worker", b, 0>> OBVIOUS
      <4> QED BY <1>1, <1>4, <3>6, <4>1, <4>2, <4>3, <4>4 DEF AtPlace, WorkerFrame, IsCopy
    <3>7. PICK C, D : C = Carriers(p) /\ D = Carriers(p)' OBVIOUS
    <3>8. ASSUME NEW e \in Carriers(p)'
          PROVE  \/ e \in Carriers(p) /\ e # <<"worker", b, 0>>
                 \/ e = <<"resp", b, n>> /\ <<"worker", b, 0>> \in Carriers(p)
      BY <3>6, <3>8, CarriersAre
    <3>9. Exchanges(<<"worker", b, 0>>, <<"resp", b, n>>, C, D) BY <3>7, <3>8 DEF Exchanges
    <3>10. Single(C) BY <2>2, <3>7 DEF Single
    <3>11. Single(D) BY <3>9, <3>10, PlaceMoves
    <3> QED BY <3>7, <3>11 DEF Single
  <2> QED BY <2>3, <2>4
<1>7. \A d \in Broker : wsubs'[d] \subseteq wsubs[d] BY <1>3 DEF Inv, WorkersOK
<1>8. ListsProper' BY <1>1, <1>4, <1>7, ListsKept
<1> QED BY <1>6, <1>8 DEF OneCarrier

-----------------------------------------------------------------------------

LEMMA CarriersNext ==
  ASSUME Inv, OneCarrier, ListsProper, [Next]_vars
  PROVE  OneCarrier' /\ ListsProper'
<1>1. CASE \/ \E b \in Broker : RingConnect(b) \/ RingRegister(b) \/ StartServing(b)
           \/ \E c \in Client : AcceptClient(c) \/ LoseClient(c) \/ EndHandlers(c) \/ ClientReceive(c)
           \/ UNCHANGED vars
  BY <1>1, OutsideCarriers
<1>2. CASE \E b \in Broker : RingRespHandler(b) BY <1>2, RingRespHandlerCarriers
<1>3. CASE \E b \in Broker : WorkerStep(b)
  BY <1>3, WorkerReceiveCarriers, AnswerCarriers, RespondCarriers, FetchSubsCarriers,
     SendToLocalCarriers, SendToRingCarriers DEF WorkerStep
<1>4. CASE \E x \in Connection : ReqHandler(x) BY <1>4, ReqHandlerCarriers
<1>5. CASE \E c \in Client : \/ Create(c) \/ Destroy(c) \/ RespHandler(c)
                             \/ \E t \in Topic : SubscribeTo(c, t) \/ Publish(c, t)
  BY <1>5, RequestCarriers, RespHandlerCarriers, PublishCarriers
<1> QED BY <1>1, <1>2, <1>3, <1>4, <1>5 DEF Next

LEMMA CarriersInit == Init => OneCarrier /\ ListsProper
BY DEF Init, OneCarrier, ListsProper, Proper

\* A publication is in one place of the ring at a time, whatever the brokers and
\* the clients do meanwhile: each handler takes the message from where it was,
\* send_to_subs (worker.c) passes it on once, and no list of subscribers that
\* the database has sent names the next broker.
THEOREM OneCopyAlways == Spec => []OneCopyInRing
<1>1. Inv /\ OneCarrier /\ ListsProper /\ [Next]_vars => Inv' /\ OneCarrier' /\ ListsProper'
  BY NextOK, CarriersNext
<1>2. OneCarrier => OneCopyInRing
  <2> SUFFICES ASSUME OneCarrier, NEW p \in Proper PROVE Cardinality(Carriers(p)) <= 1
    BY DEF OneCopyInRing
  <2>1. \A e, f \in Carriers(p) : e = f BY DEF OneCarrier
  <2>2. CASE Carriers(p) = {} BY <2>2, FS_EmptySet
  <2>3. CASE Carriers(p) # {}
    <3>1. PICK e : Carriers(p) = {e} BY <2>1, <2>3
    <3>2. Cardinality({e}) = 1 BY FS_Singleton
    <3> QED BY <3>1, <3>2
  <2> QED BY <2>2, <2>3
<1> QED BY InitOK, CarriersInit, <1>1, <1>2, PTL DEF Spec
=============================================================================
