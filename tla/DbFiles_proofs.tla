--------------------------- MODULE DbFiles_proofs ---------------------------
(***************************************************************************)
(* FilesInv is an invariant of DbFiles, and DbFiles implements             *)
(* SubscriptionDb, for any number of handlers, users, topics and crashes,  *)
(* unless a topic has the name of the temporary file.                      *)
(***************************************************************************)
EXTENDS DbFiles, SequenceTheorems, IntegerSets

\* One more than the largest name is the name of no file.
LEMMA NextIdIsNew ==
  ASSUME TypeOK
  PROVE  NextId \in Id /\ NextId \notin DOMAIN userFile
<1> DEFINE S == DOMAIN userFile \cup {0}
           top == CHOOSE m \in S : \A n \in S : n <= m
<1>1. IsFiniteSet(S) BY FS_AddElement DEF TypeOK
<1>2. S # {} /\ S \subseteq Int BY DEF TypeOK, Id
<1>3. \E m \in S : \A n \in S : n <= m
  <2> HIDE DEF S
  <2> QED BY <1>1, <1>2, GreatestOfFinite
<1>4. top \in S /\ \A n \in S : n <= top BY <1>3
<1>5. NextId = 1 + top BY DEF NextId
<1>6. S \subseteq Nat BY DEF TypeOK, Id
<1>7. DOMAIN userFile \subseteq S OBVIOUS
<1> HIDE DEF top, S
<1> QED BY <1>4, <1>5, <1>6, <1>7 DEF Id

\* The lines that unsubscribe copies: those of the other ids, all of them.
LEMMA CopiedLines ==
  ASSUME NEW lines \in SUBSET Line, IsFiniteSet(lines), NEW id
  PROVE  /\ Db!Without(lines, id) \in SUBSET Line
         /\ IsFiniteSet(Db!Without(lines, id))
         /\ \A l \in Db!Without(lines, id) : \E k \in lines : k.id # id /\ l.id = k.id
         /\ \A k \in lines : k.id # id => \E l \in Db!Without(lines, id) : l.id = k.id
<1> DEFINE kept == {l \in lines : l.id # id}
           upto(l) == {k \in kept : k.pos <= l.pos}
           f == [l \in kept |-> [pos |-> Cardinality(upto(l)), id |-> l.id]]
<1>1. IsFiniteSet(kept) BY FS_Subset
<1>2. \A l \in kept : Cardinality(upto(l)) \in Nat
  <2> TAKE l \in kept
  <2>1. upto(l) \in SUBSET kept OBVIOUS
  <2>2. IsFiniteSet(upto(l)) BY <1>1, <2>1, FS_Subset
  <2> QED BY <2>2, FS_CardinalityType
<1>3. Db!Without(lines, id) = {f[l] : l \in kept}
  <2>1. \A S : Db!Cardinality(S) = Cardinality(S) BY DEF Db!Cardinality, Cardinality
  <2> QED BY <2>1 DEF Db!Without
<1>4. \A l \in kept : f[l] \in Line BY <1>2 DEF Line
<1>5. f \in Surjection(kept, {f[l] : l \in kept})
  <2> HIDE DEF kept
  <2> QED BY DEF Surjection
<1>6. IsFiniteSet({f[l] : l \in kept}) BY <1>1, <1>5, FS_Surjection
<1>7. \A l \in kept : l \in lines /\ l.id # id /\ f[l].id = l.id OBVIOUS
<1>8. \A k \in lines : k.id # id => k \in kept OBVIOUS
<1> HIDE DEF f, kept
<1> QED BY <1>3, <1>4, <1>6, <1>7, <1>8

-----------------------------------------------------------------------------
(* The semaphore.                                                          *)

\* While a handler has the semaphore, the stages say nothing of the others.
LEMMA OthersOutside ==
  ASSUME FilesInv, NEW h \in Handler, InOperation(h)
  PROVE  /\ sem = 0
         /\ \A g \in Handler : g # h => hpc[g] \in {"idle", "wait"}
BY DEF FilesInv, MutualExclusion, InOperation

\* The part of the invariant about the handlers, after a step within an
\* operation: only the stage of its own handler has to be shown.
LEMMA StepWithin ==
  ASSUME FilesInv, NEW h \in Handler, NEW step, GoTo(h, step), sem' = sem,
         InOperation(h),
         (CreateStage(h) /\ SubscribeStage(h) /\ DeleteStage(h))'
  PROVE  /\ MutualExclusion'
         /\ (\A g \in Handler : CreateStage(g) /\ SubscribeStage(g) /\ DeleteStage(g))'
<1>1. hpc' = [hpc EXCEPT ![h] = step] /\ hpc \in [Handler -> Step]
  BY DEF GoTo, FilesInv, TypeOK
<1>2. sem = 0 /\ \A g \in Handler : g # h => hpc[g] \in {"idle", "wait"} BY OthersOutside
<1>3. \A g \in Handler : g # h => hpc'[g] \in {"idle", "wait"} BY <1>1, <1>2
<1>4. MutualExclusion' BY <1>2, <1>3 DEF MutualExclusion, InOperation
<1>5. ASSUME NEW g \in Handler
      PROVE  (CreateStage(g) /\ SubscribeStage(g) /\ DeleteStage(g))'
  <2>1. CASE g = h BY <2>1
  <2>2. CASE g # h
    <3>1. hpc'[g] \in {"idle", "wait"} BY <1>3, <2>2
    <3> QED BY <3>1 DEF CreateStage, SubscribeStage, DeleteStage
  <2> QED BY <2>1, <2>2
<1> QED BY <1>4, <1>5

\* After a step that leaves the operation every handler is outside.
LEMMA StepOut ==
  ASSUME FilesInv, NEW h \in Handler, GoTo(h, "idle"), InOperation(h)
  PROVE  /\ MutualExclusion'
         /\ (\A g \in Handler : CreateStage(g) /\ SubscribeStage(g) /\ DeleteStage(g))'
<1>1. hpc' = [hpc EXCEPT ![h] = "idle"] /\ hpc \in [Handler -> Step]
  BY DEF GoTo, FilesInv, TypeOK
<1>2. \A g \in Handler : g # h => hpc[g] \in {"idle", "wait"} BY OthersOutside
<1>3. \A g \in Handler : hpc'[g] \in {"idle", "wait"} BY <1>1, <1>2
<1>4. MutualExclusion' BY <1>3 DEF MutualExclusion, InOperation
<1> QED BY <1>3, <1>4 DEF CreateStage, SubscribeStage, DeleteStage

-----------------------------------------------------------------------------
(* The invariant in the parts that a step disturbs on its own.             *)

UsersTyped ==
  /\ DOMAIN userFile \subseteq Id /\ IsFiniteSet(DOMAIN userFile)
  /\ userFile \in [DOMAIN userFile -> Seq(Topic)]

TopicsTyped ==
  /\ DOMAIN topicFile \subseteq Topic \cup {TMP_FILE}
  /\ topicFile \in [DOMAIN topicFile -> SUBSET Line]
  /\ \A t \in DOMAIN topicFile : IsFiniteSet(topicFile[t])

HandlersTyped ==
  /\ sem \in {0, 1}
  /\ hpc \in [Handler -> Step]
  /\ hmsg \in [Handler -> DbMsg]
  /\ hline \in [Handler -> Nat \ {0}]

HistoryTyped == held \subseteq Id /\ acked \subseteq Id \X Topic

FilesOK == ListedHaveFile /\ LinesListed /\ AckedKept

LEMMA InvParts ==
  FilesInv <=> /\ UsersTyped /\ TopicsTyped /\ HandlersTyped /\ HistoryTyped
               /\ MutualExclusion
               /\ \A h \in Handler : CreateStage(h) /\ SubscribeStage(h) /\ DeleteStage(h)
               /\ FilesOK
BY DEF FilesInv, TypeOK, UsersTyped, TopicsTyped, HandlersTyped, HistoryTyped, FilesOK

LEMMA InvFromParts ==
  ASSUME UsersTyped', TopicsTyped', HandlersTyped', HistoryTyped', MutualExclusion',
         (\A h \in Handler : CreateStage(h) /\ SubscribeStage(h) /\ DeleteStage(h))',
         FilesOK'
  PROVE  FilesInv'
BY DEF FilesInv, TypeOK, UsersTyped, TopicsTyped, HandlersTyped, HistoryTyped, FilesOK

\* Steps that leave the files and the history alone.
LEMMA SameFiles ==
  ASSUME FilesInv, UNCHANGED <<files, held, acked>>
  PROVE  UsersTyped' /\ TopicsTyped' /\ HistoryTyped' /\ FilesOK'
<1>1. /\ userFile' = userFile /\ topicFile' = topicFile
      /\ held' = held /\ acked' = acked
  BY DEF files
<1>2. UsersTyped /\ TopicsTyped /\ HistoryTyped /\ FilesOK BY InvParts
<1>3. UsersTyped' /\ TopicsTyped' /\ HistoryTyped'
  BY <1>1, <1>2 DEF UsersTyped, TopicsTyped, HistoryTyped
<1>4. ListedHaveFile' BY <1>1, <1>2 DEF FilesOK, ListedHaveFile
<1>5. LinesListed' BY <1>1, <1>2 DEF FilesOK, LinesListed, Listed
<1>6. AckedKept' BY <1>1, <1>2 DEF FilesOK, AckedKept, LinesOf
<1> QED BY <1>3, <1>4, <1>5, <1>6 DEF FilesOK

\* The end of an operation: what it wrote has to be shown.
LEMMA LeaveOK ==
  ASSUME FilesInv, NEW h \in Handler, InOperation(h),
         NEW type \in {"DB_OK", "DB_ERROR"}, Leave(h, type),
         UsersTyped', TopicsTyped', HistoryTyped', FilesOK'
  PROVE  FilesInv'
<1>1. HandlersTyped BY InvParts
<1>2. HandlersTyped'
  BY <1>1 DEF Leave, GoTo, HandlersTyped, Step, DbMsg
<1>3. GoTo(h, "idle") BY DEF Leave
<1> QED BY <1>2, <1>3, StepOut, InvFromParts

\* A step within an operation that writes the files.
LEMMA WriteOK ==
  ASSUME FilesInv, NEW h \in Handler, InOperation(h), NEW step \in Step, GoTo(h, step),
         UNCHANGED <<sem, hmsg>>, hline' \in [Handler -> Nat \ {0}],
         (CreateStage(h) /\ SubscribeStage(h) /\ DeleteStage(h))',
         UsersTyped', TopicsTyped', HistoryTyped', FilesOK'
  PROVE  FilesInv'
<1>1. HandlersTyped BY InvParts
<1>2. HandlersTyped' BY <1>1 DEF GoTo, HandlersTyped
<1>3. /\ MutualExclusion'
      /\ (\A g \in Handler : CreateStage(g) /\ SubscribeStage(g) /\ DeleteStage(g))'
  BY StepWithin
<1> QED BY <1>2, <1>3, InvFromParts

-----------------------------------------------------------------------------
(* The steps.                                                              *)

LEMMA ReceiveOK ==
  ASSUME FilesInv, NEW h \in Handler, Receive(h), FilesAssumption PROVE FilesInv'
<1>1. PICK type \in DbRequest, id \in 1..MaxUsers, t \in Topic :
        hmsg' = [hmsg EXCEPT ![h] = [type |-> type, global_id |-> id, topic |-> t]]
  BY DEF Receive
<1>2. [type |-> type, global_id |-> id, topic |-> t] \in DbMsg
  BY DEF FilesAssumption, DbMsg, Id
<1>3. HandlersTyped BY InvParts
<1>4. HandlersTyped'
  BY <1>1, <1>2, <1>3 DEF Receive, GoTo, HandlersTyped, Step
<1>5. hpc[h] = "idle" /\ hpc' = [hpc EXCEPT ![h] = "wait"] /\ sem' = sem
  BY DEF Receive, GoTo
<1>6. MutualExclusion'
  BY <1>3, <1>5, InvParts DEF HandlersTyped, MutualExclusion, InOperation
<1>7. ASSUME NEW g \in Handler
      PROVE  (CreateStage(g) /\ SubscribeStage(g) /\ DeleteStage(g))'
  <2>1. CASE g = h
    <3>1. hpc'[g] = "wait" BY <1>3, <1>5, <2>1 DEF HandlersTyped
    <3> QED BY <3>1 DEF CreateStage, SubscribeStage, DeleteStage
  <2>2. CASE g # h
    <3>1. hpc'[g] = hpc[g] /\ hmsg'[g] = hmsg[g] /\ hline'[g] = hline[g]
      BY <1>1, <1>3, <1>5, <2>2 DEF HandlersTyped, Receive
    <3>2. userFile' = userFile /\ topicFile' = topicFile /\ held' = held /\ acked' = acked
      BY DEF Receive, files
    <3>3. CreateStage(g) /\ SubscribeStage(g) /\ DeleteStage(g) BY InvParts
    <3>4. CreateStage(g)' BY <3>1, <3>2, <3>3 DEF CreateStage, UserOf
    <3>5. SubscribeStage(g)' BY <3>1, <3>2, <3>3 DEF SubscribeStage, UserOf, Listed
    <3>6. DeleteStage(g)'
      BY <3>1, <3>2, <3>3 DEF DeleteStage, UserOf, NoLineOf, LinesOf, TopicAt
    <3> QED BY <3>4, <3>5, <3>6
  <2> QED BY <2>1, <2>2
<1>8. UNCHANGED <<files, held, acked>> BY DEF Receive
<1> QED BY <1>4, <1>6, <1>7, <1>8, SameFiles, InvFromParts

\* The deletion of a user takes it out of the history before it starts.
LEMMA EnterOK ==
  ASSUME FilesInv, NEW h \in Handler, Enter(h) PROVE FilesInv'
<1> DEFINE gone == IF hmsg[h].type = "DB_DELETE" THEN {UserOf(h)} ELSE {}
<1>1. /\ hpc[h] = "wait" /\ sem = 1 /\ sem' = 0
      /\ hpc' = [hpc EXCEPT ![h] = FirstStep(hmsg[h])]
      /\ hmsg' = hmsg /\ hline' = [hline EXCEPT ![h] = 1] /\ userFile' = userFile /\ topicFile' = topicFile
      /\ held' = held \ gone /\ acked' = {a \in acked : a[1] \notin gone}
  BY DEF Enter, CanEnter, GoTo, files
<1>2. HandlersTyped /\ UsersTyped /\ TopicsTyped /\ HistoryTyped /\ FilesOK BY InvParts
<1>3. \A g \in Handler : hpc[g] \in {"idle", "wait"}
  BY <1>1, InvParts DEF MutualExclusion, InOperation
<1>4. /\ FirstStep(hmsg[h]) \in {"scan", "read", "touch", "unsubscribe", "refuse"}
      /\ FirstStep(hmsg[h]) \in {"touch", "unsubscribe"} => UserOf(h) \in DOMAIN userFile
      /\ FirstStep(hmsg[h]) = "unsubscribe" => hmsg[h].type = "DB_DELETE"
  BY DEF FirstStep, UserOf
<1>5. /\ \A g \in Handler : hpc'[g] = IF g = h THEN FirstStep(hmsg[h]) ELSE hpc[g]
      /\ hpc' \in [Handler -> Step]
  BY <1>1, <1>2, <1>4 DEF HandlersTyped, Step
<1>6. HandlersTyped' BY <1>1, <1>2, <1>5 DEF HandlersTyped
<1>7. MutualExclusion' BY <1>1, <1>3, <1>5 DEF MutualExclusion, InOperation
<1>8. ASSUME NEW g \in Handler
      PROVE  (CreateStage(g) /\ SubscribeStage(g) /\ DeleteStage(g))'
  <2>1. CASE g # h
    <3>1. hpc'[g] \in {"idle", "wait"} BY <1>3, <1>5, <2>1
    <3> QED BY <3>1 DEF CreateStage, SubscribeStage, DeleteStage
  <2>2. CASE g = h
    <3>1. hpc'[h] = FirstStep(hmsg[h]) BY <1>5
    <3>2. CreateStage(h)' BY <3>1, <1>4 DEF CreateStage
    <3>3. SubscribeStage(h)' BY <3>1, <1>1, <1>4 DEF SubscribeStage, UserOf
    <3>4. DeleteStage(h)'
      <4>1. CASE hpc'[h] # "unsubscribe" BY <3>1, <1>4, <4>1 DEF DeleteStage
      <4>2. CASE hpc'[h] = "unsubscribe"
        <5>1. hmsg[h].type = "DB_DELETE" /\ UserOf(h) \in DOMAIN userFile
          BY <3>1, <4>2, <1>4
        <5>2. hline'[h] = 1 /\ Len(userFile[UserOf(h)]) \in Nat
          BY <1>1, <1>2, <5>1 DEF UsersTyped, HandlersTyped
        <5> QED BY <1>1, <4>2, <5>1, <5>2 DEF DeleteStage, UserOf
      <4> QED BY <4>1, <4>2
    <3> QED BY <2>2, <3>2, <3>3, <3>4
  <2> QED BY <2>1, <2>2
<1>9. UsersTyped' /\ TopicsTyped' /\ HistoryTyped'
  BY <1>1, <1>2 DEF UsersTyped, TopicsTyped, HistoryTyped
<1>10. FilesOK'
  <2>1. ListedHaveFile' BY <1>1, <1>2 DEF FilesOK, ListedHaveFile
  <2>2. LinesListed' BY <1>1, <1>2 DEF FilesOK, LinesListed, Listed
  <2>3. AckedKept' BY <1>1, <1>2 DEF FilesOK, AckedKept, LinesOf
  <2> QED BY <2>1, <2>2, <2>3 DEF FilesOK
<1> QED BY <1>6, <1>7, <1>8, <1>9, <1>10, InvFromParts

\* Ends that write nothing.
LEMMA EndOK ==
  ASSUME FilesInv, NEW h \in Handler, Refuse(h) \/ Read(h) \/ GiveUp(h)
  PROVE  FilesInv'
<1>1. PICK type \in {"DB_OK", "DB_ERROR"} : Leave(h, type) BY DEF Refuse, Read, GiveUp
<1>2. InOperation(h) BY DEF Refuse, Read, GiveUp, InOperation
<1>3. UNCHANGED <<files, held, acked>> BY DEF Refuse, Read, GiveUp
<1> QED BY <1>1, <1>2, <1>3, SameFiles, LeaveOK

LEMMA CrashOK ==
  ASSUME FilesInv, Crash PROVE FilesInv'
<1>1. /\ hpc' = [h \in Handler |-> "idle"] /\ sem' = 1 /\ hmsg' = hmsg
      /\ hline' = [h \in Handler |-> 1]
  BY DEF Crash
<1>2. UNCHANGED <<files, held, acked>> BY DEF Crash
<1>3. HandlersTyped BY InvParts
<1>4. HandlersTyped' BY <1>1, <1>3 DEF HandlersTyped, Step
<1>5. MutualExclusion' BY <1>1 DEF MutualExclusion, InOperation
<1>6. (\A h \in Handler : CreateStage(h) /\ SubscribeStage(h) /\ DeleteStage(h))'
  BY <1>1 DEF CreateStage, SubscribeStage, DeleteStage
<1> QED BY <1>2, <1>4, <1>5, <1>6, SameFiles, InvFromParts

LEMMA ScanUsersOK ==
  ASSUME FilesInv, NEW h \in Handler, ScanUsers(h) PROVE FilesInv'
<1>1. /\ hpc[h] = "scan" /\ hpc' = [hpc EXCEPT ![h] = "create"]
      /\ hmsg' = [hmsg EXCEPT ![h].global_id = NextId]
      /\ sem' = sem /\ hline' = hline /\ userFile' = userFile
  BY DEF ScanUsers, GoTo, files
<1>2. HandlersTyped BY InvParts
<1>3. NextId \in Id /\ NextId \notin DOMAIN userFile BY NextIdIsNew DEF FilesInv
<1>4. hmsg' \in [Handler -> DbMsg] BY <1>1, <1>2, <1>3 DEF HandlersTyped, DbMsg
<1>5. HandlersTyped' BY <1>1, <1>2, <1>4 DEF HandlersTyped, Step
<1>6. hmsg'[h].global_id = NextId /\ hpc'[h] = "create"
  BY <1>1, <1>2 DEF HandlersTyped, DbMsg
<1>7. (CreateStage(h) /\ SubscribeStage(h) /\ DeleteStage(h))'
  BY <1>1, <1>3, <1>6 DEF CreateStage, SubscribeStage, DeleteStage, UserOf
<1>8. InOperation(h) BY <1>1 DEF InOperation
<1>9. GoTo(h, "create") /\ UNCHANGED <<files, held, acked>> BY DEF ScanUsers
<1> QED BY <1>1, <1>5, <1>7, <1>8, <1>9, StepWithin, SameFiles, InvFromParts

LEMMA CreateUserOK ==
  ASSUME FilesInv, NEW h \in Handler, CreateUser(h) PROVE FilesInv'
<1> DEFINE id == UserOf(h)
<1>1. /\ hpc[h] = "create" /\ Leave(h, "DB_OK") /\ InOperation(h)
      /\ userFile' = Touch(userFile, id, <<>>) /\ held' = held \cup {id}
      /\ topicFile' = topicFile /\ acked' = acked
  BY DEF CreateUser, InOperation
<1>2. HandlersTyped /\ UsersTyped /\ TopicsTyped /\ HistoryTyped /\ FilesOK BY InvParts
<1>3. id \in Id BY <1>2 DEF HandlersTyped, DbMsg, UserOf
<1>4. id \notin DOMAIN userFile BY <1>1, InvParts DEF CreateStage
<1> HIDE DEF id
<1>5. userFile' = [n \in DOMAIN userFile \cup {id} |-> IF n = id THEN <<>> ELSE userFile[n]]
  BY <1>1, <1>4 DEF Touch, Put
<1>6. /\ DOMAIN userFile' = DOMAIN userFile \cup {id}
      /\ \A n \in DOMAIN userFile : userFile'[n] = userFile[n]
      /\ userFile'[id] = <<>>
  BY <1>4, <1>5
<1>7. UsersTyped'
  <2>1. IsFiniteSet(DOMAIN userFile \cup {id}) BY <1>2, FS_AddElement DEF UsersTyped
  <2>2. <<>> \in Seq(Topic) OBVIOUS
  <2>3. userFile' \in [DOMAIN userFile \cup {id} -> Seq(Topic)]
    BY <1>2, <1>5, <2>2 DEF UsersTyped
  <2> QED BY <1>2, <1>3, <1>6, <2>1, <2>3 DEF UsersTyped
<1>8. TopicsTyped' BY <1>1, <1>2 DEF TopicsTyped
<1>9. HistoryTyped' BY <1>1, <1>2, <1>3 DEF HistoryTyped
<1>10. ListedHaveFile'
  <2>1. Len(userFile'[id]) = 0 BY <1>6
  <2> QED BY <1>1, <1>2, <1>6, <2>1 DEF FilesOK, ListedHaveFile
<1>11. LinesListed' BY <1>1, <1>2, <1>6 DEF FilesOK, LinesListed, Listed
<1>12. AckedKept' BY <1>1, <1>2, <1>6 DEF FilesOK, AckedKept, LinesOf
<1> QED BY <1>1, <1>7, <1>8, <1>9, <1>10, <1>11, <1>12, LeaveOK DEF FilesOK
-----------------------------------------------------------------------------
LEMMA TouchTopicOK ==
  ASSUME FilesInv, NEW h \in Handler, TouchTopic(h) PROVE FilesInv'
<1> DEFINE t == hmsg[h].topic
<1>1. /\ hpc[h] = "touch" /\ GoTo(h, "list") /\ InOperation(h)
      /\ topicFile' = Touch(topicFile, t, {})
      /\ userFile' = userFile /\ UNCHANGED <<sem, hmsg>> /\ hline' = hline
      /\ held' = held /\ acked' = acked
  BY DEF TouchTopic, InOperation
<1>2. HandlersTyped /\ UsersTyped /\ TopicsTyped /\ HistoryTyped /\ FilesOK BY InvParts
<1>3. t \in Topic BY <1>2 DEF HandlersTyped, DbMsg
<1>4. SubscribeStage(h) BY InvParts
<1>5. hmsg'[h].topic = t BY <1>1
<1> HIDE DEF t
<1>6. /\ DOMAIN topicFile' = DOMAIN topicFile \cup {t}
      /\ \A u \in DOMAIN topicFile : topicFile'[u] = topicFile[u]
      /\ t \notin DOMAIN topicFile => topicFile'[t] = {}
      /\ topicFile' = [u \in DOMAIN topicFile' |-> topicFile'[u]]
  <2>1. CASE t \in DOMAIN topicFile BY <1>1, <1>2, <2>1 DEF Touch, TopicsTyped
  <2>2. CASE t \notin DOMAIN topicFile
    <3>1. topicFile' = [u \in DOMAIN topicFile \cup {t} |-> IF u = t THEN {} ELSE topicFile[u]]
      BY <1>1, <2>2 DEF Touch, Put
    <3> QED BY <2>2, <3>1
  <2> QED BY <2>1, <2>2
<1>7. TopicsTyped' BY <1>2, <1>3, <1>6, FS_EmptySet DEF TopicsTyped
<1>8. UsersTyped' /\ HistoryTyped' BY <1>1, <1>2 DEF UsersTyped, HistoryTyped
<1>9. ListedHaveFile' BY <1>1, <1>2, <1>6 DEF FilesOK, ListedHaveFile
<1>10. LinesListed' BY <1>1, <1>2, <1>6 DEF FilesOK, LinesListed, Listed
<1>11. AckedKept' BY <1>1, <1>2, <1>6 DEF FilesOK, AckedKept, LinesOf
<1>12. hpc'[h] = "list" BY <1>1, <1>2 DEF GoTo, HandlersTyped
<1>13. (CreateStage(h) /\ SubscribeStage(h) /\ DeleteStage(h))'
  BY <1>1, <1>4, <1>5, <1>6, <1>12 DEF CreateStage, SubscribeStage, DeleteStage, UserOf
<1>14. hline' \in [Handler -> Nat \ {0}] BY <1>1, <1>2 DEF HandlersTyped
<1> QED
  BY <1>1, <1>7, <1>8, <1>9, <1>10, <1>11, <1>13, <1>14, WriteOK DEF FilesOK, Step

LEMMA ListTopicOK ==
  ASSUME FilesInv, NEW h \in Handler, ListTopic(h) PROVE FilesInv'
<1> DEFINE id == UserOf(h)
           t == hmsg[h].topic
           old == userFile[id]
<1>1. /\ hpc[h] = "list" /\ GoTo(h, "add") /\ InOperation(h)
      /\ topicFile' = topicFile /\ UNCHANGED <<sem, hmsg>> /\ hline' = hline
      /\ held' = held /\ acked' = acked
  BY DEF ListTopic, InOperation
<1>2. HandlersTyped /\ UsersTyped /\ TopicsTyped /\ HistoryTyped /\ FilesOK BY InvParts
<1>3. t \in Topic BY <1>2 DEF HandlersTyped, DbMsg
<1>4. id \in DOMAIN userFile /\ t \in DOMAIN topicFile
  BY <1>1, InvParts DEF SubscribeStage
<1>5. userFile' = [userFile EXCEPT ![id] = Append(@, t)]
  BY <1>4 DEF ListTopic, Touch
<1>6. id' = id /\ t' = t BY <1>1 DEF UserOf
<1>7. old \in Seq(Topic) BY <1>2, <1>4 DEF UsersTyped
<1> HIDE DEF id, t, old
<1>8. /\ DOMAIN userFile' = DOMAIN userFile
      /\ \A n \in DOMAIN userFile : n # id => userFile'[n] = userFile[n]
      /\ userFile'[id] = Append(old, t)
  BY <1>4, <1>5 DEF old
<1>9. /\ Append(old, t) \in Seq(Topic) /\ Len(Append(old, t)) = Len(old) + 1
      /\ Len(old) \in Nat
      /\ \A i \in 1..Len(old) : Append(old, t)[i] = old[i]
      /\ Append(old, t)[Len(old) + 1] = t
  BY <1>3, <1>7, AppendProperties
<1>10. UsersTyped' BY <1>2, <1>4, <1>5, <1>8, <1>9 DEF UsersTyped
<1>11. TopicsTyped' /\ HistoryTyped' BY <1>1, <1>2 DEF TopicsTyped, HistoryTyped
<1>12. ListedHaveFile'
  <2> SUFFICES ASSUME NEW n \in DOMAIN userFile', NEW i \in 1..Len(userFile'[n])
               PROVE  userFile'[n][i] \in DOMAIN topicFile
    BY <1>1 DEF ListedHaveFile
  <2>1. CASE n # id BY <1>2, <1>8, <2>1 DEF FilesOK, ListedHaveFile
  <2>2. CASE n = id
    <3>1. i \in 1..Len(old) \/ i = Len(old) + 1 BY <1>8, <1>9, <2>2
    <3>2. \A j \in 1..Len(old) : old[j] \in DOMAIN topicFile
      BY <1>2, <1>4 DEF FilesOK, ListedHaveFile, old
    <3> QED BY <1>4, <1>8, <1>9, <2>2, <3>1, <3>2
  <2> QED BY <2>1, <2>2
<1>13. \A n, u : Listed(n, u) => Listed(n, u)'
  <2> TAKE n, u
  <2>1. CASE n # id BY <1>8, <2>1 DEF Listed
  <2>2. CASE n = id BY <1>8, <1>9, <2>2 DEF Listed, old
  <2> QED BY <2>1, <2>2
<1>14. Listed(id, t)' 
  <2>1. Len(old) + 1 \in 1..Len(userFile'[id]) /\ userFile'[id][Len(old) + 1] = t
    BY <1>8, <1>9
  <2> QED BY <1>4, <1>6, <1>8, <2>1 DEF Listed
<1>15. LinesListed' BY <1>1, <1>2, <1>13 DEF FilesOK, LinesListed
<1>16. AckedKept' BY <1>1, <1>2, <1>8 DEF FilesOK, AckedKept, LinesOf
<1>17. hpc'[h] = "add" BY <1>1, <1>2 DEF GoTo, HandlersTyped
<1>18. (CreateStage(h) /\ SubscribeStage(h) /\ DeleteStage(h))'
  <2>1. UserOf(h)' = id /\ hmsg'[h].topic = t BY <1>6 DEF id, t
  <2> QED BY <1>1, <1>4, <1>6, <1>8, <1>14, <1>17, <2>1
          DEF CreateStage, SubscribeStage, DeleteStage
<1>19. hline' \in [Handler -> Nat \ {0}] BY <1>1, <1>2 DEF HandlersTyped
<1> QED BY <1>1, <1>10, <1>11, <1>12, <1>15, <1>16, <1>18, <1>19, WriteOK DEF FilesOK, Step

LEMMA AddLineOK ==
  ASSUME FilesInv, NEW h \in Handler, AddLine(h) PROVE FilesInv'
<1> DEFINE id == UserOf(h)
           t == hmsg[h].topic
           lines == topicFile[t]
           new == [pos |-> 1 + Cardinality(lines), id |-> id]
<1>1. /\ hpc[h] = "add" /\ Leave(h, "DB_OK") /\ InOperation(h)
      /\ userFile' = userFile /\ held' = held /\ acked' = acked \cup {<<id, t>>}
  BY DEF AddLine, InOperation
<1>2. HandlersTyped /\ UsersTyped /\ TopicsTyped /\ HistoryTyped /\ FilesOK BY InvParts
<1>3. t \in Topic /\ id \in Id BY <1>2 DEF HandlersTyped, DbMsg, UserOf
<1>4. t \in DOMAIN topicFile /\ Listed(id, t) BY <1>1, InvParts DEF SubscribeStage
<1>5. lines \in SUBSET Line /\ IsFiniteSet(lines) BY <1>2, <1>4 DEF TopicsTyped
<1>6. topicFile' = [u \in DOMAIN topicFile \cup {t} |->
                     IF u = t THEN lines \cup {new} ELSE topicFile[u]]
  BY <1>4 DEF AddLine, LinesOf, Put
<1>7. new \in Line /\ new.id = id BY <1>3, <1>5, FS_CardinalityType DEF Line
<1>8. IsFiniteSet(lines \cup {new}) BY <1>5, FS_AddElement
<1> HIDE DEF new, id, t
<1>9. /\ DOMAIN topicFile' = DOMAIN topicFile
      /\ topicFile'[t] = topicFile[t] \cup {new}
      /\ \A u \in DOMAIN topicFile : u # t => topicFile'[u] = topicFile[u]
      /\ topicFile' = [u \in DOMAIN topicFile |-> topicFile'[u]]
  BY <1>4, <1>6
<1>10. TopicsTyped' BY <1>2, <1>5, <1>7, <1>8, <1>9 DEF TopicsTyped
<1>11. UsersTyped' /\ HistoryTyped' BY <1>1, <1>2, <1>3 DEF UsersTyped, HistoryTyped
<1>12. ListedHaveFile' BY <1>1, <1>2, <1>9 DEF FilesOK, ListedHaveFile
<1>13. LinesListed' BY <1>1, <1>2, <1>4, <1>7, <1>9 DEF FilesOK, LinesListed, Listed
<1>14. AckedKept'
  <2>1. held' \subseteq DOMAIN userFile' BY <1>1, <1>2 DEF FilesOK, AckedKept
  <2>2. ASSUME NEW a \in acked' PROVE \E l \in LinesOf(topicFile', a[2]) : l.id = a[1]
    <3>1. CASE a \in acked
      <4>1. PICK l \in LinesOf(topicFile, a[2]) : l.id = a[1]
        BY <1>2, <3>1 DEF FilesOK, AckedKept
      <4>2. l \in LinesOf(topicFile', a[2]) BY <1>9, <4>1 DEF LinesOf
      <4> QED BY <4>1, <4>2
    <3>2. CASE a = <<id, t>>
      <4>1. new \in LinesOf(topicFile', a[2]) BY <1>4, <1>9, <3>2 DEF LinesOf
      <4> QED BY <1>7, <3>2, <4>1
    <3> QED BY <1>1, <3>1, <3>2
  <2> QED BY <2>1, <2>2 DEF AckedKept
<1> QED BY <1>1, <1>10, <1>11, <1>12, <1>13, <1>14, LeaveOK DEF FilesOK
-----------------------------------------------------------------------------
(* Deletion: the temporary file is no topic, so that only Rename changes a *)
(* topic's lines, and it leaves out those of the deleted user alone.       *)

\* Writing the temporary file.
LEMMA TmpWritten ==
  ASSUME FilesInv, TMP_FILE \notin Topic, NEW lines \in SUBSET Line, IsFiniteSet(lines),
         topicFile' = Put(topicFile, TMP_FILE, lines),
         userFile' = userFile, held' = held, acked' = acked
  PROVE  /\ UsersTyped' /\ TopicsTyped' /\ HistoryTyped' /\ FilesOK'
         /\ TMP_FILE \in DOMAIN topicFile' /\ topicFile'[TMP_FILE] = lines
         /\ \A t \in Topic : LinesOf(topicFile', t) = LinesOf(topicFile, t)
<1>1. UsersTyped /\ TopicsTyped /\ HistoryTyped /\ FilesOK BY InvParts
<1>2. topicFile' = [n \in DOMAIN topicFile \cup {TMP_FILE} |->
                     IF n = TMP_FILE THEN lines ELSE topicFile[n]]
  BY DEF Put
<1>3. /\ DOMAIN topicFile' = DOMAIN topicFile \cup {TMP_FILE}
      /\ topicFile'[TMP_FILE] = lines
      /\ \A n \in DOMAIN topicFile : n # TMP_FILE => topicFile'[n] = topicFile[n]
      /\ topicFile' = [n \in DOMAIN topicFile' |-> topicFile'[n]]
  BY <1>2
<1>4. TopicsTyped' BY <1>1, <1>3 DEF TopicsTyped
<1>5. \A t \in Topic : /\ t \in DOMAIN topicFile' <=> t \in DOMAIN topicFile
                       /\ LinesOf(topicFile', t) = LinesOf(topicFile, t)
  BY <1>3 DEF LinesOf
<1>6. UsersTyped' /\ HistoryTyped' BY <1>1 DEF UsersTyped, HistoryTyped
<1>7. ListedHaveFile' BY <1>1, <1>3 DEF FilesOK, ListedHaveFile
<1>8. LinesListed'
  <2> SUFFICES ASSUME NEW t \in Topic \cap DOMAIN topicFile', NEW l \in topicFile'[t]
               PROVE  Listed(l.id, t)'
    BY DEF LinesListed
  <2>1. t \in DOMAIN topicFile /\ topicFile'[t] = topicFile[t] BY <1>3
  <2>2. Listed(l.id, t) BY <1>1, <2>1 DEF FilesOK, LinesListed
  <2> QED BY <2>2 DEF Listed
<1>9. AckedKept'
  <2>1. \A a \in acked : a[2] \in Topic BY <1>1 DEF HistoryTyped
  <2> QED BY <1>1, <1>5, <2>1 DEF FilesOK, AckedKept
<1> QED BY <1>3, <1>4, <1>5, <1>6, <1>7, <1>8, <1>9 DEF FilesOK

\* The topic whose turn it is.
LEMMA TopicAtOK ==
  ASSUME FilesInv, NEW h \in Handler, hpc[h] \in {"unsubscribe", "copy", "rename"},
         MoreLines(h)
  PROVE  /\ UserOf(h) \in DOMAIN userFile /\ UserOf(h) \in Id
         /\ Len(userFile[UserOf(h)]) \in Nat
         /\ hline[h] \in 1..Len(userFile[UserOf(h)])
         /\ TopicAt(h) \in Topic /\ TopicAt(h) \in DOMAIN topicFile
<1>1. HandlersTyped /\ UsersTyped /\ FilesOK /\ DeleteStage(h) BY InvParts
<1>2. UserOf(h) \in DOMAIN userFile /\ hline[h] \in Nat \ {0} BY <1>1 DEF DeleteStage, HandlersTyped
<1>3. userFile[UserOf(h)] \in Seq(Topic) /\ UserOf(h) \in Id BY <1>1, <1>2 DEF UsersTyped
<1>4. Len(userFile[UserOf(h)]) \in Nat BY <1>3
<1>5. hline[h] \in 1..Len(userFile[UserOf(h)]) BY <1>2, <1>4 DEF MoreLines
<1>6. userFile[UserOf(h)][hline[h]] \in Topic BY <1>3, <1>5, ElementOfSeq
<1> QED BY <1>1, <1>2, <1>3, <1>4, <1>5, <1>6 DEF TopicAt, FilesOK, ListedHaveFile

LEMMA OpenTmpOK ==
  ASSUME FilesInv, TMP_FILE \notin Topic, NEW h \in Handler, OpenTmp(h) PROVE FilesInv'
<1> DEFINE id == UserOf(h)
<1>1. /\ hpc[h] = "unsubscribe" /\ MoreLines(h) /\ GoTo(h, "copy") /\ InOperation(h)
      /\ topicFile' = Put(topicFile, TMP_FILE, {})
      /\ userFile' = userFile /\ UNCHANGED <<sem, hmsg>> /\ hline' = hline
      /\ held' = held /\ acked' = acked
  BY DEF OpenTmp, InOperation
<1>2. HandlersTyped /\ UsersTyped /\ DeleteStage(h) BY InvParts
<1>3. /\ UsersTyped' /\ TopicsTyped' /\ HistoryTyped' /\ FilesOK'
      /\ TMP_FILE \in DOMAIN topicFile'
      /\ \A t \in Topic : LinesOf(topicFile', t) = LinesOf(topicFile, t)
  BY <1>1, TmpWritten, FS_EmptySet
<1>4. hpc'[h] = "copy" BY <1>1, <1>2 DEF GoTo, HandlersTyped
<1>5. DeleteStage(h)'
  <2>1. \A i \in 1..(hline[h] - 1) : userFile[id][i] \in Topic
    <3>1. hline[h] \in 1..Len(userFile[id]) /\ id \in DOMAIN userFile
          /\ Len(userFile[id]) \in Nat
      BY <1>1, TopicAtOK
    <3>2. userFile[id] \in Seq(Topic) BY <1>2, <3>1 DEF UsersTyped
    <3>3. \A i \in 1..(hline[h] - 1) : i \in 1..Len(userFile[id]) BY <3>1
    <3> QED BY <3>2, <3>3, ElementOfSeq
  <2>2. \A i \in 1..(hline[h] - 1) : NoLineOf(id, userFile[id][i])'
    BY <1>1, <1>2, <1>3, <2>1 DEF DeleteStage, NoLineOf, UserOf
  <2>3. UserOf(h)' = id /\ hline[h] <= Len(userFile[id])
    BY <1>1 DEF UserOf, MoreLines
  <2> QED BY <1>1, <1>2, <1>3, <1>4, <2>2, <2>3 DEF DeleteStage
<1>6. CreateStage(h)' /\ SubscribeStage(h)' BY <1>4 DEF CreateStage, SubscribeStage
<1>7. hline' \in [Handler -> Nat \ {0}] BY <1>1, <1>2 DEF HandlersTyped
<1> QED BY <1>1, <1>3, <1>5, <1>6, <1>7, WriteOK DEF Step

LEMMA CopyOthersOK ==
  ASSUME FilesInv, TMP_FILE \notin Topic, NEW h \in Handler, CopyOthers(h) PROVE FilesInv'
<1> DEFINE id == UserOf(h)
           lines == LinesOf(topicFile, TopicAt(h))
           others == Db!Without(lines, id)
<1>1. /\ hpc[h] = "copy" /\ GoTo(h, "rename") /\ InOperation(h)
      /\ topicFile' = Put(topicFile, TMP_FILE, others)
      /\ userFile' = userFile /\ UNCHANGED <<sem, hmsg>> /\ hline' = hline
      /\ held' = held /\ acked' = acked
  BY DEF CopyOthers, InOperation
<1>2. HandlersTyped /\ UsersTyped /\ TopicsTyped /\ DeleteStage(h) BY InvParts
<1>3. MoreLines(h) BY <1>1, <1>2 DEF DeleteStage, MoreLines
<1>4. /\ id \in DOMAIN userFile /\ Len(userFile[id]) \in Nat
      /\ hline[h] \in 1..Len(userFile[id])
      /\ TopicAt(h) \in Topic /\ TopicAt(h) \in DOMAIN topicFile
  BY <1>1, <1>3, TopicAtOK
<1>5. lines \in SUBSET Line /\ IsFiniteSet(lines) BY <1>2, <1>4 DEF TopicsTyped, LinesOf
<1>6. others \in SUBSET Line /\ IsFiniteSet(others)
  <2> HIDE DEF lines
  <2> QED BY <1>5, CopiedLines
<1>7. TopicAt(h)' = TopicAt(h) /\ UserOf(h)' = id BY <1>1 DEF TopicAt, UserOf
<1> HIDE DEF others
<1>8. /\ UsersTyped' /\ TopicsTyped' /\ HistoryTyped' /\ FilesOK'
      /\ TMP_FILE \in DOMAIN topicFile' /\ topicFile'[TMP_FILE] = others
      /\ \A t \in Topic : LinesOf(topicFile', t) = LinesOf(topicFile, t)
  BY <1>1, <1>6, TmpWritten
<1>9. hpc'[h] = "rename" BY <1>1, <1>2 DEF GoTo, HandlersTyped
<1>10. DeleteStage(h)'
  <2>1. \A i \in 1..(hline[h] - 1) : userFile[id][i] \in Topic
    <3>1. userFile[id] \in Seq(Topic) BY <1>2, <1>4 DEF UsersTyped
    <3>2. \A i \in 1..(hline[h] - 1) : i \in 1..Len(userFile[id]) BY <1>4
    <3> QED BY <3>1, <3>2, ElementOfSeq
  <2>2. \A i \in 1..(hline[h] - 1) : NoLineOf(id, userFile[id][i])'
    BY <1>1, <1>2, <1>8, <2>1 DEF DeleteStage, NoLineOf, UserOf
  <2>3. topicFile'[TMP_FILE] = Db!Without(LinesOf(topicFile', TopicAt(h)), id)
    BY <1>4, <1>8 DEF others
  <2>4. hline[h] <= Len(userFile[id]) BY <1>3 DEF MoreLines
  <2> QED BY <1>1, <1>2, <1>7, <1>8, <1>9, <2>2, <2>3, <2>4 DEF DeleteStage
<1>11. CreateStage(h)' /\ SubscribeStage(h)' BY <1>9 DEF CreateStage, SubscribeStage
<1>12. hline' \in [Handler -> Nat \ {0}] BY <1>1, <1>2 DEF HandlersTyped
<1> QED BY <1>1, <1>8, <1>10, <1>11, <1>12, WriteOK DEF Step

LEMMA RenameOK ==
  ASSUME FilesInv, TMP_FILE \notin Topic, NEW h \in Handler, Rename(h) PROVE FilesInv'
<1> DEFINE id == UserOf(h)
           t == TopicAt(h)
           lines == topicFile[t]
           others == Db!Without(lines, id)
<1>1. /\ hpc[h] = "rename" /\ GoTo(h, "unsubscribe") /\ InOperation(h)
      /\ topicFile' = [n \in (DOMAIN topicFile \ {TMP_FILE}) \cup {t} |->
                        IF n = t THEN LinesOf(topicFile, TMP_FILE) ELSE topicFile[n]]
      /\ userFile' = userFile /\ UNCHANGED <<sem, hmsg>>
      /\ hline' = [hline EXCEPT ![h] = @ + 1]
      /\ held' = held /\ acked' = acked
  BY DEF Rename, InOperation
<1>2. /\ HandlersTyped /\ UsersTyped /\ TopicsTyped /\ HistoryTyped /\ FilesOK
      /\ DeleteStage(h)
  BY InvParts
<1>3. MoreLines(h) BY <1>1, <1>2 DEF DeleteStage, MoreLines
<1>4. /\ id \in DOMAIN userFile /\ id \in Id /\ Len(userFile[id]) \in Nat
      /\ hline[h] \in 1..Len(userFile[id])
      /\ t \in Topic /\ t \in DOMAIN topicFile
  BY <1>1, <1>3, TopicAtOK
<1>5. lines \in SUBSET Line /\ IsFiniteSet(lines) BY <1>2, <1>4 DEF TopicsTyped
<1>6. LinesOf(topicFile, TMP_FILE) = others
  BY <1>1, <1>2, <1>4 DEF DeleteStage, LinesOf
<1>7. /\ others \in SUBSET Line /\ IsFiniteSet(others)
      /\ \A l \in others : \E k \in lines : k.id # id /\ l.id = k.id
      /\ \A k \in lines : k.id # id => \E l \in others : l.id = k.id
  <2> HIDE DEF lines
  <2> QED BY <1>5, CopiedLines
<1>8. t = userFile[id][hline[h]] /\ UserOf(h)' = id BY <1>1 DEF TopicAt, UserOf
<1> HIDE DEF others, t, id
<1>9. /\ DOMAIN topicFile' = DOMAIN topicFile \ {TMP_FILE}
      /\ topicFile'[t] = others
      /\ \A n \in DOMAIN topicFile' : n # t => topicFile'[n] = topicFile[n]
      /\ topicFile' = [n \in DOMAIN topicFile' |-> topicFile'[n]]
  BY <1>1, <1>4, <1>6
<1>10. TopicsTyped' BY <1>2, <1>7, <1>9 DEF TopicsTyped
<1>11. UsersTyped' /\ HistoryTyped' BY <1>1, <1>2 DEF UsersTyped, HistoryTyped
<1>12. ListedHaveFile'
  <2> SUFFICES ASSUME NEW n \in DOMAIN userFile, NEW i \in 1..Len(userFile[n])
               PROVE  userFile[n][i] \in DOMAIN topicFile'
    BY <1>1 DEF ListedHaveFile
  <2>1. userFile[n] \in Seq(Topic) BY <1>2 DEF UsersTyped
  <2>2. userFile[n][i] \in Topic BY <2>1, ElementOfSeq
  <2>3. userFile[n][i] \in DOMAIN topicFile BY <1>2 DEF FilesOK, ListedHaveFile
  <2> QED BY <1>9, <2>2, <2>3
<1>13. LinesListed'
  <2> SUFFICES ASSUME NEW u \in Topic \cap DOMAIN topicFile', NEW l \in topicFile'[u]
               PROVE  Listed(l.id, u)'
    BY DEF LinesListed
  <2>1. Listed(l.id, u)
    <3>1. CASE u # t BY <1>2, <1>9, <3>1 DEF FilesOK, LinesListed
    <3>2. CASE u = t
      <4>1. PICK k \in lines : l.id = k.id BY <1>7, <1>9, <3>2
      <4> QED BY <1>2, <1>4, <3>2, <4>1 DEF FilesOK, LinesListed
    <3> QED BY <3>1, <3>2
  <2> QED BY <1>1, <2>1 DEF Listed
<1>14. AckedKept'
  <2>1. held' \subseteq DOMAIN userFile' BY <1>1, <1>2 DEF FilesOK, AckedKept
  <2>2. ASSUME NEW a \in acked PROVE \E l \in LinesOf(topicFile', a[2]) : l.id = a[1]
    <3>1. PICK k \in LinesOf(topicFile, a[2]) : k.id = a[1]
      BY <1>2 DEF FilesOK, AckedKept
    <3>2. a[2] \in Topic BY <1>2 DEF HistoryTyped
    <3>3. CASE a[2] # t BY <1>9, <3>1, <3>2, <3>3 DEF LinesOf
    <3>4. CASE a[2] = t
      <4>1. k \in lines BY <1>4, <3>1, <3>4 DEF LinesOf
      <4>2. a[1] # id BY <1>1, <1>2 DEF DeleteStage, id
      <4>3. \E l \in others : l.id = k.id BY <1>7, <3>1, <4>1, <4>2
      <4> QED BY <1>4, <1>9, <3>1, <3>2, <3>4, <4>3 DEF LinesOf
    <3> QED BY <3>3, <3>4
  <2> QED BY <1>1, <2>1, <2>2 DEF AckedKept
<1>15. hpc'[h] = "unsubscribe" /\ hline'[h] = hline[h] + 1
  BY <1>1, <1>2 DEF GoTo, HandlersTyped
<1>16. DeleteStage(h)'
  <2>1. ASSUME NEW i \in 1..hline[h]
        PROVE  \A l \in LinesOf(topicFile', userFile[id][i]) : l.id # id
    <3> DEFINE u == userFile[id][i]
    <3>1. CASE u = t
      <4>1. \A l \in others : l.id # id BY <1>7
      <4> QED BY <1>9, <3>1, <4>1 DEF LinesOf
    <3>2. CASE u # t
      <4>1. i \in 1..(hline[h] - 1) BY <1>4, <1>8, <3>2
      <4>2. NoLineOf(id, u) BY <1>1, <1>2, <4>1 DEF DeleteStage, id
      <4>3. \A l \in LinesOf(topicFile', u) : l \in LinesOf(topicFile, u)
        BY <1>9, <3>2 DEF LinesOf
      <4> QED BY <4>2, <4>3 DEF NoLineOf
    <3> QED BY <3>1, <3>2
  <2>2. hline'[h] \in 1..(Len(userFile[id]) + 1) /\ hline'[h] - 1 = hline[h]
    BY <1>4, <1>15
  <2>3. /\ hmsg[h].type = "DB_DELETE" /\ id \in DOMAIN userFile \ held
        /\ \A a \in acked : a[1] # id
    BY <1>1, <1>2 DEF DeleteStage, id
  <2>4. UserOf(h)' = id /\ userFile' = userFile /\ hmsg' = hmsg
        /\ held' = held /\ acked' = acked
    BY <1>1, <1>8
  <2>5. \A i \in 1..(hline'[h] - 1) :
          \A l \in LinesOf(topicFile', userFile[id][i]) : l.id # id
    BY <2>1, <2>2
  <2> QED BY <1>15, <2>2, <2>3, <2>4, <2>5 DEF DeleteStage, NoLineOf
<1>17. CreateStage(h)' /\ SubscribeStage(h)' BY <1>15 DEF CreateStage, SubscribeStage
<1>18. hline' \in [Handler -> Nat \ {0}] BY <1>1, <1>2 DEF HandlersTyped
<1> QED BY <1>1, <1>10, <1>11, <1>12, <1>13, <1>14, <1>16, <1>17, <1>18, WriteOK
        DEF FilesOK, Step

\* When all its topics are rewritten no line names the user.
LEMMA RemoveUserOK ==
  ASSUME FilesInv, NEW h \in Handler, RemoveUser(h) PROVE FilesInv'
<1> DEFINE id == UserOf(h)
<1>1. /\ hpc[h] = "unsubscribe" /\ ~MoreLines(h) /\ Leave(h, "DB_OK") /\ InOperation(h)
      /\ userFile' = [n \in DOMAIN userFile \ {id} |-> userFile[n]]
      /\ topicFile' = topicFile /\ held' = held /\ acked' = acked
  BY DEF RemoveUser, InOperation
<1>2. /\ HandlersTyped /\ UsersTyped /\ TopicsTyped /\ HistoryTyped /\ FilesOK
      /\ DeleteStage(h)
  BY InvParts
<1>3. /\ id \in DOMAIN userFile \ held /\ Len(userFile[id]) \in Nat
      /\ hline[h] \in Nat /\ hline[h] - 1 >= Len(userFile[id])
  BY <1>1, <1>2 DEF DeleteStage, MoreLines, UsersTyped, HandlersTyped
<1>4. \A i \in 1..Len(userFile[id]) : NoLineOf(id, userFile[id][i])
  <2>1. \A i \in 1..Len(userFile[id]) : i \in 1..(hline[h] - 1) BY <1>3
  <2> QED BY <1>1, <1>2, <2>1 DEF DeleteStage
<1> HIDE DEF id
<1>5. \A t \in Topic \cap DOMAIN topicFile : \A l \in topicFile[t] : l.id # id
  <2> SUFFICES ASSUME NEW t \in Topic \cap DOMAIN topicFile, NEW l \in topicFile[t],
                      l.id = id
               PROVE  FALSE
    OBVIOUS
  <2>1. Listed(id, t) BY <1>2 DEF FilesOK, LinesListed
  <2> QED BY <1>4, <2>1 DEF Listed, NoLineOf, LinesOf
<1>6. /\ DOMAIN userFile' = DOMAIN userFile \ {id}
      /\ \A n \in DOMAIN userFile' : userFile'[n] = userFile[n]
  BY <1>1
<1>7. UsersTyped'
  <2>1. IsFiniteSet(DOMAIN userFile \ {id}) BY <1>2, FS_RemoveElement DEF UsersTyped
  <2> QED BY <1>1, <1>2, <1>6, <2>1 DEF UsersTyped
<1>8. TopicsTyped' /\ HistoryTyped' BY <1>1, <1>2 DEF TopicsTyped, HistoryTyped
<1>9. ListedHaveFile' BY <1>1, <1>2, <1>6 DEF FilesOK, ListedHaveFile
<1>10. LinesListed' BY <1>1, <1>2, <1>5, <1>6 DEF FilesOK, LinesListed, Listed
<1>11. AckedKept' BY <1>1, <1>2, <1>3, <1>6 DEF FilesOK, AckedKept, LinesOf
<1> QED BY <1>1, <1>7, <1>8, <1>9, <1>10, <1>11, LeaveOK DEF FilesOK

-----------------------------------------------------------------------------
LEMMA FilesInit == Init /\ FilesAssumption => FilesInv
<1> SUFFICES ASSUME Init PROVE FilesInv OBVIOUS
<1>1. userFile = <<>> /\ topicFile = <<>> /\ held = {} /\ acked = {} BY DEF Init
<1>2. DOMAIN userFile = {} /\ DOMAIN topicFile = {} BY <1>1
<1>3. \A h \in Handler : hpc[h] = "idle" BY DEF Init
<1>4. TypeOK
  <2>1. hmsg \in [Handler -> DbMsg] BY DEF Init, DbMsg, Id
  <2> QED BY <1>1, <1>2, <2>1, FS_EmptySet DEF Init, TypeOK, Step
<1>5. MutualExclusion BY <1>3 DEF MutualExclusion, InOperation
<1>6. \A h \in Handler : CreateStage(h) /\ SubscribeStage(h) /\ DeleteStage(h)
  BY <1>3 DEF CreateStage, SubscribeStage, DeleteStage
<1>7. ListedHaveFile /\ LinesListed /\ AckedKept
  BY <1>1, <1>2 DEF ListedHaveFile, LinesListed, AckedKept
<1> QED BY <1>4, <1>5, <1>6, <1>7 DEF FilesInv

LEMMA FilesNext ==
  ASSUME FilesInv, TMP_FILE \notin Topic, FilesAssumption, [Next]_vars PROVE FilesInv'
<1>1. CASE Crash BY <1>1, CrashOK
<1>2. ASSUME NEW h \in Handler, Receive(h) PROVE FilesInv' BY <1>2, ReceiveOK
<1>3. ASSUME NEW h \in Handler, Enter(h) PROVE FilesInv' BY <1>3, EnterOK
<1>4. ASSUME NEW h \in Handler, Operation(h) PROVE FilesInv'
  BY <1>4, EndOK, ScanUsersOK, CreateUserOK, TouchTopicOK, ListTopicOK, AddLineOK,
     OpenTmpOK, CopyOthersOK, RenameOK, RemoveUserOK DEF Operation
<1>5. CASE UNCHANGED vars
  <2>1. UNCHANGED <<files, held, acked>> /\ UNCHANGED <<sem, hpc, hmsg, hline>>
    BY <1>5 DEF vars
  <2>2. userFile' = userFile /\ topicFile' = topicFile /\ held' = held /\ acked' = acked
    BY <2>1 DEF files
  <2>3. HandlersTyped' BY <2>1, InvParts DEF HandlersTyped
  <2>4. MutualExclusion' BY <2>1, InvParts DEF MutualExclusion, InOperation
  <2>5. ASSUME NEW h \in Handler
        PROVE  (CreateStage(h) /\ SubscribeStage(h) /\ DeleteStage(h))'
    <3>1. CreateStage(h) /\ SubscribeStage(h) /\ DeleteStage(h) BY InvParts
    <3> QED BY <2>1, <2>2, <3>1 DEF CreateStage, SubscribeStage, DeleteStage, UserOf,
               Listed, NoLineOf, LinesOf, TopicAt
  <2> QED BY <2>1, <2>3, <2>4, <2>5, SameFiles, InvFromParts
<1> QED BY <1>1, <1>2, <1>3, <1>4, <1>5 DEF Next

-----------------------------------------------------------------------------
(* The theorems.  The name of the temporary file must be no topic's: a     *)
(* deletion would overwrite the lines of that topic.                       *)

\* What the handler that has the semaphore has done, and what the files fulfil
\* between its writes.
THEOREM FilesInvAlways == ASSUME TMP_FILE \notin Topic PROVE Spec => []FilesInv
<1>1. Init => FilesInv BY FilesInit, FilesAssumption
<1>2. FilesInv /\ [Next]_vars => FilesInv' BY FilesNext, FilesAssumption
<1> QED BY <1>1, <1>2, PTL DEF Spec

\* Wherever the machine stops, a topic's lines are listed by their users.
THEOREM LinesAreListed == ASSUME TMP_FILE \notin Topic PROVE Spec => []LinesListed
<1>1. FilesInv => LinesListed BY DEF FilesInv
<1> QED BY <1>1, FilesInvAlways, PTL

\* What was answered DB_OK survives the other handlers and every crash.
THEOREM AnsweredIsKept == ASSUME TMP_FILE \notin Topic PROVE Spec => []AckedKept
<1>1. FilesInv => AckedKept BY DEF FilesInv
<1> QED BY <1>1, FilesInvAlways, PTL

\* No id is given out while somebody holds it.
THEOREM IdsAreGivenOnce == ASSUME TMP_FILE \notin Topic PROVE Spec => IdsGivenOnce
<1> DEFINE Given == \A h \in Handler : hpc[h] = "create" /\ hpc'[h] = "idle" /\ crashes' = crashes
                                        => UserOf(h) \notin held
<1>1. FilesInv => Given
  <2> SUFFICES ASSUME FilesInv, NEW h \in Handler, hpc[h] = "create"
               PROVE  UserOf(h) \notin held
    OBVIOUS
  <2>1. UserOf(h) \notin DOMAIN userFile BY DEF FilesInv, CreateStage
  <2> QED BY <2>1 DEF FilesInv, AckedKept
<1>2. FilesInv /\ [Next]_vars => [Given]_vars BY <1>1
<1>3. Spec => [][Given]_vars BY <1>2, FilesInvAlways, PTL DEF Spec
<1> QED BY <1>3 DEF IdsGivenOnce

\* A deletion that found its user removes it, whatever was cut short before.
THEOREM DeletionsAreComplete == ASSUME TMP_FILE \notin Topic PROVE Spec => DeletionsSucceed
<1> DEFINE Succeeds == \A h \in Handler : hpc[h] = "unsubscribe" /\ crashes' = crashes
                                           => hmsg'[h].type # "DB_ERROR"
<1>1. FilesInv /\ [Next]_vars => Succeeds
  <2> SUFFICES ASSUME FilesInv, [Next]_vars, NEW h \in Handler, hpc[h] = "unsubscribe"
               PROVE  hmsg'[h].type # "DB_ERROR"
    OBVIOUS
  <2>1. hmsg[h].type = "DB_DELETE" /\ HandlersTyped BY InvParts DEF DeleteStage
  <2>2. \A g \in Handler : g # h => hpc[g] \in {"idle", "wait"}
    BY OthersOutside DEF InOperation
  <2>3. CASE UNCHANGED hmsg BY <2>1, <2>3
  <2>4. ASSUME NEW g \in Handler, Receive(g) PROVE hmsg'[h].type # "DB_ERROR"
    <3>1. g # h BY <2>4 DEF Receive
    <3>2. hmsg'[h] = hmsg[h] BY <2>1, <2>4, <3>1 DEF Receive, HandlersTyped
    <3> QED BY <2>1, <3>2
  <2>5. ASSUME NEW g \in Handler, Operation(g) PROVE hmsg'[h].type # "DB_ERROR"
    <3>1. g = h
      <4>1. hpc[g] \notin {"idle", "wait"}
        BY <2>5 DEF Operation, Refuse, Read, ScanUsers, CreateUser, TouchTopic, ListTopic,
                    AddLine, OpenTmp, GiveUp, CopyOthers, Rename, RemoveUser
      <4> QED BY <2>2, <4>1
    <3>2. OpenTmp(h) \/ GiveUp(h) \/ RemoveUser(h)
      BY <2>5, <3>1 DEF Operation, Refuse, Read, ScanUsers, CreateUser, TouchTopic,
                        ListTopic, AddLine, CopyOthers, Rename
    <3>3. ~GiveUp(h) BY TopicAtOK DEF GiveUp
    <3>4. CASE OpenTmp(h) BY <2>1, <3>4 DEF OpenTmp
    <3>5. CASE RemoveUser(h) BY <2>1, <3>5 DEF RemoveUser, Leave, HandlersTyped, DbMsg
    <3> QED BY <3>2, <3>3, <3>4, <3>5
  <2>6. CASE Crash BY <2>3, <2>6 DEF Crash
  <2>7. ASSUME NEW g \in Handler, Enter(g) PROVE hmsg'[h].type # "DB_ERROR"
    BY <2>3, <2>7 DEF Enter
  <2>8. CASE UNCHANGED vars BY <2>3, <2>8 DEF vars
  <2> QED BY <2>4, <2>5, <2>6, <2>7, <2>8 DEF Next
<1>2. FilesInv /\ [Next]_vars => [Succeeds]_vars BY <1>1
<1>3. Spec => [][Succeeds]_vars BY <1>2, FilesInvAlways, PTL DEF Spec
<1> QED BY <1>3 DEF DeletionsSucceed

-----------------------------------------------------------------------------
(* The lines of a file, in their order.                                    *)

Upto(lines, n) == {k \in lines : k.pos <= n}

LEMMA UptoFinite ==
  ASSUME NEW lines \in SUBSET Line, IsFiniteSet(lines), NEW n
  PROVE  /\ IsFiniteSet(Upto(lines, n)) /\ Cardinality(Upto(lines, n)) \in Nat
         /\ Cardinality(Upto(lines, n)) <= Cardinality(lines)
<1>1. Upto(lines, n) \in SUBSET lines BY DEF Upto
<1> QED BY <1>1, FS_Subset, FS_CardinalityType

\* A later line has more lines up to it.
LEMMA LaterLines ==
  ASSUME NEW lines \in SUBSET Line, IsFiniteSet(lines),
         NEW k \in lines, NEW l \in lines, l.pos < k.pos
  PROVE  Cardinality(Upto(lines, l.pos)) < Cardinality(Upto(lines, k.pos))
<1>1. l.pos \in Nat /\ k.pos \in Nat BY DEF Line
<1>2. /\ IsFiniteSet(Upto(lines, k.pos)) /\ Cardinality(Upto(lines, k.pos)) \in Nat
      /\ Cardinality(Upto(lines, l.pos)) \in Nat
  BY UptoFinite
<1>3. Upto(lines, l.pos) \in SUBSET Upto(lines, k.pos)
  <2>1. \A j \in lines : j.pos \in Nat BY DEF Line
  <2> QED BY <1>1, <2>1 DEF Upto
<1>4. k \in Upto(lines, k.pos) /\ k \notin Upto(lines, l.pos) BY <1>1 DEF Upto
<1>5. Cardinality(Upto(lines, l.pos)) <= Cardinality(Upto(lines, k.pos))
      /\ Cardinality(Upto(lines, l.pos)) # Cardinality(Upto(lines, k.pos))
  BY <1>2, <1>3, <1>4, FS_Subset
<1> QED BY <1>2, <1>5

\* The place of a line in the file that is rewritten without id.
Others(lines, id) == {l \in lines : l.id # id}
Copied(lines, id, l) == [pos |-> Cardinality(Upto(Others(lines, id), l.pos)), id |-> l.id]

LEMMA WithoutIs ==
  ASSUME NEW lines, NEW id
  PROVE  Db!Without(lines, id) = {Copied(lines, id, l) : l \in Others(lines, id)}
<1>1. \A S : Db!Cardinality(S) = Cardinality(S) BY DEF Db!Cardinality, Cardinality
<1> QED BY <1>1 DEF Db!Without, Copied, Others, Upto

\* unsubscribe numbers the lines it copies.
LEMMA WithoutRanked ==
  ASSUME NEW lines \in SUBSET Line, IsFiniteSet(lines), NEW id
  PROVE  Ranked(Db!Without(lines, id))
<1> DEFINE kept == Others(lines, id)
           rank(l) == Cardinality(Upto(kept, l.pos))
           W == Db!Without(lines, id)
<1>1. kept \in SUBSET Line /\ IsFiniteSet(kept)
  <2>1. kept \in SUBSET lines BY DEF Others
  <2> QED BY <2>1, FS_Subset
<1>2. W = {[pos |-> rank(l), id |-> l.id] : l \in kept} BY WithoutIs DEF Copied
<1>3. \A l \in kept : rank(l) \in Nat /\ l.pos \in Nat
  <2> HIDE DEF kept
  <2> QED BY <1>1, UptoFinite DEF Line
<1>4. \A k, l \in kept : rank(k) <= rank(l) <=> k.pos <= l.pos
  <2> SUFFICES ASSUME NEW k \in kept, NEW l \in kept
               PROVE  rank(k) <= rank(l) <=> k.pos <= l.pos
    OBVIOUS
  <2> HIDE DEF kept
  <2>1. CASE l.pos < k.pos
    <3>1. rank(l) < rank(k) BY <1>1, <2>1, LaterLines
    <3> QED BY <1>3, <2>1, <3>1
  <2>2. CASE k.pos < l.pos
    <3>1. rank(k) < rank(l) BY <1>1, <2>2, LaterLines
    <3> QED BY <1>3, <2>2, <3>1
  <2>3. CASE k.pos = l.pos BY <1>3, <2>3
  <2> QED BY <1>3, <2>1, <2>2, <2>3
<1> HIDE DEF W
<1>5. ASSUME NEW w \in W PROVE Cardinality({v \in W : v.pos <= w.pos}) = w.pos
  <2>1. PICK l \in kept : w = [pos |-> rank(l), id |-> l.id] BY <1>2
  <2> DEFINE S == Upto(kept, l.pos)
             T == {v \in W : v.pos <= w.pos}
             f == [k \in S |-> [pos |-> rank(k), id |-> k.id]]
  <2>2. IsFiniteSet(S) /\ S \subseteq kept /\ Cardinality(S) = rank(l)
    <3>1. S \subseteq kept BY DEF Upto
    <3> HIDE DEF kept
    <3> QED BY <1>1, <3>1, UptoFinite
  <2>3. \A k \in kept : k \in S <=> k.pos <= l.pos BY DEF Upto
  <2> HIDE DEF S, kept
  <2>4. \A k \in S : f[k] \in T
    <3> SUFFICES ASSUME NEW k \in S PROVE f[k] \in T OBVIOUS
    <3>1. rank(k) <= rank(l) BY <1>4, <2>2, <2>3
    <3> HIDE DEF rank
    <3> QED BY <1>2, <2>1, <2>2, <3>1
  <2>5. \A v \in T : \E k \in S : f[k] = v
    <3> SUFFICES ASSUME NEW v \in T PROVE \E k \in S : f[k] = v OBVIOUS
    <3>1. PICK k \in kept : v = [pos |-> rank(k), id |-> k.id] BY <1>2
    <3>2. rank(k) <= rank(l)
      <4> HIDE DEF rank
      <4> QED BY <2>1, <3>1
    <3>3. k \in S BY <1>4, <2>3, <3>2
    <3> QED BY <3>1, <3>3
  <2>6. \A j, k \in S : f[j] = f[k] => j = k
    <3> SUFFICES ASSUME NEW j \in S, NEW k \in S, f[j] = f[k] PROVE j = k OBVIOUS
    <3>1. rank(j) = rank(k) /\ j.id = k.id
      <4> HIDE DEF rank
      <4>1. f[j].pos = rank(j) /\ f[k].pos = rank(k) /\ f[j].id = j.id /\ f[k].id = k.id
        OBVIOUS
      <4> QED BY <4>1
    <3>2. j.pos <= k.pos /\ k.pos <= j.pos BY <1>3, <1>4, <2>2, <3>1
    <3>3. j.pos = k.pos BY <1>3, <2>2, <3>2
    <3>4. j \in Line /\ k \in Line BY <1>1, <2>2
    <3> QED BY <3>1, <3>3, <3>4 DEF Line
  <2>7. f \in Bijection(S, T)
    <3> HIDE DEF T
    <3>1. f \in [S -> T] BY <2>4
    <3> HIDE DEF f
    <3> QED BY <2>5, <2>6, <3>1 DEF Bijection, Injection, Surjection, IsInjective
  <2>8. Cardinality(T) = Cardinality(S)
    <3> HIDE DEF f, T
    <3> QED BY <2>2, <2>7, FS_Bijection DEF ExistsBijection
  <2>9. w.pos = rank(l) BY <2>1
  <2> QED BY <2>2, <2>8, <2>9
<1> QED BY <1>5 DEF Ranked, W

\* A file without lines of id is copied as it is.
LEMMA WithoutNone ==
  ASSUME NEW lines \in SUBSET Line, NEW id, Ranked(lines), \A l \in lines : l.id # id
  PROVE  Db!Without(lines, id) = lines
<1>1. Others(lines, id) = lines BY DEF Others
<1>2. ASSUME NEW l \in lines PROVE Copied(lines, id, l) = l
  <2>1. Cardinality(Upto(lines, l.pos)) = l.pos BY DEF Ranked, Upto
  <2>2. l \in Line OBVIOUS
  <2> QED BY <1>1, <2>1, <2>2 DEF Copied, Line
<1> QED BY <1>1, <1>2, WithoutIs

\* A line at the end of the file has all the others before it.
LEMMA AppendRanked ==
  ASSUME NEW lines \in SUBSET Line, IsFiniteSet(lines), Ranked(lines), NEW id
  PROVE  Ranked(lines \cup {[pos |-> 1 + Cardinality(lines), id |-> id]})
<1> DEFINE n == Cardinality(lines)
           new == [pos |-> 1 + n, id |-> id]
           all == lines \cup {new}
<1>1. n \in Nat BY FS_CardinalityType
<1> HIDE DEF n
<1>2. \A l \in lines : l.pos \in Nat /\ l.pos <= n
  <2> SUFFICES ASSUME NEW l \in lines PROVE l.pos \in Nat /\ l.pos <= n OBVIOUS
  <2>1. Cardinality(Upto(lines, l.pos)) = l.pos BY DEF Ranked, Upto
  <2> QED BY <2>1, UptoFinite DEF Line, n
<1>3. new.pos = 1 + n OBVIOUS
<1> HIDE DEF new
<1>4. new \notin lines BY <1>1, <1>2, <1>3
<1>5. ASSUME NEW l \in lines PROVE Cardinality({k \in all : k.pos <= l.pos}) = l.pos
  <2>1. {k \in all : k.pos <= l.pos} = {k \in lines : k.pos <= l.pos}
    BY <1>1, <1>2, <1>3
  <2> QED BY <2>1 DEF Ranked
<1>6. Cardinality({k \in all : k.pos <= new.pos}) = new.pos
  <2>1. {k \in all : k.pos <= new.pos} = lines \cup {new} BY <1>1, <1>2, <1>3
  <2>2. Cardinality(lines \cup {new}) = n + 1 BY <1>4, FS_AddElement DEF n
  <2> QED BY <1>1, <1>3, <2>1, <2>2
<1> QED BY <1>5, <1>6 DEF Ranked, new, n

-----------------------------------------------------------------------------
(* What the callers see.                                                   *)

Deleting == {"unsubscribe", "copy", "rename"}

LEMMA LinesTyped ==
  ASSUME FilesInv, NEW t
  PROVE  LinesOf(topicFile, t) \in SUBSET Line /\ IsFiniteSet(LinesOf(topicFile, t))
<1>1. TopicsTyped BY InvParts
<1> QED BY <1>1, FS_EmptySet DEF TopicsTyped, LinesOf

\* Only the handler that has the semaphore has rewritten topics.
LEMMA DoneByOne ==
  ASSUME FilesInv, NEW h \in Handler, InOperation(h)
  PROVE  \A g \in Handler : g # h => DoneBy(g) = {}
BY OthersOutside DEF DoneBy

LEMMA NobodyDeletes ==
  ASSUME FilesInv, AtomicInv, \A h \in Handler : hpc[h] \notin Deleting
  PROVE  \A t \in Topic : LinesOf(topicFile, t) = LinesOf(stable.topics, t)
<1>1. \A h \in Handler : DoneBy(h) = {} BY DEF DoneBy, Deleting
<1> QED BY <1>1 DEF AtomicInv, LinesAgree

LEMMA OutsideDelete ==
  ASSUME FilesInv, AtomicInv, NEW h \in Handler, InOperation(h), hpc[h] \notin Deleting
  PROVE  \A t \in Topic : LinesOf(topicFile, t) = LinesOf(stable.topics, t)
<1>1. \A g \in Handler : hpc[g] \notin Deleting BY OthersOutside DEF Deleting
<1> QED BY <1>1, NobodyDeletes

\* A step within an operation that writes nothing a caller would see.
LEMMA QuietOK ==
  ASSUME AtomicInv, stable' = stable, DOMAIN userFile' = DOMAIN userFile,
         NextKnown',
         \A t \in Topic : LinesOf(topicFile', t) = LinesOf(topicFile, t),
         \A h \in Handler : DoneBy(h)' = DoneBy(h)
                            /\ (DoneBy(h) # {} => UserOf(h)' = UserOf(h))
  PROVE  AtomicInv'
<1>1. UsersAgree' BY DEF AtomicInv, UsersAgree
<1>2. LinesRanked' BY DEF AtomicInv, LinesRanked
<1>3. LinesAgree'
  <2> SUFFICES ASSUME NEW t \in Topic
               PROVE  /\ (\A h \in Handler : t \notin DoneBy(h)') =>
                           LinesOf(topicFile', t) = LinesOf(stable'.topics, t)
                      /\ \A h \in Handler : t \in DoneBy(h)' =>
                           LinesOf(topicFile', t)
                             = Db!Without(LinesOf(stable'.topics, t), UserOf(h)')
    BY DEF LinesAgree
  <2>1. LinesOf(topicFile', t) = LinesOf(topicFile, t) OBVIOUS
  <2>2. (\A h \in Handler : t \notin DoneBy(h)') =>
           LinesOf(topicFile, t) = LinesOf(stable.topics, t)
    BY DEF AtomicInv, LinesAgree
  <2>3. ASSUME NEW h \in Handler, t \in DoneBy(h)'
        PROVE  LinesOf(topicFile, t) = Db!Without(LinesOf(stable.topics, t), UserOf(h)')
    <3>1. t \in DoneBy(h) /\ UserOf(h)' = UserOf(h) BY <2>3
    <3> QED BY <3>1 DEF AtomicInv, LinesAgree
  <2> QED BY <2>1, <2>2, <2>3
<1> QED BY <1>1, <1>2, <1>3 DEF AtomicInv

LEMMA QuietDb == stable' = stable => [Db!DbCrashNext]_Db!dbVars
BY DEF Db!dbVars

\* NextId depends on the names of the files only.
LEMMA NextIdKept == DOMAIN userFile' = DOMAIN userFile => NextId' = NextId
BY DEF NextId

LEMMA SameNextId == UsersAgree => Db!NextId = NextId
BY DEF Db!NextId, NextId, UsersAgree

\* At the end of an operation the callers see the files.
LEMMA EndSeen ==
  ASSUME FilesInv, NEW h \in Handler, InOperation(h), NEW type, Leave(h, type),
         LinesRanked'
  PROVE  /\ AtomicInv'
         /\ DOMAIN stable'.users = DOMAIN userFile'
         /\ [t \in Topic |-> LinesOf(stable'.topics, t)]
              = [t \in Topic |-> LinesOf(topicFile', t)]
<1>1. stable'.users = userFile' /\ stable'.topics = topicFile' BY DEF Leave
<1>2. hpc' = [hpc EXCEPT ![h] = "idle"] /\ hpc \in [Handler -> Step]
  BY DEF Leave, GoTo, FilesInv, TypeOK
<1>3. \A g \in Handler : hpc'[g] \in {"idle", "wait"} BY <1>2, OthersOutside
<1>4. \A g \in Handler : DoneBy(g)' = {} BY <1>3 DEF DoneBy
<1>5. UsersAgree' BY <1>1 DEF UsersAgree
<1>6. NextKnown' BY <1>3 DEF NextKnown
<1>7. LinesAgree' BY <1>1, <1>4 DEF LinesAgree
<1> QED BY <1>1, <1>5, <1>6, <1>7 DEF AtomicInv

-----------------------------------------------------------------------------
(* The steps of the operations, as their callers see them.                 *)

LEMMA ReceiveSeen ==
  ASSUME FilesInv, AtomicInv, NEW h \in Handler, Receive(h)
  PROVE  AtomicInv' /\ [Db!DbCrashNext]_Db!dbVars
<1>1. /\ hpc[h] = "idle" /\ hpc' = [hpc EXCEPT ![h] = "wait"]
      /\ stable' = stable /\ hline' = hline
      /\ userFile' = userFile /\ topicFile' = topicFile
  BY DEF Receive, GoTo, files
<1>2. \A g \in Handler : g # h => UserOf(g)' = UserOf(g)
  <2>1. PICK m : hmsg' = [hmsg EXCEPT ![h] = m] BY DEF Receive
  <2> QED BY <2>1, InvParts DEF HandlersTyped, UserOf
<1>3. /\ hpc'[h] = "wait" /\ \A g \in Handler : g # h => hpc'[g] = hpc[g]
  BY <1>1, InvParts DEF HandlersTyped
<1>4. NextKnown' BY <1>1, <1>2, <1>3, NextIdKept DEF AtomicInv, NextKnown
<1>5. \A g \in Handler : DoneBy(g)' = DoneBy(g) /\ (DoneBy(g) # {} => UserOf(g)' = UserOf(g))
  <2>1. DoneBy(h)' = {} /\ DoneBy(h) = {} BY <1>1, <1>3 DEF DoneBy
  <2>2. \A g \in Handler : g # h => DoneBy(g)' = DoneBy(g) BY <1>1, <1>2, <1>3 DEF DoneBy
  <2> QED BY <1>2, <2>1, <2>2
<1> QED BY <1>1, <1>4, <1>5, QuietOK, QuietDb

LEMMA EnterSeen ==
  ASSUME FilesInv, AtomicInv, NEW h \in Handler, Enter(h)
  PROVE  AtomicInv' /\ [Db!DbCrashNext]_Db!dbVars
<1>1. /\ hpc[h] = "wait" /\ hpc' = [hpc EXCEPT ![h] = FirstStep(hmsg[h])]
      /\ stable' = stable /\ hline' = [hline EXCEPT ![h] = 1] /\ hmsg' = hmsg
      /\ userFile' = userFile /\ topicFile' = topicFile
  BY DEF Enter, GoTo, files
<1>2. /\ hpc'[h] = FirstStep(hmsg[h]) /\ hline'[h] = 1
      /\ \A g \in Handler : g # h => hpc'[g] = hpc[g] /\ hline'[g] = hline[g]
  BY <1>1, InvParts DEF HandlersTyped
<1>3. hpc'[h] # "create" BY <1>2 DEF FirstStep
<1>4. \A g \in Handler : UserOf(g)' = UserOf(g) BY <1>1 DEF UserOf
<1>5. NextKnown' BY <1>1, <1>2, <1>3, <1>4, NextIdKept DEF AtomicInv, NextKnown
<1>6. \A g \in Handler : DoneBy(g)' = DoneBy(g)
  <2>1. DoneBy(h)' = {} /\ DoneBy(h) = {}
    <3>1. 1..(hline'[h] - 1) = {} BY <1>2
    <3> QED BY <1>1, <3>1 DEF DoneBy
  <2>2. \A g \in Handler : g # h => DoneBy(g)' = DoneBy(g) BY <1>1, <1>2, <1>4 DEF DoneBy
  <2> QED BY <2>1, <2>2
<1> QED BY <1>1, <1>4, <1>5, <1>6, QuietOK, QuietDb

LEMMA RefuseSeen ==
  ASSUME FilesInv, AtomicInv, NEW h \in Handler, Refuse(h) \/ Read(h) \/ GiveUp(h)
  PROVE  AtomicInv' /\ [Db!DbCrashNext]_Db!dbVars
<1>1. ~GiveUp(h) BY TopicAtOK DEF GiveUp
<1>2. /\ hpc[h] \in {"refuse", "read"} /\ InOperation(h)
      /\ userFile' = userFile /\ topicFile' = topicFile
  BY <1>1 DEF Refuse, Read, InOperation, files
<1>3. PICK type : Leave(h, type) BY <1>1 DEF Refuse, Read
<1>4. LinesRanked' BY <1>2 DEF AtomicInv, LinesRanked
<1>5. \A t \in Topic : LinesOf(topicFile, t) = LinesOf(stable.topics, t)
  BY <1>2, OutsideDelete DEF Deleting
<1>6. /\ AtomicInv'
      /\ DOMAIN stable'.users = DOMAIN userFile'
      /\ [t \in Topic |-> LinesOf(stable'.topics, t)]
           = [t \in Topic |-> LinesOf(topicFile', t)]
  BY <1>2, <1>3, <1>4, EndSeen
<1>7. DOMAIN stable'.users = DOMAIN stable.users BY <1>2, <1>6 DEF AtomicInv, UsersAgree
<1>8. [t \in Topic |-> LinesOf(stable'.topics, t)] = [t \in Topic |-> LinesOf(stable.topics, t)]
  BY <1>2, <1>5, <1>6
<1> QED BY <1>6, <1>7, <1>8 DEF Db!dbVars

LEMMA ScanUsersSeen ==
  ASSUME FilesInv, AtomicInv, NEW h \in Handler, ScanUsers(h)
  PROVE  AtomicInv' /\ [Db!DbCrashNext]_Db!dbVars
<1>1. /\ hpc[h] = "scan" /\ hpc' = [hpc EXCEPT ![h] = "create"] /\ InOperation(h)
      /\ stable' = stable /\ hline' = hline
      /\ hmsg' = [hmsg EXCEPT ![h].global_id = NextId]
      /\ userFile' = userFile /\ topicFile' = topicFile
  BY DEF ScanUsers, GoTo, files, InOperation
<1>2. /\ hpc'[h] = "create" /\ UserOf(h)' = NextId
      /\ \A g \in Handler : g # h => hpc'[g] = hpc[g] /\ UserOf(g)' = UserOf(g)
  BY <1>1, InvParts DEF HandlersTyped, DbMsg, UserOf
<1>3. \A g \in Handler : g # h => hpc[g] \in {"idle", "wait"} BY <1>1, OthersOutside
<1>4. NextKnown' BY <1>1, <1>2, <1>3, NextIdKept DEF NextKnown
<1>5. \A g \in Handler : DoneBy(g)' = {} /\ DoneBy(g) = {}
  BY <1>1, <1>2, <1>3 DEF DoneBy
<1> QED BY <1>1, <1>4, <1>5, QuietOK, QuietDb

LEMMA CreateUserSeen ==
  ASSUME FilesInv, AtomicInv, NEW h \in Handler, CreateUser(h)
  PROVE  AtomicInv' /\ [Db!DbCrashNext]_Db!dbVars
<1> DEFINE id == UserOf(h)
<1>1. /\ hpc[h] = "create" /\ InOperation(h) /\ Leave(h, "DB_OK")
      /\ userFile' = Touch(userFile, id, <<>>) /\ topicFile' = topicFile
  BY DEF CreateUser, InOperation
<1>2. id = NextId /\ id = Db!NextId BY <1>1, SameNextId DEF AtomicInv, NextKnown
<1>3. DOMAIN userFile' = DOMAIN userFile \cup {id} BY <1>1 DEF Touch, Put
<1>4. LinesRanked' BY <1>1 DEF AtomicInv, LinesRanked
<1>5. \A t \in Topic : LinesOf(topicFile, t) = LinesOf(stable.topics, t)
  BY <1>1, OutsideDelete DEF Deleting
<1>6. /\ AtomicInv'
      /\ DOMAIN stable'.users = DOMAIN userFile'
      /\ [t \in Topic |-> LinesOf(stable'.topics, t)]
           = [t \in Topic |-> LinesOf(topicFile', t)]
  BY <1>1, <1>4, EndSeen
<1>7. DOMAIN stable'.users = DOMAIN stable.users \cup {Db!NextId}
  BY <1>2, <1>3, <1>6 DEF AtomicInv, UsersAgree
<1>8. [t \in Topic |-> LinesOf(stable'.topics, t)] = [t \in Topic |-> LinesOf(stable.topics, t)]
  BY <1>1, <1>5, <1>6
<1>9. Db!DbAddUser BY <1>7, <1>8 DEF Db!DbAddUser
<1> QED BY <1>6, <1>9 DEF Db!DbCrashNext, Db!DbNext

LEMMA TouchTopicSeen ==
  ASSUME FilesInv, AtomicInv, NEW h \in Handler, TouchTopic(h)
  PROVE  AtomicInv' /\ [Db!DbCrashNext]_Db!dbVars
<1>1. /\ hpc[h] = "touch" /\ hpc' = [hpc EXCEPT ![h] = "list"] /\ InOperation(h)
      /\ stable' = stable /\ hline' = hline /\ hmsg' = hmsg
      /\ userFile' = userFile /\ topicFile' = Touch(topicFile, hmsg[h].topic, {})
  BY DEF TouchTopic, GoTo, InOperation
<1>2. hpc'[h] = "list" /\ \A g \in Handler : g # h => hpc'[g] = hpc[g]
  BY <1>1, InvParts DEF HandlersTyped
<1>3. \A g \in Handler : g # h => hpc[g] \in {"idle", "wait"} BY <1>1, OthersOutside
<1>4. NextKnown' BY <1>2, <1>3 DEF NextKnown
<1>5. \A g \in Handler : DoneBy(g)' = {} /\ DoneBy(g) = {} BY <1>1, <1>2, <1>3 DEF DoneBy
<1>6. \A t \in Topic : LinesOf(topicFile', t) = LinesOf(topicFile, t)
  BY <1>1 DEF Touch, Put, LinesOf
<1> QED BY <1>1, <1>4, <1>5, <1>6, QuietOK, QuietDb

LEMMA ListTopicSeen ==
  ASSUME FilesInv, AtomicInv, NEW h \in Handler, ListTopic(h)
  PROVE  AtomicInv' /\ [Db!DbCrashNext]_Db!dbVars
<1>1. /\ hpc[h] = "list" /\ hpc' = [hpc EXCEPT ![h] = "add"] /\ InOperation(h)
      /\ stable' = stable /\ hline' = hline /\ hmsg' = hmsg /\ topicFile' = topicFile
      /\ userFile' = [Touch(userFile, UserOf(h), <<>>) EXCEPT
                        ![UserOf(h)] = Append(@, hmsg[h].topic)]
  BY DEF ListTopic, GoTo, InOperation
<1>2. hpc'[h] = "add" /\ \A g \in Handler : g # h => hpc'[g] = hpc[g]
  BY <1>1, InvParts DEF HandlersTyped
<1>3. \A g \in Handler : g # h => hpc[g] \in {"idle", "wait"} BY <1>1, OthersOutside
<1>4. NextKnown' BY <1>2, <1>3 DEF NextKnown
<1>5. \A g \in Handler : DoneBy(g)' = {} /\ DoneBy(g) = {} BY <1>1, <1>2, <1>3 DEF DoneBy
<1>6. UserOf(h) \in DOMAIN userFile BY <1>1, InvParts DEF SubscribeStage
<1>7. DOMAIN userFile' = DOMAIN userFile BY <1>1, <1>6 DEF Touch
<1> QED BY <1>1, <1>4, <1>5, <1>7, QuietOK, QuietDb

LEMMA AddLineSeen ==
  ASSUME FilesInv, AtomicInv, NEW h \in Handler, AddLine(h)
  PROVE  AtomicInv' /\ [Db!DbCrashNext]_Db!dbVars
<1> DEFINE id == UserOf(h)
           t == hmsg[h].topic
           lines == LinesOf(topicFile, t)
           all == lines \cup {[pos |-> 1 + Cardinality(lines), id |-> id]}
<1>1. /\ hpc[h] = "add" /\ InOperation(h) /\ Leave(h, "DB_OK")
      /\ userFile' = userFile /\ topicFile' = Put(topicFile, t, all)
  BY DEF AddLine, InOperation
<1>2. t \in Topic BY InvParts DEF HandlersTyped, DbMsg
<1>3. id \in DOMAIN stable.users
  BY <1>1, InvParts DEF SubscribeStage, AtomicInv, UsersAgree
<1>4. /\ LinesOf(topicFile', t) = all
      /\ \A u \in Topic : u # t => LinesOf(topicFile', u) = LinesOf(topicFile, u)
  BY <1>1 DEF Put, LinesOf
<1>5. Ranked(all) BY <1>2, LinesTyped, AppendRanked DEF AtomicInv, LinesRanked
<1>6. LinesRanked' BY <1>4, <1>5 DEF AtomicInv, LinesRanked
<1>7. \A u \in Topic : LinesOf(topicFile, u) = LinesOf(stable.topics, u)
  BY <1>1, OutsideDelete DEF Deleting
<1>8. /\ AtomicInv'
      /\ DOMAIN stable'.users = DOMAIN userFile'
      /\ [u \in Topic |-> LinesOf(stable'.topics, u)]
           = [u \in Topic |-> LinesOf(topicFile', u)]
  BY <1>1, <1>6, EndSeen
<1>9. DOMAIN stable'.users = DOMAIN stable.users BY <1>1, <1>8 DEF AtomicInv, UsersAgree
<1>10. [u \in Topic |-> LinesOf(stable'.topics, u)]
         = [[u \in Topic |-> LinesOf(stable.topics, u)] EXCEPT
              ![t] = @ \cup {[pos |-> 1 + Db!Cardinality(@), id |-> id]}]
  <2> DEFINE old == [u \in Topic |-> LinesOf(stable.topics, u)]
  <2>1. \A S : Db!Cardinality(S) = Cardinality(S) BY DEF Db!Cardinality, Cardinality
  <2>2. old[t] = lines BY <1>2, <1>7
  <2>3. [old EXCEPT ![t] = @ \cup {[pos |-> 1 + Db!Cardinality(@), id |-> id]}]
          = [u \in Topic |-> IF u = t THEN all ELSE LinesOf(topicFile, u)]
    <3> HIDE DEF lines, id
    <3> QED BY <1>2, <1>7, <2>1, <2>2
  <2>4. [u \in Topic |-> LinesOf(topicFile', u)]
          = [u \in Topic |-> IF u = t THEN all ELSE LinesOf(topicFile, u)]
    <3> HIDE DEF all, t
    <3> QED BY <1>4
  <2> QED BY <1>8, <2>3, <2>4
<1>11. Db!DbSubscribe(id, t)
  <2> HIDE DEF t, id
  <2> QED BY <1>3, <1>9, <1>10 DEF Db!DbSubscribe
<1> HIDE DEF t, id
<1> QED BY <1>2, <1>3, <1>8, <1>11 DEF Db!DbCrashNext, Db!DbNext

\* The temporary file is none that a caller would ask for.
LEMMA TmpSeen ==
  ASSUME FilesInv, AtomicInv, TMP_FILE \notin Topic, NEW h \in Handler,
         hpc[h] \in Deleting, NEW step \in {"copy", "rename"}, GoTo(h, step), NEW lines,
         topicFile' = Put(topicFile, TMP_FILE, lines),
         UNCHANGED <<userFile, hmsg, hline, stable>>
  PROVE  AtomicInv' /\ [Db!DbCrashNext]_Db!dbVars
<1>1. hpc'[h] = step /\ \A g \in Handler : g # h => hpc'[g] = hpc[g]
  BY InvParts DEF HandlersTyped, GoTo
<1>2. NextKnown' BY <1>1, NextIdKept DEF NextKnown, AtomicInv, UserOf
<1>3. \A g \in Handler : DoneBy(g)' = DoneBy(g) /\ UserOf(g)' = UserOf(g)
  BY <1>1 DEF DoneBy, UserOf, Deleting
<1>4. \A t \in Topic : LinesOf(topicFile', t) = LinesOf(topicFile, t) BY DEF Put, LinesOf
<1> QED BY <1>2, <1>3, <1>4, QuietOK, QuietDb

LEMMA OpenTmpSeen ==
  ASSUME FilesInv, AtomicInv, TMP_FILE \notin Topic, NEW h \in Handler, OpenTmp(h)
  PROVE  AtomicInv' /\ [Db!DbCrashNext]_Db!dbVars
BY TmpSeen DEF OpenTmp, Deleting

LEMMA CopyOthersSeen ==
  ASSUME FilesInv, AtomicInv, TMP_FILE \notin Topic, NEW h \in Handler, CopyOthers(h)
  PROVE  AtomicInv' /\ [Db!DbCrashNext]_Db!dbVars
BY TmpSeen DEF CopyOthers, Deleting

LEMMA RenameSeen ==
  ASSUME FilesInv, AtomicInv, TMP_FILE \notin Topic, NEW h \in Handler, Rename(h)
  PROVE  AtomicInv' /\ [Db!DbCrashNext]_Db!dbVars
<1> DEFINE id == UserOf(h)
           t == TopicAt(h)
           lines == LinesOf(topicFile, t)
           seen == LinesOf(stable.topics, t)
<1>1. /\ hpc[h] = "rename" /\ hpc' = [hpc EXCEPT ![h] = "unsubscribe"] /\ InOperation(h)
      /\ topicFile' = [n \in (DOMAIN topicFile \ {TMP_FILE}) \cup {t} |->
                        IF n = t THEN LinesOf(topicFile, TMP_FILE) ELSE topicFile[n]]
      /\ hline' = [hline EXCEPT ![h] = @ + 1]
      /\ userFile' = userFile /\ hmsg' = hmsg /\ stable' = stable
  BY DEF Rename, GoTo, InOperation
<1>2. HandlersTyped /\ DeleteStage(h) BY InvParts
<1>3. MoreLines(h) BY <1>1, <1>2 DEF DeleteStage, MoreLines
<1>4. hline[h] \in 1..Len(userFile[id]) /\ Len(userFile[id]) \in Nat /\ t \in Topic
  BY <1>1, <1>3, TopicAtOK
<1>5. t = userFile[id][hline[h]] BY DEF TopicAt
<1>6. /\ hpc'[h] = "unsubscribe" /\ hline'[h] = hline[h] + 1
      /\ \A g \in Handler : g # h => hpc'[g] = hpc[g] /\ hline'[g] = hline[g]
  BY <1>1, <1>2 DEF HandlersTyped
<1>7. \A g \in Handler : g # h => hpc[g] \in {"idle", "wait"} BY <1>1, OthersOutside
<1>8. LinesOf(topicFile, TMP_FILE) = Db!Without(lines, id)
  BY <1>1, <1>2 DEF DeleteStage, LinesOf
<1> HIDE DEF t, id
<1>9. /\ LinesOf(topicFile', t) = Db!Without(lines, id)
      /\ \A u \in Topic : u # t => LinesOf(topicFile', u) = LinesOf(topicFile, u)
  BY <1>1, <1>4, <1>8 DEF LinesOf
<1>10. /\ lines \in SUBSET Line /\ IsFiniteSet(lines) /\ Ranked(lines)
  BY <1>4, LinesTyped DEF AtomicInv, LinesRanked
<1>11. LinesRanked'
  <2>1. Ranked(Db!Without(lines, id)) BY <1>10, WithoutRanked
  <2> QED BY <1>9, <2>1 DEF AtomicInv, LinesRanked
<1>12. /\ DoneBy(h)' = DoneBy(h) \cup {t}
       /\ \A g \in Handler : g # h => DoneBy(g)' = {} /\ DoneBy(g) = {}
  <2>1. 1..(hline'[h] - 1) = 1..(hline[h] - 1) \cup {hline[h]} BY <1>4, <1>6
  <2>2. DoneBy(h) = {userFile[id][i] : i \in 1..(hline[h] - 1)} BY <1>1 DEF DoneBy, id
  <2>3. DoneBy(h)' = {userFile[id][i] : i \in 1..(hline'[h] - 1)}
    BY <1>1, <1>6 DEF DoneBy, UserOf, id
  <2>4. DoneBy(h)' = DoneBy(h) \cup {t} BY <1>5, <2>1, <2>2, <2>3
  <2> QED BY <1>6, <1>7, <2>4 DEF DoneBy
\* A topic may be listed twice; its file is then copied without a change.
<1>13. Db!Without(lines, id) = Db!Without(seen, id)
  <2>1. CASE t \in DoneBy(h)
    <3>1. lines = Db!Without(seen, id) BY <1>4, <2>1 DEF AtomicInv, LinesAgree, id
    <3>2. PICK i \in 1..(hline[h] - 1) : t = userFile[id][i] BY <1>1, <2>1 DEF DoneBy, id
    <3>3. NoLineOf(id, t) BY <1>1, <1>2, <3>2 DEF DeleteStage, id
    <3>4. Db!Without(lines, id) = lines BY <1>10, <3>3, WithoutNone DEF NoLineOf
    <3> QED BY <3>1, <3>4
  <2>2. CASE t \notin DoneBy(h)
    <3>1. lines = seen BY <1>4, <1>12, <2>2 DEF AtomicInv, LinesAgree
    <3> QED BY <3>1
  <2> QED BY <2>1, <2>2
<1>14. LinesAgree'
  <2> SUFFICES ASSUME NEW u \in Topic
               PROVE  /\ (\A g \in Handler : u \notin DoneBy(g)') =>
                           LinesOf(topicFile', u) = LinesOf(stable.topics, u)
                      /\ \A g \in Handler : u \in DoneBy(g)' =>
                           LinesOf(topicFile', u)
                             = Db!Without(LinesOf(stable.topics, u), UserOf(g))
    BY <1>1 DEF LinesAgree, UserOf
  <2>1. CASE u = t BY <1>9, <1>12, <1>13, <2>1 DEF id
  <2>2. CASE u # t
    <3>1. \A g \in Handler : u \in DoneBy(g)' <=> u \in DoneBy(g) BY <1>12, <2>2
    <3> QED BY <1>9, <2>2, <3>1 DEF AtomicInv, LinesAgree
  <2> QED BY <2>1, <2>2
<1>15. UsersAgree' BY <1>1 DEF AtomicInv, UsersAgree
<1>16. NextKnown' BY <1>6, <1>7 DEF NextKnown
<1>17. AtomicInv' BY <1>11, <1>14, <1>15, <1>16 DEF AtomicInv
<1> QED BY <1>1, <1>17, QuietDb

\* When all its topics are rewritten, they are as a deletion at once leaves them.
LEMMA RemoveUserSeen ==
  ASSUME FilesInv, AtomicInv, NEW h \in Handler, RemoveUser(h)
  PROVE  AtomicInv' /\ [Db!DbCrashNext]_Db!dbVars
<1> DEFINE id == UserOf(h)
<1>1. /\ hpc[h] = "unsubscribe" /\ ~MoreLines(h) /\ Leave(h, "DB_OK") /\ InOperation(h)
      /\ userFile' = [n \in DOMAIN userFile \ {id} |-> userFile[n]]
      /\ topicFile' = topicFile
  BY DEF RemoveUser, InOperation
<1>2. HandlersTyped /\ UsersTyped /\ FilesOK /\ DeleteStage(h) BY InvParts
<1>3. /\ id \in DOMAIN userFile /\ Len(userFile[id]) \in Nat
      /\ hline[h] \in Nat /\ hline[h] - 1 >= Len(userFile[id])
  BY <1>1, <1>2 DEF DeleteStage, MoreLines, UsersTyped, HandlersTyped
<1>4. \A i \in 1..Len(userFile[id]) : i \in 1..(hline[h] - 1) BY <1>3
<1>5. DoneBy(h) = {userFile[id][i] : i \in 1..(hline[h] - 1)} BY <1>1 DEF DoneBy
<1> HIDE DEF id
<1>6. ASSUME NEW t \in Topic
      PROVE  LinesOf(topicFile, t) = Db!Without(LinesOf(stable.topics, t), id)
  <2>1. CASE t \in DoneBy(h) BY <2>1 DEF AtomicInv, LinesAgree, id
  <2>2. CASE t \notin DoneBy(h)
    <3>1. LinesOf(topicFile, t) = LinesOf(stable.topics, t)
      BY <1>1, <2>2, DoneByOne DEF AtomicInv, LinesAgree
    <3>2. \A l \in LinesOf(topicFile, t) : l.id # id
      <4> SUFFICES ASSUME NEW l \in LinesOf(topicFile, t), l.id = id PROVE FALSE
        OBVIOUS
      <4>1. t \in DOMAIN topicFile /\ l \in topicFile[t] BY DEF LinesOf
      <4>2. Listed(id, t) BY <1>2, <4>1 DEF FilesOK, LinesListed
      <4> QED BY <1>4, <1>5, <2>2, <4>2 DEF Listed
    <3>3. Ranked(LinesOf(topicFile, t)) BY DEF AtomicInv, LinesRanked
    <3>4. LinesOf(topicFile, t) \in SUBSET Line BY LinesTyped
    <3>5. Db!Without(LinesOf(topicFile, t), id) = LinesOf(topicFile, t)
      BY <3>2, <3>3, <3>4, WithoutNone
    <3> QED BY <3>1, <3>5
  <2> QED BY <2>1, <2>2
<1>7. LinesRanked' BY <1>1 DEF AtomicInv, LinesRanked
<1>8. /\ AtomicInv'
      /\ DOMAIN stable'.users = DOMAIN userFile'
      /\ [t \in Topic |-> LinesOf(stable'.topics, t)]
           = [t \in Topic |-> LinesOf(topicFile', t)]
  BY <1>1, <1>7, EndSeen
<1>9. id \in DOMAIN stable.users /\ DOMAIN stable'.users = DOMAIN stable.users \ {id}
  BY <1>1, <1>3, <1>8 DEF AtomicInv, UsersAgree
<1>10. [t \in Topic |-> LinesOf(stable'.topics, t)]
         = [t \in Topic |-> Db!Without([u \in Topic |-> LinesOf(stable.topics, u)][t], id)]
  BY <1>1, <1>6, <1>8
<1>11. Db!DbDelete(id) BY <1>9, <1>10 DEF Db!DbDelete
<1> QED BY <1>8, <1>9, <1>11 DEF Db!DbCrashNext, Db!DbNext

\* A deletion that was cut short leaves the topics it has come to.
LEMMA CrashSeen ==
  ASSUME FilesInv, AtomicInv, Crash
  PROVE  AtomicInv' /\ [Db!DbCrashNext]_Db!dbVars
<1>1. /\ hpc' = [h \in Handler |-> "idle"]
      /\ stable' = [users |-> userFile', topics |-> topicFile']
      /\ userFile' = userFile /\ topicFile' = topicFile
  BY DEF Crash, files
<1>2. \A h \in Handler : hpc'[h] = "idle" BY <1>1
<1>3. \A h \in Handler : DoneBy(h)' = {} BY <1>2 DEF DoneBy
<1>4. AtomicInv'
  <2>1. UsersAgree' /\ LinesAgree' BY <1>1, <1>3 DEF UsersAgree, LinesAgree
  <2>2. LinesRanked' BY <1>1 DEF AtomicInv, LinesRanked
  <2> QED BY <1>2, <2>1, <2>2 DEF AtomicInv, NextKnown
<1>5. DOMAIN stable'.users = DOMAIN stable.users BY <1>1 DEF AtomicInv, UsersAgree
<1>6. [t \in Topic |-> LinesOf(stable'.topics, t)] = [t \in Topic |-> LinesOf(topicFile, t)]
  BY <1>1
<1>7. CASE \A h \in Handler : hpc[h] \notin Deleting
  <2>1. \A t \in Topic : LinesOf(topicFile, t) = LinesOf(stable.topics, t)
    BY <1>7, NobodyDeletes
  <2>2. [t \in Topic |-> LinesOf(stable'.topics, t)]
          = [t \in Topic |-> LinesOf(stable.topics, t)]
    BY <1>6, <2>1
  <2> QED BY <1>4, <1>5, <2>2 DEF Db!dbVars
<1>8. ASSUME NEW h \in Handler, hpc[h] \in Deleting
      PROVE  [Db!DbCrashNext]_Db!dbVars
  <2> DEFINE id == UserOf(h)
             S == DoneBy(h) \cap Topic
             old == [t \in Topic |-> LinesOf(stable.topics, t)]
  <2>1. InOperation(h) BY <1>8 DEF InOperation, Deleting
  <2>2. id \in DOMAIN stable.users
    BY <1>8, InvParts DEF DeleteStage, Deleting, AtomicInv, UsersAgree
  <2>3. \A t \in Topic : LinesOf(topicFile, t)
                           = IF t \in S THEN Db!Without(old[t], id) ELSE old[t]
    BY <2>1, DoneByOne DEF AtomicInv, LinesAgree
  <2>4. [t \in Topic |-> LinesOf(stable'.topics, t)]
          = [t \in Topic |-> IF t \in S THEN Db!Without(old[t], id) ELSE old[t]]
    <3> HIDE DEF S, old, id
    <3> QED BY <1>6, <2>3
  <2>5. S \in SUBSET Topic OBVIOUS
  <2>6. Db!DbDeleteCut(id)
    <3> HIDE DEF S, id
    <3> QED BY <1>5, <2>2, <2>4, <2>5 DEF Db!DbDeleteCut
  <2> HIDE DEF id
  <2> QED BY <2>2, <2>6 DEF Db!DbCrashNext
<1> QED BY <1>4, <1>7, <1>8

LEMMA AtomicInit == Init => AtomicInv /\ Db!DbInit
<1> SUFFICES ASSUME Init PROVE AtomicInv /\ Db!DbInit OBVIOUS
<1>1. /\ userFile = <<>> /\ topicFile = <<>>
      /\ stable.users = userFile /\ stable.topics = topicFile
      /\ \A h \in Handler : hpc[h] = "idle"
  BY DEF Init
<1>2. DOMAIN userFile = {} /\ DOMAIN topicFile = {} BY <1>1
<1>3. \A t : LinesOf(topicFile, t) = {} /\ LinesOf(stable.topics, t) = {}
  BY <1>1, <1>2 DEF LinesOf
<1>4. UsersAgree /\ NextKnown BY <1>1 DEF UsersAgree, NextKnown
<1>5. LinesRanked BY <1>3 DEF LinesRanked, Ranked
<1>6. LinesAgree BY <1>1, <1>3 DEF LinesAgree, DoneBy
<1>7. Db!DbInit BY <1>1, <1>2, <1>3 DEF Db!DbInit
<1> QED BY <1>4, <1>5, <1>6, <1>7 DEF AtomicInv

LEMMA AtomicNext ==
  ASSUME FilesInv, AtomicInv, TMP_FILE \notin Topic, [Next]_vars
  PROVE  AtomicInv' /\ [Db!DbCrashNext]_Db!dbVars
<1>1. CASE Crash BY <1>1, CrashSeen
<1>2. ASSUME NEW h \in Handler, Receive(h) \/ Enter(h)
      PROVE  AtomicInv' /\ [Db!DbCrashNext]_Db!dbVars
  BY <1>2, ReceiveSeen, EnterSeen
<1>3. ASSUME NEW h \in Handler, Operation(h)
      PROVE  AtomicInv' /\ [Db!DbCrashNext]_Db!dbVars
  BY <1>3, RefuseSeen, ScanUsersSeen, CreateUserSeen, TouchTopicSeen, ListTopicSeen,
     AddLineSeen, OpenTmpSeen, CopyOthersSeen, RenameSeen, RemoveUserSeen DEF Operation
<1>4. CASE UNCHANGED vars
  <2>1. /\ hpc' = hpc /\ hmsg' = hmsg /\ hline' = hline /\ stable' = stable
        /\ userFile' = userFile /\ topicFile' = topicFile
    BY <1>4 DEF vars, files
  <2>2. \A h \in Handler : DoneBy(h)' = DoneBy(h) /\ UserOf(h)' = UserOf(h)
    BY <2>1 DEF DoneBy, UserOf
  <2>3. NextKnown' BY <2>1, <2>2, NextIdKept DEF AtomicInv, NextKnown
  <2> QED BY <2>1, <2>2, <2>3, QuietOK, QuietDb
<1> QED BY <1>1, <1>2, <1>3, <1>4 DEF Next

\* The files differ from what the callers see by what a deletion has rewritten, and by
\* nothing else, at every moment the machine may stop (db.c:165-396).
THEOREM AtomicInvAlways == ASSUME TMP_FILE \notin Topic PROVE Spec => []AtomicInv
<1>1. Init => AtomicInv BY AtomicInit
<1>2. FilesInv /\ AtomicInv /\ [Next]_vars => AtomicInv' BY AtomicNext
<1> QED BY <1>1, <1>2, FilesInvAlways, PTL DEF Spec

\* The operations on the files are those of SubscriptionDb, each at once; of one that the
\* machine stops in, only a deletion leaves a trace, the topics it had come to.
THEOREM OperationsAreAtomic == ASSUME TMP_FILE \notin Topic PROVE Spec => DbAtomic
<1>1. Init => Db!DbInit BY AtomicInit
<1>2. FilesInv /\ AtomicInv /\ [Next]_vars => [Db!DbCrashNext]_Db!dbVars BY AtomicNext
<1> QED BY <1>1, <1>2, FilesInvAlways, AtomicInvAlways, PTL
        DEF Spec, DbAtomic, Db!DbCrashSpec
=============================================================================
