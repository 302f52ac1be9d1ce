------------------------------- MODULE DbFiles -------------------------------
(***************************************************************************)
(* The database server (broker/db-server) at the level of its files: a     *)
(* file per user with a topic on each line, a file per topic with an id on *)
(* each line, and the temporary file that a topic's file is rewritten in.  *)
(* A handler process serves each broker; the operations hold one semaphore *)
(* and write their files one after the other, and the machine may stop     *)
(* between any two writes.                                                 *)
(***************************************************************************)
EXTENDS Integers, FiniteSets, Sequences

CONSTANTS
  Handler,            \* handler processes, one per broker
  Topic,              \* the topic names
  TMP_FILE,           \* name of the temporary file, in the directory of topics
  MaxUsers,           \* bound: the largest id
  MaxLines,           \* bound: lines in a user's file
  MaxCrashes          \* bound: times the machine stops

VARIABLES
  userFile,           \* userFile[id]: lines of db/users/id, if it exists
  topicFile,          \* topicFile[t]: lines of db/topics/t, if it exists
  sem,                \* value of DB_SEM
  hpc,                \* hpc[h]: next step of handler h
  hmsg,               \* hmsg[h]: the db_msg_t it works on; type is also the reply
  hline,              \* hline[h]: line of the user's file that db_delete is at
  held,               \* history: ids given out and not being deleted
  acked,              \* history: <<id, topic>> subscribed and not being deleted
  stable,             \* history: the files when DB_SEM was last released
  crashes             \* times the machine has stopped (bounded by MaxCrashes)

files == <<userFile, topicFile>>
vars == <<files, sem, hpc, hmsg, hline, held, acked, stable, crashes>>

ASSUME FilesAssumption ==
  /\ {MaxUsers, MaxLines} \subseteq Nat \ {0}
  /\ MaxCrashes \in Nat

-----------------------------------------------------------------------------
LinesOf(topicFiles, t) == IF t \in DOMAIN topicFiles THEN topicFiles[t] ELSE {}

\* What the callers of the database see: its files between two operations.
Db == INSTANCE SubscriptionDb
        WITH users <- DOMAIN stable.users,
             topics <- [t \in Topic |-> LinesOf(stable.topics, t)],
             MAX_CLIENTS <- MaxLines, Garbage <- {}

Id == Nat \ {0}
Line == [pos : Nat, id : Id]
DbRequest == {"DB_CREATE", "DB_SUBSCRIBE", "DB_GET_SUBSCRIBED", "DB_DELETE"}
DbMsg == [type : DbRequest \cup {"DB_OK", "DB_ERROR"}, global_id : Id, topic : Topic]

Step == {"idle", "wait", "refuse", "read", "scan", "create", "touch", "list", "add",
         "unsubscribe", "copy", "rename"}

\* What a file holds once it is written; it may be new.
Put(fs, name, lines) ==
  [n \in DOMAIN fs \cup {name} |-> IF n = name THEN lines ELSE fs[n]]

\* Opening for appending makes the file and leaves its lines.
Touch(fs, name, none) == IF name \in DOMAIN fs THEN fs ELSE Put(fs, name, none)

GoTo(h, step) == hpc' = [hpc EXCEPT ![h] = step]
UserOf(h) == hmsg[h].global_id
InOperation(h) == hpc[h] \notin {"idle", "wait"}

\* db_server starts for the first time; Crash is every later start.
Init ==
  /\ userFile = <<>>
  /\ topicFile = <<>>
  /\ sem = 1
  /\ hpc = [h \in Handler |-> "idle"]
  /\ hmsg \in [Handler -> [type : {"DB_OK"}, global_id : {1}, topic : Topic]]
  /\ hline = [h \in Handler |-> 1]
  /\ held = {}
  /\ acked = {}
  /\ stable = [users |-> userFile, topics |-> topicFile]
  /\ crashes = 0

-----------------------------------------------------------------------------
\* Requests under way that will add a user, or a line to the user's file of id.
Creating == {h \in Handler : hpc[h] # "idle" /\ hmsg[h].type = "DB_CREATE"}
Subscribing(id) ==
  {h \in Handler : /\ hpc[h] # "idle"
                   /\ hmsg[h].type = "DB_SUBSCRIBE" /\ hmsg[h].global_id = id}

\* Variant: the next id is taken from the number of files.
NextIdByCount == 1 + Cardinality(DOMAIN userFile)

\* get_next_id: one more than the largest name in db/users.
NextId ==
  LET names == DOMAIN userFile \cup {0}
  IN  1 + CHOOSE m \in names : \A n \in names : n <= m

\* The handler of a broker reads the next request; bounded by MaxUsers and
\* MaxLines.
Receive(h) ==
  /\ hpc[h] = "idle"
  /\ \E type \in DbRequest, id \in 1..MaxUsers, t \in Topic :
       /\ type = "DB_CREATE" => NextId + Cardinality(Creating) <= MaxUsers
       /\ type = "DB_SUBSCRIBE" =>
            Cardinality(Subscribing(id))
              + (IF id \in DOMAIN userFile THEN Len(userFile[id]) ELSE 0) < MaxLines
       /\ hmsg' = [hmsg EXCEPT ![h] = [type |-> type, global_id |-> id, topic |-> t]]
  /\ GoTo(h, "wait")
  /\ UNCHANGED <<files, sem, hline, held, acked, stable, crashes>>

\* Variant: a subscription, which only appends, does not wait.
SubscriberEnters(h) == sem = 1 \/ hmsg[h].type = "DB_SUBSCRIBE"

CanEnter(h) == sem = 1

\* Variant: the file of the topic is made when its first line is appended.
FirstStepNoTouch(m) ==
  CASE m.type = "DB_CREATE" -> "scan"
    [] m.type = "DB_GET_SUBSCRIBED" -> "read"
    [] m.type = "DB_SUBSCRIBE" /\ m.global_id \in DOMAIN userFile -> "list"
    [] m.type = "DB_DELETE" /\ m.global_id \in DOMAIN userFile -> "unsubscribe"
    [] OTHER -> "refuse"

\* The first step of an operation that has the semaphore; that the user has a
\* file is tested before anything is written.
FirstStep(m) ==
  CASE m.type = "DB_CREATE" -> "scan"
    [] m.type = "DB_GET_SUBSCRIBED" -> "read"
    [] m.type = "DB_SUBSCRIBE" /\ m.global_id \in DOMAIN userFile -> "touch"
    [] m.type = "DB_DELETE" /\ m.global_id \in DOMAIN userFile -> "unsubscribe"
    [] OTHER -> "refuse"

\* p(sem).  From here on a deletion may remove what its user has.
Enter(h) ==
  /\ hpc[h] = "wait"
  /\ CanEnter(h)
  /\ sem' = 0
  /\ GoTo(h, FirstStep(hmsg[h]))
  /\ LET gone == IF hmsg[h].type = "DB_DELETE" THEN {UserOf(h)} ELSE {}
     IN  /\ held' = held \ gone
         /\ acked' = {a \in acked : a[1] \notin gone}
  /\ hline' = [hline EXCEPT ![h] = 1]
  /\ UNCHANGED <<files, hmsg, stable, crashes>>

\* v(sem) and the reply, with which every operation ends, also one that fails.
Leave(h, type) ==
  /\ hmsg' = [hmsg EXCEPT ![h].type = type]
  /\ GoTo(h, "idle")
  /\ sem' = 1
  /\ hline' = [hline EXCEPT ![h] = 1]
  /\ stable' = [users |-> userFile', topics |-> topicFile']
  /\ UNCHANGED crashes

Refuse(h) ==
  /\ hpc[h] = "refuse"
  /\ UNCHANGED <<files, held, acked>>
  /\ Leave(h, "DB_ERROR")

\* db_get_subscribed only reads; SubscriptionDb has the reply.
Read(h) ==
  /\ hpc[h] = "read"
  /\ UNCHANGED <<files, held, acked>>
  /\ Leave(h, "DB_OK")

-----------------------------------------------------------------------------
(* db_add_user: the directory is read, then the file is made.              *)

ScanUsers(h) ==
  /\ hpc[h] = "scan"
  /\ hmsg' = [hmsg EXCEPT ![h].global_id = NextId]
  /\ GoTo(h, "create")
  /\ UNCHANGED <<files, sem, hline, held, acked, stable, crashes>>

CreateUser(h) ==
  /\ hpc[h] = "create"
  /\ userFile' = Touch(userFile, UserOf(h), <<>>)
  /\ held' = held \cup {UserOf(h)}
  /\ UNCHANGED <<topicFile, acked>>
  /\ Leave(h, "DB_OK")

-----------------------------------------------------------------------------
(* db_subscribe: the topic's file is made if it is not there, the topic is *)
(* listed in the user's file, and only then the id in the topic's.         *)

TouchTopic(h) ==
  /\ hpc[h] = "touch"
  /\ topicFile' = Touch(topicFile, hmsg[h].topic, {})
  /\ GoTo(h, "list")
  /\ UNCHANGED <<userFile, sem, hmsg, hline, held, acked, stable, crashes>>

ListTopic(h) ==
  /\ hpc[h] = "list"
  /\ userFile' = [Touch(userFile, UserOf(h), <<>>) EXCEPT ![UserOf(h)] = Append(@, hmsg[h].topic)]
  /\ GoTo(h, "add")
  /\ UNCHANGED <<topicFile, sem, hmsg, hline, held, acked, stable, crashes>>

AddLine(h) ==
  LET t == hmsg[h].topic
      lines == LinesOf(topicFile, t)
  IN  /\ hpc[h] = "add"
      /\ topicFile' = Put(topicFile, t,
                          lines \cup {[pos |-> 1 + Cardinality(lines), id |-> UserOf(h)]})
      /\ acked' = acked \cup {<<UserOf(h), t>>}
      /\ UNCHANGED <<userFile, held>>
      /\ Leave(h, "DB_OK")

-----------------------------------------------------------------------------
(* db_delete: each topic of the user's file is rewritten without the id,   *)
(* through the temporary file; then the user's file is removed.            *)

\* Variant: the last line of the user's file is not reached.
MoreLinesButLast(h) == hline[h] < Len(userFile[UserOf(h)])

MoreLines(h) == hline[h] <= Len(userFile[UserOf(h)])
TopicAt(h) == userFile[UserOf(h)][hline[h]]

OpenTmp(h) ==
  /\ hpc[h] = "unsubscribe"
  /\ MoreLines(h)
  /\ TopicAt(h) \in DOMAIN topicFile
  /\ topicFile' = Put(topicFile, TMP_FILE, {})
  /\ GoTo(h, "copy")
  /\ UNCHANGED <<userFile, sem, hmsg, hline, held, acked, stable, crashes>>

\* A listed topic has no file: the deletion stops where it is.
GiveUp(h) ==
  /\ hpc[h] = "unsubscribe"
  /\ MoreLines(h)
  /\ TopicAt(h) \notin DOMAIN topicFile
  /\ UNCHANGED <<files, held, acked>>
  /\ Leave(h, "DB_ERROR")

\* Variant: the topic's file is removed before the temporary one takes its name.
CopyAndRemove(h) ==
  /\ hpc[h] = "copy"
  /\ topicFile' = [n \in (DOMAIN topicFile \cup {TMP_FILE}) \ {TopicAt(h)} |->
                     IF n = TMP_FILE THEN Db!Without(LinesOf(topicFile, TopicAt(h)), UserOf(h))
                     ELSE topicFile[n]]
  /\ GoTo(h, "rename")
  /\ UNCHANGED <<userFile, sem, hmsg, hline, held, acked, stable, crashes>>

CopyOthers(h) ==
  /\ hpc[h] = "copy"
  /\ topicFile' = Put(topicFile, TMP_FILE,
                      Db!Without(LinesOf(topicFile, TopicAt(h)), UserOf(h)))
  /\ GoTo(h, "rename")
  /\ UNCHANGED <<userFile, sem, hmsg, hline, held, acked, stable, crashes>>

\* Variant: the next line of the user's file is not read.
RenameAgain(h) ==
  /\ hpc[h] = "rename"
  /\ topicFile' = [n \in (DOMAIN topicFile \ {TMP_FILE}) \cup {TopicAt(h)} |->
                     IF n = TopicAt(h) THEN LinesOf(topicFile, TMP_FILE) ELSE topicFile[n]]
  /\ GoTo(h, "unsubscribe")
  /\ UNCHANGED <<userFile, sem, hmsg, hline, held, acked, stable, crashes>>

Rename(h) ==
  /\ hpc[h] = "rename"
  /\ topicFile' = [n \in (DOMAIN topicFile \ {TMP_FILE}) \cup {TopicAt(h)} |->
                     IF n = TopicAt(h) THEN LinesOf(topicFile, TMP_FILE) ELSE topicFile[n]]
  /\ hline' = [hline EXCEPT ![h] = @ + 1]
  /\ GoTo(h, "unsubscribe")
  /\ UNCHANGED <<userFile, sem, hmsg, held, acked, stable, crashes>>

RemoveUser(h) ==
  /\ hpc[h] = "unsubscribe"
  /\ ~MoreLines(h)
  /\ userFile' = [n \in DOMAIN userFile \ {UserOf(h)} |-> userFile[n]]
  /\ UNCHANGED <<topicFile, held, acked>>
  /\ Leave(h, "DB_OK")

-----------------------------------------------------------------------------
\* The machine stops and the server is started again, with a new semaphore and
\* the files as they are: every fclose that has returned counts, in its order,
\* so that this is a stop of the processes or of the system, not a loss of power
\* (db.c does not call fsync).  Nobody is told how the requests under way ended.
Crash ==
  /\ crashes < MaxCrashes
  /\ crashes' = crashes + 1
  /\ sem' = 1
  /\ hpc' = [h \in Handler |-> "idle"]
  /\ hline' = [h \in Handler |-> 1]
  /\ stable' = [users |-> userFile, topics |-> topicFile]
  /\ UNCHANGED <<files, hmsg, held, acked>>

\* A step of an operation that has the semaphore.
Operation(h) ==
  \/ Refuse(h) \/ Read(h)
  \/ ScanUsers(h) \/ CreateUser(h)
  \/ TouchTopic(h) \/ ListTopic(h) \/ AddLine(h)
  \/ OpenTmp(h) \/ GiveUp(h) \/ CopyOthers(h) \/ Rename(h) \/ RemoveUser(h)

Next == Crash \/ \E h \in Handler : Receive(h) \/ Enter(h) \/ Operation(h)

Spec == Init /\ [][Next]_vars

\* A process that can run does, and semop hands the semaphore to the processes
\* that wait for it in the order they came.
FairSpec == Spec /\ \A h \in Handler : SF_vars(Enter(h)) /\ WF_vars(Operation(h))

-----------------------------------------------------------------------------
(* Properties.                                                             *)

TypeOK ==
  /\ DOMAIN userFile \subseteq Id /\ IsFiniteSet(DOMAIN userFile)
  /\ userFile \in [DOMAIN userFile -> Seq(Topic)]
  /\ DOMAIN topicFile \subseteq Topic \cup {TMP_FILE}
  /\ topicFile \in [DOMAIN topicFile -> SUBSET Line]
  /\ \A t \in DOMAIN topicFile : IsFiniteSet(topicFile[t])
  /\ sem \in {0, 1}
  /\ hpc \in [Handler -> Step]
  /\ hmsg \in [Handler -> DbMsg]
  /\ hline \in [Handler -> Nat \ {0}]
  /\ held \subseteq Id
  /\ acked \subseteq Id \X Topic

Listed(id, t) ==
  id \in DOMAIN userFile /\ \E i \in 1..Len(userFile[id]) : userFile[id][i] = t

\* Every id in a topic's file names a user whose file lists the topic, at every
\* moment the machine may stop (db.c:221-228, 370-387): a deletion finds all the
\* user's lines, so the next holder of the id inherits none of them.
LinesListed ==
  \A t \in Topic \cap DOMAIN topicFile : \A l \in topicFile[t] : Listed(l.id, t)

\* What was answered DB_OK stays (db_handler.c:34-54): a user has its file and a
\* subscription its line, whatever the other handlers do and wherever the
\* machine stops, until the user's own deletion.
AckedKept ==
  /\ held \subseteq DOMAIN userFile
  /\ \A a \in acked : \E l \in LinesOf(topicFile, a[2]) : l.id = a[1]

\* What the handler that has the semaphore has done so far.
MutualExclusion ==
  /\ \A h \in Handler : InOperation(h) => sem = 0
  /\ \A h, g \in Handler : InOperation(h) /\ InOperation(g) => h = g

NoLineOf(id, t) == \A l \in LinesOf(topicFile, t) : l.id # id

CreateStage(h) == hpc[h] = "create" => UserOf(h) \notin DOMAIN userFile

SubscribeStage(h) ==
  /\ hpc[h] \in {"touch", "list", "add"} => UserOf(h) \in DOMAIN userFile
  /\ hpc[h] \in {"list", "add"} => hmsg[h].topic \in DOMAIN topicFile
  /\ hpc[h] = "add" => Listed(UserOf(h), hmsg[h].topic)

DeleteStage(h) ==
  LET id == UserOf(h) IN
  /\ hpc[h] \in {"unsubscribe", "copy", "rename"} =>
       /\ hmsg[h].type = "DB_DELETE"
       /\ id \in DOMAIN userFile \ held
       /\ \A a \in acked : a[1] # id
       /\ hline[h] \in 1..(Len(userFile[id]) + 1)
       /\ \A i \in 1..(hline[h] - 1) : NoLineOf(id, userFile[id][i])
  /\ hpc[h] \in {"copy", "rename"} =>
       /\ hline[h] <= Len(userFile[id])
       /\ TMP_FILE \in DOMAIN topicFile
  /\ hpc[h] = "rename" =>
       topicFile[TMP_FILE] = Db!Without(LinesOf(topicFile, TopicAt(h)), id)

\* Each topic that a user's file lists has a file.
ListedHaveFile ==
  \A id \in DOMAIN userFile : \A i \in 1..Len(userFile[id]) :
    userFile[id][i] \in DOMAIN topicFile

\* The invariant of the proofs (db.c:148-396).
FilesInv ==
  /\ TypeOK
  /\ MutualExclusion
  /\ \A h \in Handler : CreateStage(h) /\ SubscribeStage(h) /\ DeleteStage(h)
  /\ ListedHaveFile
  /\ LinesListed
  /\ AckedKept

-----------------------------------------------------------------------------
(* How far the files are from what the callers see (db.c:165-396).         *)

\* The topics that a deletion has rewritten.
DoneBy(h) ==
  IF hpc[h] \in {"unsubscribe", "copy", "rename"}
  THEN {userFile[UserOf(h)][i] : i \in 1..(hline[h] - 1)} ELSE {}

\* The position of each line is the number of lines up to it.
Ranked(lines) == \A l \in lines : Cardinality({k \in lines : k.pos <= l.pos}) = l.pos

UsersAgree == DOMAIN stable.users = DOMAIN userFile

NextKnown == \A h \in Handler : hpc[h] = "create" => UserOf(h) = NextId

LinesRanked == \A t \in Topic : Ranked(LinesOf(topicFile, t))

\* Only the topics that a deletion has come to differ, by the user's lines.
LinesAgree ==
  \A t \in Topic :
    /\ (\A h \in Handler : t \notin DoneBy(h)) =>
         LinesOf(topicFile, t) = LinesOf(stable.topics, t)
    /\ \A h \in Handler : t \in DoneBy(h) =>
         LinesOf(topicFile, t) = Db!Without(LinesOf(stable.topics, t), UserOf(h))

AtomicInv == UsersAgree /\ NextKnown /\ LinesRanked /\ LinesAgree

-----------------------------------------------------------------------------
\* No client is given an id that another one holds (db.c:165-175), although
\* handlers create at the same time and ids of deleted users are used again.
IdsGivenOnce ==
  [][\A h \in Handler : hpc[h] = "create" /\ hpc'[h] = "idle" /\ crashes' = crashes
       => UserOf(h) \notin held]_vars

\* A deletion that found its user never stops halfway (db.c:375-378): also after
\* a subscription or a deletion cut short, each listed topic has its file.
DeletionsSucceed ==
  [][\A h \in Handler : hpc[h] = "unsubscribe" /\ crashes' = crashes
       => hmsg'[h].type # "DB_ERROR"]_vars

\* Every request that a handler reads is answered (db_handler.c:84-102): all the
\* ways out of an operation release the semaphore (db.c:148-396).
OperationCompletes == \A h \in Handler : hpc[h] = "wait" ~> hpc[h] = "idle"

\* The operations on the files (db.c:148-396), many steps each, are the atomic ones
\* of SubscriptionDb whatever the other handlers do; of an operation the machine
\* stops in, only a deletion leaves a trace, the topics it had come to.
DbAtomic == Db!DbCrashSpec
=============================================================================
