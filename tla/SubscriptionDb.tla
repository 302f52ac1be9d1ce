--------------------------- MODULE SubscriptionDb ---------------------------
(***************************************************************************)
(* The central database of the message broker, as its callers see it: the  *)
(* set of registered user ids (the files of db/users) and, per topic, the  *)
(* lines of the topic's file (db/topics).  Every operation holds the       *)
(* database semaphore from its first read to its last write, so here each  *)
(* one is a single action.                                                 *)
(***************************************************************************)
EXTENDS Integers, FiniteSets

CONSTANTS
  Topic,              \* the topic names
  MAX_CLIENTS,        \* most ids in a reply, and in a broker's table (server.h)
  Garbage             \* what an uninitialised reply may hold, as sets of lines

VARIABLES
  users,              \* ids that have a file in db/users
  topics              \* topics[t]: the lines of t's file, each with its position

dbVars == <<users, topics>>

Line == [pos : Nat, id : Nat]

ASSUME GarbageAssumption == Garbage \subseteq SUBSET Line

DbTypeOK ==
  /\ users \in SUBSET (Nat \ {0})
  /\ IsFiniteSet(users)
  /\ topics \in [Topic -> SUBSET Line]
  /\ \A t \in Topic : IsFiniteSet(topics[t])

\* Nothing of a deleted user stays in the topics: the next holder of its id,
\* which get_next_id may give out again, starts without subscriptions.
NoOrphanLines == \A t \in Topic : \A l \in topics[t] : l.id \in users

DbInit ==
  /\ users = {}
  /\ topics = [t \in Topic |-> {}]

\* Variant: the next id is taken from the number of files.
NextIdByCount == 1 + Cardinality(users)

\* get_next_id: one more than the largest id that has a file, 1 if none has.
NextId == 1 + CHOOSE m \in users \cup {0} : \A n \in users \cup {0} : n <= m

DbAddUser ==
  /\ users' = users \cup {NextId}
  /\ UNCHANGED topics

\* The id becomes the last line of the file, whether or not it is already in it.
DbSubscribe(id, t) ==
  /\ id \in users
  /\ topics' = [topics EXCEPT ![t] =
                  @ \cup {[pos |-> 1 + Cardinality(@), id |-> id]}]
  /\ UNCHANGED users

\* unsubscribe: the other lines are copied in order, so they are renumbered.
Without(lines, id) ==
  LET kept == {l \in lines : l.id # id}
  IN  {[pos |-> Cardinality({k \in kept : k.pos <= l.pos}), id |-> l.id] : l \in kept}

\* Variant: the lines stay in the topics.
DbDeleteUser(id) ==
  /\ id \in users
  /\ users' = users \ {id}
  /\ UNCHANGED topics

DbDelete(id) ==
  /\ id \in users
  /\ users' = users \ {id}
  /\ topics' = [t \in Topic |-> Without(topics[t], id)]

\* Variant: the reply leaves out the last line that fits.
GetAllButLast(t) ==
  IF topics[t] = {} THEN Garbage
  ELSE {{l \in topics[t] : l.pos < MAX_CLIENTS}}

(***************************************************************************)
(* The possible answers to a query.  The reply carries the first           *)
(* MAX_CLIENTS lines; its count is only written when there is a line, so   *)
(* for an empty topic the caller reads the uninitialised reply it sent.    *)
(***************************************************************************)
DbGetSubscribed(t) ==
  IF topics[t] = {} THEN Garbage
  ELSE {{l \in topics[t] : l.pos <= MAX_CLIENTS}}

DbNext ==
  \/ DbAddUser
  \/ \E id \in users : DbDelete(id) \/ \E t \in Topic : DbSubscribe(id, t)

DbSpec == DbInit /\ [][DbNext]_dbVars

\* The machine of the database stops inside a deletion: the topics it came to
\* are without the id, the user is still there.
DbDeleteCut(id) ==
  /\ id \in users
  /\ \E S \in SUBSET Topic :
       topics' = [t \in Topic |-> IF t \in S THEN Without(topics[t], id) ELSE topics[t]]
  /\ UNCHANGED users

DbCrashNext == DbNext \/ \E id \in users : DbDeleteCut(id)

DbCrashSpec == DbInit /\ [][DbCrashNext]_dbVars
=============================================================================
