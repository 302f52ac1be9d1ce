------------------------------ MODULE LocalBroker ------------------------------
(***************************************************************************)
(* The client machine (broker/client): programs that call the library, the *)
(* request handler and the response handler of the local broker, their     *)
(* three message queues, the table of ids they share under a semaphore,    *)
(* and the connection to the broker, whose worker is one step here: it has *)
(* a module of its own, BrokerRing.                                        *)
(***************************************************************************)
EXTENDS Integers, Sequences, FiniteSets, Ascending

CONSTANTS
  Program,            \* the programs of the machine, which stand for their pids
  GlobalId,           \* the ids that the database gives out
  MAX_LOCAL_CLIENTS,  \* entries the table has room for (broker_handler.h)
  QueueCap,           \* messages a queue has room for
  MaxRefused,         \* bound: CREATEs that find no room at the broker
  MaxCreates,         \* bound: calls of creabrk
  MaxPubs,            \* bound: publications that the broker sends here
  MaxKills            \* bound: programs that are killed

VARIABLES
  sem,                \* BROKER_IDS_SEM
  table,              \* ids of broker_ids_t: its first count entries
  reqQ,               \* BROKER_REQ_MSG
  respQ,              \* respQ[p]: messages of BROKER_RESP_MSG with mtype p
  incoming,           \* incoming[p]: messages of INCOMING_MSG_QUEUE with mtype p
  qpc, qmsg,          \* request handler: next step and its message
  rpc, rmsg,          \* response handler: likewise
  up, down,           \* the socket, towards the broker and from it
  call,               \* call[p]: the request whose answer p waits for
  made,               \* programs that have an id from creabrk
  got,                \* history: publications that receive gave to p
  server,             \* what the broker knows of this machine's ids
  grant,              \* history: <<g, p>>, g is the answer to a CREATE of p
  pubs, created, kills,  \* counters (bounded by MaxPubs, MaxCreates, MaxKills)
  refused             \* CREATEs the broker has refused (bounded by MaxRefused)

localPart == <<sem, table, reqQ, respQ, incoming, qpc, qmsg, rpc, rmsg>>
programPart == <<call, made, got, created, kills>>
serverPart == <<server, grant, pubs, refused>>
vars == <<localPart, up, down, programPart, serverPart>>

ASSUME LocalAssumption ==
  /\ IsFiniteSet(Program) /\ IsFiniteSet(GlobalId)
  /\ Program \cap GlobalId = {} /\ (Program \cup GlobalId) \cap {-1, 0} = {}
  /\ {MAX_LOCAL_CLIENTS, QueueCap} \subseteq Nat \ {0}
  /\ {MaxRefused, MaxCreates, MaxPubs, MaxKills} \subseteq Nat

-----------------------------------------------------------------------------
Nobody == -1          \* what the searches return when nothing is found
NoId == 0             \* global_id of an entry that has none yet
Request == {"CREATE", "SUBSCRIBE", "PUBLISH", "RECEIVE", "DESTROY"}
Msg(mtype, type, from, body) ==
  [mtype |-> mtype, type |-> type, from |-> from, body |-> body]
Empty == Msg(Nobody, "ACK_ERROR", Nobody, 0)

Entry(p, g) == [local_id |-> p, global_id |-> g]

\* The first entry that fulfils a search, 0 if there is none.
FirstWith(ids, Test(_)) ==
  LET found == {i \in DOMAIN ids : Test(ids[i])}
  IN  IF found = {} THEN 0 ELSE CHOOSE i \in found : \A j \in found : i <= j

LocalIdExists(ids, p) == FirstWith(ids, LAMBDA e : e.local_id = p) # 0

GetGlobalId(ids, p) ==
  LET i == FirstWith(ids, LAMBDA e : e.local_id = p)
  IN  IF i = 0 THEN Nobody ELSE ids[i].global_id

GetLocalId(ids, g) ==
  LET i == FirstWith(ids, LAMBDA e : e.global_id = g)
  IN  IF i = 0 THEN Nobody ELSE ids[i].local_id

\* Variant: one entry too many is let in.
FitsOneMore(ids) == Len(ids) <= MAX_LOCAL_CLIENTS

HasRoom(ids) == Len(ids) < MAX_LOCAL_CLIENTS

AddLocalId(ids, p) == Append(ids, Entry(p, NoId))

\* Variant: the id goes to the last entry that has none.
LastWithoutId(ids) ==
  LET found == {i \in DOMAIN ids : ids[i].global_id = NoId}
  IN  IF found = {} THEN 0 ELSE CHOOSE i \in found : \A j \in found : i >= j

\* The entry that set_global_id fills: the first without an id, whoever asked.
EntryToFill(ids) == FirstWith(ids, LAMBDA e : e.global_id = NoId)

\* Variant: the entry stays.
KeepId(ids, p) == ids

RemoveId(ids, p) ==
  LET pos == FirstWith(ids, LAMBDA e : e.local_id = p)
  IN  [i \in 1..(IF pos = 0 THEN Len(ids) ELSE Len(ids) - 1) |->
         IF pos = 0 \/ i < pos THEN ids[i] ELSE ids[i + 1]]

\* A queue is shared by the messages of every mtype.
Load(queue) == Cardinality(UNION {{p} \X DOMAIN queue[p] : p \in Program})
CanSend(queue, p) == p # Nobody => Load(queue) < QueueCap

\* msgsnd refuses an mtype that is not positive; the handlers go on.
Sent(queue, p, msg) ==
  IF p = Nobody THEN queue ELSE [queue EXCEPT ![p] = Append(@, msg)]

\* broker_req_handler makes the queues, the table and the connection, and then
\* starts the response handler; programs come later.
Init ==
  /\ sem = 1 /\ table = <<>>
  /\ reqQ = <<>>
  /\ respQ = [p \in Program |-> <<>>]
  /\ incoming = [p \in Program |-> <<>>]
  /\ qpc = "idle" /\ qmsg = Empty
  /\ rpc = "idle" /\ rmsg = Empty
  /\ up = <<>> /\ down = <<>>
  /\ call = [p \in Program |-> "none"]
  /\ made = {}
  /\ got = [p \in Program |-> <<>>]
  /\ server = [users |-> {}, known |-> {}, subs |-> {}]
  /\ grant = {}
  /\ pubs = 0 /\ created = 0 /\ kills = 0
  /\ refused = 0

-----------------------------------------------------------------------------
(* The library (broker.c).                                                 *)

\* A program calls creabrk, subscribe, publish, receive or delbrk: it sends
\* the request and will wait for the answer.
Call(p, type) ==
  /\ call[p] = "none"
  /\ type = "CREATE" => p \notin made /\ created < MaxCreates
  /\ type # "CREATE" => p \in made
  /\ reqQ' = Append(reqQ, Msg(p, type, p, 0))
  /\ call' = [call EXCEPT ![p] = type]
  /\ created' = IF type = "CREATE" THEN created + 1 ELSE created
  /\ UNCHANGED <<sem, table, respQ, incoming, qpc, qmsg, rpc, rmsg, up, down,
                 made, got, kills, serverPart>>

\* The call takes the first message with the program's mtype and returns.
Return(p) ==
  /\ call[p] \in Request /\ respQ[p] # <<>>
  /\ LET answer == Head(respQ[p]) IN
       /\ made' = IF call[p] = "CREATE" /\ answer.type = "ACK_CREATE" THEN made \cup {p}
                  ELSE IF call[p] = "DESTROY" /\ answer.type = "ACK_DESTROY" THEN made \ {p}
                  ELSE made
       /\ got' = IF call[p] = "RECEIVE" /\ answer.type = "ACK_OK"
                 THEN [got EXCEPT ![p] = Append(@, answer.body)] ELSE got
  /\ respQ' = [respQ EXCEPT ![p] = Tail(@)]
  /\ call' = [call EXCEPT ![p] = "none"]
  /\ UNCHANGED <<sem, table, reqQ, incoming, qpc, qmsg, rpc, rmsg, up, down,
                 created, kills, serverPart>>

\* External: a program is killed, with or without a call under way.  Nobody is
\* told: the library has no handler and the queues outlive it.
Kill(p) ==
  /\ call[p] # "killed" /\ kills < MaxKills
  /\ call' = [call EXCEPT ![p] = "killed"]
  /\ made' = made \ {p}
  /\ kills' = kills + 1
  /\ UNCHANGED <<localPart, up, down, got, created, serverPart>>

-----------------------------------------------------------------------------
(* The request handler (broker_req_handler.c).                             *)

\* process_msg up to the first table operation that may block.  A CREATE goes to
\* the broker once it has its entry; one that finds the table full leaves with
\* the semaphore in its hand, and unanswered.  Writing to the socket changes
\* nothing that another process of this machine sees, so it has no step alone.
ReqTake ==
  /\ qpc = "idle" /\ reqQ # <<>>
  /\ sem = 1
  /\ LET msg == Head(reqQ) IN
       /\ \/ /\ msg.type = "CREATE" /\ HasRoom(table)
             /\ table' = AddLocalId(table, msg.mtype)
             /\ up' = Append(up, msg)
             /\ UNCHANGED <<sem, qpc, qmsg>>
          \/ /\ msg.type = "CREATE" /\ ~HasRoom(table)
             /\ sem' = 0
             /\ UNCHANGED <<table, up, qpc, qmsg>>
          \/ /\ msg.type # "CREATE"
             /\ IF LocalIdExists(table, msg.mtype)
                THEN /\ qmsg' = msg
                     /\ qpc' = IF msg.type = "RECEIVE" THEN "fetch" ELSE "translate"
                ELSE UNCHANGED <<qmsg, qpc>>
             /\ UNCHANGED <<sem, table, up>>
  /\ reqQ' = Tail(reqQ)
  /\ UNCHANGED <<respQ, incoming, rpc, rmsg, down, programPart, serverPart>>

ReqTranslate ==
  /\ qpc = "translate" /\ sem = 1
  /\ up' = Append(up, [qmsg EXCEPT !.mtype = GetGlobalId(table, @)])
  /\ qpc' = "idle" /\ qmsg' = Empty
  /\ UNCHANGED <<sem, table, reqQ, respQ, incoming, rpc, rmsg, down,
                 programPart, serverPart>>

\* process_receive: a message for the program, if there is one by now.
ReqFetch ==
  /\ qpc = "fetch"
  /\ LET p == qmsg.mtype IN
       IF incoming[p] = <<>>
       THEN /\ qmsg' = [qmsg EXCEPT !.type = "ACK_NO_MSG"]
            /\ UNCHANGED incoming
       ELSE /\ incoming' = [incoming EXCEPT ![p] = Tail(@)]
            /\ qmsg' = [Head(incoming[p]) EXCEPT !.type = "ACK_OK"]
  /\ qpc' = "reply"
  /\ UNCHANGED <<sem, table, reqQ, respQ, rpc, rmsg, up, down, programPart, serverPart>>

\* Variant: a RECEIVE goes to the broker as well.
ReplyAndForward ==
  /\ qpc = "reply" /\ CanSend(respQ, qmsg.mtype)
  /\ respQ' = Sent(respQ, qmsg.mtype, qmsg)
  /\ qpc' = "translate"
  /\ UNCHANGED <<sem, table, reqQ, incoming, qmsg, rpc, rmsg, up, down,
                 programPart, serverPart>>

ReqReply ==
  /\ qpc = "reply" /\ CanSend(respQ, qmsg.mtype)
  /\ respQ' = Sent(respQ, qmsg.mtype, qmsg)
  /\ qpc' = "idle" /\ qmsg' = Empty
  /\ UNCHANGED <<sem, table, reqQ, incoming, rpc, rmsg, up, down,
                 programPart, serverPart>>

-----------------------------------------------------------------------------
(* The response handler (broker_resp_handler.c).                           *)

\* The next message from the broker, and its first table operation.
RespTake ==
  /\ rpc = "idle" /\ down # <<>>
  /\ sem = 1
  /\ LET msg == Head(down)
         i == EntryToFill(table) IN
       \/ /\ msg.type = "ACK_CREATE"
          /\ table' = IF i = 0 THEN table ELSE [table EXCEPT ![i].global_id = msg.mtype]
          /\ rmsg' = [msg EXCEPT !.mtype = IF i = 0 THEN Nobody ELSE table[i].local_id]
          /\ rpc' = "answer"
       \/ /\ msg.type # "ACK_CREATE"
          /\ rmsg' = [msg EXCEPT !.mtype = GetLocalId(table, @)]
          /\ rpc' = CASE msg.type = "PUBLISH" -> "deliver"
                      [] msg.type = "ACK_DESTROY" -> "remove"
                      [] OTHER -> "answer"
          /\ UNCHANGED table
  /\ down' = Tail(down)
  /\ UNCHANGED <<sem, reqQ, respQ, incoming, qpc, qmsg, up, programPart, serverPart>>

RespRemove ==
  /\ rpc = "remove" /\ sem = 1
  /\ table' = RemoveId(table, rmsg.mtype)
  /\ rpc' = "answer"
  /\ UNCHANGED <<sem, reqQ, respQ, incoming, qpc, qmsg, rmsg, up, down,
                 programPart, serverPart>>

RespAnswer ==
  /\ rpc = "answer" /\ CanSend(respQ, rmsg.mtype)
  /\ respQ' = Sent(respQ, rmsg.mtype, rmsg)
  /\ rpc' = "idle" /\ rmsg' = Empty
  /\ UNCHANGED <<sem, table, reqQ, incoming, qpc, qmsg, up, down,
                 programPart, serverPart>>

\* Variant: a message that finds the queue full is dropped.
DeliverOrDrop ==
  /\ rpc = "deliver"
  /\ incoming' = IF CanSend(incoming, rmsg.mtype) THEN Sent(incoming, rmsg.mtype, rmsg)
                 ELSE incoming
  /\ rpc' = "idle" /\ rmsg' = Empty
  /\ UNCHANGED <<sem, table, reqQ, respQ, qpc, qmsg, up, down,
                 programPart, serverPart>>

RespDeliver ==
  /\ rpc = "deliver" /\ CanSend(incoming, rmsg.mtype)
  /\ incoming' = Sent(incoming, rmsg.mtype, rmsg)
  /\ rpc' = "idle" /\ rmsg' = Empty
  /\ UNCHANGED <<sem, table, reqQ, respQ, qpc, qmsg, up, down,
                 programPart, serverPart>>

-----------------------------------------------------------------------------
(* The broker at the other end of the socket (server/worker.c).  Its one    *)
(* worker serves the requests of a connection in their order, and here in   *)
(* one step each; BrokerRing has the steps.  Its database works: the        *)
(* failures that worker.c answers with ACK_ERROR are left out, but for the  *)
(* table that is full.                                                      *)

\* process_msg sends the answer, under the id that the connection is to look up.
Answer(type, g, from) == down' = Append(down, Msg(g, type, from, 0))

\* A new id is registered in the database; the broker, which serves other
\* machines as well, has room for it or not.
ServerCreate(msg) ==
  /\ msg.type = "CREATE"
  /\ \E g \in GlobalId \ server.users :
       /\ grant' = grant \cup {<<g, msg.from>>}
       /\ \/ /\ server' = [server EXCEPT !.users = @ \cup {g}, !.known = @ \cup {g}]
             /\ Answer("ACK_CREATE", g, msg.from)
             /\ UNCHANGED refused
          \/ /\ refused < MaxRefused
             /\ server' = [server EXCEPT !.users = @ \cup {g}]
             /\ Answer("ACK_ERROR", g, msg.from)
             /\ refused' = refused + 1

\* process_subscribe, the answered part of process_publish and process_destroy,
\* for an id that the broker knows: a request with another one, whose answer
\* sendmsg refuses, never comes (RequestsOfKnownIds of the proofs).
ServerOther(msg) ==
  LET g == msg.mtype IN
  /\ msg.type # "CREATE" /\ g \in server.known
  /\ \/ /\ msg.type = "SUBSCRIBE"
        /\ server' = [server EXCEPT !.subs =
                        {s \in @ : s[1] # g} \cup {<<g, msg.from>>}]
        /\ Answer("ACK_OK", g, msg.from)
     \/ /\ msg.type = "PUBLISH"
        /\ Answer("ACK_OK", g, msg.from)
        /\ UNCHANGED server
     \/ /\ msg.type = "DESTROY"
        /\ server' = [users |-> server.users \ {g}, known |-> server.known \ {g},
                      subs |-> {s \in server.subs : s[1] # g}]
        /\ Answer("ACK_DESTROY", g, msg.from)
  /\ UNCHANGED <<grant, refused>>

ServerStep ==
  /\ up # <<>>
  /\ ServerCreate(Head(up)) \/ ServerOther(Head(up))
  /\ up' = Tail(up)
  /\ UNCHANGED <<localPart, programPart, pubs>>

\* send_to_subs, of somebody's publication on the topic of a subscriber; from is
\* whom it is for.  What a topic without a file lets loose (db_handler.c:64) is
\* in BrokerRing, not here.
ServerPublish ==
  /\ pubs < MaxPubs
  /\ \E s \in server.subs :
       down' = Append(down, Msg(s[1], "PUBLISH", s[2], pubs + 1))
  /\ pubs' = pubs + 1
  /\ UNCHANGED <<localPart, up, programPart, server, grant, refused>>

-----------------------------------------------------------------------------
ReqHandler == ReqTake \/ ReqTranslate \/ ReqFetch \/ ReqReply
RespHandler == RespTake \/ RespRemove \/ RespAnswer \/ RespDeliver

Next ==
  \/ \E p \in Program : Return(p) \/ Kill(p) \/ \E type \in Request : Call(p, type)
  \/ ReqHandler
  \/ RespHandler
  \/ ServerStep \/ ServerPublish

Spec == Init /\ [][Next]_vars

-----------------------------------------------------------------------------
(* Properties.                                                             *)

MsgTypes == Request \cup {"ACK_OK", "ACK_CREATE", "ACK_NO_MSG", "ACK_DESTROY", "ACK_ERROR"}
Who == Program \cup {Nobody}
Messages == [mtype : Who \cup GlobalId, type : MsgTypes, from : Who, body : Nat]

TypeOK ==
  /\ sem \in {0, 1}
  /\ table \in Seq([local_id : Program, global_id : GlobalId \cup {NoId}])
  /\ Len(table) <= MAX_LOCAL_CLIENTS
  /\ reqQ \in Seq(Messages) /\ up \in Seq(Messages) /\ down \in Seq(Messages)
  /\ respQ \in [Program -> Seq(Messages)] /\ incoming \in [Program -> Seq(Messages)]
  /\ qpc \in {"idle", "translate", "fetch", "reply"} /\ qmsg \in Messages
  /\ rpc \in {"idle", "answer", "deliver", "remove"} /\ rmsg \in Messages
  /\ call \in [Program -> Request \cup {"none", "killed"}]
  /\ made \subseteq Program
  /\ got \in [Program -> Seq(Nat)]
  /\ server \in [users : SUBSET GlobalId, known : SUBSET GlobalId,
                subs : SUBSET (GlobalId \X Program)]

\* Messages of sequence q that fulfil a test.
Count(q, Test(_)) == Cardinality({i \in DOMAIN q : Test(q[i])})
One(holds) == IF holds THEN 1 ELSE 0

\* Requests of p and answers to them, wherever they are.
Outstanding(p) ==
  LET of(m) == m.from = p /\ m.type # "PUBLISH"
      asked(m) == m.from = p
  IN  Count(reqQ, asked) + Count(up, asked) + Count(down, of)
        + One(qpc # "idle" /\ (qmsg.from = p \/ qmsg.mtype = p))
        + One(rpc \in {"answer", "remove"} /\ rmsg.from = p)

\* A program is answered once (broker_req_handler.c:110-137): while its request,
\* or the answer to it, is on its way there is no other, nor does one wait for
\* it, and a program that waits for nothing is owed nothing.  Answers are
\* matched by the pid alone, so a second one would be taken for the answer to
\* the next call.
AnsweredOnce ==
  \A p \in Program :
    call[p] # "killed" /\ refused = 0 =>
      Outstanding(p) + Len(respQ[p]) <= One(call[p] # "none")

\* creabrk gives a program the id that was made for it (broker_id.c:67-101),
\* although the acknowledgement does not say for whom it is, programs create at
\* the same time and some are killed meanwhile; as long as none was refused.
IdsToAskers ==
  refused = 0 => \A i \in DOMAIN table :
    table[i].global_id # NoId => <<table[i].global_id, table[i].local_id>> \in grant

\* Two programs never share an id (broker_id.c:206-239), although the broker
\* gives out a deleted one at once, while its entry may still be in the table.
OneEntryPerId ==
  \A i, j \in DOMAIN table :
    i # j => /\ table[i].local_id # table[j].local_id
             /\ table[i].global_id = table[j].global_id => table[i].global_id = NoId

\* The bodies of the messages at some places of a queue, in its order.
Bodies(q, places) == LET at == Ascending(places) IN [n \in DOMAIN at |-> q[at[n]].body]
Held(m, holds) == IF holds /\ m.body # 0 THEN <<m.body>> ELSE <<>>

\* What is on its way to p, the oldest first: the answer to its receive, the
\* queue of incoming messages and what comes from the broker.
InAnswer(p) == Bodies(respQ[p], {i \in DOMAIN respQ[p] : respQ[p][i].body # 0})
Fetched(p) == Held(qmsg, qpc = "reply" /\ qmsg.mtype = p)
InBox(p) == Bodies(incoming[p], DOMAIN incoming[p])
Delivered(p) == Held(rmsg, rpc = "deliver" /\ rmsg.from = p)
InNews(p) == Bodies(down, {i \in DOMAIN down : down[i].type = "PUBLISH" /\ down[i].from = p})

Mail(p) == InAnswer(p) \o Fetched(p) \o InBox(p) \o Delivered(p) \o InNews(p)

Box(p) == INSTANCE Mailbox
  WITH Message <- 1..MaxPubs, mail <- Mail(p), read <- got[p]

\* The queues and the table work as a box of messages for each program that
\* subscribed: nothing is lost, doubled, put out of order or left in the box of
\* another program, even while the queue of incoming messages is full of what
\* killed programs have left (broker_resp_handler.c:51-59,
\* broker_req_handler.c:81-108).  Publications have numbers, so that a second one
\* is told from the first twice.
\* This is \A p \in Program : Box(p)!Spec, with the quantifier moved inwards.
BoxesKept ==
  /\ \A p \in Program : Box(p)!Init
  /\ [][\A p \in Program : [Box(p)!Next]_<<Mail(p), got[p]>>]_vars
=============================================================================
