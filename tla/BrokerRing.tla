----------------------------- MODULE BrokerRing -----------------------------
(***************************************************************************)
(* The servers of the distributed message broker (broker/server), joined   *)
(* in a ring, with the connections of their clients and the central        *)
(* database.  Each broker runs one worker (WORKERS is 1 in server.h), a    *)
(* request handler and a response handler per connection, and a ring       *)
(* connection: the response handler whose socket leads to the next broker. *)
(* The worker's calls to the database and to the table of ids are separate *)
(* steps, so the workers of two brokers interleave between them.           *)
(* Topic, MAX_CLIENTS, Garbage, users and topics come from SubscriptionDb. *)
(***************************************************************************)
EXTENDS SubscriptionDb, GlobalIds, FiniteSetsExt

CONSTANTS
  N,                  \* number of brokers; their BROKER_IDs are 1..N
  Client,             \* client machines, one program each
  Home,               \* Home[c]: the broker that machine c connects to
  NoTopic,            \* the topic of a message that carries none
  QueueCap,           \* messages that fit in a SysV queue (its byte limit)
  MaxCreates,         \* bound: CREATE requests in a behaviour
  MaxPubs,            \* bound: PUBLISH requests in a behaviour
  MaxSubs,            \* bound: SUBSCRIBE requests per client, id and topic
  MaxLost             \* bound: client machines that stop

Broker == 1..N

VARIABLES
  ids,                \* ids[b]: b's table of global ids
  ring,               \* ring[b]: how far b is in joining the ring
  conn,               \* conn[c]: the connection of machine c
  up,                 \* up[x]: bytes on their way to the request handler of x
  workerQ,            \* workerQ[b]: the WORKER_QUEUE of b
  wpc, wmsg, wsubs, wrelayed,  \* worker of b: step, message, subscribers, flag
  respQ,              \* respQ[x]: messages in RESP_QUEUE for x's response handler
  down,               \* down[c]: bytes on their way to client machine c
  gid,                \* gid[c]: the global id c was given, 0 for none
  wait,               \* wait[c]: type of the request c waits an answer for
  asked,              \* asked[c][t]: SUBSCRIBE requests of c under its id
  got,                \* got[c][p]: copies of publication p received by c
  pubs,               \* history: who published p, on which topic, for whom
  strayed,            \* history: publications sent to an uninitialised list
  created             \* CREATE requests made so far (bounded by MaxCreates)

workerPart == <<wpc, wmsg, wsubs, wrelayed>>
clientPart == <<gid, wait, asked, got, created>>
vars == <<users, topics, ids, ring, conn, up, workerQ, wpc, wmsg, wsubs,
          wrelayed, respQ, down, gid, wait, asked, got, pubs, strayed, created>>

ASSUME RingAssumption ==
  /\ N \in Nat \ {0}
  /\ Client \cap Int = {}
  /\ IsFiniteSet(Client)
  /\ Home \in [Client -> Broker]
  /\ NoTopic \notin Topic
  /\ {MAX_CLIENTS, QueueCap, MaxCreates, MaxPubs, MaxSubs} \subseteq Nat \ {0}
  /\ MaxLost \in Nat

-----------------------------------------------------------------------------
\* Connections: a client's is named by the client, the one that arrives from
\* the previous broker by the broker it arrives at.  Response handlers: a
\* client's is named by the client, the ring connection's by its broker.
Connection == Client \cup Broker

Succ(b) == IF b = N THEN 1 ELSE b + 1
Server(x) == IF x \in Broker THEN x ELSE Home[x]

Request == {"CREATE", "SUBSCRIBE", "PUBLISH", "DESTROY"}
Ack == {"ACK_OK", "ACK_CREATE", "ACK_DESTROY", "ACK_ERROR"}

\* msg_t.  The payload's text is the number of the publication, 0 for none.
\* The mtype is an id, a response handler or NO_MTYPE_FOUND_CODE.
Msg == [mtype : Int \cup Client, global_id : Nat, type : Request \cup Ack,
        topic : Topic \cup {NoTopic}, pub : Nat, broker_id : {0} \cup Broker]

NewRequest(type, id, topic, pub) ==
  [mtype |-> id, global_id |-> 0, type |-> type, topic |-> topic, pub |-> pub,
   broker_id |-> 0]

Idle == NewRequest("CREATE", 0, NoTopic, 0)

HandlersOf(b) == {b} \cup {c \in Client : Home[c] = b}
RespLoad(b) == MapThenSumSet(LAMBDA x : Len(respQ[x]), HandlersOf(b))

\* sendmsg blocks while the queue is full.
CanQueueWork(b) == Len(workerQ[b]) < QueueCap
CanQueueResp(b) == RespLoad(b) < QueueCap
QueueResp(x, m) == respQ' = [respQ EXCEPT ![x] = Append(@, m)]

-----------------------------------------------------------------------------
Init ==
  /\ DbInit
  /\ ids = [b \in Broker |-> <<>>]
  /\ ring = [b \in Broker |-> "boot"]
  /\ conn = [c \in Client |-> "off"]
  /\ up = [x \in Connection |-> <<>>]
  /\ workerQ = [b \in Broker |-> <<>>]
  /\ wpc = [b \in Broker |-> "idle"]
  /\ wmsg = [b \in Broker |-> Idle]
  /\ wsubs = [b \in Broker |-> {}]
  /\ wrelayed = [b \in Broker |-> FALSE]
  /\ respQ = [x \in Connection |-> <<>>]
  /\ down = [c \in Client |-> <<>>]
  /\ gid = [c \in Client |-> 0]
  /\ wait = [c \in Client |-> "none"]
  /\ asked = [c \in Client |-> [t \in Topic |-> 0]]
  /\ got = [c \in Client |-> [p \in 1..MaxPubs |-> 0]]
  /\ pubs = <<>>
  /\ strayed = {}
  /\ created = 0

-----------------------------------------------------------------------------
(* Joining the ring and accepting connections.                             *)

\* The ring connection of b connects to the next broker ...
RingConnect(b) ==
  /\ ring[b] = "boot"
  /\ ring' = [ring EXCEPT ![b] = "connected"]
  /\ UNCHANGED <<dbVars, ids, conn, up, workerQ, workerPart, respQ, down,
                 clientPart, pubs, strayed>>

\* ... registers its response handler under id 0, and only then tells its server.
RingRegister(b) ==
  /\ ring[b] = "connected"
  /\ ~IsFull(ids[b], MAX_CLIENTS)
  /\ ids' = [ids EXCEPT ![b] = AddGlobalId(@, NEXT_SERVER_GLOBAL_ID, b)]
  /\ ring' = [ring EXCEPT ![b] = "linked"]
  /\ UNCHANGED <<dbVars, conn, up, workerQ, workerPart, respQ, down, clientPart,
                 pubs, strayed>>

\* b's server has accepted the previous broker ...
PreviousConnected(b) == \A a \in Broker : Succ(a) = b => ring[a] # "boot"

\* Variant: the server does not wait for the message of its ring connection.
ReadyToServeUnlinked(b) == ring[b] # "serving" /\ PreviousConnected(b)

\* ... and has been told of its own ring connection.
ReadyToServe(b) == ring[b] = "linked" /\ PreviousConnected(b)

\* From here on it accepts clients.
StartServing(b) ==
  /\ ReadyToServe(b)
  /\ ring' = [ring EXCEPT ![b] = "serving"]
  /\ UNCHANGED <<dbVars, ids, conn, up, workerQ, workerPart, respQ, down,
                 clientPart, pubs, strayed>>

AcceptClient(c) ==
  /\ conn[c] = "off"
  /\ ring[Home[c]] = "serving"
  /\ conn' = [conn EXCEPT ![c] = "on"]
  /\ UNCHANGED <<dbVars, ids, ring, up, workerQ, workerPart, respQ, down,
                 clientPart, pubs, strayed>>

\* The machine of c stops: what it had sent can still be read by its handler.
\* Nothing is registered about it: no broker and no database entry changes.
LoseClient(c) ==
  /\ conn[c] = "on"
  /\ Cardinality({d \in Client : conn[d] \in {"lost", "ended"}}) < MaxLost
  /\ conn' = [conn EXCEPT ![c] = "lost"]
  /\ down' = [down EXCEPT ![c] = <<>>]
  /\ pubs' = [p \in DOMAIN pubs |-> [pubs[p] EXCEPT !.audience = @ \ {c}]]
  /\ UNCHANGED <<dbVars, ids, ring, up, workerQ, workerPart, respQ, clientPart,
                 strayed>>

\* The request handler reads the end of the connection, kills the response
\* handler and ends.  The table and the database keep the ids of the machine.
EndHandlers(c) ==
  /\ conn[c] = "lost"
  /\ up[c] = <<>>
  /\ conn' = [conn EXCEPT ![c] = "ended"]
  /\ UNCHANGED <<dbVars, ids, ring, up, workerQ, workerPart, respQ, down,
                 clientPart, pubs, strayed>>

-----------------------------------------------------------------------------
(* Requests of the clients: each one is sent and then waited for.          *)

Send(c, m) ==
  /\ conn[c] = "on"
  /\ wait[c] = "none"
  /\ up' = [up EXCEPT ![c] = Append(@, m)]
  /\ wait' = [wait EXCEPT ![c] = m.type]
  /\ UNCHANGED <<dbVars, ids, ring, conn, workerQ, workerPart, respQ, down, gid,
                 got, strayed>>

Create(c) ==
  /\ gid[c] = 0
  /\ created < MaxCreates
  /\ Send(c, NewRequest("CREATE", 0, NoTopic, 0))
  /\ created' = created + 1
  /\ UNCHANGED <<asked, pubs>>

SubscribeTo(c, t) ==
  /\ gid[c] # 0
  /\ asked[c][t] < MaxSubs
  /\ Send(c, NewRequest("SUBSCRIBE", gid[c], t, 0))
  /\ asked' = [asked EXCEPT ![c][t] = @ + 1]
  /\ UNCHANGED <<created, pubs>>

Subscribed(c, t) ==
  conn[c] = "on" /\ asked[c][t] > 0 /\ wait[c] \notin {"SUBSCRIBE", "DESTROY"}

Publish(c, t) ==
  /\ gid[c] # 0
  /\ Len(pubs) < MaxPubs
  /\ Send(c, NewRequest("PUBLISH", gid[c], t, Len(pubs) + 1))
  /\ pubs' = Append(pubs, [by |-> c, topic |-> t,
                           audience |-> {d \in Client : Subscribed(d, t)}])
  /\ UNCHANGED <<created, asked>>

Destroy(c) ==
  /\ gid[c] # 0
  /\ Send(c, NewRequest("DESTROY", gid[c], NoTopic, 0))
  /\ pubs' = [p \in DOMAIN pubs |-> [pubs[p] EXCEPT !.audience = @ \ {c}]]
  /\ UNCHANGED <<created, asked>>

\* The client machine takes the next message from its socket.  Answers are
\* matched by the id in mtype, except ACK_CREATE, which brings the id.
ClientReceive(c) ==
  /\ conn[c] = "on"
  /\ down[c] # <<>>
  /\ down' = [down EXCEPT ![c] = Tail(@)]
  /\ LET m == Head(down[c]) IN
       \/ /\ m.type = "ACK_CREATE"
          /\ gid' = [gid EXCEPT ![c] = m.mtype]
          /\ wait' = [wait EXCEPT ![c] = "none"]
          /\ UNCHANGED <<asked, got>>
       \/ /\ m.type = "ACK_DESTROY" /\ m.mtype = gid[c]
          /\ gid' = [gid EXCEPT ![c] = 0]
          /\ wait' = [wait EXCEPT ![c] = "none"]
          /\ asked' = [asked EXCEPT ![c] = [t \in Topic |-> 0]]
          /\ got' = [got EXCEPT ![c] = [p \in 1..MaxPubs |-> 0]]
       \/ /\ m.type \in {"ACK_OK", "ACK_ERROR"} /\ m.mtype = gid[c]
          /\ wait' = [wait EXCEPT ![c] = "none"]
          /\ UNCHANGED <<gid, asked, got>>
       \/ /\ m.type = "PUBLISH" /\ m.mtype = gid[c]
          /\ got' = [got EXCEPT ![c][m.pub] = @ + 1]
          /\ UNCHANGED <<gid, wait, asked>>
       \/ /\ m.type # "ACK_CREATE" /\ m.mtype # gid[c]
          /\ UNCHANGED <<gid, wait, asked, got>>
  /\ UNCHANGED <<dbVars, ids, ring, conn, up, workerQ, workerPart, respQ, created,
                 pubs, strayed>>

-----------------------------------------------------------------------------
(* The handlers of a connection.                                           *)

\* The request handler passes the next message to the worker; a CREATE is
\* labelled with the response handler, as it has no id yet.
ReqHandler(x) ==
  /\ up[x] # <<>>
  /\ CanQueueWork(Server(x))
  /\ LET m == Head(up[x]) IN
       workerQ' = [workerQ EXCEPT ![Server(x)] =
         Append(@, IF m.type = "CREATE" THEN [m EXCEPT !.mtype = x] ELSE m)]
  /\ up' = [up EXCEPT ![x] = Tail(@)]
  /\ UNCHANGED <<dbVars, ids, ring, conn, workerPart, respQ, down, clientPart, pubs,
                 strayed>>

Outgoing(m) == [m EXCEPT !.mtype = m.global_id]

\* The response handler of a client; writes to a lost machine are lost.
RespHandler(c) ==
  /\ respQ[c] # <<>>
  /\ conn[c] \in {"on", "lost"}
  /\ respQ' = [respQ EXCEPT ![c] = Tail(@)]
  /\ down' = IF conn[c] = "on"
             THEN [down EXCEPT ![c] = Append(@, Outgoing(Head(respQ[c])))]
             ELSE down
  /\ UNCHANGED <<dbVars, ids, ring, conn, up, workerQ, workerPart, clientPart, pubs,
                 strayed>>

\* The response handler whose socket leads to the next broker.
RingRespHandler(b) ==
  /\ respQ[b] # <<>>
  /\ respQ' = [respQ EXCEPT ![b] = Tail(@)]
  /\ up' = [up EXCEPT ![Succ(b)] = Append(@, Outgoing(Head(respQ[b])))]
  /\ UNCHANGED <<dbVars, ids, ring, conn, workerQ, workerPart, down, clientPart, pubs,
                 strayed>>

-----------------------------------------------------------------------------
(* The worker.  Each step ends by choosing the next one in wpc.            *)

FirstStep == [CREATE |-> "add_user", SUBSCRIBE |-> "subscribe",
              PUBLISH |-> "publish", DESTROY |-> "delete"]

WorkerReceive(b) ==
  /\ wpc[b] = "idle"
  /\ workerQ[b] # <<>>
  /\ wmsg' = [wmsg EXCEPT ![b] = Head(workerQ[b])]
  /\ wpc' = [wpc EXCEPT ![b] = FirstStep[Head(workerQ[b]).type]]
  /\ workerQ' = [workerQ EXCEPT ![b] = Tail(@)]
  /\ UNCHANGED <<dbVars, ids, ring, conn, up, wsubs, wrelayed, respQ, down,
                 clientPart, pubs, strayed>>

\* What a step of the worker leaves alone, unless it says otherwise.
WorkerFrame == UNCHANGED <<ring, conn, up, workerQ, down, clientPart, pubs>>
NoFanOut == UNCHANGED <<wsubs, wrelayed, respQ, strayed>>

GoTo(b, step, m) ==
  /\ wpc' = [wpc EXCEPT ![b] = step]
  /\ wmsg' = [wmsg EXCEPT ![b] = m]

Forget(b) ==
  /\ GoTo(b, "idle", Idle)
  /\ wsubs' = [wsubs EXCEPT ![b] = {}]
  /\ wrelayed' = [wrelayed EXCEPT ![b] = FALSE]

\* process_create, first call: db_add_user.
CreateUser(b) ==
  /\ wpc[b] = "add_user"
  /\ DbAddUser
  /\ GoTo(b, "add_id", [wmsg[b] EXCEPT !.global_id = NextId])
  /\ UNCHANGED ids
  /\ NoFanOut /\ WorkerFrame

\* process_create, second call: add_global_id.  The user stays in the database
\* when the table is full.
CreateId(b) ==
  /\ wpc[b] = "add_id"
  /\ LET m == wmsg[b] IN
       \/ /\ IsFull(ids[b], MAX_CLIENTS)
          /\ GoTo(b, "respond", [m EXCEPT !.type = "ACK_ERROR"])
          /\ UNCHANGED ids
       \/ /\ ~IsFull(ids[b], MAX_CLIENTS)
          /\ GoTo(b, "respond", [m EXCEPT !.type = "ACK_CREATE"])
          /\ ids' = [ids EXCEPT ![b] = AddGlobalId(@, m.global_id, m.mtype)]
  /\ UNCHANGED dbVars
  /\ NoFanOut /\ WorkerFrame

\* The message after its header id has been looked up in the table.
Resolved(b) == [wmsg[b] EXCEPT !.global_id = wmsg[b].mtype,
                               !.mtype = GetMtype(ids[b], wmsg[b].mtype)]

Unknown(m) == m.mtype = NO_MTYPE_FOUND_CODE

ProcessSubscribe(b) ==
  /\ wpc[b] = "subscribe"
  /\ LET m == Resolved(b) IN
       IF Unknown(m) \/ m.global_id \notin users
       THEN /\ GoTo(b, "respond", [m EXCEPT !.type = "ACK_ERROR"])
            /\ UNCHANGED dbVars
       ELSE /\ GoTo(b, "respond", [m EXCEPT !.type = "ACK_OK"])
            /\ DbSubscribe(m.global_id, m.topic)
  /\ UNCHANGED ids
  /\ NoFanOut /\ WorkerFrame

\* process_publish up to the first reading of the list: a message that comes
\* back to the broker that stamped it is discarded.
DiscardPublish(b) ==
  /\ wpc[b] = "publish"
  /\ wmsg[b].broker_id = b
  /\ Forget(b)
  /\ UNCHANGED <<dbVars, ids, respQ, strayed>>
  /\ WorkerFrame

\* Variant: a first-time message is not stamped.
Unstamped(b) == Resolved(b)

\* A first-time message is stamped with the BROKER_ID of this broker.
Stamped(b) == IF wmsg[b].broker_id = 0 THEN [Resolved(b) EXCEPT !.broker_id = b]
              ELSE Resolved(b)

\* Variant: the worker does not return from the search for an unknown id.
StuckOnUnknown(b) == FALSE

\* The header id is not in the table: nothing is delivered or passed on.
RejectPublish(b) ==
  /\ wpc[b] = "publish"
  /\ wmsg[b].broker_id # b
  /\ Unknown(Stamped(b))
  /\ IF wmsg[b].broker_id = 0
     THEN /\ GoTo(b, "respond", [Stamped(b) EXCEPT !.type = "ACK_ERROR"])
          /\ UNCHANGED <<wsubs, wrelayed>>
     ELSE Forget(b)
  /\ UNCHANGED <<dbVars, ids, respQ, strayed>>
  /\ WorkerFrame

\* send_to_subs asks the database for the subscribers.
FetchSubs(b) ==
  /\ wpc[b] = "publish"
  /\ wmsg[b].broker_id # b
  /\ ~Unknown(Stamped(b))
  /\ GoTo(b, "fan_out", Stamped(b))
  /\ \E lines \in DbGetSubscribed(wmsg[b].topic) :
       wsubs' = [wsubs EXCEPT ![b] = lines]
  /\ strayed' = IF topics[wmsg[b].topic] = {} THEN strayed \cup {wmsg[b].pub}
                ELSE strayed
  /\ UNCHANGED <<dbVars, ids, wrelayed, respQ>>
  /\ WorkerFrame

Addressed(b, l, pid) == [wmsg[b] EXCEPT !.global_id = l.id, !.mtype = pid]

NextLine(b, l) == l \in wsubs[b] /\ \A k \in wsubs[b] : l.pos <= k.pos

\* One turn of the loop of send_to_subs, for a subscriber of this broker ...
SendToLocal(b) ==
  /\ wpc[b] = "fan_out"
  /\ \E l \in wsubs[b] :
       LET pid == GetMtype(ids[b], l.id) IN
         /\ NextLine(b, l)
         /\ pid # NO_MTYPE_FOUND_CODE
         /\ CanQueueResp(b)
         /\ QueueResp(pid, Addressed(b, l, pid))
         /\ wsubs' = [wsubs EXCEPT ![b] = @ \ {l}]
  /\ UNCHANGED <<dbVars, ids, wpc, wmsg, wrelayed, strayed>>
  /\ WorkerFrame

\* Variant: the message goes to the next broker once per subscriber.
NeverRelayed(b) == FALSE

AlreadyRelayed(b) == wrelayed[b]

\* ... and for one of another broker: the first of these sends the message to
\* the next broker, with the subscriber's id in its header.  If the next broker
\* is not in the table the loop ends with an error.
SendToRing(b) ==
  /\ wpc[b] = "fan_out"
  /\ \E l \in wsubs[b] :
       LET pid == GetMtype(ids[b], NEXT_SERVER_GLOBAL_ID)
           unlinked == ~AlreadyRelayed(b) /\ pid = NO_MTYPE_FOUND_CODE IN
         /\ NextLine(b, l)
         /\ GetMtype(ids[b], l.id) = NO_MTYPE_FOUND_CODE
         /\ IF AlreadyRelayed(b) \/ unlinked THEN UNCHANGED respQ
            ELSE CanQueueResp(b) /\ QueueResp(pid, Addressed(b, l, pid))
         /\ wsubs' = [wsubs EXCEPT ![b] = IF unlinked THEN {} ELSE @ \ {l}]
         /\ wmsg' = [wmsg EXCEPT ![b].type = IF unlinked THEN "ACK_ERROR" ELSE @]
  /\ wrelayed' = [wrelayed EXCEPT ![b] = TRUE]
  /\ UNCHANGED <<dbVars, ids, wpc, strayed>>
  /\ WorkerFrame

\* Variant: no broker answers the message.
NobodyAnswers(b) == FALSE

\* Only the broker that stamped the message answers it.
SendAck(b) == wmsg[b].broker_id = b

\* The end of the loop.
EndFanOut(b) ==
  /\ wpc[b] = "fan_out"
  /\ wsubs[b] = {}
  /\ IF SendAck(b)
     THEN /\ GoTo(b, "respond", [wmsg[b] EXCEPT !.type =
                                  IF @ = "ACK_ERROR" THEN @ ELSE "ACK_OK"])
          /\ wrelayed' = [wrelayed EXCEPT ![b] = FALSE]
          /\ UNCHANGED wsubs
     ELSE Forget(b)
  /\ UNCHANGED <<dbVars, ids, respQ, strayed>>
  /\ WorkerFrame

\* process_destroy, first calls: get_mtype and db_delete, which is called even
\* for an id this broker does not know.
DeleteUser(b) ==
  /\ wpc[b] = "delete"
  /\ LET m == Resolved(b)
         known == m.global_id \in users
         type == IF Unknown(m) \/ ~known THEN "ACK_ERROR" ELSE "ACK_DESTROY" IN
       /\ GoTo(b, "remove_id", [m EXCEPT !.type = type])
       /\ IF known THEN DbDelete(m.global_id) ELSE UNCHANGED dbVars
  /\ UNCHANGED ids
  /\ NoFanOut /\ WorkerFrame

\* process_destroy, last call: remove_global_id.
RemoveId(b) ==
  /\ wpc[b] = "remove_id"
  /\ LET m == wmsg[b]
         type == IF Positions(ids[b], m.global_id) = {} THEN "ACK_ERROR"
                 ELSE m.type IN
       /\ GoTo(b, "respond", [m EXCEPT !.type = type])
       /\ ids' = [ids EXCEPT ![b] = RemoveGlobalId(@, m.global_id)]
  /\ UNCHANGED dbVars
  /\ NoFanOut /\ WorkerFrame

\* The answer goes to the response queue; msgsnd refuses a negative mtype, and
\* then there is no answer.
Respond(b) ==
  /\ wpc[b] = "respond"
  /\ IF Unknown(wmsg[b]) THEN UNCHANGED respQ
     ELSE CanQueueResp(b) /\ QueueResp(wmsg[b].mtype, wmsg[b])
  /\ Forget(b)
  /\ UNCHANGED <<dbVars, ids, strayed>>
  /\ WorkerFrame

WorkerStep(b) ==
  \/ WorkerReceive(b) \/ CreateUser(b) \/ CreateId(b) \/ ProcessSubscribe(b)
  \/ DiscardPublish(b) \/ RejectPublish(b) \/ FetchSubs(b) \/ SendToLocal(b)
  \/ SendToRing(b) \/ EndFanOut(b) \/ DeleteUser(b) \/ RemoveId(b) \/ Respond(b)

Next ==
  \/ \E b \in Broker : RingConnect(b) \/ RingRegister(b) \/ StartServing(b) \/ RingRespHandler(b)
  \/ \E b \in Broker : WorkerStep(b)
  \/ \E x \in Connection : ReqHandler(x)
  \/ \E c \in Client :
       \/ AcceptClient(c) \/ LoseClient(c) \/ EndHandlers(c)
       \/ Create(c) \/ Destroy(c) \/ ClientReceive(c) \/ RespHandler(c)
       \/ \E t \in Topic : SubscribeTo(c, t) \/ Publish(c, t)

Spec == Init /\ [][Next]_vars

\* Every process of a broker, and the handlers of a client machine, are run by
\* their operating systems whenever they have something to do.
Fairness ==
  /\ \A b \in Broker : WF_vars(WorkerStep(b)) /\ WF_vars(RingRespHandler(b))
  /\ \A x \in Connection : WF_vars(ReqHandler(x))
  /\ \A c \in Client : WF_vars(RespHandler(c)) /\ WF_vars(ClientReceive(c))

FairSpec == Spec /\ Fairness
=============================================================================
