------------------------ MODULE BrokerRingInvariants ------------------------
(***************************************************************************)
(* The inductive invariant behind the theorems about the ring: what each   *)
(* queue, table and worker can hold.                                       *)
(***************************************************************************)
EXTENDS BrokerRingProperties

\* x is the response handler of a client of broker b.
ClientOf(b, x) == x \in Client /\ Home[x] = b

\* The ring connection of b has registered.
Linked(b) == ring[b] \in {"linked", "serving"}

\* The publications of the clients of broker b.
PublishedAt(b) == {p \in DOMAIN pubs : Home[pubs[p].by] = b}

\* A publication that has left the broker of its publisher.
OnRing == {m \in Msg : /\ m.type = "PUBLISH"
                       /\ m.topic \in Topic
                       /\ m.pub \in PublishedAt(m.broker_id)}

\* A publication on a socket between brokers: its header is an id.
Arriving == {m \in OnRing : m.mtype \in Nat}

\* A request of a client of broker b that has an id.
Identified(b) ==
  {m \in Msg : /\ m.type \in Request \ {"CREATE"}
               /\ m.mtype \in Nat \ {0}
               /\ m.broker_id = 0
               /\ m.type # "DESTROY" => m.topic \in Topic
               /\ m.type = "PUBLISH" => m.pub \in PublishedAt(b)}

FromClient(c) ==
  Identified(Home[c]) \cup
  {m \in Msg : m.type = "CREATE" /\ m.mtype \in Nat /\ Linked(Home[c])}

\* A request that broker b has labelled with the handler that answers it.
Labelled(b) ==
  {m \in Msg : m.type = "CREATE" /\ ClientOf(b, m.mtype) /\ Linked(b)}

ForWorker(b) == Arriving \cup Identified(b) \cup Labelled(b)

Answer(b) == {m \in Msg : m.type \in Ack /\ (Unknown(m) \/ ClientOf(b, m.mtype))}

ToClient == {m \in Msg : m.mtype \in Nat}

-----------------------------------------------------------------------------
DbOK == DbTypeOK /\ NoOrphanLines

ClientsOK ==
  /\ ring \in [Broker -> {"boot", "connected", "linked", "serving"}]
  /\ conn \in [Client -> {"off", "on", "lost", "ended"}]
  /\ \A c \in Client : conn[c] # "off" => Linked(Home[c])
  /\ gid \in [Client -> Nat]
  /\ wait \in [Client -> Request \cup {"none"}]
  /\ asked \in [Client -> [Topic -> Nat]]
  /\ got \in [Client -> [1..MaxPubs -> Nat]]
  /\ pubs \in Seq([by : Client, topic : Topic, audience : SUBSET Client])
  /\ strayed \subseteq Nat
  /\ created \in Nat

\* The entry of id 0 is the ring connection, the others are clients of b; there
\* is none before the ring connection's.
TablesOK ==
  /\ ids \in [Broker -> Seq([global_id : Nat, mtype : Connection])]
  /\ \A b \in Broker :
       /\ Len(ids[b]) <= MAX_CLIENTS
       /\ \A i \in 1..Len(ids[b]) :
            /\ Linked(b)
            /\ IF ids[b][i].global_id = NEXT_SERVER_GLOBAL_ID THEN ids[b][i].mtype = b
               ELSE ClientOf(b, ids[b][i].mtype)
       /\ Linked(b) => Positions(ids[b], NEXT_SERVER_GLOBAL_ID) # {}

UpOK ==
  /\ up \in [Connection -> Seq(Msg)]
  /\ \A c \in Client : up[c] \in Seq(FromClient(c))
  /\ \A b \in Broker : up[b] \in Seq(Arriving)

WorkQOK ==
  /\ workerQ \in [Broker -> Seq(Msg)]
  /\ \A b \in Broker : workerQ[b] \in Seq(ForWorker(b))

RespQOK ==
  /\ respQ \in [Connection -> Seq(Msg)]
  /\ \A b \in Broker : respQ[b] \in Seq(OnRing)

DownOK == down \in [Client -> Seq(ToClient)]

Steps == {"idle", "add_user", "add_id", "subscribe", "publish", "fan_out",
          "delete", "remove_id", "respond"}

\* What the worker of b holds at each of its steps.
WorkerOK(b) ==
  /\ wpc[b] \in {"add_user", "add_id"} => Linked(b) /\ ClientOf(b, wmsg[b].mtype)
  /\ wpc[b] = "subscribe" => wmsg[b].type = "SUBSCRIBE" /\ wmsg[b] \in Identified(b)
  /\ wpc[b] = "delete" => wmsg[b] \in Identified(b)
  /\ wpc[b] = "publish" =>
       wmsg[b].type = "PUBLISH" /\ wmsg[b] \in Identified(b) \cup Arriving
  /\ wpc[b] = "fan_out" =>
       /\ Linked(b)
       /\ wmsg[b].type = "PUBLISH" \/ (wmsg[b].type = "ACK_ERROR" /\ wsubs[b] = {})
       /\ wmsg[b].topic \in Topic
       /\ wmsg[b].pub \in PublishedAt(wmsg[b].broker_id)
       /\ wmsg[b].broker_id = b => ClientOf(b, wmsg[b].mtype)
  /\ wpc[b] \in {"add_id", "remove_id"} => wmsg[b].global_id # 0
  /\ wpc[b] \in {"remove_id", "respond"} => wmsg[b] \in Answer(b)

WorkersOK ==
  /\ wpc \in [Broker -> Steps]
  /\ wmsg \in [Broker -> Msg]
  /\ wsubs \in [Broker -> SUBSET Line]
  /\ wrelayed \in [Broker -> BOOLEAN]
  /\ \A b \in Broker : WorkerOK(b)

\* Every queue, table and worker holds only what its readers expect.
Inv ==
  DbOK /\ ClientsOK /\ TablesOK /\ UpOK /\ WorkQOK /\ RespQOK /\ DownOK /\ WorkersOK

-----------------------------------------------------------------------------
(* One copy of a publication on the ring.                                  *)

\* C has one element at most.
Single(C) == \A e, f \in C : e = f

\* A list that the database has sent does not name the next broker, so that a
\* publication is not queued for it as for a subscriber.
ListsProper ==
  \A b \in Broker : wpc[b] = "fan_out" /\ wmsg[b].pub \notin strayed =>
    \A l \in wsubs[b] : l.id # NEXT_SERVER_GLOBAL_ID

\* The message of a publication is in one place at most.
OneCarrier == \A p \in Proper : \A e, f \in Carriers(p) : e = f
=============================================================================
