------------------------ MODULE BrokerRingProperties ------------------------
(***************************************************************************)
(* What the brokers of the ring promise together.                          *)
(***************************************************************************)
EXTENDS BrokerRing

\* Every variable has the values the code can give it, and no table of ids
\* holds more entries than its array (global_id.c).
TypeOK ==
  /\ DbTypeOK
  /\ ids \in [Broker -> Seq([global_id : Nat, mtype : Connection])]
  /\ \A b \in Broker : Len(ids[b]) <= MAX_CLIENTS
  /\ ring \in [Broker -> {"boot", "connected", "linked", "serving"}]
  /\ conn \in [Client -> {"off", "on", "lost", "ended"}]
  /\ up \in [Connection -> Seq(Msg)]
  /\ workerQ \in [Broker -> Seq(Msg)]
  /\ wpc \in [Broker -> {"idle", "add_user", "add_id", "subscribe", "publish",
                         "fan_out", "delete", "remove_id", "respond"}]
  /\ wmsg \in [Broker -> Msg]
  /\ wsubs \in [Broker -> SUBSET Line]
  /\ wrelayed \in [Broker -> BOOLEAN]
  /\ respQ \in [Connection -> Seq(Msg)]
  /\ down \in [Client -> Seq(Msg)]
  /\ gid \in [Client -> Nat]
  /\ wait \in [Client -> Request \cup {"none"}]
  /\ asked \in [Client -> [Topic -> Nat]]
  /\ got \in [Client -> [1..MaxPubs -> Nat]]
  /\ pubs \in Seq([by : Client, topic : Topic, audience : SUBSET Client])
  /\ strayed \subseteq Nat
  /\ created \in Nat

Elements(q) == {q[i] : i \in DOMAIN q}
Count(q, Test(_)) == Cardinality({i \in DOMAIN q : Test(q[i])})

\* Publications whose list of subscribers was never read uninitialised.
Proper == DOMAIN pubs \ strayed

IsCopy(m, p) == m.type = "PUBLISH" /\ m.pub = p

-----------------------------------------------------------------------------
(* Publications.                                                           *)

\* The places that hold the message of p on its way round the ring: sockets,
\* worker queues, workers that have not passed it on yet, and ring connections.
Carriers(p) ==
  UNION { UNION {{<<"up", x, i>> : i \in {j \in DOMAIN up[x] : IsCopy(up[x][j], p)}} :
                 x \in Connection},
          UNION {{<<"work", b, i>> : i \in {j \in DOMAIN workerQ[b] : IsCopy(workerQ[b][j], p)}} :
                 b \in Broker},
          UNION {{<<"resp", b, i>> : i \in {j \in DOMAIN respQ[b] : IsCopy(respQ[b][j], p)}} :
                 b \in Broker},
          {<<"worker", b, 0>> : b \in {d \in Broker : /\ wpc[d] \in {"publish", "fan_out"}
                                                      /\ IsCopy(wmsg[d], p)
                                                      /\ ~wrelayed[d]}} }

\* A publication is in one place of the ring at a time: however many of its
\* subscribers are elsewhere, a broker passes it on once (send_to_subs), and
\* the broker that stamped it does not start it again (process_publish).
OneCopyInRing == \A p \in Proper : Cardinality(Carriers(p)) <= 1

CopiesFor(c, p) ==
  got[c][p] + Count(respQ[c], LAMBDA m : IsCopy(m, p))
            + Count(down[c], LAMBDA m : IsCopy(m, p))

\* A client never gets a publication more often than it subscribed to its topic
\* under its current id, and so never one it did not ask for: not from two
\* brokers, not twice from one, not for an earlier holder of its id.
AtMostOncePerSubscription ==
  \A c \in Client, p \in Proper : CopiesFor(c, p) <= asked[c][pubs[p].topic]

\* The home broker of p's publisher is done with its first pass over p.
OriginDone(p) ==
  LET c == pubs[p].by
      b == Home[c]
      first(m) == IsCopy(m, p) /\ m.broker_id = 0
  IN  /\ ~\E m \in Elements(up[c]) \cup Elements(workerQ[b]) : first(m)
      /\ ~(wpc[b] = "publish" /\ first(wmsg[b]))
      /\ ~(wpc[b] = "fan_out" /\ IsCopy(wmsg[b], p) /\ wmsg[b].broker_id = b)

\* Before its publisher is answered, a publication has been queued for each
\* subscriber of the same broker that was subscribed when it was sent and has
\* not left since: no interleaving with other requests or brokers loses it.
HomeDelivery ==
  \A p \in DOMAIN pubs : OriginDone(p) =>
    \A c \in pubs[p].audience : Home[c] = Home[pubs[p].by] => CopiesFor(c, p) >= 1

\* What one broker sends to the next are publications only, stamped with the id
\* of the broker their publisher is connected to (server.c, lines 198-200).
RingCarriesStamped ==
  \A b \in Broker : \A m \in Elements(respQ[b]) \cup Elements(up[b]) :
    /\ m.type = "PUBLISH"
    /\ m.pub \in DOMAIN pubs
    /\ m.broker_id = Home[pubs[m.pub].by]

\* A worker that has a publication to send always finds the next broker in its
\* table, although the ring connection fills it in while messages of the
\* previous broker may already arrive.
LinkKnown ==
  \A b \in Broker : wpc[b] = "fan_out" =>
    GetMtype(ids[b], NEXT_SERVER_GLOBAL_ID) # NO_MTYPE_FOUND_CODE

-----------------------------------------------------------------------------
(* Ids and answers.                                                        *)

HeldBy(b) == {e.global_id : e \in Elements(ids[b])} \ {NEXT_SERVER_GLOBAL_ID}

\* An id whose user is deleted while its entry still has to be removed.
Leaving(b) == IF wpc[b] = "remove_id" THEN {wmsg[b].global_id} ELSE {}

\* Between db_delete and remove_global_id another broker may be given the same
\* id; at any other time the entries of a table belong to users of the
\* database, and no other table holds them.
IdsExclusive ==
  \A b \in Broker :
    /\ HeldBy(b) \ Leaving(b) \subseteq users
    /\ \A d \in Broker \ {b} : HeldBy(b) \cap HeldBy(d) \subseteq Leaving(b) \cup Leaving(d)

\* Two clients never hold the same id, unless one of them is about to learn
\* that its own is gone: get_next_id reuses ids, across brokers and restarts of
\* clients.
IdsNotShared ==
  \A c, d \in Client : c # d /\ gid[c] = gid[d] /\ gid[c] # 0
                         => "DESTROY" \in {wait[c], wait[d]}

\* What is sent to a client carries the id the client holds when it arrives:
\* nothing meant for an earlier or later holder of the id reaches it.
AddressedToHolder ==
  \A c \in Client : \A m \in Elements(respQ[c]) \cup Elements(down[c]) :
    m.type \in {"ACK_OK", "ACK_DESTROY"} \/ (m.type = "PUBLISH" /\ m.pub \in Proper)
      => m.global_id = gid[c]

\* Requests of c and answers to c between c's machine and the worker.
OwnRequest(c, m) ==
  /\ m.broker_id = 0
  /\ IF m.type = "CREATE" THEN m.mtype = c
     ELSE GetMtype(ids[Home[c]], m.mtype) = c

WorksFor(c) ==
  LET b == Home[c] IN
    \/ wpc[b] \in {"subscribe", "publish", "delete"} /\ OwnRequest(c, wmsg[b])
    \/ wpc[b] \in {"add_user", "add_id", "remove_id", "respond"} /\ wmsg[b].mtype = c
    \/ wpc[b] = "fan_out" /\ wmsg[b].mtype = c /\ wmsg[b].broker_id = b

InProgress(c) ==
  Len(up[c]) + Count(workerQ[Home[c]], LAMBDA m : OwnRequest(c, m))
             + (IF WorksFor(c) THEN 1 ELSE 0)
             + Count(respQ[c], LAMBDA m : m.type \in Ack)
             + Count(down[c], LAMBDA m : m.type \in Ack)

\* A client that waits has exactly one request or answer in the system, and one
\* that does not wait has none: requests are neither lost nor answered twice,
\* whatever the ring does meanwhile.  The exception is a CREATE, whose refusal
\* the client machine drops.
AnsweredOnce ==
  \A c \in Client : conn[c] = "on" =>
    /\ wait[c] = "none" => InProgress(c) = 0
    /\ wait[c] = "CREATE" => InProgress(c) <= 1
    /\ wait[c] \in Request \ {"CREATE"} => InProgress(c) = 1

-----------------------------------------------------------------------------
(* Progress.                                                               *)

\* Every request but a CREATE is answered, if its client stays connected.
RequestAnswered ==
  \A c \in Client :
    conn[c] = "on" /\ wait[c] \in Request \ {"CREATE"}
      ~> wait[c] = "none" \/ conn[c] # "on"

\* Every publication stops circulating.
PublishLeavesRing ==
  \A p \in 1..MaxPubs : p \in DOMAIN pubs ~> Carriers(p) = {}

-----------------------------------------------------------------------------
(* What the documentation says and the code does not do.                   *)

\* "debe ser enviado a todos los clientes subscriptos al topic": once a
\* publication has left the ring, each subscriber has been sent a copy.
SubscribersGetMessage ==
  \A p \in DOMAIN pubs : Carriers(p) = {} =>
    \A c \in pubs[p].audience : CopiesFor(c, p) >= 1

\* Only the clients subscribed to a topic are sent what is published on it.
OnlySubscribersGetMessage ==
  \A c \in Client, p \in DOMAIN pubs :
    CopiesFor(c, p) > 0 => asked[c][pubs[p].topic] > 0
=============================================================================
