-------------------------- MODULE BrokerIds_proofs --------------------------
(***************************************************************************)
(* The theorems about the ids of the clients of the ring and the answers   *)
(* to their requests, for every number of brokers, every set of clients    *)
(* and topics, and every capacity.                                         *)
(***************************************************************************)
EXTENDS BrokerRing_proofs

-----------------------------------------------------------------------------
(* The inductive invariant: who owns an id, and where the one request of a *)
(* client is.                                                              *)

\* The table of c's broker maps id to c.
Entered(c, id) == Has(ids[Home[c]], Entry(id, c))

HasEntry(c) == \E i \in DOMAIN ids[Home[c]] : ids[Home[c]][i].mtype = c

\* ... and id is c's in the database too.
Owner(c, id) == Entered(c, id) /\ id \in users /\ id \notin Leaving(Home[c])

Live(c) == gid[c] # 0 /\ Owner(c, gid[c])
Fresh(c) == gid[c] = 0 /\ ~HasEntry(c)

\* No two entries of a table share an id or a process.
EntriesUnique == \A b \in Broker : UniqueTable(ids[b])

\* An entry is of a user, until the user is deleted.
EntriesOwned ==
  \A c \in Client : \A i \in DOMAIN ids[Home[c]] :
    LET e == ids[Home[c]][i] IN
      e.mtype = c /\ e.global_id \notin Leaving(Home[c]) => e.global_id \in users

OwnersUnique == \A c, d \in Client : \A id \in users : Owner(c, id) /\ Owner(d, id) => c = d

\* A user that has no entry yet is nobody's, and has no subscriptions.
Reserved(b) ==
  wpc[b] = "add_id" =>
    /\ wmsg[b].global_id \in users
    /\ \A c \in Client : ~Owner(c, wmsg[b].global_id)
    /\ \A t \in Topic : \A l \in topics[t] : l.id # wmsg[b].global_id
    /\ \A d \in Broker \ {b} : wpc[d] = "add_id" => wmsg[d].global_id # wmsg[b].global_id

\* What a client knows of its id, and what it waits for.
Holds(c) ==
  /\ wait[c] = "CREATE" => gid[c] = 0
  /\ wait[c] \in Request \ {"CREATE"} => gid[c] # 0
  /\ conn[c] = "off" => wait[c] = "none"
  /\ gid[c] # 0 /\ wait[c] # "DESTROY" => Live(c)
  /\ gid[c] = 0 /\ wait[c] = "none" => Fresh(c)

\* A request of c that has not been processed.
Pending(c, m) ==
  /\ m.type = wait[c]
  /\ m.broker_id = 0
  /\ IF m.type = "CREATE" THEN Fresh(c) ELSE m.mtype = gid[c] /\ Live(c)

\* The one whose request m is, in WORKER_QUEUE or in the worker.
Own(c, m) ==
  m.broker_id = 0 /\ IF m.type = "CREATE" THEN m.mtype = c ELSE Entered(c, m.mtype)

FirstHand(m) == m.type = "CREATE" \/ m.broker_id = 0

OfClient(b, m) == \E c \in Client : Home[c] = b /\ Own(c, m) /\ Pending(c, m)

\* An answer to c, which the client will take as what it is.
Answered(c, m) ==
  \/ m.type = "ACK_CREATE" /\ wait[c] = "CREATE" /\ gid[c] = 0 /\ Owner(c, m.global_id)
  \/ m.type = "ACK_ERROR" /\ wait[c] = "CREATE" /\ Fresh(c) /\ m.global_id # 0
  \/ /\ m.type \in {"ACK_OK", "ACK_ERROR"} /\ wait[c] \in {"SUBSCRIBE", "PUBLISH"}
     /\ m.global_id = gid[c] /\ Live(c)
  \/ m.type = "ACK_DESTROY" /\ wait[c] = "DESTROY" /\ m.global_id = gid[c] /\ ~HasEntry(c)

SentOK(c) == \A m \in Elements(up[c]) : Pending(c, m)

QueuedOK(b) == \A m \in Elements(workerQ[b]) : FirstHand(m) => OfClient(b, m)

\* The client x that the worker of b is busy with.
BusyWith(b, x) ==
  /\ wpc[b] \in {"add_user", "add_id"} => wait[x] = "CREATE" /\ Fresh(x)
  /\ wpc[b] = "fan_out" => wait[x] = "PUBLISH" /\ Live(x) /\ wmsg[b].global_id = gid[x]
  /\ wpc[b] = "remove_id" => /\ wait[x] = "DESTROY" /\ wmsg[b].type = "ACK_DESTROY"
                             /\ wmsg[b].global_id = gid[x] /\ Entered(x, gid[x])
  /\ wpc[b] = "respond" => Answered(x, wmsg[b])

BusyOK(b) ==
  /\ wpc[b] \in {"subscribe", "publish", "delete"} /\ FirstHand(wmsg[b]) => OfClient(b, wmsg[b])
  /\ wpc[b] = "delete" => wmsg[b].type = "DESTROY"
  /\ \/ wpc[b] \in {"add_user", "add_id", "remove_id", "respond"}
     \/ wpc[b] = "fan_out" /\ wmsg[b].broker_id = b
     => ClientOf(b, wmsg[b].mtype) /\ BusyWith(b, wmsg[b].mtype)

AnswersOK(c) ==
  /\ \A m \in Elements(respQ[c]) \cup Elements(down[c]) : m.type \in Ack => Answered(c, m)
  /\ \A m \in Elements(down[c]) : m.mtype = m.global_id

\* Nothing follows the answer to a DESTROY.
LastOK(c) ==
  /\ \A i \in DOMAIN respQ[c] : respQ[c][i].type = "ACK_DESTROY" => i = Len(respQ[c])
  /\ \A i \in DOMAIN down[c] :
       down[c][i].type = "ACK_DESTROY" => i = Len(down[c]) /\ respQ[c] = <<>>

\* The subscriptions under an id are those of the client that has it ...
LinesOwned ==
  \A t \in Topic : \A l \in topics[t] : \A c \in Client : Owner(c, l.id) => gid[c] = l.id

\* ... and so are those in the list of a worker ...
ListsOwned ==
  \A b \in Broker : wpc[b] = "fan_out" /\ wmsg[b].pub \notin strayed =>
    \A l \in wsubs[b] : \A c \in Client : Home[c] = b /\ Entered(c, l.id) => gid[c] = l.id

\* ... so that the publications on their way to a client are for its id.
ForHolder(c, m) ==
  m.type = "PUBLISH" =>
    /\ m.pub \in DOMAIN pubs
    /\ m.pub \notin strayed => m.global_id = gid[c] /\ gid[c] # 0

NewsOK(c) == \A m \in Elements(respQ[c]) \cup Elements(down[c]) : ForHolder(c, m)

\* The worker of c's broker is busy with c.
Serves(c) ==
  LET b == Home[c] IN
    \/ wpc[b] \in {"subscribe", "publish", "delete"} /\ Own(c, wmsg[b])
    \/ wpc[b] \in {"add_user", "add_id", "remove_id", "respond"} /\ wmsg[b].mtype = c
    \/ wpc[b] = "fan_out" /\ wmsg[b].mtype = c /\ wmsg[b].broker_id = b

\* The places of the request of c, or of its answer.
Places(c) ==
  UNION { {<<"up", c, i>> : i \in DOMAIN up[c]},
          {<<"work", Home[c], i>> :
             i \in {j \in DOMAIN workerQ[Home[c]] : Own(c, workerQ[Home[c]][j])}},
          {<<"worker", d, 0>> : d \in {b \in Broker : b = Home[c] /\ Serves(c)}},
          {<<"resp", c, i>> : i \in {j \in DOMAIN respQ[c] : respQ[c][j].type \in Ack}},
          {<<"down", c, i>> : i \in {j \in DOMAIN down[c] : down[c][j].type \in Ack}} }

\* A request is in one place, and a client that waits has one.
PlacesOK(c) ==
  /\ Single(Places(c))
  /\ conn[c] = "on" /\ wait[c] \in Request \ {"CREATE"} => Places(c) # {}

\* The ids and the subscriptions under them.
IdsOK ==
  /\ EntriesUnique /\ EntriesOwned /\ OwnersUnique
  /\ \A b \in Broker : Reserved(b)
  /\ LinesOwned /\ ListsOwned

\* What is on its way between a client and its broker.
ClientOK(c) == Holds(c) /\ SentOK(c) /\ AnswersOK(c) /\ LastOK(c) /\ NewsOK(c)

ServedOK ==
  /\ \A c \in Client : ClientOK(c) /\ PlacesOK(c)
  /\ \A b \in Broker : QueuedOK(b) /\ BusyOK(b)

IdsInv == IdsOK /\ ServedOK

-----------------------------------------------------------------------------
(* The entries of a client.                                                *)

ProcessTable(table) == table \in Seq([global_id : Nat, mtype : Connection])

\* An entry of a table is one of Entry.
LEMMA ProcessEntries ==
  ASSUME NEW table, ProcessTable(table), NEW x
  PROVE  /\ \A i \in DOMAIN table : table[i].mtype = x =>
              table[i] = Entry(table[i].global_id, x) /\ Has(table, Entry(table[i].global_id, x))
         /\ \A id : Has(table, Entry(id, x)) =>
              \E i \in DOMAIN table : table[i].mtype = x /\ table[i].global_id = id
<1>1. ASSUME NEW i \in DOMAIN table, table[i].mtype = x
      PROVE  table[i] = Entry(table[i].global_id, x)
  <2>1. table[i] \in [global_id : Nat, mtype : Connection]
    BY ElementOfSeq, LenProperties DEF ProcessTable
  <2> QED BY <1>1, <2>1 DEF Entry
<1>2. ASSUME NEW id, Has(table, Entry(id, x))
      PROVE  \E i \in DOMAIN table : table[i].mtype = x /\ table[i].global_id = id
  BY <1>2 DEF Has, Entry
<1> QED BY <1>1, <1>2 DEF Has

LEMMA EntriesAre ==
  ASSUME TablesOK, NEW c \in Client
  PROVE  /\ HasEntry(c) <=> \E id : Entered(c, id)
         /\ \A id : Entered(c, id) => id \in Nat /\ id # 0
         /\ (\A i \in DOMAIN ids[Home[c]] :
               LET e == ids[Home[c]][i] IN
                 e.mtype = c /\ e.global_id \notin Leaving(Home[c]) => e.global_id \in users)
            <=> \A id : Entered(c, id) /\ id \notin Leaving(Home[c]) => id \in users
<1>1. Home[c] \in Broker /\ c \notin Broker BY Constants
<1>2. PICK table : table = ids[Home[c]] OBVIOUS
<1>3. table \in Seq([global_id : Nat, mtype : Connection]) /\ ProcessTable(table)
  BY <1>1, <1>2 DEF TablesOK, ProcessTable
<1>4. /\ \A i \in DOMAIN table : table[i].mtype = c =>
           table[i] = Entry(table[i].global_id, c) /\ Has(table, Entry(table[i].global_id, c))
      /\ \A id : Has(table, Entry(id, c)) =>
           \E i \in DOMAIN table : table[i].mtype = c /\ table[i].global_id = id
  BY <1>3, ProcessEntries
<1>5. \A i \in DOMAIN table : table[i].mtype = c => table[i].global_id \in Nat /\ table[i].global_id # 0
  <2> SUFFICES ASSUME NEW i \in DOMAIN table, table[i].mtype = c
               PROVE  table[i].global_id \in Nat /\ table[i].global_id # 0
    OBVIOUS
  <2>1. i \in 1..Len(table) /\ table[i] \in [global_id : Nat, mtype : Connection]
    BY <1>3, ElementOfSeq, LenProperties
  <2> QED BY <1>1, <1>2, <2>1 DEF TablesOK, NEXT_SERVER_GLOBAL_ID
<1> QED BY <1>2, <1>4, <1>5 DEF HasEntry, Entered

\* The same in the next state.
LEMMA EntriesWillBe ==
  ASSUME TablesOK', NEW c \in Client
  PROVE  /\ HasEntry(c)' <=> \E id : Entered(c, id)'
         /\ \A id : Entered(c, id)' => id \in Nat /\ id # 0
         /\ (\A i \in DOMAIN ids[Home[c]] :
               LET e == ids[Home[c]][i] IN
                 e.mtype = c /\ e.global_id \notin Leaving(Home[c]) => e.global_id \in users)'
            <=> \A id : Entered(c, id)' /\ id \notin Leaving(Home[c])' => id \in users'
<1>1. Home[c] \in Broker /\ c \notin Broker BY Constants
<1>2. PICK table : table = ids'[Home[c]] OBVIOUS
<1>3. table \in Seq([global_id : Nat, mtype : Connection]) /\ ProcessTable(table)
  BY <1>1, <1>2 DEF TablesOK, ProcessTable
<1>4. /\ \A i \in DOMAIN table : table[i].mtype = c =>
           table[i] = Entry(table[i].global_id, c) /\ Has(table, Entry(table[i].global_id, c))
      /\ \A id : Has(table, Entry(id, c)) =>
           \E i \in DOMAIN table : table[i].mtype = c /\ table[i].global_id = id
  BY <1>3, ProcessEntries
<1>5. \A i \in DOMAIN table : table[i].mtype = c => table[i].global_id \in Nat /\ table[i].global_id # 0
  <2> SUFFICES ASSUME NEW i \in DOMAIN table, table[i].mtype = c
               PROVE  table[i].global_id \in Nat /\ table[i].global_id # 0
    OBVIOUS
  <2>1. i \in 1..Len(table) /\ table[i] \in [global_id : Nat, mtype : Connection]
    BY <1>3, ElementOfSeq, LenProperties
  <2> QED BY <1>1, <1>2, <2>1 DEF TablesOK, NEXT_SERVER_GLOBAL_ID
<1> QED BY <1>2, <1>4, <1>5 DEF HasEntry, Entered

\* A client has one entry, and no client of the same broker shares it.
LEMMA OneEntry ==
  ASSUME EntriesUnique, NEW c \in Client, NEW d \in Client, Home[c] = Home[d],
         NEW j, NEW k, Entered(c, j), Entered(d, k)
  PROVE  c = d <=> j = k
<1>1. Home[c] \in Broker BY Constants
<1>2. PICK i \in DOMAIN ids[Home[c]] : ids[Home[c]][i] = Entry(j, c) BY DEF Entered, Has
<1>3. PICK l \in DOMAIN ids[Home[c]] : ids[Home[c]][l] = Entry(k, d) BY DEF Entered, Has
<1>4. /\ Entry(j, c).mtype = c /\ Entry(j, c).global_id = j
      /\ Entry(k, d).mtype = d /\ Entry(k, d).global_id = k
  BY DEF Entry
<1> QED BY <1>1, <1>2, <1>3, <1>4 DEF EntriesUnique, UniqueTable

\* get_mtype finds the client of an id, if it is one of this broker.
LEMMA MtypeOfOwner ==
  ASSUME TablesOK, EntriesUnique, NEW b \in Broker, NEW id
  PROVE  /\ \A c \in Client : Home[c] = b =>
              (GetMtype(ids[b], id) = c <=> Entered(c, id))
         /\ id # NEXT_SERVER_GLOBAL_ID /\ GetMtype(ids[b], id) # NO_MTYPE_FOUND_CODE =>
              \E c \in Client : Home[c] = b /\ GetMtype(ids[b], id) = c /\ Entered(c, id)
<1>1. PICK table : table = ids[b] OBVIOUS
<1>2. /\ table \in Seq([global_id : Nat, mtype : Connection])
      /\ ProcessTable(table) /\ UniqueTable(table)
  BY <1>1 DEF TablesOK, EntriesUnique, ProcessTable
<1>3. ASSUME NEW c \in Client, Home[c] = b, Entered(c, id) PROVE GetMtype(ids[b], id) = c
  <2>1. PICK i \in DOMAIN table : table[i] = Entry(id, c) BY <1>1, <1>3 DEF Entered, Has
  <2>2. Entry(id, c).mtype = c /\ Entry(id, c).global_id = id BY DEF Entry
  <2> QED BY <1>1, <1>2, <2>1, <2>2, GetMtypeUnique
<1>4. ASSUME NEW x, x = GetMtype(table, id), x # NO_MTYPE_FOUND_CODE
      PROVE  Has(table, Entry(id, x))
  <2>1. Positions(table, id) # {} BY <1>4 DEF GetMtype
  <2>2. PICK i \in 1..Len(table) : table[i].global_id = id /\ x = table[i].mtype
    BY <1>2, <1>4, <2>1, GetMtypeFound
  <2>3. i \in DOMAIN table BY <1>2, <2>2, LenProperties
  <2> QED BY <1>2, <2>2, <2>3, ProcessEntries
<1>5. ASSUME NEW c \in Client, Home[c] = b, GetMtype(ids[b], id) = c PROVE Entered(c, id)
  <2>1. c # NO_MTYPE_FOUND_CODE BY Constants DEF NO_MTYPE_FOUND_CODE
  <2> QED BY <1>1, <1>4, <1>5, <2>1 DEF Entered
<1>6. ASSUME id # NEXT_SERVER_GLOBAL_ID, GetMtype(ids[b], id) # NO_MTYPE_FOUND_CODE
      PROVE  \E c \in Client : Home[c] = b /\ GetMtype(ids[b], id) = c /\ Entered(c, id)
  <2>1. ClientOf(b, GetMtype(ids[b], id)) BY <1>6, HeaderKnown
  <2> QED BY <1>5, <2>1 DEF ClientOf
<1> QED BY <1>3, <1>5, <1>6

\* A message has one owner at a broker.
LEMMA OwnUnique ==
  ASSUME EntriesUnique, NEW c \in Client, NEW d \in Client, Home[c] = Home[d],
         NEW m, Own(c, m), Own(d, m)
  PROVE  c = d
BY OneEntry DEF Own

-----------------------------------------------------------------------------
(* A step leaves a client alone.                                           *)

\* What c knows of its id, and what the table and the database say of it, stay.
Steady(c) ==
  /\ gid'[c] = gid[c] /\ wait'[c] = wait[c]
  /\ conn'[c] = "off" => conn[c] = "off"
  /\ conn'[c] = "on" => conn[c] = "on" \/ wait[c] = "none"
  /\ HasEntry(c)' <=> HasEntry(c)
  /\ \A id : Entered(c, id)' <=> Entered(c, id)
  /\ \A id : Owner(c, id)' <=> Owner(c, id)

LEMMA SteadyMeans ==
  ASSUME NEW c \in Client, Steady(c)
  PROVE  /\ Live(c)' <=> Live(c)
         /\ Fresh(c)' <=> Fresh(c)
         /\ \A m : Pending(c, m)' <=> Pending(c, m)
         /\ \A m : Own(c, m)' <=> Own(c, m)
         /\ \A m : Answered(c, m)' <=> Answered(c, m)
         /\ Holds(c) => Holds(c)'
<1>1. PICK g : g = gid[c] /\ g = gid'[c] BY DEF Steady
<1>2. Owner(c, g)' <=> Owner(c, g) BY DEF Steady
<1>3. Live(c)' <=> Live(c) BY <1>1, <1>2 DEF Live
<1>4. Fresh(c)' <=> Fresh(c) BY DEF Fresh, Steady
<1>5. \A m : Pending(c, m)' <=> Pending(c, m) BY <1>3, <1>4 DEF Pending, Steady
<1>6. ASSUME NEW m PROVE Own(c, m)' <=> Own(c, m)
  <2>1. PICK h : h = m.mtype OBVIOUS
  <2>2. Entered(c, h)' <=> Entered(c, h) BY DEF Steady
  <2> QED BY <2>1, <2>2 DEF Own
<1>7. ASSUME NEW m PROVE Answered(c, m)' <=> Answered(c, m)
  <2>1. PICK h : h = m.global_id OBVIOUS
  <2>2. Owner(c, h)' <=> Owner(c, h) BY DEF Steady
  <2> QED BY <1>3, <1>4, <2>1, <2>2 DEF Answered, Steady
<1>8. Holds(c) => Holds(c)' BY <1>3, <1>4 DEF Holds, Steady
<1> QED BY <1>3, <1>4, <1>5, <1>6, <1>7, <1>8

LEMMA QueueElements ==
  ASSUME NEW q \in Seq(Msg), NEW m \in Msg
  PROVE  /\ Elements(Append(q, m)) = Elements(q) \cup {m}
         /\ q # <<>> => Elements(q) = Elements(Tail(q)) \cup {Head(q)} /\ Head(q) \in Elements(q)
         /\ Elements(q) \subseteq Msg
         /\ Elements(<<>>) = {}
<1>1. DOMAIN q = 1..Len(q) /\ Len(q) \in Nat /\ \A i \in DOMAIN q : q[i] \in Msg
  BY LenProperties, ElementOfSeq
<1>2. Elements(Append(q, m)) = Elements(q) \cup {m}
  <2>1. PICK r : r = Append(q, m) OBVIOUS
  <2>2. /\ DOMAIN r = 1..Len(q) + 1 /\ r[Len(q) + 1] = m
        /\ \A i \in 1..Len(q) : r[i] = q[i]
    BY <2>1, AppendProperties, LenProperties
  <2>3. Elements(r) = Elements(q) \cup {m} BY <1>1, <2>2 DEF Elements
  <2> QED BY <2>1, <2>3
<1>3. ASSUME q # <<>>
      PROVE  Elements(q) = Elements(Tail(q)) \cup {Head(q)} /\ Head(q) \in Elements(q)
  <2>1. PICK r, h : r = Tail(q) /\ h = Head(q) OBVIOUS
  <2>2. /\ DOMAIN r = 1..Len(q) - 1 /\ Len(q) >= 1 /\ q[1] = h
        /\ \A i \in 1..Len(q) - 1 : r[i] = q[i + 1]
    BY <1>3, <2>1, HeadTailProperties, LenProperties
  <2>3. ASSUME NEW i \in DOMAIN q PROVE i = 1 \/ \E j \in DOMAIN r : r[j] = q[i]
    <3>1. i # 1 => i - 1 \in 1..Len(q) - 1 /\ (i - 1) + 1 = i BY <1>1
    <3> QED BY <2>2, <3>1
  <2>4. \A j \in DOMAIN r : j + 1 \in DOMAIN q /\ r[j] = q[j + 1] BY <1>1, <2>2
  <2>5. 1 \in DOMAIN q BY <1>1, <2>2
  <2>6. Elements(q) = Elements(r) \cup {h} BY <2>2, <2>3, <2>4, <2>5 DEF Elements
  <2> QED BY <2>1, <2>6
<1>4. Elements(<<>>) = {} BY DEF Elements
<1> QED BY <1>1, <1>2, <1>3, <1>4 DEF Elements

\* Publications are not forgotten, and strays stay strays.
PubsKept == DOMAIN pubs \subseteq DOMAIN pubs' /\ strayed \subseteq strayed'

LEMMA NewsMeans ==
  ASSUME NEW c \in Client, PubsKept, gid'[c] = gid[c]
  PROVE  \A m : ForHolder(c, m) => ForHolder(c, m)'
BY DEF ForHolder, PubsKept

\* A queue of c becomes another one with no other messages.
LEMMA ClientKept ==
  ASSUME NEW c \in Client, Steady(c), ClientOK(c), PubsKept,
         up'[c] = up[c], respQ'[c] = respQ[c], down'[c] = down[c] \/ down'[c] = <<>>
  PROVE  ClientOK(c)'
<1>1. Elements(<<>>) = {} BY DEF Elements
<1>2. Elements(down'[c]) \subseteq Elements(down[c]) BY <1>1
<1>3. SentOK(c)' BY SteadyMeans DEF SentOK, ClientOK, Elements
<1>4. AnswersOK(c)' BY <1>2, SteadyMeans DEF AnswersOK, ClientOK, Elements
<1>5. LastOK(c)' BY DEF LastOK, ClientOK
<1>6. NewsOK(c)' BY <1>2, NewsMeans DEF NewsOK, ClientOK, Steady, Elements
<1> QED BY <1>3, <1>4, <1>5, <1>6, SteadyMeans DEF ClientOK

\* The requests in a queue are still those of the clients that have not changed.
LEMMA QueuedKept ==
  ASSUME NEW b \in Broker, NEW m, FirstHand(m) => OfClient(b, m),
         \A c \in Client : Home[c] = b => Steady(c) \/ ~Own(c, m)
  PROVE  FirstHand(m)' => OfClient(b, m)'
<1>1. FirstHand(m)' <=> FirstHand(m) BY DEF FirstHand
<1>2. ASSUME NEW c \in Client, Home[c] = b, Own(c, m), Pending(c, m)
      PROVE  Own(c, m)' /\ Pending(c, m)'
  BY <1>2, SteadyMeans
<1> QED BY <1>1, <1>2 DEF OfClient

\* A worker that does nothing stays as it is.
LEMMA BusyKept ==
  ASSUME NEW b \in Broker, BusyOK(b), wpc'[b] = wpc[b], wmsg'[b] = wmsg[b],
         \A c \in Client : Home[c] = b => Steady(c) \/ ~Serves(c)
  PROVE  BusyOK(b)'
<1>1. PICK m : m = wmsg[b] /\ m = wmsg'[b] OBVIOUS
<1>2. wpc[b] \in {"subscribe", "publish", "delete"} /\ (FirstHand(m) => OfClient(b, m)) =>
        (FirstHand(m)' => OfClient(b, m)')
  <2> SUFFICES ASSUME wpc[b] \in {"subscribe", "publish", "delete"}, FirstHand(m) => OfClient(b, m)
               PROVE  FirstHand(m)' => OfClient(b, m)'
    OBVIOUS
  <2>1. \A c \in Client : Home[c] = b => Steady(c) \/ ~Own(c, m) BY <1>1 DEF Serves
  <2> QED BY <2>1, QueuedKept
<1>3. ASSUME \/ wpc[b] \in {"add_user", "add_id", "remove_id", "respond"}
             \/ wpc[b] = "fan_out" /\ m.broker_id = b,
             ClientOf(b, m.mtype), BusyWith(b, m.mtype)
      PROVE  BusyWith(b, m.mtype)'
  <2>1. PICK x \in Client : x = m.mtype /\ Home[x] = b BY <1>3 DEF ClientOf
  <2>2. Serves(x) BY <1>1, <1>3, <2>1 DEF Serves
  <2>3. Steady(x) BY <2>1, <2>2
  <2>4. PICK g, h : g = gid[x] /\ h = wmsg[b].global_id OBVIOUS
  <2>5. Entered(x, g)' <=> Entered(x, g) BY <2>3 DEF Steady
  <2>6. BusyWith(b, x)'
    BY <1>1, <1>3, <2>1, <2>3, <2>4, <2>5, SteadyMeans DEF BusyWith, Steady
  <2> QED BY <2>1, <2>6
<1> QED BY <1>1, <1>2, <1>3 DEF BusyOK, ClientOf

-----------------------------------------------------------------------------
(* The places of a request.                                                *)

InUp(c, e) == \E i \in DOMAIN up[c] : e = <<"up", c, i>>
InWork(c, e) == \E i \in DOMAIN workerQ[Home[c]] :
                  Own(c, workerQ[Home[c]][i]) /\ e = <<"work", Home[c], i>>
InWorker(c, e) == Serves(c) /\ e = <<"worker", Home[c], 0>>
InResp(c, e) == \E i \in DOMAIN respQ[c] : respQ[c][i].type \in Ack /\ e = <<"resp", c, i>>
InDown(c, e) == \E i \in DOMAIN down[c] : down[c][i].type \in Ack /\ e = <<"down", c, i>>

PlaceOf(c, e) == InUp(c, e) \/ InWork(c, e) \/ InWorker(c, e) \/ InResp(c, e) \/ InDown(c, e)

LEMMA PlacesAre ==
  ASSUME NEW c \in Client, NEW e
  PROVE  /\ e \in Places(c) <=> PlaceOf(c, e)
         /\ e \in Places(c)' <=> PlaceOf(c, e)'
<1>1. Home[c] \in Broker BY Constants
<1> DEFINE U == {<<"up", c, i>> : i \in DOMAIN up[c]}
           W == {<<"work", Home[c], i>> :
                   i \in {j \in DOMAIN workerQ[Home[c]] : Own(c, workerQ[Home[c]][j])}}
           K == {<<"worker", d, 0>> : d \in {b \in Broker : b = Home[c] /\ Serves(c)}}
           R == {<<"resp", c, i>> : i \in {j \in DOMAIN respQ[c] : respQ[c][j].type \in Ack}}
           D == {<<"down", c, i>> : i \in {j \in DOMAIN down[c] : down[c][j].type \in Ack}}
<1>2. e \in Places(c) <=> e \in U \/ e \in W \/ e \in K \/ e \in R \/ e \in D
  <2>1. Places(c) = UNION {U, W, K, R, D} BY Zenon DEF Places
  <2> HIDE DEF U, W, K, R, D
  <2> QED BY <2>1
<1>3. /\ e \in U <=> InUp(c, e)
      /\ e \in W <=> InWork(c, e)
      /\ e \in K <=> InWorker(c, e)
      /\ e \in R <=> InResp(c, e)
      /\ e \in D <=> InDown(c, e)
  BY <1>1 DEF InUp, InWork, InWorker, InResp, InDown
<1>4. e \in Places(c)' <=> e \in U' \/ e \in W' \/ e \in K' \/ e \in R' \/ e \in D'
  <2>1. Places(c)' = UNION {U', W', K', R', D'} BY Zenon DEF Places
  <2> HIDE DEF U, W, K, R, D
  <2> QED BY <2>1
<1>5. /\ e \in U' <=> InUp(c, e)'
      /\ e \in W' <=> InWork(c, e)'
      /\ e \in K' <=> InWorker(c, e)'
      /\ e \in R' <=> InResp(c, e)'
      /\ e \in D' <=> InDown(c, e)'
  BY <1>1 DEF InUp, InWork, InWorker, InResp, InDown
<1> QED BY <1>2, <1>3, <1>4, <1>5 DEF PlaceOf

LEMMA PlacesStay ==
  ASSUME NEW c \in Client, PlacesOK(c), Steady(c),
         \A e : PlaceOf(c, e)' => PlaceOf(c, e),
         conn'[c] # "on" \/ \A e : PlaceOf(c, e) => PlaceOf(c, e)'
  PROVE  PlacesOK(c)'
<1>1. Places(c)' \subseteq Places(c) BY PlacesAre
<1>2. conn'[c] # "on" \/ Places(c) \subseteq Places(c)' BY PlacesAre
<1>3. PICK C, D : C = Places(c) /\ D = Places(c)' OBVIOUS
<1>4. Single(C) => Single(D) BY <1>1, <1>3 DEF Single
<1>5. wait[c] # "none" => conn'[c] # "on" \/ conn[c] = "on" BY DEF Steady
<1> QED BY <1>1, <1>2, <1>3, <1>4, <1>5 DEF PlacesOK, Steady, Request

\* The queues of c stay, and so does the worker as far as c is concerned.
LEMMA PlacesUntouched ==
  ASSUME NEW c \in Client, PlacesOK(c), Steady(c),
         up'[c] = up[c], workerQ'[Home[c]] = workerQ[Home[c]],
         respQ'[c] = respQ[c], down'[c] = down[c], Serves(c)' <=> Serves(c)
  PROVE  PlacesOK(c)'
<1>1. ASSUME NEW e PROVE PlaceOf(c, e)' <=> PlaceOf(c, e)
  <2>1. InWork(c, e)' <=> InWork(c, e) BY SteadyMeans DEF InWork
  <2> QED BY <2>1 DEF PlaceOf, InUp, InWorker, InResp, InDown
<1> QED BY <1>1, PlacesStay

\* What a client that is served has elsewhere: nothing.
LEMMA ServedAlone ==
  ASSUME NEW c \in Client, PlacesOK(c), Serves(c)
  PROVE  /\ up[c] \in Seq(Msg) => up[c] = <<>>
         /\ \A i \in DOMAIN workerQ[Home[c]] : ~Own(c, workerQ[Home[c]][i])
         /\ \A i \in DOMAIN respQ[c] : respQ[c][i].type \notin Ack
         /\ \A i \in DOMAIN down[c] : down[c][i].type \notin Ack
         /\ \A e : PlaceOf(c, e) <=> e = <<"worker", Home[c], 0>>
<1>1. PICK C, b : C = Places(c) /\ b = Home[c] OBVIOUS
<1>2. <<"worker", b, 0>> \in C BY <1>1, PlacesAre DEF PlaceOf, InWorker
<1>3. ASSUME NEW e, PlaceOf(c, e) PROVE e = <<"worker", b, 0>>
  <2>1. e \in C /\ Single(C) BY <1>1, <1>3, PlacesAre DEF PlacesOK
  <2> QED BY <1>2, <2>1 DEF Single
<1>4. ASSUME NEW i \in DOMAIN up[c] PROVE FALSE
  <2>1. PlaceOf(c, <<"up", c, i>>) BY DEF PlaceOf, InUp
  <2> QED BY <1>3, <2>1
<1>5. ASSUME NEW i \in DOMAIN workerQ[b], Own(c, workerQ[b][i]) PROVE FALSE
  <2>1. PlaceOf(c, <<"work", b, i>>) BY <1>1, <1>5 DEF PlaceOf, InWork
  <2> QED BY <1>3, <2>1
<1>6. ASSUME NEW i \in DOMAIN respQ[c], respQ[c][i].type \in Ack PROVE FALSE
  <2>1. PlaceOf(c, <<"resp", c, i>>) BY <1>6 DEF PlaceOf, InResp
  <2> QED BY <1>3, <2>1
<1>7. ASSUME NEW i \in DOMAIN down[c], down[c][i].type \in Ack PROVE FALSE
  <2>1. PlaceOf(c, <<"down", c, i>>) BY <1>7 DEF PlaceOf, InDown
  <2> QED BY <1>3, <2>1
<1>8. ASSUME up[c] \in Seq(Msg) PROVE up[c] = <<>>
  <2>1. Len(up[c]) \in Nat /\ DOMAIN up[c] = 1..Len(up[c]) BY <1>8, LenProperties
  <2>2. 1 \notin DOMAIN up[c] BY <1>4
  <2>3. Len(up[c]) = 0 BY <2>1, <2>2
  <2> QED BY <1>8, <2>3, EmptySeq
<1> QED BY <1>1, <1>3, <1>5, <1>6, <1>7, <1>8 DEF PlaceOf, InWorker

\* The worker serves one client at a time.
LEMMA OneServed ==
  ASSUME EntriesUnique, NEW c \in Client, NEW d \in Client, Home[c] = Home[d],
         Serves(c), Serves(d)
  PROVE  c = d
<1>1. PICK m : m = wmsg[Home[c]] OBVIOUS
<1>2. Own(c, m) /\ Own(d, m) => c = d BY OwnUnique
<1> QED BY <1>1, <1>2 DEF Serves

LEMMA OwnPending ==
  ASSUME EntriesUnique, NEW c \in Client, NEW m, Own(c, m),
         FirstHand(m) => OfClient(Home[c], m)
  PROVE  Pending(c, m)
<1>1. FirstHand(m) BY DEF Own, FirstHand
<1>2. PICK d \in Client : Home[d] = Home[c] /\ Own(d, m) /\ Pending(d, m) BY <1>1 DEF OfClient
<1>3. d = c BY <1>2, OwnUnique
<1> QED BY <1>2, <1>3

\* A client that does not wait has no request and no answer anywhere.
LEMMA IdlePlaces ==
  ASSUME Inv, IdsInv, NEW c \in Client, wait[c] = "none"
  PROVE  \A e : ~PlaceOf(c, e)
<1>1. PICK b \in Broker : b = Home[c] BY Constants
<1>2. \A m \in Msg : ~Pending(c, m) BY DEF Pending, Msg, Request, Ack
<1>3. \A m : ~Answered(c, m) BY DEF Answered
<1>4. EntriesUnique /\ ClientOK(c) /\ QueuedOK(b) /\ BusyOK(b) BY DEF IdsInv, IdsOK, ServedOK
<1>5. c \in Connection /\ up[c] \in Seq(Msg) /\ workerQ[b] \in Seq(Msg) /\ wmsg[b] \in Msg
  BY DEF Connection, Inv, UpOK, WorkQOK, WorkersOK
<1>6. ASSUME NEW e, InUp(c, e) PROVE FALSE
  <2>1. PICK i \in DOMAIN up[c] : TRUE BY <1>6 DEF InUp
  <2>2. up[c][i] \in Msg /\ up[c][i] \in Elements(up[c])
    BY <1>5, LenProperties, ElementOfSeq DEF Elements
  <2> QED BY <1>2, <1>4, <2>2 DEF ClientOK, SentOK
<1>7. ASSUME NEW e, InWork(c, e) PROVE FALSE
  <2>1. PICK i \in DOMAIN workerQ[b] : Own(c, workerQ[b][i]) BY <1>1, <1>7 DEF InWork
  <2>2. PICK m : m = workerQ[b][i] OBVIOUS
  <2>3. m \in Msg /\ m \in Elements(workerQ[b])
    BY <1>5, <2>2, LenProperties, ElementOfSeq DEF Elements
  <2>4. Pending(c, m) BY <1>1, <1>4, <2>1, <2>2, <2>3, OwnPending DEF QueuedOK
  <2> QED BY <1>2, <2>3, <2>4
<1>8. ASSUME Serves(c) PROVE FALSE
  <2>1. PICK m : m = wmsg[b] OBVIOUS
  <2>2. CASE wpc[b] \in {"subscribe", "publish", "delete"} /\ Own(c, m)
    <3>1. Pending(c, m) BY <1>1, <1>4, <2>1, <2>2, OwnPending DEF BusyOK
    <3> QED BY <1>2, <1>5, <2>1, <3>1
  <2>3. CASE /\ m.mtype = c
             /\ \/ wpc[b] \in {"add_user", "add_id", "remove_id", "respond"}
                \/ wpc[b] = "fan_out" /\ m.broker_id = b
    <3>1. BusyWith(b, c) BY <1>4, <2>1, <2>3 DEF BusyOK
    <3> QED BY <1>3, <2>1, <2>3, <3>1 DEF BusyWith
  <2> QED BY <1>1, <1>8, <2>1, <2>2, <2>3 DEF Serves
<1>9. ASSUME NEW e, InResp(c, e) \/ InDown(c, e) PROVE FALSE
  <2>1. PICK m \in Elements(respQ[c]) \cup Elements(down[c]) : m.type \in Ack
    BY <1>9 DEF InResp, InDown, Elements
  <2> QED BY <1>3, <1>4, <2>1 DEF ClientOK, AnswersOK
<1> QED BY <1>6, <1>7, <1>8, <1>9 DEF PlaceOf, InWorker

-----------------------------------------------------------------------------
(* Steps that move no request.                                             *)

\* Nothing that is about ids changes but what the workers do with the lists.
TablesAlone ==
  /\ UNCHANGED <<ids, users, topics, gid>>
  /\ \A b \in Broker : Leaving(b)' = Leaving(b)
  /\ \A b \in Broker : wpc'[b] = "add_id" =>
       wpc[b] = "add_id" /\ wmsg'[b].global_id = wmsg[b].global_id
  /\ PubsKept

LEMMA TablesAloneSteady ==
  ASSUME TablesAlone, NEW c \in Client, wait'[c] = wait[c],
         conn'[c] = "off" => conn[c] = "off",
         conn'[c] = "on" => conn[c] = "on" \/ wait[c] = "none"
  PROVE  Steady(c)
<1>1. PICK b \in Broker : b = Home[c] BY Constants
<1>2. PICK L : L = Leaving(b) /\ L = Leaving(b)' BY DEF TablesAlone
<1> QED BY <1>1, <1>2 DEF TablesAlone, Steady, HasEntry, Entered, Owner

LEMMA TablesAloneMost ==
  ASSUME IdsOK, TablesAlone
  PROVE  EntriesUnique' /\ EntriesOwned' /\ OwnersUnique' /\ LinesOwned'
         /\ \A b \in Broker : Reserved(b)'
<1>1. \A c \in Client : Leaving(Home[c])' = Leaving(Home[c]) BY Constants DEF TablesAlone
<1>2. \A c \in Client : \A id : Owner(c, id)' <=> Owner(c, id)
  BY <1>1 DEF TablesAlone, Owner, Entered
<1>3. EntriesUnique' /\ EntriesOwned' BY <1>1 DEF IdsOK, TablesAlone, EntriesUnique, EntriesOwned
<1>4. OwnersUnique' BY <1>2 DEF IdsOK, TablesAlone, OwnersUnique
<1>5. LinesOwned' BY <1>2 DEF IdsOK, TablesAlone, LinesOwned
<1>6. ASSUME NEW b \in Broker PROVE Reserved(b)'
  <2>1. SUFFICES ASSUME wpc'[b] = "add_id" PROVE Reserved(b)' BY DEF Reserved
  <2>2. PICK k : k = wmsg[b].global_id /\ k = wmsg'[b].global_id BY <2>1 DEF TablesAlone
  <2>3. wpc[b] = "add_id" /\ Reserved(b) BY <2>1 DEF TablesAlone, IdsOK
  <2> QED BY <1>2, <2>1, <2>2, <2>3 DEF Reserved, TablesAlone
<1> QED BY <1>3, <1>4, <1>5, <1>6

LEMMA TablesAloneOK ==
  ASSUME IdsOK, TablesAlone,
         \A b \in Broker : wpc'[b] = "fan_out" =>
           wpc[b] = "fan_out" /\ wmsg'[b].pub = wmsg[b].pub /\ wsubs'[b] \subseteq wsubs[b]
  PROVE  IdsOK'
<1>1. ListsOwned' BY DEF IdsOK, TablesAlone, ListsOwned, Entered, PubsKept
<1> QED BY <1>1, TablesAloneMost DEF IdsOK

LEMMA ServesKept ==
  ASSUME NEW c \in Client, Steady(c), wpc'[Home[c]] = wpc[Home[c]],
         wmsg'[Home[c]] = wmsg[Home[c]]
  PROVE  Serves(c)' <=> Serves(c)
<1>1. PICK m : m = wmsg[Home[c]] /\ m = wmsg'[Home[c]] OBVIOUS
<1>2. Own(c, m)' <=> Own(c, m) BY SteadyMeans
<1> QED BY <1>1, <1>2 DEF Serves

LEMMA NobodyMoves ==
  ASSUME Inv, IdsInv, PubsKept, workerQ' = workerQ,
         \A c \in Client : /\ Steady(c)
                           /\ up'[c] = up[c] /\ respQ'[c] = respQ[c]
                           /\ down'[c] = down[c] \/ (down'[c] = <<>> /\ conn'[c] # "on")
                           /\ Serves(c)' <=> Serves(c),
         \A b \in Broker : BusyOK(b)'
  PROVE  ServedOK'
<1>1. ASSUME NEW c \in Client PROVE ClientOK(c)' BY ClientKept DEF IdsInv, ServedOK
<1>2. ASSUME NEW c \in Client PROVE PlacesOK(c)'
  <2>1. PlacesOK(c) /\ Steady(c) BY DEF IdsInv, ServedOK
  <2>2. CASE down'[c] = down[c] BY <2>1, <2>2, PlacesUntouched
  <2>3. CASE down'[c] = <<>> /\ conn'[c] # "on"
    <3>1. ASSUME NEW e, PlaceOf(c, e)' PROVE PlaceOf(c, e)
      <4>1. InWork(c, e)' <=> InWork(c, e) BY <2>1, SteadyMeans DEF InWork
      <4>2. ~InDown(c, e)' BY <2>3 DEF InDown
      <4> QED BY <3>1, <4>1, <4>2 DEF PlaceOf, InUp, InWorker, InResp
    <3> QED BY <2>1, <2>3, <3>1, PlacesStay
  <2> QED BY <2>2, <2>3
<1>3. ASSUME NEW b \in Broker PROVE QueuedOK(b)'
  <2>1. \A m : FirstHand(m) => OfClient(b, m) \/ m \notin Elements(workerQ[b])
    BY DEF IdsInv, ServedOK, QueuedOK
  <2>2. \A m : (FirstHand(m) => OfClient(b, m)) => (FirstHand(m)' => OfClient(b, m)')
    BY QueuedKept
  <2> QED BY <2>1, <2>2 DEF QueuedOK, Elements, FirstHand
<1> QED BY <1>1, <1>2, <1>3 DEF ServedOK

\* The same, for the steps of other processes than the workers.
LEMMA WorkersIdle ==
  ASSUME Inv, IdsInv, PubsKept, UNCHANGED <<workerQ, workerPart>>,
         \A c \in Client : /\ Steady(c)
                           /\ up'[c] = up[c] /\ respQ'[c] = respQ[c]
                           /\ down'[c] = down[c] \/ (down'[c] = <<>> /\ conn'[c] # "on")
  PROVE  ServedOK'
<1>1. \A c \in Client : Serves(c)' <=> Serves(c) BY ServesKept DEF workerPart
<1>2. \A b \in Broker : BusyOK(b)' BY BusyKept DEF IdsInv, ServedOK, workerPart
<1> QED BY <1>1, <1>2, NobodyMoves DEF workerPart

LEMMA OutsideIds ==
  ASSUME Inv, IdsInv,
         \/ \E b \in Broker : RingConnect(b) \/ StartServing(b) \/ RingRespHandler(b)
         \/ \E c \in Client : AcceptClient(c) \/ LoseClient(c) \/ EndHandlers(c)
         \/ UNCHANGED vars
  PROVE  IdsInv'
<1>1. UNCHANGED <<ids, users, topics, workerQ, wpc, wmsg, wsubs, wrelayed, gid, wait, strayed>>
  BY DEF RingConnect, StartServing, RingRespHandler, AcceptClient, LoseClient, EndHandlers,
         vars, dbVars, workerPart, clientPart
<1>2. DOMAIN pubs' = DOMAIN pubs
  BY DEF RingConnect, StartServing, RingRespHandler, AcceptClient, LoseClient, EndHandlers, vars
<1>3. PubsKept BY <1>1, <1>2 DEF PubsKept
<1>4. TablesAlone BY <1>1, <1>3 DEF TablesAlone, Leaving
<1>5. IdsOK' BY <1>1, <1>4, TablesAloneOK DEF IdsInv
<1>6. ASSUME NEW c \in Client
      PROVE  /\ conn'[c] = "off" => conn[c] = "off"
             /\ conn'[c] = "on" => conn[c] = "on" \/ wait[c] = "none"
  <2>1. conn[c] = "off" => wait[c] = "none" BY DEF IdsInv, ServedOK, ClientOK, Holds
  <2>2. CASE conn' = conn BY <2>2
  <2>3. ASSUME NEW d \in Client, AcceptClient(d)
        PROVE  conn'[c] = conn[c] \/ (conn'[c] = "on" /\ conn[c] = "off")
    BY <2>1, <2>3 DEF AcceptClient, Inv, ClientsOK
  <2>4. ASSUME NEW d \in Client, LoseClient(d) \/ EndHandlers(d)
        PROVE  conn'[c] = conn[c] \/ conn'[c] \in {"lost", "ended"}
    BY <2>4 DEF LoseClient, EndHandlers, Inv, ClientsOK
  <2> QED BY <2>1, <2>2, <2>3, <2>4 DEF RingConnect, StartServing, RingRespHandler, vars
<1>7. \A c \in Client : Steady(c) BY <1>1, <1>4, <1>6, TablesAloneSteady
<1>8. ASSUME NEW c \in Client
      PROVE  /\ up'[c] = up[c] /\ respQ'[c] = respQ[c]
             /\ down'[c] = down[c] \/ (down'[c] = <<>> /\ conn'[c] # "on")
  <2>0. c \in Connection /\ \A b \in Broker : Succ(b) # c /\ b # c
    BY Constants, SuccBroker DEF Connection
  <2>1. CASE \/ \E b \in Broker : RingConnect(b) \/ StartServing(b)
             \/ \E d \in Client : AcceptClient(d) \/ EndHandlers(d)
             \/ UNCHANGED vars
    BY <2>1 DEF RingConnect, StartServing, AcceptClient, EndHandlers, vars
  <2>2. CASE \E b \in Broker : RingRespHandler(b)
    BY <2>0, <2>2 DEF RingRespHandler, Inv, UpOK, RespQOK
  <2>3. ASSUME NEW d \in Client, LoseClient(d)
        PROVE  /\ up' = up /\ respQ' = respQ
               /\ down'[c] = down[c] \/ (down'[c] = <<>> /\ conn'[c] # "on")
    BY <2>3 DEF LoseClient, Inv, DownOK, ClientsOK
  <2> QED BY <2>1, <2>2, <2>3
<1>9. ServedOK' BY <1>1, <1>3, <1>7, <1>8, WorkersIdle DEF workerPart
<1> QED BY <1>5, <1>9 DEF IdsInv

\* The first entry of a table is not a client's.
LEMMA RingRegisterIds ==
  ASSUME Inv, IdsInv, NEW b \in Broker, RingRegister(b)
  PROVE  IdsInv'
<1>1. /\ ring[b] = "connected" /\ ids' = [ids EXCEPT ![b] = AddGlobalId(ids[b], 0, b)]
      /\ UNCHANGED <<users, topics, workerQ, wpc, wmsg, wsubs, wrelayed, gid, wait, strayed,
                     conn, up, respQ, down, pubs>>
  BY DEF RingRegister, dbVars, workerPart, clientPart, NEXT_SERVER_GLOBAL_ID
<1>2. ids[b] = <<>>
  <2>1. ids[b] \in Seq([global_id : Nat, mtype : Connection]) BY DEF Inv, TablesOK
  <2>2. ~Linked(b) BY <1>1 DEF Linked
  <2>3. \A i \in 1..Len(ids[b]) : FALSE BY <2>2 DEF Inv, TablesOK
  <2>4. Len(ids[b]) = 0 BY <2>1, <2>3, LenProperties
  <2> QED BY <2>1, <2>4, EmptySeq
<1>3. PICK t : t = AddGlobalId(ids[b], 0, b) OBVIOUS
<1>4. DOMAIN t = {1} /\ t[1] = Entry(0, b) BY <1>2, <1>3 DEF AddGlobalId
<1>5. ids'[b] = t /\ \A d \in Broker : d # b => ids'[d] = ids[d] BY <1>1, <1>3 DEF Inv, TablesOK
<1>6. \A id : \A c \in Client : Entry(0, b) # Entry(id, c) /\ Entry(0, b).mtype # c
  BY Constants DEF Entry
<1>7. \A d \in Broker : Leaving(d)' = Leaving(d) BY <1>1 DEF Leaving
<1>8. ASSUME NEW c \in Client
      PROVE  /\ HasEntry(c)' <=> HasEntry(c)
             /\ \A id : Entered(c, id)' <=> Entered(c, id)
             /\ \A id : Owner(c, id)' <=> Owner(c, id)
             /\ Steady(c)
  <2>1. PICK h \in Broker : h = Home[c] BY Constants
  <2>2. HasEntry(c)' <=> HasEntry(c)
    <3>1. CASE h = b
      <4>1. ~HasEntry(c) BY <1>2, <2>1, <3>1 DEF HasEntry
      <4>2. ~HasEntry(c)' BY <1>4, <1>5, <1>6, <2>1, <3>1 DEF HasEntry
      <4> QED BY <4>1, <4>2
    <3>2. CASE h # b BY <1>5, <2>1, <3>2 DEF HasEntry
    <3> QED BY <3>1, <3>2
  <2>3. \A id : Entered(c, id)' <=> Entered(c, id)
    BY <1>2, <1>4, <1>5, <1>6, <2>1 DEF Entered, Has
  <2>4. \A id : Owner(c, id)' <=> Owner(c, id) BY <1>1, <1>7, <2>1, <2>3 DEF Owner
  <2> QED BY <1>1, <2>2, <2>3, <2>4 DEF Steady
<1>9. EntriesUnique' BY <1>4, <1>5 DEF IdsInv, IdsOK, EntriesUnique, UniqueTable
<1>10. EntriesOwned'
  <2> SUFFICES ASSUME NEW c \in Client, NEW i \in DOMAIN ids'[Home[c]], ids'[Home[c]][i].mtype = c,
                      ids'[Home[c]][i].global_id \notin Leaving(Home[c])'
               PROVE  ids'[Home[c]][i].global_id \in users'
    BY DEF EntriesOwned
  <2>1. PICK h \in Broker : h = Home[c] BY Constants
  <2>2. h # b BY <1>4, <1>5, <1>6, <2>1
  <2> QED BY <1>1, <1>5, <1>7, <2>1, <2>2 DEF IdsInv, IdsOK, EntriesOwned
<1>11. OwnersUnique' BY <1>1, <1>8 DEF IdsInv, IdsOK, OwnersUnique
<1>12. LinesOwned' BY <1>1, <1>8 DEF IdsInv, IdsOK, LinesOwned
<1>13. ListsOwned' BY <1>1, <1>8 DEF IdsInv, IdsOK, ListsOwned
<1>14. ASSUME NEW d \in Broker PROVE Reserved(d)'
  <2>1. PICK k : k = wmsg[d].global_id /\ k = wmsg'[d].global_id BY <1>1
  <2>2. Reserved(d) BY DEF IdsInv, IdsOK
  <2> QED BY <1>1, <1>8, <2>1, <2>2 DEF Reserved
<1>15. PubsKept BY <1>1 DEF PubsKept
<1>16. ServedOK' BY <1>1, <1>8, <1>15, WorkersIdle DEF workerPart
<1> QED BY <1>9, <1>10, <1>11, <1>12, <1>13, <1>14, <1>16 DEF IdsInv, IdsOK

-----------------------------------------------------------------------------
(* The worker goes on with the request of one client.                      *)

\* The step the worker of b is at is one of those after the request of c has
\* been looked up.
LooksAfter(b, c) ==
  /\ \/ wpc[b] \in {"add_user", "add_id", "remove_id", "respond"}
     \/ wpc[b] = "fan_out" /\ wmsg[b].broker_id = b
  /\ wmsg[b].mtype = c

\* The worker of b goes on with the request of c, about which alone it may
\* change what is known.
GoesOnWith(b, c) ==
  /\ UNCHANGED <<up, workerQ, respQ, down, conn>>
  /\ PubsKept
  /\ gid'[c] = gid[c]
  /\ \A d \in Client : d # c => Steady(d)
  /\ \A d \in Broker : d # b => wpc'[d] = wpc[d] /\ wmsg'[d] = wmsg[d]

LEMMA ServedStays ==
  ASSUME Inv, IdsInv, NEW b \in Broker, NEW c \in Client, Home[c] = b, Serves(c),
         GoesOnWith(b, c), LooksAfter(b, c)', BusyWith(b, c)', Holds(c)',
         \A m \in Elements(workerQ[b]) : ~Own(c, m)'
  PROVE  ServedOK'
<1> USE DEF GoesOnWith
<1>1. EntriesUnique /\ ClientOK(c) /\ PlacesOK(c) BY DEF IdsInv, IdsOK, ServedOK
<1>2. /\ up[c] = <<>>
      /\ \A i \in DOMAIN workerQ[b] : ~Own(c, workerQ[b][i])
      /\ \A i \in DOMAIN respQ[c] : respQ[c][i].type \notin Ack
      /\ \A i \in DOMAIN down[c] : down[c][i].type \notin Ack
  <2>1. up[c] \in Seq(Msg) BY DEF Inv, UpOK, Connection
  <2> QED BY <1>1, <2>1, ServedAlone
<1>3. ASSUME NEW d \in Client, d # c PROVE ClientOK(d)'
  BY <1>3, ClientKept DEF IdsInv, ServedOK
<1>4. ClientOK(c)'
  <2>1. SentOK(c)' BY <1>2 DEF SentOK, Elements
  <2>2. AnswersOK(c)' BY <1>1, <1>2 DEF AnswersOK, ClientOK, Elements
  <2>3. LastOK(c)' BY <1>2 DEF LastOK, Ack
  <2>4. NewsOK(c)' BY <1>1, NewsMeans DEF NewsOK, ClientOK, Elements
  <2> QED BY <2>1, <2>2, <2>3, <2>4 DEF ClientOK
<1>5. ASSUME NEW d \in Client, d # c PROVE PlacesOK(d)'
  <2>1. Steady(d) /\ PlacesOK(d) BY <1>5 DEF IdsInv, ServedOK
  <2>2. CASE Home[d] = b
    <3>1. ~Serves(d) BY <1>1, <1>5, <2>2, OneServed
    <3>2. ~Serves(d)' BY <1>5, <2>2 DEF Serves, LooksAfter
    <3> QED BY <2>1, <3>1, <3>2, PlacesUntouched
  <2>3. CASE Home[d] # b
    <3>1. Home[d] \in Broker BY Constants
    <3>2. Serves(d)' <=> Serves(d) BY <2>1, <2>3, <3>1, ServesKept
    <3> QED BY <2>1, <3>2, PlacesUntouched
  <2> QED BY <2>2, <2>3
<1>6. PlacesOK(c)'
  <2>1. Serves(c)' BY DEF Serves, LooksAfter
  <2>2. ASSUME NEW e PROVE PlaceOf(c, e)' <=> e = <<"worker", b, 0>>
    <3>1. ~InUp(c, e)' BY <1>2 DEF InUp
    <3>2. ~InWork(c, e)'
      <4>1. SUFFICES ASSUME NEW i \in DOMAIN workerQ[b], Own(c, workerQ[b][i])' PROVE FALSE
        BY DEF InWork
      <4>2. PICK m : m = workerQ[b][i] OBVIOUS
      <4>3. m \in Elements(workerQ[b]) BY <4>2 DEF Elements
      <4> QED BY <4>1, <4>2, <4>3 DEF Own
    <3>3. ~InResp(c, e)' /\ ~InDown(c, e)' BY <1>2 DEF InResp, InDown
    <3> QED BY <2>1, <3>1, <3>2, <3>3 DEF PlaceOf, InWorker
  <2>3. PICK D : D = Places(c)' OBVIOUS
  <2>4. \A e : e \in D <=> e = <<"worker", b, 0>> BY <2>2, <2>3, PlacesAre
  <2>5. Single(D) BY <2>4 DEF Single
  <2>6. <<"worker", b, 0>> \in D BY <2>4
  <2> QED BY <2>3, <2>5, <2>6 DEF PlacesOK
<1>7. ASSUME NEW d \in Broker PROVE QueuedOK(d)'
  <2>1. ASSUME NEW m \in Elements(workerQ[d]) PROVE FirstHand(m)' => OfClient(d, m)'
    <3>1. FirstHand(m) => OfClient(d, m) BY DEF IdsInv, ServedOK, QueuedOK
    <3>2. ASSUME NEW x \in Client, Home[x] = d PROVE Steady(x) \/ ~Own(x, m)
      <4>1. x = c => ~Own(x, m) BY <1>2, <3>2 DEF Elements
      <4> QED BY <4>1
    <3> QED BY <3>1, <3>2, QueuedKept
  <2> QED BY <2>1 DEF QueuedOK, Elements
<1>8. ASSUME NEW d \in Broker PROVE BusyOK(d)'
  <2>1. CASE d = b BY <2>1 DEF BusyOK, LooksAfter, ClientOf
  <2>2. CASE d # b
    <3>1. \A x \in Client : Home[x] = d => Steady(x) BY <2>2
    <3> QED BY <2>2, <3>1, BusyKept DEF IdsInv, ServedOK
  <2> QED BY <2>1, <2>2
<1> QED BY <1>3, <1>4, <1>5, <1>6, <1>7, <1>8 DEF ServedOK

\* The client the worker is busy with.
LEMMA BusyClient ==
  ASSUME IdsInv, NEW b \in Broker,
         \/ wpc[b] \in {"add_user", "add_id", "remove_id", "respond"}
         \/ wpc[b] = "fan_out" /\ wmsg[b].broker_id = b
  PROVE  \E c \in Client : /\ Home[c] = b /\ wmsg[b].mtype = c
                           /\ Serves(c) /\ LooksAfter(b, c) /\ BusyWith(b, c)
<1>1. ClientOf(b, wmsg[b].mtype) /\ BusyWith(b, wmsg[b].mtype)
  BY DEF IdsInv, ServedOK, BusyOK
<1>2. PICK c : c = wmsg[b].mtype OBVIOUS
<1> QED BY <1>1, <1>2 DEF ClientOf, Serves, LooksAfter

\* The client whose request the worker has just taken.
LEMMA FirstClient ==
  ASSUME Inv, IdsInv, NEW b \in Broker, wpc[b] \in {"subscribe", "publish", "delete"},
         wmsg[b].broker_id = 0
  PROVE  \E c \in Client : /\ Home[c] = b /\ Serves(c)
                           /\ wait[c] = wmsg[b].type /\ wmsg[b].mtype = gid[c]
                           /\ Live(c) /\ Entered(c, gid[c]) /\ gid[c] \in users
                           /\ GetMtype(ids[b], wmsg[b].mtype) = c
<1>1. PICK m : m = wmsg[b] OBVIOUS
<1>2. FirstHand(m) /\ m.type # "CREATE"
  BY <1>1 DEF FirstHand, Inv, WorkersOK, WorkerOK, Identified, Arriving, OnRing
<1>3. OfClient(b, m) BY <1>1, <1>2 DEF IdsInv, ServedOK, BusyOK
<1>4. PICK c \in Client : Home[c] = b /\ Own(c, m) /\ Pending(c, m) BY <1>3 DEF OfClient
<1>5. wait[c] = m.type /\ m.mtype = gid[c] /\ Live(c) BY <1>2, <1>4 DEF Pending
<1>6. Serves(c) BY <1>1, <1>4 DEF Serves
<1>7. PICK g : g = gid[c] OBVIOUS
<1>8. Owner(c, g) BY <1>5, <1>7 DEF Live
<1>9. Entered(c, g) /\ g \in users BY <1>8 DEF Owner
<1>10. GetMtype(ids[b], g) = c BY <1>4, <1>9, MtypeOfOwner DEF Inv, IdsInv, IdsOK
<1> QED BY <1>1, <1>4, <1>5, <1>6, <1>7, <1>9, <1>10

LEMMA EnteredOwned ==
  ASSUME Inv, IdsInv, NEW c \in Client, NEW id, Entered(c, id)
  PROVE  /\ id \in Nat \ {0}
         /\ id \notin Leaving(Home[c]) => id \in users /\ Owner(c, id)
<1>1. \A i \in DOMAIN ids[Home[c]] :
        LET e == ids[Home[c]][i] IN
          e.mtype = c /\ e.global_id \notin Leaving(Home[c]) => e.global_id \in users
  BY DEF IdsInv, IdsOK, EntriesOwned
<1> QED BY <1>1, EntriesAre DEF Inv, Owner

\* A request in the queue of a broker is not for an id that is being given.
LEMMA ReservedAlone ==
  ASSUME Inv, IdsInv, NEW b \in Broker, wpc[b] = "add_id", NEW c \in Client, Home[c] = b,
         NEW m \in Elements(workerQ[b]), m.type # "CREATE", m.broker_id = 0
  PROVE  m.mtype # wmsg[b].global_id
<1>1. OfClient(b, m) BY DEF IdsInv, ServedOK, QueuedOK, FirstHand
<1>2. PICK d \in Client : Home[d] = b /\ Pending(d, m) BY <1>1 DEF OfClient
<1>3. PICK g, k : g = gid[d] /\ k = wmsg[b].global_id OBVIOUS
<1>4. m.mtype = g /\ Owner(d, g) BY <1>2, <1>3 DEF Pending, Live
<1>5. ~Owner(d, k) BY <1>3 DEF IdsInv, IdsOK, Reserved
<1> QED BY <1>3, <1>4, <1>5

\* The new id is nobody's: it has no entry but one that is about to go.
LEMMA CreateUserIds ==
  ASSUME Inv, IdsInv, NEW b \in Broker, CreateUser(b)
  PROVE  IdsInv'
<1>1. /\ wpc[b] = "add_user" /\ GoTo(b, "add_id", [wmsg[b] EXCEPT !.global_id = NextId])
      /\ users' = users \cup {NextId}
      /\ UNCHANGED <<topics, ids, wsubs, wrelayed, respQ, strayed,
                     ring, conn, up, workerQ, down, gid, wait, pubs>>
  BY DEF CreateUser, DbAddUser, NoFanOut, WorkerFrame, clientPart
<1>2. PICK k : k = NextId OBVIOUS
<1>3. k \notin users
  <2>1. users \in SUBSET (Nat \ {0}) /\ IsFiniteSet(users) BY DEF Inv, DbOK, DbTypeOK
  <2> QED BY <1>2, <2>1, NextIdFresh
<1>4. PICK m : m = [wmsg[b] EXCEPT !.global_id = k] OBVIOUS
<1>5. wmsg[b] \in Msg /\ m.mtype = wmsg[b].mtype /\ m.global_id = k
  BY <1>4 DEF Inv, WorkersOK, Msg
<1>6. /\ wpc'[b] = "add_id" /\ wmsg'[b] = m
      /\ \A d \in Broker : d # b => wpc'[d] = wpc[d] /\ wmsg'[d] = wmsg[d]
  BY <1>1, <1>2, <1>4 DEF GoTo, Inv, WorkersOK
<1>7. PICK c \in Client : /\ Home[c] = b /\ wmsg[b].mtype = c /\ Serves(c) /\ BusyWith(b, c)
  BY <1>1, BusyClient
<1>8. \A d \in Broker : Leaving(d)' = Leaving(d)
  BY <1>1, <1>6 DEF Leaving
<1>9. ASSUME NEW d \in Client PROVE (\A id : Owner(d, id)' <=> Owner(d, id)) /\ Steady(d)
  <2>1. PICK L : L = Leaving(Home[d]) /\ L = Leaving(Home[d])' BY <1>8, Constants
  <2>2. Entered(d, k) => k \in L BY <1>3, <2>1, EnteredOwned
  <2>3. \A id : Entered(d, id)' <=> Entered(d, id) BY <1>1 DEF Entered
  <2>4. \A id : Owner(d, id)' <=> Owner(d, id) BY <1>1, <1>2, <2>1, <2>2, <2>3 DEF Owner
  <2> QED BY <1>1, <2>3, <2>4 DEF Steady, HasEntry
<1>10. PubsKept BY <1>1 DEF PubsKept
<1>11. EntriesUnique' BY <1>1 DEF IdsInv, IdsOK, EntriesUnique
<1>12. EntriesOwned'
  <2>1. \A d \in Client : Leaving(Home[d])' = Leaving(Home[d]) BY <1>8, Constants
  <2> QED BY <1>1, <2>1 DEF IdsInv, IdsOK, EntriesOwned
<1>13. OwnersUnique'
  <2> SUFFICES ASSUME NEW x \in Client, NEW y \in Client, NEW id, Owner(x, id), Owner(y, id)
               PROVE  x = y
    BY <1>9 DEF OwnersUnique
  <2> QED BY DEF IdsInv, IdsOK, OwnersUnique, Owner
<1>14. LinesOwned' BY <1>1, <1>9 DEF IdsInv, IdsOK, LinesOwned
<1>15. ListsOwned' BY <1>1, <1>6 DEF IdsInv, IdsOK, ListsOwned, Entered
<1>16. ASSUME NEW d \in Broker, wpc'[d] = "add_id" PROVE Reserved(d)'
  <2>1. \A t \in Topic : \A l \in topics[t] : l.id \in users BY DEF Inv, DbOK, NoOrphanLines
  <2>2. \A x \in Client : ~Owner(x, k) BY <1>3 DEF Owner
  <2>3. \A x \in Broker : x # b /\ wpc[x] = "add_id" => wmsg[x].global_id \in users
    BY DEF IdsInv, IdsOK, Reserved
  <2>4. CASE d = b
    BY <1>1, <1>2, <1>3, <1>5, <1>6, <1>9, <2>1, <2>2, <2>3, <2>4 DEF Reserved
  <2>5. CASE d # b
    <3>1. PICK j : j = wmsg[d].global_id /\ j = wmsg'[d].global_id BY <1>6, <2>5
    <3>2. Reserved(d) /\ wpc[d] = "add_id" BY <1>6, <1>16, <2>5 DEF IdsInv, IdsOK
    <3>3. j \in users /\ (\A x \in Client : ~Owner(x, j)) BY <3>1, <3>2 DEF Reserved
    <3> QED BY <1>1, <1>3, <1>5, <1>6, <1>9, <2>5, <3>1, <3>2, <3>3 DEF Reserved
  <2> QED BY <2>4, <2>5
<1>17. IdsOK' BY <1>11, <1>12, <1>13, <1>14, <1>15, <1>16 DEF IdsOK, Reserved
<1>18. GoesOnWith(b, c) BY <1>1, <1>6, <1>9, <1>10 DEF GoesOnWith
<1>19. LooksAfter(b, c)' BY <1>5, <1>6, <1>7 DEF LooksAfter
<1>20. BusyWith(b, c)' BY <1>1, <1>6, <1>7, <1>9, SteadyMeans DEF BusyWith
<1>21. Holds(c)' BY <1>9, SteadyMeans DEF IdsInv, ServedOK, ClientOK
<1>22. \A n \in Elements(workerQ[b]) : ~Own(c, n)'
  <2>1. \A n \in Elements(workerQ[b]) : ~Own(c, n)
    BY <1>7, ServedAlone DEF IdsInv, ServedOK, Elements
  <2> QED BY <1>9, <2>1, SteadyMeans
<1>23. ServedOK' BY <1>7, <1>18, <1>19, <1>20, <1>21, <1>22, ServedStays
<1> QED BY <1>17, <1>23 DEF IdsInv

\* A full table: the request is refused, and the reserved id is forgotten.
LEMMA CreateIdFullIds ==
  ASSUME Inv, IdsInv, NEW b \in Broker, CreateId(b), IsFull(ids[b], MAX_CLIENTS)
  PROVE  IdsInv'
<1>1. /\ wpc[b] = "add_id" /\ GoTo(b, "respond", [wmsg[b] EXCEPT !.type = "ACK_ERROR"])
      /\ UNCHANGED <<users, topics, ids, wsubs, wrelayed, respQ, strayed,
                     ring, conn, up, workerQ, down, gid, wait, pubs>>
  BY DEF CreateId, NoFanOut, WorkerFrame, clientPart, dbVars
<1>2. PICK m : m = [wmsg[b] EXCEPT !.type = "ACK_ERROR"] OBVIOUS
<1>3. /\ m.mtype = wmsg[b].mtype /\ m.global_id = wmsg[b].global_id /\ m.type = "ACK_ERROR"
      /\ wmsg[b].global_id # 0
  BY <1>1, <1>2, TypedMsg DEF Inv, WorkersOK, WorkerOK, Ack
<1>4. /\ wpc'[b] = "respond" /\ wmsg'[b] = m
      /\ \A d \in Broker : d # b => wpc'[d] = wpc[d] /\ wmsg'[d] = wmsg[d]
  BY <1>1, <1>2 DEF GoTo, Inv, WorkersOK
<1>5. PICK c \in Client : /\ Home[c] = b /\ wmsg[b].mtype = c /\ Serves(c) /\ BusyWith(b, c)
  BY <1>1, BusyClient
<1>6. TablesAlone BY <1>1, <1>4 DEF TablesAlone, Leaving, PubsKept
<1>7. IdsOK' BY <1>1, <1>4, <1>6, TablesAloneOK DEF IdsInv
<1>8. \A d \in Client : Steady(d) BY <1>1, <1>6, TablesAloneSteady
<1>9. GoesOnWith(b, c) BY <1>1, <1>4, <1>6, <1>8 DEF GoesOnWith, TablesAlone
<1>10. LooksAfter(b, c)' BY <1>3, <1>4, <1>5 DEF LooksAfter
<1>11. BusyWith(b, c)'
  <2>1. wait[c] = "CREATE" /\ Fresh(c) BY <1>1, <1>5 DEF BusyWith
  <2>2. Answered(c, m) BY <1>3, <2>1 DEF Answered
  <2> QED BY <1>4, <1>8, <2>2, SteadyMeans DEF BusyWith
<1>12. Holds(c)' BY <1>8, SteadyMeans DEF IdsInv, ServedOK, ClientOK
<1>13. \A n \in Elements(workerQ[b]) : ~Own(c, n)'
  <2>1. \A n \in Elements(workerQ[b]) : ~Own(c, n)
    BY <1>5, ServedAlone DEF IdsInv, ServedOK, Elements
  <2> QED BY <1>8, <2>1, SteadyMeans
<1>14. ServedOK' BY <1>5, <1>9, <1>10, <1>11, <1>12, <1>13, ServedStays
<1> QED BY <1>7, <1>14 DEF IdsInv

\* The reserved id becomes the client's.
LEMMA CreateIdIds ==
  ASSUME Inv, IdsInv, NEW b \in Broker, CreateId(b), ~IsFull(ids[b], MAX_CLIENTS)
  PROVE  IdsInv'
<1>1. /\ wpc[b] = "add_id" /\ GoTo(b, "respond", [wmsg[b] EXCEPT !.type = "ACK_CREATE"])
      /\ ids' = [ids EXCEPT ![b] = AddGlobalId(ids[b], wmsg[b].global_id, wmsg[b].mtype)]
      /\ UNCHANGED <<users, topics, wsubs, wrelayed, respQ, strayed,
                     ring, conn, up, workerQ, down, gid, wait, pubs>>
  BY DEF CreateId, NoFanOut, WorkerFrame, clientPart, dbVars
<1>2. PICK m : m = [wmsg[b] EXCEPT !.type = "ACK_CREATE"] OBVIOUS
<1>3. /\ m.mtype = wmsg[b].mtype /\ m.global_id = wmsg[b].global_id /\ m.type = "ACK_CREATE"
  BY <1>1, <1>2, TypedMsg DEF Inv, WorkersOK, WorkerOK, Ack
<1>4. /\ wpc'[b] = "respond" /\ wmsg'[b] = m
      /\ \A d \in Broker : d # b => wpc'[d] = wpc[d] /\ wmsg'[d] = wmsg[d]
  BY <1>1, <1>2 DEF GoTo, Inv, WorkersOK
<1>5. PICK c \in Client : /\ Home[c] = b /\ wmsg[b].mtype = c /\ Serves(c) /\ BusyWith(b, c)
  BY <1>1, BusyClient
<1>6. wait[c] = "CREATE" /\ Fresh(c) /\ ~HasEntry(c) BY <1>1, <1>5 DEF BusyWith, Fresh
<1>7. PICK k : k = wmsg[b].global_id OBVIOUS
<1>8. /\ k \in users /\ k \in Nat \ {0}
      /\ \A d \in Client : ~Owner(d, k)
      /\ \A t \in Topic : \A l \in topics[t] : l.id # k
      /\ \A d \in Broker : d # b /\ wpc[d] = "add_id" => wmsg[d].global_id # k
  BY <1>1, <1>7 DEF IdsInv, IdsOK, Reserved, Inv, DbOK, DbTypeOK
<1>9. \A d \in Broker : Leaving(d)' = Leaving(d) BY <1>1, <1>4 DEF Leaving
<1>10. Leaving(b) = {} BY <1>1 DEF Leaving
<1>11. PICK old, t : old = ids[b] /\ t = AddGlobalId(old, k, c) OBVIOUS
<1>12. ids'[b] = t /\ \A d \in Broker : d # b => ids'[d] = ids[d]
  BY <1>1, <1>5, <1>7, <1>11 DEF Inv, TablesOK
<1>13. /\ \A e : Has(t, e) <=> Has(old, e) \/ e = Entry(k, c)
       /\ UniqueTable(t)
  <2>1. PICK S : S = [global_id : Nat, mtype : Connection] OBVIOUS
  <2>2. old \in Seq(S) /\ Entry(k, c) \in S
    BY <1>8, <1>11, <2>1 DEF Inv, TablesOK, Entry, Connection
  <2>3. \A i \in DOMAIN old : old[i].mtype # c BY <1>5, <1>6, <1>11 DEF HasEntry
  <2>4. ASSUME NEW i \in DOMAIN old, old[i].global_id = k PROVE FALSE
    <3>1. i \in 1..Len(ids[b]) BY <1>11, <2>2, LenProperties
    <3>2. ClientOf(b, old[i].mtype) BY <1>8, <1>11, <2>4, <3>1 DEF Inv, TablesOK, NEXT_SERVER_GLOBAL_ID
    <3>3. PICK d \in Client : d = old[i].mtype /\ Home[d] = b BY <3>2 DEF ClientOf
    <3>4. old[i] = Entry(k, d)
      <4>1. old[i] \in [global_id : Nat, mtype : Connection] BY <2>1, <2>2, <3>1, <1>11, ElementOfSeq
      <4> QED BY <2>4, <3>3, <4>1 DEF Entry
    <3>5. Entered(d, k) BY <1>11, <3>3, <3>4 DEF Entered, Has
    <3> QED BY <1>8, <1>10, <3>3, <3>5 DEF Owner
  <2>5. UniqueTable(old) BY <1>11 DEF IdsInv, IdsOK, EntriesUnique
  <2> QED BY <1>11, <2>2, <2>3, <2>4, <2>5, AddedEntries
<1>14. \A d \in Client : \A id : Entered(d, id)' <=> Entered(d, id) \/ (d = c /\ id = k)
  <2> SUFFICES ASSUME NEW d \in Client, NEW id
               PROVE  Entered(d, id)' <=> Entered(d, id) \/ (d = c /\ id = k)
    OBVIOUS
  <2>1. PICK h \in Broker : h = Home[d] BY Constants
  <2>2. Entry(id, d) = Entry(k, c) <=> d = c /\ id = k BY DEF Entry
  <2>3. CASE h = b BY <1>11, <1>12, <1>13, <2>1, <2>2, <2>3 DEF Entered
  <2>4. CASE h # b BY <1>5, <1>12, <2>1, <2>4 DEF Entered
  <2> QED BY <2>3, <2>4
<1>15. \A d \in Client : \A id : Owner(d, id)' <=> Owner(d, id) \/ (d = c /\ id = k)
  <2>1. \A d \in Client : Leaving(Home[d])' = Leaving(Home[d]) BY <1>9, Constants
  <2> QED BY <1>1, <1>5, <1>8, <1>10, <1>14, <2>1 DEF Owner
<1>16. ASSUME TablesOK', NEW d \in Client, d # c PROVE Steady(d)
  <2>1. /\ \A id : Entered(d, id)' <=> Entered(d, id)
        /\ \A id : Owner(d, id)' <=> Owner(d, id)
    BY <1>14, <1>15, <1>16
  <2>2. (HasEntry(d) <=> \E id : Entered(d, id)) /\ (HasEntry(d)' <=> \E id : Entered(d, id)')
    BY <1>16, EntriesAre, EntriesWillBe DEF Inv
  <2> QED BY <1>1, <2>1, <2>2 DEF Steady
<1>17. TablesOK' BY CreateIdOK DEF Inv
<1>18. \A id : ~Entered(c, id) BY <1>6, EntriesAre DEF Inv
<1>19. EntriesUnique' BY <1>12, <1>13 DEF IdsInv, IdsOK, EntriesUnique
<1>20. EntriesOwned'
  <2> SUFFICES ASSUME NEW d \in Client
               PROVE  \A id : Entered(d, id)' /\ id \notin Leaving(Home[d])' => id \in users'
    BY <1>17, EntriesWillBe DEF EntriesOwned
  <2>1. Leaving(Home[d])' = Leaving(Home[d]) BY <1>9, Constants
  <2> QED BY <1>1, <1>8, <1>14, <2>1, EnteredOwned
<1>21. OwnersUnique' BY <1>1, <1>8, <1>15 DEF IdsInv, IdsOK, OwnersUnique
<1>22. LinesOwned' BY <1>1, <1>8, <1>15 DEF IdsInv, IdsOK, LinesOwned
<1>23. ListsOwned'
  <2> SUFFICES ASSUME NEW d \in Broker, wpc'[d] = "fan_out", wmsg'[d].pub \notin strayed',
                      NEW l \in wsubs'[d], NEW x \in Client, Home[x] = d, Entered(x, l.id)'
               PROVE  gid'[x] = l.id
    BY DEF ListsOwned
  <2>1. d # b /\ wpc[d] = "fan_out" /\ wmsg'[d] = wmsg[d] /\ x # c BY <1>4, <1>5
  <2>2. Entered(x, l.id)
    <3>1. PICK j : j = l.id OBVIOUS
    <3> QED BY <1>14, <2>1, <3>1
  <2> QED BY <1>1, <2>1, <2>2 DEF IdsInv, IdsOK, ListsOwned
<1>24. ASSUME NEW d \in Broker, wpc'[d] = "add_id" PROVE Reserved(d)'
  <2>1. d # b /\ wpc[d] = "add_id" BY <1>4, <1>24
  <2>2. PICK j : j = wmsg[d].global_id /\ j = wmsg'[d].global_id BY <1>4, <2>1
  <2>3. Reserved(d) BY DEF IdsInv, IdsOK
  <2>4. j # k BY <1>8, <2>1, <2>2
  <2>5. \A x \in Client : ~Owner(x, j)' BY <1>15, <2>1, <2>2, <2>3, <2>4 DEF Reserved
  <2> QED BY <1>1, <1>4, <2>1, <2>2, <2>3, <2>5 DEF Reserved
<1>25. IdsOK' BY <1>19, <1>20, <1>21, <1>22, <1>23, <1>24 DEF IdsOK, Reserved
<1>26. GoesOnWith(b, c) BY <1>1, <1>4, <1>16, <1>17 DEF GoesOnWith, PubsKept
<1>27. LooksAfter(b, c)' BY <1>3, <1>4, <1>5 DEF LooksAfter
<1>28. BusyWith(b, c)'
  <2>1. Answered(c, m)' BY <1>1, <1>3, <1>6, <1>7, <1>15 DEF Answered, Fresh
  <2> QED BY <1>4, <2>1 DEF BusyWith
<1>29. Holds(c)' BY <1>1, <1>6 DEF Holds, Fresh, IdsInv, ServedOK, ClientOK
<1>30. ASSUME NEW n \in Elements(workerQ[b]) PROVE ~Own(c, n)'
  <2>1. ~Own(c, n) BY <1>5, ServedAlone DEF IdsInv, ServedOK, Elements
  <2>2. n.type # "CREATE" /\ n.broker_id = 0 => n.mtype # k BY <1>1, <1>5, <1>7, ReservedAlone
  <2>3. PICK j : j = n.mtype OBVIOUS
  <2>4. Entered(c, j)' <=> j = k BY <1>14, <1>18
  <2> QED BY <2>1, <2>2, <2>3, <2>4 DEF Own
<1>31. ServedOK' BY <1>5, <1>26, <1>27, <1>28, <1>29, <1>30, ServedStays
<1> QED BY <1>25, <1>31 DEF IdsInv

\* The new line is under the id of the client that asks for it.
LEMMA ProcessSubscribeIds ==
  ASSUME Inv, IdsInv, NEW b \in Broker, ProcessSubscribe(b)
  PROVE  IdsInv'
<1>1. /\ wpc[b] = "subscribe" /\ wmsg[b].type = "SUBSCRIBE" /\ wmsg[b].broker_id = 0
      /\ wmsg[b] \in Msg /\ wmsg[b].mtype \in Nat /\ wmsg[b].topic \in Topic
      /\ UNCHANGED <<ids, wsubs, wrelayed, respQ, strayed,
                     ring, conn, up, workerQ, down, gid, wait, pubs>>
  BY DEF ProcessSubscribe, NoFanOut, WorkerFrame, clientPart, Inv, WorkersOK, WorkerOK, Identified
<1>2. PICK c \in Client : /\ Home[c] = b /\ Serves(c)
                          /\ wait[c] = "SUBSCRIBE" /\ wmsg[b].mtype = gid[c]
                          /\ Live(c) /\ gid[c] \in users
                          /\ GetMtype(ids[b], wmsg[b].mtype) = c
  BY <1>1, FirstClient
<1>3. PICK g : g = gid[c] OBVIOUS
<1>4. PICK r : r = Resolved(b) OBVIOUS
<1>5. r \in Msg /\ r.global_id = g /\ r.mtype = c /\ r.topic = wmsg[b].topic /\ ~Unknown(r)
  <2>1. r \in Msg /\ r.global_id = g /\ r.topic = wmsg[b].topic
    BY <1>1, <1>2, <1>3, <1>4, ResolvedMsg DEF Inv
  <2>2. r.mtype = c BY <1>1, <1>2, <1>4 DEF Resolved, Msg
  <2>3. c # NO_MTYPE_FOUND_CODE BY Constants DEF NO_MTYPE_FOUND_CODE
  <2> QED BY <2>1, <2>2, <2>3 DEF Unknown
<1>6. PICK m : m = [r EXCEPT !.type = "ACK_OK"] OBVIOUS
<1>7. m.type = "ACK_OK" /\ m.mtype = c /\ m.global_id = g BY <1>5, <1>6, TypedMsg DEF Ack
<1>8. GoTo(b, "respond", m) /\ DbSubscribe(g, wmsg[b].topic)
  BY <1>2, <1>3, <1>4, <1>5, <1>6 DEF ProcessSubscribe
<1>9. /\ wpc'[b] = "respond" /\ wmsg'[b] = m /\ users' = users
      /\ \A d \in Broker : d # b => wpc'[d] = wpc[d] /\ wmsg'[d] = wmsg[d]
  BY <1>8 DEF GoTo, DbSubscribe, Inv, WorkersOK
<1>10. \A t \in Topic : \A l \in topics'[t] : l \in topics[t] \/ l.id = g
  <2>1. topics \in [Topic -> SUBSET Line] BY DEF Inv, DbOK, DbTypeOK
  <2>2. PICK n : n = 1 + Cardinality(topics[wmsg[b].topic]) OBVIOUS
  <2>3. topics' = [topics EXCEPT ![wmsg[b].topic] = @ \cup {[pos |-> n, id |-> g]}]
    BY <1>8, <2>2 DEF DbSubscribe
  <2> QED BY <1>1, <2>1, <2>3
<1>11. \A d \in Broker : Leaving(d)' = Leaving(d) BY <1>1, <1>9 DEF Leaving
<1>12. ASSUME NEW d \in Client PROVE Steady(d) /\ \A id : Owner(d, id)' <=> Owner(d, id)
  <2>1. Leaving(Home[d])' = Leaving(Home[d]) BY <1>11, Constants
  <2>2. \A id : Entered(d, id)' <=> Entered(d, id) BY <1>1 DEF Entered
  <2>3. \A id : Owner(d, id)' <=> Owner(d, id) BY <1>9, <2>1, <2>2 DEF Owner
  <2> QED BY <1>1, <2>2, <2>3 DEF Steady, HasEntry
<1>13. EntriesUnique' BY <1>1 DEF IdsInv, IdsOK, EntriesUnique
<1>14. EntriesOwned'
  <2>1. \A d \in Client : Leaving(Home[d])' = Leaving(Home[d]) BY <1>11, Constants
  <2> QED BY <1>1, <1>9, <2>1 DEF IdsInv, IdsOK, EntriesOwned
<1>15. OwnersUnique' BY <1>9, <1>12 DEF IdsInv, IdsOK, OwnersUnique
<1>16. Owner(c, g) /\ g \in users BY <1>2, <1>3 DEF Live
<1>17. LinesOwned'
  <2> SUFFICES ASSUME NEW t \in Topic, NEW l \in topics'[t], NEW d \in Client, Owner(d, l.id)'
               PROVE  gid'[d] = l.id
    BY DEF LinesOwned
  <2>1. PICK j : j = l.id OBVIOUS
  <2>2. Owner(d, j) BY <1>12, <2>1
  <2>3. CASE l \in topics[t] BY <1>1, <2>1, <2>2, <2>3 DEF IdsInv, IdsOK, LinesOwned
  <2>4. CASE j = g
    <3>1. d = c BY <1>16, <2>2, <2>4 DEF IdsInv, IdsOK, OwnersUnique
    <3> QED BY <1>1, <1>3, <2>1, <2>4, <3>1
  <2> QED BY <1>10, <2>1, <2>3, <2>4
<1>18. ListsOwned' BY <1>1, <1>9 DEF IdsInv, IdsOK, ListsOwned, Entered
<1>19. ASSUME NEW d \in Broker, wpc'[d] = "add_id" PROVE Reserved(d)'
  <2>1. d # b /\ wpc[d] = "add_id" BY <1>9, <1>19
  <2>2. PICK j : j = wmsg[d].global_id /\ j = wmsg'[d].global_id BY <1>9, <2>1
  <2>3. Reserved(d) BY DEF IdsInv, IdsOK
  <2>4. j # g BY <1>16, <2>1, <2>2, <2>3 DEF Reserved
  <2>5. \A x \in Client : ~Owner(x, j)' BY <1>12, <2>1, <2>2, <2>3 DEF Reserved
  <2>6. \A t \in Topic : \A l \in topics'[t] : l.id # j
    BY <1>10, <2>1, <2>2, <2>3, <2>4 DEF Reserved
  <2> QED BY <1>9, <2>1, <2>2, <2>3, <2>5, <2>6 DEF Reserved
<1>20. IdsOK' BY <1>13, <1>14, <1>15, <1>17, <1>18, <1>19 DEF IdsOK, Reserved
<1>21. GoesOnWith(b, c) BY <1>1, <1>9, <1>12 DEF GoesOnWith, PubsKept
<1>22. LooksAfter(b, c)' BY <1>7, <1>9 DEF LooksAfter
<1>23. BusyWith(b, c)'
  <2>1. Answered(c, m) BY <1>2, <1>3, <1>7 DEF Answered
  <2>2. Answered(c, m)' BY <1>12, <2>1, SteadyMeans
  <2> QED BY <1>9, <2>2 DEF BusyWith
<1>24. Holds(c)' BY <1>12, SteadyMeans DEF IdsInv, ServedOK, ClientOK
<1>25. \A n \in Elements(workerQ[b]) : ~Own(c, n)'
  <2>1. \A n \in Elements(workerQ[b]) : ~Own(c, n)
    BY <1>2, ServedAlone DEF IdsInv, ServedOK, Elements
  <2> QED BY <1>12, <2>1, SteadyMeans
<1>26. ServedOK' BY <1>2, <1>21, <1>22, <1>23, <1>24, <1>25, ServedStays
<1> QED BY <1>20, <1>26 DEF IdsInv

-----------------------------------------------------------------------------
(* A publication goes through the worker.                                  *)

\* The worker is about a publication of another broker, before and after.
PassesOn(b) ==
  /\ UNCHANGED <<up, workerQ, down, conn, wait, ring>>
  /\ \A c \in Client : respQ'[c] = respQ[c]
  /\ TablesAlone
  /\ \A d \in Broker : d # b => wpc'[d] = wpc[d] /\ wmsg'[d] = wmsg[d]
  /\ \A c \in Client : Home[c] = b => ~Serves(c)
  /\ \/ wpc'[b] = "idle"
     \/ wpc'[b] = "fan_out" /\ wmsg'[b].broker_id # b

LEMMA PassingOn ==
  ASSUME Inv, IdsInv, NEW b \in Broker, PassesOn(b)
  PROVE  ServedOK'
<1> USE DEF PassesOn
<1>1. \A c \in Client : Steady(c) BY TablesAloneSteady
<1>2. ASSUME NEW c \in Client PROVE Serves(c)' <=> Serves(c)
  <2>1. CASE Home[c] = b
    <3>1. ~Serves(c)' BY <2>1 DEF Serves
    <3> QED BY <2>1, <3>1
  <2>2. CASE Home[c] # b
    <3>1. Home[c] \in Broker BY Constants
    <3> QED BY <1>1, <2>2, <3>1, ServesKept
  <2> QED BY <2>1, <2>2
<1>3. ASSUME NEW d \in Broker PROVE BusyOK(d)'
  <2>1. CASE d = b BY <2>1 DEF BusyOK
  <2>2. CASE d # b BY <1>1, <2>2, BusyKept DEF IdsInv, ServedOK
  <2> QED BY <2>1, <2>2
<1> QED BY <1>1, <1>2, <1>3, NobodyMoves DEF TablesAlone

LEMMA PublishesOwnOrNot ==
  ASSUME Inv, IdsInv, NEW b \in Broker, wpc[b] = "publish"
  PROVE  /\ wmsg[b].broker_id # 0 => \A c \in Client : Home[c] = b => ~Serves(c)
         /\ wmsg[b].broker_id = 0 => ~Unknown(Stamped(b))
<1>1. wmsg[b].broker_id # 0 => \A c \in Client : Home[c] = b => ~Serves(c)
  BY DEF Serves, Own
<1>2. ASSUME wmsg[b].broker_id = 0 PROVE ~Unknown(Stamped(b))
  <2>1. PICK c \in Client : GetMtype(ids[b], wmsg[b].mtype) = c BY <1>2, FirstClient
  <2>2. Stamped(b).mtype = c
    <3>1. wmsg[b] \in [mtype : Int \cup Client, global_id : Nat, type : Request \cup Ack,
                       topic : Topic \cup {NoTopic}, pub : Nat, broker_id : {0} \cup Broker]
      BY DEF Inv, WorkersOK, Msg
    <3> QED BY <2>1, <3>1 DEF Stamped, Resolved
  <2> QED BY <2>2, Constants DEF Unknown, NO_MTYPE_FOUND_CODE
<1> QED BY <1>1, <1>2

LEMMA ForgetsIds ==
  ASSUME Inv, IdsInv, NEW b \in Broker, wpc[b] # "remove_id",
         \A c \in Client : Home[c] = b => ~Serves(c),
         Forget(b), WorkerFrame, UNCHANGED <<dbVars, ids, respQ, strayed>>
  PROVE  IdsInv'
<1>1. UNCHANGED <<users, topics, ids, respQ, strayed, ring, conn, up, workerQ, down, gid, wait, pubs>>
  BY DEF WorkerFrame, clientPart, dbVars
<1>2. /\ wpc'[b] = "idle"
      /\ \A d \in Broker : d # b => wpc'[d] = wpc[d] /\ wmsg'[d] = wmsg[d] /\ wsubs'[d] = wsubs[d]
  BY DEF Forget, GoTo, Inv, WorkersOK
<1>3. TablesAlone BY <1>1, <1>2 DEF TablesAlone, Leaving, PubsKept
<1>4. IdsOK' BY <1>2, <1>3, TablesAloneOK DEF IdsInv
<1>5. PassesOn(b) BY <1>1, <1>2, <1>3 DEF PassesOn
<1> QED BY <1>4, <1>5, PassingOn DEF IdsInv

\* A publication that comes back, or whose header is unknown here, goes no further.
LEMMA DropPublishIds ==
  ASSUME Inv, IdsInv, NEW b \in Broker, DiscardPublish(b) \/ RejectPublish(b)
  PROVE  IdsInv'
<1>1. /\ wpc[b] = "publish" /\ WorkerFrame /\ UNCHANGED <<dbVars, ids, respQ, strayed>>
      /\ wmsg[b].broker_id # 0 /\ Forget(b)
  BY PublishesOwnOrNot, Constants DEF DiscardPublish, RejectPublish
<1>2. \A c \in Client : Home[c] = b => ~Serves(c) BY <1>1, PublishesOwnOrNot
<1> QED BY <1>1, <1>2, ForgetsIds

\* The list that the database sends has the lines of the topic.
LEMMA FetchSubsIds ==
  ASSUME Inv, IdsInv, NEW b \in Broker, FetchSubs(b)
  PROVE  IdsInv'
<1>1. /\ wpc[b] = "publish" /\ wmsg[b].type = "PUBLISH" /\ wmsg[b] \in Msg
      /\ wmsg[b].mtype \in Nat /\ wmsg[b].topic \in Topic /\ wmsg[b].broker_id # b
      /\ GoTo(b, "fan_out", Stamped(b))
      /\ strayed' = IF topics[wmsg[b].topic] = {} THEN strayed \cup {wmsg[b].pub} ELSE strayed
      /\ UNCHANGED <<users, topics, ids, wrelayed, respQ, ring, conn, up, workerQ, down, gid, wait, pubs>>
  BY DEF FetchSubs, WorkerFrame, clientPart, dbVars, Inv, WorkersOK, WorkerOK, Identified, Arriving, OnRing
<1>2. PICK lines \in DbGetSubscribed(wmsg[b].topic) : wsubs' = [wsubs EXCEPT ![b] = lines]
  BY DEF FetchSubs
<1>3. PICK r, m : r = Resolved(b) /\ m = Stamped(b) OBVIOUS
<1>4. /\ r \in Msg /\ r.global_id = wmsg[b].mtype /\ r.type = "PUBLISH" /\ r.pub = wmsg[b].pub
      /\ r.mtype = GetMtype(ids[b], wmsg[b].mtype) /\ r.broker_id = wmsg[b].broker_id
  <2>1. r.mtype = GetMtype(ids[b], wmsg[b].mtype) BY <1>1, <1>3 DEF Resolved, Msg
  <2> QED BY <1>1, <1>3, <2>1, ResolvedMsg DEF Inv
<1>5. /\ m.global_id = r.global_id /\ m.type = r.type /\ m.pub = r.pub /\ m.mtype = r.mtype
      /\ m.broker_id = IF wmsg[b].broker_id = 0 THEN b ELSE wmsg[b].broker_id
  <2>1. m = IF wmsg[b].broker_id = 0 THEN [r EXCEPT !.broker_id = b] ELSE r
    BY <1>3 DEF Stamped
  <2> QED BY <1>4, <2>1 DEF Msg
<1>6. /\ wpc'[b] = "fan_out" /\ wmsg'[b] = m /\ wsubs'[b] = lines
      /\ \A d \in Broker : d # b => wpc'[d] = wpc[d] /\ wmsg'[d] = wmsg[d] /\ wsubs'[d] = wsubs[d]
  BY <1>1, <1>2, <1>3 DEF GoTo, Inv, WorkersOK
<1>7. TablesAlone BY <1>1, <1>6 DEF TablesAlone, Leaving, PubsKept
<1>8. ListsOwned'
  <2> SUFFICES ASSUME NEW d \in Broker, wpc'[d] = "fan_out", wmsg'[d].pub \notin strayed',
                      NEW l \in wsubs'[d], NEW x \in Client, Home[x] = d, Entered(x, l.id)'
               PROVE  gid'[x] = l.id
    BY DEF ListsOwned
  <2>1. Entered(x, l.id) BY <1>1 DEF Entered
  <2>2. CASE d = b
    <3>1. topics[wmsg[b].topic] # {} BY <1>1, <1>4, <1>5, <1>6, <2>2
    <3>2. l \in topics[wmsg[b].topic] BY <1>2, <1>6, <2>2, <3>1 DEF DbGetSubscribed
    <3>3. l.id \in users BY <1>1, <3>2 DEF Inv, DbOK, NoOrphanLines
    <3>4. Leaving(Home[x]) = {} BY <1>1, <2>2 DEF Leaving
    <3>5. Owner(x, l.id) BY <2>1, <3>3, <3>4 DEF Owner
    <3> QED BY <1>1, <3>2, <3>5 DEF IdsInv, IdsOK, LinesOwned
  <2>3. CASE d # b
    <3>1. wpc[d] = "fan_out" /\ wmsg[d].pub \notin strayed /\ l \in wsubs[d] BY <1>1, <1>6, <2>3
    <3> QED BY <1>1, <2>1, <3>1 DEF IdsInv, IdsOK, ListsOwned
  <2> QED BY <2>2, <2>3
<1>9. IdsOK' BY <1>7, <1>8, TablesAloneMost DEF IdsOK, IdsInv
<1>10. \A d \in Client : Steady(d) BY <1>1, <1>7, TablesAloneSteady
<1>11. CASE wmsg[b].broker_id # 0
  <2>1. \A c \in Client : Home[c] = b => ~Serves(c) BY <1>1, <1>11, PublishesOwnOrNot
  <2>2. PassesOn(b) BY <1>1, <1>5, <1>6, <1>7, <1>11, <2>1 DEF PassesOn
  <2> QED BY <1>9, <2>2, PassingOn DEF IdsInv
<1>12. CASE wmsg[b].broker_id = 0
  <2>1. PICK c \in Client : /\ Home[c] = b /\ Serves(c)
                            /\ wait[c] = "PUBLISH" /\ wmsg[b].mtype = gid[c] /\ Live(c)
                            /\ GetMtype(ids[b], wmsg[b].mtype) = c
    BY <1>1, <1>12, FirstClient
  <2>2. GoesOnWith(b, c) BY <1>1, <1>6, <1>7, <1>10 DEF GoesOnWith, TablesAlone
  <2>3. LooksAfter(b, c)' BY <1>4, <1>5, <1>6, <1>12, <2>1 DEF LooksAfter
  <2>4. Live(c)' BY <1>10, <2>1, SteadyMeans
  <2>5. BusyWith(b, c)' BY <1>1, <1>4, <1>5, <1>6, <2>1, <2>4 DEF BusyWith
  <2>6. Holds(c)' BY <1>10, SteadyMeans DEF IdsInv, ServedOK, ClientOK
  <2>7. \A n \in Elements(workerQ[b]) : ~Own(c, n)'
    <3>1. \A n \in Elements(workerQ[b]) : ~Own(c, n)
      BY <2>1, ServedAlone DEF IdsInv, ServedOK, Elements
    <3> QED BY <1>10, <3>1, SteadyMeans
  <2>8. ServedOK' BY <2>1, <2>2, <2>3, <2>5, <2>6, <2>7, ServedStays
  <2> QED BY <1>9, <2>8 DEF IdsInv
<1> QED BY <1>11, <1>12

\* What is sent to the next broker is nothing to a client of this one.
LEMMA SendToRingIds ==
  ASSUME Inv, IdsInv, NEW b \in Broker, SendToRing(b)
  PROVE  IdsInv'
<1>1. wpc[b] = "fan_out" /\ WorkerFrame /\ UNCHANGED <<wpc, strayed, dbVars, ids>>
  BY DEF SendToRing
<1>2. GetMtype(ids[b], NEXT_SERVER_GLOBAL_ID) = b /\ b # NO_MTYPE_FOUND_CODE
  BY <1>1, FanOutMsg, NextServerKnown, Constants DEF Inv, NO_MTYPE_FOUND_CODE
<1>3. PICK l \in wsubs[b] :
        /\ IF wrelayed[b] THEN UNCHANGED respQ ELSE QueueResp(b, Addressed(b, l, b))
        /\ wsubs' = [wsubs EXCEPT ![b] = @ \ {l}]
        /\ wmsg' = [wmsg EXCEPT ![b].type = @]
  BY <1>2 DEF SendToRing, AlreadyRelayed
<1>4. wmsg' = wmsg
  <2>1. wmsg' = [wmsg EXCEPT ![b] = [wmsg[b] EXCEPT !.type = @]] BY <1>3
  <2>2. [wmsg[b] EXCEPT !.type = @] = wmsg[b] BY FanOutMsg, <1>1 DEF Msg
  <2> QED BY <2>1, <2>2 DEF Inv, WorkersOK
<1>5. \A c \in Client : respQ'[c] = respQ[c]
  <2>1. \A c \in Client : c \in Connection /\ c # b BY Constants DEF Connection
  <2> QED BY <1>3, <2>1 DEF QueueResp, Inv, RespQOK
<1>6. \A d \in Broker : wsubs'[d] \subseteq wsubs[d] BY <1>3 DEF Inv, WorkersOK
<1>7. TablesAlone BY <1>1, <1>4 DEF TablesAlone, Leaving, PubsKept, WorkerFrame, clientPart, dbVars
<1>8. IdsOK' BY <1>1, <1>4, <1>6, <1>7, TablesAloneOK DEF IdsInv
<1>9. \A c \in Client : Steady(c) BY <1>1, <1>7, TablesAloneSteady DEF WorkerFrame, clientPart
<1>10. \A c \in Client : Serves(c)' <=> Serves(c) BY <1>1, <1>4, <1>9, ServesKept
<1>11. \A d \in Broker : BusyOK(d)' BY <1>1, <1>4, <1>9, BusyKept DEF IdsInv, ServedOK
<1>12. ServedOK' BY <1>1, <1>5, <1>7, <1>9, <1>10, <1>11, NobodyMoves DEF WorkerFrame, TablesAlone
<1> QED BY <1>8, <1>12 DEF IdsInv

LEMMA EndFanOutIds ==
  ASSUME Inv, IdsInv, NEW b \in Broker, EndFanOut(b)
  PROVE  IdsInv'
<1>1. /\ wpc[b] = "fan_out" /\ WorkerFrame
      /\ UNCHANGED <<users, topics, ids, respQ, strayed, ring, conn, up, workerQ, down, gid, wait, pubs>>
  BY DEF EndFanOut, WorkerFrame, clientPart, dbVars
<1>2. CASE wmsg[b].broker_id # b
  <2>1. \A c \in Client : Home[c] = b => ~Serves(c) BY <1>1, <1>2 DEF Serves
  <2>2. Forget(b) BY <1>2 DEF EndFanOut, SendAck
  <2> QED BY <1>1, <2>1, <2>2, ForgetsIds DEF dbVars
<1>3. CASE wmsg[b].broker_id = b
  <2>1. PICK type \in {"ACK_OK", "ACK_ERROR"} : GoTo(b, "respond", [wmsg[b] EXCEPT !.type = type])
    <3>1. GoTo(b, "respond", [wmsg[b] EXCEPT !.type = IF wmsg[b].type = "ACK_ERROR"
                                                      THEN wmsg[b].type ELSE "ACK_OK"])
      BY <1>3 DEF EndFanOut, SendAck
    <3> QED BY <3>1
  <2>2. PICK m : m = [wmsg[b] EXCEPT !.type = type] OBVIOUS
  <2>3. m.type = type /\ m.mtype = wmsg[b].mtype /\ m.global_id = wmsg[b].global_id
    BY <2>1, <2>2, TypedMsg DEF Ack, Inv, WorkersOK
  <2>4. /\ wpc'[b] = "respond" /\ wmsg'[b] = m
        /\ \A d \in Broker : d # b => wpc'[d] = wpc[d] /\ wmsg'[d] = wmsg[d]
    BY <2>1, <2>2 DEF GoTo, Inv, WorkersOK
  <2>5. \A d \in Broker : wsubs'[d] = wsubs[d] BY <1>3 DEF EndFanOut, SendAck
  <2>6. TablesAlone BY <1>1, <2>4 DEF TablesAlone, Leaving, PubsKept
  <2>7. IdsOK' BY <2>4, <2>5, <2>6, TablesAloneOK DEF IdsInv
  <2>8. \A d \in Client : Steady(d) BY <1>1, <2>6, TablesAloneSteady
  <2>9. PICK c \in Client : Home[c] = b /\ wmsg[b].mtype = c /\ Serves(c) /\ BusyWith(b, c)
    BY <1>1, <1>3, BusyClient
  <2>10. GoesOnWith(b, c) BY <1>1, <2>4, <2>6, <2>8 DEF GoesOnWith, TablesAlone
  <2>11. LooksAfter(b, c)' BY <2>3, <2>4, <2>9 DEF LooksAfter
  <2>12. BusyWith(b, c)'
    <3>1. Answered(c, m) BY <1>1, <2>1, <2>3, <2>9 DEF Answered, BusyWith
    <3>2. Answered(c, m)' BY <2>8, <3>1, SteadyMeans
    <3> QED BY <2>4, <3>2 DEF BusyWith
  <2>13. Holds(c)' BY <2>8, SteadyMeans DEF IdsInv, ServedOK, ClientOK
  <2>14. \A n \in Elements(workerQ[b]) : ~Own(c, n)'
    <3>1. \A n \in Elements(workerQ[b]) : ~Own(c, n)
      BY <2>9, ServedAlone DEF IdsInv, ServedOK, Elements
    <3> QED BY <2>8, <3>1, SteadyMeans
  <2>15. ServedOK' BY <2>9, <2>10, <2>11, <2>12, <2>13, <2>14, ServedStays
  <2> QED BY <2>7, <2>15 DEF IdsInv
<1> QED BY <1>2, <1>3

-----------------------------------------------------------------------------
(* Steps about the queues of one client.                                   *)

\* Only c's queues change, and its request is in nobody's hands, if what is
\* known of it changes.
LEMMA OneMoves ==
  ASSUME Inv, IdsInv, PubsKept, UNCHANGED <<workerQ, wpc, wmsg>>, NEW c \in Client,
         \A d \in Client : d # c => /\ Steady(d) /\ up'[d] = up[d]
                                    /\ respQ'[d] = respQ[d] /\ down'[d] = down[d],
         Steady(c) \/ (~Serves(c) /\ \A m \in Elements(workerQ[Home[c]]) : ~Own(c, m)),
         ClientOK(c)', PlacesOK(c)'
  PROVE  ServedOK'
<1>1. ASSUME NEW d \in Client, d # c PROVE ClientOK(d)' /\ PlacesOK(d)'
  <2>1. ClientOK(d) /\ PlacesOK(d) /\ Steady(d) BY <1>1 DEF IdsInv, ServedOK
  <2>2. Serves(d)' <=> Serves(d) BY <2>1, ServesKept
  <2>3. ClientOK(d)' BY <1>1, <2>1, ClientKept
  <2>4. PlacesOK(d)' BY <1>1, <2>1, <2>2, PlacesUntouched
  <2> QED BY <2>3, <2>4
<1>2. ASSUME NEW b \in Broker PROVE QueuedOK(b)'
  <2>1. ASSUME NEW m \in Elements(workerQ[b]) PROVE FirstHand(m)' => OfClient(b, m)'
    <3>1. FirstHand(m) => OfClient(b, m) BY DEF IdsInv, ServedOK, QueuedOK
    <3>2. \A d \in Client : Home[d] = b => Steady(d) \/ ~Own(d, m) OBVIOUS
    <3> QED BY <3>1, <3>2, QueuedKept
  <2> QED BY <2>1 DEF QueuedOK, Elements
<1>3. ASSUME NEW b \in Broker PROVE BusyOK(b)'
  <2>1. BusyOK(b) /\ wpc'[b] = wpc[b] /\ wmsg'[b] = wmsg[b] BY DEF IdsInv, ServedOK
  <2>2. \A d \in Client : Home[d] = b => Steady(d) \/ ~Serves(d) OBVIOUS
  <2> QED BY <2>1, <2>2, BusyKept
<1> QED BY <1>1, <1>2, <1>3 DEF ServedOK

\* A copy for a client goes to the one whose subscription the line is.
LEMMA SendToLocalIds ==
  ASSUME Inv, IdsInv, ListsProper, NEW b \in Broker, SendToLocal(b)
  PROVE  IdsInv'
<1>1. PICK l \in wsubs[b] :
        /\ GetMtype(ids[b], l.id) # NO_MTYPE_FOUND_CODE
        /\ QueueResp(GetMtype(ids[b], l.id), Addressed(b, l, GetMtype(ids[b], l.id)))
        /\ wsubs' = [wsubs EXCEPT ![b] = @ \ {l}]
  BY DEF SendToLocal
<1>2. /\ wpc[b] = "fan_out"
      /\ UNCHANGED <<users, topics, ids, wpc, wmsg, wrelayed, strayed,
                     ring, conn, up, workerQ, down, gid, wait, pubs>>
  BY DEF SendToLocal, WorkerFrame, clientPart, dbVars
<1>3. PICK pid : pid = GetMtype(ids[b], l.id) OBVIOUS
<1>4. /\ l.id = NEXT_SERVER_GLOBAL_ID => pid = b
      /\ l.id # NEXT_SERVER_GLOBAL_ID => pid \in Client /\ Home[pid] = b
  BY <1>1, <1>3, HeaderKnown DEF Inv, ClientOf
<1>5. pid \in Connection BY <1>4 DEF Connection
<1>6. PICK m : m = Addressed(b, l, pid) OBVIOUS
<1>7. /\ m \in Msg /\ m.type = "PUBLISH" /\ m.pub = wmsg[b].pub /\ m.global_id = l.id
      /\ m.pub \in DOMAIN pubs
  <2>1. m \in Msg BY <1>2, <1>5, <1>6, AddressedCopy
  <2>2. /\ wmsg[b].type = "PUBLISH" \/ wsubs[b] = {}
        /\ wmsg[b].pub \in DOMAIN pubs /\ wmsg[b] \in Msg
    BY <1>2 DEF Inv, WorkersOK, WorkerOK, PublishedAt
  <2>3. m.type = wmsg[b].type /\ m.pub = wmsg[b].pub /\ m.global_id = l.id
    BY <1>6, <2>2 DEF Addressed, Msg
  <2> QED BY <2>1, <2>2, <2>3
<1>8. respQ' = [respQ EXCEPT ![pid] = Append(respQ[pid], m)] BY <1>1, <1>3, <1>6 DEF QueueResp
<1>9. respQ \in [Connection -> Seq(Msg)] BY DEF Inv, RespQOK
<1>10. \A d \in Client : d \in Connection BY DEF Connection
<1>11. \A d \in Client : d # pid => respQ'[d] = respQ[d] BY <1>8, <1>9, <1>10
<1>12. TablesAlone BY <1>2 DEF TablesAlone, Leaving, PubsKept
<1>13. \A d \in Broker : wsubs'[d] \subseteq wsubs[d] BY <1>1 DEF Inv, WorkersOK
<1>14. IdsOK' BY <1>2, <1>12, <1>13, TablesAloneOK DEF IdsInv
<1>15. \A d \in Client : Steady(d) BY <1>2, <1>12, TablesAloneSteady
<1>16. CASE l.id = NEXT_SERVER_GLOBAL_ID
  <2>1. \A d \in Client : respQ'[d] = respQ[d] BY <1>4, <1>11, <1>16, Constants
  <2>2. \A d \in Client : Serves(d)' <=> Serves(d) BY <1>2, <1>15, ServesKept
  <2>3. \A d \in Broker : BusyOK(d)' BY <1>2, <1>15, BusyKept DEF IdsInv, ServedOK
  <2>4. ServedOK' BY <1>2, <1>12, <1>15, <2>1, <2>2, <2>3, NobodyMoves DEF TablesAlone
  <2> QED BY <1>14, <2>4 DEF IdsInv
<1>17. CASE l.id # NEXT_SERVER_GLOBAL_ID
  <2>1. PICK c \in Client : c = pid /\ Home[c] = b BY <1>4, <1>17
  <2>2. Entered(c, l.id) BY <1>1, <1>3, <2>1, MtypeOfOwner DEF Inv, IdsInv, IdsOK
  <2>3. HasEntry(c) BY <2>2, EntriesAre DEF Inv
  <2>4. ClientOK(c) /\ PlacesOK(c) BY DEF IdsInv, ServedOK
  <2>5. PICK q, r : q = respQ[c] /\ r = respQ'[c] OBVIOUS
  <2>6. r = Append(q, m) /\ q \in Seq(Msg) BY <1>8, <1>9, <1>10, <2>1, <2>5
  <2>7. Elements(r) = Elements(q) \cup {m} BY <1>7, <2>6, QueueElements
  <2>8. /\ \A n \in Elements(q) : n.type # "ACK_DESTROY"
        /\ \A n \in Elements(down[c]) : n.type # "ACK_DESTROY"
    BY <2>3, <2>4, <2>5 DEF ClientOK, AnswersOK, Answered, Ack
  <2>9. ClientOK(c)'
    <3>1. SentOK(c)' /\ Holds(c)'
      BY <1>2, <1>15, <2>4, SteadyMeans DEF ClientOK, SentOK, Elements
    <3>2. AnswersOK(c)'
      <4>1. ASSUME NEW n \in Elements(r) \cup Elements(down[c]), n.type \in Ack
            PROVE  Answered(c, n)'
        <5>1. Answered(c, n) BY <1>7, <2>4, <2>5, <2>7, <4>1 DEF ClientOK, AnswersOK, Ack
        <5> QED BY <1>15, <5>1, SteadyMeans
      <4>2. \A n \in Elements(down[c]) : n.mtype = n.global_id BY <2>4 DEF ClientOK, AnswersOK
      <4> QED BY <1>2, <2>5, <4>1, <4>2 DEF AnswersOK, Elements
    <3>3. LastOK(c)'
      <4>1. \A i \in DOMAIN r : r[i].type # "ACK_DESTROY"
        BY <1>7, <2>7, <2>8 DEF Elements
      <4>2. \A i \in DOMAIN down[c] : down[c][i].type # "ACK_DESTROY" BY <2>8 DEF Elements
      <4> QED BY <1>2, <2>5, <4>1, <4>2 DEF LastOK
    <3>4. NewsOK(c)'
      <4>1. ForHolder(c, m)'
        <5>1. m.pub \notin strayed => gid[c] = l.id
          BY <1>2, <1>7, <2>1, <2>2 DEF IdsInv, IdsOK, ListsOwned
        <5> QED BY <1>2, <1>7, <1>17, <5>1 DEF ForHolder, NEXT_SERVER_GLOBAL_ID
      <4>2. \A n \in Elements(q) \cup Elements(down[c]) : ForHolder(c, n)'
        BY <1>12, <2>4, <2>5, NewsMeans DEF ClientOK, NewsOK, TablesAlone
      <4> QED BY <1>2, <2>5, <2>7, <4>1, <4>2 DEF NewsOK, Elements
    <3> QED BY <3>1, <3>2, <3>3, <3>4 DEF ClientOK
  <2>10. PlacesOK(c)'
    <3>1. \A e : InResp(c, e)' <=> InResp(c, e)
      <4>1. /\ \A i \in DOMAIN q : i \in DOMAIN r /\ r[i] = q[i]
            /\ \A i \in DOMAIN r : (i \in DOMAIN q /\ r[i] = q[i]) \/ r[i] = m
        BY <1>5, <1>7, <1>8, <1>9, <2>1, <2>5, PutIn
      <4> QED BY <1>7, <2>5, <4>1 DEF InResp, Ack
    <3>2. \A e : InWork(c, e)' <=> InWork(c, e) BY <1>2, <1>15, SteadyMeans DEF InWork
    <3>3. Serves(c)' <=> Serves(c) BY <1>2, <1>15, ServesKept
    <3>4. \A e : PlaceOf(c, e)' <=> PlaceOf(c, e)
      BY <1>2, <3>1, <3>2, <3>3 DEF PlaceOf, InUp, InWorker, InDown
    <3> QED BY <1>15, <2>4, <3>4, PlacesStay
  <2>11. ServedOK' BY <1>2, <1>11, <1>12, <1>15, <2>1, <2>9, <2>10, OneMoves DEF TablesAlone
  <2> QED BY <1>14, <2>11 DEF IdsInv
<1> QED BY <1>16, <1>17

-----------------------------------------------------------------------------
(* A client gives its id back.                                             *)

\* The database forgets the user; its entry is on its way out of the table.
LEMMA DeleteUserIds ==
  ASSUME Inv, IdsInv, NEW b \in Broker, DeleteUser(b)
  PROVE  IdsInv'
<1>1. /\ wpc[b] = "delete" /\ wmsg[b].type = "DESTROY" /\ wmsg[b].broker_id = 0
      /\ wmsg[b] \in Msg /\ wmsg[b].mtype \in Nat
      /\ UNCHANGED <<ids, wsubs, wrelayed, respQ, strayed,
                     ring, conn, up, workerQ, down, gid, wait, pubs>>
  BY DEF DeleteUser, NoFanOut, WorkerFrame, clientPart, Inv, WorkersOK, WorkerOK, Identified,
         IdsInv, ServedOK, BusyOK
<1>2. PICK c \in Client : /\ Home[c] = b /\ Serves(c)
                          /\ wait[c] = "DESTROY" /\ wmsg[b].mtype = gid[c]
                          /\ Live(c) /\ Entered(c, gid[c]) /\ gid[c] \in users
                          /\ GetMtype(ids[b], wmsg[b].mtype) = c
  BY <1>1, FirstClient
<1>3. PICK n : n = gid[c] OBVIOUS
<1>4. PICK r : r = Resolved(b) OBVIOUS
<1>5. r \in Msg /\ r.global_id = n /\ r.mtype = c /\ ~Unknown(r)
  <2>1. r \in Msg /\ r.global_id = n BY <1>1, <1>2, <1>3, <1>4, ResolvedMsg DEF Inv
  <2>2. r.mtype = c BY <1>1, <1>2, <1>4 DEF Resolved, Msg
  <2>3. c # NO_MTYPE_FOUND_CODE BY Constants DEF NO_MTYPE_FOUND_CODE
  <2> QED BY <2>1, <2>2, <2>3 DEF Unknown
<1>6. PICK m : m = [r EXCEPT !.type = "ACK_DESTROY"] OBVIOUS
<1>7. m.type = "ACK_DESTROY" /\ m.mtype = c /\ m.global_id = n BY <1>5, <1>6, TypedMsg DEF Ack
<1>8. GoTo(b, "remove_id", m) /\ DbDelete(n)
  BY <1>2, <1>3, <1>4, <1>5, <1>6 DEF DeleteUser
<1>9. /\ wpc'[b] = "remove_id" /\ wmsg'[b] = m /\ users' = users \ {n}
      /\ \A d \in Broker : d # b => wpc'[d] = wpc[d] /\ wmsg'[d] = wmsg[d]
  BY <1>8 DEF GoTo, DbDelete, Inv, WorkersOK
<1>10. \A t \in Topic : \A l \in topics'[t] : \E k \in topics[t] : k.id = l.id
  <2>1. topics' = [t \in Topic |-> Without(topics[t], n)] BY <1>8 DEF DbDelete
  <2> SUFFICES ASSUME NEW t \in Topic, NEW l \in Without(topics[t], n)
               PROVE  \E k \in topics[t] : k.id = l.id
    BY <2>1
  <2>2. PICK k \in {x \in topics[t] : x.id # n} : \E p : l = [pos |-> p, id |-> k.id]
    BY DEF Without
  <2> QED BY <2>2
<1>11. /\ Leaving(b) = {} /\ Leaving(b)' = {n}
       /\ \A d \in Broker : d # b => Leaving(d)' = Leaving(d)
  BY <1>1, <1>7, <1>9 DEF Leaving
<1>12. Owner(c, n) /\ n \in users BY <1>2, <1>3 DEF Live
<1>13. \A d \in Client : \A id : Entered(d, id)' <=> Entered(d, id) BY <1>1 DEF Entered
<1>14. \A d \in Client : \A id : Owner(d, id)' <=> Owner(d, id) /\ id # n
  <2> SUFFICES ASSUME NEW d \in Client, NEW id PROVE Owner(d, id)' <=> Owner(d, id) /\ id # n
    OBVIOUS
  <2>1. PICK h \in Broker : h = Home[d] BY Constants
  <2> QED BY <1>9, <1>11, <1>13, <2>1 DEF Owner
<1>15. ASSUME NEW d \in Client, d # c PROVE Steady(d)
  <2>1. ~Owner(d, n) BY <1>12, <1>15 DEF IdsInv, IdsOK, OwnersUnique
  <2>2. HasEntry(d)' <=> HasEntry(d) BY <1>1 DEF HasEntry
  <2> QED BY <1>1, <1>13, <1>14, <2>1, <2>2 DEF Steady
<1>16. EntriesUnique' BY <1>1 DEF IdsInv, IdsOK, EntriesUnique
<1>17. EntriesOwned'
  <2>1. TablesOK' BY DeleteUserOK DEF Inv
  <2> SUFFICES ASSUME NEW d \in Client, NEW id, Entered(d, id), id \notin Leaving(Home[d])'
               PROVE  id \in users'
    BY <1>13, <2>1, EntriesWillBe DEF EntriesOwned
  <2>2. PICK h \in Broker : h = Home[d] BY Constants
  <2>3. id \notin Leaving(h) BY <1>11, <2>2
  <2>4. id \in users /\ Owner(d, id) BY <2>2, <2>3, EnteredOwned
  <2>5. id = n => d = c BY <1>12, <2>4 DEF IdsInv, IdsOK, OwnersUnique
  <2> QED BY <1>2, <1>9, <1>11, <2>4, <2>5
<1>18. OwnersUnique' BY <1>9, <1>14 DEF IdsInv, IdsOK, OwnersUnique
<1>19. LinesOwned'
  <2> SUFFICES ASSUME NEW t \in Topic, NEW l \in topics'[t], NEW d \in Client, Owner(d, l.id)'
               PROVE  gid'[d] = l.id
    BY DEF LinesOwned
  <2>1. PICK k \in topics[t] : k.id = l.id BY <1>10
  <2>2. PICK j : j = l.id OBVIOUS
  <2>3. Owner(d, j) BY <1>14, <2>2
  <2> QED BY <1>1, <2>1, <2>2, <2>3 DEF IdsInv, IdsOK, LinesOwned
<1>20. ListsOwned' BY <1>1, <1>9 DEF IdsInv, IdsOK, ListsOwned, Entered
<1>21. ASSUME NEW d \in Broker, wpc'[d] = "add_id" PROVE Reserved(d)'
  <2>1. d # b /\ wpc[d] = "add_id" BY <1>9, <1>21
  <2>2. PICK j : j = wmsg[d].global_id /\ j = wmsg'[d].global_id BY <1>9, <2>1
  <2>3. Reserved(d) BY DEF IdsInv, IdsOK
  <2>4. j # n BY <1>12, <2>1, <2>2, <2>3 DEF Reserved
  <2>5. \A x \in Client : ~Owner(x, j)' BY <1>14, <2>1, <2>2, <2>3 DEF Reserved
  <2>6. \A t \in Topic : \A l \in topics'[t] : l.id # j
    BY <1>10, <2>1, <2>2, <2>3 DEF Reserved
  <2> QED BY <1>9, <2>1, <2>2, <2>3, <2>4, <2>5, <2>6 DEF Reserved
<1>22. IdsOK' BY <1>16, <1>17, <1>18, <1>19, <1>20, <1>21 DEF IdsOK, Reserved
<1>23. GoesOnWith(b, c) BY <1>1, <1>9, <1>15 DEF GoesOnWith, PubsKept
<1>24. LooksAfter(b, c)' BY <1>7, <1>9 DEF LooksAfter
<1>25. BusyWith(b, c)'
  <2>1. Entered(c, n)' BY <1>2, <1>3, <1>13
  <2> QED BY <1>1, <1>2, <1>3, <1>7, <1>9, <2>1 DEF BusyWith, Entered
<1>26. Holds(c)' BY <1>1, <1>2 DEF Holds, IdsInv, ServedOK, ClientOK
<1>27. ASSUME NEW k \in Elements(workerQ[b]) PROVE ~Own(c, k)'
  <2>1. ~Own(c, k) BY <1>2, ServedAlone DEF IdsInv, ServedOK, Elements
  <2>2. PICK j : j = k.mtype OBVIOUS
  <2>3. Entered(c, j)' <=> Entered(c, j) BY <1>13
  <2> QED BY <2>1, <2>2, <2>3 DEF Own
<1>28. ServedOK' BY <1>2, <1>23, <1>24, <1>25, <1>26, <1>27, ServedStays
<1> QED BY <1>22, <1>28 DEF IdsInv

\* The entry goes, and with it all that the table knew of the client.
LEMMA RemoveIdIds ==
  ASSUME Inv, IdsInv, NEW b \in Broker, RemoveId(b)
  PROVE  IdsInv'
<1>1. /\ wpc[b] = "remove_id" /\ wmsg[b] \in Msg
      /\ ids' = [ids EXCEPT ![b] = RemoveGlobalId(ids[b], wmsg[b].global_id)]
      /\ UNCHANGED <<users, topics, wsubs, wrelayed, respQ, strayed,
                     ring, conn, up, workerQ, down, gid, wait, pubs>>
  BY DEF RemoveId, NoFanOut, WorkerFrame, clientPart, dbVars, Inv, WorkersOK
<1>2. PICK c \in Client : /\ Home[c] = b /\ wmsg[b].mtype = c /\ Serves(c) /\ BusyWith(b, c)
  BY <1>1, BusyClient
<1>3. PICK n : n = gid[c] OBVIOUS
<1>4. /\ wait[c] = "DESTROY" /\ wmsg[b].type = "ACK_DESTROY" /\ wmsg[b].global_id = n
      /\ Entered(c, n)
  BY <1>1, <1>2, <1>3 DEF BusyWith
<1>0. ASSUME NEW d \in Client, Home[d] = b, NEW id, Entered(d, id) PROVE d = c <=> id = n
  <2>1. EntriesUnique BY DEF IdsInv, IdsOK
  <2>2. Home[d] = Home[c] BY <1>0, <1>2
  <2> QED BY <1>0, <1>4, <2>1, <2>2, OneEntry
<1>5. Positions(ids[b], n) # {}
  <2>1. PICK i \in DOMAIN ids[b] : ids[b][i] = Entry(n, c) BY <1>2, <1>4 DEF Entered, Has
  <2> QED BY <2>1 DEF Positions, Entry
<1>6. PICK m : m = [wmsg[b] EXCEPT !.type = wmsg[b].type] OBVIOUS
<1>7. m.type = "ACK_DESTROY" /\ m.mtype = c /\ m.global_id = n
  BY <1>1, <1>2, <1>4, <1>6, TypedMsg DEF Ack
<1>8. GoTo(b, "respond", m) BY <1>4, <1>5, <1>6 DEF RemoveId
<1>9. /\ wpc'[b] = "respond" /\ wmsg'[b] = m
      /\ \A d \in Broker : d # b => wpc'[d] = wpc[d] /\ wmsg'[d] = wmsg[d]
  BY <1>8 DEF GoTo, Inv, WorkersOK
<1>10. /\ Leaving(b) = {n} /\ Leaving(b)' = {}
       /\ \A d \in Broker : d # b => Leaving(d)' = Leaving(d)
  BY <1>1, <1>4, <1>9 DEF Leaving
<1>11. PICK old, t : old = ids[b] /\ t = RemoveGlobalId(old, n) OBVIOUS
<1>12. ids'[b] = t /\ \A d \in Broker : d # b => ids'[d] = ids[d]
  BY <1>1, <1>4, <1>11 DEF Inv, TablesOK
<1>13. UniqueTable(t) /\ \A e : Has(t, e) <=> Has(old, e) /\ e.global_id # n
  <2>1. PICK S : S = [global_id : Nat, mtype : Connection] OBVIOUS
  <2>2. old \in Seq(S) /\ UniqueTable(old)
    BY <1>11, <2>1 DEF Inv, TablesOK, IdsInv, IdsOK, EntriesUnique
  <2> QED BY <1>11, <2>2, RemovedEntries
<1>14. \A d \in Client : \A id : Entered(d, id)' <=> Entered(d, id) /\ d # c
  <2> SUFFICES ASSUME NEW d \in Client, NEW id PROVE Entered(d, id)' <=> Entered(d, id) /\ d # c
    OBVIOUS
  <2>1. PICK h \in Broker : h = Home[d] BY Constants
  <2>2. CASE h = b
    <3>1. Entered(d, id)' <=> Entered(d, id) /\ id # n
      BY <1>11, <1>12, <1>13, <2>1, <2>2 DEF Entered, Entry
    <3>2. ASSUME Entered(d, id), d = c PROVE id = n
      <4>1. Home[d] = b BY <2>1, <2>2
      <4>2. d = c <=> id = n BY <1>0, <3>2, <4>1
      <4> QED BY <3>2, <4>2
    <3>3. Entered(d, id) /\ id = n => d = c BY <1>0, <2>1, <2>2
    <3> QED BY <3>1, <3>2, <3>3
  <2>3. CASE h # b BY <1>2, <1>12, <2>1, <2>3 DEF Entered
  <2> QED BY <2>2, <2>3
<1>15. \A d \in Client : \A id : Owner(d, id)' <=> Owner(d, id) /\ d # c
  <2> SUFFICES ASSUME NEW d \in Client, NEW id PROVE Owner(d, id)' <=> Owner(d, id) /\ d # c
    OBVIOUS
  <2>1. PICK h \in Broker : h = Home[d] BY Constants
  <2>2. CASE h = b
    <3>1. Entered(d, id) /\ d # c => id # n BY <1>0, <2>1, <2>2
    <3> QED BY <1>1, <1>10, <1>14, <2>1, <2>2, <3>1 DEF Owner
  <2>3. CASE h # b BY <1>1, <1>2, <1>10, <1>14, <2>1, <2>3 DEF Owner
  <2> QED BY <2>2, <2>3
<1>16. TablesOK' BY RemoveIdOK DEF Inv
<1>17. ASSUME NEW d \in Client, d # c PROVE Steady(d)
  <2>1. (HasEntry(d) <=> \E id : Entered(d, id)) /\ (HasEntry(d)' <=> \E id : Entered(d, id)')
    BY <1>16, EntriesAre, EntriesWillBe DEF Inv
  <2> QED BY <1>1, <1>14, <1>15, <1>17, <2>1 DEF Steady
<1>18. ~HasEntry(c)' BY <1>14, <1>16, EntriesWillBe
<1>19. EntriesUnique' BY <1>12, <1>13 DEF IdsInv, IdsOK, EntriesUnique
<1>20. EntriesOwned'
  <2> SUFFICES ASSUME NEW d \in Client, NEW id, Entered(d, id)', id \notin Leaving(Home[d])'
               PROVE  id \in users'
    BY <1>16, EntriesWillBe DEF EntriesOwned
  <2>1. PICK h \in Broker : h = Home[d] BY Constants
  <2>2. Entered(d, id) /\ d # c BY <1>14
  <2>3. CASE h = b
    <3>1. id # n BY <1>0, <2>1, <2>2, <2>3
    <3> QED BY <1>1, <1>10, <2>1, <2>2, <2>3, <3>1, EnteredOwned
  <2>4. CASE h # b BY <1>1, <1>10, <2>1, <2>2, <2>4, EnteredOwned
  <2> QED BY <2>3, <2>4
<1>21. OwnersUnique' BY <1>1, <1>15 DEF IdsInv, IdsOK, OwnersUnique
<1>22. LinesOwned'
  <2> SUFFICES ASSUME NEW tp \in Topic, NEW l \in topics[tp], NEW d \in Client, Owner(d, l.id)'
               PROVE  gid[d] = l.id
    BY <1>1 DEF LinesOwned
  <2>1. PICK j : j = l.id OBVIOUS
  <2>2. Owner(d, j) BY <1>15, <2>1
  <2> QED BY <2>1, <2>2 DEF IdsInv, IdsOK, LinesOwned
<1>23. ListsOwned'
  <2> SUFFICES ASSUME NEW d \in Broker, wpc'[d] = "fan_out", wmsg'[d].pub \notin strayed',
                      NEW l \in wsubs'[d], NEW x \in Client, Home[x] = d, Entered(x, l.id)'
               PROVE  gid'[x] = l.id
    BY DEF ListsOwned
  <2>1. d # b /\ wpc[d] = "fan_out" /\ wmsg'[d] = wmsg[d] BY <1>9
  <2>2. Entered(x, l.id)
    <3>1. PICK j : j = l.id OBVIOUS
    <3> QED BY <1>14, <3>1
  <2> QED BY <1>1, <2>1, <2>2 DEF IdsInv, IdsOK, ListsOwned
<1>24. ASSUME NEW d \in Broker, wpc'[d] = "add_id" PROVE Reserved(d)'
  <2>1. d # b /\ wpc[d] = "add_id" BY <1>9, <1>24
  <2>2. PICK j : j = wmsg[d].global_id /\ j = wmsg'[d].global_id BY <1>9, <2>1
  <2>3. Reserved(d) BY DEF IdsInv, IdsOK
  <2>4. \A x \in Client : ~Owner(x, j)' BY <1>15, <2>1, <2>2, <2>3 DEF Reserved
  <2> QED BY <1>1, <1>9, <2>1, <2>2, <2>3, <2>4 DEF Reserved
<1>25. IdsOK' BY <1>19, <1>20, <1>21, <1>22, <1>23, <1>24 DEF IdsOK, Reserved
<1>26. GoesOnWith(b, c) BY <1>1, <1>9, <1>17 DEF GoesOnWith, PubsKept
<1>27. LooksAfter(b, c)' BY <1>7, <1>9 DEF LooksAfter
<1>28. BusyWith(b, c)'
  <2>1. Answered(c, m)' BY <1>1, <1>3, <1>4, <1>7, <1>18 DEF Answered
  <2> QED BY <1>9, <2>1 DEF BusyWith
<1>29. Holds(c)' BY <1>1, <1>4 DEF Holds, IdsInv, ServedOK, ClientOK
<1>30. ASSUME NEW k \in Elements(workerQ[b]) PROVE ~Own(c, k)'
  <2>1. ~Own(c, k) BY <1>2, ServedAlone DEF IdsInv, ServedOK, Elements
  <2>2. PICK j : j = k.mtype OBVIOUS
  <2>3. ~Entered(c, j)' BY <1>14
  <2> QED BY <2>1, <2>2, <2>3 DEF Own
<1>31. ServedOK' BY <1>2, <1>26, <1>27, <1>28, <1>29, <1>30, ServedStays
<1> QED BY <1>25, <1>31 DEF IdsInv

\* The answer leaves the worker for the response queue.
LEMMA RespondIds ==
  ASSUME Inv, IdsInv, NEW b \in Broker, Respond(b)
  PROVE  IdsInv'
<1>1. /\ wpc[b] = "respond" /\ Forget(b) /\ wmsg[b] \in Msg
      /\ UNCHANGED <<users, topics, ids, strayed, ring, conn, up, workerQ, down, gid, wait, pubs>>
  BY DEF Respond, WorkerFrame, clientPart, dbVars, Inv, WorkersOK
<1>2. PICK c \in Client : /\ Home[c] = b /\ wmsg[b].mtype = c /\ Serves(c) /\ BusyWith(b, c)
  BY <1>1, BusyClient
<1>3. PICK m : m = wmsg[b] OBVIOUS
<1>4. Answered(c, m) /\ m \in Msg /\ m.type \in Ack BY <1>1, <1>2, <1>3 DEF BusyWith, Answered, Ack
<1>5. respQ' = [respQ EXCEPT ![c] = Append(respQ[c], m)]
  <2>1. ~Unknown(m) BY <1>2, <1>3, Constants DEF Unknown, NO_MTYPE_FOUND_CODE
  <2> QED BY <1>2, <1>3, <2>1 DEF Respond, QueueResp
<1>6. /\ respQ \in [Connection -> Seq(Msg)] /\ c \in Connection
      /\ \A d \in Client : d \in Connection /\ (d # c => respQ'[d] = respQ[d])
  BY <1>5 DEF Inv, RespQOK, Connection
<1>7. /\ wpc'[b] = "idle"
      /\ \A d \in Broker : d # b => wpc'[d] = wpc[d] /\ wmsg'[d] = wmsg[d] /\ wsubs'[d] = wsubs[d]
  BY <1>1 DEF Forget, GoTo, Inv, WorkersOK
<1>8. TablesAlone BY <1>1, <1>7 DEF TablesAlone, Leaving, PubsKept
<1>9. IdsOK' BY <1>7, <1>8, TablesAloneOK DEF IdsInv
<1>10. \A d \in Client : Steady(d) BY <1>1, <1>8, TablesAloneSteady
<1>11. ASSUME NEW d \in Client, d # c PROVE ClientOK(d)' /\ PlacesOK(d)'
  <2>1. ClientOK(d) /\ PlacesOK(d) /\ Steady(d) BY <1>10 DEF IdsInv, ServedOK
  <2>2. ClientOK(d)' BY <1>1, <1>6, <1>8, <1>11, <2>1, ClientKept DEF TablesAlone
  <2>3. Serves(d)' <=> Serves(d)
    <3>1. CASE Home[d] = b
      <4>1. ~Serves(d) BY <1>2, <1>11, <3>1, OneServed DEF IdsInv, IdsOK
      <4>2. ~Serves(d)' BY <1>7, <3>1 DEF Serves
      <4> QED BY <4>1, <4>2
    <3>2. CASE Home[d] # b
      <4>1. Home[d] \in Broker BY Constants
      <4> QED BY <1>7, <2>1, <3>2, <4>1, ServesKept
    <3> QED BY <3>1, <3>2
  <2>4. PlacesOK(d)' BY <1>1, <1>6, <1>11, <2>1, <2>3, PlacesUntouched
  <2> QED BY <2>2, <2>4
<1>12. /\ up[c] = <<>>
       /\ \A i \in DOMAIN workerQ[b] : ~Own(c, workerQ[b][i])
       /\ \A i \in DOMAIN respQ[c] : respQ[c][i].type \notin Ack
       /\ \A i \in DOMAIN down[c] : down[c][i].type \notin Ack
  <2>1. up[c] \in Seq(Msg) BY DEF Inv, UpOK, Connection
  <2> QED BY <1>2, <2>1, ServedAlone DEF IdsInv, ServedOK
<1>13. PICK q, r, n : q = respQ[c] /\ r = respQ'[c] /\ n = Len(q) + 1 OBVIOUS
<1>14. /\ n \in DOMAIN r /\ r[n] = m /\ Len(r) = n
       /\ \A i \in DOMAIN r : i = n \/ r[i].type \notin Ack
  <2>1. /\ Len(respQ[c]) \in Nat /\ Len(respQ'[c]) = Len(respQ[c]) + 1
        /\ DOMAIN respQ'[c] = 1..Len(respQ'[c])
        /\ respQ'[c][Len(respQ[c]) + 1] = m
        /\ \A i \in DOMAIN respQ'[c] :
             (i \in DOMAIN respQ[c] /\ respQ'[c][i] = respQ[c][i]) \/ i = Len(respQ[c]) + 1
    BY <1>4, <1>5, <1>6, PutIn
  <2> QED BY <1>12, <1>13, <2>1
<1>15. ClientOK(c)'
  <2>1. ClientOK(c) /\ Holds(c)' BY <1>10, SteadyMeans DEF IdsInv, ServedOK, ClientOK
  <2>2. Elements(r) = Elements(q) \cup {m}
    <3>1. r = Append(q, m) /\ q \in Seq(Msg) BY <1>5, <1>6, <1>13
    <3> QED BY <1>4, <3>1, QueueElements
  <2>3. SentOK(c)' BY <1>1, <1>12 DEF SentOK, Elements
  <2>4. AnswersOK(c)'
    <3>1. ASSUME NEW k \in Elements(r) \cup Elements(down[c]), k.type \in Ack
          PROVE  Answered(c, k)'
      <4>1. Answered(c, k) BY <1>4, <1>13, <2>1, <2>2, <3>1 DEF ClientOK, AnswersOK
      <4> QED BY <1>10, <4>1, SteadyMeans
    <3>2. \A k \in Elements(down[c]) : k.mtype = k.global_id BY <2>1 DEF ClientOK, AnswersOK
    <3> QED BY <1>1, <1>13, <3>1, <3>2 DEF AnswersOK, Elements
  <2>5. LastOK(c)' BY <1>1, <1>12, <1>13, <1>14 DEF LastOK, Ack
  <2>6. NewsOK(c)'
    <3>1. ForHolder(c, m)' BY <1>4 DEF ForHolder, Ack
    <3>2. \A k \in Elements(q) \cup Elements(down[c]) : ForHolder(c, k)'
      BY <1>1, <1>8, <1>13, <2>1, NewsMeans DEF ClientOK, NewsOK, TablesAlone
    <3> QED BY <1>1, <1>13, <2>2, <3>1, <3>2 DEF NewsOK, Elements
  <2> QED BY <2>1, <2>3, <2>4, <2>5, <2>6 DEF ClientOK
<1>16. PlacesOK(c)'
  <2>1. ASSUME NEW e PROVE PlaceOf(c, e)' <=> e = <<"resp", c, n>>
    <3>1. ~InUp(c, e)' BY <1>1, <1>12 DEF InUp
    <3>2. ~InWork(c, e)'
      <4>1. SUFFICES ASSUME NEW i \in DOMAIN workerQ[b], Own(c, workerQ[b][i])' PROVE FALSE
        BY <1>1, <1>2 DEF InWork
      <4>2. PICK k : k = workerQ[b][i] OBVIOUS
      <4>3. Own(c, k)' BY <1>1, <4>1, <4>2
      <4>4. Own(c, k) BY <1>10, <4>3, SteadyMeans
      <4> QED BY <1>12, <4>2, <4>4
    <3>3. ~InWorker(c, e)' BY <1>2, <1>7 DEF InWorker, Serves
    <3>4. InResp(c, e)' <=> e = <<"resp", c, n>> BY <1>4, <1>13, <1>14 DEF InResp
    <3>5. ~InDown(c, e)' BY <1>1, <1>12 DEF InDown
    <3> QED BY <3>1, <3>2, <3>3, <3>4, <3>5 DEF PlaceOf
  <2>2. PICK D : D = Places(c)' OBVIOUS
  <2>3. \A e : e \in D <=> e = <<"resp", c, n>> BY <2>1, <2>2, PlacesAre
  <2>4. Single(D) BY <2>3 DEF Single
  <2>5. <<"resp", c, n>> \in D BY <2>3
  <2> QED BY <2>2, <2>4, <2>5 DEF PlacesOK
<1>17. ASSUME NEW d \in Broker PROVE QueuedOK(d)'
  <2>1. ASSUME NEW k \in Elements(workerQ[d]) PROVE FirstHand(k)' => OfClient(d, k)'
    <3>1. FirstHand(k) => OfClient(d, k) BY DEF IdsInv, ServedOK, QueuedOK
    <3> QED BY <1>10, <3>1, QueuedKept
  <2> QED BY <1>1, <2>1 DEF QueuedOK, Elements
<1>18. ASSUME NEW d \in Broker PROVE BusyOK(d)'
  <2>1. CASE d = b BY <1>7, <2>1 DEF BusyOK
  <2>2. CASE d # b BY <1>7, <1>10, <2>2, BusyKept DEF IdsInv, ServedOK
  <2> QED BY <2>1, <2>2
<1> QED BY <1>9, <1>11, <1>15, <1>16, <1>17, <1>18 DEF IdsInv, ServedOK

LEMMA DownSeq ==
  ASSUME DownOK
  PROVE  down \in [Client -> Seq(Msg)]
<1>1. ToClient \subseteq Msg BY DEF ToClient
<1>2. ASSUME NEW q \in Seq(ToClient) PROVE q \in Seq(Msg)
  <2>1. /\ Len(q) \in Nat /\ q = [i \in 1..Len(q) |-> q[i]]
        /\ \A i \in 1..Len(q) : q[i] \in Msg
    BY <1>1, LenProperties, ElementOfSeq
  <2>2. q \in [1..Len(q) -> Msg] BY <2>1
  <2> QED BY <2>1, <2>2, SeqDef
<1> QED BY <1>2 DEF DownOK

\* The response handler passes the next message on, unless the machine is lost.
LEMMA RespHandlerIds ==
  ASSUME Inv, IdsInv, NEW c \in Client, RespHandler(c)
  PROVE  IdsInv'
<1>1. UNCHANGED <<users, topics, ids, wsubs, wrelayed, wpc, wmsg, strayed,
                  ring, conn, up, workerQ, gid, wait, pubs>>
  BY DEF RespHandler, workerPart, clientPart, dbVars
<1>2. c \in Connection /\ \A d \in Client : d \in Connection BY DEF Connection
<1>3. PICK m, o : m = Head(respQ[c]) /\ o = Outgoing(m) OBVIOUS
<1>4. /\ respQ \in [Connection -> Seq(Msg)] /\ respQ[c] # <<>>
      /\ respQ' = [respQ EXCEPT ![c] = Tail(respQ[c])]
      /\ down \in [Client -> Seq(Msg)]
      /\ conn[c] \in {"on", "lost"}
      /\ down' = IF conn[c] = "on" THEN [down EXCEPT ![c] = Append(down[c], o)] ELSE down
  <2>2. down \in [Client -> Seq(Msg)] BY DownSeq DEF Inv
  <2> QED BY <1>3, <2>2 DEF RespHandler, Inv, RespQOK
<1>5. /\ m \in Msg /\ o \in Msg /\ o.type = m.type /\ o.global_id = m.global_id
      /\ o.pub = m.pub /\ o.mtype = m.global_id
  <2>1. m \in Msg BY <1>2, <1>3, <1>4, TakenOut
  <2> QED BY <1>3, <2>1 DEF Outgoing, Msg
<1>6. TablesAlone BY <1>1 DEF TablesAlone, Leaving, PubsKept
<1>7. IdsOK' BY <1>1, <1>6, TablesAloneOK DEF IdsInv
<1>8. \A d \in Client : Steady(d) BY <1>1, <1>6, TablesAloneSteady
<1>9. \A d \in Client : d # c => respQ'[d] = respQ[d] /\ down'[d] = down[d]
  BY <1>2, <1>4
<1>10. ClientOK(c) /\ PlacesOK(c) BY DEF IdsInv, ServedOK
<1>11. PICK q, r, p, s : q = respQ[c] /\ r = respQ'[c] /\ p = down[c] /\ s = down'[c] OBVIOUS
<1>12. /\ 1 \in DOMAIN q /\ q[1] = m
       /\ \A i \in DOMAIN r : i \in Nat \ {0} /\ i + 1 \in DOMAIN q /\ r[i] = q[i + 1]
       /\ \A i \in DOMAIN q : i = 1 \/ (i - 1 \in DOMAIN r /\ r[i - 1] = q[i])
  BY <1>2, <1>3, <1>4, <1>11, TakenOut
<1>13. q \in Seq(Msg) /\ r = Tail(q) /\ r \in Seq(Msg) /\ Len(r) = Len(q) - 1 /\ Len(q) \in Nat
       /\ DOMAIN q = 1..Len(q) /\ DOMAIN r = 1..Len(r) /\ q # <<>> /\ m = Head(q)
  <2>1. q \in Seq(Msg) /\ r = Tail(q) /\ q # <<>> /\ m = Head(q) BY <1>2, <1>3, <1>4, <1>11
  <2> QED BY <2>1, HeadTailProperties, LenProperties
<1>14. Elements(q) = Elements(r) \cup {m} BY <1>5, <1>13, QueueElements
<1>15. /\ p \in Seq(Msg) /\ Len(p) \in Nat /\ DOMAIN p = 1..Len(p) /\ DOMAIN s = 1..Len(s)
       /\ conn[c] # "on" => s = p
       /\ conn[c] = "on" => /\ Len(s) = Len(p) + 1 /\ s[Len(s)] = o
                            /\ Elements(s) = Elements(p) \cup {o}
                            /\ \A i \in DOMAIN p : i \in DOMAIN s /\ s[i] = p[i]
                            /\ \A i \in DOMAIN s : (i \in DOMAIN p /\ s[i] = p[i])
                                                   \/ (i = Len(s) /\ s[i] = o)
  <2>1. p \in Seq(Msg) /\ Len(p) \in Nat /\ DOMAIN p = 1..Len(p) BY <1>4, <1>11, LenProperties
  <2>2. CASE conn[c] # "on"
    <3>1. s = p BY <1>4, <1>11, <2>2
    <3> QED BY <2>1, <2>2, <3>1
  <2>3. CASE conn[c] = "on"
    <3>1. s = Append(p, o) /\ down' = [down EXCEPT ![c] = Append(down[c], o)]
      BY <1>4, <1>11, <2>3
    <3>2. Elements(s) = Elements(p) \cup {o} BY <1>5, <2>1, <3>1, QueueElements
    <3>3. /\ Len(s) = Len(p) + 1 /\ s[Len(p) + 1] = o /\ DOMAIN s = 1..Len(s)
          /\ \A i \in DOMAIN p : i \in DOMAIN s /\ s[i] = p[i]
          /\ \A i \in DOMAIN s : (i \in DOMAIN p /\ s[i] = p[i])
                                 \/ (i = Len(p) + 1 /\ s[i] = o)
      BY <1>4, <1>5, <1>11, <3>1, PutIn
    <3> QED BY <2>1, <2>3, <3>2, <3>3
  <2> QED BY <2>2, <2>3
<1>16. Elements(r) \cup Elements(s) \subseteq Elements(q) \cup Elements(p) \cup {o}
  BY <1>14, <1>15
<1>17. ClientOK(c)'
  <2>1. Holds(c)' /\ SentOK(c)'
    BY <1>1, <1>8, <1>10, SteadyMeans DEF ClientOK, SentOK, Elements
  <2>2. AnswersOK(c)'
    <3>1. ASSUME NEW k \in Elements(q) \cup Elements(p) \cup {o}, k.type \in Ack
          PROVE  Answered(c, k)'
      <4>1. k # o => Answered(c, k) BY <1>10, <1>11, <3>1 DEF ClientOK, AnswersOK
      <4>2. k = o => Answered(c, m)
        BY <1>5, <1>10, <1>11, <1>14, <3>1 DEF ClientOK, AnswersOK
      <4>3. Answered(c, m) => Answered(c, o) BY <1>5 DEF Answered
      <4> QED BY <1>8, <4>1, <4>2, <4>3, SteadyMeans
    <3>2. \A k \in Elements(s) : k.mtype = k.global_id
      BY <1>5, <1>10, <1>11, <1>15 DEF ClientOK, AnswersOK
    <3> QED BY <1>11, <1>16, <3>1, <3>2 DEF AnswersOK, Elements
  <2>3. LastOK(c)'
    <3>1. /\ \A i \in DOMAIN q : q[i].type = "ACK_DESTROY" => i = Len(q)
          /\ \A i \in DOMAIN p : p[i].type # "ACK_DESTROY"
      BY <1>10, <1>11, <1>13 DEF ClientOK, LastOK
    <3>2. ASSUME NEW i \in DOMAIN r, r[i].type = "ACK_DESTROY" PROVE i = Len(r)
      BY <1>12, <1>13, <3>1, <3>2
    <3>3. ASSUME NEW i \in DOMAIN s, s[i].type = "ACK_DESTROY" PROVE i = Len(s) /\ r = <<>>
      <4>1. conn[c] = "on" /\ i = Len(s) /\ s[i] = o BY <1>15, <3>1, <3>3
      <4>2. 1 = Len(q) BY <1>5, <1>12, <3>1, <3>3, <4>1
      <4>3. Len(r) = 0 BY <1>13, <4>2
      <4>4. r = <<>> BY <1>13, <4>3, EmptySeq
      <4> QED BY <4>1, <4>4
    <3> QED BY <1>11, <3>2, <3>3 DEF LastOK
  <2>4. NewsOK(c)'
    <3>1. ASSUME NEW k \in Elements(q) \cup Elements(p) \cup {o} PROVE ForHolder(c, k)'
      <4>1. k # o => ForHolder(c, k) BY <1>10, <1>11 DEF ClientOK, NewsOK
      <4>2. k = o => ForHolder(c, m) BY <1>10, <1>11, <1>14 DEF ClientOK, NewsOK
      <4>3. ForHolder(c, m) => ForHolder(c, o) BY <1>5 DEF ForHolder
      <4> QED BY <1>1, <1>6, <4>1, <4>2, <4>3, NewsMeans DEF TablesAlone
    <3> QED BY <1>11, <1>16, <3>1 DEF NewsOK, Elements
  <2> QED BY <2>1, <2>2, <2>3, <2>4 DEF ClientOK
<1>18. PlacesOK(c)'
  <2>1. PICK n : n = Len(s) OBVIOUS
  <2>2. \A e : InUp(c, e)' <=> InUp(c, e) BY <1>1 DEF InUp
  <2>3. \A e : InWork(c, e)' <=> InWork(c, e) BY <1>1, <1>8, SteadyMeans DEF InWork
  <2>4. \A e : InWorker(c, e)' <=> InWorker(c, e) BY <1>1, <1>8, ServesKept DEF InWorker
  <2>5. ASSUME NEW e, InResp(c, e)'
        PROVE  \E i \in Nat \ {0} : e = <<"resp", c, i>> /\ InResp(c, <<"resp", c, i + 1>>)
    <3>1. PICK i \in DOMAIN r : r[i].type \in Ack /\ e = <<"resp", c, i>>
      BY <1>11, <2>5 DEF InResp
    <3>2. InResp(c, <<"resp", c, i + 1>>) BY <1>11, <1>12, <3>1 DEF InResp
    <3> QED BY <1>12, <3>1, <3>2
  <2>6. ASSUME NEW e, InDown(c, e)'
        PROVE  InDown(c, e) \/ (e = <<"down", c, n>> /\ InResp(c, <<"resp", c, 1>>))
    <3>1. PICK i \in DOMAIN s : s[i].type \in Ack /\ e = <<"down", c, i>>
      BY <1>11, <2>6 DEF InDown
    <3>2. CASE i \in DOMAIN p /\ s[i] = p[i] BY <1>11, <3>1, <3>2 DEF InDown
    <3>3. CASE i = n /\ s[i] = o
      <4>1. InResp(c, <<"resp", c, 1>>) BY <1>5, <1>11, <1>12, <3>1, <3>3 DEF InResp
      <4> QED BY <3>1, <3>3, <4>1
    <3> QED BY <1>15, <2>1, <3>2, <3>3
  <2>7. ASSUME conn[c] = "on", NEW e, PlaceOf(c, e) PROVE \E f : PlaceOf(c, f)'
    <3>1. CASE InUp(c, e) \/ InWork(c, e) \/ InWorker(c, e)
      BY <2>2, <2>3, <2>4, <3>1 DEF PlaceOf
    <3>2. CASE InDown(c, e)
      <4>1. InDown(c, e)' BY <1>11, <1>15, <2>7, <3>2 DEF InDown
      <4> QED BY <4>1 DEF PlaceOf
    <3>3. CASE InResp(c, e)
      <4>1. PICK i \in DOMAIN q : q[i].type \in Ack BY <1>11, <3>3 DEF InResp
      <4>2. CASE i = 1
        <5>1. n \in DOMAIN s /\ s[n] = o BY <1>15, <2>1, <2>7
        <5>2. InDown(c, <<"down", c, n>>)' BY <1>5, <1>11, <1>12, <4>1, <4>2, <5>1 DEF InDown
        <5> QED BY <5>2 DEF PlaceOf
      <4>3. CASE i - 1 \in DOMAIN r /\ r[i - 1] = q[i]
        <5>1. InResp(c, <<"resp", c, i - 1>>)' BY <1>11, <4>1, <4>3 DEF InResp
        <5> QED BY <5>1 DEF PlaceOf
      <4> QED BY <1>12, <4>1, <4>2, <4>3
    <3> QED BY <2>7, <3>1, <3>2, <3>3 DEF PlaceOf
  <2>8. PICK C, D : C = Places(c) /\ D = Places(c)' OBVIOUS
  <2>9. \A e : (e \in C <=> PlaceOf(c, e)) /\ (e \in D <=> PlaceOf(c, e)') BY <2>8, PlacesAre
  <2>10. TakesHead("resp", c, <<"down", c, n>>, C, D)
    <3>1. ASSUME NEW e \in D
          PROVE  \/ e \in C /\ (e[1] # "resp" \/ e[2] # c)
                 \/ \E i \in Nat \ {0} : e = <<"resp", c, i>> /\ <<"resp", c, i + 1>> \in C
                 \/ e = <<"down", c, n>> /\ <<"resp", c, 1>> \in C
      <4>1. PlaceOf(c, e)' BY <2>9
      <4>2. CASE InUp(c, e)' \/ InWork(c, e)' \/ InWorker(c, e)'
        <5>1. PlaceOf(c, e) BY <2>2, <2>3, <2>4, <4>2 DEF PlaceOf
        <5>2. e[1] # "resp" BY <4>2 DEF InUp, InWork, InWorker
        <5> QED BY <2>9, <5>1, <5>2
      <4>3. CASE InResp(c, e)'
        <5>1. PICK i \in Nat \ {0} : e = <<"resp", c, i>> /\ InResp(c, <<"resp", c, i + 1>>)
          BY <2>5, <4>3
        <5>2. <<"resp", c, i + 1>> \in C BY <2>9, <5>1 DEF PlaceOf
        <5> QED BY <5>1, <5>2
      <4>4. CASE InDown(c, e)'
        <5>1. CASE InDown(c, e)
          <6>1. PlaceOf(c, e) /\ e[1] # "resp" BY <5>1 DEF PlaceOf, InDown
          <6> QED BY <2>9, <6>1
        <5>2. CASE e = <<"down", c, n>> /\ InResp(c, <<"resp", c, 1>>)
          <6>1. <<"resp", c, 1>> \in C BY <2>9, <5>2 DEF PlaceOf
          <6> QED BY <5>2, <6>1
        <5> QED BY <2>6, <4>4, <5>1, <5>2
      <4> QED BY <4>1, <4>2, <4>3, <4>4 DEF PlaceOf
    <3> QED BY <3>1 DEF TakesHead
  <2>11. Single(C) BY <1>10, <2>8 DEF PlacesOK
  <2>12. Single(D) BY <2>10, <2>11, HeadMoves
  <2>13. ASSUME conn[c] = "on", wait[c] \in Request \ {"CREATE"} PROVE D # {}
    <3>1. PICK e : e \in C BY <1>10, <2>8, <2>13 DEF PlacesOK
    <3>2. PICK f : PlaceOf(c, f)' BY <2>7, <2>9, <2>13, <3>1
    <3> QED BY <2>9, <3>2
  <2> QED BY <1>1, <2>8, <2>12, <2>13 DEF PlacesOK
<1>19. ServedOK' BY <1>1, <1>6, <1>8, <1>9, <1>17, <1>18, OneMoves DEF TablesAlone
<1> QED BY <1>7, <1>19 DEF IdsInv

-----------------------------------------------------------------------------
(* A client takes a message from its socket.                               *)

\* What every way to take it has in common.
LEMMA ReceiveMeans ==
  ASSUME Inv, IdsInv, NEW c \in Client, ClientReceive(c)
  PROVE  /\ UNCHANGED <<users, topics, ids, wsubs, wrelayed, wpc, wmsg, strayed,
                        ring, conn, up, workerQ, respQ, pubs>>
         /\ \A d \in Client : d # c =>
              gid'[d] = gid[d] /\ wait'[d] = wait[d] /\ down'[d] = down[d] /\ Steady(d)
         /\ \A d \in Client : \A id : Entered(d, id)' <=> Entered(d, id)
         /\ \A d \in Client : \A id : Owner(d, id)' <=> Owner(d, id)
         /\ \A d \in Client : HasEntry(d)' <=> HasEntry(d)
         /\ \A b \in Broker : Leaving(b)' = Leaving(b)
         /\ PubsKept /\ conn[c] = "on"
         /\ Head(down[c]) \in Elements(down[c])
         /\ Elements(down'[c]) \subseteq Elements(down[c])
         /\ DOMAIN down[c] = 1..Len(down[c])
         /\ 1 \in DOMAIN down[c] /\ down[c][1] = Head(down[c])
         /\ \A i \in DOMAIN down'[c] :
              i \in Nat \ {0} /\ i + 1 \in DOMAIN down[c] /\ down'[c][i] = down[c][i + 1]
         /\ \A i \in DOMAIN down[c] :
              i = 1 \/ (i - 1 \in DOMAIN down'[c] /\ down'[c][i - 1] = down[c][i])
         /\ Len(down[c]) \in Nat /\ Len(down'[c]) = Len(down[c]) - 1
<1>1. /\ UNCHANGED <<users, topics, ids, wsubs, wrelayed, wpc, wmsg, strayed,
                     ring, conn, up, workerQ, respQ, pubs>>
      /\ down[c] # <<>> /\ down' = [down EXCEPT ![c] = Tail(down[c])] /\ conn[c] = "on"
  BY DEF ClientReceive, workerPart, dbVars
<1>2. /\ gid' = gid \/ \E k : gid' = [gid EXCEPT ![c] = k]
      /\ wait' = wait \/ \E k : wait' = [wait EXCEPT ![c] = k]
  BY DEF ClientReceive
<1>3. down \in [Client -> Seq(Msg)] BY DownSeq DEF Inv
<1>4. \A d \in Client : d # c => gid'[d] = gid[d] /\ wait'[d] = wait[d] /\ down'[d] = down[d]
  BY <1>1, <1>2, <1>3 DEF Inv, ClientsOK
<1>5. \A b \in Broker : Leaving(b)' = Leaving(b) BY <1>1 DEF Leaving
<1>6. /\ \A d \in Client : \A id : Entered(d, id)' <=> Entered(d, id)
      /\ \A d \in Client : HasEntry(d)' <=> HasEntry(d)
  BY <1>1 DEF Entered, HasEntry
<1>7. \A d \in Client : \A id : Owner(d, id)' <=> Owner(d, id)
  <2> SUFFICES ASSUME NEW d \in Client, NEW id PROVE Owner(d, id)' <=> Owner(d, id)
    OBVIOUS
  <2>1. PICK h \in Broker : h = Home[d] BY Constants
  <2>2. PICK L : L = Leaving(h) /\ L = Leaving(h)' BY <1>5
  <2> QED BY <1>1, <1>6, <2>1, <2>2 DEF Owner
<1>8. \A d \in Client : d # c => Steady(d) BY <1>1, <1>4, <1>6, <1>7 DEF Steady
<1>9. PubsKept BY <1>1 DEF PubsKept
<1>10. PICK q, r : q = down[c] /\ r = down'[c] OBVIOUS
<1>11. /\ 1 \in DOMAIN q /\ q[1] = Head(q) /\ Head(q) \in Msg
       /\ \A i \in DOMAIN r : i \in Nat \ {0} /\ i + 1 \in DOMAIN q /\ r[i] = q[i + 1]
       /\ \A i \in DOMAIN q : i = 1 \/ (i - 1 \in DOMAIN r /\ r[i - 1] = q[i])
  BY <1>1, <1>3, <1>10, TakenOut
<1>12. q \in Seq(Msg) /\ r = Tail(q) /\ q # <<>> BY <1>1, <1>3, <1>10
<1>13. Elements(q) = Elements(r) \cup {Head(q)} /\ Head(q) \in Elements(q)
  BY <1>11, <1>12, QueueElements
<1>14. DOMAIN q = 1..Len(q) /\ Len(q) \in Nat /\ Len(r) = Len(q) - 1
  BY <1>12, LenProperties, HeadTailProperties
<1> QED BY <1>1, <1>4, <1>5, <1>6, <1>7, <1>8, <1>9, <1>10, <1>11, <1>13, <1>14

\* An answer ends the wait: nothing of the request is left anywhere.
LEMMA AnswerTaken ==
  ASSUME Inv, IdsInv, NEW c \in Client, ClientReceive(c), Head(down[c]).type \in Ack,
         wait'[c] = "none", Holds(c)', NewsOK(c)'
  PROVE  ServedOK'
<1>1. PICK q, r : q = down[c] /\ r = down'[c] OBVIOUS
<1>2. /\ UNCHANGED <<wpc, wmsg, up, workerQ, respQ>> /\ PubsKept
      /\ \A d \in Client : d # c => Steady(d) /\ down'[d] = down[d]
      /\ \A id : Entered(c, id)' <=> Entered(c, id)
      /\ Elements(r) \subseteq Elements(q) /\ 1 \in DOMAIN q /\ q[1].type \in Ack
      /\ \A i \in DOMAIN r : i \in Nat \ {0} /\ i + 1 \in DOMAIN q /\ r[i] = q[i + 1]
  BY <1>1, ReceiveMeans
<1>3. ASSUME NEW e, PlaceOf(c, e) PROVE e = <<"down", c, 1>>
  <2>1. PlaceOf(c, <<"down", c, 1>>) BY <1>1, <1>2 DEF PlaceOf, InDown
  <2>2. PICK C : C = Places(c) OBVIOUS
  <2>3. Single(C) /\ e \in C /\ <<"down", c, 1>> \in C
    BY <1>3, <2>1, <2>2, PlacesAre DEF IdsInv, ServedOK, PlacesOK
  <2> QED BY <2>3 DEF Single
<1>4. \A i : i \notin DOMAIN up[c]
  <2> SUFFICES ASSUME NEW i \in DOMAIN up[c] PROVE FALSE OBVIOUS
  <2>1. PlaceOf(c, <<"up", c, i>>) BY DEF PlaceOf, InUp
  <2> QED BY <1>3, <2>1
<1>5. \A i \in DOMAIN workerQ[Home[c]] : ~Own(c, workerQ[Home[c]][i])
  <2> SUFFICES ASSUME NEW i \in DOMAIN workerQ[Home[c]], Own(c, workerQ[Home[c]][i]) PROVE FALSE
    OBVIOUS
  <2>1. PlaceOf(c, <<"work", Home[c], i>>) BY DEF PlaceOf, InWork
  <2> QED BY <1>3, <2>1
<1>6. ~Serves(c)
  <2> SUFFICES ASSUME Serves(c) PROVE FALSE OBVIOUS
  <2>1. PlaceOf(c, <<"worker", Home[c], 0>>) BY DEF PlaceOf, InWorker
  <2> QED BY <1>3, <2>1
<1>7. \A i \in DOMAIN respQ[c] : respQ[c][i].type \notin Ack
  <2> SUFFICES ASSUME NEW i \in DOMAIN respQ[c], respQ[c][i].type \in Ack PROVE FALSE OBVIOUS
  <2>1. PlaceOf(c, <<"resp", c, i>>) BY DEF PlaceOf, InResp
  <2> QED BY <1>3, <2>1
<1>8. \A i \in DOMAIN r : r[i].type \notin Ack
  <2> SUFFICES ASSUME NEW i \in DOMAIN r, r[i].type \in Ack PROVE FALSE OBVIOUS
  <2>1. PlaceOf(c, <<"down", c, i + 1>>) BY <1>1, <1>2 DEF PlaceOf, InDown
  <2>2. <<"down", c, i + 1>> = <<"down", c, 1>> BY <1>3, <2>1
  <2>3. i + 1 = 1 /\ i \in Nat \ {0} BY <1>2, <2>2
  <2> QED BY <2>3
<1>9. ClientOK(c)'
  <2>1. SentOK(c)' BY <1>2, <1>4 DEF SentOK, Elements
  <2>2. AnswersOK(c)'
    <3>1. \A k \in Elements(r) : k.mtype = k.global_id
      BY <1>1, <1>2 DEF IdsInv, ServedOK, ClientOK, AnswersOK
    <3> QED BY <1>1, <1>2, <1>7, <1>8, <3>1 DEF AnswersOK, Elements
  <2>3. LastOK(c)' BY <1>1, <1>2, <1>7, <1>8 DEF LastOK, Ack
  <2> QED BY <2>1, <2>2, <2>3 DEF ClientOK
<1>10. \A k : Own(c, k)' <=> Own(c, k)
  <2> SUFFICES ASSUME NEW k PROVE Own(c, k)' <=> Own(c, k) OBVIOUS
  <2>1. PICK h : h = k.mtype OBVIOUS
  <2>2. Entered(c, h)' <=> Entered(c, h) BY <1>2
  <2> QED BY <2>1, <2>2 DEF Own
<1>11. PlacesOK(c)'
  <2>1. ASSUME NEW e PROVE ~PlaceOf(c, e)'
    <3>1. ~InUp(c, e)' BY <1>2, <1>4 DEF InUp
    <3>2. ~InWork(c, e)'
      <4>1. SUFFICES ASSUME NEW i \in DOMAIN workerQ[Home[c]], Own(c, workerQ[Home[c]][i])'
                     PROVE FALSE
        BY <1>2 DEF InWork
      <4>2. PICK k : k = workerQ[Home[c]][i] OBVIOUS
      <4>3. Own(c, k)' BY <1>2, <4>1, <4>2
      <4> QED BY <1>5, <1>10, <4>2, <4>3
    <3>3. ~InWorker(c, e)'
      <4>1. PICK k : k = wmsg[Home[c]] /\ k = wmsg'[Home[c]] BY <1>2
      <4>2. ~Serves(c)' BY <1>2, <1>6, <1>10, <4>1 DEF Serves
      <4> QED BY <4>2 DEF InWorker
    <3>4. ~InResp(c, e)' /\ ~InDown(c, e)' BY <1>1, <1>2, <1>7, <1>8 DEF InResp, InDown
    <3> QED BY <3>1, <3>2, <3>3, <3>4 DEF PlaceOf
  <2>2. PICK D : D = Places(c)' OBVIOUS
  <2>3. \A e : e \notin D BY <2>1, <2>2, PlacesAre
  <2>4. Single(D) BY <2>3 DEF Single
  <2> QED BY <2>2, <2>4 DEF PlacesOK, Request
<1>12. \A k \in Elements(workerQ[Home[c]]) : ~Own(c, k) BY <1>5 DEF Elements
<1> QED BY <1>2, <1>6, <1>9, <1>11, <1>12, OneMoves

\* The ids stay as they are, but for what c takes its own to be.
LEMMA ReceiveIds ==
  ASSUME Inv, IdsInv, NEW c \in Client, ClientReceive(c),
         \A id : Entered(c, id) => gid'[c] = id \/ (gid'[c] = gid[c])
  PROVE  IdsOK'
<1>1. /\ UNCHANGED <<users, topics, ids, wsubs, wpc, wmsg, strayed>>
      /\ \A d \in Client : d # c => gid'[d] = gid[d]
      /\ \A d \in Client : \A id : Entered(d, id)' <=> Entered(d, id)
      /\ \A d \in Client : \A id : Owner(d, id)' <=> Owner(d, id)
      /\ \A b \in Broker : Leaving(b)' = Leaving(b)
  BY ReceiveMeans
<1>2. EntriesUnique' BY <1>1 DEF IdsInv, IdsOK, EntriesUnique
<1>3. EntriesOwned'
  <2>1. \A d \in Client : Leaving(Home[d])' = Leaving(Home[d]) BY <1>1, Constants
  <2> QED BY <1>1, <2>1 DEF IdsInv, IdsOK, EntriesOwned
<1>4. OwnersUnique' BY <1>1 DEF IdsInv, IdsOK, OwnersUnique
<1>5. ASSUME NEW b \in Broker PROVE Reserved(b)'
  <2>1. PICK k : k = wmsg[b].global_id /\ k = wmsg'[b].global_id BY <1>1
  <2>2. Reserved(b) BY DEF IdsInv, IdsOK
  <2> QED BY <1>1, <2>1, <2>2 DEF Reserved
<1>6. LinesOwned'
  <2> SUFFICES ASSUME NEW t \in Topic, NEW l \in topics[t], NEW d \in Client, Owner(d, l.id)'
               PROVE  gid'[d] = l.id
    BY <1>1 DEF LinesOwned
  <2>1. PICK j : j = l.id OBVIOUS
  <2>2. Owner(d, j) /\ Entered(d, j) BY <1>1, <2>1 DEF Owner
  <2>3. gid[d] = j BY <2>1, <2>2 DEF IdsInv, IdsOK, LinesOwned
  <2> QED BY <1>1, <2>1, <2>2, <2>3
<1>7. ListsOwned'
  <2> SUFFICES ASSUME NEW b \in Broker, wpc[b] = "fan_out", wmsg[b].pub \notin strayed,
                      NEW l \in wsubs[b], NEW d \in Client, Home[d] = b, Entered(d, l.id)'
               PROVE  gid'[d] = l.id
    BY <1>1 DEF ListsOwned
  <2>1. PICK j : j = l.id OBVIOUS
  <2>2. Entered(d, j) BY <1>1, <2>1
  <2>3. gid[d] = j BY <2>1, <2>2 DEF IdsInv, IdsOK, ListsOwned
  <2> QED BY <1>1, <2>1, <2>2, <2>3
<1> QED BY <1>2, <1>3, <1>4, <1>5, <1>6, <1>7 DEF IdsOK

\* The id of a new client is the one of its entry.
LEMMA ReceiveCreateIds ==
  ASSUME Inv, IdsInv, NEW c \in Client, ClientReceive(c), Head(down[c]).type = "ACK_CREATE"
  PROVE  IdsInv'
<1>1. PICK m, k : m = Head(down[c]) /\ k = m.global_id OBVIOUS
<1>2. ClientOK(c) BY DEF IdsInv, ServedOK
<1>3. /\ wait[c] = "CREATE" /\ gid[c] = 0 /\ Owner(c, k) /\ m.mtype = k
      /\ m.type = "ACK_CREATE" /\ m.type \in Ack
  <2>1. m \in Elements(down[c]) BY <1>1, ReceiveMeans
  <2>2. m.type = "ACK_CREATE" /\ m.type \in Ack BY <1>1 DEF Ack
  <2>3. Answered(c, m) /\ m.mtype = m.global_id BY <1>2, <2>1, <2>2 DEF ClientOK, AnswersOK
  <2> QED BY <1>1, <2>2, <2>3 DEF Answered
<1>4. gid'[c] = k /\ wait'[c] = "none"
  BY <1>1, <1>3 DEF ClientReceive, Inv, ClientsOK
<1>5. Entered(c, k) /\ k # 0 BY <1>3, EnteredOwned DEF Owner
<1>6. \A id : Entered(c, id) => id = k
  BY <1>5, OneEntry DEF IdsInv, IdsOK
<1>7. IdsOK' BY <1>4, <1>6, ReceiveIds
<1>8. Holds(c)'
  <2>1. Owner(c, k)' BY <1>3, ReceiveMeans
  <2>2. Live(c)' BY <1>4, <1>5, <2>1 DEF Live
  <2> QED BY <1>4, <1>5, <2>2 DEF Holds, Request
<1>9. NewsOK(c)'
  <2>1. /\ respQ' = respQ /\ PubsKept /\ Elements(down'[c]) \subseteq Elements(down[c])
    BY ReceiveMeans
  <2>2. ASSUME NEW n \in Elements(respQ[c]) \cup Elements(down[c]) PROVE ForHolder(c, n)'
    <3>1. ForHolder(c, n) BY <1>2 DEF ClientOK, NewsOK
    <3> QED BY <1>3, <2>1, <3>1 DEF ForHolder, PubsKept
  <2> QED BY <2>1, <2>2 DEF NewsOK, Elements
<1>10. ServedOK' BY <1>1, <1>3, <1>4, <1>8, <1>9, AnswerTaken
<1> QED BY <1>7, <1>10 DEF IdsInv

\* After the answer to its DESTROY a client has no id, and no message is on its
\* way to it.
LEMMA ReceiveDestroyIds ==
  ASSUME Inv, IdsInv, NEW c \in Client, ClientReceive(c), Head(down[c]).type = "ACK_DESTROY"
  PROVE  IdsInv'
<1>1. PICK m : m = Head(down[c]) OBVIOUS
<1>2. ClientOK(c) BY DEF IdsInv, ServedOK
<1>3. /\ m.mtype = gid[c] /\ ~HasEntry(c) /\ m.type = "ACK_DESTROY" /\ m.type \in Ack
  <2>1. m \in Elements(down[c]) BY <1>1, ReceiveMeans
  <2>2. m.type = "ACK_DESTROY" /\ m.type \in Ack BY <1>1 DEF Ack
  <2>3. Answered(c, m) /\ m.mtype = m.global_id BY <1>2, <2>1, <2>2 DEF ClientOK, AnswersOK
  <2> QED BY <1>1, <2>2, <2>3 DEF Answered
<1>4. gid'[c] = 0 /\ wait'[c] = "none"
  BY <1>1, <1>3 DEF ClientReceive, Inv, ClientsOK
<1>5. \A id : ~Entered(c, id) BY <1>3, EntriesAre DEF Inv
<1>6. IdsOK' BY <1>5, ReceiveIds
<1>7. Holds(c)'
  <2>1. ~HasEntry(c)' BY <1>3, ReceiveMeans
  <2>2. Fresh(c)' BY <1>4, <2>1 DEF Fresh
  <2> QED BY <1>4, <2>2 DEF Holds, Request
<1>8. NewsOK(c)'
  <2>1. /\ 1 \in DOMAIN down[c] /\ down[c][1] = m /\ DOMAIN down[c] = 1..Len(down[c])
        /\ \A i \in DOMAIN down'[c] : i \in Nat \ {0} /\ i + 1 \in DOMAIN down[c]
        /\ respQ' = respQ /\ Len(down[c]) \in Nat
    BY <1>1, ReceiveMeans
  <2>2. 1 = Len(down[c]) /\ respQ[c] = <<>> BY <1>2, <1>3, <2>1 DEF ClientOK, LastOK
  <2>3. \A i : i \notin DOMAIN down'[c]
    <3> SUFFICES ASSUME NEW i \in DOMAIN down'[c] PROVE FALSE OBVIOUS
    <3>1. i \in Nat \ {0} /\ i + 1 \in DOMAIN down[c] BY <2>1
    <3>2. i + 1 \in 1..1 BY <2>1, <2>2, <3>1
    <3> QED BY <3>1, <3>2
  <2>4. \A i : i \notin DOMAIN respQ'[c] BY <2>1, <2>2
  <2> QED BY <2>3, <2>4 DEF NewsOK, Elements
<1>9. ServedOK' BY <1>1, <1>3, <1>4, <1>7, <1>8, AnswerTaken
<1> QED BY <1>6, <1>9 DEF IdsInv

\* The other answers that are for the id the client has.
LEMMA ReceiveAckIds ==
  ASSUME Inv, IdsInv, NEW c \in Client, ClientReceive(c),
         Head(down[c]).type \in {"ACK_OK", "ACK_ERROR"}, Head(down[c]).mtype = gid[c]
  PROVE  IdsInv'
<1>1. PICK m : m = Head(down[c]) OBVIOUS
<1>2. ClientOK(c) BY DEF IdsInv, ServedOK
<1>3. /\ m.mtype = gid[c] /\ gid[c] # 0 /\ Live(c) /\ m.type \in {"ACK_OK", "ACK_ERROR"}
      /\ m.type \in Ack
  <2>1. m \in Elements(down[c]) BY <1>1, ReceiveMeans
  <2>2. m.type \in {"ACK_OK", "ACK_ERROR"} /\ m.type \in Ack BY <1>1 DEF Ack
  <2>3. Answered(c, m) /\ m.mtype = m.global_id BY <1>2, <2>1, <2>2 DEF ClientOK, AnswersOK
  <2> QED BY <1>1, <2>2, <2>3 DEF Answered, Live, Fresh
<1>4. gid'[c] = gid[c] /\ wait'[c] = "none"
  BY <1>1, <1>3 DEF ClientReceive, Inv, ClientsOK
<1>5. IdsOK' BY <1>4, ReceiveIds
<1>6. Holds(c)'
  <2>1. PICK g : g = gid[c] OBVIOUS
  <2>2. Owner(c, g)' BY <1>3, <2>1, ReceiveMeans DEF Live
  <2>3. Live(c)' BY <1>3, <1>4, <2>1, <2>2 DEF Live
  <2> QED BY <1>3, <1>4, <2>3 DEF Holds, Request
<1>7. NewsOK(c)'
  <2>1. /\ respQ' = respQ /\ PubsKept /\ Elements(down'[c]) \subseteq Elements(down[c])
    BY ReceiveMeans
  <2>2. \A n \in Elements(respQ[c]) \cup Elements(down[c]) : ForHolder(c, n)'
    BY <1>2, <1>4, <2>1, NewsMeans DEF ClientOK, NewsOK
  <2> QED BY <2>1, <2>2 DEF NewsOK, Elements
<1>8. ServedOK' BY <1>1, <1>3, <1>4, <1>6, <1>7, AnswerTaken
<1> QED BY <1>5, <1>8 DEF IdsInv

\* What else comes changes nothing that the client knows of its id.
LEMMA ReceiveOtherIds ==
  ASSUME Inv, IdsInv, NEW c \in Client, ClientReceive(c),
         gid'[c] = gid[c], wait'[c] = wait[c],
         Head(down[c]).type \in Ack => wait[c] = "CREATE"
  PROVE  IdsInv'
<1>1. PICK m, q, r : m = Head(down[c]) /\ q = down[c] /\ r = down'[c] OBVIOUS
<1>2. /\ UNCHANGED <<wpc, wmsg, up, workerQ, respQ, conn>> /\ PubsKept
      /\ \A d \in Client : d # c => Steady(d) /\ down'[d] = down[d]
      /\ Elements(r) \subseteq Elements(q) /\ 1 \in DOMAIN q /\ q[1] = m
      /\ \A i \in DOMAIN r : i \in Nat \ {0} /\ i + 1 \in DOMAIN q /\ r[i] = q[i + 1]
      /\ \A i \in DOMAIN q : i = 1 \/ (i - 1 \in DOMAIN r /\ r[i - 1] = q[i])
      /\ Len(q) \in Nat /\ Len(r) = Len(q) - 1
  BY <1>1, ReceiveMeans
<1>3. Steady(c) BY ReceiveMeans DEF Steady
<1>4. IdsOK' BY ReceiveIds
<1>5. ClientOK(c) /\ PlacesOK(c) BY DEF IdsInv, ServedOK
<1>6. ClientOK(c)'
  <2>1. Holds(c)' /\ SentOK(c)'
    BY <1>2, <1>3, <1>5, SteadyMeans DEF ClientOK, SentOK, Elements
  <2>2. AnswersOK(c)'
    <3>1. ASSUME NEW k \in Elements(respQ[c]) \cup Elements(q), k.type \in Ack
          PROVE  Answered(c, k)'
      <4>1. Answered(c, k) BY <1>1, <1>5, <3>1 DEF ClientOK, AnswersOK
      <4> QED BY <1>3, <4>1, SteadyMeans
    <3>2. \A k \in Elements(r) : k.mtype = k.global_id
      BY <1>1, <1>2, <1>5 DEF ClientOK, AnswersOK
    <3>3. Elements(respQ'[c]) \cup Elements(down'[c]) \subseteq Elements(respQ[c]) \cup Elements(q)
      BY <1>1, <1>2
    <3>4. \A k \in Elements(respQ'[c]) \cup Elements(down'[c]) : k.type \in Ack => Answered(c, k)'
      BY <3>1, <3>3
    <3>5. \A k \in Elements(down'[c]) : k.mtype = k.global_id BY <1>1, <3>2
    <3> QED BY <3>4, <3>5 DEF AnswersOK, Elements
  <2>3. LastOK(c)'
    <3>1. ASSUME NEW i \in DOMAIN r, r[i].type = "ACK_DESTROY" PROVE i = Len(r) /\ respQ[c] = <<>>
      <4>1. i + 1 = Len(q) /\ respQ[c] = <<>> /\ i \in Nat
        BY <1>1, <1>2, <1>5, <3>1 DEF ClientOK, LastOK
      <4> QED BY <1>2, <4>1
    <3> QED BY <1>1, <1>2, <1>5, <3>1 DEF ClientOK, LastOK
  <2>4. NewsOK(c)'
    <3>1. \A n \in Elements(respQ[c]) \cup Elements(q) : ForHolder(c, n)'
      BY <1>1, <1>2, <1>5, NewsMeans DEF ClientOK, NewsOK
    <3> QED BY <1>1, <1>2, <3>1 DEF NewsOK, Elements
  <2> QED BY <2>1, <2>2, <2>3, <2>4 DEF ClientOK
<1>7. PlacesOK(c)'
  <2>1. \A e : InUp(c, e)' <=> InUp(c, e) BY <1>2 DEF InUp
  <2>2. \A e : InWork(c, e)' <=> InWork(c, e) BY <1>2, <1>3, SteadyMeans DEF InWork
  <2>3. \A e : InWorker(c, e)' <=> InWorker(c, e) BY <1>2, <1>3, ServesKept DEF InWorker
  <2>4. \A e : InResp(c, e)' <=> InResp(c, e) BY <1>2 DEF InResp
  <2>5. ASSUME NEW e, InDown(c, e)'
        PROVE  \E i \in Nat \ {0} : e = <<"down", c, i>> /\ InDown(c, <<"down", c, i + 1>>)
    <3>1. PICK i \in DOMAIN r : r[i].type \in Ack /\ e = <<"down", c, i>>
      BY <1>1, <2>5 DEF InDown
    <3>2. InDown(c, <<"down", c, i + 1>>) BY <1>1, <1>2, <3>1 DEF InDown
    <3> QED BY <1>2, <3>1, <3>2
  <2>6. ASSUME m.type \notin Ack, NEW e, PlaceOf(c, e) PROVE \E f : PlaceOf(c, f)'
    <3>1. CASE InUp(c, e) \/ InWork(c, e) \/ InWorker(c, e) \/ InResp(c, e)
      BY <2>1, <2>2, <2>3, <2>4, <3>1 DEF PlaceOf
    <3>2. CASE InDown(c, e)
      <4>1. PICK i \in DOMAIN q : q[i].type \in Ack BY <1>1, <3>2 DEF InDown
      <4>2. i - 1 \in DOMAIN r /\ r[i - 1] = q[i] BY <1>2, <2>6, <4>1
      <4>3. InDown(c, <<"down", c, i - 1>>)' BY <1>1, <4>1, <4>2 DEF InDown
      <4> QED BY <4>3 DEF PlaceOf
    <3> QED BY <2>6, <3>1, <3>2 DEF PlaceOf
  <2>7. PICK C, D : C = Places(c) /\ D = Places(c)' OBVIOUS
  <2>8. \A e : (e \in C <=> PlaceOf(c, e)) /\ (e \in D <=> PlaceOf(c, e)') BY <2>7, PlacesAre
  <2>9. TakesHead("down", c, <<"gone", c, 0>>, C, D)
    <3>1. ASSUME NEW e \in D
          PROVE  \/ e \in C /\ (e[1] # "down" \/ e[2] # c)
                 \/ \E i \in Nat \ {0} : e = <<"down", c, i>> /\ <<"down", c, i + 1>> \in C
      <4>1. PlaceOf(c, e)' BY <2>8
      <4>2. CASE InUp(c, e)' \/ InWork(c, e)' \/ InWorker(c, e)' \/ InResp(c, e)'
        <5>1. PlaceOf(c, e) BY <2>1, <2>2, <2>3, <2>4, <4>2 DEF PlaceOf
        <5>2. e[1] # "down" BY <4>2 DEF InUp, InWork, InWorker, InResp
        <5> QED BY <2>8, <5>1, <5>2
      <4>3. CASE InDown(c, e)'
        <5>1. PICK i \in Nat \ {0} : e = <<"down", c, i>> /\ InDown(c, <<"down", c, i + 1>>)
          BY <2>5, <4>3
        <5>2. <<"down", c, i + 1>> \in C BY <2>8, <5>1 DEF PlaceOf
        <5> QED BY <5>1, <5>2
      <4> QED BY <4>1, <4>2, <4>3 DEF PlaceOf
    <3> QED BY <3>1 DEF TakesHead
  <2>10. Single(C) BY <1>5, <2>7 DEF PlacesOK
  <2>11. Single(D) BY <2>9, <2>10, HeadMoves
  <2>12. ASSUME conn[c] = "on", wait[c] \in Request \ {"CREATE"} PROVE D # {}
    <3>1. PICK e : e \in C BY <1>5, <2>7, <2>12 DEF PlacesOK
    <3>2. m.type \notin Ack BY <1>1, <2>12
    <3>3. PICK f : PlaceOf(c, f)' BY <2>6, <2>8, <3>1, <3>2
    <3> QED BY <2>8, <3>3
  <2> QED BY <1>2, <2>7, <2>11, <2>12 DEF PlacesOK
<1>8. ServedOK' BY <1>2, <1>3, <1>6, <1>7, OneMoves
<1> QED BY <1>4, <1>8 DEF IdsInv

LEMMA ClientReceiveIds ==
  ASSUME Inv, IdsInv, NEW c \in Client, ClientReceive(c)
  PROVE  IdsInv'
<1>1. PICK m : m = Head(down[c]) OBVIOUS
<1>2. ClientOK(c) /\ m \in Elements(down[c]) BY <1>1, ReceiveMeans DEF IdsInv, ServedOK
<1>3. CASE m.type = "ACK_CREATE" BY <1>1, <1>3, ReceiveCreateIds
<1>4. CASE m.type = "ACK_DESTROY" BY <1>1, <1>4, ReceiveDestroyIds
<1>5. CASE m.type \in {"ACK_OK", "ACK_ERROR"} /\ m.mtype = gid[c]
  BY <1>1, <1>5, ReceiveAckIds
<1>6. CASE m.type \in {"ACK_OK", "ACK_ERROR"} /\ m.mtype # gid[c]
  <2>1. gid' = gid /\ wait' = wait BY <1>1, <1>6 DEF ClientReceive
  <2>2. Answered(c, m) /\ m.mtype = m.global_id BY <1>2, <1>6 DEF ClientOK, AnswersOK, Ack
  <2>3. wait[c] = "CREATE" BY <1>6, <2>2 DEF Answered
  <2> QED BY <2>1, <2>3, ReceiveOtherIds
<1>7. CASE m.type \notin Ack
  <2>1. gid' = gid /\ wait' = wait BY <1>1, <1>7 DEF ClientReceive, Ack
  <2> QED BY <1>1, <1>7, <2>1, ReceiveOtherIds
<1> QED BY <1>3, <1>4, <1>5, <1>6, <1>7 DEF Ack

-----------------------------------------------------------------------------
(* A client sends a request.                                               *)

LEMMA SendIds ==
  ASSUME Inv, IdsInv, NEW c \in Client, NEW m \in Msg, Send(c, m), PubsKept,
         m.type \in Request, m.broker_id = 0,
         IF m.type = "CREATE" THEN gid[c] = 0 ELSE gid[c] # 0 /\ m.mtype = gid[c]
  PROVE  IdsInv'
<1>1. /\ conn[c] = "on" /\ wait[c] = "none"
      /\ up' = [up EXCEPT ![c] = Append(up[c], m)] /\ wait' = [wait EXCEPT ![c] = m.type]
      /\ UNCHANGED <<users, topics, ids, wsubs, wrelayed, wpc, wmsg, respQ, strayed,
                     ring, conn, workerQ, down, gid>>
  BY DEF Send, workerPart, dbVars
<1>2. TablesAlone BY <1>1 DEF TablesAlone, Leaving
<1>3. IdsOK' BY <1>1, <1>2, TablesAloneOK DEF IdsInv
<1>4. /\ up \in [Connection -> Seq(Msg)] /\ c \in Connection
      /\ \A d \in Client : d \in Connection /\ (d # c => up'[d] = up[d])
      /\ wait'[c] = m.type /\ \A d \in Client : d # c => wait'[d] = wait[d]
  BY <1>1 DEF Inv, UpOK, ClientsOK, Connection
<1>5. \A d \in Client : d # c => Steady(d) BY <1>1, <1>2, <1>4, TablesAloneSteady
<1>6. ClientOK(c) /\ Holds(c) BY DEF IdsInv, ServedOK, ClientOK
<1>7. \A e : ~PlaceOf(c, e) BY <1>1, IdlePlaces
<1>8. /\ \A i : i \notin DOMAIN up[c]
      /\ \A i \in DOMAIN workerQ[Home[c]] : ~Own(c, workerQ[Home[c]][i])
      /\ ~Serves(c)
      /\ \A i \in DOMAIN respQ[c] : respQ[c][i].type \notin Ack
      /\ \A i \in DOMAIN down[c] : down[c][i].type \notin Ack
  BY <1>7 DEF PlaceOf, InUp, InWork, InWorker, InResp, InDown
<1>9. PICK n : n = Len(up[c]) + 1 OBVIOUS
<1>10. n \in DOMAIN up'[c] /\ up'[c][n] = m /\ \A i \in DOMAIN up'[c] : i = n
  <2>1. /\ Len(up[c]) \in Nat /\ DOMAIN up'[c] = 1..Len(up'[c])
        /\ Len(up'[c]) = Len(up[c]) + 1 /\ up'[c][Len(up[c]) + 1] = m
        /\ \A i \in DOMAIN up'[c] :
             (i \in DOMAIN up[c] /\ up'[c][i] = up[c][i]) \/ i = Len(up[c]) + 1
    BY <1>1, <1>4, PutIn
  <2> QED BY <1>8, <1>9, <2>1
<1>11. PICK g : g = gid[c] /\ g = gid'[c] BY <1>1
<1>12. \A id : Entered(c, id)' <=> Entered(c, id) BY <1>2 DEF TablesAlone, Entered
<1>13. Live(c)' <=> Live(c)
  <2>1. PICK h \in Broker : h = Home[c] BY Constants
  <2>2. PICK L : L = Leaving(h) /\ L = Leaving(h)' BY <1>2 DEF TablesAlone
  <2>3. Owner(c, g)' <=> Owner(c, g) BY <1>1, <1>12, <2>1, <2>2 DEF Owner
  <2> QED BY <1>11, <2>3 DEF Live
<1>14. Fresh(c)' <=> Fresh(c) BY <1>1 DEF Fresh, HasEntry
<1>15. (gid[c] # 0 => Live(c)) /\ (gid[c] = 0 => Fresh(c)) BY <1>1, <1>6 DEF Holds
<1>16. Holds(c)' BY <1>1, <1>4, <1>13, <1>15 DEF Holds, Request
<1>17. ClientOK(c)'
  <2>1. SentOK(c)'
    <3>1. Pending(c, m)' BY <1>1, <1>4, <1>13, <1>14, <1>15 DEF Pending
    <3>2. \A k \in Elements(up'[c]) : k = m BY <1>10 DEF Elements
    <3> QED BY <3>1, <3>2 DEF SentOK, Elements
  <2>2. AnswersOK(c)'
    BY <1>1, <1>6, <1>8 DEF ClientOK, AnswersOK, Elements
  <2>3. LastOK(c)' BY <1>1, <1>8 DEF LastOK, Ack
  <2>4. NewsOK(c)'
    <3>1. \A k \in Elements(respQ[c]) \cup Elements(down[c]) : ForHolder(c, k)'
      BY <1>1, <1>6, NewsMeans DEF ClientOK, NewsOK
    <3> QED BY <1>1, <3>1 DEF NewsOK, Elements
  <2> QED BY <1>16, <2>1, <2>2, <2>3, <2>4 DEF ClientOK
<1>18. \A k : Own(c, k)' <=> Own(c, k)
  <2> SUFFICES ASSUME NEW k PROVE Own(c, k)' <=> Own(c, k) OBVIOUS
  <2>1. PICK h : h = k.mtype OBVIOUS
  <2>2. Entered(c, h)' <=> Entered(c, h) BY <1>12
  <2> QED BY <2>1, <2>2 DEF Own
<1>19. PlacesOK(c)'
  <2>1. ASSUME NEW e PROVE PlaceOf(c, e)' <=> e = <<"up", c, n>>
    <3>1. InUp(c, e)' <=> e = <<"up", c, n>> BY <1>10 DEF InUp
    <3>2. ~InWork(c, e)'
      <4>1. SUFFICES ASSUME NEW i \in DOMAIN workerQ[Home[c]], Own(c, workerQ[Home[c]][i])'
                     PROVE FALSE
        BY <1>1 DEF InWork
      <4>2. PICK k : k = workerQ[Home[c]][i] OBVIOUS
      <4>3. Own(c, k)' BY <1>1, <4>1, <4>2
      <4> QED BY <1>8, <1>18, <4>2, <4>3
    <3>3. ~InWorker(c, e)'
      <4>1. PICK k : k = wmsg[Home[c]] /\ k = wmsg'[Home[c]] BY <1>1
      <4>2. ~Serves(c)' BY <1>1, <1>8, <1>18, <4>1 DEF Serves
      <4> QED BY <4>2 DEF InWorker
    <3>4. ~InResp(c, e)' /\ ~InDown(c, e)' BY <1>1, <1>8 DEF InResp, InDown
    <3> QED BY <3>1, <3>2, <3>3, <3>4 DEF PlaceOf
  <2>2. PICK D : D = Places(c)' OBVIOUS
  <2>3. \A e : e \in D <=> e = <<"up", c, n>> BY <2>1, <2>2, PlacesAre
  <2>4. Single(D) BY <2>3 DEF Single
  <2>5. <<"up", c, n>> \in D BY <2>3
  <2> QED BY <2>2, <2>4, <2>5 DEF PlacesOK
<1>20. \A k \in Elements(workerQ[Home[c]]) : ~Own(c, k) BY <1>8 DEF Elements
<1>21. ServedOK' BY <1>1, <1>4, <1>5, <1>8, <1>17, <1>19, <1>20, OneMoves
<1> QED BY <1>3, <1>21 DEF IdsInv

LEMMA PublishGrows ==
  ASSUME Inv, NEW c \in Client, NEW t \in Topic, Publish(c, t)
  PROVE  Len(pubs) \in Nat /\ DOMAIN pubs \subseteq DOMAIN pubs'
<1> DEFINE P == [by : Client, topic : Topic, audience : SUBSET Client]
<1>1. PICK r \in P : pubs' = Append(pubs, r) BY DEF Publish
<1>2. pubs \in Seq(P) BY DEF Inv, ClientsOK
<1> HIDE DEF P
<1>3. pubs' \in Seq(P) /\ Len(pubs') = Len(pubs) + 1 BY <1>1, <1>2, AppendProperties
<1> QED BY <1>2, <1>3, LenProperties

LEMMA RequestIds ==
  ASSUME Inv, IdsInv, NEW c \in Client,
         Create(c) \/ Destroy(c) \/ \E t \in Topic : SubscribeTo(c, t) \/ Publish(c, t)
  PROVE  IdsInv'
<1>1. gid[c] \in Nat BY DEF Inv, ClientsOK
<1>2. CASE Create(c)
  <2>1. PICK m : m = NewRequest("CREATE", 0, NoTopic, 0) OBVIOUS
  <2>2. m \in Msg /\ m.type = "CREATE" /\ m.broker_id = 0 BY <2>1, NewRequestMsg DEF Request
  <2>3. Send(c, m) /\ gid[c] = 0 /\ PubsKept BY <1>2, <2>1 DEF Create, Send, PubsKept
  <2> QED BY <2>2, <2>3, SendIds DEF Request
<1>3. CASE Destroy(c)
  <2>1. PICK m : m = NewRequest("DESTROY", gid[c], NoTopic, 0) OBVIOUS
  <2>2. m \in Msg /\ m.type = "DESTROY" /\ m.mtype = gid[c] /\ m.broker_id = 0
    <3>1. "DESTROY" \in Request /\ NoTopic \in Topic \cup {NoTopic} /\ 0 \in Nat BY DEF Request
    <3> QED BY ONLY <1>1, <2>1, <3>1, NewRequestMsg
  <2>3. Send(c, m) /\ gid[c] # 0 BY <1>3, <2>1 DEF Destroy
  <2>4. PubsKept BY <1>3 DEF Destroy, Send, PubsKept
  <2> QED BY <2>2, <2>3, <2>4, SendIds DEF Request
<1>4. ASSUME NEW t \in Topic, SubscribeTo(c, t) PROVE IdsInv'
  <2>1. PICK m : m = NewRequest("SUBSCRIBE", gid[c], t, 0) OBVIOUS
  <2>2. m \in Msg /\ m.type = "SUBSCRIBE" /\ m.mtype = gid[c] /\ m.broker_id = 0
    BY <1>1, <2>1, NewRequestMsg DEF Request
  <2>3. Send(c, m) /\ gid[c] # 0 /\ PubsKept
    BY <1>4, <2>1 DEF SubscribeTo, Send, PubsKept
  <2> QED BY <2>2, <2>3, SendIds DEF Request
<1>5. ASSUME NEW t \in Topic, Publish(c, t) PROVE IdsInv'
  <2>1. Len(pubs) \in Nat /\ DOMAIN pubs \subseteq DOMAIN pubs' BY <1>5, PublishGrows
  <2>2. PICK m : m = NewRequest("PUBLISH", gid[c], t, Len(pubs) + 1) OBVIOUS
  <2>3. m \in Msg /\ m.type = "PUBLISH" /\ m.mtype = gid[c] /\ m.broker_id = 0
    BY <1>1, <2>1, <2>2, NewRequestMsg DEF Request
  <2>4. Send(c, m) /\ gid[c] # 0 BY <1>5, <2>2 DEF Publish
  <2>5. PubsKept BY <1>5, <2>1 DEF Publish, Send, PubsKept
  <2> QED BY <2>3, <2>4, <2>5, SendIds DEF Request
<1> QED BY <1>2, <1>3, <1>4, <1>5

-----------------------------------------------------------------------------
(* From the sockets to the workers.                                        *)

\* A message that is not c's is put in the queue of a worker.
LEMMA WorkGrows ==
  ASSUME Inv, NEW b \in Broker, NEW k \in Msg,
         workerQ' = [workerQ EXCEPT ![b] = Append(workerQ[b], k)],
         NEW c \in Client, Steady(c), Home[c] = b => ~Own(c, k)
  PROVE  \A e : InWork(c, e)' <=> InWork(c, e)
<1>1. PICK h \in Broker : h = Home[c] BY Constants
<1>2. PICK q, r : q = workerQ[h] /\ r = workerQ'[h] OBVIOUS
<1>3. /\ \A i \in DOMAIN q : i \in DOMAIN r /\ r[i] = q[i]
      /\ \A i \in DOMAIN r : (i \in DOMAIN q /\ r[i] = q[i]) \/ (h = b /\ r[i] = k)
  <2>1. workerQ \in [Broker -> Seq(Msg)] BY DEF Inv, WorkQOK
  <2> QED BY <1>2, <2>1, PutIn
<1>4. \A m : Own(c, m)' <=> Own(c, m) BY SteadyMeans
<1>5. ASSUME NEW e, InWork(c, e)' PROVE InWork(c, e)
  <2>1. PICK i \in DOMAIN r : Own(c, r[i])' /\ e = <<"work", h, i>>
    BY <1>1, <1>2, <1>5 DEF InWork
  <2>2. PICK m : m = r[i] OBVIOUS
  <2>3. r = r' BY <1>2
  <2>4. Own(c, m) BY <1>4, <2>1, <2>2
  <2>5. i \in DOMAIN q /\ q[i] = m BY <1>1, <1>3, <2>2, <2>4
  <2> QED BY <1>1, <1>2, <2>1, <2>4, <2>5 DEF InWork
<1>6. ASSUME NEW e, InWork(c, e) PROVE InWork(c, e)'
  <2>1. PICK i \in DOMAIN q : Own(c, q[i]) /\ e = <<"work", h, i>>
    BY <1>1, <1>2, <1>6 DEF InWork
  <2>2. PICK m : m = q[i] OBVIOUS
  <2>3. Own(c, m)' BY <1>4, <2>1, <2>2
  <2>4. i \in DOMAIN r /\ r[i] = m BY <1>3, <2>2
  <2> QED BY <1>1, <1>2, <2>1, <2>3, <2>4 DEF InWork
<1> QED BY <1>5, <1>6

\* A message of another broker is nothing to the clients of this one.
LEMMA RingReqHandlerIds ==
  ASSUME Inv, IdsInv, NEW b \in Broker, ReqHandler(b)
  PROVE  IdsInv'
<1>1. UNCHANGED <<users, topics, ids, wsubs, wrelayed, wpc, wmsg, respQ, strayed,
                  ring, conn, down, gid, wait, pubs>>
  BY DEF ReqHandler, workerPart, clientPart, dbVars
<1>2. up \in [Connection -> Seq(Msg)] /\ b \in Connection /\ up[b] # <<>> /\ Server(b) = b
  BY DEF ReqHandler, Inv, UpOK, Connection, Server
<1>3. PICK m : m = Head(up[b]) OBVIOUS
<1>4. m \in Msg /\ m.type = "PUBLISH" /\ m.broker_id # 0
  <2>1. up[b] \in Seq(Arriving) BY DEF Inv, UpOK
  <2>2. m \in Arriving BY <1>2, <1>3, <2>1, HeadTailProperties
  <2>3. m.pub \in PublishedAt(m.broker_id) BY <2>2 DEF Arriving, OnRing
  <2>4. Home[pubs[m.pub].by] = m.broker_id /\ pubs[m.pub].by \in Client
    BY <2>3, PublishersAreClients DEF Inv, PublishedAt
  <2> QED BY <2>2, <2>4, Constants DEF Arriving, OnRing
<1>5. workerQ' = [workerQ EXCEPT ![b] = Append(workerQ[b], m)]
  BY <1>2, <1>3, <1>4 DEF ReqHandler
<1>6. \A d \in Client : up'[d] = up[d]
  <2>1. \A d \in Client : d \in Connection /\ d # b BY Constants DEF Connection
  <2> QED BY <1>2, <2>1 DEF ReqHandler
<1>7. TablesAlone BY <1>1 DEF TablesAlone, Leaving, PubsKept
<1>8. IdsOK' BY <1>1, <1>7, TablesAloneOK DEF IdsInv
<1>9. \A d \in Client : Steady(d) BY <1>1, <1>7, TablesAloneSteady
<1>10. ASSUME NEW d \in Client PROVE ClientOK(d)' /\ PlacesOK(d)'
  <2>1. ClientOK(d) /\ PlacesOK(d) /\ Steady(d) BY <1>9 DEF IdsInv, ServedOK
  <2>2. ClientOK(d)' BY <1>1, <1>6, <1>7, <2>1, ClientKept DEF TablesAlone
  <2>3. \A e : InWork(d, e)' <=> InWork(d, e) BY <1>4, <1>5, <2>1, WorkGrows DEF Own
  <2>4. Serves(d)' <=> Serves(d) BY <1>1, <2>1, ServesKept
  <2>5. \A e : PlaceOf(d, e)' <=> PlaceOf(d, e)
    BY <1>1, <1>6, <2>3, <2>4 DEF PlaceOf, InUp, InWorker, InResp, InDown
  <2> QED BY <2>1, <2>2, <2>5, PlacesStay
<1>11. ASSUME NEW d \in Broker PROVE QueuedOK(d)' /\ BusyOK(d)'
  <2>1. \A k \in Elements(workerQ'[d]) : k \in Elements(workerQ[d]) \/ k = m
    <3>1. workerQ \in [Broker -> Seq(Msg)] BY DEF Inv, WorkQOK
    <3>2. PICK q : q = workerQ[b] OBVIOUS
    <3>3. Elements(Append(q, m)) = Elements(q) \cup {m} BY <1>4, <3>1, <3>2, QueueElements
    <3> QED BY <1>5, <3>1, <3>2, <3>3
  <2>2. ASSUME NEW k \in Elements(workerQ[d]) PROVE FirstHand(k)' => OfClient(d, k)'
    <3>1. FirstHand(k) => OfClient(d, k) BY DEF IdsInv, ServedOK, QueuedOK
    <3> QED BY <1>9, <3>1, QueuedKept
  <2>3. ~FirstHand(m)' BY <1>4 DEF FirstHand
  <2>4. QueuedOK(d)' BY <2>1, <2>2, <2>3 DEF QueuedOK, Elements
  <2> QED BY <1>1, <1>9, <2>4, BusyKept DEF IdsInv, ServedOK
<1> QED BY <1>8, <1>10, <1>11 DEF IdsInv, ServedOK

\* The request of a client is put in the queue of the worker, where it can be
\* told whose it is.
LEMMA ReqHandlerIds ==
  ASSUME Inv, IdsInv, NEW c \in Client, ReqHandler(c)
  PROVE  IdsInv'
<1>1. UNCHANGED <<users, topics, ids, wsubs, wrelayed, wpc, wmsg, respQ, strayed,
                  ring, conn, down, gid, wait, pubs>>
  BY DEF ReqHandler, workerPart, clientPart, dbVars
<1>2. PICK b \in Broker : b = Home[c] BY Constants
<1>3. /\ up \in [Connection -> Seq(Msg)] /\ c \in Connection /\ up[c] # <<>> /\ Server(c) = b
      /\ up' = [up EXCEPT ![c] = Tail(up[c])]
  BY <1>2, Constants DEF ReqHandler, Inv, UpOK, Connection, Server
<1>4. PICK m, k : m = Head(up[c]) /\ k = IF m.type = "CREATE" THEN [m EXCEPT !.mtype = c] ELSE m
  OBVIOUS
<1>5. workerQ' = [workerQ EXCEPT ![b] = Append(workerQ[b], k)]
  BY <1>3, <1>4 DEF ReqHandler
<1>6. PICK q, r : q = up[c] /\ r = up'[c] OBVIOUS
<1>7. /\ 1 \in DOMAIN q /\ q[1] = m /\ m \in Msg
      /\ \A i \in DOMAIN r : i \in Nat \ {0} /\ i + 1 \in DOMAIN q /\ r[i] = q[i + 1]
      /\ \A i \in DOMAIN q : i = 1 \/ (i - 1 \in DOMAIN r /\ r[i - 1] = q[i])
      /\ \A d \in Client : d # c => up'[d] = up[d]
  <2>1. \A d \in Client : d \in Connection BY DEF Connection
  <2> QED BY <1>3, <1>4, <1>6, <2>1, TakenOut
<1>8. ClientOK(c) /\ PlacesOK(c) BY DEF IdsInv, ServedOK
<1>9. /\ k \in Msg /\ k.type = m.type /\ k.broker_id = m.broker_id
      /\ k.mtype = IF m.type = "CREATE" THEN c ELSE m.mtype
  BY <1>4, <1>7 DEF Msg
<1>10. Pending(c, m) BY <1>6, <1>7, <1>8 DEF ClientOK, SentOK, Elements
<1>11. Own(c, k) /\ Pending(c, k)
  <2>1. PICK g : g = gid[c] OBVIOUS
  <2>2. m.type # "CREATE" => m.mtype = g /\ Entered(c, g)
    BY <1>10, <2>1 DEF Pending, Live, Owner
  <2> QED BY <1>9, <1>10, <2>1, <2>2 DEF Own, Pending
<1>12. TablesAlone BY <1>1 DEF TablesAlone, Leaving, PubsKept
<1>13. IdsOK' BY <1>1, <1>12, TablesAloneOK DEF IdsInv
<1>14. \A d \in Client : Steady(d) BY <1>1, <1>12, TablesAloneSteady
<1>15. ASSUME NEW d \in Client, d # c PROVE ClientOK(d)' /\ PlacesOK(d)'
  <2>1. ClientOK(d) /\ PlacesOK(d) /\ Steady(d) BY <1>14 DEF IdsInv, ServedOK
  <2>2. ClientOK(d)' BY <1>1, <1>7, <1>12, <1>15, <2>1, ClientKept DEF TablesAlone
  <2>3. Home[d] = b => ~Own(d, k)
    BY <1>2, <1>11, <1>15, OwnUnique DEF IdsInv, IdsOK
  <2>4. \A e : InWork(d, e)' <=> InWork(d, e) BY <1>5, <1>9, <2>1, <2>3, WorkGrows
  <2>5. Serves(d)' <=> Serves(d) BY <1>1, <2>1, ServesKept
  <2>6. \A e : PlaceOf(d, e)' <=> PlaceOf(d, e)
    BY <1>1, <1>7, <1>15, <2>4, <2>5 DEF PlaceOf, InUp, InWorker, InResp, InDown
  <2> QED BY <2>1, <2>2, <2>6, PlacesStay
<1>16. ClientOK(c)'
  <2>1. Holds(c)' BY <1>8, <1>14, SteadyMeans DEF ClientOK
  <2>2. SentOK(c)'
    <3>1. \A n \in Elements(r) : n \in Elements(q) BY <1>7 DEF Elements
    <3>2. ASSUME NEW n \in Elements(r) PROVE Pending(c, n)'
      <4>1. Pending(c, n) BY <1>6, <1>8, <3>1 DEF ClientOK, SentOK
      <4> QED BY <1>14, <4>1, SteadyMeans
    <3> QED BY <1>6, <3>2 DEF SentOK, Elements
  <2>3. AnswersOK(c)'
    <3>1. ASSUME NEW n \in Elements(respQ[c]) \cup Elements(down[c]), n.type \in Ack
          PROVE  Answered(c, n)'
      <4>1. Answered(c, n) BY <1>8, <3>1 DEF ClientOK, AnswersOK
      <4> QED BY <1>14, <4>1, SteadyMeans
    <3>2. \A n \in Elements(down[c]) : n.mtype = n.global_id BY <1>8 DEF ClientOK, AnswersOK
    <3> QED BY <1>1, <3>1, <3>2 DEF AnswersOK, Elements
  <2>4. LastOK(c)' BY <1>1, <1>8 DEF LastOK, ClientOK
  <2>5. NewsOK(c)'
    <3>1. \A n \in Elements(respQ[c]) \cup Elements(down[c]) : ForHolder(c, n)'
      BY <1>1, <1>8, <1>12, NewsMeans DEF ClientOK, NewsOK, TablesAlone
    <3> QED BY <1>1, <3>1 DEF NewsOK, Elements
  <2> QED BY <2>1, <2>2, <2>3, <2>4, <2>5 DEF ClientOK
<1>17. PICK p, s, n : p = workerQ[b] /\ s = workerQ'[b] /\ n = Len(p) + 1 OBVIOUS
<1>18. /\ n \in DOMAIN s /\ s[n] = k
       /\ \A i \in DOMAIN p : i \in DOMAIN s /\ s[i] = p[i]
       /\ \A i \in DOMAIN s : (i \in DOMAIN p /\ s[i] = p[i]) \/ (i = n /\ s[i] = k)
       /\ Elements(s) = Elements(p) \cup {k}
       /\ \A d \in Broker : d # b => workerQ'[d] = workerQ[d]
  <2>1. workerQ \in [Broker -> Seq(Msg)] BY DEF Inv, WorkQOK
  <2>2. /\ Len(workerQ[b]) \in Nat /\ Len(workerQ'[b]) = Len(workerQ[b]) + 1
        /\ DOMAIN workerQ'[b] = 1..Len(workerQ'[b])
        /\ workerQ'[b][Len(workerQ[b]) + 1] = k
        /\ \A i \in DOMAIN workerQ[b] : i \in DOMAIN workerQ'[b] /\ workerQ'[b][i] = workerQ[b][i]
        /\ \A i \in DOMAIN workerQ'[b] :
             \/ i \in DOMAIN workerQ[b] /\ workerQ'[b][i] = workerQ[b][i]
             \/ i = Len(workerQ[b]) + 1 /\ workerQ'[b][i] = k
        /\ \A d \in Broker : d # b => workerQ'[d] = workerQ[d]
    BY <1>5, <1>9, <2>1, PutIn
  <2>3. s = Append(p, k) /\ p \in Seq(Msg) BY <1>5, <1>17, <2>1
  <2>4. Elements(s) = Elements(p) \cup {k} BY <1>9, <2>3, QueueElements
  <2>5. n \in DOMAIN s BY <1>17, <2>2
  <2> QED BY <1>17, <2>2, <2>4, <2>5
<1>19. PlacesOK(c)'
  <2>1. ASSUME NEW e, InUp(c, e)'
        PROVE  \E i \in Nat \ {0} : e = <<"up", c, i>> /\ InUp(c, <<"up", c, i + 1>>)
    BY <1>6, <1>7, <2>1 DEF InUp
  <2>2. ASSUME NEW e, InWork(c, e)'
        PROVE  InWork(c, e) \/ (e = <<"work", b, n>> /\ InUp(c, <<"up", c, 1>>))
    <3>1. PICK i \in DOMAIN s : Own(c, s[i])' /\ e = <<"work", b, i>>
      BY <1>2, <1>17, <2>2 DEF InWork
    <3>2. CASE i \in DOMAIN p /\ s[i] = p[i]
      <4>1. PICK x : x = p[i] /\ x = s[i] BY <3>2
      <4>2. s = s' BY <1>17
      <4>3. Own(c, x) BY <1>14, <3>1, <4>1, <4>2, SteadyMeans
      <4> QED BY <1>2, <1>17, <3>1, <3>2, <4>1, <4>3 DEF InWork
    <3>3. CASE i = n BY <1>6, <1>7, <3>1, <3>3 DEF InUp
    <3> QED BY <1>18, <3>2, <3>3
  <2>3. \A e : InWorker(c, e)' <=> InWorker(c, e) BY <1>1, <1>14, ServesKept DEF InWorker
  <2>4. \A e : (InResp(c, e)' <=> InResp(c, e)) /\ (InDown(c, e)' <=> InDown(c, e))
    BY <1>1 DEF InResp, InDown
  <2>5. PlaceOf(c, <<"work", b, n>>)'
    <3>1. Own(c, k)' BY <1>11, <1>14, SteadyMeans
    <3>2. InWork(c, <<"work", b, n>>)' BY <1>2, <1>17, <1>18, <3>1 DEF InWork
    <3> QED BY <3>2 DEF PlaceOf
  <2>6. PICK C, D : C = Places(c) /\ D = Places(c)' OBVIOUS
  <2>7. \A e : (e \in C <=> PlaceOf(c, e)) /\ (e \in D <=> PlaceOf(c, e)') BY <2>6, PlacesAre
  <2>8. TakesHead("up", c, <<"work", b, n>>, C, D)
    <3>1. ASSUME NEW e \in D
          PROVE  \/ e \in C /\ (e[1] # "up" \/ e[2] # c)
                 \/ \E i \in Nat \ {0} : e = <<"up", c, i>> /\ <<"up", c, i + 1>> \in C
                 \/ e = <<"work", b, n>> /\ <<"up", c, 1>> \in C
      <4>1. PlaceOf(c, e)' BY <2>7
      <4>2. CASE InUp(c, e)'
        <5>1. PICK i \in Nat \ {0} : e = <<"up", c, i>> /\ InUp(c, <<"up", c, i + 1>>)
          BY <2>1, <4>2
        <5>2. <<"up", c, i + 1>> \in C BY <2>7, <5>1 DEF PlaceOf
        <5> QED BY <5>1, <5>2
      <4>3. CASE InWork(c, e)'
        <5>1. CASE InWork(c, e)
          <6>1. PlaceOf(c, e) /\ e[1] # "up" BY <5>1 DEF PlaceOf, InWork
          <6> QED BY <2>7, <6>1
        <5>2. CASE e = <<"work", b, n>> /\ InUp(c, <<"up", c, 1>>)
          <6>1. <<"up", c, 1>> \in C BY <2>7, <5>2 DEF PlaceOf
          <6> QED BY <5>2, <6>1
        <5> QED BY <2>2, <4>3, <5>1, <5>2
      <4>4. CASE InWorker(c, e)' \/ InResp(c, e)' \/ InDown(c, e)'
        <5>1. PlaceOf(c, e) BY <2>3, <2>4, <4>4 DEF PlaceOf
        <5>2. e[1] # "up" BY <4>4 DEF InWorker, InResp, InDown
        <5> QED BY <2>7, <5>1, <5>2
      <4> QED BY <4>1, <4>2, <4>3, <4>4 DEF PlaceOf
    <3> QED BY <3>1 DEF TakesHead
  <2>9. Single(C) BY <1>8, <2>6 DEF PlacesOK
  <2>10. Single(D) BY <2>8, <2>9, HeadMoves
  <2>11. D # {} BY <2>5, <2>7
  <2> QED BY <2>6, <2>10, <2>11 DEF PlacesOK
<1>20. ASSUME NEW d \in Broker PROVE QueuedOK(d)' /\ BusyOK(d)'
  <2>1. \A x \in Elements(workerQ'[d]) : x \in Elements(workerQ[d]) \/ (d = b /\ x = k)
    BY <1>17, <1>18
  <2>2. ASSUME NEW x \in Elements(workerQ[d]) PROVE FirstHand(x)' => OfClient(d, x)'
    <3>1. FirstHand(x) => OfClient(d, x) BY DEF IdsInv, ServedOK, QueuedOK
    <3> QED BY <1>14, <3>1, QueuedKept
  <2>3. OfClient(b, k)'
    <3>1. Own(c, k)' /\ Pending(c, k)' BY <1>11, <1>14, SteadyMeans
    <3> QED BY <1>2, <3>1 DEF OfClient
  <2>4. QueuedOK(d)' BY <2>1, <2>2, <2>3 DEF QueuedOK, Elements
  <2> QED BY <1>1, <1>14, <2>4, BusyKept DEF IdsInv, ServedOK
<1> QED BY <1>13, <1>15, <1>16, <1>19, <1>20 DEF IdsInv, ServedOK

\* The worker takes the next message: the request of the client it was of.
LEMMA WorkerReceiveIds ==
  ASSUME Inv, IdsInv, NEW b \in Broker, WorkerReceive(b)
  PROVE  IdsInv'
<1>1. /\ UNCHANGED <<users, topics, ids, wsubs, wrelayed, up, respQ, strayed,
                     ring, conn, down, gid, wait, pubs>>
      /\ wpc[b] = "idle"
  BY DEF WorkerReceive, clientPart, dbVars
<1>2. /\ workerQ \in [Broker -> Seq(Msg)] /\ workerQ[b] # <<>>
      /\ workerQ' = [workerQ EXCEPT ![b] = Tail(workerQ[b])]
  BY DEF WorkerReceive, Inv, WorkQOK
<1>3. PICK m, q, r : m = Head(workerQ[b]) /\ q = workerQ[b] /\ r = workerQ'[b] OBVIOUS
<1>4. /\ 1 \in DOMAIN q /\ q[1] = m /\ m \in Msg
      /\ \A i \in DOMAIN r : i \in Nat \ {0} /\ i + 1 \in DOMAIN q /\ r[i] = q[i + 1]
      /\ \A i \in DOMAIN q : i = 1 \/ (i - 1 \in DOMAIN r /\ r[i - 1] = q[i])
      /\ \A d \in Broker : d # b => workerQ'[d] = workerQ[d]
  BY <1>2, <1>3, TakenOut
<1>5. m.type \in Request /\ (m.type = "CREATE" => ClientOf(b, m.mtype))
  <2>1. workerQ[b] \in Seq(ForWorker(b)) BY DEF Inv, WorkQOK
  <2>2. m \in ForWorker(b) BY <1>2, <1>3, <2>1, HeadTailProperties
  <2> QED BY <2>2 DEF ForWorker, Labelled, Identified, Arriving, OnRing, Request
<1>6. /\ wpc'[b] = FirstStep[m.type] /\ wmsg'[b] = m
      /\ \A d \in Broker : d # b => wpc'[d] = wpc[d] /\ wmsg'[d] = wmsg[d]
  BY <1>3 DEF WorkerReceive, Inv, WorkersOK
<1>7. /\ m.type = "CREATE" => wpc'[b] = "add_user"
      /\ m.type # "CREATE" => wpc'[b] \in {"subscribe", "publish", "delete"}
      /\ wpc'[b] = "delete" => m.type = "DESTROY"
  BY <1>5, <1>6 DEF FirstStep, Request
<1>8. FirstHand(m) => OfClient(b, m)
  <2>1. m \in Elements(workerQ[b]) BY <1>3, <1>4 DEF Elements
  <2> QED BY <2>1 DEF IdsInv, ServedOK, QueuedOK
<1>9. TablesAlone
  <2>1. wpc'[b] \notin {"add_id", "remove_id"} BY <1>7
  <2> QED BY <1>1, <1>6, <2>1 DEF TablesAlone, Leaving, PubsKept
<1>10. \A d \in Broker : wpc'[d] = "fan_out" =>
         wpc[d] = "fan_out" /\ wmsg'[d].pub = wmsg[d].pub /\ wsubs'[d] \subseteq wsubs[d]
  <2>1. wpc'[b] # "fan_out" BY <1>7
  <2> QED BY <1>1, <1>6, <2>1
<1>11. IdsOK' BY <1>9, <1>10, TablesAloneOK DEF IdsInv
<1>12. \A d \in Client : Steady(d) BY <1>1, <1>9, TablesAloneSteady
<1>13. ASSUME NEW d \in Client PROVE ClientOK(d)'
  BY <1>1, <1>9, <1>12, ClientKept DEF TablesAlone, IdsInv, ServedOK
<1>14. ASSUME NEW d \in Client, Home[d] = b PROVE Serves(d)' <=> Own(d, m)
  <2>1. Own(d, m)' <=> Own(d, m) BY <1>12, SteadyMeans
  <2>2. CASE m.type # "CREATE" BY <1>6, <1>7, <1>14, <2>1, <2>2 DEF Serves
  <2>3. CASE m.type = "CREATE"
    <3>1. Serves(d)' <=> m.mtype = d BY <1>6, <1>7, <1>14, <2>3 DEF Serves
    <3>2. m.broker_id = 0 BY <1>8, <2>3 DEF FirstHand, OfClient, Own
    <3> QED BY <2>3, <3>1, <3>2 DEF Own
  <2> QED BY <2>2, <2>3
<1>15. ASSUME NEW d \in Client, Home[d] = b PROVE PlacesOK(d)'
  <2>0. \A x : Own(d, x)' <=> Own(d, x) BY <1>12, SteadyMeans
  <2>1. ASSUME NEW e, InWork(d, e)'
        PROVE  \E i \in Nat \ {0} : e = <<"work", b, i>> /\ InWork(d, <<"work", b, i + 1>>)
    <3>1. PICK i \in DOMAIN r : Own(d, r[i])' /\ e = <<"work", b, i>>
      BY <1>3, <1>15, <2>1 DEF InWork
    <3>2. PICK x : x = r[i] OBVIOUS
    <3>3. r = r' BY <1>3
    <3>4. Own(d, x) BY <2>0, <3>1, <3>2, <3>3
    <3>5. q[i + 1] = x /\ i + 1 \in DOMAIN q /\ i \in Nat \ {0} BY <1>4, <3>2
    <3>6. InWork(d, <<"work", b, i + 1>>) BY <1>3, <1>15, <3>4, <3>5 DEF InWork
    <3> QED BY <3>1, <3>5, <3>6
  <2>2. ASSUME NEW e, InWorker(d, e)'
        PROVE  e = <<"worker", b, 0>> /\ InWork(d, <<"work", b, 1>>)
    <3>1. e = <<"worker", b, 0>> /\ Own(d, m) BY <1>14, <1>15, <2>2 DEF InWorker
    <3> QED BY <1>3, <1>4, <1>15, <3>1 DEF InWork
  <2>3. \A e : /\ InUp(d, e)' <=> InUp(d, e)
               /\ InResp(d, e)' <=> InResp(d, e)
               /\ InDown(d, e)' <=> InDown(d, e)
    BY <1>1 DEF InUp, InResp, InDown
  <2>4. \A e : ~InWorker(d, e) BY <1>1, <1>15 DEF InWorker, Serves
  <2>5. ASSUME NEW e, PlaceOf(d, e) PROVE \E f : PlaceOf(d, f)'
    <3>1. CASE InUp(d, e) \/ InResp(d, e) \/ InDown(d, e) BY <2>3, <3>1 DEF PlaceOf
    <3>2. CASE InWork(d, e)
      <4>1. PICK i \in DOMAIN q : Own(d, q[i]) BY <1>3, <1>15, <3>2 DEF InWork
      <4>2. CASE i = 1
        <5>1. InWorker(d, <<"worker", b, 0>>)' BY <1>4, <1>14, <1>15, <4>1, <4>2 DEF InWorker
        <5> QED BY <5>1 DEF PlaceOf
      <4>3. CASE i - 1 \in DOMAIN r /\ r[i - 1] = q[i]
        <5>1. PICK x : x = q[i] OBVIOUS
        <5>2. Own(d, x)' BY <2>0, <4>1, <5>1
        <5>3. InWork(d, <<"work", b, i - 1>>)' BY <1>3, <1>15, <4>3, <5>1, <5>2 DEF InWork
        <5> QED BY <5>3 DEF PlaceOf
      <4> QED BY <1>4, <4>2, <4>3
    <3> QED BY <2>4, <2>5, <3>1, <3>2 DEF PlaceOf
  <2>6. PICK C, D : C = Places(d) /\ D = Places(d)' OBVIOUS
  <2>7. \A e : (e \in C <=> PlaceOf(d, e)) /\ (e \in D <=> PlaceOf(d, e)') BY <2>6, PlacesAre
  <2>8. TakesHead("work", b, <<"worker", b, 0>>, C, D)
    <3>1. ASSUME NEW e \in D
          PROVE  \/ e \in C /\ (e[1] # "work" \/ e[2] # b)
                 \/ \E i \in Nat \ {0} : e = <<"work", b, i>> /\ <<"work", b, i + 1>> \in C
                 \/ e = <<"worker", b, 0>> /\ <<"work", b, 1>> \in C
      <4>1. PlaceOf(d, e)' BY <2>7
      <4>2. CASE InWork(d, e)'
        <5>1. PICK i \in Nat \ {0} : e = <<"work", b, i>> /\ InWork(d, <<"work", b, i + 1>>)
          BY <2>1, <4>2
        <5>2. <<"work", b, i + 1>> \in C BY <2>7, <5>1 DEF PlaceOf
        <5> QED BY <5>1, <5>2
      <4>3. CASE InWorker(d, e)'
        <5>1. e = <<"worker", b, 0>> /\ InWork(d, <<"work", b, 1>>) BY <2>2, <4>3
        <5>2. <<"work", b, 1>> \in C BY <2>7, <5>1 DEF PlaceOf
        <5> QED BY <5>1, <5>2
      <4>4. CASE InUp(d, e)' \/ InResp(d, e)' \/ InDown(d, e)'
        <5>1. PlaceOf(d, e) BY <2>3, <4>4 DEF PlaceOf
        <5>2. e[1] # "work" BY <4>4 DEF InUp, InResp, InDown
        <5> QED BY <2>7, <5>1, <5>2
      <4> QED BY <4>1, <4>2, <4>3, <4>4 DEF PlaceOf
    <3> QED BY <3>1 DEF TakesHead
  <2>9. PlacesOK(d) BY DEF IdsInv, ServedOK
  <2>10. Single(C) BY <2>6, <2>9 DEF PlacesOK
  <2>11. Single(D) BY <2>8, <2>10, HeadMoves
  <2>12. ASSUME conn[d] = "on", wait[d] \in Request \ {"CREATE"} PROVE D # {}
    <3>1. PICK e : e \in C BY <2>6, <2>9, <2>12 DEF PlacesOK
    <3>2. PICK f : PlaceOf(d, f)' BY <2>5, <2>7, <3>1
    <3> QED BY <2>7, <3>2
  <2> QED BY <1>1, <2>6, <2>11, <2>12 DEF PlacesOK
<1>16. ASSUME NEW d \in Client, Home[d] # b PROVE PlacesOK(d)'
  <2>1. Home[d] \in Broker BY Constants
  <2>2. workerQ'[Home[d]] = workerQ[Home[d]] BY <1>4, <1>16, <2>1
  <2>3. Serves(d)' <=> Serves(d) BY <1>6, <1>12, <1>16, <2>1, ServesKept
  <2> QED BY <1>1, <1>12, <2>2, <2>3, PlacesUntouched DEF IdsInv, ServedOK
<1>17. ASSUME NEW d \in Broker PROVE QueuedOK(d)'
  <2>1. ASSUME NEW k \in Elements(workerQ[d]) PROVE FirstHand(k)' => OfClient(d, k)'
    <3>1. FirstHand(k) => OfClient(d, k) BY DEF IdsInv, ServedOK, QueuedOK
    <3> QED BY <1>12, <3>1, QueuedKept
  <2>2. Elements(workerQ'[d]) \subseteq Elements(workerQ[d])
    <3>1. CASE d = b BY <1>3, <1>4, <3>1 DEF Elements
    <3>2. CASE d # b BY <1>4, <3>2
    <3> QED BY <3>1, <3>2
  <2>3. \A k \in Elements(workerQ'[d]) : FirstHand(k)' => OfClient(d, k)' BY <2>1, <2>2
  <2> QED BY <2>3 DEF QueuedOK, Elements
<1>18. BusyOK(b)'
  <2>1. FirstHand(m)' => OfClient(b, m)' BY <1>8, <1>12, QueuedKept
  <2>2. ASSUME m.type = "CREATE" PROVE ClientOf(b, m.mtype) /\ BusyWith(b, m.mtype)'
    <3>1. FirstHand(m) BY <2>2 DEF FirstHand
    <3>2. PICK c \in Client : m.mtype = c /\ Home[c] = b /\ Pending(c, m)
      BY <1>8, <2>2, <3>1 DEF OfClient, Own
    <3>3. wait'[c] = "CREATE" /\ Fresh(c)' BY <1>1, <1>12, <2>2, <3>2, SteadyMeans DEF Pending
    <3>4. BusyWith(b, c)' BY <1>7, <2>2, <3>3 DEF BusyWith
    <3> QED BY <1>5, <2>2, <3>2, <3>4
  <2> QED BY <1>6, <1>7, <2>1, <2>2 DEF BusyOK, ClientOf
<1>19. ASSUME NEW d \in Broker, d # b PROVE BusyOK(d)'
  BY <1>6, <1>12, <1>19, BusyKept DEF IdsInv, ServedOK
<1> QED BY <1>11, <1>13, <1>15, <1>16, <1>17, <1>18, <1>19 DEF IdsInv, ServedOK

-----------------------------------------------------------------------------
(* The invariant of the ids, and what it gives.                            *)

LEMMA IdsNext ==
  ASSUME Inv, IdsInv, ListsProper, [Next]_vars
  PROVE  IdsInv'
<1>1. CASE \/ \E b \in Broker : RingConnect(b) \/ StartServing(b) \/ RingRespHandler(b)
           \/ \E c \in Client : AcceptClient(c) \/ LoseClient(c) \/ EndHandlers(c)
           \/ UNCHANGED vars
  BY <1>1, OutsideIds
<1>2. CASE \E b \in Broker : RingRegister(b) BY <1>2, RingRegisterIds
<1>3. ASSUME NEW b \in Broker, WorkerStep(b) PROVE IdsInv'
  <2>1. CASE WorkerReceive(b) BY <2>1, WorkerReceiveIds
  <2>2. CASE CreateUser(b) BY <2>2, CreateUserIds
  <2>3. CASE CreateId(b) BY <2>3, CreateIdFullIds, CreateIdIds
  <2>4. CASE ProcessSubscribe(b) BY <2>4, ProcessSubscribeIds
  <2>5. CASE DiscardPublish(b) \/ RejectPublish(b) BY <2>5, DropPublishIds
  <2>6. CASE FetchSubs(b) BY <2>6, FetchSubsIds
  <2>7. CASE SendToLocal(b) BY <2>7, SendToLocalIds
  <2>8. CASE SendToRing(b) BY <2>8, SendToRingIds
  <2>9. CASE EndFanOut(b) BY <2>9, EndFanOutIds
  <2>10. CASE DeleteUser(b) BY <2>10, DeleteUserIds
  <2>11. CASE RemoveId(b) BY <2>11, RemoveIdIds
  <2>12. CASE Respond(b) BY <2>12, RespondIds
  <2> QED BY <1>3, <2>1, <2>2, <2>3, <2>4, <2>5, <2>6, <2>7, <2>8, <2>9, <2>10, <2>11, <2>12
          DEF WorkerStep
<1>4. CASE \E x \in Connection : ReqHandler(x)
  BY <1>4, ReqHandlerIds, RingReqHandlerIds DEF Connection
<1>5. ASSUME NEW c \in Client,
             \/ Create(c) \/ Destroy(c) \/ ClientReceive(c) \/ RespHandler(c)
             \/ \E t \in Topic : SubscribeTo(c, t) \/ Publish(c, t)
      PROVE  IdsInv'
  BY <1>5, RequestIds, ClientReceiveIds, RespHandlerIds
<1> QED BY <1>1, <1>2, <1>3, <1>4, <1>5 DEF Next

LEMMA IdsInit == Init => IdsInv
<1> SUFFICES ASSUME Init PROVE IdsInv OBVIOUS
<1>1. /\ \A b \in Broker : ids[b] = <<>> /\ wpc[b] = "idle" /\ workerQ[b] = <<>>
      /\ \A c \in Client : /\ up[c] = <<>> /\ respQ[c] = <<>> /\ down[c] = <<>>
                           /\ gid[c] = 0 /\ wait[c] = "none" /\ conn[c] = "off"
      /\ \A t \in Topic : topics[t] = {}
  BY DEF Init, Connection, DbInit
<1>2. \A c \in Client : ~HasEntry(c) /\ \A id : ~Entered(c, id) /\ ~Owner(c, id)
  BY <1>1, Constants DEF HasEntry, Entered, Has, Owner
<1>3. IdsOK
  <2>1. EntriesUnique BY <1>1 DEF EntriesUnique, UniqueTable
  <2>2. EntriesOwned BY <1>1, Constants DEF EntriesOwned
  <2>3. OwnersUnique BY <1>2 DEF OwnersUnique
  <2>4. \A b \in Broker : Reserved(b) BY <1>1 DEF Reserved
  <2>5. LinesOwned BY <1>1 DEF LinesOwned
  <2>6. ListsOwned BY <1>1 DEF ListsOwned
  <2> QED BY <2>1, <2>2, <2>3, <2>4, <2>5, <2>6 DEF IdsOK
<1>4. ASSUME NEW c \in Client PROVE ClientOK(c)
  <2>1. Holds(c) BY <1>1, <1>2 DEF Holds, Fresh, Request
  <2>2. SentOK(c) /\ AnswersOK(c) /\ LastOK(c) /\ NewsOK(c)
    BY <1>1 DEF SentOK, AnswersOK, LastOK, NewsOK, Elements
  <2> QED BY <2>1, <2>2 DEF ClientOK
<1>5. ASSUME NEW c \in Client PROVE PlacesOK(c)
  <2>1. ASSUME NEW e PROVE ~PlaceOf(c, e)
    <3>1. Home[c] \in Broker BY Constants
    <3> QED BY <1>1, <3>1 DEF PlaceOf, InUp, InWork, InWorker, InResp, InDown, Serves
  <2>2. Places(c) = {} BY <2>1, PlacesAre
  <2> QED BY <1>1, <2>2 DEF PlacesOK, Single
<1>6. ASSUME NEW b \in Broker PROVE QueuedOK(b) /\ BusyOK(b)
  BY <1>1 DEF QueuedOK, BusyOK, Elements
<1> QED BY <1>3, <1>4, <1>5, <1>6 DEF IdsInv, ServedOK

\* Every id is entered for one client, that of the user it was given to
\* (process_create of worker.c, get_next_id of db.c), and a client
\* has one request or answer in the system, which its broker will take as what
\* it is: the inductive invariant.
THEOREM IdsAlways == Spec => [](Inv /\ IdsInv)
<1>1. Inv /\ OneCarrier /\ ListsProper /\ IdsInv /\ [Next]_vars
        => Inv' /\ OneCarrier' /\ ListsProper' /\ IdsInv'
  BY NextOK, CarriersNext, IdsNext
<1> QED BY InitOK, CarriersInit, IdsInit, <1>1, PTL DEF Spec

\* The ids in the table of a broker (global_id.c) belong to users of the
\* database and are in no other table, except for the moment between the
\* deletion of a user by the database and that of its entry by the worker
\* (process_destroy of worker.c): get_next_id gives no id that is in use.
THEOREM IdsExclusiveAlways == Spec => []IdsExclusive
<1>1. Inv /\ IdsInv => IdsExclusive
  <2> SUFFICES ASSUME Inv, IdsInv PROVE IdsExclusive OBVIOUS
  <2>1. ASSUME NEW b \in Broker, NEW id \in HeldBy(b)
        PROVE  \E c \in Client : Home[c] = b /\ Entered(c, id)
    <3>1. PICK table : table = ids[b] OBVIOUS
    <3>2. table \in Seq([global_id : Nat, mtype : Connection]) /\ ProcessTable(table)
      BY <3>1 DEF Inv, TablesOK, ProcessTable
    <3>3. PICK i \in DOMAIN table : table[i].global_id = id /\ id # NEXT_SERVER_GLOBAL_ID
      BY <3>1 DEF HeldBy, Elements
    <3>4. i \in 1..Len(ids[b]) BY <3>1, <3>2, <3>3, LenProperties
    <3>5. ClientOf(b, table[i].mtype) BY <3>1, <3>3, <3>4 DEF Inv, TablesOK
    <3>6. PICK c \in Client : c = table[i].mtype /\ Home[c] = b BY <3>5 DEF ClientOf
    <3>7. Has(table, Entry(id, c)) BY <3>2, <3>3, <3>6, ProcessEntries
    <3> QED BY <3>1, <3>6, <3>7 DEF Entered
  <2>2. ASSUME NEW b \in Broker PROVE HeldBy(b) \ Leaving(b) \subseteq users
    <3> SUFFICES ASSUME NEW id \in HeldBy(b), id \notin Leaving(b) PROVE id \in users
      OBVIOUS
    <3>1. PICK c \in Client : Home[c] = b /\ Entered(c, id) BY <2>1
    <3> QED BY <3>1, EnteredOwned
  <2>3. ASSUME NEW b \in Broker, NEW d \in Broker, d # b
        PROVE  HeldBy(b) \cap HeldBy(d) \subseteq Leaving(b) \cup Leaving(d)
    <3> SUFFICES ASSUME NEW id \in HeldBy(b), id \in HeldBy(d), id \notin Leaving(b),
                        id \notin Leaving(d)
                 PROVE  FALSE
      OBVIOUS
    <3>1. PICK x \in Client : Home[x] = b /\ Entered(x, id) BY <2>1
    <3>2. PICK y \in Client : Home[y] = d /\ Entered(y, id) BY <2>1
    <3>3. id \in users /\ Owner(x, id) /\ Owner(y, id) BY <3>1, <3>2, EnteredOwned
    <3>4. x = y BY <3>3 DEF IdsInv, IdsOK, OwnersUnique
    <3> QED BY <2>3, <3>1, <3>2, <3>4
  <2> QED BY <2>2, <2>3 DEF IdsExclusive
<1> QED BY IdsAlways, <1>1, PTL

\* No two clients hold the same id, unless one of them has asked for its
\* deletion: however often ids are given back and given again, by any broker
\* (get_next_id of db.c).
THEOREM IdsNotSharedAlways == Spec => []IdsNotShared
<1>1. Inv /\ IdsInv => IdsNotShared
  <2> SUFFICES ASSUME IdsInv, NEW c \in Client, NEW d \in Client, c # d, gid[c] = gid[d],
                      gid[c] # 0, wait[c] # "DESTROY", wait[d] # "DESTROY"
               PROVE  FALSE
    BY DEF IdsNotShared
  <2>1. PICK g : g = gid[c] /\ g = gid[d] OBVIOUS
  <2>2. Live(c) /\ Live(d) BY DEF IdsInv, ServedOK, ClientOK, Holds
  <2>3. Owner(c, g) /\ Owner(d, g) BY <2>1, <2>2 DEF Live
  <2>4. g \in users BY <2>3 DEF Owner
  <2> QED BY <2>3, <2>4 DEF IdsInv, IdsOK, OwnersUnique
<1> QED BY IdsAlways, <1>1, PTL

\* Answers and publications on their way to a client carry the id that the
\* client holds when it takes them (send_to_subs of worker.c, resp_handler.c):
\* nothing that was meant for an earlier holder of the id, or for the id that
\* the client had before, reaches it.
THEOREM AddressedAlways == Spec => []AddressedToHolder
<1>1. Inv /\ IdsInv => AddressedToHolder
  <2> SUFFICES ASSUME IdsInv, NEW c \in Client,
                      NEW m \in Elements(respQ[c]) \cup Elements(down[c]),
                      \/ m.type \in {"ACK_OK", "ACK_DESTROY"}
                      \/ m.type = "PUBLISH" /\ m.pub \in Proper
               PROVE  m.global_id = gid[c]
    BY DEF AddressedToHolder
  <2>1. ClientOK(c) BY DEF IdsInv, ServedOK
  <2>2. CASE m.type \in {"ACK_OK", "ACK_DESTROY"}
    <3>1. Answered(c, m) BY <2>1, <2>2 DEF ClientOK, AnswersOK, Ack
    <3> QED BY <2>2, <3>1 DEF Answered
  <2>3. CASE m.type = "PUBLISH" /\ m.pub \in Proper
    <3>1. ForHolder(c, m) BY <2>1 DEF ClientOK, NewsOK
    <3> QED BY <2>3, <3>1 DEF ForHolder, Proper
  <2> QED BY <2>2, <2>3
<1> QED BY IdsAlways, <1>1, PTL

-----------------------------------------------------------------------------
(* The requests and answers of a client, counted.                          *)

\* A set all of whose elements are the same has at most one.
LEMMA SingleCardinality ==
  ASSUME NEW S, Single(S)
  PROVE  Cardinality(S) = IF S = {} THEN 0 ELSE 1
<1>1. CASE S = {} BY <1>1, FS_EmptySet
<1>2. CASE S # {}
  <2>1. PICK e : e \in S BY <1>2
  <2>2. S = {e} BY <2>1 DEF Single
  <2> QED BY <2>1, <2>2, FS_Singleton
<1> QED BY <1>1, <1>2

\* The indices of the queues in which c has a place.
OwnInWork(c) == {i \in DOMAIN workerQ[Home[c]] : Own(c, workerQ[Home[c]][i])}
AcksInResp(c) == {i \in DOMAIN respQ[c] : respQ[c][i].type \in Ack}
AcksInDown(c) == {i \in DOMAIN down[c] : down[c][i].type \in Ack}

Bit(P) == IF P THEN 1 ELSE 0

\* The places of a client are as many as its requests and answers.
LEMMA ProgressCounts ==
  ASSUME Inv, IdsInv, NEW c \in Client
  PROVE  InProgress(c) = Bit(DOMAIN up[c] # {}) + Bit(OwnInWork(c) # {}) + Bit(Serves(c))
                           + Bit(AcksInResp(c) # {}) + Bit(AcksInDown(c) # {})
<1>1. PICK b \in Broker : b = Home[c] BY Constants
<1>2. EntriesUnique /\ PlacesOK(c) /\ TablesOK BY DEF IdsInv, IdsOK, ServedOK, Inv
<1>3. PICK C : C = Places(c) OBVIOUS
<1>4. Single(C) /\ \A e : PlaceOf(c, e) => e \in C BY <1>2, <1>3, PlacesAre DEF PlacesOK
<1>5. \A m : OwnRequest(c, m) <=> Own(c, m)
  <2> SUFFICES ASSUME NEW m PROVE OwnRequest(c, m) <=> Own(c, m) OBVIOUS
  <2>1. PICK id : id = m.mtype OBVIOUS
  <2>2. GetMtype(ids[b], id) = c <=> Entered(c, id) BY <1>1, <1>2, MtypeOfOwner
  <2> QED BY <1>1, <2>1, <2>2 DEF OwnRequest, Own
<1>6. WorksFor(c) <=> Serves(c)
  <2>1. OwnRequest(c, wmsg[b]) <=> Own(c, wmsg[b]) BY <1>5
  <2> QED BY <1>1, <2>1 DEF WorksFor, Serves
<1>7. Len(up[c]) = Bit(DOMAIN up[c] # {})
  <2>1. up[c] \in Seq(Msg) BY DEF Inv, UpOK, Connection
  <2>2. Len(up[c]) \in Nat /\ DOMAIN up[c] = 1..Len(up[c]) BY <2>1, LenProperties
  <2>3. ASSUME 2 \in DOMAIN up[c] PROVE FALSE
    <3>1. 1 \in DOMAIN up[c] BY <2>2, <2>3
    <3>2. PlaceOf(c, <<"up", c, 1>>) /\ PlaceOf(c, <<"up", c, 2>>)
      BY <2>3, <3>1 DEF PlaceOf, InUp
    <3>3. <<"up", c, 1>> = <<"up", c, 2>> BY <1>4, <3>2 DEF Single
    <3> QED BY <3>3
  <2>4. Len(up[c]) = 0 \/ Len(up[c]) = 1
    <3>1. PICK n \in Nat : n = Len(up[c]) BY <2>2
    <3>2. ~(2 \in 1..n) BY <2>2, <2>3, <3>1
    <3>3. n \in Nat /\ n < 2 BY <3>1, <3>2
    <3>4. n = 0 \/ n = 1 BY <3>3
    <3> QED BY <3>1, <3>4
  <2>5. CASE Len(up[c]) = 0 BY <2>2, <2>5 DEF Bit
  <2>6. CASE Len(up[c]) = 1
    <3>1. 1 \in DOMAIN up[c] BY <2>2, <2>6
    <3> QED BY <2>6, <3>1 DEF Bit
  <2> QED BY <2>4, <2>5, <2>6
<1>8. Count(workerQ[Home[c]], LAMBDA m : OwnRequest(c, m)) = Bit(OwnInWork(c) # {})
  <2>1. PICK S : S = OwnInWork(c) OBVIOUS
  <2>2. {i \in DOMAIN workerQ[Home[c]] : OwnRequest(c, workerQ[Home[c]][i])} = S
    BY <1>5, <2>1 DEF OwnInWork
  <2>3. Single(S)
    <3> SUFFICES ASSUME NEW i \in S, NEW j \in S PROVE i = j BY DEF Single
    <3>1. PlaceOf(c, <<"work", b, i>>) /\ PlaceOf(c, <<"work", b, j>>)
      BY <1>1, <2>1 DEF PlaceOf, InWork, OwnInWork
    <3>2. <<"work", b, i>> = <<"work", b, j>> BY <1>4, <3>1 DEF Single
    <3> QED BY <3>2
  <2>4. Count(workerQ[Home[c]], LAMBDA m : OwnRequest(c, m)) = Cardinality(S)
    BY <2>2 DEF Count
  <2>5. Cardinality(S) = Bit(S # {}) BY <2>3, SingleCardinality DEF Bit
  <2> QED BY <2>1, <2>4, <2>5
<1>9. Count(respQ[c], LAMBDA m : m.type \in Ack) = Bit(AcksInResp(c) # {})
  <2>1. PICK S : S = AcksInResp(c) OBVIOUS
  <2>2. Single(S)
    <3> SUFFICES ASSUME NEW i \in S, NEW j \in S PROVE i = j BY DEF Single
    <3>1. PlaceOf(c, <<"resp", c, i>>) /\ PlaceOf(c, <<"resp", c, j>>)
      BY <2>1 DEF PlaceOf, InResp, AcksInResp
    <3>2. <<"resp", c, i>> = <<"resp", c, j>> BY <1>4, <3>1 DEF Single
    <3> QED BY <3>2
  <2>3. Count(respQ[c], LAMBDA m : m.type \in Ack) = Cardinality(S)
    BY <2>1 DEF Count, AcksInResp
  <2>4. Cardinality(S) = Bit(S # {}) BY <2>2, SingleCardinality DEF Bit
  <2> QED BY <2>1, <2>3, <2>4
<1>10. Count(down[c], LAMBDA m : m.type \in Ack) = Bit(AcksInDown(c) # {})
  <2>1. PICK S : S = AcksInDown(c) OBVIOUS
  <2>2. Single(S)
    <3> SUFFICES ASSUME NEW i \in S, NEW j \in S PROVE i = j BY DEF Single
    <3>1. PlaceOf(c, <<"down", c, i>>) /\ PlaceOf(c, <<"down", c, j>>)
      BY <2>1 DEF PlaceOf, InDown, AcksInDown
    <3>2. <<"down", c, i>> = <<"down", c, j>> BY <1>4, <3>1 DEF Single
    <3> QED BY <3>2
  <2>3. Count(down[c], LAMBDA m : m.type \in Ack) = Cardinality(S)
    BY <2>1 DEF Count, AcksInDown
  <2>4. Cardinality(S) = Bit(S # {}) BY <2>2, SingleCardinality DEF Bit
  <2> QED BY <2>1, <2>3, <2>4
<1>11. (IF WorksFor(c) THEN 1 ELSE 0) = Bit(Serves(c)) BY <1>6 DEF Bit
<1> QED BY <1>7, <1>8, <1>9, <1>10, <1>11 DEF InProgress

\* At most one kind of place is taken.
LEMMA PlaceKinds ==
  ASSUME NEW c \in Client, PlacesOK(c)
  PROVE  LET n == Bit(DOMAIN up[c] # {}) + Bit(OwnInWork(c) # {}) + Bit(Serves(c))
                    + Bit(AcksInResp(c) # {}) + Bit(AcksInDown(c) # {})
         IN  n \in {0, 1} /\ (n = 0 <=> \A e : ~PlaceOf(c, e))
<1>1. PICK C, b : C = Places(c) /\ b = Home[c] OBVIOUS
<1>2. Single(C) /\ \A e : e \in C <=> PlaceOf(c, e) BY <1>1, PlacesAre DEF PlacesOK
<1>3. /\ DOMAIN up[c] # {} <=> \E i : <<"up", c, i>> \in C
      /\ OwnInWork(c) # {} <=> \E i : <<"work", b, i>> \in C
      /\ Serves(c) <=> <<"worker", b, 0>> \in C
      /\ AcksInResp(c) # {} <=> \E i : <<"resp", c, i>> \in C
      /\ AcksInDown(c) # {} <=> \E i : <<"down", c, i>> \in C
  <2>1. \A i : <<"up", c, i>> \in C <=> i \in DOMAIN up[c]
    BY <1>1, <1>2 DEF PlaceOf, InUp, InWork, InWorker, InResp, InDown
  <2>2. \A i : <<"work", b, i>> \in C <=> i \in OwnInWork(c)
    BY <1>1, <1>2 DEF PlaceOf, InUp, InWork, InWorker, InResp, InDown, OwnInWork
  <2>3. <<"worker", b, 0>> \in C <=> Serves(c)
    BY <1>1, <1>2 DEF PlaceOf, InUp, InWork, InWorker, InResp, InDown
  <2>4. \A i : <<"resp", c, i>> \in C <=> i \in AcksInResp(c)
    BY <1>1, <1>2 DEF PlaceOf, InUp, InWork, InWorker, InResp, InDown, AcksInResp
  <2>5. \A i : <<"down", c, i>> \in C <=> i \in AcksInDown(c)
    BY <1>1, <1>2 DEF PlaceOf, InUp, InWork, InWorker, InResp, InDown, AcksInDown
  <2> QED BY <2>1, <2>2, <2>3, <2>4, <2>5
<1>4. CASE C = {} BY <1>2, <1>3, <1>4 DEF Bit
<1>5. CASE C # {}
  <2>1. PICK e \in C : C = {e} BY <1>2, <1>5 DEF Single
  <2>2. PlaceOf(c, e) BY <1>2
  <2>3. CASE InUp(c, e)
    <3>1. PICK i : e = <<"up", c, i>> BY <2>3 DEF InUp
    <3> QED BY <1>2, <1>3, <2>1, <2>2, <3>1 DEF Bit
  <2>4. CASE InWork(c, e)
    <3>1. PICK i : e = <<"work", b, i>> BY <1>1, <2>4 DEF InWork
    <3> QED BY <1>2, <1>3, <2>1, <2>2, <3>1 DEF Bit
  <2>5. CASE InWorker(c, e)
    <3>1. e = <<"worker", b, 0>> BY <1>1, <2>5 DEF InWorker
    <3> QED BY <1>2, <1>3, <2>1, <2>2, <3>1 DEF Bit
  <2>6. CASE InResp(c, e)
    <3>1. PICK i : e = <<"resp", c, i>> BY <2>6 DEF InResp
    <3> QED BY <1>2, <1>3, <2>1, <2>2, <3>1 DEF Bit
  <2>7. CASE InDown(c, e)
    <3>1. PICK i : e = <<"down", c, i>> BY <2>7 DEF InDown
    <3> QED BY <1>2, <1>3, <2>1, <2>2, <3>1 DEF Bit
  <2> QED BY <2>2, <2>3, <2>4, <2>5, <2>6, <2>7 DEF PlaceOf
<1> QED BY <1>4, <1>5

\* A client that waits for an answer has exactly one request or answer between
\* its socket and the worker (req_handler.c, worker.c, resp_handler.c),
\* and one that does not wait has none: requests are neither lost nor answered
\* twice.
THEOREM AnsweredOnceAlways == Spec => []AnsweredOnce
<1>1. Inv /\ IdsInv => AnsweredOnce
  <2> SUFFICES ASSUME Inv, IdsInv, NEW c \in Client, conn[c] = "on"
               PROVE  /\ wait[c] = "none" => InProgress(c) = 0
                      /\ wait[c] = "CREATE" => InProgress(c) <= 1
                      /\ wait[c] \in Request \ {"CREATE"} => InProgress(c) = 1
    BY DEF AnsweredOnce
  <2>1. PlacesOK(c) BY DEF IdsInv, ServedOK
  <2>2. PICK n : n = InProgress(c) OBVIOUS
  <2>3. n \in {0, 1} /\ (n = 0 <=> \A e : ~PlaceOf(c, e))
    BY <2>1, <2>2, PlaceKinds, ProgressCounts
  <2>4. wait[c] = "none" => \A e : ~PlaceOf(c, e) BY IdlePlaces
  <2>5. wait[c] \in Request \ {"CREATE"} => \E e : PlaceOf(c, e)
    BY <2>1, PlacesAre DEF PlacesOK
  <2> QED BY <2>2, <2>3, <2>4, <2>5
<1> QED BY IdsAlways, <1>1, PTL
=============================================================================
