------------------------- MODULE BrokerCopies_proofs -------------------------
(***************************************************************************)
(* The theorems about the copies of a publication: no client gets more of  *)
(* them than it asked for, and those of the publisher's broker get theirs, *)
(* for every number of brokers, every set of clients and topics, and every *)
(* capacity.                                                               *)
(***************************************************************************)
EXTENDS BrokerIds_proofs

-----------------------------------------------------------------------------
(* The inductive invariants: where a publication has been on its way round *)
(* the ring, in how many lines of its topic a client may find itself, and  *)
(* what becomes of the copies of its publisher's broker.                   *)

\* How far x is from o, along the ring.
Dist(o, x) == IF x >= o THEN x - o ELSE x - o + N

\* What the worker of x has yet to look at ...
ComingTo(x) ==
  Elements(workerQ[x]) \cup (UNION {Elements(up[y]) : y \in HandlersOf(x)})
    \cup (IF wpc[x] = "publish" THEN {wmsg[x]} ELSE {})

\* ... and what it passes on.
GoingFrom(x) ==
  Elements(respQ[x]) \cup (IF wpc[x] = "fan_out" /\ ~wrelayed[x] THEN {wmsg[x]} ELSE {})

\* The brokers that will send m to their clients, when it comes to x ...
FromHere(x, m, b) ==
  /\ m.broker_id # x
  /\ LET o == IF m.broker_id = 0 THEN x ELSE m.broker_id IN Dist(o, b) >= Dist(o, x)

\* ... and when it has been there.
Beyond(x, m, b) == Dist(m.broker_id, b) > Dist(m.broker_id, x)

\* Nothing of p has been done at b.
Untouched(b, p) ==
  /\ ~(wpc[b] = "fan_out" /\ IsCopy(wmsg[b], p))
  /\ \A c \in Client : Home[c] = b => CopiesFor(c, p) = 0

\* A broker to which p is yet to come has done nothing for it.
SpreadOK ==
  \A p \in Proper : \A x \in Broker :
    /\ \A m \in ComingTo(x) : IsCopy(m, p) =>
         m.topic = pubs[p].topic /\ \A b \in Broker : FromHere(x, m, b) => Untouched(b, p)
    /\ \A m \in GoingFrom(x) : IsCopy(m, p) =>
         m.topic = pubs[p].topic /\ \A b \in Broker : Beyond(x, m, b) => Untouched(b, p)

\* A worker that has passed a publication on is still at it, and the list that the
\* database has sent it is finite.
ListsOK ==
  \A b \in Broker :
    /\ wrelayed[b] => wpc[b] = "fan_out"
    /\ wpc[b] = "fan_out" /\ wmsg[b].pub \notin strayed => IsFiniteSet(wsubs[b])

PubsOK ==
  /\ DOMAIN pubs \subseteq 1..MaxPubs
  /\ \A c \in Client : \A p \in 1..MaxPubs : p \notin DOMAIN pubs => got[c][p] = 0

\* The lines for which c is yet to be sent a copy of p.
ToCome(c, p) ==
  LET b == Home[c] IN
    {l \in wsubs[b] : wpc[b] = "fan_out" /\ IsCopy(wmsg[b], p) /\ Entered(c, l.id)}

CountFor(c) ==
  \A p \in Proper : CopiesFor(c, p) + Cardinality(ToCome(c, p)) <= asked[c][pubs[p].topic]

\* A request of c to subscribe to t that its broker has not processed.
Asks(c, t) ==
  LET b == Home[c]
      for(m) == m.type = "SUBSCRIBE" /\ m.topic = t
  IN  \/ \E m \in Elements(up[c]) : for(m)
      \/ \E m \in Elements(workerQ[b]) : Own(c, m) /\ for(m)
      \/ wpc[b] = "subscribe" /\ Own(c, wmsg[b]) /\ for(wmsg[b])

LinesOf(c, t) == {l \in topics[t] : Owner(c, l.id)}

\* The lines of c in a topic are of its own requests.
LinesFor(c) ==
  \A t \in Topic :
    Cardinality(LinesOf(c, t)) + (IF Asks(c, t) THEN 1 ELSE 0) <= asked[c][t]

CopiesInv ==
  SpreadOK /\ ListsOK /\ PubsOK /\ \A c \in Client : CountFor(c) /\ LinesFor(c)

-----------------------------------------------------------------------------
(* What a publication brings to the clients of its publisher's broker.      *)

\* No topic has more lines than the database puts into a reply.
RepliesWhole == \A t \in Topic : \A l \in topics[t] : l.pos <= MAX_CLIENTS

\* The id of c is in the file of t.
Filed(c, t) == \E l \in topics[t] : l.id = gid[c]

\* A client that has asked for a topic is in its file, or will be.
AskedOK(c) ==
  \A t \in Topic : asked[c][t] > 0 =>
    /\ gid[c] # 0
    /\ wait[c] = "DESTROY" \/ Filed(c, t) \/ Asks(c, t)

\* Those for whom a publication was sent stay in the file of its topic until they
\* leave, and none of them is left when that file is found empty.
AudienceOK ==
  /\ \A p \in DOMAIN pubs : \A c \in pubs[p].audience :
       conn[c] = "on" /\ gid[c] # 0 /\ wait[c] # "DESTROY" /\ Filed(c, pubs[p].topic)
  /\ strayed \subseteq DOMAIN pubs
  /\ \A p \in strayed : pubs[p].audience = {}

Sent(c, p) == CopiesFor(c, p) >= 1

\* Who was not sent the publication yet is in what is left of the list of the
\* worker that stamped it.
HomeListed(b) ==
  \A p \in DOMAIN pubs : wpc[b] = "fan_out" /\ wmsg[b].broker_id = b /\ wmsg[b].pub = p =>
    \A c \in pubs[p].audience :
      Home[c] = b => Sent(c, p) \/ \E l \in wsubs[b] : l.id = gid[c]

DeliveryInv ==
  /\ \A c \in Client : AskedOK(c)
  /\ AudienceOK
  /\ \A b \in Broker : HomeListed(b)
  /\ HomeDelivery

-----------------------------------------------------------------------------
(* The copies of a publication in a queue.                                 *)

Copies(q, p) == {i \in DOMAIN q : IsCopy(q[i], p)}

LEMMA CopiesCount ==
  ASSUME NEW q \in Seq(Msg), NEW p
  PROVE  /\ IsFiniteSet(Copies(q, p)) /\ Cardinality(Copies(q, p)) \in Nat
         /\ \A i \in Copies(q, p) : i \in Nat \ {0}
         /\ Cardinality(Copies(q, p)) = 0 <=> \A m \in Elements(q) : ~IsCopy(m, p)
         /\ Cardinality(Copies(<<>>, p)) = 0
<1>1. DOMAIN q = 1..Len(q) /\ Len(q) \in Nat BY LenProperties
<1>2. IsFiniteSet(1..Len(q)) BY <1>1, FS_Interval
<1>3. Copies(q, p) \subseteq 1..Len(q) BY <1>1 DEF Copies
<1>4. IsFiniteSet(Copies(q, p)) BY <1>2, <1>3, FS_Subset
<1>5. Cardinality(Copies(q, p)) \in Nat BY <1>4, FS_CardinalityType
<1>6. Cardinality(Copies(q, p)) = 0 <=> Copies(q, p) = {} BY <1>4, FS_EmptySet
<1>7. Copies(q, p) = {} <=> \A m \in Elements(q) : ~IsCopy(m, p) BY DEF Copies, Elements
<1>8. Copies(<<>>, p) = {} BY DEF Copies
<1>9. Cardinality(Copies(<<>>, p)) = 0 BY <1>8, FS_EmptySet
<1>10. \A i \in Copies(q, p) : i \in Nat \ {0} BY <1>1, <1>3
<1> QED BY <1>4, <1>5, <1>6, <1>7, <1>9, <1>10

LEMMA CopiesAppend ==
  ASSUME NEW q \in Seq(Msg), NEW m \in Msg, NEW p
  PROVE  Cardinality(Copies(Append(q, m), p)) = Cardinality(Copies(q, p)) + Bit(IsCopy(m, p))
<1>1. PICK r, n : r = Append(q, m) /\ n = Len(q) OBVIOUS
<1>2. /\ DOMAIN r = 1..n + 1 /\ DOMAIN q = 1..n /\ n \in Nat /\ r[n + 1] = m
      /\ \A i \in 1..n : r[i] = q[i]
  BY <1>1, AppendProperties, LenProperties
<1>3. Copies(r, p) = IF IsCopy(m, p) THEN Copies(q, p) \cup {n + 1} ELSE Copies(q, p)
  BY <1>2 DEF Copies
<1>4. n + 1 \notin Copies(q, p) BY <1>2 DEF Copies
<1>5. IsFiniteSet(Copies(q, p)) /\ Cardinality(Copies(q, p)) \in Nat BY CopiesCount
<1>6. Cardinality(Copies(q, p) \cup {n + 1}) = Cardinality(Copies(q, p)) + 1
  BY <1>4, <1>5, FS_AddElement
<1> QED BY <1>1, <1>3, <1>5, <1>6 DEF Bit

LEMMA CopiesTail ==
  ASSUME NEW q \in Seq(Msg), q # <<>>, NEW p
  PROVE  Cardinality(Copies(q, p)) = Cardinality(Copies(Tail(q), p)) + Bit(IsCopy(Head(q), p))
<1>1. PICK r, h, n : r = Tail(q) /\ h = Head(q) /\ n = Len(q) OBVIOUS
<1>2. /\ DOMAIN r = 1..n - 1 /\ DOMAIN q = 1..n /\ n \in Nat /\ n >= 1 /\ q[1] = h
      /\ \A i \in 1..n - 1 : r[i] = q[i + 1]
  BY <1>1, HeadTailProperties, LenProperties
<1>3. Copies(r, p) = Moved(Copies(q, p)) BY <1>2 DEF Copies, Moved
<1>4. 1 \in Copies(q, p) <=> IsCopy(h, p) BY <1>2 DEF Copies
<1>5. IsFiniteSet(Copies(q, p)) /\ \A j \in Copies(q, p) : j \in Nat /\ j >= 1 BY CopiesCount
<1>6. PICK d \in {0, 1} : (d = 1 <=> 1 \in Copies(q, p)) /\ d = Bit(IsCopy(h, p))
  BY <1>4 DEF Bit
<1>7. Cardinality(Copies(q, p)) = Cardinality(Moved(Copies(q, p))) + d
  BY <1>5, <1>6, AscendingMoves
<1> QED BY <1>1, <1>3, <1>6, <1>7

\* What a client has of a publication, in the terms of its queues.
LEMMA CopiesForIs ==
  ASSUME NEW c, NEW p
  PROVE  /\ CopiesFor(c, p) = got[c][p] + Cardinality(Copies(respQ[c], p))
                                        + Cardinality(Copies(down[c], p))
         /\ CopiesFor(c, p)' = got'[c][p] + Cardinality(Copies(respQ'[c], p))
                                          + Cardinality(Copies(down'[c], p))
BY Zenon DEF CopiesFor, Count, Copies, IsCopy

LEMMA CopiesAdded ==
  ASSUME NEW g \in Nat, NEW q \in Seq(Msg), NEW r \in Seq(Msg), NEW p
  PROVE  /\ g + Cardinality(Copies(q, p)) + Cardinality(Copies(r, p)) \in Nat
         /\ g + Cardinality(Copies(q, p)) + Cardinality(Copies(r, p)) = 0 <=>
              g = 0 /\ \A m \in Elements(q) \cup Elements(r) : ~IsCopy(m, p)
<1>1. PICK i, j : i = Cardinality(Copies(q, p)) /\ j = Cardinality(Copies(r, p)) OBVIOUS
<1>2. i \in Nat /\ j \in Nat BY <1>1, CopiesCount
<1>3. /\ i = 0 <=> \A m \in Elements(q) : ~IsCopy(m, p)
      /\ j = 0 <=> \A m \in Elements(r) : ~IsCopy(m, p)
  BY <1>1, CopiesCount
<1>4. g + i + j \in Nat /\ (g + i + j = 0 <=> g = 0 /\ i = 0 /\ j = 0) BY <1>2
<1> QED BY <1>1, <1>3, <1>4

\* The queues of a client and what it has got.
LEMMA NewsTypes ==
  ASSUME Inv, NEW c \in Client
  PROVE  /\ respQ[c] \in Seq(Msg) /\ down[c] \in Seq(Msg)
         /\ respQ \in [Connection -> Seq(Msg)] /\ down \in [Client -> Seq(Msg)]
         /\ c \in Connection
         /\ \A p \in 1..MaxPubs : got[c][p] \in Nat
         /\ \A t \in Topic : asked[c][t] \in Nat
<1>1. down \in [Client -> Seq(Msg)] BY DownSeq DEF Inv
<1>2. respQ \in [Connection -> Seq(Msg)] /\ c \in Connection BY DEF Inv, RespQOK, Connection
<1> QED BY <1>1, <1>2 DEF Inv, ClientsOK

LEMMA CopiesForNat ==
  ASSUME Inv, PubsOK, NEW c \in Client, NEW p \in DOMAIN pubs
  PROVE  /\ p \in 1..MaxPubs
         /\ CopiesFor(c, p) \in Nat
         /\ CopiesFor(c, p) = 0 <=>
              got[c][p] = 0 /\ \A m \in Elements(respQ[c]) \cup Elements(down[c]) : ~IsCopy(m, p)
<1>1. p \in 1..MaxPubs BY DEF PubsOK
<1>2. got[c][p] \in Nat /\ respQ[c] \in Seq(Msg) /\ down[c] \in Seq(Msg) BY <1>1, NewsTypes
<1>3. PICK g \in Nat, q \in Seq(Msg), r \in Seq(Msg) : g = got[c][p] /\ q = respQ[c] /\ r = down[c]
  BY <1>2
<1>4. CopiesFor(c, p) = g + Cardinality(Copies(q, p)) + Cardinality(Copies(r, p))
  BY <1>3, CopiesForIs
<1>5. /\ g + Cardinality(Copies(q, p)) + Cardinality(Copies(r, p)) \in Nat
      /\ g + Cardinality(Copies(q, p)) + Cardinality(Copies(r, p)) = 0 <=>
           g = 0 /\ \A m \in Elements(q) \cup Elements(r) : ~IsCopy(m, p)
  BY CopiesAdded
<1> QED BY <1>1, <1>3, <1>4, <1>5

-----------------------------------------------------------------------------
(* Where the message of a publication comes from.                          *)

AtComing(x, m) ==
  \/ \E y \in Connection : Server(y) = x /\ m \in Elements(up[y])
  \/ m \in Elements(workerQ[x])
  \/ wpc[x] = "publish" /\ m = wmsg[x]

AtGoing(x, m) ==
  \/ m \in Elements(respQ[x])
  \/ wpc[x] = "fan_out" /\ ~wrelayed[x] /\ m = wmsg[x]

LEMMA ComingIs ==
  ASSUME NEW x \in Broker, NEW m
  PROVE  /\ m \in ComingTo(x) <=> AtComing(x, m)
         /\ m \in ComingTo(x)' <=> AtComing(x, m)'
         /\ m \in GoingFrom(x) <=> AtGoing(x, m)
         /\ m \in GoingFrom(x)' <=> AtGoing(x, m)'
<1>1. \A y : y \in HandlersOf(x) <=> y \in Connection /\ Server(y) = x
  BY Constants DEF HandlersOf, Connection, Server
<1> DEFINE U == UNION {Elements(up[y]) : y \in HandlersOf(x)}
           K == IF wpc[x] = "publish" THEN {wmsg[x]} ELSE {}
<1>2. m \in U <=> \E y \in HandlersOf(x) : m \in Elements(up[y]) OBVIOUS
<1>3. m \in U' <=> \E y \in HandlersOf(x) : m \in Elements(up'[y]) BY DEF HandlersOf, Elements
<1>4. m \in ComingTo(x) <=> m \in U \/ m \in Elements(workerQ[x]) \/ m \in K
  <2>1. ComingTo(x) = Elements(workerQ[x]) \cup U \cup K BY Zenon DEF ComingTo
  <2> HIDE DEF U, K
  <2> QED BY <2>1
<1>5. m \in ComingTo(x)' <=> m \in U' \/ m \in Elements(workerQ[x])' \/ m \in K'
  <2>1. ComingTo(x)' = Elements(workerQ[x])' \cup U' \cup K' BY Zenon DEF ComingTo
  <2> HIDE DEF U, K
  <2> QED BY <2>1
<1>6. m \in GoingFrom(x) <=> AtGoing(x, m) BY DEF GoingFrom, AtGoing
<1>7. m \in GoingFrom(x)' <=> AtGoing(x, m)' BY DEF GoingFrom, AtGoing, Elements
<1>8. m \in ComingTo(x) <=> AtComing(x, m) BY <1>1, <1>2, <1>4 DEF AtComing
<1>9. m \in ComingTo(x)' <=> AtComing(x, m)' BY <1>1, <1>3, <1>5 DEF AtComing, Elements, Server
<1> QED BY <1>6, <1>7, <1>8, <1>9

\* Both are messages of one publication, for the same topic and of the same broker.
Alike(k, m) ==
  k.type = m.type /\ k.pub = m.pub /\ k.topic = m.topic /\ k.broker_id = m.broker_id

\* Publications stay as they are, and strays stay strays.
SamePubs ==
  /\ DOMAIN pubs' = DOMAIN pubs /\ strayed \subseteq strayed'
  /\ \A p \in DOMAIN pubs : pubs'[p].topic = pubs[p].topic

LEMMA FromBeyond ==
  ASSUME NEW x \in Broker, NEW y \in Broker, x = Succ(y), NEW m, m.broker_id \in Broker,
         NEW b \in Broker, FromHere(x, m, b)
  PROVE  Beyond(y, m, b)
<1>1. PICK o \in Broker : o = m.broker_id OBVIOUS
<1>2. o # 0 /\ N \in Nat /\ o \in Nat /\ x \in Nat /\ y \in Nat /\ b \in Nat BY Constants
<1>3. o # x /\ Dist(o, b) >= Dist(o, x) BY <1>1, <1>2 DEF FromHere
<1>4. Dist(o, x) = Dist(o, y) + 1 BY <1>2, <1>3 DEF Dist, Succ, Broker
<1>5. Dist(o, b) > Dist(o, y) BY <1>2, <1>3, <1>4 DEF Dist
<1> QED BY <1>1, <1>5 DEF Beyond

\* A publication that is passed on has been stamped.
LEMMA GoingStamped ==
  ASSUME Inv, NEW x \in Broker, NEW m, AtGoing(x, m), m.type = "PUBLISH"
  PROVE  m.broker_id \in Broker
<1>1. \A p \in DOMAIN pubs : Home[pubs[p].by] \in Broker BY Constants, PublishersAreClients DEF Inv
<1>2. CASE m \in Elements(respQ[x])
  <2>1. respQ[x] \in Seq(OnRing) BY DEF Inv, RespQOK
  <2>2. m \in OnRing BY <1>2, <2>1, ElementOfSeq, LenProperties DEF Elements
  <2> QED BY <1>1, <2>2 DEF OnRing, PublishedAt
<1>3. CASE wpc[x] = "fan_out" /\ m = wmsg[x]
  <2>1. wmsg[x].pub \in PublishedAt(wmsg[x].broker_id) BY <1>3, FanOutMsg
  <2> QED BY <1>1, <1>3, <2>1 DEF PublishedAt
<1> QED BY <1>2, <1>3 DEF AtGoing

\* The message is where it was, or has come a step nearer.
LEMMA SpreadMoves ==
  ASSUME Inv, SpreadOK, SamePubs,
         \A x \in Broker : \A m : AtComing(x, m)' /\ m.type = "PUBLISH" /\ m.pub \notin strayed' =>
           \E k : Alike(k, m) /\ (AtComing(x, k) \/ \E y \in Broker : x = Succ(y) /\ AtGoing(y, k)),
         \A x \in Broker : \A m : AtGoing(x, m)' /\ m.type = "PUBLISH" /\ m.pub \notin strayed' =>
           \E k : Alike(k, m) /\ AtGoing(x, k),
         \A b \in Broker : \A p \in Proper' : Untouched(b, p) => Untouched(b, p)'
  PROVE  SpreadOK'
<1>1. \A p \in Proper' : p \in Proper /\ pubs'[p].topic = pubs[p].topic BY DEF Proper, SamePubs
<1>2. ASSUME NEW p \in Proper', NEW x \in Broker, NEW m \in ComingTo(x)', IsCopy(m, p)
      PROVE  m.topic = pubs'[p].topic /\ \A b \in Broker : FromHere(x, m, b) => Untouched(b, p)'
  <2>1. AtComing(x, m)' /\ m.type = "PUBLISH" /\ m.pub \notin strayed'
    BY <1>2, ComingIs DEF IsCopy, Proper
  <2>2. PICK k : Alike(k, m) /\ (AtComing(x, k) \/ \E y \in Broker : x = Succ(y) /\ AtGoing(y, k))
    BY <2>1
  <2>3. IsCopy(k, p) BY <1>2, <2>2 DEF Alike, IsCopy
  <2>4. CASE AtComing(x, k)
    <3>1. k \in ComingTo(x) BY <2>4, ComingIs
    <3>2. k.topic = pubs[p].topic /\ \A b \in Broker : FromHere(x, k, b) => Untouched(b, p)
      BY <1>1, <2>3, <3>1 DEF SpreadOK
    <3>3. \A b \in Broker : FromHere(x, m, b) => FromHere(x, k, b) BY <2>2 DEF Alike, FromHere
    <3> QED BY <1>1, <2>2, <3>2, <3>3 DEF Alike
  <2>5. CASE \E y \in Broker : x = Succ(y) /\ AtGoing(y, k)
    <3>1. PICK y \in Broker : x = Succ(y) /\ AtGoing(y, k) BY <2>5
    <3>2. k \in GoingFrom(y) BY <3>1, ComingIs
    <3>3. k.topic = pubs[p].topic /\ \A b \in Broker : Beyond(y, k, b) => Untouched(b, p)
      BY <1>1, <2>3, <3>2 DEF SpreadOK
    <3>4. m.broker_id \in Broker BY <2>2, <2>3, <3>1, GoingStamped DEF Alike, IsCopy
    <3>5. \A b \in Broker : FromHere(x, m, b) => Beyond(y, m, b) BY <3>1, <3>4, FromBeyond
    <3>6. \A b \in Broker : Beyond(y, m, b) => Beyond(y, k, b) BY <2>2 DEF Alike, Beyond
    <3> QED BY <1>1, <2>2, <3>3, <3>5, <3>6 DEF Alike
  <2> QED BY <2>2, <2>4, <2>5
<1>3. ASSUME NEW p \in Proper', NEW x \in Broker, NEW m \in GoingFrom(x)', IsCopy(m, p)
      PROVE  m.topic = pubs'[p].topic /\ \A b \in Broker : Beyond(x, m, b) => Untouched(b, p)'
  <2>1. AtGoing(x, m)' /\ m.type = "PUBLISH" /\ m.pub \notin strayed'
    BY <1>3, ComingIs DEF IsCopy, Proper
  <2>2. PICK k : Alike(k, m) /\ AtGoing(x, k) BY <2>1
  <2>3. IsCopy(k, p) BY <1>3, <2>2 DEF Alike, IsCopy
  <2>4. k \in GoingFrom(x) BY <2>2, ComingIs
  <2>5. k.topic = pubs[p].topic /\ \A b \in Broker : Beyond(x, k, b) => Untouched(b, p)
    BY <1>1, <2>3, <2>4 DEF SpreadOK
  <2>6. \A b \in Broker : Beyond(x, m, b) => Beyond(x, k, b) BY <2>2 DEF Alike, Beyond
  <2> QED BY <1>1, <2>2, <2>5, <2>6 DEF Alike
<1> QED BY <1>2, <1>3 DEF SpreadOK, IsCopy

-----------------------------------------------------------------------------
(* Steps that make no copies.                                              *)

\* No message of a publication comes to a queue between brokers.
MessagesCalm ==
  /\ \A x \in Connection : \A m \in Elements(up[x])' : m.type = "PUBLISH" => m \in Elements(up[x])
  /\ \A b \in Broker : /\ Elements(workerQ[b])' \subseteq Elements(workerQ[b])
                       /\ Elements(respQ[b])' \subseteq Elements(respQ[b])

\* No worker takes up a publication ...
PublishCalm ==
  \A b \in Broker : wpc'[b] = "publish" => wpc[b] = "publish" /\ wmsg'[b] = wmsg[b]

\* ... or a list.
FanOutsCalm ==
  \A b \in Broker :
    /\ wpc'[b] = "fan_out" => /\ wpc[b] = "fan_out" /\ wmsg'[b] = wmsg[b]
                              /\ wrelayed[b] => wrelayed'[b]
                              /\ wsubs'[b] \subseteq wsubs[b]
    /\ wrelayed'[b] => wpc'[b] = "fan_out"

\* No client gets more of a publication.
NewsCalm ==
  \A c \in Client : \A p \in Proper' :
    CopiesFor(c, p)' \in Nat /\ CopiesFor(c, p)' <= CopiesFor(c, p)

LEMMA UntouchedStays ==
  ASSUME FanOutsCalm, NewsCalm, NEW p \in Proper', NEW b \in Broker, Untouched(b, p)
  PROVE  Untouched(b, p)'
<1>1. ~(wpc'[b] = "fan_out" /\ IsCopy(wmsg'[b], p)) BY DEF Untouched, FanOutsCalm
<1>2. ASSUME NEW c \in Client, Home[c] = b PROVE CopiesFor(c, p)' = 0
  <2>1. PICK i, j : i = CopiesFor(c, p) /\ j = CopiesFor(c, p)' OBVIOUS
  <2>2. i = 0 /\ j \in Nat /\ j <= i BY <1>2, <2>1 DEF Untouched, NewsCalm
  <2> QED BY <2>1, <2>2
<1> QED BY <1>1, <1>2 DEF Untouched, IsCopy

LEMMA SpreadStays ==
  ASSUME Inv, SpreadOK, SamePubs, MessagesCalm, PublishCalm, FanOutsCalm, NewsCalm
  PROVE  SpreadOK'
<1>1. ASSUME NEW x \in Broker, NEW m, AtComing(x, m)', m.type = "PUBLISH"
      PROVE  AtComing(x, m)
  <2>1. \/ \E y \in Connection : Server(y) = x /\ m \in Elements(up[y])'
        \/ m \in Elements(workerQ[x])'
        \/ wpc'[x] = "publish" /\ m = wmsg'[x]
    BY <1>1 DEF AtComing, Server
  <2> QED BY <1>1, <2>1 DEF MessagesCalm, PublishCalm, AtComing
<1>2. ASSUME NEW x \in Broker, NEW m, AtGoing(x, m)', m.type = "PUBLISH"
      PROVE  AtGoing(x, m)
  <2>1. \/ m \in Elements(respQ[x])'
        \/ wpc'[x] = "fan_out" /\ ~wrelayed'[x] /\ m = wmsg'[x]
    BY <1>2 DEF AtGoing
  <2> QED BY <1>2, <2>1 DEF MessagesCalm, FanOutsCalm, AtGoing
<1>3. \A m : Alike(m, m) BY DEF Alike
<1> QED BY <1>1, <1>2, <1>3, UntouchedStays, SpreadMoves

LEMMA ListsStay ==
  ASSUME ListsOK, strayed \subseteq strayed', FanOutsCalm
  PROVE  ListsOK'
<1>1. ASSUME NEW b \in Broker, wpc'[b] = "fan_out", wmsg'[b].pub \notin strayed'
      PROVE  IsFiniteSet(wsubs'[b])
  <2>1. IsFiniteSet(wsubs[b]) BY <1>1 DEF ListsOK, FanOutsCalm
  <2>2. wsubs'[b] \subseteq wsubs[b] BY <1>1 DEF FanOutsCalm
  <2> QED BY <2>1, <2>2, FS_Subset
<1> QED BY <1>1 DEF ListsOK, FanOutsCalm

LEMMA ToComeFinite ==
  ASSUME ListsOK, NEW c \in Client, NEW p \in Proper
  PROVE  IsFiniteSet(ToCome(c, p)) /\ Cardinality(ToCome(c, p)) \in Nat
<1>1. PICK b \in Broker : b = Home[c] BY Constants
<1>2. CASE wpc[b] = "fan_out" /\ IsCopy(wmsg[b], p)
  <2>1. IsFiniteSet(wsubs[b]) BY <1>2 DEF ListsOK, Proper, IsCopy
  <2>2. ToCome(c, p) \subseteq wsubs[b] BY <1>1 DEF ToCome
  <2> QED BY <2>1, <2>2, FS_Subset, FS_CardinalityType
<1>3. CASE ~(wpc[b] = "fan_out" /\ IsCopy(wmsg[b], p))
  <2>1. ToCome(c, p) = {} BY <1>1, <1>3 DEF ToCome
  <2> QED BY <2>1, FS_EmptySet
<1> QED BY <1>2, <1>3

\* The entries of c stay, while the worker of its broker sends copies.
EntriesCalm(c) == wpc'[Home[c]] = "fan_out" => \A id : Entered(c, id)' => Entered(c, id)

\* c asks for no less.
AskedCalm(c) == \A t \in Topic : asked'[c][t] \in Nat /\ asked[c][t] <= asked'[c][t]

LEMMA ToComeShrinks ==
  ASSUME Inv, ListsOK, NEW c \in Client, NEW p \in Proper, FanOutsCalm, EntriesCalm(c)
  PROVE  /\ ToCome(c, p)' \subseteq ToCome(c, p)
         /\ Cardinality(ToCome(c, p)') \in Nat
         /\ Cardinality(ToCome(c, p)') <= Cardinality(ToCome(c, p))
<1>1. PICK b \in Broker : b = Home[c] BY Constants
<1>2. ASSUME NEW l \in ToCome(c, p)' PROVE l \in ToCome(c, p)
  <2>1. /\ l \in wsubs'[b] /\ wpc'[b] = "fan_out" /\ IsCopy(wmsg'[b], p)
    BY <1>1 DEF ToCome, IsCopy
  <2>2. PICK id : id = l.id OBVIOUS
  <2>3. Entered(c, id)' BY <2>2 DEF ToCome
  <2>4. Entered(c, id) BY <1>1, <2>1, <2>3 DEF EntriesCalm
  <2>5. l \in wsubs[b] /\ wpc[b] = "fan_out" /\ IsCopy(wmsg[b], p) BY <2>1 DEF FanOutsCalm
  <2> QED BY <1>1, <2>2, <2>4, <2>5 DEF ToCome
<1>3. IsFiniteSet(ToCome(c, p)) BY ToComeFinite
<1> QED BY <1>2, <1>3, FS_Subset, FS_CardinalityType

LEMMA TopicOfPub ==
  ASSUME Inv, NEW p \in DOMAIN pubs
  PROVE  pubs[p].topic \in Topic
<1> DEFINE Pub == [by : Client, topic : Topic, audience : SUBSET Client]
<1>1. pubs \in Seq(Pub) BY DEF Inv, ClientsOK
<1>2. pubs[p] \in Pub
  <2> HIDE DEF Pub
  <2> QED BY <1>1, ElementOfSeq, LenProperties
<1> QED BY <1>2

\* Those who have left are no longer in an audience.
LEMMA AudiencesShrink ==
  ASSUME Inv, NEW c, strayed' = strayed,
         pubs' = [p \in DOMAIN pubs |-> [pubs[p] EXCEPT !.audience = @ \ {c}]]
  PROVE  SamePubs
<1> DEFINE Pub == [by : Client, topic : Topic, audience : SUBSET Client]
<1>1. pubs \in Seq(Pub) BY DEF Inv, ClientsOK
<1>2. ASSUME NEW p \in DOMAIN pubs PROVE pubs'[p].topic = pubs[p].topic
  <2>1. pubs[p] \in Pub
    <3> HIDE DEF Pub
    <3> QED BY <1>1, ElementOfSeq, LenProperties
  <2> QED BY <2>1
<1> QED BY <1>2 DEF SamePubs

LEMMA CountOf ==
  ASSUME Inv, PubsOK, ListsOK, NEW c \in Client, CountFor(c), AskedCalm(c),
         NEW p \in Proper, pubs'[p].topic = pubs[p].topic,
         CopiesFor(c, p)' \in Nat, CopiesFor(c, p)' <= CopiesFor(c, p),
         Cardinality(ToCome(c, p)') \in Nat,
         Cardinality(ToCome(c, p)') <= Cardinality(ToCome(c, p))
  PROVE  CopiesFor(c, p)' + Cardinality(ToCome(c, p)') <= asked'[c][pubs'[p].topic]
<1>1. p \in DOMAIN pubs BY DEF Proper
<1>2. PICK t \in Topic : t = pubs[p].topic BY <1>1, TopicOfPub
<1>3. PICK i, j, k, l : /\ i = CopiesFor(c, p) /\ j = CopiesFor(c, p)'
                        /\ k = Cardinality(ToCome(c, p)) /\ l = Cardinality(ToCome(c, p)')
  OBVIOUS
<1>4. i + k <= asked[c][t] BY <1>2, <1>3 DEF CountFor
<1>5. j \in Nat /\ j <= i /\ l \in Nat /\ l <= k BY <1>3
<1>6. asked[c][t] <= asked'[c][t] /\ asked'[c][t] \in Nat /\ asked[c][t] \in Nat
  BY NewsTypes DEF AskedCalm
<1>7. k \in Nat /\ i \in Nat BY <1>1, <1>3, ToComeFinite, CopiesForNat
<1>8. j + l <= asked'[c][t] BY <1>4, <1>5, <1>6, <1>7
<1> QED BY <1>2, <1>3, <1>8

LEMMA CountStays ==
  ASSUME Inv, PubsOK, ListsOK, SamePubs, NEW c \in Client, CountFor(c), FanOutsCalm, NewsCalm,
         EntriesCalm(c), AskedCalm(c)
  PROVE  CountFor(c)'
<1> SUFFICES ASSUME NEW p \in Proper'
             PROVE  CopiesFor(c, p)' + Cardinality(ToCome(c, p)') <= asked'[c][pubs'[p].topic]
  BY DEF CountFor
<1>1. p \in Proper /\ pubs'[p].topic = pubs[p].topic BY DEF Proper, SamePubs
<1>2. CopiesFor(c, p)' \in Nat /\ CopiesFor(c, p)' <= CopiesFor(c, p) BY DEF NewsCalm
<1>3. /\ Cardinality(ToCome(c, p)') \in Nat
      /\ Cardinality(ToCome(c, p)') <= Cardinality(ToCome(c, p))
  BY <1>1, ToComeShrinks
<1> QED BY <1>1, <1>2, <1>3, CountOf

\* What a step that makes no copies does to the copies that there are.
LEMMA CalmStep ==
  ASSUME Inv, CopiesInv, SamePubs, MessagesCalm, PublishCalm, FanOutsCalm, NewsCalm,
         \A c \in Client : EntriesCalm(c) /\ AskedCalm(c)
  PROVE  SpreadOK' /\ ListsOK' /\ \A c \in Client : CountFor(c)'
<1>1. SpreadOK' BY SpreadStays DEF CopiesInv
<1>2. ListsOK' BY ListsStay DEF CopiesInv, SamePubs
<1>3. \A c \in Client : CountFor(c)' BY CountStays DEF CopiesInv
<1> QED BY <1>1, <1>2, <1>3

LEMMA PubsStay ==
  ASSUME PubsOK, DOMAIN pubs' = DOMAIN pubs,
         \A c \in Client : \A p \in 1..MaxPubs :
           p \notin DOMAIN pubs => got'[c][p] = got[c][p] \/ got'[c][p] = 0
  PROVE  PubsOK'
BY DEF PubsOK

\* The queues of c and what it has got stay, or what is on its socket is lost.
NewsStill(c) ==
  got'[c] = got[c] /\ respQ'[c] = respQ[c] /\ (down'[c] = down[c] \/ down'[c] = <<>>)

LEMMA NewsStays ==
  ASSUME Inv, PubsOK, NEW c \in Client, NEW p \in DOMAIN pubs, NewsStill(c)
  PROVE  CopiesFor(c, p)' \in Nat /\ CopiesFor(c, p)' <= CopiesFor(c, p)
<1>1. PICK g, i, j, k : /\ g = got[c][p] /\ i = Cardinality(Copies(respQ[c], p))
                        /\ j = Cardinality(Copies(down[c], p))
                        /\ k = Cardinality(Copies(down'[c], p))
  OBVIOUS
<1>2. g \in Nat /\ i \in Nat /\ j \in Nat BY <1>1, CopiesForNat, NewsTypes, CopiesCount
<1>3. k = j \/ k = 0
  <2>1. PICK r : r = down'[c] OBVIOUS
  <2>2. Cardinality(Copies(<<>>, p)) = 0 BY NewsTypes, CopiesCount
  <2> QED BY <1>1, <2>1, <2>2 DEF NewsStill
<1>4. CopiesFor(c, p) = g + i + j BY <1>1, CopiesForIs
<1>5. CopiesFor(c, p)' = g + i + k
  <2>1. got'[c][p] = g /\ Cardinality(Copies(respQ'[c], p)) = i BY <1>1 DEF NewsStill
  <2> QED BY <1>1, <2>1, CopiesForIs
<1>6. g + i + k \in Nat /\ g + i + k <= g + i + j BY <1>2, <1>3
<1> QED BY <1>4, <1>5, <1>6

\* A message is queued for c.
LEMMA NewsQueued ==
  ASSUME Inv, PubsOK, NEW c \in Client, NEW p \in DOMAIN pubs, NEW m \in Msg,
         got'[c] = got[c], respQ'[c] = Append(respQ[c], m), down'[c] = down[c]
  PROVE  /\ CopiesFor(c, p)' = CopiesFor(c, p) + Bit(IsCopy(m, p))
         /\ CopiesFor(c, p) \in Nat /\ CopiesFor(c, p)' \in Nat
<1>1. PICK g, i, j, q : /\ g = got[c][p] /\ i = Cardinality(Copies(respQ[c], p))
                        /\ j = Cardinality(Copies(down[c], p)) /\ q = respQ[c]
  OBVIOUS
<1>2. g \in Nat /\ i \in Nat /\ j \in Nat BY <1>1, CopiesForNat, NewsTypes, CopiesCount
<1>3. CopiesFor(c, p) = g + i + j BY <1>1, CopiesForIs
<1>4. Cardinality(Copies(Append(q, m), p)) = i + Bit(IsCopy(m, p))
  BY <1>1, NewsTypes, CopiesAppend
<1>5. CopiesFor(c, p)' = g + Cardinality(Copies(Append(q, m), p)) + j
  <2>1. got'[c][p] = g /\ respQ'[c] = Append(q, m) /\ Cardinality(Copies(down'[c], p)) = j
    BY <1>1
  <2> QED BY <2>1, CopiesForIs
<1>6. Bit(IsCopy(m, p)) \in {0, 1} BY DEF Bit
<1> QED BY <1>2, <1>3, <1>4, <1>5, <1>6

LEMMA NewsCalmOf ==
  ASSUME Inv, PubsOK, SamePubs,
         \A c \in Client :
           \/ NewsStill(c)
           \/ \E m \in Msg : /\ m.type # "PUBLISH" /\ got'[c] = got[c]
                             /\ respQ'[c] = Append(respQ[c], m) /\ down'[c] = down[c]
  PROVE  NewsCalm
<1> SUFFICES ASSUME NEW c \in Client, NEW p \in Proper'
             PROVE  CopiesFor(c, p)' \in Nat /\ CopiesFor(c, p)' <= CopiesFor(c, p)
  BY DEF NewsCalm
<1>1. p \in DOMAIN pubs BY DEF Proper, SamePubs
<1>2. CASE NewsStill(c) BY <1>1, <1>2, NewsStays
<1>3. CASE \E m \in Msg : /\ m.type # "PUBLISH" /\ got'[c] = got[c]
                          /\ respQ'[c] = Append(respQ[c], m) /\ down'[c] = down[c]
  <2>1. PICK m \in Msg : /\ m.type # "PUBLISH" /\ got'[c] = got[c]
                         /\ respQ'[c] = Append(respQ[c], m) /\ down'[c] = down[c]
    BY <1>3
  <2>2. PICK i, j : i = CopiesFor(c, p) /\ j = CopiesFor(c, p)' OBVIOUS
  <2>3. j = i + Bit(IsCopy(m, p)) /\ i \in Nat BY <1>1, <2>1, <2>2, NewsQueued
  <2>4. Bit(IsCopy(m, p)) = 0 BY <2>1 DEF Bit, IsCopy
  <2> QED BY <2>2, <2>3, <2>4
<1> QED BY <1>2, <1>3

-----------------------------------------------------------------------------
(* The lines of a client.                                                  *)

LEMMA LinesFinite ==
  ASSUME Inv, NEW c \in Client, NEW t \in Topic
  PROVE  IsFiniteSet(LinesOf(c, t)) /\ Cardinality(LinesOf(c, t)) \in Nat
<1>1. IsFiniteSet(topics[t]) BY DEF Inv, DbOK, DbTypeOK
<1>2. LinesOf(c, t) \subseteq topics[t] BY DEF LinesOf
<1> QED BY <1>1, <1>2, FS_Subset, FS_CardinalityType

\* Nobody has more lines in a topic than before.
LEMMA LinesNoMore ==
  ASSUME Inv, NEW c \in Client, LinesFor(c), AskedCalm(c),
         \A t \in Topic : /\ Cardinality(LinesOf(c, t)') \in Nat
                          /\ Cardinality(LinesOf(c, t)') <= Cardinality(LinesOf(c, t)),
         \A t \in Topic : Asks(c, t)' => Asks(c, t)
  PROVE  LinesFor(c)'
<1> SUFFICES ASSUME NEW t \in Topic
             PROVE  Cardinality(LinesOf(c, t)') + (IF Asks(c, t)' THEN 1 ELSE 0) <= asked'[c][t]
  BY DEF LinesFor
<1>1. PICK i, j : i = Cardinality(LinesOf(c, t)) /\ j = Cardinality(LinesOf(c, t)') OBVIOUS
<1>2. i \in Nat /\ j \in Nat /\ j <= i BY <1>1, LinesFinite
<1>3. PICK k \in {0, 1} : k = IF Asks(c, t) THEN 1 ELSE 0 OBVIOUS
<1>4. PICK l \in {0, 1} : l = IF Asks(c, t)' THEN 1 ELSE 0 OBVIOUS
<1>5. l <= k BY <1>3, <1>4
<1>6. i + k <= asked[c][t] BY <1>1, <1>3 DEF LinesFor
<1>7. asked[c][t] <= asked'[c][t] /\ asked'[c][t] \in Nat /\ asked[c][t] \in Nat
  BY NewsTypes DEF AskedCalm
<1>8. j + l <= asked'[c][t] BY <1>2, <1>5, <1>6, <1>7
<1> QED BY <1>1, <1>4, <1>8

LEMMA LinesStay ==
  ASSUME Inv, NEW c \in Client, LinesFor(c), AskedCalm(c),
         \A t \in Topic : LinesOf(c, t)' \subseteq LinesOf(c, t),
         \A t \in Topic : Asks(c, t)' => Asks(c, t)
  PROVE  LinesFor(c)'
<1>1. ASSUME NEW t \in Topic
      PROVE  /\ Cardinality(LinesOf(c, t)') \in Nat
             /\ Cardinality(LinesOf(c, t)') <= Cardinality(LinesOf(c, t))
  BY LinesFinite, FS_Subset, FS_CardinalityType
<1> QED BY <1>1, LinesNoMore

LEMMA LinesOfStay ==
  ASSUME NEW c \in Client, topics' = topics, \A id : Owner(c, id)' => Owner(c, id)
  PROVE  \A t \in Topic : LinesOf(c, t)' \subseteq LinesOf(c, t)
<1> SUFFICES ASSUME NEW t \in Topic, NEW l \in LinesOf(c, t)' PROVE l \in LinesOf(c, t)
  OBVIOUS
<1>1. PICK id : id = l.id OBVIOUS
<1>2. l \in topics[t] /\ Owner(c, id)' BY <1>1 DEF LinesOf
<1>3. Owner(c, id) BY <1>2
<1> QED BY <1>1, <1>2, <1>3 DEF LinesOf

\* m is a request to subscribe to t.
ForTopic(m, t) == m.type = "SUBSCRIBE" /\ m.topic = t

\* Where a request of c is.
Asked(c, t, m) ==
  /\ ForTopic(m, t)
  /\ LET b == Home[c] IN
       \/ m \in Elements(up[c])
       \/ m \in Elements(workerQ[b]) /\ Own(c, m)
       \/ wpc[b] = "subscribe" /\ Own(c, m) /\ m = wmsg[b]

LEMMA AsksIs ==
  ASSUME NEW c, NEW t
  PROVE  /\ Asks(c, t) <=> \E m : Asked(c, t, m)
         /\ Asks(c, t)' <=> \E m : Asked(c, t, m)'
<1>1. Asks(c, t) <=> \E m : Asked(c, t, m) BY DEF Asks, Asked, ForTopic
<1>2. Asks(c, t)' <=> \E m : Asked(c, t, m)' BY DEF Asks, Asked, ForTopic, Elements, Own
<1> QED BY <1>1, <1>2

\* It is the one that c has.
LEMMA AskedPlace ==
  ASSUME NEW c \in Client, NEW t, NEW m, Asked(c, t, m)
  PROVE  \E e : /\ PlaceOf(c, e) /\ e[1] \in {"up", "work", "worker"}
                /\ e[1] = "worker" => wpc[Home[c]] = "subscribe" /\ m = wmsg[Home[c]]
<1>1. PICK b \in Broker : b = Home[c] BY Constants
<1>2. CASE m \in Elements(up[c])
  <2>1. PICK i \in DOMAIN up[c] : up[c][i] = m BY <1>2 DEF Elements
  <2>2. PlaceOf(c, <<"up", c, i>>) BY <2>1 DEF PlaceOf, InUp
  <2> QED BY <2>2
<1>3. CASE m \in Elements(workerQ[b]) /\ Own(c, m)
  <2>1. PICK i \in DOMAIN workerQ[b] : workerQ[b][i] = m BY <1>3 DEF Elements
  <2>2. PlaceOf(c, <<"work", b, i>>) BY <1>1, <1>3, <2>1 DEF PlaceOf, InWork
  <2> QED BY <2>2
<1>4. CASE wpc[b] = "subscribe" /\ Own(c, m) /\ m = wmsg[b]
  <2>1. PlaceOf(c, <<"worker", b, 0>>) BY <1>1, <1>4 DEF PlaceOf, InWorker, Serves
  <2> QED BY <1>1, <1>4, <2>1
<1> QED BY <1>1, <1>2, <1>3, <1>4 DEF Asked

\* No request of c is sent or becomes one of c.
LEMMA AsksStay ==
  ASSUME NEW c \in Client, NEW b \in Broker, b = Home[c],
         \A m \in Elements(up[c])' : m.type = "SUBSCRIBE" => m \in Elements(up[c]),
         \A m \in Elements(workerQ[b])' : m \in Elements(workerQ[b]) /\ (Own(c, m)' => Own(c, m)),
         wpc'[b] = "subscribe" => /\ wpc[b] = "subscribe" /\ wmsg'[b] = wmsg[b]
                                  /\ \A m : Own(c, m)' => Own(c, m)
  PROVE  \A t \in Topic : Asks(c, t)' => Asks(c, t)
<1> SUFFICES ASSUME NEW t \in Topic, NEW m, Asked(c, t, m)' PROVE Asked(c, t, m)
  BY AsksIs
<1>1. ForTopic(m, t) BY DEF Asked, ForTopic
<1>2. \/ m \in Elements(up[c])'
      \/ m \in Elements(workerQ[b])' /\ Own(c, m)'
      \/ wpc'[b] = "subscribe" /\ Own(c, m)' /\ m = wmsg'[b]
  BY DEF Asked
<1> QED BY <1>1, <1>2 DEF Asked, ForTopic

\* The table and the database say of c what they said.
TablesStill(c) ==
  \A id : (Entered(c, id)' <=> Entered(c, id)) /\ (Owner(c, id)' <=> Owner(c, id))

LEMMA StillTables ==
  ASSUME NEW c \in Client, ids' = ids, users' = users, \A b \in Broker : Leaving(b)' = Leaving(b)
  PROVE  TablesStill(c)
<1>1. PICK b \in Broker : b = Home[c] BY Constants
<1>2. \A id : Entered(c, id)' <=> Entered(c, id) BY DEF Entered
<1>3. PICK L : L = Leaving(b) /\ L = Leaving(b)' OBVIOUS
<1>4. \A id : Owner(c, id)' <=> Owner(c, id) BY <1>1, <1>2, <1>3 DEF Owner
<1> QED BY <1>2, <1>4 DEF TablesStill

LEMMA StillOwn ==
  ASSUME NEW c \in Client, TablesStill(c)
  PROVE  \A m : Own(c, m)' <=> Own(c, m)
<1> SUFFICES ASSUME NEW m PROVE Own(c, m)' <=> Own(c, m) OBVIOUS
<1>1. PICK id : id = m.mtype OBVIOUS
<1>2. Entered(c, id)' <=> Entered(c, id) BY DEF TablesStill
<1> QED BY <1>1, <1>2 DEF Own

\* The workers and the queues between brokers do nothing.
LEMMA WorkersStill ==
  ASSUME ListsOK, UNCHANGED workerPart
  PROVE  PublishCalm /\ FanOutsCalm
BY DEF ListsOK, PublishCalm, FanOutsCalm, workerPart

LEMMA StillCopies ==
  ASSUME Inv, CopiesInv, SamePubs,
         UNCHANGED <<up, workerQ, workerPart, respQ, got, asked, topics>>,
         \A c \in Client : TablesStill(c) /\ (down'[c] = down[c] \/ down'[c] = <<>>)
  PROVE  CopiesInv'
<1>1. MessagesCalm BY DEF MessagesCalm, Elements
<1>2. PublishCalm /\ FanOutsCalm BY WorkersStill DEF CopiesInv
<1>3. NewsCalm BY NewsCalmOf DEF CopiesInv, NewsStill
<1>4. PubsOK' BY PubsStay DEF CopiesInv, SamePubs
<1>5. ASSUME NEW c \in Client PROVE EntriesCalm(c) /\ AskedCalm(c)
  <2>1. \A t \in Topic : asked[c][t] \in Nat BY NewsTypes
  <2> QED BY <2>1 DEF EntriesCalm, AskedCalm, TablesStill
<1>6. SpreadOK' /\ ListsOK' /\ \A c \in Client : CountFor(c)' BY <1>1, <1>2, <1>3, <1>5, CalmStep
<1>7. ASSUME NEW c \in Client PROVE LinesFor(c)'
  <2>1. PICK b \in Broker : b = Home[c] BY Constants
  <2>2. \A t \in Topic : LinesOf(c, t)' \subseteq LinesOf(c, t) BY LinesOfStay DEF TablesStill
  <2>3. \A m : Own(c, m)' <=> Own(c, m) BY StillOwn
  <2>4. \A t \in Topic : Asks(c, t)' => Asks(c, t)
    BY <2>1, <2>3, AsksStay DEF workerPart, Elements
  <2> QED BY <1>5, <2>2, <2>4, LinesStay DEF CopiesInv
<1> QED BY <1>4, <1>6, <1>7 DEF CopiesInv

LEMMA RingRegisterTables ==
  ASSUME Inv, NEW b \in Broker, RingRegister(b), NEW c \in Client
  PROVE  TablesStill(c)
<1>1. /\ ids' = [ids EXCEPT ![b] = AddGlobalId(ids[b], NEXT_SERVER_GLOBAL_ID, b)]
      /\ UNCHANGED <<users, wpc, wmsg>>
      /\ ids \in [Broker -> Seq([global_id : Nat, mtype : Connection])]
  BY DEF RingRegister, dbVars, workerPart, Inv, TablesOK
<1>2. PICK h \in Broker : h = Home[c] BY Constants
<1>3. PICK L : L = Leaving(h) /\ L = Leaving(h)' BY <1>1 DEF Leaving
<1>4. PICK t : t = ids[b] OBVIOUS
<1>5. ASSUME NEW id PROVE Entered(c, id)' <=> Entered(c, id)
  <2>1. Entry(id, c) # Entry(NEXT_SERVER_GLOBAL_ID, b) BY Constants DEF Entry
  <2>2. Entry(NEXT_SERVER_GLOBAL_ID, b) \in [global_id : Nat, mtype : Connection]
    BY DEF Entry, NEXT_SERVER_GLOBAL_ID, Connection
  <2> DEFINE S == [global_id : Nat, mtype : Connection]
  <2>3. \A e : Has(AddGlobalId(t, NEXT_SERVER_GLOBAL_ID, b), e) <=>
               Has(t, e) \/ e = Entry(NEXT_SERVER_GLOBAL_ID, b)
    <3>1. t \in Seq(S) /\ Entry(NEXT_SERVER_GLOBAL_ID, b) \in S BY <1>1, <1>4, <2>2
    <3> HIDE DEF S
    <3> QED BY <3>1, AddedEntries
  <2>4. ids'[h] = IF h = b THEN AddGlobalId(t, NEXT_SERVER_GLOBAL_ID, b) ELSE ids[h]
    BY <1>1, <1>4
  <2> QED BY <1>2, <1>4, <2>1, <2>3, <2>4 DEF Entered, Has
<1>6. \A id : Owner(c, id)' <=> Owner(c, id) BY <1>1, <1>2, <1>3, <1>5 DEF Owner
<1> QED BY <1>5, <1>6 DEF TablesStill

LEMMA OutsideCopies ==
  ASSUME Inv, CopiesInv,
         \/ \E b \in Broker : RingConnect(b) \/ RingRegister(b) \/ StartServing(b)
         \/ \E c \in Client : AcceptClient(c) \/ LoseClient(c) \/ EndHandlers(c)
         \/ UNCHANGED vars
  PROVE  CopiesInv'
<1>1. /\ UNCHANGED <<up, workerQ, workerPart, respQ, got, asked, topics, users, wpc, wmsg>>
      /\ strayed' = strayed
  BY DEF RingConnect, RingRegister, StartServing, AcceptClient, LoseClient, EndHandlers,
         vars, dbVars, workerPart, clientPart
<1>2. SamePubs
  <2>1. CASE pubs' = pubs BY <1>1, <2>1 DEF SamePubs
  <2>2. ASSUME NEW c \in Client, LoseClient(c) PROVE SamePubs
    BY <1>1, <2>2, AudiencesShrink DEF LoseClient
  <2> QED BY <2>1, <2>2
    DEF RingConnect, RingRegister, StartServing, AcceptClient, EndHandlers, vars
<1>3. ASSUME NEW c \in Client PROVE down'[c] = down[c] \/ down'[c] = <<>>
  <2>1. ASSUME NEW d \in Client, LoseClient(d) PROVE down'[c] = down[c] \/ down'[c] = <<>>
    BY <2>1 DEF LoseClient, Inv, DownOK
  <2> QED BY <2>1 DEF RingConnect, RingRegister, StartServing, AcceptClient, EndHandlers, vars
<1>4. ASSUME NEW c \in Client PROVE TablesStill(c)
  <2>1. CASE ids' = ids
    <3>1. \A b \in Broker : Leaving(b)' = Leaving(b) BY <1>1 DEF Leaving
    <3> QED BY <1>1, <2>1, <3>1, StillTables
  <2>2. ASSUME NEW b \in Broker, RingRegister(b) PROVE TablesStill(c)
    BY <2>2, RingRegisterTables
  <2> QED BY <2>1, <2>2 DEF RingConnect, StartServing, AcceptClient, LoseClient, EndHandlers, vars
<1> QED BY <1>1, <1>2, <1>3, <1>4, StillCopies

-----------------------------------------------------------------------------
(* Requests.                                                               *)

\* A request other than a publication is sent.
LEMMA RequestMessage ==
  ASSUME Inv, NEW c \in Client, Create(c) \/ Destroy(c) \/ \E t \in Topic : SubscribeTo(c, t)
  PROVE  \E m \in Msg :
           /\ Send(c, m) /\ m.type # "PUBLISH"
           /\ \/ m.type # "SUBSCRIBE" /\ asked' = asked
              \/ m.type = "SUBSCRIBE" /\ m.topic \in Topic /\ SubscribeTo(c, m.topic)
<1>1. gid[c] \in Nat BY DEF Inv, ClientsOK
<1>2. CASE Create(c)
  <2>1. LET m == NewRequest("CREATE", 0, NoTopic, 0) IN m \in Msg /\ m.type = "CREATE"
    BY NewRequestMsg DEF Request
  <2> QED BY <1>2, <2>1 DEF Create
<1>3. CASE Destroy(c)
  <2>1. /\ NewRequest("DESTROY", gid[c], NoTopic, 0) \in Msg
        /\ NewRequest("DESTROY", gid[c], NoTopic, 0).type = "DESTROY"
    BY <1>1 DEF NewRequest, Msg, Request
  <2> QED BY <1>3, <2>1 DEF Destroy
<1>4. ASSUME NEW t \in Topic, SubscribeTo(c, t)
      PROVE  \E m \in Msg : /\ Send(c, m) /\ m.type = "SUBSCRIBE"
                            /\ m.topic \in Topic /\ SubscribeTo(c, m.topic)
  <2>1. LET m == NewRequest("SUBSCRIBE", gid[c], t, 0) IN
          m \in Msg /\ m.type = "SUBSCRIBE" /\ m.topic = t
    BY <1>1, NewRequestMsg DEF Request
  <2>2. Send(c, NewRequest("SUBSCRIBE", gid[c], t, 0)) BY <1>4 DEF SubscribeTo
  <2> QED BY <1>4, <2>1, <2>2
<1> QED BY <1>2, <1>3, <1>4

LEMMA RequestCopies ==
  ASSUME Inv, IdsInv, CopiesInv, NEW c \in Client,
         Create(c) \/ Destroy(c) \/ \E t \in Topic : SubscribeTo(c, t)
  PROVE  CopiesInv'
<1>1. PICK m \in Msg : /\ Send(c, m) /\ m.type # "PUBLISH"
                       /\ \/ m.type # "SUBSCRIBE" /\ asked' = asked
                          \/ m.topic \in Topic /\ SubscribeTo(c, m.topic)
  BY RequestMessage
<1>2. /\ up' = [up EXCEPT ![c] = Append(up[c], m)] /\ wait[c] = "none"
      /\ UNCHANGED <<workerQ, workerPart, respQ, down, ids, users, topics, got, strayed, wpc, wmsg>>
  BY <1>1 DEF Send, dbVars, workerPart
<1>3. up \in [Connection -> Seq(Msg)] /\ c \in Connection BY DEF Inv, UpOK, Connection
<1>4. /\ up'[c] = Append(up[c], m) /\ Elements(Append(up[c], m)) = Elements(up[c]) \cup {m}
      /\ \A x \in Connection : x # c => up'[x] = up[x]
  BY <1>2, <1>3, QueueElements
<1>5. SamePubs
  <2>1. CASE pubs' = pubs BY <1>2, <2>1 DEF SamePubs
  <2>2. CASE Destroy(c) BY <1>2, <2>2, AudiencesShrink DEF Destroy
  <2> QED BY <2>1, <2>2 DEF Create, SubscribeTo
<1>6. MessagesCalm BY <1>1, <1>2, <1>4 DEF MessagesCalm, Elements
<1>7. PublishCalm /\ FanOutsCalm BY <1>2, WorkersStill DEF CopiesInv
<1>8. NewsCalm BY <1>2, <1>5, NewsCalmOf DEF CopiesInv, NewsStill
<1>9. PubsOK' BY <1>2, <1>5, PubsStay DEF CopiesInv, SamePubs
<1>10. ASSUME NEW d \in Client PROVE TablesStill(d)
  <2>1. \A b \in Broker : Leaving(b)' = Leaving(b) BY <1>2 DEF Leaving
  <2> QED BY <1>2, <2>1, StillTables
<1>11. ASSUME NEW d \in Client, NEW t \in Topic
       PROVE  /\ asked[d][t] \in Nat /\ asked'[d][t] \in Nat /\ asked[d][t] <= asked'[d][t]
              /\ d = c /\ m.type = "SUBSCRIBE" /\ m.topic = t => asked'[d][t] = asked[d][t] + 1
  <2>1. asked \in [Client -> [Topic -> Nat]] BY DEF Inv, ClientsOK
  <2>2. CASE m.type # "SUBSCRIBE" /\ asked' = asked BY <2>1, <2>2
  <2>3. CASE m.topic \in Topic /\ SubscribeTo(c, m.topic)
    <3>1. asked' = [asked EXCEPT ![c][m.topic] = asked[c][m.topic] + 1] BY <2>3 DEF SubscribeTo
    <3> QED BY <2>1, <2>3, <3>1
  <2> QED BY <1>1, <2>2, <2>3
<1>12. ASSUME NEW d \in Client PROVE EntriesCalm(d) /\ AskedCalm(d)
  BY <1>10, <1>11 DEF EntriesCalm, AskedCalm, TablesStill
<1>13. SpreadOK' /\ ListsOK' /\ \A d \in Client : CountFor(d)'
  BY <1>5, <1>6, <1>7, <1>8, <1>12, CalmStep
<1>14. ASSUME NEW d \in Client, NEW t \in Topic
       PROVE  Asks(d, t)' => Asks(d, t) \/ (d = c /\ m.type = "SUBSCRIBE" /\ m.topic = t)
  <2> SUFFICES ASSUME NEW k, Asked(d, t, k)'
               PROVE  Asked(d, t, k) \/ (d = c /\ m.type = "SUBSCRIBE" /\ m.topic = t)
    BY AsksIs
  <2>1. PICK b \in Broker : b = Home[d] BY Constants
  <2>2. ForTopic(k, t) BY DEF Asked, ForTopic
  <2>3. Own(d, k)' <=> Own(d, k) BY <1>10, StillOwn
  <2>4. \/ k \in Elements(up[d])'
        \/ k \in Elements(workerQ[b]) /\ Own(d, k)
        \/ wpc[b] = "subscribe" /\ Own(d, k) /\ k = wmsg[b]
    BY <1>2, <2>1, <2>3 DEF Asked, Elements
  <2>5. k \in Elements(up[d])' => k \in Elements(up[d]) \/ (d = c /\ k = m)
    <3>1. d \in Connection BY DEF Connection
    <3> QED BY <1>4, <3>1 DEF Elements
  <2> QED BY <2>1, <2>2, <2>4, <2>5 DEF Asked, ForTopic
<1>15. ASSUME NEW t \in Topic PROVE ~Asks(c, t)
  <2> SUFFICES ASSUME NEW k, Asked(c, t, k) PROVE FALSE BY AsksIs
  <2>1. PICK e : PlaceOf(c, e) BY AskedPlace
  <2> QED BY <1>2, <2>1, IdlePlaces
<1>16. ASSUME NEW d \in Client PROVE LinesFor(d)'
  <2>1. \A t \in Topic : LinesOf(d, t)' \subseteq LinesOf(d, t)
    BY <1>2, <1>10, LinesOfStay DEF TablesStill
  <2>2. CASE d # c BY <1>12, <1>14, <2>1, <2>2, LinesStay DEF CopiesInv
  <2>3. CASE d = c
    <3> SUFFICES ASSUME NEW t \in Topic
                 PROVE  Cardinality(LinesOf(c, t)') + (IF Asks(c, t)' THEN 1 ELSE 0) <= asked'[c][t]
      BY <2>3 DEF LinesFor
    <3>1. PICK i, j : i = Cardinality(LinesOf(c, t)) /\ j = Cardinality(LinesOf(c, t)') OBVIOUS
    <3>2. i \in Nat /\ j \in Nat /\ j <= i
      BY <2>1, <2>3, <3>1, LinesFinite, FS_Subset, FS_CardinalityType
    <3>3. i + 0 <= asked[c][t] BY <1>15, <3>1 DEF CopiesInv, LinesFor
    <3>4. PICK k \in {0, 1} : k = IF Asks(c, t)' THEN 1 ELSE 0 OBVIOUS
    <3>5. asked[c][t] + k <= asked'[c][t] BY <1>11, <1>14, <1>15, <3>4
    <3>6. j + k <= asked'[c][t] BY <1>11, <3>2, <3>3, <3>5
    <3> QED BY <3>1, <3>4, <3>6
  <2> QED BY <2>2, <2>3
<1> QED BY <1>9, <1>13, <1>16 DEF CopiesInv

LEMMA PlacesKnown ==
  ASSUME Inv, NEW x \in Broker, NEW m, m.type = "PUBLISH", AtComing(x, m) \/ AtGoing(x, m)
  PROVE  m.pub \in DOMAIN pubs
BY PublicationsKnown DEF AtComing, AtGoing, Elements

\* Nothing has been done for a publication that is only now sent.
LEMMA NewPublication ==
  ASSUME Inv, IdsInv, PubsOK, NEW n \in 1..MaxPubs, n \notin DOMAIN pubs
  PROVE  /\ \A c \in Client : CopiesFor(c, n) = 0
         /\ \A b \in Broker : ~(wpc[b] = "fan_out" /\ IsCopy(wmsg[b], n))
         /\ \A x \in Broker : \A m : IsCopy(m, n) => ~AtComing(x, m) /\ ~AtGoing(x, m)
<1>1. ASSUME NEW c \in Client PROVE CopiesFor(c, n) = 0
  <2>1. got[c][n] = 0 BY DEF PubsOK
  <2>2. \A m \in Elements(respQ[c]) \cup Elements(down[c]) : ~IsCopy(m, n)
    BY DEF IdsInv, ServedOK, ClientOK, NewsOK, ForHolder, IsCopy
  <2>3. PICK q \in Seq(Msg), r \in Seq(Msg) : q = respQ[c] /\ r = down[c] BY NewsTypes
  <2>4. PICK g \in Nat : g = got[c][n] /\ g = 0 BY <2>1
  <2>5. g + Cardinality(Copies(q, n)) + Cardinality(Copies(r, n)) = 0
    <3>1. \A m \in Elements(q) \cup Elements(r) : ~IsCopy(m, n) BY <2>2, <2>3
    <3>2. g + Cardinality(Copies(q, n)) + Cardinality(Copies(r, n)) = 0 <=>
            g = 0 /\ \A m \in Elements(q) \cup Elements(r) : ~IsCopy(m, n)
      BY CopiesAdded
    <3> QED BY <2>4, <3>1, <3>2
  <2>6. CopiesFor(c, n) = g + Cardinality(Copies(q, n)) + Cardinality(Copies(r, n))
    BY <2>3, <2>4, CopiesForIs
  <2> QED BY <2>5, <2>6
<1>2. \A b \in Broker : ~(wpc[b] = "fan_out" /\ IsCopy(wmsg[b], n))
  BY PublicationsKnown DEF IsCopy
<1>3. \A x \in Broker : \A m : IsCopy(m, n) => ~AtComing(x, m) /\ ~AtGoing(x, m)
  BY PlacesKnown DEF IsCopy
<1> QED BY <1>1, <1>2, <1>3

LEMMA PublishCopies ==
  ASSUME Inv, IdsInv, CopiesInv, NEW c \in Client, NEW t \in Topic, Publish(c, t)
  PROVE  CopiesInv'
<1>1. PICK n \in Nat : n = Len(pubs) + 1
  BY LenProperties DEF Inv, ClientsOK
<1> DEFINE Pub == [by : Client, topic : Topic, audience : SUBSET Client]
<1>2. /\ n \in 1..MaxPubs /\ n \notin DOMAIN pubs
      /\ DOMAIN pubs' = DOMAIN pubs \cup {n} /\ DOMAIN pubs' \subseteq 1..MaxPubs
      /\ pubs'[n].topic = t /\ \A p \in DOMAIN pubs : pubs'[p] = pubs[p]
  <2>1. PICK e : e = [by |-> c, topic |-> t, audience |-> {d \in Client : Subscribed(d, t)}]
    OBVIOUS
  <2>2. e \in Pub /\ e.topic = t BY <2>1
  <2>3. pubs \in Seq(Pub) BY DEF Inv, ClientsOK
  <2>4. pubs' = Append(pubs, e) /\ Len(pubs) < MaxPubs BY <2>1 DEF Publish
  <2> HIDE DEF Pub
  <2>5. PICK l \in Nat : l = Len(pubs) BY <2>3, LenProperties
  <2>6. DOMAIN pubs = 1..l BY <2>3, <2>5, LenProperties
  <2>7. PICK r : r = Append(pubs, e) OBVIOUS
  <2>8. Len(r) = l + 1 /\ DOMAIN r = 1..(l + 1) /\ r[l + 1] = e /\ \A p \in 1..l : r[p] = pubs[p]
    BY <2>2, <2>3, <2>5, <2>7, AppendProperties, LenProperties
  <2>9. MaxPubs \in Nat BY RingAssumption
  <2>10. n = l + 1 /\ l < MaxPubs BY <1>1, <2>4, <2>5
  <2> QED BY <2>2, <2>4, <2>6, <2>7, <2>8, <2>9, <2>10
<1>3. PICK m : m = NewRequest("PUBLISH", gid[c], t, n) OBVIOUS
<1>4. m \in Msg /\ m.type = "PUBLISH" /\ m.topic = t /\ m.pub = n
  <2>1. gid[c] \in Nat BY DEF Inv, ClientsOK
  <2> QED BY <1>3, <2>1, NewRequestMsg DEF Request
<1>5. /\ up' = [up EXCEPT ![c] = Append(up[c], m)] /\ asked' = asked
      /\ UNCHANGED <<workerQ, workerPart, respQ, down, ids, users, topics, got, strayed,
                     wpc, wmsg, wsubs, wrelayed>>
  BY <1>1, <1>3 DEF Publish, Send, dbVars, workerPart
<1>6. up \in [Connection -> Seq(Msg)] /\ c \in Connection BY DEF Inv, UpOK, Connection
<1>7. /\ up'[c] = Append(up[c], m) /\ Elements(Append(up[c], m)) = Elements(up[c]) \cup {m}
      /\ \A x \in Connection : x # c => up'[x] = up[x]
  BY <1>4, <1>5, <1>6, QueueElements
<1>8. ASSUME NEW x \in Broker, NEW k
      PROVE  /\ AtComing(x, k)' => AtComing(x, k) \/ k = m
             /\ AtGoing(x, k)' => AtGoing(x, k)
  BY <1>5, <1>7 DEF AtComing, AtGoing, Elements, Server
<1>9. ASSUME NEW d \in Client, NEW p PROVE CopiesFor(d, p)' = CopiesFor(d, p)
  BY <1>5, CopiesForIs
<1>10. /\ \A d \in Client : \A p : ToCome(d, p)' = ToCome(d, p)
       /\ \A b \in Broker : \A p : Untouched(b, p)' <=> Untouched(b, p)
  <2>1. ASSUME NEW d \in Client, NEW p PROVE ToCome(d, p)' = ToCome(d, p)
    BY <1>5 DEF ToCome, Entered
  <2>2. ASSUME NEW b \in Broker, NEW p PROVE Untouched(b, p)' <=> Untouched(b, p)
    BY <1>5, <1>9 DEF Untouched
  <2> QED BY <2>1, <2>2
<1>11. /\ \A d \in Client : CopiesFor(d, n) = 0
       /\ \A b \in Broker : ~(wpc[b] = "fan_out" /\ IsCopy(wmsg[b], n))
       /\ \A x \in Broker : \A k : IsCopy(k, n) => ~AtComing(x, k) /\ ~AtGoing(x, k)
  BY <1>2, NewPublication DEF CopiesInv
<1>12. ASSUME NEW p \in Proper' PROVE p = n \/ (p # n /\ p \in Proper /\ pubs'[p] = pubs[p])
  BY <1>2, <1>5 DEF Proper
<1>13. SpreadOK'
  <2>1. ASSUME NEW p \in Proper', NEW x \in Broker, NEW k \in ComingTo(x)', IsCopy(k, p)
        PROVE  k.topic = pubs'[p].topic /\ \A b \in Broker : FromHere(x, k, b) => Untouched(b, p)'
    <3>1. AtComing(x, k) \/ k = m BY <1>8, ComingIs
    <3>2. CASE p = n
      <4>1. k = m BY <1>11, <2>1, <3>1, <3>2
      <4>2. \A b \in Broker : Untouched(b, n) BY <1>11 DEF Untouched
      <4> QED BY <1>2, <1>4, <1>10, <3>2, <4>1, <4>2
    <3>3. CASE p # n
      <4>1. p \in Proper /\ pubs'[p] = pubs[p] BY <1>12, <3>3
      <4>2. k # m BY <1>4, <2>1, <3>3 DEF IsCopy
      <4>3. k \in ComingTo(x) BY <3>1, <4>2, ComingIs
      <4>4. k.topic = pubs[p].topic /\ \A b \in Broker : FromHere(x, k, b) => Untouched(b, p)
        BY <2>1, <4>1, <4>3 DEF CopiesInv, SpreadOK
      <4> QED BY <1>10, <4>1, <4>4
    <3> QED BY <3>2, <3>3
  <2>2. ASSUME NEW p \in Proper', NEW x \in Broker, NEW k \in GoingFrom(x)', IsCopy(k, p)
        PROVE  k.topic = pubs'[p].topic /\ \A b \in Broker : Beyond(x, k, b) => Untouched(b, p)'
    <3>1. AtGoing(x, k) /\ k \in GoingFrom(x) BY <1>8, ComingIs
    <3>2. p # n BY <1>11, <2>2, <3>1
    <3>3. p \in Proper /\ pubs'[p] = pubs[p] BY <1>12, <3>2
    <3>4. k.topic = pubs[p].topic /\ \A b \in Broker : Beyond(x, k, b) => Untouched(b, p)
      BY <2>2, <3>1, <3>3 DEF CopiesInv, SpreadOK
    <3> QED BY <1>10, <3>3, <3>4
  <2> QED BY <2>1, <2>2 DEF SpreadOK, IsCopy
<1>14. ListsOK' BY <1>5 DEF CopiesInv, ListsOK
<1>15. PubsOK' BY <1>2, <1>5 DEF CopiesInv, PubsOK
<1>16. ASSUME NEW d \in Client, NEW p \in Proper'
       PROVE  CopiesFor(d, p)' + Cardinality(ToCome(d, p)') <= asked'[d][pubs'[p].topic]
  <2>1. CASE p = n
    <3>1. Home[d] \in Broker BY Constants
    <3>2. ToCome(d, n) = {} BY <1>11, <3>1 DEF ToCome
    <3>3. PICK S : S = ToCome(d, n) /\ S = ToCome(d, n)' BY <1>10
    <3>4. Cardinality(S) = 0 /\ CopiesFor(d, n)' = 0 BY <1>9, <1>11, <3>2, <3>3, FS_EmptySet
    <3>5. asked'[d][t] \in Nat BY <1>5, NewsTypes
    <3>6. 0 + 0 <= asked'[d][t] BY <3>5
    <3> QED BY <1>2, <2>1, <3>3, <3>4, <3>6
  <2>2. CASE p # n
    <3>1. p \in Proper /\ pubs'[p] = pubs[p] BY <1>12, <2>2
    <3>2. CopiesFor(d, p) + Cardinality(ToCome(d, p)) <= asked[d][pubs[p].topic]
      BY <3>1 DEF CopiesInv, CountFor
    <3>3. PICK S, i : /\ S = ToCome(d, p) /\ S = ToCome(d, p)'
                      /\ i = CopiesFor(d, p) /\ i = CopiesFor(d, p)'
      BY <1>9, <1>10
    <3> QED BY <1>5, <3>1, <3>2, <3>3
  <2> QED BY <2>1, <2>2
<1>17. \A d \in Client : CountFor(d)' BY <1>16 DEF CountFor
<1>18. ASSUME NEW d \in Client PROVE LinesFor(d)'
  <2>1. PICK b \in Broker : b = Home[d] BY Constants
  <2>2. \A h \in Broker : Leaving(h)' = Leaving(h) BY <1>5 DEF Leaving
  <2>3. TablesStill(d) BY <1>5, <2>2, StillTables
  <2>4. \A h \in Topic : LinesOf(d, h)' \subseteq LinesOf(d, h)
    BY <1>5, <2>3, LinesOfStay DEF TablesStill
  <2>5. \A k : Own(d, k)' <=> Own(d, k) BY <2>3, StillOwn
  <2>6. \A k \in Elements(up[d])' : k.type = "SUBSCRIBE" => k \in Elements(up[d])
    <3>1. d \in Connection BY DEF Connection
    <3> QED BY <1>4, <1>7, <3>1 DEF Elements
  <2>7. \A h \in Topic : Asks(d, h)' => Asks(d, h)
    BY <1>5, <2>1, <2>5, <2>6, AsksStay DEF Elements
  <2>8. AskedCalm(d) BY <1>5, NewsTypes DEF AskedCalm
  <2> QED BY <2>4, <2>7, <2>8, LinesStay DEF CopiesInv
<1> QED BY <1>13, <1>14, <1>15, <1>17, <1>18 DEF CopiesInv

-----------------------------------------------------------------------------
(* Steps of the worker that make no copies.                                *)

\* The worker of b, and no other, goes to a step at which it has no publication.
Leaves(b) ==
  /\ WorkerFrame /\ strayed' = strayed
  /\ \A d \in Broker : d # b => /\ wpc'[d] = wpc[d] /\ wmsg'[d] = wmsg[d]
                                /\ wsubs'[d] = wsubs[d] /\ wrelayed'[d] = wrelayed[d]
  /\ wpc'[b] \notin {"subscribe", "publish", "fan_out"} /\ ~wrelayed'[b]
  /\ \A d \in Broker : respQ'[d] = respQ[d]
  /\ \A c \in Client : respQ'[c] = respQ[c] \/
       \E m \in Msg : m.type # "PUBLISH" /\ respQ'[c] = Append(respQ[c], m)

LEMMA LeavingCopies ==
  ASSUME Inv, CopiesInv, NEW b \in Broker, Leaves(b),
         \A c \in Client : Home[c] # b => \A id : Entered(c, id)' => Entered(c, id),
         \A c \in Client : LinesFor(c)'
  PROVE  CopiesInv'
<1>1. UNCHANGED <<up, workerQ, down, got, asked, pubs>> /\ strayed' = strayed
  BY DEF Leaves, WorkerFrame, clientPart
<1>2. SamePubs BY <1>1 DEF SamePubs
<1>3. MessagesCalm BY <1>1 DEF Leaves, MessagesCalm, Elements
<1>4. PublishCalm /\ FanOutsCalm BY DEF Leaves, PublishCalm, FanOutsCalm, CopiesInv, ListsOK
<1>5. NewsCalm BY <1>1, <1>2, NewsCalmOf DEF CopiesInv, NewsStill, Leaves
<1>6. PubsOK' BY <1>1, PubsStay DEF CopiesInv
<1>7. ASSUME NEW c \in Client PROVE EntriesCalm(c) /\ AskedCalm(c)
  BY <1>1, NewsTypes DEF Leaves, EntriesCalm, AskedCalm
<1>8. SpreadOK' /\ ListsOK' /\ \A c \in Client : CountFor(c)'
  BY <1>2, <1>3, <1>4, <1>5, <1>7, CalmStep
<1> QED BY <1>6, <1>8 DEF CopiesInv

LEMMA LeavingAsks ==
  ASSUME Inv, NEW b \in Broker, Leaves(b), NEW c \in Client,
         \A m \in Elements(workerQ[Home[c]]) : Own(c, m)' => Own(c, m),
         Home[c] # b => \A m : Own(c, m)' => Own(c, m)
  PROVE  AskedCalm(c) /\ \A t \in Topic : Asks(c, t)' => Asks(c, t)
<1>1. UNCHANGED <<up, workerQ, asked>> BY DEF Leaves, WorkerFrame, clientPart
<1>2. AskedCalm(c) BY <1>1, NewsTypes DEF AskedCalm
<1>3. PICK h \in Broker : h = Home[c] BY Constants
<1>4. wpc'[h] = "subscribe" => h # b BY DEF Leaves
<1>5. wpc'[h] = "subscribe" => /\ wpc[h] = "subscribe" /\ wmsg'[h] = wmsg[h]
                               /\ \A m : Own(c, m)' => Own(c, m)
  BY <1>3, <1>4 DEF Leaves
<1>6. /\ \A m \in Elements(up[c])' : m.type = "SUBSCRIBE" => m \in Elements(up[c])
      /\ \A m \in Elements(workerQ[h])' : m \in Elements(workerQ[h]) /\ (Own(c, m)' => Own(c, m))
  BY <1>1, <1>3 DEF Elements
<1> QED BY <1>2, <1>3, <1>5, <1>6, AsksStay

LEMMA LeavingLines ==
  ASSUME Inv, CopiesInv, NEW b \in Broker, Leaves(b), NEW c \in Client,
         \A t \in Topic : LinesOf(c, t)' \subseteq LinesOf(c, t),
         \A m \in Elements(workerQ[Home[c]]) : Own(c, m)' => Own(c, m),
         Home[c] # b => \A m : Own(c, m)' => Own(c, m)
  PROVE  LinesFor(c)'
BY LeavingAsks, LinesStay DEF CopiesInv

\* The worker goes to a step of its own, without a word to anybody.
LEMMA LeavesFor ==
  ASSUME Inv, CopiesInv, NEW b \in Broker, WorkerFrame, strayed' = strayed, respQ' = respQ,
         NEW step, NEW m, GoTo(b, step, m), step \notin {"subscribe", "publish", "fan_out"},
         \/ wsubs' = wsubs /\ wrelayed' = wrelayed /\ wpc[b] # "fan_out"
         \/ wsubs' = wsubs /\ wrelayed' = [wrelayed EXCEPT ![b] = FALSE]
         \/ wsubs' = [wsubs EXCEPT ![b] = {}] /\ wrelayed' = [wrelayed EXCEPT ![b] = FALSE]
  PROVE  Leaves(b) /\ wpc'[b] = step /\ wmsg'[b] = m
<1>1. /\ wpc'[b] = step /\ wmsg'[b] = m
      /\ \A d \in Broker : d # b => wpc'[d] = wpc[d] /\ wmsg'[d] = wmsg[d]
  BY DEF GoTo, Inv, WorkersOK
<1>2. /\ \A d \in Broker : d # b => wsubs'[d] = wsubs[d] /\ wrelayed'[d] = wrelayed[d]
      /\ ~wrelayed'[b]
  BY DEF Inv, WorkersOK, CopiesInv, ListsOK
<1> QED BY <1>1, <1>2 DEF Leaves

\* The worker of b leaves the tables and the database as they are.
LEMMA LeavingAlone ==
  ASSUME Inv, CopiesInv, NEW b \in Broker, Leaves(b), UNCHANGED <<users, topics, ids>>,
         wpc[b] # "remove_id", wpc'[b] # "remove_id"
  PROVE  CopiesInv'
<1>1. \A d \in Broker : Leaving(d)' = Leaving(d) BY DEF Leaving, Leaves
<1>2. ASSUME NEW c \in Client PROVE TablesStill(c) BY <1>1, StillTables
<1>3. ASSUME NEW c \in Client PROVE LinesFor(c)'
  <2>1. \A m : Own(c, m)' <=> Own(c, m) BY <1>2, StillOwn
  <2>2. \A t \in Topic : LinesOf(c, t)' \subseteq LinesOf(c, t)
    BY <1>2, LinesOfStay DEF TablesStill
  <2> QED BY <2>1, <2>2, LeavingLines
<1> QED BY <1>2, <1>3, LeavingCopies DEF TablesStill

LEMMA EndCopies ==
  ASSUME Inv, CopiesInv, NEW b \in Broker, DiscardPublish(b) \/ RejectPublish(b) \/ EndFanOut(b)
  PROVE  CopiesInv'
<1>1. /\ WorkerFrame /\ strayed' = strayed /\ respQ' = respQ
      /\ UNCHANGED <<users, topics, ids>> /\ wpc[b] \in {"publish", "fan_out"}
  BY DEF DiscardPublish, RejectPublish, EndFanOut, dbVars
<1>2. PICK step, m :
        /\ GoTo(b, step, m) /\ step \in {"idle", "respond"}
        /\ \/ wsubs' = wsubs /\ wrelayed' = wrelayed /\ wpc[b] # "fan_out"
           \/ wsubs' = wsubs /\ wrelayed' = [wrelayed EXCEPT ![b] = FALSE]
           \/ wsubs' = [wsubs EXCEPT ![b] = {}] /\ wrelayed' = [wrelayed EXCEPT ![b] = FALSE]
  <2>1. CASE DiscardPublish(b) BY <2>1 DEF DiscardPublish, Forget
  <2>2. CASE RejectPublish(b) BY <2>2 DEF RejectPublish, Forget
  <2>3. CASE EndFanOut(b) BY <2>3 DEF EndFanOut, Forget
  <2> QED BY <2>1, <2>2, <2>3
<1>3. Leaves(b) /\ wpc'[b] = step BY <1>1, <1>2, LeavesFor
<1> QED BY <1>1, <1>2, <1>3, LeavingAlone

LEMMA RespondLeaves ==
  ASSUME Inv, NEW b \in Broker, Respond(b)
  PROVE  Leaves(b) /\ UNCHANGED <<users, topics, ids>> /\ wpc[b] = "respond" /\ wpc'[b] = "idle"
<1>1. /\ WorkerFrame /\ strayed' = strayed /\ GoTo(b, "idle", Idle)
      /\ UNCHANGED <<users, topics, ids>> /\ wpc[b] = "respond"
      /\ wsubs' = [wsubs EXCEPT ![b] = {}] /\ wrelayed' = [wrelayed EXCEPT ![b] = FALSE]
  BY DEF Respond, Forget, dbVars
<1>2. /\ wpc'[b] = "idle" /\ ~wrelayed'[b]
      /\ \A d \in Broker : d # b => /\ wpc'[d] = wpc[d] /\ wmsg'[d] = wmsg[d]
                                    /\ wsubs'[d] = wsubs[d] /\ wrelayed'[d] = wrelayed[d]
  BY <1>1 DEF GoTo, Inv, WorkersOK
<1>3. /\ \A d \in Broker : respQ'[d] = respQ[d]
      /\ \A c \in Client : respQ'[c] = respQ[c] \/
           \E m \in Msg : m.type # "PUBLISH" /\ respQ'[c] = Append(respQ[c], m)
  <2>1. wmsg[b] \in Answer(b) BY <1>1 DEF Inv, WorkersOK, WorkerOK
  <2>2. CASE Unknown(wmsg[b]) BY <2>2 DEF Respond
  <2>3. CASE ~Unknown(wmsg[b])
    <3>1. PICK x \in Client, m \in Msg : x = wmsg[b].mtype /\ m = wmsg[b] /\ m.type \in Ack
      BY <2>1, <2>3 DEF Answer, ClientOf
    <3>2. respQ' = [respQ EXCEPT ![x] = Append(respQ[x], m)]
      BY <2>3, <3>1 DEF Respond, QueueResp
    <3>3. \A y \in Connection : respQ'[y] = IF y = x THEN Append(respQ[x], m) ELSE respQ[y]
      BY <3>1, <3>2 DEF Inv, RespQOK, Connection
    <3>4. m.type # "PUBLISH" BY <3>1 DEF Ack
    <3> QED BY <3>1, <3>3, <3>4, Constants DEF Connection
  <2> QED BY <2>2, <2>3
<1> QED BY <1>1, <1>2, <1>3 DEF Leaves

LEMMA RespondCopies ==
  ASSUME Inv, CopiesInv, NEW b \in Broker, Respond(b)
  PROVE  CopiesInv'
BY RespondLeaves, LeavingAlone

\* The new user is nobody's yet.
LEMMA CreateUserCopies ==
  ASSUME Inv, IdsInv, CopiesInv, NEW b \in Broker, CreateUser(b)
  PROVE  CopiesInv'
<1>1. /\ WorkerFrame /\ strayed' = strayed /\ respQ' = respQ /\ wpc[b] = "add_user"
      /\ UNCHANGED <<topics, ids, wsubs, wrelayed>> /\ DbAddUser
  BY DEF CreateUser, NoFanOut, DbAddUser
<1>2. PICK k : GoTo(b, "add_id", k) BY DEF CreateUser
<1>3. Leaves(b) /\ wpc'[b] = "add_id" BY <1>1, <1>2, LeavesFor
<1>4. \A d \in Broker : Leaving(d)' = Leaving(d) BY <1>1, <1>3 DEF Leaving, Leaves
<1>5. ASSUME NEW c \in Client
      PROVE  /\ \A id : (Entered(c, id)' <=> Entered(c, id)) /\ (Owner(c, id)' => Owner(c, id))
             /\ \A m : Own(c, m)' <=> Own(c, m)
  <2>1. PICK h \in Broker : h = Home[c] BY Constants
  <2>2. PICK L : L = Leaving(h) /\ L = Leaving(h)' BY <1>4
  <2>3. \A id : Entered(c, id)' <=> Entered(c, id) BY <1>1 DEF Entered
  <2>4. ASSUME NEW id, Owner(c, id)' PROVE Owner(c, id)
    <3>1. Entered(c, id) /\ id \notin L BY <2>1, <2>2, <2>3, <2>4 DEF Owner
    <3> QED BY <2>1, <2>2, <3>1, EnteredOwned
  <2>5. ASSUME NEW m PROVE Own(c, m)' <=> Own(c, m)
    <3>1. PICK id : id = m.mtype OBVIOUS
    <3> QED BY <2>3, <3>1 DEF Own
  <2> QED BY <2>3, <2>4, <2>5
<1>6. ASSUME NEW c \in Client PROVE LinesFor(c)'
  <2>1. \A t \in Topic : LinesOf(c, t)' \subseteq LinesOf(c, t) BY <1>1, <1>5, LinesOfStay
  <2> QED BY <1>3, <1>5, <2>1, LeavingLines
<1> QED BY <1>3, <1>5, <1>6, LeavingCopies

\* The new entry is for an id that no line has and no request names.
LEMMA CreateIdCopies ==
  ASSUME Inv, IdsInv, CopiesInv, NEW b \in Broker, CreateId(b)
  PROVE  CopiesInv'
<1>1. /\ WorkerFrame /\ strayed' = strayed /\ respQ' = respQ /\ wpc[b] = "add_id"
      /\ UNCHANGED <<users, topics, wsubs, wrelayed>>
  BY DEF CreateId, NoFanOut, dbVars
<1>2. PICK m : GoTo(b, "respond", m) BY DEF CreateId
<1>3. Leaves(b) /\ wpc'[b] = "respond" BY <1>1, <1>2, LeavesFor
<1>4. CASE ids' = ids BY <1>1, <1>3, <1>4, LeavingAlone
<1>5. CASE ids' = [ids EXCEPT ![b] = AddGlobalId(ids[b], wmsg[b].global_id, wmsg[b].mtype)]
  <2>1. PICK k, x, old : k = wmsg[b].global_id /\ x = wmsg[b].mtype /\ old = ids[b] OBVIOUS
  <2>2. /\ k \in users /\ k \in Nat /\ x \in Client /\ Home[x] = b
        /\ \A t \in Topic : \A l \in topics[t] : l.id # k
    <3>1. k \in users /\ \A t \in Topic : \A l \in topics[t] : l.id # k
      BY <1>1, <2>1 DEF IdsInv, IdsOK, Reserved
    <3>2. k \in Nat BY <3>1 DEF Inv, DbOK, DbTypeOK
    <3>3. x \in Client /\ Home[x] = b BY <1>1, <2>1 DEF Inv, WorkersOK, WorkerOK, ClientOf
    <3> QED BY <3>1, <3>2, <3>3
  <2>3. \A d \in Broker : ids'[d] = IF d = b THEN AddGlobalId(old, k, x) ELSE ids[d]
    BY <1>5, <2>1 DEF Inv, TablesOK
  <2>4. \A e : Has(AddGlobalId(old, k, x), e) <=> Has(old, e) \/ e = Entry(k, x)
    <3>1. PICK S : S = [global_id : Nat, mtype : Connection] OBVIOUS
    <3>2. old \in Seq(S) /\ Entry(k, x) \in S
      BY <2>1, <2>2, <3>1 DEF Inv, TablesOK, Entry, Connection
    <3> QED BY <3>2, AddedEntries
  <2>5. ASSUME NEW c \in Client, NEW id, Entered(c, id)'
        PROVE  Entered(c, id) \/ (Home[c] = b /\ id = k)
    <3>1. PICK h \in Broker : h = Home[c] BY Constants
    <3>2. Entry(id, c) = Entry(k, x) => id = k BY DEF Entry
    <3>3. CASE h = b BY <2>1, <2>3, <2>4, <2>5, <3>1, <3>2, <3>3 DEF Entered
    <3>4. CASE h # b BY <2>3, <2>5, <3>1, <3>4 DEF Entered
    <3> QED BY <3>3, <3>4
  <2>6. \A d \in Broker : Leaving(d)' = Leaving(d) BY <1>1, <1>3 DEF Leaving, Leaves
  <2>7. ASSUME NEW c \in Client PROVE LinesFor(c)'
    <3>1. ASSUME NEW t \in Topic, NEW l \in LinesOf(c, t)' PROVE l \in LinesOf(c, t)
      <4>1. PICK id : id = l.id OBVIOUS
      <4>2. l \in topics[t] /\ Owner(c, id)' BY <1>1, <4>1 DEF LinesOf
      <4>3. PICK h \in Broker : h = Home[c] BY Constants
      <4>4. PICK L : L = Leaving(h) /\ L = Leaving(h)' BY <2>6
      <4>5. Entered(c, id) BY <2>2, <2>5, <4>1, <4>2 DEF Owner
      <4>6. Owner(c, id) BY <1>1, <4>2, <4>3, <4>4, <4>5 DEF Owner
      <4> QED BY <4>1, <4>2, <4>6 DEF LinesOf
    <3>2. ASSUME NEW n, Own(c, n)',
                 Home[c] = b => n \in Elements(workerQ[b])
          PROVE  Own(c, n)
      <4>1. PICK id : id = n.mtype OBVIOUS
      <4>2. CASE n.type = "CREATE" BY <3>2, <4>2 DEF Own
      <4>3. CASE n.type # "CREATE"
        <5>1. n.broker_id = 0 /\ Entered(c, id)' BY <3>2, <4>1, <4>3 DEF Own
        <5>2. Home[c] = b => id # k BY <1>1, <2>1, <3>2, <4>1, <4>3, <5>1, ReservedAlone
        <5>3. Entered(c, id) BY <2>5, <5>1, <5>2
        <5> QED BY <4>1, <4>3, <5>1, <5>3 DEF Own
      <4> QED BY <4>2, <4>3
    <3>3. \A n \in Elements(workerQ[Home[c]]) : Own(c, n)' => Own(c, n) BY <3>2
    <3>4. Home[c] # b => \A n : Own(c, n)' => Own(c, n) BY <3>2
    <3> QED BY <1>3, <3>1, <3>3, <3>4, LeavingLines
  <2> QED BY <1>3, <2>5, <2>7, LeavingCopies
<1> QED BY <1>4, <1>5 DEF CreateId

\* The entry goes, and the user has gone before.
LEMMA RemoveIdCopies ==
  ASSUME Inv, IdsInv, CopiesInv, NEW b \in Broker, RemoveId(b)
  PROVE  CopiesInv'
<1>1. /\ WorkerFrame /\ strayed' = strayed /\ respQ' = respQ /\ wpc[b] = "remove_id"
      /\ UNCHANGED <<users, topics, wsubs, wrelayed>>
      /\ ids' = [ids EXCEPT ![b] = RemoveGlobalId(ids[b], wmsg[b].global_id)]
  BY DEF RemoveId, NoFanOut, dbVars
<1>2. PICK m : GoTo(b, "respond", m) BY DEF RemoveId
<1>3. Leaves(b) /\ wpc'[b] = "respond" BY <1>1, <1>2, LeavesFor
<1>4. PICK n, old : n = wmsg[b].global_id /\ old = ids[b] OBVIOUS
<1>5. /\ Leaving(b) = {n}
      /\ \A d \in Broker : d # b => Leaving(d)' = Leaving(d)
  BY <1>1, <1>3, <1>4 DEF Leaving, Leaves
<1>6. \A d \in Broker : ids'[d] = IF d = b THEN RemoveGlobalId(old, n) ELSE ids[d]
  BY <1>1, <1>4 DEF Inv, TablesOK
<1>7. \A e : Has(RemoveGlobalId(old, n), e) <=> Has(old, e) /\ e.global_id # n
  <2>1. PICK S : S = [global_id : Nat, mtype : Connection] OBVIOUS
  <2>2. old \in Seq(S) /\ UniqueTable(old)
    BY <1>4, <2>1 DEF Inv, TablesOK, IdsInv, IdsOK, EntriesUnique
  <2> QED BY <2>2, RemovedEntries
<1>8. ASSUME NEW c \in Client, NEW id, Entered(c, id)'
      PROVE  Entered(c, id) /\ (Home[c] = b => id # n)
  <2>1. PICK h \in Broker : h = Home[c] BY Constants
  <2>2. Entry(id, c).global_id = id BY DEF Entry
  <2>3. CASE h = b BY <1>4, <1>6, <1>7, <1>8, <2>1, <2>2, <2>3 DEF Entered
  <2>4. CASE h # b BY <1>6, <1>8, <2>1, <2>4 DEF Entered
  <2> QED BY <2>3, <2>4
<1>9. ASSUME NEW c \in Client PROVE LinesFor(c)'
  <2>1. ASSUME NEW t \in Topic, NEW l \in LinesOf(c, t)' PROVE l \in LinesOf(c, t)
    <3>1. PICK id : id = l.id OBVIOUS
    <3>2. l \in topics[t] /\ Owner(c, id)' BY <1>1, <3>1 DEF LinesOf
    <3>3. PICK h \in Broker : h = Home[c] BY Constants
    <3>4. Entered(c, id) /\ id \in users /\ id \notin Leaving(h)' /\ (h = b => id # n)
      BY <1>1, <1>8, <3>2, <3>3 DEF Owner
    <3>5. id \notin Leaving(h) BY <1>5, <3>4
    <3> QED BY <3>1, <3>2, <3>3, <3>4, <3>5 DEF LinesOf, Owner
  <2>2. ASSUME NEW k, Own(c, k)' PROVE Own(c, k)
    <3>1. PICK id : id = k.mtype OBVIOUS
    <3> QED BY <1>8, <2>2, <3>1 DEF Own
  <2> QED BY <1>3, <2>1, <2>2, LeavingLines
<1> QED BY <1>3, <1>8, <1>9, LeavingCopies

\* Without the lines of id, the others of a set of ids are no more than they were.
LEMMA WithoutFewer ==
  ASSUME NEW lines \in SUBSET Line, IsFiniteSet(lines), NEW id, NEW S
  PROVE  LET left == {l \in Without(lines, id) : l.id \in S} IN
           /\ IsFiniteSet(left) /\ Cardinality(left) \in Nat
           /\ Cardinality(left) <= Cardinality({l \in lines : l.id \in S})
<1> DEFINE kept == {l \in lines : l.id # id}
           rank(l) == Cardinality({k \in kept : k.pos <= l.pos})
           K == {l \in kept : l.id \in S}
           f == [l \in K |-> [pos |-> rank(l), id |-> l.id]]
           left == {l \in Without(lines, id) : l.id \in S}
           all == {l \in lines : l.id \in S}
<1>1. Without(lines, id) = {[pos |-> rank(l), id |-> l.id] : l \in kept} BY DEF Without
<1>2. left = {f[l] : l \in K}
  <2>1. ASSUME NEW l \in K PROVE f[l] \in left
    <3>1. f[l] = [pos |-> rank(l), id |-> l.id] OBVIOUS
    <3>2. f[l] \in Without(lines, id) BY <1>1, <3>1
    <3>3. f[l].id = l.id BY <3>1
    <3> QED BY <3>2, <3>3
  <2>2. ASSUME NEW x \in left PROVE \E l \in K : x = f[l]
    <3>1. PICK l \in kept : x = [pos |-> rank(l), id |-> l.id] BY <1>1
    <3>2. x.id = l.id BY <3>1
    <3> QED BY <3>1, <3>2
  <2> HIDE DEF f, K, left
  <2> QED BY <2>1, <2>2
<1>3. K \subseteq all /\ all \subseteq lines OBVIOUS
<1>4. IsFiniteSet(all) /\ IsFiniteSet(K) BY <1>3, FS_Subset
<1>5. f \in Surjection(K, {f[l] : l \in K})
  <2> HIDE DEF K, kept
  <2> QED BY DEF Surjection
<1>6. Cardinality(K) <= Cardinality(all) /\ Cardinality(K) \in Nat /\ Cardinality(all) \in Nat
  BY <1>3, <1>4, FS_Subset, FS_CardinalityType
<1>7. IsFiniteSet(left) /\ Cardinality(left) <= Cardinality(K)
  <2> HIDE DEF f, K, left
  <2> QED BY <1>2, <1>4, <1>5, FS_Surjection
<1>8. Cardinality(left) \in Nat BY <1>7, FS_CardinalityType
<1> HIDE DEF left, all, K
<1>9. Cardinality(left) <= Cardinality(all) BY <1>6, <1>7, <1>8
<1> QED BY <1>7, <1>8, <1>9 DEF left, all

\* The user goes, its entry is still to go.
LEMMA DeleteUserCopies ==
  ASSUME Inv, IdsInv, CopiesInv, NEW b \in Broker, DeleteUser(b)
  PROVE  CopiesInv'
<1>1. /\ WorkerFrame /\ strayed' = strayed /\ respQ' = respQ /\ wpc[b] = "delete"
      /\ UNCHANGED <<ids, wsubs, wrelayed>>
  BY DEF DeleteUser, NoFanOut
<1>2. PICK m : GoTo(b, "remove_id", m) BY DEF DeleteUser
<1>3. Leaves(b) /\ wpc'[b] = "remove_id" BY <1>1, <1>2, LeavesFor
<1>4. /\ Leaving(b) = {} /\ \A d \in Broker : d # b => Leaving(d)' = Leaving(d)
  BY <1>1, <1>3 DEF Leaving, Leaves
<1>5. users' \subseteq users BY DEF DeleteUser, DbDelete, dbVars
<1>6. ASSUME NEW c \in Client
      PROVE  /\ \A id : Entered(c, id)' <=> Entered(c, id)
             /\ \A id : Owner(c, id)' => Owner(c, id)
             /\ \A k : Own(c, k)' <=> Own(c, k)
  <2>1. PICK h \in Broker : h = Home[c] BY Constants
  <2>2. \A id : Entered(c, id)' <=> Entered(c, id) BY <1>1 DEF Entered
  <2>3. Leaving(h) \subseteq Leaving(h)' BY <1>4
  <2>4. \A id : Owner(c, id)' => Owner(c, id) BY <1>5, <2>1, <2>2, <2>3 DEF Owner
  <2>5. ASSUME NEW k PROVE Own(c, k)' <=> Own(c, k)
    <3>1. PICK id : id = k.mtype OBVIOUS
    <3> QED BY <2>2, <3>1 DEF Own
  <2> QED BY <2>2, <2>4, <2>5
<1>7. ASSUME NEW c \in Client, NEW t \in Topic
      PROVE  /\ Cardinality(LinesOf(c, t)') \in Nat
             /\ Cardinality(LinesOf(c, t)') <= Cardinality(LinesOf(c, t))
  <2>1. CASE topics' = topics
    <3>1. LinesOf(c, t)' \subseteq LinesOf(c, t) BY <1>6, <2>1, LinesOfStay
    <3> QED BY <3>1, LinesFinite, FS_Subset, FS_CardinalityType
  <2>2. ASSUME NEW id, topics' = [u \in Topic |-> Without(topics[u], id)]
        PROVE  /\ Cardinality(LinesOf(c, t)') \in Nat
               /\ Cardinality(LinesOf(c, t)') <= Cardinality(LinesOf(c, t))
    <3>1. PICK lines : lines = topics[t] OBVIOUS
    <3>2. lines \in SUBSET Line /\ IsFiniteSet(lines) BY <3>1 DEF Inv, DbOK, DbTypeOK
    <3>3. PICK S : S = {j \in Nat : Owner(c, j)'} OBVIOUS
    <3>4. PICK left : left = {l \in Without(lines, id) : l.id \in S} OBVIOUS
    <3>5. LinesOf(c, t)' = left
      <4>1. \A l \in Without(lines, id) : l.id \in Nat BY <3>2, WithoutType DEF Line
      <4>2. topics'[t] = Without(lines, id) BY <2>2, <3>1
      <4>3. ASSUME NEW l PROVE l \in LinesOf(c, t)' <=> l \in left
        <5>1. PICK j : j = l.id OBVIOUS
        <5> QED BY <3>3, <3>4, <4>1, <4>2, <5>1 DEF LinesOf
      <4> QED BY <4>3
    <3>6. PICK all : all = {l \in lines : l.id \in S} OBVIOUS
    <3>7. all \subseteq LinesOf(c, t)
      <4> SUFFICES ASSUME NEW l \in all PROVE l \in LinesOf(c, t) OBVIOUS
      <4>1. PICK j : j = l.id OBVIOUS
      <4>2. Owner(c, j)' BY <3>3, <3>6, <4>1
      <4> QED BY <1>6, <3>1, <3>6, <4>1, <4>2 DEF LinesOf
    <3>8. Cardinality(left) \in Nat /\ Cardinality(left) <= Cardinality(all)
      BY <3>2, <3>4, <3>6, WithoutFewer
    <3>9. PICK i, j : i = Cardinality(all) /\ j = Cardinality(LinesOf(c, t)) OBVIOUS
    <3>10. i \in Nat /\ j \in Nat /\ i <= j
      BY <3>7, <3>9, LinesFinite, FS_Subset, FS_CardinalityType
    <3>11. Cardinality(left) <= j BY <3>8, <3>9, <3>10
    <3> QED BY <3>5, <3>8, <3>9, <3>11
  <2> QED BY <2>1, <2>2 DEF DeleteUser, DbDelete, dbVars
<1>8. ASSUME NEW c \in Client PROVE LinesFor(c)'
  <2>1. AskedCalm(c) /\ \A t \in Topic : Asks(c, t)' => Asks(c, t)
    BY <1>3, <1>6, LeavingAsks
  <2> QED BY <1>7, <2>1, LinesNoMore DEF CopiesInv
<1> QED BY <1>3, <1>6, <1>8, LeavingCopies

\* The line that a client gets is the one it asked for.
LEMMA ProcessSubscribeCopies ==
  ASSUME Inv, IdsInv, CopiesInv, NEW b \in Broker, ProcessSubscribe(b)
  PROVE  CopiesInv'
<1>1. /\ WorkerFrame /\ strayed' = strayed /\ respQ' = respQ /\ wpc[b] = "subscribe"
      /\ wmsg[b].type = "SUBSCRIBE" /\ wmsg[b].broker_id = 0 /\ wmsg[b] \in Msg
      /\ wmsg[b].mtype \in Nat /\ wmsg[b].topic \in Topic
      /\ UNCHANGED <<ids, wsubs, wrelayed, up, workerQ>>
  BY DEF ProcessSubscribe, NoFanOut, WorkerFrame, Inv, WorkersOK, WorkerOK, Identified
<1>2. PICK m : GoTo(b, "respond", m) BY DEF ProcessSubscribe
<1>3. Leaves(b) /\ wpc'[b] = "respond" BY <1>1, <1>2, LeavesFor
<1>4. CASE UNCHANGED dbVars BY <1>1, <1>3, <1>4, LeavingAlone DEF dbVars
<1>5. CASE DbSubscribe(Resolved(b).global_id, Resolved(b).topic)
  <2>1. PICK g, h : g = wmsg[b].mtype /\ h = wmsg[b].topic OBVIOUS
  <2>2. PICK c \in Client : /\ Home[c] = b /\ Serves(c) /\ g = gid[c] /\ Live(c)
    BY <1>1, <2>1, FirstClient
  <2>3. Resolved(b).global_id = g /\ Resolved(b).topic = h BY <1>1, <2>1, ResolvedMsg DEF Inv
  <2>4. PICK new : new = [pos |-> 1 + Cardinality(topics[h]), id |-> g] OBVIOUS
  <2>5. /\ users' = users /\ topics' = [topics EXCEPT ![h] = topics[h] \cup {new}]
        /\ topics \in [Topic -> SUBSET Line] /\ h \in Topic /\ new.id = g
    BY <1>1, <1>5, <2>1, <2>3, <2>4 DEF DbSubscribe, Inv, DbOK, DbTypeOK
  <2>6. \A d \in Broker : Leaving(d)' = Leaving(d) BY <1>1, <1>3 DEF Leaving, Leaves
  <2>7. \A d \in Client : TablesStill(d) BY <1>1, <2>5, <2>6, StillTables
  <2>8. ASSUME NEW d \in Client
        PROVE  /\ AskedCalm(d) /\ \A t \in Topic : Asks(d, t)' => Asks(d, t)
               /\ \A k : Own(d, k)' <=> Own(d, k)
    <3>1. \A k : Own(d, k)' <=> Own(d, k) BY <2>7, StillOwn
    <3> QED BY <1>3, <3>1, LeavingAsks
  <2>9. ASSUME NEW d \in Client, NEW t \in Topic, NEW l \in LinesOf(d, t)'
        PROVE  l \in LinesOf(d, t) \/ (d = c /\ t = h /\ l = new)
    <3>1. PICK j : j = l.id OBVIOUS
    <3>2. Owner(d, j)' /\ l \in topics'[t] BY <3>1 DEF LinesOf
    <3>3. Owner(d, j) BY <2>7, <3>2 DEF TablesStill
    <3>4. CASE l \in topics[t] BY <3>1, <3>3, <3>4 DEF LinesOf
    <3>5. CASE l \notin topics[t]
      <4>1. t = h /\ l = new BY <2>5, <3>2, <3>5
      <4>2. Owner(c, g) /\ j = g BY <2>2, <2>5, <3>1, <4>1 DEF Live
      <4>3. g \in users BY <4>2 DEF Owner
      <4>4. d = c BY <3>3, <4>2, <4>3 DEF IdsInv, IdsOK, OwnersUnique
      <4> QED BY <4>1, <4>4
    <3> QED BY <3>4, <3>5
  <2>10. ASSUME NEW d \in Client PROVE LinesFor(d)'
    <3>1. CASE d # c
      <4>1. \A t \in Topic : LinesOf(d, t)' \subseteq LinesOf(d, t) BY <2>9, <3>1
      <4> QED BY <2>8, <4>1, LinesStay DEF CopiesInv
    <3>2. CASE d = c
      <4> SUFFICES ASSUME NEW t \in Topic
                   PROVE  Cardinality(LinesOf(c, t)') + (IF Asks(c, t)' THEN 1 ELSE 0)
                            <= asked'[c][t]
        BY <3>2 DEF LinesFor
      <4>1. ~Asks(c, t)'
        <5> SUFFICES ASSUME NEW k, Asked(c, t, k)' PROVE FALSE BY AsksIs
        <5>1. up[c] = <<>> /\ \A n \in Elements(workerQ[b]) : ~Own(c, n)
          <6>1. up[c] \in Seq(Msg) BY DEF Inv, UpOK, Connection
          <6> QED BY <2>2, <6>1, ServedAlone DEF IdsInv, ServedOK, Elements
        <5>2. k \in Elements(up[c]) \/ (k \in Elements(workerQ[b]) /\ Own(c, k))
          BY <1>1, <1>3, <2>2, <2>8 DEF Asked, Elements
        <5> QED BY <5>1, <5>2 DEF Elements
      <4>2. PICK i, j : i = Cardinality(LinesOf(c, t)) /\ j = Cardinality(LinesOf(c, t)')
        OBVIOUS
      <4>3. i \in Nat /\ IsFiniteSet(LinesOf(c, t)) BY <4>2, LinesFinite
      <4>4. asked[c][t] \in Nat /\ asked'[c][t] \in Nat /\ asked[c][t] <= asked'[c][t]
        BY <2>8, NewsTypes DEF AskedCalm
      <4>5. CASE t = h
        <5>1. Own(c, wmsg[b])
          BY <1>1, <2>2 DEF Serves
        <5>2. Asks(c, h) BY <1>1, <2>1, <2>2, <5>1 DEF Asks
        <5>3. i + 1 <= asked[c][t] BY <4>2, <4>5, <5>2 DEF CopiesInv, LinesFor
        <5>4. LinesOf(c, t)' \subseteq LinesOf(c, t) \cup {new} BY <2>9
        <5>5. j \in Nat /\ j <= i + 1
          <6>1. PICK A, Bs : A = LinesOf(c, t) /\ Bs = LinesOf(c, t) \cup {new} OBVIOUS
          <6>2. IsFiniteSet(Bs) /\ Cardinality(Bs) \in Nat
                /\ (Cardinality(Bs) = i \/ Cardinality(Bs) = i + 1)
            BY <4>2, <4>3, <6>1, FS_AddElement, FS_CardinalityType
          <6>3. j \in Nat /\ j <= Cardinality(Bs)
            BY <4>2, <5>4, <6>1, <6>2, FS_Subset, FS_CardinalityType
          <6> QED BY <4>3, <6>2, <6>3
        <5>6. j + 0 <= asked'[c][t] BY <4>3, <4>4, <5>3, <5>5
        <5> QED BY <4>1, <4>2, <5>6
      <4>6. CASE t # h
        <5>1. LinesOf(c, t)' \subseteq LinesOf(c, t) BY <2>9, <4>6
        <5>2. j \in Nat /\ j <= i BY <4>2, <4>3, <5>1, FS_Subset, FS_CardinalityType
        <5>3. PICK k \in {0, 1} : k = IF Asks(c, t) THEN 1 ELSE 0 OBVIOUS
        <5>4. i + k <= asked[c][t] BY <4>2, <5>3 DEF CopiesInv, LinesFor
        <5>5. j + 0 <= asked'[c][t] BY <4>3, <4>4, <5>2, <5>3, <5>4
        <5> QED BY <4>1, <4>2, <5>5
      <4> QED BY <4>5, <4>6
    <3> QED BY <3>1, <3>2
  <2> QED BY <1>3, <2>7, <2>10, LeavingCopies DEF TablesStill
<1> QED BY <1>4, <1>5 DEF ProcessSubscribe

-----------------------------------------------------------------------------
(* Messages reach the client.                                              *)

LEMMA NewsCopies ==
  ASSUME Inv, CopiesInv, SamePubs, UNCHANGED <<up, workerQ, workerPart, topics>>,
         \A b \in Broker : respQ'[b] = respQ[b],
         NewsCalm, PubsOK', \A c \in Client : TablesStill(c),
         \A c \in Client : AskedCalm(c) \/ (CountFor(c)' /\ LinesFor(c)')
  PROVE  CopiesInv'
<1>1. MessagesCalm BY DEF MessagesCalm, Elements
<1>2. PublishCalm /\ FanOutsCalm BY WorkersStill DEF CopiesInv
<1>3. SpreadOK' BY <1>1, <1>2, SpreadStays DEF CopiesInv
<1>4. ListsOK' BY <1>2, ListsStay DEF CopiesInv, SamePubs
<1>5. ASSUME NEW c \in Client, AskedCalm(c) PROVE CountFor(c)' /\ LinesFor(c)'
  <2>1. EntriesCalm(c) BY DEF EntriesCalm, TablesStill
  <2>2. CountFor(c)' BY <1>2, <1>5, <2>1, CountStays DEF CopiesInv
  <2>3. PICK b \in Broker : b = Home[c] BY Constants
  <2>4. \A t \in Topic : LinesOf(c, t)' \subseteq LinesOf(c, t) BY LinesOfStay DEF TablesStill
  <2>5. \A m : Own(c, m)' <=> Own(c, m) BY StillOwn
  <2>6. \A t \in Topic : Asks(c, t)' => Asks(c, t)
    BY <2>3, <2>5, AsksStay DEF workerPart, Elements
  <2> QED BY <1>5, <2>2, <2>4, <2>6, LinesStay DEF CopiesInv
<1> QED BY <1>3, <1>4, <1>5 DEF CopiesInv

LEMMA RespHandlerCopies ==
  ASSUME Inv, CopiesInv, NEW c \in Client, RespHandler(c)
  PROVE  CopiesInv'
<1>1. /\ respQ[c] # <<>> /\ respQ' = [respQ EXCEPT ![c] = Tail(respQ[c])]
      /\ down' = [down EXCEPT ![c] = Append(down[c], Outgoing(Head(respQ[c])))] \/ down' = down
      /\ UNCHANGED <<users, topics, ids, up, workerQ, workerPart, wpc, wmsg, asked, got, pubs,
                     strayed>>
  BY DEF RespHandler, dbVars, clientPart, workerPart
<1>2. /\ respQ \in [Connection -> Seq(Msg)] /\ down \in [Client -> Seq(Msg)] /\ c \in Connection
  BY NewsTypes
<1>3. \A d \in Client : d # c => respQ'[d] = respQ[d] /\ down'[d] = down[d]
  BY <1>1, <1>2 DEF Connection
<1>4. SamePubs BY <1>1 DEF SamePubs
<1>5. PICK q \in Seq(Msg), r \in Seq(Msg) : q = respQ[c] /\ r = down[c] /\ q # <<>>
  BY <1>1, <1>2
<1>6. PICK m \in Msg : m = Outgoing(Head(q)) /\ \A p : IsCopy(m, p) <=> IsCopy(Head(q), p)
  <2>1. Head(q) \in Msg BY <1>5, QueueElements, IdleMsg
  <2> QED BY <2>1, OutgoingMsg DEF IsCopy
<1>7. respQ'[c] = Tail(q) /\ (down'[c] = Append(r, m) \/ down'[c] = r)
  BY <1>1, <1>2, <1>5, <1>6
<1>8. ASSUME NEW p \in Proper' PROVE CopiesFor(c, p)' \in Nat /\ CopiesFor(c, p)' <= CopiesFor(c, p)
  <2>1. p \in DOMAIN pubs BY <1>1 DEF Proper
  <2>2. got[c][p] \in Nat BY <2>1, CopiesForNat, NewsTypes DEF CopiesInv
  <2>3. PICK g, i, j, k, n : /\ g = got[c][p] /\ i = Cardinality(Copies(q, p))
                             /\ j = Cardinality(Copies(r, p)) /\ k = Cardinality(Copies(Tail(q), p))
                             /\ n = Cardinality(Copies(down'[c], p))
    OBVIOUS
  <2>4. PICK x \in {0, 1} : x = Bit(IsCopy(m, p)) BY DEF Bit
  <2>5. i = k + x
    <3>1. Bit(IsCopy(Head(q), p)) = x BY <1>6, <2>4 DEF Bit
    <3> QED BY <1>5, <2>3, <3>1, CopiesTail
  <2>6. Tail(q) \in Seq(Msg) BY <1>5, HeadTailProperties
  <2>7. i \in Nat /\ j \in Nat /\ k \in Nat BY <2>3, <2>6, CopiesCount
  <2>8. n = j \/ n = j + x
    <3>1. Cardinality(Copies(Append(r, m), p)) = j + x BY <2>3, <2>4, CopiesAppend
    <3> QED BY <1>7, <2>3, <3>1
  <2>9. CopiesFor(c, p) = g + i + j BY <1>5, <2>3, CopiesForIs
  <2>10. CopiesFor(c, p)' = g + k + n BY <1>1, <1>7, <2>3, CopiesForIs
  <2>11. g + k + n \in Nat /\ g + k + n <= g + i + j
    <3>1. g \in Nat BY <2>2, <2>3
    <3>2. n \in Nat /\ k + n <= i + j BY <2>5, <2>7, <2>8
    <3> QED BY <2>7, <3>1, <3>2
  <2> QED BY <2>9, <2>10, <2>11
<1>9. NewsCalm
  <2>1. ASSUME NEW d \in Client, d # c, NEW p \in Proper'
        PROVE  CopiesFor(d, p)' \in Nat /\ CopiesFor(d, p)' <= CopiesFor(d, p)
    <3>1. p \in DOMAIN pubs BY <1>1 DEF Proper
    <3> QED BY <1>1, <1>3, <2>1, <3>1, NewsStays DEF NewsStill, CopiesInv
  <2> QED BY <1>8, <2>1 DEF NewsCalm
<1>10. PubsOK' BY <1>1, PubsStay DEF CopiesInv
<1>11. \A d \in Client : TablesStill(d)
  <2>1. \A b \in Broker : Leaving(b)' = Leaving(b) BY <1>1 DEF Leaving
  <2> QED BY <1>1, <2>1, StillTables
<1>12. \A b \in Broker : respQ'[b] = respQ[b] BY <1>1, <1>2, Constants DEF Connection
<1>13. \A d \in Client : AskedCalm(d) BY <1>1, NewsTypes DEF AskedCalm
<1> QED BY <1>1, <1>4, <1>9, <1>10, <1>11, <1>12, <1>13, NewsCopies

\* The client has the answer to its DESTROY, and nothing else is left of it.
LEMMA ReceiveDestroyCopies ==
  ASSUME Inv, IdsInv, PubsOK, NEW c \in Client, ClientReceive(c),
         Head(down[c]).type = "ACK_DESTROY", got'[c] = [p \in 1..MaxPubs |-> 0],
         asked'[c] = [t \in Topic |-> 0]
  PROVE  /\ \A p \in DOMAIN pubs : CopiesFor(c, p)' = 0
         /\ CountFor(c)' /\ LinesFor(c)'
<1> DEFINE m == Head(down[c])
<1>1. /\ UNCHANGED <<users, topics, ids, wsubs, wpc, wmsg, up, workerQ, respQ, pubs, strayed>>
      /\ 1 \in DOMAIN down[c] /\ down[c][1] = m /\ m \in Elements(down[c])
      /\ \A id : Entered(c, id)' <=> Entered(c, id)
      /\ \A id : Owner(c, id)' <=> Owner(c, id)
  BY ReceiveMeans
<1>2. respQ'[c] = <<>> /\ down'[c] = <<>>
  <2>1. 1 = Len(down[c]) /\ respQ[c] = <<>> BY <1>1 DEF IdsInv, ServedOK, ClientOK, LastOK
  <2>2. down[c] \in Seq(Msg) /\ down' = [down EXCEPT ![c] = Tail(down[c])]
    BY NewsTypes DEF ClientReceive
  <2>3. down'[c] = Tail(down[c]) BY <2>2, NewsTypes
  <2>4. Tail(down[c]) = <<>>
    <3>1. down[c] # <<>> BY DEF ClientReceive
    <3>2. Len(Tail(down[c])) = 0 /\ Tail(down[c]) \in Seq(Msg)
      BY <2>1, <2>2, <3>1, HeadTailProperties
    <3> QED BY <3>2, EmptySeq
  <2> QED BY <1>1, <2>1, <2>3, <2>4
<1>3. ~HasEntry(c)
  <2>1. Answered(c, m) BY <1>1 DEF IdsInv, ServedOK, ClientOK, AnswersOK, Ack
  <2> QED BY <2>1 DEF Answered
<1>4. \A id : ~Entered(c, id)' /\ ~Owner(c, id)' BY <1>1, <1>3, EntriesAre DEF Inv, Owner
<1>5. \A t : ~Asks(c, t)'
  <2> SUFFICES ASSUME NEW t, NEW k, Asked(c, t, k)' PROVE FALSE BY AsksIs
  <2>1. Asked(c, t, k)
    <3>1. PICK j : j = k.mtype OBVIOUS
    <3>2. Own(c, k)' => Own(c, k) BY <1>1, <3>1 DEF Own
    <3> QED BY <1>1, <3>2 DEF Asked, Elements, ForTopic
  <2>2. PICK e : PlaceOf(c, e) /\ e[1] \in {"up", "work", "worker"} BY <2>1, AskedPlace
  <2>3. PlaceOf(c, <<"down", c, 1>>) BY <1>1 DEF PlaceOf, InDown, Ack
  <2>4. Single(Places(c)) BY DEF IdsInv, ServedOK, PlacesOK
  <2>5. e = <<"down", c, 1>> BY <2>2, <2>3, <2>4, PlacesAre DEF Single
  <2> QED BY <2>2, <2>5
<1>6. ASSUME NEW p \in DOMAIN pubs PROVE CopiesFor(c, p)' = 0
  <2>1. p \in 1..MaxPubs BY DEF PubsOK
  <2>2. PICK z : z = <<>> /\ z \in Seq(Msg) /\ respQ'[c] = z /\ down'[c] = z
    BY <1>2, EmptySeq
  <2>3. Cardinality(Copies(z, p)) = 0 BY <2>2, CopiesCount
  <2>4. got'[c][p] = 0 BY <2>1
  <2>5. CopiesFor(c, p)' = got'[c][p] + Cardinality(Copies(z, p)) + Cardinality(Copies(z, p))
    BY <2>2, CopiesForIs
  <2> QED BY <2>3, <2>4, <2>5
<1>7. ASSUME NEW p \in Proper'
      PROVE  CopiesFor(c, p)' + Cardinality(ToCome(c, p)') <= asked'[c][pubs'[p].topic]
  <2>1. p \in DOMAIN pubs /\ pubs[p].topic \in Topic BY <1>1, TopicOfPub DEF Proper
  <2>2. PICK S : S = ToCome(c, p)' OBVIOUS
  <2>3. S = {}
    <3> SUFFICES ASSUME NEW l \in S PROVE FALSE OBVIOUS
    <3>1. PICK j : j = l.id OBVIOUS
    <3>2. Entered(c, j)' BY <2>2, <3>1 DEF ToCome
    <3> QED BY <1>4, <3>2
  <2>4. Cardinality(S) = 0 BY <2>3, FS_EmptySet
  <2> QED BY <1>1, <1>6, <2>1, <2>2, <2>4
<1>8. ASSUME NEW t \in Topic
      PROVE  Cardinality(LinesOf(c, t)') + (IF Asks(c, t)' THEN 1 ELSE 0) <= asked'[c][t]
  <2>1. PICK S : S = LinesOf(c, t)' OBVIOUS
  <2>2. S = {}
    <3> SUFFICES ASSUME NEW l \in S PROVE FALSE OBVIOUS
    <3>1. PICK j : j = l.id OBVIOUS
    <3>2. Owner(c, j)' BY <2>1, <3>1 DEF LinesOf
    <3> QED BY <1>4, <3>2
  <2>3. Cardinality(S) = 0 BY <2>2, FS_EmptySet
  <2> QED BY <1>5, <2>1, <2>3
<1> QED BY <1>6, <1>7, <1>8 DEF CountFor, LinesFor

\* A copy that is received has been on the socket.
LEMMA ReceiveCounted ==
  ASSUME Inv, IdsInv, PubsOK, NEW c \in Client, ClientReceive(c),
         \/ got'[c] = got[c]
         \/ /\ Head(down[c]).type = "PUBLISH"
            /\ got' = [got EXCEPT ![c][Head(down[c]).pub] = got[c][Head(down[c]).pub] + 1]
  PROVE  /\ \A p \in DOMAIN pubs : CopiesFor(c, p)' \in Nat /\ CopiesFor(c, p)' <= CopiesFor(c, p)
         /\ \A p \in 1..MaxPubs : p \notin DOMAIN pubs => got'[c][p] = got[c][p]
<1>1. PICK r \in Seq(Msg) : r = down[c] /\ r # <<>> BY NewsTypes DEF ClientReceive
<1>2. down'[c] = Tail(r) /\ Tail(r) \in Seq(Msg) /\ respQ' = respQ /\ Head(r) \in Elements(down[c])
  <2>1. down' = [down EXCEPT ![c] = Tail(down[c])] BY DEF ClientReceive
  <2> QED BY <1>1, <2>1, NewsTypes, HeadTailProperties, ReceiveMeans
<1>3. got \in [Client -> [1..MaxPubs -> Nat]] BY DEF Inv, ClientsOK
<1>4. ASSUME NEW p \in 1..MaxPubs
      PROVE  got'[c][p] = got[c][p] \/ (IsCopy(Head(r), p) /\ got'[c][p] = got[c][p] + 1)
  <2>1. PICK x : x = Head(down[c]).pub OBVIOUS
  <2>2. CASE got' = [got EXCEPT ![c][x] = got[c][x] + 1] /\ Head(down[c]).type = "PUBLISH"
    <3>1. got'[c] = [got[c] EXCEPT ![x] = got[c][x] + 1] BY <1>3, <2>2
    <3>2. CASE x = p
      <4>1. got'[c][p] = got[c][p] + 1 BY <1>3, <3>1, <3>2
      <4>2. IsCopy(Head(r), p) BY <1>1, <2>1, <2>2, <3>2 DEF IsCopy
      <4> QED BY <4>1, <4>2
    <3>3. CASE x # p BY <1>3, <3>1, <3>3
    <3> QED BY <3>2, <3>3
  <2> QED BY <2>1, <2>2
<1>5. ASSUME NEW p \in DOMAIN pubs PROVE CopiesFor(c, p)' \in Nat /\ CopiesFor(c, p)' <= CopiesFor(c, p)
  <2>1. p \in 1..MaxPubs BY DEF PubsOK
  <2>2. PICK g, h, i, j, k : /\ g = got[c][p] /\ h = got'[c][p] /\ i = Cardinality(Copies(respQ[c], p))
                             /\ j = Cardinality(Copies(r, p)) /\ k = Cardinality(Copies(Tail(r), p))
    OBVIOUS
  <2>3. g \in Nat /\ i \in Nat /\ j \in Nat /\ k \in Nat
    BY <1>2, <2>1, <2>2, NewsTypes, CopiesCount
  <2>4. PICK x \in {0, 1} : x = Bit(IsCopy(Head(r), p)) BY DEF Bit
  <2>5. j = k + x BY <1>1, <2>2, <2>4, CopiesTail
  <2>6. h = g \/ h = g + x BY <1>4, <2>1, <2>2, <2>4 DEF Bit
  <2>7. CopiesFor(c, p) = g + i + j BY <1>1, <2>2, CopiesForIs
  <2>8. CopiesFor(c, p)' = h + i + k BY <1>2, <2>2, CopiesForIs
  <2>9. h + i + k \in Nat /\ h + i + k <= g + i + j BY <2>3, <2>5, <2>6
  <2> QED BY <2>7, <2>8, <2>9
<1>6. ASSUME NEW p \in 1..MaxPubs, p \notin DOMAIN pubs PROVE got'[c][p] = got[c][p]
  <2>1. ~IsCopy(Head(r), p)
    BY <1>2, <1>6 DEF IdsInv, ServedOK, ClientOK, NewsOK, ForHolder, IsCopy
  <2> QED BY <1>4, <2>1
<1> QED BY <1>5, <1>6

LEMMA ClientReceiveCopies ==
  ASSUME Inv, IdsInv, CopiesInv, NEW c \in Client, ClientReceive(c)
  PROVE  CopiesInv'
<1>1. /\ UNCHANGED <<users, topics, ids, wsubs, wrelayed, wpc, wmsg, up, workerQ, respQ, pubs, strayed>>
      /\ \A d \in Client : d # c => down'[d] = down[d]
      /\ \A d \in Client : \A id : Entered(d, id)' <=> Entered(d, id)
      /\ \A d \in Client : \A id : Owner(d, id)' <=> Owner(d, id)
  BY ReceiveMeans
<1>2. SamePubs BY <1>1 DEF SamePubs
<1>3. /\ got \in [Client -> [1..MaxPubs -> Nat]] /\ asked \in [Client -> [Topic -> Nat]]
  BY DEF Inv, ClientsOK
<1>4. PubsOK BY DEF CopiesInv
<1>5. \/ /\ Head(down[c]).type = "ACK_DESTROY"
         /\ asked' = [asked EXCEPT ![c] = [t \in Topic |-> 0]]
         /\ got' = [got EXCEPT ![c] = [p \in 1..MaxPubs |-> 0]]
      \/ asked' = asked /\ got' = got
      \/ /\ asked' = asked /\ Head(down[c]).type = "PUBLISH"
         /\ got' = [got EXCEPT ![c][Head(down[c]).pub] = got[c][Head(down[c]).pub] + 1]
  BY DEF ClientReceive
<1>6. \A d \in Client : d # c => got'[d] = got[d] /\ asked'[d] = asked[d]
  BY <1>3, <1>5
<1>7. /\ \A p \in DOMAIN pubs : CopiesFor(c, p)' \in Nat /\ CopiesFor(c, p)' <= CopiesFor(c, p)
      /\ \A p \in 1..MaxPubs : p \notin DOMAIN pubs => got'[c][p] = got[c][p] \/ got'[c][p] = 0
      /\ AskedCalm(c) \/ (CountFor(c)' /\ LinesFor(c)')
  <2>1. CASE /\ Head(down[c]).type = "ACK_DESTROY"
             /\ asked' = [asked EXCEPT ![c] = [t \in Topic |-> 0]]
             /\ got' = [got EXCEPT ![c] = [p \in 1..MaxPubs |-> 0]]
    <3>1. got'[c] = [p \in 1..MaxPubs |-> 0] /\ asked'[c] = [t \in Topic |-> 0]
      BY <1>3, <2>1
    <3>2. /\ \A p \in DOMAIN pubs : CopiesFor(c, p)' = 0
          /\ CountFor(c)' /\ LinesFor(c)'
      BY <1>4, <2>1, <3>1, ReceiveDestroyCopies
    <3>3. \A p \in DOMAIN pubs : CopiesFor(c, p) \in Nat BY <1>4, CopiesForNat
    <3>4. ASSUME NEW p \in DOMAIN pubs
          PROVE  CopiesFor(c, p)' \in Nat /\ CopiesFor(c, p)' <= CopiesFor(c, p)
      <4>1. PICK i, j : i = CopiesFor(c, p) /\ j = CopiesFor(c, p)' OBVIOUS
      <4>2. i \in Nat /\ j = 0 BY <3>2, <3>3, <4>1
      <4> QED BY <4>1, <4>2
    <3> QED BY <3>1, <3>2, <3>4
  <2>2. CASE asked' = asked /\ got' = got
    <3>1. AskedCalm(c) BY <2>2, NewsTypes DEF AskedCalm
    <3> QED BY <1>4, <2>2, <3>1, ReceiveCounted
  <2>3. CASE /\ asked' = asked /\ Head(down[c]).type = "PUBLISH"
             /\ got' = [got EXCEPT ![c][Head(down[c]).pub] = got[c][Head(down[c]).pub] + 1]
    <3>1. AskedCalm(c) BY <2>3, NewsTypes DEF AskedCalm
    <3> QED BY <1>4, <2>3, <3>1, ReceiveCounted
  <2> QED BY <1>5, <2>1, <2>2, <2>3
<1>8. NewsCalm
  <2> SUFFICES ASSUME NEW d \in Client, NEW p \in Proper'
               PROVE  CopiesFor(d, p)' \in Nat /\ CopiesFor(d, p)' <= CopiesFor(d, p)
    BY DEF NewsCalm
  <2>1. p \in DOMAIN pubs BY <1>1 DEF Proper
  <2>2. CASE d = c BY <1>7, <2>1, <2>2
  <2>3. CASE d # c BY <1>1, <1>4, <1>6, <2>1, <2>3, NewsStays DEF NewsStill
  <2> QED BY <2>2, <2>3
<1>9. PubsOK' BY <1>1, <1>4, <1>6, <1>7, PubsStay
<1>10. \A d \in Client : TablesStill(d) BY <1>1 DEF TablesStill
<1>11. ASSUME NEW d \in Client PROVE AskedCalm(d) \/ (CountFor(d)' /\ LinesFor(d)')
  <2>1. d # c => AskedCalm(d) BY <1>6, NewsTypes DEF AskedCalm
  <2> QED BY <1>7, <2>1
<1>12. UNCHANGED workerPart /\ \A b \in Broker : respQ'[b] = respQ[b] BY <1>1 DEF workerPart
<1> QED BY <1>1, <1>2, <1>8, <1>9, <1>10, <1>11, <1>12, NewsCopies

-----------------------------------------------------------------------------
(* A publication goes on its way.                                          *)

\* The message of a publication at a broker was there or at the broker before.
ComesFrom ==
  /\ \A x \in Broker : \A m : AtComing(x, m)' /\ m.type = "PUBLISH" /\ m.pub \notin strayed' =>
       \E k : Alike(k, m) /\ (AtComing(x, k) \/ \E y \in Broker : x = Succ(y) /\ AtGoing(y, k))
  /\ \A x \in Broker : \A m : AtGoing(x, m)' /\ m.type = "PUBLISH" /\ m.pub \notin strayed' =>
       \E k : Alike(k, m) /\ AtGoing(x, k)

\* A message moves, and nothing else happens.
LEMMA MoveCopies ==
  ASSUME Inv, CopiesInv, ComesFrom, FanOutsCalm,
         UNCHANGED <<users, topics, ids, got, asked, down, pubs, strayed>>,
         \A c \in Client : respQ'[c] = respQ[c],
         \A b \in Broker : Leaving(b)' = Leaving(b),
         \A c \in Client : \A t \in Topic : Asks(c, t)' => Asks(c, t)
  PROVE  CopiesInv'
<1>1. SamePubs BY DEF SamePubs
<1>2. NewsCalm BY <1>1, NewsCalmOf DEF CopiesInv, NewsStill
<1>3. \A b \in Broker : \A p \in Proper' : Untouched(b, p) => Untouched(b, p)'
  BY <1>2, UntouchedStays
<1>4. SpreadOK' BY <1>1, <1>3, SpreadMoves DEF CopiesInv, ComesFrom
<1>5. ListsOK' BY ListsStay DEF CopiesInv
<1>6. PubsOK' BY PubsStay DEF CopiesInv
<1>7. ASSUME NEW c \in Client PROVE CountFor(c)' /\ LinesFor(c)'
  <2>1. TablesStill(c) BY StillTables
  <2>2. EntriesCalm(c) /\ AskedCalm(c)
    <3>1. \A t \in Topic : asked[c][t] \in Nat BY NewsTypes
    <3> QED BY <2>1, <3>1 DEF EntriesCalm, AskedCalm, TablesStill
  <2>3. CountFor(c)' BY <1>1, <1>2, <2>2, CountStays DEF CopiesInv
  <2>4. \A t \in Topic : LinesOf(c, t)' \subseteq LinesOf(c, t)
    BY <2>1, LinesOfStay DEF TablesStill
  <2> QED BY <2>2, <2>3, <2>4, LinesStay DEF CopiesInv
<1> QED BY <1>4, <1>5, <1>6, <1>7 DEF CopiesInv

LEMMA RingRespHandlerCopies ==
  ASSUME Inv, CopiesInv, NEW b \in Broker, RingRespHandler(b)
  PROVE  CopiesInv'
<1>1. PICK h : h = Head(respQ[b]) OBVIOUS
<1>2. PICK x \in Broker : x = Succ(b) BY SuccBroker
<1>3. /\ respQ[b] # <<>>
      /\ respQ' = [respQ EXCEPT ![b] = Tail(respQ[b])]
      /\ up' = [up EXCEPT ![x] = Append(up[x], Outgoing(h))]
      /\ UNCHANGED <<users, topics, ids, workerQ, wpc, wmsg, wsubs, wrelayed>>
      /\ UNCHANGED <<got, asked, down, pubs, strayed, workerPart>>
  BY <1>1, <1>2 DEF RingRespHandler, dbVars, workerPart, clientPart
<1>4. /\ up \in [Connection -> Seq(Msg)] /\ respQ \in [Connection -> Seq(Msg)]
      /\ b \in Connection /\ x \in Connection /\ b \notin Client /\ x \notin Client
      /\ \A c \in Client : c \in Connection
  BY Constants DEF Inv, UpOK, RespQOK, Connection
<1>5. h \in Msg /\ h \in Elements(respQ[b]) /\ Elements(respQ[b])' \subseteq Elements(respQ[b])
  <2>1. PICK q, r : q \in Seq(Msg) /\ q = respQ[b] /\ r = respQ'[b] BY <1>4
  <2>2. q # <<>> /\ r = Tail(q) /\ h = Head(q) BY <1>1, <1>3, <1>4, <2>1
  <2>3. /\ Elements(q) = Elements(Tail(q)) \cup {Head(q)} /\ Head(q) \in Elements(q)
        /\ Elements(q) \subseteq Msg
    BY <2>1, <2>2, QueueElements, IdleMsg
  <2>4. Elements(respQ[b])' = Elements(r) /\ Elements(respQ[b]) = Elements(q)
    BY <2>1 DEF Elements
  <2> QED BY <2>2, <2>3, <2>4
<1>6. Outgoing(h) \in Msg /\ Alike(h, Outgoing(h)) BY <1>5, OutgoingMsg DEF Alike
<1>7. ASSUME NEW y \in Connection, NEW m \in Elements(up[y])'
      PROVE  m \in Elements(up[y]) \/ (y = x /\ m = Outgoing(h))
  <2>1. CASE y # x
    <3>1. up'[y] = up[y] BY <1>3, <1>4, <2>1
    <3> QED BY <1>7, <3>1 DEF Elements
  <2>2. CASE y = x
    <3>1. PICK q \in Seq(Msg) : q = up[x] BY <1>4
    <3>2. up'[x] = Append(q, Outgoing(h)) BY <1>3, <1>4, <3>1
    <3>3. Elements(Append(q, Outgoing(h))) = Elements(q) \cup {Outgoing(h)}
      BY <1>6, QueueElements
    <3>4. m \in Elements(Append(q, Outgoing(h))) BY <1>7, <2>2, <3>2 DEF Elements
    <3> QED BY <2>2, <3>1, <3>3, <3>4
  <2> QED BY <2>1, <2>2
<1>8. \A m : Alike(m, m) BY DEF Alike
<1>9. ASSUME NEW z \in Broker, NEW m, AtComing(z, m)'
      PROVE  \E k : Alike(k, m) /\ (AtComing(z, k) \/ \E y \in Broker : z = Succ(y) /\ AtGoing(y, k))
  <2>1. \/ \E y \in Connection : Server(y) = z /\ m \in Elements(up[y])'
        \/ m \in Elements(workerQ[z])'
        \/ wpc'[z] = "publish" /\ m = wmsg'[z]
    BY <1>9 DEF AtComing, Server
  <2>2. CASE \E y \in Connection : Server(y) = z /\ m \in Elements(up[y])'
    <3>1. PICK y \in Connection : Server(y) = z /\ m \in Elements(up[y])' BY <2>2
    <3>2. CASE m \in Elements(up[y])
      <4>1. AtComing(z, m) BY <3>1, <3>2 DEF AtComing
      <4> QED BY <1>8, <4>1
    <3>3. CASE y = x /\ m = Outgoing(h)
      <4>1. z = Succ(b) BY <1>2, <3>1, <3>3 DEF Server
      <4>2. AtGoing(b, h) BY <1>5 DEF AtGoing
      <4> QED BY <1>6, <3>3, <4>1, <4>2
    <3> QED BY <1>7, <3>1, <3>2, <3>3
  <2>3. CASE m \in Elements(workerQ[z])' \/ (wpc'[z] = "publish" /\ m = wmsg'[z])
    <3>1. AtComing(z, m) BY <1>3, <2>3 DEF AtComing, Elements
    <3> QED BY <1>8, <3>1
  <2> QED BY <2>1, <2>2, <2>3
<1>10. ASSUME NEW z \in Broker, NEW m, AtGoing(z, m)'
       PROVE  \E k : Alike(k, m) /\ AtGoing(z, k)
  <2>1. \/ m \in Elements(respQ[z])'
        \/ wpc'[z] = "fan_out" /\ ~wrelayed'[z] /\ m = wmsg'[z]
    BY <1>10 DEF AtGoing
  <2>2. Elements(respQ[z])' \subseteq Elements(respQ[z])
    <3>1. CASE z = b BY <1>5, <3>1
    <3>2. CASE z # b
      <4>1. respQ'[z] = respQ[z] BY <1>3, <1>4, <3>2 DEF Connection
      <4> QED BY <4>1 DEF Elements
    <3> QED BY <3>1, <3>2
  <2>3. AtGoing(z, m) BY <1>3, <2>1, <2>2 DEF AtGoing
  <2> QED BY <1>8, <2>3
<1>11. ComesFrom BY <1>9, <1>10 DEF ComesFrom
<1>12. FanOutsCalm BY <1>3, WorkersStill DEF CopiesInv
<1>13. \A c \in Client : respQ'[c] = respQ[c] BY <1>3, <1>4
<1>14. \A d \in Broker : Leaving(d)' = Leaving(d) BY <1>3 DEF Leaving
<1>15. ASSUME NEW c \in Client PROVE \A t \in Topic : Asks(c, t)' => Asks(c, t)
  <2>1. TablesStill(c) BY <1>3, <1>14, StillTables
  <2>2. \A m : Own(c, m)' <=> Own(c, m) BY <2>1, StillOwn
  <2>3. PICK d \in Broker : d = Home[c] BY Constants
  <2>4. up'[c] = up[c] BY <1>3, <1>4
  <2> QED BY <1>3, <2>2, <2>3, <2>4, AsksStay DEF Elements
<1> QED BY <1>3, <1>11, <1>12, <1>13, <1>14, <1>15, MoveCopies

LEMMA ReqHandlerCopies ==
  ASSUME Inv, IdsInv, CopiesInv, NEW x \in Connection, ReqHandler(x)
  PROVE  CopiesInv'
<1>1. PICK b \in Broker : b = Server(x) BY Constants DEF Server, Connection
<1>2. PICK h : h = Head(up[x]) OBVIOUS
<1>3. PICK k : k = IF h.type = "CREATE" THEN [h EXCEPT !.mtype = x] ELSE h OBVIOUS
<1>4. /\ up[x] # <<>>
      /\ up' = [up EXCEPT ![x] = Tail(up[x])]
      /\ workerQ' = [workerQ EXCEPT ![b] = Append(workerQ[b], k)]
      /\ UNCHANGED <<users, topics, ids, respQ, wpc, wmsg, wsubs, wrelayed>>
      /\ UNCHANGED <<got, asked, down, pubs, strayed, workerPart>>
  BY <1>1, <1>2, <1>3 DEF ReqHandler, dbVars, workerPart, clientPart
<1>5. /\ up \in [Connection -> Seq(Msg)] /\ workerQ \in [Broker -> Seq(Msg)]
      /\ \A c \in Client : c \in Connection
  BY DEF Inv, UpOK, WorkQOK, Connection
<1>6. h \in Msg /\ h \in Elements(up[x]) /\ Elements(up[x])' \subseteq Elements(up[x])
  <2>1. PICK q, r : q \in Seq(Msg) /\ q = up[x] /\ r = up'[x] BY <1>5
  <2>2. q # <<>> /\ r = Tail(q) /\ h = Head(q) BY <1>2, <1>4, <1>5, <2>1
  <2>3. /\ Elements(q) = Elements(Tail(q)) \cup {Head(q)} /\ Head(q) \in Elements(q)
        /\ Elements(q) \subseteq Msg
    BY <2>1, <2>2, QueueElements, IdleMsg
  <2>4. Elements(up[x])' = Elements(r) /\ Elements(up[x]) = Elements(q) BY <2>1 DEF Elements
  <2> QED BY <2>2, <2>3, <2>4
<1>7. k \in Msg /\ k.type = h.type /\ (k.type # "CREATE" => k = h)
  BY <1>3, <1>6 DEF Msg, Connection, Broker
<1>8. \A y \in Connection : Elements(up[y])' \subseteq Elements(up[y])
  <2> SUFFICES ASSUME NEW y \in Connection, y # x
               PROVE  Elements(up[y])' \subseteq Elements(up[y])
    BY <1>6
  <2>1. up'[y] = up[y] BY <1>4, <1>5
  <2> QED BY <2>1 DEF Elements
<1>9. ASSUME NEW z \in Broker, NEW m \in Elements(workerQ[z])'
      PROVE  m \in Elements(workerQ[z]) \/ (z = b /\ m = k)
  <2>1. CASE z # b
    <3>1. workerQ'[z] = workerQ[z] BY <1>4, <1>5, <2>1
    <3> QED BY <1>9, <3>1 DEF Elements
  <2>2. CASE z = b
    <3>1. PICK q \in Seq(Msg) : q = workerQ[b] BY <1>5
    <3>2. workerQ'[b] = Append(q, k) BY <1>4, <1>5, <3>1
    <3>3. Elements(Append(q, k)) = Elements(q) \cup {k} BY <1>7, QueueElements
    <3>4. m \in Elements(Append(q, k)) BY <1>9, <2>2, <3>2 DEF Elements
    <3> QED BY <2>2, <3>1, <3>3, <3>4
  <2> QED BY <2>1, <2>2
<1>10. ASSUME NEW z \in Broker, NEW m, AtComing(z, m)', m.type = "PUBLISH"
       PROVE  AtComing(z, m)
  <2>1. \/ \E y \in Connection : Server(y) = z /\ m \in Elements(up[y])'
        \/ m \in Elements(workerQ[z])'
        \/ wpc'[z] = "publish" /\ m = wmsg'[z]
    BY <1>10 DEF AtComing, Server
  <2>2. CASE z = b /\ m = k
    <3>1. m \in Elements(up[x]) /\ Server(x) = z BY <1>1, <1>6, <1>7, <1>10, <2>2
    <3> QED BY <3>1 DEF AtComing
  <2> QED BY <1>4, <1>8, <1>9, <2>1, <2>2 DEF AtComing
<1>11. ASSUME NEW z \in Broker, NEW m, AtGoing(z, m)' PROVE AtGoing(z, m)
  BY <1>4, <1>11 DEF AtGoing, Elements
<1>12. ComesFrom
  <2>1. \A m : Alike(m, m) BY DEF Alike
  <2> QED BY <1>10, <1>11, <2>1 DEF ComesFrom
<1>13. FanOutsCalm BY <1>4, WorkersStill DEF CopiesInv
<1>14. \A d \in Broker : Leaving(d)' = Leaving(d) BY <1>4 DEF Leaving
<1>15. ASSUME NEW c \in Client, NEW t \in Topic, NEW m, Asked(c, t, m)' PROVE Asked(c, t, m)
  <2>1. PICK d \in Broker : d = Home[c] BY Constants
  <2>2. TablesStill(c) BY <1>4, <1>14, StillTables
  <2>3. Own(c, m)' <=> Own(c, m) BY <2>2, StillOwn
  <2>4. ForTopic(m, t) BY <1>15 DEF Asked, ForTopic
  <2>5. \/ m \in Elements(up[c])'
        \/ m \in Elements(workerQ[d])' /\ Own(c, m)'
        \/ wpc'[d] = "subscribe" /\ Own(c, m)' /\ m = wmsg'[d]
    BY <1>15, <2>1 DEF Asked
  <2>6. CASE d = b /\ m = k /\ Own(c, m)
    <3>1. m \in Elements(up[x]) /\ m.type = "SUBSCRIBE" BY <1>6, <1>7, <2>4, <2>6 DEF ForTopic
    <3>2. x \in Client
      <4>1. ASSUME x \in Broker PROVE FALSE
        <5>1. up[x] \in Seq(Arriving) BY <4>1 DEF Inv, UpOK
        <5>2. m \in Arriving BY <3>1, <5>1, ElementOfSeq, LenProperties DEF Elements
        <5> QED BY <3>1, <5>2 DEF Arriving, OnRing
      <4> QED BY <4>1 DEF Connection
    <3>3. Home[x] = b BY <1>1, <3>2, Constants DEF Server
    <3>4. Pending(x, m) BY <3>1, <3>2 DEF IdsInv, ServedOK, ClientOK, SentOK
    <3>5. Own(x, m) BY <3>1, <3>4 DEF Pending, Own, Live, Owner
    <3>6. c = x BY <2>1, <2>6, <3>2, <3>3, <3>5, OwnUnique DEF IdsInv, IdsOK
    <3> QED BY <2>4, <3>1, <3>6 DEF Asked
  <2>7. CASE \/ m \in Elements(up[c])
             \/ m \in Elements(workerQ[d]) /\ Own(c, m)
             \/ wpc[d] = "subscribe" /\ Own(c, m) /\ m = wmsg[d]
    BY <2>1, <2>4, <2>7 DEF Asked
  <2> QED BY <1>4, <1>5, <1>8, <1>9, <2>3, <2>5, <2>6, <2>7
<1>16. \A c \in Client : \A t \in Topic : Asks(c, t)' => Asks(c, t) BY <1>15, AsksIs
<1> QED BY <1>4, <1>12, <1>13, <1>14, <1>16, MoveCopies

LEMMA WorkerReceiveCopies ==
  ASSUME Inv, CopiesInv, NEW b \in Broker, WorkerReceive(b)
  PROVE  CopiesInv'
<1>1. PICK h : h = Head(workerQ[b]) OBVIOUS
<1>2. /\ wpc[b] = "idle" /\ workerQ[b] # <<>>
      /\ wmsg' = [wmsg EXCEPT ![b] = h]
      /\ wpc' = [wpc EXCEPT ![b] = FirstStep[h.type]]
      /\ workerQ' = [workerQ EXCEPT ![b] = Tail(workerQ[b])]
      /\ UNCHANGED <<users, topics, ids, respQ, up, wsubs, wrelayed>>
      /\ UNCHANGED <<got, asked, down, pubs, strayed>>
  BY <1>1 DEF WorkerReceive, dbVars, clientPart
<1>3. /\ workerQ \in [Broker -> Seq(Msg)] /\ wpc \in [Broker -> Steps] /\ wmsg \in [Broker -> Msg]
      /\ workerQ[b] \in Seq(ForWorker(b))
  BY DEF Inv, WorkQOK, WorkersOK
<1>4. h \in Msg /\ h \in Elements(workerQ[b]) /\ Elements(workerQ[b])' \subseteq Elements(workerQ[b])
  <2>1. PICK q, r : q \in Seq(Msg) /\ q = workerQ[b] /\ r = workerQ'[b] BY <1>3
  <2>2. q # <<>> /\ r = Tail(q) /\ h = Head(q) BY <1>1, <1>2, <1>3, <2>1
  <2>3. /\ Elements(q) = Elements(Tail(q)) \cup {Head(q)} /\ Head(q) \in Elements(q)
        /\ Elements(q) \subseteq Msg
    BY <2>1, <2>2, QueueElements, IdleMsg
  <2>4. Elements(workerQ[b])' = Elements(r) /\ Elements(workerQ[b]) = Elements(q)
    BY <2>1 DEF Elements
  <2> QED BY <2>2, <2>3, <2>4
<1>5. h.type \in Request
  <2>1. h \in ForWorker(b) BY <1>3, <1>4, ElementOfSeq, LenProperties DEF Elements
  <2> QED BY <2>1 DEF ForWorker, Arriving, OnRing, Identified, Labelled, Request
<1>6. /\ wpc'[b] = FirstStep[h.type] /\ wmsg'[b] = h
      /\ FirstStep[h.type] \in {"add_user", "subscribe", "publish", "delete"}
  BY <1>2, <1>3, <1>5 DEF FirstStep, Request
<1>7. \A d \in Broker \ {b} : wpc'[d] = wpc[d] /\ wmsg'[d] = wmsg[d] /\ workerQ'[d] = workerQ[d]
  BY <1>2, <1>3
<1>8. \A d \in Broker : Elements(workerQ[d])' \subseteq Elements(workerQ[d])
  BY <1>4, <1>7 DEF Elements
<1>9. ASSUME NEW z \in Broker, NEW m, AtComing(z, m)' PROVE AtComing(z, m)
  <2>1. \/ \E y \in Connection : Server(y) = z /\ m \in Elements(up[y])'
        \/ m \in Elements(workerQ[z])'
        \/ wpc'[z] = "publish" /\ m = wmsg'[z]
    BY <1>9 DEF AtComing, Server
  <2>2. \A y : Elements(up[y])' = Elements(up[y]) BY <1>2 DEF Elements
  <2>3. wpc'[z] = "publish" /\ m = wmsg'[z] =>
          (wpc[z] = "publish" /\ m = wmsg[z]) \/ m \in Elements(workerQ[z])
    BY <1>4, <1>6, <1>7
  <2> QED BY <1>8, <2>1, <2>2, <2>3 DEF AtComing
<1>10. ASSUME NEW z \in Broker, NEW m, AtGoing(z, m)' PROVE AtGoing(z, m)
  BY <1>2, <1>6, <1>7, <1>10 DEF AtGoing, Elements
<1>11. ComesFrom
  <2>1. \A m : Alike(m, m) BY DEF Alike
  <2> QED BY <1>9, <1>10, <2>1 DEF ComesFrom
<1>12. FanOutsCalm
  <2>1. ~wrelayed[b] BY <1>2 DEF CopiesInv, ListsOK
  <2>2. \A d \in Broker : wrelayed[d] => wpc[d] = "fan_out" BY DEF CopiesInv, ListsOK
  <2> QED BY <1>2, <1>6, <1>7, <2>1, <2>2 DEF FanOutsCalm
<1>13. \A d \in Broker : Leaving(d)' = Leaving(d) BY <1>2, <1>6, <1>7 DEF Leaving
<1>14. ASSUME NEW c \in Client, NEW t \in Topic, NEW m, Asked(c, t, m)' PROVE Asked(c, t, m)
  <2>1. PICK d \in Broker : d = Home[c] BY Constants
  <2>2. TablesStill(c) BY <1>2, <1>13, StillTables
  <2>3. Own(c, m)' <=> Own(c, m) BY <2>2, StillOwn
  <2>4. ForTopic(m, t) BY <1>14 DEF Asked, ForTopic
  <2>5. \/ m \in Elements(up[c])'
        \/ m \in Elements(workerQ[d])' /\ Own(c, m)'
        \/ wpc'[d] = "subscribe" /\ Own(c, m)' /\ m = wmsg'[d]
    BY <1>14, <2>1 DEF Asked
  <2>6. Elements(up[c])' = Elements(up[c]) BY <1>2 DEF Elements
  <2>7. wpc'[d] = "subscribe" /\ m = wmsg'[d] =>
          (wpc[d] = "subscribe" /\ m = wmsg[d]) \/ m \in Elements(workerQ[d])
    BY <1>4, <1>6, <1>7
  <2> QED BY <1>8, <2>1, <2>3, <2>4, <2>5, <2>6, <2>7 DEF Asked
<1>15. \A c \in Client : \A t \in Topic : Asks(c, t)' => Asks(c, t) BY <1>14, AsksIs
<1> QED BY <1>2, <1>11, <1>12, <1>13, <1>15, MoveCopies

LEMMA SendToRingCopies ==
  ASSUME Inv, CopiesInv, NEW b \in Broker, SendToRing(b)
  PROVE  CopiesInv'
<1>1. /\ wpc[b] = "fan_out" /\ wrelayed' = [wrelayed EXCEPT ![b] = TRUE]
      /\ UNCHANGED <<users, topics, ids, got, asked, down, pubs, strayed, up, workerQ, wpc>>
  BY DEF SendToRing, WorkerFrame, dbVars, clientPart
<1>2. GetMtype(ids[b], NEXT_SERVER_GLOBAL_ID) = b /\ b # NO_MTYPE_FOUND_CODE
  BY <1>1, FanOutMsg, NextServerKnown, Constants DEF Inv, NO_MTYPE_FOUND_CODE
<1>3. PICK l \in wsubs[b] :
        /\ IF wrelayed[b] THEN UNCHANGED respQ ELSE QueueResp(b, Addressed(b, l, b))
        /\ wsubs' = [wsubs EXCEPT ![b] = @ \ {l}]
        /\ wmsg' = [wmsg EXCEPT ![b].type = @]
  BY <1>2 DEF SendToRing, AlreadyRelayed
<1>4. wmsg' = wmsg
  <2>1. wmsg' = [wmsg EXCEPT ![b] = [wmsg[b] EXCEPT !.type = @]] BY <1>3
  <2>2. [wmsg[b] EXCEPT !.type = @] = wmsg[b] BY FanOutMsg, <1>1 DEF Msg
  <2> QED BY <2>1, <2>2 DEF Inv, WorkersOK
<1>5. /\ wrelayed'[b] = TRUE /\ \A d \in Broker : d # b => wrelayed'[d] = wrelayed[d]
      /\ \A d \in Broker : wsubs'[d] \subseteq wsubs[d]
  BY <1>1, <1>3 DEF Inv, WorkersOK
<1>6. /\ b \in Connection /\ b \notin Client /\ respQ \in [Connection -> Seq(Msg)]
      /\ \A x : x \in Client \cup Broker => x \in Connection
  BY Constants DEF Connection, Inv, RespQOK
<1>7. PICK m \in Msg : m = Addressed(b, l, b) BY <1>1, <1>6, AddressedCopy
<1>8. Alike(wmsg[b], m)
  <2>1. wmsg[b] \in [mtype : Int \cup Client, global_id : Nat, type : Request \cup Ack,
                     topic : Topic \cup {NoTopic}, pub : Nat, broker_id : {0} \cup Broker]
    BY DEF Inv, WorkersOK, Msg
  <2> QED BY <1>7, <2>1 DEF Addressed, Alike
<1>9. \A x \in Connection : x # b => respQ'[x] = respQ[x] BY <1>3, <1>6 DEF QueueResp
<1>10. ASSUME NEW n \in Elements(respQ[b])' PROVE n \in Elements(respQ[b]) \/ (~wrelayed[b] /\ n = m)
  <2>1. CASE wrelayed[b] BY <1>3, <1>10, <2>1 DEF Elements
  <2>2. CASE ~wrelayed[b]
    <3>1. PICK q \in Seq(Msg) : q = respQ[b] BY <1>6
    <3>2. respQ'[b] = Append(q, m) BY <1>3, <1>6, <1>7, <2>2, <3>1 DEF QueueResp
    <3>3. Elements(Append(q, m)) = Elements(q) \cup {m} BY QueueElements
    <3>4. n \in Elements(Append(q, m)) BY <1>10, <3>2 DEF Elements
    <3> QED BY <2>2, <3>1, <3>3, <3>4
  <2> QED BY <2>1, <2>2
<1>11. \A n : Alike(n, n) BY DEF Alike
<1>12. ASSUME NEW z \in Broker, NEW n, AtGoing(z, n)'
       PROVE  \E k : Alike(k, n) /\ AtGoing(z, k)
  <2>1. n \in Elements(respQ[z])' \/ (wpc[z] = "fan_out" /\ ~wrelayed'[z] /\ n = wmsg[z])
    BY <1>1, <1>4, <1>12 DEF AtGoing
  <2>2. CASE z # b
    <3>1. respQ'[z] = respQ[z] /\ wrelayed'[z] = wrelayed[z] BY <1>5, <1>6, <1>9, <2>2
    <3>2. AtGoing(z, n) BY <2>1, <3>1 DEF AtGoing, Elements
    <3> QED BY <1>11, <3>2
  <2>3. CASE z = b /\ n \in Elements(respQ[b])
    <3>1. AtGoing(z, n) BY <2>3 DEF AtGoing
    <3> QED BY <1>11, <3>1
  <2>4. CASE z = b /\ ~wrelayed[b] /\ n = m
    <3>1. AtGoing(z, wmsg[b]) BY <1>1, <2>4 DEF AtGoing
    <3> QED BY <1>8, <2>4, <3>1
  <2> QED BY <1>5, <1>10, <2>1, <2>2, <2>3, <2>4
<1>13. ASSUME NEW z \in Broker, NEW n, AtComing(z, n)' PROVE AtComing(z, n)
  BY <1>1, <1>4, <1>13 DEF AtComing, Elements, Server
<1>14. ComesFrom BY <1>11, <1>12, <1>13 DEF ComesFrom
<1>15. FanOutsCalm BY <1>1, <1>4, <1>5 DEF FanOutsCalm, CopiesInv, ListsOK
<1>16. \A d \in Broker : Leaving(d)' = Leaving(d) BY <1>1, <1>4 DEF Leaving
<1>17. \A c \in Client : respQ'[c] = respQ[c] BY <1>6, <1>9
<1>18. ASSUME NEW c \in Client PROVE \A t \in Topic : Asks(c, t)' => Asks(c, t)
  <2>1. TablesStill(c) BY <1>1, <1>16, StillTables
  <2>2. \A n : Own(c, n)' <=> Own(c, n) BY <2>1, StillOwn
  <2>3. PICK d \in Broker : d = Home[c] BY Constants
  <2> QED BY <1>1, <1>4, <2>2, <2>3, AsksStay DEF Elements
<1> QED BY <1>1, <1>14, <1>15, <1>16, <1>17, <1>18, MoveCopies

\* The turn of the loop for a subscriber of the same broker.
LEMMA SendToLocalCopies ==
  ASSUME Inv, IdsInv, CopiesInv, ListsProper, NEW b \in Broker, SendToLocal(b)
  PROVE  CopiesInv'
<1>1. PICK l \in wsubs[b] :
        /\ GetMtype(ids[b], l.id) # NO_MTYPE_FOUND_CODE
        /\ QueueResp(GetMtype(ids[b], l.id), Addressed(b, l, GetMtype(ids[b], l.id)))
        /\ wsubs' = [wsubs EXCEPT ![b] = @ \ {l}]
  BY DEF SendToLocal
<1>2. /\ wpc[b] = "fan_out"
      /\ UNCHANGED <<users, topics, ids, wpc, wmsg, wrelayed, strayed,
                     up, workerQ, down, got, asked, pubs>>
  BY DEF SendToLocal, WorkerFrame, clientPart, dbVars
<1>3. PICK pid : pid = GetMtype(ids[b], l.id) OBVIOUS
<1>4. /\ l.id = NEXT_SERVER_GLOBAL_ID => pid = b
      /\ l.id # NEXT_SERVER_GLOBAL_ID => pid \in Client /\ Home[pid] = b
  BY <1>1, <1>3, HeaderKnown DEF Inv, ClientOf
<1>5. pid \in Connection BY <1>4 DEF Connection
<1>6. PICK m : m = Addressed(b, l, pid) OBVIOUS
<1>7. /\ m \in Msg /\ wmsg[b].type = "PUBLISH" /\ m.type = "PUBLISH" /\ m.pub = wmsg[b].pub
      /\ m.pub \in DOMAIN pubs
  <2>1. m \in Msg BY <1>2, <1>5, <1>6, AddressedCopy
  <2>2. /\ wmsg[b].type = "PUBLISH" \/ wsubs[b] = {}
        /\ wmsg[b].pub \in DOMAIN pubs /\ wmsg[b] \in Msg
    BY <1>2 DEF Inv, WorkersOK, WorkerOK, PublishedAt
  <2>3. m.type = wmsg[b].type /\ m.pub = wmsg[b].pub
    BY <1>6, <2>2 DEF Addressed, Msg
  <2> QED BY <2>1, <2>2, <2>3
<1>8. respQ' = [respQ EXCEPT ![pid] = Append(respQ[pid], m)] BY <1>1, <1>3, <1>6 DEF QueueResp
<1>9. /\ respQ \in [Connection -> Seq(Msg)] /\ wsubs \in [Broker -> SUBSET Line]
      /\ \A x : x \in Client \cup Broker => x \in Connection
  BY DEF Inv, RespQOK, Connection, WorkersOK
<1>10. \A x \in Connection : x # pid => respQ'[x] = respQ[x] BY <1>8, <1>9
<1>11. FanOutsCalm
  <2>1. \A d \in Broker : wsubs'[d] \subseteq wsubs[d] BY <1>1, <1>9
  <2> QED BY <1>2, <2>1 DEF FanOutsCalm, CopiesInv, ListsOK
<1>12. \A d \in Broker : Leaving(d)' = Leaving(d) BY <1>2 DEF Leaving
<1>13. ASSUME NEW c \in Client
       PROVE  TablesStill(c) /\ EntriesCalm(c) /\ AskedCalm(c)
              /\ \A t \in Topic : Asks(c, t)' => Asks(c, t)
  <2>1. TablesStill(c) BY <1>2, <1>12, StillTables
  <2>2. \A n : Own(c, n)' <=> Own(c, n) BY <2>1, StillOwn
  <2>3. PICK d \in Broker : d = Home[c] BY Constants
  <2>4. \A t \in Topic : Asks(c, t)' => Asks(c, t)
    BY <1>2, <2>2, <2>3, AsksStay DEF Elements
  <2>5. \A t \in Topic : asked[c][t] \in Nat BY NewsTypes
  <2> QED BY <1>2, <2>1, <2>4, <2>5 DEF EntriesCalm, AskedCalm, TablesStill
<1>14. ASSUME NEW z \in Broker, NEW n, AtComing(z, n)' PROVE AtComing(z, n)
  BY <1>2, <1>14 DEF AtComing, Elements, Server
<1>15. ASSUME NEW z \in Broker, NEW n, AtGoing(z, n)', n.pub \notin strayed'
       PROVE  AtGoing(z, n)
  <2>1. n \in Elements(respQ[z])' \/ (wpc[z] = "fan_out" /\ ~wrelayed[z] /\ n = wmsg[z])
    BY <1>2, <1>15 DEF AtGoing
  <2>2. CASE z # pid
    <3>1. respQ'[z] = respQ[z] BY <1>9, <1>10, <2>2
    <3> QED BY <2>1, <3>1 DEF AtGoing, Elements
  <2>3. CASE z = pid
    <3>1. m.pub \in strayed
      BY <1>2, <1>4, <1>7, <2>3, Constants DEF ListsProper
    <3>2. PICK q \in Seq(Msg) : q = respQ[z] BY <1>9
    <3>3. respQ'[z] = Append(q, m) BY <1>8, <1>9, <2>3, <3>2
    <3>4. Elements(Append(q, m)) = Elements(q) \cup {m} BY <1>7, QueueElements
    <3>5. n \in Elements(respQ[z])' => n \in Elements(Append(q, m)) BY <3>3 DEF Elements
    <3> QED BY <1>2, <1>15, <2>1, <3>1, <3>2, <3>4, <3>5 DEF AtGoing
  <2> QED BY <2>2, <2>3
<1>16. ComesFrom
  <2>1. \A n : Alike(n, n) BY DEF Alike
  <2> QED BY <1>14, <1>15, <2>1 DEF ComesFrom
<1>17. CASE l.id = NEXT_SERVER_GLOBAL_ID
  <2>1. \A c \in Client : respQ'[c] = respQ[c] BY <1>4, <1>9, <1>10, <1>17, Constants
  <2> QED BY <1>2, <1>11, <1>12, <1>13, <1>16, <2>1, MoveCopies
<1>18. CASE l.id # NEXT_SERVER_GLOBAL_ID
  <2>1. PICK c \in Client : c = pid /\ Home[c] = b BY <1>4, <1>18
  <2>2. Entered(c, l.id) BY <1>1, <1>3, <2>1, MtypeOfOwner DEF Inv, IdsInv, IdsOK
  <2>3. /\ respQ'[c] = Append(respQ[c], m) /\ got'[c] = got[c] /\ down'[c] = down[c]
        /\ \A d \in Client : d # c => respQ'[d] = respQ[d]
    BY <1>2, <1>8, <1>9, <1>10, <2>1
  <2>4. SamePubs BY <1>2 DEF SamePubs
  <2>5. \A p \in Proper' : p \in Proper /\ p \in DOMAIN pubs /\ pubs'[p].topic = pubs[p].topic
    BY <1>2 DEF Proper
  <2>6. ASSUME NEW d \in Client, d # c, NEW p \in DOMAIN pubs
        PROVE  CopiesFor(d, p)' \in Nat /\ CopiesFor(d, p)' <= CopiesFor(d, p)
    <3>1. NewsStill(d) BY <1>2, <2>3, <2>6 DEF NewsStill
    <3> QED BY <3>1, <2>6, NewsStays DEF CopiesInv
  <2>7. ASSUME NEW p \in DOMAIN pubs
        PROVE  /\ CopiesFor(c, p)' = CopiesFor(c, p) + Bit(IsCopy(m, p))
               /\ CopiesFor(c, p) \in Nat /\ CopiesFor(c, p)' \in Nat
    BY <1>7, <2>3, <2>7, NewsQueued DEF CopiesInv
  <2>8. \A p : IsCopy(m, p) <=> IsCopy(wmsg[b], p) BY <1>7 DEF IsCopy
  <2>9. ASSUME NEW d \in Broker, NEW p \in Proper', Untouched(d, p) PROVE Untouched(d, p)'
    <3>1. ~(wpc'[d] = "fan_out" /\ IsCopy(wmsg'[d], p)) BY <1>2, <2>9 DEF Untouched
    <3>2. ASSUME NEW e \in Client, Home[e] = d PROVE CopiesFor(e, p)' = 0
      <4>1. PICK i, j : i = CopiesFor(e, p) /\ j = CopiesFor(e, p)' OBVIOUS
      <4>2. i = 0 BY <2>9, <3>2, <4>1 DEF Untouched
      <4>3. j \in Nat /\ j <= i
        <5>1. CASE e # c BY <2>5, <2>6, <4>1, <5>1
        <5>2. CASE e = c
          <6>1. ~IsCopy(m, p) BY <1>2, <2>1, <2>8, <2>9, <3>2, <5>2 DEF Untouched
          <6>2. Bit(IsCopy(m, p)) = 0 BY <6>1 DEF Bit
          <6> QED BY <2>5, <2>7, <4>1, <5>2, <6>2
        <5> QED BY <5>1, <5>2
      <4> QED BY <4>1, <4>2, <4>3
    <3> QED BY <3>1, <3>2 DEF Untouched, IsCopy
  <2>10. SpreadOK' BY <1>16, <2>4, <2>9, SpreadMoves DEF CopiesInv, ComesFrom
  <2>11. ListsOK' BY <1>2, <1>11, ListsStay DEF CopiesInv
  <2>12. PubsOK' BY <1>2, PubsStay DEF CopiesInv
  <2>13. ASSUME NEW d \in Client, NEW p \in Proper'
         PROVE  /\ Cardinality(ToCome(d, p)') \in Nat
                /\ Cardinality(ToCome(d, p)') <= Cardinality(ToCome(d, p))
    BY <1>11, <1>13, <2>5, ToComeShrinks DEF CopiesInv
  <2>14. ASSUME NEW p \in Proper', IsCopy(wmsg[b], p)
         PROVE  CopiesFor(c, p)' + Cardinality(ToCome(c, p)') <= asked'[c][pubs'[p].topic]
    <3>1. PICK S, T : S = ToCome(c, p) /\ T = ToCome(c, p)' OBVIOUS
    <3>2. l \in S BY <1>2, <2>1, <2>2, <2>14, <3>1 DEF ToCome
    <3>3. T = S \ {l}
      <4>1. /\ S = {k \in wsubs[b] : wpc[b] = "fan_out" /\ IsCopy(wmsg[b], p) /\ Entered(c, k.id)}
            /\ T = {k \in wsubs'[b] : wpc'[b] = "fan_out" /\ IsCopy(wmsg'[b], p) /\ Entered(c, k.id)'}
        BY <2>1, <3>1 DEF ToCome, IsCopy, Entered
      <4>2. wsubs'[b] = wsubs[b] \ {l} BY <1>1, <1>9
      <4>3. \A id : Entered(c, id)' <=> Entered(c, id) BY <1>13 DEF TablesStill
      <4>4. \A k : k \in T <=> k \in wsubs[b] /\ k # l /\ Entered(c, k.id)
        <5> SUFFICES ASSUME NEW k PROVE k \in T <=> k \in wsubs[b] /\ k # l /\ Entered(c, k.id)
          OBVIOUS
        <5>1. PICK id : id = k.id OBVIOUS
        <5>2. Entered(c, id)' <=> Entered(c, id) BY <4>3
        <5> QED BY <1>2, <2>14, <4>1, <4>2, <5>1, <5>2
      <4> QED BY <1>2, <2>14, <4>1, <4>4
    <3>4. IsFiniteSet(S) /\ Cardinality(S) \in Nat BY <2>5, <3>1, ToComeFinite DEF CopiesInv
    <3>5. Cardinality(T) = Cardinality(S) - 1 BY <3>2, <3>3, <3>4, FS_RemoveElement
    <3>6. PICK i, j : i = CopiesFor(c, p) /\ j = CopiesFor(c, p)' OBVIOUS
    <3>7. Bit(IsCopy(m, p)) = 1 BY <2>8, <2>14 DEF Bit
    <3>8. i \in Nat /\ j = i + 1 BY <2>5, <2>7, <3>6, <3>7
    <3>9. i + Cardinality(S) <= asked[c][pubs[p].topic]
      BY <2>5, <3>1, <3>6 DEF CopiesInv, CountFor
    <3>10. j + Cardinality(T) = i + Cardinality(S) BY <3>4, <3>5, <3>8
    <3> QED BY <1>2, <3>1, <3>6, <3>9, <3>10
  <2>15. ASSUME NEW d \in Client, NEW p \in Proper', d = c => ~IsCopy(wmsg[b], p)
         PROVE  CopiesFor(d, p)' + Cardinality(ToCome(d, p)') <= asked'[d][pubs'[p].topic]
    <3>1. CopiesFor(d, p)' \in Nat /\ CopiesFor(d, p)' <= CopiesFor(d, p)
      <4>1. CASE d # c BY <2>5, <2>6, <4>1
      <4>2. CASE d = c
        <5>1. Bit(IsCopy(m, p)) = 0 BY <2>8, <2>15, <4>2 DEF Bit
        <5> QED BY <2>5, <2>7, <4>2, <5>1
      <4> QED BY <4>1, <4>2
    <3> QED BY <1>13, <2>5, <2>13, <3>1, CountOf DEF CopiesInv
  <2>16. \A d \in Client : CountFor(d)' BY <2>14, <2>15 DEF CountFor
  <2>17. ASSUME NEW d \in Client PROVE LinesFor(d)'
    <3>1. \A t \in Topic : LinesOf(d, t)' \subseteq LinesOf(d, t)
      BY <1>2, <1>13, LinesOfStay DEF TablesStill
    <3> QED BY <1>13, <3>1, LinesStay DEF CopiesInv
  <2> QED BY <2>10, <2>11, <2>12, <2>16, <2>17 DEF CopiesInv
<1> QED BY <1>17, <1>18

-----------------------------------------------------------------------------
(* A worker gets the list of subscribers.                                  *)

\* Who is yet to see the publication once it has been stamped was so before.
LEMMA StampedBeyond ==
  ASSUME Inv, NEW b \in Broker, wpc[b] = "publish", wmsg[b].broker_id # b
  PROVE  /\ Stamped(b).type = "PUBLISH" /\ Stamped(b).pub = wmsg[b].pub
         /\ Stamped(b).topic = wmsg[b].topic /\ wmsg[b].type = "PUBLISH"
         /\ wmsg[b].topic \in Topic
         /\ FromHere(b, wmsg[b], b)
         /\ \A d \in Broker : Beyond(b, Stamped(b), d) => d # b /\ FromHere(b, wmsg[b], d)
<1>1. /\ wmsg[b].type = "PUBLISH" /\ wmsg[b] \in Msg /\ wmsg[b].topic \in Topic
  BY DEF Inv, WorkersOK, WorkerOK, Identified, Arriving, OnRing
<1>2. wmsg[b] \in [mtype : Int \cup Client, global_id : Nat, type : Request \cup Ack,
                   topic : Topic \cup {NoTopic}, pub : Nat, broker_id : {0} \cup Broker]
  BY <1>1 DEF Msg
<1>3. /\ Stamped(b).type = wmsg[b].type /\ Stamped(b).pub = wmsg[b].pub
      /\ Stamped(b).topic = wmsg[b].topic
      /\ Stamped(b).broker_id = IF wmsg[b].broker_id = 0 THEN b ELSE wmsg[b].broker_id
  BY <1>2 DEF Stamped, Resolved
<1>4. PICK o \in Broker : o = IF wmsg[b].broker_id = 0 THEN b ELSE wmsg[b].broker_id BY <1>2
<1>5. \A d \in Broker : Dist(o, d) \in Int BY Constants DEF Dist
<1>6. \A d \in Broker : FromHere(b, wmsg[b], d) <=> Dist(o, d) >= Dist(o, b)
  BY <1>4 DEF FromHere
<1>7. \A d \in Broker : Beyond(b, Stamped(b), d) <=> Dist(o, d) > Dist(o, b)
  BY <1>3, <1>4 DEF Beyond
<1>8. \A d \in Broker : Dist(o, d) > Dist(o, b) => d # b /\ Dist(o, d) >= Dist(o, b) BY <1>5
<1> QED BY <1>1, <1>3, <1>5, <1>6, <1>7, <1>8

\* While a worker has a publication, no other place of the ring has it.
LEMMA NowhereElse ==
  ASSUME OneCarrier, NEW p \in Proper, NEW b \in Broker, wpc[b] = "publish", ~wrelayed[b],
         IsCopy(wmsg[b], p)
  PROVE  /\ \A y \in Connection : \A m \in Elements(up[y]) : ~IsCopy(m, p)
         /\ \A d \in Broker : \A m \in Elements(workerQ[d]) : ~IsCopy(m, p)
         /\ \A d \in Broker : \A m \in Elements(respQ[d]) : ~IsCopy(m, p)
         /\ \A d \in Broker : d # b /\ wpc[d] \in {"publish", "fan_out"} /\ ~wrelayed[d]
                                => ~IsCopy(wmsg[d], p)
<1>1. AtPlace(p, <<"worker", b, 0>>) BY DEF AtPlace
<1>2. \A e : AtPlace(p, e) => e = <<"worker", b, 0>> BY <1>1, CarriersAre DEF OneCarrier
<1>3. ASSUME NEW y \in Connection, NEW i \in DOMAIN up[y] PROVE ~IsCopy(up[y][i], p)
  <2>1. IsCopy(up[y][i], p) => AtPlace(p, <<"up", y, i>>) BY DEF AtPlace
  <2> QED BY <1>2, <2>1
<1>4. ASSUME NEW d \in Broker, NEW i \in DOMAIN workerQ[d] PROVE ~IsCopy(workerQ[d][i], p)
  <2>1. IsCopy(workerQ[d][i], p) => AtPlace(p, <<"work", d, i>>) BY DEF AtPlace
  <2> QED BY <1>2, <2>1
<1>5. ASSUME NEW d \in Broker, NEW i \in DOMAIN respQ[d] PROVE ~IsCopy(respQ[d][i], p)
  <2>1. IsCopy(respQ[d][i], p) => AtPlace(p, <<"resp", d, i>>) BY DEF AtPlace
  <2> QED BY <1>2, <2>1
<1>6. ASSUME NEW d \in Broker, d # b, wpc[d] \in {"publish", "fan_out"}, ~wrelayed[d]
      PROVE  ~IsCopy(wmsg[d], p)
  <2>1. IsCopy(wmsg[d], p) => AtPlace(p, <<"worker", d, 0>>) BY <1>6 DEF AtPlace
  <2> QED BY <1>2, <1>6, <2>1
<1> QED BY <1>3, <1>4, <1>5, <1>6 DEF Elements

LEMMA FetchSubsCopies ==
  ASSUME Inv, IdsInv, CopiesInv, OneCarrier, NEW b \in Broker, FetchSubs(b)
  PROVE  CopiesInv'
<1>1. PICK k, s : k = wmsg[b] /\ s = Stamped(b) OBVIOUS
<1>2. PICK lines \in DbGetSubscribed(k.topic) : wsubs' = [wsubs EXCEPT ![b] = lines]
  BY <1>1 DEF FetchSubs
<1>3. /\ wpc[b] = "publish" /\ k.broker_id # b /\ GoTo(b, "fan_out", s)
      /\ strayed' = IF topics[k.topic] = {} THEN strayed \cup {k.pub} ELSE strayed
      /\ UNCHANGED <<users, topics, ids, up, workerQ, respQ, wrelayed, down, got, asked, pubs>>
  BY <1>1 DEF FetchSubs, WorkerFrame, dbVars, clientPart
<1>4. /\ s.type = "PUBLISH" /\ s.pub = k.pub /\ s.topic = k.topic
      /\ k.type = "PUBLISH" /\ k.topic \in Topic /\ FromHere(b, k, b)
      /\ \A d \in Broker : Beyond(b, s, d) => d # b /\ FromHere(b, k, d)
  BY <1>1, <1>3, StampedBeyond
<1>5. /\ wpc'[b] = "fan_out" /\ wmsg'[b] = s /\ wsubs'[b] = lines
      /\ \A d \in Broker : d # b => wpc'[d] = wpc[d] /\ wmsg'[d] = wmsg[d] /\ wsubs'[d] = wsubs[d]
  BY <1>2, <1>3 DEF GoTo, Inv, WorkersOK
<1>6. ~wrelayed[b] /\ \A d \in Broker : wrelayed[d] => wpc[d] = "fan_out"
  BY <1>3 DEF CopiesInv, ListsOK
<1>7. SamePubs BY <1>3 DEF SamePubs
<1>8. \A p \in Proper' : p \in Proper /\ p \in DOMAIN pubs /\ pubs'[p].topic = pubs[p].topic
  BY <1>3 DEF Proper
<1>9. NewsCalm BY <1>3, <1>7, NewsCalmOf DEF CopiesInv, NewsStill
<1>10. ASSUME NEW p \in Proper', NEW d \in Broker, Untouched(d, p), d # b \/ ~IsCopy(k, p)
       PROVE  Untouched(d, p)'
  <2>1. ~(wpc'[d] = "fan_out" /\ IsCopy(wmsg'[d], p))
    BY <1>4, <1>5, <1>10 DEF Untouched, IsCopy
  <2>2. ASSUME NEW c \in Client, Home[c] = d PROVE CopiesFor(c, p)' = 0
    <3>1. PICK i, j : i = CopiesFor(c, p) /\ j = CopiesFor(c, p)' OBVIOUS
    <3>2. i = 0 /\ j \in Nat /\ j <= i BY <1>9, <1>10, <2>2, <3>1 DEF Untouched, NewsCalm
    <3> QED BY <3>1, <3>2
  <2> QED BY <2>1, <2>2 DEF Untouched, IsCopy
<1>11. ASSUME NEW x \in Broker, NEW m, AtComing(x, m)'
       PROVE  /\ AtComing(x, m)
              /\ \/ wpc[x] = "publish" /\ m = wmsg[x] /\ x # b
                 \/ \E y \in Connection : m \in Elements(up[y])
                 \/ \E d \in Broker : m \in Elements(workerQ[d])
  <2>1. \/ \E y \in Connection : Server(y) = x /\ m \in Elements(up[y])'
        \/ m \in Elements(workerQ[x])'
        \/ wpc'[x] = "publish" /\ m = wmsg'[x]
    BY <1>11 DEF AtComing, Server
  <2>2. \A y : Elements(up[y])' = Elements(up[y]) BY <1>3 DEF Elements
  <2>3. Elements(workerQ[x])' = Elements(workerQ[x]) BY <1>3 DEF Elements
  <2>4. wpc'[x] = "publish" => x # b /\ wpc[x] = "publish" /\ wmsg'[x] = wmsg[x] BY <1>5
  <2>5. CASE \E y \in Connection : Server(y) = x /\ m \in Elements(up[y])'
    <3>1. PICK y \in Connection : Server(y) = x /\ m \in Elements(up[y]) BY <2>2, <2>5
    <3> QED BY <3>1 DEF AtComing
  <2>6. CASE m \in Elements(workerQ[x])'
    <3>1. m \in Elements(workerQ[x]) BY <2>3, <2>6
    <3>2. AtComing(x, m) BY <3>1 DEF AtComing
    <3> QED BY <3>1, <3>2
  <2>7. CASE wpc'[x] = "publish" /\ m = wmsg'[x] BY <2>4, <2>7 DEF AtComing
  <2> QED BY <2>1, <2>5, <2>6, <2>7
<1>12. ASSUME NEW x \in Broker, NEW m, AtGoing(x, m)'
       PROVE  \/ x = b /\ m = s
              \/ AtGoing(x, m) /\ m \in Elements(respQ[x])
              \/ AtGoing(x, m) /\ x # b /\ wpc[x] = "fan_out" /\ ~wrelayed[x] /\ m = wmsg[x]
  <2>1. m \in Elements(respQ[x])' \/ (wpc'[x] = "fan_out" /\ ~wrelayed'[x] /\ m = wmsg'[x])
    BY <1>12 DEF AtGoing
  <2> QED BY <1>3, <1>5, <2>1 DEF AtGoing, Elements
<1>13. ASSUME NEW p \in Proper', ~IsCopy(k, p), NEW d \in Broker
       PROVE  Untouched(d, p) => Untouched(d, p)'
  BY <1>10, <1>13
<1>14. ASSUME NEW p \in Proper', IsCopy(k, p)
       PROVE  /\ \A x \in Broker : \A m : AtComing(x, m)' => ~IsCopy(m, p)
              /\ \A x \in Broker : \A m : AtGoing(x, m)' /\ IsCopy(m, p) => x = b /\ m = s
  <2>1. p \in Proper BY <1>8
  <2>2. /\ \A y \in Connection : \A m \in Elements(up[y]) : ~IsCopy(m, p)
        /\ \A d \in Broker : \A m \in Elements(workerQ[d]) : ~IsCopy(m, p)
        /\ \A d \in Broker : \A m \in Elements(respQ[d]) : ~IsCopy(m, p)
        /\ \A d \in Broker : d # b /\ wpc[d] \in {"publish", "fan_out"} /\ ~wrelayed[d]
                               => ~IsCopy(wmsg[d], p)
    BY <1>1, <1>3, <1>6, <1>14, <2>1, NowhereElse
  <2>3. \A x \in Broker : wpc[x] = "publish" => ~wrelayed[x] BY <1>6
  <2> QED BY <1>11, <1>12, <2>2, <2>3
<1>15. ASSUME NEW p \in Proper', IsCopy(k, p)
       PROVE  /\ k.topic = pubs[p].topic
              /\ \A d \in Broker : FromHere(b, k, d) => Untouched(d, p)
  <2>1. AtComing(b, k) BY <1>1, <1>3 DEF AtComing
  <2>2. k \in ComingTo(b) BY <2>1, ComingIs
  <2> QED BY <1>8, <1>15, <2>2 DEF CopiesInv, SpreadOK
<1>16. SpreadOK'
  <2>1. ASSUME NEW p \in Proper', NEW x \in Broker, NEW m \in ComingTo(x)', IsCopy(m, p)
        PROVE  m.topic = pubs'[p].topic /\ \A d \in Broker : FromHere(x, m, d) => Untouched(d, p)'
    <3>1. AtComing(x, m)' BY <2>1, ComingIs
    <3>2. ~IsCopy(k, p) BY <1>14, <2>1, <3>1
    <3>3. AtComing(x, m) BY <1>11, <3>1
    <3>4. m \in ComingTo(x) BY <3>3, ComingIs
    <3>5. m.topic = pubs[p].topic /\ \A d \in Broker : FromHere(x, m, d) => Untouched(d, p)
      BY <1>8, <2>1, <3>4 DEF CopiesInv, SpreadOK
    <3> QED BY <1>8, <1>13, <3>2, <3>5
  <2>2. ASSUME NEW p \in Proper', NEW x \in Broker, NEW m \in GoingFrom(x)', IsCopy(m, p)
        PROVE  m.topic = pubs'[p].topic /\ \A d \in Broker : Beyond(x, m, d) => Untouched(d, p)'
    <3>1. AtGoing(x, m)' BY <2>2, ComingIs
    <3>2. CASE ~IsCopy(k, p)
      <4>1. ~IsCopy(s, p) BY <1>4, <3>2 DEF IsCopy
      <4>2. AtGoing(x, m) BY <1>12, <2>2, <3>1, <4>1
      <4>3. m \in GoingFrom(x) BY <4>2, ComingIs
      <4>4. m.topic = pubs[p].topic /\ \A d \in Broker : Beyond(x, m, d) => Untouched(d, p)
        BY <1>8, <2>2, <4>3 DEF CopiesInv, SpreadOK
      <4> QED BY <1>8, <1>13, <3>2, <4>4
    <3>3. CASE IsCopy(k, p)
      <4>1. x = b /\ m = s BY <1>14, <2>2, <3>1, <3>3
      <4>2. m.topic = pubs'[p].topic BY <1>4, <1>8, <1>15, <3>3, <4>1
      <4>3. ASSUME NEW d \in Broker, Beyond(x, m, d) PROVE Untouched(d, p)'
        <5>1. d # b /\ FromHere(b, k, d) BY <1>4, <4>1, <4>3
        <5>2. Untouched(d, p) BY <1>15, <3>3, <5>1
        <5> QED BY <1>10, <5>1, <5>2
      <4> QED BY <4>2, <4>3
    <3> QED BY <3>2, <3>3
  <2> QED BY <2>1, <2>2 DEF SpreadOK, IsCopy
<1>17. s.pub \notin strayed' => lines \subseteq topics[k.topic] /\ IsFiniteSet(lines)
  <2>1. IsFiniteSet(topics[k.topic]) BY <1>4 DEF Inv, DbOK, DbTypeOK
  <2>2. s.pub \notin strayed' => lines \subseteq topics[k.topic]
    BY <1>2, <1>3, <1>4 DEF DbGetSubscribed
  <2> QED BY <2>1, <2>2, FS_Subset
<1>18. ListsOK'
  <2>1. \A d \in Broker : wrelayed'[d] => wpc'[d] = "fan_out" BY <1>3, <1>5, <1>6
  <2>2. ASSUME NEW d \in Broker, wpc'[d] = "fan_out", wmsg'[d].pub \notin strayed'
        PROVE  IsFiniteSet(wsubs'[d])
    BY <1>3, <1>5, <1>17, <2>2 DEF CopiesInv, ListsOK
  <2> QED BY <2>1, <2>2 DEF ListsOK
<1>19. PubsOK' BY <1>3, PubsStay DEF CopiesInv
<1>20. ASSUME NEW c \in Client
       PROVE  AskedCalm(c) /\ TablesStill(c)
  <2>1. \A t \in Topic : asked[c][t] \in Nat BY NewsTypes
  <2>2. \A d \in Broker : Leaving(d)' = Leaving(d) BY <1>3, <1>5 DEF Leaving
  <2>3. TablesStill(c) BY <1>3, <2>2, StillTables
  <2> QED BY <1>3, <2>1, <2>3 DEF AskedCalm
<1>21. ASSUME NEW c \in Client, NEW p \in Proper', Home[c] = b, IsCopy(k, p)
       PROVE  CopiesFor(c, p)' + Cardinality(ToCome(c, p)') <= asked'[c][pubs'[p].topic]
  <2>1. CopiesFor(c, p) = 0 BY <1>4, <1>15, <1>21 DEF Untouched
  <2>2. PICK i, j : i = CopiesFor(c, p) /\ j = CopiesFor(c, p)' OBVIOUS
  <2>3. j = 0
    <3>1. j \in Nat /\ j <= i BY <1>9, <2>2 DEF NewsCalm
    <3> QED BY <2>1, <2>2, <3>1
  <2>4. PICK t \in Topic : t = k.topic BY <1>4
  <2>5. PICK T : T = ToCome(c, p)' OBVIOUS
  <2>6. T \subseteq LinesOf(c, t)
    <3>1. T \subseteq {l \in lines : Entered(c, l.id)'}
      BY <1>5, <1>21, <2>5 DEF ToCome, Entered
    <3>2. s.pub \notin strayed' BY <1>4, <1>21 DEF IsCopy, Proper
    <3>3. Leaving(b) = {} BY <1>3 DEF Leaving
    <3>4. ASSUME NEW l \in T PROVE l \in LinesOf(c, t)
      <4>1. PICK id : id = l.id OBVIOUS
      <4>2. l \in topics[t] /\ Entered(c, id)' BY <1>17, <2>4, <3>1, <3>2, <4>1
      <4>3. Entered(c, id) BY <1>20, <4>2 DEF TablesStill
      <4>4. Owner(c, id) BY <1>21, <3>3, <4>3, EnteredOwned
      <4> QED BY <4>1, <4>2, <4>4 DEF LinesOf
    <3> QED BY <3>4
  <2>7. IsFiniteSet(LinesOf(c, t)) /\ Cardinality(LinesOf(c, t)) \in Nat BY LinesFinite
  <2>8. Cardinality(T) \in Nat /\ Cardinality(T) <= Cardinality(LinesOf(c, t))
    BY <2>6, <2>7, FS_Subset, FS_CardinalityType
  <2>9. Cardinality(LinesOf(c, t)) + (IF Asks(c, t) THEN 1 ELSE 0) <= asked[c][t]
    BY DEF CopiesInv, LinesFor
  <2>10. PICK n \in {0, 1} : n = IF Asks(c, t) THEN 1 ELSE 0 OBVIOUS
  <2>11. asked[c][t] \in Nat BY NewsTypes
  <2>12. 0 + Cardinality(T) <= asked[c][t] BY <2>7, <2>8, <2>9, <2>10, <2>11
  <2>13. asked'[c][pubs'[p].topic] = asked[c][t] BY <1>3, <1>8, <1>15, <1>21, <2>4
  <2> QED BY <2>2, <2>3, <2>5, <2>12, <2>13
<1>22. ASSUME NEW c \in Client, NEW p \in Proper', Home[c] # b \/ ~IsCopy(k, p)
       PROVE  CopiesFor(c, p)' + Cardinality(ToCome(c, p)') <= asked'[c][pubs'[p].topic]
  <2>1. PICK S, T : S = ToCome(c, p) /\ T = ToCome(c, p)' OBVIOUS
  <2>2. PICK d \in Broker : d = Home[c] BY Constants
  <2>3. T \subseteq S
    <3>1. /\ S = {l \in wsubs[d] : wpc[d] = "fan_out" /\ IsCopy(wmsg[d], p) /\ Entered(c, l.id)}
          /\ T = {l \in wsubs'[d] : wpc'[d] = "fan_out" /\ IsCopy(wmsg'[d], p) /\ Entered(c, l.id)'}
      BY <2>1, <2>2 DEF ToCome, IsCopy, Entered
    <3> SUFFICES ASSUME NEW l \in T PROVE l \in S OBVIOUS
    <3>2. PICK id : id = l.id OBVIOUS
    <3>3. Entered(c, id)' <=> Entered(c, id) BY <1>20 DEF TablesStill
    <3>4. CASE d = b
      <4>1. ~IsCopy(s, p) BY <1>4, <1>22, <2>2, <3>4 DEF IsCopy
      <4> QED BY <1>5, <3>1, <3>4, <4>1
    <3>5. CASE d # b BY <1>5, <3>1, <3>2, <3>3, <3>5
    <3> QED BY <3>4, <3>5
  <2>4. IsFiniteSet(S) /\ Cardinality(S) \in Nat
    BY <1>8, <2>1, ToComeFinite DEF CopiesInv
  <2>5. Cardinality(T) \in Nat /\ Cardinality(T) <= Cardinality(S)
    BY <2>3, <2>4, FS_Subset, FS_CardinalityType
  <2>6. CopiesFor(c, p)' \in Nat /\ CopiesFor(c, p)' <= CopiesFor(c, p) BY <1>9 DEF NewsCalm
  <2> QED BY <1>8, <1>20, <2>1, <2>5, <2>6, CountOf DEF CopiesInv
<1>23. \A c \in Client : CountFor(c)' BY <1>21, <1>22 DEF CountFor
<1>24. ASSUME NEW c \in Client PROVE LinesFor(c)'
  <2>1. \A t \in Topic : LinesOf(c, t)' \subseteq LinesOf(c, t)
    BY <1>3, <1>20, LinesOfStay DEF TablesStill
  <2>2. \A m : Own(c, m)' <=> Own(c, m) BY <1>20, StillOwn
  <2>3. PICK d \in Broker : d = Home[c] BY Constants
  <2>4. \A t \in Topic : Asks(c, t)' => Asks(c, t)
    BY <1>3, <1>5, <2>2, <2>3, AsksStay DEF Elements
  <2> QED BY <1>20, <2>1, <2>4, LinesStay DEF CopiesInv
<1> QED BY <1>16, <1>18, <1>19, <1>23, <1>24 DEF CopiesInv

-----------------------------------------------------------------------------
(* The invariant and the theorem.                                          *)

LEMMA WorkerStepCopies ==
  ASSUME Inv, IdsInv, CopiesInv, OneCarrier, ListsProper, NEW b \in Broker, WorkerStep(b)
  PROVE  CopiesInv'
BY WorkerReceiveCopies, CreateUserCopies, CreateIdCopies, ProcessSubscribeCopies, EndCopies,
   FetchSubsCopies, SendToLocalCopies, SendToRingCopies, DeleteUserCopies, RemoveIdCopies,
   RespondCopies
   DEF WorkerStep

LEMMA CopiesNext ==
  ASSUME Inv, IdsInv, CopiesInv, OneCarrier, ListsProper, [Next]_vars
  PROVE  CopiesInv'
<1>1. CASE \E b \in Broker : RingConnect(b) \/ RingRegister(b) \/ StartServing(b)
  BY <1>1, OutsideCopies
<1>2. CASE \E b \in Broker : RingRespHandler(b) BY <1>2, RingRespHandlerCopies
<1>3. CASE \E b \in Broker : WorkerStep(b) BY <1>3, WorkerStepCopies
<1>4. CASE \E x \in Connection : ReqHandler(x) BY <1>4, ReqHandlerCopies
<1>5. CASE \E c \in Client : AcceptClient(c) \/ LoseClient(c) \/ EndHandlers(c)
  BY <1>5, OutsideCopies
<1>6. CASE \E c \in Client : Create(c) \/ Destroy(c) \/ \E t \in Topic : SubscribeTo(c, t)
  BY <1>6, RequestCopies
<1>7. CASE \E c \in Client : \E t \in Topic : Publish(c, t) BY <1>7, PublishCopies
<1>8. CASE \E c \in Client : ClientReceive(c) BY <1>8, ClientReceiveCopies
<1>9. CASE \E c \in Client : RespHandler(c) BY <1>9, RespHandlerCopies
<1>10. CASE UNCHANGED vars BY <1>10, OutsideCopies
<1> QED BY <1>1, <1>2, <1>3, <1>4, <1>5, <1>6, <1>7, <1>8, <1>9, <1>10 DEF Next

LEMMA CopiesInit == Init => CopiesInv
<1> SUFFICES ASSUME Init PROVE CopiesInv OBVIOUS
<1>1. /\ pubs = <<>> /\ strayed = {}
      /\ wrelayed = [b \in Broker |-> FALSE] /\ wpc = [b \in Broker |-> "idle"]
      /\ got = [c \in Client |-> [p \in 1..MaxPubs |-> 0]]
      /\ asked = [c \in Client |-> [t \in Topic |-> 0]]
      /\ up = [x \in Connection |-> <<>>]
      /\ workerQ = [b \in Broker |-> <<>>]
      /\ topics = [t \in Topic |-> {}]
  BY DEF Init, DbInit
<1>2. DOMAIN pubs = {} /\ Proper = {} BY <1>1 DEF Proper
<1>3. SpreadOK BY <1>2 DEF SpreadOK
<1>4. ListsOK BY <1>1 DEF ListsOK
<1>5. PubsOK BY <1>1, <1>2 DEF PubsOK
<1>6. \A c \in Client : CountFor(c) BY <1>2 DEF CountFor
<1>7. ASSUME NEW c \in Client PROVE LinesFor(c)
  <2>1. PICK b \in Broker : b = Home[c] BY Constants
  <2>2. \A t \in Topic : ~Asks(c, t)
    <3>1. up[c] = <<>> /\ workerQ[b] = <<>> /\ wpc[b] = "idle" BY <1>1 DEF Connection
    <3> QED BY <2>1, <3>1 DEF Asks, Elements
  <2>3. ASSUME NEW t \in Topic PROVE Cardinality(LinesOf(c, t)) = 0
    <3>1. LinesOf(c, t) = {} BY <1>1 DEF LinesOf
    <3> QED BY <3>1, FS_EmptySet
  <2>4. \A t \in Topic : asked[c][t] = 0 BY <1>1
  <2> QED BY <2>2, <2>3, <2>4 DEF LinesFor
<1> QED BY <1>3, <1>4, <1>5, <1>6, <1>7 DEF CopiesInv

LEMMA CopiesSafe ==
  ASSUME Inv, CopiesInv
  PROVE  AtMostOncePerSubscription
<1> SUFFICES ASSUME NEW c \in Client, NEW p \in Proper
             PROVE  CopiesFor(c, p) <= asked[c][pubs[p].topic]
  BY DEF AtMostOncePerSubscription
<1>1. PICK t \in Topic : t = pubs[p].topic BY TopicOfPub DEF Proper
<1>2. PICK i, k : i = CopiesFor(c, p) /\ k = Cardinality(ToCome(c, p)) OBVIOUS
<1>3. i \in Nat /\ k \in Nat BY <1>2, CopiesForNat, ToComeFinite DEF CopiesInv, Proper
<1>4. i + k <= asked[c][t] BY <1>1, <1>2 DEF CopiesInv, CountFor
<1>5. asked[c][t] \in Nat BY NewsTypes
<1>6. i <= asked[c][t] BY <1>3, <1>4, <1>5
<1> QED BY <1>1, <1>2, <1>6

\* The invariant behind the next theorem: a broker to which a publication is yet to
\* come has done nothing for it, and the copies that a client has and is yet to be
\* sent are as many as its own requests at most (send_to_subs in worker.c).
THEOREM CopiesAlways == Spec => []CopiesInv
<1> DEFINE I == Inv /\ IdsInv /\ CopiesInv /\ OneCarrier /\ ListsProper
<1>1. Init => I BY InitOK, IdsInit, CopiesInit, CarriersInit
<1>2. I /\ [Next]_vars => I' BY NextOK, IdsNext, CopiesNext, CarriersNext
<1>3. I => CopiesInv OBVIOUS
<1> HIDE DEF I
<1> QED BY <1>1, <1>2, <1>3, PTL DEF Spec

\* A client never gets a publication more often than it subscribed to its topic under
\* its current id, whatever the interleaving of the brokers of the ring, the reuse of
\* ids and the strays of the database (send_to_subs and process_publish in worker.c).
THEOREM AtMostOnceAlways == Spec => []AtMostOncePerSubscription
<1>1. Spec => []Inv BY InvAlways
<1>2. Spec => []CopiesInv BY CopiesAlways
<1>3. Inv /\ CopiesInv => AtMostOncePerSubscription BY CopiesSafe
<1> QED BY <1>1, <1>2, <1>3, PTL

-----------------------------------------------------------------------------
(* What the clients of the publisher's broker are sent.                     *)

\* A copy is sent when the client has it or when it is on its way.
LEMMA SentIs ==
  ASSUME NEW c, NEW p, got[c][p] \in Nat, respQ[c] \in Seq(Msg), down[c] \in Seq(Msg)
  PROVE  Sent(c, p) <=>
           got[c][p] # 0 \/ \E m \in Elements(respQ[c]) \cup Elements(down[c]) : IsCopy(m, p)
<1>1. PICK g \in Nat, q \in Seq(Msg), r \in Seq(Msg) : g = got[c][p] /\ q = respQ[c] /\ r = down[c]
  OBVIOUS
<1>2. /\ g + Cardinality(Copies(q, p)) + Cardinality(Copies(r, p)) \in Nat
      /\ g + Cardinality(Copies(q, p)) + Cardinality(Copies(r, p)) = 0 <=>
           g = 0 /\ \A m \in Elements(q) \cup Elements(r) : ~IsCopy(m, p)
  BY CopiesAdded
<1>3. PICK n \in Nat : /\ n = g + Cardinality(Copies(q, p)) + Cardinality(Copies(r, p))
                       /\ n = 0 <=> g = 0 /\ \A m \in Elements(q) \cup Elements(r) : ~IsCopy(m, p)
  BY <1>2
<1>4. CopiesFor(c, p) = n BY <1>1, <1>3, CopiesForIs
<1>5. Sent(c, p) <=> n # 0 BY <1>3, <1>4 DEF Sent
<1> QED BY <1>1, <1>3, <1>5

LEMMA SentWillBe ==
  ASSUME NEW c, NEW p, got'[c][p] \in Nat, respQ'[c] \in Seq(Msg), down'[c] \in Seq(Msg)
  PROVE  Sent(c, p)' <=>
           got'[c][p] # 0 \/ \E m \in Elements(respQ'[c]) \cup Elements(down'[c]) : IsCopy(m, p)
<1>1. PICK g \in Nat, q \in Seq(Msg), r \in Seq(Msg) : g = got'[c][p] /\ q = respQ'[c] /\ r = down'[c]
  OBVIOUS
<1>2. /\ g + Cardinality(Copies(q, p)) + Cardinality(Copies(r, p)) \in Nat
      /\ g + Cardinality(Copies(q, p)) + Cardinality(Copies(r, p)) = 0 <=>
           g = 0 /\ \A m \in Elements(q) \cup Elements(r) : ~IsCopy(m, p)
  BY CopiesAdded
<1>3. PICK n \in Nat : /\ n = g + Cardinality(Copies(q, p)) + Cardinality(Copies(r, p))
                       /\ n = 0 <=> g = 0 /\ \A m \in Elements(q) \cup Elements(r) : ~IsCopy(m, p)
  BY <1>2
<1>4. CopiesFor(c, p)' = n BY <1>1, <1>3, CopiesForIs
<1>5. Sent(c, p)' <=> n # 0 BY <1>3, <1>4 DEF Sent
<1> QED BY <1>1, <1>3, <1>5

LEMMA NewsWillBe ==
  ASSUME Inv', PubsOK, NEW c \in Client, NEW p \in DOMAIN pubs
  PROVE  got'[c][p] \in Nat /\ respQ'[c] \in Seq(Msg) /\ down'[c] \in Seq(Msg)
<1>0. p \in 1..MaxPubs BY DEF PubsOK
<1>1. got' \in [Client -> [1..MaxPubs -> Nat]] BY DEF Inv, ClientsOK
<1>2. respQ' \in [Connection -> Seq(Msg)] /\ c \in Connection BY DEF Inv, RespQOK, Connection
<1>3. DownOK' BY DEF Inv
<1>4. down'[c] \in Seq(Msg)
  <2>1. down' \in [Client -> Seq(ToClient)] BY <1>3 DEF DownOK, ToClient, Msg, Broker, Request, Ack
  <2>2. ToClient \subseteq Msg BY DEF ToClient
  <2> QED BY <2>1, <2>2, SeqMonotonic
<1> QED BY <1>0, <1>1, <1>2, <1>4

\* What is sent stays sent.
LEMMA SentStays ==
  ASSUME Inv, Inv', PubsOK, NEW c \in Client, NEW p \in DOMAIN pubs, Sent(c, p),
         got[c][p] # 0 => got'[c][p] # 0,
         \A m \in Elements(respQ[c]) \cup Elements(down[c]) : IsCopy(m, p) =>
           got'[c][p] # 0 \/ \E k \in Elements(respQ'[c]) \cup Elements(down'[c]) : IsCopy(k, p)
  PROVE  Sent(c, p)'
<1>1. p \in 1..MaxPubs BY DEF PubsOK
<1>2. got[c][p] \in Nat /\ respQ[c] \in Seq(Msg) /\ down[c] \in Seq(Msg) BY <1>1, NewsTypes
<1>3. got'[c][p] \in Nat /\ respQ'[c] \in Seq(Msg) /\ down'[c] \in Seq(Msg) BY NewsWillBe
<1>4. got[c][p] # 0 \/ \E m \in Elements(respQ[c]) \cup Elements(down[c]) : IsCopy(m, p)
  BY <1>2, SentIs
<1>5. got'[c][p] # 0 \/ \E k \in Elements(respQ'[c]) \cup Elements(down'[c]) : IsCopy(k, p)
  BY <1>4
<1> QED BY <1>3, <1>5, SentWillBe

\* A message is queued for c, or nothing changes for it.
LEMMA SentKept ==
  ASSUME Inv, Inv', PubsOK, NEW c \in Client, NEW p \in DOMAIN pubs, Sent(c, p),
         got'[c] = got[c], down'[c] = down[c],
         respQ'[c] = respQ[c] \/ \E m \in Msg : respQ'[c] = Append(respQ[c], m)
  PROVE  Sent(c, p)'
<1>1. Elements(respQ[c]) \subseteq Elements(respQ'[c])
  <2>1. PICK q \in Seq(Msg) : q = respQ[c] BY NewsTypes
  <2>2. ASSUME NEW m \in Msg PROVE Elements(q) \subseteq Elements(Append(q, m))
    BY QueueElements
  <2> QED BY <2>1, <2>2
<1> QED BY <1>1, SentStays

-----------------------------------------------------------------------------
(* Steps that keep what the invariant says.                                *)

InAudience(c) == \E p \in DOMAIN pubs : c \in pubs[p].audience

\* Nobody comes into an audience, and no publication is a stray for the first time.
AudiencesOnlyShrink ==
  /\ DOMAIN pubs' = DOMAIN pubs /\ strayed' = strayed
  /\ \A p \in DOMAIN pubs : /\ pubs'[p].by = pubs[p].by /\ pubs'[p].topic = pubs[p].topic
                            /\ pubs'[p].audience \subseteq pubs[p].audience

\* c stays with its id and its subscriptions.
Stays(c) ==
  /\ conn'[c] = "on" /\ gid'[c] = gid[c] /\ wait'[c] # "DESTROY"
  /\ \A t \in Topic : Filed(c, t) => Filed(c, t)'

\* Those at the publisher's broker for whom p was sent have been sent it.
Served(p) ==
  \A c \in pubs[p].audience : Home[c] = Home[pubs[p].by] => Sent(c, p)

\* The message of p before the publisher's broker is done with it.
Begun(p, m) ==
  LET c == pubs[p].by
      b == Home[c]
  IN  /\ IsCopy(m, p)
      /\ \/ m.broker_id = 0 /\ \/ m \in Elements(up[c])
                               \/ m \in Elements(workerQ[b])
                               \/ wpc[b] = "publish" /\ m = wmsg[b]
         \/ m.broker_id = b /\ wpc[b] = "fan_out" /\ m = wmsg[b]

LEMMA OriginIs ==
  ASSUME NEW p
  PROVE  /\ OriginDone(p) <=> \A m : ~Begun(p, m)
         /\ OriginDone(p)' <=> \A m : ~Begun(p, m)'
<1>1. OriginDone(p) <=> \A m : ~Begun(p, m) BY DEF OriginDone, Begun
<1>2. OriginDone(p)' <=> \A m : ~Begun(p, m)' BY DEF OriginDone, Begun, Elements, IsCopy
<1> QED BY <1>1, <1>2

LEMMA AudienceOf ==
  ASSUME Inv, NEW p \in DOMAIN pubs
  PROVE  pubs[p].audience \subseteq Client /\ pubs[p].by \in Client /\ pubs[p].topic \in Topic
<1> DEFINE Pub == [by : Client, topic : Topic, audience : SUBSET Client]
<1>1. pubs \in Seq(Pub) BY DEF Inv, ClientsOK
<1>2. pubs[p] \in Pub
  <2> HIDE DEF Pub
  <2> QED BY <1>1, ElementOfSeq, LenProperties
<1> QED BY <1>2

LEMMA AudiencesStay ==
  ASSUME Inv, AudienceOK, AudiencesOnlyShrink, \A c \in Client : InAudience(c)' => Stays(c)
  PROVE  AudienceOK'
<1>1. ASSUME NEW p \in DOMAIN pubs', NEW c \in pubs'[p].audience
      PROVE  conn'[c] = "on" /\ gid'[c] # 0 /\ wait'[c] # "DESTROY" /\ Filed(c, pubs[p].topic)'
  <2>1. p \in DOMAIN pubs /\ c \in pubs[p].audience /\ pubs'[p].topic = pubs[p].topic
    BY <1>1 DEF AudiencesOnlyShrink
  <2>2. c \in Client /\ pubs[p].topic \in Topic BY <2>1, AudienceOf
  <2>3. PICK t \in Topic : t = pubs[p].topic BY <2>2
  <2>4. Stays(c) BY <1>1, <2>2 DEF InAudience
  <2>5. gid[c] # 0 /\ Filed(c, t) BY <2>1, <2>3 DEF AudienceOK
  <2>6. Filed(c, t)' BY <2>4, <2>5 DEF Stays
  <2> QED BY <2>1, <2>3, <2>4, <2>5, <2>6 DEF Stays, Filed
<1>2. /\ strayed' \subseteq DOMAIN pubs'
      /\ \A p \in strayed' : pubs'[p].audience = {}
  BY DEF AudienceOK, AudiencesOnlyShrink
<1> QED BY <1>1, <1>2 DEF AudienceOK, Filed

\* A line leaves a worker's list when the clients that it is for have been served.
ListsServed ==
  \A b \in Broker : wpc'[b] = "fan_out" /\ wmsg'[b].broker_id = b =>
    /\ wpc[b] = "fan_out" /\ wmsg[b].broker_id = b /\ wmsg'[b].pub = wmsg[b].pub
    /\ \A l \in wsubs[b] : l \in wsubs'[b] \/
         \A p \in DOMAIN pubs : p = wmsg[b].pub =>
           \A c \in pubs[p].audience : Home[c] = b /\ l.id = gid[c] => Sent(c, p)'

\* A publication that its publisher's broker is not done with stays so, or those
\* whom it is for have been served.
Onward ==
  \A p \in DOMAIN pubs : \A m : Begun(p, m) => (\E k : Begun(p, k)') \/ Served(p)

SentRemain ==
  \A p \in DOMAIN pubs : \A c \in pubs[p].audience :
    InAudience(c)' /\ Sent(c, p) => Sent(c, p)'

LEMMA ListedStay ==
  ASSUME Inv, AudiencesOnlyShrink, ListsServed, SentRemain,
         \A c \in Client : InAudience(c)' => Stays(c),
         NEW b \in Broker, HomeListed(b)
  PROVE  HomeListed(b)'
<1> SUFFICES ASSUME NEW p \in DOMAIN pubs', wpc'[b] = "fan_out", wmsg'[b].broker_id = b,
                    wmsg'[b].pub = p, NEW c \in pubs'[p].audience, Home[c] = b
             PROVE  Sent(c, p)' \/ \E l \in wsubs'[b] : l.id = gid'[c]
  BY DEF HomeListed
<1>1. wpc[b] = "fan_out" /\ wmsg[b].broker_id = b /\ wmsg[b].pub = p
  BY DEF ListsServed
<1>2. c \in pubs[p].audience /\ p \in DOMAIN pubs BY DEF AudiencesOnlyShrink
<1>3. c \in Client /\ InAudience(c)' BY <1>2, AudienceOf DEF InAudience
<1>4. gid'[c] = gid[c] BY <1>3 DEF Stays
<1>5. CASE Sent(c, p) BY <1>2, <1>3, <1>5 DEF SentRemain
<1>6. CASE \E l \in wsubs[b] : l.id = gid[c]
  <2>1. PICK l \in wsubs[b] : l.id = gid[c] BY <1>6
  <2>2. l \in wsubs'[b] \/ \A d \in pubs[p].audience : Home[d] = b /\ l.id = gid[d] => Sent(d, p)'
    BY <1>1, <1>2, <2>1 DEF ListsServed
  <2> QED BY <1>2, <1>4, <2>1, <2>2
<1>7. Sent(c, p) \/ \E l \in wsubs[b] : l.id = gid[c] BY <1>1, <1>2 DEF HomeListed
<1> QED BY <1>5, <1>6, <1>7

LEMMA DeliveryStays ==
  ASSUME Inv, AudiencesOnlyShrink, Onward, SentRemain, HomeDelivery
  PROVE  HomeDelivery'
<1> SUFFICES ASSUME NEW p \in DOMAIN pubs', OriginDone(p)',
                    NEW c \in pubs'[p].audience, Home[c] = Home[pubs'[p].by]
             PROVE  Sent(c, p)'
  BY DEF HomeDelivery, Sent
<1>1. p \in DOMAIN pubs /\ c \in pubs[p].audience /\ Home[c] = Home[pubs[p].by]
  BY DEF AudiencesOnlyShrink
<1>2. \A k : ~Begun(p, k)' BY OriginIs
<1>3. Sent(c, p)
  <2>1. CASE OriginDone(p) BY <1>1, <2>1 DEF HomeDelivery, Sent
  <2>2. CASE ~OriginDone(p)
    <3>1. PICK m : Begun(p, m) BY <2>2, OriginIs
    <3>2. Served(p) BY <1>1, <1>2, <3>1 DEF Onward
    <3> QED BY <1>1, <3>2 DEF Served
  <2> QED BY <2>1, <2>2
<1> QED BY <1>1, <1>3 DEF SentRemain, InAudience

\* What a step has to show that brings nobody into an audience.
LEMMA DeliveryKept ==
  ASSUME Inv, DeliveryInv, AudiencesOnlyShrink, ListsServed, Onward, SentRemain,
         \A c \in Client : InAudience(c)' => Stays(c),
         \A c \in Client : AskedOK(c)'
  PROVE  DeliveryInv'
<1>1. AudienceOK' BY AudiencesStay DEF DeliveryInv
<1>2. \A b \in Broker : HomeListed(b)' BY ListedStay DEF DeliveryInv
<1>3. HomeDelivery' BY DeliveryStays DEF DeliveryInv
<1> QED BY <1>1, <1>2, <1>3 DEF DeliveryInv

LEMMA AskedStays ==
  ASSUME NEW c \in Client, AskedOK(c), asked'[c] = asked[c], gid'[c] = gid[c],
         wait[c] = "DESTROY" => wait'[c] = "DESTROY",
         \A t \in Topic : wait'[c] = "DESTROY" \/ Filed(c, t)' \/
           (~Filed(c, t) /\ (Asks(c, t) => Asks(c, t)'))
  PROVE  AskedOK(c)'
<1> SUFFICES ASSUME NEW t \in Topic, asked'[c][t] > 0
             PROVE  gid'[c] # 0 /\ (wait'[c] = "DESTROY" \/ Filed(c, t)' \/ Asks(c, t)')
  BY DEF AskedOK
<1>1. gid[c] # 0 /\ (wait[c] = "DESTROY" \/ Filed(c, t) \/ Asks(c, t)) BY DEF AskedOK
<1> QED BY <1>1

\* A request of c to subscribe is where it was, or a step further.
LEMMA AsksRemain ==
  ASSUME NEW c \in Client, NEW t \in Topic, NEW b \in Broker, b = Home[c],
         \A m \in Elements(up[c]) : m.type = "SUBSCRIBE" =>
           m \in Elements(up'[c]) \/ (m \in Elements(workerQ'[b]) /\ Own(c, m)'),
         \A m \in Elements(workerQ[b]) : m.type = "SUBSCRIBE" /\ Own(c, m) =>
           /\ Own(c, m)'
           /\ m \in Elements(workerQ'[b]) \/ (wpc'[b] = "subscribe" /\ wmsg'[b] = m),
         wpc[b] = "subscribe" /\ Own(c, wmsg[b]) /\ wmsg[b].type = "SUBSCRIBE" =>
           Own(c, wmsg[b])' /\ wpc'[b] = "subscribe" /\ wmsg'[b] = wmsg[b]
  PROVE  Asks(c, t) => Asks(c, t)'
<1> SUFFICES ASSUME NEW m, Asked(c, t, m) PROVE Asked(c, t, m)' BY AsksIs
<1>1. ForTopic(m, t) /\ m.type = "SUBSCRIBE" BY DEF Asked, ForTopic
<1>2. \/ m \in Elements(up[c])
      \/ m \in Elements(workerQ[b]) /\ Own(c, m)
      \/ wpc[b] = "subscribe" /\ Own(c, m) /\ m = wmsg[b]
  BY DEF Asked
<1>3. \/ m \in Elements(up'[c])
      \/ m \in Elements(workerQ'[b]) /\ Own(c, m)'
      \/ wpc'[b] = "subscribe" /\ Own(c, m)' /\ m = wmsg'[b]
  <2>1. CASE m \in Elements(up[c]) BY <1>1, <2>1
  <2>2. CASE m \in Elements(workerQ[b]) /\ Own(c, m) BY <1>1, <2>2
  <2>3. CASE wpc[b] = "subscribe" /\ Own(c, m) /\ m = wmsg[b]
    <3>1. Own(c, wmsg[b])' => Own(c, m)'
      <4>1. m.mtype = wmsg[b].mtype BY <2>3
      <4> QED BY <1>1, <2>3 DEF Own
    <3> QED BY <1>1, <2>3, <3>1
  <2> QED BY <1>2, <2>1, <2>2, <2>3
<1> QED BY <1>1, <1>3 DEF Asked, ForTopic, Elements

-----------------------------------------------------------------------------
(* Steps outside the workers.                                              *)

LEMMA StillAsked ==
  ASSUME NEW c \in Client, AskedOK(c), TablesStill(c), UNCHANGED <<up, workerQ, wpc, wmsg, topics>>,
         asked'[c] = asked[c], gid'[c] = gid[c], wait[c] = "DESTROY" => wait'[c] = "DESTROY"
  PROVE  AskedOK(c)'
<1>1. PICK b \in Broker : b = Home[c] BY Constants
<1>2. \A m : Own(c, m)' <=> Own(c, m) BY StillOwn
<1>3. \A t \in Topic : Asks(c, t) => Asks(c, t)' BY <1>1, <1>2, AsksRemain
<1>4. \A t \in Topic : Filed(c, t)' <=> Filed(c, t) BY DEF Filed
<1> QED BY <1>3, <1>4, AskedStays

LEMMA StillDelivery ==
  ASSUME Inv, DeliveryInv, AudiencesOnlyShrink, UNCHANGED <<up, workerQ, wpc, wmsg, wsubs>>,
         SentRemain, \A c \in Client : InAudience(c)' => Stays(c), \A c \in Client : AskedOK(c)'
  PROVE  DeliveryInv'
<1>1. ListsServed BY DEF ListsServed
<1>2. Onward
  <2> SUFFICES ASSUME NEW p \in DOMAIN pubs, NEW m, Begun(p, m) PROVE Begun(p, m)'
    BY DEF Onward
  <2>1. pubs'[p].by = pubs[p].by BY DEF AudiencesOnlyShrink
  <2> QED BY <2>1 DEF Begun, Elements, IsCopy
<1> QED BY <1>1, <1>2, DeliveryKept

\* The audience of a publication is of clients that are connected and have an id.
LEMMA AudienceOn ==
  ASSUME Inv, AudienceOK, AudiencesOnlyShrink, NEW c \in Client, InAudience(c)'
  PROVE  InAudience(c) /\ conn[c] = "on" /\ gid[c] # 0 /\ wait[c] # "DESTROY"
<1>1. PICK p \in DOMAIN pubs' : c \in pubs'[p].audience BY DEF InAudience
<1>2. p \in DOMAIN pubs /\ c \in pubs[p].audience BY <1>1 DEF AudiencesOnlyShrink
<1> QED BY <1>2 DEF AudienceOK, InAudience

LEMMA SameAudiences ==
  ASSUME pubs' = pubs, strayed' = strayed
  PROVE  AudiencesOnlyShrink
BY DEF AudiencesOnlyShrink

\* One client leaves every audience.
LEMMA LeavesAudiences ==
  ASSUME Inv, NEW c, strayed' = strayed,
         pubs' = [p \in DOMAIN pubs |-> [pubs[p] EXCEPT !.audience = @ \ {c}]]
  PROVE  AudiencesOnlyShrink /\ ~InAudience(c)'
<1> DEFINE Pub == [by : Client, topic : Topic, audience : SUBSET Client]
<1>1. pubs \in Seq(Pub) BY DEF Inv, ClientsOK
<1>2. ASSUME NEW p \in DOMAIN pubs
      PROVE  /\ pubs'[p].topic = pubs[p].topic /\ pubs'[p].by = pubs[p].by
             /\ pubs'[p].audience = pubs[p].audience \ {c}
  <2>1. pubs[p] \in Pub
    <3> HIDE DEF Pub
    <3> QED BY <1>1, ElementOfSeq, LenProperties
  <2> QED BY <2>1
<1> QED BY <1>2 DEF AudiencesOnlyShrink, InAudience

LEMMA OutsideDelivery ==
  ASSUME Inv, Inv', CopiesInv, DeliveryInv,
         \/ \E b \in Broker : RingConnect(b) \/ RingRegister(b) \/ StartServing(b)
         \/ \E c \in Client : AcceptClient(c) \/ LoseClient(c) \/ EndHandlers(c)
         \/ UNCHANGED vars
  PROVE  DeliveryInv'
<1>1. /\ UNCHANGED <<up, workerQ, respQ, got, asked, topics, users, wpc, wmsg, wsubs, gid, wait>>
      /\ strayed' = strayed
  BY DEF RingConnect, RingRegister, StartServing, AcceptClient, LoseClient, EndHandlers,
         vars, dbVars, workerPart, clientPart
<1>2. /\ AudiencesOnlyShrink
      /\ \A c \in Client : InAudience(c)' => conn'[c] = "on" /\ down'[c] = down[c]
  <2>1. ASSUME NEW d \in Client, LoseClient(d)
        PROVE  /\ AudiencesOnlyShrink
               /\ \A c \in Client : InAudience(c)' => conn'[c] = "on" /\ down'[c] = down[c]
    <3>1. AudiencesOnlyShrink /\ ~InAudience(d)'
      BY <1>1, <2>1, LeavesAudiences DEF LoseClient
    <3>2. \A c \in Client : c # d => conn'[c] = conn[c] /\ down'[c] = down[c]
      BY <2>1 DEF LoseClient, Inv, DownOK, ClientsOK
    <3> QED BY <3>1, <3>2, AudienceOn DEF DeliveryInv
  <2>2. CASE pubs' = pubs /\ down' = down
             /\ \A c \in Client : conn[c] = "on" => conn'[c] = "on"
    <3>1. AudiencesOnlyShrink BY <1>1, <2>2, SameAudiences
    <3> QED BY <2>2, <3>1, AudienceOn DEF DeliveryInv
  <2>3. ASSUME NEW d \in Client, AcceptClient(d) \/ EndHandlers(d)
        PROVE  pubs' = pubs /\ down' = down /\ \A c \in Client : conn[c] = "on" => conn'[c] = "on"
    BY <2>3 DEF AcceptClient, EndHandlers, Inv, ClientsOK
  <2> QED BY <2>1, <2>2, <2>3 DEF RingConnect, RingRegister, StartServing, vars
<1>3. \A c \in Client : InAudience(c)' => Stays(c)
  BY <1>1, <1>2, AudienceOn DEF Stays, Filed, DeliveryInv
<1>4. SentRemain
  <2> SUFFICES ASSUME NEW p \in DOMAIN pubs, NEW c \in pubs[p].audience, InAudience(c)', Sent(c, p)
               PROVE  Sent(c, p)'
    BY DEF SentRemain
  <2>1. c \in Client BY AudienceOf
  <2> QED BY <1>1, <1>2, <2>1, SentKept DEF CopiesInv
<1>5. ASSUME NEW c \in Client PROVE AskedOK(c)'
  <2>1. TablesStill(c)
    <3>1. CASE ids' = ids
      <4>1. \A b \in Broker : Leaving(b)' = Leaving(b) BY <1>1 DEF Leaving
      <4> QED BY <1>1, <3>1, <4>1, StillTables
    <3>2. ASSUME NEW b \in Broker, RingRegister(b) PROVE TablesStill(c)
      BY <3>2, RingRegisterTables
    <3> QED BY <3>1, <3>2 DEF RingConnect, StartServing, AcceptClient, LoseClient, EndHandlers, vars
  <2> QED BY <1>1, <2>1, StillAsked DEF DeliveryInv
<1> QED BY <1>1, <1>2, <1>3, <1>4, <1>5, StillDelivery

LEMMA RespHandlerDelivery ==
  ASSUME Inv, Inv', CopiesInv, DeliveryInv, NEW c \in Client, RespHandler(c)
  PROVE  DeliveryInv'
<1>1. /\ respQ[c] # <<>> /\ respQ' = [respQ EXCEPT ![c] = Tail(respQ[c])]
      /\ conn[c] = "on" => down' = [down EXCEPT ![c] = Append(down[c], Outgoing(Head(respQ[c])))]
      /\ UNCHANGED <<users, topics, ids, up, workerQ, wpc, wmsg, wsubs, asked, got, pubs,
                     strayed, conn, gid, wait>>
      /\ \A d \in Client : d # c => respQ'[d] = respQ[d] /\ down'[d] = down[d]
  <2>1. respQ \in [Connection -> Seq(Msg)] /\ down \in [Client -> Seq(Msg)] /\ c \in Connection
    BY NewsTypes
  <2> QED BY <2>1 DEF RespHandler, dbVars, clientPart, workerPart, Connection
<1>2. AudiencesOnlyShrink BY <1>1, SameAudiences
<1>3. \A d \in Client : InAudience(d)' => Stays(d) /\ conn[d] = "on"
  BY <1>1, <1>2, AudienceOn DEF Stays, Filed, DeliveryInv
<1>4. ASSUME NEW p \in DOMAIN pubs, conn[c] = "on", Sent(c, p) PROVE Sent(c, p)'
  <2>1. PICK q \in Seq(Msg), r \in Seq(Msg) : q = respQ[c] /\ r = down[c] /\ q # <<>>
    BY <1>1, NewsTypes
  <2>2. PICK h \in Msg : h = Head(q) /\ Elements(q) = Elements(Tail(q)) \cup {h}
    <3>1. Head(q) \in Elements(q) /\ Elements(q) \subseteq Msg
      BY <2>1, QueueElements, IdleMsg
    <3> QED BY <2>1, <3>1, QueueElements, IdleMsg
  <2>3. PICK m \in Msg : m = Outgoing(h) /\ \A n : IsCopy(m, n) <=> IsCopy(h, n)
    BY OutgoingMsg DEF IsCopy
  <2>4. Elements(Append(r, m)) = Elements(r) \cup {m} BY <2>1, QueueElements
  <2>5. respQ'[c] = Tail(q) /\ down'[c] = Append(r, m)
    BY <1>1, <1>4, <2>1, <2>2, <2>3, NewsTypes
  <2>6. ASSUME NEW n \in Elements(respQ[c]) \cup Elements(down[c]), IsCopy(n, p)
        PROVE  \E k \in Elements(respQ'[c]) \cup Elements(down'[c]) : IsCopy(k, p)
    <3>1. CASE n = h BY <2>3, <2>4, <2>5, <2>6, <3>1
    <3>2. CASE n # h BY <2>1, <2>2, <2>4, <2>5, <2>6, <3>2
    <3> QED BY <3>1, <3>2
  <2>7. got'[c] = got[c] BY <1>1
  <2> QED BY <1>4, <2>6, <2>7, SentStays DEF CopiesInv
<1>5. SentRemain
  <2> SUFFICES ASSUME NEW p \in DOMAIN pubs, NEW d \in pubs[p].audience, InAudience(d)', Sent(d, p)
               PROVE  Sent(d, p)'
    BY DEF SentRemain
  <2>1. d \in Client BY AudienceOf
  <2>2. CASE d = c BY <1>3, <1>4, <2>2
  <2>3. CASE d # c BY <1>1, <2>1, <2>3, SentKept DEF CopiesInv
  <2> QED BY <2>2, <2>3
<1>6. ASSUME NEW d \in Client PROVE AskedOK(d)'
  <2>1. \A b \in Broker : Leaving(b)' = Leaving(b) BY <1>1 DEF Leaving
  <2>2. TablesStill(d) BY <1>1, <2>1, StillTables
  <2> QED BY <1>1, <2>2, StillAsked DEF DeliveryInv
<1> QED BY <1>1, <1>2, <1>3, <1>5, <1>6, StillDelivery

\* The client takes what is sent to it, as the one that it is for.
LEMMA ClientReceiveDelivery ==
  ASSUME Inv, Inv', IdsInv, CopiesInv, DeliveryInv, NEW c \in Client, ClientReceive(c)
  PROVE  DeliveryInv'
<1>1. /\ UNCHANGED <<users, topics, ids, wsubs, wpc, wmsg, up, workerQ, respQ, pubs, strayed, conn>>
      /\ \A d \in Client : d # c => gid'[d] = gid[d] /\ wait'[d] = wait[d] /\ down'[d] = down[d]
      /\ \A d \in Client : \A id : Entered(d, id)' <=> Entered(d, id)
      /\ \A d \in Client : \A id : Owner(d, id)' <=> Owner(d, id)
  BY ReceiveMeans
<1>2. PICK m : m = Head(down[c]) OBVIOUS
<1>3. /\ m \in Elements(down[c]) /\ m.mtype = m.global_id
      /\ m.type \in Ack => Answered(c, m)
      /\ ForHolder(c, m)
  <2>1. m \in Elements(down[c]) BY <1>2, ReceiveMeans
  <2> QED BY <2>1 DEF IdsInv, ServedOK, ClientOK, AnswersOK, NewsOK
<1>4. AudiencesOnlyShrink BY <1>1, SameAudiences
<1>5. /\ got \in [Client -> [1..MaxPubs -> Nat]] /\ asked \in [Client -> [Topic -> Nat]]
      /\ gid \in [Client -> Nat] /\ wait \in [Client -> Request \cup {"none"}]
  BY DEF Inv, ClientsOK
<1>6. \/ /\ m.type = "ACK_CREATE" /\ wait[c] = "CREATE" /\ gid[c] = 0
         /\ gid'[c] = m.mtype /\ wait'[c] = "none" /\ asked' = asked /\ got' = got
      \/ /\ m.type = "ACK_DESTROY" /\ wait[c] = "DESTROY"
         /\ asked' = [asked EXCEPT ![c] = [t \in Topic |-> 0]]
         /\ got' = [got EXCEPT ![c] = [p \in 1..MaxPubs |-> 0]]
      \/ /\ m.type \in {"ACK_OK", "ACK_ERROR"} /\ wait[c] \in {"SUBSCRIBE", "PUBLISH", "CREATE"}
         /\ gid' = gid /\ wait'[c] = "none" /\ asked' = asked /\ got' = got
      \/ /\ m.type = "PUBLISH" /\ gid' = gid /\ wait' = wait /\ asked' = asked
         /\ got' = [got EXCEPT ![c][m.pub] = got[c][m.pub] + 1]
      \/ /\ m.mtype # gid[c] /\ gid' = gid /\ wait' = wait /\ asked' = asked /\ got' = got
  <2>1. \/ m.type = "ACK_CREATE" /\ gid' = [gid EXCEPT ![c] = m.mtype]
           /\ wait' = [wait EXCEPT ![c] = "none"] /\ asked' = asked /\ got' = got
        \/ m.type = "ACK_DESTROY"
           /\ asked' = [asked EXCEPT ![c] = [t \in Topic |-> 0]]
           /\ got' = [got EXCEPT ![c] = [p \in 1..MaxPubs |-> 0]]
        \/ m.type \in {"ACK_OK", "ACK_ERROR"} /\ wait' = [wait EXCEPT ![c] = "none"]
           /\ gid' = gid /\ asked' = asked /\ got' = got
        \/ m.type = "PUBLISH" /\ gid' = gid /\ wait' = wait /\ asked' = asked
           /\ got' = [got EXCEPT ![c][m.pub] = got[c][m.pub] + 1]
        \/ m.mtype # gid[c] /\ gid' = gid /\ wait' = wait /\ asked' = asked /\ got' = got
    BY <1>2 DEF ClientReceive
  <2>2. m.type = "ACK_CREATE" => wait[c] = "CREATE" /\ gid[c] = 0
    BY <1>3 DEF Answered, Ack
  <2>3. m.type = "ACK_DESTROY" => wait[c] = "DESTROY" BY <1>3 DEF Answered, Ack
  <2>4. m.type \in {"ACK_OK", "ACK_ERROR"} => wait[c] \in {"SUBSCRIBE", "PUBLISH", "CREATE"}
    BY <1>3 DEF Answered, Ack
  <2> QED BY <1>5, <2>1, <2>2, <2>3, <2>4
<1>7. \A d \in Client : InAudience(d)' => InAudience(d) /\ conn[d] = "on" /\ gid[d] # 0 /\ wait[d] # "DESTROY"
  BY <1>4, AudienceOn DEF DeliveryInv
<1>8. ASSUME NEW d \in Client, InAudience(d)' PROVE Stays(d)
  <2>1. gid'[d] = gid[d] /\ wait'[d] # "DESTROY"
    <3>1. CASE d # c BY <1>1, <1>7, <1>8, <3>1
    <3>2. CASE d = c BY <1>6, <1>7, <1>8, <3>2
    <3> QED BY <3>1, <3>2
  <2> QED BY <1>1, <1>7, <1>8, <2>1 DEF Stays, Filed
<1>9. \A d \in Client : d # c => got'[d] = got[d] /\ asked'[d] = asked[d]
  BY <1>5, <1>6
<1>10. ASSUME NEW p \in DOMAIN pubs, c \in pubs[p].audience, InAudience(c)', Sent(c, p)
       PROVE  Sent(c, p)'
  <2>1. p \in 1..MaxPubs /\ p \notin strayed BY <1>10 DEF CopiesInv, PubsOK, DeliveryInv, AudienceOK
  <2>2. PICK g \in Nat : g = got[c][p] BY <1>5, <2>1
  <2>3. got'[c][p] \in {g, g + 1} /\ (IsCopy(m, p) => got'[c][p] = g + 1)
    <3>1. IsCopy(m, p) => m.mtype = gid[c] BY <1>3, <2>1 DEF ForHolder, IsCopy
    <3>2. wait[c] # "DESTROY" BY <1>7, <1>10
    <3>3. CASE IsCopy(m, p)
      <4>1. m.type = "PUBLISH" /\ m.pub = p /\ m.mtype = gid[c] BY <3>1, <3>3 DEF IsCopy
      <4>2. got' = [got EXCEPT ![c][m.pub] = got[c][m.pub] + 1] BY <1>6, <4>1
      <4>3. got'[c][p] = got[c][p] + 1 BY <1>5, <2>1, <4>1, <4>2
      <4> QED BY <2>2, <4>3
    <3>4. CASE ~IsCopy(m, p)
      <4>1. got'[c][p] = got[c][p] BY <1>5, <1>6, <2>1, <3>2, <3>4 DEF IsCopy
      <4> QED BY <2>2, <3>4, <4>1
    <3> QED BY <3>3, <3>4
  <2>4. PICK r \in Seq(Msg) : r = down[c] /\ r # <<>> BY NewsTypes DEF ClientReceive
  <2>5. down'[c] = Tail(r) /\ m = Head(r)
    <3>1. down' = [down EXCEPT ![c] = Tail(down[c])] BY DEF ClientReceive
    <3> QED BY <1>2, <2>4, <3>1, NewsTypes
  <2>6. Elements(r) = Elements(Tail(r)) \cup {m} BY <2>4, <2>5, QueueElements, IdleMsg
  <2>7. got[c][p] # 0 => got'[c][p] # 0 BY <2>2, <2>3
  <2>8. IsCopy(m, p) => got'[c][p] # 0 BY <2>2, <2>3
  <2>9. ASSUME NEW n \in Elements(respQ[c]) \cup Elements(down[c]), IsCopy(n, p)
        PROVE  got'[c][p] # 0 \/ \E k \in Elements(respQ'[c]) \cup Elements(down'[c]) : IsCopy(k, p)
    <3>1. CASE n = m BY <2>8, <2>9, <3>1
    <3>2. CASE n # m BY <1>1, <2>4, <2>5, <2>6, <2>9, <3>2
    <3> QED BY <3>1, <3>2
  <2> QED BY <1>10, <2>7, <2>9, SentStays DEF CopiesInv
<1>11. SentRemain
  <2> SUFFICES ASSUME NEW p \in DOMAIN pubs, NEW d \in pubs[p].audience, InAudience(d)', Sent(d, p)
               PROVE  Sent(d, p)'
    BY DEF SentRemain
  <2>1. d \in Client BY AudienceOf
  <2>2. CASE d = c BY <1>10, <2>2
  <2>3. CASE d # c BY <1>1, <1>9, <2>1, <2>3, SentKept DEF CopiesInv
  <2> QED BY <2>2, <2>3
<1>12. ASSUME NEW d \in Client PROVE AskedOK(d)'
  <2>1. TablesStill(d) BY <1>1 DEF TablesStill
  <2>2. CASE d # c BY <1>1, <1>9, <2>1, <2>2, StillAsked DEF DeliveryInv
  <2>3. CASE d = c /\ m.type = "ACK_CREATE" /\ wait[c] = "CREATE" /\ gid[c] = 0 /\ asked' = asked
    <3>1. \A t \in Topic : ~(asked[c][t] > 0) BY <2>3 DEF DeliveryInv, AskedOK
    <3> QED BY <2>3, <3>1 DEF AskedOK
  <2>4. CASE d = c /\ asked' = [asked EXCEPT ![c] = [t \in Topic |-> 0]]
    <3>1. \A t \in Topic : asked'[c][t] = 0 BY <1>5, <2>4
    <3> QED BY <2>4, <3>1 DEF AskedOK
  <2>5. CASE d = c /\ gid' = gid /\ asked' = asked /\ (wait[c] = "DESTROY" => wait'[c] = "DESTROY")
    BY <1>1, <2>1, <2>5, StillAsked DEF DeliveryInv
  <2> QED BY <1>6, <2>2, <2>3, <2>4, <2>5
<1> QED BY <1>1, <1>4, <1>8, <1>11, <1>12, StillDelivery

-----------------------------------------------------------------------------
(* The worker lets go of what it has.                                      *)

LEMMA LeavesDelivery ==
  ASSUME Inv, Inv', CopiesInv, DeliveryInv, NEW b \in Broker, Leaves(b),
         \A p \in DOMAIN pubs : IsCopy(wmsg[b], p) =>
           /\ wpc[b] = "publish" => wmsg[b].broker_id # 0
           /\ wpc[b] = "fan_out" /\ wmsg[b].broker_id = b => Served(p),
         \A c \in Client : InAudience(c) => \A t \in Topic : Filed(c, t) => Filed(c, t)',
         \A c \in Client : AskedOK(c)'
  PROVE  DeliveryInv'
<1>1. UNCHANGED <<up, workerQ, down, conn, gid, wait, got, asked, pubs, strayed>>
  BY DEF Leaves, WorkerFrame, clientPart
<1>2. AudiencesOnlyShrink BY <1>1, SameAudiences
<1>3. ASSUME NEW c \in Client, InAudience(c)' PROVE Stays(c)
  <2>1. /\ InAudience(c) /\ conn[c] = "on" /\ wait[c] # "DESTROY"
    BY <1>2, <1>3, AudienceOn DEF DeliveryInv
  <2> QED BY <1>1, <2>1 DEF Stays
<1>4. SentRemain
  <2> SUFFICES ASSUME NEW p \in DOMAIN pubs, NEW c \in pubs[p].audience, Sent(c, p)
               PROVE  Sent(c, p)'
    BY DEF SentRemain
  <2>1. c \in Client BY AudienceOf
  <2>2. respQ'[c] = respQ[c] \/ \E m \in Msg : respQ'[c] = Append(respQ[c], m)
    BY <2>1 DEF Leaves
  <2> QED BY <1>1, <2>1, <2>2, SentKept DEF CopiesInv
<1>5. ListsServed BY DEF ListsServed, Leaves
<1>6. Onward
  <2> SUFFICES ASSUME NEW p \in DOMAIN pubs, NEW m, Begun(p, m)
               PROVE  Begun(p, m)' \/ Served(p)
    BY DEF Onward
  <2>1. PICK c \in Client, h \in Broker : c = pubs[p].by /\ h = Home[c] BY AudienceOf, Constants
  <2>2. IsCopy(m, p) BY DEF Begun
  <2>3. \/ m.broker_id = 0 /\ (m \in Elements(up[c]) \/ m \in Elements(workerQ[h]))
        \/ m.broker_id = 0 /\ wpc[h] = "publish" /\ m = wmsg[h]
        \/ m.broker_id = h /\ wpc[h] = "fan_out" /\ m = wmsg[h]
    BY <2>1 DEF Begun
  <2>4. CASE m.broker_id = 0 /\ (m \in Elements(up[c]) \/ m \in Elements(workerQ[h]))
    BY <1>1, <2>1, <2>2, <2>4 DEF Begun, Elements, IsCopy
  <2>5. CASE h # b /\ m = wmsg[h]
    <3>1. wpc'[h] = wpc[h] /\ wmsg'[h] = wmsg[h] BY <2>5 DEF Leaves
    <3> QED BY <1>1, <2>1, <2>2, <2>3, <2>4, <2>5, <3>1 DEF Begun, IsCopy
  <2> QED BY <2>2, <2>3, <2>4, <2>5
<1> QED BY <1>2, <1>3, <1>4, <1>5, <1>6, DeliveryKept

LEMMA LeavesAsked ==
  ASSUME NEW b \in Broker, Leaves(b), wpc[b] # "subscribe", NEW c \in Client, AskedOK(c),
         \A m : Own(c, m) => Own(c, m)',
         \A t \in Topic : Filed(c, t) => Filed(c, t)'
  PROVE  AskedOK(c)'
<1>1. UNCHANGED <<up, workerQ, gid, wait, asked>> BY DEF Leaves, WorkerFrame, clientPart
<1>2. PICK h \in Broker : h = Home[c] BY Constants
<1>3. wpc[h] = "subscribe" => wpc'[h] = wpc[h] /\ wmsg'[h] = wmsg[h] BY DEF Leaves
<1>4. \A t \in Topic : Asks(c, t) => Asks(c, t)'
  <2>1. Elements(up'[c]) = Elements(up[c]) /\ Elements(workerQ'[h]) = Elements(workerQ[h])
    BY <1>1
  <2>2. /\ \A m \in Elements(up[c]) : m \in Elements(up'[c])
        /\ \A m \in Elements(workerQ[h]) : m \in Elements(workerQ'[h])
    BY <2>1
  <2>3. wpc[h] = "subscribe" /\ Own(c, wmsg[h]) => Own(c, wmsg[h])'
    <3>1. PICK m : m = wmsg[h] OBVIOUS
    <3>2. Own(c, m) => Own(c, m)' OBVIOUS
    <3>3. wpc[h] = "subscribe" => wmsg'[h] = m BY <1>3, <3>1
    <3>4. wpc[h] = "subscribe" /\ Own(c, m)' => Own(c, wmsg[h])' BY <3>3 DEF Own, Entered
    <3> QED BY <3>1, <3>2, <3>4
  <2> QED BY <1>2, <1>3, <2>2, <2>3, AsksRemain
<1> QED BY <1>1, <1>4, AskedStays

\* The tables and the topics stay as they are, too.
LEMMA LeavesAlone ==
  ASSUME Inv, Inv', CopiesInv, DeliveryInv, NEW b \in Broker, Leaves(b),
         UNCHANGED <<topics, ids>>, wpc[b] # "subscribe",
         \A p \in DOMAIN pubs : IsCopy(wmsg[b], p) =>
           /\ wpc[b] = "publish" => wmsg[b].broker_id # 0
           /\ wpc[b] = "fan_out" /\ wmsg[b].broker_id = b => Served(p)
  PROVE  DeliveryInv'
<1>1. gid' = gid BY DEF Leaves, WorkerFrame, clientPart
<1>2. \A c \in Client : \A t \in Topic : Filed(c, t) => Filed(c, t)' BY <1>1 DEF Filed
<1>3. \A c \in Client : \A m : Own(c, m) => Own(c, m)' BY DEF Own, Entered
<1>4. \A c \in Client : AskedOK(c)' BY <1>2, <1>3, LeavesAsked DEF DeliveryInv
<1> QED BY <1>2, <1>4, LeavesDelivery

LEMMA EndDelivery ==
  ASSUME Inv, Inv', IdsInv, CopiesInv, DeliveryInv, NEW b \in Broker,
         DiscardPublish(b) \/ RejectPublish(b) \/ EndFanOut(b)
  PROVE  DeliveryInv'
<1>1. /\ WorkerFrame /\ strayed' = strayed /\ respQ' = respQ
      /\ UNCHANGED <<users, topics, ids>> /\ wpc[b] \in {"publish", "fan_out"}
  BY DEF DiscardPublish, RejectPublish, EndFanOut, dbVars
<1>2. PICK step, m :
        /\ GoTo(b, step, m) /\ step \in {"idle", "respond"}
        /\ \/ wsubs' = wsubs /\ wrelayed' = wrelayed /\ wpc[b] # "fan_out"
           \/ wsubs' = wsubs /\ wrelayed' = [wrelayed EXCEPT ![b] = FALSE]
           \/ wsubs' = [wsubs EXCEPT ![b] = {}] /\ wrelayed' = [wrelayed EXCEPT ![b] = FALSE]
  <2>1. CASE DiscardPublish(b) BY <2>1 DEF DiscardPublish, Forget
  <2>2. CASE RejectPublish(b) BY <2>2 DEF RejectPublish, Forget
  <2>3. CASE EndFanOut(b) BY <2>3 DEF EndFanOut, Forget
  <2> QED BY <2>1, <2>2, <2>3
<1>3. Leaves(b) BY <1>1, <1>2, LeavesFor
<1>4. wpc[b] = "publish" => wmsg[b].broker_id # 0
  <2>1. CASE DiscardPublish(b) BY <2>1, Constants DEF DiscardPublish
  <2>2. CASE RejectPublish(b) BY <2>2, PublishesOwnOrNot DEF RejectPublish
  <2>3. CASE EndFanOut(b) BY <2>3 DEF EndFanOut
  <2> QED BY <2>1, <2>2, <2>3
<1>5. ASSUME NEW p \in DOMAIN pubs, IsCopy(wmsg[b], p), wpc[b] = "fan_out", wmsg[b].broker_id = b
      PROVE  Served(p)
  <2>1. wsubs[b] = {} BY <1>5 DEF DiscardPublish, RejectPublish, EndFanOut
  <2>2. Home[pubs[p].by] = b BY <1>5, FanOutMsg DEF PublishedAt, IsCopy
  <2>3. HomeListed(b) BY DEF DeliveryInv
  <2> QED BY <1>5, <2>1, <2>2, <2>3 DEF Served, HomeListed, IsCopy
<1> QED BY <1>1, <1>3, <1>4, <1>5, LeavesAlone

LEMMA RespondDelivery ==
  ASSUME Inv, Inv', CopiesInv, DeliveryInv, NEW b \in Broker, Respond(b)
  PROVE  DeliveryInv'
BY RespondLeaves, LeavesAlone

LEMMA CreateUserDelivery ==
  ASSUME Inv, Inv', CopiesInv, DeliveryInv, NEW b \in Broker, CreateUser(b)
  PROVE  DeliveryInv'
<1>1. /\ WorkerFrame /\ strayed' = strayed /\ respQ' = respQ /\ wpc[b] = "add_user"
      /\ UNCHANGED <<topics, ids, wsubs, wrelayed>>
  BY DEF CreateUser, NoFanOut, DbAddUser
<1>2. PICK k : GoTo(b, "add_id", k) BY DEF CreateUser
<1>3. Leaves(b) BY <1>1, <1>2, LeavesFor
<1> QED BY <1>1, <1>3, LeavesAlone

\* A client that is given an id keeps what it had.
LEMMA CreateIdDelivery ==
  ASSUME Inv, Inv', CopiesInv, DeliveryInv, NEW b \in Broker, CreateId(b)
  PROVE  DeliveryInv'
<1>1. /\ WorkerFrame /\ strayed' = strayed /\ respQ' = respQ /\ wpc[b] = "add_id"
      /\ UNCHANGED <<users, topics, wsubs, wrelayed>>
  BY DEF CreateId, NoFanOut, dbVars
<1>2. PICK m : GoTo(b, "respond", m) BY DEF CreateId
<1>3. Leaves(b) BY <1>1, <1>2, LeavesFor
<1>4. CASE ids' = ids BY <1>1, <1>3, <1>4, LeavesAlone
<1>5. CASE ids' = [ids EXCEPT ![b] = AddGlobalId(ids[b], wmsg[b].global_id, wmsg[b].mtype)]
  <2>1. PICK k, x, old : k = wmsg[b].global_id /\ x = wmsg[b].mtype /\ old = ids[b] OBVIOUS
  <2>2. k \in Nat /\ x \in Client
    BY <1>1, <2>1 DEF Inv, WorkersOK, WorkerOK, ClientOf, Msg
  <2>3. \A d \in Broker : ids'[d] = IF d = b THEN AddGlobalId(old, k, x) ELSE ids[d]
    BY <1>5, <2>1 DEF Inv, TablesOK
  <2>4. \A e : Has(AddGlobalId(old, k, x), e) <=> Has(old, e) \/ e = Entry(k, x)
    <3>1. PICK S : S = [global_id : Nat, mtype : Connection] OBVIOUS
    <3>2. old \in Seq(S) /\ Entry(k, x) \in S
      BY <2>1, <2>2, <3>1 DEF Inv, TablesOK, Entry, Connection
    <3> QED BY <3>2, AddedEntries
  <2>5. ASSUME NEW c \in Client, NEW id, Entered(c, id) PROVE Entered(c, id)'
    <3>1. PICK h \in Broker : h = Home[c] BY Constants
    <3>2. CASE h = b BY <2>1, <2>3, <2>4, <2>5, <3>1, <3>2 DEF Entered
    <3>3. CASE h # b BY <2>3, <2>5, <3>1, <3>3 DEF Entered
    <3> QED BY <3>2, <3>3
  <2>6. ASSUME NEW c \in Client, NEW n, Own(c, n) PROVE Own(c, n)'
    <3>1. PICK id : id = n.mtype OBVIOUS
    <3>2. Entered(c, id) => Entered(c, id)' BY <2>5
    <3> QED BY <2>6, <3>1, <3>2 DEF Own
  <2>7. gid' = gid BY <1>1 DEF WorkerFrame, clientPart
  <2>8. \A c \in Client : \A t \in Topic : Filed(c, t) => Filed(c, t)' BY <1>1, <2>7 DEF Filed
  <2>9. \A c \in Client : AskedOK(c)' BY <1>1, <1>3, <2>6, <2>8, LeavesAsked DEF DeliveryInv
  <2> QED BY <1>1, <1>3, <2>8, <2>9, LeavesDelivery
<1> QED BY <1>4, <1>5 DEF CreateId

\* A client that waits for the end of its id, or has none, is none of those that wait
\* for publications.
LEMMA LeaverAsked ==
  ASSUME NEW b \in Broker, Leaves(b), NEW c \in Client, AskedOK(c),
         wait[c] = "DESTROY" \/ gid[c] = 0
  PROVE  AskedOK(c)'
<1>1. UNCHANGED <<gid, wait, asked>> BY DEF Leaves, WorkerFrame, clientPart
<1> QED BY <1>1 DEF AskedOK

LEMMA RemoveIdDelivery ==
  ASSUME Inv, Inv', IdsInv, CopiesInv, DeliveryInv, NEW b \in Broker, RemoveId(b)
  PROVE  DeliveryInv'
<1>1. /\ WorkerFrame /\ strayed' = strayed /\ respQ' = respQ /\ wpc[b] = "remove_id"
      /\ UNCHANGED <<users, topics, wsubs, wrelayed>>
      /\ ids' = [ids EXCEPT ![b] = RemoveGlobalId(ids[b], wmsg[b].global_id)]
  BY DEF RemoveId, NoFanOut, dbVars
<1>2. PICK m : GoTo(b, "respond", m) BY DEF RemoveId
<1>3. Leaves(b) BY <1>1, <1>2, LeavesFor
<1>4. PICK n, old : n = wmsg[b].global_id /\ old = ids[b] OBVIOUS
<1>5. PICK c \in Client : Home[c] = b /\ wait[c] = "DESTROY" /\ n = gid[c] /\ Entered(c, n)
  BY <1>1, <1>4, BusyClient DEF BusyWith
<1>6. \A d \in Broker : ids'[d] = IF d = b THEN RemoveGlobalId(old, n) ELSE ids[d]
  BY <1>1, <1>4 DEF Inv, TablesOK
<1>7. \A e : Has(RemoveGlobalId(old, n), e) <=> Has(old, e) /\ e.global_id # n
  <2>1. PICK S : S = [global_id : Nat, mtype : Connection] OBVIOUS
  <2>2. old \in Seq(S) /\ UniqueTable(old)
    BY <1>4, <2>1 DEF Inv, TablesOK, IdsInv, IdsOK, EntriesUnique
  <2> QED BY <2>2, RemovedEntries
<1>8. ASSUME NEW d \in Client, d # c, NEW id, Entered(d, id) PROVE Entered(d, id)'
  <2>1. PICK h \in Broker : h = Home[d] BY Constants
  <2>2. Entry(id, d).global_id = id BY DEF Entry
  <2>3. CASE h = b
    <3>1. id # n BY <1>5, <1>8, <2>1, <2>3, OneEntry DEF IdsInv, IdsOK
    <3> QED BY <1>4, <1>6, <1>7, <1>8, <2>1, <2>2, <2>3, <3>1 DEF Entered
  <2>4. CASE h # b BY <1>6, <1>8, <2>1, <2>4 DEF Entered
  <2> QED BY <2>3, <2>4
<1>9. gid' = gid BY <1>1 DEF WorkerFrame, clientPart
<1>10. \A d \in Client : \A t \in Topic : Filed(d, t) => Filed(d, t)' BY <1>1, <1>9 DEF Filed
<1>11. ASSUME NEW d \in Client PROVE AskedOK(d)'
  <2>1. CASE d = c BY <1>3, <1>5, <2>1, LeaverAsked DEF DeliveryInv
  <2>2. CASE d # c
    <3>1. ASSUME NEW k, Own(d, k) PROVE Own(d, k)'
      <4>1. PICK id : id = k.mtype OBVIOUS
      <4>2. Entered(d, id) => Entered(d, id)' BY <1>8, <2>2
      <4> QED BY <3>1, <4>1, <4>2 DEF Own
    <3> QED BY <1>1, <1>3, <1>10, <3>1, LeavesAsked DEF DeliveryInv
  <2> QED BY <2>1, <2>2
<1> QED BY <1>1, <1>3, <1>10, <1>11, LeavesDelivery

\* The lines of another id than the deleted one stay.
LEMMA DeleteUserDelivery ==
  ASSUME Inv, Inv', IdsInv, CopiesInv, DeliveryInv, NEW b \in Broker, DeleteUser(b)
  PROVE  DeliveryInv'
<1>1. /\ WorkerFrame /\ strayed' = strayed /\ respQ' = respQ /\ wpc[b] = "delete"
      /\ UNCHANGED <<ids, wsubs, wrelayed>>
      /\ wmsg[b].type = "DESTROY" /\ wmsg[b].broker_id = 0 /\ wmsg[b] \in Msg /\ wmsg[b].mtype \in Nat
  BY DEF DeleteUser, NoFanOut, Inv, WorkersOK, WorkerOK, Identified, IdsInv, ServedOK, BusyOK
<1>2. PICK m : GoTo(b, "remove_id", m) BY DEF DeleteUser
<1>3. Leaves(b) BY <1>1, <1>2, LeavesFor
<1>4. PICK c \in Client : /\ Home[c] = b /\ wait[c] = "DESTROY" /\ wmsg[b].mtype = gid[c]
                          /\ Live(c) /\ gid[c] \in users
  BY <1>1, FirstClient
<1>5. PICK g : g = gid[c] OBVIOUS
<1>6. topics' = [t \in Topic |-> Without(topics[t], g)]
  <2>1. Resolved(b).global_id = g BY <1>1, <1>4, <1>5, ResolvedMsg DEF Inv
  <2> QED BY <1>4, <1>5, <2>1 DEF DeleteUser, DbDelete
<1>7. ASSUME NEW d \in Client, gid[d] # g, NEW t \in Topic, Filed(d, t) PROVE Filed(d, t)'
  <2>1. PICK l \in topics[t] : l.id = gid[d] BY <1>7 DEF Filed
  <2>2. \E k \in Without(topics[t], g) : k.id = l.id
    <3>1. LET kept == {k \in topics[t] : k.id # g} IN
            [pos |-> Cardinality({k \in kept : k.pos <= l.pos}), id |-> l.id] \in Without(topics[t], g)
      BY <1>7, <2>1 DEF Without
    <3> QED BY <3>1
  <2>3. gid' = gid BY <1>1 DEF WorkerFrame, clientPart
  <2> QED BY <1>6, <2>1, <2>2, <2>3 DEF Filed
<1>8. ASSUME NEW d \in Client, wait[d] # "DESTROY", gid[d] # 0 PROVE gid[d] # g
  <2>1. Live(d) BY <1>8 DEF IdsInv, ServedOK, ClientOK, Holds
  <2> SUFFICES ASSUME gid[d] = g PROVE FALSE OBVIOUS
  <2>2. Owner(d, g) /\ Owner(c, g) /\ g \in users BY <1>4, <1>5, <2>1 DEF Live
  <2>3. d = c BY <2>2 DEF IdsInv, IdsOK, OwnersUnique
  <2> QED BY <1>4, <1>8, <2>3
<1>9. ASSUME NEW d \in Client, InAudience(d) PROVE \A t \in Topic : Filed(d, t) => Filed(d, t)'
  <2>1. wait[d] # "DESTROY" /\ gid[d] # 0 BY <1>9 DEF InAudience, DeliveryInv, AudienceOK
  <2> QED BY <1>7, <1>8, <2>1
<1>10. ASSUME NEW d \in Client PROVE AskedOK(d)'
  <2>1. CASE wait[d] = "DESTROY" \/ gid[d] = 0 BY <1>3, <2>1, LeaverAsked DEF DeliveryInv
  <2>2. CASE wait[d] # "DESTROY" /\ gid[d] # 0
    <3>1. \A k : Own(d, k) => Own(d, k)' BY <1>1 DEF Own, Entered
    <3> QED BY <1>1, <1>3, <1>7, <1>8, <2>2, <3>1, LeavesAsked DEF DeliveryInv
  <2> QED BY <2>1, <2>2
<1> QED BY <1>1, <1>3, <1>9, <1>10, LeavesDelivery

\* The request of a client becomes its line.
LEMMA ProcessSubscribeDelivery ==
  ASSUME Inv, Inv', IdsInv, CopiesInv, DeliveryInv, NEW b \in Broker, ProcessSubscribe(b)
  PROVE  DeliveryInv'
<1>1. /\ WorkerFrame /\ strayed' = strayed /\ respQ' = respQ /\ wpc[b] = "subscribe"
      /\ wmsg[b].type = "SUBSCRIBE" /\ wmsg[b].broker_id = 0 /\ wmsg[b] \in Msg
      /\ wmsg[b].mtype \in Nat /\ wmsg[b].topic \in Topic
      /\ UNCHANGED <<ids, wsubs, wrelayed, up, workerQ, gid, wait, asked>>
  BY DEF ProcessSubscribe, NoFanOut, WorkerFrame, clientPart, Inv, WorkersOK, WorkerOK, Identified
<1>2. PICK m : GoTo(b, "respond", m) BY DEF ProcessSubscribe
<1>3. Leaves(b) BY <1>1, <1>2, LeavesFor
<1>4. PICK g, h : g = wmsg[b].mtype /\ h = wmsg[b].topic OBVIOUS
<1>5. PICK c \in Client : /\ Home[c] = b /\ Serves(c) /\ g = gid[c] /\ g \in users
                          /\ GetMtype(ids[b], g) = c
  BY <1>1, <1>4, FirstClient
<1>6. PICK new : new.id = g /\ topics' = [topics EXCEPT ![h] = topics[h] \cup {new}]
  <2>1. PICK r : r = Resolved(b) OBVIOUS
  <2>2. r.global_id = g /\ r.topic = h BY <1>1, <1>4, <2>1, ResolvedMsg DEF Inv
  <2>3. ~Unknown(r)
    <3>1. r.mtype = c BY <1>1, <1>4, <1>5, <2>1 DEF Resolved, Msg
    <3> QED BY <3>1, Constants DEF Unknown, NO_MTYPE_FOUND_CODE
  <2>4. DbSubscribe(g, h) BY <1>5, <2>1, <2>2, <2>3 DEF ProcessSubscribe
  <2>5. [pos |-> 1 + Cardinality(topics[h]), id |-> g].id = g OBVIOUS
  <2> QED BY <2>4, <2>5 DEF DbSubscribe
<1>7. \A t \in Topic : topics'[t] = IF t = h THEN topics[t] \cup {new} ELSE topics[t]
  BY <1>6 DEF Inv, DbOK, DbTypeOK
<1>8. \A d \in Client : \A t \in Topic : Filed(d, t) => Filed(d, t)' BY <1>1, <1>7 DEF Filed
<1>9. Filed(c, h)' BY <1>1, <1>4, <1>5, <1>6, <1>7 DEF Filed
<1>10. \A d \in Client : \A k : Own(d, k)' <=> Own(d, k) BY <1>1 DEF Own, Entered
<1>11. ASSUME NEW d \in Client, NEW t \in Topic PROVE Filed(d, t)' \/ (Asks(d, t) => Asks(d, t)')
  <2> SUFFICES ASSUME NEW k, Asked(d, t, k) PROVE Filed(d, t)' \/ Asked(d, t, k)' BY AsksIs
  <2>1. PICK e \in Broker : e = Home[d] BY Constants
  <2>2. ForTopic(k, t) BY DEF Asked
  <2>3. \/ k \in Elements(up[d]) \/ (k \in Elements(workerQ[e]) /\ Own(d, k))
        \/ wpc[e] = "subscribe" /\ Own(d, k) /\ k = wmsg[e]
    BY <2>1 DEF Asked
  <2>4. CASE k \in Elements(up[d]) \/ (k \in Elements(workerQ[e]) /\ Own(d, k))
    <3>1. k \in Elements(up'[d]) \/ (k \in Elements(workerQ'[e]) /\ Own(d, k)')
      BY <1>1, <1>10, <2>4
    <3> QED BY <2>1, <2>2, <3>1 DEF Asked, ForTopic, Elements
  <2>5. CASE e # b /\ wpc[e] = "subscribe" /\ Own(d, k) /\ k = wmsg[e]
    <3>1. wpc'[e] = wpc[e] /\ wmsg'[e] = wmsg[e] BY <1>3, <2>5 DEF Leaves
    <3>2. Own(d, k)' BY <1>10, <2>5
    <3> QED BY <2>1, <2>2, <2>5, <3>1, <3>2 DEF Asked, ForTopic
  <2>6. CASE e = b /\ Own(d, k) /\ k = wmsg[e]
    <3>1. Own(c, k) BY <1>1, <1>5, <2>6 DEF Serves
    <3>2. d = c BY <1>5, <2>1, <2>6, <3>1, OwnUnique DEF IdsInv, IdsOK
    <3>3. t = h BY <1>4, <2>2, <2>6 DEF ForTopic
    <3> QED BY <1>9, <3>2, <3>3
  <2> QED BY <2>3, <2>4, <2>5, <2>6
<1>12. ASSUME NEW d \in Client PROVE AskedOK(d)'
  BY <1>1, <1>8, <1>11, AskedStays DEF DeliveryInv
<1> QED BY <1>1, <1>3, <1>8, <1>12, LeavesDelivery

-----------------------------------------------------------------------------
(* A message moves.                                                        *)

LEMMA MoveDelivery ==
  ASSUME Inv, Inv', CopiesInv, DeliveryInv, ListsServed, Onward,
         UNCHANGED <<topics, got, asked, down, pubs, strayed, conn, gid, wait>>,
         \A c \in Client : respQ'[c] = respQ[c] \/ \E m \in Msg : respQ'[c] = Append(respQ[c], m),
         \A c \in Client : \A t \in Topic : Asks(c, t) => Asks(c, t)'
  PROVE  DeliveryInv'
<1>1. AudiencesOnlyShrink BY SameAudiences
<1>2. \A c \in Client : \A t \in Topic : Filed(c, t)' <=> Filed(c, t) BY DEF Filed
<1>3. ASSUME NEW c \in Client, InAudience(c)' PROVE Stays(c)
  BY <1>1, <1>2, <1>3, AudienceOn DEF DeliveryInv, Stays
<1>4. SentRemain
  <2> SUFFICES ASSUME NEW p \in DOMAIN pubs, NEW c \in pubs[p].audience, Sent(c, p)
               PROVE  Sent(c, p)'
    BY DEF SentRemain
  <2>1. c \in Client BY AudienceOf
  <2> QED BY <2>1, SentKept DEF CopiesInv
<1>5. \A c \in Client : AskedOK(c)' BY <1>2, AskedStays DEF DeliveryInv
<1> QED BY <1>1, <1>3, <1>4, <1>5, DeliveryKept

LEMMA RingRespHandlerDelivery ==
  ASSUME Inv, Inv', CopiesInv, DeliveryInv, NEW b \in Broker, RingRespHandler(b)
  PROVE  DeliveryInv'
<1>1. PICK x \in Broker : x = Succ(b) BY SuccBroker
<1>2. /\ respQ' = [respQ EXCEPT ![b] = Tail(respQ[b])]
      /\ up' = [up EXCEPT ![x] = Append(up[x], Outgoing(Head(respQ[b])))]
      /\ UNCHANGED <<users, topics, ids, workerQ, wpc, wmsg, wsubs>>
      /\ UNCHANGED <<got, asked, down, pubs, strayed, conn, gid, wait>>
  BY <1>1 DEF RingRespHandler, dbVars, workerPart, clientPart
<1>3. \A c \in Client : up'[c] = up[c] /\ respQ'[c] = respQ[c]
  BY <1>2, Constants DEF Inv, UpOK, RespQOK, Connection
<1>4. ListsServed BY <1>2 DEF ListsServed
<1>5. Onward
  <2> SUFFICES ASSUME NEW p \in DOMAIN pubs, NEW m, Begun(p, m) PROVE Begun(p, m)'
    BY DEF Onward
  <2>1. pubs[p].by \in Client BY AudienceOf
  <2>2. up'[pubs[p].by] = up[pubs[p].by] BY <1>3, <2>1
  <2> QED BY <1>2, <2>2 DEF Begun, Elements, IsCopy
<1>6. ASSUME NEW c \in Client, NEW t \in Topic PROVE Asks(c, t) => Asks(c, t)'
  <2>1. PICK h \in Broker : h = Home[c] BY Constants
  <2>2. \A m : Own(c, m)' <=> Own(c, m) BY <1>2 DEF Own, Entered
  <2>3. up'[c] = up[c] BY <1>3
  <2> QED BY <1>2, <2>1, <2>2, <2>3, AsksRemain
<1> QED BY <1>2, <1>3, <1>4, <1>5, <1>6, MoveDelivery

LEMMA ReqHandlerDelivery ==
  ASSUME Inv, Inv', IdsInv, CopiesInv, DeliveryInv, NEW x \in Connection, ReqHandler(x)
  PROVE  DeliveryInv'
<1>1. PICK b \in Broker : b = Server(x) BY Constants DEF Server, Connection
<1>2. PICK h : h = Head(up[x]) OBVIOUS
<1>3. PICK k : k = IF h.type = "CREATE" THEN [h EXCEPT !.mtype = x] ELSE h OBVIOUS
<1>4. /\ up[x] # <<>>
      /\ up' = [up EXCEPT ![x] = Tail(up[x])]
      /\ workerQ' = [workerQ EXCEPT ![b] = Append(workerQ[b], k)]
      /\ UNCHANGED <<users, topics, ids, respQ, wpc, wmsg, wsubs>>
      /\ UNCHANGED <<got, asked, down, pubs, strayed, conn, gid, wait>>
  BY <1>1, <1>2, <1>3 DEF ReqHandler, dbVars, workerPart, clientPart
<1>5. /\ up \in [Connection -> Seq(Msg)] /\ workerQ \in [Broker -> Seq(Msg)]
      /\ \A c \in Client : c \in Connection
  BY DEF Inv, UpOK, WorkQOK, Connection
<1>6. PICK q \in Seq(Msg), r \in Seq(Msg) : q = up[x] /\ q # <<>> /\ r = workerQ[b]
  BY <1>4, <1>5
<1>7. h \in Msg /\ Elements(q) = Elements(Tail(q)) \cup {h}
  <2>1. Head(q) \in Elements(q) /\ Elements(q) \subseteq Msg BY <1>6, QueueElements, IdleMsg
  <2> QED BY <1>2, <1>6, <2>1, QueueElements, IdleMsg
<1>8. k \in Msg /\ (h.type # "CREATE" => k = h)
  <2>1. PICK g \in Msg : g = h BY <1>7
  <2>2. x \in Int \cup Client BY DEF Connection, Broker
  <2> QED BY <1>3, <2>1, <2>2 DEF Msg
<1>9. Elements(Append(r, k)) = Elements(r) \cup {k} BY <1>8, QueueElements
<1>10. /\ up'[x] = Tail(q) /\ \A y \in Connection : y # x => up'[y] = up[y]
       /\ workerQ'[b] = Append(r, k) /\ \A d \in Broker : d # b => workerQ'[d] = workerQ[d]
  BY <1>4, <1>5, <1>6
<1>11. \A d \in Broker : \A m \in Elements(workerQ[d]) : m \in Elements(workerQ'[d])
  BY <1>6, <1>9, <1>10
<1>12. ASSUME NEW c \in Client, NEW m \in Elements(up[c]), m.type # "CREATE"
       PROVE  m \in Elements(up'[c]) \/ m \in Elements(workerQ'[Home[c]])
  <2>1. CASE c # x BY <1>5, <1>10, <1>12, <2>1
  <2>2. CASE c = x
    <3>1. Home[c] = b BY <1>1, <2>2, Constants DEF Server
    <3>2. m \in Elements(Tail(q)) \/ m = h BY <1>6, <1>7, <1>12, <2>2
    <3>3. m = h => m \in Elements(Append(r, k)) BY <1>8, <1>9, <1>12
    <3> QED BY <1>10, <2>2, <3>1, <3>2, <3>3
  <2> QED BY <2>1, <2>2
<1>13. ListsServed BY <1>4 DEF ListsServed
<1>14. Onward
  <2> SUFFICES ASSUME NEW p \in DOMAIN pubs, NEW m, Begun(p, m) PROVE Begun(p, m)'
    BY DEF Onward
  <2>1. PICK c \in Client, d \in Broker : c = pubs[p].by /\ d = Home[c] BY AudienceOf, Constants
  <2>2. m.type # "CREATE" BY DEF Begun, IsCopy
  <2>3. m \in Elements(up[c]) => m \in Elements(up'[c]) \/ m \in Elements(workerQ'[d])
    BY <1>12, <2>1, <2>2
  <2>4. m \in Elements(workerQ[d]) => m \in Elements(workerQ'[d]) BY <1>11
  <2> QED BY <1>4, <2>1, <2>3, <2>4 DEF Begun, Elements, IsCopy
<1>15. ASSUME NEW c \in Client, NEW t \in Topic PROVE Asks(c, t) => Asks(c, t)'
  <2>1. PICK d \in Broker : d = Home[c] BY Constants
  <2>2. \A m : Own(c, m)' <=> Own(c, m) BY <1>4 DEF Own, Entered
  <2>3. ASSUME NEW m \in Elements(up[c]), m.type = "SUBSCRIBE"
        PROVE  m \in Elements(up'[c]) \/ (m \in Elements(workerQ'[d]) /\ Own(c, m)')
    <3>1. Pending(c, m) BY <2>3 DEF IdsInv, ServedOK, ClientOK, SentOK
    <3>2. Own(c, m) BY <2>3, <3>1 DEF Pending, Own, Live, Owner
    <3> QED BY <1>12, <2>1, <2>2, <2>3, <3>2
  <2> QED BY <1>4, <1>11, <2>1, <2>2, <2>3, AsksRemain
<1> QED BY <1>4, <1>13, <1>14, <1>15, MoveDelivery

LEMMA WorkerReceiveDelivery ==
  ASSUME Inv, Inv', CopiesInv, DeliveryInv, NEW b \in Broker, WorkerReceive(b)
  PROVE  DeliveryInv'
<1>1. PICK h : h = Head(workerQ[b]) OBVIOUS
<1>2. /\ wpc[b] = "idle" /\ workerQ[b] # <<>>
      /\ wmsg' = [wmsg EXCEPT ![b] = h]
      /\ wpc' = [wpc EXCEPT ![b] = FirstStep[h.type]]
      /\ workerQ' = [workerQ EXCEPT ![b] = Tail(workerQ[b])]
      /\ UNCHANGED <<users, topics, ids, respQ, up, wsubs>>
      /\ UNCHANGED <<got, asked, down, pubs, strayed, conn, gid, wait>>
  BY <1>1 DEF WorkerReceive, dbVars, clientPart
<1>3. /\ workerQ \in [Broker -> Seq(Msg)] /\ wpc \in [Broker -> Steps] /\ wmsg \in [Broker -> Msg]
      /\ workerQ[b] \in Seq(ForWorker(b))
  BY DEF Inv, WorkQOK, WorkersOK
<1>4. PICK q \in Seq(Msg) : q = workerQ[b] /\ q # <<>> BY <1>2, <1>3
<1>5. Elements(q) = Elements(Tail(q)) \cup {h} /\ h \in Elements(q)
  BY <1>1, <1>4, QueueElements, IdleMsg
<1>6. h.type \in Request
  <2>1. h \in ForWorker(b) BY <1>3, <1>4, <1>5, ElementOfSeq, LenProperties DEF Elements
  <2> QED BY <2>1 DEF ForWorker, Arriving, OnRing, Identified, Labelled, Request
<1>7. /\ wpc'[b] = FirstStep[h.type] /\ wmsg'[b] = h /\ workerQ'[b] = Tail(q)
      /\ \A d \in Broker : d # b => wpc'[d] = wpc[d] /\ wmsg'[d] = wmsg[d] /\ workerQ'[d] = workerQ[d]
  BY <1>2, <1>3, <1>4
<1>8. /\ h.type = "PUBLISH" => wpc'[b] = "publish"
      /\ h.type = "SUBSCRIBE" => wpc'[b] = "subscribe"
      /\ wpc'[b] # "fan_out"
  BY <1>6, <1>7 DEF FirstStep, Request
<1>9. \A d \in Broker : \A m \in Elements(workerQ[d]) :
        m \in Elements(workerQ'[d]) \/ (d = b /\ m = h)
  BY <1>4, <1>5, <1>7
<1>10. ListsServed BY <1>2, <1>7, <1>8 DEF ListsServed
<1>11. Onward
  <2> SUFFICES ASSUME NEW p \in DOMAIN pubs, NEW m, Begun(p, m) PROVE Begun(p, m)'
    BY DEF Onward
  <2>1. PICK c \in Client, d \in Broker : c = pubs[p].by /\ d = Home[c] BY AudienceOf, Constants
  <2>2. IsCopy(m, p) /\ IsCopy(m, p)' BY DEF Begun, IsCopy
  <2>3. CASE m.broker_id = 0 /\ m \in Elements(up[c])
    BY <1>2, <2>1, <2>2, <2>3 DEF Begun, Elements, IsCopy
  <2>4. CASE m.broker_id = 0 /\ m \in Elements(workerQ[d])
    <3>1. CASE m \in Elements(workerQ'[d]) BY <1>2, <2>1, <2>2, <2>4, <3>1 DEF Begun, Elements, IsCopy
    <3>2. CASE d = b /\ m = h
      <4>1. wpc'[d] = "publish" /\ m = wmsg'[d] BY <1>7, <1>8, <2>2, <3>2 DEF IsCopy
      <4> QED BY <1>2, <2>1, <2>2, <2>4, <4>1 DEF Begun, IsCopy
    <3> QED BY <1>9, <2>4, <3>1, <3>2
  <2>5. CASE wpc[d] \in {"publish", "fan_out"} /\ m = wmsg[d]
    <3>1. wpc'[d] = wpc[d] /\ wmsg'[d] = wmsg[d] BY <1>2, <1>7, <2>5
    <3>2. \/ m.broker_id = 0 /\ (m \in Elements(up[c]) \/ m \in Elements(workerQ[d]))
          \/ m.broker_id = 0 /\ wpc[d] = "publish" /\ m = wmsg[d]
          \/ m.broker_id = d /\ wpc[d] = "fan_out" /\ m = wmsg[d]
      BY <2>1 DEF Begun
    <3>3. CASE \/ m.broker_id = 0 /\ wpc[d] = "publish" /\ m = wmsg[d]
               \/ m.broker_id = d /\ wpc[d] = "fan_out" /\ m = wmsg[d]
      BY <1>2, <2>1, <2>2, <3>1, <3>3 DEF Begun, IsCopy
    <3> QED BY <2>3, <2>4, <3>2, <3>3
  <2> QED BY <2>1, <2>3, <2>4, <2>5 DEF Begun
<1>12. ASSUME NEW c \in Client, NEW t \in Topic PROVE Asks(c, t) => Asks(c, t)'
  <2>1. PICK d \in Broker : d = Home[c] BY Constants
  <2>2. \A m : Own(c, m)' <=> Own(c, m) BY <1>2 DEF Own, Entered
  <2>3. \A m \in Elements(workerQ[d]) : m.type = "SUBSCRIBE" =>
          m \in Elements(workerQ'[d]) \/ (wpc'[d] = "subscribe" /\ wmsg'[d] = m)
    BY <1>7, <1>8, <1>9
  <2>4. wpc[d] = "subscribe" => wpc'[d] = wpc[d] /\ wmsg'[d] = wmsg[d] BY <1>2, <1>7
  <2>5. wpc[d] = "subscribe" /\ Own(c, wmsg[d]) => Own(c, wmsg[d])'
    <3>1. PICK m : m = wmsg[d] OBVIOUS
    <3>2. wpc[d] = "subscribe" /\ Own(c, m)' => Own(c, wmsg[d])' BY <2>4, <3>1 DEF Own, Entered
    <3> QED BY <2>2, <3>1, <3>2
  <2>6. \A m \in Elements(up[c]) : m \in Elements(up'[c]) BY <1>2
  <2> QED BY <2>1, <2>2, <2>3, <2>4, <2>5, <2>6, AsksRemain
<1> QED BY <1>2, <1>10, <1>11, <1>12, MoveDelivery

-----------------------------------------------------------------------------
(* The list of subscribers is gone through.                                *)

LEMMA AsksUnmoved ==
  ASSUME NEW c \in Client, NEW t \in Topic, UNCHANGED <<ids, up, workerQ, wpc, wmsg>>
  PROVE  Asks(c, t) => Asks(c, t)'
<1>1. PICK b \in Broker : b = Home[c] BY Constants
<1>2. \A m : Own(c, m)' <=> Own(c, m) BY DEF Own, Entered
<1> QED BY <1>1, <1>2, AsksRemain

\* The table of its broker has those for whom a publication was sent.
LEMMA AudienceEntered ==
  ASSUME IdsInv, AudienceOK, NEW p \in DOMAIN pubs, NEW c \in Client, c \in pubs[p].audience
  PROVE  Entered(c, gid[c])
<1>1. gid[c] # 0 /\ wait[c] # "DESTROY" BY DEF AudienceOK
<1>2. Live(c) BY <1>1 DEF IdsInv, ServedOK, ClientOK, Holds
<1> QED BY <1>2 DEF Live, Owner

LEMMA UnsentDelivery ==
  ASSUME Inv, Inv', CopiesInv, DeliveryInv, ListsServed,
         UNCHANGED <<ids, up, workerQ, wpc, wmsg, topics, got, asked, down, pubs, strayed, conn, gid, wait>>,
         \A c \in Client : respQ'[c] = respQ[c] \/ \E m \in Msg : respQ'[c] = Append(respQ[c], m)
  PROVE  DeliveryInv'
<1>1. Onward BY DEF Onward, Begun, Elements, IsCopy
<1>2. \A c \in Client : \A t \in Topic : Asks(c, t) => Asks(c, t)' BY AsksUnmoved
<1> QED BY <1>1, <1>2, MoveDelivery

LEMMA SendToLocalDelivery ==
  ASSUME Inv, Inv', IdsInv, CopiesInv, DeliveryInv, NEW b \in Broker, SendToLocal(b)
  PROVE  DeliveryInv'
<1>1. PICK l \in wsubs[b] :
        /\ GetMtype(ids[b], l.id) # NO_MTYPE_FOUND_CODE
        /\ QueueResp(GetMtype(ids[b], l.id), Addressed(b, l, GetMtype(ids[b], l.id)))
        /\ wsubs' = [wsubs EXCEPT ![b] = @ \ {l}]
  BY DEF SendToLocal
<1>2. /\ wpc[b] = "fan_out"
      /\ UNCHANGED <<ids, up, workerQ, wpc, wmsg, topics, got, asked, down, pubs, strayed, conn, gid, wait>>
  BY DEF SendToLocal, WorkerFrame, clientPart, dbVars
<1>3. PICK pid : pid = GetMtype(ids[b], l.id) OBVIOUS
<1>4. /\ l.id = NEXT_SERVER_GLOBAL_ID => pid = b
      /\ l.id # NEXT_SERVER_GLOBAL_ID => pid \in Client /\ Home[pid] = b
  BY <1>1, <1>3, HeaderKnown DEF Inv, ClientOf
<1>5. pid \in Connection BY <1>4 DEF Connection
<1>6. PICK m \in Msg : m = Addressed(b, l, pid) /\ \A p : IsCopy(m, p) <=> IsCopy(wmsg[b], p)
  BY <1>2, <1>5, AddressedCopy
<1>7. respQ' = [respQ EXCEPT ![pid] = Append(respQ[pid], m)] BY <1>1, <1>3, <1>6 DEF QueueResp
<1>8. /\ respQ \in [Connection -> Seq(Msg)] /\ wsubs \in [Broker -> SUBSET Line]
      /\ \A x : x \in Client => x \in Connection
  BY DEF Inv, RespQOK, Connection, WorkersOK
<1>9. /\ respQ'[pid] = Append(respQ[pid], m)
      /\ \A x \in Connection : x # pid => respQ'[x] = respQ[x]
  BY <1>5, <1>7, <1>8
<1>10. /\ wsubs'[b] = wsubs[b] \ {l}
       /\ \A d \in Broker : d # b => wsubs'[d] = wsubs[d]
  BY <1>1, <1>8
<1>11. ASSUME NEW p \in DOMAIN pubs, p = wmsg[b].pub, NEW c \in pubs[p].audience,
              Home[c] = b, l.id = gid[c]
       PROVE  Sent(c, p)'
  <2>1. c \in Client BY <1>11, AudienceOf
  <2>2. Entered(c, gid[c]) BY <1>11, <2>1, AudienceEntered DEF DeliveryInv
  <2>3. pid = c BY <1>3, <1>11, <2>1, <2>2, MtypeOfOwner DEF Inv, IdsInv, IdsOK
  <2>4. IsCopy(m, p) BY <1>1, <1>2, <1>6, <1>11, FanOutMsg DEF IsCopy
  <2>5. PICK q \in Seq(Msg) : q = respQ[c] BY <1>8, <2>1
  <2>6. m \in Elements(Append(q, m)) BY QueueElements
  <2>7. m \in Elements(respQ'[c]) BY <1>9, <2>3, <2>5, <2>6
  <2>8. got'[c][p] \in Nat /\ respQ'[c] \in Seq(Msg) /\ down'[c] \in Seq(Msg)
    BY <2>1, NewsWillBe DEF CopiesInv
  <2> QED BY <2>4, <2>7, <2>8, SentWillBe
<1>12. ListsServed
  <2> SUFFICES ASSUME NEW d \in Broker, wpc'[d] = "fan_out", wmsg'[d].broker_id = d,
                      NEW k \in wsubs[d], k \notin wsubs'[d],
                      NEW p \in DOMAIN pubs, p = wmsg[d].pub,
                      NEW c \in pubs[p].audience, Home[c] = d, k.id = gid[c]
               PROVE  Sent(c, p)'
    BY <1>2 DEF ListsServed
  <2>1. d = b /\ k = l BY <1>10
  <2> QED BY <1>11, <2>1
<1>13. \A c \in Client : respQ'[c] = respQ[c] \/ respQ'[c] = Append(respQ[c], m)
  BY <1>8, <1>9
<1> QED BY <1>2, <1>6, <1>12, <1>13, UnsentDelivery

\* What goes to the next broker is for none of those of this one.
LEMMA SendToRingDelivery ==
  ASSUME Inv, Inv', IdsInv, CopiesInv, DeliveryInv, NEW b \in Broker, SendToRing(b)
  PROVE  DeliveryInv'
<1>1. /\ wpc[b] = "fan_out"
      /\ UNCHANGED <<ids, up, workerQ, wpc, topics, got, asked, down, pubs, strayed, conn, gid, wait>>
  BY DEF SendToRing, WorkerFrame, dbVars, clientPart
<1>2. GetMtype(ids[b], NEXT_SERVER_GLOBAL_ID) = b /\ b # NO_MTYPE_FOUND_CODE
  BY <1>1, FanOutMsg, NextServerKnown, Constants DEF Inv, NO_MTYPE_FOUND_CODE
<1>3. PICK l \in wsubs[b] :
        /\ GetMtype(ids[b], l.id) = NO_MTYPE_FOUND_CODE
        /\ IF wrelayed[b] THEN UNCHANGED respQ ELSE QueueResp(b, Addressed(b, l, b))
        /\ wsubs' = [wsubs EXCEPT ![b] = @ \ {l}]
        /\ wmsg' = [wmsg EXCEPT ![b].type = @]
  BY <1>2 DEF SendToRing, AlreadyRelayed
<1>4. wmsg' = wmsg
  <2>1. wmsg' = [wmsg EXCEPT ![b] = [wmsg[b] EXCEPT !.type = @]] BY <1>3
  <2>2. [wmsg[b] EXCEPT !.type = @] = wmsg[b] BY FanOutMsg, <1>1 DEF Msg
  <2> QED BY <2>1, <2>2 DEF Inv, WorkersOK
<1>5. /\ wsubs'[b] = wsubs[b] \ {l}
      /\ \A d \in Broker : d # b => wsubs'[d] = wsubs[d]
  BY <1>3 DEF Inv, WorkersOK
<1>6. \A c \in Client : respQ'[c] = respQ[c]
  <2>1. respQ \in [Connection -> Seq(Msg)] /\ \A c \in Client : c \in Connection /\ c # b
    BY Constants DEF Connection, Inv, RespQOK
  <2> QED BY <1>3, <2>1 DEF QueueResp
<1>7. ASSUME NEW p \in DOMAIN pubs, NEW c \in pubs[p].audience, Home[c] = b, l.id = gid[c]
      PROVE  FALSE
  <2>1. c \in Client BY <1>7, AudienceOf
  <2>2. Entered(c, gid[c]) BY <1>7, <2>1, AudienceEntered DEF DeliveryInv
  <2>3. GetMtype(ids[b], l.id) = c BY <1>7, <2>1, <2>2, MtypeOfOwner DEF Inv, IdsInv, IdsOK
  <2> QED BY <1>3, <2>1, <2>3, Constants DEF NO_MTYPE_FOUND_CODE
<1>8. ListsServed BY <1>1, <1>4, <1>5, <1>7 DEF ListsServed
<1> QED BY <1>1, <1>4, <1>6, <1>8, UnsentDelivery

-----------------------------------------------------------------------------
(* A client sends a request.                                               *)

\* What c has to say goes to the end of its queue.
LEMMA SendMeans ==
  ASSUME Inv, NEW c \in Client, NEW m \in Msg, Send(c, m)
  PROVE  /\ wait[c] = "none" /\ wait'[c] = m.type /\ conn[c] = "on"
         /\ \A d \in Client : d # c => wait'[d] = wait[d]
         /\ UNCHANGED <<ids, users, topics, workerQ, respQ, wpc, wmsg, wsubs, down, gid, got, conn, strayed>>
         /\ Elements(up'[c]) = Elements(up[c]) \cup {m}
         /\ \A d \in Client : Elements(up[d]) \subseteq Elements(up'[d])
         /\ \A d \in Client : \A t \in Topic : Asks(d, t) => Asks(d, t)'
         /\ \A d \in Client : \A t \in Topic : Filed(d, t)' <=> Filed(d, t)
<1>1. /\ up' = [up EXCEPT ![c] = Append(up[c], m)] /\ wait' = [wait EXCEPT ![c] = m.type]
      /\ wait[c] = "none" /\ conn[c] = "on"
      /\ UNCHANGED <<ids, users, topics, workerQ, respQ, wpc, wmsg, wsubs, down, gid, got, conn, strayed>>
  BY DEF Send, dbVars, workerPart
<1>2. /\ up \in [Connection -> Seq(Msg)] /\ c \in Connection /\ Client \subseteq Connection
      /\ wait \in [Client -> Request \cup {"none"}]
  BY DEF Inv, UpOK, Connection, ClientsOK
<1>3. /\ up'[c] = Append(up[c], m) /\ Elements(Append(up[c], m)) = Elements(up[c]) \cup {m}
      /\ \A d \in Client : d # c => up'[d] = up[d]
  BY <1>1, <1>2, QueueElements
<1>4. \A d \in Client : Elements(up[d]) \subseteq Elements(up'[d]) BY <1>3
<1>5. ASSUME NEW d \in Client, NEW t \in Topic PROVE Asks(d, t) => Asks(d, t)'
  <2>1. PICK b \in Broker : b = Home[d] BY Constants
  <2>2. \A k : Own(d, k)' <=> Own(d, k) BY <1>1 DEF Own, Entered
  <2>3. \A k \in Elements(up[d]) : k \in Elements(up'[d]) BY <1>4
  <2> QED BY <1>1, <2>1, <2>2, <2>3, AsksRemain
<1>6. \A d \in Client : \A t \in Topic : Filed(d, t)' <=> Filed(d, t) BY <1>1 DEF Filed
<1> QED BY <1>1, <1>2, <1>3, <1>4, <1>5, <1>6

LEMMA BegunSent ==
  ASSUME Inv, NEW c \in Client, NEW m \in Msg, Send(c, m),
         NEW p \in DOMAIN pubs, pubs'[p].by = pubs[p].by, NEW k, Begun(p, k)
  PROVE  Begun(p, k)'
<1>1. PICK d \in Client, b \in Broker : d = pubs[p].by /\ b = Home[d] BY AudienceOf, Constants
<1>2. k \in Elements(up[d]) => k \in Elements(up'[d]) BY <1>1, SendMeans
<1>3. UNCHANGED <<workerQ, wpc, wmsg>> BY SendMeans
<1> QED BY <1>1, <1>2, <1>3 DEF Begun, Elements, IsCopy

LEMMA RequestDelivery ==
  ASSUME Inv, Inv', IdsInv, CopiesInv, DeliveryInv, NEW c \in Client,
         Create(c) \/ Destroy(c) \/ \E t \in Topic : SubscribeTo(c, t)
  PROVE  DeliveryInv'
<1>1. PICK m \in Msg : /\ Send(c, m)
                       /\ \/ m.type # "SUBSCRIBE" /\ asked' = asked
                          \/ m.type = "SUBSCRIBE" /\ m.topic \in Topic /\ SubscribeTo(c, m.topic)
  BY RequestMessage
<1>2. /\ wait[c] = "none" /\ wait'[c] = m.type /\ conn[c] = "on"
      /\ \A d \in Client : d # c => wait'[d] = wait[d]
      /\ UNCHANGED <<ids, users, topics, workerQ, respQ, wpc, wmsg, wsubs, down, gid, got, conn, strayed>>
      /\ \A d \in Client : \A t \in Topic : Asks(d, t) => Asks(d, t)'
      /\ \A d \in Client : \A t \in Topic : Filed(d, t)' <=> Filed(d, t)
  BY <1>1, SendMeans
<1>3. AudiencesOnlyShrink /\ (InAudience(c)' => ~Destroy(c))
  <2>1. CASE Destroy(c) BY <1>2, <2>1, LeavesAudiences DEF Destroy
  <2>2. CASE ~Destroy(c)
    <3>1. pubs' = pubs BY <2>2 DEF Create, SubscribeTo
    <3> QED BY <1>2, <2>2, <3>1, SameAudiences
  <2> QED BY <2>1, <2>2
<1>4. ASSUME NEW d \in Client, InAudience(d)' PROVE Stays(d)
  <2>1. conn[d] = "on" /\ wait[d] # "DESTROY" BY <1>3, <1>4, AudienceOn DEF DeliveryInv
  <2>2. d = c => wait'[d] # "DESTROY"
    <3>1. ASSUME NEW type, NEW id, NEW t, Send(c, NewRequest(type, id, t, 0))
          PROVE  wait'[c] = type
      <4>1. wait' = [wait EXCEPT ![c] = NewRequest(type, id, t, 0).type] BY <3>1 DEF Send
      <4>2. NewRequest(type, id, t, 0).type = type BY DEF NewRequest
      <4>3. wait \in [Client -> Request \cup {"none"}] BY DEF Inv, ClientsOK
      <4> QED BY <4>1, <4>2, <4>3
    <3>2. Create(c) => wait'[c] = "CREATE" BY <3>1 DEF Create
    <3>3. ASSUME NEW t \in Topic, SubscribeTo(c, t) PROVE wait'[c] = "SUBSCRIBE"
      BY <3>1, <3>3 DEF SubscribeTo
    <3> QED BY <1>3, <1>4, <3>2, <3>3
  <2> QED BY <1>2, <2>1, <2>2 DEF Stays
<1>5. ListsServed BY <1>2 DEF ListsServed
<1>6. Onward
  <2> SUFFICES ASSUME NEW p \in DOMAIN pubs, NEW k, Begun(p, k) PROVE Begun(p, k)' BY DEF Onward
  <2> QED BY <1>1, <1>3, BegunSent DEF AudiencesOnlyShrink
<1>7. SentRemain
  <2> SUFFICES ASSUME NEW p \in DOMAIN pubs, NEW d \in pubs[p].audience, Sent(d, p)
               PROVE  Sent(d, p)'
    BY DEF SentRemain
  <2>1. d \in Client BY AudienceOf
  <2> QED BY <1>2, <2>1, SentKept DEF CopiesInv
<1>8. asked \in [Client -> [Topic -> Nat]] BY DEF Inv, ClientsOK
<1>9. ASSUME NEW d \in Client, NEW t \in Topic, asked'[d][t] > 0
      PROVE  asked[d][t] > 0 \/ (gid[d] # 0 /\ Asks(d, t)')
  <2>1. CASE asked' = asked BY <1>9, <2>1
  <2>2. CASE m.type = "SUBSCRIBE" /\ m.topic \in Topic /\ SubscribeTo(c, m.topic)
    <3>1. asked' = [asked EXCEPT ![c][m.topic] = asked[c][m.topic] + 1] /\ gid[c] # 0
      BY <2>2 DEF SubscribeTo
    <3>2. d = c /\ m.topic = t => Asks(d, t)'
      <4>1. m \in Elements(up'[c]) BY <1>1, SendMeans
      <4>2. d = c /\ m.topic = t => Asked(d, t, m)' BY <2>2, <4>1 DEF Asked, ForTopic, Elements
      <4> QED BY <4>2, AsksIs
    <3>3. (d = c /\ m.topic = t) \/ asked'[d][t] = asked[d][t] BY <1>8, <2>2, <3>1
    <3> QED BY <1>9, <3>1, <3>2, <3>3
  <2> QED BY <1>1, <2>1, <2>2
<1>10. ASSUME NEW d \in Client PROVE AskedOK(d)'
  <2> SUFFICES ASSUME NEW t \in Topic, asked'[d][t] > 0
               PROVE  gid'[d] # 0 /\ (wait'[d] = "DESTROY" \/ Filed(d, t)' \/ Asks(d, t)')
    BY DEF AskedOK
  <2>1. wait[d] = "DESTROY" => wait'[d] = "DESTROY" BY <1>2
  <2>2. asked[d][t] > 0 => gid[d] # 0 /\ (wait[d] = "DESTROY" \/ Filed(d, t) \/ Asks(d, t))
    BY DEF DeliveryInv, AskedOK
  <2> QED BY <1>2, <1>9, <2>1, <2>2
<1> QED BY <1>3, <1>4, <1>5, <1>6, <1>7, <1>10, DeliveryKept

\* A client that asks for a topic waits for the answer.
LEMMA AsksWaits ==
  ASSUME IdsInv, NEW c \in Client, NEW t, Asks(c, t)
  PROVE  wait[c] = "SUBSCRIBE"
<1>1. PICK m : Asked(c, t, m) BY AsksIs
<1>2. PICK b \in Broker : b = Home[c] BY Constants
<1>3. Pending(c, m)
  <2>1. CASE m \in Elements(up[c]) BY <2>1 DEF IdsInv, ServedOK, ClientOK, SentOK
  <2>2. CASE m \in Elements(workerQ[b]) /\ Own(c, m)
    BY <1>2, <2>2, OwnPending DEF IdsInv, IdsOK, ServedOK, QueuedOK
  <2>3. CASE wpc[b] = "subscribe" /\ Own(c, m) /\ m = wmsg[b]
    BY <1>2, <2>3, OwnPending DEF IdsInv, IdsOK, ServedOK, BusyOK
  <2> QED BY <1>1, <1>2, <2>1, <2>2, <2>3 DEF Asked
<1> QED BY <1>1, <1>3 DEF Pending, Asked, ForTopic

LEMMA PublishDelivery ==
  ASSUME Inv, Inv', IdsInv, CopiesInv, DeliveryInv, NEW c \in Client, NEW t \in Topic, Publish(c, t)
  PROVE  DeliveryInv'
<1>1. PICK n \in Nat : n = Len(pubs) + 1
  BY LenProperties DEF Inv, ClientsOK
<1> DEFINE Pub == [by : Client, topic : Topic, audience : SUBSET Client]
<1>2. /\ n \notin DOMAIN pubs /\ DOMAIN pubs' = DOMAIN pubs \cup {n}
      /\ pubs'[n].by = c /\ pubs'[n].topic = t
      /\ pubs'[n].audience = {d \in Client : Subscribed(d, t)}
      /\ \A p \in DOMAIN pubs : pubs'[p] = pubs[p]
  <2>1. PICK e : e = [by |-> c, topic |-> t, audience |-> {d \in Client : Subscribed(d, t)}]
    OBVIOUS
  <2>2. e \in Pub /\ e.by = c /\ e.topic = t /\ e.audience = {d \in Client : Subscribed(d, t)}
    BY <2>1
  <2>3. pubs \in Seq(Pub) BY DEF Inv, ClientsOK
  <2>4. pubs' = Append(pubs, e) BY <2>1 DEF Publish
  <2> HIDE DEF Pub
  <2>5. PICK l \in Nat : l = Len(pubs) BY <2>3, LenProperties
  <2>6. DOMAIN pubs = 1..l BY <2>3, <2>5, LenProperties
  <2>7. PICK r : r = Append(pubs, e) OBVIOUS
  <2>8. DOMAIN r = 1..(l + 1) /\ r[l + 1] = e /\ \A p \in 1..l : r[p] = pubs[p]
    BY <2>2, <2>3, <2>5, <2>7, AppendProperties, LenProperties
  <2>9. n = l + 1 BY <1>1, <2>5
  <2> QED BY <2>2, <2>4, <2>6, <2>7, <2>8, <2>9
<1>3. PICK m \in Msg : /\ m = NewRequest("PUBLISH", gid[c], t, n)
                       /\ m.type = "PUBLISH" /\ m.pub = n /\ m.broker_id = 0
  <2>1. gid[c] \in Nat BY DEF Inv, ClientsOK
  <2> QED BY <2>1, NewRequestMsg DEF Request
<1>4. Send(c, m) /\ asked' = asked BY <1>1, <1>3 DEF Publish
<1>5. /\ wait[c] = "none" /\ wait'[c] = "PUBLISH"
      /\ \A d \in Client : d # c => wait'[d] = wait[d]
      /\ UNCHANGED <<respQ, wpc, wmsg, wsubs, down, gid, got, conn, strayed>>
      /\ m \in Elements(up'[c])
      /\ \A d \in Client : \A h \in Topic : Asks(d, h) => Asks(d, h)'
      /\ \A d \in Client : \A h \in Topic : Filed(d, h)' <=> Filed(d, h)
  BY <1>3, <1>4, SendMeans
<1>6. \A d \in Client : AskedOK(d)'
  <2> SUFFICES ASSUME NEW d \in Client PROVE AskedOK(d)' OBVIOUS
  <2>1. wait[d] = "DESTROY" => wait'[d] = "DESTROY" BY <1>5
  <2> QED BY <1>4, <1>5, <2>1, AskedStays DEF DeliveryInv
<1>7. \A d \in Client : wait[d] # "DESTROY" => wait'[d] # "DESTROY" BY <1>5
<1>8. ASSUME NEW d \in Client, Subscribed(d, t)
      PROVE  conn[d] = "on" /\ gid[d] # 0 /\ wait[d] # "DESTROY" /\ Filed(d, t)
  <2>1. conn[d] = "on" /\ asked[d][t] > 0 /\ wait[d] # "SUBSCRIBE" /\ wait[d] # "DESTROY"
    BY <1>8 DEF Subscribed
  <2>2. ~Asks(d, t) BY <2>1, AsksWaits
  <2> QED BY <2>1, <2>2 DEF DeliveryInv, AskedOK
<1>9. AudienceOK'
  <2>1. ASSUME NEW p \in DOMAIN pubs', NEW d \in pubs'[p].audience
        PROVE  conn'[d] = "on" /\ gid'[d] # 0 /\ wait'[d] # "DESTROY" /\ Filed(d, pubs[p].topic)'
    <3>1. PICK h \in Topic : /\ h = pubs'[p].topic /\ d \in Client
                             /\ conn[d] = "on" /\ gid[d] # 0 /\ wait[d] # "DESTROY" /\ Filed(d, h)
      <4>1. CASE p = n BY <1>2, <1>8, <2>1, <4>1
      <4>2. CASE p # n
        <5>1. p \in DOMAIN pubs /\ pubs'[p] = pubs[p] BY <1>2, <2>1, <4>2
        <5>2. d \in Client /\ pubs[p].topic \in Topic BY <2>1, <5>1, AudienceOf
        <5> QED BY <2>1, <5>1, <5>2 DEF DeliveryInv, AudienceOK
      <4> QED BY <4>1, <4>2
    <3>2. Filed(d, h)' BY <1>5, <3>1
    <3> QED BY <1>5, <1>7, <3>1, <3>2 DEF Filed
  <2>2. strayed' \subseteq DOMAIN pubs' /\ \A p \in strayed' : pubs'[p].audience = {}
    BY <1>2, <1>5 DEF DeliveryInv, AudienceOK
  <2> QED BY <2>1, <2>2 DEF AudienceOK, Filed
<1>10. ASSUME NEW p \in DOMAIN pubs, NEW d \in pubs[p].audience, Sent(d, p) PROVE Sent(d, p)'
  <2>1. d \in Client BY <1>10, AudienceOf
  <2> QED BY <1>5, <1>10, <2>1, SentKept DEF CopiesInv
<1>11. ASSUME NEW b \in Broker PROVE HomeListed(b)'
  <2> SUFFICES ASSUME NEW p \in DOMAIN pubs', wpc'[b] = "fan_out", wmsg'[b].broker_id = b,
                      wmsg'[b].pub = p, NEW d \in pubs'[p].audience, Home[d] = b
               PROVE  Sent(d, p)' \/ \E l \in wsubs'[b] : l.id = gid'[d]
    BY DEF HomeListed
  <2>1. wpc[b] = "fan_out" /\ wmsg[b].broker_id = b /\ wmsg[b].pub = p BY <1>5
  <2>2. p \in DOMAIN pubs BY <2>1, PublicationsKnown
  <2>3. d \in pubs[p].audience BY <1>2, <2>2
  <2>4. Sent(d, p) \/ \E l \in wsubs[b] : l.id = gid[d] BY <2>1, <2>2, <2>3 DEF DeliveryInv, HomeListed
  <2> QED BY <1>5, <1>10, <2>2, <2>3, <2>4
<1>12. HomeDelivery'
  <2> SUFFICES ASSUME NEW p \in DOMAIN pubs', OriginDone(p)',
                      NEW d \in pubs'[p].audience, Home[d] = Home[pubs'[p].by]
               PROVE  Sent(d, p)'
    BY DEF HomeDelivery, Sent
  <2>1. \A k : ~Begun(p, k)' BY OriginIs
  <2>2. Begun(n, m)' BY <1>2, <1>3, <1>5 DEF Begun, IsCopy, Elements
  <2>3. p # n BY <2>1, <2>2
  <2>4. p \in DOMAIN pubs /\ pubs'[p] = pubs[p] BY <1>2, <2>3
  <2>5. \A k : ~Begun(p, k) BY <1>4, <2>1, <2>4, BegunSent
  <2>6. OriginDone(p) BY <2>5, OriginIs
  <2>7. Sent(d, p) BY <2>4, <2>6 DEF DeliveryInv, HomeDelivery, Sent
  <2> QED BY <1>10, <2>4, <2>7
<1> QED BY <1>6, <1>9, <1>11, <1>12 DEF DeliveryInv

-----------------------------------------------------------------------------
(* The subscribers are asked for.                                          *)

LEMMA FetchSubsDelivery ==
  ASSUME Inv, Inv', IdsInv, CopiesInv, RepliesWhole, DeliveryInv, NEW b \in Broker, FetchSubs(b)
  PROVE  DeliveryInv'
<1>1. PICK k, s : k = wmsg[b] /\ s = Stamped(b) OBVIOUS
<1>2. PICK lines \in DbGetSubscribed(k.topic) : wsubs' = [wsubs EXCEPT ![b] = lines]
  BY <1>1 DEF FetchSubs
<1>3. /\ wpc[b] = "publish" /\ k.broker_id # b /\ GoTo(b, "fan_out", s)
      /\ strayed' = IF topics[k.topic] = {} THEN strayed \cup {k.pub} ELSE strayed
      /\ UNCHANGED <<topics, ids, up, workerQ, respQ, down, got, asked, pubs, conn, gid, wait>>
  BY <1>1 DEF FetchSubs, WorkerFrame, dbVars, clientPart
<1>4. s.type = "PUBLISH" /\ s.pub = k.pub /\ k.type = "PUBLISH" /\ k.topic \in Topic
  BY <1>1, <1>3, StampedBeyond
<1>5. /\ wpc'[b] = "fan_out" /\ wmsg'[b] = s /\ wsubs'[b] = lines
      /\ \A d \in Broker : d # b => wpc'[d] = wpc[d] /\ wmsg'[d] = wmsg[d] /\ wsubs'[d] = wsubs[d]
  BY <1>2, <1>3 DEF GoTo, Inv, WorkersOK
<1>6. k.broker_id = 0 => s.broker_id = b
  <2>1. wmsg[b] \in Msg BY DEF Inv, WorkersOK
  <2> QED BY <1>1, <2>1 DEF Stamped, Resolved, Msg
<1>7. k.pub \in DOMAIN pubs BY <1>1, <1>3, PublicationsKnown
<1>8. k.pub \notin strayed => k.topic = pubs[k.pub].topic
  <2>1. AtComing(b, k) BY <1>1, <1>3 DEF AtComing
  <2>2. k \in ComingTo(b) BY <2>1, ComingIs
  <2> QED BY <1>4, <1>7, <2>2 DEF CopiesInv, SpreadOK, Proper, IsCopy
<1>9. ASSUME NEW c \in pubs[k.pub].audience
      PROVE  \E l \in topics[k.topic] : l.id = gid[c]
  <2>1. k.pub \notin strayed BY <1>7, <1>9 DEF DeliveryInv, AudienceOK
  <2>2. Filed(c, pubs[k.pub].topic) BY <1>7, <1>9 DEF DeliveryInv, AudienceOK
  <2> QED BY <1>8, <2>1, <2>2 DEF Filed
<1>10. AudienceOK'
  <2>1. ASSUME NEW p \in DOMAIN pubs', NEW c \in pubs'[p].audience
        PROVE  conn'[c] = "on" /\ gid'[c] # 0 /\ wait'[c] # "DESTROY" /\ Filed(c, pubs[p].topic)'
    <3>1. p \in DOMAIN pubs /\ c \in pubs[p].audience BY <1>3, <2>1
    <3>2. Filed(c, pubs[p].topic) BY <3>1 DEF DeliveryInv, AudienceOK
    <3>3. Filed(c, pubs[p].topic)' BY <1>3, <3>2 DEF Filed
    <3> QED BY <1>3, <3>1, <3>3 DEF DeliveryInv, AudienceOK
  <2>2. strayed' \subseteq DOMAIN pubs' BY <1>3, <1>7 DEF DeliveryInv, AudienceOK
  <2>3. ASSUME NEW p \in strayed' PROVE pubs'[p].audience = {}
    <3>1. CASE p \in strayed BY <1>3, <3>1 DEF DeliveryInv, AudienceOK
    <3>2. CASE p = k.pub /\ topics[k.topic] = {} BY <1>3, <1>9, <3>2
    <3> QED BY <1>3, <2>3, <3>1, <3>2
  <2> QED BY <2>1, <2>2, <2>3 DEF AudienceOK, Filed
<1>11. ASSUME NEW p \in DOMAIN pubs, NEW c \in pubs[p].audience, Sent(c, p) PROVE Sent(c, p)'
  <2>1. c \in Client BY <1>11, AudienceOf
  <2> QED BY <1>3, <1>11, <2>1, SentKept DEF CopiesInv
<1>12. ASSUME NEW d \in Broker PROVE HomeListed(d)'
  <2> SUFFICES ASSUME NEW p \in DOMAIN pubs', wpc'[d] = "fan_out", wmsg'[d].broker_id = d,
                      wmsg'[d].pub = p, NEW c \in pubs'[p].audience, Home[c] = d
               PROVE  Sent(c, p)' \/ \E l \in wsubs'[d] : l.id = gid'[c]
    BY DEF HomeListed
  <2>1. p \in DOMAIN pubs /\ c \in pubs[p].audience BY <1>3
  <2>2. CASE d # b
    <3>1. wpc[d] = "fan_out" /\ wmsg[d].broker_id = d /\ wmsg[d].pub = p BY <1>5, <2>2
    <3>2. Sent(c, p) \/ \E l \in wsubs[d] : l.id = gid[c]
      BY <2>1, <3>1 DEF DeliveryInv, HomeListed
    <3> QED BY <1>3, <1>5, <1>11, <2>1, <2>2, <3>2
  <2>3. CASE d = b
    <3>1. p = k.pub BY <1>4, <1>5, <2>3
    <3>2. PICK l \in topics[k.topic] : l.id = gid[c] BY <1>9, <2>1, <3>1
    <3>3. lines = {n \in topics[k.topic] : n.pos <= MAX_CLIENTS}
      BY <1>2, <3>2 DEF DbGetSubscribed
    <3>4. l \in lines BY <1>4, <3>2, <3>3 DEF RepliesWhole
    <3> QED BY <1>3, <1>5, <2>3, <3>2, <3>4
  <2> QED BY <2>2, <2>3
<1>13. ASSUME NEW p \in DOMAIN pubs, NEW m, Begun(p, m) PROVE \E n : Begun(p, n)'
  <2>1. PICK c \in Client, h \in Broker : c = pubs[p].by /\ h = Home[c] BY AudienceOf, Constants
  <2>2. IsCopy(m, p) BY <1>13 DEF Begun
  <2>3. \/ m.broker_id = 0 /\ (m \in Elements(up[c]) \/ m \in Elements(workerQ[h]))
        \/ m.broker_id = 0 /\ wpc[h] = "publish" /\ m = wmsg[h]
        \/ m.broker_id = h /\ wpc[h] = "fan_out" /\ m = wmsg[h]
    BY <1>13, <2>1 DEF Begun
  <2>4. CASE m.broker_id = 0 /\ (m \in Elements(up[c]) \/ m \in Elements(workerQ[h]))
    BY <1>3, <2>1, <2>2, <2>4 DEF Begun, Elements, IsCopy
  <2>5. CASE h # b /\ m = wmsg[h]
    <3>1. wpc'[h] = wpc[h] /\ wmsg'[h] = wmsg[h] BY <1>5, <2>1, <2>5
    <3>2. pubs' = pubs BY <1>3
    <3>3. c = pubs'[p].by /\ IsCopy(m, p)' BY <2>1, <2>2, <3>2 DEF IsCopy
    <3>4. CASE \/ m.broker_id = 0 /\ wpc[h] = "publish"
               \/ m.broker_id = h /\ wpc[h] = "fan_out"
      <4>1. Begun(p, m)' BY ONLY <2>1, <2>5, <3>1, <3>3, <3>4 DEF Begun
      <4> QED BY <4>1
    <3> QED BY ONLY <2>3, <2>4, <3>4
  <2>6. CASE h = b /\ m = wmsg[h] /\ m.broker_id = 0
    <3>1. IsCopy(s, p) /\ s.broker_id = b BY <1>1, <1>4, <1>6, <2>2, <2>6 DEF IsCopy
    <3>2. Begun(p, s)' BY <1>3, <1>5, <2>1, <2>6, <3>1 DEF Begun, IsCopy
    <3> QED BY <3>2
  <2> QED BY <1>3, <2>3, <2>4, <2>5, <2>6
<1>14. HomeDelivery'
  <2> SUFFICES ASSUME NEW p \in DOMAIN pubs', OriginDone(p)',
                      NEW c \in pubs'[p].audience, Home[c] = Home[pubs'[p].by]
               PROVE  Sent(c, p)'
    BY DEF HomeDelivery, Sent
  <2>1. p \in DOMAIN pubs /\ pubs' = pubs BY <1>3
  <2>2. \A n : ~Begun(p, n)' BY OriginIs
  <2>3. OriginDone(p) BY <1>13, <2>1, <2>2, OriginIs
  <2>4. Sent(c, p) BY <2>1, <2>3 DEF DeliveryInv, HomeDelivery, Sent
  <2> QED BY <1>11, <2>1, <2>4
<1>15. ASSUME NEW c \in Client PROVE AskedOK(c)'
  <2>1. PICK d \in Broker : d = Home[c] BY Constants
  <2>2. \A m : Own(c, m)' <=> Own(c, m) BY <1>3 DEF Own, Entered
  <2>3. wpc[d] = "subscribe" => wpc'[d] = wpc[d] /\ wmsg'[d] = wmsg[d] BY <1>3, <1>5
  <2>4. wpc[d] = "subscribe" /\ Own(c, wmsg[d]) => Own(c, wmsg[d])'
    <3>1. PICK m : m = wmsg[d] OBVIOUS
    <3>2. wpc[d] = "subscribe" /\ Own(c, m)' => Own(c, wmsg[d])' BY <2>3, <3>1 DEF Own, Entered
    <3> QED BY <2>2, <3>1, <3>2
  <2>5. /\ \A m \in Elements(up[c]) : m \in Elements(up'[c])
        /\ \A m \in Elements(workerQ[d]) : m \in Elements(workerQ'[d])
    BY <1>3
  <2>6. \A t \in Topic : Asks(c, t) => Asks(c, t)' BY <2>1, <2>2, <2>3, <2>4, <2>5, AsksRemain
  <2>7. \A t \in Topic : Filed(c, t)' <=> Filed(c, t) BY <1>3 DEF Filed
  <2> QED BY <1>3, <2>6, <2>7, AskedStays DEF DeliveryInv
<1> QED BY <1>10, <1>12, <1>14, <1>15 DEF DeliveryInv

-----------------------------------------------------------------------------
(* Every step.                                                             *)

LEMMA WorkerStepDelivery ==
  ASSUME Inv, Inv', IdsInv, CopiesInv, RepliesWhole, DeliveryInv, NEW b \in Broker, WorkerStep(b)
  PROVE  DeliveryInv'
<1>1. CASE WorkerReceive(b) BY <1>1, WorkerReceiveDelivery
<1>2. CASE CreateUser(b) \/ CreateId(b) BY <1>2, CreateUserDelivery, CreateIdDelivery
<1>3. CASE ProcessSubscribe(b) BY <1>3, ProcessSubscribeDelivery
<1>4. CASE DiscardPublish(b) \/ RejectPublish(b) \/ EndFanOut(b) BY <1>4, EndDelivery
<1>5. CASE FetchSubs(b) BY <1>5, FetchSubsDelivery
<1>6. CASE SendToLocal(b) \/ SendToRing(b) BY <1>6, SendToLocalDelivery, SendToRingDelivery
<1>7. CASE DeleteUser(b) \/ RemoveId(b) BY <1>7, DeleteUserDelivery, RemoveIdDelivery
<1>8. CASE Respond(b) BY <1>8, RespondDelivery
<1> QED BY <1>1, <1>2, <1>3, <1>4, <1>5, <1>6, <1>7, <1>8 DEF WorkerStep

LEMMA DeliveryNext ==
  ASSUME Inv, IdsInv, CopiesInv, RepliesWhole, DeliveryInv, [Next]_vars
  PROVE  DeliveryInv'
<1>1. Inv' BY NextOK
<1>2. CASE \/ \E b \in Broker : RingConnect(b) \/ RingRegister(b) \/ StartServing(b)
           \/ \E c \in Client : AcceptClient(c) \/ LoseClient(c) \/ EndHandlers(c)
           \/ UNCHANGED vars
  BY <1>1, <1>2, OutsideDelivery
<1>3. CASE \E b \in Broker : RingRespHandler(b) BY <1>1, <1>3, RingRespHandlerDelivery
<1>4. CASE \E b \in Broker : WorkerStep(b) BY <1>1, <1>4, WorkerStepDelivery
<1>5. CASE \E x \in Connection : ReqHandler(x) BY <1>1, <1>5, ReqHandlerDelivery
<1>6. CASE \E c \in Client : Create(c) \/ Destroy(c) \/ \E t \in Topic : SubscribeTo(c, t)
  BY <1>1, <1>6, RequestDelivery
<1>7. CASE \E c \in Client : \E t \in Topic : Publish(c, t) BY <1>1, <1>7, PublishDelivery
<1>8. CASE \E c \in Client : ClientReceive(c) BY <1>1, <1>8, ClientReceiveDelivery
<1>9. CASE \E c \in Client : RespHandler(c) BY <1>1, <1>9, RespHandlerDelivery
<1> QED BY <1>2, <1>3, <1>4, <1>5, <1>6, <1>7, <1>8, <1>9 DEF Next

LEMMA DeliveryInit == Init => DeliveryInv
<1> SUFFICES ASSUME Init PROVE DeliveryInv OBVIOUS
<1>1. /\ pubs = <<>> /\ strayed = {} /\ wpc = [b \in Broker |-> "idle"]
      /\ asked = [c \in Client |-> [t \in Topic |-> 0]]
  BY DEF Init
<1>2. DOMAIN pubs = {} BY <1>1
<1>3. \A c \in Client : AskedOK(c) BY <1>1 DEF AskedOK
<1> QED BY <1>1, <1>2, <1>3 DEF DeliveryInv, AudienceOK, HomeListed, HomeDelivery

\* Before its publisher is answered, a publication has been queued for each subscriber
\* of the same broker that was subscribed when it was sent and has not left since,
\* as long as no topic has more lines than the reply of the database carries
\* (db_get_subscribed in db.c cuts it at MAX_CLIENTS; send_to_subs in worker.c).
THEOREM HomeDeliveryAlways == Spec /\ []RepliesWhole => []HomeDelivery
<1> DEFINE I == Inv /\ IdsInv /\ CopiesInv /\ OneCarrier /\ ListsProper /\ DeliveryInv
<1>1. Init => I BY InitOK, IdsInit, CopiesInit, CarriersInit, DeliveryInit
<1>2. I /\ RepliesWhole /\ [Next]_vars => I'
  BY NextOK, IdsNext, CopiesNext, CarriersNext, DeliveryNext
<1>3. I => HomeDelivery BY DEF DeliveryInv
<1> HIDE DEF I
<1> QED BY <1>1, <1>2, <1>3, PTL DEF Spec
=============================================================================
