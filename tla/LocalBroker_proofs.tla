------------------------- MODULE LocalBroker_proofs -------------------------
(***************************************************************************)
(* The theorems about the local broker, for every set of programs and ids, *)
(* every size of the table and every capacity of the queues.               *)
(***************************************************************************)
EXTENDS LocalBroker, SequenceTheorems, FiniteSetTheorems, IntegerSets

-----------------------------------------------------------------------------
(* The inductive invariant: where the request of a program is, who holds   *)
(* an id while the broker gives out deleted ones again, and in which order *)
(* ids come.                                                               *)

(* What the queues may hold.                                               *)

Asking == {m \in Messages : /\ m.type \in Request /\ m.body = 0
                            /\ m.mtype \in Program /\ m.from = m.mtype}

Upward == {m \in Messages : /\ m.from \in Program /\ m.body = 0
                            /\ IF m.type = "CREATE" THEN m.mtype = m.from
                               ELSE /\ m.type \in {"SUBSCRIBE", "PUBLISH", "DESTROY"}
                                    /\ m.mtype \in GlobalId}

Downward == {m \in Messages : /\ m.from \in Program /\ m.mtype \in GlobalId
                              /\ m.type \in {"ACK_OK", "ACK_CREATE", "ACK_DESTROY",
                                             "ACK_ERROR", "PUBLISH"}
                              /\ m.type = "PUBLISH" <=> m.body # 0}

NewsFor(p) == {m \in Messages : /\ m.mtype = p /\ m.from = p
                                /\ m.type = "PUBLISH" /\ m.body # 0}

AnswerType == {"ACK_OK", "ACK_CREATE", "ACK_NO_MSG", "ACK_DESTROY"}
Replies == {m \in Messages : /\ m.type \in AnswerType
                             /\ m.body # 0 => m.type = "ACK_OK"}

QueuesOK ==
  /\ reqQ \in Seq(Asking) /\ up \in Seq(Upward) /\ down \in Seq(Downward)
  /\ respQ \in [Program -> Seq(Replies)]
  /\ incoming \in [Program -> Seq(Messages)]
  /\ \A p \in Program : incoming[p] \in Seq(NewsFor(p))

ReqHandlerOK ==
  /\ qpc \in {"idle", "translate", "fetch", "reply"} /\ qmsg \in Messages
  /\ qpc \in {"translate", "fetch"} => qmsg \in Asking /\ qmsg.type # "CREATE"
  /\ qpc = "fetch" <=> qpc # "idle" /\ qmsg.type = "RECEIVE"
  /\ qpc = "reply" => /\ qmsg.mtype \in Program /\ qmsg.from = qmsg.mtype
                      /\ qmsg.type \in {"ACK_OK", "ACK_NO_MSG"}
                      /\ qmsg.body # 0 <=> qmsg.type = "ACK_OK"

RespHandlerOK ==
  /\ rpc \in {"idle", "answer", "deliver", "remove"} /\ rmsg \in Messages
  /\ rpc \in {"answer", "remove"} =>
       /\ rmsg.mtype \in Who /\ rmsg.body = 0
       /\ rmsg.type \in {"ACK_OK", "ACK_CREATE", "ACK_DESTROY", "ACK_ERROR"}
       /\ rmsg.type = "ACK_ERROR" => rmsg.mtype = Nobody
       /\ rmsg.type \in {"ACK_OK", "ACK_DESTROY"} => rmsg.mtype = rmsg.from
       /\ rmsg.from \in Program
  /\ rpc = "remove" => rmsg.type = "ACK_DESTROY"
  /\ rpc = "deliver" => rmsg.from \in Program /\ rmsg \in NewsFor(rmsg.from)

ProgramsOK ==
  /\ call \in [Program -> Request \cup {"none", "killed"}]
  /\ made \subseteq Program
  /\ got \in [Program -> Seq(Nat)]
  /\ pubs \in Nat /\ refused \in Nat

TableOK ==
  /\ sem \in {0, 1}
  /\ table \in Seq([local_id : Program, global_id : GlobalId \cup {NoId}])
  /\ Len(table) <= MAX_LOCAL_CLIENTS

ServerOK ==
  /\ server \in [users : SUBSET GlobalId, known : SUBSET GlobalId,
                 subs : SUBSET (GlobalId \X Program)]
  /\ server.known \subseteq server.users

LocalTypes ==
  QueuesOK /\ ReqHandlerOK /\ RespHandlerOK /\ ProgramsOK /\ TableOK /\ ServerOK

-----------------------------------------------------------------------------
(* Where the request of a program, or the answer to it, can be.            *)

Has(p, g) == \E i \in DOMAIN table : table[i].local_id = p /\ table[i].global_id = g
Named(p) == \E g \in GlobalId : Has(p, g)
Unnamed(p) == Has(p, NoId)

InReqQ(p) == \E i \in DOMAIN reqQ : reqQ[i].from = p
InHandler(p) == qpc # "idle" /\ qmsg.from = p
Forwarded(m, p) == m.type # "CREATE" /\ m.from = p
InUp(p) == \E i \in DOMAIN up : Forwarded(up[i], p)
Acked(m, p) == m.type \in {"ACK_OK", "ACK_DESTROY"} /\ m.from = p
InDown(p) == \E i \in DOMAIN down : Acked(down[i], p)
InResp(p) == rpc \in {"answer", "remove"} /\ rmsg.mtype = p
Answered(p) == respQ[p] # <<>>

\* A program has at most one request, in one place.  That of a CREATE which the
\* broker has yet to answer is the entry without an id.
OnePlace(p) ==
  /\ InReqQ(p) => ~(InHandler(p) \/ Unnamed(p) \/ InUp(p) \/ InDown(p) \/ InResp(p) \/ Answered(p))
  /\ InHandler(p) => ~(Unnamed(p) \/ InUp(p) \/ InDown(p) \/ InResp(p) \/ Answered(p))
  /\ Unnamed(p) => ~(InUp(p) \/ InDown(p) \/ InResp(p) \/ Answered(p))
  /\ InUp(p) => ~(InDown(p) \/ InResp(p) \/ Answered(p))
  /\ InDown(p) => ~(InResp(p) \/ Answered(p))
  /\ InResp(p) => ~Answered(p)

OneInQueue(p) ==
  /\ \A i, j \in DOMAIN reqQ : reqQ[i].from = p /\ reqQ[j].from = p => i = j
  /\ \A i, j \in DOMAIN up : Forwarded(up[i], p) /\ Forwarded(up[j], p) => i = j
  /\ \A i, j \in DOMAIN down : Acked(down[i], p) /\ Acked(down[j], p) => i = j
  /\ Len(respQ[p]) <= 1

\* The caller waits, unless it was killed.
Waits(p, type) == call[p] = type \/ call[p] = "killed"

AckFor == [ACK_CREATE |-> {"CREATE"}, ACK_DESTROY |-> {"DESTROY"},
           ACK_NO_MSG |-> {"RECEIVE"}, ACK_OK |-> {"SUBSCRIBE", "PUBLISH"}]
WaitsAck(p, ack) == \E type \in AckFor[ack] : Waits(p, type)

Replied(p, m) ==
  /\ IF m.body # 0 THEN Waits(p, "RECEIVE") ELSE WaitsAck(p, m.type)
  /\ m.type = "ACK_DESTROY" <=> ~Named(p)

\* What p waits for is what is on its way, and its entry is there if it has an
\* id or is about to get one.
CallOK(p) ==
  /\ \A i \in DOMAIN reqQ : reqQ[i].from = p =>
       Waits(p, reqQ[i].type) /\ (reqQ[i].type = "CREATE" <=> ~Named(p))
  /\ InHandler(p) => /\ Named(p)
                     /\ IF qpc = "reply" THEN Waits(p, "RECEIVE") ELSE Waits(p, qmsg.type)
  /\ Unnamed(p) => Waits(p, "CREATE")
  /\ \A i \in DOMAIN up : Forwarded(up[i], p) =>
       Waits(p, up[i].type) /\ Has(p, up[i].mtype)
  /\ \A i \in DOMAIN down : Acked(down[i], p) =>
       WaitsAck(p, down[i].type) /\ Has(p, down[i].mtype)
  /\ rpc = "remove" /\ rmsg.mtype = p => Waits(p, "DESTROY") /\ Named(p)
  /\ rpc = "answer" /\ rmsg.mtype = p => Replied(p, rmsg)
  /\ \A i \in DOMAIN respQ[p] : Replied(p, respQ[p][i])

\* The answer to a DESTROY is on its last leg.
Leaves(p) == call[p] = "DESTROY" /\ ((rpc = "answer" /\ rmsg.mtype = p) \/ Answered(p))

MadeOK(p) ==
  /\ call[p] = "none" /\ p \notin made => ~Named(p)
  /\ call[p] \in {"CREATE", "killed"} => p \notin made
  /\ call[p] \in Request \ {"CREATE"} => p \in made
  /\ p \in made => Named(p) \/ Leaves(p)

RequestOK(p) == OnePlace(p) /\ OneInQueue(p) /\ CallOK(p) /\ MadeOK(p)
RequestsOK == \A p \in Program : RequestOK(p)

-----------------------------------------------------------------------------
(* Ids: an entry whose id the broker has given out again is on its way out. *)

Removing(g) == rpc = "remove" /\ Has(rmsg.mtype, g)
Destroyed(g, j) == down[j].type = "ACK_DESTROY" /\ down[j].mtype = g

New(m) == m.type \in {"ACK_CREATE", "ACK_ERROR"}

IdsOK ==
  /\ OneEntryPerId
  /\ \A p \in Program, g \in GlobalId : Has(p, g) =>
       \/ g \in server.known \/ Removing(g)
       \/ \E j \in DOMAIN down : Destroyed(g, j)
  /\ \A i \in DOMAIN down : New(down[i]) => LET g == down[i].mtype IN
       /\ g \in server.users
       /\ \A j \in DOMAIN down : New(down[j]) /\ down[j].mtype = g => i = j
       /\ \A p \in Program : Has(p, g) =>
            Removing(g) \/ \E j \in 1..i - 1 : Destroyed(g, j)
  /\ \A i \in DOMAIN down : down[i].type = "ACK_CREATE" => down[i].mtype \in server.known

\* Subscriptions and publications are for the holder of the id.
SubsOK ==
  /\ \A s \in server.subs : /\ s[1] \in server.known /\ Has(s[2], s[1])
                            /\ ~Removing(s[1])
                            /\ \A j \in DOMAIN down : ~Destroyed(s[1], j)
  /\ \A i \in DOMAIN down : down[i].type = "PUBLISH" => LET g == down[i].mtype IN
       /\ Has(down[i].from, g) /\ ~Removing(g)
       /\ \A j \in 1..i - 1 : ~Destroyed(g, j)

-----------------------------------------------------------------------------
(* CREATEs are answered in the order in which their entries were made.     *)

Created(m) == m.type \in {"CREATE", "ACK_CREATE"}
WithoutId(i, p) == table[i].local_id = p /\ table[i].global_id = NoId
Before(p, q) == \E i, j \in DOMAIN table : i < j /\ WithoutId(i, p) /\ WithoutId(j, q)

OrderOK ==
  refused = 0 =>
  /\ \A i \in DOMAIN down :
       /\ down[i].type # "ACK_ERROR"
       /\ Created(down[i]) => /\ Unnamed(down[i].from)
                              /\ <<down[i].mtype, down[i].from>> \in grant
                              /\ \A j \in i + 1..Len(down) : Created(down[j]) =>
                                   Before(down[i].from, down[j].from)
                              /\ \A j \in DOMAIN up : Created(up[j]) =>
                                   Before(down[i].from, up[j].from)
  /\ \A i \in DOMAIN up : Created(up[i]) =>
       /\ Unnamed(up[i].from)
       /\ \A j \in i + 1..Len(up) : Created(up[j]) => Before(up[i].from, up[j].from)
  /\ \A p \in Program : Unnamed(p) =>
       \/ \E i \in DOMAIN down : Created(down[i]) /\ down[i].from = p
       \/ \E i \in DOMAIN up : Created(up[i]) /\ up[i].from = p
  /\ rpc = "answer" => rmsg.mtype = rmsg.from
  /\ \A p \in Program, g \in GlobalId : Has(p, g) => <<g, p>> \in grant

LocalInv == LocalTypes /\ RequestsOK /\ IdsOK /\ SubsOK /\ OrderOK

LEMMA Constants ==
  /\ Program \cap GlobalId = {}
  /\ NoId \notin GlobalId /\ NoId \notin Program
  /\ Nobody \notin GlobalId /\ Nobody \notin Program /\ NoId # Nobody
  /\ MAX_LOCAL_CLIENTS \in Nat
BY LocalAssumption DEF NoId, Nobody

-----------------------------------------------------------------------------
(* Sequences.                                                              *)

LEMMA Appended ==
  ASSUME NEW S, NEW q \in Seq(S), NEW m \in S, NEW r, r = Append(q, m)
  PROVE  /\ r \in Seq(S) /\ Len(q) \in Nat /\ Len(r) = Len(q) + 1
         /\ DOMAIN q = 1..Len(q) /\ DOMAIN r = 1..Len(q) + 1
         /\ \A i \in DOMAIN q : r[i] = q[i]
         /\ r[Len(q) + 1] = m
<1>1. r \in Seq(S) /\ Len(r) = Len(q) + 1 BY AppendProperties
<1>2. /\ \A i \in 1..Len(q) : r[i] = q[i]
      /\ r[Len(q) + 1] = m
  BY AppendProperties
<1> QED BY <1>1, <1>2, LenProperties

LEMMA Tailed ==
  ASSUME NEW S, NEW q \in Seq(S), q # <<>>, NEW r, r = Tail(q)
  PROVE  /\ r \in Seq(S) /\ Len(q) \in Nat /\ Len(r) = Len(q) - 1
         /\ DOMAIN q = 1..Len(q) /\ DOMAIN r = 1..Len(q) - 1
         /\ Head(q) = q[1] /\ 1 \in DOMAIN q /\ q[1] \in S
         /\ \A i \in DOMAIN r : i + 1 \in DOMAIN q /\ r[i] = q[i + 1]
<1>1. /\ r \in Seq(S) /\ Len(r) = Len(q) - 1 /\ Head(q) \in S
      /\ \A i \in 1..Len(r) : r[i] = q[i + 1]
  BY HeadTailProperties
<1>2. Len(q) \in Nat /\ DOMAIN q = 1..Len(q) /\ DOMAIN r = 1..Len(r) /\ Len(q) # 0
  BY <1>1, LenProperties, EmptySeq
<1>3. Head(q) = q[1] OBVIOUS
<1> QED BY <1>1, <1>2, <1>3

-----------------------------------------------------------------------------
(* Searches in the table.                                                  *)

\* The choice of FirstWith.
LEMMA Chosen ==
  ASSUME NEW S \in SUBSET Nat, S # {},
         NEW m, m = CHOOSE i \in S : \A j \in S : i <= j
  PROVE  m \in S /\ \A j \in S : m <= j
<1>1. \E i \in S : \A j \in S : i <= j BY LeastNatural
<1> QED BY <1>1

Entries == [local_id : Program, global_id : GlobalId \cup {NoId}]

LEMMA TableDomain ==
  ASSUME TableOK
  PROVE  /\ table \in Seq(Entries) /\ Len(table) \in Nat
         /\ DOMAIN table = 1..Len(table) /\ DOMAIN table \subseteq Nat \ {0}
         /\ \A i \in DOMAIN table : /\ table[i] \in Entries
                                    /\ table[i].local_id \in Program
                                    /\ table[i].global_id \in GlobalId \cup {NoId}
<1>1. table \in Seq(Entries) BY DEF TableOK, Entries
<1>2. Len(table) \in Nat /\ DOMAIN table = 1..Len(table) BY <1>1, LenProperties
<1>3. \A i \in DOMAIN table : table[i] \in Entries BY <1>1, <1>2, ElementOfSeq
<1> QED BY <1>1, <1>2, <1>3 DEF Entries

\* What OneEntryPerId says of holders.
LEMMA Holders ==
  ASSUME TableOK, OneEntryPerId
  PROVE  /\ \A p, g, h : Has(p, g) /\ Has(p, h) => g = h
         /\ \A p, q, g : Has(p, g) /\ Has(q, g) => p = q \/ g = NoId
         /\ \A p, g : Has(p, g) => p \in Program /\ g \in GlobalId \cup {NoId}
         /\ \A p : Unnamed(p) => ~Named(p)
<1>1. \A p, g, h : Has(p, g) /\ Has(p, h) => g = h BY DEF Has, OneEntryPerId
<1>2. \A p, q, g : Has(p, g) /\ Has(q, g) => p = q \/ g = NoId BY DEF Has, OneEntryPerId
<1>3. \A p, g : Has(p, g) => p \in Program /\ g \in GlobalId \cup {NoId}
  BY TableDomain DEF Has
<1> QED BY <1>1, <1>2, <1>3, Constants DEF Named, Unnamed

LEMMA LocalIdExistsMeans ==
  ASSUME TableOK, NEW p
  PROVE  LocalIdExists(table, p) <=> Named(p) \/ Unnamed(p)
<1> DEFINE found == {i \in DOMAIN table : table[i].local_id = p}
<1>1. found \in SUBSET Nat /\ 0 \notin found BY TableDomain
<1>2. LocalIdExists(table, p) <=> found # {}
  BY <1>1, Chosen DEF LocalIdExists, FirstWith
<1>3. found # {} <=> \E g \in GlobalId \cup {NoId} : Has(p, g) BY TableDomain DEF Has
<1> QED BY <1>2, <1>3 DEF Named, Unnamed

LEMMA GetGlobalIdFinds ==
  ASSUME TableOK, OneEntryPerId, NEW p, NEW g, Has(p, g)
  PROVE  GetGlobalId(table, p) = g
<1> DEFINE found == {i \in DOMAIN table : table[i].local_id = p}
<1>1. found \in SUBSET Nat /\ 0 \notin found /\ found # {} BY TableDomain DEF Has
<1>2. \A i \in found : table[i].global_id = g BY DEF OneEntryPerId, Has
<1> QED BY <1>1, <1>2, Chosen DEF GetGlobalId, FirstWith

LEMMA GetLocalIdFinds ==
  ASSUME TableOK, OneEntryPerId, NEW p, NEW g \in GlobalId, Has(p, g)
  PROVE  GetLocalId(table, g) = p
<1> DEFINE found == {i \in DOMAIN table : table[i].global_id = g}
<1>1. found \in SUBSET Nat /\ 0 \notin found /\ found # {} BY TableDomain DEF Has
<1>2. \A i \in found : table[i].local_id = p
  BY Constants DEF OneEntryPerId, Has
<1> QED BY <1>1, <1>2, Chosen DEF GetLocalId, FirstWith

LEMMA GetLocalIdMisses ==
  ASSUME TableOK, NEW g \in GlobalId, \A p \in Program : ~Has(p, g)
  PROVE  GetLocalId(table, g) = Nobody
<1> DEFINE found == {i \in DOMAIN table : table[i].global_id = g}
<1>1. found = {} BY TableDomain DEF Has
<1> QED BY <1>1 DEF GetLocalId, FirstWith

\* The entry that an id goes to is the first that has none.
LEMMA EntryToFillFirst ==
  ASSUME TableOK, NEW i, i = EntryToFill(table)
  PROVE  \/ i = 0 /\ \A p \in Program : ~Unnamed(p)
         \/ /\ i \in DOMAIN table /\ table[i].global_id = NoId
            /\ \A j \in DOMAIN table : table[j].global_id = NoId => i <= j
<1> DEFINE found == {j \in DOMAIN table : table[j].global_id = NoId}
<1>1. found \in SUBSET Nat BY TableDomain
<1>2. CASE found = {}
  <2>1. i = 0 BY <1>2 DEF EntryToFill, FirstWith
  <2> QED BY <1>2, <2>1 DEF Unnamed, Has
<1>3. CASE found # {}
  <2>1. i = CHOOSE j \in found : \A k \in found : j <= k
    BY <1>3 DEF EntryToFill, FirstWith
  <2> HIDE DEF found
  <2>2. i \in found /\ \A k \in found : i <= k BY <1>1, <1>3, <2>1, Chosen
  <2> QED BY <2>2 DEF found
<1> QED BY <1>2, <1>3

-----------------------------------------------------------------------------
(* Changes of the table.                                                   *)

LEMMA TableGrows ==
  ASSUME TableOK, OneEntryPerId, NEW p \in Program, ~Named(p), ~Unnamed(p),
         HasRoom(table), table' = AddLocalId(table, p), UNCHANGED sem
  PROVE  /\ TableOK' /\ OneEntryPerId'
         /\ \A q, h : Has(q, h)' <=> Has(q, h) \/ (q = p /\ h = NoId)
         /\ \A q, r : Before(q, r) => Before(q, r)'
         /\ \A q : Unnamed(q) => Before(q, p)'
<1> DEFINE e == Entry(p, NoId)
<1>1. e \in Entries /\ e.local_id = p /\ e.global_id = NoId BY DEF Entry, Entries
<1>2. table' = Append(table, e) BY DEF AddLocalId
<1> HIDE DEF e
<1>3. /\ table' \in Seq(Entries) /\ Len(table) \in Nat /\ Len(table') = Len(table) + 1
      /\ DOMAIN table = 1..Len(table) /\ DOMAIN table' = 1..Len(table) + 1
      /\ \A i \in DOMAIN table : table'[i] = table[i]
      /\ table'[Len(table) + 1] = e
  BY <1>1, <1>2, TableDomain, Appended
<1>4. TableOK' BY <1>3, Constants DEF TableOK, HasRoom, Entries
<1>5. \A i \in DOMAIN table : table[i].local_id # p
  BY TableDomain DEF Has, Named, Unnamed
<1>6. OneEntryPerId' BY <1>1, <1>3, <1>5 DEF OneEntryPerId
<1>7. \A q, h : Has(q, h)' <=> Has(q, h) \/ (q = p /\ h = NoId) BY <1>1, <1>3 DEF Has
<1>8. \A q, r : Before(q, r) => Before(q, r)' BY <1>3 DEF Before, WithoutId
<1>9. \A q : Unnamed(q) => Before(q, p)'
  BY <1>1, <1>3 DEF Before, WithoutId, Unnamed, Has
<1> QED BY <1>4, <1>6, <1>7, <1>8, <1>9

LEMMA TableFills ==
  ASSUME TableOK, OneEntryPerId, NEW g \in GlobalId, \A p \in Program : ~Has(p, g),
         NEW i \in DOMAIN table, table[i].global_id = NoId,
         table' = [table EXCEPT ![i].global_id = g], UNCHANGED sem
  PROVE  LET p == table[i].local_id IN
         /\ TableOK' /\ OneEntryPerId'
         /\ Unnamed(p)
         /\ \A q, h : Has(q, h)' <=> IF q = p THEN h = g ELSE Has(q, h)
         /\ \A q, r : Before(q, r) /\ q # p /\ r # p => Before(q, r)'
<1> DEFINE e == [table[i] EXCEPT !.global_id = g]
           p == table[i].local_id
<1>1. e \in Entries /\ e.local_id = p /\ e.global_id = g
  BY TableDomain DEF Entries
<1>2. table' = [table EXCEPT ![i] = e] OBVIOUS
<1> HIDE DEF e
<1>3. table' \in Seq(Entries) /\ Len(table') = Len(table)
  BY <1>1, <1>2, TableDomain, ExceptSeq
<1>4. DOMAIN table' = DOMAIN table /\ \A j \in DOMAIN table : table'[j] = IF j = i THEN e ELSE table[j]
  BY <1>2, TableDomain
<1>5. TableOK' BY <1>3 DEF TableOK, Entries
<1>6. \A j \in DOMAIN table : table[j].global_id # g BY TableDomain DEF Has
<1>7. OneEntryPerId' BY <1>1, <1>4, <1>6 DEF OneEntryPerId
<1>8. \A j \in DOMAIN table : table[j].local_id = p => j = i BY DEF OneEntryPerId
<1>9. \A q, h : Has(q, h)' <=> IF q = p THEN h = g ELSE Has(q, h)
  BY <1>1, <1>4, <1>8 DEF Has
<1>10. \A q, r : Before(q, r) /\ q # p /\ r # p => Before(q, r)'
  BY <1>4 DEF Before, WithoutId
<1> QED BY <1>5, <1>7, <1>9, <1>10 DEF Unnamed, Has

LEMMA TableShrinks ==
  ASSUME TableOK, OneEntryPerId, NEW p, Named(p),
         table' = RemoveId(table, p), UNCHANGED sem
  PROVE  /\ TableOK' /\ OneEntryPerId'
         /\ \A q, h : Has(q, h)' <=> Has(q, h) /\ q # p
         /\ \A q, r : Before(q, r) /\ q # p /\ r # p => Before(q, r)'
<1> DEFINE found == {i \in DOMAIN table : table[i].local_id = p}
           pos == FirstWith(table, LAMBDA e : e.local_id = p)
           n == Len(table)
<1>1. found \in SUBSET Nat /\ 0 \notin found /\ found # {} BY TableDomain DEF Has, Named
<1>2. pos \in found BY <1>1, Chosen DEF FirstWith
<1>3. table' = [i \in 1..n - 1 |-> IF i < pos THEN table[i] ELSE table[i + 1]]
  BY <1>1, <1>2 DEF RemoveId
<1>4. n \in Nat /\ DOMAIN table = 1..n /\ pos \in 1..n /\ table[pos].local_id = p
  BY <1>2, TableDomain
<1>5. \A i \in DOMAIN table : table[i].local_id = p => i = pos BY <1>4 DEF OneEntryPerId
<1> HIDE DEF pos, found
<1>6. /\ DOMAIN table' = 1..n - 1
      /\ \A i \in 1..n - 1 : table'[i] = IF i < pos THEN table[i] ELSE table[i + 1]
  BY <1>3
<1>7. \A i \in 1..n - 1 : table'[i] \in Entries
  <2> TAKE i \in 1..n - 1
  <2>1. i \in DOMAIN table /\ i + 1 \in DOMAIN table BY <1>4
  <2> QED BY <1>6, <2>1, TableDomain
<1>8. table' \in Seq(Entries) /\ Len(table') = n - 1
  <2>1. n - 1 \in Nat BY <1>4
  <2> QED BY <2>1, <1>3, <1>6, <1>7, IsASeq
<1>9. TableOK' BY <1>4, <1>8, Constants DEF TableOK, Entries
\* An entry that stays, at its old place and at its new one.
<1> DEFINE old(i) == IF i < pos THEN i ELSE i + 1
           new(j) == IF j < pos THEN j ELSE j - 1
<1>10. \A i \in DOMAIN table' : /\ old(i) \in DOMAIN table /\ old(i) # pos
                                /\ table'[i] = table[old(i)]
  BY <1>4, <1>6
<1>11. \A j \in DOMAIN table : j # pos =>
         new(j) \in DOMAIN table' /\ table'[new(j)] = table[j]
  <2> TAKE j \in DOMAIN table
  <2> HAVE j # pos
  <2>1. j < pos \/ j - 1 >= pos BY <1>4
  <2>2. CASE j < pos BY <2>2, <1>4, <1>6
  <2>3. CASE j - 1 >= pos
    <3>1. j - 1 \in 1..n - 1 /\ ~(j - 1 < pos) /\ (j - 1) + 1 = j /\ ~(j < pos) BY <2>3, <1>4
    <3> QED BY <3>1, <1>6
  <2> QED BY <2>1, <2>2, <2>3
<1>12. \A i, j \in DOMAIN table' : old(i) = old(j) => i = j BY <1>4, <1>6
<1>13. \A i, j \in DOMAIN table : i # pos /\ j # pos /\ i < j => new(i) < new(j)
  BY <1>4
<1> HIDE DEF old, new
<1>14. OneEntryPerId' BY <1>10, <1>12 DEF OneEntryPerId
<1>15. \A q, h : Has(q, h)' <=> Has(q, h) /\ q # p
  <2>1. ASSUME NEW q, NEW h, Has(q, h)' PROVE Has(q, h) /\ q # p
    BY <2>1, <1>5, <1>10 DEF Has
  <2>2. ASSUME NEW q, NEW h, Has(q, h), q # p PROVE Has(q, h)'
    BY <2>2, <1>4, <1>11 DEF Has
  <2> QED BY <2>1, <2>2
<1>16. \A q, r : Before(q, r) /\ q # p /\ r # p => Before(q, r)'
  BY <1>4, <1>11, <1>13 DEF Before, WithoutId
<1> QED BY <1>9, <1>14, <1>15, <1>16

-----------------------------------------------------------------------------
(* Requests.                                                               *)

LEMMA QueueDomains ==
  ASSUME QueuesOK
  PROVE  /\ DOMAIN reqQ = 1..Len(reqQ) /\ Len(reqQ) \in Nat
         /\ DOMAIN up = 1..Len(up) /\ Len(up) \in Nat
         /\ DOMAIN down = 1..Len(down) /\ Len(down) \in Nat
         /\ \A i \in DOMAIN reqQ : reqQ[i] \in Asking
         /\ \A i \in DOMAIN up : up[i] \in Upward
         /\ \A i \in DOMAIN down : down[i] \in Downward
         /\ \A p \in Program : /\ DOMAIN respQ[p] = 1..Len(respQ[p]) /\ Len(respQ[p]) \in Nat
                               /\ \A i \in DOMAIN respQ[p] : respQ[p][i] \in Replies
<1>1. /\ DOMAIN reqQ = 1..Len(reqQ) /\ Len(reqQ) \in Nat
      /\ \A i \in DOMAIN reqQ : reqQ[i] \in Asking
  BY LenProperties, ElementOfSeq DEF QueuesOK
<1>2. /\ DOMAIN up = 1..Len(up) /\ Len(up) \in Nat
      /\ \A i \in DOMAIN up : up[i] \in Upward
  BY LenProperties, ElementOfSeq DEF QueuesOK
<1>3. /\ DOMAIN down = 1..Len(down) /\ Len(down) \in Nat
      /\ \A i \in DOMAIN down : down[i] \in Downward
  BY LenProperties, ElementOfSeq DEF QueuesOK
<1>4. ASSUME NEW p \in Program
      PROVE  /\ DOMAIN respQ[p] = 1..Len(respQ[p]) /\ Len(respQ[p]) \in Nat
             /\ \A i \in DOMAIN respQ[p] : respQ[p][i] \in Replies
  <2>1. respQ[p] \in Seq(Replies) BY DEF QueuesOK
  <2> QED BY <2>1, LenProperties, ElementOfSeq
<1> QED BY <1>1, <1>2, <1>3, <1>4

\* What a step leaves of a program's messages, perhaps one place further on.
FewerIn(old, new, Mine(_)) ==
  \E d \in {0, 1} : \A i \in DOMAIN new : Mine(new[i]) =>
                      i + d \in DOMAIN old /\ old[i + d] = new[i]
FewerReq(q) == FewerIn(reqQ, reqQ', LAMBDA m : m.from = q)
FewerUp(q) == FewerIn(up, up', LAMBDA m : Forwarded(m, q))
FewerDown(q) == FewerIn(down, down', LAMBDA m : Acked(m, q))

LEMMA Unmoved ==
  ASSUME QueuesOK
  PROVE  /\ reqQ' = reqQ => \A q : FewerReq(q)
         /\ up' = up => \A q : FewerUp(q)
         /\ down' = down => \A q : FewerDown(q)
<1>1. \A n \in Nat : \A i \in 1..n : i + 0 = i OBVIOUS
<1> QED BY <1>1, QueueDomains DEF FewerReq, FewerUp, FewerDown, FewerIn

\* A program that a step is not about.
LEMMA OtherKept ==
  ASSUME NEW q \in Program, RequestOK(q), QueuesOK', FewerReq(q), FewerUp(q), FewerDown(q),
         respQ'[q] = respQ[q],
         InHandler(q)' => UNCHANGED <<qpc, qmsg>>,
         InResp(q) \/ InResp(q)' => UNCHANGED <<rpc, rmsg>>,
         \A g : Has(q, g)' <=> Has(q, g),
         call'[q] = call[q], q \in made' <=> q \in made
  PROVE  RequestOK(q)'
<1>1. /\ DOMAIN reqQ' = 1..Len(reqQ') /\ Len(reqQ') \in Nat
      /\ DOMAIN up' = 1..Len(up') /\ Len(up') \in Nat
      /\ DOMAIN down' = 1..Len(down') /\ Len(down') \in Nat
  BY LenProperties DEF QueuesOK
<1>2. (Named(q)' <=> Named(q)) /\ (Unnamed(q)' <=> Unnamed(q)) BY DEF Named, Unnamed
<1>3. PICK d1 \in {0, 1} : \A i \in DOMAIN reqQ' : reqQ'[i].from = q =>
        i + d1 \in DOMAIN reqQ /\ reqQ[i + d1] = reqQ'[i]
  BY DEF FewerReq, FewerIn
<1>4. PICK d2 \in {0, 1} : \A i \in DOMAIN up' : Forwarded(up'[i], q) =>
        i + d2 \in DOMAIN up /\ up[i + d2] = up'[i]
  BY DEF FewerUp, FewerIn
<1>5. PICK d3 \in {0, 1} : \A i \in DOMAIN down' : Acked(down'[i], q) =>
        i + d3 \in DOMAIN down /\ down[i + d3] = down'[i]
  BY DEF FewerDown, FewerIn
<1>6. /\ InReqQ(q)' => InReqQ(q)
      /\ InUp(q)' => InUp(q)
      /\ InDown(q)' => InDown(q)
      /\ InHandler(q)' => InHandler(q)
      /\ InResp(q)' <=> InResp(q)
      /\ Answered(q)' <=> Answered(q)
  <2>1. InReqQ(q)' => InReqQ(q) BY <1>3 DEF InReqQ
  <2>2. InUp(q)' => InUp(q) BY <1>4 DEF InUp
  <2>3. InDown(q)' => InDown(q) BY <1>5 DEF InDown
  <2> QED BY <2>1, <2>2, <2>3 DEF InHandler, InResp, Answered
<1>7. OnePlace(q)' BY <1>2, <1>6 DEF OnePlace, RequestOK
<1>8. OneInQueue(q)'
  <2>1. \A i, j \in DOMAIN reqQ' : reqQ'[i].from = q /\ reqQ'[j].from = q => i = j
    BY <1>1, <1>3 DEF RequestOK, OneInQueue
  <2>2. \A i, j \in DOMAIN up' : Forwarded(up'[i], q) /\ Forwarded(up'[j], q) => i = j
    BY <1>1, <1>4 DEF RequestOK, OneInQueue
  <2>3. \A i, j \in DOMAIN down' : Acked(down'[i], q) /\ Acked(down'[j], q) => i = j
    BY <1>1, <1>5 DEF RequestOK, OneInQueue
  <2> QED BY <2>1, <2>2, <2>3 DEF RequestOK, OneInQueue
<1>9. CallOK(q)'
  <2>1. CallOK(q) BY DEF RequestOK
  <2>2. \A i \in DOMAIN reqQ' : reqQ'[i].from = q =>
          (Waits(q, reqQ[i].type) /\ (reqQ[i].type = "CREATE" <=> ~Named(q)))'
    BY <2>1, <1>2, <1>3 DEF CallOK, Waits
  <2>3. (InHandler(q) => /\ Named(q)
                         /\ IF qpc = "reply" THEN Waits(q, "RECEIVE")
                            ELSE Waits(q, qmsg.type))'
    BY <2>1, <1>2, <1>6 DEF CallOK, Waits
  <2>4. \A i \in DOMAIN up' : Forwarded(up'[i], q) =>
          (Waits(q, up[i].type) /\ Has(q, up[i].mtype))'
    <3>1. \A i \in DOMAIN up : Forwarded(up[i], q) =>
            Waits(q, up[i].type) /\ Has(q, up[i].mtype)
      BY <2>1 DEF CallOK
    <3>2. ASSUME NEW i \in DOMAIN up', Forwarded(up'[i], q)
          PROVE  (Waits(q, up[i].type) /\ Has(q, up[i].mtype))'
      <4> DEFINE g == up'[i].mtype
      <4>1. up[i + d2] = up'[i] /\ i + d2 \in DOMAIN up BY <1>4, <3>2
      <4>2. Waits(q, up'[i].type) /\ Has(q, g) BY <3>1, <3>2, <4>1
      <4>3. Has(q, g) <=> \E k \in DOMAIN table' :
                            table'[k].local_id = q /\ table'[k].global_id = g
        <5> HIDE DEF g
        <5> QED BY DEF Has
      <4> QED BY <4>2, <4>3 DEF Waits, Has
    <3> QED BY <3>2
  <2>5. \A i \in DOMAIN down' : Acked(down'[i], q) =>
          (WaitsAck(q, down[i].type) /\ Has(q, down[i].mtype))'
    <3>1. \A i \in DOMAIN down : Acked(down[i], q) =>
            WaitsAck(q, down[i].type) /\ Has(q, down[i].mtype)
      BY <2>1 DEF CallOK
    <3>2. ASSUME NEW i \in DOMAIN down', Acked(down'[i], q)
          PROVE  (WaitsAck(q, down[i].type) /\ Has(q, down[i].mtype))'
      <4> DEFINE g == down'[i].mtype
      <4>1. down[i + d3] = down'[i] /\ i + d3 \in DOMAIN down BY <1>5, <3>2
      <4>2. WaitsAck(q, down'[i].type) /\ Has(q, g) BY <3>1, <3>2, <4>1
      <4>3. Has(q, g) <=> \E k \in DOMAIN table' :
                            table'[k].local_id = q /\ table'[k].global_id = g
        <5> HIDE DEF g
        <5> QED BY DEF Has
      <4> QED BY <4>2, <4>3 DEF WaitsAck, Waits, Has
    <3> QED BY <3>2
  <2>6. (/\ rpc = "remove" /\ rmsg.mtype = q => Waits(q, "DESTROY") /\ Named(q)
         /\ rpc = "answer" /\ rmsg.mtype = q => Replied(q, rmsg))'
    BY <2>1, <1>2, <1>6 DEF InResp, CallOK, Replied, WaitsAck, Waits
  <2>7. (\A i \in DOMAIN respQ[q] : Replied(q, respQ[q][i]))'
    BY <2>1, <1>2 DEF CallOK, Replied, WaitsAck, Waits
  <2>8. (Unnamed(q) => Waits(q, "CREATE"))' BY <2>1, <1>2 DEF CallOK, Waits
  <2> QED BY <2>2, <2>3, <2>4, <2>5, <2>6, <2>7, <2>8 DEF CallOK, Forwarded, Acked
<1>10. MadeOK(q)' BY <1>2, <1>6 DEF RequestOK, MadeOK, Leaves, InResp
<1> QED BY <1>7, <1>8, <1>9, <1>10 DEF RequestOK

\* A program that waits for nothing has nothing on its way.
LEMMA IdleProgram ==
  ASSUME LocalTypes, NEW p \in Program, RequestOK(p), call[p] = "none"
  PROVE  /\ ~InReqQ(p) /\ ~InHandler(p) /\ ~Unnamed(p) /\ ~InUp(p) /\ ~InDown(p)
         /\ ~InResp(p) /\ ~Answered(p)
<1>1. \A t \in Request : ~Waits(p, t) BY DEF Waits, Request
<1>2. \A t \in AnswerType : ~WaitsAck(p, t) BY <1>1 DEF WaitsAck, AckFor, AnswerType, Request
<1>3. QueuesOK /\ ReqHandlerOK /\ RespHandlerOK BY DEF LocalTypes
<1>4. ~InReqQ(p) BY <1>1, <1>3, QueueDomains DEF InReqQ, RequestOK, CallOK, Asking
<1>5. ~InHandler(p)
  <2>1. qpc \in {"translate", "fetch"} => qmsg.type \in Request BY <1>3 DEF ReqHandlerOK, Asking
  <2>2. "RECEIVE" \in Request BY DEF Request
  <2> QED BY <1>1, <1>3, <2>1, <2>2 DEF InHandler, RequestOK, CallOK, ReqHandlerOK
<1>6. ~Unnamed(p) BY <1>1 DEF RequestOK, CallOK, Request
<1>7. ~InUp(p)
  BY <1>1, <1>3, QueueDomains DEF InUp, Forwarded, RequestOK, CallOK, Upward, Request
<1>8. ~InDown(p)
  BY <1>2, <1>3, QueueDomains DEF InDown, Acked, RequestOK, CallOK, AnswerType
<1>9. ~Answered(p)
  <2>1. \A i \in DOMAIN respQ[p] : FALSE
    BY <1>1, <1>2, <1>3, QueueDomains DEF RequestOK, CallOK, Replied, Replies, Request
  <2>2. respQ[p] \in Seq(Replies) BY <1>3 DEF QueuesOK
  <2>3. DOMAIN respQ[p] = 1..Len(respQ[p]) /\ Len(respQ[p]) \in Nat BY <2>2, LenProperties
  <2>4. 1 \notin 1..Len(respQ[p]) BY <2>1, <2>3
  <2>5. Len(respQ[p]) = 0 BY <2>3, <2>4
  <2> QED BY <2>2, <2>5, EmptySeq DEF Answered
<1>10. ~InResp(p)
  <2>1. CASE rpc = "remove" BY <1>1, <2>1 DEF InResp, RequestOK, CallOK, Request
  <2>2. CASE rpc = "answer" /\ rmsg.mtype = p
    <3>1. rmsg.body = 0 /\ rmsg.type \in AnswerType \cup {"ACK_ERROR"}
      BY <1>3, <2>2 DEF RespHandlerOK, AnswerType
    <3>2. rmsg.type # "ACK_ERROR" BY <1>3, <2>2, Constants DEF RespHandlerOK
    <3> QED BY <1>2, <2>2, <3>1, <3>2 DEF RequestOK, CallOK, Replied
  <2> QED BY <2>1, <2>2 DEF InResp
<1> QED BY <1>4, <1>5, <1>6, <1>7, <1>8, <1>9, <1>10

-----------------------------------------------------------------------------
(* What the queues hold after a step.                                      *)

\* QueuesOK, one queue at a time.
ReqQueueOK == reqQ \in Seq(Asking)
UpOK == up \in Seq(Upward)
DownOK == down \in Seq(Downward)
RespQueueOK == respQ \in [Program -> Seq(Replies)]
IncomingOK == /\ incoming \in [Program -> Seq(Messages)]
              /\ \A p \in Program : incoming[p] \in Seq(NewsFor(p))

LEMMA EachQueue == QueuesOK <=> ReqQueueOK /\ UpOK /\ DownOK /\ RespQueueOK /\ IncomingOK
BY DEF QueuesOK, ReqQueueOK, UpOK, DownOK, RespQueueOK, IncomingOK

\* The parts of LocalTypes that a step leaves alone.
LEMMA TypesFrame ==
  ASSUME LocalTypes
  PROVE  /\ UNCHANGED reqQ => ReqQueueOK'
         /\ UNCHANGED up => UpOK'
         /\ UNCHANGED down => DownOK'
         /\ UNCHANGED respQ => RespQueueOK'
         /\ UNCHANGED incoming => IncomingOK'
         /\ UNCHANGED <<qpc, qmsg>> => ReqHandlerOK'
         /\ UNCHANGED <<rpc, rmsg>> => RespHandlerOK'
         /\ UNCHANGED <<call, made, got, pubs, refused>> => ProgramsOK'
         /\ UNCHANGED <<sem, table>> => TableOK'
         /\ UNCHANGED server => ServerOK'
<1>1. ReqQueueOK /\ UpOK /\ DownOK /\ RespQueueOK /\ IncomingOK BY EachQueue DEF LocalTypes
<1>2. /\ UNCHANGED reqQ => ReqQueueOK'
      /\ UNCHANGED up => UpOK'
      /\ UNCHANGED down => DownOK'
      /\ UNCHANGED respQ => RespQueueOK'
      /\ UNCHANGED incoming => IncomingOK'
  BY <1>1 DEF ReqQueueOK, UpOK, DownOK, RespQueueOK, IncomingOK
<1>3. UNCHANGED <<qpc, qmsg>> => ReqHandlerOK' BY DEF LocalTypes, ReqHandlerOK
<1>4. UNCHANGED <<rpc, rmsg>> => RespHandlerOK' BY DEF LocalTypes, RespHandlerOK
<1>5. UNCHANGED <<call, made, got, pubs, refused>> => ProgramsOK' BY DEF LocalTypes, ProgramsOK
<1>6. UNCHANGED <<sem, table>> => TableOK' BY DEF LocalTypes, TableOK
<1>7. UNCHANGED server => ServerOK' BY DEF LocalTypes, ServerOK
<1> QED BY <1>2, <1>3, <1>4, <1>5, <1>6, <1>7

LEMMA TypesJoin ==
  ASSUME ReqQueueOK', UpOK', DownOK', RespQueueOK', IncomingOK',
         ReqHandlerOK', RespHandlerOK', ProgramsOK', TableOK', ServerOK'
  PROVE  LocalTypes'
<1>1. QueuesOK'
  BY DEF QueuesOK, ReqQueueOK, UpOK, DownOK, RespQueueOK, IncomingOK
<1> QED BY <1>1 DEF LocalTypes

LEMMA CallTypes ==
  ASSUME LocalTypes, NEW p \in Program, NEW type \in Request, Call(p, type)
  PROVE  LocalTypes'
<1>1. ReqQueueOK'
  <2>1. Msg(p, type, p, 0) \in Asking BY DEF Msg, Asking, Messages, MsgTypes, Who
  <2>2. reqQ \in Seq(Asking) BY DEF LocalTypes, QueuesOK
  <2> QED BY <2>1, <2>2, Appended DEF Call, ReqQueueOK
<1>2. ProgramsOK' BY DEF Call, LocalTypes, ProgramsOK, serverPart
<1> QED BY <1>1, <1>2, TypesFrame, TypesJoin DEF Call, serverPart

LEMMA ReturnTypes ==
  ASSUME LocalTypes, NEW p \in Program, Return(p)
  PROVE  LocalTypes'
<1>1. QueuesOK /\ ProgramsOK BY DEF LocalTypes
<1>2. respQ[p] \in Seq(Replies) /\ respQ[p] # <<>> BY <1>1 DEF QueuesOK, Return
<1>3. Tail(respQ[p]) \in Seq(Replies) /\ Head(respQ[p]) \in Replies BY <1>2, Tailed
<1>4. RespQueueOK' BY <1>1, <1>3 DEF Return, QueuesOK, RespQueueOK
<1>5. ProgramsOK'
  <2>1. got' \in [Program -> Seq(Nat)]
    <3>1. Head(respQ[p]).body \in Nat BY <1>3 DEF Replies, Messages
    <3>2. got[p] \in Seq(Nat) BY <1>1 DEF ProgramsOK
    <3>3. Append(got[p], Head(respQ[p]).body) \in Seq(Nat) BY <3>1, <3>2, Appended
    <3> QED BY <1>1, <3>3 DEF Return, ProgramsOK
  <2>2. made' \subseteq Program BY <1>1 DEF Return, ProgramsOK
  <2> QED BY <1>1, <2>1, <2>2 DEF Return, ProgramsOK, serverPart
<1> QED BY <1>4, <1>5, TypesFrame, TypesJoin DEF Return, serverPart

LEMMA KillTypes ==
  ASSUME LocalTypes, NEW p \in Program, Kill(p)
  PROVE  LocalTypes'
<1>1. ProgramsOK' BY DEF Kill, LocalTypes, ProgramsOK, serverPart
<1> QED BY <1>1, TypesFrame, TypesJoin DEF Kill, localPart, serverPart

LEMMA ReqTranslateTypes ==
  ASSUME LocalTypes, RequestsOK, OneEntryPerId, ReqTranslate
  PROVE  LocalTypes'
<1> DEFINE p == qmsg.mtype
           m == [qmsg EXCEPT !.mtype = GetGlobalId(table, @)]
<1>1. ReqHandlerOK /\ TableOK /\ QueuesOK BY DEF LocalTypes
<1>2. qmsg \in Asking /\ qmsg.type \notin {"CREATE", "RECEIVE"}
  BY <1>1 DEF ReqHandlerOK, ReqTranslate
<1>3. p \in Program /\ InHandler(p) BY <1>2 DEF Asking, InHandler, ReqTranslate
<1>4. PICK g \in GlobalId : Has(p, g)
  BY <1>3 DEF RequestsOK, RequestOK, CallOK, Named
<1>5. GetGlobalId(table, p) = g BY <1>1, <1>4, GetGlobalIdFinds
<1>6. m \in Upward
  BY <1>2, <1>5 DEF Asking, Upward, Request, Messages, MsgTypes
<1>7. UpOK' BY <1>1, <1>6, Appended DEF ReqTranslate, QueuesOK, UpOK
<1>8. ReqHandlerOK'
  BY DEF ReqTranslate, ReqHandlerOK, Empty, Msg, Messages, MsgTypes, Who
<1> QED BY <1>7, <1>8, TypesFrame, TypesJoin DEF ReqTranslate, programPart, serverPart

LEMMA ReqFetchTypes ==
  ASSUME LocalTypes, ReqFetch
  PROVE  LocalTypes'
<1> DEFINE p == qmsg.mtype
<1>1. ReqHandlerOK /\ QueuesOK BY DEF LocalTypes
<1>2. qmsg \in Asking /\ p \in Program BY <1>1 DEF ReqHandlerOK, ReqFetch, Asking
<1>3. CASE incoming[p] = <<>>
  <2>1. ReqHandlerOK'
    BY <1>2, <1>3 DEF ReqFetch, ReqHandlerOK, Asking, Messages, MsgTypes
  <2> QED BY <1>3, <2>1, TypesFrame, TypesJoin DEF ReqFetch, programPart, serverPart
<1>4. CASE incoming[p] # <<>>
  <2>1. incoming[p] \in Seq(NewsFor(p)) BY <1>1, <1>2 DEF QueuesOK
  <2>2. Tail(incoming[p]) \in Seq(NewsFor(p)) /\ Head(incoming[p]) \in NewsFor(p)
    BY <1>4, <2>1, Tailed
  <2>3. Tail(incoming[p]) \in Seq(Messages)
    BY <1>1, <1>2, <1>4, Tailed DEF QueuesOK
  <2>4. IncomingOK' BY <1>1, <1>4, <2>2, <2>3 DEF ReqFetch, QueuesOK, IncomingOK
  <2>5. ReqHandlerOK'
    BY <1>2, <1>4, <2>2 DEF ReqFetch, ReqHandlerOK, NewsFor, Messages, MsgTypes
  <2> QED BY <2>4, <2>5, TypesFrame, TypesJoin DEF ReqFetch, programPart, serverPart
<1> QED BY <1>3, <1>4

LEMMA ReqReplyTypes ==
  ASSUME LocalTypes, ReqReply
  PROVE  LocalTypes'
<1> DEFINE p == qmsg.mtype
<1>1. ReqHandlerOK /\ QueuesOK BY DEF LocalTypes
<1>2. qmsg \in Replies /\ p \in Program
  BY <1>1 DEF ReqHandlerOK, ReqReply, Replies, AnswerType
<1>3. RespQueueOK'
  <2>1. respQ[p] \in Seq(Replies) BY <1>1, <1>2 DEF QueuesOK
  <2>2. Append(respQ[p], qmsg) \in Seq(Replies) BY <1>2, <2>1, Appended
  <2> QED BY <1>1, <1>2, <2>2, Constants DEF ReqReply, Sent, QueuesOK, RespQueueOK
<1>4. ReqHandlerOK'
  BY DEF ReqReply, ReqHandlerOK, Empty, Msg, Messages, MsgTypes, Who
<1> QED BY <1>3, <1>4, TypesFrame, TypesJoin DEF ReqReply, programPart, serverPart

\* What the request handler finds at the head of its queue.
LEMMA Asked ==
  ASSUME LocalTypes, RequestsOK, ReqTake
  PROVE  LET m == Head(reqQ) IN
         /\ m \in Asking /\ m.mtype \in Program /\ m.from = m.mtype
         /\ InReqQ(m.mtype) /\ 1 \in DOMAIN reqQ /\ reqQ[1] = m
         /\ ~Unnamed(m.mtype)
         /\ m.type = "CREATE" <=> ~Named(m.mtype)
<1> DEFINE m == Head(reqQ)
<1>1. reqQ \in Seq(Asking) BY DEF LocalTypes, QueuesOK
<1>2. m = reqQ[1] /\ 1 \in DOMAIN reqQ /\ m \in Asking BY <1>1, Tailed DEF ReqTake
<1>3. m.mtype \in Program /\ m.from = m.mtype BY <1>2 DEF Asking
<1>4. InReqQ(m.mtype) BY <1>2, <1>3 DEF InReqQ
<1> QED BY <1>2, <1>3, <1>4 DEF RequestsOK, RequestOK, OnePlace, CallOK

LEMMA ReqTakeTypes ==
  ASSUME LocalTypes, RequestsOK, OneEntryPerId, ReqTake
  PROVE  LocalTypes'
<1> DEFINE m == Head(reqQ)
<1>1. ReqHandlerOK /\ TableOK /\ QueuesOK BY DEF LocalTypes
<1>2. /\ m \in Asking /\ m.mtype \in Program /\ m.from = m.mtype
      /\ ~Unnamed(m.mtype)
      /\ m.type = "CREATE" <=> ~Named(m.mtype)
  BY Asked
<1>3. ReqQueueOK'
  BY <1>1, Tailed DEF ReqTake, QueuesOK, ReqQueueOK
<1> HIDE DEF m
<1>4. CASE m.type = "CREATE" /\ HasRoom(table)
  <2>1. /\ table' = AddLocalId(table, m.mtype) /\ up' = Append(up, m)
        /\ UNCHANGED <<sem, qpc, qmsg>>
    BY <1>4 DEF ReqTake, m
  <2>2. TableOK' BY <1>1, <1>2, <1>4, <2>1, TableGrows
  <2>3. m \in Upward BY <1>2, <1>4 DEF Asking, Upward
  <2>4. UpOK' BY <1>1, <2>1, <2>3, Appended DEF QueuesOK, UpOK
  <2> QED BY <1>3, <2>1, <2>2, <2>4, TypesFrame, TypesJoin DEF ReqTake, programPart, serverPart
<1>5. CASE m.type = "CREATE" /\ ~HasRoom(table)
  <2>1. sem' = 0 /\ UNCHANGED <<table, up, qpc, qmsg>> BY <1>5 DEF ReqTake, m
  <2>2. TableOK' BY <1>1, <2>1 DEF TableOK
  <2> QED BY <1>3, <2>1, <2>2, TypesFrame, TypesJoin DEF ReqTake, programPart, serverPart
<1>6. CASE m.type # "CREATE"
  <2>1. /\ \/ /\ qmsg' = m
              /\ qpc' = IF m.type = "RECEIVE" THEN "fetch" ELSE "translate"
           \/ UNCHANGED <<qmsg, qpc>>
        /\ UNCHANGED <<sem, table, up>>
    BY <1>6 DEF ReqTake, m
  <2>2. ReqHandlerOK'
    <3>1. CASE UNCHANGED <<qmsg, qpc>> BY <1>1, <3>1 DEF ReqHandlerOK
    <3>2. CASE qmsg' = m /\ qpc' = IF m.type = "RECEIVE" THEN "fetch" ELSE "translate"
      BY <1>2, <1>6, <3>2 DEF ReqHandlerOK, Asking
    <3> QED BY <2>1, <3>1, <3>2
  <2> QED BY <1>3, <2>1, <2>2, TypesFrame, TypesJoin DEF ReqTake, programPart, serverPart
<1> QED BY <1>4, <1>5, <1>6

\* What the response handler finds at the head of the socket.
LEMMA Received ==
  ASSUME LocalTypes, RequestsOK, IdsOK, SubsOK, RespTake
  PROVE  LET m == Head(down) IN
         /\ m \in Downward /\ 1 \in DOMAIN down /\ down[1] = m
         /\ m.type \in {"ACK_OK", "ACK_DESTROY", "PUBLISH"} => Has(m.from, m.mtype)
         /\ New(m) => \A p \in Program : ~Has(p, m.mtype)
<1> DEFINE m == Head(down)
<1>1. down \in Seq(Downward) BY DEF LocalTypes, QueuesOK
<1>2. m = down[1] /\ 1 \in DOMAIN down /\ m \in Downward BY <1>1, Tailed DEF RespTake
<1>3. m.type \in {"ACK_OK", "ACK_DESTROY"} => Has(m.from, m.mtype)
  <2> SUFFICES ASSUME m.type \in {"ACK_OK", "ACK_DESTROY"} PROVE Has(m.from, m.mtype)
    OBVIOUS
  <2>1. m.from \in Program /\ Acked(m, m.from) BY <1>2 DEF Downward, Acked
  <2> QED BY <1>2, <2>1 DEF RequestsOK, RequestOK, CallOK
<1>4. m.type = "PUBLISH" => Has(m.from, m.mtype) BY <1>2 DEF SubsOK
<1>5. New(m) => \A p \in Program : ~Has(p, m.mtype)
  <2>1. ~Removing(m.mtype) BY DEF RespTake, Removing
  <2>2. \A j \in 1..1 - 1 : FALSE OBVIOUS
  <2> QED BY <1>2, <2>1, <2>2 DEF IdsOK
<1> QED BY <1>2, <1>3, <1>4, <1>5

\* What RespTake makes of a message, by its type.
LEMMA RespTakes ==
  ASSUME LocalTypes, RequestsOK, IdsOK, SubsOK, RespTake
  PROVE  LET m == Head(down)
             i == EntryToFill(table)
             to(p) == [m EXCEPT !.mtype = p] IN
         \/ /\ m.type = "ACK_CREATE" /\ i = 0 /\ UNCHANGED table
            /\ rmsg' = to(Nobody) /\ rpc' = "answer"
            /\ \A p \in Program : ~Unnamed(p)
         \/ /\ m.type = "ACK_CREATE" /\ i \in DOMAIN table /\ table[i].global_id = NoId
            /\ \A j \in DOMAIN table : table[j].global_id = NoId => i <= j
            /\ table' = [table EXCEPT ![i].global_id = m.mtype]
            /\ rmsg' = to(table[i].local_id) /\ rpc' = "answer"
         \/ /\ m.type = "ACK_ERROR" /\ UNCHANGED table
            /\ rmsg' = to(Nobody) /\ rpc' = "answer"
         \/ /\ m.type \in {"ACK_OK", "ACK_DESTROY", "PUBLISH"} /\ UNCHANGED table
            /\ rmsg' = to(m.from)
            /\ rpc' = CASE m.type = "PUBLISH" -> "deliver"
                        [] m.type = "ACK_DESTROY" -> "remove"
                        [] m.type = "ACK_OK" -> "answer"
<1> DEFINE m == Head(down)
           i == EntryToFill(table)
<1>1. TableOK /\ OneEntryPerId BY DEF LocalTypes, IdsOK
<1>2. /\ m \in Downward
      /\ m.type \in {"ACK_OK", "ACK_DESTROY", "PUBLISH"} => Has(m.from, m.mtype)
      /\ New(m) => \A p \in Program : ~Has(p, m.mtype)
  BY Received
<1>3. m.mtype \in GlobalId /\ m.type \in {"ACK_OK", "ACK_CREATE", "ACK_DESTROY",
                                          "ACK_ERROR", "PUBLISH"}
  BY <1>2 DEF Downward
<1>4. \/ i = 0 /\ \A p \in Program : ~Unnamed(p)
      \/ /\ i \in DOMAIN table /\ table[i].global_id = NoId
         /\ \A j \in DOMAIN table : table[j].global_id = NoId => i <= j
  BY <1>1, EntryToFillFirst
<1>5. 0 \notin DOMAIN table BY <1>1, TableDomain
<1>6. CASE m.type = "ACK_CREATE"
  <2>1. /\ table' = IF i = 0 THEN table ELSE [table EXCEPT ![i].global_id = m.mtype]
        /\ rmsg' = [m EXCEPT !.mtype = IF i = 0 THEN Nobody ELSE table[i].local_id]
        /\ rpc' = "answer"
    BY <1>6 DEF RespTake
  <2> HIDE DEF m, i
  <2>2. CASE i = 0 BY <1>4, <1>5, <1>6, <2>1, <2>2 DEF m, i
  <2>3. CASE i # 0 BY <1>4, <1>5, <1>6, <2>1, <2>3 DEF m, i
  <2> QED BY <2>2, <2>3
<1>7. CASE m.type # "ACK_CREATE"
  <2>1. /\ rmsg' = [m EXCEPT !.mtype = GetLocalId(table, @)]
        /\ rpc' = CASE m.type = "PUBLISH" -> "deliver"
                    [] m.type = "ACK_DESTROY" -> "remove"
                    [] OTHER -> "answer"
        /\ UNCHANGED table
    BY <1>7 DEF RespTake
  <2>2. CASE m.type = "ACK_ERROR"
    <3>1. GetLocalId(table, m.mtype) = Nobody
      BY <1>1, <1>2, <1>3, <2>2, GetLocalIdMisses DEF New
    <3> QED BY <2>1, <2>2, <3>1
  <2>3. CASE m.type \in {"ACK_OK", "ACK_DESTROY", "PUBLISH"}
    <3>1. GetLocalId(table, m.mtype) = m.from
      BY <1>1, <1>2, <1>3, <2>3, GetLocalIdFinds
    <3> QED BY <2>1, <2>3, <3>1
  <2> QED BY <1>3, <1>7, <2>2, <2>3
<1> QED BY <1>6, <1>7

LEMMA RespTakeTypes ==
  ASSUME LocalTypes, RequestsOK, IdsOK, SubsOK, RespTake
  PROVE  LocalTypes'
<1> DEFINE m == Head(down)
           i == EntryToFill(table)
           to(p) == [m EXCEPT !.mtype = p]
<1>1. RespHandlerOK /\ TableOK /\ QueuesOK /\ OneEntryPerId BY DEF LocalTypes, IdsOK
<1>2. m \in Downward /\ (New(m) => \A p \in Program : ~Has(p, m.mtype)) BY Received
<1>3. DownOK' BY <1>1, Tailed DEF RespTake, QueuesOK, DownOK
<1>4. TableOK' /\ RespHandlerOK'
  <2> HIDE DEF m, i
  <2>1. CASE m.type \in {"ACK_CREATE", "ACK_ERROR"} /\ UNCHANGED table
             /\ rmsg' = to(Nobody) /\ rpc' = "answer"
    <3>1. TableOK' BY <1>1, <2>1 DEF RespTake, TableOK
    <3>2. RespHandlerOK'
      BY <1>2, <2>1, Constants DEF RespHandlerOK, Downward, Messages, MsgTypes, Who
    <3> QED BY <3>1, <3>2
  <2>2. CASE /\ m.type = "ACK_CREATE" /\ i \in DOMAIN table /\ table[i].global_id = NoId
             /\ table' = [table EXCEPT ![i].global_id = m.mtype]
             /\ rmsg' = to(table[i].local_id) /\ rpc' = "answer"
    <3>1. m.mtype \in GlobalId BY <1>2 DEF Downward
    <3>2. TableOK' BY <1>1, <1>2, <2>2, <3>1, TableFills DEF RespTake, New
    <3>3. table[i].local_id \in Program BY <1>1, <2>2, TableDomain
    <3>4. RespHandlerOK'
      BY <1>2, <2>2, <3>3, Constants DEF RespHandlerOK, Downward, Messages, MsgTypes, Who
    <3> QED BY <3>2, <3>4
  <2>3. CASE /\ m.type \in {"ACK_OK", "ACK_DESTROY", "PUBLISH"} /\ UNCHANGED table
             /\ rmsg' = to(m.from)
             /\ rpc' = CASE m.type = "PUBLISH" -> "deliver"
                         [] m.type = "ACK_DESTROY" -> "remove"
                         [] m.type = "ACK_OK" -> "answer"
    <3>1. TableOK' BY <1>1, <2>3 DEF RespTake, TableOK
    <3>2. m.from \in Program /\ m \in Messages /\ (m.type = "PUBLISH" <=> m.body # 0)
      BY <1>2 DEF Downward
    <3>3. to(m.from) \in Messages BY <3>2 DEF Messages, Who
    <3>4. CASE m.type = "PUBLISH"
      <4>1. rpc' = "deliver" /\ rmsg' = to(m.from) BY <2>3, <3>4
      <4>2. /\ rmsg' \in Messages /\ rmsg'.from = m.from /\ rmsg'.mtype = m.from
            /\ rmsg'.type = "PUBLISH" /\ rmsg'.body # 0
        BY <3>2, <3>3, <3>4, <4>1 DEF Messages
      <4>3. RespHandlerOK' BY <3>2, <4>1, <4>2 DEF RespHandlerOK, NewsFor
      <4> QED BY <3>1, <4>3
    <3>5. CASE m.type \in {"ACK_OK", "ACK_DESTROY"}
      BY <2>3, <3>1, <3>2, <3>3, <3>5, Constants DEF RespHandlerOK, Who, Messages
    <3> QED BY <2>3, <3>1, <3>4, <3>5
  <2> QED BY <2>1, <2>2, <2>3, RespTakes DEF m, i
<1> QED BY <1>3, <1>4, TypesFrame, TypesJoin DEF RespTake, programPart, serverPart

LEMMA RespRemoveTypes ==
  ASSUME LocalTypes, RequestsOK, IdsOK, RespRemove
  PROVE  LocalTypes'
<1>1. RespHandlerOK /\ TableOK /\ OneEntryPerId BY DEF LocalTypes, IdsOK
<1>2. rmsg.mtype \in Program BY <1>1, Constants DEF RespHandlerOK, RespRemove
<1>3. Named(rmsg.mtype) BY <1>2 DEF RespRemove, RequestsOK, RequestOK, CallOK
<1>4. TableOK' BY <1>1, <1>3, TableShrinks DEF RespRemove
<1>5. RespHandlerOK' BY <1>1 DEF RespRemove, RespHandlerOK
<1> QED BY <1>4, <1>5, TypesFrame, TypesJoin DEF RespRemove, programPart, serverPart

LEMMA RespAnswerTypes ==
  ASSUME LocalTypes, RespAnswer
  PROVE  LocalTypes'
<1> DEFINE p == rmsg.mtype
<1>1. RespHandlerOK /\ QueuesOK BY DEF LocalTypes
<1>2. RespQueueOK'
  <2>1. CASE p = Nobody BY <1>1, <2>1 DEF RespAnswer, Sent, QueuesOK, RespQueueOK
  <2>2. CASE p # Nobody
    <3>1. p \in Program /\ rmsg \in Replies
      BY <1>1, <2>2 DEF RespHandlerOK, RespAnswer, Who, Replies, AnswerType
    <3>2. respQ[p] \in Seq(Replies) BY <1>1, <3>1 DEF QueuesOK
    <3>3. Append(respQ[p], rmsg) \in Seq(Replies) BY <3>1, <3>2, Appended
    <3> QED BY <1>1, <2>2, <3>1, <3>3 DEF RespAnswer, Sent, QueuesOK, RespQueueOK
  <2> QED BY <2>1, <2>2
<1>3. RespHandlerOK'
  BY DEF RespAnswer, RespHandlerOK, Empty, Msg, Messages, MsgTypes, Who
<1> QED BY <1>2, <1>3, TypesFrame, TypesJoin DEF RespAnswer, programPart, serverPart

LEMMA RespDeliverTypes ==
  ASSUME LocalTypes, RespDeliver
  PROVE  LocalTypes'
<1> DEFINE p == rmsg.mtype
<1>1. RespHandlerOK /\ QueuesOK BY DEF LocalTypes
<1>2. p \in Program /\ rmsg \in NewsFor(p) /\ rmsg \in Messages
  BY <1>1 DEF RespHandlerOK, RespDeliver, NewsFor
<1>3. incoming[p] \in Seq(NewsFor(p)) /\ incoming[p] \in Seq(Messages)
  BY <1>1, <1>2 DEF QueuesOK
<1>4. Append(incoming[p], rmsg) \in Seq(NewsFor(p)) /\ Append(incoming[p], rmsg) \in Seq(Messages)
  BY <1>2, <1>3, Appended
<1>5. IncomingOK'
  BY <1>1, <1>2, <1>4, Constants DEF RespDeliver, Sent, QueuesOK, IncomingOK
<1>6. RespHandlerOK'
  BY DEF RespDeliver, RespHandlerOK, Empty, Msg, Messages, MsgTypes, Who
<1> QED BY <1>5, <1>6, TypesFrame, TypesJoin DEF RespDeliver, programPart, serverPart

\* What a step of the broker does to the socket towards the machine.
LEMMA ServerTypes ==
  ASSUME LocalTypes, RequestsOK, SubsOK, ServerStep \/ ServerPublish
  PROVE  LocalTypes'
<1>1. QueuesOK /\ ServerOK /\ ProgramsOK BY DEF LocalTypes
<1>2. up \in Seq(Upward) /\ down \in Seq(Downward) BY <1>1 DEF QueuesOK
<1>3. CASE ServerStep
  <2> DEFINE msg == Head(up)
  <2>1. UpOK' /\ msg \in Upward BY <1>2, <1>3, Tailed DEF ServerStep, UpOK
  <2>2. msg.from \in Program BY <2>1 DEF Upward
  <2>3. ASSUME NEW g \in GlobalId, NEW t \in {"ACK_OK", "ACK_CREATE", "ACK_DESTROY", "ACK_ERROR"},
               Answer(t, g, msg.from)
        PROVE  DownOK'
    <3>1. Msg(g, t, msg.from, 0) \in Downward
      BY <2>2, <2>3 DEF Msg, Downward, Messages, MsgTypes, Who
    <3> QED BY <1>2, <2>3, <3>1, Appended DEF Answer, DownOK
  <2>4. CASE ServerCreate(msg)
    <3>0. PICK g \in GlobalId \ server.users :
          \/ /\ server' = [server EXCEPT !.users = @ \cup {g}, !.known = @ \cup {g}]
             /\ Answer("ACK_CREATE", g, msg.from)
          \/ /\ server' = [server EXCEPT !.users = @ \cup {g}]
             /\ Answer("ACK_ERROR", g, msg.from)
      BY <2>4 DEF ServerCreate
    <3>1. DownOK' BY <2>3, <3>0 DEF Answer
    <3>2. ServerOK'
      <4> DEFINE U == server.users \cup {g}
                 K == server.known \cup {g}
      <4>1. /\ U \in SUBSET GlobalId /\ K \in SUBSET GlobalId /\ K \subseteq U
            /\ server.known \subseteq U
        BY <1>1 DEF ServerOK
      <4>2. \/ server' = [server EXCEPT !.users = U, !.known = K]
            \/ server' = [server EXCEPT !.users = U]
        BY <3>0
      <4> HIDE DEF U, K
      <4> QED BY <1>1, <4>1, <4>2 DEF ServerOK
    <3>3. refused' = refused \/ refused' = refused + 1 BY <2>4 DEF ServerCreate
    <3>4. UNCHANGED <<call, made, got, pubs>> BY <1>3 DEF ServerStep, programPart
    <3>5. ProgramsOK' BY <1>1, <3>3, <3>4 DEF ProgramsOK
    <3> QED BY <1>3, <2>1, <3>1, <3>2, <3>5, TypesFrame, TypesJoin
        DEF ServerStep, programPart, localPart
  <2>5. CASE ServerOther(msg)
    <3>1. msg.mtype \in GlobalId BY <2>1, <2>5 DEF Upward, ServerOther
    <3>2. DownOK' BY <2>3, <2>5, <3>1 DEF ServerOther
    <3>3. ServerOK' BY <1>1, <2>2, <2>5, <3>1 DEF ServerOther, ServerOK
    <3>4. ProgramsOK' BY <1>1, <1>3, <2>5 DEF ServerStep, ServerOther, ProgramsOK, programPart
    <3> QED BY <1>3, <2>1, <3>2, <3>3, <3>4, TypesFrame, TypesJoin
        DEF ServerStep, programPart, localPart
  <2> QED BY <1>3, <2>4, <2>5 DEF ServerStep
<1>4. CASE ServerPublish
  <2>1. PICK s \in server.subs : down' = Append(down, Msg(s[1], "PUBLISH", s[2], pubs + 1))
    BY <1>4 DEF ServerPublish
  <2>2. s[1] \in GlobalId /\ s[2] \in Program BY <1>1, <2>1 DEF ServerOK
  <2>3. pubs \in Nat /\ pubs + 1 \in Nat /\ pubs + 1 # 0 BY <1>1 DEF ProgramsOK
  <2>4. Msg(s[1], "PUBLISH", s[2], pubs + 1) \in Downward
    BY <2>2, <2>3 DEF Msg, Downward, Messages, MsgTypes, Who, Request
  <2>5. DownOK' BY <1>2, <2>1, <2>4, Appended DEF DownOK
  <2>6. ProgramsOK' BY <1>1, <1>4, <2>3 DEF ServerPublish, ProgramsOK, programPart
  <2> QED BY <1>4, <2>5, <2>6, TypesFrame, TypesJoin DEF ServerPublish, programPart, localPart
<1> QED BY <1>3, <1>4

-----------------------------------------------------------------------------
(* Requests: programs that a step moves.                                   *)

OneReq(p) == \A i, j \in DOMAIN reqQ : reqQ[i].from = p /\ reqQ[j].from = p => i = j
OneUp(p) == \A i, j \in DOMAIN up : Forwarded(up[i], p) /\ Forwarded(up[j], p) => i = j
OneDown(p) == \A i, j \in DOMAIN down : Acked(down[i], p) /\ Acked(down[j], p) => i = j

LEMMA Longer ==
  ASSUME QueuesOK
  PROVE  /\ \A m \in Asking : reqQ' = Append(reqQ, m) =>
              /\ \A q : q # m.from => FewerReq(q)
              /\ ~InReqQ(m.from) => OneReq(m.from)'
              /\ ~InReqQ(m.from) => \A i \in DOMAIN reqQ' : reqQ'[i].from = m.from => reqQ'[i] = m
         /\ \A m \in Upward : up' = Append(up, m) =>
              /\ \A q : ~Forwarded(m, q) => FewerUp(q)
              /\ ~InUp(m.from) => OneUp(m.from)'
              /\ ~InUp(m.from) => \A i \in DOMAIN up' : Forwarded(up'[i], m.from) => up'[i] = m
         /\ \A m \in Downward : down' = Append(down, m) =>
              /\ \A q : ~Acked(m, q) => FewerDown(q)
              /\ ~InDown(m.from) => OneDown(m.from)'
              /\ ~InDown(m.from) => \A i \in DOMAIN down' : Acked(down'[i], m.from) => down'[i] = m
<1>1. ASSUME NEW m \in Asking, reqQ' = Append(reqQ, m)
      PROVE  /\ \A q : q # m.from => FewerReq(q)
             /\ ~InReqQ(m.from) => OneReq(m.from)'
             /\ ~InReqQ(m.from) => \A i \in DOMAIN reqQ' : reqQ'[i].from = m.from => reqQ'[i] = m
  <2>1. /\ Len(reqQ) \in Nat /\ DOMAIN reqQ = 1..Len(reqQ) /\ DOMAIN reqQ' = 1..Len(reqQ) + 1
        /\ \A i \in DOMAIN reqQ : reqQ'[i] = reqQ[i]
        /\ reqQ'[Len(reqQ) + 1] = m
    BY <1>1, Appended DEF QueuesOK
  <2>2. \A i \in DOMAIN reqQ' : i + 0 = i /\ (i \in DOMAIN reqQ \/ i = Len(reqQ) + 1) BY <2>1
  <2> QED BY <2>1, <2>2 DEF FewerReq, FewerIn, InReqQ, OneReq
<1>2. ASSUME NEW m \in Upward, up' = Append(up, m)
      PROVE  /\ \A q : ~Forwarded(m, q) => FewerUp(q)
             /\ ~InUp(m.from) => OneUp(m.from)'
             /\ ~InUp(m.from) => \A i \in DOMAIN up' : Forwarded(up'[i], m.from) => up'[i] = m
  <2>1. /\ Len(up) \in Nat /\ DOMAIN up = 1..Len(up) /\ DOMAIN up' = 1..Len(up) + 1
        /\ \A i \in DOMAIN up : up'[i] = up[i]
        /\ up'[Len(up) + 1] = m
    BY <1>2, Appended DEF QueuesOK
  <2>2. \A i \in DOMAIN up' : i + 0 = i /\ (i \in DOMAIN up \/ i = Len(up) + 1) BY <2>1
  <2> QED BY <2>1, <2>2 DEF FewerUp, FewerIn, InUp, OneUp
<1>3. ASSUME NEW m \in Downward, down' = Append(down, m)
      PROVE  /\ \A q : ~Acked(m, q) => FewerDown(q)
             /\ ~InDown(m.from) => OneDown(m.from)'
             /\ ~InDown(m.from) => \A i \in DOMAIN down' : Acked(down'[i], m.from) => down'[i] = m
  <2>1. /\ Len(down) \in Nat /\ DOMAIN down = 1..Len(down) /\ DOMAIN down' = 1..Len(down) + 1
        /\ \A i \in DOMAIN down : down'[i] = down[i]
        /\ down'[Len(down) + 1] = m
    BY <1>3, Appended DEF QueuesOK
  <2>2. \A i \in DOMAIN down' : i + 0 = i /\ (i \in DOMAIN down \/ i = Len(down) + 1) BY <2>1
  <2> QED BY <2>1, <2>2 DEF FewerDown, FewerIn, InDown, OneDown
<1> QED BY <1>1, <1>2, <1>3

LEMMA Shorter ==
  ASSUME QueuesOK
  PROVE  /\ reqQ # <<>> /\ reqQ' = Tail(reqQ) =>
              /\ \A q : FewerReq(q)
              /\ \A q : OneReq(q) /\ reqQ[1].from = q => ~InReqQ(q)'
         /\ up # <<>> /\ up' = Tail(up) =>
              /\ \A q : FewerUp(q)
              /\ \A q : OneUp(q) /\ Forwarded(up[1], q) => ~InUp(q)'
         /\ down # <<>> /\ down' = Tail(down) =>
              /\ \A q : FewerDown(q)
              /\ \A q : OneDown(q) /\ Acked(down[1], q) => ~InDown(q)'
<1>1. ASSUME reqQ # <<>>, reqQ' = Tail(reqQ)
      PROVE  /\ \A q : FewerReq(q)
             /\ \A q : OneReq(q) /\ reqQ[1].from = q => ~InReqQ(q)'
  <2>1. /\ 1 \in DOMAIN reqQ /\ DOMAIN reqQ' = 1..Len(reqQ) - 1 /\ Len(reqQ) \in Nat
        /\ \A i \in DOMAIN reqQ' : i + 1 \in DOMAIN reqQ /\ reqQ'[i] = reqQ[i + 1]
    BY <1>1, Tailed DEF QueuesOK
  <2>2. \A i \in DOMAIN reqQ' : i + 1 # 1 BY <2>1
  <2> QED BY <2>1, <2>2 DEF FewerReq, FewerIn, OneReq, InReqQ
<1>2. ASSUME up # <<>>, up' = Tail(up)
      PROVE  /\ \A q : FewerUp(q)
             /\ \A q : OneUp(q) /\ Forwarded(up[1], q) => ~InUp(q)'
  <2>1. /\ 1 \in DOMAIN up /\ DOMAIN up' = 1..Len(up) - 1 /\ Len(up) \in Nat
        /\ \A i \in DOMAIN up' : i + 1 \in DOMAIN up /\ up'[i] = up[i + 1]
    BY <1>2, Tailed DEF QueuesOK
  <2>2. \A i \in DOMAIN up' : i + 1 # 1 BY <2>1
  <2> QED BY <2>1, <2>2 DEF FewerUp, FewerIn, OneUp, InUp
<1>3. ASSUME down # <<>>, down' = Tail(down)
      PROVE  /\ \A q : FewerDown(q)
             /\ \A q : OneDown(q) /\ Acked(down[1], q) => ~InDown(q)'
  <2>1. /\ 1 \in DOMAIN down /\ DOMAIN down' = 1..Len(down) - 1 /\ Len(down) \in Nat
        /\ \A i \in DOMAIN down' : i + 1 \in DOMAIN down /\ down'[i] = down[i + 1]
    BY <1>3, Tailed DEF QueuesOK
  <2>2. \A i \in DOMAIN down' : i + 1 # 1 BY <2>1
  <2> QED BY <2>1, <2>2 DEF FewerDown, FewerIn, OneDown, InDown
<1> QED BY <1>1, <1>2, <1>3

\* What a queue that only loses messages keeps.
LEMMA FewerKeeps ==
  ASSUME NEW q, QueuesOK'
  PROVE  /\ FewerReq(q) => (InReqQ(q)' => InReqQ(q)) /\ (OneReq(q) => OneReq(q)')
         /\ FewerUp(q) => (InUp(q)' => InUp(q)) /\ (OneUp(q) => OneUp(q)')
         /\ FewerDown(q) => (InDown(q)' => InDown(q)) /\ (OneDown(q) => OneDown(q)')
<1>1. /\ DOMAIN reqQ' = 1..Len(reqQ') /\ Len(reqQ') \in Nat
      /\ DOMAIN up' = 1..Len(up') /\ Len(up') \in Nat
      /\ DOMAIN down' = 1..Len(down') /\ Len(down') \in Nat
  BY LenProperties DEF QueuesOK
<1>2. FewerReq(q) => (InReqQ(q)' => InReqQ(q)) /\ (OneReq(q) => OneReq(q)')
  BY <1>1 DEF FewerReq, FewerIn, InReqQ, OneReq
<1>3. FewerUp(q) => (InUp(q)' => InUp(q)) /\ (OneUp(q) => OneUp(q)')
  BY <1>1 DEF FewerUp, FewerIn, InUp, OneUp
<1>4. FewerDown(q) => (InDown(q)' => InDown(q)) /\ (OneDown(q) => OneDown(q)')
  BY <1>1 DEF FewerDown, FewerIn, InDown, OneDown
<1> QED BY <1>2, <1>3, <1>4

LEMMA OneInQueueMeans ==
  /\ \A p : OneInQueue(p) <=> OneReq(p) /\ OneUp(p) /\ OneDown(p) /\ Len(respQ[p]) <= 1
  /\ \A p : OneInQueue(p)' <=> OneReq(p)' /\ OneUp(p)' /\ OneDown(p)' /\ Len(respQ'[p]) <= 1
BY DEF OneInQueue, OneReq, OneUp, OneDown

\* A program with nothing in its queue of answers.
LEMMA NoAnswer ==
  ASSUME NEW p \in Program
  PROVE  /\ ~Answered(p) => respQ[p] = <<>> /\ Len(respQ[p]) = 0 /\ DOMAIN respQ[p] = {}
         /\ (~Answered(p) => respQ[p] = <<>> /\ Len(respQ[p]) = 0 /\ DOMAIN respQ[p] = {})'
BY DEF Answered

-----------------------------------------------------------------------------
(* Requests: each step.                                                    *)

LEMMA CallRequests ==
  ASSUME LocalTypes, LocalTypes', RequestsOK,
         NEW p \in Program, NEW type \in Request, Call(p, type)
  PROVE  RequestsOK'
<1> DEFINE m == Msg(p, type, p, 0)
<1>1. QueuesOK /\ QueuesOK' /\ ProgramsOK BY DEF LocalTypes
<1>2. m \in Asking /\ m.from = p /\ m.type = type
  BY DEF Msg, Asking, Messages, MsgTypes, Who
<1> HIDE DEF m
<1>3. /\ reqQ' = Append(reqQ, m)
      /\ call' = [call EXCEPT ![p] = type]
      /\ UNCHANGED <<table, respQ, qpc, qmsg, rpc, rmsg, up, down, made>>
  BY DEF Call, m
<1>4. \A q, g : Has(q, g)' <=> Has(q, g) BY <1>3 DEF Has
<1>5. \A q \in Program \ {p} : RequestOK(q)'
  <2> TAKE q \in Program \ {p}
  <2>1. RequestOK(q) BY DEF RequestsOK
  <2>2. FewerReq(q) /\ FewerUp(q) /\ FewerDown(q) BY <1>1, <1>2, <1>3, Longer, Unmoved
  <2>3. call'[q] = call[q] BY <1>1, <1>3 DEF ProgramsOK
  <2> QED BY <1>1, <1>3, <1>4, <2>1, <2>2, <2>3, OtherKept
<1>6. RequestOK(p)'
  <2>1. RequestOK(p) /\ call[p] = "none" BY DEF RequestsOK, Call
  <2>2. /\ ~InReqQ(p) /\ ~InHandler(p) /\ ~Unnamed(p) /\ ~InUp(p) /\ ~InDown(p)
        /\ ~InResp(p) /\ ~Answered(p)
    BY <2>1, IdleProgram
  <2>3. (/\ ~InHandler(p) /\ ~Unnamed(p) /\ ~InUp(p) /\ ~InDown(p)
         /\ ~InResp(p) /\ ~Answered(p))'
    BY <1>3, <1>4, <2>2 DEF InHandler, Unnamed, InUp, InDown, InResp, Answered
  <2>4. OneReq(p)' /\ \A i \in DOMAIN reqQ' : reqQ'[i].from = p => reqQ'[i] = m
    BY <1>1, <1>2, <1>3, <2>2, Longer
  <2>5. OnePlace(p)' BY <2>3 DEF OnePlace
  <2>6. OneInQueue(p)' BY <1>3, <2>1, <2>4, OneInQueueMeans DEF RequestOK, OneUp, OneDown
  <2>7. call'[p] = type BY <1>1, <1>3 DEF ProgramsOK
  <2>8. Named(p)' <=> Named(p) BY <1>4 DEF Named
  <2>9. type = "CREATE" <=> ~Named(p)
    <3>1. type = "CREATE" => p \notin made BY DEF Call
    <3>2. type # "CREATE" => p \in made BY DEF Call
    <3>3. ~Leaves(p) BY <2>1 DEF Leaves
    <3> QED BY <2>1, <3>1, <3>2, <3>3 DEF RequestOK, MadeOK
  <2>10. CallOK(p)'
    <3>1. \A i \in DOMAIN reqQ' : reqQ'[i].from = p =>
            (Waits(p, reqQ[i].type) /\ (reqQ[i].type = "CREATE" <=> ~Named(p)))'
      BY <1>2, <2>4, <2>7, <2>8, <2>9 DEF Waits
    <3> QED BY <2>3, <3>1, NoAnswer DEF CallOK, InUp, InDown, InResp
  <2>11. MadeOK(p)'
    <3>1. type # "CREATE" <=> p \in made' BY <1>3 DEF Call
    <3>2. type \notin {"none", "killed"} BY DEF Request
    <3> QED BY <2>7, <2>8, <2>9, <3>1, <3>2 DEF MadeOK
  <2> QED BY <2>5, <2>6, <2>10, <2>11 DEF RequestOK
<1> QED BY <1>5, <1>6 DEF RequestsOK

LEMMA ReturnRequests ==
  ASSUME LocalTypes, LocalTypes', RequestsOK, NEW p \in Program, Return(p)
  PROVE  RequestsOK'
<1>1. QueuesOK /\ QueuesOK' /\ ProgramsOK BY DEF LocalTypes
<1>2. /\ UNCHANGED <<table, reqQ, qpc, qmsg, rpc, rmsg, up, down>>
      /\ respQ' = [respQ EXCEPT ![p] = Tail(@)] /\ call' = [call EXCEPT ![p] = "none"]
  BY DEF Return
<1>3. \A q, g : Has(q, g)' <=> Has(q, g) BY <1>2 DEF Has
<1>4. \A q \in Program \ {p} : RequestOK(q)'
  <2> TAKE q \in Program \ {p}
  <2>1. RequestOK(q) BY DEF RequestsOK
  <2>2. FewerReq(q) /\ FewerUp(q) /\ FewerDown(q) BY <1>1, <1>2, Unmoved
  <2>3. call'[q] = call[q] /\ respQ'[q] = respQ[q] BY <1>1, <1>2 DEF ProgramsOK, QueuesOK
  <2>4. q \in made' <=> q \in made BY DEF Return
  <2> QED BY <1>1, <1>2, <1>3, <2>1, <2>2, <2>3, <2>4, OtherKept
<1>5. RequestOK(p)'
  <2> DEFINE a == respQ[p][1]
  <2>1. RequestOK(p) /\ call[p] \in Request /\ Answered(p)
    BY DEF RequestsOK, Return, Answered
  <2>2. /\ ~InReqQ(p) /\ ~InHandler(p) /\ ~Unnamed(p) /\ ~InUp(p) /\ ~InDown(p)
        /\ ~InResp(p)
    BY <2>1 DEF RequestOK, OnePlace
  <2>3. respQ[p] \in Seq(Replies) /\ respQ[p] # <<>> BY <1>1, <2>1 DEF QueuesOK, Answered
  <2>4. /\ a = Head(respQ[p]) /\ a \in Replies /\ 1 \in DOMAIN respQ[p]
        /\ Tail(respQ[p]) \in Seq(Replies) /\ Len(Tail(respQ[p])) = Len(respQ[p]) - 1
        /\ Len(respQ[p]) \in Nat
    BY <2>3, Tailed
  <2>5. Len(respQ[p]) <= 1 BY <2>1 DEF RequestOK, OneInQueue
  <2>6. Len(respQ[p]) # 0 BY <2>3, EmptySeq
  <2>7. Len(Tail(respQ[p])) = 0
    <3> DEFINE n == Len(respQ[p])
               k == Len(Tail(respQ[p]))
    <3>1. n \in Nat /\ n <= 1 /\ n # 0 /\ k = n - 1 BY <2>4, <2>5, <2>6
    <3> HIDE DEF n, k
    <3>2. k = 0 BY <3>1
    <3> QED BY <3>2 DEF k
  <2>8. respQ'[p] = <<>> BY <1>1, <1>2, <2>4, <2>7, EmptySeq DEF QueuesOK
  <2>9. (/\ ~InReqQ(p) /\ ~InHandler(p) /\ ~Unnamed(p) /\ ~InUp(p) /\ ~InDown(p)
         /\ ~InResp(p) /\ ~Answered(p))'
    BY <1>2, <1>3, <2>2, <2>8
    DEF InReqQ, InHandler, Unnamed, InUp, InDown, InResp, Answered
  <2>10. OnePlace(p)' BY <2>9 DEF OnePlace
  <2>11. OneInQueue(p)'
    BY <2>9, NoAnswer DEF OneInQueue, InReqQ, InUp, InDown
  <2>12. CallOK(p)'
    BY <2>9, NoAnswer DEF CallOK, InReqQ, InUp, InDown, InResp
  <2>13. MadeOK(p)'
    <3>1. /\ IF a.body # 0 THEN Waits(p, "RECEIVE") ELSE WaitsAck(p, a.type)
          /\ a.type = "ACK_DESTROY" <=> ~Named(p)
      BY <2>1, <2>4 DEF RequestOK, CallOK, Replied
    <3>2. \A t : Waits(p, t) <=> call[p] = t BY <2>1 DEF Waits, Request
    <3>3. a.type \in AnswerType /\ (a.body # 0 => a.type = "ACK_OK") BY <2>4 DEF Replies
    <3>4. /\ call[p] = "CREATE" <=> p \notin made
          /\ call[p] = "CREATE" <=> a.type = "ACK_CREATE"
          /\ call[p] = "DESTROY" <=> a.type = "ACK_DESTROY"
      <4>1. /\ call[p] = "CREATE" <=> a.type = "ACK_CREATE"
            /\ call[p] = "DESTROY" <=> a.type = "ACK_DESTROY"
        BY <3>1, <3>2, <3>3 DEF WaitsAck, AckFor, AnswerType
      <4>2. call[p] = "CREATE" <=> p \notin made BY <2>1 DEF RequestOK, MadeOK
      <4> QED BY <4>1, <4>2
    <3>5. p \in made' <=> Named(p)
      <4>1. made' = IF call[p] = "CREATE" /\ a.type = "ACK_CREATE" THEN made \cup {p}
                    ELSE IF call[p] = "DESTROY" /\ a.type = "ACK_DESTROY" THEN made \ {p}
                    ELSE made
        BY <2>4 DEF Return
      <4> QED BY <3>1, <3>4, <4>1
    <3>6. Named(p)' <=> Named(p) BY <1>3 DEF Named
    <3>7. call'[p] = "none" BY <1>1, <1>2 DEF ProgramsOK
    <3> QED BY <3>5, <3>6, <3>7 DEF MadeOK, Request
  <2> QED BY <2>10, <2>11, <2>12, <2>13 DEF RequestOK
<1> QED BY <1>4, <1>5 DEF RequestsOK

LEMMA KillRequests ==
  ASSUME LocalTypes, LocalTypes', RequestsOK, NEW p \in Program, Kill(p)
  PROVE  RequestsOK'
<1>1. QueuesOK /\ QueuesOK' /\ ProgramsOK /\ RespHandlerOK BY DEF LocalTypes
<1>2. /\ UNCHANGED <<table, reqQ, respQ, qpc, qmsg, rpc, rmsg, up, down>>
      /\ made' = made \ {p} /\ call' = [call EXCEPT ![p] = "killed"]
  BY DEF Kill, localPart
<1>3. \A q, g : Has(q, g)' <=> Has(q, g) BY <1>2 DEF Has
<1>4. \A q \in Program \ {p} : RequestOK(q)'
  <2> TAKE q \in Program \ {p}
  <2>1. RequestOK(q) BY DEF RequestsOK
  <2>2. FewerReq(q) /\ FewerUp(q) /\ FewerDown(q) BY <1>1, <1>2, Unmoved
  <2>3. call'[q] = call[q] BY <1>1, <1>2 DEF ProgramsOK
  <2> QED BY <1>1, <1>2, <1>3, <2>1, <2>2, <2>3, OtherKept
<1>5. RequestOK(p)'
  <2>1. OnePlace(p) /\ OneInQueue(p) /\ CallOK(p) BY DEF RequestsOK, RequestOK
  <2>2. (Named(p)' <=> Named(p)) /\ (Unnamed(p)' <=> Unnamed(p)) BY <1>3 DEF Named, Unnamed
  <2>3. OnePlace(p)' /\ OneInQueue(p)'
    BY <1>2, <2>1, <2>2
    DEF OnePlace, OneInQueue, InReqQ, InHandler, InUp, InDown, InResp, Answered
  <2>4. call'[p] = "killed" BY <1>1, <1>2 DEF ProgramsOK
  <2>5. \A t : Waits(p, t)' BY <2>4 DEF Waits
  <2>6. \A t \in AnswerType : WaitsAck(p, t)'
    BY <2>4 DEF Waits, WaitsAck, AckFor, AnswerType
  <2>7. CallOK(p)'
    <3>1. \A i \in DOMAIN reqQ' : reqQ'[i].from = p =>
            (Waits(p, reqQ[i].type) /\ (reqQ[i].type = "CREATE" <=> ~Named(p)))'
      BY <1>2, <2>1, <2>2, <2>4 DEF CallOK, Waits
    <3>2. (InHandler(p) => /\ Named(p)
                           /\ IF qpc = "reply" THEN Waits(p, "RECEIVE")
                              ELSE Waits(p, qmsg.type))'
      BY <1>2, <2>1, <2>2, <2>4 DEF CallOK, InHandler, Waits
    <3>3. (Unnamed(p) => Waits(p, "CREATE"))' BY <2>4 DEF Waits
    <3>4. \A i \in DOMAIN up' : Forwarded(up'[i], p) =>
            (Waits(p, up[i].type) /\ Has(p, up[i].mtype))'
      BY <1>2, <2>1, <2>4 DEF CallOK, Waits, Has
    <3>5. \A i \in DOMAIN down' : Acked(down'[i], p) =>
            (WaitsAck(p, down[i].type) /\ Has(p, down[i].mtype))'
      BY <1>2, <2>1, <2>4 DEF CallOK, Waits, WaitsAck, Has
    <3>6. (rpc = "remove" /\ rmsg.mtype = p => Waits(p, "DESTROY") /\ Named(p))'
      BY <1>2, <2>1, <2>2, <2>4 DEF CallOK, Waits
    <3>7. (rpc = "answer" /\ rmsg.mtype = p => Replied(p, rmsg))'
      BY <1>2, <2>1, <2>2, <2>4 DEF CallOK, Waits, WaitsAck, Replied
    <3>8. (\A i \in DOMAIN respQ[p] : Replied(p, respQ[p][i]))'
      BY <1>2, <2>1, <2>2, <2>4 DEF CallOK, Waits, WaitsAck, Replied
    <3> QED BY <3>1, <3>2, <3>3, <3>4, <3>5, <3>6, <3>7, <3>8 DEF CallOK, Forwarded, Acked
  <2>8. MadeOK(p)' BY <1>2, <2>4 DEF MadeOK, Request
  <2> QED BY <2>3, <2>7, <2>8 DEF RequestOK
<1> QED BY <1>4, <1>5 DEF RequestsOK

LEMMA ReqTakeRequests ==
  ASSUME LocalTypes, LocalTypes', RequestsOK, OneEntryPerId, ReqTake
  PROVE  RequestsOK'
<1> DEFINE m == Head(reqQ)
<1>0. PICK p \in Program : p = m.mtype BY Asked
<1>1. /\ QueuesOK /\ QueuesOK' /\ ReqHandlerOK /\ TableOK
      /\ UNCHANGED <<respQ, rpc, rmsg, down, call, made>>
  BY DEF LocalTypes, ReqTake, programPart
<1>2. /\ m \in Asking /\ p \in Program /\ m.from = p
      /\ InReqQ(p) /\ reqQ[1] = m /\ 1 \in DOMAIN reqQ
      /\ m.type = "CREATE" <=> ~Named(p)
  BY <1>0, Asked
<1>3. reqQ # <<>> /\ reqQ' = Tail(reqQ) /\ qpc = "idle" BY DEF ReqTake
<1>4. RequestOK(p) BY <1>2 DEF RequestsOK
<1>5. /\ ~InHandler(p) /\ ~Unnamed(p) /\ ~InUp(p) /\ ~InDown(p) /\ ~InResp(p) /\ ~Answered(p)
      /\ Waits(p, m.type)
  BY <1>2, <1>4 DEF RequestOK, OnePlace, CallOK
<1>6. \/ /\ m.type = "CREATE" /\ HasRoom(table)
         /\ table' = AddLocalId(table, p)
         /\ up' = Append(up, m)
         /\ UNCHANGED <<sem, qpc, qmsg>>
      \/ /\ m.type = "CREATE" /\ UNCHANGED <<table, up, qpc, qmsg>>
      \/ /\ m.type # "CREATE" /\ qmsg' = m /\ qpc' # "reply" /\ qpc' # "idle"
         /\ UNCHANGED <<table, up>>
  <2>1. m.type # "CREATE" => LocalIdExists(table, p) BY <1>1, <1>2, LocalIdExistsMeans
  <2> QED BY <1>0, <2>1 DEF ReqTake
<1> HIDE DEF m
<1>7. m.type = "CREATE" => m \in Upward BY <1>2 DEF Asking, Upward
<1>8. \A q \in Program : FewerReq(q) /\ FewerUp(q) /\ FewerDown(q)
  BY <1>1, <1>3, <1>6, <1>7, Longer, Shorter, Unmoved DEF Forwarded
<1>9. \A q \in Program : \A g : Has(q, g)' <=> Has(q, g) \/ (q = p /\ g = NoId /\ up' # up)
  <2>1. CASE UNCHANGED <<table, up>> BY <2>1 DEF Has
  <2>2. CASE m.type = "CREATE" /\ HasRoom(table) /\ table' = AddLocalId(table, p)
             /\ up' = Append(up, m) /\ UNCHANGED <<sem, qpc, qmsg>>
    <3>1. \A q, g : Has(q, g)' <=> Has(q, g) \/ (q = p /\ g = NoId)
      BY <1>1, <1>2, <1>5, <2>2, TableGrows
    <3>2. Len(up') = Len(up) + 1 /\ Len(up) \in Nat
      BY <1>1, <1>7, <2>2, Appended DEF QueuesOK
    <3>3. up' # up BY <3>2
    <3> QED BY <3>1, <3>3
  <2> QED BY <1>6, <2>1, <2>2
<1>10. \A q \in Program \ {p} : RequestOK(q)'
  <2> TAKE q \in Program \ {p}
  <2>1. RequestOK(q) BY DEF RequestsOK
  <2>2. InHandler(q)' => UNCHANGED <<qpc, qmsg>> BY <1>2, <1>6 DEF InHandler
  <2> QED BY <1>1, <1>8, <1>9, <2>1, <2>2, OtherKept
<1>11. RequestOK(p)'
  <2>1. ~InReqQ(p)'
    BY <1>1, <1>2, <1>3, <1>4, Shorter, OneInQueueMeans DEF RequestOK
  <2>2. (~InUp(p) /\ ~InDown(p) /\ ~InResp(p) /\ ~Answered(p))'
    BY <1>1, <1>2, <1>5, <1>8, FewerKeeps DEF InResp, Answered
  <2>3. ~(InHandler(p)' /\ Unnamed(p)')
    <3>1. InHandler(p)' => up' = up BY <1>3, <1>6 DEF InHandler
    <3> QED BY <1>2, <1>5, <1>9, <3>1 DEF Unnamed
  <2>4. OnePlace(p)' BY <2>1, <2>2, <2>3 DEF OnePlace
  <2>5. OneInQueue(p)'
    BY <1>1, <1>2, <1>4, <1>8, <2>2, FewerKeeps, OneInQueueMeans, NoAnswer DEF RequestOK
  <2>6. Named(p)' <=> Named(p) BY <1>2, <1>9, Constants DEF Named
  <2>7. CallOK(p)'
    <3>1. (InHandler(p) => /\ Named(p)
                           /\ IF qpc = "reply" THEN Waits(p, "RECEIVE")
                              ELSE Waits(p, qmsg.type))'
      BY <1>1, <1>2, <1>3, <1>5, <1>6, <2>6 DEF InHandler, Waits
    <3>2. (Unnamed(p) => Waits(p, "CREATE"))'
      <4>1. Unnamed(p)' => up' # up BY <1>2, <1>5, <1>9 DEF Unnamed
      <4> QED BY <1>1, <1>5, <1>6, <4>1 DEF Waits
    <3> QED BY <1>2, <2>1, <2>2, <3>1, <3>2, NoAnswer DEF CallOK, InReqQ, InUp, InDown, InResp
  <2>8. MadeOK(p)' BY <1>1, <1>4, <1>5, <2>2, <2>6 DEF RequestOK, MadeOK, Leaves, InResp
  <2> QED BY <2>4, <2>5, <2>7, <2>8 DEF RequestOK
<1> QED BY <1>10, <1>11 DEF RequestsOK

LEMMA ReqTranslateRequests ==
  ASSUME LocalTypes, LocalTypes', RequestsOK, OneEntryPerId, ReqTranslate
  PROVE  RequestsOK'
<1> DEFINE m == [qmsg EXCEPT !.mtype = GetGlobalId(table, @)]
<1>1. /\ QueuesOK /\ QueuesOK' /\ ReqHandlerOK /\ TableOK
      /\ UNCHANGED <<table, reqQ, respQ, rpc, rmsg, down, call, made>>
      /\ qpc = "translate" /\ qpc' = "idle" /\ up' = Append(up, m)
  BY DEF LocalTypes, ReqTranslate, programPart
<1>2. qmsg \in Asking /\ qmsg.type \notin {"CREATE", "RECEIVE"} BY <1>1 DEF ReqHandlerOK
<1>0. PICK p \in Program : p = qmsg.mtype BY <1>2 DEF Asking
<1>3. p \in Program /\ qmsg.from = p /\ InHandler(p)
  BY <1>0, <1>1, <1>2 DEF Asking, InHandler
<1>4. RequestOK(p) BY <1>3 DEF RequestsOK
<1>5. /\ ~InReqQ(p) /\ ~Unnamed(p) /\ ~InUp(p) /\ ~InDown(p) /\ ~InResp(p) /\ ~Answered(p)
      /\ Waits(p, qmsg.type) /\ Named(p)
  BY <1>1, <1>3, <1>4 DEF RequestOK, OnePlace, CallOK
<1>6. PICK g \in GlobalId : Has(p, g) BY <1>5 DEF Named
<1>7. GetGlobalId(table, qmsg.mtype) = g BY <1>0, <1>1, <1>6, GetGlobalIdFinds
<1>8. m \in Upward /\ m.from = p /\ m.type = qmsg.type /\ m.mtype = g
  BY <1>2, <1>3, <1>7 DEF Asking, Upward, Request, Messages, MsgTypes
<1> HIDE DEF m
<1>9. \A q, h : Has(q, h)' <=> Has(q, h) BY <1>1 DEF Has
<1>10. \A q \in Program \ {p} : RequestOK(q)'
  <2> TAKE q \in Program \ {p}
  <2>1. RequestOK(q) BY DEF RequestsOK
  <2>2. FewerReq(q) /\ FewerUp(q) /\ FewerDown(q)
    BY <1>1, <1>8, Longer, Unmoved DEF Forwarded
  <2>3. ~InHandler(q)' BY <1>1 DEF InHandler
  <2> QED BY <1>1, <1>9, <2>1, <2>2, <2>3, OtherKept
<1>11. RequestOK(p)'
  <2>1. (~InReqQ(p) /\ ~InHandler(p) /\ ~Unnamed(p) /\ ~InDown(p) /\ ~InResp(p) /\ ~Answered(p))'
    BY <1>1, <1>5, <1>9 DEF InReqQ, InHandler, Unnamed, InDown, InResp, Answered
  <2>2. OnePlace(p)' BY <2>1 DEF OnePlace
  <2>3. OneUp(p)' /\ \A i \in DOMAIN up' : Forwarded(up'[i], p) => up'[i] = m
    BY <1>1, <1>5, <1>8, Longer
  <2>4. OneInQueue(p)'
    BY <1>1, <1>4, <2>3, OneInQueueMeans DEF RequestOK, OneReq, OneDown
  <2>5. Named(p)' <=> Named(p) BY <1>9 DEF Named
  <2>6. \A i \in DOMAIN up' : Forwarded(up'[i], p) =>
          (Waits(p, up[i].type) /\ Has(p, up[i].mtype))'
    BY <1>1, <1>5, <1>6, <1>8, <2>3 DEF Waits, Has
  <2>7. CallOK(p)'
    BY <1>3, <2>1, <2>6, NoAnswer DEF CallOK, InReqQ, InDown, InResp, Forwarded
  <2>8. MadeOK(p)' BY <1>1, <1>4, <2>5 DEF RequestOK, MadeOK, Leaves, Answered
  <2> QED BY <2>2, <2>4, <2>7, <2>8 DEF RequestOK
<1> QED BY <1>10, <1>11 DEF RequestsOK

LEMMA ReqFetchRequests ==
  ASSUME LocalTypes, LocalTypes', RequestsOK, ReqFetch
  PROVE  RequestsOK'
<1>1. /\ QueuesOK /\ QueuesOK' /\ ReqHandlerOK
      /\ UNCHANGED <<table, reqQ, respQ, rpc, rmsg, up, down, call, made>>
      /\ qpc = "fetch" /\ qpc' = "reply"
  BY DEF LocalTypes, ReqFetch, programPart
<1>2. qmsg \in Asking /\ qmsg.type = "RECEIVE" BY <1>1 DEF ReqHandlerOK
<1>0. PICK p \in Program : p = qmsg.mtype BY <1>2 DEF Asking
<1>3. qmsg.from = p /\ InHandler(p) BY <1>0, <1>1, <1>2 DEF Asking, InHandler
<1>4. qmsg'.from = p
  <2>1. CASE incoming[p] = <<>>
    <3>1. qmsg' = [qmsg EXCEPT !.type = "ACK_NO_MSG"] BY <1>0, <2>1 DEF ReqFetch
    <3>2. qmsg \in Messages BY <1>1 DEF ReqHandlerOK
    <3> QED BY <1>3, <3>1, <3>2 DEF Messages
  <2>2. CASE incoming[p] # <<>>
    <3>1. incoming[p] \in Seq(NewsFor(p)) BY <1>1, <1>3 DEF QueuesOK
    <3>2. Head(incoming[p]) \in NewsFor(p) BY <2>2, <3>1, Tailed
    <3>3. qmsg' = [Head(incoming[p]) EXCEPT !.type = "ACK_OK"] BY <1>0, <2>2 DEF ReqFetch
    <3> QED BY <3>2, <3>3 DEF NewsFor, Messages
  <2> QED BY <2>1, <2>2
<1>5. \A q, h : Has(q, h)' <=> Has(q, h) BY <1>1 DEF Has
<1>6. \A q \in Program \ {p} : RequestOK(q)'
  <2> TAKE q \in Program \ {p}
  <2>1. RequestOK(q) BY DEF RequestsOK
  <2>2. FewerReq(q) /\ FewerUp(q) /\ FewerDown(q) BY <1>1, Unmoved
  <2>3. ~InHandler(q)' BY <1>4 DEF InHandler
  <2> QED BY <1>1, <1>5, <2>1, <2>2, <2>3, OtherKept
<1>7. RequestOK(p)'
  <2>1. RequestOK(p) BY <1>3 DEF RequestsOK
  <2>2. /\ ~InReqQ(p) /\ ~Unnamed(p) /\ ~InUp(p) /\ ~InDown(p) /\ ~InResp(p) /\ ~Answered(p)
        /\ Waits(p, "RECEIVE") /\ Named(p)
    BY <1>1, <1>2, <1>3, <2>1 DEF RequestOK, OnePlace, CallOK
  <2>3. (~InReqQ(p) /\ ~Unnamed(p) /\ ~InUp(p) /\ ~InDown(p) /\ ~InResp(p) /\ ~Answered(p))'
    BY <1>1, <1>5, <2>2 DEF InReqQ, InUp, Unnamed, InDown, InResp, Answered
  <2>4. OnePlace(p)' BY <2>3 DEF OnePlace
  <2>5. OneInQueue(p)' BY <1>1, <2>1 DEF RequestOK, OneInQueue
  <2>6. Named(p)' <=> Named(p) BY <1>5 DEF Named
  <2>7. (InHandler(p) => /\ Named(p)
                         /\ IF qpc = "reply" THEN Waits(p, "RECEIVE")
                            ELSE Waits(p, qmsg.type))'
    BY <1>1, <2>2, <2>6 DEF Waits
  <2>8. CallOK(p)'
    BY <1>3, <2>3, <2>7, NoAnswer DEF CallOK, InReqQ, InUp, InDown, InResp
  <2>9. MadeOK(p)' BY <1>1, <2>1, <2>6 DEF RequestOK, MadeOK, Leaves, Answered
  <2> QED BY <2>4, <2>5, <2>8, <2>9 DEF RequestOK
<1> QED BY <1>6, <1>7 DEF RequestsOK

LEMMA ReqReplyRequests ==
  ASSUME LocalTypes, LocalTypes', RequestsOK, ReqReply
  PROVE  RequestsOK'
<1>0. PICK p \in Program : p = qmsg.mtype BY DEF LocalTypes, ReqHandlerOK, ReqReply
<1>1. /\ QueuesOK /\ QueuesOK' /\ ReqHandlerOK
      /\ UNCHANGED <<table, reqQ, rpc, rmsg, up, down, call, made>>
      /\ qpc = "reply" /\ qpc' = "idle" /\ respQ' = Sent(respQ, p, qmsg)
  BY <1>0 DEF LocalTypes, ReqReply, programPart
<1>2. /\ p \in Program /\ qmsg.from = p /\ InHandler(p) /\ p # Nobody
      /\ qmsg.type \in {"ACK_OK", "ACK_NO_MSG"} /\ (qmsg.body # 0 <=> qmsg.type = "ACK_OK")
  BY <1>0, <1>1, Constants DEF ReqHandlerOK, InHandler
<1>3. respQ' = [respQ EXCEPT ![p] = Append(@, qmsg)] BY <1>1, <1>2 DEF Sent
<1>4. \A q, h : Has(q, h)' <=> Has(q, h) BY <1>1 DEF Has
<1>5. \A q \in Program \ {p} : RequestOK(q)'
  <2> TAKE q \in Program \ {p}
  <2>1. RequestOK(q) BY DEF RequestsOK
  <2>2. FewerReq(q) /\ FewerUp(q) /\ FewerDown(q) BY <1>1, Unmoved
  <2>3. ~InHandler(q)' BY <1>1 DEF InHandler
  <2>4. respQ'[q] = respQ[q] BY <1>1, <1>3 DEF QueuesOK
  <2> QED BY <1>1, <1>4, <2>1, <2>2, <2>3, <2>4, OtherKept
<1>6. RequestOK(p)'
  <2>1. RequestOK(p) BY <1>2 DEF RequestsOK
  <2>2. /\ ~InReqQ(p) /\ ~Unnamed(p) /\ ~InUp(p) /\ ~InDown(p) /\ ~InResp(p) /\ ~Answered(p)
        /\ Waits(p, "RECEIVE") /\ Named(p)
    BY <1>1, <1>2, <2>1 DEF RequestOK, OnePlace, CallOK
  <2>3. (~InReqQ(p) /\ ~InHandler(p) /\ ~Unnamed(p) /\ ~InUp(p) /\ ~InDown(p) /\ ~InResp(p))'
    BY <1>1, <1>4, <2>2 DEF InReqQ, InHandler, InUp, Unnamed, InDown, InResp
  <2>4. OnePlace(p)' BY <2>3 DEF OnePlace
  <2>5. respQ'[p] = <<qmsg>>
    <3>1. respQ[p] = <<>> BY <1>2, <2>2, NoAnswer
    <3> QED BY <1>1, <1>2, <1>3, <3>1 DEF QueuesOK
  <2>6. Len(respQ'[p]) = 1 /\ DOMAIN respQ'[p] = {1} /\ respQ'[p][1] = qmsg BY <2>5
  <2>7. OneInQueue(p)' BY <1>1, <2>1, <2>6 DEF RequestOK, OneInQueue
  <2>8. Named(p)' <=> Named(p) BY <1>4 DEF Named
  <2>9. (\A i \in DOMAIN respQ[p] : Replied(p, respQ[p][i]))'
    BY <1>1, <1>2, <2>2, <2>6, <2>8 DEF Replied, WaitsAck, Waits, AckFor
  <2>10. CallOK(p)'
    BY <1>2, <2>3, <2>9 DEF CallOK, InReqQ, InUp, InDown, InResp
  <2>11. MadeOK(p)' BY <1>1, <2>1, <2>2, <2>8 DEF RequestOK, MadeOK, Leaves
  <2> QED BY <2>4, <2>7, <2>10, <2>11 DEF RequestOK
<1> QED BY <1>5, <1>6 DEF RequestsOK

\* What the broker makes of a request: what it answers, and what it knows then.
Served(m, p, g, t) ==
  \/ /\ t = "ACK_CREATE" /\ m.type = "CREATE" /\ g \notin server.users
     /\ server' = [server EXCEPT !.users = @ \cup {g}, !.known = @ \cup {g}]
     /\ grant' = grant \cup {<<g, p>>} /\ UNCHANGED refused
  \/ /\ t = "ACK_ERROR" /\ m.type = "CREATE" /\ g \notin server.users
     /\ server' = [server EXCEPT !.users = @ \cup {g}]
     /\ grant' = grant \cup {<<g, p>>} /\ refused' = refused + 1
  \/ /\ t = "ACK_OK" /\ m.type \in {"SUBSCRIBE", "PUBLISH"} /\ g = m.mtype
     /\ Forwarded(m, p) /\ g \in server.known
     /\ UNCHANGED <<grant, refused>>
     /\ \/ server' = [server EXCEPT !.subs = {s \in @ : s[1] # g} \cup {<<g, p>>}]
        \/ UNCHANGED server
  \/ /\ t = "ACK_DESTROY" /\ m.type = "DESTROY" /\ g = m.mtype
     /\ Forwarded(m, p) /\ g \in server.known
     /\ UNCHANGED <<grant, refused>>
     /\ server' = [users |-> server.users \ {g}, known |-> server.known \ {g},
                   subs |-> {s \in server.subs : s[1] # g}]

LEMMA ServerAnswers ==
  ASSUME LocalTypes, ServerStep
  PROVE  \E p \in Program, g \in GlobalId, t \in {"ACK_CREATE", "ACK_ERROR", "ACK_OK", "ACK_DESTROY"} :
         LET m == Head(up) IN
         /\ down' = Append(down, Msg(g, t, p, 0)) /\ Msg(g, t, p, 0) \in Downward
         /\ m.from = p /\ m = up[1] /\ m \in Upward /\ up # <<>> /\ up' = Tail(up)
         /\ Served(m, p, g, t)
<1> DEFINE m == Head(up)
<1>1. up \in Seq(Upward) /\ up # <<>> /\ up' = Tail(up) BY DEF LocalTypes, QueuesOK, ServerStep
<1>2. m = up[1] /\ m \in Upward BY <1>1, Tailed
<1>3. PICK p \in Program : m.from = p BY <1>2 DEF Upward
<1>4. \A g \in GlobalId, t \in {"ACK_CREATE", "ACK_ERROR", "ACK_OK", "ACK_DESTROY"} :
        Msg(g, t, p, 0) \in Downward
  BY DEF Msg, Downward, Messages, MsgTypes, Who
<1>5. ServerCreate(m) \/ ServerOther(m) BY DEF ServerStep
<1> HIDE DEF m
<1>6. CASE ServerCreate(m)
  <2>1. m.type = "CREATE" BY <1>6 DEF ServerCreate
  <2>2. PICK g \in GlobalId \ server.users :
          /\ grant' = grant \cup {<<g, p>>}
          /\ \/ /\ server' = [server EXCEPT !.users = @ \cup {g}, !.known = @ \cup {g}]
                /\ down' = Append(down, Msg(g, "ACK_CREATE", p, 0))
                /\ UNCHANGED refused
             \/ /\ server' = [server EXCEPT !.users = @ \cup {g}]
                /\ down' = Append(down, Msg(g, "ACK_ERROR", p, 0))
                /\ refused' = refused + 1
    BY <1>3, <1>6 DEF ServerCreate, Answer
  <2>3. g \in GlobalId /\ g \notin server.users BY <2>2
  <2> QED BY <1>1, <1>2, <1>3, <1>4, <2>1, <2>2, <2>3 DEF m, Served
<1>7. CASE ServerOther(m)
  <2>1. /\ m.type # "CREATE" /\ m.mtype \in server.known /\ UNCHANGED <<grant, refused>>
        /\ m.mtype \in GlobalId /\ Forwarded(m, p)
    BY <1>2, <1>3, <1>7 DEF ServerOther, Upward, Forwarded
  <2>2. PICK g \in GlobalId : g = m.mtype BY <2>1
  <2>3. \/ /\ m.type = "SUBSCRIBE"
           /\ server' = [server EXCEPT !.subs = {s \in @ : s[1] # g} \cup {<<g, p>>}]
           /\ down' = Append(down, Msg(g, "ACK_OK", p, 0))
        \/ /\ m.type = "PUBLISH" /\ UNCHANGED server
           /\ down' = Append(down, Msg(g, "ACK_OK", p, 0))
        \/ /\ m.type = "DESTROY"
           /\ server' = [users |-> server.users \ {g}, known |-> server.known \ {g},
                         subs |-> {s \in server.subs : s[1] # g}]
           /\ down' = Append(down, Msg(g, "ACK_DESTROY", p, 0))
    BY <1>3, <1>7, <2>2 DEF ServerOther, Answer
  <2> QED BY <1>1, <1>2, <1>3, <1>4, <2>1, <2>2, <2>3 DEF m, Served
<1> QED BY <1>5, <1>6, <1>7

LEMMA ServerRequests ==
  ASSUME LocalTypes, LocalTypes', RequestsOK, ServerStep
  PROVE  RequestsOK'
<1> DEFINE m == Head(up)
<1>1. /\ QueuesOK /\ QueuesOK'
      /\ UNCHANGED <<table, reqQ, respQ, qpc, qmsg, rpc, rmsg, call, made>>
  BY DEF LocalTypes, ServerStep, programPart, localPart
<1>2. PICK p \in Program, g \in GlobalId, t \in {"ACK_CREATE", "ACK_ERROR", "ACK_OK", "ACK_DESTROY"} :
        /\ down' = Append(down, Msg(g, t, p, 0)) /\ Msg(g, t, p, 0) \in Downward
        /\ m.from = p /\ m = up[1] /\ m \in Upward /\ up # <<>> /\ up' = Tail(up)
        /\ Served(m, p, g, t)
  BY ServerAnswers
<1> DEFINE a == Msg(g, t, p, 0)
<1>3. a.type = t /\ a.from = p /\ a.mtype = g /\ a.body = 0 BY DEF Msg
<1> HIDE DEF a, m
<1>4. \A q, h : Has(q, h)' <=> Has(q, h) BY <1>1 DEF Has
<1>5. \A q : FewerReq(q) /\ FewerUp(q) /\ (~Acked(a, q) => FewerDown(q))
  BY <1>1, <1>2, Longer, Shorter, Unmoved DEF a
<1>6. ASSUME NEW q \in Program, ~Acked(a, q)
      PROVE  RequestOK(q)'
  <2>1. RequestOK(q) BY DEF RequestsOK
  <2> QED BY <1>1, <1>4, <1>5, <1>6, <2>1, OtherKept
<1>7. ASSUME Acked(a, p) PROVE RequestOK(p)'
  <2>1. RequestOK(p) BY DEF RequestsOK
  <2>2. /\ Forwarded(m, p) /\ g = m.mtype
        /\ \/ t = "ACK_OK" /\ m.type \in {"SUBSCRIBE", "PUBLISH"}
           \/ t = "ACK_DESTROY" /\ m.type = "DESTROY"
    BY <1>2, <1>3, <1>7 DEF Acked, Served
  <2>3. 1 \in DOMAIN up BY <1>1, <1>2, Tailed DEF QueuesOK
  <2>4. InUp(p) /\ Waits(p, m.type) /\ Has(p, g)
    BY <1>2, <2>1, <2>2, <2>3 DEF InUp, RequestOK, CallOK
  <2>5. /\ ~InReqQ(p) /\ ~InHandler(p) /\ ~Unnamed(p) /\ ~InDown(p) /\ ~InResp(p) /\ ~Answered(p)
    BY <2>1, <2>4 DEF RequestOK, OnePlace
  <2>6. ~InUp(p)'
    BY <1>1, <1>2, <2>1, <2>2, Shorter, OneInQueueMeans DEF RequestOK
  <2>7. (~InReqQ(p) /\ ~InHandler(p) /\ ~Unnamed(p) /\ ~InResp(p) /\ ~Answered(p))'
    BY <1>1, <1>4, <2>5 DEF InReqQ, InHandler, Unnamed, InResp, Answered
  <2>8. OnePlace(p)' BY <2>6, <2>7 DEF OnePlace
  <2>9. OneDown(p)' /\ \A i \in DOMAIN down' : Acked(down'[i], p) => down'[i] = a
    BY <1>1, <1>2, <1>3, <2>5, Longer DEF a
  <2>10. OneInQueue(p)'
    BY <1>1, <1>5, <2>1, <2>9, FewerKeeps, OneInQueueMeans DEF RequestOK
  <2>11. Named(p)' <=> Named(p) BY <1>4 DEF Named
  <2>12. \A i \in DOMAIN down' : Acked(down'[i], p) =>
           (WaitsAck(p, down[i].type) /\ Has(p, down[i].mtype))'
    <3>1. \E type \in AckFor[t] : Waits(p, type) BY <2>2, <2>4 DEF AckFor
    <3> QED BY <1>1, <1>3, <2>4, <2>9, <3>1 DEF WaitsAck, Waits, Has
  <2>13. CallOK(p)'
    BY <2>6, <2>7, <2>12, NoAnswer DEF CallOK, InReqQ, InUp, InResp, Acked
  <2>14. MadeOK(p)' BY <1>1, <2>1, <2>11 DEF RequestOK, MadeOK, Leaves, Answered
  <2> QED BY <2>8, <2>10, <2>13, <2>14 DEF RequestOK
<1>8. \A q : Acked(a, q) => q = p BY <1>3 DEF Acked
<1> QED BY <1>6, <1>7, <1>8 DEF RequestsOK

LEMMA PublishRequests ==
  ASSUME LocalTypes, LocalTypes', RequestsOK, ServerPublish
  PROVE  RequestsOK'
<1>1. /\ QueuesOK /\ QueuesOK' /\ ServerOK /\ ProgramsOK
      /\ UNCHANGED <<table, reqQ, respQ, qpc, qmsg, rpc, rmsg, up, call, made>>
  BY DEF LocalTypes, ServerPublish, programPart, localPart
<1>2. PICK s \in server.subs : down' = Append(down, Msg(s[1], "PUBLISH", s[2], pubs + 1))
  BY DEF ServerPublish
<1> DEFINE m == Msg(s[1], "PUBLISH", s[2], pubs + 1)
<1>3. m \in Downward /\ m.type = "PUBLISH"
  <2>1. s[1] \in GlobalId /\ s[2] \in Program BY <1>1 DEF ServerOK
  <2>2. pubs + 1 \in Nat /\ pubs + 1 # 0 BY <1>1 DEF ProgramsOK
  <2> QED BY <2>1, <2>2 DEF Msg, Downward, Messages, MsgTypes, Who, Request
<1> HIDE DEF m
<1>4. \A q, h : Has(q, h)' <=> Has(q, h) BY <1>1 DEF Has
<1>5. \A q : FewerReq(q) /\ FewerUp(q) /\ FewerDown(q)
  BY <1>1, <1>2, <1>3, Longer, Unmoved DEF m, Acked
<1> QED BY <1>1, <1>4, <1>5, OtherKept DEF RequestsOK

LEMMA RespTakeRequests ==
  ASSUME LocalTypes, LocalTypes', RequestsOK, IdsOK, SubsOK, RespTake
  PROVE  RequestsOK'
<1> DEFINE m == Head(down)
           i == EntryToFill(table)
           to(x) == [m EXCEPT !.mtype = x]
<1>1. /\ QueuesOK /\ QueuesOK' /\ TableOK /\ OneEntryPerId
      /\ UNCHANGED <<reqQ, respQ, qpc, qmsg, up, call, made, sem>>
      /\ down # <<>> /\ down' = Tail(down) /\ rpc = "idle"
  BY DEF LocalTypes, IdsOK, RespTake, programPart
<1>2. /\ m \in Downward /\ down[1] = m /\ 1 \in DOMAIN down
      /\ m.type \in {"ACK_OK", "ACK_DESTROY", "PUBLISH"} => Has(m.from, m.mtype)
      /\ New(m) => \A p \in Program : ~Has(p, m.mtype)
  BY Received
<1>3. \A q : FewerReq(q) /\ FewerUp(q) /\ FewerDown(q) BY <1>1, Shorter, Unmoved
<1>4. m.from \in Program /\ m.mtype \in GlobalId /\ m \in Messages
      /\ (m.type = "PUBLISH" <=> m.body # 0)
  BY <1>2 DEF Downward
<1>5. \/ m.type \in {"ACK_CREATE", "ACK_ERROR"} /\ UNCHANGED table
         /\ rmsg' = to(Nobody) /\ rpc' = "answer"
      \/ /\ m.type = "ACK_CREATE" /\ i \in DOMAIN table /\ table[i].global_id = NoId
         /\ table' = [table EXCEPT ![i].global_id = m.mtype]
         /\ rmsg' = to(table[i].local_id) /\ rpc' = "answer"
      \/ /\ m.type \in {"ACK_OK", "ACK_DESTROY", "PUBLISH"} /\ UNCHANGED table
         /\ rmsg' = to(m.from)
         /\ rpc' = CASE m.type = "PUBLISH" -> "deliver"
                     [] m.type = "ACK_DESTROY" -> "remove"
                     [] m.type = "ACK_OK" -> "answer"
  BY RespTakes
<1>6. \A x \in Who : /\ to(x).mtype = x /\ to(x).type = m.type /\ to(x).body = m.body
                     /\ to(x).from = m.from
  BY <1>4 DEF Messages
<1> HIDE DEF m, i, to
\* Programs that the message is not for.
<1>7. ASSUME NEW q \in Program, \A g : Has(q, g)' <=> Has(q, g),
             rmsg'.mtype # q \/ rpc' = "deliver"
      PROVE  RequestOK(q)'
  <2>1. RequestOK(q) BY DEF RequestsOK
  <2>2. ~InResp(q) /\ ~InResp(q)' BY <1>1, <1>7 DEF InResp
  <2> QED BY <1>1, <1>3, <1>7, <2>1, <2>2, OtherKept
<1>8. CASE m.type \in {"ACK_CREATE", "ACK_ERROR"} /\ UNCHANGED table
           /\ rmsg' = to(Nobody) /\ rpc' = "answer"
  <2>1. rmsg'.mtype = Nobody BY <1>6, <1>8 DEF Who
  <2>2. \A q, g : Has(q, g)' <=> Has(q, g) BY <1>8 DEF Has
  <2> QED BY <1>7, <2>1, <2>2, Constants DEF RequestsOK
\* A program is told that its request was served.
<1>9. ASSUME NEW p \in Program, rmsg' = to(p), rpc' \in {"answer", "remove"},
             \A q \in Program \ {p} : \A g : Has(q, g)' <=> Has(q, g),
             ~InReqQ(p) /\ ~InHandler(p) /\ ~InUp(p) /\ ~Answered(p),
             (~Unnamed(p) /\ ~InDown(p))', Named(p)',
             m.body = 0, m.type \in {"ACK_OK", "ACK_CREATE", "ACK_DESTROY"},
             WaitsAck(p, m.type), m.type = "ACK_DESTROY" <=> rpc' = "remove",
             Named(p) \/ call[p] \in {"CREATE", "killed"}
      PROVE  RequestsOK'
  <2>1. rmsg'.mtype = p /\ rmsg'.type = m.type /\ rmsg'.body = 0 BY <1>6, <1>9 DEF Who
  <2>2. \A q \in Program \ {p} : RequestOK(q)' BY <1>7, <1>9, <2>1
  <2>3. RequestOK(p) BY DEF RequestsOK
  <2>4. (~InReqQ(p) /\ ~InHandler(p) /\ ~InUp(p) /\ ~Answered(p))'
    BY <1>1, <1>9 DEF InReqQ, InHandler, InUp, Answered
  <2>5. OnePlace(p)' BY <1>9, <2>4 DEF OnePlace
  <2>6. OneInQueue(p)' BY <1>1, <1>3, <2>3, FewerKeeps, OneInQueueMeans DEF RequestOK
  <2>7. (rpc = "remove" /\ rmsg.mtype = p => Waits(p, "DESTROY") /\ Named(p))'
    <3>1. m.type = "ACK_DESTROY" => Waits(p, "DESTROY") BY <1>9 DEF WaitsAck, AckFor
    <3> QED BY <1>1, <1>9, <3>1 DEF Waits
  <2>8. (rpc = "answer" /\ rmsg.mtype = p => Replied(p, rmsg))'
    BY <1>1, <1>9, <2>1 DEF Replied, WaitsAck, Waits
  <2>9. CallOK(p)'
    BY <1>9, <2>4, <2>7, <2>8, NoAnswer DEF CallOK, InReqQ, InUp, InDown
  <2>10. MadeOK(p)'
    <3>1. call[p] # "none"
      BY <1>9 DEF WaitsAck, Waits, AckFor
    <3> QED BY <1>1, <1>9, <2>3, <3>1 DEF RequestOK, MadeOK
  <2> QED BY <2>2, <2>5, <2>6, <2>9, <2>10 DEF RequestsOK, RequestOK
<1>10. CASE /\ m.type = "ACK_CREATE" /\ i \in DOMAIN table /\ table[i].global_id = NoId
            /\ table' = [table EXCEPT ![i].global_id = m.mtype]
            /\ rmsg' = to(table[i].local_id) /\ rpc' = "answer"
  <2>1. PICK p \in Program : p = table[i].local_id BY <1>1, <1>10, TableDomain
  <2>2. New(m) BY <1>10 DEF New
  <2>3. Unnamed(p) /\ \A q, h : Has(q, h)' <=> IF q = p THEN h = m.mtype ELSE Has(q, h)
    BY <1>1, <1>2, <1>4, <1>10, <2>1, <2>2, TableFills
  <2>4. Named(p)' /\ ~Unnamed(p)' BY <1>4, <2>3, Constants DEF Named, Unnamed
  <2>5. RequestOK(p) BY DEF RequestsOK
  <2>6. /\ ~InReqQ(p) /\ ~InHandler(p) /\ ~InUp(p) /\ ~InDown(p) /\ ~Answered(p)
        /\ Waits(p, "CREATE")
    BY <2>3, <2>5 DEF RequestOK, OnePlace, CallOK
  <2>7. ~InDown(p)' BY <1>1, <1>3, <2>6, FewerKeeps
  <2>8. WaitsAck(p, "ACK_CREATE") /\ call[p] \in {"CREATE", "killed"}
    BY <2>6 DEF WaitsAck, AckFor, Waits
  <2>9. m.body = 0 BY <1>4, <1>10
  <2> QED BY <1>9, <1>10, <2>1, <2>3, <2>4, <2>6, <2>7, <2>8, <2>9
<1>11. CASE m.type \in {"ACK_OK", "ACK_DESTROY", "PUBLISH"} /\ UNCHANGED table
            /\ rmsg' = to(m.from)
            /\ rpc' = CASE m.type = "PUBLISH" -> "deliver"
                        [] m.type = "ACK_DESTROY" -> "remove"
                        [] m.type = "ACK_OK" -> "answer"
  <2>1. \A q, g : Has(q, g)' <=> Has(q, g) BY <1>11 DEF Has
  <2>2. CASE m.type = "PUBLISH"
    <3>1. rpc' = "deliver" BY <1>11, <2>2
    <3> QED BY <1>7, <2>1, <3>1 DEF RequestsOK
  <2>3. CASE m.type \in {"ACK_OK", "ACK_DESTROY"}
    <3>1. PICK p \in Program : p = m.from BY <1>4
    <3>2. Acked(m, p) /\ InDown(p) BY <1>2, <2>3, <3>1 DEF Acked, InDown
    <3>3. RequestOK(p) BY DEF RequestsOK
    <3>4. /\ ~InReqQ(p) /\ ~InHandler(p) /\ ~InUp(p) /\ ~Unnamed(p) /\ ~Answered(p)
          /\ WaitsAck(p, m.type) /\ Has(p, m.mtype)
      BY <1>2, <3>2, <3>3 DEF RequestOK, OnePlace, CallOK
    <3>5. ~InDown(p)'
      BY <1>1, <1>2, <3>2, <3>3, Shorter, OneInQueueMeans DEF RequestOK
    <3>6. Named(p) /\ Named(p)' /\ ~Unnamed(p)' BY <1>4, <2>1, <3>4 DEF Named, Unnamed
    <3>7. rpc' \in {"answer", "remove"} /\ (m.type = "ACK_DESTROY" <=> rpc' = "remove")
      BY <1>11, <2>3
    <3>8. m.body = 0 BY <1>4, <2>3
    <3> QED BY <1>9, <1>11, <2>1, <2>3, <3>1, <3>4, <3>5, <3>6, <3>7, <3>8
  <2> QED BY <1>11, <2>2, <2>3
<1> QED BY <1>5, <1>8, <1>10, <1>11

LEMMA RespRemoveRequests ==
  ASSUME LocalTypes, LocalTypes', RequestsOK, OneEntryPerId, RespRemove
  PROVE  RequestsOK'
<1>1. /\ QueuesOK /\ QueuesOK' /\ TableOK /\ RespHandlerOK
      /\ UNCHANGED <<reqQ, respQ, qpc, qmsg, rmsg, up, down, call, made, sem>>
      /\ rpc = "remove" /\ rpc' = "answer" /\ table' = RemoveId(table, rmsg.mtype)
  BY DEF LocalTypes, RespRemove, programPart
<1>2. PICK p \in Program : p = rmsg.mtype BY <1>1, Constants DEF RespHandlerOK
<1>3. RequestOK(p) /\ InResp(p) BY <1>1, <1>2 DEF RequestsOK, InResp
<1>4. Waits(p, "DESTROY") /\ Named(p) BY <1>1, <1>2, <1>3 DEF RequestOK, CallOK
<1>5. \A q, h : Has(q, h)' <=> Has(q, h) /\ q # p BY <1>1, <1>2, <1>4, TableShrinks
<1>6. \A q \in Program \ {p} : RequestOK(q)'
  <2> TAKE q \in Program \ {p}
  <2>1. RequestOK(q) BY DEF RequestsOK
  <2>2. FewerReq(q) /\ FewerUp(q) /\ FewerDown(q) BY <1>1, Unmoved
  <2>3. ~InResp(q) /\ ~InResp(q)' BY <1>1, <1>2 DEF InResp
  <2> QED BY <1>1, <1>5, <2>1, <2>2, <2>3, OtherKept
<1>7. RequestOK(p)'
  <2>1. /\ ~InReqQ(p) /\ ~InHandler(p) /\ ~Unnamed(p) /\ ~InUp(p) /\ ~InDown(p) /\ ~Answered(p)
    BY <1>3 DEF RequestOK, OnePlace
  <2>2. (/\ ~InReqQ(p) /\ ~InHandler(p) /\ ~Unnamed(p) /\ ~InUp(p) /\ ~InDown(p)
         /\ ~Answered(p) /\ ~Named(p))'
    BY <1>1, <1>5, <2>1 DEF InReqQ, InHandler, Unnamed, InUp, InDown, Answered, Named
  <2>3. OnePlace(p)' BY <2>2 DEF OnePlace
  <2>4. OneInQueue(p)' BY <1>1, <1>3 DEF RequestOK, OneInQueue
  <2>5. Replied(p, rmsg)'
    BY <1>1, <1>4, <2>2 DEF RespHandlerOK, Replied, WaitsAck, Waits, AckFor
  <2>6. CallOK(p)'
    BY <1>1, <2>2, <2>5, NoAnswer DEF CallOK, InReqQ, InUp, InDown
  <2>7. MadeOK(p)' BY <1>1, <1>2, <1>3, <1>4, <2>2 DEF RequestOK, MadeOK, Leaves, Waits
  <2> QED BY <2>3, <2>4, <2>6, <2>7 DEF RequestOK
<1> QED BY <1>6, <1>7 DEF RequestsOK

LEMMA RespAnswerRequests ==
  ASSUME LocalTypes, LocalTypes', RequestsOK, RespAnswer
  PROVE  RequestsOK'
<1>1. /\ QueuesOK /\ QueuesOK' /\ RespHandlerOK
      /\ UNCHANGED <<table, reqQ, qpc, qmsg, up, down, call, made>>
      /\ rpc = "answer" /\ rpc' = "idle" /\ respQ' = Sent(respQ, rmsg.mtype, rmsg)
  BY DEF LocalTypes, RespAnswer, programPart
<1>2. \A q, h : Has(q, h)' <=> Has(q, h) BY <1>1 DEF Has
<1>3. ASSUME NEW q \in Program, q # rmsg.mtype
      PROVE  RequestOK(q)'
  <2>1. RequestOK(q) BY DEF RequestsOK
  <2>2. FewerReq(q) /\ FewerUp(q) /\ FewerDown(q) BY <1>1, Unmoved
  <2>3. ~InResp(q) /\ ~InResp(q)' BY <1>1, <1>3 DEF InResp
  <2>4. respQ'[q] = respQ[q] BY <1>1, <1>3 DEF QueuesOK, Sent
  <2> QED BY <1>1, <1>2, <2>1, <2>2, <2>3, <2>4, OtherKept
<1>4. ASSUME NEW p \in Program, p = rmsg.mtype
      PROVE  RequestOK(p)'
  <2>1. RequestOK(p) /\ InResp(p) BY <1>1, <1>4 DEF RequestsOK, InResp
  <2>2. /\ ~InReqQ(p) /\ ~InHandler(p) /\ ~Unnamed(p) /\ ~InUp(p) /\ ~InDown(p) /\ ~Answered(p)
        /\ Replied(p, rmsg)
    BY <1>1, <1>4, <2>1 DEF RequestOK, OnePlace, CallOK
  <2>3. (~InReqQ(p) /\ ~InHandler(p) /\ ~Unnamed(p) /\ ~InUp(p) /\ ~InDown(p) /\ ~InResp(p))'
    BY <1>1, <1>2, <2>2 DEF InReqQ, InHandler, InUp, Unnamed, InDown, InResp
  <2>4. OnePlace(p)' BY <2>3 DEF OnePlace
  <2>5. respQ'[p] = <<rmsg>>
    <3>1. respQ[p] = <<>> BY <2>2, NoAnswer
    <3>2. respQ' = [respQ EXCEPT ![p] = Append(@, rmsg)] BY <1>1, <1>4, Constants DEF Sent
    <3> QED BY <1>1, <3>1, <3>2 DEF QueuesOK
  <2>6. Len(respQ'[p]) = 1 /\ DOMAIN respQ'[p] = {1} /\ respQ'[p][1] = rmsg BY <2>5
  <2>7. OneInQueue(p)' BY <1>1, <2>1, <2>6 DEF RequestOK, OneInQueue
  <2>8. Named(p)' <=> Named(p) BY <1>2 DEF Named
  <2>9. (\A k \in DOMAIN respQ[p] : Replied(p, respQ[p][k]))'
    BY <1>1, <2>2, <2>6, <2>8 DEF Replied, WaitsAck, Waits
  <2>10. CallOK(p)'
    BY <2>3, <2>9 DEF CallOK, InReqQ, InUp, InDown, InResp
  <2>11. MadeOK(p)'
    <3>1. Answered(p)' BY <2>5 DEF Answered
    <3> QED BY <1>1, <2>1, <2>8, <3>1 DEF RequestOK, MadeOK, Leaves
  <2> QED BY <2>4, <2>7, <2>10, <2>11 DEF RequestOK
<1> QED BY <1>3, <1>4 DEF RequestsOK

LEMMA RespDeliverRequests ==
  ASSUME LocalTypes, LocalTypes', RequestsOK, RespDeliver
  PROVE  RequestsOK'
<1>1. /\ QueuesOK /\ QueuesOK'
      /\ UNCHANGED <<table, reqQ, respQ, qpc, qmsg, up, down, call, made>>
      /\ rpc = "deliver" /\ rpc' = "idle"
  BY DEF LocalTypes, RespDeliver, programPart
<1>2. \A q, h : Has(q, h)' <=> Has(q, h) BY <1>1 DEF Has
<1>3. \A q : FewerReq(q) /\ FewerUp(q) /\ FewerDown(q) BY <1>1, Unmoved
<1>4. \A q : ~InResp(q) /\ ~InResp(q)' BY <1>1 DEF InResp
<1> QED BY <1>1, <1>2, <1>3, <1>4, OtherKept DEF RequestsOK

-----------------------------------------------------------------------------
(* Ids and subscriptions.                                                  *)

\* A step that neither gives nor takes an id.
LEMMA IdsFrame ==
  ASSUME IdsOK, SubsOK, UNCHANGED <<down, server>>, OneEntryPerId',
         ServerOK,
         \A p, g : g \in GlobalId => (Has(p, g)' <=> Has(p, g)),
         \A g : g \in GlobalId => (Removing(g)' <=> Removing(g)),
         \A i \in DOMAIN down : down[i].mtype \in GlobalId
  PROVE  IdsOK' /\ SubsOK'
<1>1. \A g, j : Destroyed(g, j)' <=> Destroyed(g, j) BY DEF Destroyed
<1>2. \A s \in server.subs : s[1] \in GlobalId BY DEF ServerOK
<1>3. IdsOK'
  <2>1. (\A p \in Program, g \in GlobalId : Has(p, g) =>
           \/ g \in server.known \/ Removing(g)
           \/ \E j \in DOMAIN down : Destroyed(g, j))'
    BY <1>1 DEF IdsOK
  <2>2. (\A i \in DOMAIN down : New(down[i]) => LET g == down[i].mtype IN
           /\ g \in server.users
           /\ \A j \in DOMAIN down : New(down[j]) /\ down[j].mtype = g => i = j
           /\ \A p \in Program : Has(p, g) =>
                Removing(g) \/ \E j \in 1..i - 1 : Destroyed(g, j))'
    BY <1>1 DEF IdsOK
  <2>3. (\A i \in DOMAIN down : down[i].type = "ACK_CREATE" => down[i].mtype \in server.known)'
    BY DEF IdsOK
  <2> QED BY <2>1, <2>2, <2>3 DEF IdsOK
<1>4. SubsOK' BY <1>1, <1>2 DEF SubsOK
<1> QED BY <1>3, <1>4

LEMMA RemoveIds ==
  ASSUME LocalTypes, RequestsOK, IdsOK, SubsOK, RespRemove
  PROVE  IdsOK' /\ SubsOK'
<1>1. /\ TableOK /\ OneEntryPerId /\ ServerOK /\ RespHandlerOK /\ QueuesOK
      /\ UNCHANGED <<down, server, rmsg, sem>> /\ table' = RemoveId(table, rmsg.mtype)
      /\ rpc = "remove" /\ rpc' = "answer"
  BY DEF LocalTypes, IdsOK, RespRemove, serverPart
<1>2. PICK p \in Program : p = rmsg.mtype BY <1>1, Constants DEF RespHandlerOK
<1>3. Named(p) BY <1>1, <1>2 DEF RequestsOK, RequestOK, CallOK
<1>4. /\ OneEntryPerId'
      /\ \A q, h : Has(q, h)' <=> Has(q, h) /\ q # p
  BY <1>1, <1>2, <1>3, TableShrinks
<1>5. \A q, g : g \in GlobalId /\ Has(q, g)' => ~Removing(g) /\ Has(q, g)
  BY <1>1, <1>2, <1>4, Holders, Constants DEF Removing
<1>6. \A g, j : Destroyed(g, j)' <=> Destroyed(g, j) BY <1>1 DEF Destroyed
<1>7. \A i \in DOMAIN down : down[i].mtype \in GlobalId BY <1>1, QueueDomains DEF Downward
<1>8. IdsOK'
  <2>1. (\A q \in Program, g \in GlobalId : Has(q, g) =>
           \/ g \in server.known \/ Removing(g)
           \/ \E j \in DOMAIN down : Destroyed(g, j))'
    BY <1>1, <1>5, <1>6 DEF IdsOK
  <2>2. (\A i \in DOMAIN down : New(down[i]) => LET g == down[i].mtype IN
           /\ g \in server.users
           /\ \A j \in DOMAIN down : New(down[j]) /\ down[j].mtype = g => i = j
           /\ \A q \in Program : Has(q, g) =>
                Removing(g) \/ \E j \in 1..i - 1 : Destroyed(g, j))'
    BY <1>1, <1>5, <1>6, <1>7 DEF IdsOK
  <2>3. (\A i \in DOMAIN down : down[i].type = "ACK_CREATE" => down[i].mtype \in server.known)'
    BY <1>1 DEF IdsOK
  <2> QED BY <1>4, <2>1, <2>2, <2>3 DEF IdsOK
<1>9. SubsOK'
  <2>1. \A q, g : Has(q, g) /\ ~Removing(g) => Has(q, g)'
    BY <1>1, <1>2, <1>4 DEF Removing
  <2>2. \A g : ~Removing(g)' BY <1>1 DEF Removing
  <2> QED BY <1>1, <1>6, <2>1, <2>2 DEF SubsOK
<1> QED BY <1>8, <1>9

LEMMA TakeIds ==
  ASSUME LocalTypes, RequestsOK, IdsOK, SubsOK, RespTake
  PROVE  IdsOK' /\ SubsOK'
<1> DEFINE m == Head(down)
           i == EntryToFill(table)
           to(x) == [m EXCEPT !.mtype = x]
<1>1. /\ QueuesOK /\ TableOK /\ OneEntryPerId /\ ServerOK
      /\ UNCHANGED <<sem, server>>
      /\ down # <<>> /\ down' = Tail(down) /\ rpc = "idle"
  BY DEF LocalTypes, IdsOK, RespTake, serverPart
<1>2. /\ m \in Downward /\ down[1] = m /\ 1 \in DOMAIN down
      /\ m.type \in {"ACK_OK", "ACK_DESTROY", "PUBLISH"} => Has(m.from, m.mtype)
      /\ New(m) => \A p \in Program : ~Has(p, m.mtype)
  BY Received
<1>3. \/ m.type \in {"ACK_CREATE", "ACK_ERROR"} /\ UNCHANGED table
         /\ rmsg' = to(Nobody) /\ rpc' = "answer"
      \/ /\ m.type = "ACK_CREATE" /\ i \in DOMAIN table /\ table[i].global_id = NoId
         /\ table' = [table EXCEPT ![i].global_id = m.mtype]
         /\ rmsg' = to(table[i].local_id) /\ rpc' = "answer"
      \/ /\ m.type \in {"ACK_OK", "ACK_DESTROY", "PUBLISH"} /\ UNCHANGED table
         /\ rmsg' = to(m.from)
         /\ rpc' = CASE m.type = "PUBLISH" -> "deliver"
                     [] m.type = "ACK_DESTROY" -> "remove"
                     [] m.type = "ACK_OK" -> "answer"
  BY RespTakes
<1>4. m.mtype \in GlobalId /\ m.from \in Program /\ to(m.from).mtype = m.from
  BY <1>2 DEF Downward, Messages, Who
<1>5. /\ Len(down) \in Nat /\ DOMAIN down = 1..Len(down) /\ DOMAIN down' = 1..Len(down) - 1
      /\ \A k \in DOMAIN down' : k + 1 \in DOMAIN down /\ down'[k] = down[k + 1]
      /\ \A k \in DOMAIN down : k # 1 => k - 1 \in DOMAIN down' /\ down'[k - 1] = down[k]
  <2>1. /\ Len(down) \in Nat /\ DOMAIN down = 1..Len(down) /\ DOMAIN down' = 1..Len(down) - 1
        /\ \A k \in DOMAIN down' : k + 1 \in DOMAIN down /\ down'[k] = down[k + 1]
    BY <1>1, Tailed DEF QueuesOK
  <2>2. ASSUME NEW k \in DOMAIN down, k # 1
        PROVE  k - 1 \in DOMAIN down' /\ down'[k - 1] = down[k]
    <3>1. k - 1 \in 1..Len(down) - 1 /\ (k - 1) + 1 = k BY <2>1, <2>2
    <3> QED BY <2>1, <3>1
  <2> QED BY <2>1, <2>2
<1>6. \A k \in DOMAIN down : down[k].mtype \in GlobalId BY <1>1, QueueDomains DEF Downward
<1> HIDE DEF m, i, to
\* The entry that gets an id, if one does.
<1>7. /\ OneEntryPerId'
      /\ \A p, g : g \in GlobalId =>
           (Has(p, g)' <=> Has(p, g) \/ (table' # table /\ g = m.mtype /\ Has(p, g)'))
      /\ table' # table => m.type = "ACK_CREATE"
  <2>1. CASE UNCHANGED table BY <1>1, <2>1 DEF OneEntryPerId, Has
  <2>2. CASE /\ m.type = "ACK_CREATE" /\ i \in DOMAIN table /\ table[i].global_id = NoId
             /\ table' = [table EXCEPT ![i].global_id = m.mtype]
    <3>1. New(m) BY <2>2 DEF New
    <3>2. /\ OneEntryPerId' /\ Unnamed(table[i].local_id)
          /\ \A q, h : Has(q, h)' <=> IF q = table[i].local_id THEN h = m.mtype ELSE Has(q, h)
      BY <1>1, <1>2, <1>4, <2>2, <3>1, TableFills
    <3>3. \A q, g : g \in GlobalId /\ Has(q, g) => q # table[i].local_id
      BY <1>1, <3>2, Holders, Constants DEF Unnamed
    <3>4. table' # table
      <4>1. table'[i].global_id = m.mtype BY <1>1, <2>2, TableDomain DEF Entries
      <4> QED BY <1>4, <2>2, <4>1, Constants
    <3> QED BY <2>2, <3>2, <3>3, <3>4
  <2> QED BY <1>3, <2>1, <2>2
<1>8. \A g : ~Removing(g) BY <1>1 DEF Removing
<1>9. \A g \in GlobalId : Removing(g)' <=> Destroyed(g, 1)
  <2>1. CASE m.type = "ACK_DESTROY"
    <3>1. UNCHANGED table /\ rmsg'.mtype = m.from /\ rpc' = "remove" BY <1>3, <1>4, <2>1
    <3>2. Has(m.from, m.mtype) BY <1>2, <2>1
    <3>3. \A g : Removing(g)' <=> Has(m.from, g)
      <4>1. \A x, g : Has(x, g)' <=> Has(x, g) BY <3>1 DEF Has
      <4> QED BY <3>1, <4>1 DEF Removing, Has
    <3>4. \A g : Has(m.from, g) <=> g = m.mtype BY <1>1, <3>2, Holders
    <3> QED BY <1>2, <2>1, <3>3, <3>4 DEF Destroyed
  <2>2. CASE m.type # "ACK_DESTROY"
    <3>1. rpc' # "remove" BY <1>3, <2>2
    <3> QED BY <1>2, <2>2, <3>1 DEF Destroyed, Removing
  <2> QED BY <2>1, <2>2
<1>10. \A g : \A k \in DOMAIN down' : Destroyed(g, k)' <=> Destroyed(g, k + 1)
  BY <1>5 DEF Destroyed
<1>11. \A g \in GlobalId : \A n \in DOMAIN down :
         (\E j \in 1..n : Destroyed(g, j)) => Removing(g)' \/ \E j \in 1..n - 1 : Destroyed(g, j)'
  <2> TAKE g \in GlobalId
  <2> TAKE n \in DOMAIN down
  <2> SUFFICES ASSUME NEW j \in 1..n, Destroyed(g, j), j # 1
               PROVE  \E k \in 1..n - 1 : Destroyed(g, k)'
    BY <1>9
  <2>1. j \in DOMAIN down /\ j - 1 \in 1..n - 1 /\ (j - 1) + 1 = j BY <1>5
  <2>2. Destroyed(g, j - 1)'
    <3>1. j - 1 \in DOMAIN down' /\ down'[j - 1] = down[j] BY <1>5, <2>1
    <3> QED BY <3>1 DEF Destroyed
  <2> QED BY <2>1, <2>2
<1>12. IdsOK'
  <2>1. ASSUME NEW q \in Program, NEW g \in GlobalId, Has(q, g)'
        PROVE  \/ g \in server'.known \/ Removing(g)'
               \/ \E j \in DOMAIN down' : Destroyed(g, j)'
    <3>1. CASE table' # table /\ g = m.mtype
      <4>1. m.type = "ACK_CREATE" BY <1>7, <3>1
      <4> QED BY <1>1, <1>2, <3>1, <4>1 DEF IdsOK
    <3>2. CASE Has(q, g)
      <4>1. g \in server.known \/ \E j \in DOMAIN down : Destroyed(g, j)
        BY <1>8, <3>2 DEF IdsOK
      <4>2. CASE \E j \in DOMAIN down : Destroyed(g, j)
        <5>1. Len(down) \in DOMAIN down BY <1>2, <1>5
        <5> QED BY <1>5, <1>11, <4>2, <5>1
      <4> QED BY <1>1, <4>1, <4>2
    <3> QED BY <1>7, <2>1, <3>1, <3>2
  <2>2. ASSUME NEW k \in DOMAIN down', New(down'[k])
        PROVE  (LET g == down[k].mtype IN
                /\ g \in server.users
                /\ \A j \in DOMAIN down : New(down[j]) /\ down[j].mtype = g => k = j
                /\ \A q \in Program : Has(q, g) =>
                     Removing(g) \/ \E j \in 1..k - 1 : Destroyed(g, j))'
    <3>0. PICK g \in GlobalId : g = down[k + 1].mtype BY <1>5, <1>6
    <3>1. k + 1 \in DOMAIN down /\ down'[k] = down[k + 1] /\ New(down[k + 1]) /\ g \in GlobalId
          /\ k \in Nat /\ (k + 1) - 1 = k /\ k + 1 # 1
      BY <1>5, <1>6, <2>2
    <3>2. /\ g \in server.users
          /\ \A j \in DOMAIN down : New(down[j]) /\ down[j].mtype = g => k + 1 = j
          /\ \A q \in Program : Has(q, g) =>
               Removing(g) \/ \E j \in 1..(k + 1) - 1 : Destroyed(g, j)
      BY <3>0, <3>1 DEF IdsOK
    <3>3. \A j \in DOMAIN down' : New(down'[j]) /\ down'[j].mtype = g => k = j
      BY <1>5, <3>1, <3>2
    <3>4. ASSUME NEW q \in Program, Has(q, g)'
          PROVE  Removing(g)' \/ \E j \in 1..k - 1 : Destroyed(g, j)'
      <4>1. ~(table' # table /\ g = m.mtype)
        <5>1. table' # table => New(down[1]) BY <1>2, <1>7 DEF New
        <5> QED BY <1>2, <3>1, <3>2, <5>1
      <4>2. \E j \in 1..k : Destroyed(g, j) BY <1>7, <1>8, <3>1, <3>2, <3>4, <4>1
      <4>3. k \in DOMAIN down BY <1>5, <3>1
      <4> QED BY <1>11, <3>1, <4>2, <4>3
    <3> QED BY <1>1, <3>0, <3>1, <3>2, <3>3, <3>4
  <2>3. \A k \in DOMAIN down' : down'[k].type = "ACK_CREATE" => down'[k].mtype \in server'.known
    BY <1>1, <1>5 DEF IdsOK
  <2> QED BY <1>7, <2>1, <2>2, <2>3 DEF IdsOK
<1>13. SubsOK'
  <2>1. ASSUME NEW s \in server'.subs
        PROVE  /\ s[1] \in server'.known /\ Has(s[2], s[1])'
               /\ ~Removing(s[1])'
               /\ \A j \in DOMAIN down' : ~Destroyed(s[1], j)'
    <3>1. s \in server.subs /\ s[1] \in GlobalId BY <1>1 DEF ServerOK
    <3>2. s[1] \in server.known /\ Has(s[2], s[1]) /\ \A j \in DOMAIN down : ~Destroyed(s[1], j)
      BY <3>1 DEF SubsOK
    <3>3. \A j \in DOMAIN down' : ~Destroyed(s[1], j)' BY <1>5, <1>10, <3>2
    <3> QED BY <1>1, <1>2, <1>7, <1>9, <3>1, <3>2, <3>3
  <2>2. ASSUME NEW k \in DOMAIN down', down'[k].type = "PUBLISH"
        PROVE  (LET g == down[k].mtype IN
                /\ Has(down[k].from, g) /\ ~Removing(g)
                /\ \A j \in 1..k - 1 : ~Destroyed(g, j))'
    <3>0. PICK g \in GlobalId, p \in Program : g = down[k + 1].mtype /\ p = down[k + 1].from
      BY <1>1, <1>5, QueueDomains DEF Downward
    <3>1. k + 1 \in DOMAIN down /\ down'[k] = down[k + 1] /\ g \in GlobalId
          /\ k \in Nat /\ (k + 1) - 1 = k /\ k >= 1
      BY <1>5, <1>6
    <3>2. Has(p, g) /\ \A j \in 1..k : ~Destroyed(g, j)
      BY <2>2, <3>0, <3>1 DEF SubsOK
    <3>3. \A j \in 1..k - 1 : ~Destroyed(g, j)'
      <4> TAKE j \in 1..k - 1
      <4>1. j + 1 \in 1..k /\ j \in DOMAIN down' BY <1>5, <3>1
      <4> QED BY <1>10, <3>2, <4>1
    <3>4. ~Removing(g)' BY <1>9, <3>1, <3>2
    <3>5. Has(p, g)' BY <1>7, <3>1, <3>2
    <3> QED BY <3>0, <3>1, <3>3, <3>4, <3>5
  <2> QED BY <2>1, <2>2 DEF SubsOK
<1> QED BY <1>12, <1>13

\* A program whose request is on its way holds its id, and nothing that takes
\* the id away is on its way.
LEMMA AskerHolds ==
  ASSUME LocalTypes, RequestsOK, IdsOK, NEW p \in Program, NEW i \in DOMAIN up,
         Forwarded(up[i], p), NEW g \in GlobalId, g = up[i].mtype
  PROVE  Has(p, g) /\ ~Removing(g) /\ \A j \in DOMAIN down : ~Destroyed(g, j)
<1>1. TableOK /\ OneEntryPerId /\ QueuesOK /\ RespHandlerOK BY DEF LocalTypes, IdsOK
<1>2. RequestOK(p) /\ InUp(p) BY DEF RequestsOK, InUp
<1>3. Has(p, g) BY <1>2 DEF RequestOK, CallOK
<1>4. ~InDown(p) /\ ~InResp(p) BY <1>2 DEF RequestOK, OnePlace
<1>5. \A q : Has(q, g) => q = p BY <1>1, <1>3, Holders, Constants
<1>6. ~Removing(g) BY <1>4, <1>5 DEF Removing, InResp
<1>7. ASSUME NEW j \in DOMAIN down, Destroyed(g, j)
      PROVE  FALSE
  <2>1. PICK q \in Program : q = down[j].from BY <1>1, QueueDomains DEF Downward
  <2>2. Acked(down[j], q) BY <1>7, <2>1 DEF Acked, Destroyed
  <2>3. Has(q, g) BY <1>7, <2>2 DEF RequestsOK, RequestOK, CallOK, Destroyed
  <2> QED BY <1>4, <1>5, <2>2, <2>3 DEF InDown
<1> QED BY <1>3, <1>6, <1>7

\* What a message more on the socket leaves as it was.
LEMMA DownGrows ==
  ASSUME QueuesOK, NEW a \in Downward, down' = Append(down, a)
  PROVE  /\ Len(down) \in Nat /\ DOMAIN down = 1..Len(down) /\ DOMAIN down' = 1..Len(down) + 1
         /\ \A i \in DOMAIN down : down'[i] = down[i]
         /\ down'[Len(down) + 1] = a
         /\ \A i \in DOMAIN down' : i \in DOMAIN down \/ i = Len(down) + 1
         /\ \A i \in DOMAIN down : down[i].mtype \in GlobalId /\ down[i].from \in Program
         /\ \A g : \A j \in DOMAIN down : Destroyed(g, j)' <=> Destroyed(g, j)
         /\ \A g : \A n \in {Len(down) + 1} :
              Destroyed(g, n)' <=> a.type = "ACK_DESTROY" /\ a.mtype = g
         /\ \A i \in DOMAIN down' : 1..i - 1 \subseteq DOMAIN down
<1>1. /\ Len(down) \in Nat /\ DOMAIN down = 1..Len(down) /\ DOMAIN down' = 1..Len(down) + 1
      /\ \A i \in DOMAIN down : down'[i] = down[i]
      /\ down'[Len(down) + 1] = a
  BY Appended DEF QueuesOK
<1>2. \A i \in DOMAIN down' : i \in DOMAIN down \/ i = Len(down) + 1 BY <1>1
<1>3. \A i \in DOMAIN down : down[i].mtype \in GlobalId /\ down[i].from \in Program
  BY QueueDomains DEF Downward
<1>4. \A i \in DOMAIN down' : 1..i - 1 \subseteq DOMAIN down BY <1>1
<1>5. \A g : \A j \in DOMAIN down : Destroyed(g, j)' <=> Destroyed(g, j) BY <1>1 DEF Destroyed
<1>6. \A g : \A n \in {Len(down) + 1} :
        Destroyed(g, n)' <=> a.type = "ACK_DESTROY" /\ a.mtype = g
  BY <1>1 DEF Destroyed
<1> QED BY <1>1, <1>2, <1>3, <1>4, <1>5, <1>6

LEMMA ServerIds ==
  ASSUME LocalTypes, RequestsOK, IdsOK, SubsOK, ServerStep
  PROVE  IdsOK' /\ SubsOK'
<1> DEFINE m == Head(up)
<1>1. /\ TableOK /\ OneEntryPerId /\ ServerOK /\ QueuesOK
      /\ UNCHANGED <<table, rpc, rmsg>>
  BY DEF LocalTypes, IdsOK, ServerStep, localPart
<1>2. PICK p \in Program, g \in GlobalId, t \in {"ACK_CREATE", "ACK_ERROR", "ACK_OK", "ACK_DESTROY"} :
        /\ down' = Append(down, Msg(g, t, p, 0)) /\ Msg(g, t, p, 0) \in Downward
        /\ m.from = p /\ m = up[1] /\ m \in Upward /\ up # <<>> /\ up' = Tail(up)
        /\ Served(m, p, g, t)
  BY ServerAnswers
<1> DEFINE a == Msg(g, t, p, 0)
<1>3. a.type = t /\ a.mtype = g /\ a.from = p BY DEF Msg
<1> HIDE DEF a, m
<1>4. PICK n \in Nat : n = Len(down) + 1 BY <1>1, LenProperties DEF QueuesOK
<1>5. /\ DOMAIN down = 1..n - 1 /\ DOMAIN down' = 1..n
      /\ \A i \in DOMAIN down : down'[i] = down[i]
      /\ down'[n] = a
      /\ \A i \in DOMAIN down' : i \in DOMAIN down \/ i = n
      /\ \A i \in DOMAIN down : down[i].mtype \in GlobalId /\ down[i].from \in Program /\ i # n
      /\ \A i \in DOMAIN down' : 1..i - 1 \subseteq DOMAIN down
  BY <1>1, <1>2, <1>4, DownGrows DEF a
<1>6. \A h : \A j \in DOMAIN down : Destroyed(h, j)' <=> Destroyed(h, j)
  BY <1>1, <1>2, DownGrows DEF a
<1>7. \A h : Destroyed(h, n)' <=> t = "ACK_DESTROY" /\ h = g
  BY <1>1, <1>2, <1>3, <1>4, DownGrows DEF a
<1>8. \A q, h : Has(q, h)' <=> Has(q, h) BY <1>1 DEF Has
<1>9. \A h : Removing(h)' <=> Removing(h) BY <1>1 DEF Removing, Has
<1>10. OneEntryPerId' BY <1>1 DEF OneEntryPerId
<1>11. t \in {"ACK_OK", "ACK_DESTROY"} =>
         /\ Has(p, g) /\ ~Removing(g) /\ \A j \in DOMAIN down : ~Destroyed(g, j)
         /\ g \in server.known
  <2> SUFFICES ASSUME t \in {"ACK_OK", "ACK_DESTROY"}
               PROVE  /\ Has(p, g) /\ ~Removing(g) /\ \A j \in DOMAIN down : ~Destroyed(g, j)
                      /\ g \in server.known
    OBVIOUS
  <2>1. Forwarded(up[1], p) /\ g = up[1].mtype /\ g \in server.known BY <1>2 DEF Served
  <2>2. 1 \in DOMAIN up BY <1>1, <1>2, Tailed DEF QueuesOK
  <2> QED BY <2>1, <2>2, AskerHolds
<1>12. t \in {"ACK_CREATE", "ACK_ERROR"} => /\ g \notin server.users /\ g \notin server.known
                                            /\ \A q \in Program : Has(q, g) =>
                                                 Removing(g) \/ \E j \in DOMAIN down : Destroyed(g, j)
  <2>1. t \in {"ACK_CREATE", "ACK_ERROR"} => g \notin server.users BY <1>2 DEF Served
  <2> QED BY <1>1, <2>1 DEF ServerOK, IdsOK
<1>13. /\ t = "ACK_CREATE" => server'.users = server.users \cup {g}
                              /\ server'.known = server.known \cup {g}
                              /\ server'.subs = server.subs
       /\ t = "ACK_ERROR" => server'.users = server.users \cup {g}
                              /\ server'.known = server.known
                              /\ server'.subs = server.subs
       /\ t = "ACK_OK" => server'.users = server.users
                              /\ server'.known = server.known
                              /\ server'.subs \subseteq server.subs \cup {<<g, p>>}
       /\ t = "ACK_DESTROY" => server'.users = server.users \ {g}
                              /\ server'.known = server.known \ {g}
                              /\ server'.subs = {s \in server.subs : s[1] # g}
  <2>1. t = "ACK_CREATE" => server' = [server EXCEPT !.users = @ \cup {g}, !.known = @ \cup {g}]
    BY <1>2 DEF Served
  <2>2. t = "ACK_ERROR" => server' = [server EXCEPT !.users = @ \cup {g}] BY <1>2 DEF Served
  <2>3. t = "ACK_OK" =>
          \/ server' = [server EXCEPT !.subs = {s \in @ : s[1] # g} \cup {<<g, p>>}]
          \/ server' = server
    BY <1>2 DEF Served
  <2>4. t = "ACK_DESTROY" =>
          server' = [users |-> server.users \ {g}, known |-> server.known \ {g},
                     subs |-> {s \in server.subs : s[1] # g}]
    BY <1>2 DEF Served
  <2>5. server \in [users : SUBSET GlobalId, known : SUBSET GlobalId,
                    subs : SUBSET (GlobalId \X Program)]
    BY <1>1 DEF ServerOK
  <2> DEFINE S == {s \in server.subs : s[1] # g}
  <2>6. S \subseteq server.subs OBVIOUS
  <2>7. t = "ACK_CREATE" => /\ server'.users = server.users \cup {g}
                            /\ server'.known = server.known \cup {g}
                            /\ server'.subs = server.subs
    BY <2>1, <2>5
  <2>8. t = "ACK_ERROR" => /\ server'.users = server.users \cup {g}
                           /\ server'.known = server.known
                           /\ server'.subs = server.subs
    BY <2>2, <2>5
  <2>9. t = "ACK_OK" => \/ server' = [server EXCEPT !.subs = S \cup {<<g, p>>}]
                        \/ server' = server
    BY <2>3
  <2>10. t = "ACK_DESTROY" =>
           server' = [users |-> server.users \ {g}, known |-> server.known \ {g}, subs |-> S]
    BY <2>4
  <2> HIDE DEF S
  <2>11. t = "ACK_OK" => /\ server'.users = server.users
                         /\ server'.known = server.known
                         /\ server'.subs \subseteq server.subs \cup {<<g, p>>}
    BY <2>5, <2>6, <2>9
  <2>12. t = "ACK_DESTROY" => /\ server'.users = server.users \ {g}
                              /\ server'.known = server.known \ {g}
                              /\ server'.subs = S
    BY <2>10
  <2> QED BY <2>7, <2>8, <2>11, <2>12 DEF S
\* An id that leaves the known ones is on its way down.
<1>14. \A h : h \in server.known => h \in server'.known \/ (t = "ACK_DESTROY" /\ h = g)
  BY <1>13
<1>15. \A h : h \in server.users => h \in server'.users \/ (t = "ACK_DESTROY" /\ h = g)
  BY <1>13
<1>16. IdsOK'
  <2>1. ASSUME NEW q \in Program, NEW h \in GlobalId, Has(q, h)'
        PROVE  \/ h \in server'.known \/ Removing(h)'
               \/ \E j \in DOMAIN down' : Destroyed(h, j)'
    <3>1. \/ h \in server.known \/ Removing(h)
          \/ \E j \in DOMAIN down : Destroyed(h, j)
      BY <1>8, <2>1 DEF IdsOK
    <3>2. n \in DOMAIN down' /\ DOMAIN down \subseteq DOMAIN down' BY <1>4, <1>5
    <3> QED BY <1>6, <1>7, <1>9, <1>14, <3>1, <3>2
  <2>2. ASSUME NEW k \in DOMAIN down', New(down'[k])
        PROVE  (LET h == down[k].mtype IN
                /\ h \in server.users
                /\ \A j \in DOMAIN down : New(down[j]) /\ down[j].mtype = h => k = j
                /\ \A q \in Program : Has(q, h) =>
                     Removing(h) \/ \E j \in 1..k - 1 : Destroyed(h, j))'
    <3>1. CASE k = n
      <4>1. t \in {"ACK_CREATE", "ACK_ERROR"} BY <1>3, <1>5, <2>2, <3>1 DEF New
      <4>2. g \in server'.users BY <1>13, <4>1
      <4>3. \A j \in DOMAIN down' : New(down'[j]) /\ down'[j].mtype = g => k = j
        BY <1>5, <1>12, <3>1, <4>1 DEF IdsOK
      <4>4. \A q \in Program : Has(q, g)' => Removing(g)' \/ \E j \in 1..k - 1 : Destroyed(g, j)'
        BY <1>5, <1>6, <1>8, <1>9, <1>12, <3>1, <4>1
      <4>5. down'[k].mtype = g BY <1>3, <1>5, <3>1
      <4> QED BY <4>2, <4>3, <4>4, <4>5
    <3>2. CASE k \in DOMAIN down
      <4>0. PICK h \in GlobalId : h = down[k].mtype BY <1>5, <3>2
      <4>1. New(down[k]) /\ down'[k].mtype = h BY <1>5, <2>2, <3>2, <4>0
      <4>2. /\ h \in server.users
            /\ \A j \in DOMAIN down : New(down[j]) /\ down[j].mtype = h => k = j
            /\ \A q \in Program : Has(q, h) =>
                 Removing(h) \/ \E j \in 1..k - 1 : Destroyed(h, j)
        BY <3>2, <4>0, <4>1 DEF IdsOK
      <4>3. 1..k - 1 \subseteq DOMAIN down BY <1>5
      <4>4. t = "ACK_DESTROY" => h # g BY <1>11, <4>2, <4>3
      <4>5. h \in server'.users BY <1>15, <4>2, <4>4
      <4>6. New(a) => a.mtype # h BY <1>3, <1>12, <4>2 DEF New
      <4>7. \A j \in DOMAIN down' : New(down'[j]) /\ down'[j].mtype = h => k = j
        BY <1>5, <4>2, <4>6
      <4>8. \A q \in Program : Has(q, h)' => Removing(h)' \/ \E j \in 1..k - 1 : Destroyed(h, j)'
        BY <1>6, <1>8, <1>9, <4>2, <4>3
      <4> QED BY <4>1, <4>5, <4>7, <4>8
    <3> QED BY <1>5, <3>1, <3>2
  <2>3. \A k \in DOMAIN down' : down'[k].type = "ACK_CREATE" => down'[k].mtype \in server'.known
    <3> TAKE k \in DOMAIN down'
    <3> HAVE down'[k].type = "ACK_CREATE"
    <3>1. CASE k = n BY <1>3, <1>5, <1>13, <3>1
    <3>2. CASE k \in DOMAIN down
      <4>1. /\ down[k].mtype \in server.known /\ down'[k] = down[k]
            /\ New(down[k])
        BY <1>5, <3>2 DEF IdsOK, New
      <4>2. t = "ACK_DESTROY" => down[k].mtype # g
        <5>1. \A q \in Program : Has(q, down[k].mtype) =>
                Removing(down[k].mtype) \/ \E j \in 1..k - 1 : Destroyed(down[k].mtype, j)
          BY <3>2, <4>1 DEF IdsOK
        <5>2. 1..k - 1 \subseteq DOMAIN down BY <1>5
        <5> QED BY <1>11, <5>1, <5>2
      <4> QED BY <1>14, <4>1, <4>2
    <3> QED BY <1>5, <3>1, <3>2
  <2> QED BY <1>10, <2>1, <2>2, <2>3 DEF IdsOK
<1>17. SubsOK'
  <2>1. ASSUME NEW s \in server'.subs
        PROVE  /\ s[1] \in server'.known /\ Has(s[2], s[1])'
               /\ ~Removing(s[1])'
               /\ \A j \in DOMAIN down' : ~Destroyed(s[1], j)'
    <3>1. s \in server.subs \/ (s = <<g, p>> /\ t = "ACK_OK") BY <1>2, <1>13
    <3>2. t = "ACK_DESTROY" => s[1] # g BY <1>13
    <3>3. CASE s \in server.subs
      <4>1. /\ s[1] \in server.known /\ Has(s[2], s[1])
            /\ ~Removing(s[1])
            /\ \A j \in DOMAIN down : ~Destroyed(s[1], j)
        BY <3>3 DEF SubsOK
      <4> QED BY <1>5, <1>6, <1>7, <1>8, <1>9, <1>14, <3>2, <4>1
    <3>4. CASE s = <<g, p>> /\ t = "ACK_OK"
      <4>1. s[1] = g /\ s[2] = p BY <3>4
      <4>2. g \in server'.known /\ Has(p, g)' /\ ~Removing(g)'
        BY <1>8, <1>9, <1>11, <1>13, <3>4
      <4>3. \A j \in DOMAIN down' : ~Destroyed(g, j)'
        BY <1>5, <1>6, <1>7, <1>11, <3>4
      <4> QED BY <4>1, <4>2, <4>3
    <3> QED BY <3>1, <3>3, <3>4
  <2>2. ASSUME NEW k \in DOMAIN down', down'[k].type = "PUBLISH"
        PROVE  (LET h == down[k].mtype IN
                /\ Has(down[k].from, h) /\ ~Removing(h)
                /\ \A j \in 1..k - 1 : ~Destroyed(h, j))'
    <3>1. k \in DOMAIN down BY <1>3, <1>5, <2>2
    <3>2. PICK h \in GlobalId, q \in Program : h = down[k].mtype /\ q = down[k].from
      BY <1>5, <3>1
    <3>3. down'[k] = down[k] /\ 1..k - 1 \subseteq DOMAIN down BY <1>5, <3>1
    <3>4. /\ Has(q, h) /\ ~Removing(h)
          /\ \A j \in 1..k - 1 : ~Destroyed(h, j)
      BY <2>2, <3>1, <3>2, <3>3 DEF SubsOK
    <3>5. \A j \in 1..k - 1 : ~Destroyed(h, j)' BY <1>6, <3>3, <3>4
    <3> QED BY <1>8, <1>9, <3>2, <3>3, <3>4, <3>5
  <2> QED BY <2>1, <2>2 DEF SubsOK
<1> QED BY <1>16, <1>17

LEMMA PublishIds ==
  ASSUME LocalTypes, RequestsOK, IdsOK, SubsOK, ServerPublish
  PROVE  IdsOK' /\ SubsOK'
<1>1. /\ TableOK /\ OneEntryPerId /\ ServerOK /\ QueuesOK /\ ProgramsOK
      /\ UNCHANGED <<table, rpc, rmsg, server>>
  BY DEF LocalTypes, IdsOK, ServerPublish, localPart
<1>2. PICK s \in server.subs : down' = Append(down, Msg(s[1], "PUBLISH", s[2], pubs + 1))
  BY DEF ServerPublish
<1>0. PICK g \in GlobalId, p \in Program : s = <<g, p>> BY <1>1, <1>2 DEF ServerOK
<1> DEFINE a == Msg(s[1], "PUBLISH", s[2], pubs + 1)
<1>3. a \in Downward /\ a.type = "PUBLISH" /\ a.mtype = g /\ a.from = p
  <2>1. pubs + 1 \in Nat /\ pubs + 1 # 0 BY <1>1 DEF ProgramsOK
  <2> QED BY <1>0, <2>1 DEF Msg, Downward, Messages, MsgTypes, Who, Request
<1> HIDE DEF a
<1>4. PICK n \in Nat : n = Len(down) + 1 BY <1>1, LenProperties DEF QueuesOK
<1>5. /\ DOMAIN down = 1..n - 1 /\ DOMAIN down' = 1..n
      /\ \A i \in DOMAIN down : down'[i] = down[i]
      /\ down'[n] = a
      /\ \A i \in DOMAIN down' : i \in DOMAIN down \/ i = n
      /\ \A i \in DOMAIN down : down[i].mtype \in GlobalId /\ down[i].from \in Program /\ i # n
      /\ \A i \in DOMAIN down' : 1..i - 1 \subseteq DOMAIN down
  BY <1>1, <1>2, <1>3, <1>4, DownGrows DEF a
<1>6. \A h : \A j \in DOMAIN down : Destroyed(h, j)' <=> Destroyed(h, j)
  BY <1>1, <1>2, <1>3, DownGrows DEF a
<1>7. \A h : ~Destroyed(h, n)' BY <1>1, <1>2, <1>3, <1>4, DownGrows DEF a
<1>8. \A q, h : Has(q, h)' <=> Has(q, h) BY <1>1 DEF Has
<1>9. \A h : Removing(h)' <=> Removing(h) BY <1>1 DEF Removing, Has
<1>10. OneEntryPerId' BY <1>1 DEF OneEntryPerId
<1>11. DOMAIN down \subseteq DOMAIN down' /\ ~New(a) BY <1>3, <1>4, <1>5 DEF New
<1>12. IdsOK'
  <2>1. ASSUME NEW q \in Program, NEW h \in GlobalId, Has(q, h)'
        PROVE  \/ h \in server'.known \/ Removing(h)'
               \/ \E j \in DOMAIN down' : Destroyed(h, j)'
    BY <1>1, <1>6, <1>8, <1>9, <1>11, <2>1 DEF IdsOK
  <2>2. ASSUME NEW k \in DOMAIN down', New(down'[k])
        PROVE  (LET h == down[k].mtype IN
                /\ h \in server.users
                /\ \A j \in DOMAIN down : New(down[j]) /\ down[j].mtype = h => k = j
                /\ \A q \in Program : Has(q, h) =>
                     Removing(h) \/ \E j \in 1..k - 1 : Destroyed(h, j))'
    <3>1. k \in DOMAIN down BY <1>5, <1>11, <2>2
    <3>2. PICK h \in GlobalId : h = down[k].mtype BY <1>5, <3>1
    <3>3. New(down[k]) /\ down'[k].mtype = h /\ 1..k - 1 \subseteq DOMAIN down
      BY <1>5, <2>2, <3>1, <3>2
    <3>4. /\ h \in server.users
          /\ \A j \in DOMAIN down : New(down[j]) /\ down[j].mtype = h => k = j
          /\ \A q \in Program : Has(q, h) =>
               Removing(h) \/ \E j \in 1..k - 1 : Destroyed(h, j)
      BY <3>1, <3>2, <3>3 DEF IdsOK
    <3>5. \A j \in DOMAIN down' : New(down'[j]) /\ down'[j].mtype = h => k = j
      BY <1>5, <1>11, <3>4
    <3>6. \A q \in Program : Has(q, h)' => Removing(h)' \/ \E j \in 1..k - 1 : Destroyed(h, j)'
      BY <1>6, <1>8, <1>9, <3>3, <3>4
    <3> QED BY <1>1, <3>3, <3>4, <3>5, <3>6
  <2>3. \A k \in DOMAIN down' : down'[k].type = "ACK_CREATE" => down'[k].mtype \in server'.known
    BY <1>1, <1>3, <1>5 DEF IdsOK
  <2> QED BY <1>10, <2>1, <2>2, <2>3 DEF IdsOK
<1>13. SubsOK'
  <2>1. ASSUME NEW x \in server'.subs
        PROVE  /\ x[1] \in server'.known /\ Has(x[2], x[1])'
               /\ ~Removing(x[1])'
               /\ \A j \in DOMAIN down' : ~Destroyed(x[1], j)'
    BY <1>1, <1>5, <1>6, <1>7, <1>8, <1>9, <2>1 DEF SubsOK
  <2>2. ASSUME NEW k \in DOMAIN down', down'[k].type = "PUBLISH"
        PROVE  (LET h == down[k].mtype IN
                /\ Has(down[k].from, h) /\ ~Removing(h)
                /\ \A j \in 1..k - 1 : ~Destroyed(h, j))'
    <3>1. CASE k = n
      <4>1. Has(p, g) /\ ~Removing(g) /\ \A j \in DOMAIN down : ~Destroyed(g, j)
        <5>1. s[1] = g /\ s[2] = p BY <1>0
        <5> QED BY <1>2, <5>1 DEF SubsOK
      <4>2. \A j \in 1..k - 1 : ~Destroyed(g, j)' BY <1>5, <1>6, <4>1
      <4>3. down'[k].mtype = g /\ down'[k].from = p BY <1>3, <1>5, <3>1
      <4> QED BY <1>8, <1>9, <4>1, <4>2, <4>3
    <3>2. CASE k \in DOMAIN down
      <4>1. PICK h \in GlobalId, q \in Program : h = down[k].mtype /\ q = down[k].from
        BY <1>5, <3>2
      <4>2. down'[k] = down[k] /\ 1..k - 1 \subseteq DOMAIN down BY <1>5, <3>2
      <4>3. /\ Has(q, h) /\ ~Removing(h)
            /\ \A j \in 1..k - 1 : ~Destroyed(h, j)
        BY <2>2, <3>2, <4>1, <4>2 DEF SubsOK
      <4>4. \A j \in 1..k - 1 : ~Destroyed(h, j)' BY <1>6, <4>2, <4>3
      <4> QED BY <1>8, <1>9, <4>1, <4>2, <4>3, <4>4
    <3> QED BY <1>5, <3>1, <3>2
  <2> QED BY <2>1, <2>2 DEF SubsOK
<1> QED BY <1>12, <1>13

\* The steps that neither give nor take an id.
LEMMA OtherIds ==
  ASSUME LocalTypes, RequestsOK, IdsOK, SubsOK,
         \/ \E p \in Program : Return(p) \/ Kill(p) \/ \E type \in Request : Call(p, type)
         \/ ReqTake \/ ReqTranslate \/ ReqFetch \/ ReqReply \/ RespAnswer \/ RespDeliver
  PROVE  IdsOK' /\ SubsOK'
<1>1. TableOK /\ OneEntryPerId /\ ServerOK /\ QueuesOK BY DEF LocalTypes, IdsOK
<1>2. \A i \in DOMAIN down : down[i].mtype \in GlobalId BY <1>1, QueueDomains DEF Downward
<1>3. UNCHANGED <<down, server>>
  BY DEF Return, Kill, Call, ReqTake, ReqTranslate, ReqFetch, ReqReply, RespAnswer, RespDeliver,
         serverPart
<1>4. CASE UNCHANGED table /\ ((rpc # "remove" /\ rpc' # "remove") \/ UNCHANGED <<rpc, rmsg>>)
  <2>1. OneEntryPerId' BY <1>1, <1>4 DEF OneEntryPerId
  <2>2. \A p, g : Has(p, g)' <=> Has(p, g) BY <1>4 DEF Has
  <2>3. \A g : Removing(g)' <=> Removing(g) BY <1>4 DEF Removing, Has
  <2> QED BY <1>1, <1>2, <1>3, <2>1, <2>2, <2>3, IdsFrame
<1>5. CASE ReqTake
  <2> DEFINE m == Head(reqQ)
  <2>1. /\ m.mtype \in Program /\ ~Unnamed(m.mtype)
        /\ m.type = "CREATE" <=> ~Named(m.mtype)
    BY <1>5, Asked
  <2>2. UNCHANGED <<rpc, rmsg>> BY <1>5 DEF ReqTake
  <2>3. \/ /\ m.type = "CREATE" /\ HasRoom(table)
           /\ table' = AddLocalId(table, m.mtype) /\ UNCHANGED sem
        \/ UNCHANGED table
    BY <1>5 DEF ReqTake
  <2> HIDE DEF m
  <2>4. CASE UNCHANGED table BY <1>4, <2>2, <2>4
  <2>5. CASE /\ m.type = "CREATE" /\ HasRoom(table)
             /\ table' = AddLocalId(table, m.mtype) /\ UNCHANGED sem
    <3>1. /\ OneEntryPerId'
          /\ \A q, h : Has(q, h)' <=> Has(q, h) \/ (q = m.mtype /\ h = NoId)
      BY <1>1, <2>1, <2>5, TableGrows
    <3>2. \A q, g : g \in GlobalId => (Has(q, g)' <=> Has(q, g)) BY <3>1, Constants
    <3>3. \A g : g \in GlobalId => (Removing(g)' <=> Removing(g))
      BY <2>2, <3>2 DEF Removing, Has
    <3> QED BY <1>1, <1>2, <1>3, <3>1, <3>2, <3>3, IdsFrame
  <2> QED BY <2>3, <2>4, <2>5
<1>6. ~ReqTake => UNCHANGED table /\ ((rpc # "remove" /\ rpc' # "remove") \/ UNCHANGED <<rpc, rmsg>>)
  BY DEF Return, Kill, Call, ReqTranslate, ReqFetch, ReqReply, RespAnswer, RespDeliver,
         localPart
<1> QED BY <1>4, <1>5, <1>6

-----------------------------------------------------------------------------
(* The order of the CREATEs.                                               *)

LEMMA BeforeMeans ==
  ASSUME TableOK, OneEntryPerId
  PROVE  \A p, q : Before(p, q) => p # q /\ Unnamed(p) /\ Unnamed(q)
BY TableDomain DEF Before, WithoutId, OneEntryPerId, Unnamed, Has

\* What a step does that answers, at most, the CREATE of the program gone: the
\* queues move on by at most one place, ...
QueuesMove(d, e) ==
  /\ \A k \in DOMAIN down' :
       \/ ~Created(down'[k]) /\ down'[k].type # "ACK_ERROR"
       \/ k + d \in DOMAIN down /\ down'[k] = down[k + d]
  /\ \A k \in DOMAIN up' : \/ ~Created(up'[k])
                           \/ k + e \in DOMAIN up /\ up'[k] = up[k + e]

\* ... what the others created stays in them, and nothing of gone is left, ...
OnlyLeaves(gone) ==
  /\ \A k \in DOMAIN down : Created(down[k]) /\ down[k].from # gone =>
       \E j \in DOMAIN down' : down'[j] = down[k]
  /\ \A k \in DOMAIN up : Created(up[k]) => \E j \in DOMAIN up' : up'[j] = up[k]
  /\ \A k \in DOMAIN down' : Created(down'[k]) /\ refused = 0 => down'[k].from # gone
  /\ \A k \in DOMAIN up' : Created(up'[k]) /\ refused = 0 => up'[k].from # gone

\* ... the entries of the others stay in their order, ...
OnlyNamed(gone) ==
  /\ \A q : Unnamed(q)' <=> Unnamed(q) /\ q # gone
  /\ \A q, r : Before(q, r) /\ q # gone /\ r # gone => Before(q, r)'

\* ... and ids and answers are for those who asked.
AsGranted ==
  /\ refused = 0 /\ rpc' = "answer" => rmsg'.mtype = rmsg'.from
  /\ \A p \in Program, g \in GlobalId : refused = 0 /\ Has(p, g)' => <<g, p>> \in grant

\* A step that neither makes nor answers a CREATE; or answers that of gone, the
\* first of all.
LEMMA OrderKept ==
  ASSUME OrderOK, ProgramsOK, QueuesOK, QueuesOK', UNCHANGED <<grant, refused>>,
         NEW d \in {0, 1}, NEW e \in {0, 1}, NEW gone,
         QueuesMove(d, e), OnlyLeaves(gone), OnlyNamed(gone), AsGranted
  PROVE  OrderOK'
<1> USE DEF QueuesMove, OnlyLeaves, OnlyNamed, AsGranted
<1> SUFFICES ASSUME refused' = 0 PROVE OrderOK' BY DEF OrderOK
<1>1. refused = 0 OBVIOUS
<1>2. /\ DOMAIN down = 1..Len(down) /\ Len(down) \in Nat
      /\ DOMAIN up = 1..Len(up) /\ Len(up) \in Nat
      /\ DOMAIN down' = 1..Len(down') /\ Len(down') \in Nat
      /\ DOMAIN up' = 1..Len(up') /\ Len(up') \in Nat
  BY LenProperties DEF QueuesOK
<1>3. ASSUME NEW k \in DOMAIN down'
      PROVE  (/\ down[k].type # "ACK_ERROR"
              /\ Created(down[k]) => /\ Unnamed(down[k].from)
                                     /\ <<down[k].mtype, down[k].from>> \in grant
                                     /\ \A j \in k + 1..Len(down) : Created(down[j]) =>
                                          Before(down[k].from, down[j].from)
                                     /\ \A j \in DOMAIN up : Created(up[j]) =>
                                          Before(down[k].from, up[j].from))'
  <2>1. CASE ~Created(down'[k]) /\ down'[k].type # "ACK_ERROR" BY <2>1 DEF Created
  <2>2. CASE k + d \in DOMAIN down /\ down'[k] = down[k + d]
    <3>1. PICK q : q = down'[k].from OBVIOUS
    <3>2. /\ down[k + d].type # "ACK_ERROR"
          /\ Created(down[k + d]) =>
               /\ Unnamed(q)
               /\ <<down[k + d].mtype, q>> \in grant
               /\ \A j \in k + d + 1..Len(down) : Created(down[j]) =>
                    Before(q, down[j].from)
               /\ \A j \in DOMAIN up : Created(up[j]) => Before(q, up[j].from)
      BY <1>1, <2>2, <3>1 DEF OrderOK
    <3> SUFFICES ASSUME Created(down'[k])
                 PROVE  (/\ Unnamed(q)
                         /\ \A j \in k + 1..Len(down) : Created(down[j]) =>
                              Before(q, down[j].from)
                         /\ \A j \in DOMAIN up : Created(up[j]) => Before(q, up[j].from))'
      BY <2>2, <3>1, <3>2 DEF Created
    <3>3. q # gone BY <1>1, <3>1
    <3>4. Unnamed(q)' BY <2>2, <3>2, <3>3 DEF Created
    <3>5. ASSUME NEW j \in k + 1..Len(down'), Created(down'[j])
          PROVE  Before(q, down[j].from)'
      <4>1. PICK r : r = down'[j].from OBVIOUS
      <4>2. j \in DOMAIN down' BY <1>2, <3>5
      <4>3. j + d \in DOMAIN down /\ down'[j] = down[j + d] BY <3>5, <4>2
      <4>4. j + d \in k + d + 1..Len(down) BY <1>2, <3>5, <4>3
      <4>5. Before(q, r) BY <2>2, <3>2, <3>5, <4>1, <4>3, <4>4 DEF Created
      <4>6. r # gone BY <1>1, <3>5, <4>1, <4>2
      <4> QED BY <3>3, <4>1, <4>5, <4>6
    <3>6. ASSUME NEW j \in DOMAIN up', Created(up'[j])
          PROVE  Before(q, up[j].from)'
      <4>1. PICK r : r = up'[j].from OBVIOUS
      <4>2. j + e \in DOMAIN up /\ up'[j] = up[j + e] BY <3>6
      <4>3. Before(q, r) BY <2>2, <3>2, <3>6, <4>1, <4>2 DEF Created
      <4>4. r # gone BY <1>1, <3>6, <4>1
      <4> QED BY <3>3, <4>1, <4>3, <4>4
    <3> QED BY <3>4, <3>5, <3>6 DEF Created
  <2> QED BY <2>1, <2>2
<1>4. ASSUME NEW k \in DOMAIN up', Created(up'[k])
      PROVE  (/\ Unnamed(up[k].from)
              /\ \A j \in k + 1..Len(up) : Created(up[j]) => Before(up[k].from, up[j].from))'
  <2>1. PICK q : q = up'[k].from OBVIOUS
  <2>2. k + e \in DOMAIN up /\ up'[k] = up[k + e] BY <1>4
  <2>3. /\ Unnamed(q)
        /\ \A j \in k + e + 1..Len(up) : Created(up[j]) => Before(q, up[j].from)
    BY <1>1, <1>4, <2>1, <2>2 DEF OrderOK
  <2>4. q # gone BY <1>1, <1>4, <2>1
  <2>5. ASSUME NEW j \in k + 1..Len(up'), Created(up'[j])
        PROVE  Before(q, up[j].from)'
    <3>1. PICK r : r = up'[j].from OBVIOUS
    <3>2. j \in DOMAIN up' BY <1>2, <2>5
    <3>3. j + e \in DOMAIN up /\ up'[j] = up[j + e] BY <2>5, <3>2
    <3>4. j + e \in k + e + 1..Len(up) BY <1>2, <2>5, <3>3
    <3>5. Before(q, r) BY <2>3, <2>5, <3>1, <3>3, <3>4
    <3>6. r # gone BY <1>1, <2>5, <3>1, <3>2
    <3> QED BY <2>4, <3>1, <3>5, <3>6
  <2> QED BY <2>1, <2>3, <2>4, <2>5 DEF Created
<1>5. ASSUME NEW p \in Program, Unnamed(p)'
      PROVE  (\/ \E i \in DOMAIN down : Created(down[i]) /\ down[i].from = p
              \/ \E i \in DOMAIN up : Created(up[i]) /\ up[i].from = p)'
  <2>1. Unnamed(p) /\ p # gone BY <1>5
  <2>2. \/ \E i \in DOMAIN down : Created(down[i]) /\ down[i].from = p
        \/ \E i \in DOMAIN up : Created(up[i]) /\ up[i].from = p
    BY <1>1, <2>1 DEF OrderOK
  <2> QED BY <2>1, <2>2 DEF Created
<1> QED BY <1>1, <1>3, <1>4, <1>5 DEF OrderOK, Created

\* A step that neither makes nor answers a CREATE, of any program.
LEMMA OrderFrame ==
  ASSUME OrderOK, TableOK, OneEntryPerId, ProgramsOK, QueuesOK, QueuesOK',
         UNCHANGED <<grant, refused>>,
         NEW d \in {0, 1}, NEW e \in {0, 1},
         \A k \in DOMAIN down' :
           \/ ~Created(down'[k]) /\ down'[k].type # "ACK_ERROR"
           \/ k + d \in DOMAIN down /\ down'[k] = down[k + d],
         \A k \in DOMAIN up' : \/ ~Created(up'[k])
                               \/ k + e \in DOMAIN up /\ up'[k] = up[k + e],
         \A k \in DOMAIN down : Created(down[k]) => \E j \in DOMAIN down' : down'[j] = down[k],
         \A k \in DOMAIN up : Created(up[k]) => \E j \in DOMAIN up' : up'[j] = up[k],
         \A q : Unnamed(q)' <=> Unnamed(q),
         \A q, r : Before(q, r) => Before(q, r)',
         refused = 0 /\ rpc' = "answer" => rmsg'.mtype = rmsg'.from,
         \A p \in Program, g \in GlobalId : Has(p, g)' => Has(p, g)
  PROVE  OrderOK'
<1>1. PICK gone : gone \notin Program BY Constants
<1>2. /\ \A k \in DOMAIN down' : down'[k] \in Downward
      /\ \A k \in DOMAIN up' : up'[k] \in Upward
  BY ElementOfSeq, LenProperties DEF QueuesOK
<1>3. /\ \A k \in DOMAIN down' : down'[k].from # gone
      /\ \A k \in DOMAIN up' : up'[k].from # gone
  BY <1>1, <1>2 DEF Downward, Upward
<1>4. \A q : Unnamed(q) => q # gone BY <1>1, Holders DEF Unnamed
<1>5. \A p \in Program, g \in GlobalId : refused = 0 /\ Has(p, g)' => <<g, p>> \in grant
  BY DEF OrderOK
<1>6. QueuesMove(d, e) BY DEF QueuesMove
<1>7. OnlyLeaves(gone) BY <1>3 DEF OnlyLeaves
<1>8. OnlyNamed(gone) BY <1>4 DEF OnlyNamed
<1>9. AsGranted BY <1>5 DEF AsGranted
<1> QED BY <1>6, <1>7, <1>8, <1>9, OrderKept

\* A step that changes neither queue, nor the table.
LEMMA OrderStays ==
  ASSUME OrderOK, TableOK, OneEntryPerId, ProgramsOK, QueuesOK, QueuesOK',
         UNCHANGED <<up, down, table, grant, refused>>,
         rpc' = "answer" => rpc = "answer" /\ UNCHANGED rmsg
  PROVE  OrderOK'
<1>1. PICK d \in {0, 1} : d = 0 OBVIOUS
<1>2. /\ \A k \in DOMAIN down' : k + d \in DOMAIN down /\ down'[k] = down[k + d]
      /\ \A k \in DOMAIN up' : k + d \in DOMAIN up /\ up'[k] = up[k + d]
  BY <1>1, QueueDomains
<1>3. /\ \A k \in DOMAIN down : \E j \in DOMAIN down' : down'[j] = down[k]
      /\ \A k \in DOMAIN up : \E j \in DOMAIN up' : up'[j] = up[k]
  OBVIOUS
<1>4. /\ \A q, g : Has(q, g)' <=> Has(q, g)
      /\ \A q : Unnamed(q)' <=> Unnamed(q)
      /\ \A q, r : Before(q, r)' <=> Before(q, r)
  BY DEF Unnamed, Has, Before, WithoutId
<1>5. refused = 0 /\ rpc' = "answer" => rmsg'.mtype = rmsg'.from BY DEF OrderOK
<1> QED BY <1>2, <1>3, <1>4, <1>5, OrderFrame

\* What a queue that grows or shrinks still holds.
LEMMA UpGrows ==
  ASSUME QueuesOK, NEW m \in Upward, up' = Append(up, m)
  PROVE  /\ \A k \in DOMAIN up' : up'[k] = m \/ (k + 0 \in DOMAIN up /\ up'[k] = up[k + 0])
         /\ \A k \in DOMAIN up : k \in DOMAIN up' /\ up'[k] = up[k]
         /\ Len(up) \in Nat /\ Len(up') = Len(up) + 1
         /\ DOMAIN up = 1..Len(up) /\ DOMAIN up' = 1..Len(up')
         /\ Len(up') \in DOMAIN up' /\ up'[Len(up')] = m
<1>1. /\ Len(up) \in Nat /\ Len(up') = Len(up) + 1
      /\ DOMAIN up = 1..Len(up) /\ DOMAIN up' = 1..Len(up) + 1
      /\ \A i \in DOMAIN up : up'[i] = up[i]
      /\ up'[Len(up) + 1] = m
  BY Appended DEF QueuesOK
<1>2. \A k \in DOMAIN up' : k = Len(up) + 1 \/ (k + 0 \in DOMAIN up /\ k + 0 = k) BY <1>1
<1> QED BY <1>1, <1>2

LEMMA UpShrinks ==
  ASSUME QueuesOK, up # <<>>, up' = Tail(up)
  PROVE  /\ \A k \in DOMAIN up' : k + 1 \in DOMAIN up /\ up'[k] = up[k + 1]
         /\ \A k \in DOMAIN up : k = 1 \/ \E j \in DOMAIN up' : up'[j] = up[k]
         /\ 1 \in DOMAIN up /\ Len(up) \in Nat /\ Len(up') = Len(up) - 1
         /\ DOMAIN up = 1..Len(up) /\ DOMAIN up' = 1..Len(up) - 1
<1>1. /\ Len(up) \in Nat /\ Len(up') = Len(up) - 1 /\ 1 \in DOMAIN up
      /\ DOMAIN up = 1..Len(up) /\ DOMAIN up' = 1..Len(up) - 1
      /\ \A k \in DOMAIN up' : k + 1 \in DOMAIN up /\ up'[k] = up[k + 1]
  BY Tailed DEF QueuesOK
<1>2. ASSUME NEW k \in DOMAIN up, k # 1
      PROVE  \E j \in DOMAIN up' : up'[j] = up[k]
  <2>1. k - 1 \in DOMAIN up' /\ (k - 1) + 1 = k BY <1>1, <1>2
  <2> QED BY <1>1, <2>1
<1> QED BY <1>1, <1>2

LEMMA DownLengthens ==
  ASSUME QueuesOK, NEW m \in Downward, down' = Append(down, m)
  PROVE  /\ \A k \in DOMAIN down' :
              down'[k] = m \/ (k + 0 \in DOMAIN down /\ down'[k] = down[k + 0])
         /\ \A k \in DOMAIN down : k \in DOMAIN down' /\ down'[k] = down[k]
         /\ Len(down) \in Nat /\ Len(down') = Len(down) + 1
         /\ DOMAIN down = 1..Len(down) /\ DOMAIN down' = 1..Len(down')
         /\ Len(down') \in DOMAIN down' /\ down'[Len(down')] = m
<1>1. /\ Len(down) \in Nat /\ Len(down') = Len(down) + 1
      /\ DOMAIN down = 1..Len(down) /\ DOMAIN down' = 1..Len(down) + 1
      /\ \A i \in DOMAIN down : down'[i] = down[i]
      /\ down'[Len(down) + 1] = m
  BY Appended DEF QueuesOK
<1>2. \A k \in DOMAIN down' : k = Len(down) + 1 \/ (k + 0 \in DOMAIN down /\ k + 0 = k) BY <1>1
<1> QED BY <1>1, <1>2

LEMMA DownShrinks ==
  ASSUME QueuesOK, down # <<>>, down' = Tail(down)
  PROVE  /\ \A k \in DOMAIN down' : k + 1 \in DOMAIN down /\ down'[k] = down[k + 1]
         /\ \A k \in DOMAIN down : k = 1 \/ \E j \in DOMAIN down' : down'[j] = down[k]
         /\ 1 \in DOMAIN down /\ Len(down) \in Nat /\ Len(down') = Len(down) - 1
         /\ DOMAIN down = 1..Len(down) /\ DOMAIN down' = 1..Len(down) - 1
<1>1. /\ Len(down) \in Nat /\ Len(down') = Len(down) - 1 /\ 1 \in DOMAIN down
      /\ DOMAIN down = 1..Len(down) /\ DOMAIN down' = 1..Len(down) - 1
      /\ \A k \in DOMAIN down' : k + 1 \in DOMAIN down /\ down'[k] = down[k + 1]
  BY Tailed DEF QueuesOK
<1>2. ASSUME NEW k \in DOMAIN down, k # 1
      PROVE  \E j \in DOMAIN down' : down'[j] = down[k]
  <2>1. k - 1 \in DOMAIN down' /\ (k - 1) + 1 = k BY <1>1, <1>2
  <2> QED BY <1>1, <2>1
<1> QED BY <1>1, <1>2

LEMMA StaysOrder ==
  ASSUME LocalTypes, LocalTypes', IdsOK, OrderOK,
         \/ \E p \in Program : Return(p) \/ Kill(p) \/ \E type \in Request : Call(p, type)
         \/ ReqFetch \/ ReqReply \/ RespAnswer \/ RespDeliver
  PROVE  OrderOK'
<1>1. TableOK /\ OneEntryPerId /\ QueuesOK /\ QueuesOK' /\ ProgramsOK
  BY DEF LocalTypes, IdsOK
<1>2. /\ UNCHANGED <<up, down, table, grant, refused>>
      /\ rpc' = "answer" => rpc = "answer" /\ UNCHANGED rmsg
  BY DEF Return, Kill, Call, ReqFetch, ReqReply, RespAnswer, RespDeliver, serverPart, localPart
<1> QED BY <1>1, <1>2, OrderStays

LEMMA TranslateOrder ==
  ASSUME LocalTypes, LocalTypes', IdsOK, OrderOK, ReqTranslate
  PROVE  OrderOK'
<1>1. TableOK /\ OneEntryPerId /\ QueuesOK /\ QueuesOK' /\ ProgramsOK /\ ReqHandlerOK
  BY DEF LocalTypes, IdsOK
<1>2. /\ UNCHANGED <<down, table, grant, refused, rpc, rmsg>>
      /\ up' = Append(up, [qmsg EXCEPT !.mtype = GetGlobalId(table, @)])
  BY DEF ReqTranslate, serverPart
<1> DEFINE m == [qmsg EXCEPT !.mtype = GetGlobalId(table, @)]
<1>3. ~Created(m)
  <2>1. qmsg \in Asking /\ qmsg.type # "CREATE" BY <1>1 DEF ReqHandlerOK, ReqTranslate
  <2>2. m.type = qmsg.type BY <2>1 DEF Asking, Messages
  <2> QED BY <2>1, <2>2 DEF Created, Asking, Request
<1> HIDE DEF m
<1>4. up' = Append(up, m) BY <1>2 DEF m
<1>5. /\ DOMAIN up' = 1..Len(up) + 1 /\ DOMAIN up = 1..Len(up) /\ Len(up) \in Nat
      /\ \A k \in DOMAIN up : up'[k] = up[k]
      /\ up'[Len(up) + 1] = m
  <2>1. up \in Seq(Upward) /\ up' \in Seq(Upward) BY <1>1 DEF QueuesOK
  <2>2. /\ Len(up) \in Nat /\ DOMAIN up = 1..Len(up) BY <2>1, LenProperties
  <2> QED BY <1>4, <2>1, <2>2
<1>6. PICK d \in {0, 1} : d = 0 OBVIOUS
<1>7. \A k \in DOMAIN up' : \/ ~Created(up'[k])
                            \/ k + d \in DOMAIN up /\ up'[k] = up[k + d]
  <2>1. \A k \in DOMAIN up' : k = Len(up) + 1 \/ (k + 0 \in DOMAIN up /\ k + 0 = k) BY <1>5
  <2> QED BY <1>3, <1>5, <1>6, <2>1
<1>8. \A k \in DOMAIN up : \E j \in DOMAIN up' : up'[j] = up[k]
  <2>1. DOMAIN up \subseteq DOMAIN up' BY <1>5
  <2> QED BY <1>5, <2>1
<1>9. /\ \A k \in DOMAIN down' : k + d \in DOMAIN down /\ down'[k] = down[k + d]
      /\ \A k \in DOMAIN down : \E j \in DOMAIN down' : down'[j] = down[k]
  BY <1>1, <1>2, <1>6, QueueDomains
<1>10. /\ \A q, g : Has(q, g)' <=> Has(q, g)
       /\ \A q : Unnamed(q)' <=> Unnamed(q)
       /\ \A q, r : Before(q, r)' <=> Before(q, r)
  BY <1>2 DEF Unnamed, Has, Before, WithoutId
<1>11. refused = 0 /\ rpc' = "answer" => rmsg'.mtype = rmsg'.from BY <1>2 DEF OrderOK
<1> QED BY <1>1, <1>2, <1>7, <1>8, <1>9, <1>10, <1>11, OrderFrame

LEMMA ReqTakeOrder ==
  ASSUME LocalTypes, LocalTypes', RequestsOK, IdsOK, OrderOK, ReqTake
  PROVE  OrderOK'
<1> DEFINE m == Head(reqQ)
<1>1. TableOK /\ OneEntryPerId /\ QueuesOK /\ QueuesOK' /\ ProgramsOK
  BY DEF LocalTypes, IdsOK
<1>2. UNCHANGED <<down, rpc, rmsg, grant, refused>> BY DEF ReqTake, serverPart
<1>3. PICK p \in Program : p = m.mtype BY Asked
<1>4. /\ m \in Asking /\ m.from = p /\ ~Unnamed(p)
      /\ m.type = "CREATE" <=> ~Named(p)
  BY <1>3, Asked
<1>5. \/ /\ m.type = "CREATE" /\ HasRoom(table)
         /\ table' = AddLocalId(table, p)
         /\ up' = Append(up, m) /\ UNCHANGED sem
      \/ UNCHANGED <<table, up>>
  BY <1>3 DEF ReqTake
<1> HIDE DEF m
<1>6. CASE UNCHANGED <<table, up>> BY <1>1, <1>2, <1>6, OrderStays
<1>7. CASE /\ m.type = "CREATE" /\ HasRoom(table)
           /\ table' = AddLocalId(table, p)
           /\ up' = Append(up, m) /\ UNCHANGED sem
  <2>1. /\ \A q, h : Has(q, h)' <=> Has(q, h) \/ (q = p /\ h = NoId)
        /\ \A q, r : Before(q, r) => Before(q, r)'
        /\ \A q : Unnamed(q) => Before(q, p)'
    BY <1>1, <1>4, <1>7, TableGrows
  <2>2. m \in Upward BY <1>4, <1>7 DEF Asking, Upward
  <2>3. /\ \A k \in DOMAIN up' : up'[k] = m \/ (k \in DOMAIN up /\ up'[k] = up[k])
        /\ \A k \in DOMAIN up : k \in DOMAIN up' /\ up'[k] = up[k] /\ k < Len(up')
        /\ Len(up) \in Nat /\ Len(up') = Len(up) + 1
        /\ DOMAIN up = 1..Len(up) /\ DOMAIN up' = 1..Len(up')
        /\ \A k \in DOMAIN up' : k = Len(up') \/ k \in DOMAIN up
        /\ Len(up') \in DOMAIN up' /\ up'[Len(up')] = m
    <3>1. /\ \A k \in DOMAIN up' : up'[k] = m \/ (k + 0 \in DOMAIN up /\ up'[k] = up[k + 0])
          /\ \A k \in DOMAIN up : k \in DOMAIN up' /\ up'[k] = up[k]
          /\ Len(up) \in Nat /\ Len(up') = Len(up) + 1
          /\ DOMAIN up = 1..Len(up) /\ DOMAIN up' = 1..Len(up')
          /\ Len(up') \in DOMAIN up' /\ up'[Len(up')] = m
      BY <1>1, <1>7, <2>2, UpGrows
    <3>2. \A k \in DOMAIN up' : k + 0 = k BY <3>1
    <3> QED BY <3>1, <3>2
  <2>4. (Unnamed(p) /\ \A q : Unnamed(q) <=> q = p \/ Unnamed(q))' BY <2>1 DEF Unnamed
  <2>5. \A q : Unnamed(q)' <=> Unnamed(q) \/ q = p BY <2>1 DEF Unnamed
  <2> SUFFICES ASSUME refused' = 0 PROVE OrderOK' BY DEF OrderOK
  <2>6. refused = 0 BY <1>2
  <2>7. ASSUME NEW k \in DOMAIN down', Created(down'[k])
        PROVE  (/\ Unnamed(down[k].from)
                /\ <<down[k].mtype, down[k].from>> \in grant
                /\ \A j \in k + 1..Len(down) : Created(down[j]) =>
                     Before(down[k].from, down[j].from)
                /\ \A j \in DOMAIN up : Created(up[j]) =>
                     Before(down[k].from, up[j].from))'
    <3>1. PICK q : q = down[k].from OBVIOUS
    <3>2. /\ Unnamed(q) /\ <<down[k].mtype, q>> \in grant
          /\ \A j \in k + 1..Len(down) : Created(down[j]) => Before(q, down[j].from)
          /\ \A j \in DOMAIN up : Created(up[j]) => Before(q, up[j].from)
      BY <1>2, <2>6, <2>7, <3>1 DEF OrderOK
    <3>3. ASSUME NEW j \in k + 1..Len(down), Created(down[j])
          PROVE  Before(q, down[j].from)'
      <4>1. PICK r : r = down[j].from OBVIOUS
      <4> QED BY <1>2, <2>1, <3>2, <3>3, <4>1
    <3>4. ASSUME NEW j \in DOMAIN up', Created(up'[j])
          PROVE  Before(q, up[j].from)'
      <4>1. PICK r : r = up'[j].from OBVIOUS
      <4>2. CASE up'[j] = m BY <1>4, <2>1, <3>2, <4>1, <4>2
      <4>3. CASE j \in DOMAIN up /\ up'[j] = up[j] BY <2>1, <3>2, <3>4, <4>1, <4>3
      <4> QED BY <2>3, <4>2, <4>3
    <3> QED BY <1>2, <2>5, <3>1, <3>2, <3>3, <3>4
  <2>8. ASSUME NEW k \in DOMAIN up', Created(up'[k])
        PROVE  (/\ Unnamed(up[k].from)
                /\ \A j \in k + 1..Len(up) : Created(up[j]) => Before(up[k].from, up[j].from))'
    <3>1. CASE k = Len(up')
      <4>1. up'[k].from = p BY <1>4, <2>3, <3>1
      <4>2. k + 1..Len(up') = {} BY <2>3, <3>1
      <4> QED BY <2>4, <4>1, <4>2
    <3>2. CASE k \in DOMAIN up
      <4>1. PICK q : q = up[k].from OBVIOUS
      <4>2. up'[k].from = q /\ Created(up[k]) BY <2>3, <2>8, <3>2, <4>1
      <4>3. /\ Unnamed(q)
            /\ \A j \in k + 1..Len(up) : Created(up[j]) => Before(q, up[j].from)
        BY <2>6, <3>2, <4>1, <4>2 DEF OrderOK
      <4>4. ASSUME NEW j \in k + 1..Len(up'), Created(up'[j])
            PROVE  Before(q, up[j].from)'
        <5>1. PICK r : r = up'[j].from OBVIOUS
        <5>2. j \in DOMAIN up' BY <2>3, <3>2, <4>4
        <5>3. CASE j = Len(up') BY <1>4, <2>1, <2>3, <4>3, <5>1, <5>3
        <5>4. CASE j \in DOMAIN up
          <6>1. j \in k + 1..Len(up) /\ up'[j] = up[j] BY <2>3, <3>2, <4>4, <5>4
          <6> QED BY <2>1, <4>3, <4>4, <5>1, <6>1
        <5> QED BY <2>3, <5>2, <5>3, <5>4
      <4> QED BY <2>5, <4>2, <4>3, <4>4
    <3> QED BY <2>3, <3>1, <3>2
  <2>9. ASSUME NEW q \in Program, Unnamed(q)'
        PROVE  (\/ \E i \in DOMAIN down : Created(down[i]) /\ down[i].from = q
                \/ \E i \in DOMAIN up : Created(up[i]) /\ up[i].from = q)'
    <3>1. CASE q = p
      <4>1. Created(m) BY <1>7 DEF Created
      <4> QED BY <1>4, <2>3, <3>1, <4>1 DEF Created
    <3>2. CASE Unnamed(q)
      <4>1. \/ \E i \in DOMAIN down : Created(down[i]) /\ down[i].from = q
            \/ \E i \in DOMAIN up : Created(up[i]) /\ up[i].from = q
        BY <2>6, <3>2 DEF OrderOK
      <4> QED BY <1>2, <2>3, <4>1 DEF Created
    <3> QED BY <2>5, <2>9, <3>1, <3>2
  <2>10. \A k \in DOMAIN down' : down'[k].type # "ACK_ERROR" BY <1>2, <2>6 DEF OrderOK
  <2>11. rpc' = "answer" => rmsg'.mtype = rmsg'.from BY <1>2, <2>6 DEF OrderOK
  <2>12. \A q \in Program, g \in GlobalId : Has(q, g)' => <<g, q>> \in grant'
    BY <1>2, <2>1, <2>6, Constants DEF OrderOK
  <2> QED BY <2>7, <2>8, <2>9, <2>10, <2>11, <2>12 DEF OrderOK, Created
<1> QED BY <1>5, <1>6, <1>7

LEMMA RespTakeOrder ==
  ASSUME LocalTypes, LocalTypes', RequestsOK, IdsOK, SubsOK, OrderOK, RespTake
  PROVE  OrderOK'
<1> DEFINE m == Head(down)
           i == EntryToFill(table)
           to(x) == [m EXCEPT !.mtype = x]
<1>1. /\ TableOK /\ OneEntryPerId /\ QueuesOK /\ QueuesOK' /\ ProgramsOK
      /\ UNCHANGED <<up, sem, grant, refused>>
      /\ down # <<>> /\ down' = Tail(down)
  BY DEF LocalTypes, IdsOK, RespTake, serverPart
<1> SUFFICES ASSUME refused = 0 PROVE OrderOK' BY <1>1 DEF OrderOK
<1>2. /\ m \in Downward /\ down[1] = m /\ 1 \in DOMAIN down
      /\ New(m) => \A p \in Program : ~Has(p, m.mtype)
  BY Received
<1>3. m.type # "ACK_ERROR" BY <1>2 DEF OrderOK
<1>4. \/ m.type = "ACK_CREATE" /\ \A p \in Program : ~Unnamed(p)
      \/ /\ m.type = "ACK_CREATE" /\ i \in DOMAIN table /\ table[i].global_id = NoId
         /\ \A j \in DOMAIN table : table[j].global_id = NoId => i <= j
         /\ table' = [table EXCEPT ![i].global_id = m.mtype]
         /\ rmsg' = to(table[i].local_id)
      \/ /\ m.type \in {"ACK_OK", "ACK_DESTROY", "PUBLISH"} /\ UNCHANGED table
         /\ rmsg' = to(m.from)
  BY <1>3, RespTakes
<1>5. m.from \in Program /\ \A x \in Who : to(x).mtype = x /\ to(x).from = m.from
  BY <1>2 DEF Downward, Messages
<1>6. /\ \A k \in DOMAIN down' : k + 1 \in DOMAIN down /\ down'[k] = down[k + 1]
      /\ \A k \in DOMAIN down : k = 1 \/ \E j \in DOMAIN down' : down'[j] = down[k]
      /\ Len(down) \in Nat /\ DOMAIN down = 1..Len(down) /\ DOMAIN down' = 1..Len(down) - 1
  BY <1>1, DownShrinks
<1>7. PICK d \in {0, 1}, e \in {0, 1} : d = 1 /\ e = 0 OBVIOUS
<1>8. /\ \A k \in DOMAIN down' : k + d \in DOMAIN down /\ down'[k] = down[k + d]
      /\ \A k \in DOMAIN up' : k + e \in DOMAIN up /\ up'[k] = up[k + e]
      /\ \A k \in DOMAIN up : \E j \in DOMAIN up' : up'[j] = up[k]
  BY <1>1, <1>6, <1>7, QueueDomains
<1> HIDE DEF m, i, to
<1>9. CASE m.type = "ACK_CREATE"
  <2>1. Created(down[1]) BY <1>2, <1>9 DEF Created
  <2>2. PICK p \in Program : p = m.from BY <1>5
  <2>3. /\ Unnamed(p) /\ <<m.mtype, p>> \in grant
        /\ \A j \in 1 + 1..Len(down) : Created(down[j]) => Before(p, down[j].from)
        /\ \A j \in DOMAIN up : Created(up[j]) => Before(p, up[j].from)
    BY <1>2, <2>1, <2>2 DEF OrderOK
  <2>4. \A k \in DOMAIN down : Created(down[k]) /\ k # 1 => Before(p, down[k].from)
    <3>1. \A k \in DOMAIN down : k # 1 => k \in 1 + 1..Len(down) BY <1>6
    <3> QED BY <2>3, <3>1
  <2>5. \A q \in Program : Unnamed(q) /\ q # p => Before(p, q)
    BY <1>2, <2>2, <2>3, <2>4 DEF OrderOK
  <2>6. /\ i \in DOMAIN table /\ table[i].global_id = NoId
        /\ \A j \in DOMAIN table : table[j].global_id = NoId => i <= j
        /\ table' = [table EXCEPT ![i].global_id = m.mtype]
        /\ rmsg' = to(table[i].local_id)
    BY <1>4, <1>9, <2>3
  <2>7. table[i].local_id = p
    <3> SUFFICES ASSUME table[i].local_id # p PROVE FALSE OBVIOUS
    <3>1. PICK q \in Program : q = table[i].local_id BY <1>1, <2>6, TableDomain
    <3>2. Unnamed(q) BY <2>6, <3>1 DEF Unnamed, Has
    <3>3. Before(p, q) BY <2>5, <3>1, <3>2
    <3>4. PICK a, b \in DOMAIN table : a < b /\ WithoutId(a, p) /\ WithoutId(b, q)
      BY <3>3 DEF Before
    <3>5. b = i BY <1>1, <2>6, <3>1, <3>4 DEF WithoutId, OneEntryPerId
    <3>6. i <= a BY <2>6, <3>4 DEF WithoutId
    <3>7. a \in Nat /\ i \in Nat BY <1>1, <2>6, TableDomain
    <3> QED BY <3>4, <3>5, <3>6, <3>7
  <2>8. /\ \A q, h : Has(q, h)' <=> IF q = p THEN h = m.mtype ELSE Has(q, h)
        /\ \A q, r : Before(q, r) /\ q # p /\ r # p => Before(q, r)'
    <3>1. m.mtype \in GlobalId /\ \A q \in Program : ~Has(q, m.mtype)
      BY <1>2, <1>9 DEF Downward, New
    <3> QED BY <1>1, <2>6, <2>7, <3>1, TableFills
  <2>9. \A q : Unnamed(q)' <=> Unnamed(q) /\ q # p
    <3>1. m.mtype # NoId BY <1>2, Constants DEF Downward
    <3> QED BY <2>8, <3>1 DEF Unnamed
  <2>10. /\ \A k \in DOMAIN down' : Created(down'[k]) => down'[k].from # p
         /\ \A k \in DOMAIN up' : Created(up'[k]) => up'[k].from # p
    <3>1. \A k \in DOMAIN down' : k + 1 # 1 BY <1>6
    <3>2. \A k \in DOMAIN down' : Created(down'[k]) => Before(p, down'[k].from)
      BY <1>6, <2>4, <3>1
    <3>3. \A k \in DOMAIN up' : Created(up'[k]) => Before(p, up'[k].from)
      BY <1>1, <2>3
    <3> QED BY <1>1, <3>2, <3>3, BeforeMeans
  <2>11. \A k \in DOMAIN down : Created(down[k]) /\ down[k].from # p =>
           \E j \in DOMAIN down' : down'[j] = down[k]
    BY <1>2, <1>6, <2>2
  <2>12. rmsg'.mtype = rmsg'.from BY <1>5, <2>2, <2>6, <2>7 DEF Who
  <2>13. \A q \in Program, g \in GlobalId : Has(q, g)' => <<g, q>> \in grant
    BY <2>3, <2>8 DEF OrderOK
  <2>14. QueuesMove(d, e) BY <1>8 DEF QueuesMove
  <2>15. OnlyLeaves(p) BY <1>8, <2>10, <2>11 DEF OnlyLeaves
  <2>16. OnlyNamed(p) BY <2>8, <2>9 DEF OnlyNamed
  <2>17. AsGranted BY <2>12, <2>13 DEF AsGranted
  <2>18. ProgramsOK /\ QueuesOK /\ QueuesOK' /\ UNCHANGED <<grant, refused>> BY <1>1
  <2> QED BY <2>14, <2>15, <2>16, <2>17, <2>18, OrderKept
<1>10. CASE m.type # "ACK_CREATE"
  <2>1. /\ m.type \in {"ACK_OK", "ACK_DESTROY", "PUBLISH"} /\ UNCHANGED table
        /\ rmsg'.mtype = rmsg'.from
    BY <1>4, <1>5, <1>10 DEF Who
  <2>2. \A k \in DOMAIN down : Created(down[k]) => \E j \in DOMAIN down' : down'[j] = down[k]
    BY <1>2, <1>6, <2>1 DEF Created
  <2>3. /\ \A q, g : Has(q, g)' <=> Has(q, g)
        /\ \A q : Unnamed(q)' <=> Unnamed(q)
        /\ \A q, r : Before(q, r)' <=> Before(q, r)
    BY <2>1 DEF Unnamed, Has, Before, WithoutId
  <2> QED BY <1>1, <1>8, <2>1, <2>2, <2>3, OrderFrame
<1> QED BY <1>9, <1>10

LEMMA RespRemoveOrder ==
  ASSUME LocalTypes, LocalTypes', RequestsOK, IdsOK, OrderOK, RespRemove
  PROVE  OrderOK'
<1>1. /\ TableOK /\ OneEntryPerId /\ QueuesOK /\ QueuesOK' /\ ProgramsOK /\ RespHandlerOK
      /\ UNCHANGED <<up, down, sem, grant, refused, rmsg>>
      /\ rpc = "remove" /\ table' = RemoveId(table, rmsg.mtype)
  BY DEF LocalTypes, IdsOK, RespRemove, serverPart
<1>2. PICK p \in Program : p = rmsg.mtype BY <1>1, Constants DEF RespHandlerOK
<1>3. Named(p) BY <1>1, <1>2 DEF RequestsOK, RequestOK, CallOK
<1>4. /\ \A q, h : Has(q, h)' <=> Has(q, h) /\ q # p
      /\ \A q, r : Before(q, r) /\ q # p /\ r # p => Before(q, r)'
  BY <1>1, <1>2, <1>3, TableShrinks
<1>5. ~Unnamed(p) BY <1>1, <1>3, Holders
<1>6. \A q : Unnamed(q)' <=> Unnamed(q) BY <1>4, <1>5 DEF Unnamed
<1>7. \A q, r : Before(q, r) => Before(q, r)' BY <1>1, <1>4, <1>5, BeforeMeans
<1>8. rmsg'.mtype = rmsg'.from BY <1>1, <1>2 DEF RespHandlerOK
<1>9. PICK d \in {0, 1} : d = 0 OBVIOUS
<1>10. /\ \A k \in DOMAIN down' : k + d \in DOMAIN down /\ down'[k] = down[k + d]
       /\ \A k \in DOMAIN up' : k + d \in DOMAIN up /\ up'[k] = up[k + d]
  BY <1>1, <1>9, QueueDomains
<1>11. /\ \A k \in DOMAIN down : \E j \in DOMAIN down' : down'[j] = down[k]
       /\ \A k \in DOMAIN up : \E j \in DOMAIN up' : up'[j] = up[k]
  BY <1>1
<1> QED BY <1>1, <1>4, <1>6, <1>7, <1>8, <1>10, <1>11, OrderFrame

LEMMA PublishOrder ==
  ASSUME LocalTypes, LocalTypes', IdsOK, OrderOK, ServerPublish
  PROVE  OrderOK'
<1>1. /\ TableOK /\ OneEntryPerId /\ QueuesOK /\ QueuesOK' /\ ProgramsOK /\ ServerOK
      /\ UNCHANGED <<up, table, rpc, rmsg, grant, refused>>
  BY DEF LocalTypes, IdsOK, ServerPublish, localPart
<1>2. PICK s \in server.subs : down' = Append(down, Msg(s[1], "PUBLISH", s[2], pubs + 1))
  BY DEF ServerPublish
<1> DEFINE a == Msg(s[1], "PUBLISH", s[2], pubs + 1)
<1>3. a \in Downward /\ a.type = "PUBLISH"
  <2>1. s[1] \in GlobalId /\ s[2] \in Program BY <1>1 DEF ServerOK
  <2>2. pubs + 1 \in Nat /\ pubs + 1 # 0 BY <1>1 DEF ProgramsOK
  <2> QED BY <2>1, <2>2 DEF Msg, Downward, Messages, MsgTypes, Who, Request
<1> HIDE DEF a
<1>4. down' = Append(down, a) BY <1>2 DEF a
<1>5. /\ \A k \in DOMAIN down' :
           down'[k] = a \/ (k + 0 \in DOMAIN down /\ down'[k] = down[k + 0])
      /\ \A k \in DOMAIN down : k \in DOMAIN down' /\ down'[k] = down[k]
  BY <1>1, <1>3, <1>4, DownLengthens
<1>6. PICK d \in {0, 1} : d = 0 OBVIOUS
<1>7. \A k \in DOMAIN down' : \/ ~Created(down'[k]) /\ down'[k].type # "ACK_ERROR"
                              \/ k + d \in DOMAIN down /\ down'[k] = down[k + d]
  BY <1>3, <1>5, <1>6 DEF Created
<1>8. /\ \A k \in DOMAIN up' : k + d \in DOMAIN up /\ up'[k] = up[k + d]
      /\ \A k \in DOMAIN up : \E j \in DOMAIN up' : up'[j] = up[k]
      /\ \A k \in DOMAIN down : \E j \in DOMAIN down' : down'[j] = down[k]
  BY <1>1, <1>5, <1>6, QueueDomains
<1>9. /\ \A q, g : Has(q, g)' <=> Has(q, g)
      /\ \A q : Unnamed(q)' <=> Unnamed(q)
      /\ \A q, r : Before(q, r)' <=> Before(q, r)
  BY <1>1 DEF Unnamed, Has, Before, WithoutId
<1>10. refused = 0 /\ rpc' = "answer" => rmsg'.mtype = rmsg'.from BY <1>1 DEF OrderOK
<1> QED BY <1>1, <1>7, <1>8, <1>9, <1>10, OrderFrame

LEMMA ServerOrder ==
  ASSUME LocalTypes, LocalTypes', IdsOK, OrderOK, ServerStep
  PROVE  OrderOK'
<1> DEFINE m == Head(up)
<1>1. /\ TableOK /\ OneEntryPerId /\ QueuesOK /\ QueuesOK' /\ ProgramsOK
      /\ UNCHANGED <<table, rpc, rmsg>>
  BY DEF LocalTypes, IdsOK, ServerStep, localPart
<1>2. PICK p \in Program, g \in GlobalId, t \in {"ACK_CREATE", "ACK_ERROR", "ACK_OK", "ACK_DESTROY"} :
        /\ down' = Append(down, Msg(g, t, p, 0)) /\ Msg(g, t, p, 0) \in Downward
        /\ m.from = p /\ m = up[1] /\ m \in Upward /\ up # <<>> /\ up' = Tail(up)
        /\ Served(m, p, g, t)
  BY ServerAnswers
<1> DEFINE a == Msg(g, t, p, 0)
<1>3. a.type = t /\ a.mtype = g /\ a.from = p /\ a \in Downward /\ down' = Append(down, a)
  BY <1>2 DEF Msg
<1> HIDE DEF a, m
<1>4. /\ \A k \in DOMAIN up' : k + 1 \in DOMAIN up /\ up'[k] = up[k + 1]
      /\ \A k \in DOMAIN up : k = 1 \/ \E j \in DOMAIN up' : up'[j] = up[k]
      /\ 1 \in DOMAIN up /\ Len(up) \in Nat /\ Len(up') = Len(up) - 1
      /\ DOMAIN up = 1..Len(up) /\ DOMAIN up' = 1..Len(up) - 1
  BY <1>1, <1>2, UpShrinks
<1>5. /\ \A k \in DOMAIN down' :
           down'[k] = a \/ (k + 0 \in DOMAIN down /\ down'[k] = down[k + 0])
      /\ \A k \in DOMAIN down : k \in DOMAIN down' /\ down'[k] = down[k]
      /\ Len(down) \in Nat /\ Len(down') = Len(down) + 1
      /\ DOMAIN down = 1..Len(down) /\ DOMAIN down' = 1..Len(down')
      /\ Len(down') \in DOMAIN down' /\ down'[Len(down')] = a
  BY <1>1, <1>3, DownLengthens
<1>6. /\ \A q, h : Has(q, h)' <=> Has(q, h)
      /\ \A q : Unnamed(q)' <=> Unnamed(q)
      /\ \A q, r : Before(q, r)' <=> Before(q, r)
  BY <1>1 DEF Unnamed, Has, Before, WithoutId
<1>7. refused = 0 /\ rpc' = "answer" => rmsg'.mtype = rmsg'.from BY <1>1 DEF OrderOK
<1>8. CASE t \in {"ACK_OK", "ACK_DESTROY"}
  <2>1. m.type \in {"SUBSCRIBE", "PUBLISH", "DESTROY"} /\ UNCHANGED <<grant, refused>>
    BY <1>2, <1>8 DEF Served
  <2>2. PICK d \in {0, 1}, e \in {0, 1} : d = 0 /\ e = 1 OBVIOUS
  <2>3. \A k \in DOMAIN down' : \/ ~Created(down'[k]) /\ down'[k].type # "ACK_ERROR"
                                \/ k + d \in DOMAIN down /\ down'[k] = down[k + d]
    BY <1>3, <1>5, <1>8, <2>2 DEF Created
  <2>4. \A k \in DOMAIN up' : k + e \in DOMAIN up /\ up'[k] = up[k + e] BY <1>4, <2>2
  <2>5. \A k \in DOMAIN up : Created(up[k]) => \E j \in DOMAIN up' : up'[j] = up[k]
    BY <1>2, <1>4, <2>1 DEF Created
  <2>6. \A k \in DOMAIN down : \E j \in DOMAIN down' : down'[j] = down[k] BY <1>5
  <2> QED BY <1>1, <1>6, <1>7, <2>1, <2>3, <2>4, <2>5, <2>6, OrderFrame
<1>9. CASE t = "ACK_ERROR"
  <2>1. refused' = refused + 1 /\ refused \in Nat BY <1>1, <1>2, <1>9 DEF Served, ProgramsOK
  <2>2. refused' # 0 BY <2>1
  <2> QED BY <2>2 DEF OrderOK
<1>10. CASE t = "ACK_CREATE"
  <2>1. m.type = "CREATE" /\ grant' = grant \cup {<<g, p>>} /\ UNCHANGED refused
    BY <1>2, <1>10 DEF Served
  <2> SUFFICES ASSUME refused = 0 PROVE OrderOK' BY <2>1 DEF OrderOK
  <2>2. /\ Unnamed(p)
        /\ \A j \in 1 + 1..Len(up) : Created(up[j]) => Before(p, up[j].from)
    BY <1>2, <1>4, <2>1 DEF OrderOK, Created
  <2>3. \A j \in DOMAIN up' : j + 1 \in 1 + 1..Len(up) BY <1>4
  <2>4. \A j \in DOMAIN up' : Created(up'[j]) => Before(p, up'[j].from) BY <1>4, <2>2, <2>3
  <2>5. \A k \in DOMAIN down' : k = Len(down') \/ (k \in DOMAIN down /\ down'[k] = down[k])
    BY <1>5
  <2>6. ASSUME NEW k \in DOMAIN down', Created(down'[k])
        PROVE  (/\ Unnamed(down[k].from)
                /\ <<down[k].mtype, down[k].from>> \in grant
                /\ \A j \in k + 1..Len(down) : Created(down[j]) =>
                     Before(down[k].from, down[j].from)
                /\ \A j \in DOMAIN up : Created(up[j]) =>
                     Before(down[k].from, up[j].from))'
    <3>1. CASE k = Len(down')
      <4>1. down'[k].from = p /\ down'[k].mtype = g BY <1>3, <1>5, <3>1
      <4>2. k + 1..Len(down') = {} BY <1>5, <3>1
      <4>3. ASSUME NEW j \in DOMAIN up', Created(up'[j])
            PROVE  Before(p, up[j].from)'
        <5>1. PICK r : r = up'[j].from OBVIOUS
        <5> QED BY <1>6, <2>4, <4>3, <5>1
      <4> QED BY <1>6, <2>1, <2>2, <4>1, <4>2, <4>3
    <3>2. CASE k \in DOMAIN down /\ down'[k] = down[k]
      <4>1. PICK q : q = down[k].from OBVIOUS
      <4>2. /\ Unnamed(q) /\ <<down[k].mtype, q>> \in grant
            /\ \A j \in k + 1..Len(down) : Created(down[j]) => Before(q, down[j].from)
            /\ \A j \in DOMAIN up : Created(up[j]) => Before(q, up[j].from)
        BY <2>6, <3>2, <4>1 DEF OrderOK
      <4>3. Before(q, p) BY <1>2, <1>4, <2>1, <4>2 DEF Created
      <4>4. ASSUME NEW j \in k + 1..Len(down'), Created(down'[j])
            PROVE  Before(q, down[j].from)'
        <5>1. PICK r : r = down'[j].from OBVIOUS
        <5>2. j \in DOMAIN down' BY <1>5, <3>2, <4>4
        <5>3. CASE j = Len(down') BY <1>3, <1>5, <1>6, <4>3, <5>1, <5>3
        <5>4. CASE j \in DOMAIN down /\ down'[j] = down[j]
          <6>1. j \in k + 1..Len(down) BY <1>5, <3>2, <4>4, <5>4
          <6> QED BY <1>6, <4>2, <4>4, <5>1, <5>4, <6>1
        <5> QED BY <2>5, <5>2, <5>3, <5>4
      <4>5. ASSUME NEW j \in DOMAIN up', Created(up'[j])
            PROVE  Before(q, up[j].from)'
        <5>1. PICK r : r = up'[j].from OBVIOUS
        <5>2. Before(q, r) BY <1>4, <4>2, <4>5, <5>1
        <5> QED BY <1>6, <5>1, <5>2
      <4> QED BY <1>6, <2>1, <3>2, <4>1, <4>2, <4>4, <4>5
    <3> QED BY <2>5, <3>1, <3>2
  <2>7. ASSUME NEW k \in DOMAIN up', Created(up'[k])
        PROVE  (/\ Unnamed(up[k].from)
                /\ \A j \in k + 1..Len(up) : Created(up[j]) => Before(up[k].from, up[j].from))'
    <3>1. PICK q : q = up'[k].from OBVIOUS
    <3>2. k + 1 \in DOMAIN up /\ up'[k] = up[k + 1] BY <1>4
    <3>3. /\ Unnamed(q)
          /\ \A j \in k + 1 + 1..Len(up) : Created(up[j]) => Before(q, up[j].from)
      BY <2>7, <3>1, <3>2 DEF OrderOK
    <3>4. ASSUME NEW j \in k + 1..Len(up'), Created(up'[j])
          PROVE  Before(q, up[j].from)'
      <4>1. PICK r : r = up'[j].from OBVIOUS
      <4>2. j \in DOMAIN up' /\ j + 1 \in k + 1 + 1..Len(up) BY <1>4, <3>4
      <4>3. Before(q, r) BY <1>4, <3>3, <3>4, <4>1, <4>2
      <4> QED BY <1>6, <4>1, <4>3
    <3> QED BY <1>6, <3>1, <3>3, <3>4
  <2>8. ASSUME NEW q \in Program, Unnamed(q)'
        PROVE  (\/ \E i \in DOMAIN down : Created(down[i]) /\ down[i].from = q
                \/ \E i \in DOMAIN up : Created(up[i]) /\ up[i].from = q)'
    <3>1. \/ \E i \in DOMAIN down : Created(down[i]) /\ down[i].from = q
          \/ \E i \in DOMAIN up : Created(up[i]) /\ up[i].from = q
      BY <1>6, <2>8 DEF OrderOK
    <3>2. CASE \E i \in DOMAIN down : Created(down[i]) /\ down[i].from = q
      BY <1>5, <3>2 DEF Created
    <3>3. CASE \E i \in DOMAIN up : Created(up[i]) /\ up[i].from = q
      <4>1. PICK i \in DOMAIN up : Created(up[i]) /\ up[i].from = q BY <3>3
      <4>2. CASE i = 1
        <5>1. q = p /\ Created(a) BY <1>2, <1>3, <1>10, <4>1, <4>2 DEF Created
        <5> QED BY <1>3, <1>5, <5>1 DEF Created
      <4>3. CASE i # 1 BY <1>4, <4>1, <4>3 DEF Created
      <4> QED BY <4>2, <4>3
    <3> QED BY <3>1, <3>2, <3>3
  <2>9. \A k \in DOMAIN down' : down'[k].type # "ACK_ERROR"
    BY <1>3, <1>5, <1>10, <2>5 DEF OrderOK
  <2>10. rpc' = "answer" => rmsg'.mtype = rmsg'.from BY <1>7
  <2>11. \A q \in Program, h \in GlobalId : Has(q, h)' => <<h, q>> \in grant'
    BY <1>6, <2>1 DEF OrderOK
  <2> QED BY <2>6, <2>7, <2>8, <2>9, <2>10, <2>11 DEF OrderOK, Created
<1> QED BY <1>8, <1>9, <1>10

-----------------------------------------------------------------------------
(* The theorems.                                                           *)

LEMMA LocalInvInit == Init => LocalInv
<1> SUFFICES ASSUME Init PROVE LocalInv OBVIOUS
<1>1. /\ table = <<>> /\ reqQ = <<>> /\ up = <<>> /\ down = <<>>
      /\ \A p \in Program : respQ[p] = <<>>
      /\ DOMAIN table = {} /\ DOMAIN reqQ = {} /\ DOMAIN up = {} /\ DOMAIN down = {}
  BY DEF Init
<1>2. \A p, g : ~Has(p, g) BY <1>1 DEF Has
<1>3. LocalTypes
  <2>1. QueuesOK BY DEF Init, QueuesOK
  <2>2. ReqHandlerOK /\ RespHandlerOK
    BY DEF Init, ReqHandlerOK, RespHandlerOK, Empty, Msg, Messages, MsgTypes, Who
  <2>3. ProgramsOK BY DEF Init, ProgramsOK
  <2>4. TableOK BY Constants DEF Init, TableOK
  <2>5. ServerOK BY DEF Init, ServerOK
  <2> QED BY <2>1, <2>2, <2>3, <2>4, <2>5 DEF LocalTypes
<1>4. RequestsOK
  <2> SUFFICES ASSUME NEW p \in Program PROVE RequestOK(p) BY DEF RequestsOK
  <2>1. /\ ~InReqQ(p) /\ ~InHandler(p) /\ ~Unnamed(p) /\ ~InUp(p) /\ ~InDown(p)
        /\ ~InResp(p) /\ ~Answered(p) /\ ~Named(p)
    BY <1>1, <1>2 DEF Init, InReqQ, InHandler, Unnamed, InUp, InDown, InResp, Answered, Named
  <2>2. OnePlace(p) BY <2>1 DEF OnePlace
  <2>3. OneInQueue(p) BY <1>1 DEF OneInQueue
  <2>4. CallOK(p) BY <1>1, <2>1, NoAnswer DEF Init, CallOK
  <2>5. MadeOK(p) BY <2>1 DEF Init, MadeOK, Request
  <2> QED BY <2>2, <2>3, <2>4, <2>5 DEF RequestOK
<1>5. IdsOK BY <1>1, <1>2 DEF IdsOK, OneEntryPerId
<1>6. SubsOK BY <1>1 DEF Init, SubsOK
<1>7. OrderOK BY <1>1, <1>2 DEF Init, OrderOK, Unnamed
<1> QED BY <1>3, <1>4, <1>5, <1>6, <1>7 DEF LocalInv

LEMMA LocalInvNext == LocalInv /\ [Next]_vars => LocalInv'
<1> SUFFICES ASSUME LocalInv, [Next]_vars PROVE LocalInv' OBVIOUS
<1> USE DEF LocalInv
<1>0. OneEntryPerId BY DEF IdsOK
<1>1. ASSUME NEW p \in Program, Return(p) PROVE LocalInv'
  BY <1>1, ReturnTypes, ReturnRequests, OtherIds, StaysOrder
<1>2. ASSUME NEW p \in Program, Kill(p) PROVE LocalInv'
  BY <1>2, KillTypes, KillRequests, OtherIds, StaysOrder
<1>3. ASSUME NEW p \in Program, NEW type \in Request, Call(p, type) PROVE LocalInv'
  BY <1>3, CallTypes, CallRequests, OtherIds, StaysOrder
<1>4. CASE ReqTake
  BY <1>0, <1>4, ReqTakeTypes, ReqTakeRequests, OtherIds, ReqTakeOrder
<1>5. CASE ReqTranslate
  BY <1>0, <1>5, ReqTranslateTypes, ReqTranslateRequests, OtherIds, TranslateOrder
<1>6. CASE ReqFetch BY <1>6, ReqFetchTypes, ReqFetchRequests, OtherIds, StaysOrder
<1>7. CASE ReqReply BY <1>7, ReqReplyTypes, ReqReplyRequests, OtherIds, StaysOrder
<1>8. CASE RespTake BY <1>8, RespTakeTypes, RespTakeRequests, TakeIds, RespTakeOrder
<1>9. CASE RespRemove
  BY <1>0, <1>9, RespRemoveTypes, RespRemoveRequests, RemoveIds, RespRemoveOrder
<1>10. CASE RespAnswer BY <1>10, RespAnswerTypes, RespAnswerRequests, OtherIds, StaysOrder
<1>11. CASE RespDeliver BY <1>11, RespDeliverTypes, RespDeliverRequests, OtherIds, StaysOrder
<1>12. CASE ServerStep BY <1>12, ServerTypes, ServerRequests, ServerIds, ServerOrder
<1>13. CASE ServerPublish BY <1>13, ServerTypes, PublishRequests, PublishIds, PublishOrder
<1>14. CASE UNCHANGED vars
  <2> USE <1>14 DEF vars, localPart, programPart, serverPart
  <2>1. LocalTypes'
    BY DEF LocalTypes, QueuesOK, ReqHandlerOK, RespHandlerOK, ProgramsOK, TableOK, ServerOK
  <2>2. /\ \A p, g : Has(p, g)' <=> Has(p, g)
        /\ \A p, q : Before(p, q)' <=> Before(p, q)
        /\ \A g, j : Destroyed(g, j)' <=> Destroyed(g, j)
    BY DEF Has, Before, WithoutId, Destroyed
  <2>3. RequestsOK'
    <3>1. QueuesOK /\ QueuesOK' BY <2>1 DEF LocalTypes
    <3>2. \A q : FewerReq(q) /\ FewerUp(q) /\ FewerDown(q) BY <3>1, Unmoved
    <3> QED BY <2>2, <3>1, <3>2, OtherKept DEF RequestsOK
  <2>4. IdsOK' /\ SubsOK'
    <3>1. OneEntryPerId' /\ ServerOK /\ QueuesOK BY <1>0 DEF OneEntryPerId, LocalTypes
    <3>2. \A g : Removing(g)' <=> Removing(g) BY DEF Removing, Has
    <3>3. \A i \in DOMAIN down : down[i].mtype \in GlobalId BY <3>1, QueueDomains DEF Downward
    <3> QED BY <2>2, <3>1, <3>2, <3>3, IdsFrame
  <2>5. OrderOK'
    <3>1. TableOK /\ OneEntryPerId /\ ProgramsOK /\ QueuesOK /\ QueuesOK'
      BY <1>0, <2>1 DEF LocalTypes
    <3> QED BY <3>1, OrderStays
  <2> QED BY <2>1, <2>3, <2>4, <2>5
<1> QED
  BY <1>1, <1>2, <1>3, <1>4, <1>5, <1>6, <1>7, <1>8, <1>9, <1>10, <1>11, <1>12, <1>13, <1>14
  DEF Next, ReqHandler, RespHandler

\* The inductive invariant behind the theorems below.
THEOREM LocalInvariant == Spec => []LocalInv
BY LocalInvInit, LocalInvNext, PTL DEF Spec

\* The variables have their types; in particular the table never holds more
\* than MAX_LOCAL_CLIENTS entries (broker_handler.h).
THEOREM LocalTypesCorrect == Spec => []TypeOK
<1>1. LocalInv => TypeOK
  <2> SUFFICES ASSUME LocalInv PROVE TypeOK OBVIOUS
  <2>1. QueuesOK /\ ReqHandlerOK /\ RespHandlerOK /\ ProgramsOK /\ TableOK /\ ServerOK
    BY DEF LocalInv, LocalTypes
  <2>2. /\ Asking \subseteq Messages /\ Upward \subseteq Messages /\ Downward \subseteq Messages
        /\ Replies \subseteq Messages
    BY DEF Asking, Upward, Downward, Replies
  <2>3. reqQ \in Seq(Messages) /\ up \in Seq(Messages) /\ down \in Seq(Messages)
    BY <2>1, <2>2, SeqMonotonic DEF QueuesOK
  <2>4. respQ \in [Program -> Seq(Messages)]
    <3>1. \A p \in Program : respQ[p] \in Seq(Messages) BY <2>1, <2>2, SeqMonotonic DEF QueuesOK
    <3> QED BY <2>1, <3>1 DEF QueuesOK
  <2> QED BY <2>1, <2>3, <2>4
      DEF TypeOK, QueuesOK, ReqHandlerOK, RespHandlerOK, ProgramsOK, TableOK, ServerOK
<1> QED BY <1>1, LocalInvariant, PTL

\* However many programs create and leave at the same time, and whichever ids the
\* broker gives out again, no two entries of the table share a program or an id
\* (broker_id.c:206-239).
THEOREM LocalIdsUnique == Spec => []OneEntryPerId
<1>1. LocalInv => OneEntryPerId BY DEF LocalInv, IdsOK
<1> QED BY <1>1, LocalInvariant, PTL

\* As long as the broker refuses none, set_global_id gives every id to the
\* program that it was made for (broker_id.c:67-101).
THEOREM LocalIdsToAskers == Spec => []IdsToAskers
<1>1. LocalInv => IdsToAskers
  <2> SUFFICES ASSUME LocalInv, refused = 0, NEW i \in DOMAIN table, table[i].global_id # NoId
               PROVE  <<table[i].global_id, table[i].local_id>> \in grant
    BY DEF IdsToAskers
  <2>1. TableOK BY DEF LocalInv, LocalTypes
  <2>2. table[i].local_id \in Program /\ table[i].global_id \in GlobalId
    BY <2>1, TableDomain
  <2>3. Has(table[i].local_id, table[i].global_id) BY DEF Has
  <2> QED BY <2>2, <2>3 DEF LocalInv, OrderOK
<1> QED BY <1>1, LocalInvariant, PTL

\* What a count is, of messages of which there is at most one.
LEMMA CountOne ==
  ASSUME NEW S, \A i, j \in S : i = j
  PROVE  Cardinality(S) = One(S # {})
<1>1. CASE S = {} BY <1>1, FS_EmptySet DEF One
<1>2. CASE S # {}
  <2>1. PICK x : S = {x} BY <1>2
  <2> QED BY <1>2, <2>1, FS_Singleton DEF One
<1> QED BY <1>1, <1>2

\* A program is answered once, whoever is killed meanwhile and however the two
\* handlers and the broker interleave, as long as no CREATE is refused
\* (broker_req_handler.c:110-137).
THEOREM LocalAnsweredOnce == Spec => []AnsweredOnce
<1>1. LocalInv => AnsweredOnce
  <2> SUFFICES ASSUME LocalInv, NEW p \in Program, call[p] # "killed", refused = 0
               PROVE  Outstanding(p) + Len(respQ[p]) <= One(call[p] # "none")
    BY DEF AnsweredOnce
  <2>1. /\ QueuesOK /\ ReqHandlerOK /\ RespHandlerOK /\ TableOK /\ LocalTypes
        /\ OneEntryPerId /\ RequestOK(p) /\ OrderOK
    BY DEF LocalInv, LocalTypes, IdsOK, RequestsOK
  <2>2. OnePlace(p) /\ OneInQueue(p) BY <2>1 DEF RequestOK
  <2>3. ~Before(p, p) BY <2>1, BeforeMeans
  <2> DEFINE R == {i \in DOMAIN reqQ : reqQ[i].from = p}
             U == {i \in DOMAIN up : up[i].from = p}
             D == {i \in DOMAIN down : down[i].from = p /\ down[i].type # "PUBLISH"}
             H == qpc # "idle" /\ (qmsg.from = p \/ qmsg.mtype = p)
             A == rpc \in {"answer", "remove"} /\ rmsg.from = p
  <2>4. Cardinality(R) = One(InReqQ(p))
    <3>1. \A i, j \in R : i = j BY <2>2 DEF OneInQueue
    <3>2. R # {} <=> InReqQ(p) BY DEF InReqQ
    <3> QED BY <3>1, <3>2, CountOne DEF One
  <2>5. \A i \in U : Forwarded(up[i], p) \/ (Created(up[i]) /\ Unnamed(p))
    BY <2>1 DEF Forwarded, Created, OrderOK
  <2>6. \A i \in D : Acked(down[i], p) \/ (Created(down[i]) /\ Unnamed(p))
    BY <2>1, QueueDomains DEF Downward, Acked, Created, OrderOK
  <2>7. Cardinality(U) = One(U # {})
    <3>1. ASSUME NEW i \in U, NEW j \in U, i < j PROVE FALSE
      <4>1. i \in Nat /\ j \in Nat /\ j \in i + 1..Len(up) BY <2>1, <3>1, QueueDomains
      <4>2. CASE Unnamed(p)
        <5>1. Created(up[i]) /\ Created(up[j]) BY <2>2, <2>5, <4>2 DEF OnePlace, InUp
        <5> QED BY <2>1, <2>3, <4>1, <5>1 DEF OrderOK
      <4>3. CASE ~Unnamed(p) BY <2>2, <2>5, <3>1, <4>1, <4>3 DEF OneInQueue
      <4> QED BY <4>2, <4>3
    <3>2. \A i \in U : i \in Nat BY <2>1, QueueDomains
    <3>3. \A i, j \in U : i = j BY <3>1, <3>2
    <3> QED BY <3>3, CountOne
  <2>8. Cardinality(D) = One(D # {})
    <3>1. ASSUME NEW i \in D, NEW j \in D, i < j PROVE FALSE
      <4>1. i \in Nat /\ j \in Nat /\ j \in i + 1..Len(down) BY <2>1, <3>1, QueueDomains
      <4>2. CASE Unnamed(p)
        <5>1. Created(down[i]) /\ Created(down[j]) BY <2>2, <2>6, <4>2 DEF OnePlace, InDown
        <5> QED BY <2>1, <2>3, <4>1, <5>1 DEF OrderOK
      <4>3. CASE ~Unnamed(p) BY <2>2, <2>6, <3>1, <4>1, <4>3 DEF OneInQueue
      <4> QED BY <4>2, <4>3
    <3>2. \A i \in D : i \in Nat BY <2>1, QueueDomains
    <3>3. \A i, j \in D : i = j BY <3>1, <3>2
    <3> QED BY <3>3, CountOne
  <2>9. U = {} \/ D = {}
    <3> SUFFICES ASSUME NEW i \in U, NEW j \in D PROVE FALSE OBVIOUS
    <3>1. CASE Unnamed(p)
      <4>1. Created(up[i]) /\ Created(down[j])
        BY <2>2, <2>5, <2>6, <3>1 DEF OnePlace, InUp, InDown
      <4> QED BY <2>1, <2>3, <4>1 DEF OrderOK
    <3>2. CASE ~Unnamed(p) BY <2>2, <2>5, <2>6, <3>2 DEF OnePlace, InUp, InDown
    <3> QED BY <3>1, <3>2
  <2>10. U # {} => InUp(p) \/ Unnamed(p) BY <2>5 DEF InUp
  <2>11. D # {} => InDown(p) \/ Unnamed(p) BY <2>6 DEF InDown
  <2>12. H => InHandler(p) BY <2>1 DEF ReqHandlerOK, Asking, InHandler
  <2>13. A => InResp(p)
    <3>1. rpc = "remove" => rmsg.mtype = rmsg.from BY <2>1 DEF RespHandlerOK
    <3> QED BY <2>1, <3>1 DEF OrderOK, InResp
  <2>14. Len(respQ[p]) = One(Answered(p))
    <3>1. respQ[p] \in Seq(Replies) BY <2>1 DEF QueuesOK
    <3>2. Len(respQ[p]) \in Nat /\ (respQ[p] # <<>> <=> Len(respQ[p]) # 0)
      BY <3>1, EmptySeq, LenProperties
    <3> QED BY <2>2, <3>2 DEF OneInQueue, Answered, One
  <2>15. Outstanding(p) = Cardinality(R) + Cardinality(U) + Cardinality(D) + One(H) + One(A)
    BY DEF Outstanding, Count
  <2>16. call[p] = "none" => /\ ~InReqQ(p) /\ ~InHandler(p) /\ ~Unnamed(p) /\ ~InUp(p)
                             /\ ~InDown(p) /\ ~InResp(p) /\ ~Answered(p)
    BY <2>1, IdleProgram
  <2> HIDE DEF R, U, D, H, A
  <2>17. Cardinality(R) + Cardinality(U) + Cardinality(D) + One(H) + One(A) + Len(respQ[p])
           <= One(call[p] # "none")
    BY <2>2, <2>4, <2>7, <2>8, <2>9, <2>10, <2>11, <2>12, <2>13, <2>14, <2>16 DEF OnePlace, One
  <2> QED BY <2>15, <2>17
<1> QED BY <1>1, LocalInvariant, PTL

-----------------------------------------------------------------------------
(* What the broker is asked.                                               *)

OfKnown(m) == m.type = "CREATE" \/ m.mtype \in server.known

LEMMA UpwardKnown ==
  ASSUME LocalInv, NEW i \in DOMAIN up
  PROVE  OfKnown(up[i])
<1> DEFINE m == up[i]
<1>1. LocalTypes /\ QueuesOK /\ RequestsOK /\ IdsOK /\ OneEntryPerId
  BY DEF LocalInv, LocalTypes, IdsOK
<1>2. m \in Upward BY <1>1, LenProperties, ElementOfSeq DEF QueuesOK
<1> SUFFICES ASSUME m.type # "CREATE" PROVE m.mtype \in server.known BY DEF OfKnown
<1>3. PICK p \in Program, g \in GlobalId : m.from = p /\ m.mtype = g BY <1>2 DEF Upward
<1>4. Forwarded(m, p) BY <1>3 DEF Forwarded
<1>5. InUp(p) BY <1>4 DEF InUp
<1>6. OnePlace(p) /\ CallOK(p) BY <1>1 DEF RequestsOK, RequestOK
<1>7. Has(p, g) BY <1>3, <1>4, <1>6 DEF CallOK
<1>8. ~InDown(p) /\ ~InResp(p) BY <1>5, <1>6 DEF OnePlace
<1>9. \A q \in Program : Has(q, g) => q = p
  BY <1>1, <1>7, Constants DEF OneEntryPerId, Has
<1>10. ~Removing(g)
  <2> SUFFICES ASSUME rpc = "remove", Has(rmsg.mtype, g) PROVE FALSE BY DEF Removing
  <2>1. rmsg.mtype \in Program BY <1>1, TableDomain DEF Has, Entries, LocalTypes
  <2> QED BY <1>8, <1>9, <2>1 DEF InResp
<1>11. ASSUME NEW j \in DOMAIN down, Destroyed(g, j) PROVE FALSE
  <2>1. down[j] \in Downward BY <1>1, LenProperties, ElementOfSeq DEF QueuesOK
  <2>2. PICK q \in Program : down[j].from = q BY <2>1 DEF Downward
  <2>3. Acked(down[j], q) /\ down[j].mtype = g BY <1>11, <2>2 DEF Destroyed, Acked
  <2>4. Has(q, g) BY <1>1, <2>3 DEF RequestsOK, RequestOK, CallOK
  <2> QED BY <1>8, <1>9, <2>3, <2>4 DEF InDown
<1> QED BY <1>1, <1>3, <1>7, <1>10, <1>11 DEF IdsOK

\* The broker is never asked about an id that it does not know (worker.c:67): a
\* program asks while it has its entry, and the id is deleted by its own request.
THEOREM RequestsOfKnownIds == Spec => [](\A i \in DOMAIN up : OfKnown(up[i]))
<1>1. LocalInv => \A i \in DOMAIN up : OfKnown(up[i]) BY UpwardKnown
<1> QED BY <1>1, LocalInvariant, PTL

-----------------------------------------------------------------------------
(* The box of messages of a program.                                       *)

\* A place of a queue, and the bodies that are found there.
LEMMA BodiesMeans ==
  ASSUME NEW q \in Seq(Messages), NEW S \in SUBSET DOMAIN q
  PROVE  /\ IsFiniteSet(S) /\ (\A j \in S : j \in Nat /\ j >= 1)
         /\ Cardinality(S) \in Nat
         /\ Bodies(q, S) \in Seq(Nat) /\ Len(Bodies(q, S)) = Cardinality(S)
         /\ \A n \in 1..Cardinality(S) : /\ Nth(S, n) \in S
                                         /\ Bodies(q, S)[n] = q[Nth(S, n)].body
<1>1. DOMAIN q = 1..Len(q) /\ Len(q) \in Nat /\ \A i \in DOMAIN q : q[i] \in Messages
  BY LenProperties, ElementOfSeq
<1>2. IsFiniteSet(S) /\ (\A j \in S : j \in Nat /\ j >= 1)
  <2>1. IsFiniteSet(DOMAIN q) BY <1>1, FS_Interval
  <2>2. \A j \in S : j \in 1..Len(q) BY <1>1
  <2> QED BY <1>1, <2>1, <2>2, FS_Subset
<1>3. /\ Cardinality(S) \in Nat /\ DOMAIN Ascending(S) = 1..Cardinality(S)
      /\ \A n \in 1..Cardinality(S) : Ascending(S)[n] = Nth(S, n) /\ Nth(S, n) \in S
  BY <1>2, AscendingIsSeq
<1>4. Bodies(q, S) = [n \in 1..Cardinality(S) |-> q[Nth(S, n)].body]
  BY <1>3 DEF Bodies
<1>5. \A n \in 1..Cardinality(S) : q[Nth(S, n)].body \in Nat
  BY <1>1, <1>3 DEF Messages
<1>6. /\ Bodies(q, S) \in [1..Cardinality(S) -> Nat]
      /\ \A n \in 1..Cardinality(S) : Bodies(q, S)[n] = q[Nth(S, n)].body
  BY <1>4, <1>5
<1>7. Bodies(q, S) \in Seq(Nat) /\ Len(Bodies(q, S)) = Cardinality(S) BY <1>3, <1>6
<1> QED BY <1>2, <1>3, <1>6, <1>7

\* Two sequences with the same elements.
LEMMA SameSeq ==
  ASSUME NEW s \in Seq(Nat), NEW t \in Seq(Nat), Len(s) = Len(t),
         \A n \in 1..Len(s) : s[n] = t[n]
  PROVE  s = t
OBVIOUS

\* A message is sent: whether it is among those looked for, or not.
LEMMA BodiesGrow ==
  ASSUME NEW q \in Seq(Messages), NEW m \in Messages, NEW S \in SUBSET DOMAIN q
  PROVE  /\ Bodies(Append(q, m), S) = Bodies(q, S)
         /\ Bodies(Append(q, m), S \cup {Len(q) + 1}) = Append(Bodies(q, S), m.body)
<1> DEFINE r == Append(q, m)
           R == S \cup {Len(q) + 1}
<1>1. /\ r \in Seq(Messages) /\ Len(r) = Len(q) + 1 /\ r[Len(q) + 1] = m
      /\ \A i \in 1..Len(q) : r[i] = q[i]
  BY AppendProperties
<1>2. Len(q) \in Nat /\ DOMAIN q = 1..Len(q) /\ DOMAIN r = 1..Len(q) + 1
  BY <1>1, LenProperties
<1>3. S \in SUBSET DOMAIN r /\ R \in SUBSET DOMAIN r /\ \A j \in S : r[j] = q[j]
  BY <1>1, <1>2
<1> HIDE DEF r
<1>4. m.body \in Nat BY DEF Messages
<1>5. Bodies(r, S) = Bodies(q, S)
  <2>1. /\ Bodies(r, S) \in Seq(Nat) /\ Bodies(q, S) \in Seq(Nat)
        /\ Len(Bodies(r, S)) = Cardinality(S) /\ Len(Bodies(q, S)) = Cardinality(S)
    BY <1>1, <1>3, BodiesMeans
  <2>2. \A n \in 1..Cardinality(S) : Bodies(r, S)[n] = Bodies(q, S)[n]
    <3> TAKE n \in 1..Cardinality(S)
    <3>1. Nth(S, n) \in S /\ Bodies(q, S)[n] = q[Nth(S, n)].body BY BodiesMeans
    <3>2. Bodies(r, S)[n] = r[Nth(S, n)].body BY <1>1, <1>3, BodiesMeans
    <3> QED BY <1>3, <3>1, <3>2
  <2> QED BY <2>1, <2>2, SameSeq
<1>6. Bodies(r, R) = Append(Bodies(q, S), m.body)
  <2>1. \A j \in S : j < Len(q) + 1 BY <1>2
  <2>2. IsFiniteSet(S) /\ \A j \in S : j \in Nat BY BodiesMeans
  <2>3. /\ Cardinality(R) = Cardinality(S) + 1 /\ Nth(R, Cardinality(S) + 1) = Len(q) + 1
        /\ \A n \in 1..Cardinality(S) : Nth(R, n) = Nth(S, n)
    <3>1. Len(q) + 1 \in Nat BY <1>2
    <3> QED BY <2>1, <2>2, <3>1, AscendingAdds
  <2> HIDE DEF R
  <2>4. /\ Bodies(r, R) \in Seq(Nat) /\ Len(Bodies(r, R)) = Cardinality(S) + 1
        /\ Bodies(q, S) \in Seq(Nat) /\ Len(Bodies(q, S)) = Cardinality(S)
        /\ Cardinality(S) \in Nat
    BY <1>1, <1>3, <2>3, BodiesMeans
  <2>5. \A n \in 1..Cardinality(S) : Bodies(r, R)[n] = Bodies(q, S)[n]
    <3> TAKE n \in 1..Cardinality(S)
    <3>1. n \in 1..Cardinality(R) BY <2>3, <2>4
    <3>2. Bodies(r, R)[n] = r[Nth(R, n)].body BY <1>1, <1>3, <3>1, BodiesMeans
    <3>3. Bodies(q, S)[n] = q[Nth(S, n)].body /\ Nth(S, n) \in S BY BodiesMeans
    <3> QED BY <1>3, <2>3, <3>2, <3>3
  <2>6. Bodies(r, R)[Cardinality(S) + 1] = m.body
    <3>1. Cardinality(S) + 1 \in 1..Cardinality(R) BY <2>3, <2>4
    <3> QED BY <1>1, <1>3, <2>3, <3>1, BodiesMeans
  <2>7. /\ Append(Bodies(q, S), m.body) \in Seq(Nat)
        /\ Len(Append(Bodies(q, S), m.body)) = Cardinality(S) + 1
        /\ \A n \in 1..Cardinality(S) : Append(Bodies(q, S), m.body)[n] = Bodies(q, S)[n]
        /\ Append(Bodies(q, S), m.body)[Cardinality(S) + 1] = m.body
    BY <1>4, <2>4, AppendProperties
  <2>8. \A n \in 1..Cardinality(S) + 1 : Bodies(r, R)[n] = Append(Bodies(q, S), m.body)[n]
    <3>1. \A n \in 1..Cardinality(S) + 1 : n \in 1..Cardinality(S) \/ n = Cardinality(S) + 1
      BY <2>4
    <3> QED BY <2>5, <2>6, <2>7, <3>1
  <2> QED BY <2>4, <2>7, <2>8, SameSeq
<1> QED BY <1>5, <1>6 DEF r

\* The first message of a queue is taken.
LEMMA BodiesShrink ==
  ASSUME NEW q \in Seq(Messages), q # <<>>, NEW S \in SUBSET DOMAIN q
  PROVE  /\ Moved(S) \subseteq DOMAIN Tail(q)
         /\ Bodies(Tail(q), Moved(S)) \in Seq(Nat)
         /\ 1 \notin S => Bodies(q, S) = Bodies(Tail(q), Moved(S))
         /\ 1 \in S => Bodies(q, S) = <<Head(q).body>> \o Bodies(Tail(q), Moved(S))
<1> DEFINE r == Tail(q)
<1>1. /\ r \in Seq(Messages) /\ Len(r) = Len(q) - 1 /\ \A i \in 1..Len(r) : r[i] = q[i + 1]
      /\ Head(q) \in Messages /\ Head(q) = q[1]
  BY HeadTailProperties
<1> HIDE DEF r
<1>2. Len(q) \in Nat /\ DOMAIN q = 1..Len(q) /\ DOMAIN r = 1..Len(r) /\ Len(r) \in Nat
  BY <1>1, LenProperties
<1>3. Moved(S) \in SUBSET DOMAIN r /\ \A j \in Moved(S) : r[j] = q[j + 1]
  <2>1. \A j \in Moved(S) : j \in 1..Len(r)
    <3> TAKE j \in Moved(S)
    <3>1. j \in Nat /\ j >= 1 /\ j + 1 \in 1..Len(q) BY <1>2 DEF Moved
    <3> QED BY <1>1, <1>2, <3>1
  <2> QED BY <1>1, <1>2, <2>1
<1>4. /\ IsFiniteSet(S) /\ (\A j \in S : j \in Nat /\ j >= 1)
      /\ Bodies(q, S) \in Seq(Nat) /\ Len(Bodies(q, S)) = Cardinality(S)
      /\ \A n \in 1..Cardinality(S) : Bodies(q, S)[n] = q[Nth(S, n)].body
  BY BodiesMeans
<1> DEFINE B == Bodies(r, Moved(S))
           c == Cardinality(Moved(S))
<1>5. /\ B \in Seq(Nat) /\ Len(B) = c /\ c \in Nat
      /\ \A n \in 1..c : Nth(Moved(S), n) \in Moved(S) /\ B[n] = r[Nth(Moved(S), n)].body
  BY <1>1, <1>3, BodiesMeans
<1> HIDE DEF B, c
<1>6. CASE 1 \notin S
  <2>1. Cardinality(S) = c + 0 /\ \A n \in 1..c : Nth(S, n + 0) = Nth(Moved(S), n) + 1
    BY <1>4, <1>6, AscendingMoves DEF c
  <2>2. \A n \in 1..c : Nth(S, n) = Nth(Moved(S), n) + 1
    <3>1. \A n \in 1..c : n + 0 = n BY <1>5
    <3> QED BY <2>1, <3>1
  <2>3. Cardinality(S) = c BY <1>5, <2>1
  <2>4. \A n \in 1..c : Bodies(q, S)[n] = B[n] BY <1>3, <1>4, <1>5, <2>2, <2>3
  <2>5. Bodies(q, S) = B BY <1>4, <1>5, <2>3, <2>4, SameSeq
  <2> QED BY <1>3, <1>5, <1>6, <2>5 DEF r, B
<1>7. CASE 1 \in S
  <2> DEFINE x == q[1].body
             T == <<x>> \o B
  <2>1. Cardinality(S) = c + 1 /\ \A n \in 1..c : Nth(S, n + 1) = Nth(Moved(S), n) + 1
    BY <1>4, <1>7, AscendingMoves DEF c
  <2>2. Nth(S, 1) = 1
    <3>1. UpTo(S, 1) = {1} BY <1>4, <1>7 DEF UpTo
    <3>2. Cardinality(UpTo(S, 1)) = 1 BY <3>1, FS_Singleton
    <3> QED BY <1>4, <1>7, <3>2, NthIs
  <2>3. x \in Nat /\ <<x>> \in Seq(Nat) /\ Len(<<x>>) = 1 /\ <<x>>[1] = x
    BY <1>1 DEF Messages
  <2> HIDE DEF x
  <2>4. /\ T \in Seq(Nat) /\ Len(T) = 1 + c
        /\ \A n \in 1..1 + c : T[n] = IF n <= 1 THEN <<x>>[n] ELSE B[n - 1]
    BY <1>5, <2>3, ConcatProperties
  <2> HIDE DEF T
  <2>5. \A n \in 1..c + 1 : Bodies(q, S)[n] = T[n]
    <3> TAKE n \in 1..c + 1
    <3>1. CASE n = 1 BY <1>4, <1>5, <2>1, <2>2, <2>3, <2>4, <3>1 DEF x
    <3>2. CASE n # 1
      <4>1. PICK k \in 1..c : n = k + 1 /\ k = n - 1 BY <1>5, <3>2
      <4>2. T[n] = B[k]
        <5>1. n \in 1..1 + c /\ ~(n <= 1) /\ n - 1 = k BY <1>5, <4>1
        <5> QED BY <2>4, <5>1
      <4>3. Nth(S, n) = Nth(Moved(S), k) + 1 BY <2>1, <4>1
      <4>4. Bodies(q, S)[n] = q[Nth(Moved(S), k) + 1].body BY <1>4, <2>1, <4>3
      <4> QED BY <1>3, <1>5, <4>2, <4>4
    <3> QED BY <3>1, <3>2
  <2>6. Bodies(q, S) = T
    <3>1. Len(Bodies(q, S)) = c + 1 /\ Len(T) = c + 1 BY <1>4, <1>5, <2>1, <2>4
    <3> QED BY <1>4, <2>4, <2>5, <3>1, SameSeq
  <2> QED BY <1>1, <1>3, <1>5, <1>7, <2>6 DEF r, B, T, x
<1> QED BY <1>6, <1>7

\* How the five parts of a box make one sequence.
Joined(a, b, c, d, e) == a \o b \o c \o d \o e
None == <<>>
Only(x) == <<x>>
Front(x, s) == <<x>> \o s
Behind(s, x) == Append(s, x)

\* What the queues of a program hold, named by the numbers of its messages.
Notes == Seq(Nat)
Then(s, t) == s \o t

LEMMA ThenIsNotes ==
  ASSUME NEW s, NEW t, s \in Notes, t \in Notes
  PROVE  Then(s, t) \in Notes
BY ConcatProperties DEF Then, Notes

LEMMA ThenAssociates ==
  ASSUME NEW s, NEW t, NEW u, s \in Notes, t \in Notes, u \in Notes
  PROVE  Then(Then(s, t), u) = Then(s, Then(t, u))
<1>1. s \in Seq(Nat) /\ t \in Seq(Nat) /\ u \in Seq(Nat) BY DEF Notes
<1>2. (s \o t) \o u = s \o (t \o u) BY ONLY <1>1, ConcatAssociative, SMTT(40)
<1> QED BY <1>2 DEF Then

LEMMA JoinedMoves ==
  ASSUME NEW a \in Notes, NEW b \in Notes, NEW c \in Notes, NEW d \in Notes, NEW e \in Notes,
         NEW x \in Nat
  PROVE  /\ Joined(a, Only(x), c, d, e) = Joined(Behind(a, x), None, c, d, e)
         /\ Joined(a, None, Front(x, c), d, e) = Joined(a, Only(x), c, d, e)
         /\ Joined(a, b, Behind(c, x), None, e) = Joined(a, b, c, Only(x), e)
         /\ Joined(a, b, c, None, Front(x, e)) = Joined(a, b, c, Only(x), e)
         /\ Joined(a, b, c, d, Behind(e, x)) = Behind(Joined(a, b, c, d, e), x)
         /\ Joined(Front(x, a), b, c, d, e) = Front(x, Joined(a, b, c, d, e))
<1> DEFINE one == Only(x)
           ab == Then(a, b)
           abc == Then(ab, c)
           abcd == Then(abc, d)
           all == Then(abcd, e)
<1>1. \A p, q, r, s, t : Joined(p, q, r, s, t) = Then(Then(Then(Then(p, q), r), s), t)
  BY DEF Joined, Then
<1>2. one \in Notes BY DEF Only, Notes
<1>3. \A s \in Notes : Behind(s, x) = Then(s, one)
  BY AppendIsConcat DEF Behind, Then, Only, Notes
<1>4. \A s \in Notes : Then(s, None) = s BY ConcatEmptySeq DEF Then, None, Notes
<1>5. \A s : Front(x, s) = Then(one, s) BY DEF Front, Then, Only
<1> HIDE DEF one
<1>6. ab \in Notes /\ abc \in Notes /\ abcd \in Notes /\ all \in Notes BY ThenIsNotes
<1>7. Joined(a, one, c, d, e) = Joined(Then(a, one), None, c, d, e)
  <2>1. Then(a, one) \in Notes BY <1>2, ThenIsNotes
  <2> QED BY <1>1, <1>4, <2>1
<1>8. Joined(a, None, Then(one, c), d, e) = Joined(a, one, c, d, e)
  <2>1. Then(Then(a, one), c) = Then(a, Then(one, c)) BY <1>2, ThenAssociates
  <2> QED BY <1>1, <1>4, <2>1
<1>9. Joined(a, b, Then(c, one), None, e) = Joined(a, b, c, one, e)
  <2>1. Then(abc, one) = Then(ab, Then(c, one)) BY <1>2, <1>6, ThenAssociates
  <2>2. Then(ab, Then(c, one)) \in Notes BY <1>2, <1>6, ThenIsNotes
  <2> QED BY <1>1, <1>4, <2>1, <2>2
<1>10. Joined(a, b, c, None, Then(one, e)) = Joined(a, b, c, one, e)
  <2>1. Then(Then(abc, one), e) = Then(abc, Then(one, e)) BY <1>2, <1>6, ThenAssociates
  <2> QED BY <1>1, <1>4, <1>6, <2>1
<1>11. Joined(a, b, c, d, Then(e, one)) = Then(Joined(a, b, c, d, e), one)
  <2>1. Then(all, one) = Then(abcd, Then(e, one)) BY <1>2, <1>6, ThenAssociates
  <2> QED BY <1>1, <2>1
<1>12. Joined(Then(one, a), b, c, d, e) = Then(one, Joined(a, b, c, d, e))
  <2>1. Then(Then(one, a), b) = Then(one, ab) BY <1>2, ThenAssociates
  <2>2. Then(Then(one, ab), c) = Then(one, abc) BY <1>2, <1>6, ThenAssociates
  <2>3. Then(Then(one, abc), d) = Then(one, abcd) BY <1>2, <1>6, ThenAssociates
  <2>4. Then(Then(one, abcd), e) = Then(one, all) BY <1>2, <1>6, ThenAssociates
  <2> QED BY <1>1, <2>1, <2>2, <2>3, <2>4
<1>13. Joined(a, b, c, d, e) \in Notes BY <1>1, <1>6
<1> QED
  BY <1>3, <1>5, <1>7, <1>8, <1>9, <1>10, <1>11, <1>12, <1>13 DEF one

\* The same, one by one: a note goes from one part of a box to the next.
LEMMA AnswerKept ==
  ASSUME NEW a \in Seq(Nat), NEW c \in Seq(Nat), NEW d \in Seq(Nat),
         NEW e \in Seq(Nat), NEW x \in Nat
  PROVE  Joined(a, Only(x), c, d, e) = Joined(Behind(a, x), None, c, d, e)
<1>1. None \in Notes /\ a \in Notes /\ c \in Notes /\ d \in Notes /\ e \in Notes BY EmptySeq DEF None, Notes
<1> QED BY <1>1, JoinedMoves

LEMMA BoxFetched ==
  ASSUME NEW a \in Seq(Nat), NEW c \in Seq(Nat), NEW d \in Seq(Nat),
         NEW e \in Seq(Nat), NEW x \in Nat
  PROVE  Joined(a, None, Front(x, c), d, e) = Joined(a, Only(x), c, d, e)
<1>1. None \in Notes /\ a \in Notes /\ c \in Notes /\ d \in Notes /\ e \in Notes BY EmptySeq DEF None, Notes
<1> QED BY <1>1, JoinedMoves

LEMMA BoxFilled ==
  ASSUME NEW a \in Seq(Nat), NEW b \in Seq(Nat), NEW c \in Seq(Nat),
         NEW e \in Seq(Nat), NEW x \in Nat
  PROVE  Joined(a, b, Behind(c, x), None, e) = Joined(a, b, c, Only(x), e)
<1>1. None \in Notes /\ a \in Notes /\ b \in Notes /\ c \in Notes /\ e \in Notes BY EmptySeq DEF None, Notes
<1> QED BY <1>1, JoinedMoves

LEMMA NewsFetched ==
  ASSUME NEW a \in Seq(Nat), NEW b \in Seq(Nat), NEW c \in Seq(Nat),
         NEW e \in Seq(Nat), NEW x \in Nat
  PROVE  Joined(a, b, c, None, Front(x, e)) = Joined(a, b, c, Only(x), e)
<1>1. None \in Notes /\ a \in Notes /\ b \in Notes /\ c \in Notes /\ e \in Notes BY EmptySeq DEF None, Notes
<1> QED BY <1>1, JoinedMoves

LEMMA NewsAdded ==
  ASSUME NEW a \in Seq(Nat), NEW b \in Seq(Nat), NEW c \in Seq(Nat),
         NEW d \in Seq(Nat), NEW e \in Seq(Nat), NEW x \in Nat
  PROVE  Joined(a, b, c, d, Behind(e, x)) = Behind(Joined(a, b, c, d, e), x)
<1>1. a \in Notes /\ b \in Notes /\ c \in Notes /\ d \in Notes /\ e \in Notes BY DEF Notes
<1> QED BY <1>1, JoinedMoves

LEMMA AnswerRead ==
  ASSUME NEW a \in Seq(Nat), NEW b \in Seq(Nat), NEW c \in Seq(Nat),
         NEW d \in Seq(Nat), NEW e \in Seq(Nat), NEW x \in Nat
  PROVE  Joined(Front(x, a), b, c, d, e) = Front(x, Joined(a, b, c, d, e))
<1>1. a \in Notes /\ b \in Notes /\ c \in Notes /\ d \in Notes /\ e \in Notes BY DEF Notes
<1> QED BY <1>1, JoinedMoves

\* The first message of a box.
LEMMA FirstRead ==
  ASSUME NEW s \in Seq(Nat), NEW x \in Nat
  PROVE  <<x>> \o s # <<>> /\ Head(<<x>> \o s) = x /\ Tail(<<x>> \o s) = s
<1> DEFINE t == <<x>> \o s
<1>0. <<x>> \in Seq(Nat) /\ Len(<<x>>) = 1 /\ <<x>>[1] = x OBVIOUS
<1>1. Len(s) \in Nat /\ DOMAIN s = 1..Len(s) BY LenProperties
<1>2. /\ t \in Seq(Nat) /\ Len(t) = 1 + Len(s)
      /\ \A i \in 1..1 + Len(s) : t[i] = IF i <= 1 THEN <<x>>[i] ELSE s[i - 1]
  BY <1>0, ConcatProperties
<1> HIDE DEF t
<1>3. t # <<>> BY <1>1, <1>2, EmptySeq
<1>4. Head(t) = t[1] /\ t[1] = x BY <1>0, <1>1, <1>2, <1>3, HeadTailProperties
<1>5. /\ Tail(t) \in Seq(Nat) /\ Len(Tail(t)) = Len(s)
      /\ \A i \in 1..Len(s) : Tail(t)[i] = t[i + 1]
  BY <1>1, <1>2, <1>3, HeadTailProperties
<1>6. \A i \in 1..Len(s) : t[i + 1] = s[i]
  <2> TAKE i \in 1..Len(s)
  <2>1. i + 1 \in 1..1 + Len(s) /\ ~(i + 1 <= 1) /\ i + 1 - 1 = i BY <1>1
  <2> QED BY <1>2, <2>1
<1>7. Tail(t) = s BY <1>5, <1>6, SameSeq
<1> QED BY <1>3, <1>4, <1>7 DEF t

-----------------------------------------------------------------------------
(* The parts of a box while the handlers work.                             *)

\* The places of the messages looked for in a queue that has lost its first one.
LEMMA PlacesMove ==
  ASSUME NEW q \in Seq(Messages), q # <<>>, NEW S \in SUBSET DOMAIN q,
         NEW R \in SUBSET DOMAIN Tail(q), \A i \in DOMAIN Tail(q) : i \in R <=> i + 1 \in S
  PROVE  R = Moved(S)
<1>1. Moved(S) \subseteq DOMAIN Tail(q) BY BodiesShrink
<1>2. Len(Tail(q)) \in Nat /\ DOMAIN Tail(q) = 1..Len(Tail(q))
  BY HeadTailProperties, LenProperties
<1>3. \A i \in DOMAIN Tail(q) : i \in Nat \ {0} BY <1>2
<1> QED BY <1>1, <1>3 DEF Moved

LEMMA PartsAreSeqs ==
  ASSUME LocalTypes, NEW p \in Program
  PROVE  /\ InAnswer(p) \in Seq(Nat) /\ Fetched(p) \in Seq(Nat) /\ InBox(p) \in Seq(Nat)
         /\ Delivered(p) \in Seq(Nat) /\ InNews(p) \in Seq(Nat)
         /\ respQ[p] \in Seq(Messages) /\ incoming[p] \in Seq(Messages)
         /\ down \in Seq(Messages) /\ qmsg \in Messages /\ rmsg \in Messages
<1>1. QueuesOK /\ qmsg \in Messages /\ rmsg \in Messages
  BY DEF LocalTypes, ReqHandlerOK, RespHandlerOK
<1>2. Replies \subseteq Messages /\ Downward \subseteq Messages BY DEF Replies, Downward
<1>3. respQ[p] \in Seq(Messages) /\ incoming[p] \in Seq(Messages) /\ down \in Seq(Messages)
  BY <1>1, <1>2, SeqMonotonic DEF QueuesOK
<1>4. qmsg.body \in Nat /\ rmsg.body \in Nat BY <1>1 DEF Messages
<1>5. Fetched(p) \in Seq(Nat) /\ Delivered(p) \in Seq(Nat)
  BY <1>4 DEF Fetched, Delivered, Held
<1>6. InAnswer(p) \in Seq(Nat) /\ InBox(p) \in Seq(Nat) /\ InNews(p) \in Seq(Nat)
  BY <1>3, BodiesMeans DEF InAnswer, InBox, InNews
<1> QED BY <1>1, <1>3, <1>5, <1>6

\* What becomes of the answers to p.
LEMMA AnswerSent ==
  ASSUME LocalTypes, NEW p \in Program, NEW m \in Messages,
         respQ'[p] = Append(respQ[p], m)
  PROVE  InAnswer(p)' = IF m.body # 0 THEN Append(InAnswer(p), m.body) ELSE InAnswer(p)
<1> DEFINE q == respQ[p]
           r == Append(q, m)
           S == {i \in DOMAIN q : q[i].body # 0}
           R == {i \in DOMAIN r : r[i].body # 0}
<1>1. q \in Seq(Messages) BY PartsAreSeqs
<1>2. /\ DOMAIN r = 1..Len(q) + 1 /\ r[Len(q) + 1] = m /\ \A i \in 1..Len(q) : r[i] = q[i]
      /\ DOMAIN q = 1..Len(q) /\ Len(q) \in Nat
  BY <1>1, AppendProperties, LenProperties
<1>3. InAnswer(p)' = Bodies(r, R) /\ InAnswer(p) = Bodies(q, S) BY DEF InAnswer
<1>4. R = IF m.body # 0 THEN S \cup {Len(q) + 1} ELSE S
  <2> HIDE DEF q, r
  <2>1. \A i \in DOMAIN r : i \in DOMAIN q \/ i = Len(q) + 1 BY <1>2
  <2>2. \A i \in DOMAIN q : i \in DOMAIN r /\ r[i] = q[i] BY <1>2
  <2>3. Len(q) + 1 \in DOMAIN r /\ Len(q) + 1 \notin DOMAIN q BY <1>2
  <2> QED BY <1>2, <2>1, <2>2, <2>3
<1>5. S \in SUBSET DOMAIN q OBVIOUS
<1> HIDE DEF R, S
<1> QED BY <1>1, <1>3, <1>4, <1>5, BodiesGrow

LEMMA AnswerTaken ==
  ASSUME LocalTypes, NEW p \in Program, respQ[p] # <<>>, respQ'[p] = Tail(respQ[p])
  PROVE  /\ Head(respQ[p]).body # 0 => /\ InAnswer(p) = <<Head(respQ[p]).body>> \o InAnswer(p)'
                                       /\ InAnswer(p)' \in Seq(Nat)
         /\ Head(respQ[p]).body = 0 => InAnswer(p)' = InAnswer(p)
<1> DEFINE q == respQ[p]
           r == Tail(q)
           S == {i \in DOMAIN q : q[i].body # 0}
           R == {i \in DOMAIN r : r[i].body # 0}
<1>1. q \in Seq(Messages) BY PartsAreSeqs
<1>2. /\ r \in Seq(Messages) /\ Len(r) = Len(q) - 1 /\ \A i \in 1..Len(r) : r[i] = q[i + 1]
      /\ Head(q) = q[1]
  BY <1>1, HeadTailProperties
<1>3. InAnswer(p)' = Bodies(r, R) /\ InAnswer(p) = Bodies(q, S) BY DEF InAnswer
<1> HIDE DEF r
<1>4. DOMAIN r = 1..Len(r) /\ Len(r) \in Nat /\ DOMAIN q = 1..Len(q) /\ Len(q) \in Nat
  BY <1>1, <1>2, LenProperties
<1>5. \A i \in DOMAIN r : i \in R <=> i + 1 \in S
  <2> TAKE i \in DOMAIN r
  <2>1. i + 1 \in DOMAIN q /\ r[i] = q[i + 1] BY <1>2, <1>4
  <2> QED BY <2>1
<1>6. 1 \in DOMAIN q /\ (1 \in S <=> Head(q).body # 0) BY <1>2, <1>4
<1>7. S \in SUBSET DOMAIN q /\ R \in SUBSET DOMAIN r OBVIOUS
<1> HIDE DEF R, S, q
<1>8. R = Moved(S) BY <1>1, <1>5, <1>7, PlacesMove DEF r, q
<1>9. Bodies(r, R) \in Seq(Nat) BY <1>2, <1>7, BodiesMeans
<1>10. 1 \notin S => Bodies(q, S) = Bodies(r, R) BY <1>1, <1>7, <1>8, BodiesShrink DEF r, q
<1>11. 1 \in S => Bodies(q, S) = <<Head(q).body>> \o Bodies(r, R)
  BY <1>1, <1>7, <1>8, BodiesShrink DEF r, q
<1> QED BY <1>3, <1>6, <1>9, <1>10, <1>11 DEF q

\* What becomes of the publications for p among the messages of the broker.
LEMMA NewsSent ==
  ASSUME LocalTypes, NEW p \in Program, NEW m \in Messages, down' = Append(down, m)
  PROVE  InNews(p)' = IF m.type = "PUBLISH" /\ m.from = p
                      THEN Append(InNews(p), m.body) ELSE InNews(p)
<1> DEFINE q == down
           r == Append(q, m)
           News(x) == x.type = "PUBLISH" /\ x.from = p
           S == {i \in DOMAIN q : News(q[i])}
           R == {i \in DOMAIN r : News(r[i])}
<1>1. q \in Seq(Messages) BY PartsAreSeqs
<1>2. /\ DOMAIN r = 1..Len(q) + 1 /\ r[Len(q) + 1] = m /\ \A i \in 1..Len(q) : r[i] = q[i]
      /\ DOMAIN q = 1..Len(q) /\ Len(q) \in Nat
  BY <1>1, AppendProperties, LenProperties
<1>3. InNews(p)' = Bodies(r, R) /\ InNews(p) = Bodies(q, S) BY DEF InNews
<1> HIDE DEF News
<1>4. R = IF News(m) THEN S \cup {Len(q) + 1} ELSE S
  <2> HIDE DEF q, r
  <2>1. \A i \in DOMAIN r : i \in DOMAIN q \/ i = Len(q) + 1 BY <1>2
  <2>2. \A i \in DOMAIN q : i \in DOMAIN r /\ r[i] = q[i] BY <1>2
  <2>3. Len(q) + 1 \in DOMAIN r /\ Len(q) + 1 \notin DOMAIN q BY <1>2
  <2> QED BY <1>2, <2>1, <2>2, <2>3
<1>5. S \in SUBSET DOMAIN q OBVIOUS
<1> HIDE DEF R, S
<1>6. Bodies(r, R) = IF News(m) THEN Append(Bodies(q, S), m.body) ELSE Bodies(q, S)
  BY <1>1, <1>4, <1>5, BodiesGrow
<1> QED BY <1>3, <1>6 DEF News

LEMMA NewsTaken ==
  ASSUME LocalTypes, NEW p \in Program, down # <<>>, down' = Tail(down)
  PROVE  IF Head(down).type = "PUBLISH" /\ Head(down).from = p
         THEN InNews(p) = <<Head(down).body>> \o InNews(p)' /\ InNews(p)' \in Seq(Nat)
         ELSE InNews(p)' = InNews(p)
<1> DEFINE q == down
           r == Tail(q)
           News(x) == x.type = "PUBLISH" /\ x.from = p
           S == {i \in DOMAIN q : News(q[i])}
           R == {i \in DOMAIN r : News(r[i])}
<1>1. q \in Seq(Messages) BY PartsAreSeqs
<1>2. /\ r \in Seq(Messages) /\ Len(r) = Len(q) - 1 /\ \A i \in 1..Len(r) : r[i] = q[i + 1]
      /\ Head(q) = q[1]
  BY <1>1, HeadTailProperties
<1>3. InNews(p)' = Bodies(r, R) /\ InNews(p) = Bodies(q, S) BY DEF InNews
<1> HIDE DEF r, News
<1>4. DOMAIN r = 1..Len(r) /\ Len(r) \in Nat /\ DOMAIN q = 1..Len(q) /\ Len(q) \in Nat
  BY <1>1, <1>2, LenProperties
<1>5. \A i \in DOMAIN r : i \in R <=> i + 1 \in S
  <2> TAKE i \in DOMAIN r
  <2>1. i + 1 \in DOMAIN q /\ r[i] = q[i + 1] BY <1>2, <1>4
  <2> QED BY <2>1
<1>6. 1 \in DOMAIN q /\ (1 \in S <=> News(Head(q))) BY <1>2, <1>4
<1>7. S \in SUBSET DOMAIN q /\ R \in SUBSET DOMAIN r OBVIOUS
<1> HIDE DEF R, S, q
<1>8. R = Moved(S) BY <1>1, <1>5, <1>7, PlacesMove DEF r, q
<1>9. Bodies(r, R) \in Seq(Nat) BY <1>2, <1>7, BodiesMeans
<1>10. 1 \notin S => Bodies(q, S) = Bodies(r, R) BY <1>1, <1>7, <1>8, BodiesShrink DEF r, q
<1>11. 1 \in S => Bodies(q, S) = <<Head(q).body>> \o Bodies(r, R)
  BY <1>1, <1>7, <1>8, BodiesShrink DEF r, q
<1> QED BY <1>3, <1>6, <1>9, <1>10, <1>11 DEF q, News

\* What becomes of the messages that wait for a receive of p.
LEMMA BoxSent ==
  ASSUME LocalTypes, NEW p \in Program, NEW m \in Messages,
         incoming'[p] = Append(incoming[p], m)
  PROVE  InBox(p)' = Append(InBox(p), m.body)
<1> DEFINE q == incoming[p]
           r == Append(q, m)
<1>1. q \in Seq(Messages) BY PartsAreSeqs
<1>2. /\ DOMAIN r = 1..Len(q) + 1 /\ DOMAIN q = 1..Len(q) /\ Len(q) \in Nat
  BY <1>1, AppendProperties, LenProperties
<1>3. InBox(p)' = Bodies(r, DOMAIN r) /\ InBox(p) = Bodies(q, DOMAIN q) BY DEF InBox
<1> HIDE DEF q
<1>4. DOMAIN r = DOMAIN q \cup {Len(q) + 1} BY <1>2
<1>5. Bodies(r, DOMAIN q \cup {Len(q) + 1}) = Append(Bodies(q, DOMAIN q), m.body)
  BY <1>1, BodiesGrow
<1> QED BY <1>3, <1>4, <1>5

LEMMA BoxTaken ==
  ASSUME LocalTypes, NEW p \in Program, incoming[p] # <<>>, incoming'[p] = Tail(incoming[p])
  PROVE  InBox(p) = <<Head(incoming[p]).body>> \o InBox(p)' /\ InBox(p)' \in Seq(Nat)
<1> DEFINE q == incoming[p]
           r == Tail(q)
<1>1. q \in Seq(Messages) BY PartsAreSeqs
<1>2. r \in Seq(Messages) /\ Len(r) = Len(q) - 1 BY <1>1, HeadTailProperties
<1>3. InBox(p)' = Bodies(r, DOMAIN r) /\ InBox(p) = Bodies(q, DOMAIN q) BY DEF InBox
<1> HIDE DEF r
<1>4. DOMAIN r = 1..Len(r) /\ Len(r) \in Nat /\ DOMAIN q = 1..Len(q) /\ Len(q) \in Nat
  BY <1>1, <1>2, LenProperties
<1>5. (\A i \in DOMAIN r : i \in DOMAIN r <=> i + 1 \in DOMAIN q) /\ 1 \in DOMAIN q
  BY <1>2, <1>4
<1> HIDE DEF q
<1>6. DOMAIN r = Moved(DOMAIN q) BY <1>1, <1>5, PlacesMove DEF r, q
<1>7. Bodies(r, DOMAIN r) \in Seq(Nat) BY <1>2, BodiesMeans
<1>8. Bodies(q, DOMAIN q) = <<Head(q).body>> \o Bodies(r, DOMAIN r)
  BY <1>1, <1>5, <1>6, BodiesShrink DEF r, q
<1> QED BY <1>3, <1>7, <1>8 DEF q

-----------------------------------------------------------------------------
(* The queues and the table implement a box of messages for each program.  *)

BoxReads(p) == [Box(p)!Read]_<<Mail(p), got[p]>>

\* What a publication does to the box it is for.
BoxGets(p) ==
  /\ Mail(p)' = Append(Mail(p), pubs + 1) /\ got'[p] = got[p]
  /\ pubs + 1 \in 1..MaxPubs

LEMMA MailJoins ==
  ASSUME NEW p \in Program
  PROVE  /\ Mail(p) = Joined(InAnswer(p), Fetched(p), InBox(p), Delivered(p), InNews(p))
         /\ Mail(p)' = Joined(InAnswer(p)', Fetched(p)', InBox(p)', Delivered(p)', InNews(p)')
BY DEF Mail, Joined

\* A step that moves a message from one part of a box to the next.
LEMMA Kept ==
  ASSUME NEW p \in Program, got'[p] = got[p],
         Joined(InAnswer(p)', Fetched(p)', InBox(p)', Delivered(p)', InNews(p)')
           = Joined(InAnswer(p), Fetched(p), InBox(p), Delivered(p), InNews(p))
  PROVE  BoxReads(p)
BY MailJoins DEF BoxReads

LEMMA AnswersStay ==
  ASSUME NEW p, respQ'[p] = respQ[p] PROVE InAnswer(p)' = InAnswer(p)
BY DEF InAnswer

LEMMA NewsStay ==
  ASSUME NEW p, down' = down PROVE InNews(p)' = InNews(p)
BY DEF InNews

LEMMA BoxStays ==
  ASSUME NEW p, incoming'[p] = incoming[p] PROVE InBox(p)' = InBox(p)
BY DEF InBox

LEMMA BoxInit == ASSUME Init, NEW p \in Program PROVE Box(p)!Init
<1>1. respQ[p] = <<>> /\ incoming[p] = <<>> /\ down = <<>> /\ got[p] = <<>>
      /\ qpc = "idle" /\ rpc = "idle"
  BY DEF Init
<1>2. \A S : S \subseteq DOMAIN <<>> => Bodies(<<>>, S) = <<>>
  <2> SUFFICES ASSUME NEW S, S \subseteq DOMAIN <<>> PROVE Bodies(<<>>, S) = <<>> OBVIOUS
  <2>1. <<>> \in Seq(Messages) /\ S \in SUBSET DOMAIN <<>> /\ S = {} OBVIOUS
  <2>2. Bodies(<<>>, S) \in Seq(Nat) /\ Len(Bodies(<<>>, S)) = Cardinality(S)
    BY <2>1, BodiesMeans
  <2>3. Cardinality(S) = 0 BY <2>1, FS_EmptySet
  <2> QED BY <2>2, <2>3, EmptySeq
<1>3. InAnswer(p) = <<>> /\ InBox(p) = <<>> /\ InNews(p) = <<>>
  <2>1. InAnswer(p) = <<>>
    <3>1. {i \in DOMAIN respQ[p] : respQ[p][i].body # 0} \subseteq DOMAIN <<>> BY <1>1
    <3> QED BY <1>1, <1>2, <3>1 DEF InAnswer
  <2>2. InBox(p) = <<>> BY <1>1, <1>2 DEF InBox
  <2>3. InNews(p) = <<>>
    <3>1. {i \in DOMAIN down : down[i].type = "PUBLISH" /\ down[i].from = p}
            \subseteq DOMAIN <<>>
      BY <1>1
    <3> QED BY <1>1, <1>2, <3>1 DEF InNews
  <2> QED BY <2>1, <2>2, <2>3
<1>4. Fetched(p) = <<>> /\ Delivered(p) = <<>> BY <1>1 DEF Fetched, Delivered, Held
<1>5. Mail(p) = <<>> BY <1>3, <1>4 DEF Mail
<1> QED BY <1>1, <1>5 DEF Box!Init

LEMMA ReturnBox ==
  ASSUME LocalInv, NEW q \in Program, Return(q), NEW p \in Program PROVE BoxReads(p)
<1> DEFINE answer == Head(respQ[q])
<1>1. LocalTypes /\ QueuesOK /\ ProgramsOK /\ RequestOK(q) BY DEF LocalInv, LocalTypes, RequestsOK
<1>2. /\ InBox(p)' = InBox(p) /\ InNews(p)' = InNews(p)
      /\ Fetched(p)' = Fetched(p) /\ Delivered(p)' = Delivered(p)
  BY BoxStays, NewsStay DEF Return, Fetched, Delivered, Held
<1>3. CASE p # q
  <2>1. respQ'[p] = respQ[p] /\ got'[p] = got[p] BY <1>1, <1>3 DEF Return, QueuesOK, ProgramsOK
  <2> QED BY <1>2, <2>1, AnswersStay, Kept
<1>4. CASE p = q
  <2>1. respQ[p] # <<>> /\ respQ'[p] = Tail(respQ[p]) /\ call[p] \in Request
    BY <1>1, <1>4 DEF Return, QueuesOK
  <2>2. answer \in Replies /\ Replied(p, answer)
    <3>1. respQ[p] \in Seq(Replies) BY <1>1 DEF QueuesOK
    <3>2. answer \in Replies /\ answer = respQ[p][1] /\ 1 \in DOMAIN respQ[p]
      BY <1>4, <2>1, <3>1, HeadTailProperties, LenProperties, EmptySeq
    <3> QED BY <1>1, <1>4, <3>2 DEF RequestOK, CallOK
  <2>3. answer.body # 0 <=> call[p] = "RECEIVE" /\ answer.type = "ACK_OK"
    <3>1. call[p] # "killed" BY <2>1 DEF Request
    <3>2. answer.type = "ACK_OK" /\ answer.body = 0 => call[p] # "RECEIVE"
      BY <2>2, <3>1 DEF Replied, WaitsAck, Waits, AckFor
    <3>3. answer.body # 0 => call[p] = "RECEIVE" BY <2>2, <3>1 DEF Replied, Waits
    <3> QED BY <2>2, <3>2, <3>3 DEF Replies
  <2>4. CASE answer.body = 0
    <3>1. got' = got BY <1>4, <2>3, <2>4 DEF Return
    <3>2. InAnswer(p)' = InAnswer(p) BY <1>1, <1>4, <2>1, <2>4, AnswerTaken
    <3> QED BY <1>2, <3>1, <3>2, Kept
  <2>5. CASE answer.body # 0
    <3> DEFINE x == answer.body
    <3>1. got'[p] = Append(got[p], x)
      BY <1>1, <1>4, <2>3, <2>5 DEF Return, ProgramsOK
    <3>2. InAnswer(p) = <<x>> \o InAnswer(p)' /\ InAnswer(p)' \in Seq(Nat)
      BY <1>1, <1>4, <2>1, <2>5, AnswerTaken
    <3>3. x \in Nat BY <2>2 DEF Replies, Messages
    <3> HIDE DEF x
    <3>4. /\ Fetched(p) \in Seq(Nat) /\ InBox(p) \in Seq(Nat)
          /\ Delivered(p) \in Seq(Nat) /\ InNews(p) \in Seq(Nat)
      BY <1>1, PartsAreSeqs
    <3> DEFINE rest == Joined(InAnswer(p)', Fetched(p), InBox(p), Delivered(p), InNews(p))
    <3>5. Joined(InAnswer(p), Fetched(p), InBox(p), Delivered(p), InNews(p)) = <<x>> \o rest
      <4>1. Joined(Front(x, InAnswer(p)'), Fetched(p), InBox(p), Delivered(p), InNews(p))
              = Front(x, rest)
        BY <3>2, <3>3, <3>4, AnswerRead
      <4> QED BY <3>2, <4>1 DEF Front
    <3>6. rest \in Seq(Nat) BY <3>2, <3>4, ConcatProperties DEF Joined
    <3>7. Mail(p)' = rest /\ Mail(p) = <<x>> \o rest BY <1>2, <3>5, MailJoins
    <3> HIDE DEF rest
    <3>8. Mail(p) # <<>> /\ Head(Mail(p)) = x /\ Tail(Mail(p)) = Mail(p)'
      BY <3>3, <3>6, <3>7, FirstRead
    <3> QED BY <3>1, <3>8 DEF BoxReads, Box!Read
  <2> QED BY <2>4, <2>5
<1> QED BY <1>3, <1>4

\* The steps that leave every part of the boxes alone.
LEMMA QuietBox ==
  ASSUME LocalInv,
         \/ \E q \in Program : Kill(q) \/ \E type \in Request : Call(q, type)
         \/ ReqTake \/ ReqTranslate \/ RespRemove \/ UNCHANGED vars,
         NEW p \in Program
  PROVE  BoxReads(p)
<1>1. UNCHANGED <<respQ, incoming, down, got>>
  BY DEF Kill, Call, ReqTake, ReqTranslate, RespRemove, localPart, programPart, vars
<1>2. Fetched(p)' = Fetched(p)
  BY DEF Kill, Call, ReqTake, ReqTranslate, RespRemove, localPart, vars, Fetched, Held
<1>3. Delivered(p)' = Delivered(p)
  BY DEF Kill, Call, ReqTake, ReqTranslate, RespRemove, localPart, vars, Delivered, Held
<1>4. InAnswer(p)' = InAnswer(p) /\ InBox(p)' = InBox(p) /\ InNews(p)' = InNews(p)
  BY <1>1, AnswersStay, BoxStays, NewsStay
<1> QED BY <1>1, <1>2, <1>3, <1>4, Kept

\* process_receive takes the first message of the program's own queue.
LEMMA FetchBox == ASSUME LocalInv, ReqFetch, NEW p \in Program PROVE BoxReads(p)
<1> DEFINE q == qmsg.mtype
<1>1. LocalTypes /\ QueuesOK /\ ReqHandlerOK BY DEF LocalInv, LocalTypes
<1>2. /\ UNCHANGED <<respQ, down, got, rpc, rmsg>> /\ qpc = "fetch" /\ qpc' = "reply"
      /\ q \in Program /\ qmsg.body = 0
  BY <1>1 DEF ReqFetch, programPart, ReqHandlerOK, Asking
<1>3. /\ InAnswer(p)' = InAnswer(p) /\ InNews(p)' = InNews(p) /\ Delivered(p)' = Delivered(p)
  BY <1>2, AnswersStay, NewsStay DEF Delivered, Held
<1>4. Fetched(p) = None BY <1>2 DEF Fetched, Held, None
<1>5. CASE incoming[q] = <<>>
  <2>1. qmsg' = [qmsg EXCEPT !.type = "ACK_NO_MSG"] /\ UNCHANGED incoming
    BY <1>5 DEF ReqFetch
  <2>2. qmsg'.body = 0 BY <1>1, <1>2, <2>1 DEF ReqHandlerOK, Messages
  <2>3. Fetched(p)' = None BY <2>2 DEF Fetched, Held, None
  <2>4. InBox(p)' = InBox(p) BY <2>1, BoxStays
  <2> QED BY <1>2, <1>3, <1>4, <2>3, <2>4, Kept
<1>6. CASE incoming[q] # <<>>
  <2> DEFINE m == Head(incoming[q])
  <2>1. m \in NewsFor(q)
    <3>1. incoming[q] \in Seq(NewsFor(q)) BY <1>1, <1>2 DEF QueuesOK
    <3> QED BY <1>6, <3>1, HeadTailProperties
  <2>2. /\ incoming' = [incoming EXCEPT ![q] = Tail(@)]
        /\ qmsg' = [m EXCEPT !.type = "ACK_OK"]
    BY <1>6 DEF ReqFetch
  <2>3. qmsg'.body = m.body /\ qmsg'.mtype = q /\ m.body \in Nat \ {0}
    BY <2>1, <2>2 DEF NewsFor, Messages
  <2>4. CASE p # q
    <3>1. Fetched(p)' = None BY <2>3, <2>4 DEF Fetched, Held, None
    <3>2. incoming'[p] = incoming[p] BY <1>1, <2>2, <2>4 DEF QueuesOK
    <3> QED BY <1>2, <1>3, <1>4, <3>1, <3>2, BoxStays, Kept
  <2>5. CASE p = q
    <3> DEFINE x == m.body
    <3>1. incoming[p] # <<>> /\ incoming'[p] = Tail(incoming[p])
      BY <1>1, <1>6, <2>2, <2>5 DEF QueuesOK
    <3>2. InBox(p) = Front(x, InBox(p)') /\ InBox(p)' \in Seq(Nat)
      BY <1>1, <2>5, <3>1, BoxTaken DEF Front
    <3>3. Fetched(p)' = Only(x) BY <1>2, <2>3, <2>5 DEF Fetched, Held, Only
    <3>4. x \in Nat BY <2>3
    <3> HIDE DEF x
    <3>5. InAnswer(p) \in Seq(Nat) /\ Delivered(p) \in Seq(Nat) /\ InNews(p) \in Seq(Nat)
      BY <1>1, PartsAreSeqs
    <3>6. Joined(InAnswer(p), None, Front(x, InBox(p)'), Delivered(p), InNews(p))
            = Joined(InAnswer(p), Only(x), InBox(p)', Delivered(p), InNews(p))
      BY <3>2, <3>4, <3>5, BoxFetched
    <3> QED BY <1>2, <1>3, <1>4, <3>2, <3>3, <3>6, Kept
  <2> QED BY <2>4, <2>5
<1> QED BY <1>5, <1>6

\* The answer to a receive goes to its program.
LEMMA ReplyBox == ASSUME LocalInv, ReqReply, NEW p \in Program PROVE BoxReads(p)
<1> DEFINE q == qmsg.mtype
<1>1. LocalTypes /\ QueuesOK /\ ReqHandlerOK BY DEF LocalInv, LocalTypes
<1>2. /\ UNCHANGED <<incoming, down, got, rpc, rmsg>> /\ qpc = "reply" /\ qpc' = "idle"
      /\ q \in Program /\ q # Nobody /\ qmsg \in Messages
  BY <1>1, Constants DEF ReqReply, programPart, ReqHandlerOK
<1>3. /\ InBox(p)' = InBox(p) /\ InNews(p)' = InNews(p) /\ Delivered(p)' = Delivered(p)
  BY <1>2, BoxStays, NewsStay DEF Delivered, Held
<1>4. Fetched(p)' = None BY <1>2 DEF Fetched, Held, None
<1>5. respQ' = [respQ EXCEPT ![q] = Append(@, qmsg)] BY <1>2 DEF ReqReply, Sent
<1>6. CASE p # q
  <2>1. respQ'[p] = respQ[p] BY <1>1, <1>5, <1>6 DEF QueuesOK
  <2>2. Fetched(p) = None BY <1>6 DEF Fetched, Held, None
  <2> QED BY <1>2, <1>3, <1>4, <2>1, <2>2, AnswersStay, Kept
<1>7. CASE p = q
  <2> DEFINE x == qmsg.body
  <2>1. respQ'[p] = Append(respQ[p], qmsg) BY <1>1, <1>5, <1>7 DEF QueuesOK
  <2>2. InAnswer(p)' = IF x # 0 THEN Behind(InAnswer(p), x) ELSE InAnswer(p)
    BY <1>1, <1>2, <2>1, AnswerSent DEF Behind
  <2>3. Fetched(p) = IF x # 0 THEN Only(x) ELSE None
    BY <1>2, <1>7 DEF Fetched, Held, None, Only
  <2>4. x \in Nat BY <1>2 DEF Messages
  <2> HIDE DEF x
  <2>5. /\ InAnswer(p) \in Seq(Nat) /\ InBox(p) \in Seq(Nat)
        /\ Delivered(p) \in Seq(Nat) /\ InNews(p) \in Seq(Nat)
    BY <1>1, PartsAreSeqs
  <2>6. Joined(InAnswer(p), Only(x), InBox(p), Delivered(p), InNews(p))
          = Joined(Behind(InAnswer(p), x), None, InBox(p), Delivered(p), InNews(p))
    BY <2>4, <2>5, AnswerKept
  <2> QED BY <1>2, <1>3, <1>4, <2>2, <2>3, <2>6, Kept
<1> QED BY <1>6, <1>7

\* The next message from the broker.
LEMMA TakeBox == ASSUME LocalInv, RespTake, NEW p \in Program PROVE BoxReads(p)
<1> DEFINE m == Head(down)
<1>1. LocalTypes /\ QueuesOK BY DEF LocalInv, LocalTypes
<1>2. /\ UNCHANGED <<respQ, incoming, got, qpc, qmsg>> /\ rpc = "idle"
      /\ down # <<>> /\ down' = Tail(down)
  BY DEF RespTake, programPart
<1>3. /\ InAnswer(p)' = InAnswer(p) /\ InBox(p)' = InBox(p) /\ Fetched(p)' = Fetched(p)
  BY <1>2, AnswersStay, BoxStays DEF Fetched, Held
<1>4. Delivered(p) = None BY <1>2 DEF Delivered, Held, None
<1>5. m \in Downward BY Received DEF LocalInv
<1>6. /\ rmsg'.from = m.from /\ rmsg'.body = m.body
      /\ rpc' = "deliver" <=> m.type = "PUBLISH"
  <2>1. \E n : rmsg' = [m EXCEPT !.mtype = n] BY RespTakes DEF LocalInv
  <2>2. rpc' = "deliver" <=> m.type = "PUBLISH" BY DEF RespTake
  <2> QED BY <1>5, <2>1, <2>2 DEF Downward, Messages
<1>7. CASE m.type = "PUBLISH" /\ m.from = p
  <2> DEFINE x == m.body
  <2>1. x \in Nat /\ x # 0 BY <1>5, <1>7 DEF Downward, Messages
  <2>2. InNews(p) = Front(x, InNews(p)') /\ InNews(p)' \in Seq(Nat)
    BY <1>1, <1>2, <1>7, NewsTaken DEF Front
  <2>3. Delivered(p)' = Only(x) BY <1>6, <1>7, <2>1 DEF Delivered, Held, Only
  <2> HIDE DEF x
  <2>4. InAnswer(p) \in Seq(Nat) /\ Fetched(p) \in Seq(Nat) /\ InBox(p) \in Seq(Nat)
    BY <1>1, PartsAreSeqs
  <2>5. Joined(InAnswer(p), Fetched(p), InBox(p), None, Front(x, InNews(p)'))
          = Joined(InAnswer(p), Fetched(p), InBox(p), Only(x), InNews(p)')
    BY <2>1, <2>2, <2>4, NewsFetched
  <2> QED BY <1>2, <1>3, <1>4, <2>2, <2>3, <2>5, Kept
<1>8. CASE ~(m.type = "PUBLISH" /\ m.from = p)
  <2>1. Delivered(p)' = None BY <1>6, <1>8 DEF Delivered, Held, None
  <2>2. InNews(p)' = InNews(p) BY <1>1, <1>2, <1>8, NewsTaken
  <2> QED BY <1>2, <1>3, <1>4, <2>1, <2>2, Kept
<1> QED BY <1>7, <1>8

LEMMA AnswerBox == ASSUME LocalInv, RespAnswer, NEW p \in Program PROVE BoxReads(p)
<1>1. LocalTypes /\ QueuesOK /\ RespHandlerOK BY DEF LocalInv, LocalTypes
<1>2. /\ UNCHANGED <<incoming, down, got, qpc, qmsg>> /\ rpc = "answer" /\ rpc' = "idle"
      /\ rmsg \in Messages /\ rmsg.body = 0
  BY <1>1 DEF RespAnswer, programPart, RespHandlerOK
<1>3. /\ InBox(p)' = InBox(p) /\ InNews(p)' = InNews(p)
      /\ Fetched(p)' = Fetched(p) /\ Delivered(p)' = Delivered(p)
  BY <1>2, BoxStays, NewsStay DEF Fetched, Delivered, Held
<1>4. respQ'[p] = respQ[p] \/ respQ'[p] = Append(respQ[p], rmsg)
  BY <1>1 DEF RespAnswer, Sent, QueuesOK
<1>5. InAnswer(p)' = InAnswer(p) BY <1>1, <1>2, <1>4, AnswersStay, AnswerSent
<1> QED BY <1>2, <1>3, <1>5, Kept

LEMMA DeliverBox == ASSUME LocalInv, RespDeliver, NEW p \in Program PROVE BoxReads(p)
<1> DEFINE q == rmsg.from
           x == rmsg.body
<1>1. LocalTypes /\ QueuesOK /\ RespHandlerOK BY DEF LocalInv, LocalTypes
<1>2. /\ UNCHANGED <<respQ, down, got, qpc, qmsg>> /\ rpc = "deliver" /\ rpc' = "idle"
      /\ q \in Program /\ rmsg \in NewsFor(q)
  BY <1>1 DEF RespDeliver, programPart, RespHandlerOK
<1>3. rmsg.mtype = q /\ q # Nobody /\ x \in Nat /\ x # 0 /\ rmsg \in Messages
  BY <1>2, Constants DEF NewsFor, Messages
<1>4. /\ InAnswer(p)' = InAnswer(p) /\ InNews(p)' = InNews(p) /\ Fetched(p)' = Fetched(p)
  BY <1>2, AnswersStay, NewsStay DEF Fetched, Held
<1>5. Delivered(p)' = None BY <1>2 DEF Delivered, Held, None
<1>6. incoming' = [incoming EXCEPT ![q] = Append(@, rmsg)] BY <1>3 DEF RespDeliver, Sent
<1>7. CASE p # q
  <2>1. Delivered(p) = None BY <1>7 DEF Delivered, Held, None
  <2>2. incoming'[p] = incoming[p] BY <1>1, <1>6, <1>7 DEF QueuesOK
  <2> QED BY <1>2, <1>4, <1>5, <2>1, <2>2, BoxStays, Kept
<1>8. CASE p = q
  <2>1. Delivered(p) = Only(x) BY <1>2, <1>3, <1>8 DEF Delivered, Held, Only
  <2>2. incoming'[p] = Append(incoming[p], rmsg) BY <1>1, <1>6, <1>8 DEF QueuesOK
  <2>3. InBox(p)' = Behind(InBox(p), x) BY <1>1, <1>3, <2>2, BoxSent DEF Behind
  <2> HIDE DEF x
  <2>4. /\ InAnswer(p) \in Seq(Nat) /\ Fetched(p) \in Seq(Nat)
        /\ InBox(p) \in Seq(Nat) /\ InNews(p) \in Seq(Nat)
    BY <1>1, PartsAreSeqs
  <2>5. Joined(InAnswer(p), Fetched(p), Behind(InBox(p), x), None, InNews(p))
          = Joined(InAnswer(p), Fetched(p), InBox(p), Only(x), InNews(p))
    BY <1>3, <2>4, BoxFilled
  <2> QED BY <1>2, <1>4, <1>5, <2>1, <2>3, <2>5, Kept
<1> QED BY <1>7, <1>8

LEMMA ServerBox == ASSUME LocalInv, ServerStep, NEW p \in Program PROVE BoxReads(p)
<1>1. LocalTypes BY DEF LocalInv
<1>2. UNCHANGED <<respQ, incoming, got, qpc, qmsg, rpc, rmsg>>
  BY DEF ServerStep, localPart, programPart
<1>3. PICK m \in Downward : down' = Append(down, m) /\ m.type # "PUBLISH"
  <2>1. PICK q \in Program, g \in GlobalId,
             t \in {"ACK_CREATE", "ACK_ERROR", "ACK_OK", "ACK_DESTROY"} :
          down' = Append(down, Msg(g, t, q, 0)) /\ Msg(g, t, q, 0) \in Downward
    BY <1>1, ServerAnswers
  <2>2. Msg(g, t, q, 0).type # "PUBLISH" BY DEF Msg
  <2> QED BY <2>1, <2>2
<1>4. InNews(p)' = InNews(p)
  <2>1. m \in Messages BY DEF Downward
  <2> QED BY <1>1, <1>3, <2>1, NewsSent
<1>5. /\ InAnswer(p)' = InAnswer(p) /\ InBox(p)' = InBox(p)
      /\ Fetched(p)' = Fetched(p) /\ Delivered(p)' = Delivered(p)
  BY <1>2, AnswersStay, BoxStays DEF Fetched, Delivered, Held
<1> QED BY <1>2, <1>4, <1>5, Kept

\* A publication goes to the end of one box, under a number of its own.
LEMMA PublishBox ==
  ASSUME LocalInv, ServerPublish, NEW p \in Program
  PROVE  BoxReads(p) \/ BoxGets(p)
<1>1. LocalTypes /\ ServerOK /\ ProgramsOK BY DEF LocalInv, LocalTypes
<1>2. UNCHANGED <<respQ, incoming, got, qpc, qmsg, rpc, rmsg>> /\ pubs < MaxPubs
  BY DEF ServerPublish, localPart, programPart
<1> DEFINE x == pubs + 1
<1>3. PICK s \in server.subs : down' = Append(down, Msg(s[1], "PUBLISH", s[2], x))
  BY DEF ServerPublish
<1> DEFINE m == Msg(s[1], "PUBLISH", s[2], x)
<1>4. x \in Nat /\ x \in 1..MaxPubs
  <2>1. pubs \in Nat /\ MaxPubs \in Nat BY <1>1, LocalAssumption DEF ProgramsOK
  <2> QED BY <1>2, <2>1
<1>5. m \in Messages /\ m.type = "PUBLISH" /\ m.from = s[2] /\ m.body = x
  <2>1. s[1] \in GlobalId /\ s[2] \in Program BY <1>1 DEF ServerOK
  <2> QED BY <1>4, <2>1 DEF Msg, Messages, MsgTypes, Request, Who
<1>6. /\ InAnswer(p)' = InAnswer(p) /\ InBox(p)' = InBox(p)
      /\ Fetched(p)' = Fetched(p) /\ Delivered(p)' = Delivered(p)
  BY <1>2, AnswersStay, BoxStays DEF Fetched, Delivered, Held
<1> HIDE DEF x, m
<1>7. InNews(p)' = IF s[2] = p THEN Behind(InNews(p), x) ELSE InNews(p)
  <2>1. down' = Append(down, m) BY <1>3 DEF m
  <2> QED BY <1>1, <1>5, <2>1, NewsSent DEF Behind
<1>8. CASE s[2] # p BY <1>2, <1>6, <1>7, <1>8, Kept
<1>9. CASE s[2] = p
  <2>1. /\ InAnswer(p) \in Seq(Nat) /\ Fetched(p) \in Seq(Nat) /\ InBox(p) \in Seq(Nat)
        /\ Delivered(p) \in Seq(Nat) /\ InNews(p) \in Seq(Nat)
    BY <1>1, PartsAreSeqs
  <2>2. Joined(InAnswer(p), Fetched(p), InBox(p), Delivered(p), Behind(InNews(p), x))
          = Behind(Joined(InAnswer(p), Fetched(p), InBox(p), Delivered(p), InNews(p)), x)
    <3>1. x \in Nat BY <1>4
    <3> QED BY <2>1, <3>1, NewsAdded
  <2>3. Mail(p)' = Append(Mail(p), x) BY <1>6, <1>7, <1>9, <2>2, MailJoins DEF Behind
  <2> QED BY <1>2, <1>4, <2>3 DEF BoxGets, x
<1> QED BY <1>8, <1>9

\* The numbers of the publications so far, the only ones that a box holds.
UpToPubs(q) == \A i \in DOMAIN q : q[i] <= pubs
Numbered(p) == UpToPubs(Mail(p)) /\ UpToPubs(got[p])

\* What stays true of the numbers of a box and of what was read from it.
LEMMA NumbersMove ==
  ASSUME NEW n \in Nat, NEW q \in Seq(Nat), NEW r \in Seq(Nat),
         \A i \in DOMAIN q : q[i] <= n, \A i \in DOMAIN r : r[i] <= n
  PROVE  /\ n + 1 \notin Range(q) \cup Range(r)
         /\ \A i \in DOMAIN Append(q, n + 1) : Append(q, n + 1)[i] <= n + 1
         /\ \A i \in DOMAIN r : r[i] <= n + 1
         /\ q # <<>> => /\ Tail(q) \in Seq(Nat) /\ Append(r, Head(q)) \in Seq(Nat)
                        /\ \A i \in DOMAIN Tail(q) : Tail(q)[i] <= n
                        /\ \A i \in DOMAIN Append(r, Head(q)) : Append(r, Head(q))[i] <= n
<1>1. /\ DOMAIN q = 1..Len(q) /\ Len(q) \in Nat /\ \A i \in DOMAIN q : q[i] \in Nat
      /\ DOMAIN r = 1..Len(r) /\ Len(r) \in Nat /\ \A i \in DOMAIN r : r[i] \in Nat
  BY LenProperties, ElementOfSeq
<1>2. n + 1 \notin Range(q) \cup Range(r) BY <1>1 DEF Range
<1>3. \A i \in DOMAIN Append(q, n + 1) : Append(q, n + 1)[i] <= n + 1
  BY <1>1, AppendProperties
<1>4. \A i \in DOMAIN r : r[i] <= n + 1 BY <1>1
<1>5. ASSUME q # <<>>
      PROVE  /\ Tail(q) \in Seq(Nat) /\ Append(r, Head(q)) \in Seq(Nat)
             /\ \A i \in DOMAIN Tail(q) : Tail(q)[i] <= n
             /\ \A i \in DOMAIN Append(r, Head(q)) : Append(r, Head(q))[i] <= n
  <2>1. /\ Tail(q) \in Seq(Nat) /\ Len(Tail(q)) = Len(q) - 1 /\ Len(q) >= 1
        /\ \A i \in 1..Len(Tail(q)) : Tail(q)[i] = q[i + 1]
        /\ Head(q) = q[1]
    BY <1>1, <1>5, HeadTailProperties, EmptySeq
  <2>2. DOMAIN Tail(q) = 1..Len(Tail(q)) BY <2>1, LenProperties
  <2>3. \A i \in DOMAIN Tail(q) : Tail(q)[i] <= n BY <1>1, <2>1, <2>2
  <2>4. Head(q) \in Nat /\ Head(q) <= n BY <1>1, <2>1
  <2>5. \A i \in DOMAIN Append(r, Head(q)) : Append(r, Head(q))[i] <= n
    BY <1>1, <2>4, AppendProperties
  <2>6. Append(r, Head(q)) \in Seq(Nat) BY <2>4, AppendProperties
  <2> QED BY <2>1, <2>3, <2>5, <2>6
<1> QED BY <1>2, <1>3, <1>4, <1>5

\* A box is read, or gets a message that it has never held.
BoxStep(p) == [Box(p)!Next]_<<Mail(p), got[p]>>

LEMMA JoinedIsSeq ==
  ASSUME NEW a \in Seq(Nat), NEW b \in Seq(Nat), NEW c \in Seq(Nat), NEW d \in Seq(Nat),
         NEW e \in Seq(Nat)
  PROVE  Joined(a, b, c, d, e) \in Seq(Nat)
<1>1. a \o b \in Seq(Nat) BY ConcatProperties
<1>2. (a \o b) \o c \in Seq(Nat) BY <1>1, ConcatProperties
<1>3. ((a \o b) \o c) \o d \in Seq(Nat) BY <1>2, ConcatProperties
<1>4. (((a \o b) \o c) \o d) \o e \in Seq(Nat) BY <1>3, ConcatProperties
<1> QED BY <1>4 DEF Joined

LEMMA MailIsSeq ==
  ASSUME LocalInv, NEW p \in Program
  PROVE  Mail(p) \in Seq(Nat) /\ got[p] \in Seq(Nat) /\ pubs \in Nat
<1>1. LocalTypes /\ ProgramsOK BY DEF LocalInv, LocalTypes
<1>2. got[p] \in Seq(Nat) /\ pubs \in Nat BY <1>1 DEF ProgramsOK
<1>3. /\ InAnswer(p) \in Seq(Nat) /\ Fetched(p) \in Seq(Nat) /\ InBox(p) \in Seq(Nat)
      /\ Delivered(p) \in Seq(Nat) /\ InNews(p) \in Seq(Nat)
  BY <1>1, PartsAreSeqs
<1>4. Joined(InAnswer(p), Fetched(p), InBox(p), Delivered(p), InNews(p)) \in Seq(Nat)
  BY <1>3, JoinedIsSeq
<1>5. Mail(p) \in Seq(Nat) BY <1>4, MailJoins
<1> QED BY <1>2, <1>5

\* The numbers of a box are kept by a reading and by a publication.
LEMMA BoxSteps ==
  ASSUME LocalInv, NEW p \in Program, Numbered(p),
         \/ BoxReads(p) /\ pubs' \in {pubs, pubs + 1}
         \/ BoxGets(p) /\ pubs' = pubs + 1
  PROVE  BoxStep(p) /\ Numbered(p)'
<1>1. Mail(p) \in Seq(Nat) /\ got[p] \in Seq(Nat) /\ pubs \in Nat BY MailIsSeq
<1>2. (\A i \in DOMAIN Mail(p) : Mail(p)[i] <= pubs) /\ (\A i \in DOMAIN got[p] : got[p][i] <= pubs)
  BY DEF Numbered, UpToPubs
<1>3. Numbered(p)' <=> /\ \A i \in DOMAIN Mail(p)' : Mail(p)'[i] <= pubs'
                       /\ \A i \in DOMAIN got'[p] : got'[p][i] <= pubs'
  BY DEF Numbered, UpToPubs
<1>4. BoxReads(p) <=> \/ Mail(p)' = Mail(p) /\ got'[p] = got[p]
                      \/ /\ Mail(p) # <<>>
                         /\ got'[p] = Append(got[p], Head(Mail(p)))
                         /\ Mail(p)' = Tail(Mail(p))
  BY DEF BoxReads, Box!Read
<1>5. BoxGets(p) <=> /\ Mail(p)' = Append(Mail(p), pubs + 1) /\ got'[p] = got[p]
                     /\ pubs + 1 \in 1..MaxPubs
  BY DEF BoxGets
<1>6. /\ BoxReads(p) => BoxStep(p)
      /\ BoxGets(p) /\ pubs + 1 \notin Range(Mail(p)) \cup Range(got[p]) => BoxStep(p)
  <2>1. BoxReads(p) => BoxStep(p) BY DEF BoxReads, BoxStep, Box!Next
  <2>2. ASSUME BoxGets(p), pubs + 1 \notin Range(Mail(p)) \cup Range(got[p])
        PROVE  BoxStep(p)
    <3>1. Box(p)!Post(pubs + 1) BY <2>2 DEF BoxGets, Box!Post, Range, Box!Range
    <3> QED BY <2>2, <3>1 DEF BoxGets, BoxStep, Box!Next
  <2> QED BY <2>1, <2>2
<1> DEFINE q == Mail(p)
           r == got[p]
           n == pubs
<1>7. q \in Seq(Nat) /\ r \in Seq(Nat) /\ n \in Nat BY <1>1
<1>8. (\A i \in DOMAIN q : q[i] <= n) /\ (\A i \in DOMAIN r : r[i] <= n) BY <1>2
<1> HIDE DEF q, r, n
<1>9. /\ n + 1 \notin Range(q) \cup Range(r)
      /\ \A i \in DOMAIN Append(q, n + 1) : Append(q, n + 1)[i] <= n + 1
      /\ \A i \in DOMAIN r : r[i] <= n + 1
      /\ q # <<>> => /\ Tail(q) \in Seq(Nat) /\ Append(r, Head(q)) \in Seq(Nat)
                     /\ \A i \in DOMAIN Tail(q) : Tail(q)[i] <= n
                     /\ \A i \in DOMAIN Append(r, Head(q)) : Append(r, Head(q))[i] <= n
  BY <1>7, <1>8, NumbersMove
<1>10. CASE BoxGets(p) /\ pubs' = pubs + 1 BY <1>3, <1>5, <1>6, <1>9, <1>10 DEF q, r, n
<1>11. CASE BoxReads(p) /\ pubs' \in {pubs, pubs + 1}
  <2>1. /\ \A i \in DOMAIN Mail(p)' : Mail(p)'[i] <= pubs
        /\ \A i \in DOMAIN got'[p] : got'[p][i] <= pubs
    BY <1>2, <1>4, <1>9, <1>11 DEF q, r, n
  <2>2. Mail(p)' \in Seq(Nat) /\ got'[p] \in Seq(Nat)
    BY <1>1, <1>4, <1>9, <1>11 DEF q, r
  <2>3. /\ \A i \in DOMAIN Mail(p)' : Mail(p)'[i] \in Nat
        /\ \A i \in DOMAIN got'[p] : got'[p][i] \in Nat
    BY <2>2, LenProperties, ElementOfSeq
  <2>4. Numbered(p)' BY <1>1, <1>3, <1>11, <2>1, <2>3
  <2> QED BY <1>6, <1>11, <2>4
<1> QED BY <1>10, <1>11

\* For any number of programs and messages, the handlers, their queues and the
\* table of ids implement a box of messages for each subscriber: nothing is lost,
\* doubled, put out of order or left in another box
\* (broker_resp_handler.c:51-59, broker_req_handler.c:81-108).
THEOREM LocalBoxesKept == Spec => BoxesKept
<1> DEFINE AllNumbered == \A p \in Program : Numbered(p)
<1>1. Init => (\A p \in Program : Box(p)!Init) /\ AllNumbered
  <2> SUFFICES ASSUME Init, NEW p \in Program PROVE Box(p)!Init /\ Numbered(p) OBVIOUS
  <2>1. Box(p)!Init BY BoxInit
  <2>2. Mail(p) = <<>> /\ got[p] = <<>> BY <2>1 DEF Box!Init
  <2> QED BY <2>1, <2>2 DEF Numbered, UpToPubs
<1>2. LocalInv /\ AllNumbered /\ [Next]_vars =>
        /\ [\A p \in Program : [Box(p)!Next]_<<Mail(p), got[p]>>]_vars
        /\ AllNumbered'
  <2> SUFFICES ASSUME LocalInv, [Next]_vars, NEW p \in Program, Numbered(p)
               PROVE  BoxStep(p) /\ Numbered(p)'
    BY DEF BoxStep
  <2> DEFINE Reads == BoxReads(p) /\ pubs' = pubs
  <2>1. ASSUME NEW q \in Program, Return(q) PROVE Reads
    BY <2>1, ReturnBox DEF Return, serverPart
  <2>2. ASSUME NEW q \in Program, Kill(q) \/ \E type \in Request : Call(q, type)
        PROVE  Reads
    BY <2>2, QuietBox DEF Kill, Call, serverPart
  <2>3. ASSUME ReqHandler PROVE Reads
    <3>1. BoxReads(p) BY <2>3, QuietBox, FetchBox, ReplyBox DEF ReqHandler
    <3>2. pubs' = pubs
      BY <2>3 DEF ReqHandler, ReqTake, ReqTranslate, ReqFetch, ReqReply, serverPart
    <3> QED BY <3>1, <3>2
  <2>4. ASSUME RespHandler PROVE Reads
    <3>1. BoxReads(p) BY <2>4, QuietBox, TakeBox, AnswerBox, DeliverBox DEF RespHandler
    <3>2. pubs' = pubs
      BY <2>4 DEF RespHandler, RespTake, RespRemove, RespAnswer, RespDeliver, serverPart
    <3> QED BY <3>1, <3>2
  <2>5. ASSUME ServerStep PROVE Reads BY <2>5, ServerBox DEF ServerStep
  <2>6. ASSUME UNCHANGED vars PROVE Reads BY <2>6, QuietBox DEF vars, serverPart
  <2>7. CASE ServerPublish
    <3>1. BoxReads(p) \/ BoxGets(p) BY <2>7, PublishBox
    <3>2. pubs' = pubs + 1 BY <2>7 DEF ServerPublish
    <3> QED BY <3>1, <3>2, BoxSteps
  <2>8. ASSUME Reads PROVE BoxStep(p) /\ Numbered(p)' BY <2>8, BoxSteps
  <2> HIDE DEF Reads
  <2> QED BY <2>1, <2>2, <2>3, <2>4, <2>5, <2>6, <2>7, <2>8 DEF Next
<1> QED BY <1>1, <1>2, LocalInvariant, PTL DEF Spec, BoxesKept
=============================================================================
