---------------------------- MODULE MCBrokerRing ----------------------------
(* Instances of the ring of brokers for TLC.                               *)
EXTENDS BrokerRingInvariants, TLC

CONSTANTS c1, c2, c3

\* One client per broker; two clients of the first broker.
HomeSpread == c1 :> 1 @@ c2 :> 2
HomeThree == c1 :> 1 @@ c2 :> 2 @@ c3 :> 3
HomeTogether == c2 :> 1 @@ c3 :> 1

\* Clients 2 and 3 share a broker and may be exchanged.
PairSymmetry == Permutations({c2, c3})

\* What an uninitialised reply may hold: nothing, the id of a client, or 0, the
\* id of the next broker.
OneLine(i) == {[pos |-> 1, id |-> i]}
GarbageLists == {{}, OneLine(0), OneLine(1), OneLine(2)}
NoGarbage == {{}}

(***************************************************************************)
(* A state the program reaches: every broker serves, every client has      *)
(* created its id, the clients in S are subscribed to every topic and      *)
(* those in Twice were so before, so that they have two lines.             *)
(***************************************************************************)
IdOf == CHOOSE f \in [Client -> 1..Cardinality(Client)] :
          \A c, d \in Client : c # d => f[c] # f[d]

Ready(S, Twice) ==
  /\ users = {IdOf[c] : c \in Client}
  /\ LET rank(c, T) == Cardinality({d \in T : IdOf[d] <= IdOf[c]})
     IN  topics = [t \in Topic |->
           {[pos |-> rank(c, Twice), id |-> IdOf[c]] : c \in Twice} \cup
           {[pos |-> Cardinality(Twice) + rank(c, S), id |-> IdOf[c]] : c \in S}]
  /\ \E f \in [Broker -> UNION {[1..n -> Client] : n \in 0..Cardinality(Client)}] :
       /\ \A b \in Broker :
            /\ {f[b][i] : i \in DOMAIN f[b]} = {c \in Client : Home[c] = b}
            /\ \A i, j \in DOMAIN f[b] : i < j => IdOf[f[b][i]] < IdOf[f[b][j]]
       /\ ids = [b \in Broker |-> <<Entry(0, b)>> \o
                  [i \in DOMAIN f[b] |-> Entry(IdOf[f[b][i]], f[b][i])]]
  /\ ring = [b \in Broker |-> "serving"]
  /\ conn = [c \in Client |-> "on"]
  /\ up = [x \in Connection |-> <<>>]
  /\ workerQ = [b \in Broker |-> <<>>]
  /\ wpc = [b \in Broker |-> "idle"]
  /\ wmsg = [b \in Broker |-> Idle]
  /\ wsubs = [b \in Broker |-> {}]
  /\ wrelayed = [b \in Broker |-> FALSE]
  /\ respQ = [x \in Connection |-> <<>>]
  /\ down = [c \in Client |-> <<>>]
  /\ gid = IdOf
  /\ wait = [c \in Client |-> "none"]
  /\ asked = [c \in Client |->
                [t \in Topic |-> Cardinality({c} \cap S) + Cardinality({c} \cap Twice)]]
  /\ got = [c \in Client |-> [p \in 1..MaxPubs |-> 0]]
  /\ pubs = <<>>
  /\ strayed = {}
  /\ created = Cardinality(Client)

AllSubscribed == Ready(Client, {}) /\ [][Next]_vars
OneTwice == Ready(Client, {c2}) /\ [][Next]_vars
=============================================================================
