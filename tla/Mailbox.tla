------------------------------- MODULE Mailbox -------------------------------
(***************************************************************************)
(* What the local broker promises a program about the messages of the      *)
(* topics it subscribed to: they wait for it in a box of its own and it    *)
(* reads them in the order they were posted, each one once.                *)
(***************************************************************************)
EXTENDS Sequences, Functions

CONSTANT Message

VARIABLES
  mail,               \* messages posted that the program has not read
  read                \* messages it has read

Init == mail = <<>> /\ read = <<>>

\* A message is posted once: one that waits or has been read never comes again.
Post(m) ==
  /\ m \notin Range(mail) \cup Range(read)
  /\ mail' = Append(mail, m)
  /\ UNCHANGED read

Read ==
  /\ mail # <<>>
  /\ read' = Append(read, Head(mail))
  /\ mail' = Tail(mail)

Next == Read \/ \E m \in Message : Post(m)

Spec == Init /\ [][Next]_<<mail, read>>
=============================================================================
