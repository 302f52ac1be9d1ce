# Verification of the course projects

This directory specifies and verifies the three programs of the repository that
keep state between concurrent processes.  The largest is the message-oriented
middleware (MOM) of `src/broker`: a ring of brokers, a local broker on every
client machine and a central database, written in C over System V queues, shared
memory, semaphores and TCP sockets.  `src/museum` is a simulation of a museum
over the same primitives, and `src/tp-final` a web application in Java,
ContabilidApp, whose requests meet in a database.  TLC checks the modules on
small instances; TLAPS proves the most important invariants for every number of
brokers, clients, visitors, uploads and so on.

## 1. The system

### Components

| Component | Code | State | Operations |
|---|---|---|---|
| Broker server | `broker/server/server.c`, `req_handler.c`, `resp_handler.c`, `worker.c`, `ring_connection.c` | queues `WORKER_QUEUE` and `RESP_QUEUE`, one socket per connection, the worker's message | start, join the ring, accept; CREATE, SUBSCRIBE, PUBLISH, DESTROY; pass a publication on; stop |
| Table of global ids | `broker/server/global_id.c` | an array of (id, response handler), a count, a semaphore | add, look up, remove |
| Database | `broker/db-server/` | a file per user, a file per topic with a line per subscription, a semaphore | add user, subscribe, list the subscribers, delete user |
| Local broker | `broker/client/` | a table of (pid, global id), three queues, a socket to the server | the five calls of the library: `creabrk`, `subscribe`, `publish`, `receive`, `delbrk` |
| IPC wrappers | `broker/common/ipc/` | none | blocking queue operations, semaphores, sockets |
| Containers, log | `broker/common/ds`, `broker/common/log` | local | vectors, lists, printing |
| museum | `museum/src` | free places, people waiting for a tour, the open flag, a pair of queues per door and for the guide | enter, leave, register for a tour; guide, timer, administrator |
| ContabilidApp | `tp-final/contabilidapp-backend` | tables of periods, clients, files and transactions | open and close a period, upload a file, control a period |
| Exercises | `ejercicioDebug`, `sockets`, `rpc`, `rmi`, `java-ee`, `src/Main.java` | none worth modelling | examples of the course |

### How they interact

A program calls the library; the call puts a message with the program's pid in
the queue of the local broker and waits for the answer on another queue.  The
local broker's request handler translates the pid to the global id and writes to
the socket of its server.  There the connection's request handler moves the
message to `WORKER_QUEUE`.  The worker (one, `WORKERS` is 1) looks the id up in
the table of ids, which gives the pid of the connection's response handler, asks
the database and puts the answer in `RESP_QUEUE` under that pid; the response
handler writes it to the socket.  A publication is also put in `RESP_QUEUE` once
for each subscriber of this broker and, if some subscriber is not in the table,
once for the ring connection, a response handler registered under id 0 whose
socket leads to the next broker.  The next broker's request handler for that
socket gives it to its worker like any other message.  A broker recognises its
own publications, and what is to be answered, by `broker_id`.

### What is hard

* The workers of different brokers interleave between their calls to the
  database and to their tables; ids are reused while old ones are still in use.
* A publication circulates while subscribers come and go: it must be passed on
  once, stop, and be answered once.
* Start-up: brokers send to each other before all have joined.
* Queues and tables are bounded, and their users block or give up.
* A client machine stops and nobody cleans up after it.
* A reply that is partly uninitialised.
* The database's machine stops between two writes of one operation.
* Programs of a machine create ids at the same time, and the answers from the
  broker do not say for which of them they are.
* The museum keeps one fact in two places, a count and a queue, and the guide
  reads one to know what is in the other.
* The tables of ContabilidApp are MyISAM: every statement is visible at once, and
  what a request has tested may have changed when it writes.

## 2. Modules

| Module | What it is |
|---|---|
| `SubscriptionDb` | the database as its callers see it: one action per operation |
| `DbFiles` | the database as it works: its files, its semaphore, a handler per broker, a machine that stops; implements `SubscriptionDb` |
| `GlobalIds` | the table of ids as operators on sequences |
| `BrokerRing` | the brokers, their connections and their clients, over the two modules above |
| `BrokerRingProperties` | the properties of the ring |
| `BrokerRingInvariants` | the inductive invariant of the proofs about messages: what each queue, table and worker may hold |
| `Mailbox` | what a subscriber is promised of its messages: a box in their order |
| `Ascending` | the sequence of a finite set of numbers, in their order |
| `LocalBroker` | the client machine: programs, both handlers, table and queues; implements a `Mailbox` for each program |
| `Museum` | visitors, doors, guide, timer and administrator, with the inductive invariant of its proofs |
| `UploadPeriods` | the requests of ContabilidApp over its tables |
| `MCBrokerRing`, `MCDbFiles`, `MCLocalBroker`, `MCUploadPeriods` | instances for TLC: homes of clients, initial states, garbage, contents of files, symmetry |
| `IntegerSets`, `BrokerRing_proofs`, `BrokerIds_proofs`, `BrokerCopies_proofs`, `DbFiles_proofs`, `LocalBroker_proofs`, `Museum_proofs`, `UploadPeriods_proofs` | inductive invariants, lemmas and theorems |

### `SubscriptionDb`

`users` is the set of file names in `db/users`; `topics[t]` is the file of topic
`t` as a set of lines with their positions (`pos` is 1 for the first line).
Every operation of `db.c` runs under the database's semaphore from its first
read to its last write, so each is one action; `DbFiles` takes them apart and
implements this module.  `NextId` is `get_next_id`: the
largest name plus one, so the ids of deleted users come back when they were the
largest.  `DbSubscribe` appends a line even if the id has one.  `Without` is the
rewriting of a topic's file in `unsubscribe`.  `DbGetSubscribed` is a set of
possible replies: the first `MAX_CLIENTS` lines if there are lines, and any of
`Garbage` if there is none, because then `process_get_subscribed` never writes
the count and `db_get_subscribed` reads its own uninitialised message.

### `DbFiles`

| Variable | Code |
|---|---|
| `userFile[id]` | the lines of `db/users/<id>`: topics, in the order of the subscriptions |
| `topicFile[t]` | the lines of `db/topics/<t>`; the temporary file of `db.c` lies in the same directory under the name `TMP_FILE` |
| `sem` | the semaphore `DB_SEM` |
| `hpc[h]`, `hmsg[h]`, `hline[h]` | the handler process of a broker: its next step, its `db_msg_t` (`type` becomes the reply), the line of the user's file that `db_delete` is at |
| `crashes` | how often the machine stopped |
| `held`, `acked`, `stable` | history: ids given out, subscriptions answered `DB_OK`, the files when the semaphore was last released |

`Receive` is the handler's read of a request, `Enter` is `p(sem)` together with
the test that comes before any write, and `Leave`, the last conjunct of every
way out, is `v(sem)` and the reply.  In between there is one action per write:
`ScanUsers`, `CreateUser` (`db_add_user`); `TouchTopic`, `ListTopic`, `AddLine`
(`db_subscribe`: the topic's file, the user's line, the topic's line, in this
order); and for each line of the user's file `OpenTmp`, `CopyOthers`, `Rename`,
or `GiveUp` if the topic has no file, and at last `RemoveUser` (`db_delete`).
`Read` is `db_get_subscribed`, whose reply `SubscriptionDb` models.

`Crash` stops the machine between any two writes.  The server is then started
again with a new semaphore and the files as they were written; nobody learns how
the request under way ended, so neither `held` nor `acked` records it.  Every
`fclose` that has returned is taken to be durable, and in the order of the calls.
`db.c` never calls `fsync`, so this is a stop of the processes or an orderly one
of the system, not a loss of power, after which the system could have
written a rename and not the lines before it.  The kill of a single handler, which leaves the semaphore taken, is not modelled (section 7).

Left out: failures of `fopen` and `write`, a write that is lost in a stdio
buffer or cut in the middle of a line, and the accepting process.  `MaxUsers`
and `MaxLines` bound `Receive` only, `MaxCrashes` bounds `Crash`.

### `GlobalIds`

The table is a sequence of entries.  Searches find the first match; removal
shifts the later entries down; a table is full at `MAX_CLIENTS` entries.

### `BrokerRing`

Brokers are `1..N`, in the order of the ring.  A connection is named by its
client, or by the broker it leads to when it comes from the previous broker; a
response handler (in the code, its pid) is named by its client, or by its broker
when it is the ring connection.

| Variable | Code |
|---|---|
| `ids[b]` | shared memory of `global_id.c` |
| `ring[b]` | progress of `ring_connection.c` and of `main` in `server.c`: `boot`, `connected` (the socket is open, which is also when the next broker accepts it), `linked` (id 0 is in the table and the setup message sent), `serving` |
| `conn[c]` | the connection of client machine `c`: `off`, `on`, `lost` (the machine stopped), `ended` (its handlers too) |
| `up[x]`, `down[c]` | bytes in the sockets, towards the broker and towards the client |
| `workerQ[b]` | `WORKER_QUEUE` |
| `respQ[x]` | the messages of `RESP_QUEUE` with the mtype of response handler `x`; the handlers of a broker share its capacity (`RespLoad`) |
| `wpc`, `wmsg`, `wsubs`, `wrelayed` | the worker: next step, `msg`, the subscribers not yet served, `already_sent_to_next_server` |
| `gid`, `wait`, `asked`, `got` | the client: its id, the call it waits in, how often it subscribed under this id, copies received |
| `pubs`, `strayed`, `created` | history: publications and who was subscribed when they were sent, those sent to an uninitialised list, number of CREATE requests |

The actions follow the code's processes: `RingConnect`, `RingRegister` and
`StartServing` (start-up), `AcceptClient`, `LoseClient`, `EndHandlers`
(connections), `Create`, `SubscribeTo`, `Publish`, `Destroy`, `ClientReceive`
(the client machine), `ReqHandler`, `RespHandler`, `RingRespHandler` (handlers),
and the worker: one step per call that touches shared state, so that another
process can act in between.  `process_create` is `CreateUser` and `CreateId`;
`process_publish` is `DiscardPublish`, `RejectPublish` or `FetchSubs`, then
`SendToLocal` and `SendToRing` once per subscriber, then `EndFanOut`;
`process_destroy` is `DeleteUser` and `RemoveId`; the final `sendmsg` of
`process_msg` is `Respond`.  A `sendmsg` waits for room; with the mtype -2
(`NO_MTYPE_FOUND_CODE`) it fails, and there is no answer.

Definitions whose comment begins with *Variant* are wrong versions of the one
that follows.  No specification uses them; replacing the right one by its
variant makes a property fail, which shows that the property depends on it.

### `LocalBroker`

| Variable | Code |
|---|---|
| `sem`, `table` | `BROKER_IDS_SEM` and the first `count` entries of `broker_ids_t` |
| `reqQ`, `respQ[p]`, `incoming[p]` | `BROKER_REQ_MSG`; the messages of `BROKER_RESP_MSG` and of `INCOMING_MSG_QUEUE` with mtype `p`, whose capacity all programs share |
| `qpc`, `qmsg`; `rpc`, `rmsg` | next step and message of `broker_req_handler` and of `broker_resp_handler` |
| `up`, `down` | the socket to the broker and from it |
| `call[p]`, `made` | the library call that program `p` is in; the programs that `creabrk` gave an id |
| `got`, `grant` | history: what `receive` returned; which id answered whose CREATE |
| `server`, `pubs`, `refused` | the broker at the other end of the socket: the users of its database, the ids in its table, the subscriptions of this machine |

A program's call is `Call` and `Return` (every function of `broker.c` is a
`send` and a `recv`); `Kill`, which is not in the code, ends a program anywhere.  `process_msg` is
`ReqTake`, then `ReqTranslate` (`get_global_id` and the write to the socket) or
`ReqFetch` and `ReqReply` (`process_receive`).  `process_message` is `RespTake`,
then `RespRemove`, and at last `RespAnswer` or `RespDeliver`.  Each operation on
the table is one step because it holds the semaphore throughout; a handler that
has taken a message and waits for the semaphore is not told from one that has
not, so that taking and the first table operation are one step.  A CREATE that
finds the table full returns from `add_local_id` without `v(sem)`: `sem` stays 0
and nothing else happens.

`set_global_id` fills the first entry without an id (`EntryToFill`), because the
answer to a CREATE carries the new id and nothing of the program.  The field
`from` of a message is not in the code; it says whom a message concerns and only
the properties read it.

The broker is the worker of `server/worker.c` in short: `ServerCreate` is
`process_create`, `ServerOther` the three requests with an id, `ServerPublish` a
turn of `send_to_subs`.  It answers the requests of a connection in their order,
gives out free ids, may refuse a CREATE (`MaxRefused` times; the user is in the
database then, as in `BrokerRing`) and sends publications to subscribers.  It is
milder than the real one in two ways: it does not answer `ACK_ERROR` to requests with
an id, which takes a failure of the database, and it does not send the strays of
`db_handler.c:64`, which `BrokerRing` has.  A request with an id that it does not
know, which `worker.c:67` would leave without an answer, never reaches it
(`RequestsOfKnownIds`).

`add_local_id` ends without `return` (`broker_id.c:62`), which C leaves
undefined when the caller uses the value; built without optimisation, as here,
the result is 0, what the last test in `log_log` left, and the model takes it as 0.

### `Museum`

| Variable | Code |
|---|---|
| `cap`, `capSem`, `open` | `MUSEUM_CAP_SHM`, its semaphore, `MUSEUM_OPEN_SHM` |
| `count`, `countSem`, `startSem` | `MUSEUM_TOUR_COUNT_SHM`, its semaphore, `MUSEUM_TOUR_START_SEM` |
| `req[q]`, `resp[q]` | the pair of queues of a door, of the exit and of the guide |
| `ppc`, `where`; `dpc`, `dmsg`; `gpc` | visitors, entrance doors, guide |

A critical section is two steps where another process could see or disturb its
middle (`DoorCheck`, `DoorAnswer`; `JoinTour`, `Register`, `TurnedAway`) and one
where it is a single update between `p` and `v` (`ExitDoor`, `Timer`).  In
`Register` the message to the guide, the `v` of a full tour and the release of
the semaphore are one step: whoever would act on the first two needs the third.
An answer sent after the `v` goes with it, as nobody waits for both.  The guide
does not leave its loop (`guide.c:84` never increments `i`), so `GuideLeads`
repeats and the semaphore of the count stays taken.

Queues are sets: a visitor has one request under way, and all orders of taking
them include the order of arrival.  `Arrive` takes visitors by number, which
loses nothing because they are alike.  The administrator writes the flag
without a semaphore, which is one store of a byte.

### `UploadPeriods`

| Variable | Code |
|---|---|
| `periods[p]` | the `OPEN` column of `UPLOAD_PERIODS` |
| `clients[r]` | the client code of row `r` of `CLIENTS` |
| `files[f]` | a row of `INPUT_FILES`: period and data |
| `transactions[i]` | a row of `TRANSACTIONS`: file, client (0 is null), amount |
| `up[t]` | the upload that a thread of the server handles: the lines, the client rows found so far, the file's id |
| `ctl` | the control request: amounts by code, errors, split files |

The tables are MyISAM (`deploy-files/contabilidapp_schema.sql`), so that a
statement takes effect when it is executed, and transactions neither isolate nor
undo.  An upload is, for each line, `FindClient` and, if there was none,
`InsertClient` (`ClientDao.addIfNotPresent`); then `CheckPeriod` and
`InsertFile` (`InputFileDao.addInputFile`) and an `InsertTransaction` per line.
The rows of the join table `INPUT_FILES_TRANSACTIONS` are read by no query and
left out.  A control is two queries, `Compare` and `Split`.  An amount that the
report may leave out is a set of at most one, and `NoAmount` (`---`) the empty
one.  The second query comes in the order of `Before`, each row at its `Rank`;
`WriteLines` is the loop of `getSplitFiles` over it, and `AddLine` one turn, with
its memory of the current file.

A code with two rows in `CLIENTS` is a case of its own throughout: the search
returns null, the transaction gets no client, the aggregate, an inner join, leaves
it out, and `Split` ends with an exception (`ModelImpl.java:222`).

Left out: parsing and formatting (amounts are numbers; all have two decimals, so
`BigDecimal.equals` compares values), invalid files, which are refused before
anything is written, and periods that do not exist, which the pages do not offer.
A control may ask for an open period: the pages offer closed ones only, but
neither the service nor the model tests it.

### Abstractions of the ring

* The payload's text is the number of the publication; names of topics are model
  values; pids are named by their owner and not reused.
* Sockets are unbounded; queues hold `QueueCap` messages (their limit in bytes).
* A machine runs one program here, so the local broker's table is the pair
  (program, `gid`) and an answer whose id is not `gid` is dropped; `LocalBroker`
  has the rest.
* A machine connects to one broker, as its configuration says, and does not
  connect again after it stopped.
* The first connection a server accepts is the previous broker's, as
  `server.c` assumes.
* Failures of the operating system's calls (no memory, no disk) and of the
  connection to the database are not modelled.
* `BrokerRing` uses `SubscriptionDb`, so a crash of the database is seen in
  `DbFiles` only, from the inside.

## 3. Properties

* `TypeOK`: types, and tables within their arrays.
* `LinkKnown`: a worker never has to pass a message on before the next broker is
  in its table.
* `OneCopyInRing`: one copy of a publication is on its way round the ring.
* `AtMostOncePerSubscription`: a client gets a publication at most as often as it
  subscribed to the topic.  Publications sent to an uninitialised list are
  exempt (see the findings).
* `HomeDelivery`: when the publisher's broker is done, every subscriber it serves
  has been sent the publication, if no topic has more than `MAX_CLIENTS` lines.
  (Its run keeps within that.)
* `RingCarriesStamped`: brokers send each other only publications, stamped with
  the publisher's broker.
* `NoOrphanLines`, `IdsExclusive`, `IdsNotShared`, `AddressedToHolder`: the life of
  an id across the database, the tables and the clients, when ids are reused.
  This is the meaning of "no pueden haber duplicaciones de ids generados por
  distintos nodos" (`DISTRIBUTED_MOM.md`, line 13).
* `AnsweredOnce`: a waiting client has exactly one request or answer in the system.
* `RequestAnswered`, `PublishLeavesRing`: progress.

Of the database's files:

* `LinesListed`: wherever the machine stops, each id in a topic's file has the
  topic in its user's file.  A deletion goes by the user's file, so a line it
  does not list would be inherited by the next holder of the id.
* `AckedKept`: a user or subscription that was answered `DB_OK` stays until its
  own deletion, through other handlers' operations and crashes.
* `IdsGivenOnce`: no id is given out while it is held.
* `DeletionsSucceed`: a deletion that finds its user does not stop halfway with
  `DB_ERROR`, also when an earlier operation was cut short.
* `OperationCompletes`: every request is answered; each way out of an operation
  releases the semaphore.
* `DbAtomic`: the files implement `SubscriptionDb!DbCrashSpec`, whose operations
  are atomic and where a stop of the machine leaves a trace of a deletion only:
  some topics without the id, and the user still there (`DbDeleteCut`).  The
  refinement mapping is `stable`: the files when an operation releases the
  semaphore or the machine is started again.  It is about what the files hold:
  the reply of `db_get_subscribed`, a read, is in neither state.
* `FilesInv`: the invariant of the proofs.

Of the local broker (`TypeOK` says that the table stays within its array):

* `AnsweredOnce`: a program has one request or answer on its way, and none when
  it waits for none; answers are matched by pid alone.  It is stated while the
  broker has refused nothing (see `IdsToAskers`).
* `IdsToAskers`: an id ends in the entry of the program that asked for it.  After
  a refused CREATE this is not so, see section 6; the property is stated up to
  there.
* `OneEntryPerId`: two entries never share an id or a program.
* `BoxesKept`: for each program the queues, the handlers' messages and the socket
  together are a `Mailbox`: messages come in at one end, each of them once, and
  `receive` takes them from the other.  It holds whatever is refused, and when the
  queue of incoming messages is full.

Of the museum:

* `NotOvercrowded`, `TourMatchesQueue`, `FullTourStarts`, `CalledOnce`: capacity,
  and the agreement of the count, the queue and the semaphore of a tour.
* `LeavesUnlessJoining`: who has asked to enter is gone at last, except who waits
  to register for a tour.
* `MuseumInv`: the invariant of the proofs.

Of ContabilidApp:

* `PeriodSealed`: once a period is closed and the uploads that found it open have
  ended, neither a file nor a transaction enters it.  `NoLateFile`, which would
  be so from the closing on, is violated.
* `TransactionsMatchFile`: the transactions of a file are its lines, with clients
  of their codes; only a code with two rows leaves one without a client.
* `RowsBounded`: a code gets at most one row per thread.
* `ErrorsExact`: a control reports each code whose sums differ once, and no other.
* `SplitByFile`: the split files hold each line of a matching client once, in the
  order of the ids, one file of the result for each input file, also if files
  come in meanwhile.

## 4. Runs

All runs but the database's set `CHECK_DEADLOCK FALSE`: the systems stop when
the bounded requests are used up, when nobody comes any more, and a local broker
also when its semaphore is lost.  The database's runs check deadlock: a
handler can always read a request, take a step or, if it waits, another one can.

| Run | Instance | Shows |
|---|---|---|
| `ring_start` | 2 brokers from nothing, two clients at the first, tables of 2 entries (one is the ring's), any garbage reply, 2 CREATE, 1 publication, fair | `LinkKnown` and the proofs' `Inv` in every order of start-up; `TypeOK` and `AnsweredOnce` although a CREATE is refused; `RequestAnswered`, `PublishLeavesRing` |
| `ring_fanout` | 3 brokers with a subscriber each, one of them subscribed twice; clients leave | `OneCopyInRing`, `HomeDelivery`, `AtMostOncePerSubscription`, `RingCarriesStamped` once round the whole ring |
| `ring_reuse` | 2 brokers, 3 CREATE by 2 clients, a client may stop | `NoOrphanLines`, `IdsExclusive`, `IdsNotShared`, `AddressedToHolder`, `AnsweredOnce` while ids 1 and 2 are reused |
| `files_stop` | 2 handlers, 2 ids, 2 topics, 2 lines per user, 1 crash | `FilesInv`, `LinesListed`, `AckedKept`, `IdsGivenOnce`, `DeletionsSucceed`, `DbAtomic` |
| `files_progress` | 2 handlers, the temporary file named like a topic, fair | `OperationCompletes`, also through `GiveUp` |
| `local_calls` | 3 programs, 2 ids, a table of 2, queues of 2, 1 refusal, 1 kill, 1 publication | `TypeOK`, `AnsweredOnce`, `IdsToAskers`, `OneEntryPerId` |
| `local_boxes` | 2 programs that may subscribe, queues of 2, 1 refusal, 1 kill, 3 publications | `BoxesKept`, also with a full queue of incoming messages |
| `museum_day` | 4 visitors, 2 doors, 3 places, tours of 2, fair | `TypeOK`, `MuseumInv`, `NotOvercrowded`, `TourMatchesQueue`, `FullTourStarts`, `CalledOnce`, `LeavesUnlessJoining` |
| `uploads` | 2 threads, 2 periods, 2 files of 2 clients, 2 control files | `TypeOK`, `RowsBounded`, `TransactionsMatchFile`, `PeriodSealed`, `ErrorsExact`, `SplitByFile` |
| `ring_lost`, `ring_stray`, `uploads_late` | | the findings of section 6 |

**Bounds.** Three brokers are the fewest where a relayed publication passes a
broker that neither published it nor comes last; with two, the next broker is
also the previous one.  Two clients are enough to reuse an id across brokers,
two of one broker to fill its table.  One publication at a time is enough for
`OneCopyInRing` and `AtMostOncePerSubscription`, which count the copies of each
publication separately.  `MaxCreates`, `MaxPubs`, `MaxSubs` and `MaxLost` bound
the requests and stops in a behaviour; `QueueCap` is 6, so that the queues do
not fill.  Runs that begin with clients already created and subscribed
(`OneTwice`, `AllSubscribed`) start in a state that the requests of `Spec` lead
to, to leave the steps for what follows.  Start-up has two brokers: each waits
for the next and the previous one, which is all the code knows of the ring.  In
`ring_reuse` the clients may be exchanged, in `files_stop` the handlers and the
topics, in `local_calls` and `local_boxes` the programs and the ids, in `uploads` the threads;
nothing tells them apart.  `files_stop` has a `VIEW` without the message of a
handler that is idle, which the next request overwrites.

Two handlers are enough for every conflict over the database, whose semaphore
lets one in at a time.  With two ids the second can be deleted and given out
again; with two lines a user can be subscribed to two topics or twice to one,
so that a deletion can be cut after its first line, or rewrite a file twice.
One crash cuts one operation short, whatever follows finds its traces; the
theorems hold for any number of crashes.

Three programs are one more than the table of the local broker holds, so the full
table is reached; two of them can create at once while the third is killed or
refused.  `local_boxes` has one publication more than the queue of incoming
messages holds: a killed program leaves one there, another has one behind it,
and its second waits in the response handler until the first is read; or all three
are for one program, and their order shows.  In the museum four visitors are one more than its places
and two more than a tour; the theorems hold for all numbers.  Two uploads are
the fewest that can both miss a client, and with two files in two periods one
can be late while the other is controlled; a file of two lines can be cut between
them.

**Fairness.** `FairSpec` of the ring assumes weak fairness of every worker,
request handler, response handler and of the client machine's receiver: each is
a process that blocks in `msgrcv` or `recv` and is run by its scheduler when
there is something to take.  Nothing is assumed of clients' requests, of start-up
or of stopping.  A blocked `sendmsg` is a disabled action, which weak fairness
does not help: progress is shown where the queues have room, with no client that
stopped (`MaxLost` is 0); section 6 says what happens otherwise.

`FairSpec` of `DbFiles` assumes weak fairness of a handler's steps inside an
operation and strong fairness of `Enter`: the semaphore is taken and released
again and again while a handler waits, and `semop` serves the waiting processes
in the order they came.  It has no crashes, and nothing is assumed of requests.

`FairSpec` of the museum assumes weak fairness of each door, the exit, the guide,
the timer and of the visitors who have come: sleeps end.  Nothing is assumed of
the administrator and of arrivals.  Weak fairness of `Visit` does not give a
visitor the semaphore of the count, so that `LeavesUnlessJoining` leaves those
out who wait for it; with the guide in its loop they do wait for ever.

## 5. Proofs

| Theorem | Statement |
|---|---|
| `DbLinesNameUsers` | `DbSpec => [](DbTypeOK /\ NoOrphanLines)` |
| `InvAlways` | `Spec => []Inv` |
| `TypesCorrect` | `Spec => []TypeOK` |
| `DeletedUsersForgotten` | `Spec => []NoOrphanLines` |
| `RingMessagesStamped` | `Spec => []RingCarriesStamped` |
| `NextBrokerKnown` | `Spec => []LinkKnown` |
| `OneCopyAlways` | `Spec => []OneCopyInRing` |
| `IdsAlways` | `Spec => [](Inv /\ IdsInv)` |
| `IdsExclusiveAlways`, `IdsNotSharedAlways`, `AddressedAlways` | `Spec => []IdsExclusive`, `Spec => []IdsNotShared`, `Spec => []AddressedToHolder` |
| `AnsweredOnceAlways` | `Spec => []AnsweredOnce` |
| `CopiesAlways`, `AtMostOnceAlways` | `Spec => []CopiesInv`, `Spec => []AtMostOncePerSubscription` |
| `HomeDeliveryAlways` | `Spec /\ []RepliesWhole => []HomeDelivery` |
| `FilesInvAlways` | `TMP_FILE \notin Topic` implies `Spec => []FilesInv` |
| `LinesAreListed`, `AnsweredIsKept` | likewise `Spec => []LinesListed`, `Spec => []AckedKept` |
| `IdsAreGivenOnce`, `DeletionsAreComplete` | likewise `Spec => IdsGivenOnce`, `Spec => DeletionsSucceed` |
| `AtomicInvAlways`, `OperationsAreAtomic` | likewise `Spec => []AtomicInv`, `Spec => DbAtomic` |
| `LocalInvariant` | `Spec => []LocalInv` |
| `LocalTypesCorrect`, `LocalIdsUnique` | `Spec => []TypeOK`, `Spec => []OneEntryPerId` |
| `LocalIdsToAskers`, `LocalAnsweredOnce` | `Spec => []IdsToAskers`, `Spec => []AnsweredOnce` |
| `LocalBoxesKept` | `Spec => BoxesKept` |
| `RequestsOfKnownIds` | `Spec => [](\A i \in DOMAIN up : OfKnown(up[i]))` |
| `MuseumInvAlways`, `TypesCorrect` | `Spec => []MuseumInv`, `Spec => []TypeOK` |
| `NeverOvercrowded` | `Spec => []NotOvercrowded` |
| `ToursConsistent`, `FullToursAnnounced`, `VisitorsCalledOnce` | `Spec => []TourMatchesQueue`, `Spec => []FullTourStarts`, `Spec => []CalledOnce` |
| `SealedPeriodsKept` | `Spec => PeriodSealed` |
| `SealInvAlways`, `UploadInvariant` | `Spec => []SealInv`, `Spec => []UploadInv` |
| `UploadTypesCorrect`, `ClientRowsBounded`, `FilesStoredInOrder` | `Spec => []TypeOK`, `Spec => []RowsBounded`, `Spec => []TransactionsMatchFile` |
| `ControlsExact`, `SplitFilesExact` | `Spec => ErrorsExact`, `Spec => SplitByFile` |

**Assumptions.** `RingAssumption` and `GarbageAssumption`: at least one broker,
finitely many clients that are not numbers, a home for each client, positive
bounds.  `FilesAssumption`: natural bounds.  TLC evaluates them in every run of
their modules.  The theorems on the files assume that no topic is called like
the temporary file; nothing in the code sees to that (section 6).
`MuseumAssumption`: queues and doors are distinct, capacities natural.
`UploadAssumption`: what a file and a control file consist of.
`HomeDeliveryAlways` is about behaviours in which no topic has more than
`MAX_CLIENTS` lines (`RepliesWhole`).  The code does not see to that: a line is added for
every SUBSCRIBE, of the clients of all brokers, `db_handler.c:64` cuts the reply at
`MAX_CLIENTS`, and the subscribers behind the cut get nothing.

**The invariant of the ring.** None of the properties is inductive alone.  That
a message on the ring carries its publisher's broker depends on what the worker
holds when it puts it there, which depends on what is in `WORKER_QUEUE`, which comes from the
sockets, which the clients and the previous broker fill.  So `Inv` says for each
place what it may contain: `FromClient(c)` on a client's socket (a CREATE, or a
request with a positive id and `broker_id` 0), `Arriving` on the socket of the
previous broker (a stamped publication whose header is an id), `Labelled(b)` in
a worker queue (a CREATE with the response handler in its header), `OnRing` in
the queue of the ring connection, `Answer(b)` in a worker about to answer.
`LinkKnown` needs in addition that a table has entries only after its ring
connection registered (`TablesOK`), and that a client is connected only to a
broker that is linked; a publication of the previous broker that arrives earlier
is rejected, because its header id is not in an empty table.

The proof has one lemma per action, each with one step per component of `Inv`,
and frame lemmas (`UpChange`, `WorkQChange`, `RespQChange`, `TableGrows`,
`WorkerGoes`) that say when a component survives a change of one queue, table or
worker.  `Kept` collects what only grows (the publications and the links), under
which the sets of allowed messages only grow.

**One copy on the ring.** `OneCarrier` says that any two places of a publication's
message are the same place; it is inductive once each handler is seen to take
the message from one queue and put it in the next (`AtPlace`, `TakesHead`,
`Exchanges`).  Only the fan-out could break it: a list of subscribers that
names id 0 would queue the publication for the next broker as for a subscriber.
`ListsProper` excludes it for lists that the database has sent, because no
user is called 0 (`NoOrphanLines`); the uninitialised reply can name it, and
those publications are exempt.

**The invariant of ids and answers.** `IdsInv` has two halves, which need each
other.  `IdsOK` is about ids.  An entry belongs to a user of the database or is
about to be removed (`EntriesOwned`), two clients never own a user
(`OwnersUnique`), and tables hold an id and a handler once (`EntriesUnique`), so
that a look-up by id finds its owner.  Between `CreateUser` and `CreateId` a user
has no owner, and must keep none: `Reserved` says so, and that it has no
subscriptions and is reserved by one worker.  Subscriptions are filed under ids,
which are used again; `LinesOwned` says that whoever owns an id has made the
lines under it, and `ListsOwned` that this is so of the list that a worker has
read before, although the database has changed since.  This is where a deletion must go before the removal of the
entry, and where the lines of the deleted user must have gone with it.

`ServedOK` is about the one request of a client.  `Places(c)` is the set of all
places where the request or its answer can be: socket, `WORKER_QUEUE`, worker,
`RESP_QUEUE`, socket back.  `PlacesOK` says that there is at most one, and one
if `c` waits for anything but a CREATE (a refusal is dropped).  What is in each
place fits what `c` knows: a request is `Pending`, the worker is `BusyWith` `c`,
an answer is `Answered` (its id is the one that `c` holds, or will hold).  That
an answer is the last thing `c` gets before its id goes (`LastOK`) is what lets
publications keep the right id on their way (`NewsOK`).  A worker recognises the
client of a request by the table alone, which is why `OwnersUnique` is needed
for `AnsweredOnce`, and `AnsweredOnce` (no second DESTROY under way) for
`OwnersUnique`.

The proof has one lemma per action; `Steady` says that a step leaves a client's
id, wait, entries and ownership alone, and the frame lemmas (`ClientKept`,
`PlacesStay`, `NobodyMoves`, `OneMoves`) that then all about it is kept.
`AnsweredOnce` counts, `PlacesOK` does not: `ProgressCounts` shows that the sum
of the five counts is the number of places.

**The invariant of copies.** `AtMostOncePerSubscription` compares what a client has of
a publication, on its way or delivered, with the requests to subscribe it has made.  Three facts make it inductive.
`SpreadOK` says that a broker which a publication has yet to reach has done
nothing for it: it is not sending it, and its clients have no copy.  "Yet to reach" is
measured along the ring (`Dist`): a message stamped by `o` and waiting for `x` will be fanned
out by `x` and by those further from `o` than `x`, and stops when it comes to `o` again.  A message has one
place on the ring (`OneCarrier`), so there is no second one for which the
claim would have to survive the fan-out of the first.  `CountFor` adds the copies
a client has and the lines of the worker's list that are still to come for it; sending one
copy moves a line from the second number to the first.  When the list
arrives the first number is 0 by `SpreadOK`, and the second is the number of lines the client
has in the topic.  `LinesFor` bounds this by its requests: every line under its
id, and its request under way if there is one, was asked for by itself.  That holds
although ids are used again, because of `IdsInv`: nobody comes to own an id
that has lines, and the id of a request is that of its client.  Publications sent
to an uninitialised list (`strayed`) are exempt throughout.

**The invariant of delivery.** `AtMostOncePerSubscription` is an upper bound on copies,
`HomeDelivery` a lower one, and it starts from what a client believes: it
asked for a topic and has its answer.  `AskedOK` says that whoever asked for a
topic is in its file, unless its request is still under way or it is about to
leave, so that a client without a pending SUBSCRIBE is there when a publication is sent.
`AudienceOK` keeps it there under the same id: only a DESTROY of its own, which ends the claim,
or a removal for somebody else's id could change that, and `IdsInv` excludes the second.
`HomeListed` follows the loop of `send_to_subs`: who has not been sent the publication yet
is in what is left of the list.  When a line is taken, `IdsInv` says that
the table has its subscriber and nobody else, so that it is queued here and not
taken for one of another broker, although clients of this broker come
and go meanwhile.  The list is complete by `RepliesWhole`, and it is of the right
topic by `SpreadOK`; a publication that finds the topic empty has no audience.  `OriginDone` is
then a chain (`Begun`): socket, `WORKER_QUEUE`, worker, loop, each of which hands on to
the next or ends with an empty list.

**The invariant of the files.** `LinesListed` and `AckedKept` hold between any
two writes, but not because of what the files hold alone: `AddLine` keeps the
first because the topic was listed a step before and nobody could delete the
user since.  So `FilesInv` adds `MutualExclusion` (a handler inside means the
semaphore is taken, and there is one) and a stage predicate per operation:
the id being created has no file (`CreateStage`); the user and the topic of a
subscription have theirs, and the topic is listed when its line is added
(`SubscribeStage`); a deletion's user is held by nobody, the topics before
`hline` have no line of it, and before the rename the temporary file is the
topic's without it (`DeleteStage`).  `ListedHaveFile` says that a listed topic
has a file, which is why `GiveUp` is never taken: `TouchTopic` comes first and
`Rename` replaces a file without a moment when it is missing.  A crash
keeps the files and ends all stages: the parts on the files alone hold at every
write, so they hold after it.  The lemmas `StepWithin` and
`StepOut` deal with the handlers that are not inside, once for all actions.

**The files implement the database.** `DbAtomic` maps the files when `DB_SEM` was last
released to `users` and `topics` of `SubscriptionDb`.  A step that leaves an operation
must then be one of its actions, and every other step a stutter.  `AtomicInv` relates the
files to that state between any two writes: they have the same users, and the
same lines but for the topics that a deletion has rewritten (`DoneBy`), which have
lost the user's.  `NextKnown` says that the id a handler is about to create is
still the next one.  `Ranked` says that a line's position is the number of lines
up to it: a topic may be listed twice by a user, and is then copied twice, and
only because the copy numbers its lines is the second one without effect
(`WithoutNone`, `RenameSeen`).  With `LinesListed` the same lemma gives the topics that
the user did not list, which a deletion does not touch and the one of
`SubscriptionDb` copies.  A crash inside a deletion is `DbDeleteCut` of `DoneBy`; in any
other operation it is a stutter.

**The invariant of the museum.** `NotOvercrowded` counts people by what they do,
`cap` by what doors have answered.  `MuseumInv` ties them together by `Inside`,
the visitors between the door's answer and the exit's: `PlacesCounted` says that
they and the free places are `MUSEUM_CAP`, and that a door about to admit has
seen a place, which the semaphore keeps for it (`OneDoorDecides`).  That each
step moves at most one visitor in or out of `Inside` needs to know where each
request and answer is (`DoorsHoldAskers`, `ExitHoldsLeavers`).  For the tour,
`OneRegisters` says who has the semaphore of the count, and that a visitor about
to register has seen room.  One lemma per action, one step per part.

**The invariant of the local broker.** `LocalInv` has five parts.  `LocalTypes` is
what each queue, handler and table may hold.  `RequestsOK` says where the one
request of a program can be: in a queue, in a handler, on the socket, or, for a
CREATE, in an entry without an id, for that is all the machine keeps of it
(`OnePlace`, `OneInQueue`), and that the program waits for just that (`CallOK`).
`IdsOK` is for ids that the broker gives out again: an entry with an id that the broker no longer
knows has its removal before it, in `down` or in the handler, and the
answer that brings the same id to somebody else is behind that removal.  `SubsOK` says
the same of publications, which would otherwise be delivered by the entry of a
later holder.  `OrderOK` says that ids come in the order of the entries that
wait for them, as long as nothing was refused; `set_global_id` relies on it.
`LocalIdsUnique` needs `IdsOK`, `LocalIdsToAskers` needs `OrderOK`,
`LocalAnsweredOnce` is counted from `RequestsOK`.  `LocalBoxesKept` goes through
the steps: each puts at most one publication at the end of a program's mail, or
takes the first, or moves one along without a change of the whole; and the numbers in
a box never exceed that of the last publication (`Numbered`), so that the next one is new.

**The invariant of the upload periods.** `PeriodSealed` is a property of steps:
`SealInv` is its types, with `UploadOK`, by which an upload writes to a file of
the period it was sent for, so that a step which adds a transaction belongs to
an upload that keeps its period unsealed.  `SealedStep` goes through the
actions; `CheckPeriod` is the only one that lets an upload in, and it finds the
period closed.  `UploadInv` adds what has been stored: each row that an upload has
found fits its line (`RowsFit`: it is of the line's code, or there is none
because there are several), the transactions of a file are its first lines
(`FilesFit`), the lines still to store are the others, one upload writes to a
file, and a file nobody writes to is complete (`StoringOK`).  Several rows of a
code remain several, which is why a missing client stays justified.  `RowsBounded` is
inductive with the types: a thread that inserts a row for a code was searching,
and finds it afterwards.

**Controls.** `ErrorsExact` and `SplitByFile` are properties of steps, of what an
answer makes of the tables.  For the first, `UploadInv` gives every transaction its
client as long as no code has two rows (`ClientKnown`); then there is one row to
each code, the amounts by row are amounts by code (`AmountsExact`), and the two
passes of the comparison meet each code in one of them.  What a sum of amounts is
the proof need not know: control and report take the same sum.  For the second, the
ranks of a finite set under a strict total order are `1..n` (`RankFound`, by the
pigeonhole principle), so the query is a sorted sequence without gaps
(`PeriodSorted`).  That the loop has a result at all after each turn
(`LinesWritten`), and that `WrittenOK` holds of it (`AllWritten`), is shown by
the first turn of which it would not be so: `LeastNatural` stands in for
induction.  `WrittenOK` says that the files so far belong to input files in ascending
order, each with its lines by id, that all lines up to here are in one of
them, and that the current file is not behind the next line, which is why the
loop may forget a file it has left.

**Sequences of sets.** `Ascending` takes the place of a selection by recursion over a
sequence, of which nothing could be proved for every length: the i-th element of
a finite set is the one with i - 1 below it (`NthIs`, `NthFound`, by
`LeastNatural`, a least counterexample in place of induction).


**Checked before they were proved.** Each inductive invariant was an invariant of
TLC's runs first; `Inv`, `FilesInv` and `MuseumInv` still are.  `OneCarrier`,
`ListsProper`, `IdsInv`, `CopiesInv` and `DeliveryInv` were checked on the five instances of the ring
(`MCBrokerRing`), `AtomicInv` on `files_stop`, `LocalInv` on `local_calls` and `UploadInv` on
`uploads`.

Those that no run lists are in the modules of the proofs; a
module that extends an instance and such a module checks them again.

**Model-checked only.** Progress: `RequestAnswered`, `PublishLeavesRing`,
`LeavesUnlessJoining` and `OperationCompletes`.  Proofs of liveness are out of the
prover's reach.  All other properties of the passing runs are theorems.

## 6. Findings

* `ring_lost`: a broker gives up a publication from the ring if it does not know
  the one subscriber named in its header (`worker.c:148`).
* `ring_stray`: a publication on a topic without subscribers is sent to whatever
  ids an uninitialised message holds (`db_handler.c:64`).
* `uploads_late`: a file enters a closed period if the period is closed between
  the test and the insertion (`InputFileDao.java:30`).

Seen while modelling, and in the models, but without a run of their own:

* The messages for a client that stopped stay in `RESP_QUEUE`, or in the queue of
  incoming messages of its machine, until it is full and the worker, or the
  response handler, blocks for everybody (`worker.c:117`,
  `broker_resp_handler.c:56`).
* The answer to a refused CREATE names an id that no program has and is dropped:
  `creabrk` does not return, and its entry, which has no id, takes the id of the
  next CREATE of the machine (`broker_resp_handler.c:71`, `broker_id.c:81`).
* A full table of the local broker costs its semaphore (`broker_id.c:46-49`).
* A topic may have the name of the temporary file, and the deletion of any user
  then overwrites and moves its file (`db.c:297`).
* The guide never leaves the loop of its first tour (`guide.c:84`), and nobody
  registers afterwards.
* Two uploads may insert a client twice, after which its transactions have no
  client and the control of their period fails (`ClientDao.java:53`).
* The first split file is empty if nothing of the first input file is written
  (`ModelImpl.java:225`).

## 7. Not modelled

* **Shutdown.** SIGINT, `graceful_quit`, the waits for children and the removal of
  queues, in the broker and in the museum; processes killed while they have a
  semaphore (`SEM_UNDO` is not set), except programs of the local broker, which
  use none.  A signal between the test of the flag and the blocking call is lost.
* **Bounded sockets.** The ring could fill all its buffers and wait for itself.
  With a bound on each socket the state space of three brokers is out of TLC's
  reach in the time of a run.
* **Failures of the operating system**: memory, disk, a file written in part, the
  loss of the connection to the database or to the broker.
* **Pids used again**, by programs of a machine or visitors.
* **Parsing and formatting**, of the broker's messages and of ContabilidApp's files,
  the web pages, the replication of the database, and its connection pool (a
  refused upload keeps a connection, `InputFileDao.java:32`).
* The administrator's menu (`admin.c:24` reads into an uninitialised pointer).
* Containers, log, the debugging exercise, which is wrong on purpose, and the
  course's examples.

The next step would be an abstract publish/subscribe service that the ring
implements where it loses nothing.
