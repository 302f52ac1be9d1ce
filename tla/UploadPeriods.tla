---------------------------- MODULE UploadPeriods ----------------------------
(***************************************************************************)
(* ContabilidApp (src/tp-final/contabilidapp-backend): files of            *)
(* transactions are uploaded to periods, a period is closed, and a closed  *)
(* period is compared with a control file.  The requests of the web        *)
(* service run in threads and meet in the tables of the database.  Those   *)
(* are MyISAM tables (contabilidapp_schema.sql): each statement is seen by *)
(* everybody as soon as it is executed, commit or not.                     *)
(***************************************************************************)
EXTENDS Integers, Sequences, FiniteSets, FiniteSetsExt, SequencesExt, Ascending

CONSTANTS
  Thread,             \* bound: uploads handled at the same time
  Code,               \* client codes
  FileData,           \* contents of input files: sequences of <<code, amount>>
  ControlData,        \* contents of control files: code -> amount
  MaxPeriods,         \* bound: upload periods
  MaxFiles            \* bound: input files

VARIABLES
  periods,            \* UPLOAD_PERIODS: whether the period is open
  clients,            \* CLIENTS: the client's code
  files,              \* INPUT_FILES: period and data
  transactions,       \* TRANSACTIONS: file, client and amount
  up,                 \* up[t]: the upload that thread t handles
  ctl                 \* the control request being handled

vars == <<periods, clients, files, transactions, up, ctl>>

ASSUME UploadAssumption ==
  /\ IsFiniteSet(Thread)
  /\ FileData \subseteq Seq(Code \X Nat)
  /\ \A c \in ControlData : DOMAIN c \subseteq Code
  /\ MaxPeriods \in Nat /\ MaxFiles \in Nat

\* A row is named by its AUTO_INCREMENT id, its place in the table.
NoClient == 0         \* a null reference
NoAmount == {}        \* "---": an amount that may be missing is a set of at most one

NoUpload == [pc |-> "idle", period |-> 0, lines |-> <<>>, row |-> <<>>, file |-> 0]
NoControl ==
  [pc |-> "idle", period |-> 0, amounts |-> <<>>, control |-> <<>>, errors |-> {},
   split |-> <<>>]

Init ==
  /\ periods = <<>> /\ clients = <<>> /\ files = <<>> /\ transactions = <<>>
  /\ up = [t \in Thread |-> NoUpload]
  /\ ctl = NoControl

-----------------------------------------------------------------------------
(* Periods (UploadDao).                                                    *)

StartUploadPeriod ==
  /\ Len(periods) < MaxPeriods
  /\ periods' = Append(periods, TRUE)
  /\ UNCHANGED <<clients, files, transactions, up, ctl>>

ClosePeriod(p) ==
  /\ periods' = [periods EXCEPT ![p] = FALSE]
  /\ UNCHANGED <<clients, files, transactions, up, ctl>>

-----------------------------------------------------------------------------
(* Uploads (ModelImpl.handleFileUpload).                                   *)

Busy == {t \in Thread : up[t].pc # "idle"}

\* The page lists the open periods, perhaps some time ago.
Receive(t) ==
  /\ up[t].pc = "idle" /\ Len(files) + Cardinality(Busy) < MaxFiles
  /\ \E p \in DOMAIN periods, data \in FileData :
       up' = [up EXCEPT ![t] = [@ EXCEPT !.pc = "clients", !.period = p, !.lines = data]]
  /\ UNCHANGED <<periods, clients, files, transactions, ctl>>

\* The line whose client is looked up next, and the rows of a code.
AllFound(t) == Len(up[t].row) = Len(up[t].lines)
CodeOf(t) == up[t].lines[Len(up[t].row) + 1][1]
Rows(code) == {r \in DOMAIN clients : clients[r] = code}

\* The client of the line is known.
WithClient(t, r) == [up[t] EXCEPT !.pc = "clients", !.row = Append(up[t].row, r)]

\* Variant: whatever is not a single result is taken for none.
FindOneOrInsert(t) ==
  /\ up[t].pc = "clients" /\ ~AllFound(t)
  /\ LET rows == Rows(CodeOf(t)) IN
     \/ \E r \in rows : rows = {r} /\ up' = [up EXCEPT ![t] = WithClient(t, r)]
     \/ Cardinality(rows) # 1 /\ up' = [up EXCEPT ![t].pc = "insert"]
  /\ UNCHANGED <<periods, clients, files, transactions, ctl>>

\* addIfNotPresent: getSingleResult finds one row, none, or more than one.
FindClient(t) ==
  /\ up[t].pc = "clients" /\ ~AllFound(t)
  /\ LET rows == Rows(CodeOf(t)) IN
     \/ \E r \in rows : rows = {r} /\ up' = [up EXCEPT ![t] = WithClient(t, r)]
     \/ rows = {} /\ up' = [up EXCEPT ![t].pc = "insert"]
     \/ Cardinality(rows) > 1 /\ up' = [up EXCEPT ![t] = WithClient(t, NoClient)]
  /\ UNCHANGED <<periods, clients, files, transactions, ctl>>

\* Variant: the result of the search is returned for a new client, too.
InsertAndReturnFound(t) ==
  /\ up[t].pc = "insert"
  /\ clients' = Append(clients, CodeOf(t))
  /\ up' = [up EXCEPT ![t] = WithClient(t, NoClient)]
  /\ UNCHANGED <<periods, files, transactions, ctl>>

InsertClient(t) ==
  /\ up[t].pc = "insert"
  /\ clients' = Append(clients, CodeOf(t))
  /\ up' = [up EXCEPT ![t] = WithClient(t, Len(clients) + 1)]
  /\ UNCHANGED <<periods, files, transactions, ctl>>

\* Variant: the period is not tested.
PeriodUnchecked(t) ==
  /\ up[t].pc = "clients" /\ AllFound(t)
  /\ up' = [up EXCEPT ![t] = [@ EXCEPT !.pc = "open"]]
  /\ UNCHANGED <<periods, clients, files, transactions, ctl>>

\* addInputFile: the period is read; the clients stay if it is closed.
CheckPeriod(t) ==
  /\ up[t].pc = "clients" /\ AllFound(t)
  /\ up' = [up EXCEPT ![t] = IF periods[@.period] THEN [@ EXCEPT !.pc = "open"] ELSE NoUpload]
  /\ UNCHANGED <<periods, clients, files, transactions, ctl>>

\* After the last line the request is answered.
UntilStored(u) == IF u.lines = <<>> THEN NoUpload ELSE u

\* Variant: the file's id is taken before it is there.
InsertFileOldId(t) ==
  /\ up[t].pc = "open"
  /\ files' = Append(files, [period |-> up[t].period, data |-> up[t].lines])
  /\ up' = [up EXCEPT ![t] =
              UntilStored([up[t] EXCEPT !.pc = "file", !.file = Len(files)])]
  /\ UNCHANGED <<periods, clients, transactions, ctl>>

\* persist: the file's row, then those of its transactions.
InsertFile(t) ==
  /\ up[t].pc = "open"
  /\ files' = Append(files, [period |-> up[t].period, data |-> up[t].lines])
  /\ up' = [up EXCEPT ![t] =
              UntilStored([up[t] EXCEPT !.pc = "file", !.file = Len(files) + 1])]
  /\ UNCHANGED <<periods, clients, transactions, ctl>>

\* The next of the file's transactions.
InsertTransaction(t) ==
  /\ up[t].pc = "file"
  /\ transactions' =
       Append(transactions, [file |-> up[t].file, client |-> Head(up[t].row),
                             amount |-> Head(up[t].lines)[2]])
  /\ up' = [up EXCEPT ![t] =
              UntilStored([up[t] EXCEPT !.lines = Tail(up[t].lines), !.row = Tail(up[t].row)])]
  /\ UNCHANGED <<periods, clients, files, ctl>>

Upload(t) ==
  \/ FindClient(t) \/ InsertClient(t) \/ CheckPeriod(t)
  \/ InsertFile(t) \/ InsertTransaction(t)

-----------------------------------------------------------------------------
(* The control of a period (ModelImpl.controlPeriod): two queries.         *)

OfPeriod(p) == {i \in DOMAIN transactions : files[transactions[i].file].period = p}
Amount(ids) == MapThenSumSet(LAMBDA i : transactions[i].amount, ids)

\* getAggregatedInputData: an amount for each client.  An inner join leaves
\* transactions without a client out.
AggregatedInputData(p) ==
  LET of(r) == {i \in OfPeriod(p) : transactions[i].client = r} IN
  [r \in {transactions[i].client : i \in OfPeriod(p)} \ {NoClient} |-> Amount(of(r))]

\* The amounts by code: of two rows with a code, the last one read counts.
TransactionAmounts(p) ==
  LET sum == AggregatedInputData(p)
      rowsOf(k) == Rows(k) \cap DOMAIN sum
      codes == {clients[r] : r \in DOMAIN sum}
  IN  {[k \in codes |-> sum[last[k]]] :
         last \in {g \in [codes -> DOMAIN sum] : \A k \in codes : g[k] \in rowsOf(k)}}

\* ControlRecord.amountsMatch.
AmountsMatch(amounts, control, k) == k \in DOMAIN amounts /\ amounts[k] = control[k]

\* The codes whose transactions are written to the split files.
Matched(c) == {k \in DOMAIN c.control : AmountsMatch(c.amounts, c.control, k)}

\* Variant: the control file is taken to name them all.
AllListed(amounts, control) == {}

\* Clients with transactions that the control file does not name.
Unlisted(amounts, control) == DOMAIN amounts \ DOMAIN control

\* Control records that do not match, then the clients that are left.
Errors(amounts, control) ==
  LET get(k) == IF k \in DOMAIN amounts THEN {amounts[k]} ELSE NoAmount
      wrong == {k \in DOMAIN control : ~AmountsMatch(amounts, control, k)}
  IN  {<<k, get(k), {control[k]}>> : k \in wrong}
        \cup {<<k, get(k), NoAmount>> : k \in Unlisted(amounts, control)}

Compare ==
  /\ ctl.pc \in {"idle", "done", "failed"}
  /\ \E p \in DOMAIN periods, control \in ControlData :
     \E amounts \in TransactionAmounts(p) :
       ctl' = [pc |-> "compared", period |-> p, amounts |-> amounts, control |-> control,
               errors |-> Errors(amounts, control), split |-> <<>>]
  /\ UNCHANGED <<periods, clients, files, transactions, up>>

\* getTransactionsFromPeriod, ordered by file and id.
Before(i, j) ==
  \/ transactions[i].file < transactions[j].file
  \/ transactions[i].file = transactions[j].file /\ i < j
Rank(S, i) == Cardinality({j \in S : ~Before(i, j)})
TransactionsFromPeriod(p) ==
  LET all == OfPeriod(p) IN
  [n \in 1..Cardinality(all) |-> CHOOSE i \in all : Rank(all, i) = n]

\* Variant: the current file is not remembered.
AddLineForget(acc, i) ==
  IF clients[transactions[i].client] \notin Matched(ctl) THEN acc
  ELSE IF transactions[i].file = acc.file
       THEN [acc EXCEPT !.text = Append(@, i)]
       ELSE [acc EXCEPT !.zip = Append(@, acc.text), !.text = <<i>>]

\* A line is written; one of another file than the last begins a file.
AddLine(acc, i) ==
  IF clients[transactions[i].client] \notin Matched(ctl) THEN acc
  ELSE IF transactions[i].file = acc.file
       THEN [acc EXCEPT !.text = Append(@, i)]
       ELSE [file |-> transactions[i].file, zip |-> Append(acc.zip, acc.text), text |-> <<i>>]

\* The loop over the transactions, what there is after each of them.
WriteLines(seq) ==
  LET acc[n \in 0..Len(seq)] ==
        IF n = 0 THEN [file |-> transactions[seq[1]].file, zip |-> <<>>, text |-> <<>>]
        ELSE AddLine(acc[n - 1], seq[n])
  IN  acc

\* getSplitFiles: one file for each input file; the first file of the period
\* has one also when none of its lines is written.
SplitFiles(seq) ==
  LET last == WriteLines(seq)[Len(seq)]
  IN  IF seq = <<>> THEN <<>> ELSE Append(last.zip, last.text)

\* A transaction without a client ends the request with an exception.
Split ==
  /\ ctl.pc = "compared"
  /\ LET seq == TransactionsFromPeriod(ctl.period) IN
     ctl' = IF \E i \in OfPeriod(ctl.period) : transactions[i].client = NoClient
            THEN [NoControl EXCEPT !.pc = "failed"]
            ELSE [ctl EXCEPT !.pc = "done", !.split = SplitFiles(seq)]
  /\ UNCHANGED <<periods, clients, files, transactions, up>>

-----------------------------------------------------------------------------
Next ==
  \/ StartUploadPeriod \/ Compare \/ Split
  \/ \E p \in DOMAIN periods : ClosePeriod(p)
  \/ \E t \in Thread : Receive(t) \/ Upload(t)

Spec == Init /\ [][Next]_vars

-----------------------------------------------------------------------------
(* Properties.                                                             *)

Uploads ==
  [pc : {"idle", "clients", "insert", "open", "file"}, period : Nat,
   lines : Seq(Code \X Nat), row : Seq(Nat), file : Nat]

TablesOK ==
  /\ periods \in Seq(BOOLEAN) /\ clients \in Seq(Code)
  /\ files \in Seq([period : Nat, data : Seq(Code \X Nat)])
  /\ transactions \in Seq([file : Nat, client : Nat, amount : Nat])
  /\ \A f \in DOMAIN files : files[f].period \in DOMAIN periods
  /\ \A i \in DOMAIN transactions : transactions[i].file \in DOMAIN files

\* An upload adds to a file of the period that it was sent for.
UploadOK(u) ==
  /\ u.pc # "idle" => u.period \in DOMAIN periods
  /\ u.pc = "idle" => u.row = <<>>
  /\ Len(u.row) <= Len(u.lines)
  /\ u.pc = "insert" => Len(u.row) < Len(u.lines)
  /\ u.pc \in {"open", "file"} => Len(u.row) = Len(u.lines)
  /\ u.pc = "file" =>
       u.lines # <<>> /\ u.file \in DOMAIN files /\ files[u.file].period = u.period

RowsOK ==
  /\ \A t \in Thread : ToSet(up[t].row) \subseteq DOMAIN clients \cup {NoClient}
  /\ \A i \in DOMAIN transactions : transactions[i].client \in DOMAIN clients \cup {NoClient}

UploadsOK == up \in [Thread -> Uploads] /\ \A t \in Thread : UploadOK(up[t])

TypeOK ==
  /\ TablesOK /\ UploadsOK /\ RowsOK
  /\ ctl.pc \in {"idle", "compared", "done", "failed"} /\ Matched(ctl) \subseteq Code

\* The ids of the transactions of a file, in their order.
Places(f) == {i \in DOMAIN transactions : transactions[i].file = f}
InFile(f) == Ascending(Places(f))

\* Two uploads may both insert a client that neither of them found
\* (ClientDao.java:53-59), but each thread at most once: an upload that finds
\* more than one row adds none.
RowsBounded ==
  \A k \in Code :
    Cardinality(Rows(k))
      + Cardinality({t \in Thread : up[t].pc = "insert" /\ CodeOf(t) = k})
    <= Cardinality(Thread)

\* Whatever other uploads do meanwhile, the transactions of a file are its
\* lines, in order and in full when the upload has ended, with a client of the
\* line's code.  Only a code with several rows leaves a transaction without
\* one (ClientDao.java:60-62, ModelImpl.java:254-258).
TransactionsMatchFile ==
  \A f \in DOMAIN files :
    LET ids == InFile(f)
        data == files[f].data
    IN  /\ Len(ids) <= Len(data)
        /\ (\A t \in Thread : up[t].file # f) => Len(ids) = Len(data)
        /\ \A n \in DOMAIN ids :
             LET tr == transactions[ids[n]] IN
             /\ tr.amount = data[n][2]
             /\ IF tr.client = NoClient
                THEN Cardinality(Rows(data[n][1])) > 1
                ELSE clients[tr.client] = data[n][1]

\* The transactions of a period.
Book(p) == [i \in OfPeriod(p) |-> transactions[i]]

\* A period is sealed when it is closed and the uploads that found it open
\* have ended.
Sealed(p) ==
  /\ ~periods[p]
  /\ \A t \in Thread : up[t].pc \in {"open", "file"} => up[t].period # p

FilesOf(p) == {f \in DOMAIN files : files[f].period = p}

\* What is late in a closed period is only what was checked before: once
\* sealed it stays sealed, and neither a file nor a transaction comes in
\* (InputFileDao.java:30-37).
PeriodSealed ==
  [][\A p \in DOMAIN periods :
       Sealed(p) => Sealed(p)' /\ FilesOf(p)' = FilesOf(p) /\ Book(p)' = Book(p)]_vars

\* As long as no code has two rows, the control reports exactly the codes
\* whose transactions do not add up to their control amount, with those that
\* are on one side only (ModelImpl.java:183-200).
ErrorsExact ==
  [][Compare /\ (\A k \in Code : Cardinality(Rows(k)) < 2) =>
       LET p == ctl'.period
           paid(k) == {i \in OfPeriod(p) : clients[transactions[i].client] = k}
           total(k) == IF paid(k) = {} THEN NoAmount ELSE {Amount(paid(k))}
           control == ctl'.control
           due(k) == IF k \in DOMAIN control THEN {control[k]} ELSE NoAmount
       IN  /\ ctl'.errors = {<<k, total(k), due(k)>> : k \in {c \in Code : total(c) # due(c)}}
           /\ Matched(ctl') = {c \in DOMAIN control : total(c) = due(c)}]_vars

\* Also while files come in, the split files hold the transactions of the
\* clients that match, each one once: those of an input file together, in the
\* order of their ids, and those of two input files apart
\* (ModelImpl.java:221-243).
SplitByFile ==
  [][Split /\ ctl'.pc = "done" =>
       LET s == ctl'.split
           lines == {i \in OfPeriod(ctl.period) : clients[transactions[i].client] \in Matched(ctl)}
           place == UNION {{n} \X DOMAIN s[n] : n \in DOMAIN s}
           line(nm) == s[nm[1]][nm[2]]
           file(nm) == transactions[line(nm)].file
       IN  /\ {line(a) : a \in place} = lines
           /\ \A a, b \in place :
                /\ a[1] = b[1] <=> file(a) = file(b)
                /\ a[1] = b[1] /\ a[2] < b[2] => line(a) < line(b)]_vars

\* What UploadPeriod.java:10-11 says of a period: once it is closed, no more
\* files are uploaded to it.
NoLateFile ==
  [][\A p \in DOMAIN periods : ~periods[p] => FilesOf(p)' = FilesOf(p)]_vars
=============================================================================
