------------------------- MODULE UploadPeriods_proofs -------------------------
(***************************************************************************)
(* What is proved of the upload periods for every number of threads,       *)
(* periods and files, and all contents of files.                           *)
(***************************************************************************)
EXTENDS UploadPeriods, SequenceTheorems, FiniteSetTheorems, IntegerSets, TLAPS

-----------------------------------------------------------------------------
(* The inductive invariant: how far each upload is, and whose clients it   *)
(* has found.                                                              *)

\* Row r of CLIENTS was found, or made, for a line of client k.  Without a row,
\* there are several.
Fits(r, k) ==
  IF r = NoClient THEN Cardinality(Rows(k)) > 1 ELSE r \in DOMAIN clients /\ clients[r] = k

RowsFit ==
  \A t \in Thread : \A i \in DOMAIN up[t].row : Fits(up[t].row[i], up[t].lines[i][1])

Stored(f) == Cardinality(Places(f))

\* The n-th transaction of a file is that of its n-th line.
LineStored(f, n) ==
  LET tr == transactions[Nth(Places(f), n)]
      data == files[f].data
  IN  n \in DOMAIN data /\ tr.amount = data[n][2] /\ Fits(tr.client, data[n][1])

FilesFit == \A f \in DOMAIN files : \A n \in 1..Stored(f) : LineStored(f, n)

\* The lines that an upload has yet to store are the rest of its file.
Rest(u) ==
  LET data == files[u.file].data IN
  /\ Len(data) = Stored(u.file) + Len(u.lines)
  /\ \A i \in DOMAIN u.lines : u.lines[i] = data[Stored(u.file) + i]

Complete(f) == Stored(f) = Len(files[f].data)

StoringOK ==
  /\ \A t \in Thread : IF up[t].pc = "file" THEN Rest(up[t]) ELSE up[t].file = 0
  /\ \A s, t \in Thread : up[s].pc = "file" /\ up[s].file = up[t].file => s = t
  /\ \A f \in DOMAIN files : (\A t \in Thread : up[t].file # f) => Complete(f)

ControlOK ==
  /\ DOMAIN ctl = DOMAIN NoControl /\ ctl.pc \in {"idle", "compared", "done", "failed"}
  /\ DOMAIN ctl.control \subseteq Code

UploadInv ==
  /\ TablesOK /\ UploadsOK
  /\ RowsFit /\ FilesFit /\ StoringOK
  /\ RowsBounded /\ ControlOK

SealInv == TablesOK /\ UploadsOK

LEMMA InitSeal == Init => SealInv
BY UploadAssumption DEF Init, SealInv, TablesOK, UploadsOK, UploadOK, NoUpload, Uploads

-----------------------------------------------------------------------------
(* What each action keeps of the invariant.                                *)

\* The tables grow, one thread goes on with its upload.
LEMMA OneThread ==
  ASSUME UploadsOK, NEW t \in Thread,
         \E u \in Uploads : up' = [up EXCEPT ![t] = u],
         DOMAIN periods \subseteq DOMAIN periods',
         \A f \in DOMAIN files : f \in DOMAIN files' /\ files'[f].period = files[f].period,
         UploadOK(up[t])'
  PROVE  UploadsOK'
<1>1. up' \in [Thread -> Uploads] BY DEF UploadsOK
<1>2. ASSUME NEW s \in Thread PROVE UploadOK(up[s])'
  <2>1. CASE s = t BY <2>1
  <2>2. CASE s # t
    <3>1. up'[s] = up[s] BY <2>2 DEF UploadsOK
    <3> QED BY <3>1 DEF UploadsOK, UploadOK
  <2> QED BY <2>1, <2>2
<1> QED BY <1>1, <1>2 DEF UploadsOK

LEMMA ThreadEnds ==
  ASSUME UploadsOK, NEW t \in Thread, up' = [up EXCEPT ![t] = NoUpload],
         UNCHANGED <<periods, files>>
  PROVE  UploadsOK'
<1>1. NoUpload \in Uploads BY DEF Uploads, NoUpload
<1>2. UploadOK(up[t])' BY DEF UploadsOK, UploadOK, NoUpload
<1> QED BY <1>1, <1>2, OneThread

LEMMA ThreadStores ==
  ASSUME UploadsOK, NEW t \in Thread, UNCHANGED periods,
         \E u \in Uploads : up' = [up EXCEPT ![t] = UntilStored(u)],
         up'[t] # NoUpload => UploadOK(up[t])',
         \A f \in DOMAIN files : f \in DOMAIN files' /\ files'[f].period = files[f].period
  PROVE  UploadsOK'
<1>1. NoUpload \in Uploads BY DEF Uploads, NoUpload
<1>2. UploadOK(up[t])' BY DEF UploadOK, NoUpload
<1> QED BY <1>1, <1>2, OneThread DEF UntilStored

LEMMA StartKeeps == ASSUME SealInv, StartUploadPeriod PROVE SealInv'
<1>1. periods' \in Seq(BOOLEAN) /\ DOMAIN periods \subseteq DOMAIN periods'
  <2>1. periods \in Seq(BOOLEAN) /\ periods' = Append(periods, TRUE)
    BY DEF SealInv, TablesOK, StartUploadPeriod
  <2> QED BY ONLY <2>1, AppendProperties, LenProperties
<1>2. TablesOK' BY <1>1 DEF SealInv, TablesOK, StartUploadPeriod
<1>3. UploadsOK' BY <1>1 DEF SealInv, UploadsOK, UploadOK, StartUploadPeriod
<1> QED BY <1>2, <1>3 DEF SealInv

LEMMA CloseKeeps ==
  ASSUME SealInv, NEW p \in DOMAIN periods, ClosePeriod(p) PROVE SealInv'
<1>1. TablesOK' BY DEF SealInv, TablesOK, ClosePeriod
<1>2. UploadsOK' BY DEF SealInv, UploadsOK, UploadOK, ClosePeriod
<1> QED BY <1>1, <1>2 DEF SealInv

LEMMA ReceiveKeeps ==
  ASSUME SealInv, NEW t \in Thread, Receive(t) PROVE SealInv'
<1>1. PICK p \in DOMAIN periods, data \in FileData :
        up' = [up EXCEPT ![t] = [up[t] EXCEPT !.pc = "clients", !.period = p, !.lines = data]]
  BY DEF Receive
<1>2. p \in Nat /\ up[t] \in Uploads BY DEF SealInv, TablesOK, UploadsOK
<1>3. [up[t] EXCEPT !.pc = "clients", !.period = p, !.lines = data] \in Uploads
  BY <1>2, UploadAssumption DEF Uploads
<1>4. UploadOK(up[t])'
  BY <1>1, <1>2 DEF Receive, SealInv, UploadsOK, UploadOK, Uploads
<1>5. UploadsOK' BY <1>1, <1>3, <1>4, OneThread DEF Receive, SealInv
<1> QED BY <1>5 DEF Receive, SealInv, TablesOK

LEMMA WithClientFields ==
  ASSUME NEW t \in Thread, NEW r \in Nat, up[t] \in Uploads
  PROVE  /\ WithClient(t, r) \in Uploads
         /\ WithClient(t, r).pc = "clients"
         /\ WithClient(t, r).row = Append(up[t].row, r)
         /\ WithClient(t, r).lines = up[t].lines
         /\ WithClient(t, r).period = up[t].period
         /\ WithClient(t, r).file = up[t].file
<1> DEFINE v == [up[t] EXCEPT !.pc = "clients"]
<1>1. /\ v \in Uploads /\ v.pc = "clients" /\ v.row = up[t].row
      /\ v.lines = up[t].lines /\ v.period = up[t].period /\ v.file = up[t].file
  BY DEF Uploads
<1>2. WithClient(t, r) = [v EXCEPT !.row = Append(up[t].row, r)] BY DEF WithClient
<1>3. Append(up[t].row, r) \in Seq(Nat) BY DEF Uploads
<1> HIDE DEF v
<1>4. WithClient(t, r) \in Uploads BY <1>1, <1>2, <1>3 DEF Uploads
<1> QED BY <1>1, <1>2, <1>3, <1>4 DEF Uploads

LEMMA ClientFound ==
  ASSUME UploadsOK, NEW t \in Thread, NEW r \in Nat,
         up' = [up EXCEPT ![t] = WithClient(t, r)],
         up[t].pc \in {"clients", "insert"}, Len(up[t].row) < Len(up[t].lines),
         UNCHANGED <<periods, files>>
  PROVE  UploadsOK'
<1>1. up[t] \in Uploads /\ UploadOK(up[t]) BY DEF UploadsOK
<1>2. WithClient(t, r) \in Uploads BY <1>1, WithClientFields
<1>3. up'[t] = WithClient(t, r) BY DEF UploadsOK
<1>4. Len(Append(up[t].row, r)) = Len(up[t].row) + 1 BY <1>1 DEF Uploads
<1>5. Len(up[t].row) \in Nat BY <1>1 DEF Uploads
<1>6. Len(up[t].lines) \in Nat BY <1>1 DEF Uploads
<1>7. /\ up'[t].pc = "clients" /\ up'[t].row = Append(up[t].row, r)
      /\ up'[t].lines = up[t].lines /\ up'[t].period = up[t].period
  BY <1>1, <1>3, WithClientFields
<1>8. UploadOK(up[t])' BY <1>1, <1>4, <1>5, <1>6, <1>7 DEF UploadOK
<1> QED BY <1>2, <1>8, OneThread

LEMMA FindKeeps ==
  ASSUME SealInv, NEW t \in Thread, FindClient(t) PROVE SealInv'
<1> DEFINE rows == Rows(CodeOf(t))
<1>1. up[t] \in Uploads /\ UploadOK(up[t]) /\ UploadsOK BY DEF SealInv, UploadsOK
<1>2. up[t].pc = "clients" /\ up[t].lines \in Seq(Code \X Nat)
  BY <1>1 DEF FindClient, Uploads
<1>3. Len(up[t].row) < Len(up[t].lines)
  BY <1>1, <1>2 DEF FindClient, AllFound, UploadOK, Uploads
<1>4. CASE \E r \in Nat : up' = [up EXCEPT ![t] = WithClient(t, r)]
  <2>1. UploadsOK' BY <1>1, <1>2, <1>3, <1>4, ClientFound DEF FindClient
  <2> QED BY <2>1 DEF FindClient, SealInv, TablesOK
<1>5. CASE up' = [up EXCEPT ![t].pc = "insert"]
  <2> DEFINE u == [up[t] EXCEPT !.pc = "insert"]
  <2>1. up' = [up EXCEPT ![t] = u] /\ u \in Uploads BY <1>1, <1>5 DEF Uploads
  <2>2. /\ up'[t].pc = "insert" /\ up'[t].row = up[t].row
        /\ up'[t].lines = up[t].lines /\ up'[t].period = up[t].period
    BY <1>1, <2>1 DEF Uploads, UploadsOK
  <2>3. UploadOK(up[t])' BY <1>1, <1>2, <1>3, <2>2 DEF FindClient, UploadOK
  <2>4. UploadsOK' BY <1>1, <2>1, <2>3, OneThread DEF FindClient
  <2> QED BY <2>4 DEF FindClient, SealInv, TablesOK
<1>6. NoClient \in Nat /\ \A r \in rows : r \in Nat
  BY DEF Rows, NoClient, SealInv, TablesOK
<1> QED BY <1>4, <1>5, <1>6 DEF FindClient

LEMMA InsertKeeps ==
  ASSUME SealInv, NEW t \in Thread, InsertClient(t) PROVE SealInv'
<1>1. /\ up[t] \in Uploads /\ UploadOK(up[t]) /\ UploadsOK
      /\ up[t].pc = "insert" /\ clients \in Seq(Code)
  BY DEF SealInv, UploadsOK, InsertClient, TablesOK
<1>2. Len(up[t].row) < Len(up[t].lines) /\ up[t].lines \in Seq(Code \X Nat)
  BY <1>1 DEF UploadOK, Uploads
<1>3. CodeOf(t) \in Code BY <1>1, <1>2 DEF CodeOf, Uploads
<1>4. Len(clients) + 1 \in Nat BY <1>1
<1>5. UploadsOK' BY <1>1, <1>2, <1>4, ClientFound DEF InsertClient
<1> QED BY <1>1, <1>3, <1>5 DEF InsertClient, SealInv, TablesOK

LEMMA CheckKeeps ==
  ASSUME SealInv, NEW t \in Thread, CheckPeriod(t) PROVE SealInv'
<1>1. up[t] \in Uploads /\ UploadOK(up[t]) /\ UploadsOK /\ up[t].pc = "clients"
  BY DEF SealInv, UploadsOK, CheckPeriod
<1>2. CASE up' = [up EXCEPT ![t] = [up[t] EXCEPT !.pc = "open"]]
  <2>1. [up[t] EXCEPT !.pc = "open"] \in Uploads BY <1>1 DEF Uploads
  <2>2. /\ up'[t].pc = "open" /\ up'[t].row = up[t].row
        /\ up'[t].lines = up[t].lines /\ up'[t].period = up[t].period
    BY <1>1, <1>2 DEF Uploads, UploadsOK
  <2>3. Len(up[t].row) = Len(up[t].lines) BY DEF CheckPeriod, AllFound
  <2>4. UploadOK(up[t])' BY <1>1, <2>2, <2>3 DEF CheckPeriod, UploadOK
  <2>5. UploadsOK' BY <1>1, <1>2, <2>1, <2>4, OneThread DEF CheckPeriod
  <2> QED BY <2>5 DEF CheckPeriod, SealInv, TablesOK
<1>3. CASE up' = [up EXCEPT ![t] = NoUpload]
  <2>1. UploadsOK' BY <1>1, <1>3, ThreadEnds DEF CheckPeriod
  <2> QED BY <2>1 DEF CheckPeriod, SealInv, TablesOK
<1> QED BY <1>2, <1>3 DEF CheckPeriod

LEMMA InsertFileKeeps ==
  ASSUME SealInv, NEW t \in Thread, InsertFile(t) PROVE SealInv'
<1> DEFINE Row == [period : Nat, data : Seq(Code \X Nat)]
           row == [period |-> up[t].period, data |-> up[t].lines]
           v == [up[t] EXCEPT !.pc = "file"]
           u == [v EXCEPT !.file = Len(files) + 1]
<1>1. /\ up[t] \in Uploads /\ up[t].pc = "open" /\ UploadOK(up[t]) /\ UploadsOK
      /\ files \in Seq(Row) /\ \A f \in DOMAIN files : files[f].period \in DOMAIN periods
  BY DEF SealInv, UploadsOK, InsertFile, TablesOK
<1>2. row \in Row /\ row.period \in DOMAIN periods BY <1>1 DEF UploadOK, Uploads
<1>3. files' = Append(files, row) BY DEF InsertFile
<1>4. up' = [up EXCEPT ![t] = UntilStored(u)] BY DEF InsertFile
<1>5. /\ Len(files') = Len(files) + 1 /\ files'[Len(files) + 1] = row
      /\ \A f \in 1..Len(files) : files'[f] = files[f]
      /\ files' \in Seq(Row)
  <2> HIDE DEF row, Row
  <2> QED BY <1>1, <1>2, <1>3, AppendProperties
<1>6. \A f \in DOMAIN files : f \in DOMAIN files' /\ files'[f].period = files[f].period
  <2> HIDE DEF row, Row
  <2> QED BY <1>1, <1>5
<1>7. \A f \in DOMAIN files' : files'[f].period \in DOMAIN periods
  <2>1. DOMAIN files' = 1..Len(files) + 1
    <3> HIDE DEF row, Row
    <3>1. DOMAIN files' = 1..Len(files') BY <1>5, LenProperties
    <3> QED BY <1>5, <3>1
  <2> HIDE DEF row, Row
  <2>2. Len(files) \in Nat /\ DOMAIN files = 1..Len(files) BY <1>1
  <2> QED BY <1>1, <1>2, <1>5, <2>1, <2>2
<1>8. v \in Uploads BY <1>1 DEF Uploads
<1>9. Len(files) + 1 \in Nat /\ Len(files) + 1 \in DOMAIN files' BY <1>1, <1>5
<1>10. u \in Uploads
  <2> HIDE DEF v
  <2> QED BY <1>8, <1>9 DEF Uploads
<1>11. /\ u.pc = "file" /\ u.row = up[t].row /\ u.lines = up[t].lines
       /\ u.period = up[t].period /\ u.file = Len(files) + 1
  BY <1>1 DEF Uploads
<1>12. up'[t] # NoUpload => UploadOK(up[t])'
  <2> HIDE DEF u
  <2> SUFFICES ASSUME up'[t] # NoUpload PROVE UploadOK(up[t])' OBVIOUS
  <2>1. up'[t] = UntilStored(u) BY <1>1, <1>4 DEF UploadsOK
  <2>2. up'[t] = u /\ u.lines # <<>> BY <2>1 DEF UntilStored
  <2> QED BY <2>2, <1>1, <1>2, <1>5, <1>9, <1>11 DEF UploadOK, InsertFile
<1>13. UploadsOK'
  <2> HIDE DEF u
  <2> QED BY <1>1, <1>4, <1>6, <1>10, <1>12, ThreadStores DEF InsertFile
<1> QED BY <1>5, <1>6, <1>7, <1>13 DEF InsertFile, SealInv, TablesOK

\* The new row of TRANSACTIONS.
LEMMA TransactionAdded ==
  ASSUME SealInv, NEW t \in Thread, InsertTransaction(t)
  PROVE  /\ transactions' \in Seq([file : Nat, client : Nat, amount : Nat])
         /\ Len(transactions) \in Nat /\ Len(transactions') = Len(transactions) + 1
         /\ \A i \in 1..Len(transactions) : transactions'[i] = transactions[i]
         /\ transactions'[Len(transactions) + 1].file = up[t].file
         /\ transactions'[Len(transactions) + 1].client = Head(up[t].row)
         /\ transactions'[Len(transactions) + 1].amount = Head(up[t].lines)[2]
<1> DEFINE Row == [file : Nat, client : Nat, amount : Nat]
           row == [file |-> up[t].file, client |-> Head(up[t].row),
                   amount |-> Head(up[t].lines)[2]]
<1>1. /\ up[t] \in Uploads /\ UploadOK(up[t]) /\ up[t].pc = "file"
      /\ transactions \in Seq(Row)
  BY DEF SealInv, UploadsOK, InsertTransaction, TablesOK
<1>2. /\ up[t].lines \in Seq(Code \X Nat) /\ up[t].row \in Seq(Nat)
      /\ up[t].lines # <<>> /\ Len(up[t].row) = Len(up[t].lines)
  BY <1>1 DEF Uploads, UploadOK
<1>3. up[t].row # <<>> BY <1>2, EmptySeq
<1>4. Head(up[t].lines) \in Code \X Nat BY <1>2, HeadTailProperties
<1>5. Head(up[t].row) \in Nat BY <1>2, <1>3, HeadTailProperties
<1>6. row \in Row /\ row.file = up[t].file BY <1>1, <1>4, <1>5 DEF Uploads
<1>7. transactions' = Append(transactions, row) BY DEF InsertTransaction
<1>8. /\ transactions' \in Seq(Row) /\ Len(transactions') = Len(transactions) + 1
      /\ \A i \in 1..Len(transactions) : transactions'[i] = transactions[i]
      /\ transactions'[Len(transactions) + 1] = row /\ Len(transactions) \in Nat
  <2> HIDE DEF row, Row
  <2> QED BY <1>1, <1>6, <1>7, AppendProperties, LenProperties
<1> QED BY <1>6, <1>8

LEMMA InsertTransactionKeeps ==
  ASSUME SealInv, NEW t \in Thread, InsertTransaction(t) PROVE SealInv'
<1> DEFINE v == [up[t] EXCEPT !.lines = Tail(up[t].lines)]
           u == [v EXCEPT !.row = Tail(up[t].row)]
<1>1. /\ up[t] \in Uploads /\ UploadOK(up[t]) /\ UploadsOK /\ up[t].pc = "file"
  BY DEF SealInv, UploadsOK, InsertTransaction
<1>2. /\ up[t].lines \in Seq(Code \X Nat) /\ up[t].row \in Seq(Nat)
      /\ up[t].lines # <<>> /\ Len(up[t].row) = Len(up[t].lines)
  BY <1>1 DEF Uploads, UploadOK
<1>3. up[t].row # <<>> BY <1>2, EmptySeq
<1>4. /\ Head(up[t].lines) \in Code \X Nat /\ Tail(up[t].lines) \in Seq(Code \X Nat)
      /\ Len(Tail(up[t].lines)) = Len(up[t].lines) - 1
  BY <1>2, HeadTailProperties
<1>5. /\ Head(up[t].row) \in Nat /\ Tail(up[t].row) \in Seq(Nat)
      /\ Len(Tail(up[t].row)) = Len(up[t].row) - 1
  BY <1>2, <1>3, HeadTailProperties
<1>8. v \in Uploads /\ v.row = up[t].row BY <1>1, <1>4 DEF Uploads
<1>9. up' = [up EXCEPT ![t] = UntilStored(u)] BY DEF InsertTransaction
<1>10. u \in Uploads
  <2> HIDE DEF v
  <2> QED BY <1>5, <1>8 DEF Uploads
<1>11. /\ u.pc = "file" /\ u.row = Tail(up[t].row) /\ u.file = up[t].file
       /\ u.lines = Tail(up[t].lines) /\ u.period = up[t].period
  BY <1>1 DEF Uploads
<1>12. up'[t] # NoUpload => UploadOK(up[t])'
  <2> HIDE DEF u
  <2> SUFFICES ASSUME up'[t] # NoUpload PROVE UploadOK(up[t])' OBVIOUS
  <2>1. up'[t] = UntilStored(u) BY <1>1, <1>9 DEF UploadsOK
  <2>2. up'[t] = u /\ u.lines # <<>> BY <2>1 DEF UntilStored
  <2>3. UNCHANGED <<periods, files>> BY DEF InsertTransaction
  <2>4. Len(Tail(up[t].row)) = Len(Tail(up[t].lines)) /\ Len(Tail(up[t].row)) \in Nat
    <3>1. Len(up[t].row) \in Nat /\ Len(Tail(up[t].row)) \in Nat BY <1>2, <1>5, LenProperties
    <3> QED BY <1>2, <1>4, <1>5, <3>1
  <2>5. /\ u.period \in DOMAIN periods /\ u.pc = "file"
        /\ u.file \in DOMAIN files /\ files[u.file].period = u.period
    BY <1>1, <1>11 DEF UploadOK
  <2> QED BY <2>2, <2>3, <2>4, <2>5, <1>11 DEF UploadOK
<1>13. UploadsOK'
  <2> HIDE DEF u
  <2> QED BY <1>1, <1>9, <1>10, <1>12, ThreadStores DEF InsertTransaction
<1>14. \A i \in DOMAIN transactions' : transactions'[i].file \in DOMAIN files
  <2>1. up[t].file \in DOMAIN files BY <1>1 DEF UploadOK
  <2>2. /\ Len(transactions) \in Nat /\ Len(transactions') = Len(transactions) + 1
        /\ \A i \in 1..Len(transactions) : transactions'[i] = transactions[i]
        /\ transactions'[Len(transactions) + 1].file = up[t].file
    BY TransactionAdded
  <2>3. /\ DOMAIN transactions = 1..Len(transactions)
        /\ DOMAIN transactions' = 1..Len(transactions')
    BY TransactionAdded, LenProperties DEF SealInv, TablesOK
  <2>4. \A i \in DOMAIN transactions : transactions[i].file \in DOMAIN files
    BY DEF SealInv, TablesOK
  <2> QED BY <2>1, <2>2, <2>3, <2>4
<1> QED BY <1>13, <1>14, TransactionAdded DEF InsertTransaction, SealInv, TablesOK

-----------------------------------------------------------------------------
LEMMA NextSeal == SealInv /\ [Next]_vars => SealInv'
<1> SUFFICES ASSUME SealInv, [Next]_vars PROVE SealInv'
  OBVIOUS
<1>1. CASE StartUploadPeriod BY <1>1, StartKeeps
<1>2. CASE Compare BY <1>2 DEF Compare, SealInv, TablesOK, UploadsOK, UploadOK
<1>3. CASE Split BY <1>3 DEF Split, SealInv, TablesOK, UploadsOK, UploadOK
<1>4. ASSUME NEW p \in DOMAIN periods, ClosePeriod(p) PROVE SealInv' BY <1>4, CloseKeeps
<1>5. ASSUME NEW t \in Thread, Receive(t) \/ Upload(t) PROVE SealInv'
  BY <1>5, ReceiveKeeps, FindKeeps, InsertKeeps, CheckKeeps, InsertFileKeeps,
     InsertTransactionKeeps DEF Upload
<1>6. CASE UNCHANGED vars BY <1>6 DEF vars, SealInv, TablesOK, UploadsOK, UploadOK
<1> QED BY <1>1, <1>2, <1>3, <1>4, <1>5, <1>6 DEF Next

-----------------------------------------------------------------------------
(* Sealed periods.                                                         *)

\* The rows of a period that cannot change.
LEMMA BookFromFiles ==
  ASSUME SealInv, NEW p, UNCHANGED <<files, transactions>>
  PROVE  FilesOf(p)' = FilesOf(p) /\ Book(p)' = Book(p)
BY DEF FilesOf, Book, OfPeriod

LEMMA SealedStep ==
  ASSUME SealInv, [Next]_vars, NEW p \in DOMAIN periods, Sealed(p)
  PROVE  Sealed(p)' /\ FilesOf(p)' = FilesOf(p) /\ Book(p)' = Book(p)
<1>1. CASE StartUploadPeriod
  BY <1>1, BookFromFiles DEF StartUploadPeriod, Sealed, SealInv, TablesOK
<1>2. CASE Compare BY <1>2, BookFromFiles DEF Compare, Sealed
<1>3. CASE Split BY <1>3, BookFromFiles DEF Split, Sealed
<1>4. CASE \E q \in DOMAIN periods : ClosePeriod(q)
  BY <1>4, BookFromFiles DEF ClosePeriod, Sealed, SealInv, TablesOK
<1>5. CASE \E t \in Thread : Receive(t) \/ FindClient(t) \/ InsertClient(t) \/ CheckPeriod(t)
  <2>1. PICK t \in Thread :
          Receive(t) \/ FindClient(t) \/ InsertClient(t) \/ CheckPeriod(t)
    BY <1>5
  <2>2. UNCHANGED <<files, transactions, periods>>
    BY <2>1 DEF Receive, FindClient, InsertClient, CheckPeriod
  <2>3. \A s \in Thread : s # t => up'[s] = up[s]
    BY <2>1 DEF Receive, FindClient, InsertClient, CheckPeriod, SealInv, UploadsOK
  <2>4. up'[t].pc \in {"open", "file"} => up'[t].period # p
    <3>1. up[t] \in Uploads BY DEF SealInv, UploadsOK
    <3>2. CASE Receive(t) BY <3>1, <3>2 DEF Receive, SealInv, UploadsOK, Uploads
    <3>3. CASE FindClient(t)
      <4> DEFINE rows == Rows(CodeOf(t))
      <4>0. NoClient \in Nat /\ \A r \in rows : r \in Nat
        BY DEF Rows, NoClient, SealInv, TablesOK
      <4>1. \/ \E r \in Nat : up' = [up EXCEPT ![t] = WithClient(t, r)]
            \/ up' = [up EXCEPT ![t].pc = "insert"]
        BY <3>3, <4>0 DEF FindClient
      <4>2. \/ \E r \in Nat : up'[t] = WithClient(t, r)
            \/ up'[t].pc = "insert"
        BY <3>1, <4>1 DEF SealInv, UploadsOK, Uploads
      <4>3. up'[t].pc \in {"clients", "insert"} BY <3>1, <4>2, WithClientFields
      <4> QED BY <4>3
    <3>4. CASE InsertClient(t)
      <4>1. up'[t] = WithClient(t, Len(clients) + 1) /\ Len(clients) + 1 \in Nat
        BY <3>1, <3>4 DEF InsertClient, SealInv, UploadsOK, TablesOK
      <4> QED BY <3>1, <4>1, WithClientFields
    <3>5. CASE CheckPeriod(t)
      BY <3>1, <3>5 DEF CheckPeriod, NoUpload, Sealed, SealInv, UploadsOK, Uploads
    <3> QED BY <2>1, <3>2, <3>3, <3>4, <3>5
  <2> QED BY <2>2, <2>3, <2>4, BookFromFiles DEF Sealed
<1>6. CASE \E t \in Thread : InsertFile(t)
  <2>1. PICK t \in Thread : InsertFile(t) BY <1>6
  <2> DEFINE Row == [period : Nat, data : Seq(Code \X Nat)]
             row == [period |-> up[t].period, data |-> up[t].lines]
  <2>2. /\ up[t] \in Uploads /\ up[t].pc = "open" /\ up[t].period # p
        /\ files \in Seq(Row) /\ row \in Row /\ row.period # p
    BY <2>1 DEF InsertFile, Sealed, SealInv, UploadsOK, TablesOK, Uploads
  <2>3. files' = Append(files, row) /\ UNCHANGED <<periods, transactions>>
    BY <2>1 DEF InsertFile
  <2>4. /\ Len(files') = Len(files) + 1 /\ files'[Len(files) + 1] = row
        /\ \A f \in 1..Len(files) : files'[f] = files[f]
        /\ files' \in Seq(Row) /\ Len(files) \in Nat /\ DOMAIN files = 1..Len(files)
    <3> HIDE DEF row, Row
    <3> QED BY <2>2, <2>3, AppendProperties
  <2>5. DOMAIN files' = 1..Len(files')
    <3> HIDE DEF row, Row
    <3> QED BY <2>4, LenProperties
  <2>6. FilesOf(p)' = FilesOf(p)
    <3> HIDE DEF row, Row
    <3> QED BY <2>2, <2>4, <2>5 DEF FilesOf
  <2>7. OfPeriod(p)' = OfPeriod(p)
    <3> HIDE DEF row, Row
    <3>1. \A i \in DOMAIN transactions : transactions[i].file \in 1..Len(files)
      BY <2>4 DEF SealInv, TablesOK
    <3> QED BY <2>3, <2>4, <3>1 DEF OfPeriod
  <2>8. Book(p)' = Book(p) BY <2>3, <2>7 DEF Book
  <2>9. \A s \in Thread : up'[s].pc \in {"open", "file"} => up'[s].period # p
    BY <2>1, <2>2 DEF InsertFile, UntilStored, NoUpload, Sealed, SealInv, UploadsOK, Uploads
  <2> QED BY <2>3, <2>6, <2>8, <2>9 DEF Sealed
<1>7. CASE \E t \in Thread : InsertTransaction(t)
  <2>1. PICK t \in Thread : InsertTransaction(t) BY <1>7
  <2>2. /\ up[t] \in Uploads /\ up[t].pc = "file" /\ up[t].period # p
        /\ files[up[t].file].period # p
    BY <2>1 DEF InsertTransaction, Sealed, SealInv, UploadsOK, UploadOK
  <2>3. UNCHANGED <<periods, files>> BY <2>1 DEF InsertTransaction
  <2>4. /\ Len(transactions) \in Nat /\ Len(transactions') = Len(transactions) + 1
        /\ \A i \in 1..Len(transactions) : transactions'[i] = transactions[i]
        /\ transactions'[Len(transactions) + 1].file = up[t].file
    BY <2>1, TransactionAdded
  <2>5. /\ DOMAIN transactions = 1..Len(transactions)
        /\ DOMAIN transactions' = 1..Len(transactions')
    BY <2>1, TransactionAdded, LenProperties DEF SealInv, TablesOK
  <2>6. OfPeriod(p)' = OfPeriod(p) BY <2>2, <2>3, <2>4, <2>5 DEF OfPeriod
  <2>7. Book(p)' = Book(p) BY <2>4, <2>5, <2>6 DEF Book, OfPeriod
  <2>8. FilesOf(p)' = FilesOf(p) BY <2>3 DEF FilesOf
  <2>9. \A s \in Thread : up'[s].pc \in {"open", "file"} => up'[s].period # p
    BY <2>1, <2>2 DEF InsertTransaction, UntilStored, NoUpload, Sealed, SealInv, UploadsOK, Uploads
  <2> QED BY <2>3, <2>7, <2>8, <2>9 DEF Sealed
<1>8. CASE UNCHANGED vars BY <1>8, BookFromFiles DEF vars, Sealed
<1> QED
  BY <1>1, <1>2, <1>3, <1>4, <1>5, <1>6, <1>7, <1>8 DEF Next, Upload

\* For any number of threads: a closed period whose late uploads have ended
\* gets neither a file nor a transaction (InputFileDao.java:30-37).
THEOREM SealedPeriodsKept == Spec => PeriodSealed
<1>1. SealInv /\ [Next]_vars =>
        [\A p \in DOMAIN periods :
           Sealed(p) => Sealed(p)' /\ FilesOf(p)' = FilesOf(p) /\ Book(p)' = Book(p)]_vars
  BY SealedStep
<1> QED BY <1>1, InitSeal, NextSeal, PTL DEF Spec, PeriodSealed

\* Tables and uploads fit together: whatever is stored has its file, and an
\* upload adds to a file of its own period (InputFileDao.java:30-37).
THEOREM SealInvAlways == Spec => []SealInv
BY InitSeal, NextSeal, PTL DEF Spec

-----------------------------------------------------------------------------
(* Uploads and the rows of their clients.                                  *)

LEMMA TableRows ==
  ASSUME TablesOK
  PROVE  /\ clients \in Seq(Code) /\ Len(clients) \in Nat /\ DOMAIN clients = 1..Len(clients)
         /\ files \in Seq([period : Nat, data : Seq(Code \X Nat)])
         /\ Len(files) \in Nat /\ DOMAIN files = 1..Len(files)
         /\ transactions \in Seq([file : Nat, client : Nat, amount : Nat])
         /\ Len(transactions) \in Nat /\ DOMAIN transactions = 1..Len(transactions)
         /\ \A k : IsFiniteSet(Rows(k)) /\ Cardinality(Rows(k)) \in Nat
         /\ \A f : /\ IsFiniteSet(Places(f)) /\ \A i \in Places(f) : i \in Nat /\ i >= 1
                   /\ Stored(f) \in Nat
<1>1. /\ Len(clients) \in Nat /\ DOMAIN clients = 1..Len(clients)
      /\ Len(files) \in Nat /\ DOMAIN files = 1..Len(files)
      /\ Len(transactions) \in Nat /\ DOMAIN transactions = 1..Len(transactions)
  BY LenProperties DEF TablesOK
<1>2. \A k : IsFiniteSet(Rows(k)) /\ Cardinality(Rows(k)) \in Nat
  <2>1. IsFiniteSet(DOMAIN clients) BY <1>1, FS_Interval
  <2>2. \A k : Rows(k) \subseteq DOMAIN clients BY DEF Rows
  <2> QED BY <2>1, <2>2, FS_Subset, FS_CardinalityType
<1>3. \A f : /\ IsFiniteSet(Places(f)) /\ \A i \in Places(f) : i \in Nat /\ i >= 1
             /\ Stored(f) \in Nat
  <2>1. IsFiniteSet(DOMAIN transactions) BY <1>1, FS_Interval
  <2>2. \A f : Places(f) \subseteq DOMAIN transactions BY DEF Places
  <2>3. \A f : IsFiniteSet(Places(f)) /\ Cardinality(Places(f)) \in Nat
    BY <2>1, <2>2, FS_Subset, FS_CardinalityType
  <2>4. \A i \in DOMAIN transactions : i \in Nat /\ i >= 1 BY <1>1
  <2> QED BY <2>2, <2>3, <2>4 DEF Stored
<1> QED BY <1>1, <1>2, <1>3 DEF TablesOK

\* Rows of clients are never taken away, so that what fits goes on fitting.
ClientsGrow ==
  \A r \in DOMAIN clients : r \in DOMAIN clients' /\ clients'[r] = clients[r]

LEMMA FitsKept ==
  ASSUME TablesOK, TablesOK', ClientsGrow, NEW r, NEW k, Fits(r, k)
  PROVE  Fits(r, k)'
<1>1. CASE r = NoClient
  <2>1. Rows(k) \subseteq Rows(k)' BY DEF ClientsGrow, Rows
  <2>2. /\ IsFiniteSet(Rows(k)') /\ Cardinality(Rows(k)') \in Nat
        /\ Cardinality(Rows(k)) \in Nat
    <3>1. IsFiniteSet(DOMAIN clients') BY LenProperties, FS_Interval DEF TablesOK
    <3>2. Rows(k)' \subseteq DOMAIN clients' BY DEF Rows
    <3> QED BY <3>1, <3>2, TableRows, FS_Subset, FS_CardinalityType
  <2>3. Cardinality(Rows(k)) <= Cardinality(Rows(k)') BY <2>1, <2>2, FS_Subset
  <2> QED BY <1>1, <2>2, <2>3 DEF Fits
<1>2. CASE r # NoClient BY <1>2 DEF Fits, ClientsGrow
<1> QED BY <1>1, <1>2

LEMMA SameClients ==
  ASSUME TablesOK, UNCHANGED clients PROVE ClientsGrow
BY DEF ClientsGrow

LEMMA FilesFitKept ==
  ASSUME TablesOK, TablesOK', ClientsGrow, FilesFit, UNCHANGED <<files, transactions>>
  PROVE  FilesFit' /\ \A f : Stored(f)' = Stored(f)
<1>1. \A f : Places(f)' = Places(f) /\ Stored(f)' = Stored(f) BY DEF Places, Stored
<1>2. ASSUME NEW f \in DOMAIN files, NEW n \in 1..Stored(f) PROVE LineStored(f, n)'
  <2>1. LineStored(f, n) BY <1>2 DEF FilesFit
  <2> QED BY <1>1, <2>1, FitsKept DEF LineStored
<1> QED BY <1>1, <1>2 DEF FilesFit

\* A thread goes on before its file is there, or goes back to the pool.
LEMMA ThreadGoes ==
  ASSUME UploadInv, TablesOK', NEW t \in Thread, up' \in [Thread -> Uploads],
         \A s \in Thread : s # t => up'[s] = up[s],
         UNCHANGED <<files, transactions>>, ClientsGrow,
         up[t].pc # "file", up'[t].pc # "file", up'[t].file = 0,
         (\A i \in DOMAIN up[t].row : Fits(up[t].row[i], up[t].lines[i][1]))'
  PROVE  RowsFit' /\ FilesFit' /\ StoringOK'
<1>1. TablesOK /\ RowsFit /\ FilesFit /\ StoringOK BY DEF UploadInv
<1>2. FilesFit' /\ \A f : Stored(f)' = Stored(f) BY <1>1, FilesFitKept
<1>3. RowsFit'
  <2>1. ASSUME NEW s \in Thread, s # t, NEW i \in DOMAIN up[s].row
        PROVE  Fits(up[s].row[i], up[s].lines[i][1])'
    <3>1. PICK r, k : /\ r = up[s].row[i] /\ k = up[s].lines[i][1]
                      /\ r = up'[s].row[i] /\ k = up'[s].lines[i][1]
      BY <2>1
    <3>2. Fits(r, k) BY <1>1, <3>1 DEF RowsFit
    <3> QED BY <1>1, <3>1, <3>2, FitsKept
  <2>2. ASSUME NEW s \in Thread, s # t
        PROVE  (\A i \in DOMAIN up[s].row : Fits(up[s].row[i], up[s].lines[i][1]))'
    <3>1. DOMAIN up'[s].row = DOMAIN up[s].row BY <2>2
    <3> QED BY <2>1, <2>2, <3>1
  <2> QED BY <2>2 DEF RowsFit
<1>4. up[t].file = 0 BY <1>1 DEF StoringOK
<1>5. StoringOK'
  <2>1. ASSUME NEW s \in Thread
        PROVE  IF up'[s].pc = "file" THEN Rest(up[s])' ELSE up'[s].file = 0
    BY <1>1, <1>2 DEF StoringOK, Rest
  <2>2. ASSUME NEW r \in Thread, NEW s \in Thread, up'[r].pc = "file", up'[r].file = up'[s].file
        PROVE  r = s
    <3>1. r # t BY <2>2
    <3>2. up'[s].file = up[s].file BY <1>4
    <3> QED BY <1>1, <2>2, <3>1, <3>2 DEF StoringOK
  <2>3. ASSUME NEW f \in DOMAIN files, \A s \in Thread : up'[s].file # f
        PROVE  Complete(f)'
    <3>1. \A s \in Thread : up[s].file # f BY <1>4, <2>3
    <3> QED BY <1>1, <1>2, <3>1 DEF StoringOK, Complete
  <2> QED BY <2>1, <2>2, <2>3 DEF StoringOK
<1> QED BY <1>2, <1>3, <1>5

\* The next client of an upload is known.
LEMMA RowAdded ==
  ASSUME UploadInv, TablesOK', ClientsGrow, NEW t \in Thread, NEW r \in Nat,
         up' = [up EXCEPT ![t] = WithClient(t, r)],
         NEW k, k = CodeOf(t), Fits(r, k)'
  PROVE  (\A i \in DOMAIN up[t].row : Fits(up[t].row[i], up[t].lines[i][1]))'
<1>1. /\ TablesOK /\ UploadsOK /\ RowsFit /\ up[t] \in Uploads
  BY DEF UploadInv, UploadsOK
<1>2. up'[t] = WithClient(t, r) BY <1>1 DEF UploadsOK
<1>3. up'[t].row = Append(up[t].row, r) /\ up'[t].lines = up[t].lines
  BY <1>1, <1>2, WithClientFields
<1>4. /\ Len(up[t].row) \in Nat /\ DOMAIN up[t].row = 1..Len(up[t].row)
      /\ DOMAIN up'[t].row = 1..Len(up[t].row) + 1
      /\ up'[t].row[Len(up[t].row) + 1] = r
      /\ \A i \in 1..Len(up[t].row) : up'[t].row[i] = up[t].row[i]
  <2>1. up[t].row \in Seq(Nat) BY <1>1 DEF Uploads
  <2> QED BY <1>3, <2>1, AppendProperties, LenProperties
<1>5. ASSUME NEW i \in DOMAIN up'[t].row PROVE Fits(up[t].row[i], up[t].lines[i][1])'
  <2>1. CASE i \in DOMAIN up[t].row
    <3>1. PICK q, c : /\ q = up[t].row[i] /\ c = up[t].lines[i][1]
                      /\ q = up'[t].row[i] /\ c = up'[t].lines[i][1]
      BY <1>3, <1>4, <2>1
    <3>2. Fits(q, c) BY <1>1, <2>1, <3>1 DEF RowsFit
    <3> QED BY <1>1, <3>1, <3>2, FitsKept
  <2>2. CASE i = Len(up[t].row) + 1
    <3>1. up'[t].row[i] = r /\ up'[t].lines[i][1] = k BY <1>3, <1>4, <2>2 DEF CodeOf
    <3> QED BY <3>1
  <2> QED BY <1>4, <2>1, <2>2
<1> QED BY <1>5

\* Threads that are about to insert a row for a code.
Inserting(k) == {t \in Thread : up[t].pc = "insert" /\ CodeOf(t) = k}

LEMMA InsertingFinite ==
  ASSUME NEW k
  PROVE  /\ IsFiniteSet(Inserting(k)) /\ Cardinality(Inserting(k)) \in Nat
         /\ IsFiniteSet(Inserting(k)') /\ Cardinality(Inserting(k)') \in Nat
         /\ Cardinality(Inserting(k)') <= Cardinality(Thread) /\ Cardinality(Thread) \in Nat
<1>1. Inserting(k) \subseteq Thread /\ Inserting(k)' \subseteq Thread BY DEF Inserting
<1>2. IsFiniteSet(Thread) BY UploadAssumption
<1> QED BY <1>1, <1>2, FS_Subset, FS_CardinalityType

LEMMA OthersInsert ==
  ASSUME NEW t \in Thread, \A s \in Thread : s # t => up'[s] = up[s]
  PROVE  /\ \A k : up'[t].pc # "insert" => Inserting(k)' = Inserting(k) \ {t}
         /\ \A k : up[t].pc # "insert" => Inserting(k)' \subseteq Inserting(k) \cup {t}
<1>1. \A s \in Thread : s # t => CodeOf(s)' = CodeOf(s) /\ up'[s].pc = up[s].pc BY DEF CodeOf
<1> QED BY <1>1 DEF Inserting

LEMMA BoundKept ==
  ASSUME TablesOK, RowsBounded, UNCHANGED clients,
         NEW t \in Thread, \A s \in Thread : s # t => up'[s] = up[s],
         up'[t].pc # "insert"
  PROVE  RowsBounded'
<1>1. ASSUME NEW k \in Code
      PROVE  Cardinality(Rows(k)') + Cardinality(Inserting(k)') <= Cardinality(Thread)
  <2>1. Rows(k)' = Rows(k) BY DEF Rows
  <2>2. Inserting(k)' \subseteq Inserting(k) BY OthersInsert
  <2>3. Cardinality(Inserting(k)') <= Cardinality(Inserting(k))
    BY <2>2, InsertingFinite, FS_Subset
  <2>4. Cardinality(Rows(k)) + Cardinality(Inserting(k)) <= Cardinality(Thread)
    BY DEF RowsBounded, Inserting
  <2>5. Cardinality(Rows(k)) \in Nat BY TableRows
  <2> QED BY <2>1, <2>3, <2>4, <2>5, InsertingFinite
<1> QED BY <1>1 DEF RowsBounded, Inserting

LEMMA FindInv ==
  ASSUME UploadInv, NEW t \in Thread, FindClient(t) PROVE UploadInv'
<1>0. PICK k : k = CodeOf(t) OBVIOUS
<1>1. /\ TablesOK /\ UploadsOK /\ SealInv /\ RowsBounded /\ StoringOK /\ ControlOK
      /\ up[t] \in Uploads /\ UploadOK(up[t])
  BY DEF UploadInv, SealInv, UploadsOK
<1>2. TablesOK' /\ UploadsOK' BY <1>1, FindKeeps DEF SealInv
<1>3. /\ UNCHANGED <<clients, files, transactions, ctl>> /\ up[t].pc = "clients" /\ up[t].file = 0
      /\ Len(up[t].row) < Len(up[t].lines)
  BY <1>1 DEF FindClient, StoringOK, UploadOK, AllFound, Uploads
<1>4. up' \in [Thread -> Uploads] /\ \A s \in Thread : s # t => up'[s] = up[s]
  BY <1>1, <1>2 DEF UploadsOK, FindClient
<1>5. ClientsGrow /\ ControlOK' BY <1>1, <1>3, SameClients DEF ControlOK
<1>6. k \in Code
  <2>1. Len(up[t].row) + 1 \in DOMAIN up[t].lines BY <1>1, <1>3 DEF Uploads
  <2>2. up[t].lines[Len(up[t].row) + 1] \in Code \X Nat BY <1>1, <2>1 DEF Uploads
  <2> QED BY <1>0, <2>2 DEF CodeOf
<1>7. ASSUME NEW r \in Nat, up' = [up EXCEPT ![t] = WithClient(t, r)], Fits(r, k)
      PROVE  UploadInv'
  <2>1. Fits(r, k)' BY <1>1, <1>2, <1>5, <1>7, FitsKept
  <2>2. up'[t] = WithClient(t, r) BY <1>1, <1>7 DEF UploadsOK
  <2>3. up'[t].pc = "clients" /\ up'[t].file = 0 BY <1>1, <1>3, <2>2, WithClientFields
  <2>4. (\A i \in DOMAIN up[t].row : Fits(up[t].row[i], up[t].lines[i][1]))'
    BY <1>0, <1>2, <1>5, <1>7, <2>1, RowAdded
  <2>5. RowsFit' /\ FilesFit' /\ StoringOK' BY <1>2, <1>3, <1>4, <1>5, <2>3, <2>4, ThreadGoes
  <2>6. RowsBounded' BY <1>1, <1>3, <1>4, <2>3, BoundKept
  <2> QED BY <1>2, <1>5, <2>5, <2>6 DEF UploadInv
<1>8. CASE Rows(k) = {} /\ up' = [up EXCEPT ![t].pc = "insert"]
  <2>1. /\ up'[t].pc = "insert" /\ up'[t].file = 0
        /\ up'[t].row = up[t].row /\ up'[t].lines = up[t].lines
    BY <1>1, <1>3, <1>8 DEF UploadsOK, Uploads
  <2>2. (\A i \in DOMAIN up[t].row : Fits(up[t].row[i], up[t].lines[i][1]))'
    <3> SUFFICES ASSUME NEW i \in DOMAIN up[t].row
                 PROVE  Fits(up[t].row[i], up[t].lines[i][1])'
      BY <2>1
    <3>1. PICK q, c : /\ q = up[t].row[i] /\ c = up[t].lines[i][1]
                      /\ q = up'[t].row[i] /\ c = up'[t].lines[i][1]
      BY <2>1
    <3>2. Fits(q, c) BY <3>1 DEF UploadInv, RowsFit
    <3> QED BY <1>1, <1>2, <1>5, <3>1, <3>2, FitsKept
  <2>3. RowsFit' /\ FilesFit' /\ StoringOK'
    BY <1>2, <1>3, <1>4, <1>5, <2>1, <2>2, ThreadGoes
  <2>4. ASSUME NEW c \in Code
        PROVE  Cardinality(Rows(c)') + Cardinality(Inserting(c)') <= Cardinality(Thread)
    <3>1. Rows(c)' = Rows(c) BY <1>3 DEF Rows
    <3>2. CASE c = k
      <4>1. Cardinality(Rows(c)') = 0 BY <1>8, <3>1, <3>2, FS_EmptySet
      <4> QED BY <4>1, InsertingFinite
    <3>3. CASE c # k
      <4>1. CodeOf(t)' = k BY <1>0, <2>1 DEF CodeOf
      <4>2. t \notin Inserting(c)' BY <3>3, <4>1 DEF Inserting
      <4>3. Inserting(c)' \subseteq Inserting(c) BY <1>3, <1>4, <4>2, OthersInsert
      <4>4. Cardinality(Inserting(c)') <= Cardinality(Inserting(c))
        BY <4>3, InsertingFinite, FS_Subset
      <4>5. Cardinality(Rows(c)) + Cardinality(Inserting(c)) <= Cardinality(Thread)
        BY <1>1 DEF RowsBounded, Inserting
      <4>6. Cardinality(Rows(c)) \in Nat BY <1>1, TableRows
      <4> QED BY <3>1, <4>4, <4>5, <4>6, InsertingFinite
    <3> QED BY <3>2, <3>3
  <2>5. RowsBounded' BY <2>4 DEF RowsBounded, Inserting
  <2> QED BY <1>2, <1>5, <2>3, <2>5 DEF UploadInv
<1>9. CASE \E r \in Rows(k) : Rows(k) = {r} /\ up' = [up EXCEPT ![t] = WithClient(t, r)]
  <2>1. PICK r \in Rows(k) : up' = [up EXCEPT ![t] = WithClient(t, r)] BY <1>9
  <2>2. r \in Nat /\ r # NoClient /\ Fits(r, k) BY <1>1, TableRows DEF Rows, Fits, NoClient
  <2> QED BY <1>7, <2>1, <2>2
<1>10. CASE Cardinality(Rows(k)) > 1 /\ up' = [up EXCEPT ![t] = WithClient(t, NoClient)]
  <2>1. NoClient \in Nat /\ Fits(NoClient, k) BY <1>10 DEF Fits, NoClient
  <2> QED BY <1>7, <1>10, <2>1
<1> QED BY <1>0, <1>8, <1>9, <1>10 DEF FindClient

LEMMA InsertClientInv ==
  ASSUME UploadInv, NEW t \in Thread, InsertClient(t) PROVE UploadInv'
<1>0. PICK k : k = CodeOf(t) OBVIOUS
<1>1. PICK r : r = Len(clients) + 1 OBVIOUS
<1>2. /\ TablesOK /\ UploadsOK /\ SealInv /\ RowsBounded /\ StoringOK /\ ControlOK
      /\ up[t] \in Uploads /\ UploadOK(up[t])
  BY DEF UploadInv, SealInv, UploadsOK
<1>3. TablesOK' /\ UploadsOK' BY <1>2, InsertKeeps DEF SealInv
<1>4. /\ UNCHANGED <<files, transactions, ctl>> /\ up[t].pc = "insert" /\ up[t].file = 0
      /\ clients' = Append(clients, k) /\ up' = [up EXCEPT ![t] = WithClient(t, r)]
  BY <1>0, <1>1, <1>2 DEF InsertClient, StoringOK
<1>5. up' \in [Thread -> Uploads] /\ \A s \in Thread : s # t => up'[s] = up[s]
  BY <1>2, <1>3, <1>4 DEF UploadsOK
<1>6. k \in Code
  <2>1. Len(up[t].row) + 1 \in DOMAIN up[t].lines BY <1>2, <1>4 DEF Uploads, UploadOK
  <2>2. up[t].lines[Len(up[t].row) + 1] \in Code \X Nat BY <1>2, <2>1 DEF Uploads
  <2> QED BY <1>0, <2>2 DEF CodeOf
<1>7. /\ r \in Nat /\ r >= 1 /\ r # NoClient /\ DOMAIN clients = 1..(r - 1) /\ DOMAIN clients' = 1..r
      /\ clients'[r] = k /\ \A q \in DOMAIN clients : clients'[q] = clients[q]
  <2>1. clients \in Seq(Code) /\ Len(clients) \in Nat BY <1>2, TableRows
  <2>2. /\ clients' \in Seq(Code) /\ Len(clients') = r /\ clients'[r] = k
        /\ \A q \in 1..Len(clients) : clients'[q] = clients[q]
    BY <1>1, <1>4, <1>6, <2>1, AppendProperties
  <2> QED BY <1>1, <2>1, <2>2, LenProperties DEF NoClient
<1>8. ClientsGrow /\ ControlOK' BY <1>2, <1>4, <1>7 DEF ClientsGrow, ControlOK
<1>9. Fits(r, k)' BY <1>7 DEF Fits
<1>10. up'[t].pc = "clients" /\ up'[t].file = 0
  BY <1>2, <1>4, <1>7, WithClientFields DEF UploadsOK
<1>11. (\A i \in DOMAIN up[t].row : Fits(up[t].row[i], up[t].lines[i][1]))'
  BY <1>0, <1>3, <1>4, <1>7, <1>8, <1>9, RowAdded
<1>12. RowsFit' /\ FilesFit' /\ StoringOK' BY <1>3, <1>4, <1>5, <1>8, <1>10, <1>11, ThreadGoes
<1>13. ASSUME NEW c \in Code
       PROVE  Cardinality(Rows(c)') + Cardinality(Inserting(c)') <= Cardinality(Thread)
  <2>1. Inserting(c)' = Inserting(c) \ {t} BY <1>5, <1>10, OthersInsert
  <2>2. Cardinality(Rows(c)) + Cardinality(Inserting(c)) <= Cardinality(Thread)
    BY <1>2 DEF RowsBounded, Inserting
  <2>3. IsFiniteSet(Rows(c)) /\ Cardinality(Rows(c)) \in Nat BY <1>2, TableRows
  <2>4. CASE c = k
    <3>1. Rows(c)' = Rows(c) \cup {r} /\ r \notin Rows(c) BY <1>7, <2>4 DEF Rows
    <3>2. Cardinality(Rows(c)') = Cardinality(Rows(c)) + 1 BY <2>3, <3>1, FS_AddElement
    <3>3. t \in Inserting(c) BY <1>0, <1>4, <2>4 DEF Inserting
    <3>4. Cardinality(Inserting(c)') = Cardinality(Inserting(c)) - 1
      BY <2>1, <3>3, InsertingFinite, FS_RemoveElement
    <3> QED BY <2>2, <2>3, <3>2, <3>4, InsertingFinite
  <2>5. CASE c # k
    <3>1. Rows(c)' = Rows(c) BY <1>7, <2>5 DEF Rows
    <3>2. Cardinality(Inserting(c)') <= Cardinality(Inserting(c))
      BY <2>1, InsertingFinite, FS_Subset
    <3> QED BY <2>2, <2>3, <3>1, <3>2, InsertingFinite
  <2> QED BY <2>4, <2>5
<1>14. RowsBounded' BY <1>13 DEF RowsBounded, Inserting
<1> QED BY <1>3, <1>8, <1>12, <1>14 DEF UploadInv

\* A thread takes an upload, goes on with the rows that it has, or drops it.
LEMMA ThreadMoves ==
  ASSUME UploadInv, SealInv', NEW t \in Thread, \A s \in Thread : s # t => up'[s] = up[s],
         UNCHANGED <<clients, files, transactions, ctl>>,
         up[t].pc # "file", up'[t].pc \notin {"insert", "file"}, up'[t].file = 0,
         up'[t].row = <<>> \/ (up'[t].row = up[t].row /\ up'[t].lines = up[t].lines)
  PROVE  UploadInv'
<1>1. TablesOK /\ RowsFit /\ RowsBounded /\ ControlOK BY DEF UploadInv
<1>2. TablesOK' /\ UploadsOK' /\ up' \in [Thread -> Uploads] BY DEF SealInv, UploadsOK
<1>3. ClientsGrow /\ ControlOK' BY <1>1, SameClients DEF ControlOK
<1>4. (\A i \in DOMAIN up[t].row : Fits(up[t].row[i], up[t].lines[i][1]))'
  <2> SUFFICES ASSUME NEW i \in DOMAIN up'[t].row
               PROVE  Fits(up[t].row[i], up[t].lines[i][1])'
    OBVIOUS
  <2>1. up'[t].row = up[t].row /\ up'[t].lines = up[t].lines OBVIOUS
  <2>2. PICK q, c : /\ q = up[t].row[i] /\ c = up[t].lines[i][1]
                    /\ q = up'[t].row[i] /\ c = up'[t].lines[i][1]
    BY <2>1
  <2>3. Fits(q, c) BY <1>1, <2>1, <2>2 DEF RowsFit
  <2> QED BY <1>1, <1>2, <1>3, <2>2, <2>3, FitsKept
<1>5. RowsFit' /\ FilesFit' /\ StoringOK' BY <1>2, <1>3, <1>4, ThreadGoes
<1>6. RowsBounded' BY <1>1, BoundKept
<1> QED BY <1>2, <1>3, <1>5, <1>6 DEF UploadInv

LEMMA ReceiveInv ==
  ASSUME UploadInv, NEW t \in Thread, Receive(t) PROVE UploadInv'
<1>1. /\ SealInv /\ up[t] \in Uploads /\ up \in [Thread -> Uploads] /\ up[t].pc = "idle"
      /\ up[t].row = <<>> /\ up[t].file = 0
  BY DEF UploadInv, SealInv, UploadsOK, UploadOK, Receive, StoringOK
<1>2. SealInv' BY <1>1, ReceiveKeeps
<1>3. up'[t].pc = "clients" /\ up'[t].row = <<>> /\ up'[t].file = 0
  BY <1>1 DEF Receive, Uploads
<1>4. \A s \in Thread : s # t => up'[s] = up[s] BY <1>1 DEF Receive
<1>5. UNCHANGED <<clients, files, transactions, ctl>> BY DEF Receive
<1>6. up[t].pc # "file" /\ up'[t].pc \notin {"insert", "file"} BY <1>1, <1>3
<1> QED BY <1>2, <1>3, <1>4, <1>5, <1>6, ThreadMoves

LEMMA CheckInv ==
  ASSUME UploadInv, NEW t \in Thread, CheckPeriod(t) PROVE UploadInv'
<1>1. /\ SealInv /\ up[t] \in Uploads /\ up \in [Thread -> Uploads] /\ up[t].pc = "clients"
      /\ up[t].file = 0
  BY DEF UploadInv, SealInv, UploadsOK, CheckPeriod, StoringOK
<1>2. SealInv' BY <1>1, CheckKeeps
<1>3. /\ up'[t].pc \in {"open", "idle"} /\ up'[t].file = 0
      /\ up'[t].row = <<>> \/ (up'[t].row = up[t].row /\ up'[t].lines = up[t].lines)
  <2>1. CASE up' = [up EXCEPT ![t] = [up[t] EXCEPT !.pc = "open"]] BY <1>1, <2>1 DEF Uploads
  <2>2. CASE up' = [up EXCEPT ![t] = NoUpload]
    <3>1. up'[t] = NoUpload BY <1>1, <2>2
    <3>2. NoUpload.pc = "idle" /\ NoUpload.file = 0 /\ NoUpload.row = <<>> BY DEF NoUpload
    <3> QED BY <3>1, <3>2
  <2> QED BY <2>1, <2>2 DEF CheckPeriod
<1>4. \A s \in Thread : s # t => up'[s] = up[s] BY <1>1 DEF CheckPeriod
<1> QED BY <1>1, <1>2, <1>3, <1>4, ThreadMoves DEF CheckPeriod

\* The transactions of a file after the tables of files and clients have grown.
LEMMA OldLines ==
  ASSUME TablesOK, TablesOK', ClientsGrow, UNCHANGED transactions,
         NEW f, files'[f].data = files[f].data, NEW n, LineStored(f, n)
  PROVE  LineStored(f, n)'
<1>1. Places(f)' = Places(f) BY DEF Places
<1>2. PICK r, k : /\ r = transactions[Nth(Places(f), n)].client /\ k = files[f].data[n][1]
                  /\ r = transactions'[Nth(Places(f)', n)].client /\ k = files'[f].data[n][1]
  BY <1>1
<1>3. Fits(r, k)' BY <1>2, FitsKept DEF LineStored
<1> QED BY <1>1, <1>2, <1>3 DEF LineStored

\* The last field of an upload that ends, and the fields of one that goes on.
LEMMA StoredOrNot ==
  ASSUME NEW u, NEW v, v = UntilStored(u)
  PROVE  \/ u.lines # <<>> /\ v = u
         \/ u.lines = <<>> /\ v.pc = "idle" /\ v.file = 0 /\ v.row = <<>>
BY DEF UntilStored, NoUpload

LEMMA InsertFileInv ==
  ASSUME UploadInv, NEW t \in Thread, InsertFile(t) PROVE UploadInv'
<1> DEFINE v == [up[t] EXCEPT !.pc = "file"]
           row == [period |-> up[t].period, data |-> up[t].lines]
           Row == [period : Nat, data : Seq(Code \X Nat)]
<1>1. /\ TablesOK /\ UploadsOK /\ SealInv /\ RowsBounded /\ StoringOK /\ ControlOK
      /\ RowsFit /\ FilesFit /\ up[t] \in Uploads /\ UploadOK(up[t])
  BY DEF UploadInv, SealInv, UploadsOK
<1>2. TablesOK' /\ UploadsOK' BY <1>1, InsertFileKeeps DEF SealInv
<1>3. PICK m : m = Len(files) + 1 OBVIOUS
<1>4. PICK u : u = [v EXCEPT !.file = m] OBVIOUS
<1>5. /\ UNCHANGED <<clients, transactions, ctl>> /\ up[t].pc = "open" /\ up[t].file = 0
      /\ up' = [up EXCEPT ![t] = UntilStored(u)]
  BY <1>1, <1>3, <1>4 DEF InsertFile, StoringOK
<1>6. /\ u.pc = "file" /\ u.row = up[t].row /\ u.lines = up[t].lines /\ u.file = m
  <2>1. v \in Uploads /\ v.pc = "file" /\ v.row = up[t].row /\ v.lines = up[t].lines
    BY <1>1 DEF Uploads
  <2> HIDE DEF v
  <2> QED BY <1>4, <2>1 DEF Uploads
<1>7. up'[t] = UntilStored(u) /\ \A s \in Thread : s # t => up'[s] = up[s]
  BY <1>1, <1>5 DEF UploadsOK
<1>8. \/ up[t].lines # <<>> /\ up'[t] = u
      \/ up[t].lines = <<>> /\ up'[t].pc = "idle" /\ up'[t].file = 0 /\ up'[t].row = <<>>
  BY <1>6, <1>7, StoredOrNot
<1>9. /\ m \in Nat /\ m >= 1 /\ DOMAIN files = 1..(m - 1) /\ DOMAIN files' = 1..m
      /\ files'[m].data = up[t].lines /\ \A f \in DOMAIN files : files'[f] = files[f]
  <2>1. files \in Seq(Row) /\ Len(files) \in Nat /\ DOMAIN files = 1..Len(files)
    BY <1>1, TableRows
  <2>2. row \in Row /\ row.data = up[t].lines BY <1>1 DEF Uploads
  <2>3. files' = Append(files, row) BY DEF InsertFile
  <2> HIDE DEF row, Row
  <2>4. /\ files' \in Seq(Row) /\ Len(files') = m /\ files'[m] = row
        /\ \A f \in 1..Len(files) : files'[f] = files[f]
    BY <1>3, <2>1, <2>2, <2>3, AppendProperties
  <2> QED BY <1>3, <2>1, <2>2, <2>4, LenProperties
<1>10. ClientsGrow /\ ControlOK' BY <1>1, <1>5, SameClients DEF ControlOK
<1>11. \A f : Stored(f)' = Stored(f) /\ Stored(f) \in Nat
  BY <1>1, <1>5, TableRows DEF Stored, Places
<1>12. Stored(m) = 0
  <2>1. \A i \in DOMAIN transactions : transactions[i].file \in DOMAIN files
    BY <1>1 DEF TablesOK
  <2>2. m \notin DOMAIN files BY <1>9
  <2>3. Places(m) = {} BY ONLY <2>1, <2>2 DEF Places
  <2> QED BY <2>3, FS_EmptySet DEF Stored
<1>13. FilesFit'
  <2>1. ASSUME NEW f \in DOMAIN files', NEW n \in 1..Stored(f) PROVE LineStored(f, n)'
    <3>1. f # m BY <1>12, <2>1
    <3>2. f \in DOMAIN files BY <1>9, <2>1, <3>1
    <3>3. LineStored(f, n) BY <1>1, <2>1, <3>2 DEF FilesFit
    <3>4. files'[f].data = files[f].data BY <1>9, <3>2
    <3> QED BY <1>1, <1>2, <1>5, <1>10, <3>3, <3>4, OldLines
  <2> QED BY <1>11, <2>1 DEF FilesFit
<1>14. RowsFit'
  <2>1. ASSUME NEW s \in Thread, NEW i \in DOMAIN up'[s].row
        PROVE  Fits(up[s].row[i], up[s].lines[i][1])'
    <3>1. up'[s].row = up[s].row /\ up'[s].lines = up[s].lines
      BY <1>6, <1>7, <1>8, <2>1
    <3>2. PICK q, c : /\ q = up[s].row[i] /\ c = up[s].lines[i][1]
                      /\ q = up'[s].row[i] /\ c = up'[s].lines[i][1]
      BY <3>1
    <3>3. Fits(q, c) BY <1>1, <2>1, <3>1, <3>2 DEF RowsFit
    <3> QED BY <1>1, <1>2, <1>10, <3>2, <3>3, FitsKept
  <2> QED BY <2>1 DEF RowsFit
<1>15. \A s \in Thread : up[s].pc = "file" => up[s].file \in DOMAIN files
  BY <1>1 DEF UploadsOK, UploadOK
<1>16. \A s \in Thread : s # t => up[s].file < m
  <2>1. \A s \in Thread : up[s].file = 0 \/ up[s].file \in DOMAIN files
    BY <1>1, <1>15 DEF StoringOK
  <2> QED BY <1>9, <2>1
<1>17. StoringOK'
  <2>1. ASSUME NEW s \in Thread, up'[s].pc = "file" PROVE Rest(up[s])'
    <3>1. CASE s = t
      <4>1. up'[t].lines = up[t].lines /\ up'[t].file = m BY <1>6, <1>8, <2>1, <3>1
      <4>2. files'[m].data = up[t].lines /\ Stored(m)' = 0 BY <1>9, <1>11, <1>12
      <4>3. up[t].lines \in Seq(Code \X Nat) BY <1>1 DEF Uploads
      <4>4. Len(up[t].lines) \in Nat /\ \A i \in DOMAIN up[t].lines : i \in Nat BY <4>3
      <4>5. Stored(up[t].file)' = 0 BY <4>1, <4>2 DEF Stored, Places
      <4> QED BY <3>1, <4>1, <4>2, <4>4, <4>5 DEF Rest
    <3>2. CASE s # t
      <4>1. up'[s] = up[s] /\ Rest(up[s]) BY <1>1, <1>7, <2>1, <3>2 DEF StoringOK
      <4>2. files'[up[s].file] = files[up[s].file] BY <1>9, <1>15, <2>1, <4>1
      <4> QED BY <1>11, <4>1, <4>2 DEF Rest
    <3> QED BY <3>1, <3>2
  <2>2. ASSUME NEW s \in Thread, up'[s].pc # "file" PROVE up'[s].file = 0
    BY <1>1, <1>6, <1>7, <1>8, <2>2 DEF StoringOK
  <2>3. ASSUME NEW r \in Thread, NEW s \in Thread, up'[r].pc = "file", up'[r].file = up'[s].file
        PROVE  r = s
    <3>1. CASE r = t
      <4>1. up'[s].file = m BY <1>6, <1>8, <2>3, <3>1
      <4> QED BY <1>7, <1>9, <1>16, <3>1, <4>1
    <3>2. CASE r # t
      <4>1. up'[r] = up[r] /\ up[r].file \in DOMAIN files BY <1>7, <1>15, <2>3, <3>2
      <4>2. s # t BY <1>6, <1>8, <1>9, <1>16, <2>3, <3>2, <4>1
      <4> QED BY <1>1, <1>7, <2>3, <4>1, <4>2 DEF StoringOK
    <3> QED BY <3>1, <3>2
  <2>4. ASSUME NEW f \in DOMAIN files', \A s \in Thread : up'[s].file # f
        PROVE  Complete(f)'
    <3>1. CASE f = m
      <4>1. up[t].lines = <<>> BY <1>6, <1>8, <2>4, <3>1
      <4> QED BY <1>9, <1>11, <1>12, <3>1, <4>1 DEF Complete
    <3>2. CASE f # m
      <4>1. f \in DOMAIN files BY <1>9, <2>4, <3>2
      <4>2. \A s \in Thread : up[s].file # f BY <1>5, <1>7, <1>9, <2>4, <4>1
      <4> QED BY <1>1, <1>9, <1>11, <4>1, <4>2 DEF StoringOK, Complete
    <3> QED BY <3>1, <3>2
  <2> QED BY <2>1, <2>2, <2>3, <2>4 DEF StoringOK
<1>18. RowsBounded' BY <1>1, <1>5, <1>6, <1>7, <1>8, BoundKept
<1> QED BY <1>2, <1>10, <1>13, <1>14, <1>17, <1>18 DEF UploadInv

\* The places of the transactions of each file after one more is stored.
LEMMA PlacesGrow ==
  ASSUME SealInv, NEW t \in Thread, InsertTransaction(t), NEW f, f = up[t].file
  PROVE  /\ Places(f)' = Places(f) \cup {Len(transactions) + 1}
         /\ Stored(f)' = Stored(f) + 1
         /\ Nth(Places(f)', Stored(f) + 1) = Len(transactions) + 1
         /\ \A n \in 1..Stored(f) : Nth(Places(f)', n) = Nth(Places(f), n)
         /\ \A g : g # f => Places(g)' = Places(g) /\ Stored(g)' = Stored(g)
<1>1. TablesOK BY DEF SealInv
<1>2. PICK x : x = Len(transactions) + 1 OBVIOUS
<1>3. /\ Len(transactions) \in Nat /\ Len(transactions') = Len(transactions) + 1
      /\ \A i \in 1..Len(transactions) : transactions'[i] = transactions[i]
      /\ transactions'[x].file = f
      /\ DOMAIN transactions = 1..Len(transactions)
      /\ DOMAIN transactions' = 1..Len(transactions')
  BY <1>1, <1>2, TransactionAdded, LenProperties DEF TablesOK
<1>4. x \in Nat /\ DOMAIN transactions' = DOMAIN transactions \cup {x}
      /\ \A i \in DOMAIN transactions : i < x /\ transactions'[i] = transactions[i]
  BY <1>2, <1>3
<1>5. Places(f)' = Places(f) \cup {x} BY <1>3, <1>4 DEF Places
<1>6. \A g : g # f => Places(g)' = Places(g) BY <1>3, <1>4 DEF Places
<1>7. \A i \in Places(f) : i < x BY <1>4 DEF Places
<1>8. IsFiniteSet(Places(f)) /\ \A i \in Places(f) : i \in Nat BY <1>1, TableRows
<1>9. /\ Cardinality(Places(f) \cup {x}) = Cardinality(Places(f)) + 1
      /\ Nth(Places(f) \cup {x}, Cardinality(Places(f)) + 1) = x
      /\ \A n \in 1..Cardinality(Places(f)) : Nth(Places(f) \cup {x}, n) = Nth(Places(f), n)
  BY <1>4, <1>7, <1>8, AscendingAdds
<1> QED BY <1>2, <1>5, <1>6, <1>9 DEF Stored

\* A transaction that lies in the table stays what it is.
LEMMA OldLineKept ==
  ASSUME SealInv, SealInv', NEW t \in Thread, InsertTransaction(t),
         NEW g, NEW n \in 1..Stored(g), LineStored(g, n)
  PROVE  LineStored(g, n)'
<1>1. PICK f : f = up[t].file OBVIOUS
<1>2. TablesOK /\ TablesOK' /\ ClientsGrow BY SameClients DEF SealInv, InsertTransaction
<1>3. Nth(Places(g)', n) = Nth(Places(g), n) BY <1>1, PlacesGrow
<1>4. PICK i : i = Nth(Places(g), n) /\ i = Nth(Places(g)', n) BY <1>3
<1>5. i \in DOMAIN transactions
  <2>1. IsFiniteSet(Places(g)) /\ \A j \in Places(g) : j \in Nat BY <1>2, TableRows
  <2>2. n \in 1..Cardinality(Places(g)) BY DEF Stored
  <2>3. Nth(Places(g), n) \in Places(g) BY ONLY <2>1, <2>2, NthFound
  <2> QED BY <1>4, <2>3 DEF Places
<1>6. transactions'[i] = transactions[i]
  BY <1>2, <1>5, TableRows, TransactionAdded
<1>7. files'[g].data = files[g].data BY DEF InsertTransaction
<1>8. PICK r, k : /\ r = transactions[i].client /\ k = files[g].data[n][1] /\ Fits(r, k)
                  /\ r = transactions'[i].client /\ k = files'[g].data[n][1]
  BY <1>4, <1>6, <1>7 DEF LineStored
<1>9. Fits(r, k)' BY <1>2, <1>8, FitsKept
<1> QED BY <1>4, <1>6, <1>7, <1>8, <1>9 DEF LineStored

\* The transaction that is stored is that of the next line.
LEMMA NewLineFits ==
  ASSUME UploadInv, SealInv', NEW t \in Thread, InsertTransaction(t),
         NEW f, f = up[t].file, NEW n, n = Stored(f) + 1
  PROVE  LineStored(f, n)'
<1>1. /\ TablesOK /\ SealInv /\ RowsFit /\ StoringOK /\ up[t].pc = "file"
      /\ up[t] \in Uploads /\ UploadOK(up[t])
  BY DEF UploadInv, SealInv, UploadsOK, InsertTransaction
<1>2. ClientsGrow /\ TablesOK' BY <1>1, SameClients DEF InsertTransaction, SealInv
<1>3. /\ up[t].lines \in Seq(Code \X Nat) /\ up[t].row \in Seq(Nat)
      /\ up[t].lines # <<>> /\ Len(up[t].row) = Len(up[t].lines)
  BY <1>1 DEF Uploads, UploadOK
<1>4. /\ Len(up[t].lines) \in Nat /\ Len(up[t].lines) >= 1
      /\ DOMAIN up[t].lines = 1..Len(up[t].lines) /\ DOMAIN up[t].row = 1..Len(up[t].row)
      /\ Head(up[t].lines) = up[t].lines[1] /\ Head(up[t].row) = up[t].row[1]
  BY <1>3
<1>5. PICK line, r : line = up[t].lines[1] /\ r = up[t].row[1] OBVIOUS
<1>6. Fits(r, line[1])' 
  <2>1. Fits(r, line[1]) BY <1>1, <1>3, <1>4, <1>5 DEF RowsFit
  <2>2. PICK k : k = line[1] OBVIOUS
  <2> QED BY <1>1, <1>2, <2>1, <2>2, FitsKept
<1>7. /\ files'[f].data = files[f].data /\ Stored(f) \in Nat
      /\ Len(files[f].data) = Stored(f) + Len(up[t].lines) /\ files[f].data[n] = line
  <2>1. Rest(up[t]) BY <1>1 DEF StoringOK
  <2>2. Stored(f) \in Nat BY <1>1, TableRows
  <2>3. Len(files[f].data) = Stored(f) + Len(up[t].lines) BY <2>1 DEF Rest
  <2>4. 1 \in DOMAIN up[t].lines BY <1>4
  <2>5. files[f].data[n] = line BY <1>5, <2>1, <2>4 DEF Rest
  <2> QED BY <2>2, <2>3, <2>5 DEF InsertTransaction
<1>8. n \in DOMAIN files[f].data
  <2>1. f \in DOMAIN files BY <1>1 DEF UploadOK
  <2>2. files[f] \in [period : Nat, data : Seq(Code \X Nat)]
    <3> DEFINE Row == [period : Nat, data : Seq(Code \X Nat)]
    <3>1. files \in Seq(Row) BY <1>1 DEF TablesOK
    <3> HIDE DEF Row
    <3>2. files[f] \in Row BY <2>1, <3>1
    <3> QED BY <3>2 DEF Row
  <2>3. DOMAIN files[f].data = 1..Len(files[f].data) BY <2>2, LenProperties
  <2> QED BY <1>4, <1>5, <1>7, <2>3
<1>9. PICK i : i = Len(transactions) + 1 OBVIOUS
<1>10. Nth(Places(f)', n) = i BY <1>1, <1>5, <1>9, PlacesGrow
<1>11. transactions'[i].client = r /\ transactions'[i].amount = line[2]
  BY <1>1, <1>4, <1>5, <1>9, TransactionAdded
<1> QED BY <1>6, <1>7, <1>8, <1>10, <1>11 DEF LineStored

LEMMA InsertTransactionInv ==
  ASSUME UploadInv, NEW t \in Thread, InsertTransaction(t) PROVE UploadInv'
<1> DEFINE v == [up[t] EXCEPT !.lines = Tail(up[t].lines)]
<1>1. /\ TablesOK /\ UploadsOK /\ SealInv /\ RowsBounded /\ StoringOK /\ ControlOK
      /\ RowsFit /\ FilesFit /\ up[t] \in Uploads /\ UploadOK(up[t]) /\ up[t].pc = "file"
  BY DEF UploadInv, SealInv, UploadsOK, InsertTransaction
<1>2. TablesOK' /\ UploadsOK' /\ SealInv' BY <1>1, InsertTransactionKeeps DEF SealInv
<1>3. PICK f : f = up[t].file OBVIOUS
<1>4. f \in DOMAIN files /\ f >= 1 /\ f # 0 BY <1>1, <1>3, TableRows DEF UploadOK
<1>5. PICK u : u = [v EXCEPT !.row = Tail(up[t].row)] OBVIOUS
<1>6. UNCHANGED <<clients, files, ctl>> /\ up' = [up EXCEPT ![t] = UntilStored(u)]
  BY <1>5 DEF InsertTransaction
<1>7. /\ up[t].lines \in Seq(Code \X Nat) /\ up[t].row \in Seq(Nat)
      /\ up[t].lines # <<>> /\ Len(up[t].row) = Len(up[t].lines)
  BY <1>1 DEF Uploads, UploadOK
<1>8. u.pc = "file" /\ u.file = f /\ u.lines = Tail(up[t].lines) /\ u.row = Tail(up[t].row)
  <2>1. v.pc = "file" /\ v.file = f /\ v.lines = Tail(up[t].lines) BY <1>1, <1>3 DEF Uploads
  <2>3. Tail(up[t].lines) \in Seq(Code \X Nat) BY <1>7, HeadTailProperties
  <2>2. v \in Uploads BY <1>1, <2>3 DEF Uploads
  <2> HIDE DEF v
  <2> QED BY <1>5, <2>1, <2>2 DEF Uploads
<1>9. up'[t] = UntilStored(u) /\ \A s \in Thread : s # t => up'[s] = up[s]
  BY <1>1, <1>6 DEF UploadsOK
<1>10. \/ u.lines # <<>> /\ up'[t] = u
       \/ u.lines = <<>> /\ up'[t].pc = "idle" /\ up'[t].file = 0 /\ up'[t].row = <<>>
  BY <1>9, StoredOrNot
<1>11. /\ Len(up[t].lines) \in Nat /\ Len(up[t].lines) >= 1
       /\ Len(u.lines) = Len(up[t].lines) - 1 /\ Len(u.row) = Len(up[t].lines) - 1
       /\ DOMAIN u.lines = 1..(Len(up[t].lines) - 1) /\ DOMAIN u.row = 1..(Len(up[t].lines) - 1)
       /\ DOMAIN up[t].lines = 1..Len(up[t].lines) /\ DOMAIN up[t].row = 1..Len(up[t].lines)
       /\ \A i \in DOMAIN u.lines : u.lines[i] = up[t].lines[i + 1] /\ u.row[i] = up[t].row[i + 1]
  <2>1. Len(up[t].lines) \in Nat /\ Len(up[t].lines) >= 1 BY <1>7
  <2>2. up[t].row # <<>> BY <1>7, <2>1
  <2>3. /\ Tail(up[t].lines) \in Seq(Code \X Nat) /\ Len(u.lines) = Len(up[t].lines) - 1
        /\ \A i \in 1..Len(u.lines) : u.lines[i] = up[t].lines[i + 1]
    BY <1>7, <1>8, HeadTailProperties
  <2>4. /\ Tail(up[t].row) \in Seq(Nat) /\ Len(u.row) = Len(up[t].row) - 1
        /\ \A i \in 1..Len(u.row) : u.row[i] = up[t].row[i + 1]
    BY <1>7, <1>8, <2>2, HeadTailProperties
  <2>5. DOMAIN u.lines = 1..Len(u.lines) /\ DOMAIN u.row = 1..Len(u.row)
    BY <1>8, <2>3, <2>4, LenProperties
  <2>6. DOMAIN up[t].lines = 1..Len(up[t].lines) /\ DOMAIN up[t].row = 1..Len(up[t].row)
    BY <1>7, LenProperties
  <2> QED BY <1>7, <2>1, <2>3, <2>4, <2>5, <2>6
<1>12. ClientsGrow /\ ControlOK' BY <1>1, <1>6, SameClients DEF ControlOK
<1>13. /\ Stored(f)' = Stored(f) + 1
       /\ \A g : g # f => Places(g)' = Places(g) /\ Stored(g)' = Stored(g)
       /\ \A g : Stored(g) \in Nat
  BY <1>1, <1>3, PlacesGrow, TableRows
<1>14. FilesFit'
  <2>1. ASSUME NEW g \in DOMAIN files, NEW n \in 1..Stored(g) PROVE LineStored(g, n)'
    BY <1>1, <1>2, <2>1, OldLineKept DEF FilesFit
  <2>3. PICK m : m = Stored(f) + 1 OBVIOUS
  <2>4. LineStored(f, m)' BY <1>2, <1>3, <2>3, NewLineFits
  <2>5. ASSUME NEW g \in DOMAIN files, NEW n \in 1..Stored(g)' PROVE LineStored(g, n)'
    <3>1. n \in 1..Stored(g) \/ (g = f /\ n = m) BY <1>13, <2>3, <2>5
    <3> QED BY <2>1, <2>4, <2>5, <3>1
  <2> QED BY <1>6, <2>5 DEF FilesFit
<1>15. RowsFit'
  <2>1. ASSUME NEW s \in Thread, NEW i \in DOMAIN up'[s].row
        PROVE  Fits(up[s].row[i], up[s].lines[i][1])'
    <3>1. PICK q, c : q = up'[s].row[i] /\ c = up'[s].lines[i][1] OBVIOUS
    <3>2. Fits(q, c)
      <4>1. CASE s # t BY <1>1, <1>9, <2>1, <3>1, <4>1 DEF RowsFit
      <4>2. CASE s = t
        <5>1. up'[t] = u BY <1>10, <2>1, <4>2
        <5>2. i \in DOMAIN u.lines /\ i + 1 \in DOMAIN up[t].row BY <1>11, <2>1, <4>2, <5>1
        <5>3. q = up[t].row[i + 1] /\ c = up[t].lines[i + 1][1]
          BY <1>11, <3>1, <4>2, <5>1, <5>2
        <5> QED BY <1>1, <5>2, <5>3 DEF RowsFit
      <4> QED BY <4>1, <4>2
    <3> QED BY <1>1, <1>2, <1>12, <3>1, <3>2, FitsKept
  <2> QED BY <2>1 DEF RowsFit
<1>16. \A s \in Thread : up[s].pc = "file" => up[s].file \in DOMAIN files /\ up[s].file # 0
  BY <1>1, TableRows DEF UploadsOK, UploadOK
<1>17. \A s \in Thread : s # t => up[s].file # f BY <1>1, <1>3 DEF StoringOK
<1>18. StoringOK'
  <2>1. ASSUME NEW s \in Thread, up'[s].pc = "file" PROVE Rest(up[s])'
    <3>1. CASE s = t
      <4>1. up'[t] = u BY <1>10, <2>1, <3>1
      <4>2. Rest(up[t]) BY <1>1 DEF StoringOK
      <4>3. /\ Len(files[f].data) = Stored(f) + Len(up[t].lines)
            /\ \A i \in DOMAIN up[t].lines : up[t].lines[i] = files[f].data[Stored(f) + i]
        BY <1>3, <4>2 DEF Rest
      <4>4. Len(files'[f].data) = Stored(f)' + Len(u.lines)
        <5>1. Len(files'[f].data) = Len(files[f].data) BY <1>6
        <5>2. Stored(f) \in Nat /\ Stored(f)' = Stored(f) + 1 BY <1>13
        <5>3. Len(up[t].lines) \in Nat /\ Len(u.lines) = Len(up[t].lines) - 1 BY <1>11
        <5> QED BY ONLY <4>3, <5>1, <5>2, <5>3
      <4>5. ASSUME NEW i \in DOMAIN u.lines
            PROVE  u.lines[i] = files'[f].data[Stored(f)' + i]
        <5>1. i \in Nat /\ i + 1 \in DOMAIN up[t].lines BY <1>11
        <5>2. u.lines[i] = files[f].data[Stored(f) + (i + 1)] BY <1>11, <4>3, <5>1
        <5>3. Stored(f)' + i = Stored(f) + (i + 1) BY <1>13, <5>1
        <5> QED BY <1>6, <5>2, <5>3
      <4>6. Stored(up[t].file)' = Stored(f)' BY <1>8, <4>1 DEF Stored, Places
      <4> QED BY <1>8, <3>1, <4>1, <4>4, <4>5, <4>6 DEF Rest
    <3>2. CASE s # t
      <4>1. up'[s] = up[s] /\ Rest(up[s]) BY <1>1, <1>9, <2>1, <3>2 DEF StoringOK
      <4>2. PICK g : g = up[s].file /\ g = up'[s].file /\ g # f BY <1>17, <3>2, <4>1
      <4>3. Stored(g)' = Stored(g) BY <1>13, <4>2
      <4>4. Stored(up[s].file)' = Stored(up[s].file) BY <4>2, <4>3 DEF Stored, Places
      <4> QED BY <1>6, <4>1, <4>2, <4>4 DEF Rest
    <3> QED BY <3>1, <3>2
  <2>2. ASSUME NEW s \in Thread, up'[s].pc # "file" PROVE up'[s].file = 0
    BY <1>1, <1>8, <1>9, <1>10, <2>2 DEF StoringOK
  <2>3. ASSUME NEW r \in Thread, NEW s \in Thread, up'[r].pc = "file", up'[r].file = up'[s].file
        PROVE  r = s
    <3>1. CASE r = t
      <4>1. up'[s].file = f BY <1>8, <1>10, <2>3, <3>1
      <4> QED BY <1>9, <1>17, <3>1, <4>1
    <3>2. CASE r # t
      <4>1. up'[r] = up[r] /\ up[r].file # 0 /\ up[r].file # f
        BY <1>9, <1>16, <1>17, <2>3, <3>2
      <4>2. s # t BY <1>8, <1>10, <2>3, <4>1
      <4> QED BY <1>1, <1>9, <2>3, <4>1, <4>2 DEF StoringOK
    <3> QED BY <3>1, <3>2
  <2>4. ASSUME NEW g \in DOMAIN files, \A s \in Thread : up'[s].file # g
        PROVE  Complete(g)'
    <3>1. CASE g = f
      <4>1. u.lines = <<>> BY <1>8, <1>10, <2>4, <3>1
      <4>2. Len(up[t].lines) = 1 BY <1>11, <4>1
      <4>3. Len(files[f].data) = Stored(f) + Len(up[t].lines)
        BY <1>1, <1>3 DEF StoringOK, Rest
      <4> QED BY <1>6, <1>13, <3>1, <4>2, <4>3 DEF Complete
    <3>2. CASE g # f
      <4>1. \A s \in Thread : up[s].file # g BY <1>3, <1>9, <2>4, <3>2
      <4> QED BY <1>1, <1>6, <1>13, <2>4, <3>2, <4>1 DEF StoringOK, Complete
    <3> QED BY <3>1, <3>2
  <2> QED BY <1>6, <2>1, <2>2, <2>3, <2>4 DEF StoringOK
<1>19. RowsBounded' BY <1>1, <1>6, <1>8, <1>9, <1>10, BoundKept
<1> QED BY <1>2, <1>12, <1>14, <1>15, <1>18, <1>19 DEF UploadInv

-----------------------------------------------------------------------------
(* The invariant of uploads.                                               *)

LEMMA InitUpload == Init => UploadInv
<1> SUFFICES ASSUME Init PROVE UploadInv OBVIOUS
<1>1. SealInv /\ TablesOK /\ UploadsOK BY InitSeal DEF SealInv
<1>2. /\ clients = <<>> /\ files = <<>> /\ transactions = <<>>
      /\ \A t \in Thread : up[t].pc = "idle" /\ up[t].row = <<>> /\ up[t].file = 0
      /\ DOMAIN clients = {} /\ DOMAIN files = {}
  BY DEF Init, NoUpload
<1>3. RowsFit /\ FilesFit BY <1>2 DEF RowsFit, FilesFit
<1>4. StoringOK BY <1>2 DEF StoringOK
<1>5. RowsBounded
  <2>1. ASSUME NEW k
        PROVE  Cardinality(Rows(k)) + Cardinality(Inserting(k)) <= Cardinality(Thread)
    <3>1. Rows(k) = {} /\ Inserting(k) = {} BY <1>2 DEF Rows, Inserting
    <3>2. Cardinality(Thread) \in Nat BY UploadAssumption, FS_CardinalityType
    <3> QED BY <3>1, <3>2, FS_EmptySet
  <2> QED BY <2>1 DEF RowsBounded, Inserting
<1>6. ControlOK
  <2>1. ctl = NoControl BY DEF Init
  <2>2. NoControl.pc = "idle" /\ DOMAIN NoControl.control = {} BY DEF NoControl
  <2> QED BY <2>1, <2>2 DEF ControlOK
<1> QED BY <1>1, <1>3, <1>4, <1>5, <1>6 DEF UploadInv

\* Steps on periods and on the control request leave uploads alone.
LEMMA QuietInv ==
  ASSUME UploadInv, SealInv', ControlOK', UNCHANGED <<clients, files, transactions, up>>
  PROVE  UploadInv'
<1>1. RowsFit' BY DEF UploadInv, RowsFit, Fits, Rows
<1>2. \A f : Places(f)' = Places(f) /\ Stored(f)' = Stored(f) BY DEF Places, Stored
<1>3. \A k : Rows(k)' = Rows(k) /\ Inserting(k)' = Inserting(k)
  BY DEF Rows, Inserting, CodeOf
<1>4. FilesFit' BY <1>2, <1>3 DEF UploadInv, FilesFit, LineStored, Fits
<1>5. StoringOK' BY <1>2 DEF UploadInv, StoringOK, Rest, Complete
<1>6. RowsBounded' BY <1>3 DEF UploadInv, RowsBounded, Inserting
<1> QED BY <1>1, <1>4, <1>5, <1>6 DEF UploadInv, SealInv

LEMMA CompareInv == ASSUME UploadInv, Compare PROVE UploadInv'
<1>1. SealInv BY DEF UploadInv, SealInv
<1>2. SealInv' BY <1>1, NextSeal DEF Next
<1>3. ControlOK'
  <2>1. PICK p \in DOMAIN periods, c \in ControlData : \E a \in TransactionAmounts(p) :
          ctl' = [pc |-> "compared", period |-> p, amounts |-> a, control |-> c,
                  errors |-> Errors(a, c), split |-> <<>>]
    BY DEF Compare
  <2>2. DOMAIN ctl' = DOMAIN NoControl BY <2>1 DEF NoControl
  <2>3. ctl'.pc = "compared" /\ ctl'.control = c BY <2>1
  <2> QED BY <2>2, <2>3, UploadAssumption DEF ControlOK, NoControl
<1> QED BY <1>2, <1>3, QuietInv DEF Compare

LEMMA SplitInv == ASSUME UploadInv, Split PROVE UploadInv'
<1>1. SealInv /\ ControlOK BY DEF UploadInv, SealInv
<1>2. SealInv' BY <1>1, NextSeal DEF Next
<1>3. ControlOK'
  <2>1. CASE ctl' = [NoControl EXCEPT !.pc = "failed"]
    BY <2>1 DEF ControlOK, NoControl
  <2>2. CASE \E x : ctl' = [ctl EXCEPT !.pc = "done", !.split = x]
    <3>1. PICK x : ctl' = [ctl EXCEPT !.pc = "done", !.split = x] BY <2>2
    <3>2. "pc" \in DOMAIN ctl /\ "control" \in DOMAIN ctl BY <1>1 DEF ControlOK, NoControl
    <3>3. DOMAIN ctl' = DOMAIN ctl /\ ctl'.pc = "done" /\ ctl'.control = ctl.control
      BY <3>1, <3>2
    <3> QED BY <1>1, <3>3 DEF ControlOK, NoControl
  <2> QED BY <2>1, <2>2 DEF Split
<1> QED BY <1>2, <1>3, QuietInv DEF Split

LEMMA NextUpload == UploadInv /\ [Next]_vars => UploadInv'
<1> SUFFICES ASSUME UploadInv, [Next]_vars PROVE UploadInv' OBVIOUS
<1>1. SealInv' BY NextSeal DEF UploadInv, SealInv
<1>2. CASE UNCHANGED <<clients, files, transactions, up, ctl>>
  <2>1. ControlOK' BY <1>2 DEF UploadInv, ControlOK
  <2> QED BY <1>1, <1>2, <2>1, QuietInv
<1>3. CASE Compare BY <1>3, CompareInv
<1>4. CASE Split BY <1>4, SplitInv
<1>5. ASSUME NEW t \in Thread, Receive(t) \/ Upload(t) PROVE UploadInv'
  BY <1>5, ReceiveInv, FindInv, InsertClientInv, CheckInv, InsertFileInv, InsertTransactionInv
  DEF Upload
<1> QED BY <1>2, <1>3, <1>4, <1>5 DEF Next, vars, StartUploadPeriod, ClosePeriod

\* How far each upload is, and whose clients it has found, for any number of
\* threads and any files (ModelImpl.java:247-269, ClientDao.java:53-62).
THEOREM UploadInvariant == Spec => []UploadInv
BY InitUpload, NextUpload, PTL DEF Spec

-----------------------------------------------------------------------------
(* What it gives.                                                          *)

\* A stored transaction is that of a line of its file.
LEMMA TransactionFits ==
  ASSUME UploadInv, NEW i \in DOMAIN transactions
  PROVE  \E k \in Code : Fits(transactions[i].client, k)
<1>1. TablesOK /\ FilesFit BY DEF UploadInv
<1>2. PICK f : f = transactions[i].file OBVIOUS
<1>3. f \in DOMAIN files /\ i \in Places(f) BY <1>1, <1>2 DEF TablesOK, Places
<1>4. IsFiniteSet(Places(f)) /\ \A j \in Places(f) : j \in Nat BY <1>1, TableRows
<1>5. PICK n : n = Cardinality(UpTo(Places(f), i)) OBVIOUS
<1>6. n \in 1..Stored(f) BY <1>3, <1>4, <1>5, AscendingIsSeq DEF Stored
<1>7. Nth(Places(f), n) = i BY <1>3, <1>4, <1>5, NthIs
<1>8. LineStored(f, n) BY <1>1, <1>3, <1>6 DEF FilesFit
<1>9. files[f].data \in Seq(Code \X Nat)
  <2>1. files[f] \in [period : Nat, data : Seq(Code \X Nat)]
    BY <1>1, <1>3, TableRows, ElementOfSeq
  <2> QED BY <2>1
<1>10. files[f].data[n] \in Code \X Nat BY <1>8, <1>9 DEF LineStored
<1>11. Fits(transactions[i].client, files[f].data[n][1]) BY <1>7, <1>8 DEF LineStored
<1> QED BY <1>10, <1>11

LEMMA RowsCorrect == ASSUME UploadInv PROVE RowsOK
<1>1. TablesOK /\ RowsFit /\ FilesFit BY DEF UploadInv
<1>2. ASSUME NEW t \in Thread PROVE ToSet(up[t].row) \subseteq DOMAIN clients \cup {NoClient}
  BY <1>1 DEF ToSet, RowsFit, Fits
<1>3. ASSUME NEW i \in DOMAIN transactions
      PROVE  transactions[i].client \in DOMAIN clients \cup {NoClient}
  BY TransactionFits DEF Fits
<1> QED BY <1>2, <1>3 DEF RowsOK

LEMMA FilesMatch == ASSUME UploadInv PROVE TransactionsMatchFile
<1>1. TablesOK /\ FilesFit /\ StoringOK BY DEF UploadInv
<1>2. ASSUME NEW f \in DOMAIN files
      PROVE  /\ Len(InFile(f)) = Stored(f) /\ DOMAIN InFile(f) = 1..Stored(f)
             /\ \A n \in 1..Stored(f) : InFile(f)[n] = Nth(Places(f), n)
    BY <1>1, TableRows, AscendingIsSeq DEF InFile, Stored
<1>3. ASSUME NEW f \in DOMAIN files PROVE Stored(f) <= Len(files[f].data)
  <2>1. Stored(f) \in Nat /\ f # 0 BY <1>1, TableRows
  <2>2. CASE \E t \in Thread : up[t].file = f
    <3>1. PICK t \in Thread : up[t].file = f BY <2>2
    <3>2. Rest(up[t]) BY <1>1, <2>1, <3>1 DEF StoringOK
    <3>3. up[t].lines \in Seq(Code \X Nat) BY DEF UploadInv, UploadsOK, Uploads
    <3>4. Len(up[t].lines) \in Nat BY <3>3, LenProperties
    <3> QED BY <2>1, <3>1, <3>2, <3>4 DEF Rest
  <2>3. CASE \A t \in Thread : up[t].file # f BY <1>1, <2>1, <2>3 DEF StoringOK, Complete
  <2> QED BY <2>2, <2>3
<1>4. ASSUME NEW f \in DOMAIN files, \A t \in Thread : up[t].file # f
      PROVE  Stored(f) = Len(files[f].data)
  BY <1>1, <1>4 DEF StoringOK, Complete
<1>5. ASSUME NEW f \in DOMAIN files, NEW n \in 1..Stored(f)
      PROVE  LET tr == transactions[InFile(f)[n]]
                 data == files[f].data
             IN  /\ tr.amount = data[n][2]
                 /\ IF tr.client = NoClient
                    THEN Cardinality(Rows(data[n][1])) > 1
                    ELSE clients[tr.client] = data[n][1]
  BY <1>1, <1>2, <1>5 DEF FilesFit, LineStored, Fits
<1> QED BY <1>2, <1>3, <1>4, <1>5 DEF TransactionsMatchFile

\* Every table and every upload has its type, for any number of threads.
THEOREM UploadTypesCorrect == Spec => []TypeOK
<1>1. UploadInv => TypeOK
  BY RowsCorrect DEF UploadInv, ControlOK, TypeOK, Matched
<1> QED BY <1>1, UploadInvariant, PTL

\* However many uploads meet one new code, it gets at most a row for each
\* thread (ClientDao.java:53-59).
THEOREM ClientRowsBounded == Spec => []RowsBounded
BY UploadInvariant, PTL DEF UploadInv

\* What is stored of a file is its lines, in order, under clients of their
\* codes, and all of them when its upload has ended (ModelImpl.java:247-269).
THEOREM FilesStoredInOrder == Spec => []TransactionsMatchFile
BY UploadInvariant, FilesMatch, PTL

-----------------------------------------------------------------------------
(* What a control reports.                                                 *)

\* As long as no two uploads have met a new code.
OneRowEach == \A k \in Code : Cardinality(Rows(k)) < 2

LEMMA SameRow ==
  ASSUME TablesOK, OneRowEach, NEW r \in DOMAIN clients, NEW q \in DOMAIN clients,
         clients[r] = clients[q]
  PROVE  r = q
<1>1. PICK R : R = Rows(clients[r]) OBVIOUS
<1>2. r \in R /\ q \in R BY <1>1 DEF Rows
<1>3. clients[r] \in Code BY TableRows, ElementOfSeq
<1>4. IsFiniteSet(R) /\ Cardinality(R) \in Nat /\ Cardinality(R) < 2
  BY <1>1, <1>3, TableRows DEF OneRowEach
<1>5. Cardinality(R \ {r}) = Cardinality(R) - 1 /\ IsFiniteSet(R \ {r})
  BY <1>2, <1>4, FS_RemoveElement
<1>6. Cardinality(R \ {r}) \in Nat BY <1>5, FS_CardinalityType
<1>7. Cardinality(R \ {r}) = 0 BY <1>4, <1>5, <1>6
<1>8. R \ {r} = {} BY <1>5, <1>7, FS_EmptySet
<1> QED BY <1>2, <1>8

\* With at most one row for each code, every transaction has its client.
LEMMA ClientKnown ==
  ASSUME UploadInv, OneRowEach, NEW i \in DOMAIN transactions
  PROVE  transactions[i].client \in DOMAIN clients /\ transactions[i].client # NoClient
<1>1. PICK k \in Code : Fits(transactions[i].client, k) BY TransactionFits
<1>2. Cardinality(Rows(k)) \in Nat /\ Cardinality(Rows(k)) < 2
  BY TableRows DEF UploadInv, OneRowEach
<1> QED BY <1>1, <1>2 DEF Fits

\* The transactions of a period that are those of a code.
Paid(p, k) == {i \in OfPeriod(p) : clients[transactions[i].client] = k}
Total(p, k) == IF Paid(p, k) = {} THEN NoAmount ELSE {Amount(Paid(p, k))}
Due(control, k) == IF k \in DOMAIN control THEN {control[k]} ELSE NoAmount

\* The amounts by code are the sums over the transactions of each code.
LEMMA AmountsExact ==
  ASSUME UploadInv, OneRowEach, NEW p, NEW amounts \in TransactionAmounts(p)
  PROVE  /\ DOMAIN amounts = {k \in Code : Paid(p, k) # {}}
         /\ \A k \in DOMAIN amounts : amounts[k] = Amount(Paid(p, k))
<1> DEFINE sum == AggregatedInputData(p)
           of(r) == {i \in OfPeriod(p) : transactions[i].client = r}
           codes == {clients[r] : r \in DOMAIN sum}
<1>1. TablesOK BY DEF UploadInv
<1>2. \A i \in OfPeriod(p) : /\ i \in DOMAIN transactions
                             /\ transactions[i].client \in DOMAIN clients
                             /\ transactions[i].client # NoClient
  BY ClientKnown DEF OfPeriod
<1>3. /\ DOMAIN sum = {transactions[i].client : i \in OfPeriod(p)}
      /\ \A r \in DOMAIN sum : sum[r] = Amount(of(r))
  BY <1>2 DEF AggregatedInputData
<1>4. PICK last \in [codes -> DOMAIN sum] :
        /\ \A k \in codes : last[k] \in Rows(k) \cap DOMAIN sum
        /\ amounts = [k \in codes |-> sum[last[k]]]
  BY DEF TransactionAmounts
<1>5. DOMAIN amounts = codes /\ \A k \in codes : amounts[k] = sum[last[k]] BY <1>4
<1> HIDE DEF sum
<1>6. codes = {k \in Code : Paid(p, k) # {}}
  <2>1. \A r \in DOMAIN clients : clients[r] \in Code BY <1>1, TableRows, ElementOfSeq
  <2>2. ASSUME NEW k \in codes PROVE k \in Code /\ Paid(p, k) # {}
    <3>1. PICK r \in DOMAIN sum : k = clients[r] OBVIOUS
    <3>2. PICK i \in OfPeriod(p) : r = transactions[i].client BY <1>3, <3>1
    <3> QED BY <1>2, <2>1, <3>1, <3>2 DEF Paid
  <2>3. ASSUME NEW k \in Code, NEW i \in Paid(p, k) PROVE k \in codes
    <3>1. i \in OfPeriod(p) /\ clients[transactions[i].client] = k BY DEF Paid
    <3>2. transactions[i].client \in DOMAIN sum BY <1>3, <3>1
    <3> QED BY <3>1, <3>2
  <2> QED BY <2>2, <2>3
<1>7. ASSUME NEW k \in codes PROVE amounts[k] = Amount(Paid(p, k))
  <2>1. PICK r : r = last[k] OBVIOUS
  <2>2. r \in DOMAIN sum /\ r \in Rows(k) BY <1>4, <2>1
  <2>3. r \in DOMAIN clients /\ clients[r] = k BY <2>2 DEF Rows
  <2>4. \A i \in OfPeriod(p) : clients[transactions[i].client] = k <=> transactions[i].client = r
    BY <1>1, <1>2, <2>3, SameRow
  <2>5. of(r) = Paid(p, k) BY <2>4 DEF Paid
  <2>6. amounts[k] = sum[r] BY <1>5, <2>1
  <2> QED BY <1>3, <2>2, <2>5, <2>6
<1> QED BY <1>5, <1>6, <1>7

\* The two passes over the maps leave out no code and report none twice.
LEMMA ErrorsMatch ==
  ASSUME UploadInv, Compare, OneRowEach,
         NEW p, p = ctl'.period, NEW control, control = ctl'.control
  PROVE  /\ ctl'.errors = {<<k, Total(p, k), Due(control, k)>> :
                              k \in {c \in Code : Total(p, c) # Due(control, c)}}
         /\ Matched(ctl') = {c \in DOMAIN control : Total(p, c) = Due(control, c)}
<1> DEFINE total(k) == Total(p, k)
           due(k) == Due(control, k)
           differ == {c \in Code : total(c) # due(c)}
<1>1. PICK amounts \in TransactionAmounts(p) :
        /\ control \in ControlData
        /\ ctl' = [pc |-> "compared", period |-> p, amounts |-> amounts, control |-> control,
                   errors |-> Errors(amounts, control), split |-> <<>>]
  BY DEF Compare
<1>2. DOMAIN control \subseteq Code BY <1>1, UploadAssumption
<1>3. /\ DOMAIN amounts = {k \in Code : Paid(p, k) # {}}
      /\ \A k \in DOMAIN amounts : amounts[k] = Amount(Paid(p, k))
  BY AmountsExact
<1>4. \A k \in Code : total(k) = IF k \in DOMAIN amounts THEN {amounts[k]} ELSE NoAmount
  BY <1>3 DEF Total
<1> HIDE DEF total
<1>5. \A k \in DOMAIN control : AmountsMatch(amounts, control, k) <=> total(k) = due(k)
  BY <1>2, <1>4 DEF AmountsMatch, Due, NoAmount
<1>6. \A k \in Unlisted(amounts, control) : k \in Code /\ due(k) = NoAmount /\ total(k) # NoAmount
  BY <1>3, <1>4 DEF Unlisted, Due, NoAmount
<1>7. \A k \in differ : k \in DOMAIN control \/ k \in Unlisted(amounts, control)
  BY <1>4 DEF Unlisted, Due
<1>8. Errors(amounts, control)
        = {<<k, total(k), due(k)>> : k \in {c \in DOMAIN control : total(c) # due(c)}}
            \cup {<<k, total(k), due(k)>> : k \in Unlisted(amounts, control)}
  <2> DEFINE get(k) == IF k \in DOMAIN amounts THEN {amounts[k]} ELSE NoAmount
             wrong == {k \in DOMAIN control : ~AmountsMatch(amounts, control, k)}
  <2>1. wrong = {c \in DOMAIN control : total(c) # due(c)} BY <1>5
  <2>2. \A k \in wrong : <<k, get(k), {control[k]}>> = <<k, total(k), due(k)>> BY <1>2, <1>4 DEF Due
  <2>3. \A k \in Unlisted(amounts, control) :
          <<k, get(k), NoAmount>> = <<k, total(k), due(k)>>
    BY <1>4, <1>6
  <2>4. Errors(amounts, control)
          = {<<k, get(k), {control[k]}>> : k \in wrong}
              \cup {<<k, get(k), NoAmount>> : k \in Unlisted(amounts, control)}
    BY DEF Errors
  <2> HIDE DEF wrong, get, due
  <2> QED BY <2>1, <2>2, <2>3, <2>4
<1>9. differ = {c \in DOMAIN control : total(c) # due(c)} \cup Unlisted(amounts, control)
  BY <1>2, <1>6, <1>7
<1>10. Matched(ctl') = {c \in DOMAIN control : total(c) = due(c)}
  BY <1>1, <1>5 DEF Matched
<1>11. ctl'.errors = {<<k, total(k), due(k)>> : k \in differ}
  <2>1. ctl'.errors = Errors(amounts, control) BY <1>1
  <2> HIDE DEF due, differ
  <2> QED BY <1>8, <1>9, <2>1
<1> QED BY <1>10, <1>11 DEF total

\* As long as no code has two rows, the control reports exactly the codes whose
\* transactions do not add up, and it splits those of all others, for any files
\* and any control (ModelImpl.java:183-200).
THEOREM ControlsExact == Spec => ErrorsExact
<1>1. ASSUME UploadInv, Compare, OneRowEach
      PROVE  LET p == ctl'.period
                 paid(k) == {i \in OfPeriod(p) : clients[transactions[i].client] = k}
                 total(k) == IF paid(k) = {} THEN NoAmount ELSE {Amount(paid(k))}
                 control == ctl'.control
                 due(k) == IF k \in DOMAIN control THEN {control[k]} ELSE NoAmount
             IN  /\ ctl'.errors = {<<k, total(k), due(k)>> : k \in {c \in Code : total(c) # due(c)}}
                 /\ Matched(ctl') = {c \in DOMAIN control : total(c) = due(c)}
  <2>1. PICK p, control : p = ctl'.period /\ control = ctl'.control OBVIOUS
  <2>2. /\ ctl'.errors = {<<k, Total(p, k), Due(control, k)>> :
                             k \in {c \in Code : Total(p, c) # Due(control, c)}}
        /\ Matched(ctl') = {c \in DOMAIN control : Total(p, c) = Due(control, c)}
    BY <1>1, <2>1, ErrorsMatch
  <2> QED BY ONLY <2>1, <2>2 DEF Total, Due, Paid
<1> QED BY <1>1, UploadInvariant, PTL DEF ErrorsExact, OneRowEach

-----------------------------------------------------------------------------
(* The split files.                                                        *)

LEMMA BeforeIsOrder ==
  ASSUME TablesOK, NEW i \in DOMAIN transactions, NEW j \in DOMAIN transactions
  PROVE  /\ i \in Nat /\ transactions[i].file \in Nat
         /\ ~Before(i, i)
         /\ i # j => (Before(i, j) <=> ~Before(j, i))
         /\ \A k \in DOMAIN transactions : Before(i, j) /\ Before(j, k) => Before(i, k)
<1>1. \A k \in DOMAIN transactions : k \in Nat /\ transactions[k].file \in Nat
  <2> TAKE k \in DOMAIN transactions
  <2>1. k \in 1..Len(transactions) BY TableRows
  <2>2. transactions[k] \in [file : Nat, client : Nat, amount : Nat]
    BY <2>1, TableRows, ElementOfSeq
  <2> QED BY <2>1, <2>2
<1>2. PICK f : f = [k \in DOMAIN transactions |-> transactions[k].file] OBVIOUS
<1>3. \A k \in DOMAIN transactions : f[k] = transactions[k].file /\ f[k] \in Nat BY <1>1, <1>2
<1> QED BY <1>1, <1>3 DEF Before

\* Who comes later has more before it, ...
LEMMA RankGrows ==
  ASSUME TablesOK, NEW S, S \subseteq DOMAIN transactions, NEW i \in S, NEW j \in S,
         Before(i, j)
  PROVE  Rank(S, i) < Rank(S, j)
<1> DEFINE D(k) == {m \in S : ~Before(k, m)}
<1>1. IsFiniteSet(DOMAIN transactions) BY TableRows, FS_Interval
<1>2. IsFiniteSet(S) /\ IsFiniteSet(D(i)) /\ IsFiniteSet(D(j)) BY <1>1, FS_Subset
<1>3. j \in D(j) /\ j \notin D(i) BY BeforeIsOrder
<1>4. D(i) \subseteq D(j)
  <2> SUFFICES ASSUME NEW m \in S, ~Before(i, m), Before(j, m) PROVE FALSE OBVIOUS
  <2> QED BY BeforeIsOrder
<1>5. Cardinality(D(i)) \in Nat /\ Cardinality(D(j)) \in Nat BY <1>2, FS_CardinalityType
<1>6. Cardinality(D(i)) <= Cardinality(D(j)) /\ Cardinality(D(i)) # Cardinality(D(j))
  BY <1>2, <1>3, <1>4, FS_Subset
<1>7. Cardinality(D(i)) < Cardinality(D(j)) BY <1>5, <1>6
<1> QED BY <1>7 DEF Rank

\* ... so that each rank is that of one transaction.
LEMMA RankFound ==
  ASSUME TablesOK, NEW S, S \subseteq DOMAIN transactions
  PROVE  /\ IsFiniteSet(S) /\ Cardinality(S) \in Nat
         /\ \A i \in S : Rank(S, i) \in 1..Cardinality(S)
         /\ \A n \in 1..Cardinality(S) : \E i \in S : Rank(S, i) = n
         /\ \A i, j \in S : Rank(S, i) = Rank(S, j) => i = j
<1> DEFINE T == 1..Cardinality(S)
           rank == [i \in S |-> Rank(S, i)]
<1>1. IsFiniteSet(S) /\ Cardinality(S) \in Nat
  <2>1. IsFiniteSet(DOMAIN transactions) BY TableRows, FS_Interval
  <2> QED BY <2>1, FS_Subset, FS_CardinalityType
<1>2. ASSUME NEW i \in S PROVE Rank(S, i) \in T
  <2>1. PICK D : D = {m \in S : ~Before(i, m)} OBVIOUS
  <2>2. i \in D /\ D \subseteq S BY <2>1, BeforeIsOrder
  <2>3. IsFiniteSet(D) /\ Cardinality(D) \in Nat /\ Cardinality(D) <= Cardinality(S)
    BY <1>1, <2>2, FS_Subset, FS_CardinalityType
  <2>4. Cardinality(D) # 0 BY <2>2, <2>3, FS_EmptySet
  <2>5. Rank(S, i) = Cardinality(D) BY <2>1 DEF Rank
  <2> QED BY <1>1, <2>3, <2>4, <2>5
<1>3. ASSUME NEW i \in S, NEW j \in S, Rank(S, i) = Rank(S, j) PROVE i = j
  <2> SUFFICES ASSUME i # j PROVE FALSE OBVIOUS
  <2>1. Before(i, j) \/ Before(j, i) BY BeforeIsOrder
  <2>2. Rank(S, i) < Rank(S, j) \/ Rank(S, j) < Rank(S, i) BY <2>1, RankGrows
  <2>3. Rank(S, i) \in Int BY <1>2
  <2> QED BY <1>3, <2>2, <2>3
<1>4. rank \in Injection(S, T) BY <1>2, <1>3 DEF Injection, IsInjective
<1>5. IsFiniteSet(T) /\ Cardinality(T) = Cardinality(S) BY <1>1, FS_Interval
<1>6. rank \in Surjection(S, T) BY <1>4, <1>5, FS_Injection
<1>7. \A n \in T : \E i \in S : rank[i] = n BY <1>6 DEF Surjection
<1> QED BY <1>1, <1>2, <1>3, <1>7

\* The query returns the transactions of the period, each one once, by file
\* and id.
LEMMA PeriodSorted ==
  ASSUME TablesOK, NEW p, NEW seq, seq = TransactionsFromPeriod(p)
  PROVE  /\ seq \in Seq(OfPeriod(p)) /\ Len(seq) \in Nat /\ DOMAIN seq = 1..Len(seq)
         /\ \A n \in 1..Len(seq) : seq[n] \in OfPeriod(p)
         /\ \A i \in OfPeriod(p) : \E n \in 1..Len(seq) : seq[n] = i
         /\ \A a, b \in 1..Len(seq) : a < b => Before(seq[a], seq[b])
<1> DEFINE S == OfPeriod(p)
           N == Cardinality(S)
<1>1. S \subseteq DOMAIN transactions BY DEF OfPeriod
<1> HIDE DEF S
<1>2. /\ N \in Nat
      /\ \A i \in S : Rank(S, i) \in 1..N
      /\ \A n \in 1..N : \E i \in S : Rank(S, i) = n
      /\ \A i, j \in S : Rank(S, i) = Rank(S, j) => i = j
  BY <1>1, RankFound
<1>3. seq = [n \in 1..N |-> CHOOSE i \in S : Rank(S, i) = n]
  BY DEF TransactionsFromPeriod, S
<1>4. \A n \in 1..N : seq[n] \in S /\ Rank(S, seq[n]) = n BY <1>2, <1>3
<1>5. seq \in [1..N -> S] BY <1>3, <1>4
<1>6. seq \in Seq(S) /\ Len(seq) = N /\ DOMAIN seq = 1..N BY <1>2, <1>5, SeqDef, LenProperties
<1>7. \A i \in S : seq[Rank(S, i)] = i BY <1>2, <1>4
<1>8. ASSUME NEW a \in 1..N, NEW b \in 1..N, a < b PROVE Before(seq[a], seq[b])
  <2>1. seq[a] # seq[b] BY <1>4, <1>8
  <2>2. ~Before(seq[b], seq[a]) BY <1>1, <1>4, <1>8, RankGrows
  <2> QED BY <1>1, <1>4, <2>1, <2>2, BeforeIsOrder
<1> QED BY <1>2, <1>4, <1>6, <1>7, <1>8 DEF S

\* The loop does what its recursion says.
LEMMA LinesWritten ==
  ASSUME NEW seq, Len(seq) \in Nat
  PROVE  LET acc == WriteLines(seq) IN
         /\ acc[0] = [file |-> transactions[seq[1]].file, zip |-> <<>>, text |-> <<>>]
         /\ \A n \in 1..Len(seq) : acc[n] = AddLine(acc[n - 1], seq[n])
<1> DEFINE acc0 == [file |-> transactions[seq[1]].file, zip |-> <<>>, text |-> <<>>]
           Loop(g, N) == g = [n \in 0..N |-> IF n = 0 THEN acc0 ELSE AddLine(g[n - 1], seq[n])]
           bad == {N \in Nat : ~\E g : Loop(g, N)}
<1>1. bad = {}
  <2> SUFFICES ASSUME bad # {} PROVE FALSE OBVIOUS
  <2>1. PICK N \in bad : \A M \in bad : N <= M BY LeastNatural
  <2>2. N \in Nat /\ ~\E g : Loop(g, N) OBVIOUS
  <2>3. CASE N = 0
    <3> DEFINE g == [n \in 0..0 |-> acc0]
    <3> HIDE DEF acc0
    <3>1. g = [n \in 0..0 |-> IF n = 0 THEN acc0 ELSE AddLine(g[n - 1], seq[n])] OBVIOUS
    <3> QED BY <2>2, <2>3, <3>1
  <2>4. CASE N # 0
    <3>1. N - 1 \in Nat BY <2>2, <2>4
    <3>2. PICK g : Loop(g, N - 1)
      <4>1. N - 1 \notin bad
        <5> HIDE DEF bad
        <5> QED BY <2>1, <2>2, <3>1
      <4> QED BY <3>1, <4>1
    <3> DEFINE h == [n \in 0..N |-> IF n = N THEN AddLine(g[N - 1], seq[N]) ELSE g[n]]
    <3> HIDE DEF acc0
    <3>3. ASSUME NEW n \in 0..N
          PROVE  h[n] = IF n = 0 THEN acc0 ELSE AddLine(h[n - 1], seq[n])
      <4>1. CASE n = N
        <5>1. n - 1 \in 0..N /\ n - 1 # N /\ n # 0 BY <2>2, <2>4, <4>1
        <5>2. h[n - 1] = g[n - 1] BY <5>1
        <5> QED BY <4>1, <5>1, <5>2
      <4>2. CASE n = 0
        <5>1. 0 \in 0..(N - 1) BY <3>1
        <5>2. g[0] = acc0 BY <3>2, <5>1
        <5> QED BY <2>4, <4>2, <5>2
      <4>3. CASE n # N /\ n # 0
        <5>1. n \in 0..(N - 1) /\ n - 1 \in 0..N /\ n - 1 # N BY <2>2, <4>3
        <5>2. g[n] = AddLine(g[n - 1], seq[n]) BY <3>2, <4>3, <5>1
        <5>3. h[n] = g[n] /\ h[n - 1] = g[n - 1] BY <4>3, <5>1
        <5> QED BY <4>3, <5>2, <5>3
      <4> QED BY <4>1, <4>2, <4>3
    <3>4. h = [n \in 0..N |-> h[n]] OBVIOUS
    <3> HIDE DEF h
    <3>5. Loop(h, N) BY <3>3, <3>4
    <3> QED BY <2>2, <3>5
  <2> QED BY <2>3, <2>4
<1>2. \E g : Loop(g, Len(seq)) BY <1>1
<1>3. Loop(WriteLines(seq), Len(seq)) BY <1>2 DEF WriteLines
<1> HIDE DEF acc0
<1>4. \A n \in 0..Len(seq) :
        WriteLines(seq)[n] = IF n = 0 THEN acc0 ELSE AddLine(WriteLines(seq)[n - 1], seq[n])
  BY <1>3
<1>5. 0 \in 0..Len(seq) /\ \A n \in 1..Len(seq) : n \in 0..Len(seq) /\ n # 0 OBVIOUS
<1> QED BY <1>4, <1>5 DEF acc0

\* The files that the first k transactions have been written to: one of lines
\* of input file f, in the order of their ids, ...
FileOf(i) == transactions[i].file
Kept(i) == clients[transactions[i].client] \in Matched(ctl)

OneFile(text, f, seq, k) ==
  /\ text \in Seq(Nat)
  /\ \A m \in 1..Len(text) :
       /\ FileOf(text[m]) = f
       /\ \E j \in 1..k : text[m] = seq[j] /\ Kept(seq[j])
  /\ \A a, b \in 1..Len(text) : a < b => text[a] < text[b]

\* ... a file for each input file, every line in one of them.
SplitOK(s, f, seq, k) ==
  /\ s \in Seq(Seq(Nat)) /\ s # <<>>
  /\ \E g \in [1..Len(s) -> Nat] :
       /\ g[Len(s)] = f
       /\ \A a, b \in 1..Len(s) : a < b => g[a] < g[b]
       /\ \A n \in 1..Len(s) : OneFile(s[n], g[n], seq, k)
  /\ \A j \in 1..k : Kept(seq[j]) => \E n \in 1..Len(s) : \E m \in 1..Len(s[n]) : s[n][m] = seq[j]

WrittenOK(acc, seq, k) ==
  /\ acc \in [file : Nat, zip : Seq(Seq(Nat)), text : Seq(Nat)]
  /\ SplitOK(Append(acc.zip, acc.text), acc.file, seq, k)
  /\ \A j \in 1..Len(seq) : j > k => acc.file <= FileOf(seq[j])

SortedLines(seq) ==
  /\ Len(seq) \in Nat
  /\ \A n \in 1..Len(seq) : seq[n] \in DOMAIN transactions
  /\ \A a, b \in 1..Len(seq) : a < b => Before(seq[a], seq[b])

\* Two places of the query's result.
LEMMA LinesInOrder ==
  ASSUME TablesOK, NEW seq, SortedLines(seq), NEW j \in 1..Len(seq)
  PROVE  /\ seq[j] \in Nat /\ FileOf(seq[j]) \in Nat
         /\ \A a \in 1..Len(seq) : a < j => /\ FileOf(seq[a]) <= FileOf(seq[j])
                                            /\ FileOf(seq[a]) = FileOf(seq[j]) => seq[a] < seq[j]
<1>1. \A n \in 1..Len(seq) : seq[n] \in Nat /\ FileOf(seq[n]) \in Nat
  BY BeforeIsOrder DEF SortedLines, FileOf
<1>2. ASSUME NEW a \in 1..Len(seq), a < j
      PROVE  /\ FileOf(seq[a]) <= FileOf(seq[j])
             /\ FileOf(seq[a]) = FileOf(seq[j]) => seq[a] < seq[j]
  <2>1. Before(seq[a], seq[j]) BY <1>2 DEF SortedLines
  <2>2. \/ FileOf(seq[a]) < FileOf(seq[j])
        \/ FileOf(seq[a]) = FileOf(seq[j]) /\ seq[a] < seq[j]
    BY <2>1 DEF Before, FileOf
  <2> QED BY <1>1, <2>2
<1> QED BY <1>1, <1>2

\* What is known of a file does not depend on the transactions to come.
LEMMA OneFileKept ==
  ASSUME NEW text, NEW f, NEW seq, NEW k \in Nat, OneFile(text, f, seq, k)
  PROVE  OneFile(text, f, seq, k + 1)
<1>1. \A j \in 1..k : j \in 1..(k + 1) OBVIOUS
<1> QED BY <1>1 DEF OneFile

LEMMA LineSkipped ==
  ASSUME NEW s, NEW f, NEW seq, NEW k \in Nat, SplitOK(s, f, seq, k), ~Kept(seq[k + 1])
  PROVE  SplitOK(s, f, seq, k + 1)
<1>1. PICK g \in [1..Len(s) -> Nat] :
        /\ g[Len(s)] = f
        /\ \A a, b \in 1..Len(s) : a < b => g[a] < g[b]
        /\ \A n \in 1..Len(s) : OneFile(s[n], g[n], seq, k)
  BY DEF SplitOK
<1>2. \A n \in 1..Len(s) : OneFile(s[n], g[n], seq, k + 1) BY <1>1, OneFileKept
<1>3. \A j \in 1..(k + 1) : j = k + 1 \/ j \in 1..k OBVIOUS
<1> QED BY <1>1, <1>2, <1>3 DEF SplitOK

\* The line is added to the last file.
LEMMA LineGoesOn ==
  ASSUME TablesOK, NEW s, NEW f, NEW seq, NEW k \in Nat, SortedLines(seq), k + 1 <= Len(seq),
         SplitOK(s, f, seq, k), Kept(seq[k + 1]), FileOf(seq[k + 1]) = f,
         NEW r, r \in Seq(Seq(Nat)), Len(r) = Len(s), \A n \in 1..(Len(s) - 1) : r[n] = s[n],
         r[Len(s)] = Append(s[Len(s)], seq[k + 1])
  PROVE  SplitOK(r, f, seq, k + 1)
<1> DEFINE N == Len(s)
           i == seq[k + 1]
           text == s[N]
<1>1. PICK g \in [1..N -> Nat] :
        /\ g[N] = f
        /\ \A a, b \in 1..N : a < b => g[a] < g[b]
        /\ \A n \in 1..N : OneFile(s[n], g[n], seq, k)
  BY DEF SplitOK
<1>2. s \in Seq(Seq(Nat)) /\ N \in Nat /\ N >= 1
  BY LenProperties, EmptySeq DEF SplitOK
<1>3. k + 1 \in 1..Len(seq) /\ \A j \in 1..k : j \in 1..Len(seq) /\ j < k + 1
  BY DEF SortedLines
<1>4. i \in Nat BY <1>3, LinesInOrder
<1>5. text \in Seq(Nat) /\ OneFile(text, f, seq, k)
  <2>1. N \in 1..N BY <1>2
  <2>2. OneFile(s[N], g[N], seq, k) BY <1>1, <2>1
  <2> QED BY <1>1, <2>2 DEF OneFile
<1>6. /\ r[N] \in Seq(Nat) /\ Len(text) \in Nat /\ Len(r[N]) = Len(text) + 1
      /\ \A m \in 1..Len(text) : r[N][m] = text[m]
      /\ r[N][Len(text) + 1] = i
  <2>1. r[N] = Append(text, i) OBVIOUS
  <2>2. text \in Seq(Nat) BY <1>5
  <2> HIDE DEF text, i
  <2> QED BY ONLY <1>4, <2>1, <2>2, AppendProperties, LenProperties
<1>7. OneFile(r[N], f, seq, k + 1)
  <2>1. ASSUME NEW m \in 1..Len(r[N])
        PROVE  FileOf(r[N][m]) = f /\ \E j \in 1..(k + 1) : r[N][m] = seq[j] /\ Kept(seq[j])
    <3>1. CASE m = Len(text) + 1 BY <1>6, <3>1
    <3>2. CASE m # Len(text) + 1
      <4>1. m \in 1..Len(text) BY <1>6, <3>2
      <4>2. PICK j \in 1..k : text[m] = seq[j] /\ Kept(seq[j]) BY <1>5, <4>1 DEF OneFile
      <4>3. j \in 1..(k + 1) OBVIOUS
      <4> QED BY <1>5, <1>6, <4>1, <4>2, <4>3 DEF OneFile
    <3> QED BY <3>1, <3>2
  <2>2. ASSUME NEW m \in 1..Len(text) PROVE text[m] < i
    <3>1. PICK j \in 1..k : text[m] = seq[j] BY <1>5 DEF OneFile
    <3>2. FileOf(seq[j]) = FileOf(i) BY <1>5, <3>1 DEF OneFile
    <3> QED BY <1>3, <3>1, <3>2, LinesInOrder
  <2>3. ASSUME NEW a \in 1..Len(r[N]), NEW b \in 1..Len(r[N]), a < b PROVE r[N][a] < r[N][b]
    <3>1. a \in 1..Len(text) BY <1>6, <2>3
    <3>2. CASE b = Len(text) + 1 BY <1>6, <2>2, <3>1, <3>2
    <3>3. CASE b # Len(text) + 1
      <4>1. b \in 1..Len(text)
        <5>1. b \in 1..Len(text) + 1 /\ Len(text) \in Nat BY <1>6
        <5> HIDE DEF text
        <5> QED BY ONLY <3>3, <5>1
      <4> QED BY <1>5, <1>6, <2>3, <3>1, <4>1 DEF OneFile
    <3> QED BY <3>2, <3>3
  <2> QED BY <1>6, <2>1, <2>3 DEF OneFile
<1>8. ASSUME NEW n \in 1..N PROVE OneFile(r[n], g[n], seq, k + 1)
  <2>1. CASE n = N BY <1>1, <1>7, <2>1
  <2>2. CASE n # N
    <3>1. n \in 1..(N - 1) BY <1>2, <2>2
    <3>2. r[n] = s[n] BY <3>1
    <3> QED BY <1>1, <3>2, OneFileKept
  <2> QED BY <2>1, <2>2
<1>9. ASSUME NEW j \in 1..(k + 1), Kept(seq[j])
      PROVE  \E n \in 1..N : \E m \in 1..Len(r[n]) : r[n][m] = seq[j]
  <2>1. CASE j = k + 1
    <3>1. N \in 1..N /\ Len(text) + 1 \in 1..Len(r[N]) BY <1>2, <1>6
    <3> QED BY <1>6, <2>1, <3>1
  <2>2. CASE j # k + 1
    <3>1. j \in 1..k BY <2>2
    <3>2. PICK n \in 1..N : \E m \in 1..Len(s[n]) : s[n][m] = seq[j] BY <1>9, <3>1 DEF SplitOK
    <3>3. PICK m \in 1..Len(s[n]) : s[n][m] = seq[j] BY <3>2
    <3>4. m \in 1..Len(r[n]) /\ r[n][m] = s[n][m]
      <4>1. CASE n = N
        <5>1. m \in 1..Len(text) /\ s[n][m] = text[m] BY <4>1
        <5>2. m \in 1..(Len(text) + 1) BY <1>6, <5>1
        <5> QED BY <1>6, <4>1, <5>1, <5>2
      <4>2. CASE n # N
        <5>1. n \in 1..(N - 1) BY <1>2, <4>2
        <5> QED BY <5>1
      <4> QED BY <4>1, <4>2
    <3> QED BY <3>3, <3>4
  <2> QED BY <2>1, <2>2
<1>10. r # <<>> BY <1>2, EmptySeq
<1>11. Len(r) = N OBVIOUS
<1> HIDE DEF N
<1> QED BY <1>1, <1>8, <1>9, <1>10, <1>11 DEF SplitOK

\* The line begins a file.
LEMMA LineBegins ==
  ASSUME TablesOK, NEW s, NEW f, NEW seq, NEW k \in Nat, SortedLines(seq), k + 1 <= Len(seq),
         SplitOK(s, f, seq, k), Kept(seq[k + 1]), f < FileOf(seq[k + 1])
  PROVE  SplitOK(Append(s, <<seq[k + 1]>>), FileOf(seq[k + 1]), seq, k + 1)
<1> DEFINE N == Len(s)
           i == seq[k + 1]
           r == Append(s, <<i>>)
<1>1. PICK g \in [1..N -> Nat] :
        /\ g[N] = f
        /\ \A a, b \in 1..N : a < b => g[a] < g[b]
        /\ \A n \in 1..N : OneFile(s[n], g[n], seq, k)
  BY DEF SplitOK
<1>2. s \in Seq(Seq(Nat)) /\ N \in Nat /\ N >= 1
  BY LenProperties, EmptySeq DEF SplitOK
<1>3. k + 1 \in 1..Len(seq) BY DEF SortedLines
<1>4. i \in Nat /\ FileOf(i) \in Nat BY <1>3, LinesInOrder
<1>5. <<i>> \in Seq(Nat) /\ Len(<<i>>) = 1 /\ <<i>>[1] = i BY <1>4
<1>6. /\ r \in Seq(Seq(Nat)) /\ r # <<>> /\ Len(r) = N + 1
      /\ \A n \in 1..N : r[n] = s[n]
      /\ r[N + 1] = <<i>>
  BY <1>2, <1>5, AppendProperties
<1> HIDE DEF r
<1> DEFINE h == [n \in 1..(N + 1) |-> IF n = N + 1 THEN FileOf(i) ELSE g[n]]
<1>7. /\ h \in [1..(N + 1) -> Nat] /\ h[N + 1] = FileOf(i)
      /\ \A n \in 1..N : h[n] = g[n]
  <2>1. \A n \in 1..(N + 1) : n = N + 1 \/ n \in 1..N BY <1>2
  <2>2. \A n \in 1..N : n \in 1..(N + 1) /\ n # N + 1 BY <1>2
  <2>3. N + 1 \in 1..(N + 1) BY <1>2
  <2> HIDE DEF N
  <2> QED BY <1>1, <1>4, <2>1, <2>2, <2>3
<1> HIDE DEF h
<1>8. ASSUME NEW a \in 1..(N + 1), NEW b \in 1..(N + 1), a < b PROVE h[a] < h[b]
  <2>1. a \in 1..N BY <1>2, <1>8
  <2>2. CASE b = N + 1
    <3>0. f \in Nat /\ g[a] \in Nat
      <4>1. N \in 1..N BY <1>2
      <4> HIDE DEF N
      <4> QED BY <1>1, <2>1, <4>1
    <3>1. g[a] <= f
      <4>1. CASE a = N BY <1>1, <3>0, <4>1
      <4>2. CASE a # N
        <5>1. a < N /\ N \in 1..N BY <1>2, <2>1, <4>2
        <5>2. g[a] < g[N] BY <1>1, <2>1, <5>1
        <5> QED BY <1>1, <3>0, <5>2
      <4> QED BY <4>1, <4>2
    <3>3. g[a] < FileOf(i) BY <1>4, <3>0, <3>1
    <3> QED BY <1>7, <2>1, <2>2, <3>3
  <2>3. CASE b # N + 1
    <3>1. b \in 1..N BY <1>2, <2>3
    <3> QED BY <1>1, <1>7, <1>8, <2>1, <3>1
  <2> QED BY <2>2, <2>3
<1>9. OneFile(<<i>>, FileOf(i), seq, k + 1)
  <2>1. k + 1 \in 1..(k + 1) OBVIOUS
  <2>2. \A m \in 1..Len(<<i>>) : <<i>>[m] = i BY <1>5
  <2>3. \A a, b \in 1..Len(<<i>>) : ~(a < b) BY <1>5
  <2> QED BY <1>5, <2>1, <2>2, <2>3 DEF OneFile
<1>10. ASSUME NEW n \in 1..(N + 1) PROVE OneFile(r[n], h[n], seq, k + 1)
  <2>1. CASE n = N + 1 BY <1>6, <1>7, <1>9, <2>1
  <2>2. CASE n # N + 1
    <3>1. n \in 1..N BY <1>2, <2>2
    <3>2. r[n] = s[n] /\ h[n] = g[n] BY <1>6, <1>7, <3>1
    <3> QED BY <1>1, <3>1, <3>2, OneFileKept
  <2> QED BY <2>1, <2>2
<1>11. ASSUME NEW j \in 1..(k + 1), Kept(seq[j])
       PROVE  \E n \in 1..(N + 1) : \E m \in 1..Len(r[n]) : r[n][m] = seq[j]
  <2>1. CASE j = k + 1
    <3>1. N + 1 \in 1..(N + 1) BY <1>2
    <3>2. 1 \in 1..Len(r[N + 1]) /\ r[N + 1][1] = i BY <1>5, <1>6
    <3> QED BY <2>1, <3>1, <3>2
  <2>2. CASE j # k + 1
    <3>1. j \in 1..k BY <2>2
    <3>2. PICK n \in 1..N : \E m \in 1..Len(s[n]) : s[n][m] = seq[j] BY <1>11, <3>1 DEF SplitOK
    <3>3. n \in 1..(N + 1) /\ r[n] = s[n] BY <1>2, <1>6
    <3> QED BY <3>2, <3>3
  <2> QED BY <2>1, <2>2
<1>12. Len(r) = N + 1 /\ r \in Seq(Seq(Nat)) /\ r # <<>> BY <1>6
<1>13. SplitOK(r, FileOf(i), seq, k + 1)
  <2> HIDE DEF N, i
  <2> QED BY <1>7, <1>8, <1>10, <1>11, <1>12 DEF SplitOK
<1> QED BY <1>13 DEF r

\* Each turn of the loop.
LEMMA LineWritten ==
  ASSUME TablesOK, NEW acc, NEW seq, SortedLines(seq), NEW k \in Nat, k + 1 <= Len(seq),
         WrittenOK(acc, seq, k)
  PROVE  WrittenOK(AddLine(acc, seq[k + 1]), seq, k + 1)
<1> DEFINE i == seq[k + 1]
           s == Append(acc.zip, acc.text)
           next == AddLine(acc, i)
           Reached(f) == \A j \in 1..Len(seq) : j > k + 1 => f <= FileOf(seq[j])
<1>1. /\ acc \in [file : Nat, zip : Seq(Seq(Nat)), text : Seq(Nat)]
      /\ SplitOK(s, acc.file, seq, k)
      /\ \A j \in 1..Len(seq) : j > k => acc.file <= FileOf(seq[j])
  BY DEF WrittenOK
<1>2. acc.file \in Nat /\ acc.zip \in Seq(Seq(Nat)) /\ acc.text \in Seq(Nat) BY <1>1
<1>3. k + 1 \in 1..Len(seq) /\ k + 1 > k BY DEF SortedLines
<1>4. i \in Nat /\ FileOf(i) \in Nat /\ acc.file <= FileOf(i) BY <1>1, <1>3, LinesInOrder
<1>5. Reached(acc.file) /\ Reached(FileOf(i))
  <2>1. \A j \in 1..Len(seq) : j > k + 1 => j > k BY DEF SortedLines
  <2>2. \A j \in 1..Len(seq) : j > k + 1 => FileOf(i) <= FileOf(seq[j])
    BY <1>3, LinesInOrder
  <2> QED BY <1>1, <2>1, <2>2
<1>6. /\ s \in Seq(Seq(Nat)) /\ Len(acc.zip) \in Nat /\ Len(s) = Len(acc.zip) + 1
      /\ \A n \in 1..Len(acc.zip) : s[n] = acc.zip[n]
      /\ s[Len(s)] = acc.text
  BY <1>2, AppendProperties, LenProperties
<1>7. CASE ~Kept(i)
  <2>1. next = acc BY <1>7 DEF AddLine, Kept
  <2>2. SplitOK(s, acc.file, seq, k + 1) BY <1>1, <1>7, LineSkipped
  <2> QED BY <1>1, <1>5, <2>1, <2>2 DEF WrittenOK
<1>8. CASE Kept(i) /\ FileOf(i) = acc.file
  <2> DEFINE text == Append(acc.text, i)
             r == Append(acc.zip, text)
  <2>1. next = [acc EXCEPT !.text = text] BY <1>8 DEF AddLine, Kept, FileOf
  <2>2. text \in Seq(Nat) BY <1>2, <1>4, AppendProperties
  <2>3. /\ next \in [file : Nat, zip : Seq(Seq(Nat)), text : Seq(Nat)]
        /\ next.file = acc.file /\ next.zip = acc.zip /\ next.text = text
    <3> HIDE DEF text, next
    <3> QED BY <1>1, <2>1, <2>2
  <2>4. /\ r \in Seq(Seq(Nat)) /\ Len(r) = Len(s)
        /\ \A n \in 1..(Len(s) - 1) : r[n] = s[n]
        /\ r[Len(s)] = Append(s[Len(s)], i)
    <3>1. /\ r \in Seq(Seq(Nat)) /\ Len(r) = Len(acc.zip) + 1
          /\ \A n \in 1..Len(acc.zip) : r[n] = acc.zip[n]
          /\ r[Len(acc.zip) + 1] = text
      BY <1>2, <2>2, AppendProperties
    <3>2. Len(s) - 1 = Len(acc.zip) BY <1>6
    <3> HIDE DEF s, r
    <3> QED BY <1>6, <3>1, <3>2
  <2> HIDE DEF r, s
  <2>5. SplitOK(r, acc.file, seq, k + 1) BY <1>1, <1>8, <2>4, LineGoesOn
  <2> HIDE DEF text
  <2> QED BY <1>5, <2>3, <2>5 DEF WrittenOK, r
<1>9. CASE Kept(i) /\ FileOf(i) # acc.file
  <2>1. next = [file |-> FileOf(i), zip |-> s, text |-> <<i>>]
    BY <1>9 DEF AddLine, Kept, FileOf
  <2>2. <<i>> \in Seq(Nat) BY <1>4
  <2>3. acc.file < FileOf(i) BY <1>2, <1>4, <1>9
  <2>4. SplitOK(Append(s, <<i>>), FileOf(i), seq, k + 1)
    <3> HIDE DEF s
    <3> QED BY <1>1, <1>9, <2>3, LineBegins
  <2>5. /\ next \in [file : Nat, zip : Seq(Seq(Nat)), text : Seq(Nat)]
        /\ next.file = FileOf(i) /\ next.zip = s /\ next.text = <<i>>
    <3> HIDE DEF s, next
    <3> QED BY <1>4, <1>6, <2>1, <2>2
  <2> HIDE DEF s
  <2> QED BY <1>5, <2>4, <2>5 DEF WrittenOK
<1> QED BY <1>7, <1>8, <1>9

LEMMA FirstWritten ==
  ASSUME TablesOK, NEW seq, SortedLines(seq), seq # <<>>, 1 <= Len(seq),
         NEW acc, acc = [file |-> transactions[seq[1]].file, zip |-> <<>>, text |-> <<>>]
  PROVE  WrittenOK(acc, seq, 0)
<1>1. 1 \in 1..Len(seq) BY DEF SortedLines
<1>2. acc.file \in Nat /\ acc.file = FileOf(seq[1]) BY <1>1, LinesInOrder DEF FileOf
<1>3. acc \in [file : Nat, zip : Seq(Seq(Nat)), text : Seq(Nat)] BY <1>2
<1> DEFINE s == Append(acc.zip, acc.text)
           g == [n \in 1..1 |-> acc.file]
<1>4. s \in Seq(Seq(Nat)) /\ s # <<>> /\ Len(s) = 1 /\ s[1] = <<>>
  <2>1. acc.zip = <<>> /\ acc.zip \in Seq(Seq(Nat)) /\ Len(acc.zip) = 0
        /\ acc.text = <<>> /\ acc.text \in Seq(Nat)
    OBVIOUS
  <2> QED BY <2>1, AppendProperties
<1>5. OneFile(s[1], acc.file, seq, 0) BY <1>4 DEF OneFile
<1>6. SplitOK(s, acc.file, seq, 0)
  <2>1. g \in [1..Len(s) -> Nat] /\ g[Len(s)] = acc.file /\ \A n \in 1..Len(s) : n = 1 /\ g[n] = acc.file
    BY <1>2, <1>4
  <2> HIDE DEF s, g
  <2> QED BY <1>4, <1>5, <2>1 DEF SplitOK
<1>7. \A j \in 1..Len(seq) : acc.file <= FileOf(seq[j])
  <2> TAKE j \in 1..Len(seq)
  <2>1. j = 1 \/ 1 < j OBVIOUS
  <2> QED BY <1>1, <1>2, <2>1, LinesInOrder
<1> QED BY <1>3, <1>6, <1>7 DEF WrittenOK

\* The whole loop, by its first turn that would go wrong.
LEMMA AllWritten ==
  ASSUME TablesOK, NEW seq, SortedLines(seq), seq # <<>>, 1 <= Len(seq)
  PROVE  WrittenOK(WriteLines(seq)[Len(seq)], seq, Len(seq))
<1> DEFINE acc == WriteLines(seq)
           bad == {k \in Nat : k <= Len(seq) /\ ~WrittenOK(acc[k], seq, k)}
<1>1. Len(seq) \in Nat BY DEF SortedLines
<1>2. /\ acc[0] = [file |-> transactions[seq[1]].file, zip |-> <<>>, text |-> <<>>]
      /\ \A n \in 1..Len(seq) : acc[n] = AddLine(acc[n - 1], seq[n])
  BY <1>1, LinesWritten
<1> HIDE DEF acc
<1>3. bad = {}
  <2> SUFFICES ASSUME bad # {} PROVE FALSE OBVIOUS
  <2>1. PICK k \in bad : \A m \in bad : k <= m BY LeastNatural
  <2>2. k \in Nat /\ k <= Len(seq) /\ ~WrittenOK(acc[k], seq, k) OBVIOUS
  <2>3. k # 0 BY <1>2, <2>2, FirstWritten
  <2>4. PICK j \in Nat : k = j + 1 BY <2>2, <2>3
  <2>5. j \notin bad BY <2>1, <2>4
  <2>6. j <= Len(seq) /\ k \in 1..Len(seq) /\ k - 1 = j BY <1>1, <2>2, <2>4
  <2>7. WrittenOK(acc[j], seq, j) BY <2>5, <2>6
  <2>8. acc[k] = AddLine(acc[j], seq[j + 1]) BY <1>2, <2>4, <2>6
  <2> HIDE DEF bad
  <2> QED BY <2>2, <2>4, <2>7, <2>8, LineWritten
<1> QED BY <1>1, <1>3 DEF acc

\* The transactions of the clients that match, once, by input file.
LEMMA FilesSplit ==
  ASSUME TablesOK, NEW p, NEW s, s = SplitFiles(TransactionsFromPeriod(p))
  PROVE  LET lines == {i \in OfPeriod(p) : Kept(i)}
             place == UNION {{n} \X DOMAIN s[n] : n \in DOMAIN s}
             line(nm) == s[nm[1]][nm[2]]
         IN  /\ {line(a) : a \in place} = lines
             /\ \A a, b \in place : /\ a[1] = b[1] <=> FileOf(line(a)) = FileOf(line(b))
                                    /\ a[1] = b[1] /\ a[2] < b[2] => line(a) < line(b)
<1> DEFINE lines == {i \in OfPeriod(p) : Kept(i)}
           place == UNION {{n} \X DOMAIN s[n] : n \in DOMAIN s}
           line(nm) == s[nm[1]][nm[2]]
<1>1. PICK seq : seq = TransactionsFromPeriod(p) OBVIOUS
<1>2. /\ seq \in Seq(OfPeriod(p)) /\ Len(seq) \in Nat
      /\ \A n \in 1..Len(seq) : seq[n] \in OfPeriod(p)
      /\ \A i \in OfPeriod(p) : \E n \in 1..Len(seq) : seq[n] = i
      /\ \A a, b \in 1..Len(seq) : a < b => Before(seq[a], seq[b])
  BY <1>1, PeriodSorted
<1>3. SortedLines(seq) BY <1>2 DEF SortedLines, OfPeriod
<1>4. CASE seq = <<>>
  <2>1. s = <<>> BY <1>1, <1>4 DEF SplitFiles
  <2>2. DOMAIN s = {} BY <2>1
  <2>3. place = {} BY <2>2
  <2>4. Len(seq) = 0 BY <1>4
  <2>5. OfPeriod(p) = {} BY <1>2, <2>4
  <2> QED BY <2>3, <2>5
<1>5. CASE seq # <<>>
  <2> DEFINE N == Len(seq)
  <2>1. N >= 1 BY <1>2, <1>5, EmptySeq
  <2>2. PICK last : last = WriteLines(seq)[N] OBVIOUS
  <2>3. WrittenOK(last, seq, N) BY <1>3, <1>5, <2>1, <2>2, AllWritten
  <2>4. s = Append(last.zip, last.text) BY <1>1, <1>5, <2>2 DEF SplitFiles
  <2>5. SplitOK(s, last.file, seq, N) BY <2>3, <2>4 DEF WrittenOK
  <2>6. PICK g \in [1..Len(s) -> Nat] :
          /\ \A a, b \in 1..Len(s) : a < b => g[a] < g[b]
          /\ \A n \in 1..Len(s) : OneFile(s[n], g[n], seq, N)
    BY <2>5 DEF SplitOK
  <2>7. /\ Len(s) \in Nat /\ DOMAIN s = 1..Len(s)
        /\ \A n \in DOMAIN s : Len(s[n]) \in Nat /\ DOMAIN s[n] = 1..Len(s[n])
    <3>1. s \in Seq(Seq(Nat)) BY <2>5 DEF SplitOK
    <3>2. \A n \in 1..Len(s) : s[n] \in Seq(Nat) BY <2>6 DEF OneFile
    <3> QED BY <3>1, <3>2, LenProperties
  <2>8. ASSUME NEW a \in place
        PROVE  /\ a[1] \in 1..Len(s) /\ a[2] \in 1..Len(s[a[1]])
               /\ FileOf(line(a)) = g[a[1]] /\ line(a) \in lines
    <3>1. a[1] \in 1..Len(s) /\ a[2] \in 1..Len(s[a[1]]) BY <2>7
    <3>2. OneFile(s[a[1]], g[a[1]], seq, N) BY <2>6, <3>1
    <3>3. FileOf(line(a)) = g[a[1]] BY <3>1, <3>2 DEF OneFile
    <3>4. PICK j \in 1..N : line(a) = seq[j] /\ Kept(seq[j]) BY <3>1, <3>2 DEF OneFile
    <3> QED BY <1>2, <3>1, <3>3, <3>4
  <2>9. ASSUME NEW i \in lines PROVE \E a \in place : line(a) = i
    <3>1. PICK j \in 1..N : seq[j] = i BY <1>2
    <3>2. PICK n \in 1..Len(s) : \E m \in 1..Len(s[n]) : s[n][m] = i
      BY <2>5, <3>1 DEF SplitOK
    <3>3. PICK m \in 1..Len(s[n]) : s[n][m] = i BY <3>2
    <3>4. <<n, m>> \in place BY <2>7
    <3> QED BY <3>3, <3>4
  <2>10. ASSUME NEW a \in place, NEW b \in place
         PROVE  /\ a[1] = b[1] <=> FileOf(line(a)) = FileOf(line(b))
                /\ a[1] = b[1] /\ a[2] < b[2] => line(a) < line(b)
    <3> HIDE DEF place, line
    <3>1. a[1] \in 1..Len(s) /\ b[1] \in 1..Len(s) BY <2>8
    <3>2. a[1] = b[1] <=> g[a[1]] = g[b[1]]
      <4>1. a[1] < b[1] \/ b[1] < a[1] \/ a[1] = b[1] BY <3>1
      <4>2. g[a[1]] \in Nat /\ g[b[1]] \in Nat BY <2>6, <3>1
      <4>3. a[1] < b[1] => g[a[1]] < g[b[1]] BY <2>6, <3>1
      <4>4. b[1] < a[1] => g[b[1]] < g[a[1]] BY <2>6, <3>1
      <4> QED BY <4>1, <4>2, <4>3, <4>4
    <3>3. FileOf(line(a)) = g[a[1]] /\ FileOf(line(b)) = g[b[1]] BY <2>8
    <3>4. ASSUME a[1] = b[1], a[2] < b[2] PROVE line(a) < line(b)
      <4>1. PICK text : text = s[a[1]] OBVIOUS
      <4>2. OneFile(text, g[a[1]], seq, N) BY <2>6, <3>1, <4>1
      <4>3. a[2] \in 1..Len(text) /\ b[2] \in 1..Len(text) BY <2>8, <3>4, <4>1
      <4>4. text[a[2]] < text[b[2]] BY <3>4, <4>2, <4>3 DEF OneFile
      <4> QED BY <3>4, <4>1, <4>4 DEF line
    <3> QED BY <3>2, <3>3, <3>4
  <2>11. {line(a) : a \in place} = lines
    <3> HIDE DEF place, line, lines
    <3> QED BY <2>8, <2>9
  <2> HIDE DEF place, line, lines
  <2> QED BY <2>10, <2>11 DEF place, line, lines
<1> QED BY <1>4, <1>5

\* The split files of a control hold the transactions of the clients that
\* match, each one once, by input file and in the order of their ids, whatever
\* has come in since the amounts were read (ModelImpl.java:221-243).
THEOREM SplitFilesExact == Spec => SplitByFile
<1>1. ASSUME TablesOK, Split, ctl'.pc = "done"
      PROVE  LET s == ctl'.split
                 lines == {i \in OfPeriod(ctl.period) : clients[transactions[i].client] \in Matched(ctl)}
                 place == UNION {{n} \X DOMAIN s[n] : n \in DOMAIN s}
                 line(nm) == s[nm[1]][nm[2]]
                 file(nm) == transactions[line(nm)].file
             IN  /\ {line(a) : a \in place} = lines
                 /\ \A a, b \in place :
                      /\ a[1] = b[1] <=> file(a) = file(b)
                      /\ a[1] = b[1] /\ a[2] < b[2] => line(a) < line(b)
  <2>1. ctl'.split = SplitFiles(TransactionsFromPeriod(ctl.period)) BY <1>1 DEF Split, NoControl
  <2> QED BY <1>1, <2>1, FilesSplit DEF Kept, FileOf
<1> QED BY <1>1, UploadInvariant, PTL DEF SplitByFile, UploadInv
====================
