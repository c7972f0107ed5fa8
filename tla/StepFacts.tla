---------------------------- MODULE StepFacts ----------------------------
(*************************************************************************)
(* What every statement of a service leaves alone, whichever it is: the  *)
(* other services, the rows and the ids it does not name.  These facts are *)
(* shared by the proofs of the other modules.                            *)
(*************************************************************************)
EXTENDS Bookkeeping, TLAPS

(* a leaf is left to Zenon unless it cites another prover *)
USE Zenon

(* The five processes of sh/fcgi.sh and the program points of each. *)
LEMMA ServiceLabels ==
    /\ "upload" \in Cgis /\ LabelsOf("upload") = UploadLabels
    /\ "md5" \in Cgis    /\ LabelsOf("md5") = Md5Labels
    /\ D \in Cgis        /\ LabelsOf(D) = DealFileLabels
    /\ S \in Cgis        /\ LabelsOf(S) = DealShareLabels
    /\ R \in Cgis        /\ LabelsOf(R) = ShareFilesLabels
  BY DEF LabelsOf, Cgis, D, S, R

(* The fields of a request in service name a user, a digest and a file. *)
LEMMA RequestType ==
    ASSUME ProcOK, NEW p \in Cgis, ~At(p, "idle")
    PROVE  /\ req[p] \in Request
           /\ req[p].user \in Users /\ req[p].user \in CountKeys
           /\ req[p].md5 \in Md5s
           /\ req[p].filename \in Names
           /\ FileId(req[p]) \in FileIds
<1>1. req[p] \in Request
  BY RequestsAssumption DEF ProcOK, At
<1> QED
  BY <1>1 DEF Request, FileId, FileIds, CountKeys

-----------------------------------------------------------------------------
(* A step of p leaves the control and the locals of the other processes. *)
Others(p) ==
    \A q \in Cgis \ {p} :
       pc'[q] = pc[q] /\ req'[q] = req[q] /\ tmp'[q] = tmp[q]

(* upload_cgi.c moves no other process. *)
LEMMA UploadFrame ==
    ASSUME ProcOK, UploadNext
    PROVE  Others("upload")
  BY DEF ProcOK, Others, UploadNext, UploadAccept, upload_to_dstorage,
    UploadInsertInfo, UploadInsertRow, UploadSelectCount, UploadWriteCount,
    UploadError, SelectCount, Goto, Finish, Accept

(* md5_cgi.c moves no other process. *)
LEMMA Md5Frame ==
    ASSUME ProcOK, Md5Next
    PROVE  Others("md5")
  BY DEF ProcOK, Others, Md5Next, Md5Accept, Md5SelectInfo, Md5SelectOwned,
    Md5UpdateInfo, Md5InsertRow, Md5SelectCount, Md5WriteCount, Md5Error,
    SelectCount, Goto, Finish, Accept, Refuse

(* dealfile_cgi.c moves no other process. *)
LEMMA DealFileFrame ==
    ASSUME ProcOK, DealFileNext
    PROVE  Others(D)
<1>1. CASE ShareNext
  BY <1>1 DEF ProcOK, Others, ShareNext, ShareAccept, ShareAskRedis, ShareSelect,
    ShareRepair, ShareSetStatus, ShareInsert, ShareSelectCount, ShareWriteCount,
    ShareZadd, ShareHset, ShareError, SelectCount, Goto, Finish, Accept
<1>2. CASE DelNext
  BY <1>2 DEF ProcOK, Others, DelNext, DelAccept, DelAskRedis, DelSelectStatus,
    DelDeleteShare, DelSelectShareCount, DelWriteShareCount, DelZrem, DelHdel,
    DelSelectUserCount, DelWriteUserCount, DelDeleteRow, DelSelectInfo,
    DelUpdateInfo, DelSelectFileId, DelDeleteInfo, remove_file_from_storage,
    DelError, SelectCount, Goto, Finish, Accept
<1>3. CASE PvNext \/ DealFileRefuse
  BY <1>3 DEF ProcOK, Others, PvNext, PvAccept, PvSelect, PvUpdate, PvError,
    DealFileRefuse, Refuse, Goto, Finish, Accept
<1> QED
  BY <1>1, <1>2, <1>3 DEF DealFileNext

(* dealsharefile_cgi.c moves no other process. *)
LEMMA DealShareFrame ==
    ASSUME ProcOK, DealShareFileNext
    PROVE  Others(S)
<1>1. CASE SharePvNext
  BY <1>1 DEF ProcOK, Others, SharePvNext, SharePvAccept, SharePvSelect,
    SharePvUpdate, SharePvAskRedis, rop_zset_increment, SharePvZadd, SharePvHset,
    SharePvError, Goto, Finish, Accept
<1>2. CASE CancelNext
  BY <1>2 DEF ProcOK, Others, CancelNext, CancelAccept, CancelClearStatus,
    CancelSelectCount, CancelWriteCount, CancelDeleteShare, CancelZrem,
    CancelHdel, CancelError, SelectCount, Goto, Finish, Accept
<1>3. CASE SaveNext
  BY <1>3 DEF ProcOK, Others, SaveNext, SaveAccept, SaveSelectOwned,
    SaveSelectInfo, SaveUpdateInfo, SaveInsertRow, SaveSelectCount,
    SaveWriteCount, SaveError, SelectCount, Goto, Finish, Accept
<1> QED
  BY <1>1, <1>2, <1>3 DEF DealShareFileNext

(* sharefiles_cgi.c moves no other process. *)
LEMMA ShareFilesFrame ==
    ASSUME ProcOK, ShareFilesNext
    PROVE  Others(R)
  BY DEF ProcOK, Others, ShareFilesNext, RankAccept, RankSelectCount, RankZcard,
    RankDelZset, RankDelHash, RankSelectRows, RankZadd, RankHset,
    rop_zset_zrevrange, RankHget, RankScore, RankError, SelectCount, Goto,
    Finish, Accept

(* No row of file_info appears, goes or changes its file id. *)
KeepsInfo ==
    \A m \in Md5s :
       /\ file_info'[m] = NoRow <=> file_info[m] = NoRow
       /\ file_info[m] # NoRow => file_info'[m].file_id = file_info[m].file_id

(* Writing a reference count neither makes nor removes a row of file_info. *)
LEMMA UpdateKeepsInfo ==
    ASSUME DataOK, NEW m \in Md5s, NEW n \in Int, UpdateInfoCount(m, n)
    PROVE  KeepsInfo
<1>1. CASE file_info[m] = NoRow
  BY <1>1 DEF UpdateInfoCount, KeepsInfo
<1>2. CASE file_info[m] # NoRow
  <2>1. [file_id |-> file_info[m].file_id, count |-> n] # NoRow
    BY SMT, <1>2, NullAssumption DEF DataOK, InfoRow
  <2> QED
    BY <1>2, <2>1 DEF UpdateInfoCount, KeepsInfo, DataOK
<1> QED
  BY <1>1, <1>2

(* An instant upload only writes a reference count; it stores nothing. *)
LEMMA Md5KeepsInfo ==
    ASSUME TypeOK, Md5Next
    PROVE  KeepsInfo /\ UNCHANGED storeVars
<1>1. CASE Md5UpdateInfo
  <2>1. ~At("md5", "idle") /\ tmp["md5"] \in Int /\ "md5" \in Cgis
    BY <1>1, ServiceLabels DEF Md5UpdateInfo, At, TypeOK, ProcOK, NumLabels
  <2>2. req["md5"].md5 \in Md5s
    BY <2>1, RequestType DEF TypeOK
  <2> QED
    BY SMT, <1>1, <2>1, <2>2, UpdateKeepsInfo DEF Md5UpdateInfo, TypeOK
<1>2. CASE ~Md5UpdateInfo
  BY <1>2 DEF KeepsInfo, Md5Next, Md5Accept, Md5SelectInfo, Md5SelectOwned,
    Md5InsertRow, Md5SelectCount, Md5WriteCount, Md5Error, SqlErrs, Accept,
    Refuse, sqlVars
<1> QED
  BY <1>1, <1>2

(* Copying, counting or withdrawing a share only writes a reference count. *)
LEMMA DealShareKeepsInfo ==
    ASSUME TypeOK, DealShareFileNext
    PROVE  KeepsInfo /\ UNCHANGED storeVars
<1>1. CASE SaveUpdateInfo
  <2>1. ~At(S, "idle") /\ tmp[S] \in Int /\ S \in Cgis
    BY <1>1, ServiceLabels DEF SaveUpdateInfo, At, TypeOK, ProcOK, NumLabels
  <2>2. req[S].md5 \in Md5s
    BY <2>1, RequestType DEF TypeOK
  <2> QED
    BY SMT, <1>1, <2>1, <2>2, UpdateKeepsInfo DEF SaveUpdateInfo, TypeOK
<1>2. CASE SharePvNext
  BY <1>2 DEF KeepsInfo, SharePvNext, SharePvAccept, SharePvSelect,
    SharePvUpdate, SharePvAskRedis, rop_zset_increment, SharePvZadd, SharePvHset,
    SharePvError, SqlErrs, Accept, sqlVars
<1>3. CASE CancelNext
  BY <1>3 DEF KeepsInfo, CancelNext, CancelAccept, CancelClearStatus,
    CancelSelectCount, CancelWriteCount, CancelDeleteShare, CancelZrem,
    CancelHdel, CancelError, SqlErrs, Accept, sqlVars
<1>4. CASE SaveNext /\ ~SaveUpdateInfo
  BY <1>4 DEF KeepsInfo, SaveNext, SaveAccept, SaveSelectOwned, SaveSelectInfo,
    SaveInsertRow, SaveSelectCount, SaveWriteCount, SaveError, SqlErrs, Accept,
    sqlVars
<1> QED
  BY <1>1, <1>2, <1>3, <1>4 DEF DealShareFileNext

(* Apart from storing the file and inserting its row, an upload keeps both. *)
LEMMA UploadKeepsInfo ==
    ASSUME UploadNext, ~upload_to_dstorage,
           ~(UploadInsertInfo /\ file_info[req["upload"].md5] = NoRow)
    PROVE  KeepsInfo /\ UNCHANGED storeVars
  BY DEF KeepsInfo, UploadNext, UploadAccept, UploadInsertInfo, UploadInsertRow,
    UploadSelectCount, UploadWriteCount, UploadError, SqlErrs, Accept, sqlVars

(***************************************************************************)
(* Apart from deleting the row and removing the file, dealfile_cgi.c only  *)
(* writes a reference count.                                               *)
(***************************************************************************)
LEMMA DealFileKeepsInfo ==
    ASSUME TypeOK, DealFileNext, ~DelDeleteInfo, ~remove_file_from_storage
    PROVE  KeepsInfo /\ UNCHANGED storeVars
<1>1. CASE DelUpdateInfo
  <2>1. ~At(D, "idle") /\ tmp[D] - 1 \in Int /\ D \in Cgis
    BY SMT, <1>1, ServiceLabels DEF DelUpdateInfo, At, TypeOK, ProcOK, NumLabels
  <2>2. req[D].md5 \in Md5s
    BY <2>1, RequestType DEF TypeOK
  <2> QED
    BY <1>1, <2>1, <2>2, UpdateKeepsInfo DEF DelUpdateInfo, TypeOK
<1>2. CASE ShareNext
  BY <1>2 DEF KeepsInfo, ShareNext, ShareAccept, ShareAskRedis, ShareSelect,
    ShareRepair, ShareSetStatus, ShareInsert, ShareSelectCount, ShareWriteCount,
    ShareZadd, ShareHset, ShareError, SqlErrs, Accept, sqlVars
<1>3. CASE DelNext /\ ~DelUpdateInfo
  BY <1>3 DEF KeepsInfo, DelNext, DelAccept, DelAskRedis, DelSelectStatus,
    DelDeleteShare, DelSelectShareCount, DelWriteShareCount, DelZrem, DelHdel,
    DelSelectUserCount, DelWriteUserCount, DelDeleteRow, DelSelectInfo,
    DelSelectFileId, DelError, SqlErrs, Accept, sqlVars
<1>4. CASE PvNext \/ DealFileRefuse
  BY <1>4 DEF KeepsInfo, PvNext, PvAccept, PvSelect, PvUpdate, PvError,
    DealFileRefuse, Refuse, SqlErrs, Accept, sqlVars
<1> QED
  BY <1>1, <1>2, <1>3, <1>4 DEF DealFileNext

(* The ranking does not touch file_info or FastDFS. *)
LEMMA ShareFilesKeepsInfo ==
    ASSUME ShareFilesNext
    PROVE  KeepsInfo /\ UNCHANGED storeVars
  BY DEF KeepsInfo, ShareFilesNext, RankAccept, RankSelectCount, RankZcard,
    RankDelZset, RankDelHash, RankSelectRows, RankZadd, RankHset,
    rop_zset_zrevrange, RankHget, RankScore, RankError, SqlErrs, Accept, sqlVars

(* With the rows of file_info kept, the same files are named by a row. *)
LEMMA InRowKept ==
    ASSUME KeepsInfo
    PROVE  \A i : InRow(i)' <=> InRow(i)
  BY DEF KeepsInfo, InRow

(* Faults are only counted up. *)
LEMMA FaultsStay ==
    ASSUME TypeOK, [Next]_vars
    PROVE  sqlErrs' >= sqlErrs /\ kills' >= kills
<1> DEFINE Counted == \/ sqlErrs' = sqlErrs + 1 /\ UNCHANGED kills
                      \/ UNCHANGED <<sqlErrs, kills>>
<1>a. sqlErrs \in Nat /\ kills \in Nat
  BY SMT, BoundsAssumption DEF TypeOK, EnvOK
<1>1. UploadNext => Counted
  BY DEF UploadNext, UploadAccept, upload_to_dstorage, UploadInsertInfo,
    UploadInsertRow, UploadSelectCount, UploadWriteCount, UploadError, SqlErrs,
    Accept, envVars
<1>2. Md5Next => Counted
  BY DEF Md5Next, Md5Accept, Md5SelectInfo, Md5SelectOwned, Md5UpdateInfo,
    Md5InsertRow, Md5SelectCount, Md5WriteCount, Md5Error, SqlErrs, Accept,
    Refuse, envVars
<1>3. ShareNext => Counted
  BY DEF ShareNext, ShareAccept, ShareAskRedis, ShareSelect, ShareRepair,
    ShareSetStatus, ShareInsert, ShareSelectCount, ShareWriteCount, ShareZadd,
    ShareHset, ShareError, SqlErrs, Accept, envVars
<1>4. DelNext => Counted
  BY DEF DelNext, DelAccept, DelAskRedis, DelSelectStatus, DelDeleteShare,
    DelSelectShareCount, DelWriteShareCount, DelZrem, DelHdel,
    DelSelectUserCount, DelWriteUserCount, DelDeleteRow, DelSelectInfo,
    DelUpdateInfo, DelSelectFileId, DelDeleteInfo, remove_file_from_storage,
    DelError, SqlErrs, Accept, envVars
<1>5. PvNext \/ DealFileRefuse => Counted
  BY DEF PvNext, PvAccept, PvSelect, PvUpdate, PvError, DealFileRefuse, Refuse,
    SqlErrs, Accept, envVars
<1>6. SharePvNext => Counted
  BY DEF SharePvNext, SharePvAccept, SharePvSelect, SharePvUpdate,
    SharePvAskRedis, rop_zset_increment, SharePvZadd, SharePvHset, SharePvError,
    SqlErrs, Accept, envVars
<1>7. CancelNext => Counted
  BY DEF CancelNext, CancelAccept, CancelClearStatus, CancelSelectCount,
    CancelWriteCount, CancelDeleteShare, CancelZrem, CancelHdel, CancelError,
    SqlErrs, Accept, envVars
<1>8. SaveNext => Counted
  BY DEF SaveNext, SaveAccept, SaveSelectOwned, SaveSelectInfo, SaveUpdateInfo,
    SaveInsertRow, SaveSelectCount, SaveWriteCount, SaveError, SqlErrs, Accept,
    envVars
<1>9. ShareFilesNext => Counted
  BY DEF ShareFilesNext, RankAccept, RankSelectCount, RankZcard, RankDelZset,
    RankDelHash, RankSelectRows, RankZadd, RankHset, rop_zset_zrevrange,
    RankHget, RankScore, RankError, SqlErrs, Accept, envVars
<1>10. RedisLoss \/ UNCHANGED vars => Counted
  BY DEF RedisLoss, vars, stateVars, envVars
<1>11. (\E p \in Cgis : Kill(p)) => kills' = kills + 1 /\ UNCHANGED sqlErrs
  BY DEF Kill
<1>12. Counted \/ (kills' = kills + 1 /\ UNCHANGED sqlErrs)
  BY <1>1, <1>2, <1>3, <1>4, <1>5, <1>6, <1>7, <1>8, <1>9, <1>10, <1>11
     DEF Next, ClientsDone, UploadStep, Md5Step, DealFileStep, DealShareStep,
         ShareFilesStep, DealFileNext, DealShareFileNext
<1> QED
  BY SMT, <1>a, <1>12

(***************************************************************************)
(* The inductive invariant of ShareUnique: from the lookup in MySQL to the *)
(* INSERT, only share_file itself could add a row of the file.             *)
(***************************************************************************)
UniqueInv ==
    /\ ShareUnique
    /\ sqlErrs = 0 /\ pc[D] \in {"sh_status", "sh_row"} =>
          SharesOf(FileId(req[D])) = {}

(***************************************************************************)
(* The inductive invariant of SharePvNeverDecreases.  Row ids are fresh.   *)
(* Should a failing lookup have let a file in twice, the older row has     *)
(* been downloaded at least as often.  pv_file holds the counter of the    *)
(* oldest row, which no row of the file exceeds when it is written back.   *)
(***************************************************************************)
Read(x) == pc[S] = "sp_upd" /\ FileId(x) = FileId(req[S])

PvInv ==
    /\ \A x \in share_file_list : x.rid < nextRow /\ x.pv >= 0
    /\ \A x, y \in share_file_list : x.rid = y.rid => x = y
    /\ \A x, y \in share_file_list :
          FileId(x) = FileId(y) /\ x.rid <= y.rid => y.pv <= x.pv
    /\ pc[S] = "sp_upd" => tmp[S] >= 0
    /\ \A x \in share_file_list : Read(x) => x.pv <= tmp[S]

-----------------------------------------------------------------------------
(* The step is not of an idle process that stays idle. *)
Moves(p) == pc[p] # "idle" \/ pc'[p] # "idle"

(* Every statement of upload_cgi.c is of a request in service. *)
LEMMA UploadMoves ==
    ASSUME TypeOK, UploadNext, sqlErrs' = sqlErrs
    PROVE  Moves("upload")
<1>1. "upload" \in Cgis /\ ~UploadError
  BY SMT, ServiceLabels, BoundsAssumption DEF UploadError, SqlErrs, TypeOK, EnvOK
<1> QED
  BY <1>1 DEF UploadNext, UploadAccept, Accept, upload_to_dstorage,
    UploadInsertInfo, UploadInsertRow, UploadSelectCount, UploadWriteCount, At,
    Moves, TypeOK, ProcOK

(* So is every one of md5_cgi.c, unless it refuses the request. *)
LEMMA Md5Moves ==
    ASSUME TypeOK, Md5Next, ~Refuse("md5"), sqlErrs' = sqlErrs
    PROVE  Moves("md5")
<1>1. "md5" \in Cgis /\ ~Md5Error
  BY SMT, ServiceLabels, BoundsAssumption DEF Md5Error, SqlErrs, TypeOK, EnvOK
<1> QED
  BY <1>1 DEF Md5Next, Md5Accept, Accept, Md5SelectInfo, Md5SelectOwned,
    Md5UpdateInfo, Md5InsertRow, Md5SelectCount, Md5WriteCount, At, Moves,
    TypeOK, ProcOK

(* And of dealfile_cgi.c. *)
LEMMA DealFileMoves ==
    ASSUME TypeOK, DealFileNext, ~DealFileRefuse, sqlErrs' = sqlErrs
    PROVE  Moves(D)
<1>0. D \in Cgis /\ ProcOK
  BY ServiceLabels DEF TypeOK
<1>1. ~ShareError /\ ~DelError /\ ~PvError
  BY SMT, BoundsAssumption DEF ShareError, DelError, PvError, SqlErrs, TypeOK, EnvOK
<1>2. ShareNext => Moves(D)
  BY <1>0, <1>1 DEF ShareNext, ShareAccept, ShareAskRedis, ShareSelect,
    ShareRepair, ShareSetStatus, ShareInsert, ShareSelectCount, ShareWriteCount,
    ShareZadd, ShareHset, Accept, At, Moves, ProcOK
<1>3. DelNext => Moves(D)
  BY <1>0, <1>1 DEF DelNext, DelAccept, DelAskRedis, DelSelectStatus,
    DelDeleteShare, DelSelectShareCount, DelWriteShareCount, DelZrem, DelHdel,
    DelSelectUserCount, DelWriteUserCount, DelDeleteRow, DelSelectInfo,
    DelUpdateInfo, DelSelectFileId, DelDeleteInfo, remove_file_from_storage,
    Accept, At, Moves, ProcOK
<1>4. PvNext => Moves(D)
  BY <1>0, <1>1 DEF PvNext, PvAccept, PvSelect, PvUpdate, Accept, At, Moves,
    ProcOK
<1> QED
  BY <1>2, <1>3, <1>4 DEF DealFileNext

(* And of dealsharefile_cgi.c. *)
LEMMA DealShareMoves ==
    ASSUME TypeOK, DealShareFileNext, sqlErrs' = sqlErrs
    PROVE  Moves(S)
<1>0. S \in Cgis /\ ProcOK
  BY ServiceLabels DEF TypeOK
<1>1. ~SharePvError /\ ~CancelError /\ ~SaveError
  BY SMT, BoundsAssumption DEF SharePvError, CancelError, SaveError, SqlErrs, TypeOK,
    EnvOK
<1>2. SharePvNext => Moves(S)
  BY <1>0, <1>1 DEF SharePvNext, SharePvAccept, SharePvSelect, SharePvUpdate,
    SharePvAskRedis, rop_zset_increment, SharePvZadd, SharePvHset, Accept, At,
    Moves, ProcOK
<1>3. CancelNext => Moves(S)
  BY <1>0, <1>1 DEF CancelNext, CancelAccept, CancelClearStatus,
    CancelSelectCount, CancelWriteCount, CancelDeleteShare, CancelZrem,
    CancelHdel, Accept, At, Moves, ProcOK
<1>4. SaveNext => Moves(S)
  BY <1>0, <1>1 DEF SaveNext, SaveAccept, SaveSelectOwned, SaveSelectInfo,
    SaveUpdateInfo, SaveInsertRow, SaveSelectCount, SaveWriteCount, Accept, At,
    Moves, ProcOK
<1> QED
  BY <1>2, <1>3, <1>4 DEF DealShareFileNext

(* And of sharefiles_cgi.c. *)
LEMMA ShareFilesMoves ==
    ASSUME TypeOK, ShareFilesNext, sqlErrs' = sqlErrs
    PROVE  Moves(R)
<1>1. R \in Cgis /\ ~RankError
  BY SMT, ServiceLabels, BoundsAssumption DEF RankError, SqlErrs, TypeOK, EnvOK
<1> QED
  BY <1>1 DEF ShareFilesNext, RankAccept, RankSelectCount, RankZcard,
    RankDelZset, RankDelHash, RankSelectRows, RankZadd, RankHset,
    rop_zset_zrevrange, RankHget, RankScore, Accept, At, Moves, TypeOK, ProcOK

(* Before and after a step of p every other process is idle. *)
Solo(p) == \A q \in Cgis \ {p} : pc[q] = "idle" /\ pc'[q] = "idle"

(* A step of p while no other process works leaves p at most alone. *)
LEMMA AloneKept ==
    ASSUME ProcOK, ProcOK', Alone, NEW p \in Cgis, Others(p),
           Arrives(p) => AllIdle
    PROVE  /\ Alone'
           /\ Moves(p) => Solo(p)
<1>a. pc[p] # "idle" => Solo(p)
  BY DEF Alone, Others, Solo, Working, At
<1>b. pc[p] = "idle" /\ pc'[p] # "idle" => Solo(p)
  <2>1. pc'[p] # "idle" => req'[p] # NoReq
    BY DEF ProcOK
  <2> QED
    BY <2>1 DEF Others, Arrives, AllIdle, Solo, At
<1>1. Moves(p) => Solo(p)
  BY <1>a, <1>b DEF Moves
<1>2. CASE pc'[p] # "idle"
  BY <1>1, <1>2 DEF Moves, Alone, Solo, Working, At
<1>3. CASE pc'[p] = "idle"
  BY <1>1, <1>3 DEF Alone, Others, Working, At
<1> QED
  BY <1>1, <1>2, <1>3

-----------------------------------------------------------------------------
Balanced == Books /\ \A p \in Cgis : Knows(p)

(* A request comes when every service is idle, and is one that is offered. *)
Comes(p) == Arrives(p) => AllIdle /\ Offered(req'[p])

-----------------------------------------------------------------------------
(* Which process a step is of. *)
ServiceStep(p) ==
    \/ p = "upload" /\ UploadStep
    \/ p = "md5" /\ Md5Step
    \/ p = D /\ DealFileStep
    \/ p = S /\ DealShareStep
    \/ p = R /\ ShareFilesStep

(* A step of a service moves no other process. *)
LEMMA ServiceFrame ==
    ASSUME TypeOK, NEW p \in Cgis, ServiceStep(p)
    PROVE  Others(p)
  BY UploadFrame, Md5Frame, DealFileFrame, DealShareFrame, ShareFilesFrame
     DEF TypeOK, ServiceStep, UploadStep, Md5Step, DealFileStep, DealShareStep,
         ShareFilesStep

(* The steps of a serial behaviour. *)
LEMMA SerialCases ==
    ASSUME TypeOK, [SerialNext]_vars
    PROVE  \/ \E p \in Cgis : ServiceStep(p) /\ Comes(p)
           \/ \E p \in Cgis : Kill(p)
           \/ RedisLoss /\ AllIdle
           \/ UNCHANGED vars
<1>1. CASE UNCHANGED vars
  BY <1>1
<1>2. CASE SerialNext
  <2>1. Next /\ \A p \in Cgis : Comes(p)
    BY <1>2 DEF SerialNext, OneAtATimeNext, Comes
  <2>2. RedisLoss => redisLosses' # redisLosses
    BY SMT, BoundsAssumption DEF RedisLoss, TypeOK, EnvOK
  <2>3. (\E p \in Cgis : ServiceStep(p)) \/ (\E p \in Cgis : Kill(p))
           \/ RedisLoss \/ UNCHANGED vars
    BY <2>1, ServiceLabels DEF Next, ServiceStep, ClientsDone
  <2> QED
    BY <2>1, <2>2, <2>3, <1>2 DEF SerialNext
<1> QED
  BY <1>1, <1>2

(* When del_file drops the row of a digest, no user has it. *)
UnreferencedWhenGone ==
    At(D, "de_drop") => \A x \in user_file_list : x.md5 # req[D].md5

(* What the books say of single rows: a user has only digests that are held, *)
(* a request that has counted its reference finds the row of its digest, and *)
(* nobody has a digest whose row is being dropped.                           *)
Counted ==
    /\ \A r \in Request : OwnRows(r) # {} => file_info[r.md5] # NoRow
    /\ \A p \in Cgis : pc[p] \in RefAhead /\ req[p] \in Request =>
          file_info[req[p].md5] # NoRow
    /\ UnreferencedWhenGone

===========================================================================
