-------------------------- MODULE ServiceProofs --------------------------
(*************************************************************************)
(* The step lemmas behind the theorems of HfdfsProofs.  First, for any   *)
(* interleaving, the counters and the shares: a user's row in            *)
(* user_file_count holds at least 1, a reference count of 0 is seen only *)
(* while del_file is about to delete the row, no file is shared twice while *)
(* no statement fails, and a download counter never goes down.  What a   *)
(* handler writes rests on what it has read or looked up by an earlier   *)
(* statement, so the invariants say what that was.  Then, for requests that *)
(* come one at a time: the copy of the shares in Redis, the answers users *)
(* get, and the abstract library the services implement.                 *)
(*************************************************************************)
EXTENDS StepFacts

(* a leaf is left to Zenon unless it cites another prover *)
USE Zenon

(* p, about to write back a count it has read as a number, has read >= 1. *)
ReadPositive(p, label) == At(p, label) /\ tmp[p] \in Int => tmp[p] >= 1

(***************************************************************************)
(* The inductive invariant of UserCountPositive: the three services that   *)
(* add a file and del_file have read positive counts.                      *)
(***************************************************************************)
CountInv ==
    /\ UserCountPositive
    /\ ReadPositive("upload", "up_wrcnt")
    /\ ReadPositive("md5", "md_wrcnt")
    /\ ReadPositive(S, "sv_wrcnt")
    /\ ReadPositive(D, "de_ucwr")

(* Writing a count back plus one leaves every user's count positive. *)
LEMMA BumpPositive ==
    ASSUME TypeOK, UserCountPositive, NEW p \in Cgis, NEW k \in CountKeys,
           k \in Users /\ tmp[p] \in Int => tmp[p] >= 1,
           user_file_count' = CountAfterBump(p, k)
    PROVE  UserCountPositive'
<1>1. user_file_count \in [CountKeys -> Int \cup {NoRow}]
  BY DEF TypeOK, DataOK
<1>2. tmp[p] \in Int \cup {NoRow, Failed}
  BY DEF TypeOK, ProcOK
<1>3. SUFFICES ASSUME NEW u \in Users, user_file_count'[u] # NoRow
               PROVE  user_file_count'[u] >= 1
  BY DEF UserCountPositive
<1>4. u \in CountKeys
  BY DEF CountKeys
<1>5. CASE u # k
  BY <1>1, <1>3, <1>4, <1>5 DEF CountAfterBump, UserCountPositive
<1>6. CASE u = k
  BY SMT, <1>1, <1>2, <1>3, <1>4, <1>6 DEF CountAfterBump, UserCountPositive
<1> QED
  BY <1>5, <1>6

(* What a SELECT of a user's count returned, if a number, is positive. *)
LEMMA SelectPositive ==
    ASSUME TypeOK, UserCountPositive, NEW p \in Cgis, NEW u \in Users,
           SelectCount(p, u), tmp'[p] \in Int
    PROVE  tmp'[p] >= 1
  BY NullAssumption DEF SelectCount, TypeOK, ProcOK, UserCountPositive

(* upload_cgi.c keeps the counts positive. *)
LEMMA UploadCount ==
    ASSUME TypeOK, CountInv, UploadNext
    PROVE  UserCountPositive' /\ ReadPositive("upload", "up_wrcnt")'
<1> DEFINE p == "upload"
<1>a. p \in Cgis
  BY ServiceLabels
<1>b. ~At(p, "idle") => req[p].user \in Users /\ req[p].user \in CountKeys
  BY <1>a, RequestType DEF TypeOK
<1>1. CASE UploadSelectCount
  <2>1. tmp'[p] \in Int => tmp'[p] >= 1
    BY <1>1, <1>a, <1>b, SelectPositive DEF UploadSelectCount, CountInv, At
  <2> QED
    BY <1>1, <2>1
       DEF UploadSelectCount, CountInv, UserCountPositive, ReadPositive, sqlVars
<1>2. CASE UploadWriteCount
  <2>1. pc'[p] = "idle"
    BY <1>2, <1>a DEF UploadWriteCount, Finish, TypeOK, ProcOK
  <2>2. UserCountPositive'
    BY <1>2, <1>a, <1>b, BumpPositive
       DEF UploadWriteCount, CountInv, ReadPositive, UserCountPositive, At
  <2> QED
    BY <2>1, <2>2 DEF ReadPositive, At
<1>3. CASE UploadError
  <2>1. pc'[p] = "idle" \/ tmp'[p] = Failed
    BY <1>3, <1>a DEF UploadError, Finish, TypeOK, ProcOK
  <2> QED
    BY <1>3, <2>1, NullAssumption DEF UploadError, SqlErrs, sqlVars, CountInv,
       UserCountPositive, ReadPositive, At
<1>4. CASE UploadAccept \/ upload_to_dstorage \/ UploadInsertInfo
           \/ UploadInsertRow
  <2>1. pc'[p] # "up_wrcnt"
    BY <1>4, <1>a DEF UploadAccept, upload_to_dstorage, UploadInsertInfo,
       UploadInsertRow, Accept, Goto, Finish, TypeOK, ProcOK
  <2>2. UNCHANGED user_file_count
    BY <1>4 DEF UploadAccept, upload_to_dstorage, UploadInsertInfo,
       UploadInsertRow, Accept, sqlVars
  <2> QED
    BY <2>1, <2>2 DEF CountInv, UserCountPositive, ReadPositive, At
<1> QED
  BY <1>1, <1>2, <1>3, <1>4 DEF UploadNext

(* md5_cgi.c keeps the counts positive. *)
LEMMA Md5Count ==
    ASSUME TypeOK, CountInv, Md5Next
    PROVE  UserCountPositive' /\ ReadPositive("md5", "md_wrcnt")'
<1> DEFINE p == "md5"
<1>a. p \in Cgis
  BY ServiceLabels
<1>b. ~At(p, "idle") => req[p].user \in Users /\ req[p].user \in CountKeys
  BY <1>a, RequestType DEF TypeOK
<1>1. CASE Md5SelectCount
  <2>1. tmp'[p] \in Int => tmp'[p] >= 1
    BY <1>1, <1>a, <1>b, SelectPositive DEF Md5SelectCount, CountInv, At
  <2> QED
    BY <1>1, <2>1
       DEF Md5SelectCount, CountInv, UserCountPositive, ReadPositive, sqlVars
<1>2. CASE Md5WriteCount
  <2>1. pc'[p] = "idle"
    BY <1>2, <1>a DEF Md5WriteCount, Finish, TypeOK, ProcOK
  <2>2. UserCountPositive'
    BY <1>2, <1>a, <1>b, BumpPositive
       DEF Md5WriteCount, CountInv, ReadPositive, UserCountPositive, At
  <2> QED
    BY <2>1, <2>2 DEF ReadPositive, At
<1>3. CASE Md5Error
  <2>1. pc'[p] # "md_wrcnt" \/ tmp'[p] = Failed
    BY <1>3, <1>a DEF Md5Error, Finish, Goto, TypeOK, ProcOK
  <2> QED
    BY <1>3, <2>1, NullAssumption DEF Md5Error, SqlErrs, sqlVars, CountInv,
       UserCountPositive, ReadPositive, At
<1>4. CASE Md5Accept \/ Refuse(p) \/ Md5SelectInfo \/ Md5SelectOwned
           \/ Md5UpdateInfo \/ Md5InsertRow
  <2>1. pc'[p] # "md_wrcnt"
    BY <1>4, <1>a DEF Md5Accept, Md5SelectInfo, Md5SelectOwned, Md5UpdateInfo,
       Md5InsertRow, Accept, Refuse, Goto, Finish, At, TypeOK, ProcOK
  <2>2. UNCHANGED user_file_count
    BY <1>4 DEF Md5Accept, Md5SelectInfo, Md5SelectOwned, Md5UpdateInfo,
       Md5InsertRow, Accept, Refuse, sqlVars
  <2> QED
    BY <2>1, <2>2 DEF CountInv, UserCountPositive, ReadPositive, At
<1> QED
  BY <1>1, <1>2, <1>3, <1>4 DEF Md5Next

(***************************************************************************)
(* dealfile_cgi.c keeps the counts positive: share_file writes the share   *)
(* counter only, del_file deletes a user's row instead of writing 0.       *)
(***************************************************************************)
LEMMA DealFileCount ==
    ASSUME TypeOK, CountInv, DealFileNext
    PROVE  UserCountPositive' /\ ReadPositive(D, "de_ucwr")'
<1>a. D \in Cgis
  BY ServiceLabels
<1>b. ~At(D, "idle") => req[D].user \in Users /\ req[D].user \in CountKeys
  BY <1>a, RequestType DEF TypeOK
<1>c. ShareKey \in CountKeys /\ ShareKey \notin Users
  BY KeyAssumption DEF CountKeys
<1>1. CASE ShareNext
  <2>1. pc'[D] # "de_ucwr"
    BY <1>1, <1>a DEF ShareNext, ShareAccept, ShareAskRedis, ShareSelect,
      ShareRepair, ShareSetStatus, ShareInsert, ShareSelectCount,
      ShareWriteCount, ShareZadd, ShareHset, ShareError, Goto, Finish, Accept,
      TypeOK, ProcOK
  <2>2. CASE ShareWriteCount
    <3>1. UserCountPositive'
      BY <2>2, <1>a, <1>c, BumpPositive DEF ShareWriteCount, CountInv
    <3> QED
      BY <2>1, <3>1 DEF ReadPositive, At
  <2>3. CASE ~ShareWriteCount
    <3>1. UNCHANGED user_file_count
      BY <1>1, <2>3 DEF ShareNext, ShareAccept, ShareAskRedis, ShareSelect,
        ShareRepair, ShareSetStatus, ShareInsert, ShareSelectCount, ShareZadd,
        ShareHset, ShareError, SqlErrs, Accept, sqlVars
    <3> QED
      BY <2>1, <3>1 DEF CountInv, UserCountPositive, ReadPositive, At
  <2> QED
    BY <2>2, <2>3
<1>2. CASE DelSelectUserCount
  <2>1. CASE user_file_count[req[D].user] = NoRow
    <3>1. pc'[D] = "idle" /\ UNCHANGED user_file_count
      BY <1>2, <1>a, <2>1
         DEF DelSelectUserCount, Finish, sqlVars, TypeOK, ProcOK
    <3> QED
      BY <3>1 DEF CountInv, UserCountPositive, ReadPositive, At
  <2>2. CASE user_file_count[req[D].user] # NoRow
    <3>1. SelectCount(D, req[D].user) /\ UNCHANGED user_file_count
      BY <1>2, <2>2 DEF DelSelectUserCount, sqlVars
    <3>2. tmp'[D] \in Int => tmp'[D] >= 1
      BY <1>2, <1>a, <1>b, <3>1, SelectPositive
         DEF DelSelectUserCount, CountInv, At
    <3> QED
      BY <3>1, <3>2 DEF CountInv, UserCountPositive, ReadPositive
  <2> QED
    BY <2>1, <2>2
<1>3. CASE DelWriteUserCount
  <2>1. pc'[D] = "de_row"
    BY <1>3, <1>a DEF DelWriteUserCount, Goto, TypeOK, ProcOK
  <2>2. tmp[D] \in Int /\ tmp[D] >= 1
    BY <1>3, <1>a DEF DelWriteUserCount, At, CountInv, ReadPositive, TypeOK,
      ProcOK, NumLabels
  <2>3. user_file_count \in [CountKeys -> Int \cup {NoRow}]
    BY DEF TypeOK, DataOK
  <2>4. \A v \in Users : v \in CountKeys
    BY DEF CountKeys
  <2>5. UserCountPositive'
    BY SMT, <1>3, <1>b, <2>2, <2>3, <2>4
       DEF DelWriteUserCount, CountInv, UserCountPositive, At
  <2> QED
    BY <2>1, <2>5 DEF ReadPositive, At
<1>4. CASE DelWriteShareCount
  <2>1. pc'[D] # "de_ucwr"
    BY <1>4, <1>a DEF DelWriteShareCount, Goto, TypeOK, ProcOK
  <2>2. \A v \in Users : user_file_count'[v] = user_file_count[v]
    BY <1>4, <1>c DEF DelWriteShareCount, TypeOK, DataOK, CountKeys
  <2> QED
    BY <2>1, <2>2 DEF CountInv, UserCountPositive, ReadPositive, At
<1>5. CASE DelNext /\ ~DelSelectUserCount /\ ~DelWriteUserCount
           /\ ~DelWriteShareCount
  <2>1. pc'[D] # "de_ucwr"
    BY <1>5, <1>a DEF DelNext, DelAccept, DelAskRedis, DelSelectStatus,
      DelDeleteShare, DelSelectShareCount, DelZrem, DelHdel, DelDeleteRow,
      DelSelectInfo, DelUpdateInfo, DelSelectFileId, DelDeleteInfo,
      remove_file_from_storage, DelError, Goto, Finish, Accept, TypeOK, ProcOK
  <2>2. UNCHANGED user_file_count
    BY <1>5 DEF DelNext, DelAccept, DelAskRedis, DelSelectStatus,
      DelDeleteShare, DelSelectShareCount, DelZrem, DelHdel, DelDeleteRow,
      DelSelectInfo, DelUpdateInfo, DelSelectFileId, DelDeleteInfo,
      remove_file_from_storage, DelError, SqlErrs, Accept, sqlVars
  <2> QED
    BY <2>1, <2>2 DEF CountInv, UserCountPositive, ReadPositive, At
<1>6. CASE PvNext \/ DealFileRefuse
  <2>1. pc'[D] # "de_ucwr"
    BY <1>6, <1>a DEF PvNext, PvAccept, PvSelect, PvUpdate, PvError,
      DealFileRefuse, Refuse, Goto, Finish, Accept, At, TypeOK, ProcOK
  <2>2. UNCHANGED user_file_count
    BY <1>6 DEF PvNext, PvAccept, PvSelect, PvUpdate, PvError, DealFileRefuse,
      Refuse, SqlErrs, Accept, sqlVars
  <2> QED
    BY <2>1, <2>2 DEF CountInv, UserCountPositive, ReadPositive, At
<1> QED
  BY <1>1, <1>2, <1>3, <1>4, <1>5, <1>6 DEF DealFileNext, DelNext

(***************************************************************************)
(* dealsharefile_cgi.c keeps the counts positive: only save_file writes a  *)
(* user's row.                                                             *)
(***************************************************************************)
LEMMA DealShareCount ==
    ASSUME TypeOK, CountInv, DealShareFileNext
    PROVE  UserCountPositive' /\ ReadPositive(S, "sv_wrcnt")'
<1>a. S \in Cgis
  BY ServiceLabels
<1>b. ~At(S, "idle") => req[S].user \in Users /\ req[S].user \in CountKeys
  BY <1>a, RequestType DEF TypeOK
<1>1. CASE SaveSelectCount
  <2>1. tmp'[S] \in Int => tmp'[S] >= 1
    BY <1>1, <1>a, <1>b, SelectPositive DEF SaveSelectCount, CountInv, At
  <2> QED
    BY <1>1, <2>1
       DEF SaveSelectCount, CountInv, UserCountPositive, ReadPositive, sqlVars
<1>2. CASE SaveWriteCount
  <2>1. pc'[S] = "idle"
    BY <1>2, <1>a DEF SaveWriteCount, Finish, TypeOK, ProcOK
  <2>2. UserCountPositive'
    BY <1>2, <1>a, <1>b, BumpPositive
       DEF SaveWriteCount, CountInv, ReadPositive, UserCountPositive, At
  <2> QED
    BY <2>1, <2>2 DEF ReadPositive, At
<1>3. CASE SaveError
  <2>1. pc'[S] # "sv_wrcnt" \/ tmp'[S] = Failed
    BY <1>3, <1>a DEF SaveError, Finish, Goto, TypeOK, ProcOK
  <2> QED
    BY <1>3, <2>1, NullAssumption DEF SaveError, SqlErrs, sqlVars, CountInv,
       UserCountPositive, ReadPositive, At
<1>4. CASE SaveAccept \/ SaveSelectOwned \/ SaveSelectInfo \/ SaveUpdateInfo
           \/ SaveInsertRow
  <2>1. pc'[S] # "sv_wrcnt"
    BY <1>4, <1>a DEF SaveAccept, SaveSelectOwned, SaveSelectInfo,
      SaveUpdateInfo, SaveInsertRow, Accept, Goto, Finish, TypeOK, ProcOK
  <2>2. UNCHANGED user_file_count
    BY <1>4 DEF SaveAccept, SaveSelectOwned, SaveSelectInfo, SaveUpdateInfo,
      SaveInsertRow, Accept, sqlVars
  <2> QED
    BY <2>1, <2>2 DEF CountInv, UserCountPositive, ReadPositive, At
<1>5. CASE CancelWriteCount
  <2>1. pc'[S] # "sv_wrcnt"
    BY <1>5, <1>a DEF CancelWriteCount, Goto, TypeOK, ProcOK
  <2>2. \A v \in Users : user_file_count'[v] = user_file_count[v]
    BY <1>5, KeyAssumption DEF CancelWriteCount, TypeOK, DataOK, CountKeys
  <2> QED
    BY <2>1, <2>2 DEF CountInv, UserCountPositive, ReadPositive, At
<1>6. CASE (CancelNext /\ ~CancelWriteCount) \/ SharePvNext
  <2>1. pc'[S] # "sv_wrcnt"
    BY <1>6, <1>a DEF CancelNext, CancelAccept, CancelClearStatus,
      CancelSelectCount, CancelDeleteShare, CancelZrem, CancelHdel, CancelError,
      SharePvNext, SharePvAccept, SharePvSelect, SharePvUpdate,
      SharePvAskRedis, rop_zset_increment, SharePvZadd, SharePvHset,
      SharePvError, Accept, Goto, Finish, TypeOK, ProcOK
  <2>2. UNCHANGED user_file_count
    BY <1>6 DEF CancelNext, CancelAccept, CancelClearStatus, CancelSelectCount,
      CancelDeleteShare, CancelZrem, CancelHdel, CancelError, SharePvNext,
      SharePvAccept, SharePvSelect, SharePvUpdate, SharePvAskRedis,
      rop_zset_increment, SharePvZadd, SharePvHset, SharePvError, SqlErrs,
      Accept, sqlVars
  <2> QED
    BY <2>1, <2>2 DEF CountInv, UserCountPositive, ReadPositive, At
<1> QED
  BY <1>1, <1>2, <1>3, <1>4, <1>5, <1>6 DEF DealShareFileNext, SaveNext

(* A step that leaves user_file_count and process p alone keeps p's part. *)
LEMMA ReadKept ==
    ASSUME NEW p \in Cgis, NEW q \in Cgis \ {p}, NEW label, Others(p),
           ReadPositive(q, label)
    PROVE  ReadPositive(q, label)'
  BY DEF Others, ReadPositive, At

(* Every step keeps CountInv. *)
LEMMA CountStep ==
    ASSUME TypeOK, CountInv, [Next]_vars
    PROVE  CountInv'
<1>a. /\ {"upload", "md5", D, S, R} \subseteq Cgis
      /\ "upload" # "md5" /\ "upload" # D /\ "upload" # S /\ "upload" # R
      /\ "md5" # D /\ "md5" # S /\ "md5" # R /\ D # S /\ D # R /\ S # R
  BY ServiceLabels DEF D, S, R
<1>1. CASE UploadStep
  BY <1>1, <1>a, UploadCount, UploadFrame, ReadKept
     DEF UploadStep, CountInv, TypeOK
<1>2. CASE Md5Step
  BY <1>2, <1>a, Md5Count, Md5Frame, ReadKept DEF Md5Step, CountInv, TypeOK
<1>3. CASE DealFileStep
  BY <1>3, <1>a, DealFileCount, DealFileFrame, ReadKept
     DEF DealFileStep, CountInv, TypeOK
<1>4. CASE DealShareStep
  BY <1>4, <1>a, DealShareCount, DealShareFrame, ReadKept
     DEF DealShareStep, CountInv, TypeOK
<1>5. CASE ShareFilesStep
  <2>1. UNCHANGED user_file_count
    BY <1>5 DEF ShareFilesStep, ShareFilesNext, RankAccept, RankSelectCount,
      RankZcard, RankDelZset, RankDelHash, RankSelectRows, RankZadd, RankHset,
      rop_zset_zrevrange, RankHget, RankScore, RankError, SqlErrs, Accept,
      sqlVars
  <2> QED
    BY <1>5, <1>a, <2>1, ShareFilesFrame, ReadKept
       DEF ShareFilesStep, CountInv, UserCountPositive, TypeOK
<1>6. CASE \E p \in Cgis : Kill(p)
  <2>1. PICK p \in Cgis : Kill(p)
    BY <1>6
  <2>2. UNCHANGED user_file_count
    BY <2>1 DEF Kill, sqlVars
  <2>3. pc'[p] = "idle" /\ Others(p)
    BY <2>1 DEF Kill, Finish, Others, TypeOK, ProcOK
  <2>4. \A label : label # "idle" => ReadPositive(p, label)'
    BY <2>3 DEF ReadPositive, At
  <2> QED
    BY SMT, <1>a, <2>2, <2>3, <2>4, ReadKept DEF CountInv, UserCountPositive
<1>7. CASE RedisLoss \/ UNCHANGED vars
  <2>1. UNCHANGED <<user_file_count, pc, tmp>>
    BY <1>7 DEF RedisLoss, vars, stateVars, sqlVars, procVars
  <2> QED
    BY <2>1 DEF CountInv, UserCountPositive, ReadPositive, At
<1> QED
  BY <1>1, <1>2, <1>3, <1>4, <1>5, <1>6, <1>7 DEF Next, ClientsDone

-----------------------------------------------------------------------------
(***************************************************************************)
(* Reference counts, as long as no statement fails and nothing is killed:  *)
(* an instant upload and a copy have read a count that is not negative,    *)
(* del_file, which alone may see a row go to 0, has read at least 1.       *)
(***************************************************************************)
RefCountInv ==
    /\ ZeroCountOnlyWhileDeleting
    /\ NoFault =>
          /\ pc["md5"] \in {"md_owned", "md_inc"} => tmp["md5"] >= 0
          /\ At(S, "sv_inc") => tmp[S] >= 0
          /\ At(D, "de_dec") => tmp[D] >= 1

(* A row that is not being deleted counts at least 1, any row at least 0. *)
LEMMA CountsInRows ==
    ASSUME TypeOK, RefCountInv, NoFault, NEW m \in Md5s, file_info[m] # NoRow
    PROVE  /\ file_info[m].count \in Int /\ file_info[m].count >= 0
           /\ ~Deleting(m) => file_info[m].count >= 1
<1>1. file_info[m] \in InfoRow
  BY DEF TypeOK, DataOK
<1> QED
  BY SMT, <1>1 DEF RefCountInv, ZeroCountOnlyWhileDeleting, NoFault, InfoRow

(* Where nothing is being deleted, only positive counts are written. *)
LEMMA PositiveWrite ==
    ASSUME TypeOK, RefCountInv, NoFault, NEW k \in Md5s, NEW n \in Int, n >= 1,
           UpdateInfoCount(k, n),
           \A m \in Md5s : Deleting(m) => Deleting(m)'
    PROVE  ZeroCountOnlyWhileDeleting'
<1>1. SUFFICES ASSUME NEW m \in Md5s, file_info'[m] # NoRow
               PROVE  \/ file_info'[m].count >= 1
                      \/ file_info'[m].count = 0 /\ Deleting(m)'
  BY DEF ZeroCountOnlyWhileDeleting
<1>2. CASE m # k \/ file_info[k] = NoRow
  <2>1. file_info'[m] = file_info[m]
    BY <1>2 DEF UpdateInfoCount, TypeOK, DataOK
  <2> QED
    BY <1>1, <2>1 DEF RefCountInv, ZeroCountOnlyWhileDeleting, NoFault
<1>3. CASE m = k /\ file_info[k] # NoRow
  <2>1. file_info'[m] = [file_id |-> file_info[k].file_id, count |-> n]
    BY <1>3 DEF UpdateInfoCount, TypeOK, DataOK
  <2> QED
    BY SMT, <2>1
<1> QED
  BY <1>2, <1>3

(* A step that leaves file_info and del_file alone keeps the rows' counts. *)
LEMMA CountsKept ==
    ASSUME TypeOK, RefCountInv, NoFault, UNCHANGED file_info,
           \A m \in Md5s : Deleting(m) => Deleting(m)'
    PROVE  ZeroCountOnlyWhileDeleting'
  BY DEF RefCountInv, ZeroCountOnlyWhileDeleting, NoFault

(* A step of a process other than D leaves a delete in hand where it is. *)
LEMMA DeletingKept ==
    ASSUME NEW p \in Cgis, p # D, D \in Cgis, Others(p)
    PROVE  \A m \in Md5s : Deleting(m)' <=> Deleting(m)
  BY DEF Others, Deleting

(* upload_cgi.c inserts rows with count 1. *)
LEMMA UploadRef ==
    ASSUME TypeOK, RefCountInv, UploadNext, NoFault
    PROVE  ZeroCountOnlyWhileDeleting'
<1>a. "upload" \in Cgis /\ D \in Cgis /\ "upload" # D
  BY ServiceLabels DEF D
<1>b. \A m \in Md5s : Deleting(m)' <=> Deleting(m)
  BY <1>a, UploadFrame, DeletingKept DEF TypeOK
<1>1. CASE UploadInsertInfo
  <2> DEFINE k == req["upload"].md5
             row == [file_id |-> fileid, count |-> 1]
  <2>1. k \in Md5s
    BY <1>1, <1>a, RequestType DEF UploadInsertInfo, At, TypeOK
  <2>2. \A m \in Md5s : file_info'[m] = file_info[m] \/ file_info'[m] = row
    BY <1>1, <2>1 DEF UploadInsertInfo, TypeOK, DataOK
  <2>3. row.count >= 1
    BY SMT
  <2> QED
    BY <1>b, <2>2, <2>3 DEF RefCountInv, ZeroCountOnlyWhileDeleting, NoFault
<1>2. CASE ~UploadInsertInfo
  <2>1. UNCHANGED file_info
    BY <1>2 DEF UploadNext, UploadAccept, upload_to_dstorage, UploadInsertRow,
      UploadSelectCount, UploadWriteCount, UploadError, SqlErrs, Accept, sqlVars
  <2> QED
    BY <1>b, <2>1, CountsKept
<1> QED
  BY <1>1, <1>2

(* deal_md5 writes back a count of at least 1. *)
LEMMA Md5Ref ==
    ASSUME TypeOK, RefCountInv, Md5Next, NoFault, NoFault'
    PROVE  /\ ZeroCountOnlyWhileDeleting'
           /\ pc'["md5"] \in {"md_owned", "md_inc"} => tmp'["md5"] >= 0
<1> DEFINE p == "md5"
<1>a. p \in Cgis /\ D \in Cgis /\ p # D
  BY ServiceLabels DEF D
<1>b. \A m \in Md5s : Deleting(m)' <=> Deleting(m)
  BY <1>a, Md5Frame, DeletingKept DEF TypeOK
<1>c. ~At(p, "idle") => req[p].md5 \in Md5s
  BY <1>a, RequestType DEF TypeOK
<1>1. CASE Md5SelectInfo
  <2>1. UNCHANGED file_info
    BY <1>1 DEF Md5SelectInfo, sqlVars
  <2>2. CASE file_info[req[p].md5] = NoRow
    <3>1. pc'[p] = "idle"
      BY <1>1, <1>a, <2>2 DEF Md5SelectInfo, Finish, TypeOK, ProcOK
    <3> QED
      BY <1>b, <2>1, <3>1, CountsKept
  <2>3. CASE file_info[req[p].md5] # NoRow
    <3>1. tmp'[p] = file_info[req[p].md5].count
      BY <1>1, <1>a, <2>3 DEF Md5SelectInfo, TypeOK, ProcOK
    <3>2. tmp'[p] >= 0
      BY <1>1, <1>c, <2>3, <3>1, CountsInRows DEF Md5SelectInfo, At
    <3> QED
      BY <1>b, <2>1, <3>2, CountsKept
  <2> QED
    BY <2>2, <2>3
<1>2. CASE Md5UpdateInfo
  <2>1. tmp[p] \in Int /\ tmp[p] >= 0 /\ req[p].md5 \in Md5s
    BY <1>2, <1>a, <1>c
       DEF Md5UpdateInfo, At, RefCountInv, TypeOK, ProcOK, NumLabels
  <2>2. tmp[p] + 1 \in Int /\ tmp[p] + 1 >= 1
    BY SMT, <2>1
  <2>3. UpdateInfoCount(req[p].md5, tmp[p] + 1)
    BY <1>2 DEF Md5UpdateInfo
  <2>4. ZeroCountOnlyWhileDeleting'
    BY <1>b, <2>1, <2>2, <2>3, PositiveWrite
  <2>5. pc'[p] = "md_row"
    BY <1>2, <1>a DEF Md5UpdateInfo, Goto, TypeOK, ProcOK
  <2> QED
    BY <2>4, <2>5
<1>3. CASE ~Md5SelectInfo /\ ~Md5UpdateInfo
  <2>1. ~Md5Error
    BY SMT DEF Md5Error, SqlErrs, NoFault
  <2>2. UNCHANGED file_info
    BY <1>3, <2>1 DEF Md5Next, Md5Accept, Md5SelectOwned, Md5InsertRow,
      Md5SelectCount, Md5WriteCount, Accept, Refuse, sqlVars
  <2>3. pc'[p] \in {"md_owned", "md_inc"} =>
           At(p, "md_owned") /\ tmp'[p] = tmp[p]
    BY <1>3, <2>1, <1>a DEF Md5Next, Md5Accept, Md5SelectOwned, Md5InsertRow,
      Md5SelectCount, Md5WriteCount, Accept, Refuse, Goto, Finish, At, TypeOK,
      ProcOK
  <2>4. pc'[p] \in {"md_owned", "md_inc"} => tmp'[p] >= 0
    BY <2>3 DEF RefCountInv, At
  <2> QED
    BY <1>b, <2>2, <2>4, CountsKept
<1> QED
  BY <1>1, <1>2, <1>3

(* save_file writes back a count of at least 1. *)
LEMMA DealShareRef ==
    ASSUME TypeOK, RefCountInv, DealShareFileNext, NoFault, NoFault'
    PROVE  /\ ZeroCountOnlyWhileDeleting'
           /\ At(S, "sv_inc")' => tmp'[S] >= 0
<1>a. S \in Cgis /\ D \in Cgis /\ S # D
  BY ServiceLabels DEF D, S
<1>b. \A m \in Md5s : Deleting(m)' <=> Deleting(m)
  BY <1>a, DealShareFrame, DeletingKept DEF TypeOK
<1>c. ~At(S, "idle") => req[S].md5 \in Md5s
  BY <1>a, RequestType DEF TypeOK
<1>1. CASE SaveSelectInfo
  <2>1. UNCHANGED file_info
    BY <1>1 DEF SaveSelectInfo, sqlVars
  <2>2. CASE file_info[req[S].md5] = NoRow
    <3>1. pc'[S] = "idle"
      BY <1>1, <1>a, <2>2 DEF SaveSelectInfo, Finish, TypeOK, ProcOK
    <3> QED
      BY <1>b, <2>1, <3>1, CountsKept DEF At
  <2>3. CASE file_info[req[S].md5] # NoRow
    <3>1. tmp'[S] = file_info[req[S].md5].count
      BY <1>1, <1>a, <2>3 DEF SaveSelectInfo, TypeOK, ProcOK
    <3>2. tmp'[S] >= 0
      BY <1>1, <1>c, <2>3, <3>1, CountsInRows DEF SaveSelectInfo, At
    <3> QED
      BY <1>b, <2>1, <3>2, CountsKept
  <2> QED
    BY <2>2, <2>3
<1>2. CASE SaveUpdateInfo
  <2>1. tmp[S] \in Int /\ tmp[S] >= 0 /\ req[S].md5 \in Md5s
    BY <1>2, <1>a, <1>c
       DEF SaveUpdateInfo, At, RefCountInv, TypeOK, ProcOK, NumLabels
  <2>2. tmp[S] + 1 \in Int /\ tmp[S] + 1 >= 1
    BY SMT, <2>1
  <2>3. UpdateInfoCount(req[S].md5, tmp[S] + 1)
    BY <1>2 DEF SaveUpdateInfo
  <2>4. ZeroCountOnlyWhileDeleting'
    BY <1>b, <2>1, <2>2, <2>3, PositiveWrite
  <2>5. pc'[S] = "sv_row"
    BY <1>2, <1>a DEF SaveUpdateInfo, Goto, TypeOK, ProcOK
  <2> QED
    BY <2>4, <2>5 DEF At
<1>3. CASE ~SaveSelectInfo /\ ~SaveUpdateInfo
  <2>1. ~SaveError
    BY SMT DEF SaveError, SqlErrs, NoFault
  <2>2. UNCHANGED file_info
    BY <1>3, <2>1 DEF DealShareFileNext, SaveNext, SaveAccept, SaveSelectOwned,
      SaveInsertRow, SaveSelectCount, SaveWriteCount, CancelNext, CancelAccept,
      CancelClearStatus, CancelSelectCount, CancelWriteCount,
      CancelDeleteShare, CancelZrem, CancelHdel, CancelError, SharePvNext,
      SharePvAccept, SharePvSelect, SharePvUpdate, SharePvAskRedis,
      rop_zset_increment, SharePvZadd, SharePvHset, SharePvError, SqlErrs,
      Accept, sqlVars
  <2>3. pc'[S] # "sv_inc"
    BY <1>3, <2>1, <1>a DEF DealShareFileNext, SaveNext, SaveAccept,
      SaveSelectOwned, SaveInsertRow, SaveSelectCount, SaveWriteCount,
      CancelNext, CancelAccept, CancelClearStatus, CancelSelectCount,
      CancelWriteCount, CancelDeleteShare, CancelZrem, CancelHdel, CancelError,
      SharePvNext, SharePvAccept, SharePvSelect, SharePvUpdate,
      SharePvAskRedis, rop_zset_increment, SharePvZadd, SharePvHset,
      SharePvError, Accept, Goto, Finish, TypeOK, ProcOK
  <2> QED
    BY <1>b, <2>2, <2>3, CountsKept DEF At
<1> QED
  BY <1>1, <1>2, <1>3

(* del_file writes back 0 only where it goes on to delete that row. *)
LEMMA DealFileRef ==
    ASSUME TypeOK, RefCountInv, DealFileNext, NoFault, NoFault'
    PROVE  /\ ZeroCountOnlyWhileDeleting'
           /\ At(D, "de_dec")' => tmp'[D] >= 1
<1> DEFINE k == req[D].md5
<1>a. D \in Cgis
  BY ServiceLabels
<1>b. ~At(D, "idle") => k \in Md5s
  BY <1>a, RequestType DEF TypeOK
<1>1. CASE DelSelectInfo
  <2>1. UNCHANGED file_info /\ \A m \in Md5s : ~Deleting(m)
    BY <1>1 DEF DelSelectInfo, Deleting, At, sqlVars
  <2>2. CASE file_info[k] = NoRow
    <3>1. pc'[D] = "idle"
      BY <1>1, <1>a, <2>2 DEF DelSelectInfo, Finish, TypeOK, ProcOK
    <3> QED
      BY <2>1, <3>1, CountsKept DEF At
  <2>3. CASE file_info[k] # NoRow
    <3>1. tmp'[D] = file_info[k].count
      BY <1>1, <1>a, <2>3 DEF DelSelectInfo, TypeOK, ProcOK
    <3>2. tmp'[D] >= 1
      BY <1>1, <1>b, <2>1, <2>3, <3>1, CountsInRows DEF DelSelectInfo, At
    <3> QED
      BY <2>1, <3>2, CountsKept
  <2> QED
    BY <2>2, <2>3
<1>2. CASE DelUpdateInfo
  <2>1. tmp[D] \in Int /\ tmp[D] >= 1 /\ k \in Md5s
    BY <1>2, <1>a, <1>b
       DEF DelUpdateInfo, At, RefCountInv, TypeOK, ProcOK, NumLabels
  <2>2. UpdateInfoCount(k, tmp[D] - 1) /\ \A m \in Md5s : ~Deleting(m)
    BY <1>2 DEF DelUpdateInfo, Deleting, At
  <2>3. CASE tmp[D] - 1 = 0
    <3>1. pc'[D] = "de_fid" /\ req' = req
      BY <1>2, <1>a, <2>3 DEF DelUpdateInfo, Goto, TypeOK, ProcOK
    <3>2. SUFFICES ASSUME NEW m \in Md5s, file_info'[m] # NoRow
                   PROVE  \/ file_info'[m].count >= 1
                          \/ file_info'[m].count = 0 /\ Deleting(m)'
      BY <3>1 DEF ZeroCountOnlyWhileDeleting, At
    <3>3. CASE m # k \/ file_info[k] = NoRow
      <4>1. file_info'[m] = file_info[m]
        BY <2>2, <3>3 DEF UpdateInfoCount, TypeOK, DataOK
      <4> QED
        BY <2>2, <3>2, <4>1, CountsInRows
    <3>4. CASE m = k /\ file_info[k] # NoRow
      <4>1. file_info'[m] = [file_id |-> file_info[k].file_id, count |-> 0]
        BY <2>1, <2>2, <2>3, <3>4 DEF UpdateInfoCount, TypeOK, DataOK
      <4> QED
        BY SMT, <3>1, <3>4, <4>1 DEF Deleting
    <3> QED
      BY <3>3, <3>4
  <2>4. CASE tmp[D] - 1 # 0
    <3>1. pc'[D] = "idle" /\ tmp[D] - 1 \in Int /\ tmp[D] - 1 >= 1
      BY SMT, <1>2, <1>a, <2>1, <2>4 DEF DelUpdateInfo, Finish, TypeOK, ProcOK
    <3> QED
      BY <2>1, <2>2, <3>1, PositiveWrite DEF At
  <2> QED
    BY <2>3, <2>4
<1>3. CASE DelSelectFileId
  <2>1. UNCHANGED <<file_info, req>> /\ pc'[D] = "de_drop"
    BY <1>3, <1>a DEF DelSelectFileId, Goto, sqlVars, TypeOK, ProcOK
  <2> QED
    BY <2>1, CountsKept DEF Deleting, At
<1>4. CASE DelDeleteInfo
  <2>1. /\ k \in Md5s /\ pc'[D] = "de_store"
        /\ file_info'[k] = NoRow
        /\ \A m \in Md5s \ {k} : file_info'[m] = file_info[m] /\ ~Deleting(m)
    BY <1>4, <1>a, <1>b
       DEF DelDeleteInfo, Goto, At, Deleting, TypeOK, ProcOK, DataOK
  <2>2. \A m \in Md5s : file_info'[m] # NoRow => file_info'[m].count >= 1
    BY <2>1, CountsInRows
  <2> QED
    BY <2>1, <2>2 DEF ZeroCountOnlyWhileDeleting, At
<1>5. CASE /\ DelNext /\ ~DelSelectInfo /\ ~DelUpdateInfo /\ ~DelSelectFileId
           /\ ~DelDeleteInfo
  <2>1. ~DelError
    BY SMT DEF DelError, SqlErrs, NoFault
  <2>2. UNCHANGED file_info /\ \A m \in Md5s : ~Deleting(m)
    BY <1>5, <2>1 DEF DelNext, DelAccept, DelAskRedis, DelSelectStatus,
      DelDeleteShare, DelSelectShareCount, DelWriteShareCount, DelZrem, DelHdel,
      DelSelectUserCount, DelWriteUserCount, DelDeleteRow,
      remove_file_from_storage, Accept, Deleting, At, sqlVars
  <2>3. pc'[D] # "de_dec"
    BY <1>5, <2>1, <1>a DEF DelNext, DelAccept, DelAskRedis, DelSelectStatus,
      DelDeleteShare, DelSelectShareCount, DelWriteShareCount, DelZrem, DelHdel,
      DelSelectUserCount, DelWriteUserCount, DelDeleteRow,
      remove_file_from_storage, Accept, Goto, Finish, TypeOK, ProcOK
  <2> QED
    BY <2>2, <2>3, CountsKept DEF At
<1>6. CASE ShareNext \/ PvNext \/ DealFileRefuse
  <2>1. UNCHANGED file_info /\ \A m \in Md5s : ~Deleting(m)
    BY <1>6 DEF ShareNext, ShareAccept, ShareAskRedis, ShareSelect, ShareRepair,
      ShareSetStatus, ShareInsert, ShareSelectCount, ShareWriteCount, ShareZadd,
      ShareHset, ShareError, PvNext, PvAccept, PvSelect, PvUpdate, PvError,
      DealFileRefuse, Refuse, SqlErrs, Accept, Deleting, At, sqlVars
  <2>2. pc'[D] # "de_dec"
    BY <1>6, <1>a DEF ShareNext, ShareAccept, ShareAskRedis, ShareSelect,
      ShareRepair, ShareSetStatus, ShareInsert, ShareSelectCount,
      ShareWriteCount, ShareZadd, ShareHset, ShareError, PvNext, PvAccept,
      PvSelect, PvUpdate, PvError, DealFileRefuse, Refuse, Accept, Goto, Finish,
      At, TypeOK, ProcOK
  <2> QED
    BY <2>1, <2>2, CountsKept DEF At
<1> QED
  BY <1>1, <1>2, <1>3, <1>4, <1>5, <1>6 DEF DealFileNext

(* Every step keeps RefCountInv. *)
LEMMA RefCountStep ==
    ASSUME TypeOK, RefCountInv, [Next]_vars
    PROVE  RefCountInv'
<1>a. /\ {"upload", "md5", D, S, R} \subseteq Cgis
      /\ "upload" # "md5" /\ "upload" # D /\ "upload" # S
      /\ "md5" # D /\ "md5" # S /\ D # S /\ R # "md5" /\ R # D /\ R # S
  BY ServiceLabels DEF D, S, R
<1>b. CASE ~NoFault'
  BY <1>b DEF RefCountInv, ZeroCountOnlyWhileDeleting, NoFault
<1>c. CASE NoFault'
  <2>a. NoFault
    BY SMT, <1>c, FaultsStay, BoundsAssumption DEF NoFault, TypeOK, EnvOK
  <2> DEFINE Md5Part == pc["md5"] \in {"md_owned", "md_inc"} => tmp["md5"] >= 0
             SavePart == At(S, "sv_inc") => tmp[S] >= 0
             DelPart  == At(D, "de_dec") => tmp[D] >= 1
  <2>b. Md5Part /\ SavePart /\ DelPart
    BY <2>a DEF RefCountInv
  <2>c. \A p \in Cgis : Others(p) => /\ p # "md5" => Md5Part'
                                     /\ p # S => SavePart'
                                     /\ p # D => DelPart'
    BY <1>a, <2>b DEF Others, At
  <2>d. SUFFICES ZeroCountOnlyWhileDeleting' /\ Md5Part' /\ SavePart' /\ DelPart'
    BY DEF RefCountInv
  <2>1. CASE UploadStep
    BY <2>1, <1>a, <2>a, <2>c, UploadRef, UploadFrame DEF UploadStep, TypeOK
  <2>2. CASE Md5Step
    BY <2>2, <1>a, <1>c, <2>a, <2>c, Md5Ref, Md5Frame DEF Md5Step, TypeOK
  <2>3. CASE DealFileStep
    BY <2>3, <1>a, <1>c, <2>a, <2>c, DealFileRef, DealFileFrame
       DEF DealFileStep, TypeOK
  <2>4. CASE DealShareStep
    BY <2>4, <1>a, <1>c, <2>a, <2>c, DealShareRef, DealShareFrame
       DEF DealShareStep, TypeOK
  <2>5. CASE ShareFilesStep
    <3>1. UNCHANGED file_info
      BY <2>5 DEF ShareFilesStep, ShareFilesNext, RankAccept, RankSelectCount,
        RankZcard, RankDelZset, RankDelHash, RankSelectRows, RankZadd, RankHset,
        rop_zset_zrevrange, RankHget, RankScore, RankError, SqlErrs, Accept,
        sqlVars
    <3>2. Others(R)
      BY <2>5, ShareFilesFrame DEF ShareFilesStep, TypeOK
    <3> QED
      BY <1>a, <2>a, <2>c, <3>1, <3>2, CountsKept, DeletingKept
  <2>6. CASE \E p \in Cgis : Kill(p)
    <3>1. kills' # 0
      BY SMT, <2>6, BoundsAssumption DEF Kill, TypeOK, EnvOK
    <3> QED
      BY <1>c, <3>1 DEF NoFault
  <2>7. CASE RedisLoss \/ UNCHANGED vars
    <3>1. UNCHANGED <<file_info, pc, tmp, req>>
      BY <2>7 DEF RedisLoss, vars, stateVars, sqlVars, procVars
    <3> QED
      BY <2>a, <2>b, <3>1, CountsKept DEF Deleting, At
  <2> QED
    BY <2>1, <2>2, <2>3, <2>4, <2>5, <2>6, <2>7 DEF Next, ClientsDone
<1> QED
  BY <1>b, <1>c

(* The rows of the list keep their ids and files, and none is added. *)
OnlyFewer == share_file_list' \subseteq share_file_list /\ nextRow' >= nextRow

(* The download counters that S has read stay with S. *)
ReadStays ==
    pc'[S] = "sp_upd" => /\ pc[S] = "sp_upd"
                         /\ req'[S] = req[S]
                         /\ tmp'[S] = tmp[S]

(* The fields of a listed share have their types. *)
LEMMA ShareFields ==
    ASSUME TypeOK, NEW x \in share_file_list
    PROVE  x \in ShareRow /\ x.rid \in Nat /\ x.pv \in Int /\ nextRow \in Nat
  BY DEF TypeOK, DataOK, ShareRow

(* Removing shares keeps PvInv. *)
LEMMA FewerKeepPv ==
    ASSUME TypeOK, PvInv, OnlyFewer, ReadStays, nextRow' \in Nat
    PROVE  PvInv'
<1>1. \A x \in share_file_list : x.rid < nextRow'
  BY SMT, ShareFields DEF PvInv, OnlyFewer
<1>2. \A x \in share_file_list' : x.rid < nextRow' /\ x.pv >= 0
  BY <1>1 DEF PvInv, OnlyFewer
<1>3. \A x, y \in share_file_list' : x.rid = y.rid => x = y
  BY DEF PvInv, OnlyFewer
<1>4. \A x, y \in share_file_list' :
         FileId(x) = FileId(y) /\ x.rid <= y.rid => y.pv <= x.pv
  BY DEF PvInv, OnlyFewer
<1>5. /\ pc'[S] = "sp_upd" => tmp'[S] >= 0
      /\ \A x \in share_file_list' :
            pc'[S] = "sp_upd" /\ FileId(x) = FileId(req'[S]) => x.pv <= tmp'[S]
  BY DEF PvInv, OnlyFewer, ReadStays, Read
<1> QED
  BY <1>2, <1>3, <1>4, <1>5 DEF PvInv, Read, FileId

(* Removing shares keeps the list free of duplicates. *)
LEMMA FewerKeepUnique ==
    ASSUME UniqueInv, share_file_list' \subseteq share_file_list,
           sqlErrs' = 0 => sqlErrs = 0,
           sqlErrs' = 0 /\ pc'[D] \in {"sh_status", "sh_row"} =>
              pc[D] \in {"sh_status", "sh_row"} /\ req'[D] = req[D]
    PROVE  UniqueInv'
<1>1. ShareUnique'
  BY DEF UniqueInv, ShareUnique, FileId
<1>2. sqlErrs' = 0 /\ pc'[D] \in {"sh_status", "sh_row"} =>
         SharesOf(FileId(req[D]))' = {}
  BY DEF UniqueInv, SharesOf, FileId
<1> QED
  BY <1>1, <1>2 DEF UniqueInv

(* The step does not make the counter of a share go down. *)
PvUp == \A x \in share_file_list, y \in share_file_list' :
           x.rid = y.rid => x.pv <= y.pv

(* Removing shares makes no counter go down. *)
LEMMA FewerKeepsUp ==
    ASSUME TypeOK, PvInv, OnlyFewer
    PROVE  PvUp
<1>1. SUFFICES ASSUME NEW x \in share_file_list, NEW y \in share_file_list',
                      x.rid = y.rid
               PROVE  x.pv <= y.pv
  BY DEF PvUp
<1>2. x = y
  BY <1>1 DEF PvInv, OnlyFewer
<1> QED
  BY SMT, <1>2, ShareFields

(***************************************************************************)
(* A step that adds no share, counts no download and leaves share_file     *)
(* between its lookup and its INSERT, or before or after both.             *)
(***************************************************************************)
LookupStays ==
    sqlErrs' = 0 /\ pc'[D] \in {"sh_status", "sh_row"} =>
       pc[D] \in {"sh_status", "sh_row"} /\ req'[D] = req[D]

Quiet == OnlyFewer /\ ReadStays /\ LookupStays

(* upload_cgi.c adds no share. *)
LEMMA UploadQuiet ==
    ASSUME TypeOK, UploadNext
    PROVE  Quiet
<1>1. OnlyFewer
  BY SMT DEF TypeOK, DataOK, OnlyFewer, UploadNext, UploadAccept,
    upload_to_dstorage, UploadInsertInfo, UploadInsertRow, UploadSelectCount,
    UploadWriteCount, UploadError, InsertUserRow, SqlErrs, Accept, sqlVars
<1>2. Others("upload") /\ D \in Cgis \ {"upload"} /\ S \in Cgis \ {"upload"}
  BY UploadFrame, ServiceLabels DEF D, S, TypeOK
<1> QED
  BY <1>1, <1>2 DEF Quiet, ReadStays, LookupStays, Others

(* md5_cgi.c adds no share. *)
LEMMA Md5Quiet ==
    ASSUME TypeOK, Md5Next
    PROVE  Quiet
<1>1. OnlyFewer
  BY SMT DEF TypeOK, DataOK, OnlyFewer, Md5Next, Md5Accept, Md5SelectInfo,
    Md5SelectOwned, Md5UpdateInfo, Md5InsertRow, Md5SelectCount, Md5WriteCount,
    Md5Error, InsertUserRow, SqlErrs, Accept, Refuse, sqlVars
<1>2. Others("md5") /\ D \in Cgis \ {"md5"} /\ S \in Cgis \ {"md5"}
  BY Md5Frame, ServiceLabels DEF D, S, TypeOK
<1> QED
  BY ZenonT(30), <1>1, <1>2 DEF Quiet, ReadStays, LookupStays, Others

(* sharefiles_cgi.c adds no share. *)
LEMMA ShareFilesQuiet ==
    ASSUME TypeOK, ShareFilesNext
    PROVE  Quiet
<1>1. UNCHANGED <<share_file_list, nextRow>>
  BY DEF ShareFilesNext, RankAccept,
    RankSelectCount, RankZcard, RankDelZset, RankDelHash, RankSelectRows,
    RankZadd, RankHset, rop_zset_zrevrange, RankHget, RankScore, RankError,
    SqlErrs, Accept, sqlVars
<1>2. Others(R) /\ D \in Cgis \ {R} /\ S \in Cgis \ {R}
  BY ShareFilesFrame, ServiceLabels DEF D, S, R, TypeOK
<1>3. OnlyFewer
  BY SMT, <1>1 DEF OnlyFewer, TypeOK, DataOK
<1> QED
  BY <1>3, <1>2 DEF Quiet, ReadStays, LookupStays, Others

(* dealfile_cgi.c adds a share only after it has found none. *)
LEMMA DealFileQuiet ==
    ASSUME TypeOK, DealFileNext, ~ShareSelect, ~ShareInsert
    PROVE  Quiet
<1>a. D \in Cgis /\ S \in Cgis \ {D} /\ sqlErrs \in Nat
  BY SMT, ServiceLabels, BoundsAssumption DEF D, S, TypeOK, EnvOK
<1>b. ReadStays
  BY <1>a, DealFileFrame DEF ReadStays, Others, TypeOK
<1>1. CASE ShareNext
  <2>1. OnlyFewer
    BY SMTT(30), <1>1 DEF TypeOK, DataOK, OnlyFewer, ShareNext, ShareAccept,
      ShareAskRedis, ShareRepair, ShareSetStatus, ShareSelectCount,
      ShareWriteCount, ShareZadd, ShareHset, ShareError, SqlErrs, Accept,
      sqlVars
  <2>2. LookupStays
    BY SMT, <1>1, <1>a DEF LookupStays, ShareNext, ShareAccept, ShareAskRedis,
      ShareRepair, ShareSetStatus, ShareSelectCount, ShareWriteCount, ShareZadd,
      ShareHset, ShareError, SqlErrs, Accept, Goto, Finish, At, TypeOK, ProcOK
  <2> QED
    BY <1>b, <2>1, <2>2 DEF Quiet
<1>2. CASE DelNext
  <2>0. share_file_list' \subseteq share_file_list /\ nextRow' = nextRow
    BY <1>2 DEF DelNext, DelAccept, DelAskRedis,
      DelSelectStatus, DelDeleteShare, DelSelectShareCount, DelWriteShareCount,
      DelZrem, DelHdel, DelSelectUserCount, DelWriteUserCount, DelDeleteRow,
      DelSelectInfo, DelUpdateInfo, DelSelectFileId, DelDeleteInfo,
      remove_file_from_storage, DelError, SqlErrs, Accept, sqlVars
  <2>1. OnlyFewer
    BY SMT, <2>0 DEF OnlyFewer, TypeOK, DataOK
  <2>2. pc'[D] \notin {"sh_status", "sh_row"}
    BY <1>2, <1>a DEF DelNext, DelAccept, DelAskRedis, DelSelectStatus,
      DelDeleteShare, DelSelectShareCount, DelWriteShareCount, DelZrem, DelHdel,
      DelSelectUserCount, DelWriteUserCount, DelDeleteRow, DelSelectInfo,
      DelUpdateInfo, DelSelectFileId, DelDeleteInfo, remove_file_from_storage,
      DelError, Accept, Goto, Finish, TypeOK, ProcOK
  <2> QED
    BY <1>b, <2>1, <2>2 DEF Quiet, LookupStays
<1>3. CASE PvNext \/ DealFileRefuse
  <2>1. OnlyFewer
    BY SMT, <1>3 DEF TypeOK, DataOK, OnlyFewer, PvNext, PvAccept, PvSelect, PvUpdate,
      PvError, DealFileRefuse, Refuse, SqlErrs, Accept, sqlVars
  <2>2. pc'[D] \notin {"sh_status", "sh_row"}
    BY <1>3, <1>a DEF PvNext, PvAccept, PvSelect, PvUpdate, PvError,
      DealFileRefuse, Refuse, Accept, Goto, Finish, At, TypeOK, ProcOK
  <2> QED
    BY <1>b, <2>1, <2>2 DEF Quiet, LookupStays
<1> QED
  BY <1>1, <1>2, <1>3 DEF DealFileNext

(* dealsharefile_cgi.c adds no share; pv_file alone counts downloads. *)
LEMMA DealShareQuiet ==
    ASSUME TypeOK, DealShareFileNext, ~SharePvSelect, ~SharePvUpdate
    PROVE  Quiet
<1>a. S \in Cgis /\ D \in Cgis \ {S}
  BY ServiceLabels DEF D, S
<1>b. LookupStays
  BY <1>a, DealShareFrame DEF LookupStays, Others, TypeOK
<1>1. CASE SharePvNext
  <2>1. OnlyFewer
    BY SMT, <1>1 DEF TypeOK, DataOK, OnlyFewer, SharePvNext, SharePvAccept,
      SharePvAskRedis, rop_zset_increment, SharePvZadd, SharePvHset,
      SharePvError, SqlErrs, Accept, sqlVars
  <2>2. pc'[S] # "sp_upd"
    BY ZenonT(30), <1>1, <1>a DEF SharePvNext, SharePvAccept, SharePvAskRedis,
      rop_zset_increment, SharePvZadd, SharePvHset, SharePvError, Accept, Goto,
      Finish, TypeOK, ProcOK
  <2> QED
    BY <1>b, <2>1, <2>2 DEF Quiet, ReadStays
<1>2. CASE CancelNext
  <2>1. OnlyFewer
    BY SMT, <1>2 DEF TypeOK, DataOK, OnlyFewer, CancelNext, CancelAccept,
      CancelClearStatus, CancelSelectCount, CancelWriteCount, CancelDeleteShare,
      CancelZrem, CancelHdel, CancelError, SqlErrs, Accept, sqlVars
  <2>2. pc'[S] # "sp_upd"
    BY <1>2, <1>a DEF CancelNext, CancelAccept, CancelClearStatus,
      CancelSelectCount, CancelWriteCount, CancelDeleteShare, CancelZrem,
      CancelHdel, CancelError, Accept, Goto, Finish, TypeOK, ProcOK
  <2> QED
    BY <1>b, <2>1, <2>2 DEF Quiet, ReadStays
<1>3. CASE SaveNext
  <2>0. share_file_list' = share_file_list /\ nextRow' \in {nextRow, nextRow + 1}
    BY <1>3 DEF SaveNext, SaveAccept,
      SaveSelectOwned, SaveSelectInfo, SaveUpdateInfo, SaveInsertRow,
      SaveSelectCount, SaveWriteCount, SaveError, InsertUserRow, SqlErrs,
      Accept, sqlVars
  <2>1. OnlyFewer
    BY SMT, <2>0 DEF OnlyFewer, TypeOK, DataOK
  <2>2. pc'[S] # "sp_upd"
    BY <1>3, <1>a DEF SaveNext, SaveAccept, SaveSelectOwned, SaveSelectInfo,
      SaveUpdateInfo, SaveInsertRow, SaveSelectCount, SaveWriteCount, SaveError,
      Accept, Goto, Finish, TypeOK, ProcOK
  <2> QED
    BY <1>b, <2>1, <2>2 DEF Quiet, ReadStays
<1> QED
  BY <1>1, <1>2, <1>3 DEF DealShareFileNext

(* What a step shows about the shares. *)
Kept == UniqueInv' /\ PvInv' /\ PvUp

(* A quiet step keeps everything. *)
LEMMA QuietKeeps ==
    ASSUME TypeOK, TypeOK', UniqueInv, PvInv, Quiet, sqlErrs' = 0 => sqlErrs = 0
    PROVE  Kept
<1>1. nextRow' \in Nat
  BY DEF TypeOK, DataOK
<1> QED
  BY <1>1, FewerKeepPv, FewerKeepUnique, FewerKeepsUp
     DEF Kept, Quiet, OnlyFewer, LookupStays

(* share_file's lookup in MySQL: past it, the file is not listed. *)
LEMMA ShareSelectKeeps ==
    ASSUME TypeOK, TypeOK', UniqueInv, PvInv, ShareSelect
    PROVE  Kept
<1>1. UNCHANGED <<share_file_list, nextRow, sqlErrs, req, tmp>>
  BY DEF ShareSelect, Goto, sqlVars, storeVars, envVars
<1>2. S # D /\ D \in Cgis /\ pc'[S] = pc[S]
  BY DEF ShareSelect, Goto, Cgis, S, D, TypeOK, ProcOK
<1>3. OnlyFewer /\ ReadStays
  BY SMT, <1>1, <1>2 DEF OnlyFewer, ReadStays, TypeOK, DataOK
<1>4. PvInv' /\ PvUp
  BY <1>1, <1>3, FewerKeepPv, FewerKeepsUp DEF TypeOK, DataOK
<1>5. pc'[D] \in {"sh_status", "sh_row"} => SharesOf(FileId(req[D])) = {}
  BY <1>2 DEF ShareSelect, Goto, TypeOK, ProcOK
<1>6. UniqueInv'
  BY <1>1, <1>5 DEF UniqueInv, ShareUnique, SharesOf, FileId
<1> QED
  BY <1>4, <1>6 DEF Kept

(* share_file's INSERT: a fresh row of a file not listed, downloads 0. *)
LEMMA ShareInsertKeeps ==
    ASSUME TypeOK, TypeOK', UniqueInv, PvInv, ShareInsert
    PROVE  Kept
<1> DEFINE z == [rid |-> nextRow, user |-> req[D].user, md5 |-> req[D].md5,
                 filename |-> req[D].filename, pv |-> 0]
<1>1. /\ share_file_list' = share_file_list \cup {z}
      /\ nextRow' = nextRow + 1 /\ nextRow \in Nat
      /\ UNCHANGED <<sqlErrs, req, tmp>>
  BY DEF ShareInsert, Goto, envVars, TypeOK, DataOK
<1>2. S # D /\ D \in Cgis /\ pc'[S] = pc[S] /\ pc'[D] = "sh_selcnt"
      /\ pc[D] = "sh_row"
  BY DEF ShareInsert, Goto, At, Cgis, S, D, TypeOK, ProcOK
<1>3. z.rid = nextRow /\ z.pv = 0 /\ FileId(z) = FileId(req[D])
  BY DEF FileId
<1> HIDE DEF z
<1>4. \A x \in share_file_list :
         x.rid \in Nat /\ x.pv \in Int /\ x.rid < nextRow /\ x.pv >= 0
  BY ShareFields DEF PvInv
<1>5. UniqueInv'
  <2>1. SUFFICES ASSUME sqlErrs = 0, NEW x \in share_file_list',
                        NEW y \in share_file_list', FileId(x) = FileId(y)
                 PROVE  x = y
    BY <1>1, <1>2 DEF UniqueInv, ShareUnique, FileId
  <2>2. \A w \in share_file_list : FileId(w) # FileId(z)
    BY <1>2, <1>3, <2>1 DEF UniqueInv, SharesOf
  <2> QED
    BY <1>1, <2>1, <2>2 DEF UniqueInv, ShareUnique
<1>6. PvUp
  <2>1. SUFFICES ASSUME NEW x \in share_file_list, NEW y \in share_file_list',
                        x.rid = y.rid
                 PROVE  x.pv <= y.pv
    BY DEF PvUp
  <2>2. y # z
    BY SMT, <1>3, <1>4, <1>1, <2>1
  <2> QED
    BY SMT, <1>1, <1>4, <2>1, <2>2 DEF PvInv
<1>7. \A x \in share_file_list' : x.rid < nextRow' /\ x.pv >= 0
  BY SMT, <1>1, <1>3, <1>4
<1>8. \A x, y \in share_file_list' : x.rid = y.rid => x = y
  BY SMT, <1>1, <1>3, <1>4 DEF PvInv
<1>9. \A x, y \in share_file_list' :
         FileId(x) = FileId(y) /\ x.rid <= y.rid => y.pv <= x.pv
  BY SMT, <1>1, <1>3, <1>4 DEF PvInv
<1>10. /\ pc'[S] = "sp_upd" => tmp'[S] >= 0
       /\ \A x \in share_file_list' :
             pc'[S] = "sp_upd" /\ FileId(x) = FileId(req'[S]) => x.pv <= tmp'[S]
  BY <1>1, <1>2, <1>3 DEF PvInv, Read
<1>11. PvInv'
  BY <1>7, <1>8, <1>9, <1>10 DEF PvInv, Read, FileId
<1> QED
  BY <1>5, <1>6, <1>11 DEF Kept

(* pv_file's SELECT reads the counter of the oldest row, the largest. *)
LEMMA PvSelectKeeps ==
    ASSUME TypeOK, TypeOK', UniqueInv, PvInv, SharePvSelect
    PROVE  Kept
<1>1. UNCHANGED <<share_file_list, nextRow, sqlErrs>> /\ nextRow \in Nat
  BY DEF SharePvSelect, sqlVars, envVars, TypeOK, DataOK
<1>2. S \in Cgis /\ S # D /\ pc'[D] = pc[D] /\ req'[D] = req[D]
  BY DEF SharePvSelect, Goto, Finish, Cgis, S, D, TypeOK, ProcOK
<1>3. UniqueInv' /\ PvUp
  BY SMT, <1>1, <1>2, FewerKeepUnique, FewerKeepsUp DEF OnlyFewer
<1>4. CASE Finish(S, "017")
  <2>1. pc'[S] # "sp_upd"
    BY <1>2, <1>4 DEF Finish, TypeOK, ProcOK
  <2> QED
    BY SMT, <1>1, <1>3, <2>1, FewerKeepPv DEF Kept, OnlyFewer, ReadStays
<1>5. CASE \E x \in SharesOf(FileId(req[S])) :
              /\ IsOldest(x, SharesOf(FileId(req[S])))
              /\ tmp' = [tmp EXCEPT ![S] = x.pv]
              /\ Goto(S, "sp_upd")
  <2>1. PICK x \in SharesOf(FileId(req[S])) :
              /\ IsOldest(x, SharesOf(FileId(req[S])))
              /\ tmp' = [tmp EXCEPT ![S] = x.pv]
              /\ Goto(S, "sp_upd")
    BY <1>5
  <2>2. tmp'[S] = x.pv /\ req' = req
    BY <1>2, <2>1 DEF Goto, TypeOK, ProcOK
  <2>3. x \in share_file_list /\ FileId(x) = FileId(req[S])
    BY <2>1 DEF SharesOf
  <2>4. \A y \in share_file_list : FileId(y) = FileId(req[S]) => y.pv <= x.pv
    BY <2>1, <2>3 DEF PvInv, IsOldest, SharesOf
  <2>5. x.pv >= 0
    BY <2>3 DEF PvInv
  <2>6. PvInv'
    BY <1>1, <2>2, <2>4, <2>5 DEF PvInv, Read, FileId
  <2> QED
    BY <1>3, <2>6 DEF Kept
<1> QED
  BY <1>4, <1>5 DEF SharePvSelect

(* pv_file's UPDATE writes one more than any row of the file holds. *)
LEMMA PvUpdateKeeps ==
    ASSUME TypeOK, TypeOK', UniqueInv, PvInv, SharePvUpdate
    PROVE  Kept
<1> DEFINE Hit(x) == FileId(x) = FileId(req[S])
           N(x) == IF Hit(x) THEN [x EXCEPT !.pv = tmp[S] + 1] ELSE x
<1>1. /\ share_file_list' = {N(x) : x \in share_file_list}
      /\ UNCHANGED <<nextRow, sqlErrs, req>> /\ nextRow \in Nat
  BY DEF SharePvUpdate, Goto, envVars, TypeOK, DataOK
<1>2. /\ S \in Cgis /\ S # D /\ pc'[D] = pc[D] /\ pc[S] = "sp_upd"
      /\ pc'[S] # "sp_upd"
  BY DEF SharePvUpdate, Goto, At, Cgis, S, D, TypeOK, ProcOK
<1>3. tmp[S] \in Int /\ tmp[S] >= 0
  BY <1>2 DEF PvInv, TypeOK, ProcOK, NumLabels
<1>4. \A x \in share_file_list :
         /\ x \in ShareRow /\ x.rid \in Nat /\ x.pv \in Int
         /\ x.rid < nextRow /\ x.pv >= 0 /\ (Hit(x) => x.pv <= tmp[S])
  BY <1>2, ShareFields DEF PvInv, Read
<1>5. \A x \in share_file_list :
         /\ N(x).rid = x.rid /\ FileId(N(x)) = FileId(x)
         /\ N(x).pv = IF Hit(x) THEN tmp[S] + 1 ELSE x.pv
  BY <1>4 DEF FileId, ShareRow
<1> HIDE DEF N
<1>6. UniqueInv'
  <2>1. ShareUnique'
    <3>1. SUFFICES ASSUME sqlErrs = 0, NEW x \in share_file_list,
                          NEW y \in share_file_list,
                          FileId(N(x)) = FileId(N(y))
                   PROVE  N(x) = N(y)
      BY SMT, <1>1 DEF ShareUnique, FileId
    <3> QED
      BY SMT, <1>5, <3>1 DEF UniqueInv, ShareUnique
  <2>2. sqlErrs = 0 /\ pc[D] \in {"sh_status", "sh_row"} =>
           \A y \in share_file_list' : FileId(y) # FileId(req[D])
    BY SMT, <1>1, <1>5 DEF UniqueInv, SharesOf
  <2> QED
    BY <1>1, <1>2, <2>1, <2>2 DEF UniqueInv, SharesOf, FileId
<1>7. PvUp
  <2>1. SUFFICES ASSUME NEW x \in share_file_list, NEW y \in share_file_list,
                        x.rid = N(y).rid
                 PROVE  x.pv <= N(y).pv
    BY <1>1 DEF PvUp
  <2>2. x = y
    BY SMT, <1>5, <2>1 DEF PvInv
  <2> QED
    BY SMT, <1>3, <1>4, <1>5, <2>2
<1>8. \A x \in share_file_list' : x.rid < nextRow' /\ x.pv >= 0
  BY SMT, <1>1, <1>3, <1>4, <1>5
<1>9. \A x, y \in share_file_list' : x.rid = y.rid => x = y
  BY SMT, <1>1, <1>5 DEF PvInv
<1>10. \A x, y \in share_file_list :
          FileId(x) = FileId(y) /\ x.rid <= y.rid => N(y).pv <= N(x).pv
  BY SMT, <1>3, <1>4, <1>5 DEF PvInv
<1>11. \A x, y \in share_file_list' :
          FileId(x) = FileId(y) /\ x.rid <= y.rid => y.pv <= x.pv
  BY SMT, <1>1, <1>5, <1>10
<1>12. PvInv'
  BY <1>2, <1>8, <1>9, <1>11 DEF PvInv, Read, FileId
<1> QED
  BY <1>6, <1>7, <1>12 DEF Kept

(* Every step keeps both invariants and lets no counter go down. *)
LEMMA ShareStep ==
    ASSUME TypeOK, TypeOK', UniqueInv, PvInv, [Next]_vars
    PROVE  Kept
<1>a. sqlErrs' = 0 => sqlErrs = 0
  BY SMT, FaultsStay, BoundsAssumption DEF TypeOK, EnvOK
<1>1. CASE UploadStep \/ Md5Step \/ ShareFilesStep
  BY <1>1, <1>a, QuietKeeps, UploadQuiet, Md5Quiet, ShareFilesQuiet
     DEF UploadStep, Md5Step, ShareFilesStep
<1>2. CASE DealFileStep
  BY <1>2, <1>a, QuietKeeps, DealFileQuiet, ShareSelectKeeps, ShareInsertKeeps
     DEF DealFileStep
<1>3. CASE DealShareStep
  BY <1>3, <1>a, QuietKeeps, DealShareQuiet, PvSelectKeeps, PvUpdateKeeps
     DEF DealShareStep
<1>4. CASE \E p \in Cgis : Kill(p)
  <2>1. PICK p \in Cgis : Kill(p)
    BY <1>4
  <2>2. UNCHANGED <<share_file_list, nextRow>>
    BY <2>1 DEF Kill, sqlVars
  <2>3. \A q \in Cgis : pc'[q] # "idle" => /\ pc'[q] = pc[q] /\ req'[q] = req[q]
                                           /\ tmp'[q] = tmp[q]
    BY <2>1 DEF Kill, Finish, TypeOK, ProcOK
  <2>4. Quiet
    BY SMT, <2>2, <2>3, ServiceLabels
       DEF Quiet, OnlyFewer, ReadStays, LookupStays, D, S, TypeOK, DataOK
  <2> QED
    BY <1>a, <2>4, QuietKeeps
<1>5. CASE RedisLoss \/ UNCHANGED vars
  <2>1. UNCHANGED <<share_file_list, nextRow, pc, tmp, req>>
    BY <1>5 DEF RedisLoss, vars, stateVars, sqlVars, procVars
  <2>2. Quiet
    BY SMT, <2>1 DEF Quiet, OnlyFewer, ReadStays, LookupStays, TypeOK, DataOK
  <2> QED
    BY <1>a, <2>2, QuietKeeps
<1> QED
  BY <1>1, <1>2, <1>3, <1>4, <1>5 DEF Next, ClientsDone

(* The shares start out correct. *)
LEMMA ShareInit == Init => UniqueInv /\ PvInv
  BY DEF Init, StateInit, UniqueInv, ShareUnique, PvInv, Read, Cgis, D, S
---------------------------------------------------------------------------
(* A refused request, or no step: only accepted and reply change. *)
Nothing ==
    UNCHANGED <<sqlVars, redisVars, storeVars, pc, req, tmp, localVars>>

(* A statement of p, while every other process is idle. *)
Statement(p) == ServiceStep(p) /\ Comes(p) /\ Solo(p)

(* The steps of a serial behaviour in which no statement fails. *)
LEMMA SerialSteps ==
    ASSUME TypeOK, TypeOK', Alone, [SerialNext]_vars, sqlErrs' = sqlErrs
    PROVE  \/ \E p \in Cgis : Statement(p)
           \/ \E p \in Cgis : Kill(p)
           \/ RedisLoss /\ AllIdle
           \/ Nothing
<1>1. ASSUME NEW p \in Cgis, ServiceStep(p), Comes(p)
      PROVE  Statement(p) \/ Nothing
  <2>1. CASE Moves(p)
    BY <1>1, <2>1, ServiceFrame, AloneKept DEF Statement, Comes, TypeOK
  <2>2. CASE ~Moves(p)
    <3>1. (Refuse("md5") /\ UNCHANGED localVars)
             \/ (DealFileRefuse /\ UNCHANGED <<fileid, sharefilesVars>>)
      BY <1>1, <2>2, UploadMoves, Md5Moves, DealFileMoves, DealShareMoves,
         ShareFilesMoves
         DEF ServiceStep, UploadStep, Md5Step, DealFileStep, DealShareStep,
             ShareFilesStep
    <3> QED
      BY <3>1 DEF Nothing, Refuse, DealFileRefuse, localVars
  <2> QED
    BY <2>1, <2>2
<1>2. UNCHANGED vars => Nothing
  BY DEF vars, stateVars, procVars, Nothing
<1> QED
  BY <1>1, <1>2, SerialCases
-----------------------------------------------------------------------------
(***************************************************************************)
(* The refill of Redis.                                                    *)
(***************************************************************************)

(* While sharefiles_cgi.c waits there is nothing left to import. *)
LEMMA NoRefill ==
    ASSUME pc'[R] \notin {"rk_delh", "rk_rows", "rk_zadd", "rk_hset"},
           todo' = {}
    PROVE  Refilled'
  BY DEF Refilled

(* The statements of get_ranking_filelist copy the rows one by one. *)
LEMMA RankRefills ==
    ASSUME TypeOK, TypeOK', ShareUnique, Refilled, sqlErrs = 0, sqlErrs' = 0,
           ShareFilesNext
    PROVE  Refilled'
<1>0. R \in Cgis /\ ProcOK /\ ~RankError
  BY SMT, ServiceLabels DEF RankError, SqlErrs, TypeOK
<1>1. CASE RankDelZset
  <2>1. pc'[R] = "rk_delh" /\ todo = {} /\ todo' = todo
    BY <1>0, <1>1 DEF RankDelZset, Goto, At, Refilled, sharefilesVars, ProcOK
  <2>2. Members' = {}
    BY <1>1 DEF RankDelZset, Members
  <2> QED
    BY <2>1, <2>2 DEF Refilled
<1>2. CASE RankDelHash
  <2>1. pc'[R] = "rk_rows" /\ todo = {} /\ todo' = todo /\ hash' = {}
    BY <1>0, <1>2 DEF RankDelHash, Goto, At, Refilled, sharefilesVars, ProcOK
  <2>2. Members' = {}
    BY <1>2 DEF RankDelHash, Members, Refilled, At
  <2> QED
    BY <2>1, <2>2 DEF Refilled
<1>3. CASE RankSelectRows
  <2>1. /\ UNCHANGED <<share_file_list, zset, hash>>
        /\ Members = {} /\ hash = {} /\ todo = {}
    BY <1>3 DEF RankSelectRows, sqlVars, redisVars, At, Refilled
  <2>2. CASE share_file_list = {}
    BY <1>0, <1>3, <2>1, <2>2, NoRefill DEF RankSelectRows, Finish, ProcOK
  <2>3. CASE share_file_list # {}
    <3>1. pc'[R] = "rk_zadd" /\ todo' = share_file_list
      BY <1>0, <1>3, <2>3 DEF RankSelectRows, Goto, ProcOK
    <3>2. Done' = {} /\ Members' = {}
      BY <2>1, <3>1 DEF Done, Members
    <3> QED
      BY <2>1, <2>3, <3>1, <3>2 DEF Refilled
  <2> QED
    BY <2>2, <2>3
<1>4. CASE RankZadd
  <2>1. PICK x \in todo :
           /\ rop_zset_add(FileId(x), x.pv)
           /\ page' = {<<0, FileId(x)>>}
           /\ todo' = todo \ {x}
    BY <1>4 DEF RankZadd
  <2>2. /\ pc'[R] = "rk_hset" /\ UNCHANGED <<share_file_list, hash>>
        /\ todo \subseteq share_file_list /\ hash = Members
        /\ Members = {FileId(y) : y \in Done}
        /\ \A y \in Done : zset[FileId(y)] = y.pv
    BY <1>0, <1>4 DEF RankZadd, Goto, At, Refilled, sqlVars, ProcOK
  <2>3. x.pv \in Int /\ x.pv # NoRow /\ FileId(x) \in FileIds
    BY ZenonT(30), <2>1, <2>2, NullAssumption
       DEF TypeOK, DataOK, ShareRow, FileId, FileIds
  <2>4. /\ zset'[FileId(x)] = x.pv
        /\ \A f \in FileIds \ {FileId(x)} : zset'[f] = zset[f]
    BY <2>1, <2>3 DEF rop_zset_add, TypeOK, DataOK
  <2>5. Members' = Members \cup {FileId(x)}
    BY <2>3, <2>4 DEF Members
  <2>6. Done' = Done \cup {x}
    BY <2>1, <2>2 DEF Done
  <2>7. \A y \in Done : FileId(y) # FileId(x) /\ FileId(y) \in FileIds
    <3>1. \A y \in Done : y \in share_file_list /\ y # x
      BY <2>1 DEF Done
    <3>2. \A y \in Done : FileId(y) # FileId(x)
      BY <2>1, <2>2, <3>1 DEF ShareUnique
    <3> QED
      BY <3>1, <3>2 DEF FileId, FileIds, TypeOK, DataOK, ShareRow
  <2>8. \A y \in Done' : zset'[FileId(y)] = y.pv
    BY <2>2, <2>4, <2>6, <2>7
  <2>9. Members' = {FileId(y) : y \in Done'}
    BY <2>2, <2>5, <2>6
  <2>10. hash' \cup {FileId(x)} = Members' /\ FileId(x) \in Members'
    BY <2>2, <2>5
  <2> QED
    BY <2>1, <2>2, <2>8, <2>9, <2>10 DEF Refilled, FileId
<1>5. CASE RankHset
  <2>1. PICK f \in Members : page = {<<0, f>>} /\ hash \cup {f} = Members
    BY <1>5 DEF RankHset, At, Refilled
  <2>2. hash' = Members /\ UNCHANGED <<share_file_list, zset, todo>>
    BY SMT, <1>5, <2>1 DEF RankHset, rop_hash_set, sqlVars
  <2>3. /\ Members = {FileId(y) : y \in Done}
        /\ \A y \in Done : zset[FileId(y)] = y.pv
        /\ todo \subseteq share_file_list
    BY <1>5 DEF RankHset, At, Refilled
  <2>4. Members' = Members /\ Done' = Done
    BY <2>2 DEF Members, Done
  <2>5. pc'[R] = IF todo = {} THEN "rk_range" ELSE "rk_zadd"
    BY <1>0, <1>5 DEF RankHset, Goto, ProcOK
  <2> QED
    BY <2>2, <2>3, <2>4, <2>5 DEF Refilled, FileId
<1>6. CASE RankAccept \/ RankSelectCount \/ RankZcard \/ rop_zset_zrevrange
             \/ RankHget \/ RankScore
  <2>1. /\ pc[R] \notin {"rk_zadd", "rk_hset"} /\ todo' = todo
        /\ pc'[R] \notin {"rk_delh", "rk_rows", "rk_zadd", "rk_hset"}
    BY <1>0, <1>6 DEF RankAccept, RankSelectCount, RankZcard,
      rop_zset_zrevrange, RankHget, RankScore, Accept, Goto, Finish, At,
      sharefilesVars, ProcOK
  <2> QED
    BY <2>1, NoRefill DEF Refilled
<1> QED
  BY <1>0, <1>1, <1>2, <1>3, <1>4, <1>5, <1>6 DEF ShareFilesNext

(* Nobody else touches Redis or the shares in the middle of a refill. *)
LEMMA RefillStep ==
    ASSUME TypeOK, TypeOK', Alone, ShareUnique, Refilled, [SerialNext]_vars,
           sqlErrs = 0, sqlErrs' = 0
    PROVE  Refilled'
<1>0. R \in Cgis
  BY ServiceLabels
<1>1. ASSUME NEW p \in Cgis, Statement(p)
      PROVE  Refilled'
  <2>1. CASE p = R
    BY <1>1, <2>1, RankRefills
       DEF Statement, ServiceStep, ShareFilesStep, D, S, R
  <2>2. CASE p # R
    <3>1. pc[R] = "idle" /\ pc'[R] = "idle"
      BY <1>0, <1>1, <2>2 DEF Statement, Solo
    <3>2. todo' = todo
      BY <1>1, <2>2 DEF Statement, ServiceStep, UploadStep, Md5Step,
        DealFileStep, DealShareStep, localVars, sharefilesVars
    <3> QED
      BY <3>1, <3>2, NoRefill DEF Refilled
  <2> QED
    BY <2>1, <2>2
<1>2. ASSUME NEW p \in Cgis, Kill(p)
      PROVE  Refilled'
  <2>1. pc[p] # "idle" /\ pc'[p] = "idle" /\ \A q \in Cgis \ {p} : pc'[q] = pc[q]
    BY <1>2 DEF Kill, Finish, At, TypeOK, ProcOK
  <2>2. pc'[R] = "idle" /\ (p # R => pc[R] = "idle")
    BY <1>0, <2>1 DEF Alone, Working, At
  <2>3. todo' = {}
    BY <1>2, <2>2 DEF Kill, Refilled
  <2> QED
    BY <2>2, <2>3, NoRefill
<1>3. CASE RedisLoss /\ AllIdle
  <2>1. pc'[R] = "idle" /\ pc[R] = "idle" /\ todo' = todo
    BY <1>0, <1>3 DEF RedisLoss, AllIdle, At, procVars, localVars, sharefilesVars
  <2> QED
    BY <2>1, NoRefill DEF Refilled
<1>4. CASE Nothing
  <2>1. UNCHANGED <<share_file_list, zset, hash, pc, todo, page>>
    BY <1>4 DEF Nothing, sqlVars, redisVars, localVars, sharefilesVars
  <2>2. Members' = Members /\ Done' = Done
    BY <2>1 DEF Members, Done
  <2> QED
    BY <2>1, <2>2 DEF Refilled, FileId
<1> QED
  BY <1>1, <1>2, <1>3, <1>4, SerialSteps
-----------------------------------------------------------------------------
(***************************************************************************)
(* The scores in Redis.                                                    *)
(***************************************************************************)

(* What is known of scores once the handlers of shares are idle. *)
LEMMA IdleScores ==
    ASSUME pc'[D] = "idle", pc'[S] = "idle",
           \A x \in share_file_list' :
              FileId(x) \in Members' => zset'[FileId(x)] <= x.pv
    PROVE  Scores' /\ KnowsShares'
  BY DEF Scores, KnowsShares, FileId

(* upload_cgi.c, md5_cgi.c and the refill: a score is set from the row. *)
LEMMA OtherScores ==
    ASSUME TypeOK, ShareUnique, sqlErrs = 0, sqlErrs' = sqlErrs, Refilled,
           Scores, NEW p \in {"upload", "md5", R}, Statement(p)
    PROVE  Scores' /\ KnowsShares'
<1>0. /\ pc[D] = "idle" /\ pc'[D] = "idle"
      /\ pc[S] = "idle" /\ pc'[S] = "idle"
  BY ServiceLabels DEF Statement, Solo, D, S, R
<1>1. \A x \in share_file_list :
         FileId(x) \in Members => zset[FileId(x)] <= x.pv
  BY <1>0 DEF Scores, NotScored
<1>2. UNCHANGED share_file_list
  BY DEF Statement, ServiceStep, UploadStep, Md5Step, ShareFilesStep, D, S, R,
         UploadNext, UploadAccept, upload_to_dstorage, UploadInsertInfo,
         UploadInsertRow, UploadSelectCount, UploadWriteCount, UploadError,
         Md5Next, Md5Accept, Md5SelectInfo, Md5SelectOwned, Md5UpdateInfo,
         Md5InsertRow, Md5SelectCount, Md5WriteCount, Md5Error,
         ShareFilesNext, RankAccept, RankSelectCount, RankZcard, RankDelZset,
         RankDelHash, RankSelectRows, RankZadd, RankHset, rop_zset_zrevrange,
         RankHget, RankScore, RankError, SqlErrs, Accept, Refuse, sqlVars
<1>3. CASE p = R /\ RankDelZset
  <2>1. Members' = {}
    BY <1>3 DEF RankDelZset, Members
  <2> QED
    BY <1>0, <2>1, IdleScores
<1>4. CASE p = R /\ RankZadd
  <2>1. PICK y \in todo : rop_zset_add(FileId(y), y.pv)
    BY <1>4 DEF RankZadd
  <2>2. y \in share_file_list
    BY <2>1 DEF Refilled
  <2>3. FileId(y) \in FileIds /\ y.pv \in Int
    BY <2>2 DEF TypeOK, DataOK, ShareRow, FileId, FileIds
  <2>4. /\ zset'[FileId(y)] = y.pv
        /\ \A f \in FileIds \ {FileId(y)} : zset'[f] = zset[f]
    BY <2>1, <2>3 DEF rop_zset_add, TypeOK, DataOK
  <2>5. \A x \in share_file_list :
           FileId(x) \in Members' => zset'[FileId(x)] <= x.pv
    BY SMT, <1>1, <2>2, <2>3, <2>4 DEF ShareUnique, Members
  <2> QED
    BY <1>0, <1>2, <2>5, IdleScores
<1>5. CASE ~(p = R /\ (RankDelZset \/ RankZadd))
  <2>1. UNCHANGED zset
    BY <1>5 DEF Statement, ServiceStep, UploadStep, Md5Step, ShareFilesStep,
      D, S, R, UploadNext, UploadAccept, upload_to_dstorage, UploadInsertInfo,
      UploadInsertRow, UploadSelectCount, UploadWriteCount, UploadError,
      Md5Next, Md5Accept, Md5SelectInfo, Md5SelectOwned, Md5UpdateInfo,
      Md5InsertRow, Md5SelectCount, Md5WriteCount, Md5Error,
      ShareFilesNext, RankAccept, RankSelectCount, RankZcard,
      RankDelHash, RankSelectRows, RankHset, rop_zset_zrevrange,
      RankHget, RankScore, RankError, SqlErrs, Accept, Refuse, redisVars
  <2> QED
    BY <1>0, <1>1, <1>2, <2>1, IdleScores DEF Members
<1> QED
  BY <1>3, <1>4, <1>5

(* labels from the INSERT of a share to the end of share_file *)
Listed == {"sh_selcnt", "sh_wrcnt", "sh_zadd", "sh_hset"}

(* The step leaves the shares and their scores alone. *)
SameScores ==
    /\ UNCHANGED <<share_file_list, zset>>
    /\ pc'[D] \in Listed => pc[D] \in Listed /\ req'[D] = req[D]
    /\ pc[D] \in Listed \ {"sh_hset"} => pc'[D] \in Listed \ {"sh_hset"}

(* a step that leaves shares, scores and what is known of them keeps both *)
LEMMA SameScoresKept ==
    ASSUME Scores, KnowsShares, SameScores, pc'[S] = "idle"
    PROVE  Scores' /\ KnowsShares'
<1>1. Members' = Members
  BY DEF SameScores, Members
<1>2. \A f : NotScored(f) => NotScored(f)'
  BY DEF SameScores, NotScored, Listed
<1>3. Scores'
  BY <1>1, <1>2 DEF SameScores, Scores, FileId
<1>4. pc'[D] \in Listed => OwnShares(req[D])' # {} /\ req'[D] = req[D]
  BY DEF SameScores, KnowsShares, OwnShares, Listed
<1> QED
  BY <1>3, <1>4 DEF KnowsShares, Listed

(* ZADD with score 0 is below every download counter. *)
LEMMA ZeroScore ==
    ASSUME TypeOK, PvInv, NEW f \in FileIds, rop_zset_add(f, 0),
           UNCHANGED share_file_list,
           \A x \in share_file_list : FileId(x) \in Members /\ FileId(x) # f
                 => zset[FileId(x)] <= x.pv
    PROVE  \A x \in share_file_list' :
              FileId(x) \in Members' => zset'[FileId(x)] <= x.pv
<1>1. zset'[f] = 0 /\ \A g \in FileIds \ {f} : zset'[g] = zset[g]
  BY DEF rop_zset_add, TypeOK, DataOK
<1> QED
  BY <1>1 DEF Members, PvInv

(* dealfile_cgi.c *)
LEMMA DealFileScores ==
    ASSUME TypeOK, PvInv, Scores, KnowsShares, sqlErrs' = sqlErrs,
           DealFileNext, Solo(D)
    PROVE  Scores' /\ KnowsShares'
<1>0. D \in Cgis /\ ProcOK /\ pc[S] = "idle" /\ pc'[S] = "idle"
  BY ServiceLabels DEF TypeOK, Solo, D, S
<1>1. ~ShareError /\ ~DelError /\ ~PvError
  BY SMT, BoundsAssumption DEF ShareError, DelError, PvError, SqlErrs, TypeOK, EnvOK
<1>2. ASSUME pc[D] \notin Listed \ {"sh_hset"}
      PROVE  \A x \in share_file_list :
                FileId(x) \in Members => zset[FileId(x)] <= x.pv
  BY <1>2 DEF Scores, NotScored, Listed
<1>3. CASE ShareRepair
  <2>1. /\ pc[D] = "sh_repair" /\ pc'[D] = "idle" /\ UNCHANGED share_file_list
        /\ rop_zset_add(FileId(req[D]), 0)
    BY <1>0, <1>3 DEF ShareRepair, Finish, At, ProcOK, sqlVars
  <2>2. FileId(req[D]) \in FileIds
    BY <1>0, <2>1, RequestType DEF At
  <2> QED
    BY <1>0, <1>2, <2>1, <2>2, ZeroScore, IdleScores DEF Listed
<1>4. CASE ShareInsert
  <2>1. PICK z : z = [rid |-> nextRow, user |-> req[D].user,
                      md5 |-> req[D].md5, filename |-> req[D].filename,
                      pv |-> 0]
    OBVIOUS
  <2>2. /\ pc[D] = "sh_row" /\ pc'[D] = "sh_selcnt" /\ req' = req
        /\ share_file_list' = share_file_list \cup {z} /\ zset' = zset
    BY <1>0, <1>4, <2>1 DEF ShareInsert, Goto, At, ProcOK, redisVars
  <2>3. FileId(z) = FileId(req[D]) /\ z \in OwnShares(req[D])'
    BY <2>1, <2>2 DEF FileId, OwnShares
  <2>4. \A x \in share_file_list' :
           x \in share_file_list \/ NotScored(FileId(x))'
    BY <2>2, <2>3 DEF NotScored, FileId
  <2>5. Scores'
    BY <1>2, <2>2, <2>4 DEF Scores, FileId, Members, Listed
  <2> QED
    BY <1>0, <2>2, <2>3, <2>5 DEF KnowsShares
<1>5. CASE ShareZadd
  <2>1. /\ pc[D] = "sh_zadd" /\ pc'[D] = "sh_hset" /\ UNCHANGED share_file_list
        /\ rop_zset_add(FileId(req[D]), 0) /\ req' = req
    BY <1>0, <1>5 DEF ShareZadd, Goto, At, ProcOK, sqlVars
  <2>2. FileId(req[D]) \in FileIds
    BY <1>0, <2>1, RequestType DEF At
  <2>3. \A x \in share_file_list :
           FileId(x) \in Members /\ FileId(x) # FileId(req[D])
              => zset[FileId(x)] <= x.pv
    BY DEF Scores, NotScored
  <2>4. \A x \in share_file_list' :
              FileId(x) \in Members' => zset'[FileId(x)] <= x.pv
    BY <2>1, <2>2, <2>3, ZeroScore
  <2>5. Scores'
    BY <2>4 DEF Scores, FileId
  <2>6. OwnShares(req[D])' # {}
    BY <2>1 DEF KnowsShares, OwnShares
  <2> QED
    BY <1>0, <2>1, <2>5, <2>6 DEF KnowsShares
<1>6. CASE DelDeleteShare
  <2>1. /\ pc[D] = "de_share" /\ pc'[D] = "de_scsel"
        /\ share_file_list' \subseteq share_file_list /\ zset' = zset
    BY <1>0, <1>6 DEF DelDeleteShare, Goto, At, ProcOK, redisVars
  <2>2. Scores'
    BY <1>2, <2>1 DEF Scores, FileId, Members, Listed
  <2> QED
    BY <1>0, <2>1, <2>2 DEF KnowsShares
<1>7. CASE DelZrem
  <2>1. /\ pc[D] = "de_zrem" /\ pc'[D] = "de_hdel" /\ UNCHANGED share_file_list
        /\ zset' = [zset EXCEPT ![FileId(req[D])] = NoRow]
    BY <1>0, <1>7 DEF DelZrem, Goto, At, ProcOK, sqlVars, rop_zset_zrem
  <2>2. \A f \in FileIds : zset'[f] # NoRow => zset'[f] = zset[f]
    BY <2>1 DEF TypeOK, DataOK
  <2>3. Scores'
    BY <1>2, <2>1, <2>2 DEF Scores, FileId, Members, Listed
  <2> QED
    BY <1>0, <2>1, <2>3 DEF KnowsShares
<1>8. CASE ShareNext /\ ~ShareRepair /\ ~ShareInsert /\ ~ShareZadd
  <2>1. SameScores
    BY <1>0, <1>1, <1>8 DEF SameScores, Listed, ShareNext, ShareAccept,
      ShareAskRedis, ShareSelect, ShareSetStatus, ShareSelectCount,
      ShareWriteCount, ShareHset, Accept, Goto, Finish, At, ProcOK, sqlVars,
      redisVars
  <2> QED
    BY <1>0, <2>1, SameScoresKept
<1>9. CASE DelNext /\ ~DelDeleteShare /\ ~DelZrem
  <2>1. SameScores
    BY <1>0, <1>1, <1>9 DEF SameScores, Listed, DelNext, DelAccept,
      DelAskRedis, DelSelectStatus, DelSelectShareCount, DelWriteShareCount,
      DelHdel, DelSelectUserCount, DelWriteUserCount, DelDeleteRow,
      DelSelectInfo, DelUpdateInfo, DelSelectFileId, DelDeleteInfo,
      remove_file_from_storage, Accept, Goto, Finish, At, ProcOK, sqlVars,
      redisVars
  <2> QED
    BY <1>0, <2>1, SameScoresKept
<1>10. CASE PvNext \/ DealFileRefuse
  <2>1. SameScores
    BY <1>0, <1>1, <1>10 DEF SameScores, Listed, PvNext, PvAccept, PvSelect,
      PvUpdate, DealFileRefuse, Refuse, Accept, Goto, Finish, At, ProcOK,
      sqlVars, redisVars
  <2> QED
    BY <1>0, <2>1, SameScoresKept
<1> QED
  BY <1>3, <1>4, <1>5, <1>6, <1>7, <1>8, <1>9, <1>10 DEF DealFileNext

(* The labels at which dealsharefile_cgi.c knows something of a share. *)
LEMMA DealShareKnows ==
    ASSUME pc'[D] = "idle",
           pc'[S] \notin {"ca_zrem", "ca_hdel", "sp_upd", "sp_zset", "sp_incr",
                          "sp_zadd"},
           \A x \in share_file_list' :
              FileId(x) \in Members' => zset'[FileId(x)] <= x.pv
    PROVE  Scores' /\ KnowsShares'
  BY DEF Scores, KnowsShares, NotScored, FileId

(***************************************************************************)
(* pv_file counts in MySQL first: the score is behind when it is raised.   *)
(***************************************************************************)
LEMMA SharePvScores ==
    ASSUME TypeOK, ShareUnique, PvInv, Scores, KnowsShares, sqlErrs = 0,
           sqlErrs' = sqlErrs, SharePvNext, Solo(S)
    PROVE  Scores' /\ KnowsShares'
<1>0. S \in Cgis /\ ProcOK /\ pc[D] = "idle" /\ pc'[D] = "idle"
  BY ServiceLabels DEF TypeOK, Solo, D, S
<1>1. ~SharePvError
  BY SMT, BoundsAssumption DEF SharePvError, SqlErrs, TypeOK, EnvOK
<1>2. \A x \in share_file_list :
         FileId(x) \in Members => zset[FileId(x)] <= x.pv
  BY <1>0 DEF Scores, NotScored
<1>3. PICK f : f = FileId(req[S])
  OBVIOUS
<1>4. \A x \in share_file_list : x.pv \in Int /\ x.pv >= 0 /\ FileId(x) \in FileIds
  BY DEF PvInv, TypeOK, DataOK, ShareRow, FileId, FileIds
<1>5. CASE SharePvSelect
  <2>1. UNCHANGED <<share_file_list, zset>>
    BY <1>5 DEF SharePvSelect, sqlVars, redisVars
  <2>2. CASE Finish(S, "017")
    BY <1>0, <1>2, <2>1, <2>2, IdleScores DEF Finish, ProcOK, Members
  <2>3. CASE ~Finish(S, "017")
    <3>1. PICK x \in SharesOf(f) :
             tmp' = [tmp EXCEPT ![S] = x.pv] /\ Goto(S, "sp_upd")
      BY <1>3, <1>5, <2>3 DEF SharePvSelect
    <3>2. pc'[S] = "sp_upd" /\ tmp'[S] = x.pv /\ req' = req
      BY <1>0, <3>1 DEF Goto, ProcOK
    <3>3. \A y \in SharesOf(f)' : y.pv = tmp'[S]
      BY <2>1, <3>1, <3>2 DEF SharesOf, ShareUnique
    <3>4. Scores'
      BY <1>2, <2>1 DEF Scores, FileId, Members
    <3> QED
      BY <1>0, <1>3, <3>2, <3>3, <3>4 DEF KnowsShares
  <2> QED
    BY <2>2, <2>3
<1>6. CASE SharePvUpdate
  <2> DEFINE Upd(x) == IF FileId(x) = f THEN [x EXCEPT !.pv = tmp[S] + 1]
                                        ELSE x
  <2>1. /\ pc[S] = "sp_upd" /\ pc'[S] = "sp_zset" /\ req' = req /\ tmp' = tmp
        /\ zset' = zset /\ share_file_list' = {Upd(x) : x \in share_file_list}
    BY <1>0, <1>3, <1>6 DEF SharePvUpdate, Goto, At, ProcOK, redisVars
  <2>2. tmp[S] \in Int /\ tmp[S] >= 0
    BY <1>0, <2>1 DEF PvInv, ProcOK, NumLabels
  <2>3. \A x \in share_file_list :
           /\ FileId(Upd(x)) = FileId(x)
           /\ FileId(x) = f => x.pv = tmp[S] /\ Upd(x).pv = tmp[S] + 1
           /\ FileId(x) # f => Upd(x) = x
    BY <1>3, <2>1 DEF KnowsShares, SharesOf, FileId, TypeOK, DataOK, ShareRow
  <2> HIDE DEF Upd
  <2>4. \A x \in share_file_list :
           /\ FileId(x) \in Members => zset[FileId(x)] <= Upd(x).pv
           /\ FileId(x) = f => /\ Upd(x).pv >= 1
                               /\ FileId(x) \in Members =>
                                     zset[FileId(x)] < Upd(x).pv
    BY SMT, <1>2, <1>4, <2>2, <2>3 DEF Members, TypeOK, DataOK
  <2>5. Members' = Members
    BY <2>1 DEF Members
  <2>6. Scores'
    BY <2>1, <2>3, <2>4, <2>5 DEF Scores, FileId
  <2>7. \A y \in SharesOf(f)' :
           /\ y.pv = tmp[S] + 1 /\ y.pv >= 1
           /\ FileId(y) \in Members => zset[FileId(y)] < y.pv
    BY <2>1, <2>3, <2>4 DEF SharesOf
  <2> QED
    BY <1>0, <1>3, <2>1, <2>5, <2>6, <2>7 DEF KnowsShares, FileId
<1>7. CASE SharePvAskRedis
  <2>1. UNCHANGED <<share_file_list, zset>> /\ pc[S] = "sp_zset"
    BY <1>7 DEF SharePvAskRedis, sqlVars, redisVars, At
  <2>2. CASE Finish(S, "017")
    BY <1>0, <1>2, <2>1, <2>2, IdleScores DEF Finish, ProcOK, Members
  <2>3. CASE ~Finish(S, "017")
    <3>1. pc'[S] \in {"sp_incr", "sp_zadd"} /\ req' = req /\ tmp' = tmp
      BY <1>0, <1>7, <2>3 DEF SharePvAskRedis, Goto, ProcOK
    <3>2. SharesOf(f)' = SharesOf(f) /\ Members' = Members
      BY <2>1 DEF SharesOf, Members
    <3>3. Scores'
      BY <1>2, <2>1 DEF Scores, FileId, Members
    <3> QED
      BY <1>0, <1>3, <2>1, <3>1, <3>2, <3>3 DEF KnowsShares, FileId
  <2> QED
    BY <2>2, <2>3
<1>8. CASE rop_zset_increment \/ SharePvZadd
  <2>1. /\ pc[S] \in {"sp_incr", "sp_zadd"} /\ UNCHANGED share_file_list
        /\ pc'[S] \in {"idle", "sp_hset"}
    BY <1>0, <1>8 DEF rop_zset_increment, SharePvZadd, Goto, Finish, At,
      ProcOK, sqlVars
  <2>2. f \in FileIds /\ \A g \in FileIds \ {f} : zset'[g] = zset[g]
    BY <1>0, <1>3, <1>8, <2>1, RequestType
       DEF At, rop_zset_increment, SharePvZadd, rop_zset_add, TypeOK, DataOK
  <2>3. \A x \in SharesOf(f) : zset'[f] <= x.pv
    <3>1. CASE rop_zset_increment
      <4>1. zset'[f] = IF zset[f] = NoRow THEN 1 ELSE zset[f] + 1
        BY <1>3, <2>2, <3>1 DEF rop_zset_increment, TypeOK, DataOK
      <4>2. \A x \in SharesOf(f) :
               x.pv >= 1 /\ (f \in Members => zset[f] < x.pv)
        BY <1>3, <3>1 DEF rop_zset_increment, At, KnowsShares, SharesOf
      <4>3. zset[f] # NoRow => f \in Members /\ zset[f] \in Int
        BY <2>2 DEF Members, TypeOK, DataOK
      <4>4. \A x \in SharesOf(f) : x.pv \in Int
        BY <1>4 DEF SharesOf
      <4> QED
        BY SMT, <4>1, <4>2, <4>3, <4>4
    <3>2. CASE SharePvZadd
      <4>1. zset'[f] = tmp[S] + 1
        BY <1>3, <2>2, <3>2 DEF SharePvZadd, rop_zset_add, TypeOK, DataOK
      <4>2. \A x \in SharesOf(f) : x.pv = tmp[S] + 1 /\ x.pv \in Int
        BY <1>3, <1>4, <3>2 DEF SharePvZadd, At, KnowsShares, SharesOf
      <4> QED
        BY SMT, <4>1, <4>2
    <3> QED
      BY <1>8, <3>1, <3>2
  <2>4. \A x \in share_file_list' :
              FileId(x) \in Members' => zset'[FileId(x)] <= x.pv
    BY <1>2, <1>4, <2>1, <2>2, <2>3 DEF Members, SharesOf
  <2> QED
    BY <1>0, <2>1, <2>4, DealShareKnows
<1>9. CASE SharePvAccept \/ SharePvHset
  <2>1. UNCHANGED <<share_file_list, zset>> /\ pc'[S] \in {"idle", "sp_sel"}
    BY <1>0, <1>9 DEF SharePvAccept, SharePvHset, Accept, Finish, ProcOK,
      sqlVars, redisVars
  <2> QED
    BY <1>0, <1>2, <2>1, DealShareKnows DEF Members
<1> QED
  BY <1>1, <1>5, <1>6, <1>7, <1>8, <1>9 DEF SharePvNext

(* cancel_share_file removes the row, then the score. *)
LEMMA CancelScores ==
    ASSUME TypeOK, Scores, KnowsShares, sqlErrs' = sqlErrs, CancelNext, Solo(S)
    PROVE  Scores' /\ KnowsShares'
<1>0. S \in Cgis /\ ProcOK /\ pc[D] = "idle" /\ pc'[D] = "idle"
  BY ServiceLabels DEF TypeOK, Solo, D, S
<1>1. ~CancelError
  BY SMT, BoundsAssumption DEF CancelError, SqlErrs, TypeOK, EnvOK
<1>2. \A x \in share_file_list :
         FileId(x) \in Members => zset[FileId(x)] <= x.pv
  BY <1>0 DEF Scores, NotScored
<1>3. CASE CancelDeleteShare
  <2>1. /\ pc'[S] = "ca_zrem" /\ req' = req /\ zset' = zset
        /\ share_file_list' = share_file_list \ OwnShares(req[S])
    BY <1>0, <1>3 DEF CancelDeleteShare, Goto, ProcOK, redisVars
  <2>2. OwnShares(req[S])' = {}
    BY <2>1 DEF OwnShares
  <2>3. Scores'
    BY <1>2, <2>1 DEF Scores, FileId, Members
  <2> QED
    BY <1>0, <2>1, <2>2, <2>3 DEF KnowsShares
<1>4. CASE CancelZrem
  <2>1. /\ pc[S] = "ca_zrem" /\ pc'[S] \in {"idle", "ca_hdel"}
        /\ pc'[S] = "ca_hdel" => req' = req
        /\ UNCHANGED share_file_list
        /\ zset' = [zset EXCEPT ![FileId(req[S])] = NoRow]
    BY <1>0, <1>4 DEF CancelZrem, Goto, Finish, At, ProcOK, sqlVars,
      rop_zset_zrem
  <2>2. \A f \in FileIds : zset'[f] # NoRow => zset'[f] = zset[f]
    BY <2>1 DEF TypeOK, DataOK
  <2>3. Scores'
    BY <1>2, <2>1, <2>2 DEF Scores, FileId, Members
  <2>4. OwnShares(req[S]) = {}
    BY <2>1 DEF KnowsShares
  <2>5. pc'[S] = "ca_hdel" => OwnShares(req[S])' = {}
    BY <2>1, <2>4 DEF OwnShares
  <2> QED
    BY <1>0, <2>1, <2>3, <2>5 DEF KnowsShares
<1>5. CASE CancelAccept \/ CancelClearStatus \/ CancelSelectCount
             \/ CancelWriteCount \/ CancelHdel
  <2>1. /\ UNCHANGED <<share_file_list, zset>>
        /\ pc'[S] \in {"idle", "ca_status", "ca_scsel", "ca_scwr", "ca_row"}
    BY <1>0, <1>5 DEF CancelAccept, CancelClearStatus, CancelSelectCount,
      CancelWriteCount, CancelHdel, Accept, Goto, Finish, ProcOK, sqlVars,
      redisVars
  <2> QED
    BY <1>0, <1>2, <2>1, DealShareKnows DEF Members
<1> QED
  BY <1>1, <1>3, <1>4, <1>5 DEF CancelNext

(* save_file does not touch shares or scores. *)
LEMMA SaveScores ==
    ASSUME TypeOK, Scores, sqlErrs' = sqlErrs, SaveNext, Solo(S)
    PROVE  Scores' /\ KnowsShares'
<1>0. S \in Cgis /\ ProcOK /\ pc[D] = "idle" /\ pc'[D] = "idle"
  BY ServiceLabels DEF TypeOK, Solo, D, S
<1>1. ~SaveError
  BY SMT, BoundsAssumption DEF SaveError, SqlErrs, TypeOK, EnvOK
<1>2. /\ UNCHANGED <<share_file_list, zset>>
      /\ pc'[S] \in {"idle", "sv_owned", "sv_info", "sv_inc", "sv_row",
                     "sv_selcnt", "sv_wrcnt"}
  BY <1>0, <1>1 DEF SaveNext, SaveAccept, SaveSelectOwned, SaveSelectInfo,
    SaveUpdateInfo, SaveInsertRow, SaveSelectCount, SaveWriteCount, Accept,
    Goto, Finish, ProcOK, sqlVars, redisVars
<1> QED
  BY <1>0, <1>2, DealShareKnows DEF Members, Scores, NotScored

-----------------------------------------------------------------------------
(* A step without a fault keeps the scores below the counters. *)
LEMMA ScoresStep ==
    ASSUME TypeOK, TypeOK', Alone, UniqueInv, PvInv, Refilled, Scores,
           KnowsShares, [SerialNext]_vars, sqlErrs = 0, sqlErrs' = sqlErrs,
           kills' = kills
    PROVE  Scores' /\ KnowsShares'
<1>0. \A p \in Cgis : ~Kill(p)
  <2>1. kills \in Nat
    BY SMT, BoundsAssumption DEF TypeOK, EnvOK
  <2>2. kills' # kills + 1
    BY SMT, <2>1
  <2> QED
    BY <2>2 DEF Kill
<1>1. ASSUME NEW p \in Cgis, Statement(p)
      PROVE  Scores' /\ KnowsShares'
  <2>1. CASE p \in {"upload", "md5", R}
    BY <1>1, <2>1, OtherScores DEF UniqueInv
  <2>2. CASE p = D
    BY <1>1, <2>2, DealFileScores
       DEF Statement, ServiceStep, DealFileStep, D, S, R
  <2>3. CASE p = S
    BY <1>1, <2>3, SharePvScores, CancelScores, SaveScores
       DEF Statement, ServiceStep, DealShareStep, DealShareFileNext, UniqueInv,
           D, S, R
  <2> QED
    BY <2>1, <2>2, <2>3 DEF Cgis, D, S, R
<1>2. CASE RedisLoss /\ AllIdle
  <2>1. Members' = {} /\ pc'[D] = "idle" /\ pc'[S] = "idle"
    BY <1>2, ServiceLabels DEF RedisLoss, Members, AllIdle, At, procVars
  <2> QED
    BY <2>1, IdleScores
<1>3. CASE Nothing
  <2>1. UNCHANGED <<share_file_list, zset, pc, req, tmp>>
    BY <1>3 DEF Nothing, sqlVars, redisVars
  <2> QED
    BY <2>1 DEF Scores, KnowsShares, NotScored, Members, SharesOf, OwnShares,
      FileId
<1> QED
  BY <1>0, <1>1, <1>2, <1>3, SerialSteps

(* Faults never go away. *)
LEMMA FaultsBefore ==
    ASSUME TypeOK, [SerialNext]_vars
    PROVE  /\ sqlErrs' = 0 => sqlErrs = 0
           /\ NoFault' => NoFault /\ sqlErrs' = sqlErrs /\ kills' = kills
<1>1. [Next]_vars
  BY DEF SerialNext, OneAtATimeNext
<1>2. sqlErrs \in Nat /\ kills \in Nat
  BY SMT, BoundsAssumption DEF TypeOK, EnvOK
<1>3. sqlErrs' >= sqlErrs /\ kills' >= kills
  BY <1>1, FaultsStay
<1> QED
  BY SMT, <1>2, <1>3 DEF NoFault

(* at the start Redis and the share list are empty *)
LEMMA RedisInit == Init => RedisInv
<1> SUFFICES ASSUME Init PROVE RedisInv
  OBVIOUS
<1>1. pc[D] = "idle" /\ pc[S] = "idle" /\ pc[R] = "idle"
  BY ServiceLabels DEF Init, StateInit
<1>2. todo = {} /\ share_file_list = {}
  BY DEF Init, StateInit, ShareFilesInit
<1> QED
  BY <1>1, <1>2 DEF RedisInv, Refilled, Scores, KnowsShares

(* every serial step keeps the invariant of Redis *)
LEMMA RedisStep ==
    ASSUME TypeOK, TypeOK', Alone, UniqueInv, PvInv, RedisInv, [SerialNext]_vars
    PROVE  RedisInv'
<1>1. sqlErrs' = 0 => Refilled'
  BY FaultsBefore, RefillStep DEF UniqueInv, RedisInv
<1>2. NoFault' => Scores' /\ KnowsShares'
  BY FaultsBefore, ScoresStep DEF RedisInv, NoFault
<1> QED
  BY <1>1, <1>2 DEF RedisInv

(* the answers that report success *)
Claims == {"005", "006", "008", "020", "021", "010", "013", "018"}

(* "You have the file now" is true of a user who has a row of it. *)
LEMMA OwnTold ==
    ASSUME Counted, NEW r \in Request, OwnRows(r) # {},
           UNCHANGED <<file_info, user_file_list>>,
           NEW code \in {"005", "006", "008", "020", "021"}
    PROVE  Told(r, code)
<1>1. file_info[r.md5] # NoRow
  BY DEF Counted
<1>2. PICK x \in user_file_list :
         x.user = r.user /\ x.md5 = r.md5 /\ x.filename = r.filename
  BY DEF OwnRows
<1>3. Triples({x}) = Triples({r})
  BY <1>2 DEF Triples
<1> QED
  BY <1>1, <1>2, <1>3 DEF Told

(* upload_cgi.c and md5_cgi.c *)
LEMMA AddTold ==
    ASSUME TypeOK, Balanced, Counted, sqlErrs' = sqlErrs,
           NEW p \in {"upload", "md5"},
           p = "upload" => UploadNext, p = "md5" => Md5Next,
           pc[p] # "idle", pc'[p] = "idle"
    PROVE  Told(req[p], reply'[p])
<1>0. p \in Cgis /\ ProcOK /\ Knows(p)
  BY ServiceLabels DEF TypeOK, Balanced
<1>1. req[p] \in Request
  BY <1>0, RequestType DEF At
<1>2. ~UploadError /\ ~Md5Error
  BY SMT, BoundsAssumption DEF UploadError, Md5Error, SqlErrs, TypeOK, EnvOK
<1>3. \/ reply'[p] \notin Claims
      \/ /\ reply'[p] \in {"005", "006", "008"}
         /\ pc[p] \in {"up_wrcnt", "md_wrcnt"} \/ OwnRows(req[p]) # {}
         /\ UNCHANGED <<file_info, user_file_list>>
  <2>1. CASE p = "upload"
    BY <1>0, <1>2, <2>1 DEF Claims, UploadNext, UploadAccept,
      upload_to_dstorage, UploadInsertInfo, UploadInsertRow,
      UploadSelectCount, UploadWriteCount, Accept, Goto, Finish, At, ProcOK
  <2>2. CASE p = "md5"
    BY <1>0, <1>2, <2>2 DEF Claims, Md5Next, Md5Accept, Md5SelectInfo,
      Md5SelectOwned, Md5UpdateInfo, Md5InsertRow, Md5SelectCount,
      Md5WriteCount, Refuse, Accept, Goto, Finish, At, ProcOK, sqlVars
  <2> QED
    BY <2>1, <2>2
<1>4. {"up_wrcnt", "md_wrcnt"} \subseteq Has
  BY DEF Has, CountBehind
<1>5. CASE reply'[p] \notin Claims
  BY <1>5 DEF Claims, Told
<1>6. CASE reply'[p] \in Claims
  <2>1. OwnRows(req[p]) # {}
    BY <1>0, <1>3, <1>4, <1>6 DEF Knows
  <2> QED
    BY <1>0, <1>1, <1>3, <1>6, <2>1, OwnTold
<1> QED
  BY <1>5, <1>6

(* dealfile_cgi.c: 010 of a listed share, 013 of a deleted file *)
LEMMA DealFileTold ==
    ASSUME TypeOK, Balanced, KnowsShares, sqlErrs' = sqlErrs, DealFileNext,
           pc[D] # "idle", pc'[D] = "idle"
    PROVE  Told(req[D], reply'[D])
<1>0. D \in Cgis /\ ProcOK /\ Knows(D)
  BY ServiceLabels DEF TypeOK, Balanced
<1>1. ~ShareError /\ ~DelError /\ ~PvError
  BY SMT, BoundsAssumption DEF ShareError, DelError, PvError, SqlErrs, TypeOK, EnvOK
<1>2. CASE ShareHset
  <2>1. reply'[D] = "010" /\ UNCHANGED share_file_list
    BY <1>0, <1>2 DEF ShareHset, Finish, ProcOK, sqlVars
  <2>2. PICK x \in share_file_list :
           /\ x.user = req[D].user /\ x.md5 = req[D].md5
           /\ x.filename = req[D].filename
    BY <1>2 DEF ShareHset, At, KnowsShares, OwnShares
  <2>3. Triples({x}) = Triples({req[D]})
    BY <2>2 DEF Triples
  <2> QED
    BY <2>1, <2>2, <2>3 DEF Told
<1>3. CASE (DelUpdateInfo \/ remove_file_from_storage)
  <2>1. /\ reply'[D] = "013" /\ UNCHANGED user_file_list
        /\ pc[D] \in {"de_dec", "de_store"}
    BY <1>0, <1>3 DEF DelUpdateInfo, remove_file_from_storage, Goto, Finish,
      At, ProcOK, sqlVars
  <2>2. OwnRows(req[D]) = {}
    BY <1>0, <2>1 DEF Knows, Lacks, DelTail
  <2>3. Triples({req[D]}) \cap Triples(user_file_list) = {}
    BY SMT, <2>2 DEF Triples, OwnRows
  <2>4. reply'[D] = "013" /\ user_file_list' = user_file_list
    BY <2>1
  <2> QED
    BY <2>3, <2>4 DEF Told, Triples
<1>4. CASE ~ShareHset /\ ~DelUpdateInfo /\ ~remove_file_from_storage
  <2>1. ShareNext => reply'[D] \notin Claims
    BY <1>0, <1>1, <1>4 DEF Claims, ShareNext, ShareAccept, ShareAskRedis,
      ShareSelect, ShareRepair, ShareSetStatus, ShareInsert, ShareSelectCount,
      ShareWriteCount, ShareZadd, Accept, Goto, Finish, At, ProcOK
  <2>2. DelNext => reply'[D] \notin Claims
    BY <1>0, <1>1, <1>4 DEF Claims, DelNext, DelAccept, DelAskRedis,
      DelSelectStatus, DelDeleteShare, DelSelectShareCount, DelWriteShareCount,
      DelZrem, DelHdel, DelSelectUserCount, DelWriteUserCount, DelDeleteRow,
      DelSelectInfo, DelSelectFileId, DelDeleteInfo, Accept, Goto, Finish, At,
      ProcOK
  <2>3. PvNext \/ DealFileRefuse => reply'[D] \notin Claims
    BY <1>0, <1>1 DEF Claims, PvNext, PvAccept, PvSelect, PvUpdate,
      DealFileRefuse, Refuse, Accept, Goto, Finish, At, ProcOK
  <2> QED
    BY <2>1, <2>2, <2>3 DEF DealFileNext, Claims, Told
<1> QED
  BY <1>2, <1>3, <1>4

(* dealsharefile_cgi.c: 018 of a withdrawn share, 020 and 021 of a copy *)
LEMMA DealShareTold ==
    ASSUME TypeOK, Balanced, Counted, KnowsShares, sqlErrs' = sqlErrs,
           DealShareFileNext, pc[S] # "idle", pc'[S] = "idle"
    PROVE  Told(req[S], reply'[S])
<1>0. S \in Cgis /\ ProcOK /\ Knows(S)
  BY ServiceLabels DEF TypeOK, Balanced
<1>1. ~SharePvError /\ ~CancelError /\ ~SaveError
  BY SMT, BoundsAssumption DEF SharePvError, CancelError, SaveError, SqlErrs,
    TypeOK, EnvOK
<1>2. CASE SharePvNext
  <2>1. reply'[S] \notin Claims
    BY <1>0, <1>1, <1>2 DEF Claims, SharePvNext, SharePvAccept, SharePvSelect,
      SharePvUpdate, SharePvAskRedis, rop_zset_increment, SharePvZadd,
      SharePvHset, Accept, Goto, Finish, At, ProcOK
  <2> QED
    BY <2>1 DEF Claims, Told
<1>3. CASE CancelNext /\ ~CancelHdel
  <2>1. reply'[S] \notin Claims
    BY <1>0, <1>1, <1>3 DEF Claims, CancelNext, CancelAccept,
      CancelClearStatus, CancelSelectCount, CancelWriteCount,
      CancelDeleteShare, CancelZrem, Accept, Goto, Finish, At, ProcOK
  <2> QED
    BY <2>1 DEF Claims, Told
<1>4. CASE CancelHdel
  <2>1. /\ reply'[S] \in {"018", "019"} /\ share_file_list' = share_file_list
        /\ OwnShares(req[S]) = {}
    BY <1>0, <1>4 DEF CancelHdel, Finish, At, ProcOK, sqlVars, KnowsShares
  <2>2. Triples({req[S]}) \cap Triples(share_file_list) = {}
    BY SMT, <2>1 DEF Triples, OwnShares
  <2> QED
    BY <2>1, <2>2 DEF Told, Triples
<1>5. CASE SaveNext
  <2>1. \/ reply'[S] \notin Claims
        \/ /\ reply'[S] \in {"020", "021"}
           /\ pc[S] = "sv_wrcnt" \/ OwnRows(req[S]) # {}
           /\ UNCHANGED <<file_info, user_file_list>>
    BY <1>0, <1>1, <1>5 DEF Claims, SaveNext, SaveAccept, SaveSelectOwned,
      SaveSelectInfo, SaveUpdateInfo, SaveInsertRow, SaveSelectCount,
      SaveWriteCount, Accept, Goto, Finish, At, ProcOK, sqlVars
  <2>2. "sv_wrcnt" \in Has
    BY DEF Has, CountBehind
  <2>3. CASE reply'[S] \notin Claims
    BY <2>3 DEF Claims, Told
  <2>4. CASE reply'[S] \in Claims
    <3>1. OwnRows(req[S]) # {} /\ req[S] \in Request
      BY <1>0, <2>1, <2>2, <2>4, RequestType DEF Knows, At
    <3> QED
      BY <1>0, <2>1, <2>4, <3>1, OwnTold
  <2> QED
    BY <2>3, <2>4
<1> QED
  BY <1>2, <1>3, <1>4, <1>5 DEF DealShareFileNext

(* sharefiles_cgi.c claims nothing. *)
LEMMA ShareFilesTold ==
    ASSUME TypeOK, ShareFilesNext, sqlErrs' = sqlErrs, pc[R] # "idle",
           pc'[R] = "idle"
    PROVE  Told(req[R], reply'[R])
<1>1. R \in Cgis /\ ProcOK /\ ~RankError
  BY SMT, ServiceLabels, BoundsAssumption DEF RankError, SqlErrs, TypeOK, EnvOK
<1>2. reply'[R] \notin Claims
  BY <1>1 DEF Claims, ShareFilesNext, RankAccept, RankSelectCount, RankZcard,
    RankDelZset, RankDelHash, RankSelectRows, RankZadd, RankHset,
    rop_zset_zrevrange, RankHget, RankScore, Accept, Goto, Finish, At, ProcOK
<1> QED
  BY <1>2 DEF Claims, Told

-----------------------------------------------------------------------------
(***************************************************************************)
(* The abstract library.                                                   *)
(***************************************************************************)
Held == {m \in Md5s : file_info[m] # NoRow}

(* the file that a request is about *)
FileOf(r) == <<r.user, r.md5, r.filename>>

SameHeld == Held' = Held

SameTriples(rows, after) == Triples(after) = Triples(rows)

(* A statement that changes none of the three is a stutter. *)
LEMMA LibraryStutter ==
    ASSUME SameHeld, SameTriples(user_file_list, user_file_list'),
           SameTriples(share_file_list, share_file_list')
    PROVE  UNCHANGED FL!vars
  BY DEF SameHeld, SameTriples, Held, Triples, FL!vars

(* a step that leaves the rows alone leaves alone which digests are held *)
LEMMA InfoKeepsHeld ==
    ASSUME KeepsInfo
    PROVE  SameHeld
  BY DEF KeepsInfo, SameHeld, Held

(* A request is about one of the files of the library. *)
LEMMA FileOfRequest ==
    ASSUME NEW r \in Request
    PROVE  /\ FileOf(r) \in FL!Files /\ r.md5 \in Md5s
           /\ FileOf(r)[2] = r.md5 /\ FileOf(r)[3] = r.filename
           /\ \A rows : FileOf(r) \in Triples(rows) <=>
                 \E x \in rows : /\ x.user = r.user /\ x.md5 = r.md5
                                 /\ x.filename = r.filename
  BY DEF FileOf, FL!Files, Request, Triples

(* An UPDATE that leaves user, md5 and filename alone changes no file. *)
LEMMA UpdateKeepsTriples ==
    ASSUME NEW rows, NEW f, f \in [rows -> UserRow \cup ShareRow],
           \A x \in rows : /\ f[x].user = x.user
                           /\ f[x].md5 = x.md5
                           /\ f[x].filename = x.filename
    PROVE  SameTriples(rows, {f[x] : x \in rows})
  BY SMT DEF SameTriples, Triples

(* An INSERT adds the file of its row. *)
LEMMA InsertTriples ==
    ASSUME NEW rows, NEW z
    PROVE  Triples(rows \cup {z}) = Triples(rows) \cup {FileOf(z)}
  BY DEF Triples, FileOf

(* The INSERT of a user's row adds a file of a digest that is held. *)
LEMMA InsertAdds ==
    ASSUME Counted, NEW p \in Cgis, req[p] \in Request, pc[p] \in RefAhead,
           OwnRows(req[p]) = {}, InsertUserRow(req[p]),
           UNCHANGED <<file_info, share_file_list>>
    PROVE  FL!Next
<1>1. PICK r \in Request : r = req[p]
  OBVIOUS
<1>2. r.md5 \in Held
  BY <1>1, FileOfRequest DEF Held, Counted
<1>3. FileOf(r) \notin Triples(user_file_list)
  BY SMT, <1>1, FileOfRequest DEF OwnRows
<1>4. Triples(user_file_list') = Triples(user_file_list) \cup {FileOf(r)}
  <2> DEFINE z == [rid |-> nextRow, user |-> r.user, md5 |-> r.md5,
                   filename |-> r.filename, shared_status |-> 0, pv |-> 0]
  <2>1. user_file_list' = user_file_list \cup {z} /\ FileOf(z) = FileOf(r)
    BY <1>1 DEF InsertUserRow, FileOf
  <2> HIDE DEF z
  <2> QED
    BY <2>1, InsertTriples
<1>5. FL!Add(FileOf(r))
  BY <1>2, <1>3, <1>4, FileOfRequest DEF FL!Add, Held, Triples
<1> QED
  BY <1>5, FileOfRequest DEF FL!Next

(* The DELETE of a user's shares withdraws one file. *)
LEMMA DeleteUnshares ==
    ASSUME NEW r \in Request, share_file_list' = share_file_list \ OwnShares(r),
           UNCHANGED <<file_info, user_file_list>>
    PROVE  FL!Next
<1>1. Triples(share_file_list') = Triples(share_file_list) \ {FileOf(r)}
  BY SMT DEF OwnShares, Triples, FileOf
<1>2. FL!Unshare(FileOf(r))
  BY <1>1 DEF FL!Unshare, Triples
<1> QED
  BY <1>2, FileOfRequest DEF FL!Next

(* upload_cgi.c brings the digest, then adds the file. *)
LEMMA UploadLibrary ==
    ASSUME TypeOK, Balanced, Counted, UploadNext, sqlErrs' = sqlErrs
    PROVE  [FL!Next]_(FL!vars)
<1> DEFINE p == "upload"
<1>0. p \in Cgis /\ ProcOK /\ Knows(p)
  BY ServiceLabels DEF TypeOK, Balanced
<1>1. pc[p] # "idle" => req[p] \in Request
  BY <1>0, RequestType DEF At
<1>2. CASE UploadInsertInfo
  <2>1. PICK k \in Md5s : k = req[p].md5
    BY <1>1, <1>2 DEF UploadInsertInfo, At, Request
  <2> DEFINE row == [file_id |-> fileid, count |-> 1]
  <2>2. /\ file_info' = [file_info EXCEPT ![k] = row]
        /\ UNCHANGED <<user_file_list, share_file_list>>
    BY <1>0, <1>2, <2>1 DEF UploadInsertInfo, Knows, At
  <2>3. row # NoRow
    BY SMT, NullAssumption DEF TypeOK, LocalOK, InfoRow
  <2>4. Held' = Held \cup {k}
    BY <2>2, <2>3 DEF Held, TypeOK, DataOK
  <2>5. FL!Bring(k)
    BY <2>2, <2>4 DEF FL!Bring, Held
  <2> QED
    BY <2>5 DEF FL!Next
<1>3. CASE UploadInsertRow
  <2>1. /\ pc[p] = "up_row" /\ InsertUserRow(req[p])
        /\ UNCHANGED <<file_info, share_file_list>>
    BY <1>3 DEF UploadInsertRow, At
  <2>2. pc[p] \in RefAhead /\ OwnRows(req[p]) = {}
    BY <1>0, <2>1 DEF RefAhead, Knows, Lacks
  <2> QED
    BY <1>0, <1>1, <2>1, <2>2, InsertAdds
<1>4. CASE ~UploadInsertInfo /\ ~UploadInsertRow
  <2>1. UNCHANGED <<file_info, user_file_list, share_file_list>>
    BY <1>4 DEF UploadNext, UploadAccept, upload_to_dstorage,
      UploadSelectCount, UploadWriteCount, UploadError, SqlErrs, Accept, sqlVars
  <2> QED
    BY <2>1, LibraryStutter DEF SameHeld, Held, SameTriples
<1> QED
  BY <1>2, <1>3, <1>4

(* md5_cgi.c adds a file. *)
LEMMA Md5Library ==
    ASSUME TypeOK, Balanced, Counted, Md5Next
    PROVE  [FL!Next]_(FL!vars)
<1> DEFINE p == "md5"
<1>0. p \in Cgis /\ ProcOK /\ Knows(p)
  BY ServiceLabels DEF TypeOK, Balanced
<1>1. CASE Md5InsertRow
  <2>1. /\ pc[p] = "md_row" /\ InsertUserRow(req[p])
        /\ UNCHANGED <<file_info, share_file_list>>
    BY <1>1 DEF Md5InsertRow, At
  <2>2. /\ pc[p] \in RefAhead /\ OwnRows(req[p]) = {} /\ req[p] \in Request
    BY <1>0, <2>1, RequestType DEF RefAhead, Knows, Lacks, At
  <2> QED
    BY <1>0, <2>1, <2>2, InsertAdds
<1>2. CASE ~Md5InsertRow
  <2>1. UNCHANGED <<user_file_list, share_file_list>>
    BY <1>2 DEF Md5Next, Md5Accept, Md5SelectInfo, Md5SelectOwned,
      Md5UpdateInfo, Md5SelectCount, Md5WriteCount, Md5Error, SqlErrs, Accept,
      Refuse, sqlVars
  <2> QED
    BY <2>1, Md5KeepsInfo, InfoKeepsHeld, LibraryStutter DEF SameTriples
<1> QED
  BY <1>1, <1>2

(* share_file shares a file of the user's own that nobody shares. *)
LEMMA ShareLibrary ==
    ASSUME TypeOK, Balanced, UniqueInv, sqlErrs = 0, ShareNext
    PROVE  [FL!Next]_(FL!vars)
<1>0. D \in Cgis /\ ProcOK /\ Knows(D)
  BY ServiceLabels DEF TypeOK, Balanced
<1>1. CASE ShareInsert
  <2>1. PICK r \in Request : r = req[D]
    BY <1>0, <1>1, RequestType DEF ShareInsert, At
  <2>2. OwnRows(r) # {} /\ SharesOf(FileId(r)) = {}
    BY ZenonT(30), <1>0, <1>1, <2>1 DEF ShareInsert, At, Knows, UniqueInv, Has,
      DealFileLabels, DelTail
  <2>3. /\ Triples(share_file_list') = Triples(share_file_list) \cup {FileOf(r)}
        /\ UNCHANGED <<file_info, user_file_list>>
    <3> DEFINE z == [rid |-> nextRow, user |-> r.user, md5 |-> r.md5,
                     filename |-> r.filename, pv |-> 0]
    <3>1. share_file_list' = share_file_list \cup {z} /\ FileOf(z) = FileOf(r)
      BY <1>1, <2>1 DEF ShareInsert, FileOf
    <3> HIDE DEF z
    <3> QED
      BY SMT, <1>1, <3>1, InsertTriples DEF ShareInsert
  <2>4. \A g \in Triples(share_file_list) : <<g[2], g[3]>> # <<r.md5, r.filename>>
    BY SMT, <2>2 DEF SharesOf, FileId, Triples
  <2>5. FileOf(r) \in Triples(user_file_list)
    BY <2>2, FileOfRequest DEF OwnRows
  <2>6. FL!Share(FileOf(r))
    BY <2>3, <2>4, <2>5, FileOfRequest DEF FL!Share, Triples
  <2> QED
    BY <2>6, FileOfRequest DEF FL!Next
<1>2. CASE ShareSetStatus
  <2> DEFINE f == [x \in user_file_list |->
                IF x \in OwnRows(req[D]) THEN [x EXCEPT !.shared_status = 1]
                                         ELSE x]
  <2>1. /\ user_file_list' = {f[x] : x \in user_file_list}
        /\ UNCHANGED <<file_info, share_file_list>>
    BY <1>2 DEF ShareSetStatus
  <2>2. /\ f \in [user_file_list -> UserRow \cup ShareRow]
        /\ \A x \in user_file_list : /\ f[x].user = x.user /\ f[x].md5 = x.md5
                                     /\ f[x].filename = x.filename
    BY SMT DEF TypeOK, DataOK, UserRow
  <2> HIDE DEF f
  <2>3. SameTriples(user_file_list, user_file_list')
    BY SMT, <2>1, <2>2, UpdateKeepsTriples
  <2> QED
    BY <2>1, <2>3, LibraryStutter DEF SameHeld, Held, SameTriples
<1>3. CASE ~ShareInsert /\ ~ShareSetStatus
  <2>1. UNCHANGED <<file_info, user_file_list, share_file_list>>
    BY <1>3 DEF ShareNext, ShareAccept, ShareAskRedis, ShareSelect,
      ShareRepair, ShareSelectCount, ShareWriteCount, ShareZadd, ShareHset,
      ShareError, SqlErrs, Accept, sqlVars
  <2> QED
    BY <2>1, LibraryStutter DEF SameHeld, Held, SameTriples
<1> QED
  BY <1>1, <1>2, <1>3

(* del_file withdraws the share, gives the file up, discards the content. *)
LEMMA DelLibrary ==
    ASSUME TypeOK, Balanced, Counted, DelNext
    PROVE  [FL!Next]_(FL!vars)
<1>0. D \in Cgis /\ ProcOK /\ Knows(D)
  BY ServiceLabels DEF TypeOK, Balanced
<1>1. CASE DelDeleteShare
  <2>1. req[D] \in Request
    BY <1>0, <1>1, RequestType DEF DelDeleteShare, At
  <2> QED
    BY <1>1, <2>1, DeleteUnshares DEF DelDeleteShare
<1>2. CASE DelDeleteRow
  <2>1. PICK r \in Request : r = req[D]
    BY <1>0, <1>2, RequestType DEF DelDeleteRow, At
  <2>2. /\ user_file_list' = user_file_list \ OwnRows(r)
        /\ UNCHANGED <<file_info, share_file_list>>
    BY <1>2, <2>1 DEF DelDeleteRow
  <2>3. Triples(user_file_list') = Triples(user_file_list) \ {FileOf(r)}
    BY SMT, <2>2 DEF OwnRows, Triples, FileOf
  <2>4. FL!GiveUp(FileOf(r))
    BY <2>2, <2>3 DEF FL!GiveUp, Triples
  <2> QED
    BY <2>4, FileOfRequest DEF FL!Next
<1>3. CASE DelDeleteInfo
  <2>1. PICK k \in Md5s : k = req[D].md5
    BY <1>0, <1>3, RequestType DEF DelDeleteInfo, At
  <2>2. /\ file_info' = [file_info EXCEPT ![k] = NoRow]
        /\ UNCHANGED <<user_file_list, share_file_list>>
    BY <1>3, <2>1 DEF DelDeleteInfo
  <2>3. Held' = Held \ {k}
    BY <2>2 DEF Held, TypeOK, DataOK
  <2>4. \A f \in Triples(user_file_list) : f[2] # k
    BY SMT, <1>3, <2>1 DEF Counted, UnreferencedWhenGone, DelDeleteInfo, At, Triples
  <2>5. FL!Discard(k)
    BY <2>2, <2>3, <2>4 DEF FL!Discard, Held
  <2> QED
    BY <2>5 DEF FL!Next
<1>4. CASE ~DelDeleteShare /\ ~DelDeleteRow /\ ~DelDeleteInfo
  <2>1. SameHeld
    <3>1. CASE remove_file_from_storage
      BY <3>1 DEF remove_file_from_storage, sqlVars, SameHeld, Held
    <3>2. CASE ~remove_file_from_storage
      BY <1>4, <3>2, DealFileKeepsInfo, InfoKeepsHeld DEF DealFileNext
    <3> QED
      BY <3>1, <3>2
  <2>2. UNCHANGED <<user_file_list, share_file_list>>
    BY <1>4 DEF DelNext, DelAccept, DelAskRedis, DelSelectStatus,
      DelSelectShareCount, DelWriteShareCount, DelZrem, DelHdel,
      DelSelectUserCount, DelWriteUserCount, DelSelectInfo, DelUpdateInfo,
      DelSelectFileId, remove_file_from_storage, DelError, SqlErrs, Accept,
      sqlVars
  <2> QED
    BY <2>1, <2>2, LibraryStutter DEF SameTriples
<1> QED
  BY <1>1, <1>2, <1>3, <1>4

(* dealfile_cgi.c *)
LEMMA DealFileLibrary ==
    ASSUME TypeOK, Balanced, Counted, UniqueInv, sqlErrs = 0, DealFileNext
    PROVE  [FL!Next]_(FL!vars)
<1>2. CASE PvUpdate
  <2> DEFINE f == [x \in user_file_list |->
                IF x \in OwnRows(req[D]) THEN [x EXCEPT !.pv = tmp[D] + 1]
                                         ELSE x]
  <2>1. /\ user_file_list' = {f[x] : x \in user_file_list}
        /\ UNCHANGED <<file_info, share_file_list>>
    BY <1>2 DEF PvUpdate
  <2>2. tmp[D] \in Int
    BY <1>2, ServiceLabels DEF PvUpdate, At, TypeOK, ProcOK, NumLabels
  <2>3. /\ f \in [user_file_list -> UserRow \cup ShareRow]
        /\ \A x \in user_file_list : /\ f[x].user = x.user /\ f[x].md5 = x.md5
                                     /\ f[x].filename = x.filename
    BY SMT, <2>2 DEF TypeOK, DataOK, UserRow
  <2> HIDE DEF f
  <2>4. SameTriples(user_file_list, user_file_list')
    BY SMT, <2>1, <2>3, UpdateKeepsTriples
  <2> QED
    BY <2>1, <2>4, LibraryStutter DEF SameHeld, Held, SameTriples
<1>3. CASE (PvNext /\ ~PvUpdate) \/ DealFileRefuse
  <2>1. UNCHANGED <<file_info, user_file_list, share_file_list>>
    BY <1>3 DEF PvNext, PvAccept, PvSelect, PvError, DealFileRefuse, Refuse,
      SqlErrs, Accept, sqlVars
  <2> QED
    BY <2>1, LibraryStutter DEF SameHeld, Held, SameTriples
<1> QED
  BY <1>2, <1>3, ShareLibrary, DelLibrary DEF DealFileNext

(* dealsharefile_cgi.c withdraws a share or adds a copy. *)
LEMMA DealShareLibrary ==
    ASSUME TypeOK, Balanced, Counted, DealShareFileNext
    PROVE  [FL!Next]_(FL!vars)
<1>0. S \in Cgis /\ ProcOK /\ Knows(S)
  BY ServiceLabels DEF TypeOK, Balanced
<1>1. SameHeld
  BY DealShareKeepsInfo, InfoKeepsHeld
<1>2. CASE SharePvUpdate
  <2> DEFINE f == [x \in share_file_list |->
                IF FileId(x) = FileId(req[S]) THEN [x EXCEPT !.pv = tmp[S] + 1]
                                              ELSE x]
  <2>1. share_file_list' = {f[x] : x \in share_file_list}
        /\ UNCHANGED user_file_list
    BY <1>2 DEF SharePvUpdate
  <2>2. tmp[S] \in Int
    BY <1>0, <1>2 DEF SharePvUpdate, At, ProcOK, NumLabels
  <2>3. /\ f \in [share_file_list -> UserRow \cup ShareRow]
        /\ \A x \in share_file_list : /\ f[x].user = x.user /\ f[x].md5 = x.md5
                                      /\ f[x].filename = x.filename
    BY SMT, <2>2 DEF TypeOK, DataOK, ShareRow
  <2> HIDE DEF f
  <2>4. SameTriples(share_file_list, share_file_list')
    BY SMT, <2>1, <2>3, UpdateKeepsTriples
  <2> QED
    BY <1>1, <2>1, <2>4, LibraryStutter DEF SameTriples
<1>3. CASE CancelClearStatus
  <2> DEFINE f == [x \in user_file_list |->
                IF x \in OwnRows(req[S]) THEN [x EXCEPT !.shared_status = 0]
                                         ELSE x]
  <2>1. user_file_list' = {f[x] : x \in user_file_list}
        /\ UNCHANGED share_file_list
    BY <1>3 DEF CancelClearStatus
  <2>2. /\ f \in [user_file_list -> UserRow \cup ShareRow]
        /\ \A x \in user_file_list : /\ f[x].user = x.user /\ f[x].md5 = x.md5
                                     /\ f[x].filename = x.filename
    BY SMT DEF TypeOK, DataOK, UserRow
  <2> HIDE DEF f
  <2>3. SameTriples(user_file_list, user_file_list')
    BY SMT, <2>1, <2>2, UpdateKeepsTriples
  <2> QED
    BY <1>1, <2>1, <2>3, LibraryStutter DEF SameTriples
<1>4. CASE CancelDeleteShare
  <2>1. req[S] \in Request
    BY <1>0, <1>4, RequestType DEF CancelDeleteShare, At
  <2> QED
    BY <1>4, <2>1, DeleteUnshares DEF CancelDeleteShare
<1>5. CASE SaveInsertRow
  <2>1. /\ pc[S] = "sv_row" /\ InsertUserRow(req[S])
        /\ UNCHANGED <<file_info, share_file_list>>
    BY <1>5 DEF SaveInsertRow, At
  <2>2. pc[S] \in RefAhead /\ OwnRows(req[S]) = {} /\ req[S] \in Request
    BY <1>0, <2>1, RequestType DEF RefAhead, Knows, Lacks, At
  <2> QED
    BY <1>0, <2>1, <2>2, InsertAdds
<1>6. CASE /\ ~SharePvUpdate /\ ~CancelClearStatus /\ ~CancelDeleteShare
           /\ ~SaveInsertRow
  <2>1. UNCHANGED <<user_file_list, share_file_list>>
    BY <1>6 DEF DealShareFileNext, SharePvNext, SharePvAccept, SharePvSelect,
      SharePvAskRedis, rop_zset_increment, SharePvZadd, SharePvHset,
      SharePvError, CancelNext, CancelAccept, CancelSelectCount,
      CancelWriteCount, CancelZrem, CancelHdel, CancelError, SaveNext,
      SaveAccept, SaveSelectOwned, SaveSelectInfo, SaveUpdateInfo,
      SaveSelectCount, SaveWriteCount, SaveError, SqlErrs, Accept, sqlVars
  <2> QED
    BY <1>1, <2>1, LibraryStutter DEF SameTriples
<1> QED
  BY <1>2, <1>3, <1>4, <1>5, <1>6

(* sharefiles_cgi.c writes nothing to MySQL. *)
LEMMA ShareFilesLibrary ==
    ASSUME ShareFilesNext
    PROVE  UNCHANGED FL!vars
<1>1. UNCHANGED <<file_info, user_file_list, share_file_list>>
  BY DEF ShareFilesNext, RankAccept, RankSelectCount, RankZcard, RankDelZset,
    RankDelHash, RankSelectRows, RankZadd, RankHset, rop_zset_zrevrange,
    RankHget, RankScore, RankError, SqlErrs, Accept, sqlVars
<1> QED
  BY <1>1, LibraryStutter DEF SameHeld, Held, SameTriples
===========================================================================
