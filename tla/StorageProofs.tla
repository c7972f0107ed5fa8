-------------------------- MODULE StorageProofs --------------------------
(*************************************************************************)
(* The types, and content that stays.  No row of file_info ever names a  *)
(* file that FastDFS has lost.  That is not inductive by itself; StorageInv *)
(* adds where the ids an upload and a delete have in hand may occur.  The *)
(* type invariant and StorageInv are proved together: del_file reads the row *)
(* that StorageInv says is still there.  With them every step of the     *)
(* services maps to a step of ContentStore or to a stutter.              *)
(*************************************************************************)
EXTENDS StepFacts, FiniteSetTheorems

(* a leaf is left to Zenon unless it cites another prover *)
USE Zenon

(***************************************************************************)
(* The program points of every service are labels, and "idle" is none of   *)
(* them.                                                                   *)
(***************************************************************************)
LEMMA LabelFacts ==
    /\ \A p \in Cgis : LabelsOf(p) \subseteq Labels
    /\ \A p \in Cgis : "idle" \notin LabelsOf(p)
    /\ "idle" \in Labels
    /\ "idle" \notin NumLabels
<1>1. \A p \in Cgis : LabelsOf(p) \subseteq Labels
  BY DEF Labels
<1>2. \A p \in Cgis : "idle" \notin LabelsOf(p)
  BY DEF LabelsOf, UploadLabels, Md5Labels, DealFileLabels, DealShareLabels,
         ShareFilesLabels, Cgis, D, S, R
<1> QED
  BY <1>1, <1>2 DEF Labels, NumLabels

(***************************************************************************)
(* A handler that goes on to its next statement stays well typed, provided *)
(* that it has read a number where that statement computes with one.       *)
(***************************************************************************)
LEMMA GotoType ==
    ASSUME ProcOK, NEW p \in Cgis, NEW l \in LabelsOf(p), ~At(p, "idle"),
           Goto(p, l),
           tmp' \in [Cgis -> Int \cup {NoRow, Failed}],
           \A q \in Cgis \ {p} : tmp'[q] = tmp[q],
           l \in NumLabels => tmp'[p] \in Int
    PROVE  ProcOK'
<1>1. l # "idle" /\ l \in Labels
  BY LabelFacts
<1>2. /\ pc' \in [Cgis -> Labels]
      /\ pc'[p] = l
      /\ \A q \in Cgis \ {p} : pc'[q] = pc[q]
  BY <1>1 DEF ProcOK, Goto
<1> QED
  BY <1>1, <1>2 DEF ProcOK, Goto, At

(* A handler that answers leaves a well typed idle process behind. *)
LEMMA FinishType ==
    ASSUME ProcOK, NEW p \in Cgis, NEW code \in Codes, Finish(p, code)
    PROVE  ProcOK'
<1>1. /\ pc' \in [Cgis -> Labels]
      /\ reply' \in [Cgis -> Codes]
      /\ req' \in [Cgis -> Requests \cup {NoReq}]
      /\ tmp' \in [Cgis -> Int \cup {NoRow, Failed}]
  BY LabelFacts DEF ProcOK, Finish
<1>2. pc'[p] = "idle" /\ req'[p] = NoReq
  BY DEF ProcOK, Finish
<1>4. \A q \in Cgis \ {p} : pc'[q] = pc[q] /\ req'[q] = req[q] /\ tmp'[q] = tmp[q]
  BY DEF ProcOK, Finish
<1> QED
  BY <1>1, <1>2, <1>4, LabelFacts DEF ProcOK

(* FCGI_Accept: the process takes a request and starts its handler. *)
LEMMA AcceptType ==
    ASSUME ProcOK, EnvOK, NEW p \in Cgis, NEW cmd, NEW l \in LabelsOf(p),
           l \notin NumLabels,
           Accept(p, cmd, l)
    PROVE  ProcOK' /\ EnvOK'
<1>1. PICK r \in Requests : req' = [req EXCEPT ![p] = r]
  BY DEF Accept
<1>2. r # NoReq
  BY RequestsAssumption, NullAssumption
<1>a. l # "idle" /\ l \in Labels
  BY LabelFacts
<1>b. /\ pc' \in [Cgis -> Labels]
      /\ reply' \in [Cgis -> Codes]
      /\ req' \in [Cgis -> Requests \cup {NoReq}]
  BY <1>1, <1>a DEF ProcOK, Accept, Codes
<1>c. /\ pc'[p] = l
      /\ req'[p] = r
      /\ \A q \in Cgis \ {p} : pc'[q] = pc[q] /\ req'[q] = req[q]
  BY <1>1 DEF ProcOK, Accept
<1>3. ProcOK'
  BY <1>2, <1>a, <1>b, <1>c DEF ProcOK, Accept
<1>4. EnvOK'
  BY SMT, BoundsAssumption DEF EnvOK, Accept
<1> QED
  BY <1>3, <1>4

(* A request with a bad token is answered 111 and changes no type. *)
LEMMA RefuseType ==
    ASSUME ProcOK, EnvOK, NEW p \in Cgis, Refuse(p)
    PROVE  ProcOK' /\ EnvOK'
<1>1. reply' \in [Cgis -> Codes]
  BY DEF ProcOK, Refuse, Codes
<1> QED
  BY SMT, <1>1, BoundsAssumption DEF ProcOK, EnvOK, Refuse

(* A step that writes to no store leaves the stores well typed. *)
LEMMA DataUnchanged ==
    ASSUME DataOK, UNCHANGED <<sqlVars, redisVars, storeVars>>
    PROVE  DataOK'
  BY DEF DataOK, sqlVars, redisVars, storeVars

(* A step that uses up no bound leaves the counts within their bounds. *)
LEMMA EnvUnchanged ==
    ASSUME EnvOK, UNCHANGED envVars
    PROVE  EnvOK'
  BY DEF EnvOK, envVars

(* A failing statement writes nothing and is counted within its bound. *)
LEMMA SqlErrsType ==
    ASSUME DataOK, EnvOK, NEW p \in Cgis, SqlErrs(p)
    PROVE  DataOK' /\ EnvOK'
  BY SMT, DataUnchanged, BoundsAssumption DEF SqlErrs, EnvOK

(***************************************************************************)
(* update file_info set count = n keeps the table well typed, row or no    *)
(* row.                                                                    *)
(***************************************************************************)
LEMMA UpdateInfoType ==
    ASSUME DataOK, NEW m \in Md5s, NEW n \in Int, UpdateInfoCount(m, n)
    PROVE  file_info' \in [Md5s -> InfoRow \cup {NoRow}]
<1>1. CASE file_info[m] = NoRow
  BY <1>1 DEF DataOK, UpdateInfoCount
<1>2. CASE file_info[m] # NoRow
  <2>1. file_info[m] \in InfoRow
    BY <1>2 DEF DataOK
  <2>2. [file_id |-> file_info[m].file_id, count |-> n] \in InfoRow
    BY <2>1 DEF InfoRow
  <2> QED
    BY <1>2, <2>2 DEF DataOK, UpdateInfoCount
<1> QED
  BY <1>1, <1>2

(* insert into user_file_list adds one well typed row. *)
LEMMA InsertRowType ==
    ASSUME DataOK, NEW r \in Request, InsertUserRow(r)
    PROVE  user_file_list' \subseteq UserRow /\ nextRow' \in Nat
<1>1. [rid |-> nextRow, user |-> r.user, md5 |-> r.md5,
       filename |-> r.filename, shared_status |-> 0, pv |-> 0] \in UserRow
  BY SMT DEF DataOK, UserRow, Request
<1> QED
  BY SMT, <1>1 DEF DataOK, InsertUserRow

(***************************************************************************)
(* The three ways the count of user_file_count is written back give a      *)
(* count or no row.                                                        *)
(***************************************************************************)
LEMMA BumpType ==
    ASSUME DataOK, ProcOK, NEW p \in Cgis, NEW k \in CountKeys
    PROVE  CountAfterBump(p, k) \in [CountKeys -> Int \cup {NoRow}]
<1>1. tmp[p] \in Int \cup {NoRow, Failed}
  BY DEF ProcOK
<1> QED
  BY SMT, <1>1 DEF DataOK, CountAfterBump

(***************************************************************************)
(* select count from user_file_count leaves a count or "no row" in the     *)
(* local of the process, and no other local changes.                       *)
(***************************************************************************)
LEMMA SelectCountType ==
    ASSUME DataOK, ProcOK, NEW p \in Cgis, NEW k \in CountKeys, SelectCount(p, k)
    PROVE  /\ tmp' \in [Cgis -> Int \cup {NoRow, Failed}]
           /\ \A q \in Cgis \ {p} : tmp'[q] = tmp[q]
           /\ tmp'[p] = user_file_count[k]
           /\ user_file_count[k] # NoRow => tmp'[p] \in Int
  BY DEF DataOK, ProcOK, SelectCount

(* What a SELECT returned is put into the local of one process. *)
LEMMA TmpType ==
    ASSUME ProcOK, NEW p \in Cgis, NEW n \in Int \cup {NoRow, Failed},
           tmp' = [tmp EXCEPT ![p] = n]
    PROVE  /\ tmp' \in [Cgis -> Int \cup {NoRow, Failed}]
           /\ \A q \in Cgis \ {p} : tmp'[q] = tmp[q]
           /\ tmp'[p] = n
  BY DEF ProcOK

(* A statement that returns nothing leaves the locals of all processes. *)
LEMMA TmpSame ==
    ASSUME ProcOK, UNCHANGED tmp
    PROVE  /\ tmp' \in [Cgis -> Int \cup {NoRow, Failed}]
           /\ \A q \in Cgis : tmp'[q] = tmp[q]
  BY DEF ProcOK

-----------------------------------------------------------------------------
(* The UPDATEs of shared_status and of pv keep user_file_list well typed. *)
LEMMA UserRowsType ==
    ASSUME DataOK, NEW r, NEW v \in {0, 1}, NEW n \in Int
    PROVE  /\ {IF x \in OwnRows(r) THEN [x EXCEPT !.shared_status = v] ELSE x
                 : x \in user_file_list} \subseteq UserRow
           /\ {IF x \in OwnRows(r) THEN [x EXCEPT !.pv = n] ELSE x
                 : x \in user_file_list} \subseteq UserRow
<1>1. \A x \in user_file_list : x \in UserRow
  BY DEF DataOK
<1>2. \A x \in UserRow : /\ [x EXCEPT !.shared_status = v] \in UserRow
                         /\ [x EXCEPT !.pv = n] \in UserRow
  BY DEF UserRow
<1> QED
  BY <1>1, <1>2

(* A handler that goes on without reading anything stays well typed. *)
LEMMA GotoSame ==
    ASSUME ProcOK, NEW p \in Cgis, NEW l \in LabelsOf(p), ~At(p, "idle"),
           Goto(p, l), UNCHANGED tmp,
           l \in NumLabels => pc[p] \in NumLabels
    PROVE  ProcOK'
<1>1. l \in NumLabels => tmp'[p] \in Int
  BY DEF ProcOK
<1> QED
  BY <1>1, GotoType, TmpSame

(* A process killed between two statements is idle and well typed again. *)
LEMMA KillType ==
    ASSUME TypeOK, NEW p \in Cgis, Kill(p)
    PROVE  TypeOK'
<1>1. DataOK'
  BY DataUnchanged DEF TypeOK, Kill
<1>2. ProcOK'
  BY FinishType DEF TypeOK, Kill, Codes
<1>3. LocalOK'
  BY DEF TypeOK, LocalOK, Kill
<1>4. EnvOK'
  BY SMT, BoundsAssumption DEF TypeOK, EnvOK, Kill
<1> QED
  BY <1>1, <1>2, <1>3, <1>4 DEF TypeOK

(* A Redis that comes back empty is well typed. *)
LEMMA RedisLossType ==
    ASSUME TypeOK, RedisLoss
    PROVE  TypeOK'
<1>1. DataOK'
  BY DEF TypeOK, DataOK, RedisLoss, sqlVars, storeVars
<1>2. ProcOK'
  BY DEF TypeOK, ProcOK, RedisLoss, procVars
<1>3. LocalOK'
  BY DEF TypeOK, LocalOK, RedisLoss, localVars, dealfileVars, sharefilesVars
<1>4. EnvOK'
  BY SMT, BoundsAssumption DEF TypeOK, EnvOK, RedisLoss
<1> QED
  BY <1>1, <1>2, <1>3, <1>4 DEF TypeOK

-----------------------------------------------------------------------------
(***************************************************************************)
(* Every statement of pv_file, cancel_share_file and save_file of          *)
(* dealsharefile_cgi.c keeps the types.                                    *)
(***************************************************************************)
LEMMA DealShareType ==
    ASSUME TypeOK, DealShareFileNext, UNCHANGED localVars
    PROVE  TypeOK'
<1>a. DataOK /\ ProcOK /\ LocalOK /\ EnvOK
  BY DEF TypeOK
<1>b. S \in Cgis /\ DealShareLabels = LabelsOf(S)
  BY ServiceLabels
<1>c. LocalOK'
  BY <1>a DEF LocalOK, localVars, dealfileVars, sharefilesVars
<1>d. ~At(S, "idle") => /\ FileId(req[S]) \in FileIds
                        /\ req[S] \in Request
                        /\ req[S].user \in CountKeys
                        /\ req[S].md5 \in Md5s
  BY <1>a, <1>b, RequestType
<1>e. ShareKey \in CountKeys
  BY DEF CountKeys
<1>f. pc[S] \in NumLabels => tmp[S] \in Int
  BY <1>a, <1>b DEF ProcOK
<1>1. CASE SharePvAccept \/ CancelAccept \/ SaveAccept
  <2>1. /\ {"sp_sel", "ca_status", "sv_owned"} \subseteq DealShareLabels
        /\ {"sp_sel", "ca_status", "sv_owned"} \cap NumLabels = {}
    BY DEF DealShareLabels, NumLabels
  <2>2. PICK cmd \in Cmds, l \in {"sp_sel", "ca_status", "sv_owned"} :
           Accept(S, cmd, l)
    BY <1>1 DEF SharePvAccept, CancelAccept, SaveAccept, Cmds
  <2>3. ProcOK' /\ EnvOK'
    BY <1>a, <1>b, <2>1, <2>2, AcceptType
  <2> QED
    BY <1>a, <1>c, <2>2, <2>3, DataUnchanged DEF Accept, TypeOK
<1>2. CASE SharePvSelect
  <2>1. ~At(S, "idle")
    BY <1>2 DEF SharePvSelect, At
  <2>2. ProcOK'
    <3>1. CASE Finish(S, "017")
      BY <3>1, <1>a, <1>b, FinishType DEF Codes
    <3>2. CASE \E x \in share_file_list : /\ tmp' = [tmp EXCEPT ![S] = x.pv]
                                          /\ Goto(S, "sp_upd")
      <4>1. PICK x \in share_file_list : /\ tmp' = [tmp EXCEPT ![S] = x.pv]
                                         /\ Goto(S, "sp_upd")
        BY <3>2
      <4>2. x.pv \in Int
        BY <1>a DEF DataOK, ShareRow
      <4> QED
        BY <1>a, <1>b, <2>1, <4>1, <4>2, GotoType, TmpType DEF DealShareLabels
    <3> QED
      BY <1>2, <3>1, <3>2 DEF SharePvSelect, SharesOf
  <2> QED
    BY <1>2, <1>a, <1>c, <2>2, DataUnchanged, EnvUnchanged
       DEF SharePvSelect, TypeOK
<1>3. CASE SharePvUpdate
  <2>1. ~At(S, "idle") /\ pc[S] \in NumLabels
    BY <1>3 DEF SharePvUpdate, At, NumLabels
  <2>2. ProcOK'
    BY <1>3, <1>a, <1>b, <2>1, GotoSame DEF SharePvUpdate, DealShareLabels
  <2>3. \A x \in ShareRow : [x EXCEPT !.pv = tmp[S] + 1] \in ShareRow
    BY SMT, <1>f, <2>1 DEF ShareRow
  <2>4. DataOK'
    BY <1>3, <1>a, <2>3 DEF SharePvUpdate, DataOK, redisVars, storeVars
  <2> QED
    BY <1>3, <1>a, <1>c, <2>2, <2>4, EnvUnchanged DEF SharePvUpdate, TypeOK
<1>4. CASE SharePvAskRedis
  <2>1. ~At(S, "idle") /\ pc[S] \in NumLabels
    BY <1>4 DEF SharePvAskRedis, At, NumLabels
  <2>2. ProcOK'
    BY <1>4, <1>a, <1>b, <2>1, FinishType, GotoSame
       DEF SharePvAskRedis, DealShareLabels, Codes
  <2> QED
    BY <1>4, <1>a, <1>c, <2>2, DataUnchanged, EnvUnchanged
       DEF SharePvAskRedis, TypeOK
<1>5. CASE rop_zset_increment
  <2>1. ~At(S, "idle")
    BY <1>5 DEF rop_zset_increment, At
  <2>2. ProcOK'
    BY <1>5, <1>a, <1>b, FinishType DEF rop_zset_increment, Codes
  <2>3. zset' \in [FileIds -> Int \cup {NoRow}]
    BY SMT, <1>5, <1>a, <1>d, <2>1 DEF rop_zset_increment, DataOK
  <2>4. UNCHANGED <<sqlVars, hash, storeVars>>
    BY <1>5 DEF rop_zset_increment
  <2>5. DataOK'
    BY <1>a, <2>3, <2>4 DEF DataOK, sqlVars, storeVars
  <2> QED
    BY <1>5, <1>a, <1>c, <2>2, <2>5, EnvUnchanged DEF rop_zset_increment, TypeOK
<1>6. CASE SharePvZadd
  <2>1. ~At(S, "idle") /\ pc[S] \in NumLabels
    BY <1>6 DEF SharePvZadd, At, NumLabels
  <2>2. ProcOK'
    BY <1>6, <1>a, <1>b, <2>1, GotoSame DEF SharePvZadd, DealShareLabels
  <2>3. tmp[S] + 1 \in Int /\ FileId(req[S]) \in FileIds
    BY SMT, <1>d, <1>f, <2>1
  <2>4. zset' \in [FileIds -> Int \cup {NoRow}]
    BY <1>6, <1>a, <2>3 DEF SharePvZadd, rop_zset_add, DataOK
  <2>5. UNCHANGED <<sqlVars, hash, storeVars>>
    BY <1>6 DEF SharePvZadd
  <2>6. DataOK'
    BY <1>a, <2>4, <2>5 DEF DataOK, sqlVars, storeVars
  <2> QED
    BY <1>6, <1>a, <1>c, <2>2, <2>6, EnvUnchanged DEF SharePvZadd, TypeOK
<1>7. CASE SharePvHset
  <2>1. ProcOK'
    BY <1>7, <1>a, <1>b, FinishType DEF SharePvHset, Codes
  <2>2. DataOK'
    BY <1>7, <1>a, <1>d
       DEF SharePvHset, At, rop_hash_set, DataOK, sqlVars, storeVars
  <2> QED
    BY <1>7, <1>a, <1>c, <2>1, <2>2, EnvUnchanged DEF SharePvHset, TypeOK
<1>8. CASE SharePvError \/ CancelError
  BY <1>8, <1>a, <1>b, <1>c, SqlErrsType, FinishType
     DEF SharePvError, CancelError, Codes, TypeOK
<1>9. CASE CancelClearStatus
  <2>1. ~At(S, "idle")
    BY <1>9 DEF CancelClearStatus, At
  <2>2. ProcOK'
    BY <1>9, <1>a, <1>b, <2>1, GotoSame
       DEF CancelClearStatus, DealShareLabels, NumLabels
  <2>3. DataOK'
    BY SMT, <1>9, <1>a, UserRowsType
       DEF CancelClearStatus, DataOK, redisVars, storeVars
  <2> QED
    BY <1>9, <1>a, <1>c, <2>2, <2>3, EnvUnchanged DEF CancelClearStatus, TypeOK
<1>10. CASE CancelSelectCount
  <2>1. ~At(S, "idle")
    BY <1>10 DEF CancelSelectCount, At
  <2>2. ProcOK'
    BY <1>10, <1>a, <1>b, <1>e, <2>1, FinishType, GotoType, SelectCountType
       DEF CancelSelectCount, DealShareLabels, Codes
  <2> QED
    BY <1>10, <1>a, <1>c, <2>2, DataUnchanged, EnvUnchanged
       DEF CancelSelectCount, TypeOK
<1>11. CASE CancelWriteCount
  <2>1. ~At(S, "idle") /\ pc[S] \in NumLabels
    BY <1>11 DEF CancelWriteCount, At, NumLabels
  <2>2. ProcOK'
    BY <1>11, <1>a, <1>b, <2>1, GotoSame DEF CancelWriteCount, DealShareLabels
  <2>3. DataOK'
    BY SMT, <1>11, <1>a, <1>e, <1>f, <2>1
       DEF CancelWriteCount, DataOK, redisVars, storeVars
  <2> QED
    BY <1>11, <1>a, <1>c, <2>2, <2>3, EnvUnchanged DEF CancelWriteCount, TypeOK
<1>12. CASE CancelDeleteShare
  <2>1. ~At(S, "idle")
    BY <1>12 DEF CancelDeleteShare, At
  <2>2. ProcOK'
    BY <1>12, <1>a, <1>b, <2>1, GotoSame
       DEF CancelDeleteShare, DealShareLabels, NumLabels
  <2>3. DataOK'
    BY <1>12, <1>a DEF CancelDeleteShare, DataOK, redisVars, storeVars
  <2> QED
    BY <1>12, <1>a, <1>c, <2>2, <2>3, EnvUnchanged DEF CancelDeleteShare, TypeOK
<1>13. CASE CancelZrem
  <2>1. ~At(S, "idle")
    BY <1>13 DEF CancelZrem, At
  <2>2. ProcOK'
    BY <1>13, <1>a, <1>b, <2>1, FinishType, GotoSame
       DEF CancelZrem, DealShareLabels, NumLabels, Codes
  <2>3. DataOK'
    BY <1>13, <1>a, <1>d, <2>1
       DEF CancelZrem, rop_zset_zrem, DataOK, sqlVars, storeVars
  <2> QED
    BY <1>13, <1>a, <1>c, <2>2, <2>3, EnvUnchanged DEF CancelZrem, TypeOK
<1>14. CASE CancelHdel
  <2>1. ProcOK'
    BY <1>14, <1>a, <1>b, FinishType DEF CancelHdel, Codes
  <2>2. DataOK'
    BY <1>14, <1>a DEF CancelHdel, rop_hash_del, DataOK, sqlVars, storeVars
  <2> QED
    BY <1>14, <1>a, <1>c, <2>1, <2>2, EnvUnchanged DEF CancelHdel, TypeOK
<1>15. CASE SaveSelectOwned
  <2>1. ~At(S, "idle")
    BY <1>15 DEF SaveSelectOwned, At
  <2>2. ProcOK'
    BY <1>15, <1>a, <1>b, <2>1, FinishType, GotoSame
       DEF SaveSelectOwned, DealShareLabels, NumLabels, Codes
  <2> QED
    BY <1>15, <1>a, <1>c, <2>2, DataUnchanged, EnvUnchanged
       DEF SaveSelectOwned, TypeOK
<1>16. CASE SaveSelectInfo
  <2>1. ~At(S, "idle")
    BY <1>16 DEF SaveSelectInfo, At
  <2>2. file_info[req[S].md5] # NoRow => file_info[req[S].md5].count \in Int
    BY <1>a, <1>d, <2>1 DEF DataOK, InfoRow
  <2>3. ProcOK'
    BY <1>16, <1>a, <1>b, <2>1, <2>2, FinishType, GotoType, TmpType
       DEF SaveSelectInfo, DealShareLabels, Codes
  <2> QED
    BY <1>16, <1>a, <1>c, <2>3, DataUnchanged, EnvUnchanged
       DEF SaveSelectInfo, TypeOK
<1>17. CASE SaveUpdateInfo
  <2>1. ~At(S, "idle") /\ pc[S] \in NumLabels
    BY <1>17 DEF SaveUpdateInfo, At, NumLabels
  <2>2. ProcOK'
    BY <1>17, <1>a, <1>b, <2>1, GotoSame DEF SaveUpdateInfo, DealShareLabels
  <2>3. tmp[S] + 1 \in Int /\ req[S].md5 \in Md5s
    BY SMT, <1>d, <1>f, <2>1
  <2>4. UpdateInfoCount(req[S].md5, tmp[S] + 1)
    BY <1>17 DEF SaveUpdateInfo
  <2>5. file_info' \in [Md5s -> InfoRow \cup {NoRow}]
    BY <1>a, <2>3, <2>4, UpdateInfoType
  <2>6. UNCHANGED <<user_file_list, share_file_list, user_file_count, nextRow,
                    redisVars, storeVars>>
    BY <1>17 DEF SaveUpdateInfo
  <2>7. DataOK'
    BY <1>a, <2>5, <2>6 DEF DataOK, redisVars, storeVars
  <2> QED
    BY <1>17, <1>a, <1>c, <2>2, <2>7, EnvUnchanged DEF SaveUpdateInfo, TypeOK
<1>18. CASE SaveInsertRow
  <2>1. ~At(S, "idle")
    BY <1>18 DEF SaveInsertRow, At
  <2>2. ProcOK'
    BY <1>18, <1>a, <1>b, <2>1, GotoSame
       DEF SaveInsertRow, DealShareLabels, NumLabels
  <2>3. DataOK'
    BY <1>18, <1>a, <1>d, <2>1, InsertRowType
       DEF SaveInsertRow, DataOK, redisVars, storeVars
  <2> QED
    BY <1>18, <1>a, <1>c, <2>2, <2>3, EnvUnchanged DEF SaveInsertRow, TypeOK
<1>19. CASE SaveSelectCount
  <2>1. ~At(S, "idle")
    BY <1>19 DEF SaveSelectCount, At
  <2>2. ProcOK'
    BY <1>19, <1>a, <1>b, <1>d, <2>1, GotoType, SelectCountType
       DEF SaveSelectCount, DealShareLabels, NumLabels
  <2> QED
    BY <1>19, <1>a, <1>c, <2>2, DataUnchanged, EnvUnchanged
       DEF SaveSelectCount, TypeOK
<1>20. CASE SaveWriteCount
  <2>1. ~At(S, "idle")
    BY <1>20 DEF SaveWriteCount, At
  <2>2. ProcOK'
    BY <1>20, <1>a, <1>b, FinishType DEF SaveWriteCount, Codes
  <2>3. DataOK'
    BY ZenonT(30), <1>20, <1>a, <1>b, <1>d, <2>1, BumpType
       DEF SaveWriteCount, DataOK, redisVars, storeVars
  <2> QED
    BY <1>20, <1>a, <1>c, <2>2, <2>3, EnvUnchanged DEF SaveWriteCount, TypeOK
<1>21. CASE SaveError
  <2>1. DataOK' /\ EnvOK'
    BY <1>21, <1>a, <1>b, SqlErrsType DEF SaveError
  <2>2. ProcOK'
    <3>1. CASE Finish(S, "022")
      BY <3>1, <1>a, <1>b, FinishType DEF Codes
    <3>2. CASE At(S, "sv_owned") /\ Goto(S, "sv_info") /\ UNCHANGED tmp
      BY <3>2, <1>a, <1>b, GotoSame DEF At, DealShareLabels, NumLabels
    <3>3. CASE /\ At(S, "sv_selcnt")
               /\ tmp' = [tmp EXCEPT ![S] = Failed]
               /\ Goto(S, "sv_wrcnt")
      BY <3>3, <1>a, <1>b, GotoType, TmpType DEF At, DealShareLabels, NumLabels
    <3> QED
      BY <1>21, <3>1, <3>2, <3>3 DEF SaveError
  <2> QED
    BY <1>c, <2>1, <2>2 DEF TypeOK
<1> QED
  BY <1>1, <1>2, <1>3, <1>4, <1>5, <1>6, <1>7, <1>8, <1>9, <1>10, <1>11, <1>12,
     <1>13, <1>14, <1>15, <1>16, <1>17, <1>18, <1>19, <1>20, <1>21
     DEF DealShareFileNext, SharePvNext, CancelNext, SaveNext

-----------------------------------------------------------------------------
(* Every statement of upload_cgi.c keeps the types. *)
LEMMA UploadType ==
    ASSUME TypeOK, UploadNext, UNCHANGED <<dealfileVars, sharefilesVars>>
    PROVE  TypeOK'
<1> DEFINE u == "upload"
<1>a. DataOK /\ ProcOK /\ LocalOK /\ EnvOK
  BY DEF TypeOK
<1>b. u \in Cgis /\ UploadLabels = LabelsOf(u)
  BY ServiceLabels
<1>c. ASSUME fileid' \in Nat PROVE LocalOK'
  BY <1>a, <1>c DEF LocalOK, dealfileVars, sharefilesVars
<1>1. CASE UploadAccept
  <2>1. ProcOK' /\ EnvOK'
    BY <1>1, <1>a, <1>b, AcceptType DEF UploadAccept, UploadLabels, NumLabels
  <2>2. DataOK'
    BY <1>1, <1>a, DataUnchanged DEF UploadAccept, Accept
  <2> QED
    BY <1>1, <1>a, <1>c, <2>1, <2>2 DEF UploadAccept, TypeOK, LocalOK
<1>2. CASE upload_to_dstorage
  <2>1. ProcOK'
    BY <1>2, <1>a, <1>b, GotoType, TmpSame
       DEF upload_to_dstorage, At, UploadLabels, NumLabels
  <2>2. DataOK' /\ fileid' \in Nat
    BY SMT, <1>2, <1>a DEF upload_to_dstorage, DataOK, sqlVars, redisVars
  <2> QED
    BY <1>2, <1>a, <1>c, <2>1, <2>2, EnvUnchanged DEF upload_to_dstorage, TypeOK
<1>3. CASE UploadInsertInfo
  <2>1. ~At(u, "idle")
    BY <1>3 DEF UploadInsertInfo, At
  <2>2. CASE file_info[req[u].md5] = NoRow
    <3>1. ProcOK'
      BY <1>3, <1>a, <1>b, <2>1, <2>2, GotoType, TmpSame
         DEF UploadInsertInfo, UploadLabels, NumLabels
    <3>2. [file_id |-> fileid, count |-> 1] \in InfoRow
      BY SMT, <1>a DEF InfoRow, LocalOK
    <3>3. DataOK' /\ fileid' = fileid
      BY <1>3, <1>a, <2>2, <3>2 DEF UploadInsertInfo, DataOK, redisVars, storeVars
    <3> QED
      BY <1>3, <1>a, <1>c, <3>1, <3>3, EnvUnchanged
         DEF UploadInsertInfo, TypeOK, LocalOK
  <2>3. CASE file_info[req[u].md5] # NoRow
    <3>1. ProcOK'
      BY <1>3, <1>a, <1>b, <2>3, FinishType DEF UploadInsertInfo, Codes
    <3>2. DataOK' /\ fileid' = 0
      BY <1>3, <1>a, <2>3 DEF UploadInsertInfo, DataOK, redisVars, storeVars
    <3> QED
      BY <1>3, <1>a, <1>c, <3>1, <3>2, EnvUnchanged DEF UploadInsertInfo, TypeOK
  <2> QED
    BY <2>2, <2>3
<1>4. CASE UploadInsertRow
  <2>1. ~At(u, "idle")
    BY <1>4 DEF UploadInsertRow, At
  <2>2. ProcOK'
    BY <1>4, <1>a, <1>b, <2>1, GotoType, TmpSame
       DEF UploadInsertRow, UploadLabels, NumLabels
  <2>3. DataOK'
    BY <1>4, <1>a, <1>b, <2>1, RequestType, InsertRowType
       DEF UploadInsertRow, DataOK, redisVars, storeVars
  <2> QED
    BY <1>4, <1>a, <1>c, <2>2, <2>3, EnvUnchanged
       DEF UploadInsertRow, TypeOK, LocalOK
<1>5. CASE UploadSelectCount
  <2>1. ~At(u, "idle")
    BY <1>5 DEF UploadSelectCount, At
  <2>2. ProcOK'
    BY <1>5, <1>a, <1>b, <2>1, RequestType, GotoType, SelectCountType
       DEF UploadSelectCount, UploadLabels, NumLabels
  <2> QED
    BY <1>5, <1>a, <1>c, <2>2, DataUnchanged, EnvUnchanged
       DEF UploadSelectCount, TypeOK, LocalOK
<1>6. CASE UploadWriteCount
  <2>1. ~At(u, "idle")
    BY <1>6 DEF UploadWriteCount, At
  <2>2. ProcOK'
    BY <1>6, <1>a, <1>b, FinishType DEF UploadWriteCount, Codes
  <2>3. DataOK'
    BY <1>6, <1>a, <1>b, <2>1, RequestType, BumpType
       DEF UploadWriteCount, DataOK, redisVars, storeVars
  <2> QED
    BY <1>6, <1>a, <1>c, <2>2, <2>3, EnvUnchanged DEF UploadWriteCount, TypeOK
<1>7. CASE UploadError
  <2>1. DataOK' /\ EnvOK'
    BY <1>7, <1>a, <1>b, SqlErrsType DEF UploadError
  <2>2. ProcOK' /\ fileid' \in Nat
    <3>1. CASE Finish(u, "009") /\ fileid' = 0
      BY <3>1, <1>a, <1>b, FinishType DEF Codes
    <3>2. CASE /\ At(u, "up_selcnt")
               /\ tmp' = [tmp EXCEPT ![u] = Failed]
               /\ Goto(u, "up_wrcnt")
               /\ UNCHANGED fileid
      BY <3>2, <1>a, <1>b, GotoType, TmpType
         DEF At, LocalOK, UploadLabels, NumLabels
    <3> QED
      BY <1>7, <3>1, <3>2 DEF UploadError
  <2> QED
    BY <1>c, <2>1, <2>2 DEF TypeOK
<1> QED
  BY <1>1, <1>2, <1>3, <1>4, <1>5, <1>6, <1>7 DEF UploadNext

(* Every statement of deal_md5 keeps the types. *)
LEMMA Md5Type ==
    ASSUME TypeOK, Md5Next, UNCHANGED localVars
    PROVE  TypeOK'
<1> DEFINE u == "md5"
<1>a. DataOK /\ ProcOK /\ LocalOK /\ EnvOK
  BY DEF TypeOK
<1>b. u \in Cgis /\ Md5Labels = LabelsOf(u)
  BY ServiceLabels
<1>c. LocalOK'
  BY <1>a DEF LocalOK, localVars, dealfileVars, sharefilesVars
<1>1. CASE Md5Accept
  BY <1>1, <1>a, <1>b, <1>c, AcceptType, DataUnchanged
     DEF Md5Accept, Accept, Md5Labels, NumLabels, TypeOK
<1>2. CASE Refuse(u)
  BY <1>2, <1>a, <1>b, <1>c, RefuseType, DataUnchanged DEF Refuse, TypeOK
<1>3. CASE Md5SelectInfo
  <2>1. ~At(u, "idle")
    BY <1>3 DEF Md5SelectInfo, At
  <2>2. file_info[req[u].md5] # NoRow => file_info[req[u].md5].count \in Int
    BY <1>a, <1>b, <2>1, RequestType DEF DataOK, InfoRow
  <2>3. CASE file_info[req[u].md5] = NoRow
    BY <1>3, <1>a, <1>b, <1>c, <2>3, FinishType, DataUnchanged, EnvUnchanged
       DEF Md5SelectInfo, Codes, TypeOK
  <2>4. CASE file_info[req[u].md5] # NoRow
    <3>1. ProcOK'
      BY <1>3, <1>a, <1>b, <2>1, <2>2, <2>4, GotoType, TmpType
         DEF Md5SelectInfo, Md5Labels
    <3> QED
      BY <1>3, <1>a, <1>c, <3>1, DataUnchanged, EnvUnchanged
         DEF Md5SelectInfo, TypeOK
  <2> QED
    BY <2>3, <2>4
<1>4. CASE Md5SelectOwned
  <2>1. ~At(u, "idle") /\ pc[u] \in NumLabels
    BY <1>4 DEF Md5SelectOwned, At, NumLabels
  <2>2. ProcOK'
    BY <1>4, <1>a, <1>b, <2>1, FinishType, GotoSame
       DEF Md5SelectOwned, Md5Labels, Codes
  <2> QED
    BY <1>4, <1>a, <1>c, <2>2, DataUnchanged, EnvUnchanged
       DEF Md5SelectOwned, TypeOK
<1>5. CASE Md5UpdateInfo
  <2>1. ~At(u, "idle") /\ pc[u] \in NumLabels
    BY <1>5 DEF Md5UpdateInfo, At, NumLabels
  <2>2. ProcOK'
    BY <1>5, <1>a, <1>b, <2>1, GotoSame DEF Md5UpdateInfo, Md5Labels
  <2>3. tmp[u] + 1 \in Int
    BY SMT, <1>a, <1>b, <2>1 DEF ProcOK
  <2>4. DataOK'
    BY <1>5, <1>a, <1>b, <2>1, <2>3, RequestType, UpdateInfoType
       DEF Md5UpdateInfo, DataOK, redisVars, storeVars
  <2> QED
    BY <1>5, <1>a, <1>c, <2>2, <2>4, EnvUnchanged DEF Md5UpdateInfo, TypeOK
<1>6. CASE Md5InsertRow
  <2>1. ~At(u, "idle")
    BY <1>6 DEF Md5InsertRow, At
  <2>2. ProcOK'
    BY <1>6, <1>a, <1>b, <2>1, GotoSame DEF Md5InsertRow, Md5Labels, NumLabels
  <2>3. DataOK'
    BY <1>6, <1>a, <1>b, <2>1, RequestType, InsertRowType
       DEF Md5InsertRow, DataOK, redisVars, storeVars
  <2> QED
    BY <1>6, <1>a, <1>c, <2>2, <2>3, EnvUnchanged DEF Md5InsertRow, TypeOK
<1>7. CASE Md5SelectCount
  <2>1. ~At(u, "idle")
    BY <1>7 DEF Md5SelectCount, At
  <2>2. ProcOK'
    BY <1>7, <1>a, <1>b, <2>1, RequestType, GotoType, SelectCountType
       DEF Md5SelectCount, Md5Labels, NumLabels
  <2> QED
    BY <1>7, <1>a, <1>c, <2>2, DataUnchanged, EnvUnchanged
       DEF Md5SelectCount, TypeOK
<1>8. CASE Md5WriteCount
  <2>1. ~At(u, "idle")
    BY <1>8 DEF Md5WriteCount, At
  <2>2. ProcOK'
    BY <1>8, <1>a, <1>b, FinishType DEF Md5WriteCount, Codes
  <2>3. DataOK'
    BY <1>8, <1>a, <1>b, <2>1, RequestType, BumpType
       DEF Md5WriteCount, DataOK, redisVars, storeVars
  <2> QED
    BY <1>8, <1>a, <1>c, <2>2, <2>3, EnvUnchanged DEF Md5WriteCount, TypeOK
<1>9. CASE Md5Error
  <2>1. DataOK' /\ EnvOK'
    BY <1>9, <1>a, <1>b, SqlErrsType DEF Md5Error
  <2>2. ProcOK'
    <3>1. CASE Finish(u, "006") \/ Finish(u, "007")
      BY <3>1, <1>a, <1>b, FinishType DEF Codes
    <3>2. CASE At(u, "md_owned") /\ Goto(u, "md_inc") /\ UNCHANGED tmp
      BY <3>2, <1>a, <1>b, GotoSame DEF At, Md5Labels, NumLabels
    <3>3. CASE /\ At(u, "md_selcnt")
               /\ tmp' = [tmp EXCEPT ![u] = Failed]
               /\ Goto(u, "md_wrcnt")
      BY <3>3, <1>a, <1>b, GotoType, TmpType DEF At, Md5Labels, NumLabels
    <3> QED
      BY <1>9, <3>1, <3>2, <3>3 DEF Md5Error
  <2> QED
    BY <1>c, <2>1, <2>2 DEF TypeOK
<1> QED
  BY <1>1, <1>2, <1>3, <1>4, <1>5, <1>6, <1>7, <1>8, <1>9 DEF Md5Next

(* Every statement of share_file keeps the types. *)
LEMMA ShareType ==
    ASSUME TypeOK, ShareNext, UNCHANGED <<fileid, sharefilesVars>>
    PROVE  TypeOK'
<1>a. DataOK /\ ProcOK /\ LocalOK /\ EnvOK
  BY DEF TypeOK
<1>b. D \in Cgis /\ DealFileLabels = LabelsOf(D)
  BY ServiceLabels
<1>c. UNCHANGED dealfileVars => LocalOK'
  BY <1>a DEF LocalOK, dealfileVars, sharefilesVars
<1>d. ~At(D, "idle") => FileId(req[D]) \in FileIds
  BY <1>a, <1>b, RequestType
<1>1. CASE ShareAccept
  BY <1>1, <1>a, <1>b, <1>c, AcceptType, DataUnchanged
     DEF ShareAccept, Accept, DealFileLabels, NumLabels, TypeOK
<1>2. CASE ShareAskRedis
  <2>1. ~At(D, "idle")
    BY <1>2 DEF ShareAskRedis, At
  <2>2. ProcOK'
    BY <1>2, <1>a, <1>b, <2>1, FinishType, GotoSame
       DEF ShareAskRedis, DealFileLabels, NumLabels, Codes
  <2> QED
    BY <1>2, <1>a, <1>c, <2>2, DataUnchanged, EnvUnchanged
       DEF ShareAskRedis, TypeOK
<1>3. CASE ShareSelect
  <2>1. ~At(D, "idle")
    BY <1>3 DEF ShareSelect, At
  <2>2. ProcOK'
    BY <1>3, <1>a, <1>b, <2>1, GotoSame
       DEF ShareSelect, DealFileLabels, NumLabels
  <2> QED
    BY <1>3, <1>a, <1>c, <2>2, DataUnchanged, EnvUnchanged
       DEF ShareSelect, TypeOK
<1>4. CASE ShareRepair
  <2>1. ProcOK'
    BY <1>4, <1>a, <1>b, FinishType DEF ShareRepair, Codes
  <2>2. DataOK'
    BY SMT, <1>4, <1>a, <1>d
       DEF ShareRepair, At, rop_zset_add, DataOK, sqlVars, storeVars
  <2> QED
    BY <1>4, <1>a, <1>c, <2>1, <2>2, EnvUnchanged DEF ShareRepair, TypeOK
<1>5. CASE ShareSetStatus
  <2>1. ~At(D, "idle")
    BY <1>5 DEF ShareSetStatus, At
  <2>2. ProcOK'
    BY <1>5, <1>a, <1>b, <2>1, GotoSame
       DEF ShareSetStatus, DealFileLabels, NumLabels
  <2>3. DataOK'
    BY SMT, <1>5, <1>a, UserRowsType
       DEF ShareSetStatus, DataOK, redisVars, storeVars
  <2> QED
    BY <1>5, <1>a, <1>c, <2>2, <2>3, EnvUnchanged DEF ShareSetStatus, TypeOK
<1>6. CASE ShareInsert
  <2>1. ~At(D, "idle")
    BY <1>6 DEF ShareInsert, At
  <2>2. ProcOK'
    BY <1>6, <1>a, <1>b, <2>1, GotoSame
       DEF ShareInsert, DealFileLabels, NumLabels
  <2>3. [rid |-> nextRow, user |-> req[D].user, md5 |-> req[D].md5,
         filename |-> req[D].filename, pv |-> 0] \in ShareRow
    BY SMT, <1>a, <1>b, <2>1, RequestType DEF ShareRow, DataOK
  <2>4. DataOK'
    BY SMT, <1>6, <1>a, <2>3 DEF ShareInsert, DataOK, redisVars, storeVars
  <2> QED
    BY <1>6, <1>a, <1>c, <2>2, <2>4, EnvUnchanged DEF ShareInsert, TypeOK
<1>7. CASE ShareSelectCount
  <2>1. ~At(D, "idle") /\ ShareKey \in CountKeys
    BY <1>7 DEF ShareSelectCount, At, CountKeys
  <2>2. ProcOK'
    BY <1>7, <1>a, <1>b, <2>1, GotoType, SelectCountType
       DEF ShareSelectCount, DealFileLabels, NumLabels
  <2> QED
    BY <1>7, <1>a, <1>c, <2>2, DataUnchanged, EnvUnchanged
       DEF ShareSelectCount, TypeOK
<1>8. CASE ShareWriteCount
  <2>1. ~At(D, "idle") /\ ShareKey \in CountKeys
    BY <1>8 DEF ShareWriteCount, At, CountKeys
  <2>2. ProcOK'
    BY <1>8, <1>a, <1>b, <2>1, GotoType, TmpType
       DEF ShareWriteCount, DealFileLabels, NumLabels
  <2>3. DataOK'
    BY <1>8, <1>a, <1>b, <2>1, BumpType
       DEF ShareWriteCount, DataOK, redisVars, storeVars
  <2> QED
    BY <1>8, <1>a, <1>c, <2>2, <2>3, EnvUnchanged DEF ShareWriteCount, TypeOK
<1>9. CASE ShareZadd
  <2>1. ~At(D, "idle")
    BY <1>9 DEF ShareZadd, At
  <2>2. ProcOK'
    BY <1>9, <1>a, <1>b, <2>1, GotoSame DEF ShareZadd, DealFileLabels, NumLabels
  <2>3. DataOK'
    BY SMT, <1>9, <1>a, <1>d, <2>1
       DEF ShareZadd, rop_zset_add, DataOK, sqlVars, storeVars
  <2> QED
    BY <1>9, <1>a, <1>c, <2>2, <2>3, EnvUnchanged DEF ShareZadd, TypeOK
<1>10. CASE ShareHset
  <2>1. ProcOK'
    BY <1>10, <1>a, <1>b, FinishType DEF ShareHset, Codes
  <2>2. DataOK'
    BY <1>10, <1>a, <1>d
       DEF ShareHset, At, rop_hash_set, DataOK, sqlVars, storeVars
  <2> QED
    BY <1>10, <1>a, <1>c, <2>1, <2>2, EnvUnchanged DEF ShareHset, TypeOK
<1>11. CASE ShareError
  <2>1. DataOK' /\ EnvOK'
    BY <1>11, <1>a, <1>b, SqlErrsType DEF ShareError
  <2>2. ProcOK'
    <3>1. CASE Finish(D, "011")
      BY <3>1, <1>a, <1>b, FinishType DEF Codes
    <3>2. CASE At(D, "sh_sel") /\ Goto(D, "sh_status") /\ UNCHANGED tmp
      BY <3>2, <1>a, <1>b, GotoSame DEF At, DealFileLabels, NumLabels
    <3>3. CASE /\ At(D, "sh_selcnt")
               /\ tmp' = [tmp EXCEPT ![D] = Failed]
               /\ Goto(D, "sh_wrcnt")
      BY <3>3, <1>a, <1>b, GotoType, TmpType DEF At, DealFileLabels, NumLabels
    <3> QED
      BY <1>11, <3>1, <3>2, <3>3 DEF ShareError
  <2> QED
    BY <1>11, <1>c, <2>1, <2>2 DEF ShareError, TypeOK
<1> QED
  BY <1>1, <1>2, <1>3, <1>4, <1>5, <1>6, <1>7, <1>8, <1>9, <1>10, <1>11
     DEF ShareNext

(***************************************************************************)
(* Every statement of pv_file of dealfile_cgi.c, and a refused request,    *)
(* keep the types.                                                         *)
(***************************************************************************)
LEMMA PvType ==
    ASSUME TypeOK, PvNext \/ DealFileRefuse, UNCHANGED <<fileid, sharefilesVars>>
    PROVE  TypeOK'
<1>a. DataOK /\ ProcOK /\ LocalOK /\ EnvOK
  BY DEF TypeOK
<1>b. D \in Cgis /\ DealFileLabels = LabelsOf(D)
  BY ServiceLabels
<1>c. UNCHANGED dealfileVars => LocalOK'
  BY <1>a DEF LocalOK, dealfileVars, sharefilesVars
<1>1. CASE PvAccept
  BY <1>1, <1>a, <1>b, <1>c, AcceptType, DataUnchanged
     DEF PvAccept, Accept, DealFileLabels, NumLabels, TypeOK
<1>2. CASE DealFileRefuse
  BY <1>2, <1>a, <1>b, <1>c, RefuseType, DataUnchanged
     DEF DealFileRefuse, Refuse, TypeOK
<1>3. CASE PvSelect
  <2>1. ~At(D, "idle")
    BY <1>3 DEF PvSelect, At
  <2>2. ProcOK'
    <3>1. CASE Finish(D, "017")
      BY <3>1, <1>a, <1>b, FinishType DEF Codes
    <3>2. CASE \E x \in OwnRows(req[D]) : /\ tmp' = [tmp EXCEPT ![D] = x.pv]
                                          /\ Goto(D, "pv_upd")
      <4>1. PICK x \in OwnRows(req[D]) : /\ tmp' = [tmp EXCEPT ![D] = x.pv]
                                         /\ Goto(D, "pv_upd")
        BY <3>2
      <4>2. x.pv \in Int
        BY <1>a DEF OwnRows, DataOK, UserRow
      <4> QED
        BY <1>a, <1>b, <2>1, <4>1, <4>2, GotoType, TmpType DEF DealFileLabels
    <3> QED
      BY <1>3, <3>1, <3>2 DEF PvSelect
  <2> QED
    BY <1>3, <1>a, <1>c, <2>2, DataUnchanged, EnvUnchanged DEF PvSelect, TypeOK
<1>4. CASE PvUpdate
  <2>1. tmp[D] + 1 \in Int
    BY SMT, <1>4, <1>a, <1>b DEF PvUpdate, At, ProcOK, NumLabels
  <2>2. ProcOK'
    BY <1>4, <1>a, <1>b, FinishType DEF PvUpdate, Codes
  <2>3. DataOK'
    BY SMT, <1>4, <1>a, <2>1, UserRowsType DEF PvUpdate, DataOK, redisVars, storeVars
  <2> QED
    BY <1>4, <1>a, <1>c, <2>2, <2>3, EnvUnchanged DEF PvUpdate, TypeOK
<1>5. CASE PvError
  BY <1>5, <1>a, <1>b, <1>c, SqlErrsType, FinishType DEF PvError, Codes, TypeOK
<1> QED
  BY <1>1, <1>2, <1>3, <1>4, <1>5 DEF PvNext

(***************************************************************************)
(* Every statement of del_file keeps the types.  The row it selects the    *)
(* file id from must still be there: RowStaysForDelete.                    *)
(***************************************************************************)
LEMMA DelType ==
    ASSUME TypeOK, RowStaysForDelete, DelNext, UNCHANGED <<fileid, sharefilesVars>>
    PROVE  TypeOK'
<1>a. DataOK /\ ProcOK /\ LocalOK /\ EnvOK
  BY DEF TypeOK
<1>b. D \in Cgis /\ DealFileLabels = LabelsOf(D)
  BY ServiceLabels
<1>c. flag' \in BOOLEAN /\ del_id' \in Nat => LocalOK'
  BY <1>a DEF LocalOK, sharefilesVars
<1>d. ~At(D, "idle") => /\ FileId(req[D]) \in FileIds
                        /\ req[D].user \in CountKeys
                        /\ req[D].md5 \in Md5s
  BY <1>a, <1>b, RequestType
<1>e. flag \in BOOLEAN /\ del_id \in Nat /\ ShareKey \in CountKeys
  BY <1>a DEF LocalOK, CountKeys
<1>f. pc[D] \in NumLabels => tmp[D] - 1 \in Int
  BY SMT, <1>a, <1>b DEF ProcOK
<1>1. CASE DelAccept
  BY <1>1, <1>a, <1>b, <1>c, <1>e, AcceptType, DataUnchanged
     DEF DelAccept, Accept, DealFileLabels, NumLabels, dealfileVars, TypeOK
<1>2. CASE DelAskRedis
  <2>1. ~At(D, "idle")
    BY <1>2 DEF DelAskRedis, At
  <2>2. ProcOK'
    BY <1>2, <1>a, <1>b, <2>1, FinishType, GotoSame
       DEF DelAskRedis, DealFileLabels, NumLabels, Codes
  <2>3. flag' \in BOOLEAN /\ del_id' \in Nat
    BY <1>2, <1>e DEF DelAskRedis
  <2> QED
    BY <1>2, <1>a, <1>c, <2>2, <2>3, DataUnchanged, EnvUnchanged
       DEF DelAskRedis, TypeOK
<1>3. CASE DelSelectStatus
  <2>1. ~At(D, "idle")
    BY <1>3 DEF DelSelectStatus, At
  <2>2. Goto(D, "de_share") \/ Goto(D, "de_ucsel")
    BY <1>3 DEF DelSelectStatus
  <2>3. ProcOK'
    BY <1>3, <1>a, <1>b, <2>1, <2>2, GotoSame
       DEF DelSelectStatus, DealFileLabels, NumLabels
  <2> QED
    BY <1>3, <1>a, <1>c, <1>e, <2>3, DataUnchanged, EnvUnchanged
       DEF DelSelectStatus, dealfileVars, TypeOK
<1>4. CASE DelDeleteShare
  <2>1. ~At(D, "idle")
    BY <1>4 DEF DelDeleteShare, At
  <2>2. ProcOK'
    BY <1>4, <1>a, <1>b, <2>1, GotoSame
       DEF DelDeleteShare, DealFileLabels, NumLabels
  <2>3. DataOK'
    BY <1>4, <1>a DEF DelDeleteShare, DataOK, redisVars, storeVars
  <2> QED
    BY <1>4, <1>a, <1>c, <1>e, <2>2, <2>3, EnvUnchanged
       DEF DelDeleteShare, dealfileVars, TypeOK
<1>5. CASE DelSelectShareCount
  <2>1. ~At(D, "idle")
    BY <1>5 DEF DelSelectShareCount, At
  <2>2. ProcOK'
    BY <1>5, <1>a, <1>b, <1>e, <2>1, FinishType, GotoType, SelectCountType
       DEF DelSelectShareCount, DealFileLabels, Codes
  <2>3. flag' \in BOOLEAN /\ del_id' \in Nat
    BY <1>5, <1>e DEF DelSelectShareCount
  <2> QED
    BY <1>5, <1>a, <1>c, <2>2, <2>3, DataUnchanged, EnvUnchanged
       DEF DelSelectShareCount, TypeOK
<1>6. CASE DelWriteShareCount
  <2>1. ~At(D, "idle") /\ pc[D] \in NumLabels
    BY <1>6 DEF DelWriteShareCount, At, NumLabels
  <2>2. ProcOK'
    BY <1>6, <1>a, <1>b, <2>1, GotoSame DEF DelWriteShareCount, DealFileLabels
  <2>3. DataOK'
    BY <1>6, <1>a, <1>e, <1>f, <2>1
       DEF DelWriteShareCount, DataOK, redisVars, storeVars
  <2> QED
    BY <1>6, <1>a, <1>c, <1>e, <2>2, <2>3, EnvUnchanged
       DEF DelWriteShareCount, dealfileVars, TypeOK
<1>7. CASE DelZrem
  <2>1. ~At(D, "idle")
    BY <1>7 DEF DelZrem, At
  <2>2. ProcOK'
    BY <1>7, <1>a, <1>b, <2>1, GotoSame DEF DelZrem, DealFileLabels, NumLabels
  <2>3. DataOK'
    BY <1>7, <1>a, <1>d, <2>1
       DEF DelZrem, rop_zset_zrem, DataOK, sqlVars, storeVars
  <2> QED
    BY <1>7, <1>a, <1>c, <1>e, <2>2, <2>3, EnvUnchanged
       DEF DelZrem, dealfileVars, TypeOK
<1>8. CASE DelHdel
  <2>1. ~At(D, "idle")
    BY <1>8 DEF DelHdel, At
  <2>2. ProcOK'
    BY <1>8, <1>a, <1>b, <2>1, GotoSame DEF DelHdel, DealFileLabels, NumLabels
  <2>3. DataOK'
    BY <1>8, <1>a DEF DelHdel, rop_hash_del, DataOK, sqlVars, storeVars
  <2> QED
    BY <1>8, <1>a, <1>c, <1>e, <2>2, <2>3, EnvUnchanged DEF DelHdel, TypeOK
<1>9. CASE DelSelectUserCount
  <2>1. ~At(D, "idle")
    BY <1>9 DEF DelSelectUserCount, At
  <2>2. ProcOK'
    BY <1>9, <1>a, <1>b, <1>d, <2>1, FinishType, GotoType, SelectCountType
       DEF DelSelectUserCount, DealFileLabels, Codes
  <2> QED
    BY <1>9, <1>a, <1>c, <1>e, <2>2, DataUnchanged, EnvUnchanged
       DEF DelSelectUserCount, dealfileVars, TypeOK
<1>10. CASE DelWriteUserCount
  <2>1. ~At(D, "idle") /\ pc[D] \in NumLabels
    BY <1>10 DEF DelWriteUserCount, At, NumLabels
  <2>2. ProcOK'
    BY <1>10, <1>a, <1>b, <2>1, GotoSame DEF DelWriteUserCount, DealFileLabels
  <2>3. DataOK'
    BY <1>10, <1>a, <1>d, <1>f, <2>1
       DEF DelWriteUserCount, DataOK, redisVars, storeVars
  <2> QED
    BY <1>10, <1>a, <1>c, <1>e, <2>2, <2>3, EnvUnchanged
       DEF DelWriteUserCount, dealfileVars, TypeOK
<1>11. CASE DelDeleteRow
  <2>1. ~At(D, "idle")
    BY <1>11 DEF DelDeleteRow, At
  <2>2. ProcOK'
    BY <1>11, <1>a, <1>b, <2>1, GotoSame
       DEF DelDeleteRow, DealFileLabels, NumLabels
  <2>3. DataOK'
    BY <1>11, <1>a DEF DelDeleteRow, DataOK, redisVars, storeVars
  <2> QED
    BY <1>11, <1>a, <1>c, <1>e, <2>2, <2>3, EnvUnchanged
       DEF DelDeleteRow, dealfileVars, TypeOK
<1>12. CASE DelSelectInfo
  <2>1. ~At(D, "idle")
    BY <1>12 DEF DelSelectInfo, At
  <2>2. file_info[req[D].md5] # NoRow => file_info[req[D].md5].count \in Int
    BY <1>a, <1>d, <2>1 DEF DataOK, InfoRow
  <2>3. ProcOK'
    BY <1>12, <1>a, <1>b, <2>1, <2>2, FinishType, GotoType, TmpType
       DEF DelSelectInfo, DealFileLabels, Codes
  <2> QED
    BY <1>12, <1>a, <1>c, <1>e, <2>3, DataUnchanged, EnvUnchanged
       DEF DelSelectInfo, dealfileVars, TypeOK
<1>13. CASE DelUpdateInfo
  <2>1. ~At(D, "idle") /\ pc[D] \in NumLabels
    BY <1>13 DEF DelUpdateInfo, At, NumLabels
  <2>2. ProcOK'
    BY <1>13, <1>a, <1>b, <2>1, FinishType, GotoSame
       DEF DelUpdateInfo, DealFileLabels, Codes
  <2>3. DataOK'
    BY <1>13, <1>a, <1>d, <1>f, <2>1, UpdateInfoType
       DEF DelUpdateInfo, DataOK, redisVars, storeVars
  <2> QED
    BY <1>13, <1>a, <1>c, <1>e, <2>2, <2>3, EnvUnchanged
       DEF DelUpdateInfo, dealfileVars, TypeOK
<1>14. CASE DelSelectFileId
  <2>1. ~At(D, "idle")
    BY <1>14 DEF DelSelectFileId, At
  <2>2. ProcOK'
    BY <1>14, <1>a, <1>b, <2>1, GotoSame
       DEF DelSelectFileId, DealFileLabels, NumLabels
  <2>3. file_info[req[D].md5].file_id \in Nat
    BY <1>14, <1>a, <1>d, <2>1
       DEF DelSelectFileId, At, RowStaysForDelete, DataOK, InfoRow
  <2> QED
    BY <1>14, <1>a, <1>c, <1>e, <2>2, <2>3, DataUnchanged, EnvUnchanged
       DEF DelSelectFileId, TypeOK
<1>15. CASE DelDeleteInfo
  <2>1. ~At(D, "idle")
    BY <1>15 DEF DelDeleteInfo, At
  <2>2. ProcOK'
    BY <1>15, <1>a, <1>b, <2>1, GotoSame
       DEF DelDeleteInfo, DealFileLabels, NumLabels
  <2>3. DataOK'
    BY <1>15, <1>a, <1>d, <2>1 DEF DelDeleteInfo, DataOK, redisVars, storeVars
  <2> QED
    BY <1>15, <1>a, <1>c, <1>e, <2>2, <2>3, EnvUnchanged
       DEF DelDeleteInfo, dealfileVars, TypeOK
<1>16. CASE remove_file_from_storage
  <2>1. ProcOK'
    BY <1>16, <1>a, <1>b, FinishType DEF remove_file_from_storage, Codes
  <2>2. DataOK'
    BY <1>16, <1>a DEF remove_file_from_storage, DataOK, sqlVars, redisVars
  <2> QED
    BY <1>16, <1>a, <1>c, <1>e, <2>1, <2>2, EnvUnchanged
       DEF remove_file_from_storage, TypeOK
<1>17. CASE DelError
  BY <1>17, <1>a, <1>b, <1>c, SqlErrsType, FinishType DEF DelError, Codes, TypeOK
<1> QED
  BY <1>1, <1>2, <1>3, <1>4, <1>5, <1>6, <1>7, <1>8, <1>9, <1>10, <1>11, <1>12,
     <1>13, <1>14, <1>15, <1>16, <1>17 DEF DelNext

(***************************************************************************)
(* A position in the sorted set is a number: there are finitely many       *)
(* members.                                                                *)
(***************************************************************************)
LEMMA RevRankType == \A f : RevRank(f) \in Nat
<1>1. IsFiniteSet(FileIds)
  BY FiniteAssumption, FS_Product DEF FileIds
<1>2. SUFFICES ASSUME NEW f PROVE RevRank(f) \in Nat
  OBVIOUS
<1>3. {g \in Members : Before(f, g)} \subseteq FileIds
  BY DEF Members
<1> QED
  BY <1>1, <1>3, FS_Subset, FS_CardinalityType DEF RevRank

(* Every statement of get_ranking_filelist keeps the types. *)
LEMMA ShareFilesType ==
    ASSUME TypeOK, ShareFilesNext, UNCHANGED <<fileid, dealfileVars>>
    PROVE  TypeOK'
<1>a. DataOK /\ ProcOK /\ LocalOK /\ EnvOK
  BY DEF TypeOK
<1>b. R \in Cgis /\ ShareFilesLabels = LabelsOf(R)
  BY ServiceLabels
<1>c. todo' \subseteq ShareRow /\ page' \subseteq (Nat \X FileIds) => LocalOK'
  BY <1>a DEF LocalOK, dealfileVars
<1>d. todo \subseteq ShareRow /\ page \subseteq (Nat \X FileIds)
  BY <1>a DEF LocalOK
<1>e. \A x \in todo : x.pv \in Int /\ FileId(x) \in FileIds
  BY <1>d DEF ShareRow, FileId, FileIds
<1>1. CASE RankAccept
  <2>1. ProcOK' /\ EnvOK'
    BY <1>1, <1>a, <1>b, AcceptType DEF RankAccept, ShareFilesLabels, NumLabels
  <2> QED
    BY <1>1, <1>a, <1>c, <1>d, <2>1, DataUnchanged
       DEF RankAccept, Accept, sharefilesVars, TypeOK
<1>2. CASE RankSelectCount
  <2>1. ~At(R, "idle") /\ ShareKey \in CountKeys
    BY <1>2 DEF RankSelectCount, At, CountKeys
  <2>2. ProcOK'
    BY <1>2, <1>a, <1>b, <2>1, FinishType, GotoType, SelectCountType
       DEF RankSelectCount, ShareFilesLabels, Codes
  <2> QED
    BY <1>2, <1>a, <1>c, <1>d, <2>2, DataUnchanged, EnvUnchanged
       DEF RankSelectCount, sharefilesVars, TypeOK
<1>3. CASE RankZcard
  <2>1. ~At(R, "idle")
    BY <1>3 DEF RankZcard, At
  <2>2. Goto(R, "rk_range") \/ Goto(R, "rk_delz")
    BY <1>3 DEF RankZcard
  <2>3. ProcOK'
    BY <1>3, <1>a, <1>b, <2>1, <2>2, GotoType, TmpType
       DEF RankZcard, ShareFilesLabels, NumLabels
  <2> QED
    BY <1>3, <1>a, <1>c, <1>d, <2>3, DataUnchanged, EnvUnchanged
       DEF RankZcard, sharefilesVars, TypeOK
<1>4. CASE RankDelZset
  <2>1. ~At(R, "idle")
    BY <1>4 DEF RankDelZset, At
  <2>2. ProcOK'
    BY <1>4, <1>a, <1>b, <2>1, GotoSame
       DEF RankDelZset, ShareFilesLabels, NumLabels
  <2>3. DataOK'
    BY <1>4, <1>a DEF RankDelZset, DataOK, sqlVars, storeVars
  <2> QED
    BY <1>4, <1>a, <1>c, <1>d, <2>2, <2>3, EnvUnchanged
       DEF RankDelZset, sharefilesVars, TypeOK
<1>5. CASE RankDelHash
  <2>1. ~At(R, "idle")
    BY <1>5 DEF RankDelHash, At
  <2>2. ProcOK'
    BY <1>5, <1>a, <1>b, <2>1, GotoSame
       DEF RankDelHash, ShareFilesLabels, NumLabels
  <2>3. DataOK'
    BY <1>5, <1>a DEF RankDelHash, DataOK, sqlVars, storeVars
  <2> QED
    BY <1>5, <1>a, <1>c, <1>d, <2>2, <2>3, EnvUnchanged
       DEF RankDelHash, sharefilesVars, TypeOK
<1>6. CASE RankSelectRows
  <2>1. ~At(R, "idle")
    BY <1>6 DEF RankSelectRows, At
  <2>2. ProcOK'
    BY <1>6, <1>a, <1>b, <2>1, FinishType, GotoSame
       DEF RankSelectRows, ShareFilesLabels, NumLabels, Codes
  <2>3. todo' \subseteq ShareRow /\ page' = page
    BY <1>6, <1>a, <1>d DEF RankSelectRows, DataOK
  <2> QED
    BY <1>6, <1>a, <1>c, <1>d, <2>2, <2>3, DataUnchanged, EnvUnchanged
       DEF RankSelectRows, TypeOK
<1>7. CASE RankZadd
  <2>1. ~At(R, "idle")
    BY <1>7 DEF RankZadd, At
  <2>2. ProcOK'
    BY <1>7, <1>a, <1>b, <2>1, GotoSame
       DEF RankZadd, ShareFilesLabels, NumLabels
  <2>3. PICK x \in todo : /\ rop_zset_add(FileId(x), x.pv)
                          /\ page' = {<<0, FileId(x)>>}
                          /\ todo' = todo \ {x}
    BY <1>7 DEF RankZadd
  <2>4. DataOK'
    BY <1>7, <1>a, <1>e, <2>3
       DEF RankZadd, rop_zset_add, DataOK, sqlVars, storeVars
  <2>5. todo' \subseteq ShareRow /\ page' \subseteq (Nat \X FileIds)
    BY SMT, <1>d, <1>e, <2>3
  <2> QED
    BY <1>7, <1>a, <1>c, <2>2, <2>4, <2>5, EnvUnchanged DEF RankZadd, TypeOK
<1>8. CASE RankHset
  <2>1. ~At(R, "idle")
    BY <1>8 DEF RankHset, At
  <2>2. Goto(R, "rk_range") \/ Goto(R, "rk_zadd")
    BY <1>8 DEF RankHset
  <2>3. ProcOK'
    BY <1>8, <1>a, <1>b, <2>1, <2>2, GotoSame
       DEF RankHset, ShareFilesLabels, NumLabels
  <2>4. DataOK'
    BY <1>8, <1>a, <1>d DEF RankHset, rop_hash_set, DataOK, sqlVars, storeVars
  <2> QED
    BY <1>8, <1>a, <1>c, <1>d, <2>3, <2>4, EnvUnchanged DEF RankHset, TypeOK
<1>9. CASE rop_zset_zrevrange
  <2>1. ~At(R, "idle")
    BY <1>9 DEF rop_zset_zrevrange, At
  <2>2. ProcOK'
    BY <1>9, <1>a, <1>b, <2>1, FinishType, GotoSame
       DEF rop_zset_zrevrange, ShareFilesLabels, NumLabels, Codes
  <2>3. Members \subseteq FileIds
    BY DEF Members
  <2> DEFINE got == {<<RevRank(f), f>> : f \in
                       {g \in Members : /\ RankStart <= RevRank(g)
                                        /\ RevRank(g) < RankStart + RankCount}}
  <2>4. got \subseteq (Nat \X FileIds)
    <3>1. SUFFICES ASSUME NEW f \in Members
                   PROVE  <<RevRank(f), f>> \in Nat \X FileIds
      OBVIOUS
    <3> QED
      BY <2>3, RevRankType
  <2>5. page' = page \/ page' = got
    BY <1>9 DEF rop_zset_zrevrange
  <2> HIDE DEF got
  <2>6. page' \subseteq (Nat \X FileIds)
    BY <1>d, <2>4, <2>5
  <2> QED
    BY <1>9, <1>a, <1>c, <1>d, <2>2, <2>6, DataUnchanged, EnvUnchanged
       DEF rop_zset_zrevrange, TypeOK
<1>10. CASE RankHget
  <2>1. ~At(R, "idle")
    BY <1>10 DEF RankHget, At
  <2>2. /\ \/ Goto(R, "rk_score") /\ UNCHANGED tmp
           \/ Finish(R, "015")
        /\ page' = page \/ page' = {}
    BY <1>10 DEF RankHget
  <2>3. ProcOK'
    BY <1>a, <1>b, <2>1, <2>2, FinishType, GotoSame
       DEF ShareFilesLabels, NumLabels, Codes
  <2> QED
    BY <1>10, <1>a, <1>c, <1>d, <2>2, <2>3, DataUnchanged, EnvUnchanged
       DEF RankHget, TypeOK
<1>11. CASE RankScore
  <2>1. ~At(R, "idle")
    BY <1>11 DEF RankScore, At
  <2>2. /\ \/ Goto(R, "rk_hget") /\ UNCHANGED tmp
           \/ Finish(R, "015")
           \/ Finish(R, "page")
        /\ page' \subseteq page
    BY <1>11 DEF RankScore
  <2>3. ProcOK'
    BY <1>a, <1>b, <2>1, <2>2, FinishType, GotoSame
       DEF ShareFilesLabels, NumLabels, Codes
  <2> QED
    BY <1>11, <1>a, <1>c, <1>d, <2>2, <2>3, DataUnchanged, EnvUnchanged
       DEF RankScore, TypeOK
<1>12. CASE RankError
  BY <1>12, <1>a, <1>b, <1>c, <1>d, SqlErrsType, FinishType
     DEF RankError, sharefilesVars, Codes, TypeOK
<1> QED
  BY <1>1, <1>2, <1>3, <1>4, <1>5, <1>6, <1>7, <1>8, <1>9, <1>10, <1>11, <1>12
     DEF ShareFilesNext

-----------------------------------------------------------------------------
(***************************************************************************)
(* The steps that neither insert nor delete a row of file_info preserve    *)
(* StorageInv, as long as the upload in hand stays where it is and the     *)
(* delete in hand stays where it is or ends.                               *)
(***************************************************************************)
DelPoints == {"de_dec", "de_fid", "de_drop", "de_store"}

UploadStays ==
    /\ At("upload", "up_info")' => At("upload", "up_info") /\ fileid' = fileid

DeleteStays ==
    \/ pc'[D] \notin DelPoints
    \/ pc'[D] = pc[D] /\ req'[D] = req[D] /\ del_id' = del_id

(***************************************************************************)
(* A step that keeps the rows and the stored files, and after which an     *)
(* upload or a delete in hand is where it was or has ended, keeps          *)
(* StorageInv.                                                             *)
(***************************************************************************)
LEMMA QuietStep ==
    ASSUME TypeOK, StorageInv, KeepsInfo, UNCHANGED storeVars,
           UploadStays, DeleteStays, D \in Cgis,
           pc[D] \in DelPoints => req[D].md5 \in Md5s
    PROVE  StorageInv'
<1>1. (\A i \in storage : i < nextFid)'
  BY DEF StorageInv, storeVars
<1>2. StorageBacksFileInfo'
  BY DEF StorageInv, StorageBacksFileInfo, KeepsInfo, storeVars
<1>3. \A m, n \in Md5s :
         /\ file_info'[m] # NoRow
         /\ file_info'[n] # NoRow
         /\ file_info'[m].file_id = file_info'[n].file_id
         => m = n
  BY DEF StorageInv, KeepsInfo
<1>4. At("upload", "up_info")' => fileid' \in storage' /\ ~InRow(fileid)'
  BY InRowKept DEF StorageInv, UploadStays, storeVars
<1>5. RowStaysForDelete'
  BY DEF StorageInv, RowStaysForDelete, KeepsInfo, DeleteStays, DelPoints, At
<1>6. At(D, "de_store")' =>
         /\ del_id' < nextFid'
         /\ ~InRow(del_id)'
         /\ At("upload", "up_info")' => fileid' # del_id'
  BY InRowKept DEF StorageInv, DeleteStays, UploadStays, DelPoints, At, storeVars
<1> QED
  BY <1>1, <1>2, <1>3, <1>4, <1>5, <1>6 DEF StorageInv

(***************************************************************************)
(* upload_cgi.c keeps StorageInv: FastDFS gives a fresh id, which is in no *)
(* row until this process inserts it and which no delete has in hand.      *)
(***************************************************************************)
LEMMA UploadStorage ==
    ASSUME TypeOK, StorageInv, UploadNext, UNCHANGED dealfileVars
    PROVE  StorageInv'
<1> DEFINE u == "upload"
<1>a. u \in Cgis /\ D \in Cgis /\ u # D
  BY ServiceLabels DEF D
<1>b. pc'[D] = pc[D] /\ req'[D] = req[D] /\ del_id' = del_id
  BY <1>a, UploadFrame DEF TypeOK, Others, dealfileVars
<1>c. DeleteStays
  BY <1>b DEF DeleteStays
<1>d. pc[D] \in DelPoints => req[D].md5 \in Md5s
  BY <1>a, RequestType DEF TypeOK, DelPoints, At
<1>1. CASE upload_to_dstorage
  <2>1. /\ storage' = storage \cup {nextFid}
        /\ nextFid' = nextFid + 1
        /\ fileid' = nextFid
        /\ file_info' = file_info
        /\ nextFid \in Nat
        /\ storage \subseteq Nat
    BY <1>1 DEF upload_to_dstorage, sqlVars, TypeOK, DataOK
  <2>2. \A i : InRow(i)' <=> InRow(i)
    BY <2>1 DEF InRow
  <2>3. ~InRow(nextFid)
    BY SMT, <2>1 DEF StorageInv, StorageBacksFileInfo, InRow
  <2>4. (\A i \in storage : i < nextFid)'
    BY SMT, <2>1 DEF StorageInv
  <2>5. StorageBacksFileInfo'
    BY <2>1 DEF StorageInv, StorageBacksFileInfo
  <2>6. RowStaysForDelete'
    BY <1>b, <2>1 DEF StorageInv, RowStaysForDelete, At
  <2>7. At(D, "de_store")' =>
           /\ del_id' < nextFid'
           /\ ~InRow(del_id)'
           /\ fileid' # del_id'
    BY SMT, <1>b, <2>1, <2>2 DEF StorageInv, At, TypeOK, LocalOK
  <2> QED
    BY <2>1, <2>2, <2>3, <2>4, <2>5, <2>6, <2>7 DEF StorageInv
<1>2. CASE UploadInsertInfo /\ file_info[req[u].md5] = NoRow
  <2>1. ~At(u, "idle")
    BY <1>2 DEF UploadInsertInfo, At
  <2> DEFINE m == req[u].md5
             row == [file_id |-> fileid, count |-> 1]
  <2>2. m \in Md5s
    BY <1>a, <2>1, RequestType DEF TypeOK
  <2>3. /\ file_info' = [file_info EXCEPT ![m] = row]
        /\ fileid' = fileid
        /\ UNCHANGED storeVars
        /\ ~At(u, "up_info")'
    BY <1>2, <1>a DEF UploadInsertInfo, Goto, At, TypeOK, ProcOK
  <2>4. row # NoRow /\ row.file_id = fileid
    BY SMT, NullAssumption DEF TypeOK, LocalOK, InfoRow
  <2>5. /\ file_info'[m] = row
        /\ \A n \in Md5s \ {m} : file_info'[n] = file_info[n]
    BY <2>2, <2>3 DEF TypeOK, DataOK
  <2>6. fileid \in storage /\ ~InRow(fileid)
    BY <1>2 DEF UploadInsertInfo, StorageInv
  <2>7. \A i : InRow(i)' => InRow(i) \/ i = fileid
    BY <2>2, <2>4, <2>5 DEF InRow
  <2>8. StorageBacksFileInfo'
    BY SMT, <2>3, <2>4, <2>5, <2>6 DEF StorageInv, StorageBacksFileInfo, storeVars
  <2>9. \A k, n \in Md5s :
           /\ file_info'[k] # NoRow
           /\ file_info'[n] # NoRow
           /\ file_info'[k].file_id = file_info'[n].file_id
           => k = n
    BY SMT, <2>4, <2>5, <2>6 DEF StorageInv, InRow
  <2>10. RowStaysForDelete'
    BY <1>2, <1>b, <1>d, <2>2, <2>5 DEF StorageInv, RowStaysForDelete, At, DelPoints
  <2>11. At(D, "de_store")' => del_id' < nextFid' /\ ~InRow(del_id)'
    BY <1>2, <1>b, <2>3, <2>7 DEF UploadInsertInfo, StorageInv, At, storeVars
  <2> QED
    BY <2>3, <2>8, <2>9, <2>10, <2>11 DEF StorageInv, storeVars
<1>3. CASE ~upload_to_dstorage /\ ~(UploadInsertInfo /\ file_info[req[u].md5] = NoRow)
  <2>1. KeepsInfo /\ UNCHANGED storeVars
    BY <1>3, UploadKeepsInfo
  <2>2. UploadStays
    BY <1>3, <1>a DEF UploadStays, UploadNext, UploadAccept, UploadInsertInfo,
      UploadInsertRow, UploadSelectCount, UploadWriteCount, UploadError, Accept,
      Goto, Finish, At, TypeOK, ProcOK
  <2> QED
    BY <1>a, <1>c, <1>d, <2>1, <2>2, QuietStep
<1> QED
  BY <1>1, <1>2, <1>3

(***************************************************************************)
(* dealfile_cgi.c keeps StorageInv: del_file removes exactly the file of   *)
(* the row it has just deleted, and two rows never share a file.           *)
(***************************************************************************)
LEMMA DealFileStorage ==
    ASSUME TypeOK, StorageInv, DealFileNext, UNCHANGED fileid
    PROVE  StorageInv'
<1> DEFINE u == "upload"
           m == req[D].md5
<1>a. u \in Cgis /\ D \in Cgis /\ u # D
  BY ServiceLabels DEF D
<1>b. pc'[u] = pc[u] /\ fileid' = fileid
  BY <1>a, DealFileFrame DEF TypeOK, Others
<1>c. UploadStays
  BY <1>b DEF UploadStays, At
<1>d. ~At(D, "idle") => m \in Md5s
  BY <1>a, RequestType DEF TypeOK
<1>e. pc[D] \in DelPoints => m \in Md5s
  BY <1>d DEF DelPoints, At
<1>1. CASE DelSelectInfo
  <2>1. KeepsInfo /\ UNCHANGED storeVars
    BY <1>1 DEF DelSelectInfo, KeepsInfo, sqlVars
  <2>2. CASE file_info[m] = NoRow
    <3>1. DeleteStays
      BY <1>1, <1>a, <2>2
         DEF DelSelectInfo, Finish, DeleteStays, DelPoints, TypeOK, ProcOK
    <3> QED
      BY <1>a, <1>c, <1>e, <2>1, <3>1, QuietStep
  <2>3. CASE file_info[m] # NoRow
    <3>1. pc'[D] = "de_dec" /\ req' = req /\ file_info' = file_info
      BY <1>1, <1>a, <2>3 DEF DelSelectInfo, Goto, TypeOK, ProcOK, sqlVars
    <3>2. RowStaysForDelete'
      BY <2>3, <3>1 DEF RowStaysForDelete, At
    <3> QED
      BY <1>b, <2>1, <3>1, <3>2
         DEF StorageInv, StorageBacksFileInfo, InRow, At, storeVars
  <2> QED
    BY <2>2, <2>3
<1>2. CASE DelUpdateInfo
  <2>1. tmp[D] - 1 \in Int /\ m \in Md5s
    BY SMT, <1>2, <1>a, <1>d DEF DelUpdateInfo, At, TypeOK, ProcOK, NumLabels
  <2>2. KeepsInfo /\ UNCHANGED storeVars
    BY <1>2, <2>1, UpdateKeepsInfo DEF DelUpdateInfo, TypeOK
  <2>3. pc'[D] = "idle" \/ (pc'[D] = "de_fid" /\ req' = req)
    BY <1>2, <1>a DEF DelUpdateInfo, Goto, Finish, TypeOK, ProcOK
  <2>4. CASE pc'[D] = "idle"
    <3>1. DeleteStays
      BY <2>4 DEF DeleteStays, DelPoints
    <3> QED
      BY <1>a, <1>c, <1>e, <2>2, <3>1, QuietStep
  <2>5. CASE pc'[D] = "de_fid" /\ req' = req
    <3>1. file_info[m] # NoRow
      BY <1>2 DEF DelUpdateInfo, StorageInv, RowStaysForDelete, At
    <3>2. RowStaysForDelete'
      BY <2>1, <2>2, <2>5, <3>1 DEF RowStaysForDelete, KeepsInfo, At
    <3>3. \A i : InRow(i)' <=> InRow(i)
      BY <2>2, InRowKept
    <3>4. \A k, n \in Md5s :
             /\ file_info'[k] # NoRow
             /\ file_info'[n] # NoRow
             /\ file_info'[k].file_id = file_info'[n].file_id
             => k = n
      BY <2>2 DEF StorageInv, KeepsInfo
    <3>5. StorageBacksFileInfo'
      BY <2>2 DEF StorageInv, StorageBacksFileInfo, KeepsInfo, storeVars
    <3>6. ~At(D, "de_store")'
      BY <2>5 DEF At
    <3> QED
      BY <1>b, <2>2, <3>2, <3>3, <3>4, <3>5, <3>6 DEF StorageInv, At, storeVars
  <2> QED
    BY <2>3, <2>4, <2>5
<1>3. CASE DelSelectFileId
  <2>1. /\ pc'[D] = "de_drop" /\ req' = req
        /\ file_info' = file_info
        /\ UNCHANGED storeVars
        /\ del_id' = file_info[m].file_id
    BY <1>3, <1>a DEF DelSelectFileId, Goto, TypeOK, ProcOK, sqlVars
  <2>2. RowStaysForDelete'
    BY <1>3, <2>1 DEF DelSelectFileId, StorageInv, RowStaysForDelete, At
  <2> QED
    BY <1>b, <2>1, <2>2
       DEF StorageInv, StorageBacksFileInfo, InRow, At, storeVars
<1>4. CASE DelDeleteInfo
  <2>1. m \in Md5s
    BY <1>4, <1>d DEF DelDeleteInfo, At
  <2>2. /\ pc'[D] = "de_store"
        /\ file_info'[m] = NoRow
        /\ \A n \in Md5s \ {m} : file_info'[n] = file_info[n]
        /\ UNCHANGED storeVars
        /\ del_id' = del_id
    BY <1>4, <1>a, <2>1
       DEF DelDeleteInfo, Goto, dealfileVars, TypeOK, ProcOK, DataOK
  <2>3. file_info[m] # NoRow /\ file_info[m].file_id = del_id
    BY <1>4 DEF DelDeleteInfo, StorageInv, RowStaysForDelete, At
  <2>4. del_id \in storage /\ InRow(del_id)
    BY <2>1, <2>3 DEF StorageInv, StorageBacksFileInfo, InRow
  <2>5. \A i : InRow(i)' => InRow(i)
    BY <2>1, <2>2 DEF InRow
  <2>6. ~InRow(del_id)'
    BY <2>1, <2>2, <2>3 DEF StorageInv, InRow
  <2>7. StorageBacksFileInfo'
    BY <2>1, <2>2 DEF StorageInv, StorageBacksFileInfo, storeVars
  <2>8. \A k, n \in Md5s :
           /\ file_info'[k] # NoRow
           /\ file_info'[n] # NoRow
           /\ file_info'[k].file_id = file_info'[n].file_id
           => k = n
    BY <2>1, <2>2 DEF StorageInv
  <2>9. RowStaysForDelete'
    BY <2>2 DEF RowStaysForDelete, At
  <2>10. At(u, "up_info")' => /\ fileid' \in storage'
                              /\ ~InRow(fileid)'
                              /\ fileid' # del_id'
    BY <1>b, <2>2, <2>4, <2>5 DEF StorageInv, At, storeVars
  <2>11. del_id' < nextFid' /\ (\A i \in storage : i < nextFid)'
    BY <2>2, <2>4 DEF StorageInv, storeVars
  <2> QED
    BY <2>2, <2>6, <2>7, <2>8, <2>9, <2>10, <2>11 DEF StorageInv
<1>5. CASE remove_file_from_storage
  <2>1. /\ pc'[D] = "idle"
        /\ file_info' = file_info
        /\ storage' = storage \ {del_id}
        /\ nextFid' = nextFid
    BY <1>5, <1>a
       DEF remove_file_from_storage, Finish, sqlVars, TypeOK, ProcOK
  <2>2. ~InRow(del_id) /\ (At(u, "up_info") => fileid # del_id)
    BY <1>5 DEF remove_file_from_storage, StorageInv
  <2>3. \A i : InRow(i)' <=> InRow(i)
    BY <2>1 DEF InRow
  <2>4. StorageBacksFileInfo'
    BY <2>1, <2>2 DEF StorageInv, StorageBacksFileInfo, InRow
  <2>5. RowStaysForDelete' /\ ~At(D, "de_store")'
    BY <2>1 DEF RowStaysForDelete, At
  <2> QED
    BY <1>b, <2>1, <2>2, <2>3, <2>4, <2>5 DEF StorageInv, At
<1>6. CASE /\ ~DelSelectInfo /\ ~DelUpdateInfo /\ ~DelSelectFileId
           /\ ~DelDeleteInfo /\ ~remove_file_from_storage
  <2>a. KeepsInfo /\ UNCHANGED storeVars
    BY <1>6, DealFileKeepsInfo
  <2>1. CASE ShareNext
    <3>1. pc'[D] \notin DelPoints
      BY <2>1, <1>a DEF DelPoints, ShareNext, ShareAccept, ShareAskRedis,
        ShareSelect, ShareRepair, ShareSetStatus, ShareInsert, ShareSelectCount,
        ShareWriteCount, ShareZadd, ShareHset, ShareError, Goto, Finish, Accept,
        TypeOK, ProcOK
    <3> QED
      BY <1>a, <1>c, <1>e, <2>a, <3>1, QuietStep DEF DeleteStays
  <2>2. CASE DelNext
    <3>1. pc'[D] \notin DelPoints
      BY <1>6, <2>2, <1>a DEF DelPoints, DelNext, DelAccept, DelAskRedis,
        DelSelectStatus, DelDeleteShare, DelSelectShareCount, DelWriteShareCount,
        DelZrem, DelHdel, DelSelectUserCount, DelWriteUserCount, DelDeleteRow,
        DelError, Goto, Finish, Accept, TypeOK, ProcOK
    <3> QED
      BY <1>a, <1>c, <1>e, <2>a, <3>1, QuietStep DEF DeleteStays
  <2>3. CASE PvNext \/ DealFileRefuse
    <3>1. DeleteStays
      BY <2>3, <1>a DEF DeleteStays, DelPoints, PvNext, PvAccept, PvSelect,
        PvUpdate, PvError, DealFileRefuse, Refuse, Goto, Finish, Accept,
        dealfileVars, TypeOK, ProcOK
    <3> QED
      BY <1>a, <1>c, <1>e, <2>a, <3>1, QuietStep
  <2> QED
    BY <2>1, <2>2, <2>3 DEF DealFileNext
<1> QED
  BY <1>1, <1>2, <1>3, <1>4, <1>5, <1>6

-----------------------------------------------------------------------------
(* A step of a service that neither uploads nor deletes keeps StorageInv. *)
LEMMA OtherStorage ==
    ASSUME TypeOK, StorageInv, KeepsInfo, UNCHANGED storeVars,
           UNCHANGED <<fileid, dealfileVars>>,
           NEW p \in Cgis, p # "upload", p # D, Others(p)
    PROVE  StorageInv'
<1>1. "upload" \in Cgis /\ D \in Cgis
  BY ServiceLabels
<1>2. UploadStays /\ DeleteStays
  BY <1>1 DEF UploadStays, DeleteStays, Others, At, dealfileVars
<1>3. pc[D] \in DelPoints => req[D].md5 \in Md5s
  BY <1>1, RequestType DEF TypeOK, DelPoints, At
<1> QED
  BY <1>1, <1>2, <1>3, QuietStep

(***************************************************************************)
(* A killed upload or delete keeps StorageInv: at worst a stored file is   *)
(* left that no row names.                                                 *)
(***************************************************************************)
LEMMA KillStorage ==
    ASSUME TypeOK, StorageInv, NEW p \in Cgis, Kill(p)
    PROVE  StorageInv'
<1>1. "upload" \in Cgis /\ D \in Cgis /\ "upload" # D
  BY ServiceLabels DEF D
<1>2. KeepsInfo /\ UNCHANGED storeVars
  BY DEF Kill, KeepsInfo, sqlVars
<1>3. UploadStays
  BY <1>1 DEF Kill, Finish, UploadStays, At, TypeOK, ProcOK
<1>4. DeleteStays
  BY <1>1 DEF Kill, Finish, DeleteStays, DelPoints, At, TypeOK, ProcOK
<1>5. pc[D] \in DelPoints => req[D].md5 \in Md5s
  BY <1>1, RequestType DEF TypeOK, DelPoints, At
<1> QED
  BY <1>1, <1>2, <1>3, <1>4, <1>5, QuietStep

(* The empty system satisfies the type invariant and StorageInv. *)
LEMMA InitInv == Init => TypeOK /\ StorageInv
<1> SUFFICES ASSUME Init PROVE TypeOK /\ StorageInv
  OBVIOUS
<1>1. DataOK
  BY DEF Init, StateInit, DataOK
<1>2. ProcOK
  BY LabelFacts DEF Init, StateInit, ProcOK, Codes
<1>3. LocalOK
  BY DEF Init, UploadInit, DealFileInit, ShareFilesInit, LocalOK
<1>5. EnvOK
  BY SMT, BoundsAssumption DEF Init, StateInit, EnvOK
<1>4. StorageInv
  BY DEF Init, StateInit, StorageInv, StorageBacksFileInfo, RowStaysForDelete,
         At, D, Cgis
<1> QED
  BY <1>1, <1>2, <1>3, <1>4, <1>5 DEF TypeOK

(***************************************************************************)
(* Every step, of any service or of the environment, keeps the type        *)
(* invariant and StorageInv together; neither is inductive alone.          *)
(***************************************************************************)
LEMMA NextInv ==
    ASSUME TypeOK, StorageInv, [Next]_vars
    PROVE  TypeOK' /\ StorageInv'
<1>a. RowStaysForDelete /\ ProcOK
  BY DEF StorageInv, TypeOK
<1>b. /\ "md5" \in Cgis /\ S \in Cgis /\ R \in Cgis
      /\ {"md5", S, R} \cap {"upload", D} = {}
  BY ServiceLabels DEF S, R, D
<1>1. CASE UploadStep
  BY <1>1, UploadType, UploadStorage DEF UploadStep
<1>2. CASE Md5Step
  <2>1. UNCHANGED <<fileid, dealfileVars>>
    BY <1>2 DEF Md5Step, localVars
  <2> QED
    BY <1>2, <1>a, <1>b, <2>1, Md5Type, Md5KeepsInfo, Md5Frame, OtherStorage
       DEF Md5Step
<1>3. CASE DealFileStep
  BY <1>3, <1>a, ShareType, DelType, PvType, DealFileStorage
     DEF DealFileStep, DealFileNext
<1>4. CASE DealShareStep
  <2>1. UNCHANGED <<fileid, dealfileVars>>
    BY <1>4 DEF DealShareStep, localVars
  <2> QED
    BY <1>4, <1>a, <1>b, <2>1, DealShareType, DealShareKeepsInfo, DealShareFrame,
       OtherStorage DEF DealShareStep
<1>5. CASE ShareFilesStep
  BY <1>5, <1>a, <1>b, ShareFilesType, ShareFilesKeepsInfo, ShareFilesFrame,
     OtherStorage DEF ShareFilesStep
<1>6. CASE \E p \in Cgis : Kill(p)
  BY <1>6, KillType, KillStorage
<1>7. CASE RedisLoss
  <2>1. KeepsInfo /\ UNCHANGED storeVars /\ UNCHANGED <<fileid, dealfileVars>>
    BY <1>7 DEF RedisLoss, KeepsInfo, sqlVars, localVars
  <2>2. Others("md5")
    BY <1>7 DEF RedisLoss, Others, procVars
  <2> QED
    BY <1>7, <1>b, <2>1, <2>2, RedisLossType, OtherStorage
<1>8. CASE UNCHANGED vars
  <2>1. TypeOK'
    BY <1>8 DEF vars, stateVars, localVars, sqlVars, redisVars, storeVars,
      procVars, envVars, dealfileVars, sharefilesVars, TypeOK, DataOK, ProcOK,
      LocalOK, EnvOK
  <2>2. KeepsInfo /\ UNCHANGED storeVars /\ UNCHANGED <<fileid, dealfileVars>>
    BY <1>8 DEF vars, stateVars, KeepsInfo, sqlVars, localVars
  <2>3. Others("md5")
    BY <1>8 DEF vars, stateVars, Others, procVars
  <2> QED
    BY <1>b, <2>1, <2>2, <2>3, OtherStorage
<1> QED
  BY <1>1, <1>2, <1>3, <1>4, <1>5, <1>6, <1>7, <1>8 DEF Next, ClientsDone

(***************************************************************************)
(* Every behaviour of the five services keeps every table, member, file    *)
(* and local of its type, whatever is killed, fails or is lost.            *)
(***************************************************************************)
THEOREM TypeCorrect == Spec => []TypeOK
<1>1. Spec => [](TypeOK /\ StorageInv)
  BY InitInv, NextInv, PTL DEF Spec
<1> QED
  BY <1>1, PTL

(***************************************************************************)
(* For any users, digests and bounds: file ids are fresh, rows never share *)
(* one, and the files an upload and a delete have in hand are in no row.   *)
(***************************************************************************)
THEOREM StorageCorrect == Spec => []StorageInv
<1>1. Spec => [](TypeOK /\ StorageInv)
  BY InitInv, NextInv, PTL DEF Spec
<1> QED
  BY <1>1, PTL

(***************************************************************************)
(* For any users, digests and bounds: a row of file_info always names a    *)
(* file that FastDFS has.                                                  *)
(***************************************************************************)
THEOREM ContentStays == Spec => []StorageBacksFileInfo
<1>1. Spec => [](TypeOK /\ StorageInv)
  BY InitInv, NextInv, PTL DEF Spec
<1>2. StorageInv => StorageBacksFileInfo
  BY DEF StorageInv
<1> QED
  BY <1>1, <1>2, PTL

(***************************************************************************)
(* For any users, digests and bounds: the row del_file has counted down to *)
(* stays until del_file deletes it, and the file id it removes is that     *)
(* row's.                                                                  *)
(***************************************************************************)
THEOREM RowStays == Spec => []RowStaysForDelete
<1>1. Spec => [](TypeOK /\ StorageInv)
  BY InitInv, NextInv, PTL DEF Spec
<1>2. StorageInv => RowStaysForDelete
  BY DEF StorageInv
<1> QED
  BY <1>1, <1>2, PTL

-----------------------------------------------------------------------------
(* The file ids the rows of file_info name are the published files. *)
LEMMA PublishedAreInRows ==
    ASSUME TypeOK, NEW i \in Nat
    PROVE  i \in CS!Published <=> InRow(i)
  BY SMT, NullAssumption DEF CS!Published, FileIdOf, InRow, TypeOK, DataOK

(* A step that keeps the rows and the stored files changes nothing. *)
LEMMA QuietMaps ==
    ASSUME KeepsInfo, UNCHANGED storeVars
    PROVE  UNCHANGED CS!vars
<1>1. \A m \in Md5s : FileIdOf(m)' = FileIdOf(m)
  BY DEF KeepsInfo, FileIdOf
<1> QED
  BY <1>1 DEF CS!vars, storeVars

(* upload_to_dstorage stores, the INSERT into file_info publishes. *)
LEMMA UploadMaps ==
    ASSUME TypeOK, StorageInv, UploadNext
    PROVE  [CS!Next]_(CS!vars)
<1> DEFINE m == req["upload"].md5
<1>1. CASE upload_to_dstorage
  <2>1. \A n \in Md5s : FileIdOf(n)' = FileIdOf(n)
    BY <1>1 DEF upload_to_dstorage, sqlVars, FileIdOf
  <2>2. CS!Store
    BY <1>1, <2>1 DEF upload_to_dstorage, CS!Store
  <2> QED
    BY <2>2 DEF CS!Next
<1>2. CASE UploadInsertInfo /\ file_info[m] = NoRow
  <2> DEFINE row == [file_id |-> fileid, count |-> 1]
  <2>1. m \in Md5s
    BY <1>2, ServiceLabels, RequestType DEF UploadInsertInfo, At, TypeOK
  <2>2. /\ file_info' = [file_info EXCEPT ![m] = row]
        /\ UNCHANGED storeVars
        /\ fileid \in storage /\ ~InRow(fileid)
    BY <1>2 DEF UploadInsertInfo, StorageInv
  <2>3. row # NoRow /\ row.file_id = fileid /\ fileid \in Nat
    BY SMT, NullAssumption DEF TypeOK, LocalOK, InfoRow
  <2>4. /\ FileIdOf(m) = NoRow
        /\ \A n \in Md5s : FileIdOf(n)' = IF n = m THEN fileid ELSE FileIdOf(n)
    BY <1>2, <2>1, <2>2, <2>3 DEF FileIdOf, TypeOK, DataOK
  <2>5. fileid \in storage \ CS!Published
    BY <2>2, <2>3, PublishedAreInRows
  <2>6. CS!Publish(m)
    BY <2>1, <2>2, <2>4, <2>5 DEF CS!Publish, storeVars
  <2> QED
    BY <2>1, <2>6 DEF CS!Next
<1>3. CASE /\ ~upload_to_dstorage
           /\ ~(UploadInsertInfo /\ file_info[m] = NoRow)
  BY <1>3, UploadKeepsInfo, QuietMaps
<1> QED
  BY <1>1, <1>2, <1>3

(* del_file withdraws the digest, and then removes a file in no row. *)
LEMMA DealFileMaps ==
    ASSUME TypeOK, StorageInv, DealFileNext
    PROVE  [CS!Next]_(CS!vars)
<1> DEFINE m == req[D].md5
<1>1. CASE DelDeleteInfo
  <2>1. m \in Md5s
    BY <1>1, ServiceLabels, RequestType DEF DelDeleteInfo, At, TypeOK
  <2>2. /\ file_info' = [file_info EXCEPT ![m] = NoRow]
        /\ UNCHANGED storeVars
    BY <1>1 DEF DelDeleteInfo
  <2>3. file_info[m] # NoRow
    BY <1>1 DEF DelDeleteInfo, StorageInv, RowStaysForDelete, At
  <2>4. /\ FileIdOf(m) # NoRow
        /\ \A n \in Md5s : FileIdOf(n)' = IF n = m THEN NoRow ELSE FileIdOf(n)
    <3>1. file_info \in [Md5s -> InfoRow \cup {NoRow}]
      BY DEF TypeOK, DataOK
    <3>2. \A n \in Md5s : file_info'[n] = IF n = m THEN NoRow ELSE file_info[n]
      BY <3>1, <2>1, <2>2
    <3>3. FileIdOf(m) # NoRow
      BY SMT, <3>1, <2>1, <2>3, NullAssumption DEF FileIdOf, InfoRow
    <3> QED
      BY <3>2, <3>3 DEF FileIdOf
  <2>5. CS!Withdraw(m)
    BY <2>1, <2>2, <2>4 DEF CS!Withdraw, storeVars
  <2> QED
    BY <2>1, <2>5 DEF CS!Next
<1>2. CASE remove_file_from_storage
  <2>1. /\ \A n \in Md5s : FileIdOf(n)' = FileIdOf(n)
        /\ storage' = storage \ {del_id}
        /\ nextFid' = nextFid
    BY <1>2 DEF remove_file_from_storage, sqlVars, FileIdOf
  <2>2. del_id \notin CS!Published
    BY <1>2, PublishedAreInRows
       DEF remove_file_from_storage, StorageInv, TypeOK, LocalOK
  <2>3. CASE del_id \in storage
    BY <2>1, <2>2, <2>3 DEF CS!Remove, CS!Next
  <2>4. CASE del_id \notin storage
    BY <2>1, <2>4 DEF CS!vars
  <2> QED
    BY <2>3, <2>4
<1>3. CASE ~DelDeleteInfo /\ ~remove_file_from_storage
  BY <1>3, DealFileKeepsInfo, QuietMaps
<1> QED
  BY <1>1, <1>2, <1>3

(* Every step of the composed services is a step of ContentStore. *)
LEMMA NextMaps ==
    ASSUME TypeOK, StorageInv, [Next]_vars
    PROVE  [CS!Next]_(CS!vars)
<1>1. CASE UploadStep
  BY <1>1, UploadMaps DEF UploadStep
<1>2. CASE DealFileStep
  BY <1>2, DealFileMaps DEF DealFileStep
<1>3. CASE Md5Step \/ DealShareStep \/ ShareFilesStep
  BY <1>3, Md5KeepsInfo, DealShareKeepsInfo, ShareFilesKeepsInfo, QuietMaps
     DEF Md5Step, DealShareStep, ShareFilesStep
<1>4. CASE (\E p \in Cgis : Kill(p)) \/ RedisLoss \/ UNCHANGED vars
  <2>1. KeepsInfo /\ UNCHANGED storeVars
    BY <1>4 DEF Kill, RedisLoss, vars, stateVars, sqlVars, KeepsInfo
  <2> QED
    BY <2>1, QuietMaps
<1> QED
  BY <1>1, <1>2, <1>3, <1>4 DEF Next, ClientsDone

(***************************************************************************)
(* For any users, digests, requests and bounds, and with any kill, failing *)
(* statement or Redis loss, the five services implement ContentStore.      *)
(***************************************************************************)
THEOREM ContentStoreImplemented == Spec => ImplementsContentStore
<1>1. Init => CS!Init
  BY DEF Init, StateInit, CS!Init, FileIdOf
<1>2. TypeOK /\ StorageInv /\ [Next]_vars => [CS!Next]_(CS!vars)
  BY NextMaps
<1>3. Spec => [](TypeOK /\ StorageInv)
  BY InitInv, NextInv, PTL DEF Spec
<1> QED
  BY <1>1, <1>2, <1>3, PTL DEF Spec, ImplementsContentStore, CS!Spec
===========================================================================
