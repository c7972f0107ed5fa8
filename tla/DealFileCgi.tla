---------------------------- MODULE DealFileCgi ----------------------------
(***************************************************************************)
(* dealfile_cgi.c: share, delete and count a download of one's own file.   *)
(* The three commands are served by one process and never overlap each     *)
(* other; they do overlap the other services.                              *)
(***************************************************************************)
EXTENDS HfdfsState

VARIABLES
    flag,      \* del_file's flag: Redis had the file
    del_id     \* del_file's tmp when it holds a FastDFS file id; else 0

dealfileVars == <<flag, del_id>>

D == "dealfile"

DealFileInit == flag = FALSE /\ del_id = 0

ShareAccept == Accept(D, "share", "sh_zset") /\ UNCHANGED dealfileVars
DelAccept   == Accept(D, "del", "de_zset") /\ UNCHANGED dealfileVars
PvAccept    == Accept(D, "pv", "pv_sel") /\ UNCHANGED dealfileVars
-----------------------------------------------------------------------------
(***************************************************************************)
(* share_file                                                              *)
(***************************************************************************)

(* step 1: 1 means already shared (012), 0 ask MySQL, anything else 011 *)
ShareAskRedis ==
    /\ At(D, "sh_zset")
    /\ LET n == rop_zset_exit(FileId(req[D])) IN
          \/ n = 1 /\ Finish(D, "012")
          \/ n = 0 /\ Goto(D, "sh_sel") /\ UNCHANGED tmp
          \/ n \notin {0, 1} /\ Finish(D, "011")
    /\ UNCHANGED <<sqlVars, redisVars, storeVars, envVars, dealfileVars>>

(* mutant: Redis alone decides whether the file is shared *)
ShareSelectSkipped ==
    /\ At(D, "sh_sel")
    /\ Goto(D, "sh_status")
    /\ UNCHANGED <<sqlVars, redisVars, storeVars, tmp, envVars, dealfileVars>>

(* steps 2 and 3: a share in MySQL that Redis lacks is put back *)
ShareSelect ==
    /\ At(D, "sh_sel")
    /\ Goto(D, IF SharesOf(FileId(req[D])) # {} THEN "sh_repair"
                                               ELSE "sh_status")
    /\ UNCHANGED <<sqlVars, redisVars, storeVars, tmp, envVars, dealfileVars>>

(* ZADD with score 0; the hash is not written.  Answer 012. *)
ShareRepair ==
    /\ At(D, "sh_repair")
    /\ rop_zset_add(FileId(req[D]), 0)
    /\ Finish(D, "012")
    /\ UNCHANGED <<sqlVars, hash, storeVars, envVars, dealfileVars>>

(* update user_file_list set shared_status = 1 *)
ShareSetStatus ==
    /\ At(D, "sh_status")
    /\ user_file_list' =
          {IF x \in OwnRows(req[D]) THEN [x EXCEPT !.shared_status = 1] ELSE x
             : x \in user_file_list}
    /\ Goto(D, "sh_row")
    /\ UNCHANGED <<file_info, share_file_list, user_file_count, nextRow,
                   redisVars, storeVars, tmp, envVars, dealfileVars>>

(* insert into share_file_list ... pv 0 *)
ShareInsert ==
    /\ At(D, "sh_row")
    /\ LET r == req[D] IN
          share_file_list' = share_file_list \cup
             {[rid |-> nextRow, user |-> r.user, md5 |-> r.md5,
               filename |-> r.filename, pv |-> 0]}
    /\ nextRow' = nextRow + 1
    /\ Goto(D, "sh_selcnt")
    /\ UNCHANGED <<file_info, user_file_list, user_file_count, redisVars,
                   storeVars, tmp, envVars, dealfileVars>>

ShareSelectCount ==
    /\ At(D, "sh_selcnt")
    /\ SelectCount(D, ShareKey)
    /\ Goto(D, "sh_wrcnt")
    /\ UNCHANGED <<sqlVars, redisVars, storeVars, envVars, dealfileVars>>

(* no duplicate key here: no other process inserts the share counter *)
ShareWriteCount ==
    /\ At(D, "sh_wrcnt")
    /\ user_file_count' = CountAfterBump(D, ShareKey)
    /\ tmp' = [tmp EXCEPT ![D] = NoRow]
    /\ Goto(D, "sh_zadd")
    /\ UNCHANGED <<file_info, user_file_list, share_file_list, nextRow,
                   redisVars, storeVars, envVars, dealfileVars>>

(* step 5 *)
ShareZadd ==
    /\ At(D, "sh_zadd")
    /\ rop_zset_add(FileId(req[D]), 0)
    /\ Goto(D, "sh_hset")
    /\ UNCHANGED <<sqlVars, hash, storeVars, tmp, envVars, dealfileVars>>

(* step 6 *)
ShareHset ==
    /\ At(D, "sh_hset")
    /\ rop_hash_set(FileId(req[D]))
    /\ Finish(D, "010")
    /\ UNCHANGED <<sqlVars, zset, storeVars, envVars, dealfileVars>>

(***************************************************************************)
(* A failing SELECT of share_file_list is taken for "not shared", a        *)
(* failing SELECT of the counter is not looked at; the rest answers 011.   *)
(***************************************************************************)
ShareError ==
    /\ SqlErrs(D)
    /\ \/ /\ pc[D] \in {"sh_zset", "sh_status", "sh_row", "sh_wrcnt"}
          /\ Finish(D, "011")
       \/ /\ At(D, "sh_sel")
          /\ Goto(D, "sh_status")
          /\ UNCHANGED tmp
       \/ /\ At(D, "sh_selcnt")
          /\ tmp' = [tmp EXCEPT ![D] = Failed]
          /\ Goto(D, "sh_wrcnt")
    /\ UNCHANGED dealfileVars
-----------------------------------------------------------------------------
(***************************************************************************)
(* del_file                                                                *)
(***************************************************************************)

(* step 1: share = flag = 1, or ask MySQL, or 014 *)
DelAskRedis ==
    /\ At(D, "de_zset")
    /\ LET n == rop_zset_exit(FileId(req[D])) IN
          \/ n = 1 /\ Goto(D, "de_share") /\ flag' = TRUE /\ UNCHANGED tmp
          \/ n = 0 /\ Goto(D, "de_status") /\ UNCHANGED <<flag, tmp>>
          \/ n \notin {0, 1} /\ Finish(D, "014") /\ UNCHANGED flag
    /\ UNCHANGED <<sqlVars, redisVars, storeVars, envVars, del_id>>

(* step 2: share = shared_status of the user's own (oldest) row *)
DelSelectStatus ==
    /\ At(D, "de_status")
    /\ LET rows == OwnRows(req[D]) IN
          \/ rows = {} /\ Goto(D, "de_ucsel")
          \/ \E x \in rows :
                /\ IsOldest(x, rows)
                /\ Goto(D, IF x.shared_status = 1 THEN "de_share"
                                                  ELSE "de_ucsel")
    /\ UNCHANGED <<sqlVars, redisVars, storeVars, tmp, envVars, dealfileVars>>

(* step 3: delete from share_file_list where user, md5, filename *)
DelDeleteShare ==
    /\ At(D, "de_share")
    /\ share_file_list' = share_file_list \ OwnShares(req[D])
    /\ Goto(D, "de_scsel")
    /\ UNCHANGED <<file_info, user_file_list, user_file_count, nextRow,
                   redisVars, storeVars, tmp, envVars, dealfileVars>>

(* the share counter; no row: 014 *)
DelSelectShareCount ==
    /\ At(D, "de_scsel")
    /\ \/ /\ user_file_count[ShareKey] = NoRow
          /\ Finish(D, "014")
          /\ flag' = FALSE
       \/ /\ user_file_count[ShareKey] # NoRow
          /\ SelectCount(D, ShareKey)
          /\ Goto(D, "de_scwr")
          /\ UNCHANGED flag
    /\ UNCHANGED <<sqlVars, redisVars, storeVars, envVars, del_id>>

(* update ... count - 1: the row stays, even at 0 *)
DelWriteShareCount ==
    /\ At(D, "de_scwr")
    /\ user_file_count' =
          IF user_file_count[ShareKey] = NoRow THEN user_file_count
          ELSE [user_file_count EXCEPT ![ShareKey] = tmp[D] - 1]
    /\ Goto(D, IF flag THEN "de_zrem" ELSE "de_ucsel")
    /\ UNCHANGED <<file_info, user_file_list, share_file_list, nextRow,
                   redisVars, storeVars, tmp, envVars, dealfileVars>>

(* step 4 *)
DelZrem ==
    /\ At(D, "de_zrem")
    /\ rop_zset_zrem(FileId(req[D]))
    /\ Goto(D, "de_hdel")
    /\ UNCHANGED <<sqlVars, hash, storeVars, tmp, envVars, dealfileVars>>

DelHdel ==
    /\ At(D, "de_hdel")
    /\ rop_hash_del(FileId(req[D]))
    /\ Goto(D, "de_ucsel")
    /\ flag' = FALSE
    /\ UNCHANGED <<sqlVars, zset, storeVars, tmp, envVars, del_id>>

(* mutant: the result of the SELECT is not tested *)
DelSelectUserCountUntested ==
    /\ At(D, "de_ucsel")
    /\ SelectCount(D, req[D].user)
    /\ Goto(D, "de_ucwr")
    /\ UNCHANGED <<sqlVars, redisVars, storeVars, envVars, dealfileVars>>

(* the user's own counter; no row: 014 *)
DelSelectUserCount ==
    /\ At(D, "de_ucsel")
    /\ LET u == req[D].user IN
          \/ /\ user_file_count[u] = NoRow
             /\ Finish(D, "014")
          \/ /\ user_file_count[u] # NoRow
             /\ SelectCount(D, u)
             /\ Goto(D, "de_ucwr")
    /\ UNCHANGED <<sqlVars, redisVars, storeVars, envVars, dealfileVars>>

(* mutant: the counter is never deleted, only decremented *)
DelWriteUserCountDown ==
    /\ At(D, "de_ucwr")
    /\ LET u == req[D].user IN
          user_file_count' =
             IF user_file_count[u] = NoRow THEN user_file_count
             ELSE [user_file_count EXCEPT ![u] = tmp[D] - 1]
    /\ Goto(D, "de_row")
    /\ UNCHANGED <<file_info, user_file_list, share_file_list, nextRow,
                   redisVars, storeVars, tmp, envVars, dealfileVars>>

(* delete the counter's row at 1, else count - 1 *)
DelWriteUserCount ==
    /\ At(D, "de_ucwr")
    /\ LET u == req[D].user IN
          user_file_count' =
             CASE tmp[D] = 1 -> [user_file_count EXCEPT ![u] = NoRow]
               [] tmp[D] # 1 /\ user_file_count[u] = NoRow -> user_file_count
               [] OTHER -> [user_file_count EXCEPT ![u] = tmp[D] - 1]
    /\ Goto(D, "de_row")
    /\ UNCHANGED <<file_info, user_file_list, share_file_list, nextRow,
                   redisVars, storeVars, tmp, envVars, dealfileVars>>

(* mutant: only a row that is not marked shared is deleted *)
DelDeleteRowUnshared ==
    /\ At(D, "de_row")
    /\ user_file_list' =
          user_file_list \ {x \in OwnRows(req[D]) : x.shared_status = 0}
    /\ Goto(D, "de_info")
    /\ UNCHANGED <<file_info, share_file_list, user_file_count, nextRow,
                   redisVars, storeVars, tmp, envVars, dealfileVars>>

(* delete from user_file_list where user, md5, filename *)
DelDeleteRow ==
    /\ At(D, "de_row")
    /\ user_file_list' = user_file_list \ OwnRows(req[D])
    /\ Goto(D, "de_info")
    /\ UNCHANGED <<file_info, share_file_list, user_file_count, nextRow,
                   redisVars, storeVars, tmp, envVars, dealfileVars>>

(* mutant: without a row del_file goes on with the number tmp still holds *)
DelSelectInfoUntested ==
    /\ At(D, "de_info")
    /\ LET row == file_info[req[D].md5] IN
          tmp' = [tmp EXCEPT ![D] = IF row = NoRow THEN @ ELSE row.count]
    /\ Goto(D, "de_dec")
    /\ UNCHANGED <<sqlVars, redisVars, storeVars, envVars, dealfileVars>>

(* select count from file_info; no row: 014 *)
DelSelectInfo ==
    /\ At(D, "de_info")
    /\ LET row == file_info[req[D].md5] IN
          \/ /\ row = NoRow
             /\ Finish(D, "014")
          \/ /\ row # NoRow
             /\ tmp' = [tmp EXCEPT ![D] = row.count]
             /\ Goto(D, "de_dec")
    /\ UNCHANGED <<sqlVars, redisVars, storeVars, envVars, dealfileVars>>

(* mutant: the count is tested before it is decremented *)
DelUpdateInfoEarlyTest ==
    /\ At(D, "de_dec")
    /\ UpdateInfoCount(req[D].md5, tmp[D] - 1)
    /\ \/ tmp[D] = 0 /\ Goto(D, "de_fid") /\ UNCHANGED tmp
       \/ tmp[D] # 0 /\ Finish(D, "013")
    /\ UNCHANGED <<user_file_list, share_file_list, user_file_count, nextRow,
                   redisVars, storeVars, envVars, dealfileVars>>

(* update file_info set count = count - 1; at 0 the content goes too *)
DelUpdateInfo ==
    /\ At(D, "de_dec")
    /\ UpdateInfoCount(req[D].md5, tmp[D] - 1)
    /\ \/ tmp[D] - 1 = 0 /\ Goto(D, "de_fid") /\ UNCHANGED tmp
       \/ tmp[D] - 1 # 0 /\ Finish(D, "013")
    /\ UNCHANGED <<user_file_list, share_file_list, user_file_count, nextRow,
                   redisVars, storeVars, envVars, dealfileVars>>

(* mutant: the content is removed and the row of file_info is left *)
DelSelectFileIdKeepRow ==
    /\ At(D, "de_fid")
    /\ del_id' = file_info[req[D].md5].file_id
    /\ Goto(D, "de_store")
    /\ UNCHANGED <<sqlVars, redisVars, storeVars, tmp, envVars, flag>>

(***************************************************************************)
(* select file_id from file_info.  The row is there: only this process     *)
(* deletes rows of file_info.                                              *)
(***************************************************************************)
DelSelectFileId ==
    /\ At(D, "de_fid")
    /\ del_id' = file_info[req[D].md5].file_id
    /\ Goto(D, "de_drop")
    /\ UNCHANGED <<sqlVars, redisVars, storeVars, tmp, envVars, flag>>

(* delete from file_info where md5 = ... *)
DelDeleteInfo ==
    /\ At(D, "de_drop")
    /\ file_info' = [file_info EXCEPT ![req[D].md5] = NoRow]
    /\ Goto(D, "de_store")
    /\ UNCHANGED <<user_file_list, share_file_list, user_file_count, nextRow,
                   redisVars, storeVars, tmp, envVars, dealfileVars>>

(* mutant: del_file ends with the row, and leaves the file in FastDFS *)
remove_file_skipped ==
    /\ At(D, "de_store")
    /\ Finish(D, "013")
    /\ del_id' = 0
    /\ UNCHANGED <<sqlVars, redisVars, storeVars, envVars, flag>>

(* fdfs_delete_file *)
remove_file_from_storage ==
    /\ At(D, "de_store")
    /\ storage' = storage \ {del_id}
    /\ Finish(D, "013")
    /\ del_id' = 0
    /\ UNCHANGED <<sqlVars, redisVars, nextFid, envVars, flag>>

(* every failing statement of del_file, and fdfs_delete_file, gives 014 *)
DelError ==
    /\ SqlErrs(D)
    /\ pc[D] \in {"de_zset", "de_status", "de_share", "de_scsel", "de_scwr",
                  "de_ucsel", "de_ucwr", "de_row", "de_info", "de_dec",
                  "de_fid", "de_drop", "de_store"}
    /\ Finish(D, "014")
    /\ flag' = FALSE
    /\ del_id' = 0
-----------------------------------------------------------------------------
(***************************************************************************)
(* pv_file(user, md5, filename): the user's own download counter           *)
(***************************************************************************)
PvSelect ==
    /\ At(D, "pv_sel")
    /\ LET rows == OwnRows(req[D]) IN
          \/ rows = {} /\ Finish(D, "017")
          \/ \E x \in rows :
                /\ IsOldest(x, rows)
                /\ tmp' = [tmp EXCEPT ![D] = x.pv]
                /\ Goto(D, "pv_upd")
    /\ UNCHANGED <<sqlVars, redisVars, storeVars, envVars, dealfileVars>>

PvUpdate ==
    /\ At(D, "pv_upd")
    /\ user_file_list' =
          {IF x \in OwnRows(req[D]) THEN [x EXCEPT !.pv = tmp[D] + 1] ELSE x
             : x \in user_file_list}
    /\ Finish(D, "016")
    /\ UNCHANGED <<file_info, share_file_list, user_file_count, nextRow,
                   redisVars, storeVars, envVars, dealfileVars>>

PvError ==
    /\ SqlErrs(D)
    /\ pc[D] \in {"pv_sel", "pv_upd"}
    /\ Finish(D, "017")
    /\ UNCHANGED dealfileVars
-----------------------------------------------------------------------------
ShareNext ==
    \/ ShareAccept    \/ ShareAskRedis    \/ ShareSelect     \/ ShareRepair
    \/ ShareSetStatus \/ ShareInsert      \/ ShareSelectCount
    \/ ShareWriteCount \/ ShareZadd       \/ ShareHset       \/ ShareError

DelNext ==
    \/ DelAccept       \/ DelAskRedis         \/ DelSelectStatus
    \/ DelDeleteShare  \/ DelSelectShareCount \/ DelWriteShareCount
    \/ DelZrem         \/ DelHdel             \/ DelSelectUserCount
    \/ DelWriteUserCount \/ DelDeleteRow      \/ DelSelectInfo
    \/ DelUpdateInfo   \/ DelSelectFileId     \/ DelDeleteInfo
    \/ remove_file_from_storage               \/ DelError

PvNext == PvAccept \/ PvSelect \/ PvUpdate \/ PvError

DealFileRefuse == Refuse(D) /\ UNCHANGED dealfileVars

DealFileNext == ShareNext \/ DelNext \/ PvNext \/ DealFileRefuse
=============================================================================
