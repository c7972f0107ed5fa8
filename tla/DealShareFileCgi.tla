-------------------------- MODULE DealShareFileCgi --------------------------
(***************************************************************************)
(* dealsharefile_cgi.c: count a download of a shared file, withdraw a      *)
(* share, copy a shared file into one's own list.  One process, no token.  *)
(***************************************************************************)
EXTENDS HfdfsState

S == "dealsharefile"

SharePvAccept == Accept(S, "sharepv", "sp_sel")
CancelAccept  == Accept(S, "cancel", "ca_status")
SaveAccept    == Accept(S, "save", "sv_owned")
-----------------------------------------------------------------------------
(***************************************************************************)
(* pv_file(md5, filename)                                                  *)
(***************************************************************************)
SharePvSelect ==
    /\ At(S, "sp_sel")
    /\ LET rows == SharesOf(FileId(req[S])) IN
          \/ rows = {} /\ Finish(S, "017")
          \/ \E x \in rows :
                /\ IsOldest(x, rows)
                /\ tmp' = [tmp EXCEPT ![S] = x.pv]
                /\ Goto(S, "sp_upd")
    /\ UNCHANGED <<sqlVars, redisVars, storeVars, envVars>>

(* mutant: the counter goes the wrong way *)
SharePvUpdateDown ==
    /\ At(S, "sp_upd")
    /\ share_file_list' =
          {IF FileId(x) = FileId(req[S]) THEN [x EXCEPT !.pv = tmp[S] - 1]
                                         ELSE x : x \in share_file_list}
    /\ Goto(S, "sp_zset")
    /\ UNCHANGED <<file_info, user_file_list, user_file_count, nextRow,
                   redisVars, storeVars, tmp, envVars>>

(* mutant: pv++ where the code writes pv+1 *)
SharePvUpdatePostfix ==
    /\ At(S, "sp_upd")
    /\ share_file_list' =
          {IF FileId(x) = FileId(req[S]) THEN [x EXCEPT !.pv = tmp[S]]
                                         ELSE x : x \in share_file_list}
    /\ Goto(S, "sp_zset")
    /\ UNCHANGED <<file_info, user_file_list, user_file_count, nextRow,
                   redisVars, storeVars, tmp, envVars>>

(* update share_file_list set pv = (the pv read) + 1 *)
SharePvUpdate ==
    /\ At(S, "sp_upd")
    /\ share_file_list' =
          {IF FileId(x) = FileId(req[S]) THEN [x EXCEPT !.pv = tmp[S] + 1]
                                         ELSE x : x \in share_file_list}
    /\ Goto(S, "sp_zset")
    /\ UNCHANGED <<file_info, user_file_list, user_file_count, nextRow,
                   redisVars, storeVars, tmp, envVars>>

SharePvAskRedis ==
    /\ At(S, "sp_zset")
    /\ LET n == rop_zset_exit(FileId(req[S])) IN
          \/ n = 1 /\ Goto(S, "sp_incr") /\ UNCHANGED tmp
          \/ n = 0 /\ Goto(S, "sp_zadd") /\ UNCHANGED tmp
          \/ n \notin {0, 1} /\ Finish(S, "017")
    /\ UNCHANGED <<sqlVars, redisVars, storeVars, envVars>>

(***************************************************************************)
(* ZINCRBY adds the member when it has gone and answers with the new       *)
(* score.  rop_zset_increment compares that answer with "OK" and returns   *)
(* -1, so the reply is 017 although both counters went up.                 *)
(***************************************************************************)
rop_zset_increment ==
    /\ At(S, "sp_incr")
    /\ LET f == FileId(req[S]) IN
          zset' = [zset EXCEPT ![f] = IF zset[f] = NoRow THEN 1 ELSE zset[f] + 1]
    /\ Finish(S, "017")
    /\ UNCHANGED <<sqlVars, hash, storeVars, envVars>>

SharePvZadd ==
    /\ At(S, "sp_zadd")
    /\ rop_zset_add(FileId(req[S]), tmp[S] + 1)
    /\ Goto(S, "sp_hset")
    /\ UNCHANGED <<sqlVars, hash, storeVars, tmp, envVars>>

SharePvHset ==
    /\ At(S, "sp_hset")
    /\ rop_hash_set(FileId(req[S]))
    /\ Finish(S, "016")
    /\ UNCHANGED <<sqlVars, zset, storeVars, envVars>>

SharePvError ==
    /\ SqlErrs(S)
    /\ pc[S] \in {"sp_sel", "sp_upd"}
    /\ Finish(S, "017")
-----------------------------------------------------------------------------
(***************************************************************************)
(* cancel_share_file.  Nothing checks that the user shares the file.       *)
(***************************************************************************)
CancelClearStatus ==
    /\ At(S, "ca_status")
    /\ user_file_list' =
          {IF x \in OwnRows(req[S]) THEN [x EXCEPT !.shared_status = 0] ELSE x
             : x \in user_file_list}
    /\ Goto(S, "ca_scsel")
    /\ UNCHANGED <<file_info, share_file_list, user_file_count, nextRow,
                   redisVars, storeVars, tmp, envVars>>

(* the share counter; no row: 019 *)
CancelSelectCount ==
    /\ At(S, "ca_scsel")
    /\ \/ /\ user_file_count[ShareKey] = NoRow
          /\ Finish(S, "019")
       \/ /\ user_file_count[ShareKey] # NoRow
          /\ SelectCount(S, ShareKey)
          /\ Goto(S, "ca_scwr")
    /\ UNCHANGED <<sqlVars, redisVars, storeVars, envVars>>

(* delete the counter's row at 1, else count - 1 *)
CancelWriteCount ==
    /\ At(S, "ca_scwr")
    /\ user_file_count' =
          CASE tmp[S] = 1 -> [user_file_count EXCEPT ![ShareKey] = NoRow]
            [] tmp[S] # 1 /\ user_file_count[ShareKey] = NoRow -> user_file_count
            [] OTHER -> [user_file_count EXCEPT ![ShareKey] = tmp[S] - 1]
    /\ Goto(S, "ca_row")
    /\ UNCHANGED <<file_info, user_file_list, share_file_list, nextRow,
                   redisVars, storeVars, tmp, envVars>>

(* delete from share_file_list where user, md5, filename *)
CancelDeleteShare ==
    /\ At(S, "ca_row")
    /\ share_file_list' = share_file_list \ OwnShares(req[S])
    /\ Goto(S, "ca_zrem")
    /\ UNCHANGED <<file_info, user_file_list, user_file_count, nextRow,
                   redisVars, storeVars, tmp, envVars>>

(* ZREM; 019 when there was no such member *)
CancelZrem ==
    /\ At(S, "ca_zrem")
    /\ rop_zset_zrem(FileId(req[S]))
    /\ \/ FileId(req[S]) \in Members /\ Goto(S, "ca_hdel") /\ UNCHANGED tmp
       \/ FileId(req[S]) \notin Members /\ Finish(S, "019")
    /\ UNCHANGED <<sqlVars, hash, storeVars, envVars>>

(* HDEL; 019 when there was no such field *)
CancelHdel ==
    /\ At(S, "ca_hdel")
    /\ rop_hash_del(FileId(req[S]))
    /\ Finish(S, IF FileId(req[S]) \in hash THEN "018" ELSE "019")
    /\ UNCHANGED <<sqlVars, zset, storeVars, envVars>>

CancelError ==
    /\ SqlErrs(S)
    /\ pc[S] \in {"ca_status", "ca_scsel", "ca_scwr", "ca_row"}
    /\ Finish(S, "019")
-----------------------------------------------------------------------------
(***************************************************************************)
(* save_file: as deal_md5, with the two SELECTs in the other order         *)
(***************************************************************************)
SaveSelectOwned ==
    /\ At(S, "sv_owned")
    /\ \/ OwnRows(req[S]) # {} /\ Finish(S, "021")
       \/ OwnRows(req[S]) = {} /\ Goto(S, "sv_info") /\ UNCHANGED tmp
    /\ UNCHANGED <<sqlVars, redisVars, storeVars, envVars>>

SaveSelectInfo ==
    /\ At(S, "sv_info")
    /\ LET row == file_info[req[S].md5] IN
          \/ /\ row = NoRow
             /\ Finish(S, "022")
          \/ /\ row # NoRow
             /\ tmp' = [tmp EXCEPT ![S] = row.count]
             /\ Goto(S, "sv_inc")
    /\ UNCHANGED <<sqlVars, redisVars, storeVars, envVars>>

SaveUpdateInfo ==
    /\ At(S, "sv_inc")
    /\ UpdateInfoCount(req[S].md5, tmp[S] + 1)
    /\ Goto(S, "sv_row")
    /\ UNCHANGED <<user_file_list, share_file_list, user_file_count, nextRow,
                   redisVars, storeVars, tmp, envVars>>

SaveInsertRow ==
    /\ At(S, "sv_row")
    /\ InsertUserRow(req[S])
    /\ Goto(S, "sv_selcnt")
    /\ UNCHANGED <<file_info, share_file_list, user_file_count, redisVars,
                   storeVars, tmp, envVars>>

SaveSelectCount ==
    /\ At(S, "sv_selcnt")
    /\ SelectCount(S, req[S].user)
    /\ Goto(S, "sv_wrcnt")
    /\ UNCHANGED <<sqlVars, redisVars, storeVars, envVars>>

SaveWriteCount ==
    /\ At(S, "sv_wrcnt")
    /\ LET u == req[S].user IN
          \/ /\ DuplicateKey(S, u)
             /\ Finish(S, "022")
             /\ UNCHANGED user_file_count
          \/ /\ ~DuplicateKey(S, u)
             /\ user_file_count' = CountAfterBump(S, u)
             /\ Finish(S, "020")
    /\ UNCHANGED <<file_info, user_file_list, share_file_list, nextRow,
                   redisVars, storeVars, envVars>>

(* a failing first SELECT is taken for "not owned" *)
SaveError ==
    /\ SqlErrs(S)
    /\ \/ /\ At(S, "sv_owned")
          /\ \/ Finish(S, "022")    \* no connection
             \/ Goto(S, "sv_info") /\ UNCHANGED tmp
       \/ /\ pc[S] \in {"sv_info", "sv_inc", "sv_row", "sv_wrcnt"}
          /\ Finish(S, "022")
       \/ /\ At(S, "sv_selcnt")
          /\ tmp' = [tmp EXCEPT ![S] = Failed]
          /\ Goto(S, "sv_wrcnt")
-----------------------------------------------------------------------------
SharePvNext ==
    \/ SharePvAccept \/ SharePvSelect \/ SharePvUpdate \/ SharePvAskRedis
    \/ rop_zset_increment \/ SharePvZadd \/ SharePvHset \/ SharePvError

CancelNext ==
    \/ CancelAccept \/ CancelClearStatus \/ CancelSelectCount
    \/ CancelWriteCount \/ CancelDeleteShare \/ CancelZrem \/ CancelHdel
    \/ CancelError

SaveNext ==
    \/ SaveAccept \/ SaveSelectOwned \/ SaveSelectInfo \/ SaveUpdateInfo
    \/ SaveInsertRow \/ SaveSelectCount \/ SaveWriteCount \/ SaveError

DealShareFileNext == SharePvNext \/ CancelNext \/ SaveNext
=============================================================================
