----------------------------- MODULE UploadCgi -----------------------------
(***************************************************************************)
(* upload_cgi.c: store the received file in FastDFS, then record it in     *)
(* file_info, user_file_list and user_file_count.  FastDFS comes first, so *)
(* a failure later leaves a stored file that no row names.                 *)
(***************************************************************************)
EXTENDS HfdfsState

VARIABLE fileid    \* the id fdfs_upload_file printed; 0 while there is none

UploadInit == fileid = 0

UploadAccept == Accept("upload", "upload", "up_store") /\ UNCHANGED fileid

(* upload_to_dstorage: a fresh FastDFS file id; the local copy is removed. *)
upload_to_dstorage ==
    /\ At("upload", "up_store")
    /\ storage' = storage \cup {nextFid}
    /\ nextFid' = nextFid + 1
    /\ fileid' = nextFid
    /\ Goto("upload", "up_info")
    /\ UNCHANGED <<sqlVars, redisVars, tmp, envVars>>

(***************************************************************************)
(* insert into file_info ... count 1.  The primary key refuses a second    *)
(* row for the digest: the answer is 009 and the stored file stays.        *)
(***************************************************************************)
UploadInsertInfo ==
    /\ At("upload", "up_info")
    /\ LET m == req["upload"].md5 IN
          \/ /\ file_info[m] = NoRow
             /\ file_info' = [file_info EXCEPT ![m] =
                                 [file_id |-> fileid, count |-> 1]]
             /\ Goto("upload", "up_row")
             /\ UNCHANGED <<tmp, fileid>>
          \/ /\ file_info[m] # NoRow
             /\ Finish("upload", "009")
             /\ fileid' = 0
             /\ UNCHANGED file_info
    /\ UNCHANGED <<user_file_list, share_file_list, user_file_count, nextRow,
                   redisVars, storeVars, envVars>>

UploadInsertRow ==
    /\ At("upload", "up_row")
    /\ InsertUserRow(req["upload"])
    /\ Goto("upload", "up_selcnt")
    /\ UNCHANGED <<file_info, share_file_list, user_file_count, redisVars,
                   storeVars, tmp, envVars, fileid>>

UploadSelectCount ==
    /\ At("upload", "up_selcnt")
    /\ SelectCount("upload", req["upload"].user)
    /\ Goto("upload", "up_wrcnt")
    /\ UNCHANGED <<sqlVars, redisVars, storeVars, envVars, fileid>>

UploadWriteCount ==
    /\ At("upload", "up_wrcnt")
    /\ LET u == req["upload"].user IN
          \/ /\ DuplicateKey("upload", u)
             /\ Finish("upload", "009")
             /\ UNCHANGED user_file_count
          \/ /\ ~DuplicateKey("upload", u)
             /\ user_file_count' = CountAfterBump("upload", u)
             /\ Finish("upload", "008")
    /\ fileid' = 0
    /\ UNCHANGED <<file_info, user_file_list, share_file_list, nextRow,
                   redisVars, storeVars, envVars>>

(***************************************************************************)
(* A statement fails.  Everywhere the answer is 009, except that a failing *)
(* SELECT of the count is not looked at.                                   *)
(***************************************************************************)
UploadError ==
    /\ SqlErrs("upload")
    /\ \/ /\ pc["upload"] \in {"up_store", "up_info", "up_row", "up_wrcnt"}
          /\ Finish("upload", "009")
          /\ fileid' = 0
       \/ /\ At("upload", "up_selcnt")
          /\ tmp' = [tmp EXCEPT !["upload"] = Failed]
          /\ Goto("upload", "up_wrcnt")
          /\ UNCHANGED fileid

UploadNext ==
    \/ UploadAccept     \/ upload_to_dstorage
    \/ UploadInsertInfo \/ UploadInsertRow
    \/ UploadSelectCount \/ UploadWriteCount
    \/ UploadError
=============================================================================
