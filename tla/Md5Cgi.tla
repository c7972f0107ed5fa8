------------------------------- MODULE Md5Cgi -------------------------------
(***************************************************************************)
(* md5_cgi.c, deal_md5: "instant upload".  A user whose file the server    *)
(* already stores gets a row in user_file_list and the reference count of  *)
(* file_info goes up; no content is sent.                                  *)
(***************************************************************************)
EXTENDS HfdfsState

Md5Accept == Accept("md5", "md5", "md_info")

(* select count from file_info where md5 = ...; no row: 007 *)
Md5SelectInfo ==
    /\ At("md5", "md_info")
    /\ LET row == file_info[req["md5"].md5] IN
          \/ /\ row = NoRow
             /\ Finish("md5", "007")
          \/ /\ row # NoRow
             /\ tmp' = [tmp EXCEPT !["md5"] = row.count]
             /\ Goto("md5", "md_owned")
    /\ UNCHANGED <<sqlVars, redisVars, storeVars, envVars>>

(* the user already has the file under this name: 005 *)
Md5SelectOwned ==
    /\ At("md5", "md_owned")
    /\ \/ /\ OwnRows(req["md5"]) # {}
          /\ Finish("md5", "005")
       \/ /\ OwnRows(req["md5"]) = {}
          /\ Goto("md5", "md_inc")
          /\ UNCHANGED tmp
    /\ UNCHANGED <<sqlVars, redisVars, storeVars, envVars>>

(* mutant: count++ where the code has ++count *)
Md5UpdateInfoPostfix ==
    /\ At("md5", "md_inc")
    /\ UpdateInfoCount(req["md5"].md5, tmp["md5"])
    /\ Goto("md5", "md_row")
    /\ UNCHANGED <<user_file_list, share_file_list, user_file_count, nextRow,
                   redisVars, storeVars, tmp, envVars>>

(* update file_info set count = (the count read) + 1 *)
Md5UpdateInfo ==
    /\ At("md5", "md_inc")
    /\ UpdateInfoCount(req["md5"].md5, tmp["md5"] + 1)
    /\ Goto("md5", "md_row")
    /\ UNCHANGED <<user_file_list, share_file_list, user_file_count, nextRow,
                   redisVars, storeVars, tmp, envVars>>

Md5InsertRow ==
    /\ At("md5", "md_row")
    /\ InsertUserRow(req["md5"])
    /\ Goto("md5", "md_selcnt")
    /\ UNCHANGED <<file_info, share_file_list, user_file_count, redisVars,
                   storeVars, tmp, envVars>>

Md5SelectCount ==
    /\ At("md5", "md_selcnt")
    /\ SelectCount("md5", req["md5"].user)
    /\ Goto("md5", "md_wrcnt")
    /\ UNCHANGED <<sqlVars, redisVars, storeVars, envVars>>

Md5WriteCount ==
    /\ At("md5", "md_wrcnt")
    /\ LET u == req["md5"].user IN
          \/ /\ DuplicateKey("md5", u)
             /\ Finish("md5", "007")
             /\ UNCHANGED user_file_count
          \/ /\ ~DuplicateKey("md5", u)
             /\ user_file_count' = CountAfterBump("md5", u)
             /\ Finish("md5", "006")
    /\ UNCHANGED <<file_info, user_file_list, share_file_list, nextRow,
                   redisVars, storeVars, envVars>>

(***************************************************************************)
(* A statement fails.  deal_md5 tests the result of its first SELECT only  *)
(* for 0 and 1: on failure it leaves ret at 0 and answers 006.  A failing  *)
(* second SELECT counts as "not owned", a failing SELECT of the user's     *)
(* count is not looked at.                                                 *)
(***************************************************************************)
Md5Error ==
    /\ SqlErrs("md5")
    /\ \/ /\ At("md5", "md_info")
          /\ \/ Finish("md5", "007")    \* no connection
             \/ Finish("md5", "006")    \* the SELECT fails
       \/ /\ At("md5", "md_owned")
          /\ Goto("md5", "md_inc")
          /\ UNCHANGED tmp
       \/ /\ pc["md5"] \in {"md_inc", "md_row", "md_wrcnt"}
          /\ Finish("md5", "007")
       \/ /\ At("md5", "md_selcnt")
          /\ tmp' = [tmp EXCEPT !["md5"] = Failed]
          /\ Goto("md5", "md_wrcnt")

Md5Next ==
    \/ Md5Accept     \/ Refuse("md5")
    \/ Md5SelectInfo \/ Md5SelectOwned
    \/ Md5UpdateInfo \/ Md5InsertRow
    \/ Md5SelectCount \/ Md5WriteCount
    \/ Md5Error
=============================================================================
