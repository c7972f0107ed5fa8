------------------------------- MODULE Hfdfs -------------------------------
(***************************************************************************)
(* The five services that write or rank files, running concurrently over   *)
(* MySQL, Redis and FastDFS, with processes killed in the middle of a      *)
(* request and Redis restarts that lose its unsaved data.                  *)
(***************************************************************************)
EXTENDS UploadCgi, Md5Cgi, DealFileCgi, DealShareFileCgi, ShareFilesCgi

localVars == <<fileid, dealfileVars, sharefilesVars>>

vars == <<stateVars, localVars>>

Init == StateInit /\ UploadInit /\ DealFileInit /\ ShareFilesInit
-----------------------------------------------------------------------------
(***************************************************************************)
(* stop_process of sh/fcgi.sh, a crash on a NULL reply of a lost Redis     *)
(* connection, or the machine: the handler stops between two statements,   *)
(* its locals are gone, the three stores keep what was written.  The       *)
(* process is started again and accepts the next request.                  *)
(***************************************************************************)
Kill(p) ==
    /\ ~At(p, "idle")
    /\ kills < MaxKills
    /\ kills' = kills + 1
    /\ Finish(p, "none")
    /\ fileid' = IF p = "upload" THEN 0 ELSE fileid
    /\ flag'   = IF p = D THEN FALSE ELSE flag
    /\ del_id' = IF p = D THEN 0 ELSE del_id
    /\ todo'   = IF p = R THEN {} ELSE todo
    /\ page'   = IF p = R THEN {} ELSE page
    /\ UNCHANGED <<sqlVars, redisVars, storeVars, accepted, sqlErrs, redisLosses>>

(***************************************************************************)
(* Redis restarts: redis.conf has appendonly no and save 900 1, so the     *)
(* sorted set and the hash of the last quarter of an hour are lost.        *)
(***************************************************************************)
RedisLoss ==
    /\ redisLosses < MaxRedisLosses
    /\ redisLosses' = redisLosses + 1
    /\ zset' = [f \in FileIds |-> NoRow]
    /\ hash' = {}
    /\ UNCHANGED <<sqlVars, storeVars, procVars, accepted, sqlErrs, kills,
                   localVars>>

AllIdle == \A p \in Cgis : At(p, "idle")

(* every service waits in FCGI_Accept and no further request comes *)
ClientsDone ==
    /\ AllIdle
    /\ accepted = MaxRequests
    /\ UNCHANGED vars

UploadStep     == UploadNext /\ UNCHANGED <<dealfileVars, sharefilesVars>>
Md5Step        == Md5Next /\ UNCHANGED localVars
DealFileStep   == DealFileNext /\ UNCHANGED <<fileid, sharefilesVars>>
DealShareStep  == DealShareFileNext /\ UNCHANGED localVars
ShareFilesStep == ShareFilesNext /\ UNCHANGED <<fileid, dealfileVars>>

Next ==
    \/ UploadStep    \/ Md5Step \/ DealFileStep
    \/ DealShareStep \/ ShareFilesStep
    \/ (\E p \in Cgis : Kill(p))
    \/ RedisLoss
    \/ ClientsDone

Spec == Init /\ [][Next]_vars

(***************************************************************************)
(* One request at a time.                                                  *)
(***************************************************************************)
Arrives(p) == At(p, "idle") /\ req'[p] # NoReq

OneAtATimeNext == Next /\ \A p \in Cgis : Arrives(p) => AllIdle

OneAtATimeSpec == Init /\ [][OneAtATimeNext]_vars

(***************************************************************************)
(* One request at a time, and only those the pages of the front end offer: *)
(* send content only when no instant upload is possible; share, delete and *)
(* count a file one has; withdraw a share of one's own; copy or count a    *)
(* file that is shared.  No request is sent twice, and Redis restarts only *)
(* between requests.                                                       *)
(***************************************************************************)
Offered(r) ==
    /\ r.cmd = "upload" => file_info[r.md5] = NoRow
    /\ r.cmd \in {"share", "del", "pv"} => OwnRows(r) # {}
    /\ r.cmd = "cancel" => OwnShares(r) # {}
    /\ r.cmd \in {"save", "sharepv"} => SharesOf(FileId(r)) # {}

SerialNext ==
    /\ OneAtATimeNext
    /\ \A p \in Cgis : Arrives(p) => Offered(req'[p])
    /\ redisLosses' # redisLosses => AllIdle

SerialSpec == Init /\ [][SerialNext]_vars

(***************************************************************************)
(* A running process executes its next statement: MySQL, Redis and FastDFS *)
(* answer every command, with a result or an error.  Nothing forces a      *)
(* client to send a request, a statement to fail or a process to be killed.*)
(***************************************************************************)
Working(p) == ~At(p, "idle")

FairSpec ==
    /\ Spec
    /\ WF_vars(UploadStep /\ Working("upload"))
    /\ WF_vars(Md5Step /\ Working("md5"))
    /\ WF_vars(DealFileStep /\ Working(D))
    /\ WF_vars(DealShareStep /\ Working(S))
    /\ WF_vars(ShareFilesStep /\ Working(R))
-----------------------------------------------------------------------------
(***************************************************************************)
(* Types.                                                                  *)
(***************************************************************************)
UploadLabels == {"up_store", "up_info", "up_row", "up_selcnt", "up_wrcnt"}

Md5Labels == {"md_info", "md_owned", "md_inc", "md_row", "md_selcnt",
              "md_wrcnt"}

DealFileLabels ==
    {"sh_zset", "sh_sel", "sh_repair", "sh_status", "sh_row", "sh_selcnt",
     "sh_wrcnt", "sh_zadd", "sh_hset", "de_zset", "de_status", "de_share",
     "de_scsel", "de_scwr", "de_zrem", "de_hdel", "de_ucsel", "de_ucwr",
     "de_row", "de_info", "de_dec", "de_fid", "de_drop", "de_store",
     "pv_sel", "pv_upd"}

DealShareLabels ==
    {"sp_sel", "sp_upd", "sp_zset", "sp_incr", "sp_zadd", "sp_hset",
     "ca_status", "ca_scsel", "ca_scwr", "ca_row", "ca_zrem", "ca_hdel",
     "sv_owned", "sv_info", "sv_inc", "sv_row", "sv_selcnt", "sv_wrcnt"}

ShareFilesLabels ==
    {"rk_count", "rk_card", "rk_delz", "rk_delh", "rk_rows", "rk_zadd",
     "rk_hset", "rk_range", "rk_hget", "rk_score"}

LabelsOf(p) ==
    CASE p = "upload" -> UploadLabels
      [] p = "md5"    -> Md5Labels
      [] p = D        -> DealFileLabels
      [] p = S        -> DealShareLabels
      [] p = R        -> ShareFilesLabels

Labels == {"idle"} \cup UNION {LabelsOf(p) : p \in Cgis}

Codes == {"none", "page", "005", "006", "007", "008", "009", "010", "011",
          "012", "013", "014", "015", "016", "017", "018", "019", "020", "021",
          "022", "111"}

(* labels at which tmp holds a number the handler read *)
NumLabels == {"md_owned", "md_inc", "de_scwr", "de_ucwr", "de_dec", "pv_upd",
              "sp_upd", "sp_zset", "sp_zadd", "ca_scwr", "sv_inc", "rk_card"}

DataOK ==
    /\ file_info \in [Md5s -> InfoRow \cup {NoRow}]
    /\ user_file_list \subseteq UserRow
    /\ share_file_list \subseteq ShareRow
    /\ user_file_count \in [CountKeys -> Int \cup {NoRow}]
    /\ nextRow \in Nat
    /\ zset \in [FileIds -> Int \cup {NoRow}]
    /\ hash \subseteq FileIds
    /\ storage \subseteq Nat
    /\ nextFid \in Nat

ProcOK ==
    /\ pc \in [Cgis -> Labels]
    /\ reply \in [Cgis -> Codes]
    /\ req \in [Cgis -> Requests \cup {NoReq}]
    /\ tmp \in [Cgis -> Int \cup {NoRow, Failed}]
    /\ \A p \in Cgis : /\ pc[p] \in LabelsOf(p) \cup {"idle"}
                       /\ pc[p] = "idle" <=> req[p] = NoReq
                       /\ pc[p] \in NumLabels => tmp[p] \in Int

LocalOK ==
    /\ fileid \in Nat
    /\ flag \in BOOLEAN
    /\ del_id \in Nat
    /\ todo \subseteq ShareRow
    /\ page \subseteq (Nat \X FileIds)

EnvOK ==
    /\ accepted \in 0 .. MaxRequests
    /\ sqlErrs \in 0 .. MaxSqlErrs
    /\ kills \in 0 .. MaxKills
    /\ redisLosses \in 0 .. MaxRedisLosses

(***************************************************************************)
(* The type invariant: every row, member and local has its type; a process *)
(* is idle exactly when it has no request; the handlers that do arithmetic *)
(* on what a SELECT returned have a number there, not "no row".            *)
(***************************************************************************)
TypeOK == DataOK /\ ProcOK /\ LocalOK /\ EnvOK
-----------------------------------------------------------------------------
(***************************************************************************)
(* Safety under any interleaving, kill, failing statement and Redis loss.  *)
(***************************************************************************)

(***************************************************************************)
(* Every row of file_info names a file that FastDFS still has: del_file    *)
(* never removes content from storage that a row, of this upload or of a   *)
(* later upload of the same digest, still points to.                       *)
(***************************************************************************)
StorageBacksFileInfo ==
    \A m \in Md5s : file_info[m] # NoRow => file_info[m].file_id \in storage

(***************************************************************************)
(* Once del_file has read the reference count, the row of file_info stays  *)
(* until del_file itself deletes it, and the file id it goes on to remove  *)
(* is the one of that row: the SELECT of file_id cannot come back empty.   *)
(***************************************************************************)
RowStaysForDelete ==
    /\ pc[D] \in {"de_dec", "de_fid", "de_drop"} =>
          file_info[req[D].md5] # NoRow
    /\ At(D, "de_drop") => file_info[req[D].md5].file_id = del_id

(***************************************************************************)
(* Why content stays: an inductive invariant.  File ids are fresh; two     *)
(* rows never share one; the file an upload has stored is in no row until  *)
(* it inserts its own; the file del_file removes is in no row and is not   *)
(* the one an upload has in hand.                                          *)
(***************************************************************************)
InRow(i) == \E m \in Md5s : file_info[m] # NoRow /\ file_info[m].file_id = i

StorageInv ==
    /\ \A i \in storage : i < nextFid
    /\ StorageBacksFileInfo
    /\ \A m, n \in Md5s :
          /\ file_info[m] # NoRow
          /\ file_info[n] # NoRow
          /\ file_info[m].file_id = file_info[n].file_id
          => m = n
    /\ At("upload", "up_info") => fileid \in storage /\ ~InRow(fileid)
    /\ RowStaysForDelete
    /\ At(D, "de_store") =>
          /\ del_id < nextFid
          /\ ~InRow(del_id)
          /\ At("upload", "up_info") => fileid # del_id

(***************************************************************************)
(* The services implement ContentStore: FastDFS is the set of live files,  *)
(* a row of file_info publishes its digest.  However uploads, instant      *)
(* uploads, copies, deletes, kills and failing statements interleave, a    *)
(* statement does at most one of: store a new file, publish a digest under *)
(* a stored file that no other row names, withdraw a digest, remove a file *)
(* that no row names.                                                      *)
(***************************************************************************)
FileIdOf(m) == IF file_info[m] = NoRow THEN NoRow ELSE file_info[m].file_id

CS == INSTANCE ContentStore WITH
         Digests <- Md5s, NoFile <- NoRow, live <- storage,
         published <- [m \in Md5s |-> FileIdOf(m)], next <- nextFid

ImplementsContentStore == CS!Spec

(***************************************************************************)
(* A user's row in user_file_count holds at least 1: del_file deletes it   *)
(* instead of writing 0, although the three services that add files and    *)
(* the one that deletes write back counts read two statements earlier.     *)
(***************************************************************************)
UserCountPositive ==
    \A u \in Users : user_file_count[u] # NoRow => user_file_count[u] >= 1

(***************************************************************************)
(* No file is listed twice among the shares.  share_file_list has no key;  *)
(* only share_file's two lookups, in Redis and in MySQL, prevent a second  *)
(* row, and the Redis one may be wrong or empty.  A failing lookup is      *)
(* taken for "not shared", hence the hypothesis.                           *)
(***************************************************************************)
ShareUnique ==
    sqlErrs = 0 =>
       \A x, y \in share_file_list : FileId(x) = FileId(y) => x = y

(***************************************************************************)
(* A reference count of 0 is only ever seen while del_file is about to     *)
(* delete that row; counts are never negative.                             *)
(***************************************************************************)
Deleting(m) == pc[D] \in {"de_fid", "de_drop"} /\ req[D].md5 = m

ZeroCountOnlyWhileDeleting ==
    sqlErrs = 0 /\ kills = 0 =>
       \A m \in Md5s : file_info[m] # NoRow =>
          \/ file_info[m].count >= 1
          \/ file_info[m].count = 0 /\ Deleting(m)

(***************************************************************************)
(* The download counter of a share never goes down while the row lives:    *)
(* pv_file writes back a value it read before, on every row of the file.   *)
(***************************************************************************)
SharePvNeverDecreases ==
    [][\A x \in share_file_list, y \in share_file_list' :
          x.rid = y.rid => x.pv <= y.pv]_vars

(***************************************************************************)
(* Every request a service has accepted is answered: the import loop and   *)
(* the page loop of the ranking end, whatever the other services do to     *)
(* Redis meanwhile.                                                        *)
(***************************************************************************)
Answered == \A p \in Cgis : ~At(p, "idle") ~> At(p, "idle")
-----------------------------------------------------------------------------
(***************************************************************************)
(* What the bookkeeping promises when nothing fails.                       *)
(***************************************************************************)
NoFault == sqlErrs = 0 /\ kills = 0

(***************************************************************************)
(* The reference count of a digest is the number of user rows that have it *)
(* ("每增加一个用户拥有此文件，此计数器+1", upload_cgi.c), and a row of   *)
(* file_info exists exactly as long as some user has the file.             *)
(***************************************************************************)
RefCountExact ==
    NoFault /\ AllIdle =>
       \A m \in Md5s :
          LET holders == {x \in user_file_list : x.md5 = m} IN
             IF file_info[m] = NoRow THEN holders = {}
             ELSE file_info[m].count = Cardinality(holders)

(***************************************************************************)
(* A user's row in user_file_count is the number of files in that user's   *)
(* list, and there is none for an empty list.                              *)
(***************************************************************************)
UserCountExact ==
    NoFault /\ AllIdle =>
       \A u \in Users :
          LET own == {x \in user_file_list : x.user = u} IN
             IF user_file_count[u] = NoRow THEN own = {}
             ELSE user_file_count[u] = Cardinality(own)

(***************************************************************************)
(* del_file, at the line that says no user references the file any more,   *)
(* finds no user row with the digest.                                      *)
(***************************************************************************)
UnreferencedWhenDropped ==
    NoFault /\ At(D, "de_fid") =>
       \A x \in user_file_list : x.md5 # req[D].md5

(***************************************************************************)
(* The services implement FileLibrary when requests are served one at a    *)
(* time: the reference counts, the lookups before an INSERT and the        *)
(* DELETEs of four services together keep a digest as long as a user has   *)
(* it, a file once per user, and one share per file, although Redis, which *)
(* is asked first, may have lost everything.                               *)
(***************************************************************************)
Triples(rows) == {<<x.user, x.md5, x.filename>> : x \in rows}

FL == INSTANCE FileLibrary WITH
         Digests <- Md5s,
         held    <- {m \in Md5s : file_info[m] # NoRow},
         own     <- Triples(user_file_list),
         shared  <- Triples(share_file_list)

ImplementsFileLibrary == FL!Spec

(***************************************************************************)
(* No file is left in FastDFS that no row names: upload_cgi.c stores first *)
(* and inserts the row second, del_file deletes the row first and the file *)
(* second.                                                                 *)
(***************************************************************************)
NoOrphans == NoFault /\ AllIdle => \A i \in storage : InRow(i)

(***************************************************************************)
(* Redis never shows more downloads of a share than MySQL has counted:     *)
(* pv_file writes MySQL first, and a score is set anew whenever a file is  *)
(* shared, put back or refilled, even if its old member was left behind.   *)
(***************************************************************************)
ScoreAtMostDownloads ==
    NoFault /\ AllIdle =>
       \A x \in share_file_list :
          FileId(x) \in Members => zset[FileId(x)] <= x.pv

(***************************************************************************)
(* An answer that reports success (upload 008, instant upload 006, copy    *)
(* 020, share 010, delete 013, withdraw 018) is true of MySQL when it is   *)
(* given, and "already yours" (005, 021) too.                              *)
(***************************************************************************)
Told(r, code) ==
    /\ code \in {"005", "006", "008", "020", "021"} =>
          \E x \in user_file_list' : /\ Triples({x}) = Triples({r})
                                     /\ file_info'[x.md5] # NoRow
    /\ code = "010" => \E x \in share_file_list' : Triples({x}) = Triples({r})
    /\ code = "013" => Triples({r}) \cap Triples(user_file_list') = {}
    /\ code = "018" => Triples({r}) \cap Triples(share_file_list') = {}

AnswersAreTrue ==
    [][\A p \in Cgis : Working(p) /\ pc'[p] = "idle" =>
          Told(req[p], reply'[p])]_vars

(***************************************************************************)
(* The share counter is the number of rows of share_file_list.             *)
(***************************************************************************)
ShareCountExact ==
    NoFault /\ AllIdle =>
       IF user_file_count[ShareKey] = NoRow THEN share_file_list = {}
       ELSE user_file_count[ShareKey] = Cardinality(share_file_list)

(***************************************************************************)
(* A share that Redis has, it has with its download count and its name:    *)
(* share_file, which finds a share in MySQL that Redis has lost, saves it  *)
(* in Redis before it answers "already shared".                            *)
(***************************************************************************)
RedisHasWholeShare ==
    NoFault /\ AllIdle =>
       \A x \in share_file_list :
          FileId(x) \in Members =>
             zset[FileId(x)] = x.pv /\ FileId(x) \in hash

(***************************************************************************)
(* When get_ranking_filelist has refilled Redis and nobody interferes, the *)
(* sorted set holds exactly the shares, at their download counts, and      *)
(* every member has its name in the hash.                                  *)
(***************************************************************************)
RefillMirrorsShares ==
    [][At(R, "rk_hset") /\ pc'[R] = "rk_range" =>
          /\ Members' = {FileId(x) : x \in share_file_list}
          /\ hash' = Members'
          /\ \A x \in share_file_list : zset'[FileId(x)] = x.pv]_vars

(***************************************************************************)
(* rop_zset_exit answers 1 for a member and 0 for a non-member.            *)
(***************************************************************************)
ExitTellsMembership ==
    \A f \in FileIds : rop_zset_exit(f) = IF f \in Members THEN 1 ELSE 0
=============================================================================
