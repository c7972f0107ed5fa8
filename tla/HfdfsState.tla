---------------------------- MODULE HfdfsState ----------------------------
(***************************************************************************)
(* The state the HF_DFS services share, and the steps their handlers have  *)
(* in common.                                                              *)
(*                                                                         *)
(* sh/fcgi.sh starts one single-threaded FastCGI process per service.  A   *)
(* process serves one request at a time; different services run            *)
(* concurrently.  MySQL runs with autocommit, so one SQL statement, one    *)
(* Redis command or one FastDFS command is the unit of atomicity: each is  *)
(* a step of its own here, and pc[p] names the statement p executes next.  *)
(***************************************************************************)
EXTENDS Integers, FiniteSets

CONSTANTS
    Users,           \* account names
    Md5s,            \* content digests, 32 hex digits each in the front end
    Names,           \* file names
    Requests,        \* what clients may send: a set of request records
    Rank,            \* memcmp order of the member strings of the Redis zset
    ShareKey,        \* "xxx_share_xxx_file_xxx_list_xxx_count_xxx"
    NoRow,           \* "no such row", "no such member"
    Failed,          \* process_result_one returned -1
    NoReq,           \* no request in service
    MaxRequests,     \* bound: requests accepted in a behaviour
    MaxSqlErrs,      \* bound: failing statements or connections
    MaxKills,        \* bound: processes killed in the middle of a request
    MaxRedisLosses   \* bound: Redis restarts that lose the sorted set

(***************************************************************************)
(* The nine state-changing or ranking commands and the process that serves *)
(* each one.                                                               *)
(***************************************************************************)
Cmds == {"upload", "md5", "share", "del", "pv",
         "sharepv", "cancel", "save", "ranking"}

Cgis == {"upload", "md5", "dealfile", "dealsharefile", "sharefiles"}

CgiOf(cmd) ==
    CASE cmd = "upload"                       -> "upload"
      [] cmd = "md5"                          -> "md5"
      [] cmd \in {"share", "del", "pv"}       -> "dealfile"
      [] cmd \in {"sharepv", "cancel", "save"} -> "dealsharefile"
      [] OTHER                                -> "sharefiles"

(* md5_cgi.c and dealfile_cgi.c call verify_token; the others do not. *)
TokenChecked == {"md5", "dealfile"}

Request == [cmd : Cmds, user : Users, md5 : Md5s, filename : Names]

(* "%s%s" of md5 and filename: injective because an md5 has fixed length. *)
FileIds == Md5s \X Names
FileId(r) == <<r.md5, r.filename>>

InfoRow  == [file_id : Nat, count : Int]
UserRow  == [rid : Nat, user : Users, md5 : Md5s, filename : Names,
             shared_status : {0, 1}, pv : Int]
ShareRow == [rid : Nat, user : Users, md5 : Md5s, filename : Names, pv : Int]

CountKeys == Users \cup {ShareKey}

ASSUME RequestsAssumption == Requests \subseteq Request

ASSUME FiniteAssumption == IsFiniteSet(Md5s) /\ IsFiniteSet(Names)

ASSUME RankAssumption ==
    /\ Rank \in [FileIds -> Int]
    /\ \A f, g \in FileIds : Rank[f] = Rank[g] => f = g

ASSUME KeyAssumption == ShareKey \notin Users

ASSUME NullAssumption ==
    /\ NoRow \notin Int /\ Failed \notin Int /\ NoRow # Failed
    /\ NoReq \notin Request
    /\ NoRow \notin InfoRow

ASSUME BoundsAssumption ==
    /\ MaxRequests \in Nat /\ MaxSqlErrs \in Nat
    /\ MaxKills \in Nat    /\ MaxRedisLosses \in Nat

VARIABLES
    file_info,        \* MySQL, primary key md5
    user_file_list,   \* MySQL, no key: a set of rows with hidden row ids
    share_file_list,  \* MySQL, no key
    user_file_count,  \* MySQL, primary key user; ShareKey counts the shares
    nextRow,          \* the next hidden InnoDB row id
    zset,             \* Redis FILE_PUBLIC_ZSET: score of each member
    hash,             \* Redis FILE_NAME_HASH: the fields present
    storage,          \* FastDFS: the files stored
    nextFid,          \* FastDFS never reuses a file id
    pc, req, tmp, reply,                    \* per process
    accepted, sqlErrs, kills, redisLosses   \* counted against the bounds

sqlVars   == <<file_info, user_file_list, share_file_list, user_file_count,
               nextRow>>
redisVars == <<zset, hash>>
storeVars == <<storage, nextFid>>
procVars  == <<pc, req, tmp, reply>>
envVars   == <<accepted, sqlErrs, kills, redisLosses>>

stateVars == <<sqlVars, redisVars, storeVars, procVars, envVars>>

StateInit ==
    /\ file_info = [m \in Md5s |-> NoRow]
    /\ user_file_list = {}
    /\ share_file_list = {}
    /\ user_file_count = [u \in CountKeys |-> NoRow]
    /\ nextRow = 1
    /\ zset = [f \in FileIds |-> NoRow]
    /\ hash = {}
    /\ storage = {}
    /\ nextFid = 1
    /\ pc = [p \in Cgis |-> "idle"]
    /\ req = [p \in Cgis |-> NoReq]
    /\ tmp = [p \in Cgis |-> NoRow]
    /\ reply = [p \in Cgis |-> "none"]
    /\ accepted = 0 /\ sqlErrs = 0 /\ kills = 0 /\ redisLosses = 0
-----------------------------------------------------------------------------
(***************************************************************************)
(* Control of a process.                                                   *)
(***************************************************************************)
At(p, label) == pc[p] = label

Goto(p, label) ==
    /\ pc' = [pc EXCEPT ![p] = label]
    /\ UNCHANGED <<req, reply>>

(* END: of a handler: the answer is printed and the locals die. *)
Finish(p, code) ==
    /\ pc' = [pc EXCEPT ![p] = "idle"]
    /\ req' = [req EXCEPT ![p] = NoReq]
    /\ tmp' = [tmp EXCEPT ![p] = NoRow]
    /\ reply' = [reply EXCEPT ![p] = code]

(* FCGI_Accept, parsing and, where the service has one, a good token. *)
Accept(p, cmd, label) ==
    /\ At(p, "idle")
    /\ accepted < MaxRequests
    /\ \E r \in Requests :
          /\ r.cmd = cmd
          /\ req' = [req EXCEPT ![p] = r]
    /\ pc' = [pc EXCEPT ![p] = label]
    /\ reply' = [reply EXCEPT ![p] = "none"]
    /\ accepted' = accepted + 1
    /\ UNCHANGED <<sqlVars, redisVars, storeVars, tmp,
                   sqlErrs, kills, redisLosses>>

(* verify_token found no token or a different one: code 111, no effect. *)
Refuse(p) ==
    /\ p \in TokenChecked
    /\ At(p, "idle")
    /\ accepted < MaxRequests
    /\ \E r \in Requests : CgiOf(r.cmd) = p
    /\ reply' = [reply EXCEPT ![p] = "111"]
    /\ accepted' = accepted + 1
    /\ UNCHANGED <<sqlVars, redisVars, storeVars, pc, req, tmp,
                   sqlErrs, kills, redisLosses>>

(* A statement or a connection of p fails; the caller says what follows. *)
SqlErrs(p) ==
    /\ sqlErrs < MaxSqlErrs
    /\ sqlErrs' = sqlErrs + 1
    /\ UNCHANGED <<sqlVars, redisVars, storeVars, accepted, kills, redisLosses>>
-----------------------------------------------------------------------------
(***************************************************************************)
(* The SQL the handlers share.                                             *)
(***************************************************************************)
OwnRows(r) ==
    {x \in user_file_list : /\ x.user = r.user
                            /\ x.md5 = r.md5
                            /\ x.filename = r.filename}

OwnShares(r) ==
    {x \in share_file_list : /\ x.user = r.user
                             /\ x.md5 = r.md5
                             /\ x.filename = r.filename}

SharesOf(f) == {x \in share_file_list : FileId(x) = f}

(* A SELECT without ORDER BY on a keyless table starts at the oldest row. *)
IsOldest(x, rows) == x \in rows /\ \A y \in rows : x.rid <= y.rid

(* insert into user_file_list ... shared_status 0, pv 0 *)
InsertUserRow(r) ==
    /\ user_file_list' = user_file_list \cup
          {[rid |-> nextRow, user |-> r.user, md5 |-> r.md5,
            filename |-> r.filename, shared_status |-> 0, pv |-> 0]}
    /\ nextRow' = nextRow + 1

(* select count from user_file_count: no row and a row are told apart. *)
SelectCount(p, key) ==
    tmp' = [tmp EXCEPT ![p] = user_file_count[key]]

(* update file_info set count = n where md5 = m; no row, no effect *)
UpdateInfoCount(m, n) ==
    file_info' = IF file_info[m] = NoRow THEN file_info
                 ELSE [file_info EXCEPT ![m] =
                          [file_id |-> file_info[m].file_id, count |-> n]]

(***************************************************************************)
(* The count is written back in one of three ways, as the SELECT before it *)
(* decided: INSERT 1 when there was no row, which the primary key refuses  *)
(* if a row has appeared since; UPDATE to the count read plus one, which   *)
(* has no effect if the row has gone; and, when the SELECT failed, sql_cmd *)
(* still holds that SELECT and running it changes nothing.                 *)
(***************************************************************************)
DuplicateKey(p, key) == tmp[p] = NoRow /\ user_file_count[key] # NoRow

(* mutant: the count is written back as it was read *)
CountAfterBumpSame(p, key) ==
    CASE tmp[p] = NoRow -> [user_file_count EXCEPT ![key] = 1]
      [] tmp[p] \in Int /\ user_file_count[key] # NoRow ->
            [user_file_count EXCEPT ![key] = tmp[p]]
      [] OTHER -> user_file_count

CountAfterBump(p, key) ==
    CASE tmp[p] = NoRow -> [user_file_count EXCEPT ![key] = 1]
      [] tmp[p] \in Int /\ user_file_count[key] # NoRow ->
            [user_file_count EXCEPT ![key] = tmp[p] + 1]
      [] OTHER -> user_file_count
-----------------------------------------------------------------------------
(***************************************************************************)
(* Redis.                                                                  *)
(***************************************************************************)
Members == {f \in FileIds : zset[f] # NoRow}

(* Position in the sorted set: by score, equal scores by member string. *)
Before(f, g) ==
    \/ zset[f] < zset[g]
    \/ zset[f] = zset[g] /\ Rank[f] < Rank[g]

(***************************************************************************)
(* ZLEXCOUNT key [m [m on the ziplist encoding (at most 128 members of at  *)
(* most 64 bytes).  The search assumes that the list is sorted by member   *)
(* string, which is so only while all scores are equal: it gives up when   *)
(* the last element is below m or the first above m, looks for the first   *)
(* element not below m, and counts from there while elements are not       *)
(* above m.                                                                *)
(***************************************************************************)
ZLexCount(m) ==
    LET after(f) == {g \in Members : ~Before(g, f)}
        inRange  == \A f \in Members :
                       /\ after(f) = {f} => Rank[f] >= Rank[m]
                       /\ after(f) = Members => Rank[f] <= Rank[m]
        isHead(f) == /\ Rank[f] >= Rank[m]
                     /\ \A g \in Members \ after(f) : Rank[g] < Rank[m]
        counted(f) == {g \in after(f) :
                         \A h \in after(f) \ after(g) : Rank[h] <= Rank[m]}
    IN IF /\ m \in Members
          /\ inRange
          /\ isHead(m)
       THEN Cardinality({g \in counted(m) : Rank[g] <= Rank[m]})
       ELSE 0

(* rop_zset_exit: the integer ZLEXCOUNT returns, whatever it is. *)
rop_zset_exit(f) == ZLexCount(f)

rop_zset_add(f, score) == zset' = [zset EXCEPT ![f] = score]
rop_zset_zrem(f)       == zset' = [zset EXCEPT ![f] = NoRow]
rop_hash_set(f)        == hash' = hash \cup {f}
rop_hash_del(f)        == hash' = hash \ {f}
=============================================================================
