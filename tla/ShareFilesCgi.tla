--------------------------- MODULE ShareFilesCgi ---------------------------
(***************************************************************************)
(* sharefiles_cgi.c, get_ranking_filelist: compare the number of shares in *)
(* MySQL and in Redis, refill Redis when they differ, answer from Redis.   *)
(***************************************************************************)
EXTENDS HfdfsState

CONSTANTS RankStart, RankCount    \* the page a client asks for

ASSUME PageAssumption == RankStart \in Nat /\ RankCount \in Nat \ {0}

VARIABLES
    todo,    \* rows of the result set not imported yet
    page     \* <<position, member>> pairs of the page not looked up yet;
             \* during the import, the member whose name is written next

sharefilesVars == <<todo, page>>

R == "sharefiles"

ShareFilesInit == todo = {} /\ page = {}

RankAccept == Accept(R, "ranking", "rk_count") /\ UNCHANGED sharefilesVars

(* step 1: the share counter; no row: 015 *)
RankSelectCount ==
    /\ At(R, "rk_count")
    /\ \/ /\ user_file_count[ShareKey] = NoRow
          /\ Finish(R, "015")
       \/ /\ user_file_count[ShareKey] # NoRow
          /\ SelectCount(R, ShareKey)
          /\ Goto(R, "rk_card")
    /\ UNCHANGED <<sqlVars, redisVars, storeVars, envVars, sharefilesVars>>

(* steps 2 and 3: ZCARD, compared with the counter *)
RankZcard ==
    /\ At(R, "rk_card")
    /\ tmp' = [tmp EXCEPT ![R] = NoRow]
    /\ Goto(R, IF Cardinality(Members) = tmp[R] THEN "rk_range" ELSE "rk_delz")
    /\ UNCHANGED <<sqlVars, redisVars, storeVars, envVars, sharefilesVars>>

(* step 4 a: DEL of the sorted set, DEL of the hash *)
RankDelZset ==
    /\ At(R, "rk_delz")
    /\ zset' = [f \in FileIds |-> NoRow]
    /\ Goto(R, "rk_delh")
    /\ UNCHANGED <<sqlVars, hash, storeVars, tmp, envVars, sharefilesVars>>

RankDelHash ==
    /\ At(R, "rk_delh")
    /\ hash' = {}
    /\ Goto(R, "rk_rows")
    /\ UNCHANGED <<sqlVars, zset, storeVars, tmp, envVars, sharefilesVars>>

(* step 4 b: select md5, filename, pv from share_file_list; none: 015 *)
RankSelectRows ==
    /\ At(R, "rk_rows")
    /\ \/ /\ share_file_list = {}
          /\ Finish(R, "015")
          /\ UNCHANGED todo
       \/ /\ share_file_list # {}
          /\ todo' = share_file_list
          /\ Goto(R, "rk_zadd")
          /\ UNCHANGED tmp
    /\ UNCHANGED <<sqlVars, redisVars, storeVars, envVars, page>>

(* the loop over the result set, order by pv desc; ties in any order *)
IsNextImport(x) == x \in todo /\ \A y \in todo : y.pv <= x.pv

(* mutant: members are put back with score 0, as share_file does *)
RankZaddZero ==
    /\ At(R, "rk_zadd")
    /\ \E x \in todo :
          /\ IsNextImport(x)
          /\ rop_zset_add(FileId(x), 0)
          /\ page' = {<<0, FileId(x)>>}
          /\ todo' = todo \ {x}
    /\ Goto(R, "rk_hset")
    /\ UNCHANGED <<sqlVars, hash, storeVars, tmp, envVars>>

(* ZADD fileid with the row's pv, then HSET fileid with its name *)
RankZadd ==
    /\ At(R, "rk_zadd")
    /\ \E x \in todo :
          /\ IsNextImport(x)
          /\ rop_zset_add(FileId(x), x.pv)
          /\ page' = {<<0, FileId(x)>>}
          /\ todo' = todo \ {x}
    /\ Goto(R, "rk_hset")
    /\ UNCHANGED <<sqlVars, hash, storeVars, tmp, envVars>>

RankHset ==
    /\ At(R, "rk_hset")
    /\ \E e \in page : rop_hash_set(e[2])
    /\ page' = {}
    /\ Goto(R, IF todo = {} THEN "rk_range" ELSE "rk_zadd")
    /\ UNCHANGED <<sqlVars, zset, storeVars, tmp, envVars, todo>>

(* step 5: ZREVRANGE start start+count-1 *)
RevRank(f) == Cardinality({g \in Members : Before(f, g)})

rop_zset_zrevrange ==
    /\ At(R, "rk_range")
    /\ LET got == {<<RevRank(f), f>> : f \in
                     {g \in Members : /\ RankStart <= RevRank(g)
                                      /\ RevRank(g) < RankStart + RankCount}}
       IN \/ /\ got = {}
             /\ Finish(R, "page")
             /\ UNCHANGED page
          \/ /\ got # {}
             /\ page' = got
             /\ Goto(R, "rk_hget")
             /\ UNCHANGED tmp
    /\ UNCHANGED <<sqlVars, redisVars, storeVars, envVars, todo>>

IsNextOfPage(e) == e \in page /\ \A d \in page : e[1] <= d[1]

(* HGET of the name; a field that is missing: 015 for the whole page *)
RankHget ==
    /\ At(R, "rk_hget")
    /\ \E e \in page :
          /\ IsNextOfPage(e)
          /\ \/ e[2] \in hash /\ Goto(R, "rk_score") /\ UNCHANGED <<tmp, page>>
             \/ e[2] \notin hash /\ Finish(R, "015") /\ page' = {}
    /\ UNCHANGED <<sqlVars, redisVars, storeVars, envVars, todo>>

(* mutant: the loop does not advance *)
RankScoreStuck ==
    /\ At(R, "rk_score")
    /\ Goto(R, "rk_hget")
    /\ UNCHANGED <<sqlVars, redisVars, storeVars, tmp, envVars, sharefilesVars>>

(* ZSCORE; a member that has gone: 015 for the whole page *)
RankScore ==
    /\ At(R, "rk_score")
    /\ \E e \in page :
          /\ IsNextOfPage(e)
          /\ \/ /\ e[2] \notin Members
                /\ Finish(R, "015")
                /\ page' = {}
             \/ /\ e[2] \in Members
                /\ page # {e}
                /\ page' = page \ {e}
                /\ Goto(R, "rk_hget")
                /\ UNCHANGED tmp
             \/ /\ e[2] \in Members
                /\ page = {e}
                /\ page' = {}
                /\ Finish(R, "page")
    /\ UNCHANGED <<sqlVars, redisVars, storeVars, envVars, todo>>

(* no connection, or one of the two SELECTs fails: 015 *)
RankError ==
    /\ SqlErrs(R)
    /\ pc[R] \in {"rk_count", "rk_rows"}
    /\ Finish(R, "015")
    /\ UNCHANGED sharefilesVars

ShareFilesNext ==
    \/ RankAccept  \/ RankSelectCount \/ RankZcard \/ RankDelZset
    \/ RankDelHash \/ RankSelectRows  \/ RankZadd  \/ RankHset
    \/ rop_zset_zrevrange \/ RankHget \/ RankScore \/ RankError
=============================================================================
