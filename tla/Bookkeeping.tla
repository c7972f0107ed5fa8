---------------------------- MODULE Bookkeeping ----------------------------
(***************************************************************************)
(* Why the books balance when requests come one at a time and nothing      *)
(* fails: the inductive invariant behind the properties of Hfdfs that hold *)
(* of SerialSpec.  Between two statements of a handler the tables disagree *)
(* by what that handler has yet to write; the invariant says by how much,  *)
(* and what the handler has found out before.                              *)
(***************************************************************************)
EXTENDS Hfdfs

Holders(m) == {x \in user_file_list : x.md5 = m}
ListOf(u)  == {x \in user_file_list : x.user = u}

InfoCount(m) == IF file_info[m] = NoRow THEN 0 ELSE file_info[m].count
UserCount(u) == IF user_file_count[u] = NoRow THEN 0 ELSE user_file_count[u]

(* counted in file_info; the row is not there yet, or no longer *)
RefAhead == {"up_row", "md_row", "sv_row", "de_info", "de_dec"}

(* a row of the user that user_file_count does not count yet, or no longer *)
CountBehind == {"up_selcnt", "up_wrcnt", "md_selcnt", "md_wrcnt",
                "sv_selcnt", "sv_wrcnt", "de_row"}

RefDue(m) ==
    IF \E p \in Cgis : pc[p] \in RefAhead /\ req[p].md5 = m THEN 1 ELSE 0

UserDue(u) ==
    IF \E p \in Cgis : pc[p] \in CountBehind /\ req[p].user = u THEN 1 ELSE 0

(* What the counters say, and that a user has a file once. *)
Books ==
    /\ IsFiniteSet(user_file_list)
    /\ \A x, y \in user_file_list :
          x.user = y.user /\ x.md5 = y.md5 /\ x.filename = y.filename => x = y
    /\ \A m \in Md5s : InfoCount(m) = Cardinality(Holders(m)) + RefDue(m)
    /\ \A u \in Users : UserCount(u) + UserDue(u) = Cardinality(ListOf(u))

(* labels from which del_file has deleted the user's row *)
DelTail == {"de_info", "de_dec", "de_fid", "de_drop", "de_store"}

(* labels at which the user of the request has the file, and has it not *)
Has   == (DealFileLabels \ DelTail) \cup (CountBehind \ {"de_row"})
Lacks == {"up_row", "md_inc", "md_row", "sv_info", "sv_inc", "sv_row"}
            \cup DelTail

(* What the handler in service has found out. *)
Knows(p) ==
    /\ pc[p] \in Has => OwnRows(req[p]) # {}
    /\ pc[p] \in Lacks => OwnRows(req[p]) = {}
    /\ pc[p] \in {"up_store", "up_info"} => file_info[req[p].md5] = NoRow
    /\ pc[p] \in {"md_owned", "md_inc", "sv_inc", "de_dec"} =>
          /\ file_info[req[p].md5] # NoRow
          /\ tmp[p] = file_info[req[p].md5].count
    /\ pc[p] \in {"up_wrcnt", "md_wrcnt", "sv_wrcnt", "de_ucwr"} =>
          tmp[p] = user_file_count[req[p].user]
    /\ pc[p] \in {"de_fid", "de_drop"} => InfoCount(req[p].md5) = 0

(* A file that no row names is in the hands of an upload or of a delete. *)
Stored ==
    \A i \in storage :
       \/ InRow(i)
       \/ At("upload", "up_info") /\ i = fileid
       \/ At(D, "de_store") /\ i = del_id

Alone == \A p, q \in Cgis : Working(p) /\ Working(q) => p = q

(***************************************************************************)
(* The inductive invariant of the bookkeeping in MySQL and FastDFS: at     *)
(* most one handler runs, and as long as nothing has failed every counter  *)
(* is the number of rows it counts, up to what that handler has yet to     *)
(* write.                                                                  *)
(***************************************************************************)
BooksInv ==
    /\ Alone
    /\ NoFault => Books /\ Stored /\ \A p \in Cgis : Knows(p)
-----------------------------------------------------------------------------
(* share_file has inserted its row and has not yet set the score *)
NotScored(f) ==
    pc[D] \in {"sh_selcnt", "sh_wrcnt", "sh_zadd"} /\ FileId(req[D]) = f

Scores ==
    \A x \in share_file_list :
       FileId(x) \in Members /\ ~NotScored(FileId(x)) =>
          zset[FileId(x)] <= x.pv

(* What the handlers of shares have found out or done. *)
KnowsShares ==
    /\ pc[D] \in {"sh_selcnt", "sh_wrcnt", "sh_zadd", "sh_hset"} =>
          OwnShares(req[D]) # {}
    /\ pc[S] \in {"ca_zrem", "ca_hdel"} => OwnShares(req[S]) = {}
    /\ pc[S] = "sp_upd" =>
          \A x \in SharesOf(FileId(req[S])) : x.pv = tmp[S]
    /\ pc[S] \in {"sp_zset", "sp_zadd"} =>
          \A x \in SharesOf(FileId(req[S])) : x.pv = tmp[S] + 1
    /\ pc[S] \in {"sp_zset", "sp_incr"} =>
          \A x \in SharesOf(FileId(req[S])) :
             /\ x.pv >= 1
             /\ FileId(x) \in Members => zset[FileId(x)] < x.pv

(* What the refill of Redis has done so far. *)
Done == share_file_list \ todo

Refilled ==
    /\ todo \subseteq share_file_list
    /\ pc[R] \notin {"rk_zadd", "rk_hset"} => todo = {}
    /\ pc[R] \in {"rk_delh", "rk_rows"} => Members = {}
    /\ pc[R] = "rk_rows" => hash = {}
    /\ pc[R] \in {"rk_zadd", "rk_hset"} =>
          /\ Members = {FileId(x) : x \in Done}
          /\ \A x \in Done : zset[FileId(x)] = x.pv
    /\ pc[R] = "rk_zadd" => hash = Members /\ todo # {}
    /\ pc[R] = "rk_hset" =>
          \E f \in Members : page = {<<0, f>>} /\ hash \cup {f} = Members

(***************************************************************************)
(* The inductive invariant of the shares in MySQL and their copy in Redis: *)
(* a refill copies row by row what share_file_list has, also when          *)
(* processes are killed; and as long as nothing has failed a score never   *)
(* exceeds the download counter.                                           *)
(***************************************************************************)
RedisInv ==
    /\ sqlErrs = 0 => Refilled
    /\ NoFault => Scores /\ KnowsShares
=============================================================================
