----------------------------- MODULE MyFilesCgi -----------------------------
(***************************************************************************)
(* myfiles_cgi.c: the count and the pages of a user's own files, behind    *)
(* the token check.  user, token and cmd are declared outside the request  *)
(* loop and what the parsers return is ignored: a request that lacks one   *)
(* is served with what an earlier request left there (empty at first), and *)
(* with any start and count.  The files of one account, Owner, are listed  *)
(* here while the other services change them.                              *)
(***************************************************************************)
EXTENDS Session, Functions

CONSTANTS
    Owner,         \* the account whose files are in rows
    PageSize,      \* count of every request
    MaxLists,      \* bound on the requests
    MaxCuts,       \* bound on the requests that lack a field or count
    MaxChanges     \* bound on the changes other services make in a walk

Cmds == {"normal", "pvasc", "pvdesc", "count"}

ASSUME MyFilesAssumption ==
    /\ Owner \in Users /\ None \notin Cmds
    /\ PageSize \in Nat \ {0} /\ {MaxLists, MaxCuts, MaxChanges} \subseteq Nat

VARIABLES
    rows,       \* Owner's rows of user_file_list that have a file_info row
    nextRid,    \* InnoDB's row number of the next row
    list,       \* the process
    buf,        \* user, token and cmd, which outlive the request
    walk,       \* the pages a client asks for, one after the other
    lists, cuts, changes

listVars == <<rows, nextRid, list, buf, walk, lists, cuts, changes>>
vars == <<sessionVars, listVars>>

NoWalk == [client |-> None]

Init ==
    /\ SessionInit
    /\ rows \in {{[rid |-> i, pv |-> 0] : i \in 1 .. 3},
                {[rid |-> i, pv |-> 3 - i] : i \in 1 .. 3}}
    /\ nextRid = 4
    /\ list = Idle
    /\ buf = [user |-> None, token |-> None, cmd |-> None]
    /\ walk = NoWalk
    /\ lists = 0 /\ cuts = 0 /\ changes = 0
-----------------------------------------------------------------------------
Fields(cmd) == IF cmd = "count" THEN 2 ELSE 4

(***************************************************************************)
(* get_count_json_info, get_fileslist_json_info: the fields are copied in  *)
(* the order user, token, start, count; the first one missing ends it, and *)
(* a query without cmd leaves cmd alone.  from is history: the account     *)
(* whose token the client holds, if the body was complete; then start and  *)
(* count are the client's too.                                             *)
(***************************************************************************)
Parse(c, cmd, start, fields) ==
    /\ buf' = [user  |-> IF fields >= 1 THEN held[c][1] ELSE buf.user,
               token |-> IF fields >= 2 THEN held[c] ELSE buf.token,
               cmd   |-> IF cmd # None THEN cmd ELSE buf.cmd]
    /\ list' = [pc |-> "verify", client |-> c, start |-> start,
                from |-> IF fields >= Fields(buf'.cmd) THEN held[c][1] ELSE None]

Accept(c, cmd, start, fields) ==
    /\ list = Idle
    /\ lists < MaxLists
    /\ lists' = lists + 1
    /\ held[c] # None
    /\ Parse(c, cmd, start, fields)
    /\ UNCHANGED <<sessionVars, rows, nextRid, changes>>

(***************************************************************************)
(* A client of Owner asks for its first page.  first, changed and errs are *)
(* history: the rows then, what the other services did since, and the      *)
(* failing statements before.                                              *)
(***************************************************************************)
StartWalk(c, cmd) ==
    /\ walk = NoWalk
    /\ cmd # "count"
    /\ Accept(c, cmd, 0, 4)
    /\ held[c][1] = Owner
    /\ walk' = [client |-> c, cmd |-> cmd, shown |-> <<>>, first |-> rows,
                changed |-> {}, errs |-> sqlErrs, ended |-> FALSE]
    /\ UNCHANGED cuts

(* the rows seen so far are where the next page starts *)
NextPage ==
    /\ walk # NoWalk /\ ~walk.ended
    /\ held[walk.client][1] = Owner
    /\ Accept(walk.client, walk.cmd, Len(walk.shown), 4)
    /\ UNCHANGED <<walk, cuts>>

(* a request for the count, or one whose body lacks a field *)
OtherRequest(c, cmd, fields) ==
    /\ fields < 4
    /\ cuts < MaxCuts
    /\ cuts' = cuts + 1
    /\ Accept(c, cmd, 0, fields)
    /\ UNCHANGED walk

(* mutant: a token under the name is enough, the one sent is not compared *)
verify_tokenAny(u, t) == tokens[u] # None

(* GET user: no such key and another token both refuse *)
verify_token(u, t) == t # None /\ tokens[u] = t

(* is the request at hand one of the walk *)
OfWalk == walk # NoWalk /\ list.client = walk.client /\ list.from # None
             /\ buf.cmd = walk.cmd

(***************************************************************************)
(* Redis may be out of reach.  cmd=count answers with the number whatever  *)
(* the token; the others answer 111 when it is refused.                    *)
(***************************************************************************)
MyFilesVerify ==
    /\ list.pc = "verify"
    /\ \/ /\ \/ Works /\ verify_token(buf.user, buf.token)
             \/ buf.cmd = "count" /\ (Works \/ Fails)
          /\ list' = [list EXCEPT !.pc = "select"]
          /\ UNCHANGED walk
       \/ /\ buf.cmd # "count"
          /\ (Works /\ ~verify_token(buf.user, buf.token)) \/ Fails
          /\ list' = Idle
          /\ walk' = IF OfWalk THEN NoWalk ELSE walk
    /\ UNCHANGED <<accountVars, tokenVars, loginVars, said, kills, rows, nextRid,
                   buf, lists, cuts, changes>>

(***************************************************************************)
(* The orders MySQL returns the rows in.  Equal pv come in any order.      *)
(* Without ORDER BY the rows come as they were inserted: user_file_list    *)
(* has no key, so it is scanned and file_info is looked up by its key.     *)
(***************************************************************************)
Listings(S) == Injection(1 .. Cardinality(S), S)

Ordered(cmd, q) ==
    \A i, j \in DOMAIN q : i < j =>
       CASE cmd = "normal" -> q[i].rid < q[j].rid
         [] cmd = "pvasc"  -> q[i].pv <= q[j].pv
         [] cmd = "pvdesc" -> q[i].pv >= q[j].pv

(* mutant: limit takes the first row for number one *)
PageFromOne(q, start, count) ==
    SubSeq(q, start + 2, IF start + count <= Len(q) THEN start + count ELSE Len(q))

(* limit start, count *)
Page(q, start, count) ==
    SubSeq(q, start + 1, IF start + count <= Len(q) THEN start + count ELSE Len(q))

(* the files of Owner; other accounts have none here *)
Rows(u) == IF u = Owner THEN rows ELSE {}

(* an empty page and a failing statement both give 015: the walk ends *)
get_user_filelist ==
    /\ list.pc = "select" /\ buf.cmd \notin {"count", None}
    /\ \E q \in Listings(Rows(buf.user)) :
          /\ Ordered(buf.cmd, q)
          /\ LET page == Page(q, list.start, PageSize) IN
                walk' = CASE ~OfWalk -> walk
                          [] OfWalk /\ page = <<>> -> [walk EXCEPT !.ended = TRUE]
                          [] OTHER -> [walk EXCEPT !.shown = @ \o page]
    /\ list' = Idle
    /\ UNCHANGED <<sessionVars, rows, nextRid, buf, lists, cuts, changes>>

(* a missing row and a failing statement both give the number 0 *)
get_user_files_count ==
    /\ list.pc = "select" /\ buf.cmd = "count"
    /\ list' = Idle
    /\ UNCHANGED <<sessionVars, rows, nextRid, buf, walk, lists, cuts, changes>>

(* a failing statement, or no statement at all since there is no cmd *)
MyFilesError ==
    /\ list.pc = "select"
    /\ Fails \/ (Works /\ buf.cmd = None)
    /\ list' = Idle
    /\ walk' = IF OfWalk THEN [walk EXCEPT !.ended = TRUE] ELSE walk
    /\ UNCHANGED <<accountVars, tokenVars, loginVars, said, kills, rows, nextRid,
                   buf, lists, cuts, changes>>

MyFilesNext ==
    \/ \E c \in Clients, cmd \in Cmds : StartWalk(c, cmd)
    \/ \E c \in Clients, cmd \in Cmds \cup {None}, fields \in 0 .. 3 :
          OtherRequest(c, cmd, fields)
    \/ NextPage \/ MyFilesVerify \/ get_user_filelist \/ get_user_files_count
    \/ MyFilesError
-----------------------------------------------------------------------------
(* the other services change Owner's rows while a client walks them *)
Change(kind) ==
    /\ changes < MaxChanges
    /\ changes' = changes + 1
    /\ walk # NoWalk /\ ~walk.ended
    /\ walk' = [walk EXCEPT !.changed = @ \cup {kind}]
    /\ UNCHANGED <<sessionVars, list, buf, lists, cuts>>

InsertRow ==
    /\ Change("insert")
    /\ rows' = rows \cup {[rid |-> nextRid, pv |-> 0]}
    /\ nextRid' = nextRid + 1

DeleteRow ==
    /\ Change("delete")
    /\ \E x \in rows : rows' = rows \ {x}
    /\ UNCHANGED nextRid

BumpPv ==
    /\ Change("pv")
    /\ \E x \in rows : rows' = (rows \ {x}) \cup {[x EXCEPT !.pv = @ + 1]}
    /\ UNCHANGED nextRid

(* every process waits for a request *)
Done == login = Idle /\ register = Idle /\ list = Idle /\ UNCHANGED vars

Next ==
    \/ SessionNext /\ UNCHANGED listVars
    \/ MyFilesNext
    \/ InsertRow \/ DeleteRow \/ BumpPv
    \/ Done

Spec == Init /\ [][Next]_vars
-----------------------------------------------------------------------------
Procs == {"idle", "select", "insert", "setex", "reply", "verify"}

(* Every variable has its type; Redis holds a user's own tokens only. *)
TypeOK ==
    /\ user \in [Users -> Account \cup {None}]
    /\ \A u \in Names : tokens[u] # None => tokens[u] \in Token /\ tokens[u][1] = u
    /\ made \in [Names -> 0 .. MaxLogins]
    /\ {login.pc, register.pc, list.pc} \subseteq Procs
    /\ held \in [Clients -> Token \cup {None}]
    /\ said \in {"none", "000", "001", "002", "003", "004"}
    /\ \A x \in rows : x.rid < nextRid /\ x.pv \in 0 .. 2 + MaxChanges
    /\ buf.user \in Names /\ buf.token \in Token \cup {None}
    /\ buf.cmd \in Cmds \cup {None}

(* the answer to the register request r, if this step gives it, is right *)
AnsweredTruly(r) ==
    r # Idle /\ register' = Idle /\ kills' = kills =>
       CASE said' = "002" -> /\ user[r.name] = None
                             /\ user'[r.name] = [nick |-> r.nick, pwd |-> r.pwd]
         [] said' = "003" -> user[r.name] # None
         [] OTHER -> sqlErrs' > 0 \/ ~KeysFree(r.name, r.nick)

(***************************************************************************)
(* register_cgi.c: 002 means that the account is there, with the password  *)
(* sent; 003 that the name was taken; 004, unless a statement failed, that *)
(* the nickname (or the name, meanwhile) was.                              *)
(***************************************************************************)
RegisterTrue ==
    [][AnsweredTruly(register)]_vars

(* the answer to the login l, if this step gives it, is right *)
LoggedInTruly(l) ==
    l # Idle /\ login' = Idle /\ kills' = kills =>
       CASE said' = "000" /\ l.pwd # None -> l.pwd = Password(l.user)
         [] said' = "000" /\ l.pwd = None -> l.equal \/ sqlErrs' > 0
         [] OTHER -> l.pwd = None \/ ~l.equal \/ sqlErrs' > 0

(***************************************************************************)
(* login_cgi.c: 000 for a password means that the account is there and has *)
(* it.  A request without a password is told 000 as well, but only where   *)
(* the name had no account when it came in, or a SELECT failed: while the  *)
(* statements work nobody gets a token for an account without its          *)
(* password.  And 001 for an account's own password takes a failure.       *)
(***************************************************************************)
LoginTrue ==
    [][LoggedInTruly(login)]_vars

(***************************************************************************)
(* A client that was told a token can use it until someone logs in to the  *)
(* account again, the day is over or Redis has lost it: the token told is  *)
(* the one stored, or none is.                                             *)
(***************************************************************************)
ToldIsStored ==
    [][login.pc = "reply" /\ kills' = kills /\ login' = Idle =>
          tokens[login.user] \in {held'[login.client], None}]_vars

(***************************************************************************)
(* myfiles_cgi.c: the files of an account are listed only on a token made  *)
(* for that account, also where a request lacks fields and the user and    *)
(* the token in the buffers come from different clients.                   *)
(***************************************************************************)
ListedOnToken ==
    list.pc = "select" /\ buf.cmd # "count" =>
       buf.token # None /\ buf.token[1] = buf.user

(***************************************************************************)
(* Pages: a walk to the first 015 shows every row exactly once, unless a   *)
(* row was deleted or a statement failed; with an order by pv also unless  *)
(* a row came, a counter moved, or two counters were equal.                *)
(***************************************************************************)
Calm(w) ==
    IF w.cmd = "normal" THEN "delete" \notin w.changed
    ELSE /\ w.changed = {}
         /\ \A x, y \in w.first : x.pv = y.pv => x = y

Rids(S) == {x.rid : x \in S}

WalkShowsAll ==
    walk # NoWalk /\ walk.ended /\ sqlErrs = walk.errs /\ Calm(walk) =>
       /\ \A i, j \in DOMAIN walk.shown :
             walk.shown[i].rid = walk.shown[j].rid => i = j
       /\ Rids(walk.first) \subseteq Rids(Range(walk.shown))
=============================================================================
