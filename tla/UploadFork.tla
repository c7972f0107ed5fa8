----------------------------- MODULE UploadFork -----------------------------
(***************************************************************************)
(* The processes of the upload service.  upload_cgi.c runs two FastDFS     *)
(* tools, each in a forked child whose standard output is a pipe that the  *)
(* service reads.  A child whose execlp fails does not exit: it returns    *)
(* from the function as the service would, and goes on with the request.   *)
(* UploadCgi has the statements of store_fileinfo_to_mysql; here the call  *)
(* is one step.                                                            *)
(***************************************************************************)
EXTENDS Naturals, Sequences, FiniteSets

CONSTANTS
    Procs,          \* process slots, 1 is the process spawn-fcgi starts
    Names,          \* names of files
    Filename,       \* the filename in the body of each request
    MaxRequests,    \* bound on the requests
    MaxShorts,      \* bound on the files that are not written whole
    MaxExecErrs,    \* bound on the execlp calls that fail
    MaxKills        \* bound on the processes of the service that are killed

ASSUME ForkAssumption ==
    /\ 1 \in Procs /\ Procs \subseteq Nat \ {0}
    /\ MaxRequests \in Nat /\ MaxExecErrs \in Nat /\ MaxKills \in Nat
    /\ MaxShorts \in Nat
    /\ Filename \in [1 .. MaxRequests -> Names]

VARIABLES
    pc,        \* where each process is; "none": no process, "exited": a child
               \* whose output the parent has yet to read
    parent,    \* the process that reads the standard output of this one, or 0
    out,       \* what the process has written there; 0: nothing
    req,       \* the request the process works on
    fileid,    \* fileid; 0: the empty string
    url,       \* is fdfs_file_url set
    local,     \* the request whose body the file of a name in the working
               \* directory was written from; 0: no such file
    short,     \* requests whose body was not written whole
    stored,    \* the request whose saved body the file made in FastDFS for a
               \* request holds; 0: no such file
    info,      \* rows of file_info: request, file id, is the url set
    answers,   \* the answers sent for each request
    requests,  \* requests received
    errs,      \* execlp calls that failed for each request
    crashes,   \* requests in whose handling a process crashed or was killed
    kills

procVars == <<pc, parent, out, req, fileid, url>>
dataVars == <<local, short, stored, info>>
vars == <<procVars, dataVars, answers, requests, errs, crashes, kills>>

Requests == 1 .. MaxRequests
Info == MaxRequests + 1     \* the output of fdfs_file_info

(* labels of a process that runs the code of the service *)
Serving == {"accept", "recv", "up_fork", "up_exec", "url_fork", "url_exec",
            "store"}
Reading == {"up_read", "url_read"}
Tools   == {"up_tool", "url_tool"}

Init ==
    /\ pc = [p \in Procs |-> IF p = 1 THEN "accept" ELSE "none"]
    /\ parent = [p \in Procs |-> 0]
    /\ out = [p \in Procs |-> 0]
    /\ req = [p \in Procs |-> 0]
    /\ fileid = [p \in Procs |-> 0]
    /\ url = [p \in Procs |-> FALSE]
    /\ local = [n \in Names |-> 0]
    /\ short = {} /\ info = {}
    /\ stored = [r \in Requests |-> 0]
    /\ answers = [r \in Requests |-> <<>>]
    /\ requests = 0
    /\ errs = [r \in Requests |-> 0]
    /\ crashes = {} /\ kills = 0
-----------------------------------------------------------------------------
(* END: of main: the buffers are cleared, the answer is printed. *)
Answer(p, code) ==
    /\ answers' = [answers EXCEPT ![req[p]] = Append(@, code)]
    /\ fileid' = [fileid EXCEPT ![p] = 0]
    /\ url' = [url EXCEPT ![p] = FALSE]
    /\ req' = [req EXCEPT ![p] = 0]

Accept(p) ==
    /\ pc[p] = "accept"
    /\ requests < MaxRequests
    /\ requests' = requests + 1
    /\ req' = [req EXCEPT ![p] = requests']
    /\ pc' = [pc EXCEPT ![p] = "recv"]
    /\ UNCHANGED <<parent, out, fileid, url, dataVars, answers, errs, crashes, kills>>

(* mutant: a file of that name that is there is kept *)
recv_save_fileKept(p) ==
    /\ pc[p] = "recv"
    /\ pc' = [pc EXCEPT ![p] = "up_fork"]
    /\ local' = [local EXCEPT ![Filename[req[p]]] = IF @ = 0 THEN req[p] ELSE @]
    /\ UNCHANGED <<parent, out, req, fileid, url, short, stored, info, answers,
                   requests, errs, crashes, kills>>

(***************************************************************************)
(* The body is saved to a local file of the name in the body, over a file  *)
(* of that name that is there, or refused.  What ftruncate and write       *)
(* return is ignored, so a request whose body was not written whole goes   *)
(* on like any other.                                                      *)
(***************************************************************************)
recv_save_file(p) ==
    /\ pc[p] = "recv"
    /\ \/ /\ pc' = [pc EXCEPT ![p] = "up_fork"]
          /\ local' = [local EXCEPT ![Filename[req[p]]] = req[p]]
          /\ \/ UNCHANGED short
             \/ Cardinality(short) < MaxShorts /\ short' = short \cup {req[p]}
          /\ UNCHANGED <<answers, req, fileid, url>>
       \/ /\ pc' = [pc EXCEPT ![p] = "accept"]
          /\ Answer(p, "009")
          /\ UNCHANGED <<local, short>>
    /\ UNCHANGED <<parent, out, stored, info, requests, errs, crashes, kills>>

(* pipe and fork: the child starts with a copy of the buffers *)
Fork(p, at, parentAt, childAt) ==
    /\ pc[p] = at
    /\ \/ \E c \in Procs :
             /\ pc[c] = "none"
             /\ \A q \in Procs : pc[q] = "none" => c <= q
             /\ pc' = [pc EXCEPT ![p] = parentAt, ![c] = childAt]
             /\ parent' = [parent EXCEPT ![c] = p]
             /\ out' = [out EXCEPT ![c] = 0]
             /\ req' = [req EXCEPT ![c] = req[p]]
             /\ fileid' = [fileid EXCEPT ![c] = fileid[p]]
             /\ url' = [url EXCEPT ![c] = url[p]]
             /\ UNCHANGED answers
       \/ /\ pc' = [pc EXCEPT ![p] = "accept"]
          /\ Answer(p, "009")
          /\ UNCHANGED <<parent, out>>
    /\ UNCHANGED <<dataVars, requests, errs, crashes, kills>>

upload_fork(p) == Fork(p, "up_fork", "up_read", "up_exec")
url_fork(p)    == Fork(p, "url_fork", "url_read", "url_exec")

ExecFails(c) ==
    /\ errs[req[c]] < MaxExecErrs
    /\ errs' = [errs EXCEPT ![req[c]] = @ + 1]

(* the local file of the name in the body of p's request is removed *)
unlink(p) == local' = [local EXCEPT ![Filename[req[p]]] = 0]

(***************************************************************************)
(* execlp fdfs_upload_file.  When it fails, the child returns 0 without an *)
(* id: it is a copy of the service that removes the local file and goes on *)
(* to make_file_url.                                                       *)
(***************************************************************************)
upload_exec(c) ==
    /\ pc[c] = "up_exec"
    /\ \/ pc' = [pc EXCEPT ![c] = "up_tool"] /\ UNCHANGED <<errs, local>>
       \/ /\ ExecFails(c)
          /\ unlink(c)
          /\ pc' = [pc EXCEPT ![c] = "url_fork"]
    /\ UNCHANGED <<parent, out, req, fileid, url, short, stored, info,
                   answers, requests, crashes, kills>>

(* execlp fdfs_file_info.  When it fails, the child goes on without a url. *)
url_exec(c) ==
    /\ pc[c] = "url_exec"
    /\ \/ pc' = [pc EXCEPT ![c] = "url_tool"] /\ UNCHANGED errs
       \/ ExecFails(c) /\ pc' = [pc EXCEPT ![c] = "store"]
    /\ UNCHANGED <<parent, out, req, fileid, url, dataVars, answers, requests,
                   crashes, kills>>

(* a process ends; its slot is free once nobody reads its output *)
Ended(p) == IF parent[p] = 0 THEN "none" ELSE "exited"

(* fdfs_upload_file prints the id of the stored file, or only to stderr *)
fdfs_upload_file(c) ==
    /\ pc[c] = "up_tool"
    /\ pc' = [pc EXCEPT ![c] = Ended(c)]
    /\ \/ /\ local[Filename[req[c]]] # 0
          /\ stored' = [stored EXCEPT ![req[c]] = local[Filename[req[c]]]]
          /\ out' = [out EXCEPT ![c] = req[c]]
       \/ UNCHANGED <<stored, out>>
    /\ UNCHANGED <<parent, req, fileid, url, local, short, info, answers, requests,
                   errs, crashes, kills>>

(* fdfs_file_info prints what it knows of a stored file, or an error *)
fdfs_file_info(c) ==
    /\ pc[c] = "url_tool"
    /\ pc' = [pc EXCEPT ![c] = Ended(c)]
    /\ \/ /\ fileid[c] # 0 /\ stored[fileid[c]] # 0
          /\ out' = [out EXCEPT ![c] = Info]
       \/ UNCHANGED out
    /\ UNCHANGED <<parent, req, fileid, url, dataVars, answers, requests, errs,
                   crashes, kills>>

(* read returns when the child has written or closed its standard output *)
ChildDone(p, c) == parent[c] = p /\ pc[c] = "exited"

(* mutant: the service does not wait for its child *)
upload_readEarly(p) ==
    /\ pc[p] = "up_read"
    /\ pc' = [pc EXCEPT ![p] = "accept"]
    /\ Answer(p, "009")
    /\ UNCHANGED <<parent, out, dataVars, requests, errs, crashes, kills>>

(* mutant: an empty read is tried again *)
upload_readRetry(p) ==
    /\ pc[p] = "up_read"
    /\ \E c \in Procs :
          /\ ChildDone(p, c)
          /\ \/ out[c] = 0 /\ UNCHANGED <<pc, fileid, local>>
             \/ /\ out[c] # 0
                /\ pc' = [pc EXCEPT ![p] = "url_fork", ![c] = "none"]
                /\ fileid' = [fileid EXCEPT ![p] = out[c]]
                /\ unlink(p)
    /\ UNCHANGED <<parent, out, req, url, answers, short, stored, info, requests, errs,
                   crashes, kills>>

(* mutant: the local file is not removed *)
upload_readNoUnlink(p) ==
    /\ pc[p] = "up_read"
    /\ \E c \in Procs :
          /\ ChildDone(p, c)
          /\ \/ /\ out[c] = 0
                /\ pc' = [pc EXCEPT ![p] = "accept", ![c] = "none"]
                /\ Answer(p, "009")
             \/ /\ out[c] # 0
                /\ pc' = [pc EXCEPT ![p] = "url_fork", ![c] = "none"]
                /\ fileid' = [fileid EXCEPT ![p] = out[c]]
                /\ UNCHANGED <<answers, req, url>>
    /\ UNCHANGED <<parent, out, dataVars, requests, errs, crashes, kills>>

(* the id is trimmed; an empty one ends the request *)
upload_read(p) ==
    /\ pc[p] = "up_read"
    /\ \E c \in Procs :
          /\ ChildDone(p, c)
          /\ \/ /\ out[c] = 0
                /\ pc' = [pc EXCEPT ![p] = "accept", ![c] = "none"]
                /\ Answer(p, "009")
                /\ UNCHANGED local
             \/ /\ out[c] # 0
                /\ pc' = [pc EXCEPT ![p] = "url_fork", ![c] = "none"]
                /\ fileid' = [fileid EXCEPT ![p] = out[c]]
                /\ unlink(p)
                /\ UNCHANGED <<answers, req, url>>
    /\ UNCHANGED <<parent, out, short, stored, info, requests, errs, crashes,
                   kills>>

(* p is gone: what it reads is read by nobody *)
Gone(p) ==
    /\ pc' = [q \in Procs |->
                 IF q = p THEN Ended(p)
                 ELSE IF parent[q] = p /\ pc[q] = "exited" THEN "none"
                 ELSE pc[q]]
    /\ parent' = [q \in Procs |-> IF parent[q] = p THEN 0 ELSE parent[q]]
    /\ crashes' = crashes \cup ({req[p]} \ {0})

(* mutant: the output of fdfs_file_info is read into fileid *)
url_readIntoFileid(p) ==
    /\ pc[p] = "url_read"
    /\ \E c \in Procs :
          /\ ChildDone(p, c)
          /\ pc' = [pc EXCEPT ![p] = "store", ![c] = "none"]
          /\ fileid' = [fileid EXCEPT ![p] = out[c]]
    /\ UNCHANGED <<parent, out, req, url, dataVars, answers, requests, errs,
                   crashes, kills>>

(***************************************************************************)
(* The address is taken from behind "source ip address: "; where the       *)
(* output has no such line, strstr gives NULL and the process crashes.     *)
(***************************************************************************)
url_read(p) ==
    /\ pc[p] = "url_read"
    /\ \E c \in Procs :
          /\ ChildDone(p, c)
          /\ \/ /\ out[c] = Info
                /\ pc' = [pc EXCEPT ![p] = "store", ![c] = "none"]
                /\ url' = [url EXCEPT ![p] = TRUE]
                /\ UNCHANGED <<parent, crashes>>
             \/ /\ out[c] # Info
                /\ Gone(p)
                /\ UNCHANGED url
    /\ UNCHANGED <<out, req, fileid, dataVars, answers, requests, errs, kills>>

(* mutant: main does not test what store_fileinfo_to_mysql returns *)
store_fileinfo_ignored(p) ==
    /\ pc[p] = "store"
    /\ pc' = [pc EXCEPT ![p] = "accept"]
    /\ info' \in {info, info \cup {[req |-> req[p], file_id |-> fileid[p],
                                    url |-> url[p]]}}
    /\ Answer(p, "008")
    /\ UNCHANGED <<parent, out, local, short, stored, requests, errs, crashes, kills>>

(* the rows are written, or a statement fails before or after file_info's *)
store_fileinfo_to_mysql(p) ==
    /\ pc[p] = "store"
    /\ pc' = [pc EXCEPT ![p] = "accept"]
    /\ LET row == [req |-> req[p], file_id |-> fileid[p], url |-> url[p]] IN
          \/ info' = info \cup {row} /\ Answer(p, "008")
          \/ info' \in {info, info \cup {row}} /\ Answer(p, "009")
    /\ UNCHANGED <<parent, out, local, short, stored, requests, errs, crashes, kills>>

Kill(p) ==
    /\ pc[p] \in Serving \cup Reading
    /\ kills < MaxKills
    /\ kills' = kills + 1
    /\ Gone(p)
    /\ UNCHANGED <<out, req, fileid, url, dataVars, answers, requests, errs>>

(* fcgi.sh start, once nothing holds the port *)
Start ==
    /\ \A p \in Procs : pc[p] = "none"
    /\ pc' = [pc EXCEPT ![1] = "accept"]
    /\ parent' = [parent EXCEPT ![1] = 0]
    /\ fileid' = [fileid EXCEPT ![1] = 0]
    /\ url' = [url EXCEPT ![1] = FALSE]
    /\ req' = [req EXCEPT ![1] = 0]
    /\ UNCHANGED <<out, dataVars, answers, requests, errs, crashes, kills>>

Step(p) ==
    \/ Accept(p)      \/ recv_save_file(p)
    \/ upload_fork(p) \/ upload_exec(p) \/ fdfs_upload_file(p) \/ upload_read(p)
    \/ url_fork(p)    \/ url_exec(p)    \/ fdfs_file_info(p)   \/ url_read(p)
    \/ store_fileinfo_to_mysql(p)

(* no client sends any more *)
Done ==
    /\ requests = MaxRequests
    /\ \A p \in Procs : pc[p] \notin (Serving \cup Tools) \ {"accept"}
    /\ UNCHANGED vars

Next == (\E p \in Procs : Step(p) \/ Kill(p)) \/ Start \/ Done

Spec == Init /\ [][Next]_vars

(* a process that can take a step takes one; nobody has to kill or restart *)
FairSpec == Spec /\ \A p \in Procs : WF_vars(Step(p))
-----------------------------------------------------------------------------
Labels == Serving \cup Reading \cup Tools \cup {"none", "exited"}

(* Every variable has its type. *)
TypeOK ==
    /\ pc \in [Procs -> Labels]
    /\ parent \in [Procs -> Procs \cup {0}]
    /\ out \in [Procs -> Requests \cup {0, Info}]
    /\ req \in [Procs -> Requests \cup {0}]
    /\ fileid \in [Procs -> Requests \cup {0}]
    /\ url \in [Procs -> BOOLEAN]
    /\ local \in [Names -> Requests \cup {0}]
    /\ stored \in [Requests -> Requests \cup {0}]
    /\ short \subseteq Requests
    /\ info \subseteq [req : Requests, file_id : Requests \cup {0},
                        url : BOOLEAN]
    /\ answers \in [Requests -> Seq({"008", "009"})]
    /\ requests \in 0 .. MaxRequests
    /\ errs \in [Requests -> 0 .. MaxExecErrs]
    /\ crashes \subseteq Requests /\ kills \in 0 .. MaxKills

(***************************************************************************)
(* At most one process of the service runs the service's code: a process   *)
(* that forked waits in read until its child is gone, even where that      *)
(* child has become a second copy of the service.  Only killing a process  *)
(* in the middle of the chain lets two go on.                              *)
(***************************************************************************)
Runs(p) == pc[p] \in Serving

OneRuns == kills = 0 => \A p, q \in Procs : Runs(p) /\ Runs(q) => p = q

(***************************************************************************)
(* What is recorded is stored: an id names a file in FastDFS, and that     *)
(* holds the whole body of the request unless the write to the local file  *)
(* was short, or a process was killed and two copies of the service had    *)
(* files of one name; an empty id takes two failing execlp calls for one   *)
(* request, an empty url takes one.                                        *)
(***************************************************************************)
Whole(r) == stored[r] = r /\ r \notin short

RecordedIsStored ==
    \A x \in info :
       /\ x.file_id # 0 =>
             /\ x.file_id = x.req
             /\ stored[x.req] # 0
             /\ Whole(x.req) \/ x.req \in short \/ kills > 0
       /\ x.file_id = 0 => errs[x.req] >= 2
       /\ ~x.url => errs[x.req] >= 1

(***************************************************************************)
(* A request is answered at most once, and 008 only with its row recorded. *)
(* Where an execlp failed for it, a process that waits for a copy of the   *)
(* service answers again when the copy is gone, and then always 009,       *)
(* whatever the copy had answered (unless one in the chain was killed).    *)
(***************************************************************************)
Recorded(r) == \E x \in info : x.req = r

AnsweredOnce ==
    \A r \in Requests :
       /\ Len(answers[r]) > 1 => errs[r] >= 1
       /\ \A i \in DOMAIN answers[r] :
             /\ answers[r][i] = "008" => Recorded(r)
             /\ kills = 0 /\ i > 1 => answers[r][i] = "009"

(***************************************************************************)
(* A local file is left behind only by a failed upload: the file that was  *)
(* written for a request is gone when 008 is answered, whatever copies of  *)
(* the service write and remove files of that name.                        *)
(***************************************************************************)
CopiesRemoved ==
    \A n \in Names : local[n] # 0 =>
       ~\E i \in DOMAIN answers[local[n]] : answers[local[n]][i] = "008"

(* p can answer the request r itself *)
Owns(p, r) ==
    req[p] = r /\ pc[p] \in {"recv", "up_fork", "up_read", "url_fork", "url_read",
                             "store"}

(* p does not wait for another process *)
Active(p) == pc[p] \notin Reading \cup {"none"}

SameRequest(c, p) == req[c] = req[p] /\ fileid[c] = fileid[p]

(* what the parent p of the live process c may count on *)
ChildOf(c, p) ==
    /\ p # c
    /\ pc[p] \in Reading
    /\ \A d \in Procs : pc[d] # "none" /\ parent[d] = p => d = c
    /\ pc[c] # "exited" => out[c] = 0
    /\ pc[c] \in {"up_exec", "up_tool"} => pc[p] = "up_read" /\ SameRequest(c, p)
    /\ pc[c] \in {"url_exec", "url_tool"} => pc[p] = "url_read" /\ SameRequest(c, p)
    /\ pc[c] = "exited" /\ out[c] # 0 =>
          /\ SameRequest(c, p)
          /\ pc[p] = "up_read" => out[c] = req[c] /\ stored[req[c]] # 0
          /\ pc[p] = "url_read" => fileid[c] # 0

(* what a process knows of the request it works on *)
Knows(p) ==
    /\ req[p] <= requests
    /\ fileid[p] # 0 => fileid[p] = req[p] /\ stored[req[p]] # 0
    /\ pc[p] = "accept" => req[p] = 0 /\ fileid[p] = 0 /\ ~url[p]
    /\ pc[p] \in (Serving \cup Reading \cup Tools) \ {"accept"} => req[p] # 0
    /\ pc[p] = "recv" => /\ answers[req[p]] = <<>>
                         /\ \A q \in Procs : req[q] = req[p] => q = p
    /\ pc[p] \in {"url_fork", "url_exec", "url_tool", "url_read", "store"} =>
          /\ \A n \in Names : local[n] # req[p]
          /\ fileid[p] = 0 => errs[req[p]] >= IF pc[p] = "store" THEN 2 ELSE 1
    /\ pc[p] = "store" /\ ~url[p] => errs[req[p]] >= 1

(* every child has a parent that waits for it, and only for it *)
Chains ==
    \A c \in Procs : pc[c] # "none" =>
       /\ pc[c] = "exited" => parent[c] # 0
       /\ \A p \in Procs : parent[c] = p => ChildOf(c, p)

AllKnow == \A p \in Procs : Knows(p)

(* one process can answer a request for which no execlp failed *)
OneOwner ==
    \A r \in Requests :
       /\ r > requests => answers[r] = <<>>
       /\ errs[r] = 0 => \A p \in Procs : Owns(p, r) =>
             answers[r] = <<>> /\ \A q \in Procs : Owns(q, r) => q = p

(* only the end of the chain moves, and it has not answered its request *)
TailMoves ==
    kills = 0 =>
       \A p \in Procs : Active(p) =>
          /\ \A q \in Procs : Active(q) => q = p
          /\ \/ pc[p] = "accept"
             \/ pc[p] = "exited" /\ out[p] = 0
             \/ answers[req[p]] = <<>>

(* the file at hand is the request's own, and so is what is made of it *)
OwnFiles ==
    /\ \A n \in Names : local[n] # 0 => Filename[local[n]] = n
    /\ kills = 0 =>
          /\ \A r \in Requests : stored[r] \in {0, r}
          /\ \A p \in Procs : pc[p] \in {"up_fork", "up_exec", "up_tool"} =>
                local[Filename[req[p]]] = req[p]

(***************************************************************************)
(* The processes of upload_cgi.c form chains.  Every process that waits in *)
(* read has one child, which works on the same request until its execlp    *)
(* fails; what the child prints names the file of that request.  Nobody    *)
(* answers a request before the first answer but the one process that owns *)
(* it, unless an execlp failed for it; and while no process is killed only *)
(* the end of the chain moves, so that a request that is still worked on   *)
(* there has not been answered, and the local file of its name is its own. *)
(***************************************************************************)
ForkInv == Chains /\ AllKnow /\ OneOwner /\ TailMoves /\ OwnFiles

(***************************************************************************)
(* Every request received is answered, or a process that worked on it has  *)
(* crashed or was killed.                                                  *)
(***************************************************************************)
EachAnswered ==
    \A r \in Requests : requests >= r ~> (answers[r] # <<>> \/ r \in crashes)

(***************************************************************************)
(* The service always comes back to FCGI_Accept or is gone altogether: the *)
(* processes never all wait for each other.                                *)
(***************************************************************************)
Ready == []<>(\/ \E p \in Procs : pc[p] = "accept"
              \/ \A q \in Procs : pc[q] = "none")
=============================================================================
