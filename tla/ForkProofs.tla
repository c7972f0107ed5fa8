----------------------------- MODULE ForkProofs -----------------------------
(***************************************************************************)
(* Proofs about the processes of the upload service: for any number of     *)
(* process slots, requests, failing execlp calls and kills.                *)
(***************************************************************************)
EXTENDS UploadFork, TLAPS

(* a leaf is left to Zenon unless it cites another prover *)
USE Zenon

(* no file leaves FastDFS, and no local file appears *)
StoredKept == \A r \in Requests : stored[r] # 0 => stored'[r] # 0

Fewer == \A n \in Names : local'[n] \in {local[n], 0}

(* the name in the body of a request *)
LEMMA Filenames == \A r \in Requests : Filename[r] \in Names
  BY ForkAssumption DEF Requests

(* what the answer of one process leaves in the buffers *)
LEMMA AnswerType ==
    ASSUME TypeOK, NEW p \in Procs, req[p] \in Requests,
           NEW code \in {"008", "009"}, Answer(p, code)
    PROVE  /\ answers' \in [Requests -> Seq({"008", "009"})]
           /\ fileid' \in [Procs -> Requests \cup {0}]
           /\ url' \in [Procs -> BOOLEAN]
           /\ req' \in [Procs -> Requests \cup {0}]
<1>1. answers \in [Requests -> Seq({"008", "009"})]
  BY DEF TypeOK
<1>2. Append(answers[req[p]], code) \in Seq({"008", "009"})
  BY SMT, <1>1
<1>3. answers' \in [Requests -> Seq({"008", "009"})]
  BY <1>1, <1>2 DEF Answer
<1> QED
  BY <1>3 DEF Answer, TypeOK

(* a process that is gone leaves its slot typed *)
LEMMA GoneType ==
    ASSUME TypeOK, NEW p \in Procs, Gone(p)
    PROVE  /\ pc' \in [Procs -> Labels]
           /\ parent' \in [Procs -> Procs \cup {0}]
           /\ crashes' \subseteq Requests
  BY DEF TypeOK, Gone, Ended, Labels

(* the type invariant, action by action: accept *)
LEMMA AcceptType ==
    ASSUME TypeOK, NEW p \in Procs, Accept(p)
    PROVE  TypeOK'
<1>1. requests + 1 \in Requests
  BY SMT, ForkAssumption DEF TypeOK, Accept, Requests
<1>2. /\ req' \in [Procs -> Requests \cup {0}]
      /\ requests' \in 0 .. MaxRequests
  BY SMT, <1>1 DEF TypeOK, Accept, Requests
<1>3. pc' \in [Procs -> Labels]
  BY DEF TypeOK, Accept, Labels, Serving
<1> QED
  BY <1>2, <1>3 DEF TypeOK, Accept, dataVars

(* ... receiving the body *)
LEMMA RecvType ==
    ASSUME TypeOK, NEW p \in Procs, Knows(p), recv_save_file(p)
    PROVE  TypeOK'
<1>1. req[p] \in Requests
  BY DEF TypeOK, Knows, recv_save_file, Serving
<1>2. pc' \in [Procs -> Labels]
  BY DEF TypeOK, recv_save_file, Labels, Serving
<1>3. CASE Answer(p, "009") /\ UNCHANGED <<local, short>>
  BY <1>1, <1>2, <1>3, AnswerType DEF TypeOK, recv_save_file
<1>4. CASE /\ local' = [local EXCEPT ![Filename[req[p]]] = req[p]]
           /\ short' = short \/ short' = short \cup {req[p]}
           /\ UNCHANGED <<answers, req, fileid, url>>
  <2>1. local' \in [Names -> Requests \cup {0}] /\ short' \subseteq Requests
    BY <1>1, <1>4 DEF TypeOK
  <2> QED
    BY <1>2, <1>4, <2>1 DEF TypeOK, recv_save_file
<1> QED
  BY <1>3, <1>4 DEF recv_save_file

(* ... both forks *)
LEMMA ForkType ==
    ASSUME TypeOK, NEW p \in Procs, Knows(p),
           NEW at \in {"up_fork", "url_fork"}, NEW parentAt \in Reading,
           NEW childAt \in {"up_exec", "url_exec"},
           Fork(p, at, parentAt, childAt)
    PROVE  TypeOK'
<1>1. req[p] \in Requests
  BY DEF TypeOK, Knows, Fork, Serving
<1>2. CASE Answer(p, "009") /\ pc' = [pc EXCEPT ![p] = "accept"]
           /\ UNCHANGED <<parent, out>>
  <2>1. pc' \in [Procs -> Labels]
    BY <1>2 DEF TypeOK, Labels, Serving
  <2> QED
    BY <1>1, <1>2, <2>1, AnswerType DEF TypeOK, Fork, dataVars
<1>3. ASSUME NEW c \in Procs,
             pc' = [pc EXCEPT ![p] = parentAt, ![c] = childAt],
             parent' = [parent EXCEPT ![c] = p],
             out' = [out EXCEPT ![c] = 0],
             req' = [req EXCEPT ![c] = req[p]],
             fileid' = [fileid EXCEPT ![c] = fileid[p]],
             url' = [url EXCEPT ![c] = url[p]],
             UNCHANGED answers
      PROVE  TypeOK'
  <2>1. pc' \in [Procs -> Labels]
    BY <1>3 DEF TypeOK, Labels, Serving
  <2> QED
    BY <1>3, <2>1 DEF TypeOK, Fork, dataVars
<1> QED
  BY <1>2, <1>3 DEF Fork

(* ... execlp, whether it works or not *)
LEMMA ExecType ==
    ASSUME TypeOK, NEW c \in Procs, Knows(c), upload_exec(c) \/ url_exec(c)
    PROVE  TypeOK'
<1>1. req[c] \in Requests
  BY DEF TypeOK, Knows, upload_exec, url_exec, Serving
<1>2. pc' \in [Procs -> Labels]
  BY DEF TypeOK, upload_exec, url_exec, Labels, Serving, Tools
<1>3. errs' \in [Requests -> 0 .. MaxExecErrs]
  BY SMT, <1>1, ForkAssumption DEF TypeOK, upload_exec, url_exec, ExecFails
<1>4. local' \in [Names -> Requests \cup {0}]
  BY DEF TypeOK, upload_exec, url_exec, unlink, dataVars
<1> QED
  BY <1>2, <1>3, <1>4 DEF TypeOK, upload_exec, url_exec, dataVars

(* ... the two FastDFS tools *)
LEMMA ToolType ==
    ASSUME TypeOK, NEW c \in Procs, Knows(c),
           fdfs_upload_file(c) \/ fdfs_file_info(c)
    PROVE  TypeOK'
<1>1. req[c] \in Requests
  BY DEF TypeOK, Knows, fdfs_upload_file, fdfs_file_info, Tools
<1>2. pc' \in [Procs -> Labels]
  BY DEF TypeOK, fdfs_upload_file, fdfs_file_info, Labels, Ended
<1>3. CASE fdfs_upload_file(c)
  <2>1. stored' \in [Requests -> Requests \cup {0}]
    BY <1>1, <1>3, Filenames DEF TypeOK, fdfs_upload_file
  <2> QED
    BY <1>1, <1>2, <1>3, <2>1 DEF TypeOK, fdfs_upload_file
<1>4. CASE fdfs_file_info(c)
  BY <1>2, <1>4 DEF TypeOK, fdfs_file_info, dataVars
<1> QED
  BY <1>3, <1>4
(* the child a parent reads from is its only one *)
LEMMA ReadChild ==
    ASSUME TypeOK, Chains, NEW p \in Procs, NEW c \in Procs, ChildDone(p, c)
    PROVE  /\ ChildOf(c, p)
           /\ pc[c] = "exited" /\ parent[c] = p /\ c # p
  BY ForkAssumption DEF Chains, ChildDone, ChildOf

(* the two ways an upload_read goes on, and a third of url_read *)
Refused(p, c) ==
    /\ out[c] = 0
    /\ pc' = [pc EXCEPT ![p] = "accept", ![c] = "none"]
    /\ Answer(p, "009")
    /\ UNCHANGED <<parent, out, dataVars, requests, errs, crashes, kills>>

Named(p, c) ==
    /\ out[c] # 0
    /\ pc' = [pc EXCEPT ![p] = "url_fork", ![c] = "none"]
    /\ fileid' = [fileid EXCEPT ![p] = out[c]]
    /\ unlink(p)
    /\ UNCHANGED <<parent, out, req, url, short, stored, info, answers, requests,
                   errs, crashes, kills>>

Located(p, c) ==
    /\ out[c] = Info
    /\ pc' = [pc EXCEPT ![p] = "store", ![c] = "none"]
    /\ url' = [url EXCEPT ![p] = TRUE]
    /\ UNCHANGED <<parent, out, req, fileid, dataVars, answers, requests, errs,
                   crashes, kills>>

(* a crash in url_read or a kill *)
Dies(p) ==
    /\ pc[p] \in Serving \cup Reading
    /\ Gone(p)
    /\ kills' >= kills
    /\ UNCHANGED <<out, req, fileid, url, dataVars, answers, requests, errs>>

(* what upload_to_dstorage reads was printed by its child, which is done *)
LEMMA UploadReads ==
    ASSUME TypeOK, Chains, NEW p \in Procs, upload_read(p)
    PROVE  /\ pc[p] = "up_read"
           /\ \E c \in Procs : /\ ChildDone(p, c) /\ ChildOf(c, p)
                               /\ Refused(p, c) \/ Named(p, c)
  BY ReadChild DEF upload_read, Refused, Named, dataVars

(* what make_file_url reads was printed by its child, which is done *)
LEMMA UrlReads ==
    ASSUME TypeOK, Chains, NEW p \in Procs, url_read(p)
    PROVE  /\ pc[p] = "url_read"
           /\ \E c \in Procs : /\ ChildDone(p, c) /\ ChildOf(c, p)
                               /\ Located(p, c) \/ (Dies(p) /\ UNCHANGED kills)
<1>1. kills \in Nat
  BY SMT, ForkAssumption DEF TypeOK
<1> QED
  BY SMT, <1>1, ReadChild DEF url_read, Located, Dies, dataVars, Reading

(* a kill is a death that is counted *)
LEMMA KillDies ==
    ASSUME TypeOK, NEW p \in Procs, Kill(p)
    PROVE  Dies(p) /\ kills' > 0
  BY SMT, ForkAssumption DEF Kill, Dies, TypeOK, dataVars

(* ... reading the pipe *)
LEMMA ReadType ==
    ASSUME TypeOK, Chains, NEW p \in Procs, Knows(p),
           upload_read(p) \/ url_read(p)
    PROVE  TypeOK'
<1>1. req[p] \in Requests
  BY DEF TypeOK, Knows, upload_read, url_read, Reading
<1>2. CASE upload_read(p)
  <2>1. PICK c \in Procs : /\ ChildDone(p, c) /\ ChildOf(c, p)
                           /\ Refused(p, c) \/ Named(p, c)
    BY <1>2, UploadReads
  <2>2. CASE Refused(p, c)
    <3>1. pc' \in [Procs -> Labels]
      BY <2>2 DEF TypeOK, Refused, Labels, Serving
    <3> QED
      BY <1>1, <2>2, <3>1, AnswerType DEF TypeOK, Refused, dataVars
  <2>3. CASE Named(p, c)
    <3>1. pc' \in [Procs -> Labels]
      BY <2>3 DEF TypeOK, Named, Labels, Serving
    <3>2. out[c] \in Requests
      BY <1>1, <1>2, <2>1, <2>3
         DEF upload_read, ChildOf, ChildDone, Named, SameRequest
    <3>3. local' \in [Names -> Requests \cup {0}]
      BY <2>3 DEF TypeOK, Named, unlink
    <3> QED
      BY <2>3, <3>1, <3>2, <3>3 DEF TypeOK, Named
  <2> QED
    BY <2>1, <2>2, <2>3
<1>3. CASE url_read(p)
  <2>1. PICK c \in Procs : Located(p, c) \/ (Dies(p) /\ UNCHANGED kills)
    BY <1>3, UrlReads
  <2>2. CASE Located(p, c)
    <3>1. pc' \in [Procs -> Labels]
      BY <2>2 DEF TypeOK, Located, Labels, Serving
    <3> QED
      BY <2>2, <3>1 DEF TypeOK, Located, dataVars
  <2>3. CASE Dies(p) /\ UNCHANGED kills
    BY <2>3, GoneType DEF Dies, TypeOK, dataVars
  <2> QED
    BY <2>1, <2>2, <2>3
<1> QED
  BY <1>2, <1>3

(* ... recording and answering *)
LEMMA StoreType ==
    ASSUME TypeOK, NEW p \in Procs, Knows(p), store_fileinfo_to_mysql(p)
    PROVE  TypeOK'
<1>1. req[p] \in Requests
  BY DEF TypeOK, Knows, store_fileinfo_to_mysql, Serving
<1>2. pc' \in [Procs -> Labels]
  BY DEF TypeOK, store_fileinfo_to_mysql, Labels, Serving
<1>3. info' \subseteq [req : Requests, file_id : Requests \cup {0},
                       url : BOOLEAN]
  BY SMT, <1>1 DEF TypeOK, store_fileinfo_to_mysql
<1>4. PICK code \in {"008", "009"} : Answer(p, code)
  BY DEF store_fileinfo_to_mysql
<1> QED
  BY <1>1, <1>2, <1>3, <1>4, AnswerType DEF TypeOK, store_fileinfo_to_mysql

(* ... a kill *)
LEMMA KillType ==
    ASSUME TypeOK, NEW p \in Procs, Kill(p)
    PROVE  TypeOK'
<1>1. kills' \in 0 .. MaxKills
  BY SMT, ForkAssumption DEF TypeOK, Kill
<1> QED
  BY <1>1, GoneType DEF TypeOK, Kill, dataVars

(* ... starting the service again *)
LEMMA StartType ==
    ASSUME TypeOK, Start
    PROVE  TypeOK'
  BY ForkAssumption DEF TypeOK, Start, dataVars, Labels, Serving
-----------------------------------------------------------------------------
(* a process that runs the service's code goes on; the others do not move *)
Moves(p, l) ==
    /\ pc[p] \in Serving
    /\ pc' = [pc EXCEPT ![p] = l]
    /\ UNCHANGED <<parent, out, stored>>
    /\ \A q \in Procs \ {p} : req'[q] = req[q] /\ fileid'[q] = fileid[q]

(* a process that moves on without fork, exec or read keeps the chains *)
LEMMA MoveChains ==
    ASSUME TypeOK, Chains, NEW p \in Procs,
           NEW l \in Serving \ {"up_exec", "url_exec"}, Moves(p, l)
    PROVE  Chains'
<1> SUFFICES ASSUME NEW c \in Procs, pc'[c] # "none"
             PROVE  /\ pc'[c] = "exited" => parent'[c] # 0
                    /\ \A q \in Procs : parent'[c] = q => ChildOf(c, q)'
  BY DEF Chains
<1>1. pc[c] # "none" /\ parent'[c] = parent[c]
  BY DEF Moves, TypeOK, Serving
<1>2. pc'[c] = "exited" => pc[c] = "exited"
  BY DEF Moves, TypeOK, Serving
<1>3. ASSUME NEW q \in Procs, parent[c] = q
      PROVE  ChildOf(c, q)'
  <2>1. ChildOf(c, q) /\ q # p
    BY <1>1, <1>3 DEF Chains, ChildOf, Moves, Reading, Serving
  <2>2. CASE c = p
    BY <2>1, <2>2 DEF ChildOf, Moves, TypeOK, Serving
  <2>3. CASE c # p
    BY <2>1, <2>3 DEF ChildOf, Moves, TypeOK, SameRequest, Serving
  <2> QED
    BY <2>2, <2>3
<1> QED
  BY <1>1, <1>2, <1>3 DEF Chains

(* the child runs a tool *)
LEMMA ExecChains ==
    ASSUME TypeOK, Chains, NEW p \in Procs,
           \/ pc[p] = "up_exec" /\ pc' = [pc EXCEPT ![p] = "up_tool"]
           \/ pc[p] = "url_exec" /\ pc' = [pc EXCEPT ![p] = "url_tool"],
           UNCHANGED <<parent, out, stored, req, fileid>>
    PROVE  Chains'
<1> SUFFICES ASSUME NEW c \in Procs, pc'[c] # "none"
             PROVE  /\ pc'[c] = "exited" => parent'[c] # 0
                    /\ \A q \in Procs : parent'[c] = q => ChildOf(c, q)'
  BY DEF Chains
<1>1. pc[c] # "none" /\ parent'[c] = parent[c]
  BY DEF TypeOK
<1>2. pc'[c] = "exited" => pc[c] = "exited"
  BY DEF TypeOK
<1>3. ASSUME NEW q \in Procs, parent[c] = q
      PROVE  ChildOf(c, q)'
  <2>1. ChildOf(c, q) /\ q # p
    BY <1>1, <1>3 DEF Chains, ChildOf, Reading
  <2> QED
    BY <2>1 DEF ChildOf, TypeOK, SameRequest
<1> QED
  BY <1>1, <1>2, <1>3 DEF Chains

(* a tool removes nothing from FastDFS *)
LEMMA ToolKeeps ==
    ASSUME TypeOK, NEW p \in Procs, fdfs_upload_file(p) \/ fdfs_file_info(p)
    PROVE  StoredKept
  BY DEF StoredKept, TypeOK, fdfs_upload_file, fdfs_file_info, dataVars

(* a tool ends *)
LEMMA ToolChains ==
    ASSUME TypeOK, Chains, NEW p \in Procs, Knows(p),
           fdfs_upload_file(p) \/ fdfs_file_info(p)
    PROVE  Chains'
<1> SUFFICES ASSUME NEW c \in Procs, pc'[c] # "none"
             PROVE  /\ pc'[c] = "exited" => parent'[c] # 0
                    /\ \A q \in Procs : parent'[c] = q => ChildOf(c, q)'
  BY DEF Chains
<1>1. /\ pc[c] # "none" /\ parent' = parent /\ req' = req /\ fileid' = fileid
      /\ c # p => out'[c] = out[c] /\ pc'[c] = pc[c]
  BY DEF TypeOK, fdfs_upload_file, fdfs_file_info, dataVars
<1>4. /\ StoredKept
      /\ \A d \in Procs : out[d] # 0 /\ out[d] = req[d] => req[d] \in Requests
  BY ToolKeeps DEF TypeOK
<1>2. c = p => pc'[c] = "exited" /\ parent[c] # 0
  BY DEF TypeOK, fdfs_upload_file, fdfs_file_info, Ended
<1>3. ASSUME NEW q \in Procs, parent[c] = q
      PROVE  ChildOf(c, q)'
  <2>1. ChildOf(c, q) /\ q # p
    BY <1>1, <1>3 DEF Chains, ChildOf, Reading, fdfs_upload_file, fdfs_file_info
  <2>2. pc'[q] = pc[q] /\ \A d \in Procs : pc'[d] # "none" => pc[d] # "none"
    BY <2>1 DEF TypeOK, fdfs_upload_file, fdfs_file_info
  <2>3. CASE c # p
    BY <1>1, <1>4, <2>1, <2>2, <2>3 DEF ChildOf, SameRequest, StoredKept
  <2>4. CASE c = p /\ fdfs_upload_file(p)
    BY <1>1, <1>2, <2>1, <2>2, <2>4
       DEF ChildOf, SameRequest, fdfs_upload_file, TypeOK
  <2>5. CASE c = p /\ fdfs_file_info(p)
    <3>1. out'[c] = out[c] \/ fileid[c] # 0
      BY SMT, <2>5 DEF fdfs_file_info, TypeOK, Requests
    <3> QED
      BY <1>1, <1>2, <2>1, <2>2, <2>5, <3>1
         DEF ChildOf, SameRequest, fdfs_file_info, TypeOK
  <2> QED
    BY <2>3, <2>4, <2>5
<1> QED
  BY <1>1, <1>2, <1>3 DEF Chains
(* the child of a fork, with its copy of the buffers *)
Forks(p, c, parentAt, childAt) ==
    /\ pc[p] \in {"up_fork", "url_fork"} /\ pc[c] = "none"
    /\ \/ pc[p] = "up_fork" /\ parentAt = "up_read" /\ childAt = "up_exec"
       \/ pc[p] = "url_fork" /\ parentAt = "url_read" /\ childAt = "url_exec"
    /\ pc' = [pc EXCEPT ![p] = parentAt, ![c] = childAt]
    /\ parent' = [parent EXCEPT ![c] = p]
    /\ out' = [out EXCEPT ![c] = 0]
    /\ req' = [req EXCEPT ![c] = req[p]]
    /\ fileid' = [fileid EXCEPT ![c] = fileid[p]]
    /\ url' = [url EXCEPT ![c] = url[p]]
    /\ UNCHANGED <<dataVars, answers, requests, errs, crashes, kills>>

(* a fork puts the new child at the end of a chain *)
LEMMA ForkChains ==
    ASSUME TypeOK, Chains, NEW p \in Procs, NEW c \in Procs,
           NEW pl, NEW cl, Forks(p, c, pl, cl)
    PROVE  Chains'
<1> SUFFICES ASSUME NEW d \in Procs, pc'[d] # "none"
             PROVE  /\ pc'[d] = "exited" => parent'[d] # 0
                    /\ \A q \in Procs : parent'[d] = q => ChildOf(d, q)'
  BY DEF Chains
<1>1. /\ c # p
      /\ \A x \in Procs \ {p} : pc[x] # "none" =>
            /\ x # c /\ pc'[x] = pc[x] /\ parent'[x] = parent[x]
            /\ out'[x] = out[x] /\ req'[x] = req[x] /\ fileid'[x] = fileid[x]
      /\ pc'[p] = pl /\ pl \in Reading /\ parent'[p] = parent[p]
      /\ out'[p] = out[p] /\ req'[p] = req[p] /\ fileid'[p] = fileid[p]
      /\ pc'[c] = cl /\ parent'[c] = p /\ out'[c] = 0 /\ req'[c] = req[p]
      /\ fileid'[c] = fileid[p]
      /\ stored' = stored
  BY DEF Forks, TypeOK, dataVars, Reading
<1>2. \A x \in Procs : pc[x] # "none" => parent[x] # p
  BY DEF Chains, ChildOf, Forks, Reading
<1>3. CASE d = c
  <2>1. \A x \in Procs : pc'[x] # "none" /\ parent'[x] = p => x = c
    BY <1>1, <1>2 DEF Forks, TypeOK
  <2>2. ChildOf(c, p)'
    BY <1>1, <2>1 DEF ChildOf, SameRequest, Forks
  <2> QED
    BY SMT, <1>1, <1>3, <2>2 DEF Forks
<1>4. CASE d # c
  <2>1. pc[d] # "none" /\ parent'[d] = parent[d]
    BY <1>1, <1>4 DEF Forks, TypeOK
  <2>2. pc'[d] = "exited" => pc[d] = "exited"
    BY <1>1, <2>1 DEF Forks, Reading
  <2>3. ASSUME NEW q \in Procs, parent[d] = q
        PROVE  ChildOf(d, q)'
    <3>1. ChildOf(d, q) /\ q # p /\ q # c
      BY <1>2, <2>1, <2>3 DEF Chains, ChildOf, Forks, Reading
    <3>2. pc'[q] = pc[q] /\ req'[q] = req[q] /\ fileid'[q] = fileid[q]
      BY <1>1, <3>1 DEF ChildOf, Reading
    <3>3. \A x \in Procs : pc'[x] # "none" /\ parent'[x] = q => x = d
      BY <1>1, <3>1 DEF ChildOf, Forks, TypeOK
    <3>4. CASE d = p
      BY <1>1, <3>1, <3>2, <3>3, <3>4 DEF ChildOf, Forks, Reading
    <3>5. CASE d # p
      BY <1>1, <2>1, <3>1, <3>2, <3>3, <3>5 DEF ChildOf, SameRequest
    <3> QED
      BY <3>4, <3>5
  <2> QED
    BY <2>1, <2>2, <2>3 DEF Chains
<1> QED
  BY <1>3, <1>4

(* a parent has read what its child wrote, and goes on with its request *)
Returns(p, c) ==
    /\ pc[p] \in Reading /\ ChildDone(p, c) /\ ChildOf(c, p)
    /\ \E l \in {"accept", "url_fork", "store"} :
          pc' = [pc EXCEPT ![p] = l, ![c] = "none"]
    /\ UNCHANGED <<parent, out, stored>>
    /\ \A q \in Procs \ {p} : req'[q] = req[q] /\ fileid'[q] = fileid[q]

(* a parent that has read its child's output becomes the end of its chain *)
LEMMA ReturnChains ==
    ASSUME TypeOK, Chains, NEW p \in Procs, NEW c \in Procs, Returns(p, c)
    PROVE  Chains'
<1> SUFFICES ASSUME NEW d \in Procs, pc'[d] # "none"
             PROVE  /\ pc'[d] = "exited" => parent'[d] # 0
                    /\ \A q \in Procs : parent'[d] = q => ChildOf(d, q)'
  BY DEF Chains
<1>1. /\ c # p /\ pc'[c] = "none" /\ pc'[p] \in {"accept", "url_fork", "store"}
      /\ \A x \in Procs \ {p, c} :
            pc'[x] = pc[x] /\ req'[x] = req[x] /\ fileid'[x] = fileid[x]
      /\ parent' = parent /\ out' = out /\ stored' = stored
      /\ pc[c] = "exited" /\ pc[p] \in Reading
  BY DEF Returns, ChildOf, ChildDone, TypeOK
<1>2. \A x \in Procs \ {c} : pc[x] # "none" => parent[x] # p
  BY DEF Returns, ChildOf, ChildDone, Chains
<1>3. d # c /\ pc[d] # "none"
  BY <1>1 DEF Reading
<1>4. pc'[d] = "exited" => pc[d] = "exited"
  BY <1>1, <1>3
<1>5. ASSUME NEW q \in Procs, parent[d] = q
      PROVE  ChildOf(d, q)'
  <2>1. ChildOf(d, q) /\ q # p /\ q # c
    BY ZenonT(30), <1>1, <1>2, <1>3, <1>5 DEF Chains, ChildOf, Reading
  <2>2. \A x \in Procs : pc'[x] # "none" /\ parent'[x] = q => x = d
    BY <1>1, <2>1 DEF ChildOf, Reading
  <2>3. CASE d = p
    BY <1>1, <2>1, <2>2, <2>3 DEF ChildOf, Reading
  <2>4. CASE d # p
    BY <1>1, <1>3, <2>1, <2>2, <2>4 DEF ChildOf, SameRequest
  <2> QED
    BY <2>3, <2>4
<1> QED
  BY <1>1, <1>3, <1>4, <1>5 DEF Chains
(* what the end of p does to the other processes *)
LEMMA DieEffect ==
    ASSUME TypeOK, Chains, NEW p \in Procs, Dies(p)
    PROVE  /\ pc'[p] = IF parent[p] = 0 THEN "none" ELSE "exited"
           /\ \A x \in Procs \ {p} :
                 \/ pc'[x] = pc[x] /\ (pc[x] = "exited" => parent[x] # p)
                 \/ pc'[x] = "none" /\ pc[x] = "exited" /\ parent[x] = p
           /\ \A x \in Procs :
                 parent'[x] = IF parent[x] = p THEN 0 ELSE parent[x]
           /\ pc[p] \notin {"none", "exited"} /\ parent[p] # p
<1>1. pc[p] \notin {"none", "exited"}
  BY DEF Dies, Serving, Reading
<1>2. parent[p] # p
  BY <1>1 DEF Chains, ChildOf
<1> QED
  BY <1>1, <1>2 DEF Dies, Gone, Ended, TypeOK

(* what a dead process leaves behind are chains *)
LEMMA DieChains ==
    ASSUME TypeOK, Chains, NEW p \in Procs, Dies(p)
    PROVE  Chains'
<1> SUFFICES ASSUME NEW d \in Procs, pc'[d] # "none"
             PROVE  /\ pc'[d] = "exited" => parent'[d] # 0
                    /\ \A q \in Procs : parent'[d] = q => ChildOf(d, q)'
  BY DEF Chains
<1>1. /\ out' = out /\ req' = req /\ fileid' = fileid /\ stored' = stored
  BY DEF Dies, dataVars
<1>2. pc[d] # "none" /\ (d # p => pc'[d] = pc[d])
  BY DieEffect
<1>3. pc'[d] = "exited" => parent'[d] # 0
  <2>1. CASE d = p
    BY SMT, <2>1, DieEffect
  <2>2. CASE d # p
    BY <1>2, <2>2, DieEffect DEF Chains
  <2> QED
    BY <2>1, <2>2
<1>4. ASSUME NEW q \in Procs, parent'[d] = q
      PROVE  ChildOf(d, q)'
  <2>1. parent[d] = q /\ q # p
    BY <1>4, DieEffect, ForkAssumption
  <2>2. ChildOf(d, q)
    BY <1>2, <2>1 DEF Chains
  <2>3. pc'[q] = pc[q]
    BY SMT, <2>1, <2>2, DieEffect DEF ChildOf, Reading
  <2>4. \A x \in Procs : pc'[x] # "none" /\ parent'[x] = q => x = d
    BY SMT, <2>1, <2>2, DieEffect, ForkAssumption DEF ChildOf
  <2>5. CASE d = p
    BY <1>1, <2>2, <2>3, <2>4, <2>5, DieEffect DEF ChildOf, SameRequest
  <2>6. CASE d # p
    BY <1>1, <1>2, <2>2, <2>3, <2>4, <2>6 DEF ChildOf, SameRequest
  <2> QED
    BY <2>5, <2>6
<1> QED
  BY <1>3, <1>4

(* a service started on empty slots is a chain of one *)
LEMMA StartChains ==
    ASSUME TypeOK, Start
    PROVE  Chains'
  BY ForkAssumption DEF TypeOK, Start, Chains, ChildOf
-----------------------------------------------------------------------------
(* the steps of the service by what they do *)
Row(p) == [req |-> req[p], file_id |-> fileid[p], url |-> url[p]]

Saves(p) ==
    /\ pc[p] = "recv"
    /\ pc' = [pc EXCEPT ![p] = "up_fork"]
    /\ local' = [local EXCEPT ![Filename[req[p]]] = req[p]]
    /\ UNCHANGED <<parent, out, req, fileid, url, stored, info, answers, requests,
                   errs, crashes, kills>>

Answers(p, code) ==
    /\ pc[p] \in {"recv", "up_fork", "url_fork", "store"}
    /\ pc' = [pc EXCEPT ![p] = "accept"]
    /\ Answer(p, code)
    /\ code = "008" => pc[p] = "store" /\ Row(p) \in info'
    /\ info' = info \/ (pc[p] = "store" /\ info' = info \cup {Row(p)})
    /\ UNCHANGED <<parent, out, local, short, stored, requests, errs, crashes, kills>>

Execs(p) ==
    /\ \/ pc[p] = "up_exec" /\ pc' = [pc EXCEPT ![p] = "up_tool"]
       \/ pc[p] = "url_exec" /\ pc' = [pc EXCEPT ![p] = "url_tool"]
    /\ UNCHANGED <<parent, out, req, fileid, url, dataVars, answers, requests, errs,
                   crashes, kills>>

ExecFailed(p) ==
    /\ ExecFails(p)
    /\ \/ /\ pc[p] = "up_exec" /\ pc' = [pc EXCEPT ![p] = "url_fork"]
          /\ unlink(p)
       \/ /\ pc[p] = "url_exec" /\ pc' = [pc EXCEPT ![p] = "store"]
          /\ local' = local
    /\ UNCHANGED <<parent, out, req, fileid, url, short, stored, info, answers,
                   requests, crashes, kills>>

(* every step of a process is of one of these kinds *)
LEMMA StepKinds ==
    ASSUME TypeOK, Chains, NEW p \in Procs, Step(p) \/ Kill(p)
    PROVE  \/ Accept(p)
           \/ Saves(p)
           \/ \E code \in {"008", "009"} : Answers(p, code)
           \/ \E c \in Procs, pl, cl \in Labels : Forks(p, c, pl, cl)
           \/ Execs(p)
           \/ ExecFailed(p)
           \/ fdfs_upload_file(p)
           \/ fdfs_file_info(p)
           \/ pc[p] = "up_read" /\ \E c \in Procs :
                 /\ ChildDone(p, c) /\ ChildOf(c, p)
                 /\ Refused(p, c) \/ Named(p, c)
           \/ pc[p] = "url_read" /\ \E c \in Procs :
                 ChildDone(p, c) /\ ChildOf(c, p) /\ Located(p, c)
           \/ /\ Dies(p)
              /\ \/ kills' > 0
                 \/ kills' = kills /\ \E c \in Procs : ChildDone(p, c) /\ ChildOf(c, p)
<1>1. CASE recv_save_file(p)
  BY <1>1 DEF recv_save_file, Saves, Answers
<1>2. CASE upload_fork(p) \/ url_fork(p)
  <2>1. CASE /\ pc' = [pc EXCEPT ![p] = "accept"]
             /\ Answer(p, "009")
             /\ UNCHANGED <<parent, out>>
    <3>1. Answers(p, "009")
      BY <1>2, <2>1 DEF upload_fork, url_fork, Fork, Answers, dataVars
    <3> QED
      BY <3>1
  <2>2. ASSUME NEW c \in Procs, NEW pl \in Labels, NEW cl \in Labels,
               \/ pc[p] = "up_fork" /\ pl = "up_read" /\ cl = "up_exec"
               \/ pc[p] = "url_fork" /\ pl = "url_read" /\ cl = "url_exec",
               pc[c] = "none",
               pc' = [pc EXCEPT ![p] = pl, ![c] = cl],
               parent' = [parent EXCEPT ![c] = p],
               out' = [out EXCEPT ![c] = 0],
               req' = [req EXCEPT ![c] = req[p]],
               fileid' = [fileid EXCEPT ![c] = fileid[p]],
               url' = [url EXCEPT ![c] = url[p]],
               UNCHANGED answers
        PROVE  Forks(p, c, pl, cl)
    BY <1>2, <2>2 DEF upload_fork, url_fork, Fork, Forks
  <2>3. /\ "up_read" \in Labels /\ "up_exec" \in Labels
        /\ "url_read" \in Labels /\ "url_exec" \in Labels
    BY DEF Labels, Serving, Reading
  <2>4. CASE upload_fork(p)
    BY ZenonT(30), <2>1, <2>2, <2>3, <2>4 DEF upload_fork, Fork
  <2>5. CASE url_fork(p)
    BY ZenonT(30), <2>1, <2>2, <2>3, <2>5 DEF url_fork, Fork
  <2> QED
    BY <1>2, <2>4, <2>5
<1>3. CASE upload_exec(p) \/ url_exec(p)
  BY <1>3 DEF upload_exec, url_exec, Execs, ExecFailed, dataVars
<1>4. CASE upload_read(p)
  BY <1>4, UploadReads
<1>5. CASE url_read(p)
  BY <1>5, UrlReads
<1>6. CASE store_fileinfo_to_mysql(p)
  BY <1>6 DEF store_fileinfo_to_mysql, Answers, Row
<1>7. CASE Kill(p)
  BY <1>7, KillDies
<1> QED
  BY <1>1, <1>2, <1>3, <1>4, <1>5, <1>6, <1>7 DEF Step
(* every step keeps the types *)
LEMMA TypeStep ==
    ASSUME TypeOK, Chains, AllKnow, NEW p \in Procs, Step(p) \/ Kill(p)
    PROVE  TypeOK'
<1>1. Knows(p)
  BY DEF AllKnow
<1>2. CASE upload_fork(p)
  BY <1>1, <1>2, ForkType DEF upload_fork, Reading
<1>3. CASE url_fork(p)
  BY <1>1, <1>3, ForkType DEF url_fork, Reading
<1>4. CASE Step(p) /\ ~upload_fork(p) /\ ~url_fork(p)
  BY <1>1, <1>4, AcceptType, RecvType, ExecType, ToolType, ReadType, StoreType
     DEF Step
<1>5. CASE Kill(p)
  BY <1>5, KillType
<1> QED
  BY <1>2, <1>3, <1>4, <1>5

(* every step keeps the chains *)
LEMMA ChainsStep ==
    ASSUME TypeOK, Chains, AllKnow, NEW p \in Procs, Step(p) \/ Kill(p)
    PROVE  Chains'
<1>1. ASSUME Accept(p) \/ Saves(p) \/ ExecFailed(p)
             \/ \E code \in {"008", "009"} : Answers(p, code)
      PROVE  Chains'
  <2>1. PICK l \in Serving \ {"up_exec", "url_exec"} : Moves(p, l)
    <3>1. CASE Accept(p)
      BY <3>1 DEF Accept, Moves, dataVars, Serving, TypeOK
    <3>2. CASE Saves(p)
      BY <3>2 DEF Saves, Moves, Serving
    <3>3. CASE ExecFailed(p)
      BY <3>3 DEF ExecFailed, Moves, Serving
    <3>4. CASE \E code \in {"008", "009"} : Answers(p, code)
      <4>1. /\ pc[p] \in {"recv", "up_fork", "url_fork", "store"}
            /\ pc' = [pc EXCEPT ![p] = "accept"]
            /\ fileid' = [fileid EXCEPT ![p] = 0]
            /\ req' = [req EXCEPT ![p] = 0]
            /\ UNCHANGED <<parent, out, stored>>
        BY <3>4 DEF Answers, Answer
      <4>2. Moves(p, "accept")
        BY <4>1 DEF Moves, Serving, TypeOK
      <4> QED
        BY <4>2 DEF Serving
    <3> QED
      BY <1>1, <3>1, <3>2, <3>3, <3>4
  <2> QED
    BY <2>1, MoveChains
<1>2. ASSUME NEW c \in Procs, NEW pl \in Labels, NEW cl \in Labels,
             Forks(p, c, pl, cl)
      PROVE  Chains'
  BY <1>2, ForkChains
<1>3. CASE Execs(p)
  BY <1>3, ExecChains DEF Execs, dataVars
<1>4. CASE fdfs_upload_file(p) \/ fdfs_file_info(p)
  BY <1>4, ToolChains DEF AllKnow
<1>5. ASSUME NEW c \in Procs, ChildDone(p, c), ChildOf(c, p),
             Refused(p, c) \/ Named(p, c) \/ Located(p, c)
      PROVE  Chains'
  <2>1. Returns(p, c)
    BY <1>5 DEF Returns, ChildOf, Refused, Named, Located, Answer, dataVars, TypeOK
  <2> QED
    BY <2>1, ReturnChains
<1>6. CASE Dies(p)
  BY <1>6, DieChains
<1> QED
  BY <1>1, <1>2, <1>3, <1>4, <1>5, <1>6, StepKinds
-----------------------------------------------------------------------------
(* the numbers of the state are numbers *)
LEMMA Numbers ==
    ASSUME TypeOK
    PROVE  /\ Requests \subseteq Nat /\ 0 \notin Requests
           /\ requests \in Nat /\ kills \in Nat
           /\ \A p \in Procs : req[p] \in Nat
           /\ \A r \in Requests : errs[r] \in Nat
<1>1. Requests \subseteq Nat /\ 0 \notin Requests
  BY SMT, ForkAssumption DEF Requests
<1>2. requests \in Nat /\ kills \in Nat
  BY SMT, ForkAssumption DEF TypeOK
<1>3. \A p \in Procs : req[p] \in Nat
  <2>1. req \in [Procs -> Requests \cup {0}]
    BY DEF TypeOK
  <2>2. Requests \cup {0} \subseteq Nat
    BY SMT, <1>1
  <2> QED
    BY <2>1, <2>2
<1>4. \A r \in Requests : errs[r] \in Nat
  BY SMT, ForkAssumption DEF TypeOK
<1> QED
  BY <1>1, <1>2, <1>3, <1>4

(* and so they are after the step *)
LEMMA NumbersAfter ==
    ASSUME TypeOK'
    PROVE  /\ requests' \in Nat /\ kills' \in Nat
           /\ \A p \in Procs : req'[p] \in Nat
           /\ \A r \in Requests : errs'[r] \in Nat
<1>1. Requests \subseteq Nat
  BY SMT, ForkAssumption DEF Requests
<1>2. requests' \in Nat /\ kills' \in Nat
  BY SMT, ForkAssumption DEF TypeOK
<1>3. \A p \in Procs : req'[p] \in Nat
  <2>1. req' \in [Procs -> Requests \cup {0}]
    BY DEF TypeOK
  <2>2. Requests \cup {0} \subseteq Nat
    BY SMT, <1>1
  <2> QED
    BY <2>1, <2>2
<1>4. \A r \in Requests : errs'[r] \in Nat
  BY SMT, ForkAssumption DEF TypeOK
<1> QED
  BY <1>2, <1>3, <1>4

(* three numbers in their order *)
LEMMA Between ==
    ASSUME NEW a \in Nat, NEW b \in Nat, NEW c \in Nat, a <= b, c >= b
    PROVE  a <= c
  BY SMT

(* for the provers without arithmetic *)
LEMMA Reflexive ==
    ASSUME NEW a \in Nat
    PROVE  a >= a
  BY SMT

(* a step that leaves the counters alone does not lower them *)
LEMMA SameNumbers ==
    ASSUME TypeOK, requests' = requests, errs' = errs
    PROVE  requests' >= requests /\ \A r \in Requests : errs'[r] >= errs[r]
  BY Numbers, Reflexive

(* a process the step does not touch, or only ends, knows what it knew *)
LEMMA OtherKnows ==
    ASSUME TypeOK, TypeOK', NEW x \in Procs, Knows(x),
           pc'[x] = pc[x] \/ pc'[x] \in {"none", "exited"},
           req'[x] = req[x], fileid'[x] = fileid[x], url'[x] = url[x],
           requests' >= requests, StoredKept,
           \A r \in Requests : errs'[r] >= errs[r],
           req[x] # 0 => \A n \in Names : local'[n] = req[x] => local[n] = req[x],
           pc[x] = "recv" => /\ answers'[req[x]] = answers[req[x]]
                             /\ \A q \in Procs : req'[q] = req[x] => q = x
    PROVE  Knows(x)'
<1>1. req[x] \in Nat /\ requests \in Nat /\ requests' \in Nat
  BY Numbers, NumbersAfter
<1>2. req[x] <= requests'
  <2>1. req[x] <= requests
    BY DEF Knows
  <2> QED
    BY <1>1, <2>1, Between
<1>3. fileid[x] # 0 => fileid[x] = req[x] /\ stored'[req[x]] # 0
  BY DEF Knows, TypeOK, StoredKept
<1>4. CASE pc'[x] \in {"none", "exited"}
  BY <1>2, <1>4, <1>3 DEF Knows, Serving, Reading, Tools
<1>5. CASE pc'[x] = pc[x] /\ pc[x] \in (Serving \cup Reading \cup Tools) \ {"accept"}
  <2>1. req[x] \in Requests
    BY <1>5 DEF Knows, TypeOK
  <2>2. errs'[req[x]] >= errs[req[x]] /\ errs[req[x]] \in Nat /\ errs'[req[x]] \in Nat
    BY SMT, <2>1, ForkAssumption DEF TypeOK
  <2>3. /\ pc[x] = "recv" => /\ answers'[req[x]] = <<>>
                             /\ \A q \in Procs : req'[q] = req[x] => q = x
        /\ pc[x] \in {"url_fork", "url_exec", "url_tool", "url_read", "store"} =>
              \A n \in Names : local'[n] # req[x]
    BY <1>5 DEF Knows
  <2>4. /\ pc[x] \in {"url_fork", "url_exec", "url_tool", "url_read", "store"} =>
             (fileid[x] = 0 => errs'[req[x]] >= IF pc[x] = "store" THEN 2 ELSE 1)
        /\ pc[x] = "store" /\ ~url[x] => errs'[req[x]] >= 1
    BY SMT, <2>2 DEF Knows
  <2> QED
    BY <1>2, <1>5, <1>3, <2>1, <2>3, <2>4, ForkAssumption DEF Knows, Requests
<1>6. CASE pc'[x] = pc[x] /\ pc[x] \in {"accept", "none", "exited"}
  BY <1>2, <1>6, <1>3 DEF Knows, Serving, Reading, Tools
<1> QED
  BY <1>4, <1>5, <1>6 DEF TypeOK, Labels
(* what processes know of their requests, kind by kind: a new request *)
LEMMA AcceptKnows ==
    ASSUME TypeOK, TypeOK', AllKnow, OneOwner, NEW p \in Procs, Accept(p)
    PROVE  AllKnow'
<1> SUFFICES ASSUME NEW x \in Procs PROVE Knows(x)'
  BY DEF AllKnow
<1>1. \A q \in Procs : req[q] \in Nat /\ req[q] <= requests
  BY Numbers DEF AllKnow, Knows
<1>2. /\ requests \in Nat /\ requests' = requests + 1 /\ requests' \in Requests
      /\ \A q \in Procs : req'[q] = IF q = p THEN requests' ELSE req[q]
      /\ pc'[p] = "recv"
      /\ \A q \in Procs \ {p} : pc'[q] = pc[q]
  BY SMT, Numbers, ForkAssumption DEF Accept, TypeOK, Requests
<1>3. CASE x = p
  <2>1. fileid'[p] = 0 /\ answers'[requests'] = <<>>
    BY SMT, <1>2 DEF Accept, AllKnow, Knows, OneOwner
  <2>2. \A q \in Procs : req'[q] = requests' => q = p
    BY SMT, <1>1, <1>2
  <2>3. req'[p] = requests' /\ requests' <= requests' /\ requests' # 0
    BY SMT, <1>2, Numbers
  <2> QED
    BY <1>2, <1>3, <2>1, <2>2, <2>3 DEF Knows, Serving, Reading, Tools
<1>4. CASE x # p
  <2>1. pc[x] = "recv" => \A q \in Procs : req'[q] = req[x] => q = x
    BY SMT, <1>1, <1>2, <1>4 DEF AllKnow, Knows
  <2>2. \A r \in Requests : errs'[r] >= errs[r]
    BY SMT, Numbers DEF Accept
  <2>3. requests' >= requests
    BY SMT, <1>2
  <2> QED
    BY <1>2, <1>4, <2>1, <2>2, <2>3, OtherKnows DEF Accept, AllKnow, dataVars, StoredKept
<1> QED
  BY <1>3, <1>4

(* ... the body saved in the working directory *)
LEMMA SavesKnows ==
    ASSUME TypeOK, TypeOK', AllKnow, NEW p \in Procs, Saves(p)
    PROVE  AllKnow'
<1> SUFFICES ASSUME NEW x \in Procs PROVE Knows(x)'
  BY DEF AllKnow
<1>1. Knows(x) /\ Knows(p)
  BY DEF AllKnow
<1>2. \A r \in Requests : errs'[r] >= errs[r]
  BY SMT, Numbers DEF Saves
<1>3. CASE x = p
  BY <1>1, <1>3 DEF Knows, Saves, TypeOK, Serving
<1>4. CASE x # p
  <2>1. req[x] # req[p]
    BY <1>1, <1>4 DEF Knows, Saves
  <2>2. requests' >= requests
    BY SameNumbers DEF Saves
  <2>3. \A n \in Names : local'[n] = req[x] => local[n] = req[x]
    BY <2>1 DEF Saves, TypeOK
  <2>4. pc'[x] = pc[x] /\ StoredKept
    BY <1>4 DEF Saves, TypeOK, StoredKept
  <2> QED
    BY <1>1, <1>2, <1>4, <2>1, <2>2, <2>3, <2>4, OtherKnows DEF Saves, Knows
<1> QED
  BY <1>3, <1>4

(* what an answer changes, one process and one request at a time *)
LEMMA AnswerEffect ==
    ASSUME TypeOK, NEW p \in Procs, NEW code, Answer(p, code)
    PROVE  /\ \A q \in Procs \ {p} :
                 req'[q] = req[q] /\ fileid'[q] = fileid[q] /\ url'[q] = url[q]
           /\ req'[p] = 0 /\ fileid'[p] = 0 /\ url'[p] = FALSE
           /\ \A r \in Requests : answers'[r] = IF r = req[p]
                                                THEN Append(answers[r], code)
                                                ELSE answers[r]
  BY DEF TypeOK, Answer

(* ... an answer *)
LEMMA AnswersKnows ==
    ASSUME TypeOK, TypeOK', AllKnow, NEW p \in Procs, NEW code, Answer(p, code),
           NEW c \in Procs, pc[c] = "exited" \/ c = p,
           pc' = [pc EXCEPT ![c] = "none", ![p] = "accept"],
           pc[p] # "accept",
           UNCHANGED <<stored, local, requests, errs>>
    PROVE  AllKnow'
<1> SUFFICES ASSUME NEW x \in Procs PROVE Knows(x)'
  BY DEF AllKnow
<1>1. Knows(x) /\ Knows(p)
  BY DEF AllKnow
<1>2. requests' >= requests /\ \A r \in Requests : errs'[r] >= errs[r]
  BY SMT, Numbers
<1>3. /\ \A q \in Procs \ {p} :
            req'[q] = req[q] /\ fileid'[q] = fileid[q] /\ url'[q] = url[q]
      /\ req'[p] = 0 /\ fileid'[p] = 0 /\ url'[p] = FALSE
      /\ \A r \in Requests : r # req[p] => answers'[r] = answers[r]
  BY AnswerEffect
<1>4. CASE x = p
  <2>1. pc'[p] = "accept"
    BY DEF TypeOK
  <2>2. 0 <= requests'
    BY SMT, Numbers
  <2> QED
    BY <1>3, <1>4, <2>1, <2>2 DEF Knows, Serving
<1>5. CASE x # p
  <2>1. pc'[x] = pc[x] \/ pc'[x] \in {"none", "exited"}
    BY <1>5 DEF TypeOK
  <2>2. ASSUME pc[x] = "recv"
        PROVE  /\ answers'[req[x]] = answers[req[x]]
               /\ \A q \in Procs : req'[q] = req[x] => q = x
    <3>1. \A q \in Procs : req[q] = req[x] => q = x
      BY <1>1, <2>2 DEF Knows
    <3>2. req[x] \in Requests /\ req[x] # 0
      BY <1>1, <2>2 DEF Knows, TypeOK, Serving
    <3>3. req[x] # req[p]
      BY <1>5, <3>1
    <3> QED
      BY <1>3, <3>1, <3>2, <3>3
  <2> QED
    BY <1>1, <1>2, <1>3, <1>5, <2>1, <2>2, OtherKnows DEF StoredKept
<1> QED
  BY <1>4, <1>5
(* ... a fork: the child knows what its parent knows *)
LEMMA ForksKnows ==
    ASSUME TypeOK, TypeOK', AllKnow, NEW p \in Procs, NEW c \in Procs,
           NEW pl, NEW cl, Forks(p, c, pl, cl)
    PROVE  AllKnow'
<1> SUFFICES ASSUME NEW x \in Procs PROVE Knows(x)'
  BY DEF AllKnow
<1>1. Knows(x) /\ Knows(p)
  BY DEF AllKnow
<1>2. /\ c # p /\ pc[p] \in {"up_fork", "url_fork"}
      /\ \A q \in Procs \ {p, c} : pc'[q] = pc[q]
      /\ \A q \in Procs \ {c} : req'[q] = req[q] /\ fileid'[q] = fileid[q]
                                /\ url'[q] = url[q]
      /\ req'[c] = req[p] /\ fileid'[c] = fileid[p] /\ url'[c] = url[p]
      /\ stored' = stored /\ local' = local /\ errs' = errs
      /\ answers' = answers /\ requests' = requests
  BY SMT DEF Forks, TypeOK, dataVars
<1>3. \/ pc[p] = "up_fork" /\ pc'[p] = "up_read" /\ pc'[c] = "up_exec"
      \/ pc[p] = "url_fork" /\ pc'[p] = "url_read" /\ pc'[c] = "url_exec"
  BY DEF Forks, TypeOK
<1>4. CASE x = p
  BY <1>1, <1>2, <1>3, <1>4 DEF Knows, Serving
<1>5. CASE x = c
  BY <1>1, <1>2, <1>3, <1>5 DEF Knows, Serving
<1>6. CASE x # p /\ x # c
  <2>1. requests' >= requests /\ \A r \in Requests : errs'[r] >= errs[r]
    BY SMT, <1>2, Numbers
  <2>2. pc[x] = "recv" => \A q \in Procs : req'[q] = req[x] => q = x
    BY <1>1, <1>2, <1>6 DEF Knows
  <2> QED
    BY <1>1, <1>2, <1>6, <2>1, <2>2, OtherKnows DEF StoredKept
<1> QED
  BY <1>4, <1>5, <1>6

(* the file that was written for a request has its name, and is gone *)
LEMMA Unlinked ==
    ASSUME TypeOK, OwnFiles, NEW p \in Procs, req[p] # 0, unlink(p)
    PROVE  Fewer /\ \A n \in Names : local'[n] # req[p]
  BY Filenames DEF TypeOK, OwnFiles, unlink, Fewer

(* no file that was written for a request appears with the others gone *)
LEMMA FewerKnown ==
    ASSUME Fewer, NEW r, r # 0
    PROVE  \A n \in Names : local'[n] = r => local[n] = r
  BY DEF Fewer

(* ... execlp: a failure is counted for the request *)
LEMMA ExecKnows ==
    ASSUME TypeOK, TypeOK', AllKnow, OwnFiles, NEW p \in Procs, Execs(p) \/ ExecFailed(p)
    PROVE  AllKnow'
<1> SUFFICES ASSUME NEW x \in Procs PROVE Knows(x)'
  BY DEF AllKnow
<1>1. Knows(x) /\ Knows(p)
  BY DEF AllKnow
<1>2. /\ \A q \in Procs \ {p} : pc'[q] = pc[q]
      /\ req' = req /\ fileid' = fileid /\ url' = url /\ stored' = stored
      /\ answers' = answers /\ requests' = requests
  BY DEF Execs, ExecFailed, TypeOK, dataVars
<1>3. req[p] \in Requests /\ req[p] # 0
  BY <1>1 DEF Knows, Execs, ExecFailed, TypeOK, Serving
<1>8. Fewer
  BY <1>3, Unlinked DEF Execs, ExecFailed, dataVars, Fewer
<1>4. requests' >= requests /\ \A r \in Requests : errs'[r] >= errs[r]
  <2>1. requests' >= requests
    BY <1>2, Numbers, Reflexive
  <2>2. CASE Execs(p)
    BY <2>2, SameNumbers DEF Execs
  <2>3. CASE ExecFailed(p)
    <3>1. /\ errs \in [Requests -> Nat]
          /\ errs' = [errs EXCEPT ![req[p]] = @ + 1]
      BY SMT, <2>3, ForkAssumption DEF ExecFailed, ExecFails, TypeOK
    <3> QED
      BY SMT, <1>3, <2>1, <3>1
  <2> QED
    BY <2>2, <2>3
<1>5. CASE x = p /\ Execs(p)
  <2>1. \/ pc[p] = "up_exec" /\ pc'[p] = "up_tool"
        \/ pc[p] = "url_exec" /\ pc'[p] = "url_tool"
    BY <1>5 DEF Execs, TypeOK
  <2>2. local' = local /\ errs' = errs
    BY <1>5 DEF Execs, dataVars
  <2> QED
    BY <1>1, <1>2, <1>5, <2>1, <2>2 DEF Knows, Serving
<1>6. CASE x = p /\ ExecFailed(p)
  <2>1. errs'[req[p]] = errs[req[p]] + 1 /\ errs[req[p]] \in Nat
    BY <1>3, <1>6, Numbers DEF ExecFailed, ExecFails, TypeOK
  <2>2. CASE pc[p] = "up_exec"
    <3>1. pc'[p] = "url_fork" /\ \A n \in Names : local'[n] # req[p]
      BY <1>3, <1>6, <2>2, Unlinked DEF ExecFailed, TypeOK
    <3> QED
      BY SMT, <1>1, <1>2, <1>6, <2>1, <2>2, <3>1 DEF Knows, Serving
  <2>3. CASE pc[p] = "url_exec"
    <3>1. pc'[p] = "store" /\ \A n \in Names : local'[n] # req[p]
      BY <1>1, <1>6, <2>3 DEF ExecFailed, TypeOK, Knows
    <3> QED
      BY SMT, <1>1, <1>2, <1>6, <2>1, <2>3, <3>1 DEF Knows, Serving
  <2> QED
    BY <1>6, <2>2, <2>3 DEF ExecFailed
<1>7. CASE x # p
  <2>1. pc[x] = "recv" => \A q \in Procs : req'[q] = req[x] => q = x
    BY <1>1, <1>2 DEF Knows
  <2> QED
    BY <1>1, <1>2, <1>4, <1>7, <1>8, <2>1, OtherKnows, FewerKnown DEF StoredKept
<1> QED
  BY <1>5, <1>6, <1>7

(* ... a tool stores the file or prints its url *)
LEMMA ToolKnows ==
    ASSUME TypeOK, TypeOK', AllKnow, NEW p \in Procs,
           fdfs_upload_file(p) \/ fdfs_file_info(p)
    PROVE  AllKnow'
<1> SUFFICES ASSUME NEW x \in Procs PROVE Knows(x)'
  BY DEF AllKnow
<1>1. Knows(x)
  BY DEF AllKnow
<1>2. /\ pc'[x] = pc[x] \/ pc'[x] \in {"none", "exited"}
      /\ req' = req /\ fileid' = fileid /\ url' = url
      /\ answers' = answers /\ requests' = requests /\ local' = local
      /\ errs' = errs
  BY DEF fdfs_upload_file, fdfs_file_info, Ended, TypeOK, dataVars
<1>3. requests' >= requests /\ \A r \in Requests : errs'[r] >= errs[r]
  BY SMT, <1>2, Numbers
<1>4. pc[x] = "recv" => \A q \in Procs : req'[q] = req[x] => q = x
  BY <1>1, <1>2 DEF Knows
<1> QED
  BY <1>1, <1>2, <1>3, <1>4, OtherKnows, ToolKeeps

(* the parent takes over what its child has printed *)
LEMMA ReadKnows ==
    ASSUME TypeOK, TypeOK', AllKnow, OwnFiles, NEW p \in Procs, NEW c \in Procs,
           ChildDone(p, c), ChildOf(c, p),
           \/ pc[p] = "up_read" /\ Named(p, c)
           \/ pc[p] = "url_read" /\ Located(p, c)
    PROVE  AllKnow'
<1> SUFFICES ASSUME NEW x \in Procs PROVE Knows(x)'
  BY DEF AllKnow
<1>1. Knows(x) /\ Knows(p) /\ Knows(c)
  BY DEF AllKnow
<1>2. /\ c # p /\ pc[c] = "exited" /\ pc'[c] = "none"
      /\ \A q \in Procs \ {p, c} : pc'[q] = pc[q]
      /\ \A q \in Procs \ {p} : fileid'[q] = fileid[q] /\ url'[q] = url[q]
      /\ req' = req /\ stored' = stored /\ answers' = answers
      /\ requests' = requests /\ errs' = errs
  BY SMT DEF Named, Located, ChildOf, ChildDone, TypeOK, dataVars
<1>6. req[p] # 0
  BY <1>1 DEF Knows, Reading
<1>7. Fewer /\ (Named(p, c) => \A n \in Names : local'[n] # req[p])
  BY <1>6, Unlinked DEF Named, Located, dataVars, Fewer
<1>3. CASE x = p /\ Named(p, c) /\ pc[p] = "up_read"
  <2>1. /\ pc'[p] = "url_fork" /\ fileid'[p] = out[c] /\ out[c] # 0
        /\ url'[p] = url[p]
    BY <1>2, <1>3 DEF Named, TypeOK
  <2>2. out[c] = req[p] /\ stored[req[p]] # 0
    BY <1>2, <1>3, <2>1 DEF ChildOf, SameRequest
  <2> QED
    BY <1>1, <1>2, <1>3, <1>7, <2>1, <2>2 DEF Knows, Serving
<1>4. CASE x = p /\ Located(p, c) /\ pc[p] = "url_read"
  <2>1. pc'[p] = "store" /\ url'[p] = TRUE /\ fileid' = fileid /\ local' = local
    BY <1>2, <1>4 DEF Located, TypeOK, dataVars
  <2>2. out[c] # 0
    BY SMT, <1>4, ForkAssumption DEF Located, Info
  <2>3. fileid[p] # 0
    BY <1>2, <1>4, <2>2 DEF ChildOf, SameRequest
  <2> QED
    BY <1>1, <1>2, <1>4, <2>1, <2>3 DEF Knows, Serving, Reading
<1>5. CASE x # p
  <2>1. requests' >= requests /\ \A r \in Requests : errs'[r] >= errs[r]
    BY <1>2, SameNumbers
  <2>2. pc[x] = "recv" => \A q \in Procs : req'[q] = req[x] => q = x
    BY <1>1, <1>2 DEF Knows
  <2> QED
    BY <1>1, <1>2, <1>5, <1>7, <2>1, <2>2, OtherKnows, FewerKnown DEF StoredKept
<1> QED
  BY <1>3, <1>4, <1>5

(* ... a death *)
LEMMA DiesKnows ==
    ASSUME TypeOK, TypeOK', Chains, AllKnow, NEW p \in Procs, Dies(p)
    PROVE  AllKnow'
<1> SUFFICES ASSUME NEW x \in Procs PROVE Knows(x)'
  BY DEF AllKnow
<1>1. Knows(x)
  BY DEF AllKnow
<1>2. /\ req' = req /\ fileid' = fileid /\ url' = url /\ stored' = stored
      /\ answers' = answers /\ requests' = requests /\ local' = local
      /\ errs' = errs
  BY DEF Dies, dataVars
<1>3. pc'[x] = pc[x] \/ pc'[x] \in {"none", "exited"}
  BY DieEffect
<1>4. requests' >= requests /\ \A r \in Requests : errs'[r] >= errs[r]
  BY SMT, <1>2, Numbers
<1>5. pc[x] = "recv" => \A q \in Procs : req'[q] = req[x] => q = x
  BY <1>1, <1>2 DEF Knows
<1> QED
  BY <1>1, <1>2, <1>3, <1>4, <1>5, OtherKnows DEF StoredKept

(* ... a start *)
LEMMA StartKnows ==
    ASSUME TypeOK, TypeOK', AllKnow, Start
    PROVE  AllKnow'
<1> SUFFICES ASSUME NEW x \in Procs PROVE Knows(x)'
  BY DEF AllKnow
<1>1. Knows(x) /\ pc[x] = "none"
  BY DEF AllKnow, Start
<1>2. /\ stored' = stored /\ answers' = answers /\ requests' = requests
      /\ local' = local /\ errs' = errs
  BY DEF Start, dataVars
<1>3. requests' >= requests /\ \A r \in Requests : errs'[r] >= errs[r]
  BY SMT, <1>2, Numbers
<1>4. CASE x = 1
  <2>1. /\ pc'[x] = "accept" /\ req'[x] = 0 /\ fileid'[x] = 0 /\ url'[x] = FALSE
    BY <1>4 DEF Start, TypeOK
  <2>2. 0 <= requests'
    BY SMT, <1>2, Numbers
  <2> QED
    BY <2>1, <2>2 DEF Knows, Serving
<1>5. CASE x # 1
  <2>1. /\ pc'[x] = "none" /\ req'[x] = req[x] /\ fileid'[x] = fileid[x]
        /\ url'[x] = url[x]
    BY ZenonT(30), <1>1, <1>5 DEF Start, TypeOK
  <2> QED
    BY <1>1, <1>2, <1>3, <2>1, OtherKnows DEF StoredKept
<1> QED
  BY <1>4, <1>5
(* every step keeps what the processes know *)
LEMMA KnowsStep ==
    ASSUME TypeOK, TypeOK', Chains, AllKnow, OneOwner, OwnFiles, NEW p \in Procs,
           Step(p) \/ Kill(p)
    PROVE  AllKnow'
<1>1. ASSUME NEW code \in {"008", "009"}, Answers(p, code)
      PROVE  AllKnow'
  <2>1. pc' = [pc EXCEPT ![p] = "none", ![p] = "accept"]
    BY <1>1 DEF Answers, TypeOK
  <2> QED
    BY <1>1, <2>1, AnswersKnows DEF Answers
<1>2. ASSUME NEW c \in Procs, pc[p] = "up_read", ChildDone(p, c), ChildOf(c, p),
             Refused(p, c)
      PROVE  AllKnow'
  <2>1. pc' = [pc EXCEPT ![c] = "none", ![p] = "accept"] /\ pc[c] = "exited"
    BY <1>2 DEF Refused, ChildOf, ChildDone, TypeOK
  <2> QED
    BY <1>2, <2>1, AnswersKnows DEF Refused, dataVars
<1>3. ASSUME NEW c \in Procs, NEW pl \in Labels, NEW cl \in Labels,
             Forks(p, c, pl, cl)
      PROVE  AllKnow'
  BY <1>3, ForksKnows
<1> QED
  BY <1>1, <1>2, <1>3, AcceptKnows, SavesKnows, ExecKnows, ToolKnows, ReadKnows,
     DiesKnows, StepKinds
-----------------------------------------------------------------------------
(* no process becomes an owner of r, and r is not answered *)
LEMMA SameOwner ==
    ASSUME TypeOK, TypeOK', OneOwner, NEW r \in Requests,
           \A x \in Procs : Owns(x, r)' => Owns(x, r),
           requests' >= requests, errs'[r] >= errs[r], answers'[r] = answers[r]
    PROVE  /\ r > requests' => answers'[r] = <<>>
           /\ errs'[r] = 0 => \A x \in Procs : Owns(x, r)' =>
                 answers'[r] = <<>> /\ \A q \in Procs : Owns(q, r)' => q = x
<1>1. /\ r \in Nat /\ requests \in Nat /\ requests' \in Nat
      /\ errs[r] \in Nat /\ errs'[r] \in Nat
  BY Numbers, NumbersAfter
<1>2. /\ r > requests' => r > requests
      /\ errs'[r] = 0 => errs[r] = 0
  BY SMT, <1>1
<1> QED
  BY <1>2 DEF OneOwner

(* the owner of a request answers it, and owns it no more *)
LEMMA AnswerOwner ==
    ASSUME TypeOK, TypeOK', AllKnow, OneOwner, NEW p \in Procs, NEW code,
           Owns(p, req[p]), Answer(p, code),
           \A x \in Procs \ {p} : pc'[x] = pc[x] \/ pc'[x] = "none",
           UNCHANGED <<requests, errs>>
    PROVE  OneOwner'
<1> SUFFICES ASSUME NEW r \in Requests
             PROVE  /\ r > requests' => answers'[r] = <<>>
                    /\ errs'[r] = 0 => \A x \in Procs : Owns(x, r)' =>
                         answers'[r] = <<>> /\ \A q \in Procs : Owns(q, r)' => q = x
  BY DEF OneOwner
<1>1. /\ \A q \in Procs \ {p} : req'[q] = req[q]
      /\ req'[p] = 0
      /\ r # req[p] => answers'[r] = answers[r]
  BY AnswerEffect
<1>2. r \in Nat /\ r # 0 /\ requests' >= requests /\ errs'[r] >= errs[r]
  BY SMT, Numbers
<1>3. \A x \in Procs : Owns(x, r)' => Owns(x, r) /\ x # p
  BY <1>1, <1>2 DEF Owns
<1>4. CASE r # req[p]
  BY <1>1, <1>2, <1>3, <1>4, SameOwner
<1>5. CASE r = req[p]
  <2>1. ~(r > requests')
    BY SMT, <1>5, Numbers DEF AllKnow, Knows
  <2>2. errs'[r] = 0 => \A x \in Procs : ~Owns(x, r)'
    BY <1>3, <1>5 DEF OneOwner
  <2> QED
    BY <2>1, <2>2
<1> QED
  BY <1>4, <1>5

(* every step leaves a request without failures to one process *)
LEMMA OwnerStep ==
    ASSUME TypeOK, TypeOK', Chains, AllKnow, OneOwner, NEW p \in Procs,
           Step(p) \/ Kill(p)
    PROVE  OneOwner'
<1>1. CASE Accept(p)
  <2> SUFFICES ASSUME NEW r \in Requests
               PROVE  /\ r > requests' => answers'[r] = <<>>
                      /\ errs'[r] = 0 => \A x \in Procs : Owns(x, r)' =>
                            /\ answers'[r] = <<>>
                            /\ \A q \in Procs : Owns(q, r)' => q = x
    BY DEF OneOwner
  <2>1. /\ requests' = requests + 1 /\ requests \in Nat /\ r \in Nat
        /\ errs'[r] >= errs[r] /\ answers' = answers
    BY SMT, <1>1, Numbers DEF Accept
  <2>2. /\ \A q \in Procs \ {p} : req'[q] = req[q] /\ pc'[q] = pc[q]
        /\ req'[p] = requests'
    BY <1>1 DEF Accept, TypeOK
  <2>3. CASE r = requests'
    <3>1. \A q \in Procs : req[q] # r
      BY SMT, <2>1, <2>3, Numbers DEF AllKnow, Knows
    <3>2. r > requests
      BY SMT, <2>1, <2>3
    <3> QED
      BY <2>1, <2>2, <2>3, <3>1, <3>2 DEF OneOwner, Owns
  <2>4. CASE r # requests'
    <3>1. requests' >= requests
      BY SMT, <2>1
    <3> QED
      BY <2>1, <2>2, <2>4, <3>1, SameOwner DEF Owns
  <2> QED
    BY <2>3, <2>4
<1>2. ASSUME NEW code \in {"008", "009"}, Answers(p, code)
      PROVE  OneOwner'
  <2>1. /\ Owns(p, req[p])
        /\ \A x \in Procs \ {p} : pc'[x] = pc[x] \/ pc'[x] = "none"
    BY <1>2 DEF Answers, Owns, TypeOK
  <2> QED
    BY <1>2, <2>1, AnswerOwner DEF Answers
<1>3. ASSUME NEW c \in Procs, pc[p] = "up_read", Refused(p, c)
      PROVE  OneOwner'
  <2>1. /\ Owns(p, req[p])
        /\ \A x \in Procs \ {p} : pc'[x] = pc[x] \/ pc'[x] = "none"
    BY <1>3 DEF Refused, Owns, TypeOK
  <2> QED
    BY <1>3, <2>1, AnswerOwner DEF Refused
<1>4. ASSUME NEW r \in Requests, ~Accept(p),
             \A code \in {"008", "009"} : ~Answers(p, code),
             \A c \in Procs : ~(pc[p] = "up_read" /\ Refused(p, c))
      PROVE  /\ r > requests' => answers'[r] = <<>>
             /\ errs'[r] = 0 => \A x \in Procs : Owns(x, r)' =>
                   /\ answers'[r] = <<>>
                   /\ \A q \in Procs : Owns(q, r)' => q = x
  <2>1. ASSUME NEW c \in Procs, NEW pl \in Labels, NEW cl \in Labels,
               Forks(p, c, pl, cl)
        PROVE  /\ \A x \in Procs : Owns(x, r)' => Owns(x, r)
               /\ requests' = requests /\ errs' = errs /\ answers' = answers
    BY <2>1 DEF Forks, Owns, TypeOK
  <2>2. ASSUME NEW c \in Procs, \/ pc[p] = "up_read" /\ Named(p, c)
                                \/ pc[p] = "url_read" /\ Located(p, c)
        PROVE  /\ \A x \in Procs : Owns(x, r)' => Owns(x, r)
               /\ requests' = requests /\ errs' = errs /\ answers' = answers
    BY ZenonT(30), <2>2 DEF Named, Located, Owns, TypeOK
  <2>3. ASSUME Saves(p) \/ Execs(p)
        PROVE  /\ \A x \in Procs : Owns(x, r)' => Owns(x, r)
               /\ requests' = requests /\ errs' = errs /\ answers' = answers
    BY <2>3 DEF Saves, Execs, Owns, TypeOK
  <2>4. ASSUME fdfs_upload_file(p) \/ fdfs_file_info(p)
        PROVE  /\ \A x \in Procs : Owns(x, r)' => Owns(x, r)
               /\ requests' = requests /\ errs' = errs /\ answers' = answers
    BY <2>4 DEF fdfs_upload_file, fdfs_file_info, Ended, Owns, TypeOK
  <2>5. ASSUME Dies(p)
        PROVE  /\ \A x \in Procs : Owns(x, r)' => Owns(x, r)
               /\ requests' = requests /\ errs' = errs /\ answers' = answers
    BY <2>5, DieEffect DEF Dies, Owns
  <2>6. ASSUME /\ \A x \in Procs : Owns(x, r)' => Owns(x, r)
               /\ requests' = requests /\ errs' = errs /\ answers' = answers
        PROVE  /\ r > requests' => answers'[r] = <<>>
               /\ errs'[r] = 0 => \A x \in Procs : Owns(x, r)' =>
                     /\ answers'[r] = <<>>
                     /\ \A q \in Procs : Owns(q, r)' => q = x
    <3>1. requests' >= requests /\ errs'[r] >= errs[r]
      BY <2>6, SameNumbers
    <3> QED
      BY <2>6, <3>1, SameOwner
  <2>7. CASE ExecFailed(p)
    <3>1. /\ requests' >= requests /\ answers' = answers
          /\ \A x \in Procs \ {p} : Owns(x, r)' => Owns(x, r)
          /\ Owns(p, r)' => r = req[p]
      BY SMT, <2>7, Numbers DEF ExecFailed, Owns, TypeOK
    <3>2. /\ errs \in [Requests -> Nat]
          /\ errs' = [errs EXCEPT ![req[p]] = @ + 1]
      BY SMT, <2>7, ForkAssumption DEF ExecFailed, ExecFails, TypeOK
    <3>3. CASE r = req[p]
      <4>1. errs'[r] # 0
        BY SMT, <3>2, <3>3
      <4>2. r > requests' => answers'[r] = <<>>
        BY <2>7 DEF ExecFailed, OneOwner
      <4> QED
        BY <4>1, <4>2
    <3>4. CASE r # req[p]
      <4>1. errs'[r] >= errs[r]
        BY SMT, <3>2, <3>4
      <4> QED
        BY <3>1, <3>4, <4>1, SameOwner
    <3> QED
      BY <3>3, <3>4
  <2> QED
    BY <1>4, <2>1, <2>2, <2>3, <2>4, <2>5, <2>6, <2>7, StepKinds
<1> QED
  BY <1>1, <1>2, <1>3, <1>4 DEF OneOwner
-----------------------------------------------------------------------------
(* the one process that moved is a, the one that can move next is b *)
LEMMA TailFrom ==
    ASSUME TypeOK, TailMoves, kills' = 0 => kills = 0,
           NEW a \in Procs, NEW b \in Procs, Active(a),
           a # b => pc'[a] \in Reading \cup {"none"},
           \A x \in Procs \ {a, b} : pc'[x] = pc[x] \/ pc'[x] = "none",
           kills' = 0 /\ Active(b)' =>
              \/ pc'[b] = "accept"
              \/ pc'[b] = "exited" /\ out'[b] = 0
              \/ answers'[req'[b]] = <<>>
    PROVE  TailMoves'
<1> SUFFICES ASSUME kills' = 0, NEW x \in Procs, Active(x)'
             PROVE  x = b
  BY DEF TailMoves
<1>1. \A y \in Procs : Active(y) => y = a
  BY DEF TailMoves
<1> QED
  BY <1>1 DEF Active

(* without a kill only the end of the chain moves, after every step *)
LEMMA TailStep ==
    ASSUME TypeOK, TypeOK', Chains, AllKnow, AllKnow', TailMoves, NEW p \in Procs,
           Step(p) \/ Kill(p)
    PROVE  TailMoves'
<1>1. ASSUME kills = 0, Active(p), pc[p] \notin {"accept", "exited"}
      PROVE  answers[req[p]] = <<>>
  BY <1>1 DEF TailMoves
<1>2. CASE Accept(p)
  <2>1. /\ Active(p) /\ pc'[p] = "recv" /\ kills' = kills
        /\ \A x \in Procs \ {p} : pc'[x] = pc[x]
    BY <1>2 DEF Accept, Active, Reading, TypeOK
  <2>2. answers'[req'[p]] = <<>>
    BY <2>1 DEF AllKnow, Knows
  <2> QED
    BY <2>1, <2>2, TailFrom
<1>3. CASE Saves(p) \/ Execs(p) \/ ExecFailed(p) \/ fdfs_upload_file(p)
           \/ fdfs_file_info(p)
  <2>1. /\ Active(p) /\ pc[p] \notin {"accept", "exited"} /\ kills' = kills
        /\ \A x \in Procs \ {p} : pc'[x] = pc[x]
        /\ answers' = answers /\ req' = req
    BY <1>3 DEF Saves, Execs, ExecFailed, fdfs_upload_file, fdfs_file_info, Active,
       Reading, TypeOK
  <2> QED
    BY <1>1, <2>1, TailFrom
<1>4. ASSUME NEW code \in {"008", "009"}, Answers(p, code)
      PROVE  TailMoves'
  <2>1. /\ Active(p) /\ pc'[p] = "accept" /\ kills' = kills
        /\ \A x \in Procs \ {p} : pc'[x] = pc[x]
    BY <1>4 DEF Answers, Active, Reading, TypeOK
  <2> QED
    BY <2>1, TailFrom
<1>5. ASSUME NEW c \in Procs, NEW pl \in Labels, NEW cl \in Labels,
             Forks(p, c, pl, cl)
      PROVE  TailMoves'
  <2>1. /\ Active(p) /\ pc[p] \notin {"accept", "exited"} /\ kills' = kills
        /\ pc'[p] \in Reading /\ p # c
        /\ \A x \in Procs \ {p, c} : pc'[x] = pc[x]
        /\ answers' = answers /\ req'[c] = req[p]
    BY <1>5 DEF Forks, Active, Reading, TypeOK
  <2> QED
    BY <1>1, <2>1, TailFrom
<1>6. ASSUME NEW c \in Procs, ChildDone(p, c), ChildOf(c, p),
             \/ pc[p] = "up_read" /\ (Refused(p, c) \/ Named(p, c))
             \/ pc[p] = "url_read" /\ Located(p, c)
      PROVE  TailMoves'
  <2>1. /\ Active(c) /\ pc'[c] = "none" /\ kills' = kills /\ c # p
        /\ \A x \in Procs \ {p, c} : pc'[x] = pc[x]
    BY <1>6 DEF ChildDone, ChildOf, Refused, Named, Located, Active, Reading, TypeOK
  <2>2. CASE Refused(p, c)
    <3>1. pc'[p] = "accept"
      BY <2>1, <2>2 DEF Refused, TypeOK
    <3> QED
      BY <2>1, <3>1, TailFrom
  <2>3. CASE ~Refused(p, c)
    <3>1. out[c] # 0 /\ answers' = answers /\ req' = req
      BY SMT, <1>6, <2>3, ForkAssumption DEF Named, Located, Info
    <3>2. pc[c] = "exited" /\ req[c] = req[p]
      BY <1>6, <3>1 DEF ChildDone, ChildOf, SameRequest
    <3>3. kills = 0 => answers[req[p]] = <<>>
      BY <2>1, <3>1, <3>2 DEF TailMoves
    <3> QED
      BY <2>1, <3>1, <3>3, TailFrom
  <2> QED
    BY <2>2, <2>3
<1>7. ASSUME Dies(p), kills' = kills, NEW c \in Procs, ChildDone(p, c), ChildOf(c, p)
      PROVE  TailMoves'
  <2>1. /\ Active(c) /\ pc'[c] = "none" /\ c # p
        /\ \A x \in Procs \ {p, c} : pc'[x] = pc[x] \/ pc'[x] = "none"
    BY ZenonT(30), <1>7, DieEffect DEF ChildDone, ChildOf, Active, Reading
  <2>2. Active(p)' => pc'[p] = "exited" /\ parent[p] # 0
    BY <1>7, DieEffect DEF Active
  <2>3. parent[p] # 0 => out[p] = 0
    BY SMT, <1>7, DieEffect DEF Chains, ChildOf, TypeOK
  <2>4. out' = out
    BY <1>7 DEF Dies
  <2> QED
    BY <1>7, <2>1, <2>2, <2>3, <2>4, TailFrom
<1>8. CASE kills' > 0
  BY SMT, <1>8 DEF TailMoves
<1> QED
  BY <1>2, <1>3, <1>4, <1>5, <1>6, <1>7, <1>8, StepKinds
-----------------------------------------------------------------------------
(* what the steps do to the rows and to the answers *)
LEMMA RecordEffect ==
    ASSUME TypeOK, TypeOK', Chains, AllKnow, OwnFiles, NEW p \in Procs, Step(p) \/ Kill(p)
    PROVE  /\ info' = info \/ (pc[p] = "store" /\ info' = info \cup {Row(p)})
           /\ stored' = stored \/ fdfs_upload_file(p)
           /\ \A r \in Requests : errs'[r] >= errs[r]
           /\ kills' = 0 => kills = 0
           /\ \/ answers' = answers
              \/ \E code \in {"008", "009"} :
                    /\ Owns(p, req[p]) /\ Answer(p, code)
                    /\ kills' = kills /\ errs' = errs
                    /\ code = "008" => pc[p] = "store" /\ Row(p) \in info'
           /\ \/ Fewer
              \/ Saves(p)
<1>1. ASSUME NEW code \in {"008", "009"}, Answers(p, code)
      PROVE  /\ info' = info \/ (pc[p] = "store" /\ info' = info \cup {Row(p)})
             /\ stored' = stored /\ local' = local /\ kills' = kills /\ errs' = errs
             /\ Owns(p, req[p]) /\ Answer(p, code)
             /\ code = "008" => pc[p] = "store" /\ Row(p) \in info'
  BY <1>1 DEF Answers, Owns
<1>2. ASSUME NEW c \in Procs, pc[p] = "up_read", Refused(p, c)
      PROVE  /\ info' = info /\ stored' = stored /\ local' = local
             /\ kills' = kills /\ errs' = errs
             /\ Owns(p, req[p]) /\ Answer(p, "009")
  BY <1>2 DEF Refused, Owns, dataVars
<1>3. ASSUME \/ Accept(p) \/ Saves(p) \/ Execs(p)
             \/ fdfs_upload_file(p) \/ fdfs_file_info(p)
      PROVE  /\ info' = info /\ kills' = kills /\ errs' = errs
             /\ stored' = stored \/ fdfs_upload_file(p)
             /\ answers' = answers
             /\ local' = local \/ Saves(p)
  BY <1>3 DEF Accept, Saves, Execs, fdfs_upload_file, fdfs_file_info, dataVars
<1>4. ASSUME NEW c \in Procs, NEW pl \in Labels, NEW cl \in Labels,
             Forks(p, c, pl, cl)
      PROVE  /\ info' = info /\ stored' = stored /\ kills' = kills
             /\ errs' = errs /\ answers' = answers /\ local' = local
  BY <1>4 DEF Forks, dataVars
<1>9. pc[p] \in {"up_exec", "url_exec", "up_read", "url_read"} => req[p] # 0
  BY DEF AllKnow, Knows, Serving, Reading
<1>5. ASSUME NEW c \in Procs, pc[p] \in Reading, Named(p, c) \/ Located(p, c)
      PROVE  /\ info' = info /\ stored' = stored /\ kills' = kills
             /\ errs' = errs /\ answers' = answers /\ Fewer
  BY <1>5, <1>9, Unlinked DEF Named, Located, dataVars, Fewer, Reading
<1>6. ASSUME Dies(p)
      PROVE  /\ info' = info /\ stored' = stored /\ (kills' = 0 => kills = 0)
             /\ errs' = errs /\ answers' = answers /\ local' = local
  BY SMT, <1>6, Numbers DEF Dies, dataVars
<1>7. ASSUME ExecFailed(p)
      PROVE  /\ info' = info /\ stored' = stored /\ kills' = kills
             /\ answers' = answers /\ Fewer
             /\ \A r \in Requests : errs'[r] >= errs[r]
  <2>1. /\ errs \in [Requests -> Nat]
        /\ errs' = [errs EXCEPT ![req[p]] = @ + 1]
    BY SMT, <1>7, ForkAssumption DEF ExecFailed, ExecFails, TypeOK
  <2>2. \A r \in Requests : errs'[r] >= errs[r]
    BY SMT, <2>1
  <2>3. Fewer
    BY <1>7, <1>9, Unlinked DEF ExecFailed, Fewer
  <2> QED
    BY <1>7, <2>2, <2>3 DEF ExecFailed
<1>8. errs' = errs => \A r \in Requests : errs'[r] >= errs[r]
  BY SMT, Numbers
<1>10. local' = local => Fewer
  BY DEF Fewer
<1> QED
  BY <1>10, <1>1, <1>2, <1>3, <1>4, <1>5, <1>6, <1>7, <1>8, StepKinds DEF Reading

(* ... and to the files: what was stored stays *)
LEMMA StoredStep ==
    ASSUME TypeOK, TypeOK', Chains, AllKnow, OwnFiles, NEW p \in Procs,
           Step(p) \/ Kill(p)
    PROVE  StoredKept
  BY RecordEffect, ToolKeeps DEF StoredKept

(* every local file keeps the name in the body it was written from *)
LEMMA NamedStep ==
    ASSUME TypeOK, TypeOK', Chains, AllKnow, OwnFiles, NEW p \in Procs,
           Step(p) \/ Kill(p)
    PROVE  \A n \in Names : local'[n] # 0 => Filename[local'[n]] = n
<1>1. \A n \in Names : local[n] # 0 => Filename[local[n]] = n
  BY DEF OwnFiles
<1>2. CASE Fewer
  BY <1>1, <1>2 DEF Fewer
<1>3. CASE Saves(p)
  BY <1>1, <1>3 DEF Saves, TypeOK
<1> QED
  BY <1>2, <1>3, RecordEffect

(***************************************************************************)
(* Without a kill the local file of a request that is about to be uploaded *)
(* is its own: only the process at the end of the chain moves, so no other *)
(* writes or removes a file meanwhile.                                     *)
(***************************************************************************)
LEMMA OwnFilesStep ==
    ASSUME TypeOK, TypeOK', Chains, AllKnow, TailMoves, OwnFiles, NEW p \in Procs,
           Step(p) \/ Kill(p)
    PROVE  OwnFiles'
<1> DEFINE Up == {"up_fork", "up_exec", "up_tool"}
<1>1. \A n \in Names : local'[n] # 0 => Filename[local'[n]] = n
  BY NamedStep
<1>2. SUFFICES ASSUME kills' = 0
               PROVE  /\ \A r \in Requests : stored'[r] \in {0, r}
                      /\ \A x \in Procs : pc'[x] \in Up =>
                            local'[Filename[req'[x]]] = req'[x]
  BY <1>1 DEF OwnFiles
<1>3. kills = 0
  BY <1>2, RecordEffect
<1>4. /\ \A r \in Requests : stored[r] \in {0, r}
      /\ \A x \in Procs : pc[x] \in Up => local[Filename[req[x]]] = req[x]
  BY <1>3 DEF OwnFiles
<1>5. \A r \in Requests : stored'[r] \in {0, r}
  <2>1. CASE fdfs_upload_file(p)
    BY <1>4, <2>1 DEF fdfs_upload_file, TypeOK
  <2> QED
    BY <1>4, <2>1, RecordEffect
<1>6. ASSUME NEW x \in Procs, pc'[x] \in Up
      PROVE  local'[Filename[req'[x]]] = req'[x]
  <2>1. \A y, z \in Procs : Active(y) /\ Active(z) => y = z
    BY <1>3 DEF TailMoves
  <2>2. CASE local' = local /\ pc'[x] = pc[x] /\ req'[x] = req[x]
    BY <1>4, <1>6, <2>2
  <2>3. pc[x] \in Up => Active(x)
    BY DEF Active, Reading
  <2>4. CASE Accept(p)
    BY <1>6, <2>2, <2>4 DEF Accept, TypeOK, dataVars
  <2>5. CASE Saves(p)
    <3>1. Active(p) /\ pc[p] \notin Up /\ (x # p => pc'[x] = pc[x])
      BY <2>5 DEF Saves, Active, Reading, TypeOK
    <3>2. x = p
      BY <1>6, <2>1, <2>3, <3>1
    <3>3. req[p] \in Requests
      <4>1. Knows(p) /\ pc[p] = "recv" /\ req[p] \in Requests \cup {0}
        BY <2>5 DEF Saves, AllKnow, TypeOK
      <4> QED
        BY <4>1 DEF Knows, Serving
    <3> QED
      BY <2>5, <3>2, <3>3, Filenames DEF Saves, TypeOK
  <2>6. ASSUME NEW code \in {"008", "009"}, Answers(p, code)
        PROVE  local'[Filename[req'[x]]] = req'[x]
    <3>1. pc' = [pc EXCEPT ![p] = "accept"] /\ Answer(p, code) /\ local' = local
      BY <2>6 DEF Answers
    <3>2. x # p /\ pc'[x] = pc[x]
      BY <1>6, <3>1 DEF TypeOK
    <3> QED
      BY <2>2, <3>1, <3>2, AnswerEffect
  <2>7. ASSUME NEW c \in Procs, NEW pl \in Labels, NEW cl \in Labels,
               Forks(p, c, pl, cl)
        PROVE  local'[Filename[req'[x]]] = req'[x]
    <3>1. /\ pc'[p] \in Reading /\ c # p /\ local' = local
          /\ x # p /\ x # c => pc'[x] = pc[x] /\ req'[x] = req[x]
          /\ req'[c] = req[p] /\ (pc'[c] \in Up => pc[p] \in Up)
      BY <2>7 DEF Forks, TypeOK, Reading, dataVars
    <3>2. x # p
      BY <1>6, <3>1 DEF Reading
    <3>3. CASE x = c
      BY <1>4, <1>6, <3>1, <3>3
    <3> QED
      BY <2>2, <3>1, <3>2, <3>3
  <2>8. CASE Execs(p)
    <3>1. /\ local' = local /\ req' = req
          /\ pc'[x] = pc[x] \/ (x = p /\ (pc'[p] \in Up => pc[p] \in Up))
      BY <2>8 DEF Execs, TypeOK, dataVars
    <3> QED
      BY <1>4, <1>6, <3>1
  <2>9. CASE ExecFailed(p)
    <3>1. Active(p) /\ pc'[p] \notin Up /\ (x # p => pc'[x] = pc[x])
      BY <2>9 DEF ExecFailed, Active, Reading, TypeOK
    <3> QED
      BY <1>6, <2>1, <2>3, <3>1
  <2>10. CASE fdfs_upload_file(p) \/ fdfs_file_info(p)
    <3>1. /\ local' = local /\ req' = req /\ pc'[p] \notin Up
          /\ x # p => pc'[x] = pc[x]
      BY <2>10 DEF fdfs_upload_file, fdfs_file_info, Ended, TypeOK, dataVars
    <3> QED
      BY <1>6, <2>2, <3>1
  <2>11. ASSUME NEW c \in Procs, ChildDone(p, c), ChildOf(c, p), Refused(p, c)
         PROVE  local'[Filename[req'[x]]] = req'[x]
    <3>1. /\ pc' = [pc EXCEPT ![p] = "accept", ![c] = "none"]
          /\ Answer(p, "009") /\ local' = local
      BY <2>11 DEF Refused, dataVars
    <3>2. x # p /\ pc'[x] = pc[x]
      BY <1>6, <3>1 DEF TypeOK
    <3> QED
      BY <2>2, <3>1, <3>2, AnswerEffect
  <2>12. ASSUME NEW c \in Procs, ChildDone(p, c), ChildOf(c, p), Named(p, c)
         PROVE  local'[Filename[req'[x]]] = req'[x]
    <3>1. /\ Active(c) /\ pc[c] \notin Up /\ pc'[c] \notin Up /\ pc'[p] \notin Up
          /\ x # p /\ x # c => pc'[x] = pc[x]
      BY <2>12 DEF Named, ChildDone, ChildOf, Active, Reading, TypeOK
    <3> QED
      BY <1>6, <2>1, <2>3, <3>1
  <2>13. ASSUME NEW c \in Procs, ChildDone(p, c), ChildOf(c, p), Located(p, c)
         PROVE  local'[Filename[req'[x]]] = req'[x]
    <3>1. /\ local' = local /\ req' = req
          /\ pc' = [pc EXCEPT ![p] = "store", ![c] = "none"]
      BY <2>13 DEF Located, dataVars
    <3>2. pc'[x] = pc[x]
      BY <1>6, <3>1 DEF TypeOK
    <3> QED
      BY <2>2, <3>1, <3>2
  <2>14. CASE Dies(p)
    <3>1. local' = local /\ req' = req
      BY <2>14 DEF Dies, dataVars
    <3>2. pc'[x] = pc[x]
      BY <1>6, <2>14, DieEffect
    <3> QED
      BY <2>2, <3>1, <3>2
  <2> QED
    BY <2>4, <2>5, <2>6, <2>7, <2>8, <2>9, <2>10, <2>11, <2>12, <2>13, <2>14,
       StepKinds
<1> QED
  BY <1>5, <1>6

(* every step keeps recorded ids stored *)
LEMMA RecordedStep ==
    ASSUME TypeOK, TypeOK', Chains, AllKnow, OwnFiles, OwnFiles', RecordedIsStored,
           NEW p \in Procs, Step(p) \/ Kill(p)
    PROVE  RecordedIsStored'
<1> SUFFICES ASSUME NEW x \in info'
             PROVE  /\ x.file_id # 0 =>
                          /\ x.file_id = x.req
                          /\ stored'[x.req] # 0
                          /\ Whole(x.req)' \/ x.req \in short' \/ kills' > 0
                    /\ x.file_id = 0 => errs'[x.req] >= 2
                    /\ ~x.url => errs'[x.req] >= 1
  BY DEF RecordedIsStored
<1>1. x.req \in Requests
  BY DEF TypeOK
<1>2. /\ errs'[x.req] >= errs[x.req] /\ errs[x.req] \in Nat /\ errs'[x.req] \in Nat
      /\ stored[x.req] # 0 => stored'[x.req] # 0
  BY <1>1, RecordEffect, Numbers, NumbersAfter, StoredStep DEF StoredKept
<1>3. ASSUME x \in info
      PROVE  /\ x.file_id # 0 => x.file_id = x.req /\ stored'[x.req] # 0
             /\ x.file_id = 0 => errs'[x.req] >= 2
             /\ ~x.url => errs'[x.req] >= 1
  BY SMT, <1>2, <1>3 DEF RecordedIsStored
<1>4. ASSUME x = Row(p), pc[p] = "store"
      PROVE  /\ x.file_id # 0 => x.file_id = x.req /\ stored'[x.req] # 0
             /\ x.file_id = 0 => errs'[x.req] >= 2
             /\ ~x.url => errs'[x.req] >= 1
  BY SMT, <1>2, <1>4 DEF Row, AllKnow, Knows
<1>5. /\ x.file_id # 0 => x.file_id = x.req /\ stored'[x.req] # 0
      /\ x.file_id = 0 => errs'[x.req] >= 2
      /\ ~x.url => errs'[x.req] >= 1
  <2>1. info' = info \/ (pc[p] = "store" /\ info' = info \cup {Row(p)})
    BY RecordEffect
  <2>2. x \in info \/ (pc[p] = "store" /\ x = Row(p))
    BY SMT, <2>1
  <2> QED
    BY <1>3, <1>4, <2>2
<1>6. kills' = 0 \/ kills' > 0
  BY SMT, NumbersAfter
<1>7. kills' = 0 => stored'[x.req] \in {0, x.req}
  BY <1>1 DEF OwnFiles
<1> QED
  BY <1>5, <1>6, <1>7 DEF Whole

(* every step keeps to one answer, or a second one that is 009 *)
LEMMA AnsweredStep ==
    ASSUME TypeOK, TypeOK', Chains, AllKnow, OneOwner, TailMoves, OwnFiles,
           AnsweredOnce, NEW p \in Procs, Step(p) \/ Kill(p)
    PROVE  AnsweredOnce'
<1> SUFFICES ASSUME NEW r \in Requests
             PROVE  /\ Len(answers'[r]) > 1 => errs'[r] >= 1
                    /\ \A i \in DOMAIN answers'[r] :
                          /\ answers'[r][i] = "008" => Recorded(r)'
                          /\ kills' = 0 /\ i > 1 => answers'[r][i] = "009"
  BY DEF AnsweredOnce
<1>1. /\ errs[r] \in Nat /\ errs'[r] \in Nat /\ errs'[r] >= errs[r]
      /\ kills' = 0 => kills = 0
  BY RecordEffect, Numbers, NumbersAfter
<1>2. Recorded(r) => Recorded(r)'
  BY RecordEffect DEF Recorded
<1>3. answers[r] \in Seq({"008", "009"})
  BY DEF TypeOK
<1>4. CASE answers'[r] = answers[r]
  <2>1. Len(answers[r]) > 1 => errs'[r] >= 1
    BY SMT, <1>1 DEF AnsweredOnce
  <2> QED
    BY <1>1, <1>2, <1>4, <2>1 DEF AnsweredOnce
<1>5. ASSUME NEW code \in {"008", "009"}, r = req[p], Owns(p, req[p]),
             answers'[r] = Append(answers[r], code), kills' = kills, errs' = errs,
             code = "008" => pc[p] = "store" /\ Row(p) \in info'
      PROVE  /\ Len(answers'[r]) > 1 => errs'[r] >= 1
             /\ \A i \in DOMAIN answers'[r] :
                   /\ answers'[r][i] = "008" => Recorded(r)'
                   /\ kills' = 0 /\ i > 1 => answers'[r][i] = "009"
  <2>1. /\ Len(answers[r]) \in Nat
        /\ Len(answers'[r]) = Len(answers[r]) + 1
        /\ DOMAIN answers'[r] = 1 .. Len(answers[r]) + 1
        /\ DOMAIN answers[r] = 1 .. Len(answers[r])
        /\ \A i \in 1 .. Len(answers[r]) : answers'[r][i] = answers[r][i]
        /\ answers'[r][Len(answers[r]) + 1] = code
    BY SMT, <1>3, <1>5
  <2>2. errs[r] = 0 => answers[r] = <<>>
    BY <1>5 DEF OneOwner
  <2>3. Len(answers'[r]) > 1 => errs'[r] >= 1
    BY SMT, <1>1, <1>5, <2>1, <2>2
  <2>4. code = "008" => Recorded(r)' /\ (kills = 0 => answers[r] = <<>>)
    BY <1>5 DEF Recorded, Row, TailMoves, Active, Reading
  <2>5. ASSUME NEW i \in DOMAIN answers'[r]
        PROVE  /\ answers'[r][i] = "008" => Recorded(r)'
               /\ kills' = 0 /\ i > 1 => answers'[r][i] = "009"
    <3>1. CASE i \in 1 .. Len(answers[r])
      BY <1>2, <1>5, <2>1, <3>1 DEF AnsweredOnce
    <3>2. CASE i = Len(answers[r]) + 1
      <4>1. i > 1 => answers[r] # <<>>
        BY SMT, <2>1, <3>2
      <4> QED
        BY <1>5, <2>1, <2>4, <3>2, <4>1
    <3> QED
      BY SMT, <2>1, <3>1, <3>2
  <2> QED
    BY <2>3, <2>5
<1>6. CASE answers' = answers
  BY <1>4, <1>6
<1>7. ASSUME NEW code \in {"008", "009"}, Owns(p, req[p]), Answer(p, code),
             kills' = kills, errs' = errs,
             code = "008" => pc[p] = "store" /\ Row(p) \in info'
      PROVE  /\ Len(answers'[r]) > 1 => errs'[r] >= 1
             /\ \A i \in DOMAIN answers'[r] :
                   /\ answers'[r][i] = "008" => Recorded(r)'
                   /\ kills' = 0 /\ i > 1 => answers'[r][i] = "009"
  <2>1. answers'[r] = IF r = req[p] THEN Append(answers[r], code) ELSE answers[r]
    BY <1>7, AnswerEffect
  <2>2. CASE r = req[p]
    BY <1>5, <1>7, <2>1, <2>2
  <2>3. CASE r # req[p]
    BY <1>4, <2>1, <2>3
  <2> QED
    BY <2>2, <2>3
<1> QED
  BY <1>6, <1>7, RecordEffect

(* every step keeps the local copies of answered requests removed *)
LEMMA CopiesStep ==
    ASSUME TypeOK, TypeOK', Chains, AllKnow, OwnFiles, CopiesRemoved, NEW p \in Procs,
           Step(p) \/ Kill(p)
    PROVE  CopiesRemoved'
<1> SUFFICES ASSUME NEW n \in Names, NEW r, r = local'[n], r # 0,
                    NEW i \in DOMAIN answers'[r]
             PROVE  answers'[r][i] # "008"
  BY DEF CopiesRemoved
<1>1. r \in Requests /\ answers[r] \in Seq({"008", "009"})
  BY DEF TypeOK
<1>2. CASE r # local[n]
  <2>1. Saves(p) /\ r = req[p]
    BY <1>2, RecordEffect DEF Saves, Fewer, TypeOK
  <2>2. answers'[r] = <<>>
    BY <2>1 DEF Saves, AllKnow, Knows
  <2> QED
    BY SMT, <2>2
<1>3. CASE r = local[n] /\ answers'[r] = answers[r]
  BY <1>3 DEF CopiesRemoved
<1>4. CASE r = local[n] /\ answers'[r] # answers[r]
  <2>1. PICK code \in {"008", "009"} : /\ Owns(p, req[p]) /\ Answer(p, code)
                                       /\ code = "008" => pc[p] = "store"
    BY <1>4, RecordEffect
  <2>2. r = req[p] /\ answers'[r] = Append(answers[r], code)
    <3>1. answers'[r] = IF r = req[p] THEN Append(answers[r], code) ELSE answers[r]
      BY <1>1, <2>1, AnswerEffect
    <3> QED
      BY <1>4, <3>1
  <2>3. code # "008"
    BY <1>4, <2>1, <2>2 DEF AllKnow, Knows
  <2>4. /\ DOMAIN answers[r] = 1 .. Len(answers[r]) /\ Len(answers[r]) \in Nat
        /\ DOMAIN answers'[r] = 1 .. Len(answers[r]) + 1
        /\ \A j \in 1 .. Len(answers[r]) : answers'[r][j] = answers[r][j]
        /\ answers'[r][Len(answers[r]) + 1] = code
    BY SMT, <1>1, <2>2
  <2>5. \A j \in 1 .. Len(answers[r]) : answers[r][j] # "008"
    BY <1>4, <2>4 DEF CopiesRemoved
  <2> QED
    BY SMT, <2>3, <2>4, <2>5
<1> QED
  BY <1>2, <1>3, <1>4
-----------------------------------------------------------------------------
Inv == TypeOK /\ ForkInv /\ RecordedIsStored /\ AnsweredOnce /\ CopiesRemoved

(* the invariants hold at the start *)
LEMMA InvInit ==
    ASSUME Init
    PROVE  Inv
<1>1. TypeOK
  <2>1. pc \in [Procs -> Labels]
    BY DEF Init, Labels, Serving
  <2>2. answers \in [Requests -> Seq({"008", "009"})]
    BY SMT DEF Init
  <2>3. /\ requests \in 0 .. MaxRequests /\ kills \in 0 .. MaxKills
        /\ errs \in [Requests -> 0 .. MaxExecErrs]
    BY SMT, ForkAssumption DEF Init
  <2>4. /\ info = {} /\ short = {} /\ crashes = {}
        /\ local \in [Names -> Requests \cup {0}]
        /\ stored \in [Requests -> Requests \cup {0}]
    BY DEF Init
  <2>5. /\ parent \in [Procs -> Procs \cup {0}]
        /\ out \in [Procs -> Requests \cup {0, Info}]
        /\ req \in [Procs -> Requests \cup {0}]
        /\ fileid \in [Procs -> Requests \cup {0}]
        /\ url \in [Procs -> BOOLEAN]
    BY DEF Init
  <2> QED
    BY <2>1, <2>2, <2>3, <2>4, <2>5 DEF TypeOK
<1>2. Chains /\ TailMoves
  <2>1. \A x \in Procs : parent[x] = 0 /\ pc[x] = IF x = 1 THEN "accept" ELSE "none"
    BY DEF Init
  <2>2. 0 \notin Procs
    BY ForkAssumption
  <2> QED
    BY <2>1, <2>2 DEF Chains, TailMoves, Active
<1>3. AllKnow
  BY SMT, ForkAssumption DEF Init, AllKnow, Knows, Serving, Reading, Tools
<1>4. OneOwner
  BY DEF Init, OneOwner, Owns
<1>5. RecordedIsStored /\ CopiesRemoved
  BY DEF Init, RecordedIsStored, CopiesRemoved
<1>6. AnsweredOnce
  BY SMT DEF Init, AnsweredOnce
<1>7. OwnFiles
  BY DEF Init, OwnFiles
<1> QED
  BY <1>1, <1>2, <1>3, <1>4, <1>5, <1>6, <1>7 DEF Inv, ForkInv

(* the service starts again when no process is left *)
LEMMA StartInv ==
    ASSUME Inv, Start
    PROVE  Inv'
<1>1. TypeOK /\ TypeOK'
  BY StartType DEF Inv
<1>2. Chains' /\ AllKnow'
  BY <1>1, StartChains, StartKnows DEF Inv, ForkInv
<1>3. /\ answers' = answers /\ requests' = requests /\ errs' = errs
      /\ kills' = kills /\ info' = info /\ stored' = stored /\ local' = local
      /\ short' = short
      /\ \A x \in Procs : pc'[x] = IF x = 1 THEN "accept" ELSE "none"
  BY <1>1 DEF Start, dataVars, TypeOK
<1>4. OneOwner'
  BY <1>3 DEF Inv, ForkInv, OneOwner, Owns
<1>5. TailMoves'
  BY <1>3 DEF TailMoves, Active
<1>6. RecordedIsStored' /\ CopiesRemoved'
  BY <1>3 DEF Inv, RecordedIsStored, Whole, CopiesRemoved
<1>7. AnsweredOnce'
  BY <1>3 DEF Inv, AnsweredOnce, Recorded
<1>8. OwnFiles'
  BY <1>3 DEF Inv, ForkInv, OwnFiles
<1> QED
  BY <1>1, <1>2, <1>4, <1>5, <1>6, <1>7, <1>8 DEF Inv, ForkInv

(* a step in which nothing changes *)
LEMMA QuietInv ==
    ASSUME Inv, UNCHANGED vars
    PROVE  Inv'
<1>1. TypeOK'
  BY DEF Inv, TypeOK, vars, procVars, dataVars
<1>2. Chains'
  BY SMT DEF Inv, ForkInv, Chains, ChildOf, SameRequest, vars, procVars, dataVars
<1>3. AllKnow'
  BY DEF Inv, ForkInv, AllKnow, Knows, vars, procVars, dataVars
<1>4. OneOwner' /\ TailMoves'
  BY SMT DEF Inv, ForkInv, OneOwner, Owns, TailMoves, Active, vars, procVars, dataVars
<1>5. RecordedIsStored' /\ CopiesRemoved' /\ AnsweredOnce'
  BY DEF Inv, RecordedIsStored, Whole, CopiesRemoved, AnsweredOnce, Recorded, vars,
     procVars, dataVars
<1>6. OwnFiles'
  BY DEF Inv, ForkInv, OwnFiles, vars, procVars, dataVars
<1> QED
  BY <1>1, <1>2, <1>3, <1>4, <1>5, <1>6 DEF Inv, ForkInv

(* every step keeps the invariants *)
LEMMA InvStep ==
    ASSUME Inv, [Next]_vars
    PROVE  Inv'
<1>1. ASSUME NEW p \in Procs, Step(p) \/ Kill(p)
      PROVE  Inv'
  <2>1. /\ TypeOK /\ Chains /\ AllKnow /\ OneOwner /\ TailMoves
        /\ OwnFiles /\ RecordedIsStored /\ AnsweredOnce /\ CopiesRemoved
    BY DEF Inv, ForkInv
  <2>2. TypeOK'
    BY <1>1, <2>1, TypeStep
  <2>3. Chains' /\ AllKnow' /\ OneOwner'
    BY <1>1, <2>1, <2>2, ChainsStep, KnowsStep, OwnerStep
  <2>4. TailMoves' /\ OwnFiles'
    BY <1>1, <2>1, <2>2, <2>3, TailStep, OwnFilesStep
  <2>5. RecordedIsStored' /\ AnsweredOnce' /\ CopiesRemoved'
    BY <1>1, <2>1, <2>2, <2>4, RecordedStep, AnsweredStep, CopiesStep
  <2> QED
    BY <2>2, <2>3, <2>4, <2>5 DEF Inv, ForkInv
<1>2. CASE Start
  BY <1>2, StartInv
<1>3. CASE Done \/ UNCHANGED vars
  BY <1>3, QuietInv DEF Done
<1> QED
  BY <1>1, <1>2, <1>3 DEF Next

(* the invariants hold always *)
LEMMA Invariant ==
    Spec => []Inv
<1>1. Init => Inv
  BY InvInit
<1>2. Inv /\ [Next]_vars => Inv'
  BY InvStep
<1> QED
  BY <1>1, <1>2, PTL DEF Spec

(***************************************************************************)
(* Every variable of the forked processes keeps its type, with any number  *)
(* of slots, requests, failing execlp calls and kills.                     *)
(***************************************************************************)
THEOREM ForkTypeCorrect == Spec => []TypeOK
<1>1. Inv => TypeOK
  BY DEF Inv
<1> QED
  BY <1>1, Invariant, PTL

(***************************************************************************)
(* The processes form chains, each waiting for one child that works on the *)
(* same request or has become a copy of the service.                       *)
(***************************************************************************)
THEOREM ChainsKept == Spec => []ForkInv
<1>1. Inv => ForkInv
  BY DEF Inv
<1> QED
  BY <1>1, Invariant, PTL

(***************************************************************************)
(* Although a child whose execlp fails goes on as a second copy of the     *)
(* service, two processes run the service's code at once only after one    *)
(* was killed.                                                             *)
(***************************************************************************)
THEOREM OneProcessRuns == Spec => []OneRuns
<1>1. Inv => OneRuns
  BY DEF Inv, ForkInv, TailMoves, OneRuns, Runs, Active, Serving, Reading
<1> QED
  BY <1>1, Invariant, PTL

(***************************************************************************)
(* store_fileinfo_to_mysql records the id of a file that is in FastDFS and *)
(* holds the whole body of the same request, unless that was not written   *)
(* whole or a process was killed; an empty id or url took failing execlp   *)
(* calls of that very request.  It rests on OwnFiles, which rests on       *)
(* TailMoves.                                                              *)
(***************************************************************************)
THEOREM RecordedStored == Spec => []RecordedIsStored
<1>1. Inv => RecordedIsStored
  BY DEF Inv
<1> QED
  BY <1>1, Invariant, PTL

(***************************************************************************)
(* A request is answered twice only where an execlp failed for it, 008 is  *)
(* answered with the row recorded, and unless a process was killed no      *)
(* second answer says 008.                                                 *)
(***************************************************************************)
THEOREM AnswersOnce == Spec => []AnsweredOnce
<1>1. Inv => AnsweredOnce
  BY DEF Inv
<1> QED
  BY <1>1, Invariant, PTL

(***************************************************************************)
(* The local copy of a file whose upload succeeded is unlinked, whichever  *)
(* process did it.                                                         *)
(***************************************************************************)
THEOREM CopiesUnlinked == Spec => []CopiesRemoved
<1>1. Inv => CopiesRemoved
  BY DEF Inv
<1> QED
  BY <1>1, Invariant, PTL
=============================================================================
