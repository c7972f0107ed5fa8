---------------------------- MODULE MCUploadFork ----------------------------
(***************************************************************************)
(* The upload service for TLC: the second and the third request send files *)
(* of one name, and where a body is not written whole no process is killed *)
(* and one execlp fails at most.                                           *)
(***************************************************************************)
EXTENDS UploadFork

CONSTANTS n1, n2

MCFilename == <<n1, n2, n2>>

Failed == {r \in Requests : errs[r] > 0}

Within ==
    short # {} => kills = 0 /\ Cardinality(Failed) <= 1 /\ \A r \in Failed : errs[r] = 1

MCNext == Next /\ Within'

(* no fair step is lost: every execlp and every write may also succeed *)
MCSpec == Init /\ [][MCNext]_vars /\ \A p \in Procs : WF_vars(Step(p))
=============================================================================
