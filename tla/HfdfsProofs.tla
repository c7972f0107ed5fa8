--------------------------- MODULE HfdfsProofs ---------------------------
(*************************************************************************)
(* The theorems about the services, from what the other modules prove of *)
(* single steps.                                                         *)
(*************************************************************************)
EXTENDS StorageProofs, ServiceProofs, BooksProofs

(* a leaf is left to Zenon unless it cites another prover *)
USE Zenon

(***************************************************************************)
(* For any users and bounds, and with any kill or failing statement, the   *)
(* row of a user in user_file_count holds at least 1.                      *)
(***************************************************************************)
THEOREM UserCountsPositive == Spec => []UserCountPositive
<1>1. Init => CountInv
  BY SMT DEF Init, StateInit, CountInv, UserCountPositive, ReadPositive, At, Cgis,
     CountKeys, D, S
<1>2. TypeOK /\ CountInv /\ [Next]_vars => CountInv'
  BY CountStep
<1>3. CountInv => UserCountPositive
  BY DEF CountInv
<1>4. Spec => []TypeOK
  BY TypeCorrect
<1> QED
  BY <1>1, <1>2, <1>3, <1>4, PTL DEF Spec

(***************************************************************************)
(* For any users and digests, while no statement fails and no process is   *)
(* killed: a reference count is never negative, and 0 only in the row that *)
(* del_file is about to delete.                                            *)
(***************************************************************************)
THEOREM RefCountsPositive == Spec => []ZeroCountOnlyWhileDeleting
<1>1. Init => RefCountInv
  BY SMT DEF Init, StateInit, RefCountInv, ZeroCountOnlyWhileDeleting, At, Cgis, D, S
<1>2. TypeOK /\ RefCountInv /\ [Next]_vars => RefCountInv'
  BY RefCountStep
<1>3. RefCountInv => ZeroCountOnlyWhileDeleting
  BY DEF RefCountInv
<1>4. Spec => []TypeOK
  BY TypeCorrect
<1> QED
  BY <1>1, <1>2, <1>3, <1>4, PTL DEF Spec
(***************************************************************************)
(* For any users, files and interleaving: share_file never lists a file    *)
(* twice while no statement fails, whatever Redis answers or forgets and   *)
(* whoever is killed.                                                      *)
(***************************************************************************)
THEOREM SharesUnique == Spec => []ShareUnique
<1>1. TypeOK /\ TypeOK' /\ UniqueInv /\ PvInv /\ [Next]_vars
         => UniqueInv' /\ PvInv'
  BY ShareStep DEF Kept
<1>2. UniqueInv => ShareUnique
  BY DEF UniqueInv
<1>3. Spec => []TypeOK
  BY TypeCorrect
<1> QED
  BY <1>1, <1>2, <1>3, ShareInit, PTL DEF Spec

(***************************************************************************)
(* For any users, files and interleaving: the download counter that        *)
(* pv_file reads in one statement and writes in another never goes down,   *)
(* even where a failing lookup has listed the file twice.                  *)
(***************************************************************************)
THEOREM SharePvGrows == Spec => SharePvNeverDecreases
<1>1. TypeOK /\ TypeOK' /\ UniqueInv /\ PvInv /\ [Next]_vars
         => UniqueInv' /\ PvInv' /\ [PvUp]_vars
  BY ShareStep DEF Kept
<1>2. Spec => []TypeOK
  BY TypeCorrect
<1>3. Spec => [][PvUp]_vars
  BY <1>1, <1>2, ShareInit, PTL DEF Spec
<1> QED
  BY <1>3 DEF SharePvNeverDecreases, PvUp

(* What a serial behaviour keeps. *)
LEMMA SerialInvariant == SerialSpec => [](TypeOK /\ StorageInv /\ BooksInv)
<1>1. [SerialNext]_vars => [Next]_vars
  BY DEF SerialNext, OneAtATimeNext
<1>2. TypeOK /\ StorageInv /\ BooksInv /\ [SerialNext]_vars
         => (TypeOK /\ StorageInv /\ BooksInv)'
  BY ZenonT(30), <1>1, NextInv, BooksStep
<1> QED
  BY <1>2, InitInv, BooksInit, PTL DEF SerialSpec

(***************************************************************************)
(* For any users, digests, requests and bounds: requests that come one at  *)
(* a time, as the pages offer them, and meet no fault leave the books as   *)
(* BooksInv says after every statement of every handler.                   *)
(***************************************************************************)
THEOREM BooksBalance == SerialSpec => []BooksInv
<1> QED
  BY SerialInvariant, PTL

(***************************************************************************)
(* For any users, digests, requests and bounds: between requests that come *)
(* one at a time and meet no fault, the count in file_info is the number   *)
(* of users' rows with the digest.                                         *)
(***************************************************************************)
THEOREM RefCountsExact == SerialSpec => []RefCountExact
<1>1. TypeOK /\ StorageInv /\ BooksInv => RefCountExact
  <2> SUFFICES ASSUME TypeOK, BooksInv, NoFault, AllIdle, NEW m \in Md5s
               PROVE  IF file_info[m] = NoRow THEN Holders(m) = {}
                      ELSE file_info[m].count = Cardinality(Holders(m))
    BY DEF RefCountExact, Holders
  <2>1. IsFiniteSet(Holders(m)) /\ InfoCount(m) = Cardinality(Holders(m)) + RefDue(m)
    BY FS_Subset DEF BooksInv, Books, Holders
  <2>2. Cardinality(Holders(m)) \in Nat /\ RefDue(m) = 0
    BY ZenonT(30), <2>1, FS_CardinalityType, NothingDue
  <2>3. InfoCount(m) = Cardinality(Holders(m))
    BY SMT, <2>1, <2>2
  <2>4. Cardinality(Holders(m)) = 0 => Holders(m) = {}
    BY ZenonT(30), <2>1, FS_EmptySet
  <2> QED
    BY <2>3, <2>4 DEF InfoCount
<1> QED
  BY <1>1, SerialInvariant, PTL

(***************************************************************************)
(* For any users, digests, requests and bounds: between such requests a    *)
(* user's counter is the number of files in that user's list.              *)
(***************************************************************************)
THEOREM UserCountsExact == SerialSpec => []UserCountExact
<1>1. TypeOK /\ StorageInv /\ BooksInv => UserCountExact
  <2> SUFFICES ASSUME TypeOK, BooksInv, NoFault, AllIdle, NEW u \in Users
               PROVE  IF user_file_count[u] = NoRow THEN ListOf(u) = {}
                      ELSE user_file_count[u] = Cardinality(ListOf(u))
    BY DEF UserCountExact, ListOf
  <2>1. IsFiniteSet(ListOf(u)) /\ UserCount(u) + UserDue(u) = Cardinality(ListOf(u))
    BY FS_Subset DEF BooksInv, Books, ListOf
  <2>2. UserCount(u) \in Int /\ UserDue(u) = 0
    BY SMT, NothingDue, NullAssumption DEF UserCount, TypeOK, DataOK, CountKeys
  <2>3. UserCount(u) = Cardinality(ListOf(u))
    BY SMT, <2>1, <2>2
  <2>4. Cardinality(ListOf(u)) = 0 => ListOf(u) = {}
    BY ZenonT(30), <2>1, FS_EmptySet
  <2> QED
    BY <2>3, <2>4 DEF UserCount
<1> QED
  BY <1>1, SerialInvariant, PTL

(***************************************************************************)
(* For any users, digests, requests and bounds: when del_file of such a    *)
(* request finds the count at 0, no user has the digest any more.          *)
(***************************************************************************)
THEOREM DroppedUnreferenced == SerialSpec => []UnreferencedWhenDropped
<1>1. TypeOK /\ StorageInv /\ BooksInv => UnreferencedWhenDropped
  <2> SUFFICES ASSUME TypeOK, BooksInv, NoFault, At(D, "de_fid")
               PROVE  Holders(req[D].md5) = {}
    BY DEF UnreferencedWhenDropped, Holders
  <2>1. PICK k \in Md5s : k = req[D].md5
    BY ZenonT(30), ServiceLabels, RequestType DEF TypeOK, At
  <2>2. Knows(D) /\ Books
    BY ServiceLabels DEF BooksInv
  <2>3. InfoCount(k) = 0
    BY ZenonT(30), <2>1, <2>2 DEF Knows, At
  <2>4. IsFiniteSet(Holders(k)) /\ InfoCount(k) = Cardinality(Holders(k)) + RefDue(k)
    BY ZenonT(30), <2>2, FS_Subset DEF Books, Holders
  <2>5. Cardinality(Holders(k)) \in Nat /\ RefDue(k) \in {0, 1}
    BY ZenonT(30), <2>4, FS_CardinalityType DEF RefDue
  <2>6. Cardinality(Holders(k)) = 0
    BY SMT, <2>3, <2>4, <2>5
  <2> QED
    BY <2>1, <2>4, <2>6, FS_EmptySet
<1> QED
  BY <1>1, SerialInvariant, PTL

(***************************************************************************)
(* For any users, digests, requests and bounds: between such requests      *)
(* FastDFS has no file that file_info does not name.                       *)
(***************************************************************************)
THEOREM NothingOrphaned == SerialSpec => []NoOrphans
<1>1. TypeOK /\ StorageInv /\ BooksInv => NoOrphans
  BY ServiceLabels DEF BooksInv, Stored, NoOrphans, AllIdle, At
<1> QED
  BY <1>1, SerialInvariant, PTL

(* What a serial behaviour keeps of MySQL, FastDFS and Redis. *)
SerialInv ==
    TypeOK /\ StorageInv /\ BooksInv /\ UniqueInv /\ PvInv /\ RedisInv

(* all invariants of serial requests together *)
LEMMA SerialInvariants == SerialSpec => []SerialInv
<1>1. [SerialNext]_vars => [Next]_vars
  BY DEF SerialNext, OneAtATimeNext
<1>2. SerialInv /\ [SerialNext]_vars => SerialInv'
  <2> SUFFICES ASSUME SerialInv, [SerialNext]_vars PROVE SerialInv'
    OBVIOUS
  <2>1. TypeOK' /\ StorageInv'
    BY <1>1, NextInv DEF SerialInv
  <2>2. BooksInv'
    BY <2>1, BooksStep DEF SerialInv
  <2>3. UniqueInv' /\ PvInv'
    BY ZenonT(30), <1>1, <2>1, ShareStep DEF SerialInv, Kept
  <2>4. RedisInv'
    BY <2>1, RedisStep DEF SerialInv, BooksInv
  <2> QED
    BY <2>1, <2>2, <2>3, <2>4 DEF SerialInv
<1>3. Init => SerialInv
  BY InitInv, BooksInit, ShareInit, RedisInit DEF SerialInv
<1> QED
  BY <1>2, <1>3, PTL DEF SerialSpec

(***************************************************************************)
(* For any users, files, requests and bounds: what Redis holds of the      *)
(* shares is, after every statement of requests that come one at a time,   *)
(* what RedisInv says.                                                     *)
(***************************************************************************)
THEOREM RedisFollows == SerialSpec => []RedisInv
<1>1. SerialInv => RedisInv
  BY DEF SerialInv
<1> QED
  BY <1>1, SerialInvariants, PTL

(***************************************************************************)
(* For any users, files, requests and bounds: between requests that come   *)
(* one at a time and meet no fault, Redis shows no more downloads of a     *)
(* share than MySQL has counted, although Redis restarts empty, share_file *)
(* puts lost members back at 0 and the ranking refills.                    *)
(***************************************************************************)
THEOREM ScoresBounded == SerialSpec => []ScoreAtMostDownloads
<1>1. SerialInv => ScoreAtMostDownloads
  <2> SUFFICES ASSUME SerialInv, NoFault, AllIdle, NEW x \in share_file_list,
                      FileId(x) \in Members
               PROVE  zset[FileId(x)] <= x.pv
    BY DEF ScoreAtMostDownloads
  <2>1. pc[D] = "idle"
    BY ServiceLabels DEF AllIdle, At
  <2> QED
    BY <2>1 DEF SerialInv, RedisInv, Scores, NotScored
<1> QED
  BY <1>1, SerialInvariants, PTL

(***************************************************************************)
(* For any users, files, requests and bounds: when no statement fails, a   *)
(* refill of requests that come one at a time leaves in the sorted set     *)
(* exactly the shares at their download counters, and their names in the   *)
(* hash, even if processes are killed and Redis has restarted before.      *)
(***************************************************************************)
THEOREM RefillExact ==
    SerialSpec /\ [](sqlErrs = 0) => RefillMirrorsShares
<1> DEFINE Mirror == At(R, "rk_hset") /\ pc'[R] = "rk_range" =>
              /\ Members' = {FileId(x) : x \in share_file_list}
              /\ hash' = Members'
              /\ \A x \in share_file_list : zset'[FileId(x)] = x.pv
<1>1. SerialInv /\ SerialInv' /\ sqlErrs = 0 /\ (sqlErrs = 0)' /\ [SerialNext]_vars
         => [Mirror]_vars
  <2> SUFFICES ASSUME SerialInv, SerialInv', sqlErrs = 0, sqlErrs' = 0,
                      [SerialNext]_vars, pc[R] = "rk_hset",
                      pc'[R] = "rk_range"
               PROVE  /\ Members' = {FileId(x) : x \in share_file_list}
                      /\ hash' = Members'
                      /\ \A x \in share_file_list : zset'[FileId(x)] = x.pv
    BY DEF At
  <2>0. /\ TypeOK /\ TypeOK' /\ Alone /\ Refilled /\ ProcOK
        /\ R \in Cgis /\ sqlErrs' = sqlErrs
    BY ServiceLabels DEF SerialInv, BooksInv, RedisInv, TypeOK
  <2>1. ShareFilesNext
    <3>1. ASSUME NEW p \in Cgis, Statement(p) PROVE ShareFilesNext
      BY <2>0, <3>1 DEF Statement, Solo, ServiceStep, ShareFilesStep, D, S, R
    <3>2. ~(\E p \in Cgis : Kill(p))
      BY <2>0 DEF Kill, Finish, ProcOK
    <3>3. ~RedisLoss /\ ~Nothing
      BY DEF RedisLoss, Nothing, procVars
    <3> QED
      BY <2>0, <3>1, <3>2, <3>3, SerialSteps
  <2>2. RankHset
    BY <2>0, <2>1 DEF ShareFilesNext, RankAccept, RankSelectCount, RankZcard,
      RankDelZset, RankDelHash, RankSelectRows, RankZadd, rop_zset_zrevrange,
      RankHget, RankScore, RankError, SqlErrs, Accept, At
  <2>3. PICK f \in Members : page = {<<0, f>>} /\ hash \cup {f} = Members
    BY <2>0 DEF Refilled
  <2>4. hash' = Members /\ UNCHANGED zset
    BY SMT, <2>2, <2>3 DEF RankHset, rop_hash_set
  <2>5. todo = {}
    BY ZenonT(30), <2>0, <2>2 DEF RankHset, Goto, ProcOK
  <2>6. Done = share_file_list /\ Members' = Members
    BY ZenonT(30), <2>4, <2>5 DEF Done, Members
  <2> QED
    BY <2>0, <2>4, <2>6 DEF Refilled
<1> QED
  BY <1>1, SerialInvariants, PTL DEF SerialSpec, RefillMirrorsShares
-----------------------------------------------------------------------------
(***************************************************************************)
(* The answers.                                                            *)
(***************************************************************************)

(***************************************************************************)
(* For any users, files, requests and bounds: to requests that come one at *)
(* a time and meet no fault, an answer that reports success is true of     *)
(* MySQL when it is given.                                                 *)
(***************************************************************************)
THEOREM AnswersTrue == SerialSpec /\ []NoFault => AnswersAreTrue
<1>1. SerialInv /\ SerialInv' /\ NoFault /\ NoFault' /\ [SerialNext]_vars
         => [\A p \in Cgis : Working(p) /\ pc'[p] = "idle" =>
                Told(req[p], reply'[p])]_vars
  <2> SUFFICES ASSUME SerialInv, SerialInv', NoFault, NoFault',
                      [SerialNext]_vars, NEW p \in Cgis, pc[p] # "idle",
                      pc'[p] = "idle"
               PROVE  Told(req[p], reply'[p])
    BY DEF Working, At
  <2>0. /\ TypeOK /\ TypeOK' /\ Alone /\ ProcOK /\ Balanced /\ Counted
        /\ KnowsShares /\ sqlErrs' = sqlErrs /\ kills' = kills
    BY BooksCounted DEF SerialInv, BooksInv, Balanced, RedisInv, TypeOK, NoFault
  <2>1. \A q \in Cgis : ~Kill(q)
    <3>1. kills' # kills + 1
      BY SMT DEF NoFault
    <3> QED
      BY <3>1 DEF Kill
  <2>2. ~RedisLoss /\ ~Nothing
    BY DEF RedisLoss, Nothing, procVars
  <2>3. PICK q \in Cgis : Statement(q)
    BY <2>0, <2>1, <2>2, SerialSteps
  <2>4. q = p
    BY <2>3 DEF Statement, Solo
  <2>5. ServiceStep(p)
    BY <2>3, <2>4 DEF Statement
  <2>6. CASE p \in {"upload", "md5"}
    BY <2>0, <2>5, <2>6, AddTold DEF ServiceStep, UploadStep, Md5Step, D, S, R
  <2>7. CASE p \notin {"upload", "md5"}
    BY <2>0, <2>5, <2>7, DealFileTold, DealShareTold, ShareFilesTold
       DEF ServiceStep, DealFileStep, DealShareStep, ShareFilesStep
  <2> QED
    BY <2>6, <2>7
<1> QED
  BY <1>1, SerialInvariants, PTL DEF SerialSpec, AnswersAreTrue

(***************************************************************************)
(* For any users, files, requests and bounds: requests that come one at a  *)
(* time and meet no fault implement FileLibrary.  A digest is held as long *)
(* as a user has it, a user adds a file once, and shares only a file of    *)
(* their own that nobody shares.                                           *)
(***************************************************************************)
THEOREM LibraryImplemented == SerialSpec /\ []NoFault => ImplementsFileLibrary
<1>1. Init => FL!Init
  BY SMT DEF Init, StateInit, FL!Init, Triples
<1>2. SerialInv /\ NoFault /\ NoFault' /\ [SerialNext]_vars
         => [FL!Next]_(FL!vars)
  <2> SUFFICES ASSUME SerialInv, NoFault, NoFault', [SerialNext]_vars
               PROVE  [FL!Next]_(FL!vars)
    OBVIOUS
  <2>0. /\ TypeOK /\ Balanced /\ Counted /\ UniqueInv
        /\ sqlErrs = 0 /\ sqlErrs' = sqlErrs
    BY BooksCounted DEF SerialInv, BooksInv, Balanced, NoFault
  <2>1. ASSUME NEW p \in Cgis, ServiceStep(p)
        PROVE  [FL!Next]_(FL!vars)
    BY <2>0, <2>1, UploadLibrary, Md5Library, DealFileLibrary,
       DealShareLibrary, ShareFilesLibrary
       DEF ServiceStep, UploadStep, Md5Step, DealFileStep, DealShareStep,
           ShareFilesStep
  <2>2. ASSUME (\E p \in Cgis : Kill(p)) \/ RedisLoss \/ UNCHANGED vars
        PROVE  UNCHANGED FL!vars
    <3>1. UNCHANGED <<file_info, user_file_list, share_file_list>>
      BY <2>2 DEF Kill, RedisLoss, vars, stateVars, sqlVars
    <3> QED
      BY <3>1, LibraryStutter DEF SameHeld, Held, SameTriples
  <2> QED
    BY <2>0, <2>1, <2>2, SerialCases
<1> QED
  BY <1>1, <1>2, SerialInvariants, PTL
     DEF SerialSpec, ImplementsFileLibrary, FL!Spec
===========================================================================
