--------------------------- MODULE BooksProofs ---------------------------
(*************************************************************************)
(* The books balance: when requests come one at a time and nothing fails, *)
(* the counters of file_info and user_file_count are the numbers of rows *)
(* they count, content is dropped only when nobody has it, and none is left *)
(* behind.                                                               *)
(*************************************************************************)
EXTENDS StepFacts, FiniteSetTheorems

(* a leaf is left to Zenon unless it cites another prover *)
USE Zenon

(* What the rows of user_file_list are, before and after a step. *)
OneEach ==
    \A x, y \in user_file_list :
       x.user = y.user /\ x.md5 = y.md5 /\ x.filename = y.filename => x = y

(* An INSERT of a file the user does not have adds one row. *)
LEMMA InsertedRow ==
    ASSUME TypeOK, IsFiniteSet(user_file_list), OneEach, NEW r \in Requests,
           OwnRows(r) = {}, InsertUserRow(r)
    PROVE  /\ IsFiniteSet(user_file_list') /\ OneEach'
           /\ \A m \in Md5s : Cardinality(Holders(m)') =
                 Cardinality(Holders(m)) + IF r.md5 = m THEN 1 ELSE 0
           /\ \A u \in Users : Cardinality(ListOf(u)') =
                 Cardinality(ListOf(u)) + IF r.user = u THEN 1 ELSE 0
           /\ OwnRows(r)' # {}
<1> DEFINE z == [rid |-> nextRow, user |-> r.user, md5 |-> r.md5,
                 filename |-> r.filename, shared_status |-> 0, pv |-> 0]
<1>1. user_file_list' = user_file_list \cup {z}
  BY DEF InsertUserRow
<1>2. z.user = r.user /\ z.md5 = r.md5 /\ z.filename = r.filename
  OBVIOUS
<1> HIDE DEF z
<1>3. \A x \in user_file_list :
         ~(x.user = z.user /\ x.md5 = z.md5 /\ x.filename = z.filename)
  BY <1>2 DEF OwnRows
<1>4. z \notin user_file_list
  BY <1>3
<1>5. IsFiniteSet(user_file_list') /\ OneEach'
  BY ZenonT(30), <1>1, <1>3, FS_AddElement DEF OneEach
<1>6. ASSUME NEW m \in Md5s
      PROVE  Cardinality(Holders(m)') =
                Cardinality(Holders(m)) + IF r.md5 = m THEN 1 ELSE 0
  <2>1. IsFiniteSet(Holders(m)) /\ z \notin Holders(m)
    BY <1>4, FS_Subset DEF Holders
  <2>2. Cardinality(Holders(m)) \in Nat
    BY <2>1, FS_CardinalityType
  <2>3. Holders(m)' = IF r.md5 = m THEN Holders(m) \cup {z} ELSE Holders(m)
    BY <1>1, <1>2 DEF Holders
  <2>4. Cardinality(Holders(m) \cup {z}) = Cardinality(Holders(m)) + 1
    BY <2>1, FS_AddElement
  <2> QED
    BY SMT, <2>2, <2>3, <2>4
<1>7. ASSUME NEW u \in Users
      PROVE  Cardinality(ListOf(u)') =
                Cardinality(ListOf(u)) + IF r.user = u THEN 1 ELSE 0
  <2>1. IsFiniteSet(ListOf(u)) /\ z \notin ListOf(u)
    BY <1>4, FS_Subset DEF ListOf
  <2>2. Cardinality(ListOf(u)) \in Nat
    BY <2>1, FS_CardinalityType
  <2>3. ListOf(u)' = IF r.user = u THEN ListOf(u) \cup {z} ELSE ListOf(u)
    BY <1>1, <1>2 DEF ListOf
  <2>4. Cardinality(ListOf(u) \cup {z}) = Cardinality(ListOf(u)) + 1
    BY <2>1, FS_AddElement
  <2> QED
    BY SMT, <2>2, <2>3, <2>4
<1>8. OwnRows(r)' # {}
  BY <1>1, <1>2 DEF OwnRows
<1> QED
  BY <1>5, <1>6, <1>7, <1>8

(* A DELETE of a file the user has removes one row. *)
LEMMA DeletedRow ==
    ASSUME TypeOK, IsFiniteSet(user_file_list), OneEach, NEW r \in Requests,
           OwnRows(r) # {}, user_file_list' = user_file_list \ OwnRows(r)
    PROVE  /\ IsFiniteSet(user_file_list') /\ OneEach'
           /\ \A m \in Md5s : Cardinality(Holders(m)) =
                 Cardinality(Holders(m)') + IF r.md5 = m THEN 1 ELSE 0
           /\ \A u \in Users : Cardinality(ListOf(u)) =
                 Cardinality(ListOf(u)') + IF r.user = u THEN 1 ELSE 0
           /\ OwnRows(r)' = {}
<1>1. PICK z \in user_file_list :
         z.user = r.user /\ z.md5 = r.md5 /\ z.filename = r.filename
  BY DEF OwnRows
<1>2. OwnRows(r) = {z}
  BY <1>1 DEF OwnRows, OneEach
<1>3. user_file_list' = user_file_list \ {z}
  BY <1>2
<1>4. IsFiniteSet(user_file_list') /\ OneEach'
  BY <1>3, FS_RemoveElement DEF OneEach
<1>5. ASSUME NEW m \in Md5s
      PROVE  Cardinality(Holders(m)) =
                Cardinality(Holders(m)') + IF r.md5 = m THEN 1 ELSE 0
  <2>1. IsFiniteSet(Holders(m))
    BY FS_Subset DEF Holders
  <2>2. Cardinality(Holders(m)) \in Nat
    BY <2>1, FS_CardinalityType
  <2>3. Holders(m)' = Holders(m) \ {z} /\ (z \in Holders(m) <=> r.md5 = m)
    BY <1>1, <1>3 DEF Holders
  <2>4. Cardinality(Holders(m) \ {z}) =
           IF z \in Holders(m) THEN Cardinality(Holders(m)) - 1 ELSE Cardinality(Holders(m))
    BY <2>1, FS_RemoveElement
  <2> QED
    BY SMT, <2>2, <2>3, <2>4
<1>6. ASSUME NEW u \in Users
      PROVE  Cardinality(ListOf(u)) =
                Cardinality(ListOf(u)') + IF r.user = u THEN 1 ELSE 0
  <2>1. IsFiniteSet(ListOf(u))
    BY FS_Subset DEF ListOf
  <2>2. Cardinality(ListOf(u)) \in Nat
    BY <2>1, FS_CardinalityType
  <2>3. ListOf(u)' = ListOf(u) \ {z} /\ (z \in ListOf(u) <=> r.user = u)
    BY <1>1, <1>3 DEF ListOf
  <2>4. Cardinality(ListOf(u) \ {z}) =
           IF z \in ListOf(u) THEN Cardinality(ListOf(u)) - 1 ELSE Cardinality(ListOf(u))
    BY <2>1, FS_RemoveElement
  <2> QED
    BY SMT, <2>2, <2>3, <2>4
<1>7. OwnRows(r)' = {}
  BY DEF OwnRows
<1> QED
  BY <1>4, <1>5, <1>6, <1>7

(***************************************************************************)
(* An UPDATE that leaves user, md5 and filename of every row alone keeps   *)
(* the rows apart and their numbers.                                       *)
(***************************************************************************)
LEMMA UpdatedRows ==
    ASSUME IsFiniteSet(user_file_list), OneEach,
           NEW f, f \in [user_file_list -> UserRow],
           \A x \in user_file_list : /\ f[x].user = x.user
                                     /\ f[x].md5 = x.md5
                                     /\ f[x].filename = x.filename,
           user_file_list' = {f[x] : x \in user_file_list}
    PROVE  /\ IsFiniteSet(user_file_list') /\ OneEach'
           /\ \A m \in Md5s : Cardinality(Holders(m)') = Cardinality(Holders(m))
           /\ \A u \in Users : Cardinality(ListOf(u)') = Cardinality(ListOf(u))
           /\ \A r : OwnRows(r) # {} => OwnRows(r)' # {}
<1>1. ASSUME NEW T \in SUBSET user_file_list
      PROVE  /\ IsFiniteSet({f[x] : x \in T})
             /\ Cardinality({f[x] : x \in T}) = Cardinality(T)
  <2> DEFINE U == {f[x] : x \in T}
             g == [x \in T |-> f[x]]
  <2>1. g \in [T -> U] /\ \A y \in U : \E x \in T : g[x] = y
    OBVIOUS
  <2>2. \A x, y \in T : g[x] = g[y] => x = y
    BY SMT DEF OneEach
  <2>3. g \in Bijection(T, U)
    BY <2>1, <2>2 DEF Bijection, Injection, Surjection, IsInjective
  <2>4. IsFiniteSet(T)
    BY FS_Subset
  <2> QED
    BY <2>3, <2>4, FS_Bijection DEF ExistsBijection
<1>2. IsFiniteSet(user_file_list')
  BY <1>1
<1>3. OneEach'
  BY SMT DEF OneEach
<1>4. ASSUME NEW m \in Md5s
      PROVE  Cardinality(Holders(m)') = Cardinality(Holders(m))
  <2>1. Holders(m)' = {f[x] : x \in Holders(m)} /\ Holders(m) \subseteq user_file_list
    BY SMT DEF Holders
  <2> QED
    BY <1>1, <2>1
<1>5. ASSUME NEW u \in Users
      PROVE  Cardinality(ListOf(u)') = Cardinality(ListOf(u))
  <2>1. ListOf(u)' = {f[x] : x \in ListOf(u)} /\ ListOf(u) \subseteq user_file_list
    BY SMT DEF ListOf
  <2> QED
    BY <1>1, <2>1
<1>6. \A r : OwnRows(r) # {} => OwnRows(r)' # {}
  BY SMT DEF OwnRows
<1> QED
  BY <1>2, <1>3, <1>4, <1>5, <1>6

(* No label at which a counter is off, or something is known, is "idle". *)
LEMMA IdleKnowsNothing ==
    /\ "idle" \notin RefAhead /\ "idle" \notin CountBehind
    /\ \A q \in Cgis : pc'[q] = "idle" => Knows(q)'
<1>1. "idle" \notin RefAhead \cup CountBehind \cup Has \cup Lacks
  BY DEF RefAhead, CountBehind, Has, Lacks, DelTail, DealFileLabels
<1> QED
  BY <1>1 DEF Knows

(* How far the counters are off is up to the process that works. *)
LEMMA DueOfSolo ==
    ASSUME NEW p \in Cgis, Solo(p)
    PROVE  /\ \A m : RefDue(m) =
                 IF pc[p] \in RefAhead /\ req[p].md5 = m THEN 1 ELSE 0
           /\ \A u : UserDue(u) =
                 IF pc[p] \in CountBehind /\ req[p].user = u THEN 1 ELSE 0
           /\ \A m : RefDue(m)' =
                 IF pc'[p] \in RefAhead /\ req'[p].md5 = m THEN 1 ELSE 0
           /\ \A u : UserDue(u)' =
                 IF pc'[p] \in CountBehind /\ req'[p].user = u THEN 1 ELSE 0
  BY IdleKnowsNothing DEF Solo, RefDue, UserDue

(* the tables that are counted, and the counters, stay as they are *)
SameBooks ==
    /\ UNCHANGED <<file_info, user_file_list>>
    /\ \A u \in Users : user_file_count'[u] = user_file_count[u]

(* the step leaves the counters off, or right, by as much as before *)
SameDue(p) ==
    /\ pc'[p] \in RefAhead <=> pc[p] \in RefAhead
    /\ pc'[p] \in CountBehind <=> pc[p] \in CountBehind
    /\ pc[p] \in RefAhead \cup CountBehind => req'[p] = req[p]

(* A step that writes none of the three tables keeps the books. *)
LEMMA BooksKept ==
    ASSUME NEW p \in Cgis, Solo(p), SameBooks, SameDue(p), Books
    PROVE  Books'
<1>1. /\ \A m : RefDue(m)' = RefDue(m)
      /\ \A u : UserDue(u)' = UserDue(u)
  BY DueOfSolo DEF SameDue
<1>2. /\ UNCHANGED user_file_list
      /\ \A m : InfoCount(m)' = InfoCount(m) /\ Holders(m)' = Holders(m)
      /\ \A u \in Users : UserCount(u)' = UserCount(u) /\ ListOf(u)' = ListOf(u)
  BY DEF SameBooks, InfoCount, UserCount, Holders, ListOf
<1> QED
  BY <1>1, <1>2 DEF Books

(***************************************************************************)
(* The INSERT of a user's row, whose reference is counted already, moves   *)
(* the difference from file_info to user_file_count.                       *)
(***************************************************************************)
LEMMA RowInserted ==
    ASSUME TypeOK, Books, NEW p \in Cgis, Solo(p), InsertUserRow(req[p]),
           req[p] \in Requests, OwnRows(req[p]) = {}, req'[p] = req[p],
           pc[p] \in RefAhead \ CountBehind, pc'[p] \in CountBehind \ RefAhead,
           UNCHANGED <<file_info, user_file_count>>
    PROVE  Books' /\ OwnRows(req[p])' # {}
<1>1. OneEach /\ IsFiniteSet(user_file_list)
  BY DEF Books, OneEach
<1>2. /\ IsFiniteSet(user_file_list') /\ OneEach'
      /\ \A m \in Md5s : Cardinality(Holders(m)') =
            Cardinality(Holders(m)) + IF req[p].md5 = m THEN 1 ELSE 0
      /\ \A u \in Users : Cardinality(ListOf(u)') =
            Cardinality(ListOf(u)) + IF req[p].user = u THEN 1 ELSE 0
      /\ OwnRows(req[p])' # {}
  BY <1>1, InsertedRow
<1>3. /\ \A m \in Md5s : InfoCount(m)' = InfoCount(m)
      /\ \A u \in Users : UserCount(u)' = UserCount(u)
  BY DEF InfoCount, UserCount
<1>4. \A m \in Md5s : Cardinality(Holders(m)) \in Nat
  BY <1>1, FS_Subset, FS_CardinalityType DEF Holders
<1>5. \A u \in Users : Cardinality(ListOf(u)) \in Nat /\ UserCount(u) \in Int
  BY SMT, <1>1, FS_Subset, FS_CardinalityType
     DEF ListOf, UserCount, TypeOK, DataOK, CountKeys
<1>6. \A m \in Md5s : InfoCount(m)' = Cardinality(Holders(m)') + RefDue(m)'
  BY SMT, <1>2, <1>3, <1>4, DueOfSolo DEF Books
<1>7. \A u \in Users : UserCount(u)' + UserDue(u)' = Cardinality(ListOf(u)')
  BY SMT, <1>2, <1>3, <1>5, DueOfSolo DEF Books
<1> QED
  BY <1>2, <1>6, <1>7 DEF Books, OneEach

(* Counting a reference before its row is inserted, or after it is deleted. *)
LEMMA RefWritten ==
    ASSUME TypeOK, Books, NEW p \in Cgis, Solo(p), req[p] \in Request,
           pc[p] \notin CountBehind, pc'[p] \notin CountBehind,
           pc'[p] \in RefAhead => req'[p] = req[p],
           NEW n \in Int, UpdateInfoCount(req[p].md5, n),
           file_info[req[p].md5] # NoRow,
           n = file_info[req[p].md5].count
                  + (IF pc'[p] \in RefAhead THEN 1 ELSE 0)
                  - (IF pc[p] \in RefAhead THEN 1 ELSE 0),
           UNCHANGED <<user_file_list, user_file_count>>
    PROVE  /\ Books'
           /\ file_info'[req[p].md5] # NoRow /\ file_info'[req[p].md5].count = n
<1>0. PICK k \in Md5s : k = req[p].md5
  BY DEF Request
<1> DEFINE row == [file_id |-> file_info[k].file_id, count |-> n]
<1>1. file_info' = [file_info EXCEPT ![k] = row]
  BY <1>0 DEF UpdateInfoCount
<1>2. row # NoRow /\ row.count = n
  BY SMT, <1>0, NullAssumption DEF TypeOK, DataOK, InfoRow
<1> HIDE DEF row
<1>3. /\ file_info'[k] = row
      /\ \A m \in Md5s \ {k} : file_info'[m] = file_info[m]
  BY <1>1 DEF TypeOK, DataOK
<1>4. /\ InfoCount(k) = file_info[k].count /\ InfoCount(k)' = n
      /\ \A m \in Md5s \ {k} : InfoCount(m)' = InfoCount(m)
  BY <1>0, <1>2, <1>3 DEF InfoCount
<1>5. file_info[k].count \in Int
  BY <1>0 DEF TypeOK, DataOK, InfoRow
<1>6. /\ \A m \in Md5s : Holders(m)' = Holders(m)
      /\ \A u \in Users : ListOf(u)' = ListOf(u) /\ UserCount(u)' = UserCount(u)
  BY DEF Holders, ListOf, UserCount
<1>7. IsFiniteSet(user_file_list)
  BY DEF Books
<1>8. \A m \in Md5s : Cardinality(Holders(m)) \in Nat
  BY ZenonT(30), <1>7, FS_Subset, FS_CardinalityType DEF Holders
<1>9. ASSUME NEW m \in Md5s
      PROVE  InfoCount(m)' = Cardinality(Holders(m)') + RefDue(m)'
  <2>1. InfoCount(m) = Cardinality(Holders(m)) + RefDue(m)
    BY DEF Books
  <2>2. RefDue(m) = IF pc[p] \in RefAhead /\ k = m THEN 1 ELSE 0
    BY <1>0, DueOfSolo
  <2>3. RefDue(m)' = IF pc'[p] \in RefAhead /\ k = m THEN 1 ELSE 0
    BY <1>0, DueOfSolo
  <2> QED
    BY SMT, <1>0, <1>4, <1>5, <1>6, <1>8, <2>1, <2>2, <2>3
<1>10. \A u \in Users : UserDue(u)' = UserDue(u)
  BY DueOfSolo
<1>11. \A u \in Users : UserCount(u)' + UserDue(u)' = Cardinality(ListOf(u)')
  BY <1>6, <1>10 DEF Books
<1> QED
  BY <1>0, <1>2, <1>3, <1>7, <1>9, <1>11 DEF Books

(* The user's counter goes up, or is made, after the row is inserted. *)
LEMMA CountWritten ==
    ASSUME TypeOK, Books, NEW p \in Cgis, Solo(p), req[p] \in Request,
           pc[p] \in CountBehind \ RefAhead, pc'[p] = "idle",
           tmp[p] = user_file_count[req[p].user],
           user_file_count' = CountAfterBump(p, req[p].user),
           UNCHANGED <<file_info, user_file_list>>
    PROVE  Books'
<1>1. PICK v \in Users : v = req[p].user /\ v \in CountKeys
  BY DEF Request, CountKeys
<1>2. user_file_count[v] \in Int \cup {NoRow} /\ Failed \notin Int \cup {NoRow}
  BY <1>1, NullAssumption DEF TypeOK, DataOK
<1>3. user_file_count' = [user_file_count EXCEPT ![v] = UserCount(v) + 1]
  <2>1. CASE user_file_count[v] = NoRow
    <3>1. UserCount(v) + 1 = 1 /\ tmp[p] = NoRow
      BY SMT, <1>1, <2>1 DEF UserCount
    <3> QED
      BY <1>1, <3>1, NullAssumption DEF CountAfterBump
  <2>2. CASE user_file_count[v] # NoRow
    <3>1. /\ UserCount(v) = user_file_count[v] /\ tmp[p] = user_file_count[v]
          /\ tmp[p] # NoRow /\ tmp[p] \in Int
      BY <1>1, <1>2, <2>2 DEF UserCount
    <3> QED
      BY <1>1, <2>2, <3>1 DEF CountAfterBump
  <2> QED
    BY <2>1, <2>2
<1>4. UserCount(v) \in Int /\ UserCount(v) + 1 # NoRow
  BY SMT, <1>2, NullAssumption DEF UserCount
<1>5. /\ UserCount(v)' = UserCount(v) + 1
      /\ \A u \in Users \ {v} : UserCount(u)' = UserCount(u)
  BY <1>1, <1>3, <1>4 DEF UserCount, TypeOK, DataOK, CountKeys
<1>6. /\ \A m \in Md5s : Holders(m)' = Holders(m) /\ InfoCount(m)' = InfoCount(m)
      /\ \A u \in Users : ListOf(u)' = ListOf(u)
  BY DEF Holders, ListOf, InfoCount
<1>7. /\ \A m \in Md5s : RefDue(m)' = RefDue(m)
      /\ \A u \in Users : UserDue(u) = IF u = v THEN 1 ELSE 0
      /\ \A u \in Users : UserDue(u)' = 0
  BY ZenonT(30), <1>1, DueOfSolo, IdleKnowsNothing
<1>8. IsFiniteSet(user_file_list)
  BY DEF Books
<1>9. ASSUME NEW u \in Users
      PROVE  UserCount(u)' + UserDue(u)' = Cardinality(ListOf(u)')
  <2>1. UserCount(u) + UserDue(u) = Cardinality(ListOf(u))
    BY DEF Books
  <2>2. UserCount(u) \in Int
    BY SMT, NullAssumption DEF UserCount, TypeOK, DataOK, CountKeys
  <2> QED
    BY SMT, <1>4, <1>5, <1>6, <1>7, <2>1, <2>2
<1>10. \A m \in Md5s : InfoCount(m)' = Cardinality(Holders(m)') + RefDue(m)'
  BY <1>6, <1>7 DEF Books
<1> QED
  BY <1>8, <1>9, <1>10 DEF Books

(* What a step of p has to show: the others are idle. *)
LEMMA SoloBalanced ==
    ASSUME NEW p \in Cgis, Solo(p), Books', Knows(p)'
    PROVE  Balanced'
  BY IdleKnowsNothing DEF Solo, Balanced

(* Where a digest has no row in file_info, nobody has the file. *)
LEMMA NoRowNoHolder ==
    ASSUME Books, NEW r \in Request, file_info[r.md5] = NoRow
    PROVE  OwnRows(r) = {}
<1>1. r.md5 \in Md5s
  BY DEF Request
<1>2. IsFiniteSet(Holders(r.md5))
  BY FS_Subset DEF Books, Holders
<1>3. Cardinality(Holders(r.md5)) \in Nat
  BY <1>2, FS_CardinalityType
<1>4. 0 = Cardinality(Holders(r.md5)) + RefDue(r.md5)
  BY <1>1 DEF Books, InfoCount
<1>5. RefDue(r.md5) \in {0, 1}
  BY DEF RefDue
<1>6. Cardinality(Holders(r.md5)) = 0
  BY SMT, <1>3, <1>4, <1>5
<1>7. Holders(r.md5) = {}
  BY <1>2, <1>6, FS_EmptySet
<1> QED
  BY <1>7 DEF Holders, OwnRows

(* upload_cgi.c: the file is new, and its first row makes the count right. *)
LEMMA UploadBooks ==
    ASSUME TypeOK, TypeOK', Alone, Balanced, UploadNext, sqlErrs' = sqlErrs,
           Comes("upload")
    PROVE  Balanced'
<1> DEFINE p == "upload"
<1>0. p \in Cgis /\ ProcOK /\ ProcOK' /\ Books /\ Knows(p)
  BY ServiceLabels DEF TypeOK, Balanced
<1>1. Others(p) /\ Moves(p)
  BY <1>0, UploadFrame, UploadMoves
<1>2. Solo(p)
  BY <1>0, <1>1, AloneKept DEF Comes
<1>3. pc[p] # "idle" => req[p] \in Requests /\ req[p] \in Request
  BY <1>0, RequestsAssumption DEF ProcOK
<1> SUFFICES Books' /\ Knows(p)'
  BY <1>0, <1>2, SoloBalanced
<1>4. CASE UploadAccept
  <2>1. /\ pc[p] = "idle" /\ pc'[p] = "up_store" /\ SameBooks
        /\ req'[p] \in Requests /\ req'[p].cmd = "upload"
    BY <1>0, <1>4 DEF UploadAccept, Accept, At, sqlVars, SameBooks, ProcOK
  <2>2. file_info[req'[p].md5] = NoRow
    BY <2>1, RequestsAssumption, NullAssumption DEF Comes, Arrives, At, Offered
  <2>3. Books'
    BY <1>0, <1>2, <2>1, BooksKept DEF SameDue, RefAhead, CountBehind
  <2>4. Knows(p)'
    BY <2>1, <2>2 DEF Knows, Has, Lacks, DealFileLabels, DelTail, CountBehind,
      SameBooks
  <2> QED
    BY <2>3, <2>4
<1>5. CASE upload_to_dstorage
  <2>1. /\ pc[p] = "up_store" /\ pc'[p] = "up_info" /\ SameBooks
        /\ req' = req
    BY <1>0, <1>5 DEF upload_to_dstorage, Goto, At, sqlVars, SameBooks, ProcOK
  <2>2. Books'
    BY <1>0, <1>2, <2>1, BooksKept DEF SameDue, RefAhead, CountBehind
  <2>3. Knows(p)'
    BY <1>0, <2>1 DEF Knows, Has, Lacks, DealFileLabels, DelTail, CountBehind,
      SameBooks
  <2> QED
    BY <2>2, <2>3
<1>6. CASE UploadInsertInfo
  <2>1. PICK k \in Md5s : k = req[p].md5
    BY <1>3, <1>6 DEF UploadInsertInfo, At, Request
  <2>2. /\ pc[p] = "up_info" /\ file_info[k] = NoRow
        /\ UNCHANGED <<user_file_list, user_file_count>>
    BY <1>0, <1>6, <2>1 DEF UploadInsertInfo, At, Knows
  <2> DEFINE row == [file_id |-> fileid, count |-> 1]
  <2>3. /\ pc'[p] = "up_row" /\ req' = req
        /\ file_info' = [file_info EXCEPT ![k] = row]
    BY <1>0, <1>6, <2>1, <2>2 DEF UploadInsertInfo, Goto, ProcOK
  <2>4. row # NoRow /\ row.count = 1
    BY SMT, NullAssumption DEF TypeOK, LocalOK, InfoRow
  <2> HIDE DEF row
  <2>5. /\ InfoCount(k) = 0 /\ InfoCount(k)' = 1
        /\ \A m \in Md5s \ {k} : InfoCount(m)' = InfoCount(m)
    BY <2>2, <2>3, <2>4 DEF InfoCount, TypeOK, DataOK
  <2>6. /\ \A m \in Md5s : Holders(m)' = Holders(m)
        /\ \A u \in Users : ListOf(u)' = ListOf(u) /\ UserCount(u)' = UserCount(u)
    BY <2>2 DEF Holders, ListOf, UserCount
  <2>7. /\ \A m \in Md5s : RefDue(m) = 0
        /\ \A m \in Md5s : RefDue(m)' = IF m = k THEN 1 ELSE 0
        /\ \A u \in Users : UserDue(u)' = UserDue(u)
    BY <1>0, <1>2, <2>1, <2>2, <2>3, DueOfSolo DEF RefAhead, CountBehind
  <2>8. IsFiniteSet(user_file_list)
    BY <1>0 DEF Books
  <2>9. \A m \in Md5s : Cardinality(Holders(m)) \in Nat
    BY <2>8, FS_Subset, FS_CardinalityType DEF Holders
  <2>10. ASSUME NEW m \in Md5s
         PROVE  InfoCount(m)' = Cardinality(Holders(m)') + RefDue(m)'
    <3>1. InfoCount(m) = Cardinality(Holders(m)) + RefDue(m)
      BY <1>0 DEF Books
    <3> QED
      BY SMT, <2>5, <2>6, <2>7, <2>9, <3>1
  <2>11. Books'
    BY <1>0, <2>2, <2>6, <2>7, <2>10 DEF Books
  <2>12. OwnRows(req[p]) = {}
    BY <1>0, <1>3, <2>1, <2>2, NoRowNoHolder
  <2>13. Knows(p)'
    BY <2>2, <2>3, <2>12 DEF Knows, Has, DealFileLabels, DelTail, CountBehind,
      OwnRows
  <2> QED
    BY <2>11, <2>13
<1>7. CASE UploadInsertRow
  <2>1. /\ pc[p] = "up_row" /\ pc'[p] = "up_selcnt" /\ req' = req
        /\ InsertUserRow(req[p]) /\ OwnRows(req[p]) = {}
        /\ UNCHANGED <<file_info, user_file_count>>
    BY <1>0, <1>7 DEF UploadInsertRow, Goto, At, ProcOK, Knows, Lacks
  <2>2. Books' /\ OwnRows(req[p])' # {}
    BY <1>0, <1>2, <1>3, <2>1, RowInserted DEF RefAhead, CountBehind
  <2>3. Knows(p)'
    BY <2>1, <2>2 DEF Knows, Lacks, DelTail
  <2> QED
    BY <2>2, <2>3
<1>8. CASE UploadSelectCount
  <2>1. /\ pc[p] = "up_selcnt" /\ pc'[p] = "up_wrcnt" /\ SameBooks
        /\ req' = req /\ tmp'[p] = user_file_count[req[p].user]
    BY <1>0, <1>8 DEF UploadSelectCount, SelectCount, Goto, At, sqlVars,
      SameBooks, ProcOK
  <2>2. Books'
    BY <1>0, <1>2, <2>1, BooksKept DEF SameDue, RefAhead, CountBehind
  <2>3. Knows(p)'
    BY <1>0, <1>3, <2>1 DEF Knows, Has, Lacks, DelTail, CountBehind, SameBooks,
      OwnRows, Request
  <2> QED
    BY <2>2, <2>3
<1>9. CASE UploadWriteCount
  <2>1. /\ pc[p] = "up_wrcnt" /\ tmp[p] = user_file_count[req[p].user]
        /\ pc'[p] = "idle" /\ ~DuplicateKey(p, req[p].user)
    BY <1>0, <1>9 DEF UploadWriteCount, Finish, At, ProcOK, Knows, DuplicateKey
  <2>2. /\ user_file_count' = CountAfterBump(p, req[p].user)
        /\ UNCHANGED <<file_info, user_file_list>>
    BY <1>9, <2>1 DEF UploadWriteCount
  <2>3. Books'
    BY <1>0, <1>2, <1>3, <2>1, <2>2, CountWritten DEF RefAhead, CountBehind
  <2> QED
    BY <1>0, <2>1, <2>3, IdleKnowsNothing
<1>10. ~UploadError
  BY SMT, BoundsAssumption DEF UploadError, SqlErrs, TypeOK, EnvOK
<1> QED
  BY <1>4, <1>5, <1>6, <1>7, <1>8, <1>9, <1>10 DEF UploadNext

(* A step that neither writes the tables nor moves a process. *)
LEMMA IdleStep ==
    ASSUME Balanced, UNCHANGED <<sqlVars, pc, req, tmp>>
    PROVE  Balanced'
<1>1. /\ UNCHANGED <<file_info, user_file_list, user_file_count>>
      /\ \A m : InfoCount(m)' = InfoCount(m) /\ Holders(m)' = Holders(m)
      /\ \A u : UserCount(u)' = UserCount(u) /\ ListOf(u)' = ListOf(u)
      /\ \A m : RefDue(m)' = RefDue(m)
      /\ \A u : UserDue(u)' = UserDue(u)
      /\ \A r : OwnRows(r)' = OwnRows(r)
  BY DEF sqlVars, InfoCount, UserCount, Holders, ListOf, RefDue, UserDue,
    OwnRows
<1>2. Books'
  BY <1>1 DEF Balanced, Books
<1>3. \A p \in Cgis : Knows(p)'
  BY <1>1 DEF Balanced, Knows
<1> QED
  BY <1>2, <1>3 DEF Balanced

(* md5_cgi.c: the count goes up before the row is inserted. *)
LEMMA Md5Books ==
    ASSUME TypeOK, TypeOK', Alone, Balanced, Md5Next, sqlErrs' = sqlErrs,
           Comes("md5")
    PROVE  Balanced'
<1> DEFINE p == "md5"
<1>a. CASE Refuse(p)
  BY <1>a, IdleStep DEF Refuse
<1> SUFFICES ASSUME ~Refuse(p) PROVE Balanced'
  BY <1>a
<1>0. p \in Cgis /\ ProcOK /\ ProcOK' /\ Books /\ Knows(p)
  BY ServiceLabels DEF TypeOK, Balanced
<1>1. Others(p) /\ Moves(p)
  BY <1>0, Md5Frame, Md5Moves
<1>2. Solo(p)
  BY <1>0, <1>1, AloneKept DEF Comes
<1>3. pc[p] # "idle" => req[p] \in Requests /\ req[p] \in Request
  BY <1>0, RequestsAssumption DEF ProcOK
<1> SUFFICES Books' /\ Knows(p)'
  BY <1>0, <1>2, SoloBalanced
<1>4. CASE Md5Accept \/ Md5SelectInfo \/ Md5SelectOwned \/ Md5SelectCount
  <2>1. SameBooks
    BY <1>4 DEF Md5Accept, Accept, Md5SelectInfo, Md5SelectOwned,
      Md5SelectCount, sqlVars, SameBooks
  <2>2. SameDue(p)
    BY ZenonT(30), <1>0, <1>4 DEF Md5Accept, Accept, Md5SelectInfo, Md5SelectOwned,
      Md5SelectCount, Goto, Finish, At, SameDue, RefAhead, CountBehind, ProcOK
  <2>3. Books'
    BY <1>0, <1>2, <2>1, <2>2, BooksKept
  <2>4. Knows(p)'
    BY SMT, <1>0, <1>3, <1>4, <2>1 DEF Md5Accept, Accept, Md5SelectInfo,
      Md5SelectOwned, Md5SelectCount, SelectCount, Goto, Finish, At, Knows, Has,
      Lacks, DealFileLabels, DelTail, CountBehind, ProcOK, SameBooks, OwnRows,
      Request
  <2> QED
    BY <2>3, <2>4
<1>5. CASE Md5UpdateInfo
  <2>1. /\ pc[p] = "md_inc" /\ pc'[p] = "md_row" /\ req' = req
        /\ UpdateInfoCount(req[p].md5, tmp[p] + 1)
        /\ OwnRows(req[p]) = {} /\ file_info[req[p].md5] # NoRow
        /\ tmp[p] = file_info[req[p].md5].count /\ tmp[p] \in Int
        /\ UNCHANGED <<user_file_list, user_file_count>>
    BY ZenonT(30), <1>0, <1>5 DEF Md5UpdateInfo, Goto, At, ProcOK, Knows, Lacks, NumLabels
  <2>2. Books'
    BY SMT, <1>0, <1>2, <1>3, <2>1, RefWritten DEF RefAhead, CountBehind
  <2>3. Knows(p)'
    BY <2>1 DEF Knows, Has, DealFileLabels, CountBehind, OwnRows
  <2> QED
    BY <2>2, <2>3
<1>6. CASE Md5InsertRow
  <2>1. /\ pc[p] = "md_row" /\ pc'[p] = "md_selcnt" /\ req' = req
        /\ InsertUserRow(req[p]) /\ OwnRows(req[p]) = {}
        /\ UNCHANGED <<file_info, user_file_count>>
    BY <1>0, <1>6 DEF Md5InsertRow, Goto, At, ProcOK, Knows, Lacks
  <2>2. Books' /\ OwnRows(req[p])' # {}
    BY <1>0, <1>2, <1>3, <2>1, RowInserted DEF RefAhead, CountBehind
  <2>3. Knows(p)'
    BY <2>1, <2>2 DEF Knows, Lacks, DelTail
  <2> QED
    BY <2>2, <2>3
<1>7. CASE Md5WriteCount
  <2>1. /\ pc[p] = "md_wrcnt" /\ tmp[p] = user_file_count[req[p].user]
        /\ pc'[p] = "idle" /\ ~DuplicateKey(p, req[p].user)
    BY <1>0, <1>7 DEF Md5WriteCount, Finish, At, ProcOK, Knows, DuplicateKey
  <2>2. /\ user_file_count' = CountAfterBump(p, req[p].user)
        /\ UNCHANGED <<file_info, user_file_list>>
    BY <1>7, <2>1 DEF Md5WriteCount
  <2>3. Books'
    BY <1>0, <1>2, <1>3, <2>1, <2>2, CountWritten DEF RefAhead, CountBehind
  <2> QED
    BY <1>0, <2>1, <2>3, IdleKnowsNothing
<1>8. ~Md5Error
  BY SMT, BoundsAssumption DEF Md5Error, SqlErrs, TypeOK, EnvOK
<1> QED
  BY <1>4, <1>5, <1>6, <1>7, <1>8 DEF Md5Next

(* A counted reference without a row of the user: the digest has its row. *)
LEMMA AheadHasRow ==
    ASSUME Books, NEW p \in Cgis, pc[p] \in RefAhead, req[p] \in Request
    PROVE  file_info[req[p].md5] # NoRow
<1> DEFINE m == req[p].md5
<1>1. m \in Md5s /\ RefDue(m) = 1
  BY DEF Request, RefDue
<1>2. Cardinality(Holders(m)) \in Nat
  BY FS_Subset, FS_CardinalityType DEF Holders, Books
<1>3. InfoCount(m) # 0
  BY SMT, <1>1, <1>2 DEF Books
<1> QED
  BY <1>3 DEF InfoCount

(***************************************************************************)
(* The labels of dealfile_cgi.c at which only this is known: the user has  *)
(* the file.                                                               *)
(***************************************************************************)
OwnLabels ==
    {"sh_zset", "sh_sel", "sh_repair", "sh_status", "sh_row", "sh_selcnt",
     "sh_wrcnt", "sh_zadd", "sh_hset", "de_zset", "de_status", "de_share",
     "de_scsel", "de_scwr", "de_zrem", "de_hdel", "de_ucsel", "pv_sel",
     "pv_upd"}

(* They are none of the labels at which a counter is off. *)
LEMMA OwnLabelFacts ==
    /\ OwnLabels \cap (RefAhead \cup CountBehind \cup Lacks) = {}
    /\ OwnLabels \subseteq Has /\ "idle" \notin OwnLabels
  BY DEF OwnLabels, RefAhead, CountBehind, Lacks, Has, DelTail, DealFileLabels

(* At these labels it is enough that the user still has the file. *)
LEMMA OwnKnows ==
    ASSUME pc'[D] \in OwnLabels, OwnRows(req[D])' # {}
    PROVE  Knows(D)'
<1>1. OwnLabels \cap {"up_store", "up_info", "md_owned", "md_inc", "sv_inc",
            "de_dec", "up_wrcnt", "md_wrcnt", "sv_wrcnt", "de_ucwr", "de_fid",
            "de_drop"} = {}
  BY DEF OwnLabels
<1> QED
  BY <1>1, OwnLabelFacts DEF Knows

(* Marking the user's rows or counting a download leaves their number. *)
LEMMA MarkedRows ==
    ASSUME Books, NEW p \in Cgis, Solo(p), SameDue(p),
           UNCHANGED <<file_info, user_file_count>>,
           NEW f, f \in [user_file_list -> UserRow],
           \A x \in user_file_list : /\ f[x].user = x.user
                                     /\ f[x].md5 = x.md5
                                     /\ f[x].filename = x.filename,
           user_file_list' = {f[x] : x \in user_file_list}
    PROVE  Books' /\ \A r : OwnRows(r) # {} => OwnRows(r)' # {}
<1>1. OneEach /\ IsFiniteSet(user_file_list)
  BY DEF Books, OneEach
<1>2. /\ IsFiniteSet(user_file_list') /\ OneEach'
      /\ \A m \in Md5s : Cardinality(Holders(m)') = Cardinality(Holders(m))
      /\ \A u \in Users : Cardinality(ListOf(u)') = Cardinality(ListOf(u))
      /\ \A r : OwnRows(r) # {} => OwnRows(r)' # {}
  BY <1>1, UpdatedRows
<1>3. /\ \A m : RefDue(m)' = RefDue(m) /\ InfoCount(m)' = InfoCount(m)
      /\ \A u : UserDue(u)' = UserDue(u) /\ UserCount(u)' = UserCount(u)
  BY SMT, DueOfSolo DEF SameDue, InfoCount, UserCount
<1> QED
  BY <1>2, <1>3 DEF Books, OneEach

(* dealfile_cgi.c in service: what its lemmas start from. *)
LEMMA DealFileStart ==
    ASSUME TypeOK, TypeOK', Alone, Balanced, DealFileNext, ~DealFileRefuse,
           sqlErrs' = sqlErrs, Comes(D)
    PROVE  /\ D \in Cgis /\ ProcOK /\ ProcOK' /\ Books /\ Knows(D) /\ Solo(D)
           /\ pc[D] # "idle" => req[D] \in Requests /\ req[D] \in Request
           /\ ~ShareError /\ ~DelError /\ ~PvError
<1>0. D \in Cgis /\ ProcOK /\ ProcOK' /\ Books /\ Knows(D)
  BY ServiceLabels DEF TypeOK, Balanced
<1>1. ~ShareError /\ ~DelError /\ ~PvError
  BY SMT, BoundsAssumption DEF ShareError, DelError, PvError, SqlErrs, TypeOK, EnvOK
<1>2. Moves(D)
  BY DealFileMoves
<1>3. Solo(D)
  BY <1>0, <1>2, DealFileFrame, AloneKept DEF Comes
<1>4. pc[D] # "idle" => req[D] \in Requests /\ req[D] \in Request
  BY <1>0, RequestsAssumption DEF ProcOK
<1> QED
  BY <1>0, <1>1, <1>3, <1>4

(* What follows a statement of dealfile_cgi.c that writes no counted table. *)
LEMMA OwnStep ==
    ASSUME D \in Cgis, Solo(D), Books, Knows(D), SameBooks,
           \/ pc[D] \in OwnLabels /\ req' = req
           \/ pc[D] \in OwnLabels /\ pc'[D] = "idle"
           \/ pc[D] = "idle" /\ OwnRows(req'[D]) # {},
           pc'[D] \in OwnLabels \cup {"idle"}
    PROVE  Books' /\ Knows(D)'
<1>1. SameDue(D)
  BY OwnLabelFacts, IdleKnowsNothing DEF SameDue
<1>2. Books'
  BY <1>1, BooksKept
<1>3. pc[D] \in OwnLabels => OwnRows(req[D]) # {}
  BY OwnLabelFacts DEF Knows
<1>4. OwnRows(req[D])' = OwnRows(req'[D])
  BY DEF OwnRows, SameBooks
<1> QED
  BY <1>2, <1>3, <1>4, OwnKnows, IdleKnowsNothing

(* A request on one's own file is offered to a user who has the file. *)
LEMMA OfferedOwn ==
    ASSUME ProcOK, Comes(D), NEW c \in {"share", "del", "pv"}, NEW l,
           Accept(D, c, l)
    PROVE  OwnRows(req'[D]) # {}
<1>1. D \in Cgis
  BY ServiceLabels
<1>2. PICK r \in Requests : r.cmd = c /\ req' = [req EXCEPT ![D] = r]
  BY DEF Accept
<1>3. req'[D] = r /\ r # NoReq
  BY <1>1, <1>2, RequestsAssumption, NullAssumption DEF ProcOK
<1> QED
  BY <1>2, <1>3 DEF Comes, Arrives, Accept, Offered

(* Writing the share counter leaves the books of the users alone. *)
LEMMA ShareKeyOnly ==
    ASSUME TypeOK, UNCHANGED <<file_info, user_file_list>>,
           \/ UNCHANGED user_file_count
           \/ \E n : user_file_count' = [user_file_count EXCEPT ![ShareKey] = n]
           \/ \E p \in Cgis : user_file_count' = CountAfterBump(p, ShareKey)
    PROVE  SameBooks
<1>1. \A p \in Cgis : \/ CountAfterBump(p, ShareKey) = user_file_count
                       \/ \E n : CountAfterBump(p, ShareKey) =
                                    [user_file_count EXCEPT ![ShareKey] = n]
  BY NullAssumption DEF CountAfterBump
<1> QED
  BY <1>1, KeyAssumption DEF SameBooks, TypeOK, DataOK, CountKeys

(* share_file marks the user's row; it has the file before and after. *)
LEMMA ShareBooks ==
    ASSUME TypeOK, TypeOK', Alone, Balanced, ShareNext, sqlErrs' = sqlErrs,
           Comes(D), ~DealFileRefuse
    PROVE  Balanced'
<1>0. /\ D \in Cgis /\ ProcOK /\ ProcOK' /\ Books /\ Knows(D) /\ Solo(D)
      /\ pc[D] # "idle" => req[D] \in Requests /\ req[D] \in Request
      /\ ~ShareError
  BY DealFileStart DEF DealFileNext
<1> SUFFICES Books' /\ Knows(D)'
  BY <1>0, SoloBalanced
<1>1. CASE ShareSetStatus
  <2> DEFINE f == [x \in user_file_list |->
                     IF x \in OwnRows(req[D]) THEN [x EXCEPT !.shared_status = 1]
                                              ELSE x]
  <2>1. /\ pc[D] = "sh_status" /\ pc'[D] = "sh_row" /\ req' = req
        /\ user_file_list' = {f[x] : x \in user_file_list}
        /\ UNCHANGED <<file_info, user_file_count>>
    BY SMT, <1>0, <1>1 DEF ShareSetStatus, Goto, At, ProcOK
  <2>2. f \in [user_file_list -> UserRow]
    BY SMT DEF TypeOK, DataOK, UserRow
  <2>3. \A x \in user_file_list : /\ f[x].user = x.user
                                  /\ f[x].md5 = x.md5
                                  /\ f[x].filename = x.filename
    BY DEF TypeOK, DataOK, UserRow
  <2>4. SameDue(D)
    BY <2>1 DEF SameDue, RefAhead, CountBehind
  <2> HIDE DEF f
  <2>5. Books' /\ \A r : OwnRows(r) # {} => OwnRows(r)' # {}
    BY <1>0, <2>1, <2>2, <2>3, <2>4, MarkedRows
  <2>6. OwnRows(req[D]) # {} /\ pc'[D] \in OwnLabels
    BY <1>0, <2>1, OwnLabelFacts DEF Knows, OwnLabels
  <2>7. OwnRows(req[D])' # {}
    BY <2>1, <2>5, <2>6 DEF OwnRows
  <2> QED
    BY <2>5, <2>6, <2>7, OwnKnows
<1>2. CASE ShareAccept
  <2>1. SameBooks /\ pc[D] = "idle" /\ pc'[D] = "sh_zset"
    BY <1>0, <1>2 DEF ShareAccept, Accept, SameBooks, sqlVars, At, ProcOK
  <2>2. OwnRows(req'[D]) # {}
    BY <1>0, <1>2, OfferedOwn DEF ShareAccept
  <2> QED
    BY <1>0, <2>1, <2>2, OwnStep DEF OwnLabels
<1>3. CASE ShareWriteCount
  <2>1. SameBooks
    BY <1>0, <1>3, ShareKeyOnly DEF ShareWriteCount
  <2>2. pc[D] = "sh_wrcnt" /\ pc'[D] = "sh_zadd" /\ req' = req
    BY <1>0, <1>3 DEF ShareWriteCount, Goto, At, ProcOK
  <2> QED
    BY <1>0, <2>1, <2>2, OwnStep DEF OwnLabels
<1>4. CASE ~(ShareSetStatus \/ ShareAccept \/ ShareWriteCount)
  <2>1. UNCHANGED <<file_info, user_file_list, user_file_count>>
    BY <1>0, <1>4 DEF ShareNext, ShareAskRedis, ShareSelect, ShareRepair,
      ShareInsert, ShareSelectCount, ShareZadd, ShareHset, sqlVars
  <2>2. /\ pc[D] \in OwnLabels
        /\ \/ req' = req /\ pc'[D] \in OwnLabels
           \/ pc'[D] = "idle"
    BY <1>0, <1>4 DEF ShareNext, ShareAskRedis, ShareSelect, ShareRepair,
      ShareInsert, ShareSelectCount, ShareZadd, ShareHset, Goto, Finish, At,
      ProcOK, OwnLabels
  <2> QED
    BY <1>0, <2>1, <2>2, OwnStep DEF SameBooks
<1> QED
  BY <1>1, <1>2, <1>3, <1>4

(* The user's counter goes down, or is deleted at 1, before the row is. *)
LEMMA CountLowered ==
    ASSUME TypeOK, Books, Solo(D), D \in Cgis, req[D] \in Request,
           pc[D] = "de_ucwr", pc'[D] = "de_row", req' = req, tmp[D] \in Int,
           tmp[D] = user_file_count[req[D].user], DelWriteUserCount
    PROVE  Books'
<1>1. PICK v \in Users : v = req[D].user /\ v \in CountKeys
  BY DEF Request, CountKeys
<1>2. tmp[D] # NoRow /\ user_file_count[v] = tmp[D] /\ UserCount(v) = tmp[D]
  BY <1>1, NullAssumption DEF UserCount
<1>3. user_file_count' = [user_file_count EXCEPT ![v] =
                             IF tmp[D] = 1 THEN NoRow ELSE tmp[D] - 1]
  BY ZenonT(30), <1>1, <1>2 DEF DelWriteUserCount
<1>4. /\ UserCount(v)' = UserCount(v) - 1
      /\ \A u \in Users \ {v} : UserCount(u)' = UserCount(u)
  BY SMT, <1>1, <1>2, <1>3, NullAssumption DEF UserCount, TypeOK, DataOK, CountKeys
<1>5. UNCHANGED <<file_info, user_file_list>>
  BY DEF DelWriteUserCount
<1>6. /\ \A m \in Md5s : Holders(m)' = Holders(m) /\ InfoCount(m)' = InfoCount(m)
      /\ \A u \in Users : ListOf(u)' = ListOf(u)
  BY <1>5 DEF Holders, ListOf, InfoCount
<1>7. /\ \A m \in Md5s : RefDue(m)' = RefDue(m)
      /\ \A u \in Users : UserDue(u) = 0
      /\ \A u \in Users : UserDue(u)' = IF u = v THEN 1 ELSE 0
  BY ZenonT(30), <1>1, DueOfSolo DEF RefAhead, CountBehind
<1>8. ASSUME NEW u \in Users
      PROVE  UserCount(u)' + UserDue(u)' = Cardinality(ListOf(u)')
  <2>1. UserCount(u) + UserDue(u) = Cardinality(ListOf(u))
    BY DEF Books
  <2>2. UserCount(u) \in Int
    BY SMT, NullAssumption DEF UserCount, TypeOK, DataOK, CountKeys
  <2> QED
    BY SMT, <1>4, <1>6, <1>7, <2>1, <2>2
<1> QED
  BY <1>5, <1>6, <1>7, <1>8 DEF Books

(* The user's row goes after the user's counter and before the count. *)
LEMMA RowDeleted ==
    ASSUME TypeOK, Books, Solo(D), D \in Cgis, req[D] \in Requests,
           pc[D] = "de_row", pc'[D] = "de_info", req' = req,
           OwnRows(req[D]) # {},
           user_file_list' = user_file_list \ OwnRows(req[D]),
           UNCHANGED <<file_info, user_file_count>>
    PROVE  Books' /\ OwnRows(req[D])' = {}
<1>1. OneEach /\ IsFiniteSet(user_file_list)
  BY DEF Books, OneEach
<1>2. /\ IsFiniteSet(user_file_list') /\ OneEach'
      /\ \A m \in Md5s : Cardinality(Holders(m)) =
            Cardinality(Holders(m)') + IF req[D].md5 = m THEN 1 ELSE 0
      /\ \A u \in Users : Cardinality(ListOf(u)) =
            Cardinality(ListOf(u)') + IF req[D].user = u THEN 1 ELSE 0
      /\ OwnRows(req[D])' = {}
  BY <1>1, DeletedRow
<1>3. /\ \A m \in Md5s : InfoCount(m)' = InfoCount(m)
      /\ \A u \in Users : UserCount(u)' = UserCount(u)
  BY DEF InfoCount, UserCount
<1>4. \A m \in Md5s : Cardinality(Holders(m)') \in Nat
  <2>1. \A m \in Md5s : IsFiniteSet(Holders(m)')
    BY <1>2, FS_Subset DEF Holders
  <2> QED
    BY <2>1, FS_CardinalityType
<1>5. \A u \in Users : Cardinality(ListOf(u)') \in Nat /\ UserCount(u) \in Int
  <2>1. \A u \in Users : IsFiniteSet(ListOf(u)')
    BY <1>2, FS_Subset DEF ListOf
  <2> QED
    BY SMT, <2>1, FS_CardinalityType DEF UserCount, TypeOK, DataOK, CountKeys
<1>6. \A m \in Md5s : InfoCount(m)' = Cardinality(Holders(m)') + RefDue(m)'
  <2>1. /\ \A m \in Md5s : RefDue(m) = 0
        /\ \A m \in Md5s : RefDue(m)' = IF req[D].md5 = m THEN 1 ELSE 0
    BY DueOfSolo DEF RefAhead
  <2> QED
    BY SMT, <1>2, <1>3, <1>4, <2>1 DEF Books
<1>7. \A u \in Users : UserCount(u)' + UserDue(u)' = Cardinality(ListOf(u)')
  <2>1. /\ \A u \in Users : UserDue(u) = IF req[D].user = u THEN 1 ELSE 0
        /\ \A u \in Users : UserDue(u)' = 0
    BY DueOfSolo DEF CountBehind
  <2> QED
    BY SMT, <1>2, <1>3, <1>5, <2>1 DEF Books
<1> QED
  BY <1>2, <1>6, <1>7 DEF Books, OneEach

(* del_file up to the user's counter: the user still has the file. *)
LEMMA DelHeadBooks ==
    ASSUME TypeOK, Comes(D), D \in Cgis, ProcOK, Books, Knows(D), Solo(D),
           \/ DelAccept      \/ DelAskRedis         \/ DelSelectStatus
           \/ DelDeleteShare \/ DelSelectShareCount \/ DelWriteShareCount
           \/ DelZrem        \/ DelHdel
    PROVE  Books' /\ Knows(D)'
<1>1. CASE DelAccept
  <2>1. SameBooks /\ pc[D] = "idle" /\ pc'[D] = "de_zset"
    BY <1>1 DEF DelAccept, Accept, SameBooks, sqlVars, At, ProcOK
  <2>2. OwnRows(req'[D]) # {}
    BY <1>1, OfferedOwn DEF DelAccept
  <2> QED
    BY <2>1, <2>2, OwnStep DEF OwnLabels
<1>2. CASE DelWriteShareCount
  <2>1. SameBooks
    BY <1>2, ShareKeyOnly DEF DelWriteShareCount
  <2>2. /\ pc[D] = "de_scwr" /\ pc'[D] \in {"de_zrem", "de_ucsel"}
        /\ req' = req
    BY <1>2 DEF DelWriteShareCount, Goto, At, ProcOK
  <2> QED
    BY <2>1, <2>2, OwnStep DEF OwnLabels
<1>3. CASE \/ DelAskRedis    \/ DelSelectStatus
           \/ DelDeleteShare \/ DelSelectShareCount
           \/ DelZrem        \/ DelHdel
  <2>1. UNCHANGED <<file_info, user_file_list, user_file_count>>
    BY <1>3 DEF DelAskRedis, DelSelectStatus, DelDeleteShare,
      DelSelectShareCount, DelZrem, DelHdel, sqlVars
  <2>2. /\ pc[D] \in OwnLabels
        /\ \/ req' = req /\ pc'[D] \in OwnLabels
           \/ pc'[D] = "idle"
    BY <1>3 DEF DelAskRedis, DelSelectStatus, DelDeleteShare,
      DelSelectShareCount, DelZrem, DelHdel, Goto, Finish, At, ProcOK, OwnLabels
  <2> QED
    BY <2>1, <2>2, OwnStep DEF SameBooks
<1> QED
  BY <1>1, <1>2, <1>3

(* Where the user still has the file, and where not any more. *)
LEMMA DelKnows ==
    /\ pc'[D] = "de_ucwr" /\ OwnRows(req[D])' # {}
          /\ tmp'[D] = user_file_count'[req'[D].user] => Knows(D)'
    /\ pc'[D] = "de_row" /\ OwnRows(req[D])' # {} => Knows(D)'
    /\ pc'[D] = "de_info" /\ OwnRows(req[D])' = {} => Knows(D)'
    /\ pc'[D] = "de_dec" /\ OwnRows(req[D])' = {}
          /\ file_info'[req'[D].md5] # NoRow
          /\ tmp'[D] = file_info'[req'[D].md5].count => Knows(D)'
    /\ pc'[D] \in {"de_fid", "de_drop"} /\ OwnRows(req[D])' = {}
          /\ InfoCount(req[D].md5)' = 0 => Knows(D)'
    /\ pc'[D] = "de_store" /\ OwnRows(req[D])' = {} => Knows(D)'
    /\ pc[D] \in {"de_ucsel", "de_ucwr", "de_row"} /\ Knows(D) =>
          OwnRows(req[D]) # {}
    /\ pc[D] \in DelTail /\ Knows(D) => OwnRows(req[D]) = {}
  BY DEF Knows, Has, Lacks, DelTail, DealFileLabels, CountBehind

(* del_file from the user's counter on: counter, row, count, content. *)
LEMMA DelTailBooks ==
    ASSUME TypeOK, D \in Cgis, ProcOK, Books, Knows(D), Solo(D),
           pc[D] # "idle" => req[D] \in Requests /\ req[D] \in Request,
           \/ DelSelectUserCount \/ DelWriteUserCount \/ DelDeleteRow
           \/ DelSelectInfo      \/ DelUpdateInfo     \/ DelSelectFileId
           \/ DelDeleteInfo      \/ remove_file_from_storage
    PROVE  Books' /\ Knows(D)'
<1>1. CASE DelSelectUserCount
  <2>1. /\ pc[D] = "de_ucsel" /\ UNCHANGED <<file_info, user_file_list,
                                             user_file_count>>
        /\ \/ pc'[D] = "idle"
           \/ /\ pc'[D] = "de_ucwr" /\ req' = req
              /\ tmp'[D] = user_file_count[req[D].user]
    BY <1>1 DEF DelSelectUserCount, SelectCount, Goto, Finish, At, ProcOK, sqlVars
  <2>2. SameDue(D)
    BY <2>1 DEF SameDue, RefAhead, CountBehind
  <2>3. Books'
    BY <2>1, <2>2, BooksKept DEF SameBooks
  <2>4. pc'[D] # "idle" => OwnRows(req[D])' # {}
    BY <2>1, DelKnows DEF OwnRows
  <2> QED
    BY <2>1, <2>3, <2>4, DelKnows, IdleKnowsNothing
<1>2. CASE DelWriteUserCount
  <2>1. /\ pc[D] = "de_ucwr" /\ pc'[D] = "de_row" /\ req' = req
        /\ tmp[D] = user_file_count[req[D].user] /\ tmp[D] \in Int
        /\ user_file_list' = user_file_list /\ OwnRows(req[D]) # {}
    BY <1>2, DelKnows DEF DelWriteUserCount, Goto, At, ProcOK, NumLabels, Knows
  <2>2. Books'
    BY <1>2, <2>1, CountLowered
  <2>3. OwnRows(req[D])' # {}
    BY <2>1 DEF OwnRows
  <2> QED
    BY <2>1, <2>2, <2>3, DelKnows
<1>3. CASE DelDeleteRow
  <2>1. /\ pc[D] = "de_row" /\ pc'[D] = "de_info" /\ req' = req
        /\ user_file_list' = user_file_list \ OwnRows(req[D])
        /\ UNCHANGED <<file_info, user_file_count>> /\ OwnRows(req[D]) # {}
    BY <1>3, DelKnows DEF DelDeleteRow, Goto, At, ProcOK
  <2>2. Books' /\ OwnRows(req[D])' = {}
    BY <2>1, RowDeleted
  <2> QED
    BY <2>1, <2>2, DelKnows
<1>4. CASE DelSelectInfo
  <2>1. pc[D] = "de_info"
    BY <1>4 DEF DelSelectInfo, At
  <2>2. file_info[req[D].md5] # NoRow
    BY <2>1, AheadHasRow DEF RefAhead
  <2>3. /\ pc'[D] = "de_dec" /\ req' = req /\ OwnRows(req[D]) = {}
        /\ UNCHANGED <<file_info, user_file_list, user_file_count>>
        /\ tmp'[D] = file_info[req[D].md5].count
    BY <1>4, <2>1, <2>2, DelKnows DEF DelSelectInfo, Goto, ProcOK, sqlVars, DelTail
  <2>4. Books'
    BY <2>1, <2>3, BooksKept DEF SameBooks, SameDue, RefAhead, CountBehind
  <2>5. OwnRows(req[D])' = {}
    BY <2>3 DEF OwnRows
  <2> QED
    BY <2>2, <2>3, <2>4, <2>5, DelKnows
<1>5. CASE DelUpdateInfo
  <2>1. /\ pc[D] = "de_dec" /\ UpdateInfoCount(req[D].md5, tmp[D] - 1)
        /\ file_info[req[D].md5] # NoRow /\ tmp[D] \in Int
        /\ tmp[D] = file_info[req[D].md5].count /\ OwnRows(req[D]) = {}
        /\ UNCHANGED <<user_file_list, user_file_count>>
        /\ \/ pc'[D] = "de_fid" /\ req' = req /\ tmp[D] - 1 = 0
           \/ pc'[D] = "idle"
    BY ZenonT(30), <1>5, DelKnows DEF DelUpdateInfo, Goto, Finish, At, ProcOK, NumLabels,
      Knows, DelTail
  <2>2. /\ Books'
        /\ file_info'[req[D].md5] # NoRow
        /\ file_info'[req[D].md5].count = tmp[D] - 1
    BY SMT, <2>1, RefWritten DEF RefAhead, CountBehind
  <2>3. (OwnRows(req[D])' = {} /\ InfoCount(req[D].md5)' = 0) \/ pc'[D] = "idle"
    BY <2>1, <2>2 DEF OwnRows, InfoCount
  <2> QED
    BY <2>1, <2>2, <2>3, DelKnows, IdleKnowsNothing
<1>6. CASE DelSelectFileId
  <2>1. /\ pc[D] = "de_fid" /\ pc'[D] = "de_drop" /\ req' = req
        /\ UNCHANGED <<file_info, user_file_list, user_file_count>>
        /\ OwnRows(req[D]) = {} /\ InfoCount(req[D].md5) = 0
    BY <1>6, DelKnows DEF DelSelectFileId, Goto, At, ProcOK, sqlVars, Knows, DelTail
  <2>2. Books'
    BY <2>1, BooksKept DEF SameBooks, SameDue, RefAhead, CountBehind
  <2>3. OwnRows(req[D])' = {} /\ InfoCount(req[D].md5)' = 0
    BY <2>1 DEF OwnRows, InfoCount
  <2> QED
    BY <2>1, <2>2, <2>3, DelKnows
<1>7. CASE DelDeleteInfo
  <2>0. PICK k \in Md5s : k = req[D].md5
    BY <1>7 DEF DelDeleteInfo, At, Request
  <2>1. /\ pc[D] = "de_drop" /\ pc'[D] = "de_store" /\ req' = req
        /\ file_info' = [file_info EXCEPT ![k] = NoRow]
        /\ UNCHANGED <<user_file_list, user_file_count>>
        /\ OwnRows(req[D]) = {} /\ InfoCount(k) = 0
    BY <1>7, <2>0, DelKnows DEF DelDeleteInfo, Goto, At, ProcOK, Knows, DelTail
  <2>2. /\ \A m \in Md5s : Holders(m)' = Holders(m) /\ InfoCount(m)' = InfoCount(m)
        /\ \A u \in Users : ListOf(u)' = ListOf(u) /\ UserCount(u)' = UserCount(u)
    BY <2>0, <2>1 DEF Holders, ListOf, InfoCount, UserCount, TypeOK, DataOK
  <2>3. /\ \A m : RefDue(m)' = RefDue(m)
        /\ \A u : UserDue(u)' = UserDue(u)
    BY ZenonT(30), <2>1, DueOfSolo DEF RefAhead, CountBehind
  <2>4. Books'
    BY <2>1, <2>2, <2>3 DEF Books
  <2>5. OwnRows(req[D])' = {}
    BY <2>1 DEF OwnRows
  <2> QED
    BY <2>1, <2>4, <2>5, DelKnows
<1>8. CASE remove_file_from_storage
  <2>1. /\ pc[D] = "de_store" /\ pc'[D] = "idle"
        /\ UNCHANGED <<file_info, user_file_list, user_file_count>>
    BY <1>8 DEF remove_file_from_storage, Finish, At, ProcOK, sqlVars
  <2>2. Books'
    BY <2>1, BooksKept DEF SameBooks, SameDue, RefAhead, CountBehind
  <2> QED
    BY <2>1, <2>2, IdleKnowsNothing
<1> QED
  BY <1>1, <1>2, <1>3, <1>4, <1>5, <1>6, <1>7, <1>8

(* dealfile_cgi.c: share, delete and count a download. *)
LEMMA DealFileBooks ==
    ASSUME TypeOK, TypeOK', Alone, Balanced, DealFileNext, sqlErrs' = sqlErrs,
           Comes(D)
    PROVE  Balanced'
<1>a. CASE DealFileRefuse
  BY <1>a, IdleStep DEF DealFileRefuse, Refuse
<1> SUFFICES ASSUME ~DealFileRefuse PROVE Balanced'
  BY <1>a
<1>0. /\ D \in Cgis /\ ProcOK /\ ProcOK' /\ Books /\ Knows(D) /\ Solo(D)
      /\ pc[D] # "idle" => req[D] \in Requests /\ req[D] \in Request
      /\ ~DelError /\ ~PvError
  BY DealFileStart
<1>1. CASE ShareNext
  BY <1>1, ShareBooks
<1>2. CASE DelNext
  <2>1. Books' /\ Knows(D)'
    BY <1>0, <1>2, DelHeadBooks, DelTailBooks DEF DelNext
  <2> QED
    BY <1>0, <2>1, SoloBalanced
<1>3. CASE PvAccept
  <2>1. SameBooks /\ pc[D] = "idle" /\ pc'[D] = "pv_sel"
    BY <1>0, <1>3 DEF PvAccept, Accept, SameBooks, sqlVars, At, ProcOK
  <2>2. OwnRows(req'[D]) # {}
    BY <1>0, <1>3, OfferedOwn DEF PvAccept
  <2>3. Books' /\ Knows(D)'
    BY <1>0, <2>1, <2>2, OwnStep DEF OwnLabels
  <2> QED
    BY <1>0, <2>3, SoloBalanced
<1>4. CASE PvSelect
  <2>1. /\ UNCHANGED <<file_info, user_file_list, user_file_count>>
        /\ pc[D] \in OwnLabels
        /\ (req' = req /\ pc'[D] \in OwnLabels) \/ pc'[D] = "idle"
    BY <1>0, <1>4 DEF PvSelect, Goto, Finish, At, ProcOK, OwnLabels, sqlVars
  <2>2. Books' /\ Knows(D)'
    BY <1>0, <2>1, OwnStep DEF SameBooks
  <2> QED
    BY <1>0, <2>2, SoloBalanced
<1>5. CASE PvUpdate
  <2> DEFINE f == [x \in user_file_list |->
                     IF x \in OwnRows(req[D]) THEN [x EXCEPT !.pv = tmp[D] + 1]
                                              ELSE x]
  <2>1. /\ pc[D] = "pv_upd" /\ pc'[D] = "idle" /\ tmp[D] \in Int
        /\ user_file_list' = {f[x] : x \in user_file_list}
        /\ UNCHANGED <<file_info, user_file_count>>
    BY SMT, <1>0, <1>5 DEF PvUpdate, Finish, At, ProcOK, NumLabels
  <2>2. f \in [user_file_list -> UserRow]
    BY <2>1 DEF TypeOK, DataOK, UserRow
  <2>3. \A x \in user_file_list : /\ f[x].user = x.user
                                  /\ f[x].md5 = x.md5
                                  /\ f[x].filename = x.filename
    BY DEF TypeOK, DataOK, UserRow
  <2>4. SameDue(D)
    BY <2>1 DEF SameDue, RefAhead, CountBehind
  <2> HIDE DEF f
  <2>5. Books'
    BY <1>0, <2>1, <2>2, <2>3, <2>4, MarkedRows
  <2> QED
    BY ZenonT(30), <1>0, <2>1, <2>5, SoloBalanced, IdleKnowsNothing
<1> QED
  BY <1>0, <1>1, <1>2, <1>3, <1>4, <1>5 DEF DealFileNext, PvNext

(***************************************************************************)
(* The labels of dealsharefile_cgi.c at which nothing is known of the      *)
(* user's files.                                                           *)
(***************************************************************************)
ForeignLabels ==
    {"sp_sel", "sp_upd", "sp_zset", "sp_incr", "sp_zadd", "sp_hset",
     "ca_status", "ca_scsel", "ca_scwr", "ca_row", "ca_zrem", "ca_hdel",
     "sv_owned"}

(* At these labels there is nothing to show. *)
LEMMA ForeignLabelFacts ==
    /\ ForeignLabels \cap (RefAhead \cup CountBehind) = {}
    /\ pc'[S] \in ForeignLabels => Knows(S)'
<1>1. ForeignLabels \cap (RefAhead \cup CountBehind \cup Has \cup Lacks) = {}
  BY SMT DEF ForeignLabels, RefAhead, CountBehind, Has, Lacks, DelTail,
    DealFileLabels
<1>2. ForeignLabels \cap {"up_store", "up_info", "md_owned", "md_inc", "sv_inc",
         "de_dec", "up_wrcnt", "md_wrcnt", "sv_wrcnt", "de_ucwr", "de_fid",
         "de_drop"} = {}
  BY DEF ForeignLabels
<1> QED
  BY <1>1, <1>2 DEF Knows

(* A statement between such labels that writes no counted table. *)
LEMMA ForeignStep ==
    ASSUME S \in Cgis, Solo(S), Books, SameBooks,
           pc[S] \in ForeignLabels \cup {"idle"},
           pc'[S] \in ForeignLabels \cup {"idle"}
    PROVE  Books' /\ Knows(S)'
<1>1. SameDue(S)
  BY ForeignLabelFacts, IdleKnowsNothing DEF SameDue
<1> QED
  BY <1>1, BooksKept, ForeignLabelFacts, IdleKnowsNothing

(* pv_file and cancel_share_file: the books of the users stay. *)
LEMMA ForeignBooks ==
    ASSUME TypeOK, S \in Cgis, ProcOK, Books, Solo(S),
           SharePvNext \/ CancelNext
    PROVE  Books' /\ Knows(S)'
<1>1. CASE CancelClearStatus
  <2> DEFINE f == [x \in user_file_list |->
                     IF x \in OwnRows(req[S]) THEN [x EXCEPT !.shared_status = 0]
                                              ELSE x]
  <2>1. /\ pc[S] = "ca_status" /\ pc'[S] = "ca_scsel"
        /\ user_file_list' = {f[x] : x \in user_file_list}
        /\ UNCHANGED <<file_info, user_file_count>>
    BY <1>1 DEF CancelClearStatus, Goto, At, ProcOK
  <2>2. f \in [user_file_list -> UserRow]
    BY ZenonT(30) DEF TypeOK, DataOK, UserRow
  <2>3. \A x \in user_file_list : /\ f[x].user = x.user
                                  /\ f[x].md5 = x.md5
                                  /\ f[x].filename = x.filename
    BY DEF TypeOK, DataOK, UserRow
  <2>4. SameDue(S)
    BY <2>1 DEF SameDue, RefAhead, CountBehind
  <2> HIDE DEF f
  <2>5. Books'
    BY <2>1, <2>2, <2>3, <2>4, MarkedRows
  <2> QED
    BY <2>1, <2>5, ForeignLabelFacts DEF ForeignLabels
<1>2. CASE CancelWriteCount
  <2>1. SameBooks
    BY <1>2, ShareKeyOnly DEF CancelWriteCount
  <2>2. pc[S] = "ca_scwr" /\ pc'[S] = "ca_row"
    BY <1>2 DEF CancelWriteCount, Goto, At, ProcOK
  <2> QED
    BY <2>1, <2>2, ForeignStep DEF ForeignLabels
<1>3. CASE SharePvNext
  <2>1. UNCHANGED <<file_info, user_file_list, user_file_count>>
    BY <1>3 DEF SharePvNext, SharePvAccept, SharePvSelect, SharePvUpdate,
      SharePvAskRedis, rop_zset_increment, SharePvZadd, SharePvHset,
      SharePvError, SqlErrs, Accept, sqlVars
  <2>2. /\ pc[S] \in ForeignLabels \cup {"idle"}
        /\ pc'[S] \in ForeignLabels \cup {"idle"}
    BY <1>3 DEF SharePvNext, SharePvAccept, SharePvSelect, SharePvUpdate,
      SharePvAskRedis, rop_zset_increment, SharePvZadd, SharePvHset,
      SharePvError, Accept, Goto, Finish, At, ProcOK, ForeignLabels
  <2> QED
    BY <2>1, <2>2, ForeignStep DEF SameBooks
<1>4. CASE CancelNext /\ ~CancelClearStatus /\ ~CancelWriteCount
  <2>1. UNCHANGED <<file_info, user_file_list, user_file_count>>
    BY <1>4 DEF CancelNext, CancelAccept, CancelSelectCount, CancelDeleteShare,
      CancelZrem, CancelHdel, CancelError, SqlErrs, Accept, sqlVars
  <2>2. /\ pc[S] \in ForeignLabels \cup {"idle"}
        /\ pc'[S] \in ForeignLabels \cup {"idle"}
    BY <1>4 DEF CancelNext, CancelAccept, CancelSelectCount, CancelDeleteShare,
      CancelZrem, CancelHdel, CancelError, Accept, Goto, Finish, At, ProcOK,
      ForeignLabels
  <2> QED
    BY <2>1, <2>2, ForeignStep DEF SameBooks
<1> QED
  BY <1>1, <1>2, <1>3, <1>4

(* save_file: as deal_md5, for a file another user shares. *)
LEMMA SaveBooks ==
    ASSUME TypeOK, S \in Cgis, ProcOK, Books, Knows(S), Solo(S),
           pc[S] # "idle" => req[S] \in Requests /\ req[S] \in Request,
           SaveNext, ~SaveError
    PROVE  Books' /\ Knows(S)'
<1>1. CASE SaveAccept \/ SaveSelectOwned \/ SaveSelectInfo \/ SaveSelectCount
  <2>1. UNCHANGED <<file_info, user_file_list, user_file_count>>
    BY <1>1 DEF SaveAccept, Accept, SaveSelectOwned, SaveSelectInfo,
      SaveSelectCount, sqlVars
  <2>2. SameDue(S)
    BY <1>1 DEF SaveAccept, Accept, SaveSelectOwned, SaveSelectInfo,
      SaveSelectCount, Goto, Finish, At, SameDue, RefAhead, CountBehind, ProcOK
  <2>3. Books'
    BY <2>1, <2>2, BooksKept DEF SameBooks
  <2>4. Knows(S)'
    <3>1. CASE SaveAccept
      BY SMT, <2>1, <3>1 DEF SaveAccept, Accept, Goto, Finish, At, Knows, Has, Lacks,
        DealFileLabels, DelTail, CountBehind, ProcOK, OwnRows
    <3>2. CASE SaveSelectOwned
      BY SMT, <2>1, <3>2 DEF SaveSelectOwned, Goto, Finish, At, Knows, Has, Lacks,
        DealFileLabels, DelTail, CountBehind, ProcOK, OwnRows
    <3>3. CASE SaveSelectInfo
      BY SMT, <2>1, <3>3 DEF SaveSelectInfo, Goto, Finish, At, Knows, Has, Lacks,
        DealFileLabels, DelTail, CountBehind, ProcOK, OwnRows
    <3>4. CASE SaveSelectCount
      BY SMT, <2>1, <3>4 DEF SaveSelectCount, SelectCount, Goto, Finish, At, Knows, Has, Lacks,
        DealFileLabels, DelTail, CountBehind, ProcOK, OwnRows
    <3> QED
      BY <1>1, <3>1, <3>2, <3>3, <3>4
  <2> QED
    BY <2>3, <2>4
<1>2. CASE SaveUpdateInfo
  <2>1. /\ pc[S] = "sv_inc" /\ pc'[S] = "sv_row" /\ req' = req
        /\ UpdateInfoCount(req[S].md5, tmp[S] + 1)
        /\ OwnRows(req[S]) = {} /\ file_info[req[S].md5] # NoRow
        /\ tmp[S] = file_info[req[S].md5].count /\ tmp[S] \in Int
        /\ UNCHANGED <<user_file_list, user_file_count>>
    BY ZenonT(30), <1>2 DEF SaveUpdateInfo, Goto, At, ProcOK, Knows, Lacks, NumLabels
  <2>2. Books'
    BY SMT, <2>1, RefWritten DEF RefAhead, CountBehind
  <2>3. Knows(S)'
    BY <2>1 DEF Knows, Has, DealFileLabels, CountBehind, OwnRows
  <2> QED
    BY <2>2, <2>3
<1>3. CASE SaveInsertRow
  <2>1. /\ pc[S] = "sv_row" /\ pc'[S] = "sv_selcnt" /\ req' = req
        /\ InsertUserRow(req[S]) /\ OwnRows(req[S]) = {}
        /\ UNCHANGED <<file_info, user_file_count>>
    BY <1>3 DEF SaveInsertRow, Goto, At, ProcOK, Knows, Lacks
  <2>2. Books' /\ OwnRows(req[S])' # {}
    BY <2>1, RowInserted DEF RefAhead, CountBehind
  <2>3. Knows(S)'
    BY <2>1, <2>2 DEF Knows, Lacks, DelTail
  <2> QED
    BY <2>2, <2>3
<1>4. CASE SaveWriteCount
  <2>1. /\ pc[S] = "sv_wrcnt" /\ tmp[S] = user_file_count[req[S].user]
        /\ pc'[S] = "idle" /\ ~DuplicateKey(S, req[S].user)
    BY <1>4 DEF SaveWriteCount, Finish, At, ProcOK, Knows, DuplicateKey
  <2>2. /\ user_file_count' = CountAfterBump(S, req[S].user)
        /\ UNCHANGED <<file_info, user_file_list>>
    BY <1>4, <2>1 DEF SaveWriteCount
  <2>3. Books'
    BY <2>1, <2>2, CountWritten DEF RefAhead, CountBehind
  <2> QED
    BY <2>1, <2>3, IdleKnowsNothing
<1> QED
  BY <1>1, <1>2, <1>3, <1>4 DEF SaveNext

(* dealsharefile_cgi.c: count, withdraw, copy. *)
LEMMA DealShareBooks ==
    ASSUME TypeOK, TypeOK', Alone, Balanced, DealShareFileNext,
           sqlErrs' = sqlErrs, Comes(S)
    PROVE  Balanced'
<1>0. S \in Cgis /\ ProcOK /\ ProcOK' /\ Books /\ Knows(S)
  BY ServiceLabels DEF TypeOK, Balanced
<1>1. ~SharePvError /\ ~CancelError /\ ~SaveError
  BY SMT, BoundsAssumption DEF SharePvError, CancelError, SaveError, SqlErrs, TypeOK,
    EnvOK
<1>2. Moves(S)
  BY DealShareMoves
<1>3. Solo(S)
  BY <1>0, <1>2, DealShareFrame, AloneKept DEF Comes
<1>4. pc[S] # "idle" => req[S] \in Requests /\ req[S] \in Request
  BY <1>0, RequestsAssumption DEF ProcOK
<1>5. Books' /\ Knows(S)'
  BY <1>0, <1>1, <1>3, <1>4, ForeignBooks, SaveBooks DEF DealShareFileNext
<1> QED
  BY <1>0, <1>3, <1>5, SoloBalanced

(* sharefiles_cgi.c writes no table. *)
LEMMA ShareFilesBooks ==
    ASSUME TypeOK, TypeOK', Alone, Balanced, ShareFilesNext,
           sqlErrs' = sqlErrs, Comes(R)
    PROVE  Balanced'
<1>0. R \in Cgis /\ ProcOK /\ ProcOK' /\ Books /\ R # D /\ R # S
  BY ServiceLabels DEF TypeOK, Balanced, R, D, S
<1>1. UNCHANGED <<file_info, user_file_list, user_file_count>>
  BY DEF ShareFilesNext, RankAccept, RankSelectCount, RankZcard, RankDelZset,
    RankDelHash, RankSelectRows, RankZadd, RankHset, rop_zset_zrevrange,
    RankHget, RankScore, RankError, SqlErrs, Accept, sqlVars
<1>2. Moves(R)
  BY ShareFilesMoves
<1>3. Solo(R)
  BY <1>0, <1>2, ShareFilesFrame, AloneKept DEF Comes
<1>4. /\ pc[R] \in ShareFilesLabels \cup {"idle"}
      /\ pc'[R] \in ShareFilesLabels \cup {"idle"}
  BY <1>0 DEF ProcOK, LabelsOf, R, D, S
<1>5. SameDue(R)
  BY <1>4 DEF SameDue, RefAhead, CountBehind, ShareFilesLabels
<1>6. Knows(R)'
  BY <1>4 DEF Knows, Has, Lacks, DelTail, DealFileLabels, CountBehind,
    ShareFilesLabels
<1>7. Books'
  BY <1>0, <1>1, <1>3, <1>5, BooksKept DEF SameBooks
<1> QED
  BY <1>0, <1>3, <1>6, <1>7, SoloBalanced

-----------------------------------------------------------------------------
(* An upload or a delete in hand is still in hand. *)
HandsStay ==
    /\ At("upload", "up_info") => At("upload", "up_info")' /\ fileid' = fileid
    /\ At(D, "de_store") => At(D, "de_store")' /\ del_id' = del_id

(* With rows and files kept, what is in hand accounts for the rest. *)
LEMMA QuietStored ==
    ASSUME Stored, KeepsInfo, UNCHANGED storeVars, HandsStay
    PROVE  Stored'
<1>1. \A i : InRow(i)' <=> InRow(i)
  BY InRowKept
<1> QED
  BY <1>1 DEF Stored, HandsStay, storeVars

(* upload_cgi.c stores a file, then makes a row name it. *)
LEMMA UploadStored ==
    ASSUME TypeOK, Stored, Knows("upload"), UploadNext, sqlErrs' = sqlErrs,
           UNCHANGED dealfileVars
    PROVE  Stored'
<1> DEFINE p == "upload"
<1>0. p \in Cgis /\ ProcOK /\ D \in Cgis /\ p # D
  BY ServiceLabels DEF TypeOK, D
<1>1. At(D, "de_store")' = At(D, "de_store") /\ del_id' = del_id
  BY <1>0, UploadFrame DEF Others, At, dealfileVars
<1>2. ~UploadError
  BY SMT, BoundsAssumption DEF UploadError, SqlErrs, TypeOK, EnvOK
<1>3. CASE upload_to_dstorage
  <2>1. \A i : InRow(i)' <=> InRow(i)
    BY <1>3 DEF upload_to_dstorage, sqlVars, InRow
  <2>2. /\ storage' = storage \cup {nextFid} /\ fileid' = nextFid
        /\ ~At(p, "up_info") /\ At(p, "up_info")'
    BY <1>0, <1>3 DEF upload_to_dstorage, Goto, At, ProcOK
  <2> QED
    BY <1>1, <2>1, <2>2 DEF Stored
<1>4. CASE UploadInsertInfo
  <2>1. PICK k \in Md5s : k = req[p].md5
    BY <1>0, <1>4, RequestType DEF UploadInsertInfo, At, TypeOK
  <2> DEFINE row == [file_id |-> fileid, count |-> 1]
  <2>2. /\ file_info[k] = NoRow /\ UNCHANGED storeVars
        /\ file_info' = [file_info EXCEPT ![k] = row]
    BY <1>4, <2>1 DEF UploadInsertInfo, Knows, At
  <2>3. row # NoRow /\ row.file_id = fileid
    BY SMT, NullAssumption DEF TypeOK, LocalOK, InfoRow
  <2> HIDE DEF row
  <2>4. InRow(fileid)' /\ \A i : InRow(i) => InRow(i)'
    <3>1. /\ file_info'[k] = row
          /\ \A m \in Md5s \ {k} : file_info'[m] = file_info[m]
      BY <2>2 DEF TypeOK, DataOK
    <3>2. \A i : InRow(i) => InRow(i)'
      BY <2>2, <3>1 DEF InRow
    <3>3. \E m \in Md5s : file_info'[m] # NoRow /\ file_info'[m].file_id = fileid
      BY <2>3, <3>1
    <3>4. fileid' = fileid
      BY <1>4, <2>1, <2>2 DEF UploadInsertInfo
    <3> QED
      BY <3>2, <3>3, <3>4 DEF InRow
  <2>5. fileid' = fileid
    BY <1>4, <2>1, <2>2 DEF UploadInsertInfo
  <2> QED
    BY <1>1, <2>2, <2>4, <2>5 DEF Stored, storeVars
<1>5. CASE ~upload_to_dstorage /\ ~UploadInsertInfo
  <2>1. KeepsInfo /\ UNCHANGED storeVars
    BY <1>5, UploadKeepsInfo
  <2>2. ~At(p, "up_info")
    BY <1>2, <1>5 DEF UploadNext, UploadAccept, Accept, UploadInsertRow,
      UploadSelectCount, UploadWriteCount, At
  <2> QED
    BY <1>1, <2>1, <2>2, QuietStored DEF HandsStay
<1> QED
  BY <1>3, <1>4, <1>5

(* del_file deletes the row, then the file that only this row named. *)
LEMMA DealFileStored ==
    ASSUME TypeOK, StorageInv, Stored, DealFileNext, sqlErrs' = sqlErrs,
           UNCHANGED fileid
    PROVE  Stored'
<1>0. "upload" \in Cgis /\ ProcOK /\ D \in Cgis /\ "upload" # D
  BY ServiceLabels DEF TypeOK, D
<1>1. At("upload", "up_info")' = At("upload", "up_info") /\ fileid' = fileid
  BY <1>0, DealFileFrame DEF Others, At
<1>2. ~ShareError /\ ~DelError /\ ~PvError
  BY SMT, BoundsAssumption DEF ShareError, DelError, PvError, SqlErrs, TypeOK, EnvOK
<1>3. CASE DelDeleteInfo
  <2>1. PICK k \in Md5s : k = req[D].md5
    BY <1>0, <1>3, RequestType DEF DelDeleteInfo, At, TypeOK
  <2>2. /\ At(D, "de_drop") /\ At(D, "de_store")' /\ del_id' = del_id
        /\ file_info' = [file_info EXCEPT ![k] = NoRow] /\ UNCHANGED storeVars
    BY <1>0, <1>3, <2>1 DEF DelDeleteInfo, Goto, At, ProcOK, dealfileVars
  <2>3. file_info[k].file_id = del_id
    BY <2>1, <2>2 DEF StorageInv, RowStaysForDelete
  <2>4. \A i : InRow(i) => InRow(i)' \/ i = del_id
    BY <2>2, <2>3 DEF InRow, TypeOK, DataOK
  <2>5. ~At(D, "de_store")
    BY <2>2 DEF At
  <2> QED
    BY <1>1, <2>2, <2>4, <2>5 DEF Stored, storeVars
<1>4. CASE remove_file_from_storage
  <2>1. /\ \A i : InRow(i)' <=> InRow(i)
        /\ storage' = storage \ {del_id}
    BY <1>4 DEF remove_file_from_storage, sqlVars, InRow
  <2> QED
    BY <1>1, <2>1 DEF Stored
<1>5. CASE ~DelDeleteInfo /\ ~remove_file_from_storage
  <2>1. KeepsInfo /\ UNCHANGED storeVars
    BY <1>5, DealFileKeepsInfo
  <2>2. ~At(D, "de_store")
    <3>1. ShareNext \/ PvNext \/ DealFileRefuse => ~At(D, "de_store")
      BY <1>2 DEF ShareNext, ShareAccept, ShareAskRedis, ShareSelect,
        ShareRepair, ShareSetStatus, ShareInsert, ShareSelectCount,
        ShareWriteCount, ShareZadd, ShareHset, PvNext, PvAccept, PvSelect,
        PvUpdate, DealFileRefuse, Refuse, Accept, At
    <3>2. DelNext => ~At(D, "de_store")
      BY <1>2, <1>5 DEF DelNext, DelAccept, DelAskRedis, DelSelectStatus,
        DelDeleteShare, DelSelectShareCount, DelWriteShareCount, DelZrem,
        DelHdel, DelSelectUserCount, DelWriteUserCount, DelDeleteRow,
        DelSelectInfo, DelUpdateInfo, DelSelectFileId, Accept, At
    <3> QED
      BY <3>1, <3>2 DEF DealFileNext
  <2> QED
    BY <1>1, <2>1, <2>2, QuietStored DEF HandsStay
<1> QED
  BY <1>3, <1>4, <1>5

(* At most one process works. *)
LEMMA AloneStep ==
    ASSUME TypeOK, TypeOK', Alone, [SerialNext]_vars
    PROVE  Alone'
<1>1. CASE \E p \in Cgis : ServiceStep(p) /\ Comes(p)
  BY ZenonT(30), <1>1, ServiceFrame, AloneKept DEF Comes, TypeOK
<1>2. CASE \E p \in Cgis : Kill(p)
  BY SMT, <1>2 DEF Kill, Finish, Alone, Working, At, TypeOK, ProcOK
<1>3. CASE RedisLoss \/ UNCHANGED vars
  BY <1>3 DEF RedisLoss, vars, stateVars, procVars, Alone, Working, At
<1> QED
  BY <1>1, <1>2, <1>3, SerialCases

(* A step without a fault keeps the books, and no file is forgotten. *)
LEMMA BalancedStep ==
    ASSUME TypeOK, TypeOK', StorageInv, Alone, Balanced, Stored,
           [SerialNext]_vars, sqlErrs' = sqlErrs, kills' = kills
    PROVE  Balanced' /\ Stored'
<1>0. \A p \in Cgis : ~Kill(p)
  <2>1. kills \in Nat
    BY SMT, BoundsAssumption DEF TypeOK, EnvOK
  <2>2. kills' # kills + 1
    BY SMT, <2>1
  <2> QED
    BY <2>2 DEF Kill
<1>1. ASSUME NEW p \in Cgis, ServiceStep(p), Comes(p)
      PROVE  Balanced'
  <2>1. UploadNext /\ Comes("upload") => Balanced'
    BY UploadBooks
  <2>2. Md5Next /\ Comes("md5") => Balanced'
    BY Md5Books
  <2>3. DealFileNext /\ Comes(D) => Balanced'
    BY DealFileBooks
  <2>4. DealShareFileNext /\ Comes(S) => Balanced'
    BY DealShareBooks
  <2>5. ShareFilesNext /\ Comes(R) => Balanced'
    BY ShareFilesBooks
  <2> QED
    BY <1>1, <2>1, <2>2, <2>3, <2>4, <2>5 DEF ServiceStep, UploadStep, Md5Step,
      DealFileStep, DealShareStep, ShareFilesStep
<1>2. ASSUME UploadStep PROVE Stored'
  BY <1>2, UploadStored, ServiceLabels DEF UploadStep, Balanced
<1>3. ASSUME DealFileStep PROVE Stored'
  BY <1>3, DealFileStored DEF DealFileStep
<1>4. ASSUME NEW p \in {"md5", S, R}, ServiceStep(p)
      PROVE  Stored'
  <2>1. /\ p \in Cgis /\ "upload" \in Cgis \ {p} /\ D \in Cgis \ {p}
        /\ p # "upload" /\ p # D
    BY ServiceLabels DEF S, R, D
  <2>2. Others(p)
    BY <1>4, <2>1, ServiceFrame
  <2>3. KeepsInfo /\ UNCHANGED storeVars /\ fileid' = fileid /\ del_id' = del_id
    BY <1>4, <2>1, Md5KeepsInfo, DealShareKeepsInfo, ShareFilesKeepsInfo
       DEF ServiceStep, Md5Step, DealShareStep, ShareFilesStep, localVars,
           dealfileVars
  <2>4. HandsStay
    BY <2>1, <2>2, <2>3 DEF HandsStay, Others, At
  <2> QED
    BY <2>3, <2>4, QuietStored
<1>5. ASSUME NEW p \in Cgis, ServiceStep(p)
      PROVE  Stored'
  BY <1>2, <1>3, <1>4, <1>5 DEF ServiceStep
<1>6. CASE RedisLoss \/ UNCHANGED vars
  <2>1. UNCHANGED <<sqlVars, storeVars, pc, req, tmp, fileid, del_id>>
    BY <1>6 DEF RedisLoss, vars, stateVars, procVars, localVars, dealfileVars
  <2>2. KeepsInfo /\ HandsStay
    BY <2>1 DEF KeepsInfo, HandsStay, At, sqlVars
  <2> QED
    BY <2>1, <2>2, IdleStep, QuietStored
<1> QED
  BY <1>0, <1>1, <1>5, <1>6, SerialCases

(* The bookkeeping invariant holds at the start and is inductive. *)
LEMMA BooksInit == Init => BooksInv
<1> SUFFICES ASSUME Init PROVE BooksInv
  OBVIOUS
<1>1. \A p \in Cgis : pc[p] = "idle"
  BY DEF Init, StateInit
<1>2. Alone /\ Stored
  BY <1>1 DEF Init, StateInit, Alone, Working, At, Stored
<1>3. "idle" \notin RefAhead \cup CountBehind \cup Has \cup Lacks
  BY DEF RefAhead, CountBehind, Has, Lacks, DelTail, DealFileLabels
<1>4. \A p \in Cgis : Knows(p)
  BY <1>1, <1>3 DEF Knows
<1>5. /\ \A m \in Md5s : Holders(m) = {} /\ InfoCount(m) = 0 /\ RefDue(m) = 0
      /\ \A u \in Users : ListOf(u) = {} /\ UserCount(u) = 0 /\ UserDue(u) = 0
  BY <1>1, <1>3 DEF Init, StateInit, Holders, ListOf, InfoCount, UserCount,
    RefDue, UserDue, CountKeys
<1>6. user_file_list = {} /\ IsFiniteSet({}) /\ Cardinality({}) = 0
  BY FS_EmptySet DEF Init, StateInit
<1>7. /\ \A m \in Md5s : Cardinality(Holders(m)) = 0
      /\ \A u \in Users : Cardinality(ListOf(u)) = 0
  BY <1>5, <1>6
<1>8. Books
  BY SMT, <1>5, <1>6, <1>7 DEF Books
<1> QED
  BY <1>2, <1>4, <1>8 DEF BooksInv

(* every serial step keeps the books, statement by statement *)
LEMMA BooksStep ==
    ASSUME TypeOK, TypeOK', StorageInv, BooksInv, [SerialNext]_vars
    PROVE  BooksInv'
<1>1. Alone'
  BY AloneStep DEF BooksInv
<1>2. [Next]_vars
  BY DEF SerialNext, OneAtATimeNext
<1>3. ASSUME NoFault' PROVE NoFault /\ sqlErrs' = sqlErrs /\ kills' = kills
  <2>1. sqlErrs \in Nat /\ kills \in Nat
    BY SMT, BoundsAssumption DEF TypeOK, EnvOK
  <2>2. sqlErrs' >= sqlErrs /\ kills' >= kills
    BY <1>2, FaultsStay
  <2> QED
    BY SMT, <1>3, <2>1, <2>2 DEF NoFault
<1>4. NoFault' => Balanced' /\ Stored'
  BY <1>3, BalancedStep DEF BooksInv, Balanced
<1> QED
  BY <1>1, <1>4 DEF BooksInv, Balanced

-----------------------------------------------------------------------------
(* With every service idle the counters are off by nothing. *)
LEMMA NothingDue ==
    ASSUME AllIdle
    PROVE  /\ \A m : RefDue(m) = 0
           /\ \A u : UserDue(u) = 0
<1>1. "idle" \notin RefAhead \cup CountBehind
  BY DEF RefAhead, CountBehind
<1> QED
  BY <1>1 DEF AllIdle, At, RefDue, UserDue

(* when del_file removes content, the count it read as 1 was its own reference *)
LEMMA DroppedHasNone ==
    ASSUME TypeOK, Books, Knows(D)
    PROVE  UnreferencedWhenGone
<1> SUFFICES ASSUME At(D, "de_drop")
             PROVE  Holders(req[D].md5) = {}
  BY DEF UnreferencedWhenGone, Holders
<1>1. PICK k \in Md5s : k = req[D].md5
  BY ServiceLabels, RequestType DEF TypeOK, At
<1>2. InfoCount(k) = 0
  BY <1>1 DEF Knows, At
<1>3. IsFiniteSet(Holders(k)) /\ InfoCount(k) = Cardinality(Holders(k)) + RefDue(k)
  BY FS_Subset DEF Books, Holders
<1>4. Cardinality(Holders(k)) \in Nat /\ RefDue(k) \in {0, 1}
  BY <1>3, FS_CardinalityType DEF RefDue
<1>5. Cardinality(Holders(k)) = 0
  BY SMT, <1>2, <1>3, <1>4
<1> QED
  BY <1>1, <1>3, <1>5, FS_EmptySet

(* what ServiceProofs uses of the books follows from them *)
LEMMA BooksCounted ==
    ASSUME TypeOK, Balanced
    PROVE  Counted
<1>1. Books /\ ProcOK /\ Knows(D)
  BY ServiceLabels DEF TypeOK, Balanced
<1>2. \A r \in Request : OwnRows(r) # {} => file_info[r.md5] # NoRow
  BY <1>1, NoRowNoHolder
<1>3. \A p \in Cgis : pc[p] \in RefAhead /\ req[p] \in Request =>
        file_info[req[p].md5] # NoRow
  BY <1>1, AheadHasRow
<1> QED
  BY <1>1, <1>2, <1>3, DroppedHasNone DEF Counted

===========================================================================
