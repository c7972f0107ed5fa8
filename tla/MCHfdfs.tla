------------------------------ MODULE MCHfdfs ------------------------------
(***************************************************************************)
(* Instances of Hfdfs for TLC.  Two users, one or two digests, one to      *)
(* three names; the configurations differ in the requests clients send and *)
(* in how many faults may happen.                                          *)
(***************************************************************************)
EXTENDS Bookkeeping, TLC

(* member strings in the order TLC lists the digests and the names *)
Position(x, T) ==
    LET order == CHOOSE f \in [T -> 1 .. Cardinality(T)] :
                    \A a, b \in T : f[a] = f[b] => a = b
    IN order[x]

StringOrder ==
    [f \in Md5s \X Names |->
       Position(f[1], Md5s) * (Cardinality(Names) + 1) + Position(f[2], Names)]

Send(cmds, users, names) ==
    [cmd : cmds, user : users, md5 : Md5s, filename : names]

AllRequests == Send(Cmds, Users, Names)

(* the services that keep the reference counts *)
ContentRequests == Send({"upload", "md5", "save", "del"}, Users, Names)

(* the services that keep the shares, in MySQL and in Redis *)
SomeUser == CHOOSE u \in Users : TRUE

ShareRequests ==
    Send({"share", "cancel", "del"}, Users, Names)
       \cup Send({"sharepv", "ranking"}, {SomeUser}, Names)

(* instant uploads that meet deletes *)
DeleteRequests == Send({"upload", "md5", "del"}, Users, Names)

(* a user who deletes only files of their own, but may send that twice *)
ResendRequests ==
    Send({"upload", "del"}, {SomeUser}, Names)
       \cup Send({"md5"}, Users \ {SomeUser}, Names)

(* shares and their download counters *)
LookupRequests == Send({"share", "sharepv", "del"}, {SomeUser}, Names)

(* shares, their download counters and the ranking *)
RankRequests ==
    Send({"share", "pv", "sharepv", "cancel", "ranking"}, {SomeUser}, Names)

UserSymmetry == Permutations(Users)
=============================================================================
