---------------------------- MODULE ContentStore ----------------------------
(***************************************************************************)
(* What the services promise about content: a digest is published under    *)
(* the file that holds its content, that file is not removed while it is   *)
(* published, no two digests are published under one file, and an id that  *)
(* was given out once never names other content.                           *)
(***************************************************************************)
EXTENDS Naturals

CONSTANTS
    Digests,
    NoFile      \* the digest is not published

VARIABLES
    live,       \* files that can be read
    published,  \* the file of each digest
    next        \* ids below next have been given out

vars == <<live, published, next>>

Published == {published[d] : d \in Digests} \ {NoFile}

Init ==
    /\ live = {}
    /\ published = [d \in Digests |-> NoFile]
    /\ next = 1

Store ==
    /\ live' = live \cup {next}
    /\ next' = next + 1
    /\ UNCHANGED published

Publish(d) ==
    /\ published[d] = NoFile
    /\ \E i \in live \ Published :
          published' = [published EXCEPT ![d] = i]
    /\ UNCHANGED <<live, next>>

Withdraw(d) ==
    /\ published[d] # NoFile
    /\ published' = [published EXCEPT ![d] = NoFile]
    /\ UNCHANGED <<live, next>>

(* a file that no digest is published under *)
Remove ==
    /\ \E i \in live \ Published : live' = live \ {i}
    /\ UNCHANGED <<published, next>>

Next == Store \/ Remove \/ \E d \in Digests : Publish(d) \/ Withdraw(d)

Spec == Init /\ [][Next]_vars
=============================================================================
