---------------------------- MODULE FileLibrary ----------------------------
(***************************************************************************)
(* What the services promise their users, when requests come one at a      *)
(* time and nothing fails: a digest is held from before the first user has *)
(* it until after the last user has given it up; a user adds a file once   *)
(* and shares only a file of their own that nobody shares yet.             *)
(***************************************************************************)
CONSTANTS Users, Digests, Names

VARIABLES
    held,     \* the digests the server holds
    own,      \* <<user, digest, name>>: what each user has
    shared    \* <<user, digest, name>>: what each user shares

vars == <<held, own, shared>>

Files == Users \X Digests \X Names

Init == held = {} /\ own = {} /\ shared = {}

Bring(d) ==
    /\ held' = held \cup {d}
    /\ UNCHANGED <<own, shared>>

Add(f) ==
    /\ f \notin own
    /\ f[2] \in held
    /\ own' = own \cup {f}
    /\ UNCHANGED <<held, shared>>

Share(f) ==
    /\ f \in own
    /\ \A g \in shared : <<g[2], g[3]>> # <<f[2], f[3]>>
    /\ shared' = shared \cup {f}
    /\ UNCHANGED <<held, own>>

Unshare(f) ==
    /\ shared' = shared \ {f}
    /\ UNCHANGED <<held, own>>

GiveUp(f) ==
    /\ own' = own \ {f}
    /\ UNCHANGED <<held, shared>>

Discard(d) ==
    /\ \A f \in own : f[2] # d
    /\ held' = held \ {d}
    /\ UNCHANGED <<own, shared>>

Next ==
    \/ \E d \in Digests : Bring(d) \/ Discard(d)
    \/ \E f \in Files : Add(f) \/ Share(f) \/ Unshare(f) \/ GiveUp(f)

Spec == Init /\ [][Next]_vars
=============================================================================
