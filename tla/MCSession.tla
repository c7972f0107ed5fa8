----------------------------- MODULE MCSession -----------------------------
(***************************************************************************)
(* MyFilesCgi for TLC.  All requests at once are too many behaviours, so a *)
(* behaviour is one of three mixes: registering and logging in under       *)
(* faults, where a login may lack its fields, two clients whose requests   *)
(* share the buffers, and one client that walks its pages while the rows   *)
(* change.  Clients, nicknames and passwords are alike; users are not,     *)
(* since one of them owns the rows.                                        *)
(***************************************************************************)
EXTENDS MyFilesCgi, TLC

VARIABLE mix     \* at most how often each thing happens

Mix(o, r, l, q, cut, ch, e, k, x) ==
    [old |-> o, registers |-> r, logins |-> l, lists |-> q, cuts |-> cut,
     changes |-> ch, sqlErrs |-> e, kills |-> k, expiries |-> x]

Mixes == {Mix(1, 1, 2, 0, 0, 0, 1, 1, 1), Mix(2, 0, 2, 2, 2, 0, 0, 0, 1),
          Mix(2, 0, 1, 4, 0, 1, 1, 0, 1)}

Within ==
    /\ registers <= mix.registers /\ logins <= mix.logins
    /\ lists <= mix.lists /\ cuts <= mix.cuts /\ changes <= mix.changes
    /\ sqlErrs <= mix.sqlErrs /\ kills <= mix.kills
    /\ expiries <= mix.expiries
    /\ login # Idle /\ mix.registers = 0 => None \notin {login.user, login.pwd}

MCInit ==
    /\ Init
    /\ mix \in Mixes
    /\ Cardinality({u \in Users : user[u] # None}) = mix.old
MCNext == Next /\ UNCHANGED mix /\ Within'
MCSpec == MCInit /\ [][MCNext]_<<vars, mix>>

Alike == Permutations(Clients) \cup Permutations(Nicks) \cup Permutations(Pwds)
=============================================================================
