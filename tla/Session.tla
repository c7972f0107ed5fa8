------------------------------ MODULE Session ------------------------------
(***************************************************************************)
(* Accounts and tokens: register_cgi.c fills the table user, login_cgi.c   *)
(* checks a password against it and leaves a token in Redis under the      *)
(* user's name, and verify_token compares the token of a request with it.  *)
(* Each service is one process.  A login carries a name and a password or  *)
(* lacks them, which leaves the empty string, None; a password that was    *)
(* registered is not empty.  The tokens of different names are taken to    *)
(* differ, as digests of the name.                                         *)
(***************************************************************************)
EXTENDS Naturals, Sequences, FiniteSets

CONSTANTS
    Users, Nicks, Pwds,
    Clients,         \* browsers; several may log in to one account
    None,            \* no row, no key, no token, an empty string
    MaxRegisters,    \* bounds on the requests of each kind
    MaxLogins,
    MaxSqlErrs,      \* bound on failing statements and connections
    MaxKills,        \* bound on killed processes
    MaxExpiries      \* bound on expired tokens and Redis restarts

Account == [nick : Nicks, pwd : Pwds]
Names == Users \cup {None}
Token == Names \X (1 .. MaxLogins)

ASSUME SessionAssumption ==
    /\ {MaxRegisters, MaxLogins, MaxSqlErrs} \subseteq Nat
    /\ {MaxKills, MaxExpiries} \subseteq Nat
    /\ None \notin Users \cup Nicks \cup Pwds \cup Clients
    /\ None \notin Account \cup Token

VARIABLES
    user,        \* the table user, by its unique name
    tokens,      \* the string Redis holds under each name
    made,        \* tokens generated for each name
    login,       \* the login process
    register,    \* the register process
    held,        \* the token each client was last told
    said,        \* the answer of login or register last printed
    logins, registers, sqlErrs, kills, expiries

accountVars == <<user, register, registers>>
tokenVars == <<tokens, made, expiries>>
loginVars == <<login, held, logins>>
sessionVars == <<accountVars, tokenVars, loginVars, said, sqlErrs, kills>>

Idle == [pc |-> "idle"]

(* the keys uq_name and uq_nickname let the row in *)
KeysFree(u, k) ==
    user[u] = None /\ \A v \in Users : user[v] # None => user[v].nick # k

(* some users have registered earlier; their tokens have expired *)
SessionInit ==
    /\ user \in [Users -> Account \cup {None}]
    /\ \A u, v \in Users :
          u # v /\ None \notin {user[u], user[v]} => user[u].nick # user[v].nick
    /\ tokens = [u \in Names |-> None]
    /\ made = [u \in Names |-> 0]
    /\ login = Idle /\ register = Idle
    /\ held = [c \in Clients |-> None]
    /\ said = "none"
    /\ logins = 0 /\ registers = 0 /\ sqlErrs = 0 /\ kills = 0 /\ expiries = 0

(* a statement, or the connection it needs, fails *)
Fails == sqlErrs < MaxSqlErrs /\ sqlErrs' = sqlErrs + 1
Works == UNCHANGED sqlErrs
-----------------------------------------------------------------------------
(* register_cgi.c *)

RegisterAccept(u, k, p) ==
    /\ register = Idle
    /\ registers < MaxRegisters
    /\ registers' = registers + 1
    /\ register' = [pc |-> "select", name |-> u, nick |-> k, pwd |-> p]
    /\ said' = "none"
    /\ UNCHANGED <<user, tokenVars, loginVars, sqlErrs, kills>>

RegisterAnswer(code) ==
    /\ said' = code
    /\ register' = Idle

(***************************************************************************)
(* select * from user where name: a failing SELECT is taken for "no row",  *)
(* a failing connection is answered.                                       *)
(***************************************************************************)
RegisterSelect ==
    /\ register.pc = "select"
    /\ \/ /\ Works
          /\ user[register.name] # None
          /\ RegisterAnswer("003")
       \/ /\ (Works /\ user[register.name] = None) \/ Fails
          /\ register' = [register EXCEPT !.pc = "insert"]
          /\ UNCHANGED said
       \/ Fails /\ RegisterAnswer("004")
    /\ UNCHANGED <<user, registers, tokenVars, loginVars, kills>>

(* mutant: the result of the INSERT is not looked at *)
RegisterInsertUntested ==
    /\ register.pc = "insert"
    /\ \/ /\ Works
          /\ KeysFree(register.name, register.nick)
          /\ user' = [user EXCEPT ![register.name] =
                         [nick |-> register.nick, pwd |-> register.pwd]]
       \/ /\ (Works /\ ~KeysFree(register.name, register.nick)) \/ Fails
          /\ UNCHANGED user
    /\ RegisterAnswer("002")
    /\ UNCHANGED <<registers, tokenVars, loginVars, kills>>

RegisterInsert ==
    /\ register.pc = "insert"
    /\ \/ /\ Works
          /\ KeysFree(register.name, register.nick)
          /\ user' = [user EXCEPT ![register.name] =
                         [nick |-> register.nick, pwd |-> register.pwd]]
          /\ RegisterAnswer("002")
       \/ /\ (Works /\ ~KeysFree(register.name, register.nick)) \/ Fails
          /\ RegisterAnswer("004")
          /\ UNCHANGED user
    /\ UNCHANGED <<registers, tokenVars, loginVars, kills>>

RegisterNext ==
    \/ \E u \in Users, k \in Nicks, p \in Pwds : RegisterAccept(u, k, p)
    \/ RegisterSelect \/ RegisterInsert
-----------------------------------------------------------------------------
(* login_cgi.c *)

(* the password of a name; empty where the table has no such row *)
Password(u) == IF u \in Users /\ user[u] # None THEN user[u].pwd ELSE None

(***************************************************************************)
(* get_login_info copies user, then pwd, and stops at the first that is    *)
(* missing; main goes on with what there is.  equal is history: when the   *)
(* request came in, its password was the name's, or both were empty.       *)
(***************************************************************************)
LoginAccept(c, u, p) ==
    /\ login = Idle
    /\ logins < MaxLogins
    /\ logins' = logins + 1
    /\ login' = [pc |-> "select", client |-> c, user |-> u, pwd |-> p,
                 token |-> None, equal |-> p = Password(u)]
    /\ said' = "none"
    /\ UNCHANGED <<accountVars, tokenVars, held, sqlErrs, kills>>

LoginRefuse ==
    /\ said' = "001"
    /\ login' = Idle

(* mutant: a row is enough, its password is not compared *)
check_user_pwdAnyRow ==
    /\ login.pc = "select"
    /\ \/ /\ Works
          /\ Password(login.user) # None
          /\ login' = [login EXCEPT !.pc = "setex"]
          /\ UNCHANGED said
       \/ /\ (Works /\ Password(login.user) = None) \/ Fails
          /\ LoginRefuse
    /\ UNCHANGED <<accountVars, tokenVars, held, logins, kills>>

(***************************************************************************)
(* select password from user where name, into tmp, which stays empty where *)
(* there is no row or the SELECT fails; then an empty password is equal to *)
(* it.  A failing connection refuses.                                      *)
(***************************************************************************)
check_user_pwd ==
    /\ login.pc = "select"
    /\ \/ /\ \/ Works /\ login.pwd = Password(login.user)
             \/ Fails /\ login.pwd = None
          /\ login' = [login EXCEPT !.pc = "setex"]
          /\ UNCHANGED said
       \/ /\ (Works /\ login.pwd # Password(login.user)) \/ Fails
          /\ LoginRefuse
    /\ UNCHANGED <<accountVars, tokenVars, held, logins, kills>>

(* mutant: SETEX with its arguments swapped *)
set_tokenSwapped ==
    /\ login.pc = "setex"
    /\ \/ /\ Works
          /\ \E n \in {made[login.user], made[login.user] + 1} \ {0} :
                /\ made' = [made EXCEPT ![login.user] = n]
                /\ tokens' = [tokens EXCEPT ![login.user] = login.user]
                /\ login' = [login EXCEPT !.pc = "reply",
                                          !.token = <<login.user, n>>]
          /\ UNCHANGED said
       \/ /\ Fails
          /\ LoginRefuse
          /\ UNCHANGED <<tokens, made>>
    /\ UNCHANGED <<accountVars, expiries, held, logins, kills>>

(* mutant: the token told is the first one, not the one stored *)
set_tokenStale ==
    /\ login.pc = "setex"
    /\ \/ /\ Works
          /\ \E n \in {made[login.user], made[login.user] + 1} \ {0} :
                /\ made' = [made EXCEPT ![login.user] = n]
                /\ tokens' = [tokens EXCEPT ![login.user] = <<login.user, n>>]
                /\ login' = [login EXCEPT !.pc = "reply",
                                          !.token = <<login.user, 1>>]
          /\ UNCHANGED said
       \/ /\ Fails
          /\ LoginRefuse
          /\ UNCHANGED <<tokens, made>>
    /\ UNCHANGED <<accountVars, expiries, held, logins, kills>>

(***************************************************************************)
(* SETEX name 86400 token.  The token depends on the name and on rand()    *)
(* seeded with the second, so two logins in one second get the same one.   *)
(***************************************************************************)
set_token ==
    /\ login.pc = "setex"
    /\ \/ /\ Works
          /\ \E n \in {made[login.user], made[login.user] + 1} \ {0} :
                /\ made' = [made EXCEPT ![login.user] = n]
                /\ tokens' = [tokens EXCEPT ![login.user] = <<login.user, n>>]
                /\ login' = [login EXCEPT !.pc = "reply",
                                          !.token = <<login.user, n>>]
          /\ UNCHANGED said
       \/ /\ Fails
          /\ LoginRefuse
          /\ UNCHANGED <<tokens, made>>
    /\ UNCHANGED <<accountVars, expiries, held, logins, kills>>

LoginReply ==
    /\ login.pc = "reply"
    /\ held' = [held EXCEPT ![login.client] = login.token]
    /\ said' = "000"
    /\ login' = Idle
    /\ UNCHANGED <<accountVars, tokenVars, logins, sqlErrs, kills>>

LoginNext ==
    \/ \E c \in Clients, u \in Names, p \in Pwds \cup {None} : LoginAccept(c, u, p)
    \/ check_user_pwd \/ set_token \/ LoginReply
-----------------------------------------------------------------------------
(* a day passes for one token, or Redis has lost it *)
Expire(u) ==
    /\ tokens[u] # None
    /\ expiries < MaxExpiries
    /\ expiries' = expiries + 1
    /\ tokens' = [tokens EXCEPT ![u] = None]
    /\ UNCHANGED <<accountVars, made, loginVars, said, sqlErrs, kills>>

(* the process dies between two statements: no answer, and it starts again *)
KillSession ==
    /\ kills < MaxKills
    /\ kills' = kills + 1
    /\ \/ login # Idle /\ login' = Idle /\ UNCHANGED register
       \/ register # Idle /\ register' = Idle /\ UNCHANGED login
    /\ UNCHANGED <<user, registers, tokenVars, held, logins, said, sqlErrs>>

SessionNext ==
    RegisterNext \/ LoginNext \/ (\E u \in Names : Expire(u)) \/ KillSession
=============================================================================
