-------------------------- MODULE SessionProofs --------------------------
(*************************************************************************)
(* What a client is told, on which token files are listed, and that a    *)
(* walk through the pages of a user's files shows every row once: proved *)
(* for every set of users, clients and passwords, for every page size,   *)
(* any number of rows and all bounds.                                    *)
(*************************************************************************)
EXTENDS MyFilesCgi, FiniteSetTheorems, SequenceTheorems, TLAPS

(* a leaf is left to Zenon unless it cites another prover *)
USE Zenon

LoginRec ==
    [pc : {"select", "setex", "reply"}, client : Clients, user : Names,
     pwd : Pwds \cup {None}, token : (Names \X Nat) \cup {None}, equal : BOOLEAN]

(* the token a login is about to print is stored, unless it is gone *)
LoginInv ==
    /\ login \in LoginRec \cup {Idle}
    /\ tokens \in [Names -> (Names \X Nat) \cup {None}]
    /\ made \in [Names -> Nat]
    /\ held \in [Clients -> (Names \X Nat) \cup {None}]
    /\ kills \in Nat
    /\ login.pc = "reply" => tokens[login.user] \in {login.token, None}

(* an idle login process is none that serves a request *)
LEMMA IdleIsNoRecord == Idle.pc = "idle" /\ \A r \in LoginRec : r.pc # "idle"
BY DEF Idle, LoginRec

(* no login is at work at the start *)
LEMMA LoginInvInit == Init => LoginInv
BY SMT, SessionAssumption DEF Init, SessionInit, LoginInv, Idle, LoginRec

(* a step of another service, or of register *)
LEMMA LoginInvOther ==
    ASSUME LoginInv, UNCHANGED <<login, tokens, made, held, kills>>
    PROVE  LoginInv'
BY DEF LoginInv

(* every statement of the login process keeps its invariant *)
LEMMA LoginInvLogin == ASSUME LoginInv, LoginNext PROVE LoginInv'
<1>1. ASSUME NEW c \in Clients, NEW u \in Names, NEW p \in Pwds \cup {None},
             LoginAccept(c, u, p)
      PROVE  LoginInv'
  <2>1. login' = [pc |-> "select", client |-> c, user |-> u, pwd |-> p,
                  token |-> None, equal |-> p = Password(u)]
    BY <1>1 DEF LoginAccept
  <2>2. (p = Password(u)) \in BOOLEAN
    OBVIOUS
  <2>3. login' \in LoginRec /\ login'.pc = "select"
    BY <2>1, <2>2 DEF LoginRec
  <2>4. UNCHANGED <<tokens, made, held, kills>>
    BY <1>1 DEF LoginAccept, tokenVars
  <2> QED
    BY <2>3, <2>4 DEF LoginInv
<1>2. CASE check_user_pwd
  <2>1. UNCHANGED <<tokens, made, held, kills>>
    BY <1>2 DEF check_user_pwd, tokenVars
  <2>2. login.pc = "select" /\ login \in LoginRec
    BY <1>2, IdleIsNoRecord DEF check_user_pwd, LoginInv
  <2>3. login' = [login EXCEPT !.pc = "setex"] \/ login' = Idle
    BY <1>2 DEF check_user_pwd, LoginRefuse
  <2>4. login' \in LoginRec \cup {Idle} /\ login'.pc # "reply"
    BY <2>2, <2>3, IdleIsNoRecord DEF LoginRec
  <2> QED
    BY <2>1, <2>4 DEF LoginInv
<1>3. CASE set_token
  <2>1. UNCHANGED <<held, kills>> /\ login.pc = "setex" /\ login \in LoginRec
    BY <1>3, IdleIsNoRecord DEF set_token, LoginInv
  <2>2. CASE LoginRefuse /\ UNCHANGED <<tokens, made>>
    BY <2>1, <2>2, IdleIsNoRecord DEF LoginRefuse, LoginInv
  <2>3. ASSUME NEW n \in {made[login.user], made[login.user] + 1} \ {0},
               made' = [made EXCEPT ![login.user] = n],
               tokens' = [tokens EXCEPT ![login.user] = <<login.user, n>>],
               login' = [login EXCEPT !.pc = "reply", !.token = <<login.user, n>>]
        PROVE  LoginInv'
    <3>1. login.user \in Names /\ n \in Nat
      BY SMT, <2>1, <2>3 DEF LoginInv, LoginRec
    <3>2. login' \in LoginRec /\ login'.user = login.user
             /\ login'.token = <<login.user, n>>
      BY <2>1, <2>3, <3>1 DEF LoginRec
    <3>3. made' \in [Names -> Nat]
      BY <2>3, <3>1 DEF LoginInv
    <3>4. tokens' \in [Names -> (Names \X Nat) \cup {None}]
             /\ tokens'[login.user] = <<login.user, n>>
      BY <2>3, <3>1 DEF LoginInv
    <3> QED
      BY <2>1, <3>2, <3>3, <3>4 DEF LoginInv
  <2> QED
    BY <1>3, <2>2, <2>3 DEF set_token
<1>4. CASE LoginReply
  <2>1. login' = Idle /\ UNCHANGED <<tokens, made, kills>>
    BY <1>4 DEF LoginReply, tokenVars
  <2>2. login \in LoginRec
    BY <1>4, IdleIsNoRecord DEF LoginReply, LoginInv
  <2>3. held' \in [Clients -> (Names \X Nat) \cup {None}]
    BY <1>4, <2>2 DEF LoginReply, LoginInv, LoginRec
  <2> QED
    BY <2>1, <2>3, IdleIsNoRecord DEF LoginInv
<1> QED
  BY <1>1, <1>2, <1>3, <1>4 DEF LoginNext

(* a token that expires leaves none in Redis, which the invariant allows *)
LEMMA LoginInvExpire ==
    ASSUME LoginInv, NEW u \in Names, Expire(u) PROVE LoginInv'
<1>1. UNCHANGED <<login, made, held, kills>>
  BY DEF Expire, loginVars
<1>2. tokens' = [tokens EXCEPT ![u] = None]
  BY DEF Expire
<1>3. tokens' \in [Names -> (Names \X Nat) \cup {None}]
         /\ \A v \in Names : tokens'[v] \in {tokens[v], None}
  BY <1>2 DEF LoginInv
<1>4. login.pc = "reply" => login.user \in Names
  BY IdleIsNoRecord DEF LoginInv, LoginRec
<1> QED
  BY <1>1, <1>3, <1>4 DEF LoginInv

(* a killed login process has nothing in hand *)
LEMMA LoginInvKill == ASSUME LoginInv, KillSession PROVE LoginInv'
<1>1. UNCHANGED <<tokens, made, held>> /\ kills' = kills + 1
         /\ (login' = Idle \/ UNCHANGED login)
  BY DEF KillSession, tokenVars
<1> QED
  BY SMT, <1>1, IdleIsNoRecord DEF LoginInv

(* every other step leaves the login process and the tokens alone *)
OtherStep == UNCHANGED <<login, tokens, made, held, kills>>

(* every step is one of the login process, of its environment, or leaves both alone *)
LEMMA StepIsOther ==
    ASSUME [Next]_vars
    PROVE  \/ OtherStep
           \/ LoginNext
           \/ \E u \in Names : Expire(u)
           \/ KillSession
<1>1. CASE UNCHANGED vars
  BY <1>1 DEF OtherStep, vars, sessionVars, tokenVars, loginVars
<1>2. CASE RegisterNext
  BY <1>2 DEF RegisterNext, RegisterAccept, RegisterSelect, RegisterInsert,
              OtherStep, tokenVars, loginVars
<1>3. CASE MyFilesNext
  BY <1>3 DEF MyFilesNext, StartWalk, NextPage, OtherRequest, Accept, MyFilesVerify,
              get_user_filelist, get_user_files_count, MyFilesError,
              OtherStep, sessionVars, tokenVars, loginVars
<1>4. CASE InsertRow \/ DeleteRow \/ BumpPv
  BY <1>4 DEF InsertRow, DeleteRow, BumpPv, Change, OtherStep, sessionVars,
              tokenVars, loginVars
<1>5. CASE Done
  BY <1>5 DEF Done, OtherStep, vars, sessionVars, tokenVars, loginVars
<1> QED
  BY <1>1, <1>2, <1>3, <1>4, <1>5 DEF Next, SessionNext

(* every step keeps the invariant of the login process *)
LEMMA LoginInvStep == LoginInv /\ [Next]_vars => LoginInv'
BY StepIsOther, LoginInvOther, LoginInvLogin, LoginInvExpire, LoginInvKill
   DEF OtherStep

(***************************************************************************)
(* login_cgi.c, for any users, clients and bounds: from SETEX until the    *)
(* answer is printed, the token in hand is the one Redis has, if any.      *)
(***************************************************************************)
THEOREM LoginCorrect == Spec => []LoginInv
BY LoginInvInit, LoginInvStep, PTL DEF Spec

(***************************************************************************)
(* login_cgi.c prints the token it has stored: the token told is in Redis, *)
(* or none is, whatever other services, expiries and kills do meanwhile.   *)
(***************************************************************************)
THEOREM TokensTold == Spec => ToldIsStored
<1> DEFINE Step == login.pc = "reply" /\ kills' = kills /\ login' = Idle =>
                      tokens[login.user] \in {held'[login.client], None}
<1>1. ASSUME LoginInv, [Next]_vars PROVE Step
  <2> SUFFICES ASSUME login.pc = "reply", kills' = kills, login' = Idle
               PROVE  tokens[login.user] \in {held'[login.client], None}
    OBVIOUS
  <2>1. login \in LoginRec /\ tokens[login.user] \in {login.token, None}
    BY <1>1, IdleIsNoRecord DEF LoginInv
  <2>2. login # Idle /\ login.client \in Clients
    BY <2>1, IdleIsNoRecord DEF LoginRec
  <2>3. CASE LoginReply
    <3>1. held'[login.client] = login.token
      BY <1>1, <2>2, <2>3 DEF LoginReply, LoginInv
    <3> QED
      BY <2>1, <3>1
  <2>4. ~OtherStep /\ ~KillSession
    BY SMT, <1>1, <2>2 DEF OtherStep, KillSession, LoginInv
  <2>5. ~check_user_pwd /\ ~set_token
    BY DEF check_user_pwd, set_token
  <2>6. \A u \in Names : ~Expire(u)
    BY <2>2 DEF Expire, loginVars
  <2>7. \A c \in Clients, u \in Names, p \in Pwds \cup {None} : ~LoginAccept(c, u, p)
    BY <2>2 DEF LoginAccept
  <2> QED
    BY <1>1, StepIsOther, <2>3, <2>4, <2>5, <2>6, <2>7 DEF LoginNext
<1>2. LoginInv /\ [Next]_vars => [Step]_vars
  BY <1>1
<1> QED
  BY LoginCorrect, <1>2, PTL DEF Spec, ToldIsStored
-----------------------------------------------------------------------------
RegisterRec ==
    [pc : {"select", "insert"}, name : Users, nick : Nicks, pwd : Pwds]

(***************************************************************************)
(* The password of a name stays once there is one.  So the password of a   *)
(* request, if it was the name's when the request came in or when it was   *)
(* compared, still is; and a request without one is past the SELECT only   *)
(* where the name had none either, or a statement failed.                  *)
(***************************************************************************)
PasswordInv ==
    /\ login.pwd # None /\ (login.equal \/ login.pc # "select") =>
          login.pwd = Password(login.user)
    /\ login.pwd = None /\ ~login.equal => Password(login.user) # None
    /\ login.pwd = None /\ login.pc # "select" => login.equal \/ sqlErrs > 0

AccountInv ==
    /\ user \in [Users -> Account \cup {None}]
    /\ register \in RegisterRec \cup {Idle}
    /\ sqlErrs \in Nat
    /\ login # Idle => PasswordInv

(* at the start nobody registers or logs in *)
LEMMA AccountInvInit == Init => AccountInv
BY SMT DEF Init, SessionInit, AccountInv, Idle

(* an idle register process is none that serves a request *)
LEMMA RegisterIdle == \A r \in RegisterRec : r # Idle /\ r.pc # "idle"
BY SMT DEF Idle, RegisterRec

(* the failures are counted *)
LEMMA ErrsCount ==
    ASSUME AccountInv, Works \/ Fails PROVE sqlErrs' \in Nat /\ sqlErrs' >= sqlErrs
BY SMT DEF AccountInv, Works, Fails

(* a step that changes no password and leaves the login process alone *)
LEMMA PasswordsKept ==
    ASSUME AccountInv, UNCHANGED login, sqlErrs' \in Nat, sqlErrs' >= sqlErrs,
           login # Idle /\ Password(login.user) # None =>
              Password(login.user)' = Password(login.user)
    PROVE  login' # Idle => PasswordInv'
<1> SUFFICES ASSUME login # Idle PROVE PasswordInv'
  OBVIOUS
<1>1. PasswordInv /\ sqlErrs \in Nat
  BY DEF AccountInv
<1>2. sqlErrs > 0 => sqlErrs' > 0
  BY SMT, <1>1
<1> QED
  BY <1>1, <1>2 DEF PasswordInv

(* a step that leaves the accounts and both processes alone *)
LEMMA AccountInvOther ==
    ASSUME AccountInv, UNCHANGED <<user, register, login>>, sqlErrs' \in Nat,
           sqlErrs' >= sqlErrs
    PROVE  AccountInv'
<1>1. Password(login.user)' = Password(login.user)
  BY DEF Password
<1> QED
  BY <1>1, PasswordsKept DEF AccountInv

(* every statement of the register process keeps the accounts *)
LEMMA AccountInvRegister ==
    ASSUME LoginInv, AccountInv, RegisterNext PROVE AccountInv'
<1>0. UNCHANGED login
  BY DEF RegisterNext, RegisterAccept, RegisterSelect, RegisterInsert, loginVars
<1>1. ASSUME NEW u \in Users, NEW k \in Nicks, NEW p \in Pwds,
             RegisterAccept(u, k, p)
      PROVE  AccountInv'
  <2>1. UNCHANGED <<user, sqlErrs>> /\ register' \in RegisterRec
    BY <1>1 DEF RegisterAccept, RegisterRec
  <2>2. sqlErrs' \in Nat /\ sqlErrs' >= sqlErrs
    BY SMT, <2>1 DEF AccountInv
  <2>3. login' # Idle => PasswordInv'
    BY <1>0, <2>1, <2>2, PasswordsKept DEF Password
  <2> QED
    BY <2>1, <2>2, <2>3 DEF AccountInv
<1>2. CASE RegisterSelect
  <2>1. UNCHANGED user /\ (Works \/ Fails)
    BY <1>2 DEF RegisterSelect
  <2>2. register' \in RegisterRec \cup {Idle}
    BY SMT, <1>2 DEF RegisterSelect, RegisterAnswer, AccountInv, RegisterRec, Idle
  <2>3. login' # Idle => PasswordInv'
    BY <1>0, <2>1, ErrsCount, PasswordsKept DEF Password
  <2> QED
    BY <2>1, <2>2, <2>3, ErrsCount DEF AccountInv
<1>3. CASE RegisterInsert
  <2>1. register' = Idle /\ (Works \/ Fails)
    BY <1>3 DEF RegisterInsert, RegisterAnswer
  <2>2. register \in RegisterRec
    BY SMT, <1>3 DEF RegisterInsert, AccountInv, Idle
  <2>3. \/ UNCHANGED user
        \/ /\ user[register.name] = None
           /\ user' = [user EXCEPT ![register.name] =
                          [nick |-> register.nick, pwd |-> register.pwd]]
    BY <1>3 DEF RegisterInsert, KeysFree
  <2>4. user' \in [Users -> Account \cup {None}]
           /\ \A v \in Users : user[v] # None => user'[v] = user[v]
    BY SMT, <2>2, <2>3 DEF AccountInv, RegisterRec, Account
  <2>5. Password(login.user) # None => Password(login.user)' = Password(login.user)
    BY <1>0, <2>4 DEF Password
  <2>6. login' # Idle => PasswordInv'
    BY <1>0, <2>1, <2>5, ErrsCount, PasswordsKept
  <2>7. sqlErrs' \in Nat
    BY <2>1, ErrsCount
  <2> QED
    BY <2>1, <2>4, <2>6, <2>7 DEF AccountInv
<1> QED
  BY <1>1, <1>2, <1>3 DEF RegisterNext

(* every statement of the login process keeps what it knows of an account *)
LEMMA AccountInvLogin == ASSUME LoginInv, AccountInv, LoginNext PROVE AccountInv'
<1>0. UNCHANGED <<user, register>>
  BY DEF LoginNext, LoginAccept, check_user_pwd, set_token, LoginReply, accountVars
<1>a. \A u : Password(u)' = Password(u)
  BY <1>0 DEF Password
<1>1. ASSUME NEW c \in Clients, NEW u \in Names, NEW p \in Pwds \cup {None},
             LoginAccept(c, u, p)
      PROVE  AccountInv'
  <2>1. /\ login'.user = u /\ login'.pwd = p /\ login'.pc = "select"
        /\ login'.equal = (p = Password(u)) /\ UNCHANGED sqlErrs
    BY <1>1 DEF LoginAccept
  <2>2. PasswordInv'
    BY <1>a, <2>1 DEF PasswordInv
  <2> QED
    BY <1>0, <2>1, <2>2 DEF AccountInv
<1>2. CASE check_user_pwd
  <2>1. login.pc = "select" /\ login \in LoginRec /\ login # Idle
    BY <1>2, IdleIsNoRecord DEF check_user_pwd, LoginInv
  <2>2. \/ login' = Idle
        \/ /\ login' = [login EXCEPT !.pc = "setex"]
           /\ login.pwd = Password(login.user) \/ (login.pwd = None /\ Fails)
    BY <1>2 DEF check_user_pwd, LoginRefuse
  <2>3. \/ login' = Idle
        \/ /\ login'.user = login.user /\ login'.pwd = login.pwd
           /\ login'.equal = login.equal
           /\ login.pwd = Password(login.user) \/ (login.pwd = None /\ Fails)
    BY <2>1, <2>2 DEF LoginRec
  <2>4. sqlErrs' \in Nat /\ (Fails => sqlErrs' > 0)
    BY SMT, <1>2, ErrsCount DEF check_user_pwd, Fails, AccountInv
  <2>5. PasswordInv
    BY <2>1 DEF AccountInv
  <2>6. login' # Idle => PasswordInv'
    BY <1>a, <2>3, <2>4, <2>5 DEF PasswordInv
  <2> QED
    BY <1>0, <2>4, <2>6 DEF AccountInv
<1>3. CASE set_token
  <2>1. login.pc = "setex" /\ login \in LoginRec /\ login # Idle
    BY <1>3, IdleIsNoRecord DEF set_token, LoginInv
  <2>2. \/ login' = Idle
        \/ \E n : login' = [login EXCEPT !.pc = "reply",
                                        !.token = <<login.user, n>>]
    BY <1>3 DEF set_token, LoginRefuse
  <2>3. \/ login' = Idle
        \/ /\ login'.user = login.user /\ login'.pwd = login.pwd
           /\ login'.equal = login.equal
    BY <2>1, <2>2 DEF LoginRec
  <2>4. sqlErrs' \in Nat /\ (sqlErrs > 0 => sqlErrs' > 0)
    <3>1. Works \/ Fails
      BY <1>3 DEF set_token
    <3>2. sqlErrs \in Nat /\ sqlErrs' \in Nat /\ sqlErrs' >= sqlErrs
      BY <3>1, ErrsCount DEF AccountInv
    <3> QED
      BY SMT, <3>2
  <2>5. PasswordInv /\ login.pc # "select"
    BY <2>1 DEF AccountInv
  <2>6. login' # Idle => PasswordInv'
    BY <1>a, <2>3, <2>4, <2>5 DEF PasswordInv
  <2> QED
    BY <1>0, <2>4, <2>6 DEF AccountInv
<1>4. CASE LoginReply
  <2>1. login' = Idle /\ UNCHANGED sqlErrs
    BY <1>4 DEF LoginReply
  <2> QED
    BY <1>0, <2>1 DEF AccountInv
<1> QED
  BY <1>1, <1>2, <1>3, <1>4 DEF LoginNext

(* a kill leaves the accounts alone *)
LEMMA AccountInvKill == ASSUME AccountInv, KillSession PROVE AccountInv'
<1>1. UNCHANGED user /\ UNCHANGED sqlErrs
  BY DEF KillSession
<1>2. CASE login' = Idle /\ register' = register
  BY <1>1, <1>2 DEF AccountInv
<1>3. CASE register' = Idle /\ login' = login
  <2>1. sqlErrs' \in Nat /\ sqlErrs' >= sqlErrs
    BY SMT, <1>1 DEF AccountInv
  <2>2. login' # Idle => PasswordInv'
    BY <1>1, <1>3, <2>1, PasswordsKept DEF Password
  <2> QED
    BY <1>1, <1>3, <2>2 DEF AccountInv
<1> QED
  BY <1>2, <1>3 DEF KillSession

(* the requests for lists, and the changes of rows *)
ListStep == UNCHANGED <<user, register, login, held, kills, said>>

(* every step is one of the two processes, a kill, or leaves the accounts alone *)
LEMMA StepIsList ==
    ASSUME AccountInv, [Next]_vars
    PROVE  \/ ListStep /\ sqlErrs' \in Nat /\ sqlErrs' >= sqlErrs
           \/ RegisterNext
           \/ LoginNext
           \/ KillSession
<1>0. sqlErrs' = sqlErrs => sqlErrs' \in Nat /\ sqlErrs' >= sqlErrs
  BY SMT DEF AccountInv
<1>1. CASE UNCHANGED vars \/ Done
  BY <1>0, <1>1 DEF Done, ListStep, vars, sessionVars, accountVars, loginVars
<1>2. CASE \E u \in Names : Expire(u)
  BY <1>0, <1>2 DEF Expire, ListStep, accountVars, loginVars
<1>3. CASE MyFilesNext
  <2>1. CASE MyFilesVerify \/ MyFilesError
    <3>1. Works \/ Fails
      BY <2>1 DEF MyFilesVerify, MyFilesError
    <3> QED
      BY <2>1, <3>1, ErrsCount
         DEF MyFilesVerify, MyFilesError, ListStep, accountVars, loginVars
  <2>2. CASE ~(MyFilesVerify \/ MyFilesError)
    <3>1. UNCHANGED sessionVars
      BY <1>3, <2>2 DEF MyFilesNext, StartWalk, NextPage, OtherRequest, Accept,
                        get_user_filelist, get_user_files_count
    <3> QED
      BY <1>0, <3>1 DEF ListStep, sessionVars, accountVars, loginVars
  <2> QED
    BY <2>1, <2>2
<1>4. CASE InsertRow \/ DeleteRow \/ BumpPv
  BY <1>0, <1>4 DEF InsertRow, DeleteRow, BumpPv, Change, ListStep,
                    sessionVars, accountVars, loginVars
<1> QED
  BY <1>1, <1>2, <1>3, <1>4 DEF Next, SessionNext

(* every step keeps the accounts and what is known of them *)
LEMMA AccountInvStep == LoginInv /\ AccountInv /\ [Next]_vars => AccountInv'
BY StepIsList, AccountInvOther, AccountInvRegister, AccountInvLogin, AccountInvKill
   DEF ListStep

(***************************************************************************)
(* register_cgi.c and login_cgi.c, for any users and bounds: what holds of *)
(* the table user and of the requests in hand between two statements.      *)
(***************************************************************************)
THEOREM AccountsCorrect == Spec => []AccountInv
BY LoginCorrect, AccountInvInit, AccountInvStep, PTL DEF Spec

(***************************************************************************)
(* login_cgi.c: 000 for a password means that the account is there and has *)
(* it; without a password it takes a name that had no account when the     *)
(* request came in, or a statement that failed; and an account's own       *)
(* password is refused only because a statement failed.                    *)
(***************************************************************************)
THEOREM LoginsTrue == Spec => LoginTrue
<1>1. ASSUME LoginInv, AccountInv, [Next]_vars PROVE LoggedInTruly(login)
  <2> SUFFICES ASSUME login # Idle, login' = Idle, kills' = kills
               PROVE  LoggedInTruly(login)
    BY DEF LoggedInTruly
  <2>1. login \in LoginRec /\ PasswordInv
    BY <1>1 DEF LoginInv, AccountInv
  <2>2. Fails => sqlErrs' > 0
    BY SMT, <1>1 DEF Fails, AccountInv
  <2>3. CASE check_user_pwd
    <3>1. login' # [login EXCEPT !.pc = "setex"]
      BY <2>1, IdleIsNoRecord DEF LoginRec
    <3>2. said' = "001" /\ (login.pwd # Password(login.user) \/ Fails)
      BY <2>3, <3>1 DEF check_user_pwd, LoginRefuse
    <3>3. login.pwd # None /\ login.equal => login.pwd = Password(login.user)
      BY <2>1 DEF PasswordInv
    <3> QED
      BY <2>2, <3>2, <3>3 DEF LoggedInTruly
  <2>4. CASE set_token
    <3>1. \A n : login' # [login EXCEPT !.pc = "reply", !.token = <<login.user, n>>]
      BY <2>1, IdleIsNoRecord DEF LoginRec
    <3>2. said' = "001" /\ Fails
      BY <2>4, <3>1 DEF set_token, LoginRefuse
    <3> QED
      BY <2>2, <3>2 DEF LoggedInTruly
  <2>5. CASE LoginReply
    <3>1. said' = "000" /\ login.pc = "reply" /\ sqlErrs' = sqlErrs
      BY <2>5 DEF LoginReply
    <3>2. login.pwd # None => login.pwd = Password(login.user)
      BY <2>1, <3>1 DEF PasswordInv
    <3>3. login.pwd = None => login.equal \/ sqlErrs' > 0
      BY <2>1, <3>1 DEF PasswordInv
    <3> QED
      BY <3>1, <3>2, <3>3 DEF LoggedInTruly
  <2>6. ~ListStep /\ ~KillSession
    BY SMT, <1>1 DEF ListStep, KillSession, LoginInv
  <2>7. ~RegisterNext
    BY DEF RegisterNext, RegisterAccept, RegisterSelect, RegisterInsert, loginVars
  <2>8. \A c \in Clients, u \in Names, p \in Pwds \cup {None} : ~LoginAccept(c, u, p)
    BY DEF LoginAccept
  <2> QED
    BY <1>1, StepIsList, <2>3, <2>4, <2>5, <2>6, <2>7, <2>8 DEF LoginNext
<1>2. LoginInv /\ AccountInv /\ [Next]_vars => [LoggedInTruly(login)]_vars
  BY <1>1
<1> QED
  BY LoginCorrect, AccountsCorrect, <1>2, PTL DEF Spec, LoginTrue

(***************************************************************************)
(* register_cgi.c: 002 is said of an account that this request made, 003   *)
(* of a name that was taken, and anything else only after a failure or for *)
(* a key that was taken.                                                   *)
(***************************************************************************)
THEOREM RegistersTrue == Spec => RegisterTrue
<1>1. ASSUME LoginInv, AccountInv, [Next]_vars PROVE AnsweredTruly(register)
  <2> SUFFICES ASSUME register # Idle, register' = Idle, kills' = kills
               PROVE  AnsweredTruly(register)
    BY DEF AnsweredTruly
  <2>1. register \in RegisterRec
    BY <1>1 DEF AccountInv
  <2>2. Fails => sqlErrs' > 0
    BY SMT, <1>1 DEF Fails, AccountInv
  <2>3. CASE RegisterSelect
    <3>1. register' # [register EXCEPT !.pc = "insert"]
      BY <2>1, RegisterIdle DEF RegisterRec, Idle
    <3>2. \/ said' = "003" /\ user[register.name] # None
          \/ said' = "004" /\ Fails
      BY <2>3, <3>1 DEF RegisterSelect, RegisterAnswer
    <3> QED
      BY <2>2, <3>2 DEF AnsweredTruly
  <2>4. CASE RegisterInsert
    <3>1. CASE /\ KeysFree(register.name, register.nick)
               /\ user' = [user EXCEPT ![register.name] =
                              [nick |-> register.nick, pwd |-> register.pwd]]
               /\ RegisterAnswer("002")
      <4>1. user[register.name] = None /\ said' = "002"
        BY <3>1 DEF KeysFree, RegisterAnswer
      <4>2. user'[register.name] = [nick |-> register.nick, pwd |-> register.pwd]
        BY <1>1, <2>1, <3>1 DEF AccountInv, RegisterRec
      <4> QED
        BY <4>1, <4>2 DEF AnsweredTruly
    <3>2. CASE /\ ~KeysFree(register.name, register.nick) \/ Fails
               /\ RegisterAnswer("004")
      BY <2>2, <3>2 DEF RegisterAnswer, AnsweredTruly
    <3> QED
      BY <2>4, <3>1, <3>2 DEF RegisterInsert
  <2>5. ~ListStep /\ ~KillSession
    BY SMT, <1>1 DEF ListStep, KillSession, LoginInv
  <2>6. ~LoginNext
    BY DEF LoginNext, LoginAccept, check_user_pwd, set_token, LoginReply, accountVars
  <2>7. \A u \in Users, k \in Nicks, p \in Pwds : ~RegisterAccept(u, k, p)
    BY DEF RegisterAccept
  <2> QED
    BY <1>1, StepIsList, <2>3, <2>4, <2>5, <2>6, <2>7 DEF RegisterNext
<1>2. LoginInv /\ AccountInv /\ [Next]_vars => [AnsweredTruly(register)]_vars
  BY <1>1
<1> QED
  BY LoginCorrect, AccountsCorrect, <1>2, PTL DEF Spec, RegisterTrue
-----------------------------------------------------------------------------
ListRec(p, c, n, f) == [pc |-> p, client |-> c, start |-> n, from |-> f]

(* a complete body is served for its own account, whatever was left before *)
ServedForSender ==
    list.pc \in {"verify", "select"} /\ list.from # None => buf.user = list.from

ListInv ==
    /\ list = Idle \/ \E p, c, n, f : list = ListRec(p, c, n, f)
    /\ ServedForSender

(* no listing is at work at the start *)
LEMMA ListInvInit == Init => ListInv
BY SMT DEF Init, ListInv, ServedForSender, Idle

(* a complete body has its user, and Parse copies it *)
LEMMA ListInvParse ==
    ASSUME NEW c, NEW cmd, NEW start, NEW fields \in Nat,
           Parse(c, cmd, start, fields)
    PROVE  ListInv'
<1>1. buf'.user = IF fields >= 1 THEN held[c][1] ELSE buf.user
  BY DEF Parse
<1>2. list' = ListRec("verify", c, start,
                      IF fields >= Fields(buf'.cmd) THEN held[c][1] ELSE None)
  BY DEF Parse, ListRec
<1>3. Fields(buf'.cmd) \in {2, 4}
  BY DEF Fields
<1>4. list'.from # None => buf'.user = list'.from
  BY SMT, <1>1, <1>2, <1>3 DEF ListRec
<1> QED
  BY <1>2, <1>4 DEF ListInv, ServedForSender

(* every step keeps what the listing process serves and for whom *)
LEMMA ListInvStep == ListInv /\ [Next]_vars => ListInv'
<1> SUFFICES ASSUME ListInv, [Next]_vars PROVE ListInv'
  OBVIOUS
<1>1. CASE UNCHANGED <<list, buf>>
  BY <1>1 DEF ListInv, ServedForSender
<1>2. ASSUME NEW c \in Clients, NEW cmd, NEW fields \in 0 .. 3,
             OtherRequest(c, cmd, fields)
      PROVE  ListInv'
  BY SMT, <1>2, ListInvParse DEF OtherRequest, Accept
<1>3. ASSUME NEW c \in Clients, NEW cmd, StartWalk(c, cmd) PROVE ListInv'
  BY <1>3, ListInvParse DEF StartWalk, Accept
<1>4. CASE NextPage
  BY <1>4, ListInvParse DEF NextPage, Accept
<1>5. CASE list' = Idle
  BY <1>5 DEF ListInv, ServedForSender, Idle
<1>6. CASE list.pc = "verify" /\ list' = [list EXCEPT !.pc = "select"] /\ buf' = buf
  <2>1. list # Idle
    BY SMT, <1>6 DEF Idle
  <2>2. PICK p, c, n, f : list = ListRec(p, c, n, f)
    BY <2>1 DEF ListInv
  <2>3. list' = ListRec("select", c, n, f)
    BY <1>6, <2>2 DEF ListRec
  <2>4. list'.from = list.from
    BY <2>2, <2>3 DEF ListRec
  <2> QED
    BY SMT, <1>6, <2>3, <2>4 DEF ListInv, ServedForSender
<1>7. CASE MyFilesVerify
  BY <1>5, <1>6, <1>7 DEF MyFilesVerify
<1>8. CASE get_user_filelist \/ get_user_files_count \/ MyFilesError
  BY <1>5, <1>8 DEF get_user_filelist, get_user_files_count, MyFilesError
<1>9. CASE InsertRow \/ DeleteRow \/ BumpPv
  BY <1>1, <1>9 DEF InsertRow, DeleteRow, BumpPv, Change
<1>10. CASE UNCHANGED listVars
  BY <1>1, <1>10 DEF listVars
<1> QED
  BY <1>2, <1>3, <1>4, <1>7, <1>8, <1>9, <1>10 DEF Next, MyFilesNext, Done, vars
-----------------------------------------------------------------------------
(* no more tokens of a user than logins, the one at hand counted *)
TokensInv ==
    /\ logins \in 0 .. MaxLogins
    /\ made \in [Names -> 0 .. MaxLogins]
    /\ \A u \in Names : made[u] <= logins
    /\ login.pc \in {"select", "setex"} => made[login.user] < logins
    /\ login.pc = "reply" => login.token \in Token
    /\ tokens \in [Names -> Token \cup {None}]
    /\ \A u \in Names : tokens[u] # None => tokens[u][1] = u
    /\ held \in [Clients -> Token \cup {None}]
    /\ said \in {"none", "000", "001", "002", "003", "004"}

(* no token has been made at the start *)
LEMMA TokensInit == Init => TokensInv
BY SMT, SessionAssumption DEF Init, SessionInit, TokensInv, Idle

(* a step that is none of login's *)
LEMMA TokensOther ==
    ASSUME TokensInv, UNCHANGED <<logins, made, tokens, held, login>>,
           said' = said \/ said' \in {"none", "000", "001", "002", "003", "004"}
    PROVE  TokensInv'
BY DEF TokensInv

(* a login makes at most one token, of the user's own name *)
LEMMA TokensLogin == ASSUME LoginInv, TokensInv, LoginNext PROVE TokensInv'
<1>1. ASSUME NEW c \in Clients, NEW u \in Names, NEW p \in Pwds \cup {None},
             LoginAccept(c, u, p)
      PROVE  TokensInv'
  <2>1. /\ login'.pc = "select" /\ login'.user = u
        /\ logins < MaxLogins /\ logins' = logins + 1 /\ said' = "none"
        /\ UNCHANGED <<made, tokens, held>>
    BY <1>1 DEF LoginAccept, tokenVars
  <2>2. logins \in Nat /\ \A v \in Names : made[v] \in Nat /\ made[v] <= logins
    BY SMT, SessionAssumption DEF TokensInv
  <2>3. logins' \in 0 .. MaxLogins /\ \A v \in Names : made'[v] < logins'
    BY SMT, <2>1, <2>2, SessionAssumption
  <2>4. \A v \in Names : made'[v] <= logins'
    <3>1. \A v \in Names : made'[v] = made[v]
      BY <2>1
    <3> QED
      BY SMT, <2>1, <2>2, <3>1
  <2> QED
    BY <2>1, <2>3, <2>4 DEF TokensInv
<1>2. CASE check_user_pwd
  <2>1. /\ UNCHANGED <<made, tokens, held, logins>> /\ login.pc = "select"
        /\ said' = said \/ said' = "001"
        /\ login' = [login EXCEPT !.pc = "setex"] \/ login' = Idle
    BY <1>2 DEF check_user_pwd, tokenVars, LoginRefuse
  <2>2. login \in LoginRec
    BY <2>1, IdleIsNoRecord DEF LoginInv
  <2>3. \/ login'.pc = "setex" /\ login'.user = login.user
        \/ login'.pc = "idle"
    BY SMT, <2>1, <2>2 DEF LoginRec, Idle
  <2> QED
    BY <2>1, <2>3 DEF TokensInv
<1>3. CASE set_token
  <2>1. UNCHANGED <<held, logins>> /\ login.pc = "setex" /\ login \in LoginRec
    BY <1>3, IdleIsNoRecord DEF set_token, LoginInv
  <2>2. CASE login' = Idle /\ UNCHANGED <<tokens, made>> /\ said' = "001"
    BY <2>1, <2>2 DEF TokensInv, Idle
  <2>3. ASSUME NEW n \in {made[login.user], made[login.user] + 1} \ {0},
               made' = [made EXCEPT ![login.user] = n],
               tokens' = [tokens EXCEPT ![login.user] = <<login.user, n>>],
               login' = [login EXCEPT !.pc = "reply", !.token = <<login.user, n>>],
               said' = said
        PROVE  TokensInv'
    <3>1. login.user \in Names
      BY <2>1 DEF LoginRec
    <3>2. /\ made[login.user] \in Nat /\ logins \in Nat /\ logins <= MaxLogins
          /\ made[login.user] < logins
      BY SMT, <2>1, <3>1, SessionAssumption DEF TokensInv
    <3>3. n \in 1 .. MaxLogins /\ n <= logins
      BY SMT, <3>2, SessionAssumption
    <3>4. <<login.user, n>> \in Token /\ <<login.user, n>>[1] = login.user
      BY <3>1, <3>3 DEF Token
    <3>5. login'.pc = "reply" /\ login'.token = <<login.user, n>>
      BY <2>1, <2>3 DEF LoginRec
    <3>6. /\ made' \in [Names -> 0 .. MaxLogins]
          /\ \A u \in Names : made'[u] <= logins
      BY SMT, <2>3, <3>1, <3>3 DEF TokensInv
    <3>7. /\ tokens' \in [Names -> Token \cup {None}]
          /\ \A u \in Names : tokens'[u] # None => tokens'[u][1] = u
      BY <2>3, <3>1, <3>4 DEF TokensInv
    <3> QED
      BY <2>1, <2>3, <3>4, <3>5, <3>6, <3>7 DEF TokensInv
  <2> QED
    BY <1>3, <2>2, <2>3 DEF set_token, LoginRefuse
<1>4. CASE LoginReply
  <2>1. /\ held' = [held EXCEPT ![login.client] = login.token]
        /\ login.pc = "reply" /\ login'.pc = "idle" /\ said' = "000"
        /\ UNCHANGED <<made, tokens, logins>>
    BY <1>4 DEF LoginReply, tokenVars, Idle
  <2>2. login.token \in Token /\ held' \in [Clients -> Token \cup {None}]
    BY <2>1 DEF TokensInv
  <2> QED
    BY <2>1, <2>2 DEF TokensInv
<1> QED
  BY <1>1, <1>2, <1>3, <1>4 DEF LoginNext
(* every step keeps the tokens below the logins *)
LEMMA TokensStep ==
    LoginInv /\ TokensInv /\ [Next]_vars => TokensInv'
<1> SUFFICES ASSUME LoginInv, TokensInv, [Next]_vars PROVE TokensInv'
  OBVIOUS
<1>1. CASE UNCHANGED <<logins, made, tokens, held, login, said>>
  BY <1>1, TokensOther
<1>2. CASE LoginNext
  BY <1>2, TokensLogin
<1>3. CASE RegisterNext
  <2>1. UNCHANGED <<logins, made, tokens, held, login>>
    BY <1>3 DEF RegisterNext, RegisterAccept, RegisterSelect, RegisterInsert,
                tokenVars, loginVars
  <2>2. said' = said \/ said' \in {"none", "000", "001", "002", "003", "004"}
    BY <1>3 DEF RegisterNext, RegisterAccept, RegisterSelect, RegisterInsert,
                RegisterAnswer
  <2> QED
    BY <2>1, <2>2, TokensOther
<1>4. ASSUME NEW u \in Names, Expire(u) PROVE TokensInv'
  <2>1. /\ tokens' = [tokens EXCEPT ![u] = None]
        /\ UNCHANGED <<logins, made, held, login, said>>
    BY <1>4 DEF Expire, loginVars
  <2>2. /\ tokens' \in [Names -> Token \cup {None}]
        /\ \A v \in Names : tokens'[v] # None => tokens'[v][1] = v
    BY <2>1 DEF TokensInv
  <2> QED
    BY <2>1, <2>2 DEF TokensInv
<1>5. CASE KillSession
  <2>1. UNCHANGED <<logins, made, tokens, held, said>>
    BY <1>5 DEF KillSession, tokenVars
  <2>2. login' = login \/ login' = Idle
    BY <1>5 DEF KillSession
  <2> QED
    BY SMT, <2>1, <2>2 DEF TokensInv, Idle
<1>6. CASE SessionNext
  BY <1>2, <1>3, <1>4, <1>5, <1>6 DEF SessionNext
<1>7. CASE MyFilesNext
  <2>1. UNCHANGED <<logins, made, tokens, held, login, said>>
    BY <1>7 DEF MyFilesNext, StartWalk, NextPage, OtherRequest, Accept, MyFilesVerify,
                get_user_filelist, get_user_files_count, MyFilesError, sessionVars,
                tokenVars, loginVars
  <2> QED
    BY <1>1, <2>1
<1>8. CASE InsertRow \/ DeleteRow \/ BumpPv
  BY <1>1, <1>8 DEF InsertRow, DeleteRow, BumpPv, Change, sessionVars, tokenVars,
                    loginVars
<1>9. CASE UNCHANGED vars
  BY <1>1, <1>9 DEF vars, sessionVars, tokenVars, loginVars
<1> QED
  BY <1>6, <1>7, <1>8, <1>9 DEF Next, Done
---------------------------------------------------------------------------
(* y comes before x in every order MySQL returns the rows in for cmd *)
Ahead(cmd, y, x) ==
    CASE cmd = "normal" -> y.rid < x.rid
      [] cmd = "pvasc"  -> y.pv < x.pv
      [] cmd = "pvdesc" -> x.pv < y.pv

Rank(cmd, x) == Cardinality(Rids({y \in rows : Ahead(cmd, y, x)}))

RowRec == [rid : Nat, pv : Nat]
WalkRec == [client : Clients, cmd : Cmds \ {"count"}, shown : Seq(RowRec),
            first : SUBSET RowRec, changed : SUBSET {"insert", "delete", "pv"},
            errs : Nat, ended : BOOLEAN]

(* the rows have numbers of their own *)
RowsInv ==
    /\ rows \subseteq RowRec /\ IsFiniteSet(rows)
    /\ nextRid \in Nat /\ changes \in 0 .. MaxChanges
    /\ \A x \in rows : x.rid < nextRid /\ x.pv <= 2 + changes
    /\ \A x, y \in rows : x.rid = y.rid => x = y

(* a page that is asked for in a walk starts behind the rows shown *)
PageInv ==
    /\ walk \in WalkRec \cup {NoWalk}
    /\ walk # NoWalk => walk.errs <= sqlErrs
    /\ list # Idle /\ OfWalk => list.start = Len(walk.shown) /\ list.from = Owner

(* the rows shown are the first ones there are *)
Shows(w) ==
    /\ IF w.cmd = "normal" THEN Rids(w.first) \subseteq Rids(rows)
       ELSE rows = w.first
    /\ \A i \in DOMAIN w.shown :
          \E x \in rows : x.rid = w.shown[i].rid /\ Rank(w.cmd, x) = i - 1
    /\ w.ended => Cardinality(rows) <= Len(w.shown)

ShowsInv == walk # NoWalk /\ sqlErrs = walk.errs /\ Calm(walk) => Shows(walk)

WalkInv == RowsInv /\ PageInv /\ ShowsInv

(* an order of the rows has each of them once *)
LEMMA OrderIsOnto ==
    ASSUME RowsInv, NEW q \in Listings(rows)
    PROVE  /\ Cardinality(rows) \in Nat
           /\ q \in [1 .. Cardinality(rows) -> rows]
           /\ q \in Seq(rows) /\ Len(q) = Cardinality(rows)
           /\ \A i, j \in 1 .. Cardinality(rows) : q[i] = q[j] => i = j
           /\ \A x \in rows : \E i \in 1 .. Cardinality(rows) : q[i] = x
<1> DEFINE n == Cardinality(rows)
<1>1. n \in Nat
  BY FS_CardinalityType DEF RowsInv
<1>2. q \in [1 .. n -> rows] /\ \A i, j \in 1 .. n : q[i] = q[j] => i = j
  BY DEF Listings, Injection, IsInjective
<1>3. q \in Seq(rows) /\ Len(q) = n
  BY SMT, <1>1, <1>2
<1>4. IsFiniteSet(1 .. n) /\ Cardinality(1 .. n) = n
  BY SMT, <1>1, FS_Interval
<1>5. q \in Injection(1 .. n, rows)
  BY DEF Listings
<1>6. q \in Surjection(1 .. n, rows)
  BY <1>4, <1>5, FS_Injection DEF RowsInv
<1>7. \A x \in rows : \E i \in 1 .. n : q[i] = x
  BY <1>6 DEF Surjection
<1> QED
  BY <1>1, <1>2, <1>3, <1>7

(* with keys of their own the rows come in one order only *)
Distinct(cmd) == cmd # "normal" => \A x, y \in rows : x.pv = y.pv => x = y

(* in an order without ties, being ahead is being at a smaller place *)
LEMMA OrderAhead ==
    ASSUME RowsInv, NEW cmd \in Cmds \ {"count"}, Distinct(cmd),
           NEW q \in Listings(rows), Ordered(cmd, q)
    PROVE  \A i, j \in 1 .. Cardinality(rows) : Ahead(cmd, q[i], q[j]) <=> i < j
<1> DEFINE n == Cardinality(rows)
<1>1. /\ n \in Nat /\ q \in [1 .. n -> rows] /\ Len(q) = n /\ DOMAIN q = 1 .. n
      /\ \A i, j \in 1 .. n : q[i] = q[j] => i = j
  BY OrderIsOnto
<1>2. \A i \in 1 .. n : q[i].rid \in Nat /\ q[i].pv \in Nat
  BY SMT, <1>1 DEF RowsInv, RowRec
<1>3. CASE cmd = "normal"
  <2>1. \A i, j \in 1 .. n : i < j => q[i].rid < q[j].rid
    BY <1>1, <1>3 DEF Ordered
  <2>2. \A i, j \in 1 .. n : q[i].rid < q[j].rid <=> i < j
    BY SMT, <1>1, <1>2, <2>1
  <2> QED
    BY <1>3, <2>2 DEF Ahead
<1>4. CASE cmd = "pvasc"
  <2>1. \A i, j \in 1 .. n : i < j => q[i].pv <= q[j].pv
    BY <1>1, <1>4 DEF Ordered
  <2>2. \A i, j \in 1 .. n : i # j => q[i].pv # q[j].pv
    BY <1>1, <1>4 DEF Distinct
  <2>3. \A i, j \in 1 .. n : q[i].pv < q[j].pv <=> i < j
    BY SMT, <1>1, <1>2, <2>1, <2>2
  <2> QED
    BY <1>4, <2>3 DEF Ahead
<1>5. CASE cmd = "pvdesc"
  <2>2. \A i, j \in 1 .. n : i < j => q[j].pv <= q[i].pv
    BY <1>1, <1>2, <1>5 DEF Ordered
  <2>3. \A i, j \in 1 .. n : i # j => q[i].pv # q[j].pv
    BY <1>1, <1>5 DEF Distinct
  <2>4. \A i, j \in 1 .. n : q[j].pv < q[i].pv <=> i < j
    BY SMT, <1>1, <1>2, <2>2, <2>3
  <2> QED
    BY <1>5, <2>4 DEF Ahead
<1> QED
  BY <1>3, <1>4, <1>5 DEF Cmds

(* the places before place j are j - 1 *)
LEMMA Interval ==
    ASSUME NEW j \in Nat, j >= 1
    PROVE  IsFiniteSet(1 .. j - 1) /\ Cardinality(1 .. j - 1) = j - 1
<1>1. 1 \in Int /\ j - 1 \in Int
  BY SMT
<1>2. /\ IsFiniteSet(1 .. j - 1)
      /\ Cardinality(1 .. j - 1) = IF 1 > j - 1 THEN 0 ELSE (j - 1) - 1 + 1
  BY <1>1, FS_Interval
<1>3. (IF 1 > j - 1 THEN 0 ELSE (j - 1) - 1 + 1) = j - 1
  BY SMT
<1> QED
  BY SMT, <1>2, <1>3

(* the row at place j of a page has j - 1 rows before it *)
LEMMA OrderRank ==
    ASSUME RowsInv, NEW cmd \in Cmds \ {"count"}, Distinct(cmd),
           NEW q \in Listings(rows), Ordered(cmd, q),
           NEW j \in 1 .. Cardinality(rows)
    PROVE  Rank(cmd, q[j]) = j - 1
<1> DEFINE n == Cardinality(rows)
           T == Rids({y \in rows : Ahead(cmd, y, q[j])})
           f == [i \in 1 .. j - 1 |-> q[i].rid]
<1>1. /\ n \in Nat /\ q \in [1 .. n -> rows]
      /\ \A i, k \in 1 .. n : q[i] = q[k] => i = k
  BY OrderIsOnto
<1>0. \A x \in rows : \E i \in 1 .. n : q[i] = x
  BY OrderIsOnto
<1>2. \A i \in 1 .. n : Ahead(cmd, q[i], q[j]) <=> i < j
  BY OrderAhead
<1>3. \A i \in 1 .. j - 1 : i \in 1 .. n /\ i < j
  BY SMT, <1>1
<1>4. f \in [1 .. j - 1 -> T]
  <2> SUFFICES ASSUME NEW i \in 1 .. j - 1 PROVE q[i].rid \in T
    OBVIOUS
  <2>1. q[i] \in rows /\ Ahead(cmd, q[i], q[j])
    BY <1>1, <1>2, <1>3
  <2> QED
    BY <2>1 DEF Rids
<1>5. \A i, k \in 1 .. j - 1 : f[i] = f[k] => i = k
  <2> SUFFICES ASSUME NEW i \in 1 .. j - 1, NEW k \in 1 .. j - 1,
                      q[i].rid = q[k].rid
               PROVE  i = k
    OBVIOUS
  <2>1. q[i] \in rows /\ q[k] \in rows /\ i \in 1 .. n /\ k \in 1 .. n
    BY <1>1, <1>3
  <2> QED
    BY <1>1, <2>1 DEF RowsInv
<1>6. \A t \in T : \E i \in 1 .. j - 1 : f[i] = t
  <2> SUFFICES ASSUME NEW y \in rows, Ahead(cmd, y, q[j])
               PROVE  \E i \in 1 .. j - 1 : f[i] = y.rid
    BY ZenonT(30) DEF Rids
  <2>1. PICK i \in 1 .. n : q[i] = y
    BY <1>0
  <2>2. i \in 1 .. j - 1
    BY SMT, <1>1, <1>2, <2>1
  <2> QED
    BY <2>1, <2>2
<1>7. IsFiniteSet(1 .. j - 1) /\ Cardinality(1 .. j - 1) = j - 1
  <2>1. j \in Nat /\ j >= 1
    BY SMT, <1>1
  <2> QED
    BY <2>1, Interval
<1> HIDE DEF f, T
<1>8. f \in Bijection(1 .. j - 1, T)
  <2>1. DOMAIN f = 1 .. j - 1
    BY <1>4
  <2>2. f \in Injection(1 .. j - 1, T)
    BY <1>4, <1>5, <2>1 DEF Injection, IsInjective
  <2>3. f \in Surjection(1 .. j - 1, T)
    BY <1>4, <1>6 DEF Surjection
  <2> QED
    BY <2>2, <2>3 DEF Bijection
<1>9. Cardinality(T) = j - 1
  BY SMT, <1>7, <1>8, FS_Bijection DEF ExistsBijection
<1> QED
  BY <1>9 DEF Rank, T
(* limit start, count: the rows from place start + 1 on, if there are any *)
LEMMA PageRank ==
    ASSUME RowsInv, NEW cmd \in Cmds \ {"count"}, NEW q \in Listings(rows),
           Ordered(cmd, q), NEW start \in Nat
    PROVE  /\ Page(q, start, PageSize) \in Seq(RowRec)
           /\ Page(q, start, PageSize) = <<>> => Cardinality(rows) <= start
           /\ Distinct(cmd) => \A k \in 1 .. Len(Page(q, start, PageSize)) :
                 LET x == Page(q, start, PageSize)[k] IN
                    x \in rows /\ Rank(cmd, x) = start + k - 1
<1> DEFINE n == Cardinality(rows)
           e == IF start + PageSize <= n THEN start + PageSize ELSE n
           s == Page(q, start, PageSize)
<1>1. /\ n \in Nat /\ q \in [1 .. n -> rows] /\ Len(q) = n
  BY OrderIsOnto
<1>2. /\ e \in Nat /\ e <= n /\ (e < start + 1 => n <= start)
      /\ start + 1 \in Int /\ e \in Int /\ PageSize \in Nat
  BY SMT, <1>1, MyFilesAssumption
<1>3. s = SubSeq(q, start + 1, e)
  BY <1>1 DEF Page
<1> HIDE DEF n, e, s
<1>4. \A i \in start + 1 .. e : i \in 1 .. n
  BY SMT, <1>1, <1>2
<1>5. \A i \in start + 1 .. e : q[i] \in rows
  BY <1>1, <1>4
<1>6. /\ s \in Seq(rows)
      /\ Len(s) = IF start + 1 <= e THEN e - (start + 1) + 1 ELSE 0
      /\ \A k \in 1 .. e - (start + 1) + 1 : s[k] = q[(start + 1) + k - 1]
  BY SMT, <1>2, <1>3, <1>5, SubSeqProperties
<1>7. s \in Seq(RowRec)
  BY SMT, <1>6 DEF RowsInv
<1>8. ASSUME s = <<>> PROVE n <= start
  <2>1. Len(s) = 0
    BY <1>8
  <2>2. 0 = IF start + 1 <= e THEN e - (start + 1) + 1 ELSE 0
    BY <1>6, <2>1
  <2> QED
    BY SMT, <1>2, <2>2
<1>9. ASSUME Distinct(cmd), NEW k \in 1 .. Len(s)
      PROVE  s[k] \in rows /\ Rank(cmd, s[k]) = start + k - 1
  <2>1. /\ k \in 1 .. e - (start + 1) + 1 /\ k \in Nat
        /\ start + k \in 1 .. n /\ (start + 1) + k - 1 = start + k
    BY SMT, <1>1, <1>2, <1>6
  <2>2. s[k] = q[start + k]
    BY <1>6, <2>1
  <2>3. Rank(cmd, q[start + k]) = (start + k) - 1
    BY <1>9, <2>1, OrderRank DEF n
  <2> QED
    BY SMT, <1>1, <2>1, <2>2, <2>3
<1> QED
  BY <1>7, <1>8, <1>9 DEF n, s
-----------------------------------------------------------------------------
(* no walk is a walk of no client *)
LEMMA WalkIsNone ==
    /\ NoWalk.client = None
    /\ \A w \in WalkRec : w # NoWalk /\ w.client \in Clients
BY SMT, SessionAssumption DEF NoWalk, WalkRec

(* nothing of a walk changes; a statement may fail *)
LEMMA QuietWalk ==
    ASSUME RowsInv, PageInv, ShowsInv, sqlErrs \in Nat, sqlErrs' \in Nat,
           sqlErrs' >= sqlErrs, UNCHANGED <<rows, nextRid, walk, changes>>
    PROVE  /\ RowsInv'
           /\ ShowsInv'
           /\ walk' \in WalkRec \cup {NoWalk}
           /\ walk' # NoWalk => walk'.errs <= sqlErrs'
<1>1. RowsInv'
  BY DEF RowsInv
<1>2. walk' \in WalkRec \cup {NoWalk}
  BY DEF PageInv
<1>3. ASSUME walk # NoWalk PROVE walk.errs \in Nat /\ walk.errs <= sqlErrs
  BY <1>3 DEF PageInv, WalkRec
<1>4. walk' # NoWalk => walk'.errs <= sqlErrs'
  BY SMT, <1>3
<1>5. ASSUME walk # NoWalk, sqlErrs' = walk.errs PROVE sqlErrs = walk.errs
  BY SMT, <1>3, <1>5
<1>6. ShowsInv'
  BY <1>5 DEF ShowsInv, Shows, Rank
<1> QED
  BY <1>1, <1>2, <1>4, <1>6

(* Parse leaves the account, and the place the client asked for *)
LEMMA ParseList ==
    ASSUME NEW c, NEW cmd, NEW start, NEW fields \in Nat,
           Parse(c, cmd, start, fields)
    PROVE  /\ list'.client = c /\ list'.start = start
           /\ list'.from = IF fields >= Fields(buf'.cmd) THEN held[c][1] ELSE None
           /\ buf'.cmd = IF cmd # None THEN cmd ELSE buf.cmd
           /\ Fields(buf'.cmd) = IF buf'.cmd = "count" THEN 2 ELSE 4
BY DEF Parse, Fields

(* a walk starts with no row shown *)
LEMMA WalkStarts ==
    ASSUME RowsInv, PageInv, ShowsInv, sqlErrs \in Nat,
           NEW c \in Clients, NEW cmd \in Cmds, StartWalk(c, cmd)
    PROVE  WalkInv'
<1>1. /\ walk' = [client |-> c, cmd |-> cmd, shown |-> <<>>, first |-> rows,
                  changed |-> {}, errs |-> sqlErrs, ended |-> FALSE]
      /\ Parse(c, cmd, 0, 4) /\ held[c][1] = Owner /\ cmd # "count"
      /\ UNCHANGED <<rows, nextRid, changes, sqlErrs>>
  BY DEF StartWalk, Accept, sessionVars
<1>2. /\ walk'.shown = <<>> /\ walk'.first = rows /\ ~walk'.ended
      /\ walk'.errs = sqlErrs /\ walk'.cmd = cmd /\ walk'.client = c
  BY <1>1
<1>3. RowsInv'
  BY <1>1 DEF RowsInv
<1>4. walk' \in WalkRec
  BY SMT, <1>1 DEF WalkRec, RowsInv
<1>5. list'.start = 0 /\ list'.from = Owner
  BY SMT, <1>1, ParseList, MyFilesAssumption
<1>6. PageInv'
  BY SMT, <1>1, <1>2, <1>4, <1>5 DEF PageInv
<1>7. Shows(walk)'
  <2>1. rows' = rows /\ DOMAIN walk'.shown = {}
    BY SMT, <1>1, <1>2
  <2> QED
    BY <1>2, <2>1 DEF Shows
<1>8. ShowsInv'
  BY <1>7 DEF ShowsInv
<1> QED
  BY <1>3, <1>6, <1>8 DEF WalkInv
(* a client asks for the next page *)
LEMMA WalkGoesOn ==
    ASSUME RowsInv, PageInv, ShowsInv, sqlErrs \in Nat, NextPage
    PROVE  WalkInv'
<1>1. /\ Parse(walk.client, walk.cmd, Len(walk.shown), 4)
      /\ held[walk.client][1] = Owner /\ walk # NoWalk
      /\ UNCHANGED <<rows, nextRid, changes, sqlErrs, walk>>
  BY DEF NextPage, Accept, sessionVars
<1>2. walk.cmd \in Cmds \ {"count"}
  BY <1>1 DEF PageInv, WalkRec
<1>3. list'.start = Len(walk.shown) /\ list'.from = Owner
  BY SMT, <1>1, <1>2, ParseList, MyFilesAssumption
<1>4. /\ RowsInv' /\ ShowsInv' /\ walk' \in WalkRec \cup {NoWalk}
      /\ walk' # NoWalk => walk'.errs <= sqlErrs'
  BY SMT, <1>1, QuietWalk
<1> QED
  BY <1>1, <1>3, <1>4 DEF WalkInv, PageInv

(* a request that is not one of the walk *)
LEMMA OtherWalk ==
    ASSUME RowsInv, PageInv, ShowsInv, sqlErrs \in Nat, NEW c \in Clients,
           NEW cmd \in Cmds \cup {None}, NEW fields \in 0 .. 3,
           OtherRequest(c, cmd, fields)
    PROVE  WalkInv'
<1>1. /\ Parse(c, cmd, 0, fields)
      /\ UNCHANGED <<rows, nextRid, changes, sqlErrs, walk>>
  BY DEF OtherRequest, Accept, sessionVars
<1>2. /\ RowsInv' /\ ShowsInv' /\ walk' \in WalkRec \cup {NoWalk}
      /\ walk' # NoWalk => walk'.errs <= sqlErrs'
  BY SMT, <1>1, QuietWalk
<1>3. walk' # NoWalk => walk'.cmd # "count"
  BY <1>2 DEF WalkRec
<1>4. list'.from # None => buf'.cmd = "count"
  BY SMT, <1>1, ParseList
<1>5. ~OfWalk'
  BY <1>3, <1>4 DEF OfWalk
<1> QED
  BY <1>2, <1>5 DEF WalkInv, PageInv

(* the request at hand is done, and the rows are as they were *)
LEMMA WalkEnds ==
    ASSUME RowsInv, PageInv, ShowsInv, sqlErrs \in Nat, sqlErrs' \in Nat,
           sqlErrs' >= sqlErrs, UNCHANGED <<rows, nextRid, changes>>, list' = Idle,
           walk' = walk \/ walk' = NoWalk
    PROVE  WalkInv'
<1>1. CASE walk' = walk
  BY <1>1, QuietWalk DEF WalkInv, PageInv
<1>2. CASE walk' = NoWalk
  <2>1. RowsInv'
    BY DEF RowsInv
  <2> QED
    BY <1>2, <2>1 DEF WalkInv, PageInv, ShowsInv
<1> QED
  BY <1>1, <1>2

(* the token check changes nothing of a walk but that it may end it *)
LEMMA WalkVerified ==
    ASSUME RowsInv, PageInv, ShowsInv, AccountInv, ListInv, MyFilesVerify
    PROVE  WalkInv'
<1>1. sqlErrs \in Nat /\ sqlErrs' \in Nat /\ sqlErrs' >= sqlErrs
  BY SMT DEF MyFilesVerify, Works, Fails, AccountInv
<1>2. UNCHANGED <<rows, nextRid, changes, buf>>
  BY DEF MyFilesVerify
<1>3. CASE list' = Idle
  BY <1>1, <1>2, <1>3, WalkEnds DEF MyFilesVerify
<1>4. CASE list' = [list EXCEPT !.pc = "select"] /\ walk' = walk
  <2>1. /\ RowsInv' /\ ShowsInv' /\ walk' \in WalkRec \cup {NoWalk}
        /\ walk' # NoWalk => walk'.errs <= sqlErrs'
    BY <1>1, <1>2, <1>4, QuietWalk
  <2>2. list # Idle
    BY SMT DEF MyFilesVerify, Idle
  <2>3. PICK p, c, n, f : list = ListRec(p, c, n, f)
    BY <2>2 DEF ListInv
  <2>4. /\ list'.start = list.start /\ list'.from = list.from
        /\ list'.client = list.client
    BY <1>4, <2>3 DEF ListRec
  <2>5. OfWalk' => OfWalk
    BY <1>2, <1>4, <2>4 DEF OfWalk
  <2> QED
    BY <1>4, <2>1, <2>2, <2>4, <2>5 DEF WalkInv, PageInv
<1> QED
  BY <1>3, <1>4 DEF MyFilesVerify

(* a failing statement ends the walk, and is counted *)
LEMMA WalkFails ==
    ASSUME RowsInv, PageInv, ShowsInv, AccountInv, MyFilesError
    PROVE  WalkInv'
<1>1. sqlErrs \in Nat /\ sqlErrs' \in Nat /\ sqlErrs' >= sqlErrs
  BY SMT DEF MyFilesError, Works, Fails, AccountInv
<1>2. UNCHANGED <<rows, nextRid, changes>> /\ list' = Idle
  BY DEF MyFilesError
<1>3. CASE ~OfWalk
  BY <1>1, <1>2, <1>3, WalkEnds DEF MyFilesError
<1>4. CASE OfWalk
  <2>1. walk # NoWalk /\ walk \in WalkRec /\ buf.cmd = walk.cmd
    BY <1>4 DEF OfWalk, PageInv
  <2>2. buf.cmd # None
    BY <2>1, MyFilesAssumption DEF WalkRec
  <2>3. sqlErrs' = sqlErrs + 1
    BY <2>2 DEF MyFilesError, Fails
  <2>4. /\ walk' = [walk EXCEPT !.ended = TRUE]
        /\ walk' \in WalkRec /\ walk'.errs = walk.errs
    BY <1>4, <2>1 DEF MyFilesError, WalkRec
  <2>5. walk.errs \in Nat /\ walk.errs <= sqlErrs
    BY <2>1 DEF PageInv, WalkRec
  <2>6. walk'.errs < sqlErrs' /\ walk'.errs <= sqlErrs'
    BY SMT, <1>1, <2>3, <2>4, <2>5
  <2>7. RowsInv'
    BY <1>2 DEF RowsInv
  <2>8. ShowsInv'
    BY SMT, <1>1, <2>4, <2>5, <2>6 DEF ShowsInv
  <2> QED
    BY <1>2, <2>4, <2>6, <2>7, <2>8 DEF WalkInv, PageInv
<1> QED
  BY <1>3, <1>4
(* what was shown, and one more page *)
LEMMA MoreShown ==
    ASSUME NEW s \in Seq(RowRec), NEW t \in Seq(RowRec), NEW i \in DOMAIN (s \o t)
    PROVE  \/ i \in DOMAIN s /\ (s \o t)[i] = s[i]
           \/ \E k \in 1 .. Len(t) : i = Len(s) + k /\ (s \o t)[i] = t[k]
<1>1. /\ s \o t \in Seq(RowRec) /\ Len(s \o t) = Len(s) + Len(t)
      /\ Len(s) \in Nat /\ Len(t) \in Nat
      /\ \A j \in 1 .. Len(s) + Len(t) : (s \o t)[j] =
            IF j <= Len(s) THEN s[j] ELSE t[j - Len(s)]
      /\ DOMAIN s = 1 .. Len(s)
  BY ConcatProperties, LenProperties
<1>2. i \in 1 .. Len(s) + Len(t)
  BY <1>1, LenProperties
<1>3. CASE i <= Len(s)
  BY SMT, <1>1, <1>2, <1>3
<1>4. CASE ~(i <= Len(s))
  <2>1. /\ i - Len(s) \in 1 .. Len(t) /\ i = Len(s) + (i - Len(s))
    BY SMT, <1>1, <1>2, <1>4
  <2>2. (s \o t)[i] = t[i - Len(s)]
    BY <1>1, <1>2, <1>4
  <2> QED
    BY <2>1, <2>2
<1> QED
  BY <1>3, <1>4

(* a page puts the rows of the next ranks behind the ones shown *)
LEMMA WalkShown ==
    ASSUME RowsInv, PageInv, ShowsInv, AccountInv, ListInv, get_user_filelist
    PROVE  WalkInv'
<1>1. /\ UNCHANGED <<rows, nextRid, changes, sqlErrs>> /\ list' = Idle
      /\ list # Idle /\ list.pc = "select" /\ sqlErrs \in Nat
  BY SMT DEF get_user_filelist, sessionVars, AccountInv, Idle
<1>2. RowsInv'
  BY <1>1 DEF RowsInv
<1>3. CASE ~OfWalk
  <2>1. walk' = walk
    BY <1>3 DEF get_user_filelist
  <2>2. sqlErrs' >= sqlErrs /\ sqlErrs' \in Nat
    BY SMT, <1>1
  <2> QED
    BY <1>1, <2>1, <2>2, WalkEnds
<1>4. CASE OfWalk
  <2>1. /\ walk # NoWalk /\ walk \in WalkRec /\ buf.cmd = walk.cmd
        /\ walk.errs <= sqlErrs
    BY <1>4 DEF OfWalk, PageInv
  <2>2. /\ walk.shown \in Seq(RowRec) /\ walk.cmd \in Cmds \ {"count"}
        /\ Len(walk.shown) \in Nat /\ DOMAIN walk.shown = 1 .. Len(walk.shown)
    BY <2>1, LenProperties DEF WalkRec
  <2>3. list.start = Len(walk.shown) /\ buf.user = Owner
    BY <1>1, <1>4, MyFilesAssumption, SessionAssumption
       DEF PageInv, ListInv, ServedForSender
  <2>4. PICK q \in Listings(rows) :
           /\ Ordered(walk.cmd, q)
           /\ walk' = IF Page(q, Len(walk.shown), PageSize) = <<>>
                      THEN [walk EXCEPT !.ended = TRUE]
                      ELSE [walk EXCEPT !.shown =
                               @ \o Page(q, Len(walk.shown), PageSize)]
    BY <1>4, <2>1, <2>3 DEF get_user_filelist, Rows
  <2> DEFINE page == Page(q, Len(walk.shown), PageSize)
  <2>5. /\ page \in Seq(RowRec)
        /\ page = <<>> => Cardinality(rows) <= Len(walk.shown)
        /\ Distinct(walk.cmd) => \A k \in 1 .. Len(page) :
              page[k] \in rows /\ Rank(walk.cmd, page[k]) = Len(walk.shown) + k - 1
    BY <2>2, <2>4, PageRank
  <2> HIDE DEF page
  <2>6. ASSUME Calm(walk), Shows(walk) PROVE Distinct(walk.cmd)
    BY <2>6 DEF Calm, Shows, Distinct
  <2>7. CASE page = <<>>
    <3>1. /\ walk' \in WalkRec /\ walk'.cmd = walk.cmd /\ walk'.first = walk.first
          /\ walk'.changed = walk.changed /\ walk'.errs = walk.errs
          /\ walk'.shown = walk.shown
      <4>1. walk' = [walk EXCEPT !.ended = TRUE]
        BY <2>4, <2>7 DEF page
      <4> QED
        BY <2>1, <4>1 DEF WalkRec
    <3>2. ShowsInv'
      BY SMT, <1>1, <2>1, <2>5, <2>7, <3>1 DEF ShowsInv, Shows, Calm, Rank
    <3> QED
      BY <1>1, <1>2, <2>1, <3>1, <3>2 DEF WalkInv, PageInv
  <2>8. CASE page # <<>>
    <3>1. walk.shown \o page \in Seq(RowRec)
      BY <2>2, <2>5, ConcatProperties
    <3>2. /\ walk' \in WalkRec /\ walk'.cmd = walk.cmd /\ walk'.first = walk.first
          /\ walk'.changed = walk.changed /\ walk'.errs = walk.errs
          /\ walk'.shown = walk.shown \o page /\ walk'.ended = walk.ended
      BY <2>1, <2>4, <2>8, <3>1 DEF WalkRec, page
    <3>3. ASSUME Calm(walk), Shows(walk), NEW i \in DOMAIN (walk.shown \o page)
          PROVE  \E x \in rows : /\ x.rid = (walk.shown \o page)[i].rid
                                 /\ Rank(walk.cmd, x) = i - 1
      <4>1. CASE i \in DOMAIN walk.shown /\ (walk.shown \o page)[i] = walk.shown[i]
        BY <3>3, <4>1 DEF Shows
      <4>2. ASSUME NEW k \in 1 .. Len(page), i = Len(walk.shown) + k,
                   (walk.shown \o page)[i] = page[k]
            PROVE  \E x \in rows : /\ x.rid = (walk.shown \o page)[i].rid
                                   /\ Rank(walk.cmd, x) = i - 1
        <5>1. page[k] \in rows /\ Rank(walk.cmd, page[k]) = i - 1
          BY SMT, <2>5, <2>6, <3>3, <4>2
        <5> QED
          BY <4>2, <5>1
      <4> QED
        BY <2>2, <2>5, <4>1, <4>2, MoreShown
    <3>4. Len(walk.shown) <= Len(walk.shown \o page)
      BY SMT, <2>2, <2>5, ConcatProperties, LenProperties
    <3>5. /\ Cardinality(rows) \in Nat /\ Len(walk.shown \o page) \in Nat
      BY <3>1, FS_CardinalityType, LenProperties DEF RowsInv
    <3>6. ASSUME Shows(walk), walk.ended
          PROVE  Cardinality(rows) <= Len(walk.shown \o page)
      BY SMT, <2>2, <3>4, <3>5, <3>6 DEF Shows
    <3>7. /\ Calm(walk)' <=> Calm(walk)
          /\ \A x \in rows : Rank(walk.cmd, x)' = Rank(walk.cmd, x)
      BY <1>1, <3>2 DEF Calm, Rank
    <3>8. ASSUME Calm(walk), Shows(walk)
          PROVE  Shows(walk)'
      <4>1. IF walk.cmd = "normal" THEN Rids(walk.first) \subseteq Rids(rows)
            ELSE rows = walk.first
        BY <3>8 DEF Shows
      <4>2. \A i \in DOMAIN walk'.shown :
               \E x \in rows : /\ x.rid = walk'.shown[i].rid
                               /\ Rank(walk.cmd, x) = i - 1
        BY <3>2, <3>3, <3>8
      <4> QED
        BY <1>1, <3>2, <3>6, <3>8, <4>1, <4>2 DEF Shows, Rank
    <3>9. ShowsInv'
      BY <1>1, <2>1, <3>2, <3>7, <3>8 DEF ShowsInv
    <3> QED
      BY <1>1, <1>2, <2>1, <3>2, <3>9 DEF WalkInv, PageInv
  <2> QED
    BY <2>7, <2>8
<1> QED
  BY <1>3, <1>4
(* another service changes the rows, and the walk takes note *)
LEMMA ChangeNoted ==
    ASSUME RowsInv, PageInv, NEW kind \in {"insert", "delete", "pv"}, Change(kind)
    PROVE  /\ walk # NoWalk /\ walk \in WalkRec /\ ~walk.ended
           /\ walk' # NoWalk /\ walk'.cmd = walk.cmd /\ walk'.first = walk.first
           /\ walk'.shown = walk.shown /\ walk'.errs = walk.errs /\ ~walk'.ended
           /\ walk'.changed = walk.changed \cup {kind}
           /\ changes' = changes + 1 /\ changes' \in 0 .. MaxChanges
           /\ sqlErrs' = sqlErrs
           /\ PageInv'
<1>1. /\ walk # NoWalk /\ ~walk.ended /\ changes < MaxChanges
      /\ changes' = changes + 1
      /\ walk' = [walk EXCEPT !.changed = @ \cup {kind}]
      /\ UNCHANGED <<sqlErrs, list, buf>>
  BY DEF Change, sessionVars
<1>2. walk \in WalkRec
  BY <1>1 DEF PageInv
<1>3. /\ walk' \in WalkRec
      /\ walk'.cmd = walk.cmd /\ walk'.first = walk.first /\ walk'.client = walk.client
      /\ walk'.shown = walk.shown /\ walk'.errs = walk.errs
      /\ walk'.ended = walk.ended /\ walk'.changed = walk.changed \cup {kind}
  BY <1>1, <1>2 DEF WalkRec
<1>4. walk' # NoWalk
  BY <1>3, WalkIsNone
<1>5. changes' \in 0 .. MaxChanges
  BY SMT, <1>1, MyFilesAssumption DEF RowsInv
<1>6. OfWalk' => OfWalk
  BY <1>1, <1>3 DEF OfWalk
<1>7. PageInv'
  BY <1>1, <1>3, <1>6 DEF PageInv
<1> QED
  BY <1>1, <1>2, <1>3, <1>4, <1>5, <1>7

(* the place of a row in the order of the numbers *)
LEMMA NormalRank ==
    ASSUME NEW S, NEW x
    PROVE  Rids({y \in S : Ahead("normal", y, x)}) = {r \in Rids(S) : r < x.rid}
BY DEF Rids, Ahead

(* a new row has the largest number: it comes behind the ranks shown *)
LEMMA RowInserted ==
    ASSUME RowsInv, PageInv, ShowsInv, InsertRow
    PROVE  WalkInv'
<1> DEFINE new == [rid |-> nextRid, pv |-> 0]
<1>1. Change("insert") /\ rows' = rows \cup {new} /\ nextRid' = nextRid + 1
  BY DEF InsertRow
<1>2. /\ new \in RowRec /\ new.rid = nextRid /\ new.pv = 0 /\ nextRid \in Nat
      /\ changes \in Nat
  BY SMT, MyFilesAssumption DEF RowRec, RowsInv
<1>3. changes' = changes + 1 /\ changes' \in 0 .. MaxChanges
  BY <1>1, ChangeNoted
<1> HIDE DEF new
<1>4. IsFiniteSet(rows')
  BY <1>1, FS_AddElement DEF RowsInv
<1>5. \A x \in rows : x.rid \in Nat /\ x.rid < nextRid /\ x.pv \in Nat
                      /\ x.pv <= 2 + changes
  BY DEF RowsInv, RowRec
<1>6. \A x \in rows' : x.rid < nextRid' /\ x.pv <= 2 + changes'
  BY SMT, <1>1, <1>2, <1>3, <1>5
<1>7. \A x, y \in rows' : x.rid = y.rid => x = y
  BY SMT, <1>1, <1>2, <1>5 DEF RowsInv
<1>8. RowsInv'
  BY SMT, <1>1, <1>2, <1>3, <1>4, <1>6, <1>7 DEF RowsInv
<1>9. ShowsInv'
  <2> SUFFICES ASSUME sqlErrs' = walk'.errs, Calm(walk)'
               PROVE  Shows(walk)'
    BY DEF ShowsInv
  <2>1. /\ walk'.cmd = walk.cmd /\ walk'.first = walk.first
        /\ walk'.shown = walk.shown /\ ~walk'.ended
        /\ walk'.changed = walk.changed \cup {"insert"}
        /\ sqlErrs = walk.errs /\ walk # NoWalk
    BY <1>1, ChangeNoted
  <2>2. walk.cmd = "normal" /\ Calm(walk)
    BY <2>1 DEF Calm
  <2>3. Shows(walk)
    BY <2>1, <2>2 DEF ShowsInv
  <2>4. Rids(rows') = Rids(rows) \cup {nextRid}
    BY <1>1, <1>2 DEF Rids
  <2>5. ASSUME NEW x \in rows
        PROVE  {r \in Rids(rows') : r < x.rid} = {r \in Rids(rows) : r < x.rid}
    <3>1. ~(nextRid < x.rid)
      BY SMT, <1>2, <1>5
    <3> QED
      BY <2>4, <3>1
  <2>6. ASSUME NEW x \in rows
        PROVE  Rank("normal", x)' = Rank("normal", x)
    <3>1. Rank("normal", x) = Cardinality({r \in Rids(rows) : r < x.rid})
      BY NormalRank DEF Rank
    <3>2. Rank("normal", x)' = Cardinality({r \in Rids(rows') : r < x.rid})
      BY NormalRank DEF Rank
    <3> QED
      BY <2>5, <3>1, <3>2
  <2>7. Rids(walk.first) \subseteq Rids(rows')
    BY <2>2, <2>3, <2>4 DEF Shows
  <2>8. \A i \in DOMAIN walk.shown : \E x \in rows' :
           x.rid = walk.shown[i].rid /\ Rank("normal", x)' = i - 1
    BY <1>1, <2>2, <2>3, <2>6 DEF Shows
  <2> QED
    BY <2>1, <2>2, <2>7, <2>8 DEF Shows
<1> QED
  BY <1>1, <1>8, <1>9, ChangeNoted DEF WalkInv

(* a row deleted makes the walk one that promises nothing *)
LEMMA RowDeleted ==
    ASSUME RowsInv, PageInv, DeleteRow
    PROVE  WalkInv'
<1>1. Change("delete") /\ rows' \subseteq rows /\ nextRid' = nextRid
  BY DEF DeleteRow
<1>2. changes' = changes + 1 /\ changes' \in 0 .. MaxChanges /\ changes \in Nat
  BY SMT, <1>1, ChangeNoted, MyFilesAssumption DEF RowsInv
<1>3. IsFiniteSet(rows')
  BY <1>1, FS_Subset DEF RowsInv
<1>4. \A x \in rows' : x.rid < nextRid' /\ x.pv <= 2 + changes'
  BY SMT, <1>1, <1>2 DEF RowsInv, RowRec
<1>5. RowsInv'
  BY <1>1, <1>2, <1>3, <1>4 DEF RowsInv
<1>6. ShowsInv'
  BY <1>1, ChangeNoted DEF ShowsInv, Calm
<1> QED
  BY <1>1, <1>5, <1>6, ChangeNoted DEF WalkInv

(* a download changes no rank by number, and disturbs the walks by pv *)
LEMMA PvBumped ==
    ASSUME RowsInv, PageInv, ShowsInv, BumpPv
    PROVE  WalkInv'
<1>1. /\ Change("pv") /\ nextRid' = nextRid
      /\ \E z \in rows : rows' = (rows \ {z}) \cup {[z EXCEPT !.pv = @ + 1]}
  BY DEF BumpPv
<1>2. PICK z \in rows : rows' = (rows \ {z}) \cup {[z EXCEPT !.pv = @ + 1]}
  BY <1>1
<1> DEFINE new == [z EXCEPT !.pv = @ + 1]
<1>3. new \in RowRec /\ new.rid = z.rid /\ new.pv = z.pv + 1
  <2>1. z \in RowRec
    BY DEF RowsInv
  <2> QED
    BY SMT, <2>1 DEF RowRec
<1>4. rows' = (rows \ {z}) \cup {new}
  BY <1>2
<1> HIDE DEF new
<1>5. /\ changes' = changes + 1 /\ changes' \in 0 .. MaxChanges /\ changes \in Nat
  BY SMT, <1>1, ChangeNoted, MyFilesAssumption DEF RowsInv
<1>6. IsFiniteSet(rows')
  <2>1. IsFiniteSet(rows \ {z})
    BY FS_RemoveElement DEF RowsInv
  <2> QED
    BY <1>4, <2>1, FS_AddElement
<1>7. \A x \in rows : x.rid \in Nat /\ x.rid < nextRid /\ x.pv \in Nat
                      /\ x.pv <= 2 + changes
  BY DEF RowsInv, RowRec
<1>8. ASSUME NEW x \in rows'
      PROVE  x.rid < nextRid' /\ x.pv <= 2 + changes'
  <2>1. nextRid' = nextRid
    BY <1>1
  <2>2. CASE x = new
    BY SMT, <1>3, <1>5, <1>7, <2>1, <2>2
  <2>3. CASE x \in rows
    BY SMT, <1>5, <1>7, <2>1, <2>3
  <2> QED
    BY <1>4, <2>2, <2>3
<1>9. \A x, y \in rows' : x.rid = y.rid => x = y
  <2>1. \A x, y \in rows : x.rid = y.rid => x = y
    BY DEF RowsInv
  <2> QED
    BY ZenonT(30), <1>3, <1>4, <2>1
<1>10. RowsInv'
  BY <1>1, <1>3, <1>4, <1>5, <1>6, <1>8, <1>9 DEF RowsInv
<1>11. ShowsInv'
  <2> SUFFICES ASSUME sqlErrs' = walk'.errs, Calm(walk)'
               PROVE  Shows(walk)'
    BY DEF ShowsInv
  <2>1. /\ walk'.cmd = walk.cmd /\ walk'.first = walk.first
        /\ walk'.shown = walk.shown /\ ~walk'.ended
        /\ walk'.changed = walk.changed \cup {"pv"}
        /\ sqlErrs = walk.errs /\ walk # NoWalk
    BY <1>1, ChangeNoted
  <2>2. walk.cmd = "normal" /\ Calm(walk)
    BY <2>1 DEF Calm
  <2>3. Shows(walk)
    BY <2>1, <2>2 DEF ShowsInv
  <2>4. Rids(rows') = Rids(rows)
    BY <1>3, <1>4 DEF Rids
  <2>5. ASSUME NEW x \in rows, NEW y \in rows', x.rid = y.rid
        PROVE  Rank("normal", y)' = Rank("normal", x)
    <3>1. Rank("normal", x) = Cardinality({r \in Rids(rows) : r < x.rid})
      BY NormalRank DEF Rank
    <3>2. Rank("normal", y)' = Cardinality({r \in Rids(rows') : r < y.rid})
      BY NormalRank DEF Rank
    <3> QED
      BY <2>4, <2>5, <3>1, <3>2
  <2>6. \A x \in rows : \E y \in rows' : x.rid = y.rid
    BY <1>3, <1>4
  <2>7. Rids(walk.first) \subseteq Rids(rows')
    BY <2>2, <2>3, <2>4 DEF Shows
  <2>8. \A i \in DOMAIN walk.shown : \E x \in rows' :
           x.rid = walk.shown[i].rid /\ Rank("normal", x)' = i - 1
    BY SMT, <2>2, <2>3, <2>5, <2>6 DEF Shows
  <2> QED
    BY <2>1, <2>2, <2>7, <2>8 DEF Shows
<1> QED
  BY <1>1, <1>10, <1>11, ChangeNoted DEF WalkInv
(* three rows, with numbers of their own *)
LEMMA RowsInit == Init => RowsInv
<1> SUFFICES ASSUME Init PROVE RowsInv
  OBVIOUS
<1>1. nextRid = 4 /\ changes = 0
  BY DEF Init
<1> DEFINE row(p) == [i \in 1 .. 3 |-> [rid |-> i, pv |-> p[i]]]
<1>2. PICK p \in [1 .. 3 -> 0 .. 2] : rows = {row(p)[i] : i \in 1 .. 3}
  <2>1. CASE rows = {[rid |-> i, pv |-> 0] : i \in 1 .. 3}
    <3> DEFINE p == [i \in 1 .. 3 |-> 0]
    <3>1. p \in [1 .. 3 -> 0 .. 2] /\ \A i \in 1 .. 3 : row(p)[i] = [rid |-> i, pv |-> 0]
      BY SMT
    <3> QED
      BY ZenonT(30), <2>1, <3>1
  <2>2. CASE rows = {[rid |-> i, pv |-> 3 - i] : i \in 1 .. 3}
    <3> DEFINE p == [i \in 1 .. 3 |-> 3 - i]
    <3>1. p \in [1 .. 3 -> 0 .. 2]
          /\ \A i \in 1 .. 3 : row(p)[i] = [rid |-> i, pv |-> 3 - i]
      BY SMT
    <3> QED
      BY <2>2, <3>1
  <2> QED
    BY <2>1, <2>2 DEF Init
<1> DEFINE f == row(p)
<1>3. \A i \in 1 .. 3 : /\ f[i] \in RowRec /\ f[i].rid = i
                        /\ f[i].pv = p[i] /\ p[i] \in 0 .. 2
  BY SMT DEF RowRec
<1> HIDE DEF row
<1>4. rows = {f[i] : i \in 1 .. 3}
  BY <1>2
<1> HIDE DEF f
<1>5. rows = ({f[1]} \cup {f[2]}) \cup {f[3]}
  BY SMT, <1>4
<1>6. IsFiniteSet(rows)
  <2>1. IsFiniteSet({f[1]})
    BY FS_Singleton
  <2>2. IsFiniteSet({f[1]} \cup {f[2]})
    BY <2>1, FS_AddElement
  <2> QED
    BY <1>5, <2>2, FS_AddElement
<1>7. rows \subseteq RowRec
  BY <1>3, <1>4
<1>8. \A x \in rows : x.rid < 4 /\ x.pv <= 2 + 0
  BY SMT, <1>3, <1>4
<1>9. \A x, y \in rows : x.rid = y.rid => x = y
  BY SMT, <1>3, <1>4
<1> QED
  BY SMT, <1>1, <1>6, <1>7, <1>8, <1>9, MyFilesAssumption DEF RowsInv

(* there is no walk at the start *)
LEMMA WalkInit == Init => WalkInv
<1> SUFFICES ASSUME Init PROVE WalkInv
  OBVIOUS
<1>1. walk = NoWalk /\ list = Idle
  BY DEF Init
<1> QED
  BY <1>1, RowsInit DEF WalkInv, PageInv, ShowsInv

(* a failing statement of register or login is counted *)
LEMMA ErrsGrow ==
    ASSUME AccountInv, SessionNext
    PROVE  sqlErrs \in Nat /\ sqlErrs' \in Nat /\ sqlErrs' >= sqlErrs
<1>1. sqlErrs \in Nat
  BY DEF AccountInv
<1>2. CASE Works \/ Fails
  BY SMT, <1>1, <1>2 DEF Works, Fails
<1>3. CASE RegisterNext
  BY <1>2, <1>3 DEF RegisterNext, RegisterAccept, RegisterSelect, RegisterInsert, Works
<1>4. CASE LoginNext
  BY <1>2, <1>4 DEF LoginNext, LoginAccept, check_user_pwd, set_token, LoginReply, Works
<1>5. CASE (\E u \in Names : Expire(u)) \/ KillSession
  BY <1>2, <1>5 DEF Expire, KillSession, Works
<1> QED
  BY <1>3, <1>4, <1>5 DEF SessionNext

(* every step keeps the walk *)
LEMMA WalkStep == WalkInv /\ AccountInv /\ ListInv /\ [Next]_vars => WalkInv'
<1> SUFFICES ASSUME WalkInv, AccountInv, ListInv, [Next]_vars PROVE WalkInv'
  OBVIOUS
<1> USE DEF WalkInv
<1>1. sqlErrs \in Nat
  BY DEF AccountInv
<1>2. ASSUME UNCHANGED listVars, sqlErrs' \in Nat, sqlErrs' >= sqlErrs
      PROVE  WalkInv'
  <2>1. UNCHANGED <<rows, nextRid, list, buf, walk, changes>>
    BY <1>2 DEF listVars
  <2>2. /\ RowsInv' /\ ShowsInv' /\ walk' \in WalkRec \cup {NoWalk}
        /\ walk' # NoWalk => walk'.errs <= sqlErrs'
    BY <1>1, <1>2, <2>1, QuietWalk
  <2>3. OfWalk' = OfWalk
    BY <2>1 DEF OfWalk
  <2> QED
    BY <2>1, <2>2, <2>3 DEF PageInv
<1>3. CASE SessionNext /\ UNCHANGED listVars
  BY <1>2, <1>3, ErrsGrow
<1>4. CASE UNCHANGED vars
  BY SMT, <1>1, <1>2, <1>4 DEF vars, sessionVars
<1>5. ASSUME NEW c \in Clients, NEW cmd \in Cmds, StartWalk(c, cmd) PROVE WalkInv'
  BY <1>1, <1>5, WalkStarts
<1>6. ASSUME NEW c \in Clients, NEW cmd \in Cmds \cup {None}, NEW fields \in 0 .. 3,
             OtherRequest(c, cmd, fields)
      PROVE  WalkInv'
  BY <1>1, <1>6, OtherWalk
<1>7. CASE NextPage
  BY <1>1, <1>7, WalkGoesOn
<1>8. CASE MyFilesVerify
  BY <1>8, WalkVerified
<1>9. CASE get_user_filelist
  BY <1>9, WalkShown
<1>10. CASE get_user_files_count
  BY SMT, <1>1, <1>10, WalkEnds DEF get_user_files_count, sessionVars
<1>11. CASE MyFilesError
  BY <1>11, WalkFails
<1>12. CASE InsertRow \/ DeleteRow \/ BumpPv
  BY <1>12, RowInserted, RowDeleted, PvBumped
<1> QED
  BY <1>3, <1>4, <1>5, <1>6, <1>7, <1>8, <1>9, <1>10, <1>11, <1>12
  DEF Next, MyFilesNext, Done
(***************************************************************************)
(* myfiles_cgi.c: the pages a walk has shown are the first rows of the     *)
(* order, in that order, and the next page starts behind them, as long as  *)
(* no other service has disturbed that order and no statement has failed.  *)
(***************************************************************************)
THEOREM WalkCorrect == Spec => []WalkInv
BY LoginInvInit, AccountInvInit, ListInvInit, WalkInit, LoginInvStep,
   AccountInvStep, ListInvStep, WalkStep, PTL DEF Spec

(***************************************************************************)
(* myfiles_cgi.c: a walk to the first empty page shows every row once, for *)
(* every page size and any number of rows.  As many rows have been shown   *)
(* as there are, each at its own place in the order.                       *)
(***************************************************************************)
THEOREM PagesShowAll == Spec => []WalkShowsAll
<1>1. WalkInv => WalkShowsAll
  <2> SUFFICES ASSUME WalkInv, walk # NoWalk, walk.ended, sqlErrs = walk.errs,
                      Calm(walk)
               PROVE  /\ \A i, j \in DOMAIN walk.shown :
                            walk.shown[i].rid = walk.shown[j].rid => i = j
                      /\ Rids(walk.first) \subseteq Rids(Range(walk.shown))
    BY DEF WalkShowsAll
  <2> DEFINE n == Len(walk.shown)
  <2>1. walk \in WalkRec
    BY DEF WalkInv, PageInv
  <2>2. n \in Nat /\ DOMAIN walk.shown = 1 .. n
    BY SMT, <2>1 DEF WalkRec
  <2>3. Shows(walk)
    BY DEF WalkInv, ShowsInv
  <2>4. \A i \in 1 .. n :
           \E x \in rows : x.rid = walk.shown[i].rid /\ Rank(walk.cmd, x) = i - 1
    BY <2>2, <2>3 DEF Shows
  <2>5. /\ IsFiniteSet(rows) /\ Cardinality(rows) \in Nat
        /\ \A x, y \in rows : x.rid = y.rid => x = y
    BY FS_CardinalityType DEF WalkInv, RowsInv
  <2>6. Cardinality(rows) <= n
    BY <2>3 DEF Shows
  <2> DEFINE f == [i \in 1 .. n |-> CHOOSE x \in rows :
                      x.rid = walk.shown[i].rid /\ Rank(walk.cmd, x) = i - 1]
  <2> HIDE DEF n
  <2>7. \A i \in 1 .. n : /\ f[i] \in rows /\ f[i].rid = walk.shown[i].rid
                          /\ Rank(walk.cmd, f[i]) = i - 1
    BY <2>4
  <2>8. f \in [1 .. n -> rows]
    BY <2>7
  <2> HIDE DEF f
  <2>9. \A i, j \in 1 .. n : f[i] = f[j] => i = j
    BY SMT, <2>2, <2>7
  <2>10. f \in Injection(1 .. n, rows)
    BY <2>8, <2>9 DEF Injection, IsInjective
  <2>11. IsFiniteSet(1 .. n) /\ Cardinality(1 .. n) = n
    BY SMT, <2>2, FS_Interval
  <2>12. f \in Surjection(1 .. n, rows)
    <3>1. Cardinality(1 .. n) <= Cardinality(rows)
      BY <2>5, <2>10, FS_Injection
    <3>2. Cardinality(1 .. n) = Cardinality(rows)
      BY SMT, <2>2, <2>5, <2>6, <2>11, <3>1
    <3> QED
      BY <2>5, <2>10, <3>2, FS_Injection
  <2>13. ASSUME NEW i \in DOMAIN walk.shown, NEW j \in DOMAIN walk.shown,
                walk.shown[i].rid = walk.shown[j].rid
         PROVE  i = j
    <3>1. i \in 1 .. n /\ j \in 1 .. n
      BY <2>2
    <3>2. f[i] \in rows /\ f[j] \in rows /\ f[i].rid = f[j].rid
      BY <2>7, <2>13, <3>1
    <3> QED
      BY <2>5, <2>9, <3>1, <3>2
  <2>14. Rids(walk.first) \subseteq Rids(rows)
    <3>1. walk.cmd # "normal" => rows = walk.first
      BY <2>3 DEF Shows
    <3>2. walk.cmd = "normal" => Rids(walk.first) \subseteq Rids(rows)
      BY <2>3 DEF Shows
    <3> QED
      BY <3>1, <3>2
  <2>15. Rids(rows) \subseteq Rids(Range(walk.shown))
    <3>1. \A x \in rows : \E i \in 1 .. n : f[i] = x
      BY <2>12 DEF Surjection
    <3>2. \A i \in 1 .. n : walk.shown[i] \in Range(walk.shown)
      BY <2>2 DEF Range
    <3>3. ASSUME NEW x \in rows
          PROVE  \E y \in Range(walk.shown) : y.rid = x.rid
      <4>1. PICK i \in 1 .. n : f[i] = x
        BY <3>1
      <4>2. walk.shown[i].rid = x.rid
        BY <2>7, <4>1
      <4> QED
        BY <3>2, <4>2
    <3> QED
      BY <3>3 DEF Rids
  <2> QED
    BY <2>13, <2>14, <2>15
<1> QED
  BY WalkCorrect, <1>1, PTL
-----------------------------------------------------------------------------
(* what the buffers and the program point of the listing service may hold *)
BufRec == [user : Names, token : Token \cup {None},
           cmd : Cmds \cup {None}]

BufInv == buf \in BufRec /\ list.pc \in {"idle", "verify", "select"}

(* the buffers are empty at the start *)
LEMMA BufInit == Init => BufInv
BY SMT DEF Init, BufInv, BufRec, Idle, Names

(* a request puts a name, a token and a command into the buffers, or leaves them *)
LEMMA BufParsed ==
    ASSUME TokensInv, BufInv, NEW c \in Clients, NEW cmd \in Cmds \cup {None},
           NEW start, NEW fields \in 0 .. 4, Accept(c, cmd, start, fields)
    PROVE  BufInv'
<1>1. /\ held[c] # None /\ list'.pc = "verify"
      /\ buf' = [user  |-> IF fields >= 1 THEN held[c][1] ELSE buf.user,
                 token |-> IF fields >= 2 THEN held[c] ELSE buf.token,
                 cmd   |-> IF cmd # None THEN cmd ELSE buf.cmd]
  BY DEF Accept, Parse
<1>2. held[c] \in Token
  BY <1>1 DEF TokensInv
<1>3. held[c][1] \in Names
  BY <1>2 DEF Token
<1>4. /\ buf.user \in Names /\ buf.token \in Token \cup {None}
      /\ buf.cmd \in Cmds \cup {None}
  BY DEF BufInv, BufRec
<1>5. buf' \in BufRec
  BY <1>1, <1>2, <1>3, <1>4 DEF BufRec
<1> QED
  BY <1>1, <1>5 DEF BufInv

(* every step keeps the buffers typed *)
LEMMA BufStep ==
    TokensInv /\ BufInv /\ ListInv /\ WalkInv /\ [Next]_vars => BufInv'
<1> SUFFICES ASSUME TokensInv, BufInv, ListInv, WalkInv, [Next]_vars PROVE BufInv'
  OBVIOUS
<1>1. CASE UNCHANGED <<list, buf>>
  BY <1>1 DEF BufInv
<1>2. ASSUME NEW c \in Clients, NEW cmd \in Cmds, StartWalk(c, cmd) PROVE BufInv'
  BY SMT, <1>2, BufParsed DEF StartWalk
<1>3. ASSUME NEW c \in Clients, NEW cmd \in Cmds \cup {None}, NEW fields \in 0 .. 3,
             OtherRequest(c, cmd, fields)
      PROVE  BufInv'
  BY SMT, <1>3, BufParsed DEF OtherRequest
<1>4. CASE NextPage
  <2>1. walk.client \in Clients /\ walk.cmd \in Cmds
    BY <1>4 DEF NextPage, WalkInv, PageInv, WalkRec
  <2> QED
    BY SMT, <1>4, <2>1, BufParsed DEF NextPage
<1>5. CASE list' = Idle /\ buf' = buf
  BY <1>5 DEF BufInv, Idle
<1>6. CASE list.pc = "verify" /\ list' = [list EXCEPT !.pc = "select"] /\ buf' = buf
  <2>1. list # Idle
    BY SMT, <1>6 DEF Idle
  <2>2. PICK p, c, n, f : list = ListRec(p, c, n, f)
    BY <2>1 DEF ListInv
  <2>3. list'.pc = "select"
    BY <1>6, <2>2 DEF ListRec
  <2> QED
    BY <1>6, <2>3 DEF BufInv
<1>7. CASE MyFilesVerify
  BY <1>5, <1>6, <1>7 DEF MyFilesVerify
<1>8. CASE get_user_filelist \/ get_user_files_count \/ MyFilesError
  BY <1>5, <1>8 DEF get_user_filelist, get_user_files_count, MyFilesError
<1>9. CASE InsertRow \/ DeleteRow \/ BumpPv
  BY <1>1, <1>9 DEF InsertRow, DeleteRow, BumpPv, Change
<1>10. CASE UNCHANGED listVars
  BY <1>1, <1>10 DEF listVars
<1> QED
  BY <1>2, <1>3, <1>4, <1>7, <1>8, <1>9, <1>10 DEF Next, MyFilesNext, Done, vars

(***************************************************************************)
(* myfiles_cgi.c: the files of an account are listed only on a token made  *)
(* for that account, whatever the requests before have left in user, token *)
(* and cmd.  The invariant is inductive beside the tokens and the buffers: *)
(* only the check takes a request to the SELECT, and Redis holds under a   *)
(* name only tokens made for it.                                           *)
(***************************************************************************)
THEOREM ListsOnTokens == Spec => []ListedOnToken
<1>1. Init => ListedOnToken
  BY SMT DEF Init, ListedOnToken, Idle
<1>2. ASSUME TokensInv, BufInv, ListInv, ListedOnToken, [Next]_vars
      PROVE  ListedOnToken'
  <2>1. CASE UNCHANGED <<list, buf>>
    BY <1>2, <2>1 DEF ListedOnToken
  <2>2. CASE list'.pc = "verify"
    BY SMT, <2>2 DEF ListedOnToken
  <2>3. CASE list' = Idle
    BY SMT, <2>3 DEF ListedOnToken, Idle
  <2>4. CASE \/ \E c \in Clients, cmd \in Cmds : StartWalk(c, cmd)
             \/ NextPage
             \/ \E c \in Clients, cmd \in Cmds \cup {None}, fields \in 0 .. 3 :
                   OtherRequest(c, cmd, fields)
    <3>1. \E c, cmd, start, fields : Parse(c, cmd, start, fields)
      BY <2>4 DEF StartWalk, NextPage, OtherRequest, Accept
    <3>2. \E c, start, from : list' = ListRec("verify", c, start, from)
      BY <3>1 DEF Parse, ListRec
    <3>3. list'.pc = "verify"
      BY SMT, <3>2 DEF ListRec
    <3> QED
      BY <2>2, <3>3
  <2>5. CASE MyFilesVerify
    <3>1. \/ list' = Idle
          \/ buf' = buf /\ (verify_token(buf.user, buf.token) \/ buf.cmd = "count")
      BY <2>5 DEF MyFilesVerify
    <3>2. buf.user \in Names
      BY <1>2 DEF BufInv, BufRec
    <3>3. verify_token(buf.user, buf.token) => buf.token # None /\ buf.token[1] = buf.user
      BY <1>2, <3>2 DEF verify_token, TokensInv
    <3> QED
      BY <2>3, <3>1, <3>3 DEF ListedOnToken
  <2>6. CASE get_user_filelist \/ get_user_files_count \/ MyFilesError
    BY <2>3, <2>6 DEF get_user_filelist, get_user_files_count, MyFilesError
  <2>7. CASE InsertRow \/ DeleteRow \/ BumpPv
    BY <2>1, <2>7 DEF InsertRow, DeleteRow, BumpPv, Change
  <2>8. CASE UNCHANGED listVars
    BY <2>1, <2>8 DEF listVars
  <2> QED
    BY <1>2, <2>4, <2>5, <2>6, <2>7, <2>8 DEF Next, MyFilesNext, Done, vars
<1> QED
  BY <1>1, <1>2, LoginCorrect, WalkCorrect, ListInvInit, ListInvStep,
     TokensInit, TokensStep, BufInit, BufStep, PTL DEF Spec

(***************************************************************************)
(* login_cgi.c, register_cgi.c, myfiles_cgi.c: every variable has its type *)
(* in every state, Redis holds under a name only tokens made for it, and   *)
(* no user has more tokens than there were logins.                         *)
(***************************************************************************)
THEOREM SessionTypes == Spec => []TypeOK
<1>1. LoginInv /\ AccountInv /\ TokensInv /\ BufInv /\ WalkInv => TypeOK
  <2> SUFFICES ASSUME LoginInv, AccountInv, TokensInv, BufInv, WalkInv PROVE TypeOK
    OBVIOUS
  <2>1. user \in [Users -> Account \cup {None}]
    BY DEF AccountInv
  <2>2. login.pc \in Procs
    BY SMT DEF LoginInv, LoginRec, Idle, Procs
  <2>3. register.pc \in Procs
    BY SMT DEF AccountInv, RegisterRec, Idle, Procs
  <2>4. list.pc \in Procs
    BY DEF BufInv, Procs
  <2>5. \A x \in rows : x.rid < nextRid /\ x.pv \in 0 .. 2 + MaxChanges
    BY SMT, MyFilesAssumption DEF WalkInv, RowsInv, RowRec
  <2>6. /\ buf.user \in Names /\ buf.token \in Token \cup {None}
        /\ buf.cmd \in Cmds \cup {None}
    BY DEF BufInv, BufRec
  <2>7. \A u \in Names : tokens[u] # None => tokens[u] \in Token /\ tokens[u][1] = u
    BY DEF TokensInv
  <2>8. /\ made \in [Names -> 0 .. MaxLogins]
        /\ held \in [Clients -> Token \cup {None}]
        /\ said \in {"none", "000", "001", "002", "003", "004"}
    BY DEF TokensInv
  <2> QED
    BY <2>1, <2>2, <2>3, <2>4, <2>5, <2>6, <2>7, <2>8 DEF TypeOK
<1> QED
  BY <1>1, LoginCorrect, AccountsCorrect, WalkCorrect, ListInvInit, ListInvStep,
     TokensInit, TokensStep, BufInit, BufStep, PTL DEF Spec
===========================================================================
