------------------------------ MODULE Registration ------------------------------
(***************************************************************************)
(* Registration and login: POST /api/user/register and /api/user/login      *)
(* (internal/handler/user/handler.go, internal/service/user/service.go).    *)
(* Service.Create inserts the user and the user's balance row in one        *)
(* transaction; after its commit the handler signs a token for the new      *)
(* user.  The middleware believes a token without looking into the tables.  *)
(*                                                                          *)
(* A row that a transaction inserted is not visible before its commit, but  *)
(* its key already is in the unique index on login: another insert of the   *)
(* same login waits for the end of that transaction.                        *)
(***************************************************************************)
EXTENDS Naturals

CONSTANTS
    Texts,       \* logins and passwords as clients send them
    TrimSpace,   \* strings.TrimSpace on Texts
    Empty,       \* ""
    Registers,   \* requests POST /api/user/register
    Logins,      \* requests POST /api/user/login
    Null

ASSUME TextAssumption ==
    /\ Empty \in Texts
    /\ TrimSpace \in [Texts -> Texts]
    /\ Null \notin Registers

VARIABLES
    users,      \* committed rows of table users; uuid is the request that inserted it
    accounts,   \* the user_uuid of the committed rows of table balance
    holder,     \* login -> open transaction that inserted it, or Null
    register,   \* request -> its texts, next call and answer
    login,      \* request -> its texts, next call, row read and answer
    issued      \* the users tokens were signed for

regVars == <<users, accounts, holder, register, login, issued>>

UserRow == [uuid: Registers, login: Texts, password: Texts]

NoAnswer == 0

RegisterPc == {"Create", "CreateUser", "CreateBalance", "Commit", "SetIdentity", "done"}
RegisterCodes == {200, 400, 500}

LoginPc == {"UserByCredentials", "UserByLogin", "SetIdentity", "done"}
LoginCodes == {200, 401, 500}

TablesTypeOK ==
    /\ users \subseteq UserRow
    /\ accounts \subseteq Registers
    /\ holder \in [Texts -> Registers \cup {Null}]
    /\ issued \subseteq Registers

RegisterTypeOK ==
    register \in [Registers -> [pc: RegisterPc, login: Texts, password: Texts,
                               resp: RegisterCodes \cup {NoAnswer}]]

LoginTypeOK ==
    login \in [Logins -> [pc: LoginPc, login: Texts, password: Texts,
                         usr: Registers \cup {Null}, known: BOOLEAN,
                         resp: LoginCodes \cup {NoAnswer}]]

\* Type correctness.
RegistrationTypeOK == TablesTypeOK /\ RegisterTypeOK /\ LoginTypeOK

RegistrationInit ==
    /\ users = {}
    /\ accounts = {}
    /\ holder = [n \in Texts |-> Null]
    /\ register \in [Registers -> [pc: {"Create"}, login: Texts, password: Texts,
                                   resp: {NoAnswer}]]
    /\ login \in [Logins -> [pc: {"UserByCredentials"}, login: Texts, password: Texts,
                             usr: {Null}, known: {FALSE}, resp: {NoAnswer}]]
    /\ issued = {}

\* What both services work with: the texts without surrounding space.
LoginOf(q) == TrimSpace[q.login]

PasswordOf(q) == TrimSpace[q.password]

LoginOrPwdEmpty(q) == LoginOf(q) = Empty \/ PasswordOf(q) = Empty

-----------------------------------------------------------------------------
(* Registration.                                                             *)
RowOf(r) == [uuid |-> r, login |-> LoginOf(register[r]),
             password |-> PasswordOf(register[r])]

Taken(n) == \E u \in users : u.login = n

RegisterGoes(r, pc) == register' = [register EXCEPT ![r].pc = pc]

RegisterAnswer(r, code) ==
    register' = [register EXCEPT ![r].pc = "done", ![r].resp = code]

ReleaseLogins(r) == holder' = [n \in Texts |-> IF holder[n] = r THEN Null ELSE holder[n]]

\* Create: the texts are trimmed and must not be empty; the password is hashed.
RegisterCheck(r) ==
    /\ register[r].pc = "Create"
    /\ \/ LoginOrPwdEmpty(register[r]) /\ RegisterAnswer(r, 400)
       \/ ~LoginOrPwdEmpty(register[r]) /\ RegisterGoes(r, "CreateUser")
    /\ UNCHANGED <<users, accounts, holder, login, issued>>

\* Mutant: no unique index on login.
MayInsertAlways(n) == holder[n] = Null

MayInsert(n) == holder[n] = Null /\ ~Taken(n)

\* Mutant: the insert runs on a connection of its own, outside the transaction.
InsertUserOutsideTx(r) ==
    /\ users' = users \cup {RowOf(r)}
    /\ holder' = [holder EXCEPT ![LoginOf(register[r])] = r]

InsertUser(r) ==
    /\ holder' = [holder EXCEPT ![LoginOf(register[r])] = r]
    /\ UNCHANGED users

RegisterCreateUser(r) ==
    /\ register[r].pc = "CreateUser"
    /\ MayInsert(LoginOf(register[r]))
    /\ InsertUser(r)
    /\ RegisterGoes(r, "CreateBalance")
    /\ UNCHANGED <<accounts, login, issued>>

\* The login is taken, or the insert waits for too long for the transaction that
\* holds it (db.RequestTimeout).  Like any error of Create it is answered 400.
RegisterConflict(r) ==
    /\ register[r].pc = "CreateUser"
    /\ ~MayInsert(LoginOf(register[r]))
    /\ RegisterAnswer(r, 400)
    /\ UNCHANGED <<users, accounts, holder, login, issued>>

RegisterCreateBalance(r) ==
    /\ register[r].pc = "CreateBalance"
    /\ RegisterGoes(r, "Commit")
    /\ UNCHANGED <<users, accounts, holder, login, issued>>

\* Mutant: the commit is forgotten, the deferred rollback undoes the inserts.
CommitUserForgotten(r) == ReleaseLogins(r) /\ UNCHANGED <<users, accounts>>

CommitUser(r) ==
    /\ users' = users \cup {RowOf(r)}
    /\ accounts' = accounts \cup {r}
    /\ ReleaseLogins(r)

RegisterCommit(r) ==
    /\ register[r].pc = "Commit"
    /\ CommitUser(r)
    /\ RegisterGoes(r, "SetIdentity")
    /\ UNCHANGED <<login, issued>>

RegisterSetIdentity(r) ==
    /\ register[r].pc = "SetIdentity"
    /\ issued' = issued \cup {r}
    /\ RegisterAnswer(r, 200)
    /\ UNCHANGED <<users, accounts, holder, login>>

\* Any call of Create fails: rollback, 400.  Signing the token fails: 500.
RegisterFails(r) ==
    /\ register[r].pc # "done"
    /\ RegisterAnswer(r, IF register[r].pc = "SetIdentity" THEN 500 ELSE 400)
    /\ ReleaseLogins(r)
    /\ UNCHANGED <<users, accounts, login, issued>>

\* The commit takes effect but its result is lost.
RegisterCommitUnconfirmed(r) ==
    /\ register[r].pc = "Commit"
    /\ CommitUser(r)
    /\ RegisterAnswer(r, 400)
    /\ UNCHANGED <<login, issued>>

RegisterStep(r) ==
    \/ RegisterCheck(r) \/ RegisterCreateUser(r) \/ RegisterConflict(r)
    \/ RegisterCreateBalance(r) \/ RegisterCommit(r) \/ RegisterSetIdentity(r)

RegisterFault(r) == RegisterFails(r) \/ RegisterCommitUnconfirmed(r)

-----------------------------------------------------------------------------
(* Login.                                                                    *)
LoginAnswer(l, code) == login' = [login EXCEPT ![l].pc = "done", ![l].resp = code]

SameCredentials(p, q) == LoginOf(p) = LoginOf(q) /\ PasswordOf(p) = PasswordOf(q)

\* known is history: the credentials have been registered, and answered 200,
\* before this request began.
LoginCheck(l) ==
    /\ login[l].pc = "UserByCredentials"
    /\ \/ LoginOrPwdEmpty(login[l]) /\ LoginAnswer(l, 500)
       \/ /\ ~LoginOrPwdEmpty(login[l])
          /\ login' = [login EXCEPT
                 ![l].pc = "UserByLogin",
                 ![l].known = \E r \in Registers :
                     register[r].resp = 200 /\ SameCredentials(register[r], login[l])]
    /\ UNCHANGED <<users, accounts, holder, register, issued>>

\* Mutants: the password is not compared; it is compared as it was sent.
MatchesAnyPassword(u, q) == TRUE
MatchesAsSent(u, q) == u.password = q.password

\* bcrypt.CompareHashAndPassword with the stored hash.
Matches(u, q) == u.password = PasswordOf(q)

LoginUserByLogin(l) ==
    /\ login[l].pc = "UserByLogin"
    /\ \E u \in users :
           /\ u.login = LoginOf(login[l])
           /\ \/ /\ Matches(u, login[l])
                 /\ login' = [login EXCEPT ![l].pc = "SetIdentity", ![l].usr = u.uuid]
              \/ ~Matches(u, login[l]) /\ LoginAnswer(l, 401)
    /\ UNCHANGED <<users, accounts, holder, register, issued>>

\* Mutant: the error of the query is not looked at.
LoginUnknownIgnored(l) ==
    /\ login[l].pc = "UserByLogin"
    /\ ~Taken(LoginOf(login[l]))
    /\ login' = [login EXCEPT ![l].pc = "SetIdentity"]
    /\ UNCHANGED <<users, accounts, holder, register, issued>>

\* ErrUserNotFound is answered as ErrWrongPassword is.
LoginUnknown(l) ==
    /\ login[l].pc = "UserByLogin"
    /\ ~Taken(LoginOf(login[l]))
    /\ LoginAnswer(l, 401)
    /\ UNCHANGED <<users, accounts, holder, register, issued>>

LoginSetIdentity(l) ==
    /\ login[l].pc = "SetIdentity"
    /\ issued' = issued \cup {login[l].usr}
    /\ LoginAnswer(l, 200)
    /\ UNCHANGED <<users, accounts, holder, register>>

LoginFails(l) ==
    /\ login[l].pc # "done"
    /\ LoginAnswer(l, 500)
    /\ UNCHANGED <<users, accounts, holder, register, issued>>

LoginStep(l) ==
    LoginCheck(l) \/ LoginUserByLogin(l) \/ LoginUnknown(l) \/ LoginSetIdentity(l)

-----------------------------------------------------------------------------
\* The process dies: no answers, and the database aborts what was open.
RegistrationCrash ==
    /\ register' = [r \in Registers |-> [register[r] EXCEPT !.pc = "done"]]
    /\ login' = [l \in Logins |-> [login[l] EXCEPT !.pc = "done"]]
    /\ holder' = [n \in Texts |-> Null]
    /\ UNCHANGED <<users, accounts, issued>>

RegistrationDone ==
    /\ \A r \in Registers : register[r].pc = "done"
    /\ \A l \in Logins : login[l].pc = "done"
    /\ UNCHANGED regVars

RegistrationNext ==
    \/ \E r \in Registers : RegisterStep(r) \/ RegisterFault(r)
    \/ \E l \in Logins : LoginStep(l) \/ LoginFails(l)
    \/ RegistrationCrash
    \/ RegistrationDone

RegistrationSpec == RegistrationInit /\ [][RegistrationNext]_regVars

-----------------------------------------------------------------------------
(* Each login has one user at most, and every committed user has a balance    *)
(* row, whichever of concurrent registrations of a login fails, waits or dies *)
(* in between: neither insert of Create's transaction is ever seen alone.    *)
OneUserPerLogin == \A u, v \in users : u.login = v.login => u = v

UsersHaveAccounts == accounts = {u.uuid : u \in users}

\* A token is signed only for a user whose row and balance row are committed, so
\* every authenticated request finds its user's balance, also after a crash.
TokensNameUsers == issued \subseteq accounts

(* Who has been told that the registration succeeded can log in: a login that *)
(* begins afterwards with these credentials is never answered 401.           *)
RegisteredCanLogin ==
    \A l \in Logins : login[l].known => login[l].resp # 401

\* A login succeeds only with the password of the registration it names.
LoginNeedsPassword ==
    \A l \in Logins :
        login[l].resp = 200 =>
            \E u \in users : /\ u.uuid = login[l].usr
                             /\ u.login = LoginOf(login[l])
                             /\ u.password = PasswordOf(login[l])
=============================================================================
