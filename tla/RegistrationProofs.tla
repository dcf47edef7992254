--------------------------- MODULE RegistrationProofs ---------------------------
(***************************************************************************)
(* Theorems about registration, for any number of requests and any texts.   *)
(***************************************************************************)
EXTENDS Registration, TLAPS

-----------------------------------------------------------------------------
(* The inductive invariant.  A request between its insert and the end of its  *)
(* transaction holds its login in the unique index; a login that is held is   *)
(* not among the committed rows; a request whose commit succeeded has a row.  *)

Inserted(r) == register[r].pc \in {"CreateBalance", "Commit"}

LoginsHeld ==
    /\ \A n \in Texts : holder[n] # Null => ~Taken(n)
    /\ \A r \in Registers : Inserted(r) => holder[LoginOf(register[r])] = r

TokensReady ==
    /\ issued \subseteq accounts
    /\ \A r \in Registers : register[r].pc = "SetIdentity" => r \in accounts
    /\ \A l \in Logins : login[l].pc = "SetIdentity" => login[l].usr \in accounts

RegInv ==
    /\ RegistrationTypeOK
    /\ LoginsHeld
    /\ OneUserPerLogin
    /\ UsersHaveAccounts
    /\ TokensReady

-----------------------------------------------------------------------------
\* Trimming yields a text.
LEMMA TextsOf ==
    ASSUME RegistrationTypeOK
    PROVE  /\ \A r \in Registers : /\ LoginOf(register[r]) \in Texts
                                   /\ PasswordOf(register[r]) \in Texts
                                   /\ RowOf(r) \in UserRow
           /\ \A l \in Logins : LoginOf(login[l]) \in Texts
<1>1. \A r \in Registers : TrimSpace[register[r].login] \in Texts
                           /\ TrimSpace[register[r].password] \in Texts
  BY TextAssumption DEF RegistrationTypeOK, RegisterTypeOK
<1>2. \A l \in Logins : TrimSpace[login[l].login] \in Texts
  BY TextAssumption DEF RegistrationTypeOK, LoginTypeOK
<1> QED BY <1>1, <1>2 DEF LoginOf, PasswordOf, RowOf, UserRow

\* The initial states satisfy the invariant.
LEMMA RegInvInit == RegistrationInit => RegInv
<1> SUFFICES ASSUME RegistrationInit PROVE RegInv
  OBVIOUS
<1>1. RegistrationTypeOK
  <2>1. TablesTypeOK
    BY DEF RegistrationInit, TablesTypeOK
  <2>2. RegisterTypeOK
    BY DEF RegistrationInit, RegisterTypeOK, RegisterPc
  <2>3. LoginTypeOK
    BY DEF RegistrationInit, LoginTypeOK, LoginPc
  <2> QED BY <2>1, <2>2, <2>3 DEF RegistrationTypeOK
<1>2. \A r \in Registers : register[r].pc = "Create"
  BY DEF RegistrationInit
<1>3. \A l \in Logins : login[l].pc = "UserByCredentials"
  BY DEF RegistrationInit
<1>4. users = {} /\ accounts = {} /\ issued = {}
  BY DEF RegistrationInit
<1> QED BY <1>1, <1>2, <1>3, <1>4
    DEF RegInv, LoginsHeld, OneUserPerLogin, UsersHaveAccounts, TokensReady, Inserted, Taken

-----------------------------------------------------------------------------
(* Types.                                                                    *)

\* Moving on and answering keep the type of the requests.
LEMMA RegisterMoves ==
    ASSUME RegisterTypeOK, NEW r \in Registers,
           \/ \E pc \in RegisterPc : RegisterGoes(r, pc)
           \/ \E code \in RegisterCodes : RegisterAnswer(r, code)
    PROVE  RegisterTypeOK'
BY DEF RegisterTypeOK, RegisterGoes, RegisterAnswer, RegisterPc

LEMMA LoginAnswers ==
    ASSUME LoginTypeOK, NEW l \in Logins, NEW code \in LoginCodes, LoginAnswer(l, code)
    PROVE  LoginTypeOK'
BY ZenonT(60) DEF LoginTypeOK, LoginAnswer, LoginPc

\* The steps of a registration request keep the types.
LEMMA RegisterType ==
    ASSUME RegistrationTypeOK, NEW r \in Registers, RegisterStep(r) \/ RegisterFault(r)
    PROVE  RegistrationTypeOK'
<1> USE DEF RegistrationTypeOK
<1>1. RowOf(r) \in UserRow /\ LoginOf(register[r]) \in Texts
  BY TextsOf
<1>2. RegisterTypeOK'
  <2>1. {"CreateUser", "CreateBalance", "Commit", "SetIdentity"} \subseteq RegisterPc
        /\ {200, 400, 500} \subseteq RegisterCodes
    BY DEF RegisterPc, RegisterCodes
  <2> QED BY <2>1, RegisterMoves
      DEF RegisterStep, RegisterFault, RegisterCheck, RegisterCreateUser, RegisterConflict,
          RegisterCreateBalance, RegisterCommit, RegisterSetIdentity, RegisterFails,
          RegisterCommitUnconfirmed
<1>3. LoginTypeOK'
  BY DEF RegisterStep, RegisterFault, RegisterCheck, RegisterCreateUser, RegisterConflict,
         RegisterCreateBalance, RegisterCommit, RegisterSetIdentity, RegisterFails,
         RegisterCommitUnconfirmed, LoginTypeOK
<1>4. TablesTypeOK'
  BY <1>1
  DEF RegisterStep, RegisterFault, RegisterCheck, RegisterCreateUser, RegisterConflict,
      RegisterCreateBalance, RegisterCommit, RegisterSetIdentity, RegisterFails,
      RegisterCommitUnconfirmed, InsertUser, CommitUser, ReleaseLogins, TablesTypeOK
<1> QED BY <1>2, <1>3, <1>4

\* So do those of a login request: a row that was read has a uuid, and a token is
\* signed for it only.
LEMMA LoginType ==
    ASSUME RegistrationTypeOK, TokensReady, NEW l \in Logins, LoginStep(l) \/ LoginFails(l)
    PROVE  RegistrationTypeOK'
<1> USE DEF RegistrationTypeOK
<1>1. {200, 401, 500} \subseteq LoginCodes
  BY DEF LoginCodes
<1>2. CASE LoginCheck(l)
  BY <1>1, <1>2, LoginAnswers
  DEF LoginCheck, TablesTypeOK, RegisterTypeOK, LoginTypeOK, LoginPc
<1>3. CASE LoginUserByLogin(l)
  <2>1. ASSUME NEW u \in users, login' = [login EXCEPT ![l].pc = "SetIdentity", ![l].usr = u.uuid]
        PROVE  LoginTypeOK'
    <3>1. u.uuid \in Registers
      BY DEF TablesTypeOK, UserRow
    <3>2. "SetIdentity" \in LoginPc
      BY DEF LoginPc
    <3> QED BY ZenonT(60), <2>1, <3>1, <3>2 DEF LoginTypeOK
  <2> QED BY <1>1, <1>3, <2>1, LoginAnswers DEF LoginUserByLogin, TablesTypeOK, RegisterTypeOK
<1>4. CASE LoginSetIdentity(l)
  <2>1. LoginTypeOK'
    BY <1>1, <1>4, LoginAnswers DEF LoginSetIdentity
  <2>2. TablesTypeOK'
    BY <1>4 DEF LoginSetIdentity, TablesTypeOK, TokensReady
  <2> QED BY <1>4, <2>1, <2>2 DEF LoginSetIdentity, RegisterTypeOK
<1>5. CASE LoginUnknown(l) \/ LoginFails(l)
  BY <1>1, <1>5, LoginAnswers DEF LoginUnknown, LoginFails, TablesTypeOK, RegisterTypeOK
<1> QED BY <1>2, <1>3, <1>4, <1>5 DEF LoginStep

-----------------------------------------------------------------------------
(* The commit of a registration is the step that can disturb the invariant.   *)

LEMMA CommitKeepsTables ==
    ASSUME RegInv, NEW r \in Registers, register[r].pc = "Commit", CommitUser(r)
    PROVE  OneUserPerLogin' /\ UsersHaveAccounts'
<1>1. /\ ~Taken(LoginOf(register[r]))
      /\ RowOf(r).login = LoginOf(register[r]) /\ RowOf(r).uuid = r
  <2>1. holder[LoginOf(register[r])] = r /\ LoginOf(register[r]) \in Texts
    BY TextsOf DEF RegInv, LoginsHeld, Inserted
  <2> QED BY <2>1, TextAssumption DEF RegInv, LoginsHeld, RowOf
<1>2. users' = users \cup {RowOf(r)} /\ accounts' = accounts \cup {r}
  BY DEF CommitUser
<1>3. OneUserPerLogin'
  BY <1>1, <1>2 DEF RegInv, OneUserPerLogin, Taken
<1>4. UsersHaveAccounts'
  BY <1>1, <1>2 DEF RegInv, UsersHaveAccounts
<1> QED BY <1>3, <1>4

LEMMA CommitKeepsLogins ==
    ASSUME RegInv, NEW r \in Registers, register[r].pc = "Commit", CommitUser(r),
           \A q \in Registers : Inserted(q)' => q # r /\ register'[q] = register[q]
    PROVE  LoginsHeld'
<1> DEFINE n == LoginOf(register[r])
<1>1. holder[n] = r /\ n \in Texts
  BY TextsOf DEF RegInv, LoginsHeld, Inserted
<1>2. /\ \A m \in Texts : holder'[m] = IF holder[m] = r THEN Null ELSE holder[m]
      /\ users' = users \cup {RowOf(r)} /\ RowOf(r).login = n
  BY DEF CommitUser, ReleaseLogins, RowOf
<1>3. \A m \in Texts : holder'[m] # Null => ~Taken(m)'
  BY <1>1, <1>2 DEF RegInv, LoginsHeld, Taken
<1>4. ASSUME NEW q \in Registers, Inserted(q)'
      PROVE  holder'[LoginOf(register[q])'] = q
  <2>1. q # r /\ register'[q] = register[q]
    BY <1>4
  <2>2. holder[LoginOf(register[q])] = q /\ LoginOf(register[q]) \in Texts
    BY <1>4, <2>1, TextsOf DEF Inserted, RegInv, LoginsHeld
  <2>3. LoginOf(register[q])' = LoginOf(register[q])
    BY <2>1 DEF LoginOf
  <2> QED BY <1>2, <2>1, <2>2, <2>3
<1> QED BY <1>3, <1>4 DEF LoginsHeld

-----------------------------------------------------------------------------
(* The steps.                                                                *)

\* Steps that leave the tables and the index alone and move no request into or
\* out of its transaction.
LEMMA IndexUnchanged ==
    ASSUME LoginsHeld, UNCHANGED <<users, holder>>,
           \A r \in Registers :
               Inserted(r)' => Inserted(r) /\ LoginOf(register[r])' = LoginOf(register[r])
    PROVE  LoginsHeld'
BY DEF LoginsHeld, Taken

\* A rollback releases the logins of its request only.
LEMMA RollbackKeepsLogins ==
    ASSUME LoginsHeld, RegistrationTypeOK, NEW r \in Registers, ReleaseLogins(r),
           UNCHANGED users,
           \A q \in Registers : Inserted(q)' => q # r /\ register'[q] = register[q]
    PROVE  LoginsHeld'
<1>1. \A m \in Texts : holder'[m] = IF holder[m] = r THEN Null ELSE holder[m]
  BY DEF ReleaseLogins
<1>2. \A m \in Texts : holder'[m] # Null => ~Taken(m)'
  BY <1>1 DEF LoginsHeld, Taken
<1>3. ASSUME NEW q \in Registers, Inserted(q)'
      PROVE  holder'[LoginOf(register[q])'] = q
  <2>1. holder[LoginOf(register[q])] = q /\ LoginOf(register[q]) \in Texts
    BY <1>3, TextsOf DEF LoginsHeld, Inserted
  <2>2. LoginOf(register[q])' = LoginOf(register[q])
    BY <1>3 DEF LoginOf
  <2> QED BY <1>1, <1>3, <2>1, <2>2
<1> QED BY <1>2, <1>3 DEF LoginsHeld

\* A registration keeps the invariant.
LEMMA RegisterKeepsInv ==
    ASSUME RegInv, NEW r \in Registers, RegisterStep(r) \/ RegisterFault(r)
    PROVE  RegInv'
<1> DEFINE n == LoginOf(register[r])
<1>1. RegistrationTypeOK'
  BY RegisterType DEF RegInv
<1>2. ASSUME NEW q \in Registers, q # r
      PROVE  register'[q] = register[q]
  BY <1>2 DEF RegisterStep, RegisterFault, RegisterCheck, RegisterCreateUser,
      RegisterConflict, RegisterCreateBalance, RegisterCommit, RegisterSetIdentity,
      RegisterFails, RegisterCommitUnconfirmed, RegisterGoes, RegisterAnswer,
      RegInv, RegistrationTypeOK, RegisterTypeOK
<1>3. register'[r].login = register[r].login
  BY DEF RegisterStep, RegisterFault, RegisterCheck, RegisterCreateUser,
      RegisterConflict, RegisterCreateBalance, RegisterCommit, RegisterSetIdentity,
      RegisterFails, RegisterCommitUnconfirmed, RegisterGoes, RegisterAnswer,
      RegInv, RegistrationTypeOK, RegisterTypeOK
<1>4. \A q \in Registers : LoginOf(register[q])' = LoginOf(register[q])
  BY <1>2, <1>3 DEF LoginOf
<1>5. UNCHANGED login
  BY DEF RegisterStep, RegisterFault, RegisterCheck, RegisterCreateUser,
      RegisterConflict, RegisterCreateBalance, RegisterCommit, RegisterSetIdentity,
      RegisterFails, RegisterCommitUnconfirmed
<1> USE DEF RegInv
<1>6. CASE RegisterCheck(r) \/ RegisterConflict(r) \/ RegisterCreateBalance(r)
  <2>1. UNCHANGED <<users, accounts, holder, issued>>
    BY <1>6 DEF RegisterCheck, RegisterConflict, RegisterCreateBalance
  <2>2. Inserted(r)' => Inserted(r)
    BY <1>6 DEF RegisterCheck, RegisterConflict, RegisterCreateBalance, RegisterGoes,
                RegisterAnswer, Inserted, RegistrationTypeOK, RegisterTypeOK
  <2>3. register'[r].pc # "SetIdentity"
    BY <1>6 DEF RegisterCheck, RegisterConflict, RegisterCreateBalance, RegisterGoes,
                RegisterAnswer, RegistrationTypeOK, RegisterTypeOK
  <2>4. LoginsHeld'
    BY <1>2, <1>4, <2>1, <2>2, IndexUnchanged DEF Inserted
  <2>5. TokensReady'
    BY <1>2, <1>5, <2>1, <2>3 DEF TokensReady
  <2> QED BY <1>1, <2>1, <2>4, <2>5 DEF OneUserPerLogin, UsersHaveAccounts
<1>7. CASE RegisterCreateUser(r)
  <2>1. /\ MayInsert(n) /\ holder' = [holder EXCEPT ![n] = r]
        /\ UNCHANGED <<users, accounts, issued>>
        /\ register'[r].pc = "CreateBalance"
    BY <1>7 DEF RegisterCreateUser, InsertUser, RegisterGoes, RegistrationTypeOK, RegisterTypeOK
  <2>2. n \in Texts /\ \A q \in Registers : LoginOf(register[q]) \in Texts
    BY TextsOf
  <2>3. \A m \in Texts : holder'[m] = IF m = n THEN r ELSE holder[m]
    BY <2>1, <2>2 DEF RegistrationTypeOK, TablesTypeOK
  <2>4. \A m \in Texts : holder'[m] # Null => ~Taken(m)'
    BY <2>1, <2>3 DEF MayInsert, Taken, LoginsHeld
  <2>5. ASSUME NEW q \in Registers, Inserted(q)'
        PROVE  holder'[LoginOf(register[q])'] = q
    <3>1. CASE q = r
      BY <1>4, <2>2, <2>3, <3>1
    <3>2. CASE q # r
      <4>1. holder[LoginOf(register[q])] = q
        BY <1>2, <2>5, <3>2 DEF LoginsHeld, Inserted
      <4>2. LoginOf(register[q]) # n
        BY <2>1, <4>1, TextAssumption DEF MayInsert
      <4> QED BY <1>4, <2>2, <2>3, <4>1, <4>2
    <3> QED BY <3>1, <3>2
  <2>6. LoginsHeld'
    BY <2>4, <2>5 DEF LoginsHeld
  <2>7. TokensReady'
    BY <1>2, <1>5, <2>1 DEF TokensReady
  <2> QED BY <1>1, <2>1, <2>6, <2>7 DEF OneUserPerLogin, UsersHaveAccounts
<1>8. CASE RegisterCommit(r) \/ RegisterCommitUnconfirmed(r)
  <2>1. register[r].pc = "Commit" /\ CommitUser(r) /\ UNCHANGED issued
    BY <1>8 DEF RegisterCommit, RegisterCommitUnconfirmed
  <2>2. ~Inserted(r)'
    BY <1>8 DEF RegisterCommit, RegisterCommitUnconfirmed, RegisterGoes, RegisterAnswer,
                Inserted, RegistrationTypeOK, RegisterTypeOK
  <2>3. OneUserPerLogin' /\ UsersHaveAccounts'
    BY <2>1, CommitKeepsTables
  <2>4. LoginsHeld'
    BY <1>2, <2>1, <2>2, CommitKeepsLogins DEF Inserted
  <2>5. TokensReady'
    BY <1>2, <1>5, <2>1 DEF TokensReady, CommitUser
  <2> QED BY <1>1, <2>3, <2>4, <2>5
<1>9. CASE RegisterSetIdentity(r)
  <2>1. /\ UNCHANGED <<users, accounts, holder>>
        /\ issued' = issued \cup {r} /\ r \in accounts
        /\ register'[r].pc = "done"
    BY <1>9 DEF RegisterSetIdentity, RegisterAnswer, TokensReady, RegistrationTypeOK,
                RegisterTypeOK
  <2>2. LoginsHeld'
    BY <1>2, <1>4, <2>1, IndexUnchanged DEF Inserted
  <2>3. TokensReady'
    BY <1>2, <1>5, <2>1 DEF TokensReady
  <2> QED BY <1>1, <2>1, <2>2, <2>3 DEF OneUserPerLogin, UsersHaveAccounts
<1>10. CASE RegisterFails(r)
  <2>1. /\ UNCHANGED <<users, accounts, issued>>
        /\ ReleaseLogins(r) /\ register'[r].pc = "done"
    BY <1>10 DEF RegisterFails, RegisterAnswer, RegistrationTypeOK, RegisterTypeOK
  <2>2. LoginsHeld'
    BY <1>2, <2>1, RollbackKeepsLogins DEF Inserted
  <2>3. TokensReady'
    BY <1>2, <1>5, <2>1 DEF TokensReady
  <2> QED BY <1>1, <2>1, <2>2, <2>3 DEF OneUserPerLogin, UsersHaveAccounts
<1> QED BY <1>6, <1>7, <1>8, <1>9, <1>10 DEF RegisterStep, RegisterFault

\* A login keeps the invariant: the row it read is committed, and rows stay.
LEMMA LoginKeepsInv ==
    ASSUME RegInv, NEW l \in Logins, LoginStep(l) \/ LoginFails(l)
    PROVE  RegInv'
<1> USE DEF RegInv
<1>1. RegistrationTypeOK'
  BY LoginType
<1>2. UNCHANGED <<users, accounts, holder, register>>
  BY DEF LoginStep, LoginFails, LoginCheck, LoginUserByLogin, LoginUnknown, LoginSetIdentity
<1>3. OneUserPerLogin' /\ UsersHaveAccounts'
  BY <1>2 DEF OneUserPerLogin, UsersHaveAccounts
<1>4. LoginsHeld'
  BY <1>2, IndexUnchanged DEF Inserted, LoginOf
<1>5. ASSUME NEW k \in Logins, k # l
      PROVE  login'[k] = login[k]
  BY <1>5 DEF LoginStep, LoginFails, LoginCheck, LoginUserByLogin, LoginUnknown,
              LoginSetIdentity, LoginAnswer, RegistrationTypeOK, LoginTypeOK
<1>6. /\ login'[l].pc = "SetIdentity" => login'[l].usr \in accounts
      /\ issued' \subseteq accounts
  <2>1. CASE LoginUserByLogin(l)
    <3>1. \A u \in users : u.uuid \in accounts
      BY DEF UsersHaveAccounts
    <3> QED BY <2>1, <3>1
        DEF LoginUserByLogin, LoginAnswer, RegistrationTypeOK, LoginTypeOK, TokensReady
  <2>2. CASE LoginSetIdentity(l)
    BY <2>2 DEF LoginSetIdentity, LoginAnswer, RegistrationTypeOK, LoginTypeOK, TokensReady
  <2>3. CASE LoginCheck(l) \/ LoginUnknown(l) \/ LoginFails(l)
    BY <2>3 DEF LoginCheck, LoginUnknown, LoginFails, LoginAnswer, RegistrationTypeOK,
                LoginTypeOK, TokensReady
  <2> QED BY <2>1, <2>2, <2>3 DEF LoginStep
<1>7. TokensReady'
  BY <1>2, <1>5, <1>6 DEF TokensReady
<1> QED BY <1>1, <1>3, <1>4, <1>7

\* So does a crash: nothing of an open transaction is left.
LEMMA CrashKeepsInv ==
    ASSUME RegInv, RegistrationCrash
    PROVE  RegInv'
<1> USE DEF RegInv
<1>1. /\ UNCHANGED <<users, accounts, issued>>
      /\ \A r \in Registers : register'[r].pc = "done"
      /\ \A l \in Logins : login'[l].pc = "done"
      /\ \A n \in Texts : holder'[n] = Null
  BY DEF RegistrationCrash, RegistrationTypeOK, RegisterTypeOK, LoginTypeOK
<1>2. RegistrationTypeOK'
  <2>1. TablesTypeOK'
    BY DEF RegistrationCrash, RegistrationTypeOK, TablesTypeOK
  <2>2. RegisterTypeOK'
    BY DEF RegistrationCrash, RegistrationTypeOK, RegisterTypeOK, RegisterPc
  <2>3. LoginTypeOK'
    BY SMTT(30) DEF RegistrationCrash, RegistrationTypeOK, LoginTypeOK, LoginPc
  <2> QED BY <2>1, <2>2, <2>3 DEF RegistrationTypeOK
<1> QED BY <1>1, <1>2
    DEF LoginsHeld, Inserted, OneUserPerLogin, UsersHaveAccounts, TokensReady

\* The invariant of registration holds in every reachable state.
THEOREM RegistrationInvariant == RegistrationSpec => []RegInv
<1>1. RegInv /\ [RegistrationNext]_regVars => RegInv'
  <2> SUFFICES ASSUME RegInv, [RegistrationNext]_regVars PROVE RegInv'
    OBVIOUS
  <2>1. CASE UNCHANGED regVars
    BY <2>1 DEF regVars, RegInv, RegistrationTypeOK, TablesTypeOK, RegisterTypeOK,
        LoginTypeOK, LoginsHeld, Inserted, LoginOf, Taken, OneUserPerLogin,
        UsersHaveAccounts, TokensReady
  <2> QED BY <2>1, RegisterKeepsInv, LoginKeepsInv, CrashKeepsInv
      DEF RegistrationNext, RegistrationDone
<1> QED BY <1>1, RegInvInit, PTL DEF RegistrationSpec

\* Two users never have the same login, however registrations of a login race.
THEOREM LoginsUnique == RegistrationSpec => []OneUserPerLogin
<1>1. RegInv => OneUserPerLogin
  BY DEF RegInv
<1> QED BY <1>1, RegistrationInvariant, PTL

\* Every committed user has a balance row and every balance row a user: the two
\* inserts of a registration become visible together, across faults and crashes.
THEOREM AccountsExist == RegistrationSpec => []UsersHaveAccounts
<1>1. RegInv => UsersHaveAccounts
  BY DEF RegInv
<1> QED BY <1>1, RegistrationInvariant, PTL

\* A token is signed only for a committed user, who then has a balance row.
THEOREM TokensSound == RegistrationSpec => []TokensNameUsers
<1>1. RegInv => TokensNameUsers
  BY DEF RegInv, TokensReady, TokensNameUsers
<1> QED BY <1>1, RegistrationInvariant, PTL

\* Every reachable state of registration and login is well typed.
THEOREM RegistrationTypes == RegistrationSpec => []RegistrationTypeOK
<1>1. RegInv => RegistrationTypeOK
  BY DEF RegInv
<1> QED BY <1>1, RegistrationInvariant, PTL

-----------------------------------------------------------------------------
(* What a login relies on.  A registration has its row from its commit on, and *)
(* rows stay.  Credentials that are known to be registered have a row, which, *)
(* no login having two, is the one the login reads; and who goes on to the    *)
(* token, or has one, has read a row with the password.                      *)

HasRow(l) ==
    \E u \in users : /\ u.uuid = login[l].usr
                     /\ u.login = LoginOf(login[l])
                     /\ u.password = PasswordOf(login[l])

RowsOfRegistered ==
    \A r \in Registers :
        register[r].pc = "SetIdentity" \/ register[r].resp = 200 => RowOf(r) \in users

KnownHaveRows ==
    \A l \in Logins : login[l].known =>
        \E u \in users : /\ u.login = LoginOf(login[l])
                         /\ u.password = PasswordOf(login[l])

LoginsMatched ==
    \A l \in Logins : login[l].pc = "SetIdentity" \/ login[l].resp = 200 => HasRow(l)

LoginInv == RowsOfRegistered /\ KnownHaveRows /\ LoginsMatched /\ RegisteredCanLogin

LEMMA LoginInvInit == RegistrationInit => LoginInv
<1> SUFFICES ASSUME RegistrationInit PROVE LoginInv
  OBVIOUS
<1>1. \A r \in Registers : register[r].pc = "Create" /\ register[r].resp = 0
  BY DEF RegistrationInit, NoAnswer
<1>2. \A l \in Logins : /\ login[l].pc = "UserByCredentials" /\ login[l].resp = 0
                        /\ login[l].known = FALSE
  BY DEF RegistrationInit, NoAnswer
<1> QED BY <1>1, <1>2
    DEF LoginInv, RowsOfRegistered, KnownHaveRows, LoginsMatched, RegisteredCanLogin

\* What a registration leaves of the others, and of its own texts and answer.
LEMMA RegisterFrame ==
    ASSUME RegInv, NEW q \in Registers, RegisterStep(q) \/ RegisterFault(q)
    PROVE  /\ UNCHANGED login
           /\ users \subseteq users'
           /\ \A r \in Registers : register'[r].login = register[r].login
                                   /\ register'[r].password = register[r].password
           /\ \A r \in Registers : r # q => register'[r] = register[r]
<1> USE DEF RegInv, RegistrationTypeOK, RegisterTypeOK
<1>1. CASE RegisterCheck(q) \/ RegisterConflict(q) \/ RegisterCreateUser(q)
             \/ RegisterCreateBalance(q)
  BY <1>1 DEF RegisterCheck, RegisterConflict, RegisterCreateUser, RegisterCreateBalance,
              InsertUser, RegisterGoes, RegisterAnswer
<1>2. CASE RegisterCommit(q) \/ RegisterCommitUnconfirmed(q)
  BY <1>2 DEF RegisterCommit, RegisterCommitUnconfirmed, CommitUser, RegisterGoes,
              RegisterAnswer
<1>3. CASE RegisterSetIdentity(q) \/ RegisterFails(q)
  BY <1>3 DEF RegisterSetIdentity, RegisterFails, RegisterAnswer
<1> QED BY <1>1, <1>2, <1>3 DEF RegisterStep, RegisterFault

\* What a login leaves of the others and of its own texts.
LEMMA LoginFrame ==
    ASSUME RegInv, NEW k \in Logins, LoginStep(k) \/ LoginFails(k)
    PROVE  /\ UNCHANGED <<register, users>>
           /\ \A l \in Logins : login'[l].login = login[l].login
                                /\ login'[l].password = login[l].password
           /\ \A l \in Logins : l # k => login'[l] = login[l]
<1> USE DEF RegInv, RegistrationTypeOK, LoginTypeOK
<1>1. CASE LoginCheck(k)
  BY <1>1 DEF LoginCheck, LoginAnswer
<1>2. CASE LoginUserByLogin(k)
  BY <1>2 DEF LoginUserByLogin, LoginAnswer
<1>3. CASE LoginUnknown(k) \/ LoginSetIdentity(k) \/ LoginFails(k)
  BY <1>3 DEF LoginUnknown, LoginSetIdentity, LoginFails, LoginAnswer
<1> QED BY <1>1, <1>2, <1>3 DEF LoginStep

\* What a crash leaves.
LEMMA CrashFrame ==
    ASSUME RegInv, RegistrationCrash
    PROVE  /\ UNCHANGED users
           /\ \A r \in Registers : /\ register'[r].login = register[r].login
                                   /\ register'[r].password = register[r].password
                                   /\ register'[r].resp = register[r].resp
                                   /\ register'[r].pc = "done"
           /\ \A l \in Logins : /\ login'[l].login = login[l].login
                                /\ login'[l].password = login[l].password
                                /\ login'[l].usr = login[l].usr
                                /\ login'[l].known = login[l].known
                                /\ login'[l].resp = login[l].resp
                                /\ login'[l].pc = "done"
BY DEF RegistrationCrash, RegInv, RegistrationTypeOK, RegisterTypeOK, LoginTypeOK

\* The texts of a request never change.
LEMMA TextsStay ==
    ASSUME RegInv, [RegistrationNext]_regVars
    PROVE  /\ users \subseteq users'
           /\ \A r \in Registers : LoginOf(register[r])' = LoginOf(register[r])
                                   /\ PasswordOf(register[r])' = PasswordOf(register[r])
                                   /\ RowOf(r)' = RowOf(r)
           /\ \A l \in Logins : LoginOf(login[l])' = LoginOf(login[l])
                                /\ PasswordOf(login[l])' = PasswordOf(login[l])
<1>1. /\ users \subseteq users'
      /\ \A r \in Registers : register'[r].login = register[r].login
                              /\ register'[r].password = register[r].password
      /\ \A l \in Logins : login'[l].login = login[l].login
                           /\ login'[l].password = login[l].password
  <2>1. ASSUME NEW q \in Registers, RegisterStep(q) \/ RegisterFault(q) PROVE <1>1!:
    BY <2>1, RegisterFrame
  <2>2. ASSUME NEW k \in Logins, LoginStep(k) \/ LoginFails(k) PROVE <1>1!:
    BY <2>2, LoginFrame
  <2>3. CASE RegistrationCrash
    BY <2>3, CrashFrame
  <2>4. CASE UNCHANGED regVars
    BY <2>4 DEF regVars
  <2> QED BY <2>1, <2>2, <2>3, <2>4 DEF RegistrationNext, RegistrationDone
<1> QED BY <1>1 DEF LoginOf, PasswordOf, RowOf

\* A request gets to the token, or to 200, through its commit.
LEMMA RegisteredKept ==
    ASSUME RegInv, RowsOfRegistered, [RegistrationNext]_regVars
    PROVE  RowsOfRegistered'
<1> USE DEF RegInv, RegistrationTypeOK, RegisterTypeOK
<1> SUFFICES ASSUME NEW r \in Registers,
                    register'[r].pc = "SetIdentity" \/ register'[r].resp = 200
             PROVE  RowOf(r)' \in users'
  BY DEF RowsOfRegistered
<1>1. CASE register[r].pc = "SetIdentity" \/ register[r].resp = 200
  BY <1>1, TextsStay DEF RowsOfRegistered
<1>2. CASE RegisterStep(r) \/ RegisterFault(r)
  <2>1. CASE RegisterCommit(r)
    BY <2>1, TextsStay DEF RegisterCommit, CommitUser
  <2>2. CASE ~RegisterCommit(r) /\ ~(register[r].pc = "SetIdentity" \/ register[r].resp = 200)
    BY <1>2, <2>2
    DEF RegisterStep, RegisterFault, RegisterCheck, RegisterCreateUser, RegisterConflict,
        RegisterCreateBalance, RegisterSetIdentity, RegisterFails, RegisterCommitUnconfirmed,
        RegisterGoes, RegisterAnswer
  <2> QED BY <1>1, <2>1, <2>2
<1>3. CASE ~(RegisterStep(r) \/ RegisterFault(r))
  <2>1. register'[r].resp = register[r].resp /\ register'[r].pc \in {register[r].pc, "done"}
    <3>1. ASSUME NEW q \in Registers, RegisterStep(q) \/ RegisterFault(q) PROVE <2>1!:
      BY <1>3, <3>1, RegisterFrame
    <3>2. ASSUME NEW k \in Logins, LoginStep(k) \/ LoginFails(k) PROVE <2>1!:
      BY <3>2, LoginFrame
    <3>3. CASE RegistrationCrash
      BY <3>3, CrashFrame
    <3>4. CASE UNCHANGED regVars
      BY <3>4 DEF regVars
    <3> QED BY <3>1, <3>2, <3>3, <3>4 DEF RegistrationNext, RegistrationDone
  <2> QED BY <1>1, <1>3, <2>1
<1> QED BY <1>2, <1>3

\* What the steps of others leave of a login.
LEMMA OtherLoginsKept ==
    ASSUME RegInv, NEW l \in Logins, [RegistrationNext]_regVars,
           ~(LoginStep(l) \/ LoginFails(l))
    PROVE  /\ login'[l].usr = login[l].usr /\ login'[l].known = login[l].known
           /\ login'[l].resp = login[l].resp
           /\ login'[l].pc \in {login[l].pc, "done"}
<1> USE DEF RegInv, RegistrationTypeOK, LoginTypeOK
<1>1. CASE \E q \in Registers : RegisterStep(q) \/ RegisterFault(q)
  BY <1>1, RegisterFrame
<1>2. ASSUME NEW k \in Logins, LoginStep(k) \/ LoginFails(k) PROVE login'[l] = login[l]
  BY <1>2, LoginFrame
<1>3. CASE RegistrationCrash
  BY <1>3, CrashFrame
<1>4. CASE UNCHANGED regVars
  BY <1>4 DEF regVars
<1> QED BY <1>1, <1>2, <1>3, <1>4 DEF RegistrationNext, RegistrationDone

\* A login step keeps what is claimed of its request.
LEMMA LoginKept ==
    ASSUME RegInv, LoginInv, NEW l \in Logins, LoginStep(l) \/ LoginFails(l)
    PROVE  /\ (login'[l].known =>
                  \E u \in users : /\ u.login = LoginOf(login[l])
                                   /\ u.password = PasswordOf(login[l]))
           /\ (login'[l].pc = "SetIdentity" \/ login'[l].resp = 200 =>
                  \E u \in users : /\ u.uuid = login'[l].usr
                                   /\ u.login = LoginOf(login[l])
                                   /\ u.password = PasswordOf(login[l]))
           /\ (login'[l].known => login'[l].resp # 401)
<1> USE DEF RegInv, RegistrationTypeOK, LoginTypeOK
<1>0. /\ login[l].known => \E u \in users : /\ u.login = LoginOf(login[l])
                                            /\ u.password = PasswordOf(login[l])
      /\ login[l].pc = "SetIdentity" \/ login[l].resp = 200 => HasRow(l)
      /\ login[l].known => login[l].resp # 401
  BY DEF LoginInv, KnownHaveRows, LoginsMatched, RegisteredCanLogin
<1>1. CASE LoginCheck(l)
  <2>1. ASSUME NEW r \in Registers, register[r].resp = 200,
               SameCredentials(register[r], login[l])
        PROVE  \E u \in users : /\ u.login = LoginOf(login[l])
                                /\ u.password = PasswordOf(login[l])
    <3>1. RowOf(r) \in users
      BY <2>1 DEF LoginInv, RowsOfRegistered
    <3>2. /\ RowOf(r).login = LoginOf(login[l])
          /\ RowOf(r).password = PasswordOf(login[l])
      BY <2>1 DEF RowOf, SameCredentials
    <3> QED BY <3>1, <3>2
  <2> QED BY <1>0, <1>1, <2>1 DEF LoginCheck, LoginAnswer, HasRow
<1>2. CASE LoginUserByLogin(l)
  <2>1. PICK u \in users :
           /\ u.login = LoginOf(login[l])
           /\ \/ /\ Matches(u, login[l])
                 /\ login' = [login EXCEPT ![l].pc = "SetIdentity", ![l].usr = u.uuid]
              \/ ~Matches(u, login[l]) /\ LoginAnswer(l, 401)
    BY <1>2 DEF LoginUserByLogin
  <2>2. CASE Matches(u, login[l])
    <3>1. /\ login'[l].known = login[l].known /\ login'[l].resp = login[l].resp
          /\ login'[l].usr = u.uuid
      BY <2>1, <2>2
    <3> QED BY <1>0, <2>1, <2>2, <3>1 DEF Matches
  <2>3. CASE ~Matches(u, login[l])
    <3>1. /\ login'[l].known = login[l].known /\ login'[l].resp = 401
          /\ login'[l].pc = "done"
      BY <2>1, <2>3 DEF LoginAnswer
    <3>2. ~login[l].known
      BY <1>0, <2>1, <2>3 DEF OneUserPerLogin, Matches
    <3> QED BY <3>1, <3>2
  <2> QED BY <2>2, <2>3
<1>3. CASE LoginUnknown(l)
  <2>1. /\ login'[l].known = login[l].known /\ login'[l].resp = 401
        /\ login'[l].pc = "done" /\ ~Taken(LoginOf(login[l]))
    BY <1>3 DEF LoginUnknown, LoginAnswer
  <2> QED BY <1>0, <2>1 DEF Taken
<1>4. CASE LoginSetIdentity(l)
  <2>1. /\ login'[l].known = login[l].known /\ login'[l].resp = 200
        /\ login'[l].usr = login[l].usr /\ login[l].pc = "SetIdentity"
    BY <1>4 DEF LoginSetIdentity, LoginAnswer
  <2> QED BY <1>0, <2>1 DEF HasRow
<1>5. CASE LoginFails(l)
  <2>1. /\ login'[l].known = login[l].known /\ login'[l].resp = 500
        /\ login'[l].pc = "done"
    BY <1>5 DEF LoginFails, LoginAnswer
  <2> QED BY <1>0, <2>1
<1> QED BY <1>1, <1>2, <1>3, <1>4, <1>5 DEF LoginStep

LEMMA LoginInvStep ==
    ASSUME RegInv, LoginInv, [RegistrationNext]_regVars
    PROVE  LoginInv'
<1>1. RowsOfRegistered'
  BY RegisteredKept DEF LoginInv
<1>2. ASSUME NEW l \in Logins
      PROVE  /\ login'[l].known =>
                    \E u \in users' : /\ u.login = LoginOf(login[l])'
                                      /\ u.password = PasswordOf(login[l])'
             /\ login'[l].pc = "SetIdentity" \/ login'[l].resp = 200 => HasRow(l)'
             /\ login'[l].known => login'[l].resp # 401
  <2>1. CASE LoginStep(l) \/ LoginFails(l)
    BY <2>1, TextsStay, LoginKept DEF HasRow
  <2>2. CASE ~(LoginStep(l) \/ LoginFails(l))
    BY <2>2, TextsStay, OtherLoginsKept
    DEF LoginInv, KnownHaveRows, LoginsMatched, RegisteredCanLogin, HasRow
  <2> QED BY <2>1, <2>2
<1> QED BY <1>1, <1>2 DEF LoginInv, KnownHaveRows, LoginsMatched, RegisteredCanLogin

THEOREM LoginInvariant == RegistrationSpec => []LoginInv
<1>1. RegInv /\ LoginInv /\ [RegistrationNext]_regVars => LoginInv'
  BY LoginInvStep
<1> QED BY <1>1, LoginInvInit, RegistrationInvariant, PTL DEF RegistrationSpec

\* Who was told that the registration succeeded is never refused at a login that
\* begins afterwards, whatever else is registered, fails or dies meanwhile.
THEOREM RegisteredLogIn == RegistrationSpec => []RegisteredCanLogin
<1>1. LoginInv => RegisteredCanLogin
  BY DEF LoginInv
<1> QED BY <1>1, LoginInvariant, PTL

\* Nobody logs in without the password the row of that login was made with.
THEOREM PasswordNeeded == RegistrationSpec => []LoginNeedsPassword
<1>1. LoginInv => LoginNeedsPassword
  BY DEF LoginInv, LoginsMatched, LoginNeedsPassword, HasRow
<1> QED BY <1>1, LoginInvariant, PTL
=============================================================================
