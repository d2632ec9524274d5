------------------------- MODULE UserAccountsProofs -------------------------
(* Types, distinct e-mails and the uses of a recovery token, for any       *)
(* number of accounts, tokens and requests.                                *)
(*                                                                         *)
(* Each property needs what the handlers know when they write: a request   *)
(* that is past its first query holds an account that is in the table, and *)
(* a request that resets a password holds a token that is in the table.    *)
(* E-mails are distinct among all rows, deleted ones included, which is    *)
(* what makes undeleteUser harmless.  The uses of a token are counted in   *)
(* two ways: as long as it is not marked, each use was lost or is still to *)
(* be marked; from then on nobody new can take it, and what is left are    *)
(* the requests that hold it.                                              *)
EXTENDS UserAccounts, FiniteSetTheorems, TLAPS

Resetting == BeforeChange \cup {"reset.mark"}

HasUser == {"update.write", "delete.write", "password.write", "recover.save"} \cup Resetting

(* What request r holds. *)
Holds(r) ==
  LET j == job[r]
  IN  /\ j.pc \in HasUser => j.user \in Users /\ users[j.user].state # "unused"
      /\ j.pc \in {"create.write", "update.write"} => j.email \in Emails
      /\ j.pc \in {"create.write", "password.write"} \cup BeforeChange => j.password \in Passwords
      /\ j.pc \in Resetting => j.token \in Tokens /\ tokens[j.token].user # None

(* A token of nobody has not been handed out. *)
Blank(k) == tokens[k].user = None => tokens[k] = NoToken

AccountInv ==
  /\ TypeOK
  /\ \A r \in Requests : Holds(r)
  /\ \A k \in Tokens : Blank(k)

LEMMA NoneIsNothing ==
  /\ None \notin Users /\ None \notin Emails /\ None \notin Passwords /\ None \notin Tokens
BY UserConstants

LEMMA AccountInit == Init => AccountInv
BY UserConstants
   DEF Init, AccountInv, TypeOK, User, NoUser, Token, NoToken, Job, Idle, PCs, BeforeChange,
       Resetting, HasUser, Holds, Blank

-----------------------------------------------------------------------------
(* Types. *)

(* A request that is accepted holds what it was given. *)
LEMMA BeginTypes ==
  ASSUME AccountInv, NEW r \in Requests, NEW j \in Job, Begin(r, j),
         j.pc \in HasUser => j.user \in Users /\ users[j.user].state # "unused",
         j.pc \in {"create.write", "update.write"} => j.email \in Emails,
         j.pc \in {"create.write", "password.write"} \cup BeforeChange => j.password \in Passwords,
         j.pc \in Resetting => j.token \in Tokens /\ tokens[j.token].user # None
  PROVE  AccountInv'
<1>1. TypeOK'
  BY DEF AccountInv, TypeOK, Begin
<1>2. ASSUME NEW q \in Requests PROVE Holds(q)'
  BY DEF AccountInv, TypeOK, Begin, Holds
<1>3. \A k \in Tokens : Blank(k)'
  BY DEF AccountInv, Begin, Blank
<1>4. QED
  BY <1>1, <1>2, <1>3 DEF AccountInv

LEMMA ArriveTypes ==
  ASSUME AccountInv, NEW r \in Requests, Arrive(r)
  PROVE  AccountInv'
<1> USE NoneIsNothing
    DEF Job, Idle, PCs, HasUser, Resetting, BeforeChange, Live
<1>1. ASSUME NEW e \in Emails, NEW p \in Passwords, CreateUser(r, e, p) PROVE AccountInv'
  <2> DEFINE j == [Idle EXCEPT !.pc = "create.write", !.email = e, !.password = p]
  <2>1. j \in Job /\ j.pc = "create.write" /\ j.email = e /\ j.password = p
    OBVIOUS
  <2> HIDE DEF j
  <2>2. Begin(r, j)
    BY <1>1 DEF CreateUser, j
  <2>3. QED
    BY <2>1, <2>2, BeginTypes
<1>2. ASSUME NEW u \in Users, NEW e \in Emails, UpdateUser(r, u, e) PROVE AccountInv'
  <2> DEFINE j == [Idle EXCEPT !.pc = "update.write", !.user = u, !.email = e]
  <2>1. j \in Job /\ j.pc = "update.write" /\ j.user = u /\ j.email = e
    OBVIOUS
  <2> HIDE DEF j
  <2>2. Begin(r, j) /\ users[u].state # "unused"
    BY <1>2 DEF UpdateUser, j
  <2>3. QED
    BY <2>1, <2>2, BeginTypes
<1>3. ASSUME NEW u \in Users, DeleteUser(r, u) PROVE AccountInv'
  <2> DEFINE j == [Idle EXCEPT !.pc = "delete.write", !.user = u]
  <2>1. j \in Job /\ j.pc = "delete.write" /\ j.user = u
    OBVIOUS
  <2> HIDE DEF j
  <2>2. Begin(r, j) /\ users[u].state # "unused"
    BY <1>3 DEF DeleteUser, j
  <2>3. QED
    BY <2>1, <2>2, BeginTypes
<1>4. ASSUME NEW u \in Users, NEW p \in Passwords, UpdatePassword(r, u, p) PROVE AccountInv'
  <2> DEFINE j == [Idle EXCEPT !.pc = "password.write", !.user = u, !.password = p]
  <2>1. j \in Job /\ j.pc = "password.write" /\ j.user = u /\ j.password = p
    OBVIOUS
  <2> HIDE DEF j
  <2>2. Begin(r, j) /\ users[u].state # "unused"
    BY <1>4 DEF UpdatePassword, j
  <2>3. QED
    BY <2>1, <2>2, BeginTypes
<1>5. ASSUME NEW u \in Users, RecoverPassword(r, u) PROVE AccountInv'
  <2> DEFINE j == [Idle EXCEPT !.pc = "recover.save", !.user = u]
  <2>1. j \in Job /\ j.pc = "recover.save" /\ j.user = u
    OBVIOUS
  <2> HIDE DEF j
  <2>2. Begin(r, j) /\ users[u].state # "unused"
    BY <1>5 DEF RecoverPassword, j
  <2>3. QED
    BY <2>1, <2>2, BeginTypes
<1>6. ASSUME NEW k \in Tokens, NEW p \in Passwords, ResetPassword(r, k, p) PROVE AccountInv'
  <2> DEFINE j == [Idle EXCEPT !.pc = "reset.getUser", !.user = tokens[k].user,
                               !.password = p, !.token = k]
  <2>1. /\ tokens[k].user # None /\ tokens[k].user \in Users
        /\ users[tokens[k].user].state # "unused"
    BY <1>6 DEF ResetPassword, AccountInv, TypeOK, Token, Blank
  <2>2. j \in Job /\ j.pc = "reset.getUser" /\ j.user = tokens[k].user /\ j.password = p /\ j.token = k
    BY <2>1
  <2> HIDE DEF j
  <2>3. Begin(r, j)
    BY <1>6 DEF ResetPassword, j
  <2>4. QED
    BY <2>1, <2>2, <2>3, BeginTypes
<1>7. QED
  BY <1>1, <1>2, <1>3, <1>4, <1>5, <1>6 DEF Arrive

(* A request that goes on or ends, and leaves the tables alone. *)
LEMMA QuietTypes ==
  ASSUME AccountInv, NEW r \in Requests, UNCHANGED <<users, tokens>>,
         Done(r) \/ \E pc \in Resetting : job[r].pc \in Resetting /\ Goto(r, pc)
                                          /\ (pc \in BeforeChange => job[r].pc \in BeforeChange),
         uses' \in [Tokens -> Nat], lost' \in [Tokens -> 0 .. MaxLost]
  PROVE  AccountInv'
<1>1. job' \in [Requests -> Job] /\ \A q \in Requests : Holds(q)'
  <2>1. CASE Done(r)
    BY <2>1 DEF AccountInv, TypeOK, Done, Idle, Job, PCs, Holds, HasUser, Resetting, BeforeChange
  <2>2. ASSUME NEW pc \in Resetting, job[r].pc \in Resetting, Goto(r, pc),
               pc \in BeforeChange => job[r].pc \in BeforeChange
        PROVE  job' \in [Requests -> Job] /\ \A q \in Requests : Holds(q)'
    BY <2>2 DEF AccountInv, TypeOK, Goto, Job, PCs, Holds, HasUser, Resetting, BeforeChange
  <2>3. QED
    BY <2>1, <2>2
<1>2. TypeOK'
  BY <1>1 DEF AccountInv, TypeOK
<1>3. \A k \in Tokens : Blank(k)'
  BY DEF AccountInv, Blank
<1>4. QED
  BY <1>1, <1>2, <1>3 DEF AccountInv

(* A request, or nobody, that writes a row of users. *)
LEMMA UserTypes ==
  ASSUME AccountInv, UNCHANGED tokens, users' \in [Users -> User],
         \A u \in Users : users[u].state # "unused" => users'[u].state # "unused",
         \A q \in Requests : job'[q] = job[q] \/ job'[q] = Idle
                             \/ (job[q].pc = "reset.write" /\ job'[q] = [job[q] EXCEPT !.pc = "reset.mark"]),
         job' \in [Requests -> Job],
         uses' \in [Tokens -> Nat], lost' \in [Tokens -> 0 .. MaxLost]
  PROVE  AccountInv'
<1>1. TypeOK'
  BY DEF AccountInv, TypeOK, Token
<1>2. ASSUME NEW q \in Requests PROVE Holds(q)'
  <2>1. job[q] \in Job
    BY DEF AccountInv, TypeOK
  <2>2. QED
    BY <2>1 DEF AccountInv, Holds, Job, Idle, HasUser, Resetting, BeforeChange
<1>3. \A k \in Tokens : Blank(k)'
  BY DEF AccountInv, Blank
<1>4. QED
  BY <1>1, <1>2, <1>3 DEF AccountInv

LEMMA WriteTypes ==
  ASSUME AccountInv, NEW r \in Requests,
         InsertUser(r) \/ WriteUser(r) \/ EraseUser(r) \/ WritePassword(r)
           \/ ChangePassword(r) \/ ChangePasswordUnheard(r)
  PROVE  AccountInv'
<1> USE DEF AccountInv, TypeOK
<1>1. /\ job[r] \in Job /\ Holds(r)
      /\ job \in [Requests -> Job] /\ users \in [Users -> User]
      /\ uses \in [Tokens -> Nat] /\ lost \in [Tokens -> 0 .. MaxLost]
  OBVIOUS
<1>2. Done(r) => /\ job' \in [Requests -> Job]
                 /\ \A q \in Requests : job'[q] = job[q] \/ job'[q] = Idle
  BY <1>1 DEF Done, Idle, Job, PCs
<1>3. CASE InsertUser(r)
  <2>1. users' \in [Users -> User]
    BY <1>1, <1>3 DEF InsertUser, User, Job, Holds
  <2>2. \A u \in Users : users[u].state # "unused" => users'[u].state # "unused"
    BY <1>1, <1>3 DEF InsertUser, NoUser
  <2>3. QED
    BY <1>1, <1>2, <1>3, <2>1, <2>2, UserTypes DEF InsertUser
<1>4. CASE WriteUser(r)
  <2>1. job[r].user \in Users /\ job[r].email \in Emails
    BY <1>1, <1>4 DEF WriteUser, Holds, HasUser
  <2>2. /\ users' \in [Users -> User]
        /\ \A u \in Users : users[u].state # "unused" => users'[u].state # "unused"
    BY <1>1, <1>4, <2>1 DEF WriteUser, User
  <2>3. QED
    BY <1>1, <1>2, <1>4, <2>2, UserTypes DEF WriteUser
<1>5. CASE EraseUser(r)
  <2>1. job[r].user \in Users
    BY <1>1, <1>5 DEF EraseUser, Holds, HasUser
  <2>2. /\ users' \in [Users -> User]
        /\ \A u \in Users : users[u].state # "unused" => users'[u].state # "unused"
    BY <1>1, <1>5, <2>1 DEF EraseUser, User
  <2>3. QED
    BY <1>1, <1>2, <1>5, <2>2, UserTypes DEF EraseUser
<1>6. ASSUME SetPassword(r), job[r].pc \in {"password.write", "reset.write"}
      PROVE  /\ users' \in [Users -> User]
             /\ \A u \in Users : users[u].state # "unused" => users'[u].state # "unused"
  <2>1. job[r].user \in Users /\ job[r].password \in Passwords
    BY <1>1, <1>6 DEF Holds, HasUser, Resetting, BeforeChange
  <2>2. QED
    BY <1>1, <1>6, <2>1 DEF SetPassword, User
<1>7. CASE WritePassword(r)
  BY <1>1, <1>2, <1>6, <1>7, UserTypes DEF WritePassword
<1>8. ASSUME job[r].pc = "reset.write", uses' = [uses EXCEPT ![job[r].token] = @ + 1]
      PROVE  uses' \in [Tokens -> Nat]
  <2>1. job[r].token \in Tokens
    BY <1>1, <1>8 DEF Holds, Resetting, BeforeChange
  <2>2. QED
    BY <1>1, <1>8, <2>1
<1>9. CASE ChangePassword(r)
  <2>1. /\ job' \in [Requests -> Job]
        /\ \A q \in Requests : job'[q] = job[q] \/ job'[q] = [job[q] EXCEPT !.pc = "reset.mark"]
        /\ \A q \in Requests : job'[q] = job[q] \/ job[q].pc = "reset.write"
    BY <1>1, <1>9 DEF ChangePassword, Goto, Job, PCs
  <2>2. QED
    BY <1>1, <1>6, <1>8, <1>9, <2>1, UserTypes DEF ChangePassword
<1>10. CASE ChangePasswordUnheard(r)
  <2>1. job[r].token \in Tokens
    BY <1>1, <1>10 DEF ChangePasswordUnheard, Holds, Resetting, BeforeChange
  <2>2. lost' \in [Tokens -> 0 .. MaxLost]
    BY <1>1, <1>10, <2>1, UserConstants DEF ChangePasswordUnheard
  <2>3. QED
    BY <1>1, <1>2, <1>6, <1>8, <1>10, <2>2, UserTypes DEF ChangePasswordUnheard
<1>11. QED
  BY <1>3, <1>4, <1>5, <1>7, <1>9, <1>10

LEMMA TokenTypes ==
  ASSUME AccountInv,
         (\E r \in Requests : SaveToken(r) \/ MarkToken(r)) \/ (\E k \in Tokens : Expire(k))
  PROVE  AccountInv'
<1> USE DEF AccountInv, TypeOK
<1>1. tokens' \in [Tokens -> Token] /\ \A k \in Tokens : Blank(k)'
  <2>1. ASSUME NEW r \in Requests, SaveToken(r)
        PROVE  tokens' \in [Tokens -> Token] /\ \A k \in Tokens : Blank(k)'
    <3>1. job[r].user \in Users
      BY <2>1 DEF SaveToken, Holds, HasUser
    <3>2. QED
      BY <2>1, <3>1, NoneIsNothing DEF SaveToken, Token, Blank
  <2>2. ASSUME NEW r \in Requests, MarkToken(r)
        PROVE  tokens' \in [Tokens -> Token] /\ \A k \in Tokens : Blank(k)'
    <3>1. job[r].token \in Tokens /\ tokens[job[r].token].user # None
      BY <2>2 DEF MarkToken, Holds, Resetting
    <3>2. QED
      BY <2>2, <3>1 DEF MarkToken, Token, Blank
  <2>3. ASSUME NEW k \in Tokens, Expire(k)
        PROVE  tokens' \in [Tokens -> Token] /\ \A l \in Tokens : Blank(l)'
    <3>1. tokens[k] \in Token /\ tokens[k].user # None
      BY <2>3 DEF Expire, Blank
    <3>2. tokens' \in [Tokens -> Token]
      BY <2>3, <3>1 DEF Expire, Token
    <3>3. \A l \in Tokens : l # k => tokens'[l] = tokens[l]
      BY <2>3 DEF Expire
    <3>4. tokens'[k].user = tokens[k].user
      BY <2>3, <3>1 DEF Expire, Token
    <3>5. QED
      BY <3>1, <3>2, <3>3, <3>4 DEF Blank
  <2>4. QED
    BY <2>1, <2>2, <2>3
<1>2. /\ UNCHANGED <<users, uses, lost>>
      /\ \A k \in Tokens : tokens[k].user # None => tokens'[k].user = tokens[k].user
      /\ \A k \in Tokens : tokens'[k].user # None => users[tokens'[k].user].state # "unused"
  <2>1. ASSUME NEW r \in Requests, SaveToken(r)
        PROVE  /\ UNCHANGED <<users, uses, lost>>
               /\ \A k \in Tokens : tokens[k].user # None => tokens'[k].user = tokens[k].user
               /\ \A k \in Tokens : tokens'[k].user # None => users[tokens'[k].user].state # "unused"
    <3>1. users[job[r].user].state # "unused"
      BY <2>1 DEF SaveToken, Holds, HasUser
    <3>2. QED
      BY <2>1, <3>1 DEF SaveToken, Token, NoToken
  <2>2. ASSUME NEW r \in Requests, MarkToken(r)
        PROVE  UNCHANGED <<users, uses, lost>> /\ \A k \in Tokens : tokens'[k].user = tokens[k].user
    BY <2>2 DEF MarkToken, Token
  <2>3. ASSUME NEW k \in Tokens, Expire(k)
        PROVE  UNCHANGED <<users, uses, lost>> /\ \A l \in Tokens : tokens'[l].user = tokens[l].user
    BY <2>3 DEF Expire, Token
  <2>4. QED
    BY <2>1, <2>2, <2>3
<1>3. job' \in [Requests -> Job] /\ \A q \in Requests : job'[q] = job[q] \/ job'[q] = Idle
  <2>1. ASSUME NEW r \in Requests, SaveToken(r) \/ MarkToken(r)
        PROVE  job' = [job EXCEPT ![r] = Idle]
    BY <2>1 DEF SaveToken, MarkToken, Done
  <2>2. ASSUME NEW k \in Tokens, Expire(k) PROVE job' = job
    BY <2>2 DEF Expire
  <2>3. Idle \in Job
    BY DEF Idle, Job, PCs
  <2>4. QED
    BY <2>1, <2>2, <2>3
<1>4. ASSUME NEW q \in Requests PROVE Holds(q)'
  BY <1>2, <1>3 DEF Holds, Idle, HasUser, Resetting, BeforeChange
<1>5. QED
  BY <1>1, <1>2, <1>3, <1>4

LEMMA AccountStep == AccountInv /\ [Next]_vars => AccountInv'
<1> SUFFICES ASSUME AccountInv, [Next]_vars PROVE AccountInv'
  OBVIOUS
<1>1. ASSUME NEW r \in Requests, GetUser(r) \/ ComparePassword(r) PROVE AccountInv'
  BY <1>1, QuietTypes DEF GetUser, ComparePassword, Look, Resetting, BeforeChange, AccountInv, TypeOK
<1>2. ASSUME NEW r \in Requests, Refuse(r) PROVE AccountInv'
  BY <1>2, QuietTypes DEF Refuse, AccountInv, TypeOK
<1>3. ASSUME NEW r \in Requests, MarkFails(r) PROVE AccountInv'
  <2>1. lost' \in [Tokens -> 0 .. MaxLost]
    <3>1. job[r].token \in Tokens
      BY <1>3 DEF MarkFails, AccountInv, Holds, Resetting
    <3>2. QED
      BY <1>3, <3>1, UserConstants DEF MarkFails, AccountInv, TypeOK
  <2>2. QED
    BY <1>3, <2>1, QuietTypes DEF MarkFails, AccountInv, TypeOK
<1>4. ASSUME NEW u \in Users, UndeleteUser(u) PROVE AccountInv'
  <2>1. /\ users' \in [Users -> User]
        /\ \A v \in Users : users[v].state # "unused" => users'[v].state # "unused"
    BY <1>4 DEF UndeleteUser, AccountInv, TypeOK, User
  <2>2. QED
    BY <1>4, <2>1, UserTypes DEF UndeleteUser, AccountInv, TypeOK
<1>5. CASE UNCHANGED vars
  BY <1>5 DEF vars, AccountInv, TypeOK, Holds, Blank
<1>6. QED
  BY <1>1, <1>2, <1>3, <1>4, <1>5, ArriveTypes, WriteTypes, TokenTypes DEF Next, Serve

(* Rows, tokens and requests are well typed. *)
THEOREM AccountTypes == Spec => []TypeOK
<1>1. AccountInv => TypeOK
  BY DEF AccountInv
<1>2. QED
  BY AccountInit, AccountStep, <1>1, PTL DEF Spec

-----------------------------------------------------------------------------
(* E-mails.  Deleted rows count too: the index refuses their e-mails.      *)

RowsDistinct ==
  \A u, v \in Users :
    (users[u].state # "unused" /\ users[v].state # "unused" /\ users[u].email = users[v].email)
      => u = v

(* Rows keep their e-mails, and none comes into use. *)
LEMMA SameEmails ==
  ASSUME RowsDistinct,
         \A u \in Users : /\ users'[u].email = users[u].email
                          /\ users'[u].state # "unused" => users[u].state # "unused"
  PROVE  RowsDistinct'
BY DEF RowsDistinct

LEMMA EmailStep == AccountInv /\ RowsDistinct /\ [Next]_vars => RowsDistinct'
<1> SUFFICES ASSUME AccountInv, RowsDistinct, [Next]_vars PROVE RowsDistinct'
  OBVIOUS
<1>1. users \in [Users -> User] /\ \A r \in Requests : job[r] \in Job /\ Holds(r)
  BY DEF AccountInv, TypeOK
<1>2. ASSUME NEW r \in Requests, InsertUser(r) PROVE RowsDistinct'
  <2>1. CASE UNCHANGED users
    BY <2>1 DEF RowsDistinct
  <2>2. CASE ~UNCHANGED users
    <3>1. PICK u \in Users :
            users' = [users EXCEPT ![u] = [state |-> "live", email |-> job[r].email,
                                           password |-> job[r].password]]
      BY <1>2, <2>2 DEF InsertUser
    <3>2. \A v \in Users : users[v].state # "unused" => users[v].email # job[r].email
      BY <1>2, <2>2, NoneIsNothing DEF InsertUser, IndexRefuses
    <3>3. /\ users'[u].email = job[r].email
          /\ \A v \in Users : v # u => users'[v] = users[v]
      BY <1>1, <3>1
    <3>4. QED
      BY <3>2, <3>3 DEF RowsDistinct
  <2>3. QED
    BY <2>1, <2>2
<1>3. ASSUME NEW r \in Requests, WriteUser(r) PROVE RowsDistinct'
  <2>1. CASE UNCHANGED users
    BY <2>1 DEF RowsDistinct
  <2>2. CASE ~UNCHANGED users
    <3>1. /\ users' = [users EXCEPT ![job[r].user].email = job[r].email]
          /\ ~IndexRefuses(job[r].email, job[r].user)
      BY <1>3, <2>2 DEF WriteUser
    <3>2. job[r].user \in Users
      BY <1>1, <1>3 DEF WriteUser, Holds, HasUser
    <3>3. \A v \in Users \ {job[r].user} :
            users[v].state # "unused" => users[v].email # job[r].email
      BY <3>1 DEF IndexRefuses
    <3>4. /\ users'[job[r].user].email = job[r].email
          /\ \A v \in Users \ {job[r].user} : users'[v] = users[v]
      BY <1>1, <3>1, <3>2 DEF User
    <3>5. QED
      BY <3>3, <3>4 DEF RowsDistinct
  <2>3. QED
    BY <2>1, <2>2
<1>4. ASSUME NEW r \in Requests, EraseUser(r) PROVE RowsDistinct'
  <2>1. job[r].user \in Users /\ users[job[r].user].state # "unused"
    BY <1>1, <1>4 DEF EraseUser, Holds, HasUser
  <2>2. QED
    BY <1>1, <1>4, <2>1, SameEmails DEF EraseUser, User
<1>5. ASSUME NEW r \in Requests, SetPassword(r) PROVE RowsDistinct'
  BY <1>1, <1>5, SameEmails DEF SetPassword, User
<1>6. ASSUME NEW u \in Users, UndeleteUser(u) PROVE RowsDistinct'
  BY <1>1, <1>6, SameEmails DEF UndeleteUser, User
<1>7. CASE UNCHANGED users
  BY <1>7 DEF RowsDistinct
<1>8. ASSUME NEW r \in Requests, Arrive(r) PROVE UNCHANGED users
  BY <1>8 DEF Arrive, CreateUser, UpdateUser, DeleteUser, UpdatePassword, RecoverPassword,
              ResetPassword, Begin
<1>9. ASSUME NEW r \in Requests, Serve(r) PROVE RowsDistinct'
  BY <1>2, <1>3, <1>4, <1>5, <1>7, <1>9
     DEF Serve, WritePassword, SaveToken, GetUser, ComparePassword, Look, ChangePassword,
         ChangePasswordUnheard, MarkToken, MarkFails, Refuse
<1>10. QED
  BY <1>6, <1>7, <1>8, <1>9 DEF Next, Expire, vars

(* However requests race, and whatever accounts are deleted and brought    *)
(* back, no two accounts in service have the same e-mail.                  *)
THEOREM EmailsDistinct == Spec => []EmailsUnique
<1>1. Init => RowsDistinct
  BY DEF Init, RowsDistinct, NoUser
<1>2. RowsDistinct => EmailsUnique
  BY DEF RowsDistinct, EmailsUnique, Live
<1>3. QED
  BY AccountInit, AccountStep, EmailStep, <1>1, <1>2, PTL DEF Spec

-----------------------------------------------------------------------------
(* Uses of a token. *)

(* Requests that will change a password with k, and that have to mark it. *)
Changes(r, k) == job[r].token = k /\ job[r].pc \in BeforeChange

Marks(r, k) == job[r].token = k /\ job[r].pc = "reset.mark"

Changing(k) == {r \in Requests : Changes(r, k)}

Marking(k) == {r \in Requests : Marks(r, k)}

Counted(k) ==
  /\ ~tokens[k].used => uses[k] =< lost[k] + Cardinality(Marking(k))
  /\ tokens[k].used => uses[k] + Cardinality(Changing(k)) =< Cardinality(Requests) + lost[k]

TokenInv == AccountInv /\ \A k \in Tokens : Counted(k)

LEMMA FiniteRequests ==
  ASSUME NEW S \in SUBSET Requests
  PROVE  /\ IsFiniteSet(S)
         /\ Cardinality(S) \in Nat /\ Cardinality(Requests) \in Nat
         /\ Cardinality(S) =< Cardinality(Requests)
BY UserConstants, FS_Subset, FS_CardinalityType

LEMMA Fewer ==
  ASSUME NEW S \in SUBSET Requests, NEW T \in SUBSET S
  PROVE  Cardinality(T) =< Cardinality(S)
BY FiniteRequests, FS_Subset

LEMMA OneFewer ==
  ASSUME NEW S \in SUBSET Requests, NEW r \in S, NEW T, T = S \ {r}
  PROVE  Cardinality(T) = Cardinality(S) - 1
BY FiniteRequests, FS_RemoveElement

LEMMA Apart ==
  ASSUME NEW S \in SUBSET Requests, NEW T \in SUBSET Requests, S \cap T = {}
  PROVE  Cardinality(S \cup T) = Cardinality(S) + Cardinality(T)
<1>1. Cardinality(S \cup T) = Cardinality(S) + Cardinality(T) - Cardinality(S \cap T)
  BY FiniteRequests, FS_Union
<1>2. Cardinality(S \cap T) = 0
  BY FS_EmptySet
<1>3. QED
  BY <1>1, <1>2, FiniteRequests

LEMMA BothCounts ==
  ASSUME NEW k \in Tokens, TypeOK
  PROVE  /\ Marking(k) \in SUBSET Requests /\ Changing(k) \in SUBSET Requests
         /\ Cardinality(Marking(k)) \in Nat /\ Cardinality(Changing(k)) \in Nat
         /\ Cardinality(Requests) \in Nat
         /\ Cardinality(Marking(k)) + Cardinality(Changing(k)) =< Cardinality(Requests)
         /\ uses[k] \in Nat /\ lost[k] \in Nat
<1>1. Marking(k) \in SUBSET Requests /\ Changing(k) \in SUBSET Requests
  BY DEF Marking, Changing
<1>2. Marking(k) \cap Changing(k) = {}
  BY DEF Marking, Changing, Marks, Changes, BeforeChange
<1>3. Cardinality(Marking(k) \cup Changing(k)) =< Cardinality(Requests)
  BY <1>1, FiniteRequests
<1>4. Cardinality(Marking(k) \cup Changing(k)) = Cardinality(Marking(k)) + Cardinality(Changing(k))
  BY <1>1, <1>2, Apart
<1>5. uses[k] \in Nat /\ lost[k] \in Nat
  BY UserConstants DEF TypeOK
<1>6. QED
  BY <1>1, <1>3, <1>4, <1>5, FiniteRequests

(* Nobody uses the token, takes it once marked, or gives up marking it. *)
LEMMA KeepStep ==
  ASSUME TokenInv, AccountInv', NEW k \in Tokens,
         uses'[k] = uses[k], lost'[k] = lost[k], tokens'[k].used = tokens[k].used,
         \A r \in Requests : /\ Marks(r, k) => Marks(r, k)'
                             /\ tokens[k].used => (Changes(r, k)' => Changes(r, k))
  PROVE  Counted(k)'
<1>1. TypeOK /\ TypeOK' /\ Counted(k)
  BY DEF TokenInv, AccountInv
<1>2. /\ Marking(k) \in SUBSET Requests /\ Marking(k)' \in SUBSET Requests
      /\ Changing(k) \in SUBSET Requests /\ Changing(k)' \in SUBSET Requests
  BY DEF Marking, Changing
<1>3. Cardinality(Marking(k)) =< Cardinality(Marking(k)')
  BY <1>2, Fewer DEF Marking
<1>4. tokens[k].used => Cardinality(Changing(k)') =< Cardinality(Changing(k))
  BY <1>2, Fewer DEF Changing
<1>5. /\ Cardinality(Marking(k)) \in Nat /\ Cardinality(Marking(k)') \in Nat
      /\ Cardinality(Changing(k)) \in Nat /\ Cardinality(Changing(k)') \in Nat
      /\ Cardinality(Requests) \in Nat
  BY <1>2, FiniteRequests
<1>6. uses[k] \in Nat /\ lost[k] \in Nat
  BY <1>1, BothCounts
<1>7. /\ ~tokens'[k].used => uses'[k] =< lost'[k] + Cardinality(Marking(k)')
      /\ tokens'[k].used => uses'[k] + Cardinality(Changing(k)') =< Cardinality(Requests) + lost'[k]
  BY <1>1, <1>3, <1>4, <1>5, <1>6 DEF Counted
<1>8. QED
  BY <1>7 DEF Counted

(* All requests keep what they do with tokens, or drop it unless they have *)
(* to mark one.                                                            *)
LEMMA DropStep ==
  ASSUME TokenInv, AccountInv', UNCHANGED <<uses, lost>>,
         \A k \in Tokens : tokens'[k].used = tokens[k].used,
         NEW r \in Requests, job[r].pc # "reset.mark",
         \/ job' = job
         \/ Done(r)
         \/ job[r].pc \in BeforeChange /\ \E pc \in BeforeChange : Goto(r, pc)
  PROVE  \A k \in Tokens : Counted(k)'
<1>1. ASSUME NEW k \in Tokens, NEW q \in Requests
      PROVE  (Marks(q, k) => Marks(q, k)') /\ (Changes(q, k)' => Changes(q, k))
  BY DEF TokenInv, AccountInv, TypeOK, Job, Marks, Changes, Done, Idle, Goto, BeforeChange
<1>2. ASSUME NEW k \in Tokens PROVE Counted(k)'
  <2>1. uses'[k] = uses[k] /\ lost'[k] = lost[k] /\ tokens'[k].used = tokens[k].used
    OBVIOUS
  <2>2. \A q \in Requests : /\ Marks(q, k) => Marks(q, k)'
                            /\ tokens[k].used => (Changes(q, k)' => Changes(q, k))
    BY <1>1
  <2>3. QED
    BY <2>1, <2>2, KeepStep
<1>3. QED
  BY <1>2

LEMMA ArriveTokens ==
  ASSUME TokenInv, AccountInv', NEW r \in Requests, Arrive(r), NEW k \in Tokens
  PROVE  Counted(k)'
<1> DEFINE Takes == job'[r].pc \in BeforeChange /\ job'[r].token = k
<1>1. /\ job[r].pc = "idle"
      /\ \A q \in Requests \ {r} : job'[q] = job[q]
      /\ UNCHANGED <<users, tokens, uses, lost>>
      /\ Takes => ~tokens[k].used
  <2> USE DEF TokenInv, AccountInv, TypeOK, Begin, Idle, BeforeChange
  <2>1. ASSUME NEW e \in Emails, NEW p \in Passwords, CreateUser(r, e, p) PROVE <1>1!:
    BY <2>1 DEF CreateUser
  <2>2. ASSUME NEW u \in Users, NEW e \in Emails, UpdateUser(r, u, e) PROVE <1>1!:
    BY <2>2 DEF UpdateUser
  <2>3. ASSUME NEW u \in Users, DeleteUser(r, u) PROVE <1>1!:
    BY <2>3 DEF DeleteUser
  <2>4. ASSUME NEW u \in Users, NEW p \in Passwords, UpdatePassword(r, u, p) PROVE <1>1!:
    BY <2>4 DEF UpdatePassword
  <2>5. ASSUME NEW u \in Users, RecoverPassword(r, u) PROVE <1>1!:
    BY <2>5 DEF RecoverPassword
  <2>6. ASSUME NEW l \in Tokens, NEW p \in Passwords, ResetPassword(r, l, p) PROVE <1>1!:
    BY <2>6 DEF ResetPassword
  <2>7. QED
    BY <2>1, <2>2, <2>3, <2>4, <2>5, <2>6 DEF Arrive
<1>2. ASSUME NEW q \in Requests
      PROVE  /\ Marks(q, k) => Marks(q, k)'
             /\ tokens[k].used => (Changes(q, k)' => Changes(q, k))
  BY <1>1 DEF Marks, Changes
<1>3. QED
  BY <1>1, <1>2, KeepStep

(* A use: the request goes on to mark the token, or the mark is lost. *)
LEMMA ChangeTokens ==
  ASSUME TokenInv, AccountInv', NEW r \in Requests,
         ChangePassword(r) \/ ChangePasswordUnheard(r), NEW k \in Tokens
  PROVE  Counted(k)'
<1>1. /\ job \in [Requests -> Job] /\ TypeOK /\ TypeOK' /\ Counted(k)
      /\ job[r].pc = "reset.write" /\ UNCHANGED tokens
  BY DEF TokenInv, AccountInv, TypeOK, ChangePassword, ChangePasswordUnheard
<1>2. CASE k # job[r].token
  <2>1. uses'[k] = uses[k] /\ lost'[k] = lost[k]
    BY <1>1, <1>2 DEF TypeOK, ChangePassword, ChangePasswordUnheard
  <2>2. ASSUME NEW q \in Requests PROVE (Marks(q, k) => Marks(q, k)') /\ (Changes(q, k)' => Changes(q, k))
    BY <1>1, <1>2, NoneIsNothing
       DEF Marks, Changes, ChangePassword, ChangePasswordUnheard, Goto, Done, Idle, Job, BeforeChange
  <2>3. QED
    BY <1>1, <2>1, <2>2, KeepStep
<1>3. CASE k = job[r].token /\ ChangePassword(r)
  <2>1. uses'[k] = uses[k] + 1 /\ lost'[k] = lost[k]
    BY <1>1, <1>3 DEF TypeOK, ChangePassword
  <2>2. /\ r \in Changing(k) /\ Changing(k)' = Changing(k) \ {r}
        /\ r \in Marking(k)' /\ Marking(k) = Marking(k)' \ {r}
    BY <1>1, <1>3 DEF Changing, Marking, Marks, Changes, ChangePassword, Goto, Job, BeforeChange
  <2>3. Cardinality(Changing(k)') = Cardinality(Changing(k)) - 1
    BY <2>2, OneFewer DEF Changing
  <2>4. Cardinality(Marking(k)) = Cardinality(Marking(k)') - 1
    BY <2>2, OneFewer DEF Marking
  <2>5. Cardinality(Marking(k)') \in Nat
    BY FiniteRequests DEF Marking
  <2>6. /\ ~tokens'[k].used => uses'[k] =< lost'[k] + Cardinality(Marking(k)')
        /\ tokens'[k].used => uses'[k] + Cardinality(Changing(k)') =< Cardinality(Requests) + lost'[k]
    BY <1>1, <2>1, <2>3, <2>4, <2>5, BothCounts DEF Counted
  <2>7. QED
    BY <2>6 DEF Counted
<1>4. CASE k = job[r].token /\ ChangePasswordUnheard(r)
  <2>1. uses'[k] = uses[k] + 1 /\ lost'[k] = lost[k] + 1
    BY <1>1, <1>4 DEF TypeOK, ChangePasswordUnheard
  <2>2. /\ r \in Changing(k) /\ Changing(k)' = Changing(k) \ {r}
        /\ Marking(k)' = Marking(k)
    BY <1>1, <1>4, NoneIsNothing
       DEF Changing, Marking, Marks, Changes, ChangePasswordUnheard, Done, Idle, Job, BeforeChange
  <2>3. Cardinality(Changing(k)') = Cardinality(Changing(k)) - 1
    BY <2>2, OneFewer DEF Changing
  <2>4. /\ ~tokens'[k].used => uses'[k] =< lost'[k] + Cardinality(Marking(k)')
        /\ tokens'[k].used => uses'[k] + Cardinality(Changing(k)') =< Cardinality(Requests) + lost'[k]
    BY <1>1, <2>1, <2>2, <2>3, BothCounts DEF Counted
  <2>5. QED
    BY <2>4 DEF Counted
<1>5. QED
  BY <1>2, <1>3, <1>4

(* The mark, or its failure. *)
LEMMA MarkTokens ==
  ASSUME TokenInv, AccountInv', NEW r \in Requests, MarkToken(r) \/ MarkFails(r), NEW k \in Tokens
  PROVE  Counted(k)'
<1>1. /\ job \in [Requests -> Job] /\ TypeOK /\ TypeOK' /\ Counted(k)
      /\ job[r].pc = "reset.mark" /\ Done(r) /\ UNCHANGED uses
  BY DEF TokenInv, AccountInv, TypeOK, MarkToken, MarkFails
<1>2. /\ Changing(k)' = Changing(k)
      /\ Marking(k)' = Marking(k) \ {r}
      /\ r \in Marking(k) <=> k = job[r].token
  BY <1>1, NoneIsNothing DEF Changing, Marking, Marks, Changes, Done, Idle, Job, BeforeChange
<1>3. CASE k # job[r].token
  <2>1. Marking(k)' = Marking(k)
    BY <1>2, <1>3
  <2>2. lost'[k] = lost[k] /\ tokens'[k] = tokens[k]
    BY <1>1, <1>3 DEF TypeOK, MarkToken, MarkFails
  <2>3. QED
    BY <1>1, <1>2, <2>1, <2>2 DEF Counted
<1>4. CASE k = job[r].token /\ MarkToken(r)
  <2>1. tokens'[k].used /\ lost'[k] = lost[k]
    BY <1>1, <1>4 DEF TypeOK, Token, MarkToken
  <2>2. uses[k] + Cardinality(Changing(k)) =< Cardinality(Requests) + lost[k]
    BY <1>1, BothCounts DEF Counted
  <2>3. QED
    BY <1>1, <1>2, <2>1, <2>2 DEF Counted
<1>5. CASE k = job[r].token /\ MarkFails(r)
  <2>1. tokens'[k] = tokens[k] /\ lost'[k] = lost[k] + 1
    BY <1>1, <1>5 DEF TypeOK, MarkFails
  <2>2. Cardinality(Marking(k)') = Cardinality(Marking(k)) - 1
    BY <1>2, <1>5, OneFewer DEF Marking
  <2>3. /\ ~tokens'[k].used => uses'[k] =< lost'[k] + Cardinality(Marking(k)')
        /\ tokens'[k].used => uses'[k] + Cardinality(Changing(k)') =< Cardinality(Requests) + lost'[k]
    BY <1>1, <1>2, <2>1, <2>2, BothCounts DEF Counted
  <2>4. QED
    BY <2>3 DEF Counted
<1>6. QED
  BY <1>3, <1>4, <1>5

LEMMA TokenInit == Init => TokenInv
<1> SUFFICES ASSUME Init, NEW k \in Tokens PROVE Counted(k)
  BY AccountInit DEF TokenInv
<1>1. uses[k] = 0 /\ ~tokens[k].used /\ TypeOK
  BY AccountInit DEF Init, NoToken, AccountInv
<1>2. QED
  BY <1>1, BothCounts DEF Counted

LEMMA TokenStep == TokenInv /\ [Next]_vars => TokenInv'
<1> SUFFICES ASSUME TokenInv, [Next]_vars PROVE \A k \in Tokens : Counted(k)'
  BY AccountStep DEF TokenInv
<1>1. AccountInv'
  BY AccountStep DEF TokenInv
<1>2. ASSUME NEW r \in Requests,
             InsertUser(r) \/ WriteUser(r) \/ EraseUser(r) \/ WritePassword(r) \/ Refuse(r)
      PROVE  \A k \in Tokens : Counted(k)'
  BY <1>1, <1>2, DropStep DEF InsertUser, WriteUser, EraseUser, WritePassword, Refuse
<1>3. ASSUME NEW r \in Requests, GetUser(r) \/ ComparePassword(r)
      PROVE  \A k \in Tokens : Counted(k)'
  BY <1>1, <1>3, DropStep DEF GetUser, ComparePassword, Look, BeforeChange
<1>4. ASSUME NEW r \in Requests, SaveToken(r) PROVE \A k \in Tokens : Counted(k)'
  <2>1. \A k \in Tokens : tokens'[k].used = tokens[k].used
    BY <1>4 DEF SaveToken, TokenInv, AccountInv, TypeOK, Token
  <2>2. QED
    BY <1>1, <1>4, <2>1, DropStep DEF SaveToken
<1>5. ASSUME UNCHANGED <<uses, lost, job>>, \A k \in Tokens : tokens'[k].used = tokens[k].used
      PROVE  \A k \in Tokens : Counted(k)'
  BY <1>1, <1>5, KeepStep DEF Marks, Changes
<1>6. ASSUME NEW k \in Tokens, Expire(k) PROVE \A l \in Tokens : Counted(l)'
  <2>1. \A l \in Tokens : tokens'[l].used = tokens[l].used
    BY <1>6 DEF Expire, TokenInv, AccountInv, TypeOK, Token
  <2>2. QED
    BY <1>5, <1>6, <2>1 DEF Expire
<1>7. QED
  BY <1>1, <1>2, <1>3, <1>4, <1>5, <1>6, ArriveTokens, ChangeTokens, MarkTokens
     DEF Next, Serve, UndeleteUser, vars

(* A recovery token changes no more passwords than requests can hold it at *)
(* once, and one more for each change that could not be marked.            *)
THEOREM TokenUsesBounded == Spec => []TokenUses
<1>1. TokenInv => TokenUses
  <2> SUFFICES ASSUME TokenInv, NEW k \in Tokens PROVE uses[k] =< Cardinality(Requests) + lost[k]
    BY DEF TokenUses
  <2>1. TypeOK /\ Counted(k)
    BY DEF TokenInv, AccountInv
  <2>2. QED
    BY <2>1, BothCounts DEF Counted
<1>2. QED
  BY TokenInit, TokenStep, <1>1, PTL DEF Spec

=============================================================================
