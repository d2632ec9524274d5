---------------------------- MODULE UserAccounts ----------------------------
(***************************************************************************)
(* Accounts of users-srv, and the recovery of passwords: auth-svc keeps    *)
(* the tokens, users-srv the passwords.                                    *)
(*                                                                         *)
(* createUser and updateUser ask whether an e-mail is free among accounts  *)
(* that are not deleted, and write later; the unique index counts deleted  *)
(* accounts too.  resetPassword reads a token, has users-srv change the    *)
(* password, and then marks the token used: nothing makes the three one.   *)
(*                                                                         *)
(* As in Trips, job[r] is a request being served, from the answer to its   *)
(* first query on.  uses and lost are history, no action reads them.       *)
(*                                                                         *)
(* Left out: phone and user name, which are asked for and indexed as the   *)
(* e-mail is; names and roles; the trips of a supervisor, which decide     *)
(* only whether deleteUser goes on; login, which reads.                    *)
(*                                                                         *)
(* A definition called a variant is the one that follows it with a bug; it *)
(* shows that the properties tell the two apart, and is used nowhere.      *)
(***************************************************************************)
EXTENDS FiniteSets, Naturals

CONSTANTS
  Requests,   \* slots for requests being served at the same time
  Users,      \* identifiers the users table can hand out
  Emails, Passwords,
  Tokens,     \* recovery tokens there can be
  None,
  MaxLost     \* bound: changes of one token that can go unmarked

ASSUME UserConstants ==
  /\ IsFiniteSet(Requests)
  /\ None \notin Users \cup Emails \cup Passwords \cup Tokens
  /\ MaxLost \in Nat

VARIABLES
  users,   \* users[u]: a row of the users table
  tokens,  \* tokens[k]: a row of verification_tokens
  uses,    \* uses[k]: how often k has changed a password
  lost,    \* lost[k]: how often the handler ended before it could mark k
  job      \* job[r]: the request being served in slot r

vars == <<users, tokens, uses, lost, job>>

-----------------------------------------------------------------------------
(* Data. *)

User == [ state : {"unused", "live", "deleted"},
          email : Emails \cup {None}, password : Passwords \cup {None} ]

NoUser == [state |-> "unused", email |-> None, password |-> None]

Token == [ user : Users \cup {None}, used : BOOLEAN, expired : BOOLEAN ]

NoToken == [user |-> None, used |-> FALSE, expired |-> FALSE]

BeforeChange == {"reset.getUser", "reset.compare", "reset.write"}

PCs == {"idle", "create.write", "update.write", "delete.write", "recover.save",
        "password.write", "reset.mark"} \cup BeforeChange

Job == [ pc : PCs, user : Users \cup {None}, email : Emails \cup {None},
         password : Passwords \cup {None}, token : Tokens \cup {None} ]

Idle == [ pc |-> "idle", user |-> None, email |-> None, password |-> None,
          token |-> None ]

-----------------------------------------------------------------------------
(* Queries and steps. *)

Live(u) == users[u].state = "live"

(* findByEmail and findByEmailExceptSelf. *)
FindByEmail(e, self) == {u \in Users \ {self} : Live(u) /\ users[u].email = e}

(* Variant: the index leaves deleted accounts out. *)
IndexRefusesLive(e, self) ==
  \E u \in Users \ {self} : Live(u) /\ users[u].email = e

IndexRefuses(e, self) ==
  \E u \in Users \ {self} : users[u].state # "unused" /\ users[u].email = e

Begin(r, j) ==
  /\ job[r].pc = "idle"
  /\ job' = [job EXCEPT ![r] = j]
  /\ UNCHANGED <<users, tokens, uses, lost>>

Goto(r, pc) == job' = [job EXCEPT ![r].pc = pc]

Done(r) == job' = [job EXCEPT ![r] = Idle]

-----------------------------------------------------------------------------
(* users-srv *)

CreateUser(r, e, p) ==
  /\ \E u \in Users : users[u] = NoUser   \* bound: identifiers left
  /\ FindByEmail(e, None) = {}
  /\ Begin(r, [Idle EXCEPT !.pc = "create.write", !.email = e, !.password = p])

InsertUser(r) ==
  LET j == job[r]
  IN  /\ j.pc = "create.write"
      /\ IF IndexRefuses(j.email, None)
         THEN UNCHANGED users
         ELSE \E u \in Users :
                /\ users[u] = NoUser
                /\ users' = [users EXCEPT ![u] =
                               [state |-> "live", email |-> j.email, password |-> j.password]]
      /\ Done(r)
      /\ UNCHANGED <<tokens, uses, lost>>

UpdateUser(r, u, e) ==
  /\ Live(u)
  /\ FindByEmail(e, u) = {}
  /\ Begin(r, [Idle EXCEPT !.pc = "update.write", !.user = u, !.email = e])

(* One transaction, on the row as long as it is not deleted. *)
WriteUser(r) ==
  LET j == job[r]
  IN  /\ j.pc = "update.write"
      /\ IF Live(j.user) /\ ~IndexRefuses(j.email, j.user)
         THEN users' = [users EXCEPT ![j.user].email = j.email]
         ELSE UNCHANGED users
      /\ Done(r)
      /\ UNCHANGED <<tokens, uses, lost>>

DeleteUser(r, u) ==
  /\ users[u].state # "unused"
  /\ Begin(r, [Idle EXCEPT !.pc = "delete.write", !.user = u])

EraseUser(r) ==
  /\ job[r].pc = "delete.write"
  /\ users' = [users EXCEPT ![job[r].user].state = "deleted"]
  /\ Done(r)
  /\ UNCHANGED <<tokens, uses, lost>>

UndeleteUser(u) ==
  /\ users[u].state # "unused"
  /\ users' = [users EXCEPT ![u].state = "live"]
  /\ UNCHANGED <<tokens, uses, lost, job>>

(* The new password must differ from the one read; hashing it takes a      *)
(* while, and the write that follows is on the row whatever it has become. *)
UpdatePassword(r, u, p) ==
  /\ Live(u)
  /\ users[u].password # p
  /\ Begin(r, [Idle EXCEPT !.pc = "password.write", !.user = u, !.password = p])

SetPassword(r) ==
  users' = [users EXCEPT ![job[r].user].password = job[r].password]

WritePassword(r) ==
  /\ job[r].pc = "password.write"
  /\ SetPassword(r)
  /\ Done(r)
  /\ UNCHANGED <<tokens, uses, lost>>

-----------------------------------------------------------------------------
(* auth-svc: recoverPassword. *)

(* users-srv finds the account by its e-mail. *)
RecoverPassword(r, u) ==
  /\ Live(u)
  /\ Begin(r, [Idle EXCEPT !.pc = "recover.save", !.user = u])

(* The mail with the token may or may not arrive: a request to reset can   *)
(* come from now on.                                                       *)
SaveToken(r) ==
  /\ job[r].pc = "recover.save"
  /\ \E k \in Tokens :
       /\ tokens[k] = NoToken   \* bound: tokens left
       /\ tokens' = [tokens EXCEPT ![k].user = job[r].user]
  /\ Done(r)
  /\ UNCHANGED <<users, uses, lost>>

Expire(k) ==
  /\ tokens[k] # NoToken
  /\ tokens' = [tokens EXCEPT ![k].expired = TRUE]
  /\ UNCHANGED <<users, uses, lost, job>>

-----------------------------------------------------------------------------
(* auth-svc: resetPassword. *)

(* Variant: a used token will do until it expires. *)
ResetPasswordAgain(r, k, p) ==
  /\ tokens[k] # NoToken
  /\ ~tokens[k].expired
  /\ Begin(r, [Idle EXCEPT !.pc = "reset.getUser", !.user = tokens[k].user,
                           !.password = p, !.token = k])

ResetPassword(r, k, p) ==
  /\ tokens[k] # NoToken
  /\ ~tokens[k].used /\ ~tokens[k].expired
  /\ Begin(r, [Idle EXCEPT !.pc = "reset.getUser", !.user = tokens[k].user,
                           !.password = p, !.token = k])

(* getUser, and what updatePassword asks before it writes. *)
Look(r, at, ok, next) ==
  /\ job[r].pc = at
  /\ IF ok THEN Goto(r, next) ELSE Done(r)
  /\ UNCHANGED <<users, tokens, uses, lost>>

GetUser(r) == Look(r, "reset.getUser", Live(job[r].user), "reset.compare")

ComparePassword(r) ==
  Look(r, "reset.compare",
       Live(job[r].user) /\ users[job[r].user].password # job[r].password,
       "reset.write")

ChangePassword(r) ==
  /\ job[r].pc = "reset.write"
  /\ SetPassword(r)
  /\ uses' = [uses EXCEPT ![job[r].token] = @ + 1]
  /\ Goto(r, "reset.mark")
  /\ UNCHANGED <<tokens, lost>>

(* The password is changed and auth-svc does not hear of it, or is gone. *)
ChangePasswordUnheard(r) ==
  LET k == job[r].token
  IN  /\ job[r].pc = "reset.write"
      /\ lost[k] < MaxLost   \* bound
      /\ SetPassword(r)
      /\ uses' = [uses EXCEPT ![k] = @ + 1]
      /\ lost' = [lost EXCEPT ![k] = @ + 1]
      /\ Done(r)
      /\ UNCHANGED tokens

(* save writes the column in which the entity differs from the row. *)
MarkToken(r) ==
  /\ job[r].pc = "reset.mark"
  /\ tokens' = [tokens EXCEPT ![job[r].token].used = TRUE]
  /\ Done(r)
  /\ UNCHANGED <<users, uses, lost>>

(* The save fails: the password has changed and the token is as it was. *)
MarkFails(r) ==
  /\ job[r].pc = "reset.mark"
  /\ lost[job[r].token] < MaxLost   \* bound
  /\ lost' = [lost EXCEPT ![job[r].token] = @ + 1]
  /\ Done(r)
  /\ UNCHANGED <<users, tokens, uses>>

(* A call before the write fails, or deleteUser finds trips. *)
Refuse(r) ==
  /\ job[r].pc \notin {"idle", "reset.mark"}
  /\ Done(r)
  /\ UNCHANGED <<users, tokens, uses, lost>>

-----------------------------------------------------------------------------

Init ==
  /\ users = [u \in Users |-> NoUser]
  /\ tokens = [k \in Tokens |-> NoToken]
  /\ uses = [k \in Tokens |-> 0]
  /\ lost = [k \in Tokens |-> 0]
  /\ job = [r \in Requests |-> Idle]

Arrive(r) ==
  \/ \E e \in Emails, p \in Passwords : CreateUser(r, e, p)
  \/ \E u \in Users :
       \/ \E e \in Emails : UpdateUser(r, u, e)
       \/ DeleteUser(r, u)
       \/ \E p \in Passwords : UpdatePassword(r, u, p)
       \/ RecoverPassword(r, u)
  \/ \E k \in Tokens, p \in Passwords : ResetPassword(r, k, p)

Serve(r) ==
  \/ InsertUser(r) \/ WriteUser(r) \/ EraseUser(r) \/ WritePassword(r)
  \/ SaveToken(r)
  \/ GetUser(r) \/ ComparePassword(r) \/ ChangePassword(r) \/ ChangePasswordUnheard(r)
  \/ MarkToken(r) \/ MarkFails(r)
  \/ Refuse(r)

Next ==
  \/ \E r \in Requests : Arrive(r) \/ Serve(r)
  \/ \E u \in Users : UndeleteUser(u)
  \/ \E k \in Tokens : Expire(k)

Spec == Init /\ [][Next]_vars

-----------------------------------------------------------------------------
(* Properties. *)

(* Rows and requests have the columns and fields the code gives them, and  *)
(* a token is of an account that exists.                                   *)
TypeOK ==
  /\ users \in [Users -> User]
  /\ tokens \in [Tokens -> Token]
  /\ \A k \in Tokens : tokens[k].user # None => users[tokens[k].user].state # "unused"
  /\ uses \in [Tokens -> Nat]
  /\ lost \in [Tokens -> 0 .. MaxLost]
  /\ job \in [Requests -> Job]

(* Accounts in service have different e-mails, whatever requests race and  *)
(* whatever deleted accounts are brought back: undeleteUser asks nothing,  *)
(* so an e-mail must not be given away while its owner is deleted.         *)
EmailsUnique ==
  \A u, v \in Users :
    Live(u) /\ Live(v) /\ users[u].email = users[v].email => u = v

(* A token changes at most as many passwords as requests can hold it at    *)
(* once, and one more for each change that could not be marked: with one   *)
(* request at a time and no failure, one.                                  *)
TokenUses ==
  \A k \in Tokens : uses[k] =< Cardinality(Requests) + lost[k]

=============================================================================
