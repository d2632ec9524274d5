--------------------------- MODULE DriverAccounts ---------------------------
(***************************************************************************)
(* DriversService of driver-ms and the accounts of its drivers, which      *)
(* users-srv keeps.                                                        *)
(*                                                                         *)
(* remove and undelete write the driver and then call users-srv; a call    *)
(* that fails or times out is only logged, and one that timed out may      *)
(* still be carried out later.  update saves the driver it read before it  *)
(* asked users-srv: TypeORM reads the row again and writes the columns in  *)
(* which it differs from the entity, deleted_at among them.                *)
(*                                                                         *)
(* disturbed remembers what has happened to an account that explains a     *)
(* disagreement with its driver; no action reads it.  As in Trips, job[r]  *)
(* is a request being served, from the answer to its first query on.       *)
(*                                                                         *)
(* Left out: availability and version, which an update that gives no       *)
(* account stands for, and routes-srv, whose answer decides only whether   *)
(* remove goes on.                                                         *)
(*                                                                         *)
(* A definition called a variant is the one that follows it with a bug; it *)
(* shows that the properties tell the two apart, and is used nowhere.      *)
(***************************************************************************)
EXTENDS FiniteSets

CONSTANTS
  Requests,   \* slots for requests being served at the same time
  DriverIds,  \* identifiers the drivers table can hand out
  Users,      \* accounts of users-srv
  None        \* an argument that was not given

ASSUME AccountConstants == None \notin Users \cup DriverIds

VARIABLES
  drivers,    \* drivers[d]: a row of the drivers table
  accounts,   \* accounts[u]: status of the account (and its deleted_at)
  late,       \* calls to users-srv that timed out and are not carried out yet
  disturbed,  \* disturbed[u]: what explains a disagreement about u
  job         \* job[r]: the request being served in slot r

vars == <<drivers, accounts, late, disturbed, job>>

-----------------------------------------------------------------------------
(* Data. *)

UserStatus == {"ACTIVE", "INACTIVE"}

Driver == [state : {"unused", "live", "deleted"}, user : Users \cup {None}]

NoDriver == [state |-> "unused", user |-> None]

PCs == {"idle", "create.save", "update.ask", "update.load", "update.write",
        "remove.write", "remove.account", "undelete.write", "undelete.account"}

(* user is the account of the driver when it was read (of the driver to    *)
(* be, in create); row is the entity update saves.                         *)
Job == [ pc : PCs, driver : DriverIds \cup {None}, user : Users \cup {None},
         row : Driver, columns : SUBSET {"state", "user"} ]

Idle == [ pc |-> "idle", driver |-> None, user |-> None, row |-> NoDriver,
          columns |-> {} ]

(* What is known against an account: nothing; that remove may have left it *)
(* behind; or something after which anything may be found.                 *)
Causes == {"nothing", "left", "anything"}

-----------------------------------------------------------------------------
(* Steps of a request. *)

Taken(u) == \E d \in DriverIds : drivers[d].user = u

(* The accounts a request works on. *)
About(j) == {j.user, j.row.user} \ {None}

(* They work on the same account or the same driver. *)
Meet(i, j) == About(i) \cap About(j) # {} \/ (i.driver # None /\ i.driver = j.driver)

Disturb(us) == [u \in Users |-> IF u \in us THEN "anything" ELSE disturbed[u]]

(* A request arrives.  One that meets another disturbs all accounts that   *)
(* either works on; cause is what it disturbs by itself.                   *)
Accept(r, j, cause) ==
  LET others == {s \in Requests \ {r} : Meet(job[s], j)}
      met    == UNION {About(job[s]) : s \in others}
  IN  /\ job[r].pc = "idle"
      /\ job' = [job EXCEPT ![r] = j]
      /\ disturbed' = Disturb(cause \cup IF others = {} THEN {} ELSE About(j) \cup met)
      /\ UNCHANGED <<drivers, accounts, late>>

Goto(r, pc) == job' = [job EXCEPT ![r].pc = pc]

Done(r) == job' = [job EXCEPT ![r] = Idle]

-----------------------------------------------------------------------------
(* create: getUser answers for ACTIVE accounts only. *)

CreateDriver(r, u) ==
  /\ accounts[u] = "ACTIVE"
  /\ \E d \in DriverIds : drivers[d] = NoDriver   \* bound: identifiers left
  /\ Accept(r, [Idle EXCEPT !.pc = "create.save", !.user = u], {})

(* user_id is unique, removed drivers included. *)
SaveNewDriver(r) ==
  /\ job[r].pc = "create.save"
  /\ IF Taken(job[r].user)
     THEN UNCHANGED drivers
     ELSE \E d \in DriverIds :
            /\ drivers[d] = NoDriver
            /\ drivers' = [drivers EXCEPT ![d] = [state |-> "live", user |-> job[r].user]]
  /\ Done(r)
  /\ UNCHANGED <<accounts, late, disturbed>>

-----------------------------------------------------------------------------
(* update *)

(* Variant: the entity is made anew, its deleted_at is null. *)
UpdateDriverAnew(r, d, u) ==
  /\ drivers[d].state # "unused"
  /\ Accept(r, [Idle EXCEPT !.pc = IF u = None THEN "update.load" ELSE "update.ask",
                            !.driver = d, !.user = drivers[d].user,
                            !.row = [state |-> "live",
                                     user |-> IF u = None THEN drivers[d].user ELSE u]],
            IF drivers[d].state = "deleted" THEN {u} ELSE {})

(* Variant: an account that is not given is taken off. *)
UpdateDriverBlindly(r, d, u) ==
  /\ drivers[d].state # "unused"
  /\ Accept(r, [Idle EXCEPT !.pc = IF u = None THEN "update.load" ELSE "update.ask",
                            !.driver = d, !.user = drivers[d].user,
                            !.row = [drivers[d] EXCEPT !.user = u]],
            IF drivers[d].state = "deleted" THEN {u} ELSE {})

(* findOne returns removed drivers too: one can be given an account that   *)
(* is in use (getUser answers), which its removal did not end.             *)
UpdateDriver(r, d, u) ==
  /\ drivers[d].state # "unused"
  /\ Accept(r, [Idle EXCEPT !.pc = IF u = None THEN "update.load" ELSE "update.ask",
                            !.driver = d, !.user = drivers[d].user,
                            !.row = [drivers[d] EXCEPT !.user = IF u = None THEN @ ELSE u]],
            IF drivers[d].state = "deleted" THEN {u} ELSE {})

AskNewUser(r) ==
  /\ job[r].pc = "update.ask"
  /\ IF accounts[job[r].row.user] = "ACTIVE" THEN Goto(r, "update.load") ELSE Done(r)
  /\ UNCHANGED <<drivers, accounts, late, disturbed>>

(* save reads the row again: it will write what differs. *)
LoadForSave(r) ==
  LET j == job[r]
      columns == {c \in {"state", "user"} : j.row[c] # drivers[j.driver][c]}
  IN  /\ j.pc = "update.load"
      /\ job' = [job EXCEPT ![r].pc = "update.write", ![r].columns = columns]
      /\ UNCHANGED <<drivers, accounts, late, disturbed>>

(* What save leaves in the row: the columns that differed come from the    *)
(* entity, the others are as they are by now.                              *)
WrittenRow(r) ==
  LET j == job[r]
      column(c) == IF c \in j.columns THEN j.row[c] ELSE drivers[j.driver][c]
  IN  [state |-> column("state"), user |-> column("user")]

WriteDriver(r) ==
  LET e == job[r].driver
  IN  /\ job[r].pc = "update.write"
      /\ IF \E d \in DriverIds \ {e} : drivers[d].user = WrittenRow(r).user
         THEN UNCHANGED drivers
         ELSE drivers' = [drivers EXCEPT ![e] = WrittenRow(r)]
      /\ Done(r)
      /\ UNCHANGED <<accounts, late, disturbed>>

-----------------------------------------------------------------------------
(* remove and undelete: the driver, then the account. *)

RemoveDriver(r, d) ==
  /\ drivers[d].state = "live"
  /\ Accept(r, [Idle EXCEPT !.pc = "remove.write", !.driver = d,
                            !.user = drivers[d].user], {})

(* Variant: users-srv is not called. *)
EraseDriverOnly(r) ==
  /\ job[r].pc = "remove.write"
  /\ drivers' = [drivers EXCEPT ![job[r].driver].state = "deleted"]
  /\ Done(r)
  /\ UNCHANGED <<accounts, late, disturbed>>

(* routes-srv knows no trip of the driver, or did not answer. *)
EraseDriver(r) ==
  /\ job[r].pc = "remove.write"
  /\ drivers' = [drivers EXCEPT ![job[r].driver].state = "deleted"]
  /\ Goto(r, "remove.account")
  /\ UNCHANGED <<accounts, late, disturbed>>

UndeleteDriver(r, d) ==
  /\ drivers[d].state = "deleted"
  /\ Accept(r, [Idle EXCEPT !.pc = "undelete.write", !.driver = d,
                            !.user = drivers[d].user], {})

(* Variant: users-srv is not called. *)
RestoreDriverOnly(r) ==
  /\ job[r].pc = "undelete.write"
  /\ drivers' = [drivers EXCEPT ![job[r].driver].state = "live"]
  /\ Done(r)
  /\ UNCHANGED <<accounts, late, disturbed>>

RestoreDriver(r) ==
  /\ job[r].pc = "undelete.write"
  /\ drivers' = [drivers EXCEPT ![job[r].driver].state = "live"]
  /\ Goto(r, "undelete.account")
  /\ UNCHANGED <<accounts, late, disturbed>>

(* The call the handler awaits, if any: the status the account gets. *)
Asked(r) == IF job[r].pc = "remove.account" THEN "INACTIVE" ELSE "ACTIVE"
Calling(r) == job[r].pc \in {"remove.account", "undelete.account"}

ChangeAccount(r) ==
  /\ Calling(r)
  /\ accounts' = [accounts EXCEPT ![job[r].user] = Asked(r)]
  /\ Done(r)
  /\ UNCHANGED <<drivers, late, disturbed>>

(* The call fails: the handler logs it and answers that all is well. *)
AccountCallFails(r) ==
  /\ Calling(r)
  /\ disturbed' = IF Asked(r) = "INACTIVE" /\ disturbed[job[r].user] # "anything"
                  THEN [disturbed EXCEPT ![job[r].user] = "left"]
                  ELSE Disturb({job[r].user})
  /\ Done(r)
  /\ UNCHANGED <<drivers, accounts, late>>

(* The call times out: users-srv may still be about to carry it out. *)
AccountCallTimesOut(r) ==
  /\ Calling(r)
  /\ late' = late \cup {<<job[r].user, Asked(r)>>}
  /\ disturbed' = Disturb({job[r].user})
  /\ Done(r)
  /\ UNCHANGED <<drivers, accounts>>

LateCall(u, s) ==
  /\ <<u, s>> \in late
  /\ accounts' = [accounts EXCEPT ![u] = s]
  /\ late' = late \ {<<u, s>>}
  /\ UNCHANGED <<drivers, disturbed, job>>

(* A call before the first write is refused or fails: routes-srv knows     *)
(* trips of the driver, the database is not there.                         *)
Refuse(r) ==
  /\ job[r].pc \notin {"idle", "remove.account", "undelete.account"}
  /\ Done(r)
  /\ UNCHANGED <<drivers, accounts, late, disturbed>>

(* deleteUser and undeleteUser of users-srv, called by an administrator:   *)
(* users-srv knows nothing of drivers.                                     *)
SetAccount(u, s) ==
  /\ accounts' = [accounts EXCEPT ![u] = s]
  /\ disturbed' = Disturb({u})
  /\ UNCHANGED <<drivers, late, job>>

-----------------------------------------------------------------------------

Init ==
  /\ drivers = [d \in DriverIds |-> NoDriver]
  /\ accounts = [u \in Users |-> "ACTIVE"]
  /\ late = {}
  /\ disturbed = [u \in Users |-> "nothing"]
  /\ job = [r \in Requests |-> Idle]

Arrive(r) ==
  \/ \E u \in Users : CreateDriver(r, u)
  \/ \E d \in DriverIds :
       \/ \E u \in Users \cup {None} : UpdateDriver(r, d, u)
       \/ RemoveDriver(r, d)
       \/ UndeleteDriver(r, d)

Serve(r) ==
  \/ SaveNewDriver(r)
  \/ AskNewUser(r) \/ LoadForSave(r) \/ WriteDriver(r)
  \/ EraseDriver(r) \/ RestoreDriver(r)
  \/ ChangeAccount(r) \/ AccountCallFails(r) \/ AccountCallTimesOut(r)
  \/ Refuse(r)

Next ==
  \/ \E r \in Requests : Arrive(r) \/ Serve(r)
  \/ \E u \in Users, s \in UserStatus : LateCall(u, s) \/ SetAccount(u, s)

Spec == Init /\ [][Next]_vars

-----------------------------------------------------------------------------
(* Properties. *)

(* Rows and requests have the columns and fields the code gives them, and  *)
(* every driver has an account of its own.                                 *)
TypeOK ==
  /\ drivers \in [DriverIds -> Driver]
  /\ \A d \in DriverIds : drivers[d].state # "unused" <=> drivers[d].user # None
  /\ \A d, e \in DriverIds : drivers[d].user = drivers[e].user => d = e \/ drivers[d].user = None
  /\ accounts \in [Users -> UserStatus]
  /\ late \subseteq Users \X UserStatus
  /\ disturbed \in [Users -> Causes]
  /\ job \in [Requests -> Job]

Quiet(u) == \A r \in Requests : u \notin About(job[r])

(* A driver and its account are live together and deleted together between *)
(* requests, unless one of these happened to the account: two requests on  *)
(* it or on its driver overlapped, a call about it failed, an              *)
(* administrator changed it, or it was given to a driver already removed.  *)
PairAgrees ==
  \A d \in DriverIds :
    LET u == drivers[d].user
    IN  drivers[d].state # "unused" /\ Quiet(u) /\ disturbed[u] = "nothing" =>
          (drivers[d].state = "live" <=> accounts[u] = "ACTIVE")

(* When the second call of remove is refused, what is left behind is an    *)
(* account without a driver, never a driver in service who cannot log in.  *)
LiveDriverCanLogIn ==
  \A d \in DriverIds :
    LET u == drivers[d].user
    IN  drivers[d].state = "live" /\ Quiet(u) /\ disturbed[u] # "anything" =>
          accounts[u] = "ACTIVE"

(* The whole-entity save of update brings a removed driver back only when  *)
(* it overlapped with the removal; otherwise undelete alone does.          *)
RemovalStands ==
  [][ \A d \in DriverIds :
        drivers[d].state = "deleted" /\ drivers'[d].state = "live" =>
          \/ disturbed[drivers[d].user] = "anything"
          \/ \E r \in Requests :
               job[r].driver = d /\ job[r].pc = "undelete.write" /\ job'[r] # job[r] ]_vars

=============================================================================
