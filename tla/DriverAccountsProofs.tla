----------------------- MODULE DriverAccountsProofs -----------------------
(* Theorems of DriverAccounts, for any number of requests, drivers and     *)
(* accounts.                                                               *)
(*                                                                         *)
(* That a driver and its account agree between requests is not inductive.  *)
(* A handler must find its driver as it read it and an account as it was   *)
(* told, unless it has met another handler; and two handlers meet on a     *)
(* driver as well as on an account, since updates can pass a driver from   *)
(* account to account while a third handler still has the first.           *)
EXTENDS DriverAccounts, TLAPS

UpdatePCs == {"update.ask", "update.load", "update.write"}

(* An account of which anything may be found, and a request all of whose   *)
(* accounts are such.                                                      *)
Lost(u) == disturbed[u] = "anything"
AllLost(r) == \A u \in About(job[r]) : Lost(u)

(* What a handler holds at each of its calls. *)
Holds(r) ==
  LET j == job[r]
  IN  /\ j.pc = "idle" => j.driver = None /\ About(j) = {}
      /\ j.pc # "idle" => j.user \in Users
      /\ j.pc \notin {"idle", "create.save"} =>
           j.driver \in DriverIds /\ drivers[j.driver].state # "unused"
      /\ j.pc = "create.save" => j.driver = None
      /\ j.pc \in UpdatePCs => j.row.user \in Users /\ j.row.state # "unused"

(* Requests that meet are known to: all their accounts are lost.           *)
Known ==
  \A r, s \in Requests : r # s /\ Meet(job[r], job[s]) => AllLost(r)

(* The state in which the handler has read its driver, or left it.         *)
Left(j) ==
  IF j.pc \in UpdatePCs THEN j.row.state
  ELSE IF j.pc \in {"remove.write", "undelete.account"} THEN "live" ELSE "deleted"

(* The driver is as the handler has read or left it, unless the handler    *)
(* has met another on the way.                                             *)
Intact(r) ==
  LET j == job[r]
      row == drivers[j.driver]
  IN  j.driver # None =>
        \/ row.user = j.user /\ row.state = Left(j)
        \/ AllLost(r) /\ Lost(row.user)

(* The account create and update have found ACTIVE still is.  An account   *)
(* goes to a driver in service.                                            *)
Asks(r) ==
  LET j == job[r]
  IN  /\ j.pc = "create.save" => Lost(j.user) \/ accounts[j.user] = "ACTIVE"
      /\ j.pc \in UpdatePCs /\ j.row.user # j.user =>
           \/ Lost(j.row.user)
           \/ j.row.state = "live" /\ (j.pc = "update.ask" \/ accounts[j.row.user] = "ACTIVE")

Agree(d) ==
  LET u == drivers[d].user
  IN  /\ drivers[d].state = "live" => accounts[u] = "ACTIVE"
      /\ drivers[d].state = "deleted" /\ disturbed[u] = "nothing" => accounts[u] = "INACTIVE"

(* Driver and account agree but between the two calls of a handler.        *)
Pair(d) ==
  LET u == drivers[d].user
  IN  drivers[d].state # "unused" =>
        \/ Lost(u)
        \/ Agree(d)
        \/ \E r \in Requests : Calling(r) /\ job[r].user = u

AccountInv ==
  /\ TypeOK
  /\ \A r \in Requests : Holds(r) /\ Intact(r) /\ Asks(r)
  /\ Known
  /\ \A u \in Users, s \in UserStatus : <<u, s>> \in late => Lost(u)
  /\ \A d \in DriverIds : Pair(d)

(* What has happened to an account is not forgotten.                       *)
Grows ==
  \A u \in Users : /\ Lost(u) => Lost(u)'
                   /\ disturbed'[u] = "nothing" => disturbed[u] = "nothing"

-----------------------------------------------------------------------------
(* Data. *)

LEMMA Typed ==
  ASSUME AccountInv
  PROVE  /\ drivers \in [DriverIds -> Driver] /\ accounts \in [Users -> UserStatus]
         /\ disturbed \in [Users -> Causes] /\ job \in [Requests -> Job]
         /\ late \subseteq Users \X UserStatus
BY DEF AccountInv, TypeOK

LEMMA IdleTyped == Idle \in Job /\ Idle.pc = "idle" /\ Idle.driver = None /\ About(Idle) = {}
BY DEF Idle, Job, PCs, NoDriver, Driver, About

LEMMA AboutUsers ==
  ASSUME NEW j \in Job
  PROVE  About(j) \subseteq Users
BY DEF Job, Driver, About

(* A driver that has a row has an account of its own. *)
LEMMA RowUsers ==
  ASSUME AccountInv, NEW d \in DriverIds, drivers[d].state # "unused"
  PROVE  /\ drivers[d].user \in Users /\ drivers[d].state \in {"live", "deleted"}
         /\ \A e \in DriverIds : drivers[e].user = drivers[d].user => e = d
BY AccountConstants DEF AccountInv, TypeOK, Driver

-----------------------------------------------------------------------------
(* What a step leaves to the slots and the drivers it does not touch.      *)

(* A request goes on with no more accounts and no other driver.            *)
LEMMA SlotStep ==
  ASSUME AccountInv, NEW r \in Requests, NEW next \in Job, job' = [job EXCEPT ![r] = next],
         Grows, About(next) \subseteq About(job[r]), next.driver \in {job[r].driver, None}
  PROVE  /\ job' \in [Requests -> Job] /\ job'[r] = next
         /\ \A s \in Requests \ {r} : job'[s] = job[s]
         /\ Known'
<1>1. job \in [Requests -> Job]
  BY Typed
<1>2. job' \in [Requests -> Job] /\ job'[r] = next /\ \A s \in Requests \ {r} : job'[s] = job[s]
  BY <1>1
<1>3. ASSUME NEW a \in Requests, NEW b \in Requests, a # b, Meet(job'[a], job'[b])
      PROVE  \A u \in About(job'[a]) : disturbed'[u] = "anything"
  <2>1. /\ About(job'[a]) \subseteq About(job[a]) /\ About(job'[b]) \subseteq About(job[b])
        /\ job'[a].driver \in {job[a].driver, None} /\ job'[b].driver \in {job[b].driver, None}
    BY <1>2
  <2>2. Meet(job[a], job[b])
    BY <1>3, <2>1 DEF Meet
  <2>3. AllLost(a)
    BY <1>3, <2>2 DEF AccountInv, Known
  <2>4. About(job[a]) \subseteq Users
    BY <1>1, AboutUsers
  <2>5. QED
    BY <2>1, <2>3, <2>4 DEF AllLost, Grows, Lost
<1>4. Known'
  BY <1>3 DEF Known, AllLost, Lost
<1>5. QED
  BY <1>2, <1>4

(* A slot left alone holds what it held, if its driver is left alone too   *)
(* or is lost, and its accounts likewise.                                  *)
LEMMA OtherSlot ==
  ASSUME AccountInv, Grows, NEW s \in Requests, job'[s] = job[s],
         \A d \in DriverIds : job[s].driver = d =>
           \/ drivers'[d] = drivers[d]
           \/ drivers'[d].state # "unused" /\ AllLost(s) /\ disturbed'[drivers'[d].user] = "anything",
         \A u \in About(job[s]) : accounts'[u] = accounts[u] \/ disturbed'[u] = "anything"
  PROVE  Holds(s)' /\ Intact(s)' /\ Asks(s)'
<1> DEFINE j == job[s]
<1>1. j \in Job /\ About(j) \subseteq Users /\ Holds(s) /\ Intact(s) /\ Asks(s)
  BY Typed, AboutUsers DEF AccountInv
<1>2. AllLost(s) => AllLost(s)'
  BY <1>1 DEF AllLost, Grows, Lost
<1>3. Holds(s)'
  BY <1>1 DEF Holds
<1>4. Intact(s)'
  <2>1. CASE j.driver = None
    BY <2>1 DEF Intact
  <2>2. CASE j.driver # None
    <3>1. PICK d \in DriverIds : j.driver = d
      BY <1>1, <2>2 DEF Job
    <3>2. drivers[d].state # "unused" /\ drivers[d].user \in Users
      BY <1>1, <2>2, <3>1, RowUsers DEF Holds
    <3>3. CASE drivers'[d] = drivers[d]
      BY <1>1, <1>2, <3>1, <3>2, <3>3 DEF Intact, Left, Lost, Grows
    <3>4. CASE drivers'[d] # drivers[d]
      BY <1>2, <3>1, <3>4 DEF Intact, Lost
    <3>5. QED
      BY <3>3, <3>4
  <2>3. QED
    BY <2>1, <2>2
<1>5. Asks(s)'
  <2>1. j.pc = "create.save" => j.user \in About(j)
    BY <1>1, AccountConstants DEF Holds, About
  <2>2. j.pc \in UpdatePCs => j.row.user \in About(j)
    BY <1>1, AccountConstants DEF Holds, About
  <2>3. QED
    BY <1>1, <2>1, <2>2 DEF Asks, Lost, Grows
<1>6. QED
  BY <1>3, <1>4, <1>5

(* A driver left alone still agrees with its account, if the account is    *)
(* left alone or is lost and so are the calls about it.                    *)
LEMMA OtherPair ==
  ASSUME AccountInv, Grows, NEW d \in DriverIds, drivers'[d] = drivers[d],
         \A u \in Users : u = drivers[d].user =>
           \/ disturbed'[u] = "anything"
           \/ /\ accounts'[u] = accounts[u]
              /\ \A s \in Requests : Calling(s) /\ job[s].user = u =>
                   Calling(s)' /\ job'[s].user = u
  PROVE  Pair(d)'
<1> SUFFICES ASSUME drivers'[d].state # "unused", disturbed'[drivers'[d].user] # "anything",
                    ~Agree(d)'
             PROVE  \E r \in Requests : Calling(r)' /\ job'[r].user = drivers'[d].user
  BY DEF Pair, Lost
<1>1. PICK u \in Users : u = drivers[d].user
  BY RowUsers
<1>2. /\ accounts'[u] = accounts[u]
      /\ \A s \in Requests : Calling(s) /\ job[s].user = u => Calling(s)' /\ job'[s].user = u
  BY <1>1
<1>3. ~Lost(u) /\ ~Agree(d)
  BY <1>1, <1>2 DEF Grows, Lost, Agree
<1>4. PICK r \in Requests : Calling(r) /\ job[r].user = u
  BY <1>1, <1>3 DEF AccountInv, Pair
<1>5. QED
  BY <1>1, <1>2, <1>4


-----------------------------------------------------------------------------
(* Steps that leave drivers and accounts as they are.                      *)

LEMMA AccountInit ==
  ASSUME Init
  PROVE  AccountInv
<1>1. TypeOK
  BY IdleTyped DEF Init, TypeOK, Driver, NoDriver, UserStatus, Causes
<1>2. \A r \in Requests : job[r] = Idle
  BY DEF Init
<1>3. \A r \in Requests : Holds(r) /\ Intact(r) /\ Asks(r)
  BY <1>2, IdleTyped DEF Holds, Intact, Asks, UpdatePCs
<1>4. Known
  BY <1>2, IdleTyped DEF Known, AllLost
<1>5. \A d \in DriverIds : Pair(d)
  BY DEF Init, Pair, NoDriver
<1>6. QED
  BY <1>1, <1>3, <1>4, <1>5 DEF AccountInv, Init

(* An idle slot holds nothing. *)
LEMMA IdleSlot ==
  ASSUME NEW r \in Requests, job'[r] = Idle
  PROVE  Holds(r)' /\ Intact(r)' /\ Asks(r)'
BY IdleTyped DEF Holds, Intact, Asks, UpdatePCs

LEMMA StillStep ==
  ASSUME AccountInv, Grows, NEW r \in Requests, NEW next \in Job,
         job' = [job EXCEPT ![r] = next],
         About(next) \subseteq About(job[r]), next.driver \in {job[r].driver, None},
         drivers' = drivers, accounts' = accounts, disturbed' \in [Users -> Causes],
         late' \subseteq Users \X UserStatus,
         \A u \in Users, s \in UserStatus :
           <<u, s>> \in late' => <<u, s>> \in late \/ disturbed'[u] = "anything",
         Holds(r)' /\ Intact(r)' /\ Asks(r)',
         Calling(r) => \A d \in DriverIds : drivers[d].user = job[r].user => Pair(d)'
  PROVE  AccountInv'
<1>1. /\ job' \in [Requests -> Job] /\ job'[r] = next
      /\ \A s \in Requests \ {r} : job'[s] = job[s]
      /\ Known'
  BY SlotStep
<1>2. TypeOK'
  BY <1>1 DEF AccountInv, TypeOK
<1>3. \A s \in Requests : Holds(s)' /\ Intact(s)' /\ Asks(s)'
  BY <1>1, OtherSlot
<1>4. \A u \in Users, s \in UserStatus : <<u, s>> \in late' => disturbed'[u] = "anything"
  BY DEF AccountInv, Grows, Lost
<1>5. ASSUME NEW d \in DriverIds
      PROVE  Pair(d)'
  <2>1. CASE Calling(r) /\ drivers[d].user = job[r].user
    BY <2>1
  <2>2. CASE ~(Calling(r) /\ drivers[d].user = job[r].user)
    <3>1. \A s \in Requests : Calling(s) /\ job[s].user = drivers[d].user =>
                                Calling(s)' /\ job'[s].user = drivers[d].user
      BY <1>1, <2>2 DEF Calling
    <3>2. QED
      BY <3>1, OtherPair
  <2>3. QED
    BY <2>1, <2>2
<1>6. QED
  BY <1>1, <1>2, <1>3, <1>4, <1>5 DEF AccountInv, Lost

LEMMA UnchangedGrows ==
  ASSUME disturbed' = disturbed
  PROVE  Grows
BY DEF Grows, Lost

LEMMA AccountAskNewUser ==
  ASSUME AccountInv, NEW r \in Requests, AskNewUser(r)
  PROVE  AccountInv'
<1> DEFINE j == job[r]
<1> DEFINE next == IF accounts[j.row.user] = "ACTIVE" THEN [j EXCEPT !.pc = "update.load"]
                   ELSE Idle
<1>1. j \in Job /\ j.pc = "update.ask" /\ Holds(r) /\ Intact(r) /\ Asks(r)
  BY Typed DEF AccountInv, AskNewUser
<1>2. /\ next \in Job /\ next.driver \in {j.driver, None} /\ About(next) \subseteq About(j)
  BY <1>1, IdleTyped DEF Job, PCs, About
<1>3. job' = [job EXCEPT ![r] = next] /\ job'[r] = next
  <2>1. job' = [job EXCEPT ![r] = next]
    BY Typed DEF AskNewUser, Goto, Done
  <2>2. QED
    BY <2>1, Typed
<1>4. Holds(r)' /\ Intact(r)' /\ Asks(r)'
  <2>1. CASE accounts[j.row.user] = "ACTIVE"
    <3>1. next = [j EXCEPT !.pc = "update.load"]
      BY <2>1
    <3>2. /\ next.pc = "update.load" /\ next.driver = j.driver /\ next.user = j.user
          /\ next.row = j.row /\ About(next) = About(j)
      BY <1>1, <3>1 DEF Job, About
    <3>3. UNCHANGED <<drivers, accounts, disturbed>>
      BY DEF AskNewUser
    <3>4. Holds(r)'
      BY <1>1, <1>3, <3>2, <3>3 DEF Holds, UpdatePCs
    <3>5. Intact(r)'
      BY <1>1, <1>3, <3>2, <3>3 DEF Intact, Left, UpdatePCs, AllLost, Lost
    <3>6. Asks(r)'
      BY <1>1, <1>3, <3>2, <3>3, <2>1 DEF Asks, UpdatePCs, Lost
    <3>7. QED
      BY <3>4, <3>5, <3>6
  <2>2. CASE accounts[j.row.user] # "ACTIVE"
    BY <2>2, <1>3, IdleSlot
  <2>3. QED
    BY <2>1, <2>2
<1>5. ~Calling(r)
  BY <1>1 DEF Calling
<1>6. Grows
  BY UnchangedGrows DEF AskNewUser
<1> HIDE DEF next
<1>7. QED
  BY <1>2, <1>3, <1>4, <1>5, <1>6, StillStep, Typed DEF AskNewUser

LEMMA AccountLoadForSave ==
  ASSUME AccountInv, NEW r \in Requests, LoadForSave(r)
  PROVE  AccountInv'
<1> DEFINE j == job[r]
<1>1. j \in Job /\ j.pc = "update.load" /\ Holds(r) /\ Intact(r) /\ Asks(r)
  BY Typed DEF AccountInv, LoadForSave
<1>2. PICK columns \in SUBSET {"state", "user"} :
        job' = [job EXCEPT ![r].pc = "update.write", ![r].columns = columns]
  BY DEF LoadForSave
<1> DEFINE next == [j EXCEPT !.pc = "update.write", !.columns = columns]
<1>3. /\ next \in Job /\ next.pc = "update.write" /\ next.driver = j.driver
      /\ next.user = j.user /\ next.row = j.row /\ About(next) = About(j)
  BY <1>1 DEF Job, PCs, About
<1>4. job' = [job EXCEPT ![r] = next] /\ job'[r] = next
  BY <1>2, Typed
<1> HIDE DEF next
<1>5. UNCHANGED <<drivers, accounts, disturbed, late>>
  BY DEF LoadForSave
<1>6. Holds(r)'
  BY <1>1, <1>3, <1>4, <1>5 DEF Holds, UpdatePCs
<1>7. Intact(r)'
  BY <1>1, <1>3, <1>4, <1>5 DEF Intact, Left, UpdatePCs, AllLost, Lost
<1>8. Asks(r)'
  BY <1>1, <1>3, <1>4, <1>5 DEF Asks, UpdatePCs, Lost
<1>9. ~Calling(r) /\ Grows
  BY <1>1, <1>5, UnchangedGrows DEF Calling
<1>10. QED
  BY <1>3, <1>4, <1>5, <1>6, <1>7, <1>8, <1>9, StillStep, Typed

LEMMA AccountRefuse ==
  ASSUME AccountInv, NEW r \in Requests, Refuse(r)
  PROVE  AccountInv'
<1>1. job' = [job EXCEPT ![r] = Idle] /\ job'[r] = Idle
  BY Typed DEF Refuse, Done
<1>2. Holds(r)' /\ Intact(r)' /\ Asks(r)' /\ ~Calling(r) /\ Grows
  BY <1>1, IdleSlot, UnchangedGrows DEF Refuse, Calling
<1>3. QED
  BY <1>1, <1>2, IdleTyped, StillStep, Typed DEF Refuse


-----------------------------------------------------------------------------
(* Calls to users-srv.                                                     *)

LEMMA Disturbing ==
  ASSUME AccountInv, NEW us, disturbed' = Disturb(us)
  PROVE  /\ Grows /\ disturbed' \in [Users -> Causes]
         /\ \A u \in Users : u \in us => Lost(u)'
BY Typed DEF Grows, Lost, Disturb, Causes

(* A handler that calls users-srv about an account that is not lost has    *)
(* left the driver of that account as it says.                             *)
LEMMA CalledDriver ==
  ASSUME AccountInv, NEW r \in Requests, Calling(r), ~Lost(job[r].user)
  PROVE  \A d \in DriverIds : drivers[d].user = job[r].user =>
           drivers[d].state = IF job[r].pc = "remove.account" THEN "deleted" ELSE "live"
<1> DEFINE j == job[r]
<1>1. j \in Job /\ Holds(r) /\ Intact(r)
  BY Typed DEF AccountInv
<1>2. PICK e \in DriverIds : j.driver = e
  BY <1>1 DEF Holds, Calling
<1>3. j.driver # None /\ j.user \in About(j)
  BY <1>1, <1>2, AccountConstants DEF Holds, Calling, About
<1>4. drivers[e].user = j.user /\ drivers[e].state = Left(j)
  BY <1>1, <1>2, <1>3 DEF Intact, AllLost
<1>5. \A d \in DriverIds : drivers[d].user = j.user => d = e
  BY <1>1, <1>2, <1>4, RowUsers DEF Holds, Calling
<1>6. Left(j) = IF j.pc = "remove.account" THEN "deleted" ELSE "live"
  BY DEF Left, UpdatePCs, Calling
<1>7. QED
  BY <1>4, <1>5, <1>6

LEMMA AccountAccountCallFails ==
  ASSUME AccountInv, NEW r \in Requests, AccountCallFails(r)
  PROVE  AccountInv'
<1> DEFINE u == job[r].user
<1>1. job' = [job EXCEPT ![r] = Idle] /\ job'[r] = Idle
  BY Typed DEF AccountCallFails, Done
<1>2. u \in Users /\ disturbed \in [Users -> Causes]
  BY Typed DEF AccountInv, Holds, AccountCallFails, Calling
<1>3. CASE Asked(r) = "INACTIVE" /\ ~Lost(u)
  <2>1. disturbed' = [disturbed EXCEPT ![u] = "left"]
    BY <1>3 DEF AccountCallFails, Lost
  <2>2. Grows /\ disturbed' \in [Users -> Causes]
    BY <1>2, <1>3, <2>1 DEF Grows, Lost, Causes
  <2>3. ASSUME NEW d \in DriverIds, drivers[d].user = u
        PROVE  Pair(d)'
    <3>1. drivers[d].state = "deleted"
      BY <1>3, <2>3, CalledDriver DEF AccountCallFails, Asked
    <3>2. drivers' = drivers /\ disturbed'[u] = "left"
      BY <1>2, <2>1 DEF AccountCallFails
    <3>3. Agree(d)'
      BY <2>3, <3>1, <3>2 DEF Agree
    <3>4. QED
      BY <3>3 DEF Pair
  <2>4. QED
    BY <1>1, <2>2, <2>3, IdleTyped, IdleSlot, StillStep, Typed DEF AccountCallFails
<1>4. CASE ~(Asked(r) = "INACTIVE" /\ ~Lost(u))
  <2>1. disturbed' = Disturb({u})
    BY <1>4 DEF AccountCallFails, Lost
  <2>2. Grows /\ disturbed' \in [Users -> Causes] /\ disturbed'[u] = "anything"
    BY <1>2, <2>1, Disturbing DEF Lost
  <2>3. \A d \in DriverIds : drivers[d].user = u => Pair(d)'
    BY <1>2, <2>2 DEF Pair, Lost, AccountCallFails
  <2>4. QED
    BY <1>1, <2>2, <2>3, IdleTyped, IdleSlot, StillStep, Typed DEF AccountCallFails
<1>5. QED
  BY <1>3, <1>4

LEMMA AccountAccountCallTimesOut ==
  ASSUME AccountInv, NEW r \in Requests, AccountCallTimesOut(r)
  PROVE  AccountInv'
<1> DEFINE u == job[r].user
<1>1. job' = [job EXCEPT ![r] = Idle] /\ job'[r] = Idle
  BY Typed DEF AccountCallTimesOut, Done
<1>2. u \in Users
  BY DEF AccountInv, Holds, AccountCallTimesOut, Calling
<1>3. disturbed' = Disturb({u})
  BY DEF AccountCallTimesOut
<1>4. Grows /\ disturbed' \in [Users -> Causes] /\ disturbed'[u] = "anything"
  BY <1>2, <1>3, Disturbing DEF Lost
<1>5. \A d \in DriverIds : drivers[d].user = u => Pair(d)'
  BY <1>4 DEF Pair, Lost, AccountCallTimesOut
<1>6. late' = late \cup {<<u, Asked(r)>>} /\ Asked(r) \in UserStatus
  BY DEF AccountCallTimesOut, Asked, UserStatus
<1>7. /\ late' \subseteq Users \X UserStatus
      /\ \A v \in Users, s \in UserStatus :
           <<v, s>> \in late' => <<v, s>> \in late \/ disturbed'[v] = "anything"
  BY <1>2, <1>4, <1>6, Typed
<1>8. drivers' = drivers /\ accounts' = accounts
  BY DEF AccountCallTimesOut
<1>9. QED
  BY <1>1, <1>4, <1>5, <1>7, <1>8, IdleTyped, IdleSlot, StillStep

(* The administrator, or a call that users-srv was late to carry out,      *)
(* changes a lost account.                                                 *)
LEMMA LostAccountStep ==
  ASSUME AccountInv, Grows, NEW u \in Users, NEW s \in UserStatus, Lost(u)',
         accounts' = [accounts EXCEPT ![u] = s], disturbed' \in [Users -> Causes],
         late' \subseteq late, UNCHANGED <<drivers, job>>
  PROVE  AccountInv'
<1>1. TypeOK'
  BY DEF AccountInv, TypeOK
<1>2. \A v \in Users : accounts'[v] = accounts[v] \/ disturbed'[v] = "anything"
  BY Typed DEF Lost
<1>3. ASSUME NEW r \in Requests
      PROVE  Holds(r)' /\ Intact(r)' /\ Asks(r)'
  <2>1. About(job[r]) \subseteq Users
    BY Typed, AboutUsers
  <2>2. QED
    BY <1>2, <2>1, OtherSlot
<1>4. \A d \in DriverIds : Pair(d)'
  BY <1>2, OtherPair DEF Calling
<1>5. Known'
  <2>1. \A r \in Requests : About(job[r]) \subseteq Users
    BY Typed, AboutUsers
  <2>2. QED
    BY <2>1 DEF AccountInv, Known, AllLost, Lost, Grows
<1>6. \A v \in Users, t \in UserStatus : <<v, t>> \in late' => Lost(v)'
  BY DEF AccountInv, Grows
<1>7. QED
  BY <1>1, <1>3, <1>4, <1>5, <1>6 DEF AccountInv

LEMMA AccountLateCall ==
  ASSUME AccountInv, NEW u \in Users, NEW s \in UserStatus, LateCall(u, s)
  PROVE  AccountInv'
<1>1. Grows
  BY UnchangedGrows DEF LateCall
<1>2. Lost(u)'
  BY DEF AccountInv, LateCall, Lost
<1>3. QED
  BY <1>1, <1>2, LostAccountStep, Typed DEF LateCall

LEMMA AccountSetAccount ==
  ASSUME AccountInv, NEW u \in Users, NEW s \in UserStatus, SetAccount(u, s)
  PROVE  AccountInv'
<1>1. disturbed' = Disturb({u})
  BY DEF SetAccount
<1>2. Grows /\ disturbed' \in [Users -> Causes] /\ Lost(u)'
  BY <1>1, Disturbing
<1>3. QED
  BY <1>2, LostAccountStep DEF SetAccount


(* users-srv does what the handler asked.  Another handler at work on the  *)
(* account has met this one.                                               *)
LEMMA AccountChangeAccount ==
  ASSUME AccountInv, NEW r \in Requests, ChangeAccount(r)
  PROVE  AccountInv'
<1>1. PICK u \in Users : u = job[r].user
  BY Typed DEF AccountInv, Holds, ChangeAccount, Calling
<1>2. PICK status \in UserStatus : status = Asked(r)
  BY DEF Asked, UserStatus
<1>3. /\ accounts' = [accounts EXCEPT ![u] = status] /\ job' = [job EXCEPT ![r] = Idle]
      /\ UNCHANGED <<drivers, late, disturbed>> /\ Calling(r)
  BY <1>1, <1>2 DEF ChangeAccount, Done
<1>4. Grows /\ u \in About(job[r])
  BY <1>1, <1>3, UnchangedGrows, AccountConstants DEF About
<1>5. /\ job' \in [Requests -> Job] /\ job'[r] = Idle
      /\ \A s \in Requests \ {r} : job'[s] = job[s]
      /\ Known'
  BY <1>3, <1>4, IdleTyped, SlotStep
<1>6. TypeOK'
  BY <1>3, <1>5 DEF AccountInv, TypeOK
<1>7. \A v \in Users : v # u => accounts'[v] = accounts[v]
  BY <1>3, Typed
<1>8. ASSUME NEW s \in Requests \ {r}
      PROVE  Holds(s)' /\ Intact(s)' /\ Asks(s)'
  <2>1. About(job[s]) \subseteq Users
    BY Typed, AboutUsers
  <2>2. u \in About(job[s]) => Lost(u)
    BY <1>4 DEF AccountInv, Known, Meet, AllLost
  <2>3. \A v \in About(job[s]) : accounts'[v] = accounts[v] \/ disturbed'[v] = "anything"
    BY <1>3, <1>7, <2>1, <2>2 DEF Lost
  <2>4. QED
    BY <1>3, <1>4, <1>5, <2>3, OtherSlot
<1>9. ASSUME NEW d \in DriverIds
      PROVE  Pair(d)'
  <2>1. CASE drivers[d].user = u /\ ~Lost(u)
    <3>1. drivers[d].state = IF job[r].pc = "remove.account" THEN "deleted" ELSE "live"
      BY <1>1, <1>3, <2>1, CalledDriver
    <3>2. accounts'[u] = IF job[r].pc = "remove.account" THEN "INACTIVE" ELSE "ACTIVE"
      BY <1>2, <1>3, Typed DEF Asked
    <3>3. QED
      BY <1>3, <2>1, <3>1, <3>2 DEF Pair, Agree
  <2>2. CASE drivers[d].user = u /\ Lost(u)
    BY <1>3, <2>2 DEF Pair, Lost
  <2>3. CASE drivers[d].user # u
    BY <1>1, <1>3, <1>4, <1>5, <1>7, <2>3, OtherPair DEF Calling
  <2>4. QED
    BY <2>1, <2>2, <2>3
<1>10. QED
  BY <1>3, <1>5, <1>6, <1>8, <1>9, IdleSlot DEF AccountInv, Lost

-----------------------------------------------------------------------------
(* Writes to the drivers table.                                            *)

(* Two handlers at work on a driver have met. *)
LEMMA SameDriver ==
  ASSUME AccountInv, NEW r \in Requests, NEW s \in Requests, r # s,
         NEW e \in DriverIds, job[r].driver = e, job[s].driver = e
  PROVE  AllLost(r) /\ AllLost(s) /\ Lost(drivers[e].user)
<1>1. Meet(job[r], job[s]) /\ Meet(job[s], job[r]) /\ e # None
  BY AccountConstants DEF Meet
<1>2. AllLost(r) /\ AllLost(s)
  BY <1>1 DEF AccountInv, Known
<1>3. job[r].user \in About(job[r])
  BY <1>1, AccountConstants DEF AccountInv, Holds, About
<1>4. QED
  BY <1>1, <1>2, <1>3 DEF AccountInv, Intact, AllLost

(* A handler writes a row: what has to be said of the row. *)
LEMMA RowStep ==
  ASSUME AccountInv, NEW r \in Requests, NEW next \in Job, ~Calling(r),
         job' = [job EXCEPT ![r] = next],
         About(next) \subseteq About(job[r]), next.driver \in {job[r].driver, None},
         UNCHANGED <<accounts, late, disturbed>>,
         NEW e \in DriverIds, NEW row \in Driver, drivers' = [drivers EXCEPT ![e] = row],
         row.state # "unused", row.user \in Users,
         \A d \in DriverIds \ {e} : drivers[d].user # row.user,
         \A s \in Requests \ {r} : job[s].driver = e => AllLost(s) /\ Lost(row.user),
         Holds(r)' /\ Intact(r)' /\ Asks(r)', Pair(e)'
  PROVE  AccountInv'
<1>1. Grows
  BY UnchangedGrows
<1>2. /\ job' \in [Requests -> Job] /\ job'[r] = next
      /\ \A s \in Requests \ {r} : job'[s] = job[s]
      /\ Known'
  BY <1>1, SlotStep
<1>3. /\ drivers' \in [DriverIds -> Driver] /\ drivers'[e] = row
      /\ \A d \in DriverIds \ {e} : drivers'[d] = drivers[d]
  BY Typed
<1>4. TypeOK'
  <2>1. \A d \in DriverIds : drivers'[d].state # "unused" <=> drivers'[d].user # None
    BY <1>3, AccountConstants DEF AccountInv, TypeOK
  <2>2. \A d, f \in DriverIds :
          drivers'[d].user = drivers'[f].user => d = f \/ drivers'[d].user = None
    BY <1>3 DEF AccountInv, TypeOK
  <2>3. QED
    BY <1>2, <1>3, <2>1, <2>2 DEF AccountInv, TypeOK
<1>5. ASSUME NEW s \in Requests \ {r}
      PROVE  Holds(s)' /\ Intact(s)' /\ Asks(s)'
  BY <1>1, <1>2, <1>3, OtherSlot DEF Lost
<1>6. ASSUME NEW d \in DriverIds \ {e}
      PROVE  Pair(d)'
  BY <1>1, <1>2, <1>3, OtherPair DEF Calling
<1>7. QED
  BY <1>2, <1>4, <1>5, <1>6 DEF AccountInv, Lost

LEMMA AccountSaveNewDriver ==
  ASSUME AccountInv, NEW r \in Requests, SaveNewDriver(r)
  PROVE  AccountInv'
<1>1. PICK u \in Users : u = job[r].user
  BY DEF AccountInv, Holds, SaveNewDriver
<1>2. /\ job' = [job EXCEPT ![r] = Idle] /\ job'[r] = Idle
      /\ UNCHANGED <<accounts, late, disturbed>> /\ ~Calling(r)
  BY Typed DEF SaveNewDriver, Done, Calling
<1>3. CASE Taken(u)
  BY <1>1, <1>2, <1>3, IdleTyped, IdleSlot, UnchangedGrows, StillStep, Typed DEF SaveNewDriver
<1>4. CASE ~Taken(u)
  <2> DEFINE row == [state |-> "live", user |-> u]
  <2>1. PICK e \in DriverIds : drivers[e] = NoDriver /\ drivers' = [drivers EXCEPT ![e] = row]
    BY <1>1, <1>4 DEF SaveNewDriver
  <2>2. row \in Driver /\ row.state = "live" /\ row.user = u
    BY DEF Driver
  <2>3. drivers'[e] = row
    BY <2>1, Typed
  <2> HIDE DEF row
  <2>4. \A d \in DriverIds \ {e} : drivers[d].user # row.user
    BY <1>4, <2>2 DEF Taken
  <2>5. \A s \in Requests : job[s].driver # e
    BY <2>1, AccountConstants DEF AccountInv, Holds, NoDriver
  <2>6. Lost(u) \/ accounts[u] = "ACTIVE"
    BY <1>1 DEF AccountInv, Asks, SaveNewDriver
  <2>7. Pair(e)'
    BY <1>2, <2>2, <2>3, <2>6 DEF Pair, Agree, Lost
  <2>8. row.state # "unused" /\ row.user \in Users
    BY <2>2
  <2>9. QED
    BY <1>2, <2>1, <2>2, <2>4, <2>5, <2>7, <2>8, IdleTyped, IdleSlot, RowStep
<1>5. QED
  BY <1>3, <1>4

(* remove and undelete write the driver: from now on the call to users-srv *)
(* is what driver and account wait for.                                    *)
LEMMA HalfStep ==
  ASSUME AccountInv, NEW r \in Requests, NEW pc, NEW state,
         \/ job[r].pc = "remove.write" /\ pc = "remove.account" /\ state = "deleted"
         \/ job[r].pc = "undelete.write" /\ pc = "undelete.account" /\ state = "live",
         drivers' = [drivers EXCEPT ![job[r].driver].state = state],
         Goto(r, pc), UNCHANGED <<accounts, late, disturbed>>
  PROVE  AccountInv'
<1> DEFINE j == job[r]
           next == [j EXCEPT !.pc = pc]
<1>1. j \in Job /\ Holds(r) /\ Intact(r)
  BY Typed DEF AccountInv
<1>2. PICK e \in DriverIds : e = j.driver
  BY <1>1 DEF Holds
<1>3. /\ next \in Job /\ next.pc = pc /\ next.driver = e /\ next.user = j.user
      /\ About(next) = About(j)
  BY <1>1, <1>2 DEF Job, PCs, About
<1>4. job' = [job EXCEPT ![r] = next] /\ job'[r] = next
  BY Typed DEF Goto
<1> DEFINE row == [drivers[e] EXCEPT !.state = state]
<1>5. drivers[e] \in Driver /\ drivers[e].state # "unused" /\ drivers[e].user \in Users
  BY <1>1, <1>2, Typed, RowUsers DEF Holds
<1>6. row \in Driver /\ row.state = state /\ row.user = drivers[e].user /\ row.state # "unused"
  BY <1>5 DEF Driver
<1>7. drivers' = [drivers EXCEPT ![e] = row] /\ drivers'[e] = row
  BY <1>2, Typed
<1> HIDE DEF next, row
<1>8. \A d \in DriverIds \ {e} : drivers[d].user # row.user
  BY <1>5, <1>6, RowUsers
<1>9. \A s \in Requests \ {r} : job[s].driver = e => AllLost(s) /\ Lost(row.user)
  BY <1>2, <1>6, SameDriver
<1>10. \/ drivers[e].user = j.user
       \/ AllLost(r) /\ Lost(drivers[e].user)
  BY <1>1, <1>2, AccountConstants DEF Intact
<1>11. Holds(r)'
  BY <1>1, <1>2, <1>3, <1>4, <1>6, <1>7 DEF Holds, UpdatePCs
<1>12. Intact(r)'
  <2>1. Left(next) = state
    BY <1>3 DEF Left, UpdatePCs
  <2>2. QED
    BY <1>3, <1>4, <1>6, <1>7, <1>10, <2>1 DEF Intact, AllLost, Lost
<1>13. Asks(r)'
  BY <1>3, <1>4 DEF Asks, UpdatePCs
<1>14. Pair(e)'
  BY <1>3, <1>4, <1>6, <1>7, <1>10 DEF Pair, Lost, Calling
<1>15. ~Calling(r) /\ row.user \in Users
  BY <1>5, <1>6 DEF Calling
<1>16. QED
  BY <1>2, <1>3, <1>4, <1>6, <1>7, <1>8, <1>9, <1>11, <1>12, <1>13, <1>14, <1>15, RowStep

LEMMA AccountEraseDriver ==
  ASSUME AccountInv, NEW r \in Requests, EraseDriver(r)
  PROVE  AccountInv'
BY HalfStep DEF EraseDriver

LEMMA AccountRestoreDriver ==
  ASSUME AccountInv, NEW r \in Requests, RestoreDriver(r)
  PROVE  AccountInv'
BY HalfStep DEF RestoreDriver


(* update writes the columns it found to differ.  A driver that is not as  *)
(* it was read has been met, and its account is lost.                      *)
LEMMA AccountWriteDriver ==
  ASSUME AccountInv, NEW r \in Requests, WriteDriver(r)
  PROVE  AccountInv'
<1> DEFINE j == job[r]
<1>1. j \in Job /\ j.pc = "update.write" /\ Holds(r) /\ Intact(r) /\ Asks(r)
  BY Typed DEF AccountInv, WriteDriver
<1>2. PICK e \in DriverIds : e = j.driver
  BY <1>1 DEF Holds
<1>3. /\ job' = [job EXCEPT ![r] = Idle] /\ job'[r] = Idle
      /\ UNCHANGED <<accounts, late, disturbed>> /\ ~Calling(r)
  BY <1>1, Typed DEF WriteDriver, Done, Calling
<1>4. drivers[e] \in Driver /\ drivers[e].state # "unused" /\ drivers[e].user \in Users
  BY <1>1, <1>2, Typed, RowUsers DEF Holds
<1>5. /\ j.row \in Driver /\ j.row.state # "unused" /\ j.row.user \in Users
      /\ j.user \in About(j) /\ j.row.user \in About(j)
  BY <1>1, AccountConstants DEF Holds, UpdatePCs, Job, About
<1> DEFINE row == WrittenRow(r)
<1>6. row = [ state |-> IF "state" \in j.columns THEN j.row.state ELSE drivers[e].state,
              user  |-> IF "user" \in j.columns THEN j.row.user ELSE drivers[e].user ]
  BY <1>2 DEF WrittenRow
<1>7. /\ row \in Driver /\ row.state # "unused" /\ row.user \in Users
      /\ row.state \in {j.row.state, drivers[e].state}
      /\ row.user \in {j.row.user, drivers[e].user}
  BY <1>4, <1>5, <1>6 DEF Driver
<1> HIDE DEF row
<1>8. CASE \E d \in DriverIds \ {e} : drivers[d].user = row.user
  <2>1. UNCHANGED drivers
    BY <1>2, <1>8 DEF WriteDriver, row
  <2>2. QED
    BY <1>3, <2>1, IdleTyped, IdleSlot, UnchangedGrows, StillStep, Typed
<1>9. CASE \A d \in DriverIds \ {e} : drivers[d].user # row.user
  <2>1. drivers' = [drivers EXCEPT ![e] = row]
    BY <1>2, <1>9 DEF WriteDriver, row
  <2>2. drivers'[e] = row
    BY <2>1, Typed
  <2>3. \A s \in Requests \ {r} : job[s].driver = e => AllLost(s) /\ Lost(row.user)
    BY <1>2, <1>5, <1>7, SameDriver DEF AllLost
  <2>4. Pair(e)'
    <3>1. CASE Lost(row.user)
      BY <1>3, <2>2, <3>1 DEF Pair, Lost
    <3>2. CASE ~Lost(row.user)
      <4>1. drivers[e].user = j.user /\ drivers[e].state = j.row.state
        <5>1. ~(AllLost(r) /\ Lost(drivers[e].user))
          BY <1>5, <1>7, <3>2 DEF AllLost
        <5>2. e # None
          BY AccountConstants
        <5>3. QED
          BY <1>1, <1>2, <5>1, <5>2 DEF Intact, Left, UpdatePCs
      <4>2. row.state = drivers[e].state
        BY <1>7, <4>1
      <4>3. CASE row.user = drivers[e].user
        <5>1. ASSUME NEW s \in Requests, Calling(s), job[s].user = row.user
              PROVE  Calling(s)' /\ job'[s].user = row.user
          BY <1>3, <5>1, Typed DEF Calling
        <5>2. QED
          BY <1>3, <1>4, <2>2, <3>2, <4>2, <4>3, <5>1 DEF AccountInv, Pair, Agree, Lost
      <4>4. CASE row.user # drivers[e].user
        <5>1. row.user = j.row.user /\ row.user # j.user
          BY <1>7, <4>1, <4>4
        <5>2. j.row.state = "live" /\ accounts[row.user] = "ACTIVE"
          BY <1>1, <3>2, <5>1 DEF Asks, UpdatePCs
        <5>3. QED
          BY <1>3, <2>2, <4>1, <4>2, <5>2 DEF Pair, Agree
      <4>5. QED
        BY <4>3, <4>4
    <3>3. QED
      BY <3>1, <3>2
  <2>5. QED
    BY <1>3, <1>7, <1>9, <2>1, <2>3, <2>4, IdleTyped, IdleSlot, RowStep
<1>10. QED
  BY <1>8, <1>9

-----------------------------------------------------------------------------
(* A request arrives.                                                      *)

LEMMA Accepted ==
  ASSUME AccountInv, NEW r \in Requests, NEW j \in Job, NEW cause, Accept(r, j, cause)
  PROVE  /\ Grows /\ disturbed' \in [Users -> Causes]
         /\ \A u \in Users \cap cause : Lost(u)'
         /\ job' \in [Requests -> Job] /\ job'[r] = j
         /\ \A s \in Requests \ {r} : job'[s] = job[s]
         /\ UNCHANGED <<drivers, accounts, late>> /\ ~Calling(r)
         /\ Known'
<1> DEFINE others == {s \in Requests \ {r} : Meet(job[s], j)}
           met    == UNION {About(job[s]) : s \in others}
           us     == cause \cup IF others = {} THEN {} ELSE About(j) \cup met
<1>1. disturbed' = Disturb(us)
  BY DEF Accept
<1>2. Grows /\ disturbed' \in [Users -> Causes] /\ \A u \in Users : u \in us => Lost(u)'
  BY <1>1, Disturbing
<1>3. /\ job' \in [Requests -> Job] /\ job'[r] = j
      /\ \A s \in Requests \ {r} : job'[s] = job[s]
      /\ UNCHANGED <<drivers, accounts, late>> /\ ~Calling(r)
  BY Typed DEF Accept, Calling
<1>4. \A s \in Requests : About(job'[s]) \subseteq Users
  BY <1>3, AboutUsers
<1>5. ASSUME NEW a \in Requests, NEW b \in Requests, a # b, Meet(job'[a], job'[b])
      PROVE  \A u \in About(job'[a]) : disturbed'[u] = "anything"
  <2>1. CASE a # r /\ b # r
    BY <1>2, <1>3, <1>4, <1>5, <2>1 DEF AccountInv, Known, AllLost, Grows, Lost
  <2>2. CASE b = r
    <3>1. a \in others
      BY <1>3, <1>5, <2>2
    <3>2. About(job'[a]) \subseteq us
      BY <1>3, <1>5, <2>2, <3>1
    <3>3. QED
      BY <1>2, <1>4, <3>2 DEF Lost
  <2>3. CASE a = r
    <3>1. b \in others
      BY <1>3, <1>5, <2>3 DEF Meet
    <3>2. About(job'[a]) \subseteq us
      BY <1>3, <2>3, <3>1
    <3>3. QED
      BY <1>2, <1>4, <3>2 DEF Lost
  <2>4. QED
    BY <2>1, <2>2, <2>3
<1>6. Known'
  BY <1>5 DEF Known, AllLost, Lost
<1>7. QED
  BY <1>2, <1>3, <1>6

LEMMA AcceptStep ==
  ASSUME AccountInv, NEW r \in Requests, NEW j \in Job, NEW cause, Accept(r, j, cause),
         Holds(r)' /\ Intact(r)' /\ Asks(r)'
  PROVE  AccountInv'
<1>1. /\ Grows /\ disturbed' \in [Users -> Causes] /\ job' \in [Requests -> Job]
      /\ \A s \in Requests \ {r} : job'[s] = job[s]
      /\ UNCHANGED <<drivers, accounts, late>> /\ ~Calling(r)
      /\ Known'
  BY Accepted
<1>2. TypeOK'
  BY <1>1 DEF AccountInv, TypeOK
<1>3. \A s \in Requests \ {r} : Holds(s)' /\ Intact(s)' /\ Asks(s)'
  BY <1>1, OtherSlot
<1>4. \A d \in DriverIds : Pair(d)'
  BY <1>1, OtherPair DEF Calling
<1>5. QED
  BY <1>1, <1>2, <1>3, <1>4 DEF AccountInv, Grows

LEMMA AccountCreateDriver ==
  ASSUME AccountInv, NEW r \in Requests, NEW u \in Users, CreateDriver(r, u)
  PROVE  AccountInv'
<1> DEFINE j == [Idle EXCEPT !.pc = "create.save", !.user = u]
<1>1. j \in Job /\ j.pc = "create.save" /\ j.driver = None /\ j.user = u
  BY DEF Idle, Job, PCs, Driver, NoDriver
<1>2. Accept(r, j, {}) /\ accounts[u] = "ACTIVE"
  BY DEF CreateDriver
<1> HIDE DEF j
<1>3. job'[r] = j /\ accounts' = accounts
  BY <1>1, <1>2, Accepted
<1>4. Holds(r)' /\ Intact(r)' /\ Asks(r)'
  BY <1>1, <1>2, <1>3 DEF Holds, Intact, Asks, UpdatePCs
<1>5. QED
  BY <1>1, <1>2, <1>4, AcceptStep

LEMMA AccountUpdateDriver ==
  ASSUME AccountInv, NEW r \in Requests, NEW d \in DriverIds, NEW u \in Users \cup {None},
         UpdateDriver(r, d, u)
  PROVE  AccountInv'
<1> DEFINE given == IF u = None THEN drivers[d].user ELSE u
           cause == IF drivers[d].state = "deleted" THEN {u} ELSE {}
           j == [Idle EXCEPT !.pc = IF u = None THEN "update.load" ELSE "update.ask",
                             !.driver = d, !.user = drivers[d].user,
                             !.row = [drivers[d] EXCEPT !.user = IF u = None THEN @ ELSE u]]
<1>1. /\ drivers[d] \in Driver /\ drivers[d].state \in {"live", "deleted"}
      /\ drivers[d].user \in Users
  BY Typed, RowUsers DEF UpdateDriver
<1>2. /\ j \in Job /\ j.pc = IF u = None THEN "update.load" ELSE "update.ask"
      /\ j.driver = d /\ j.user = drivers[d].user
      /\ j.row.state = drivers[d].state /\ j.row.user = given
  BY <1>1 DEF Idle, Job, PCs, Driver, NoDriver
<1>3. Accept(r, j, cause)
  BY DEF UpdateDriver
<1> HIDE DEF j
<1>4. job'[r] = j /\ UNCHANGED <<drivers, accounts>> /\ \A v \in Users \cap cause : Lost(v)'
  BY <1>2, <1>3, Accepted
<1>5. d # None /\ given \in Users
  BY <1>1, AccountConstants
<1>6. Holds(r)'
  BY <1>1, <1>2, <1>4, <1>5 DEF Holds, UpdatePCs
<1>7. Intact(r)'
  BY <1>2, <1>4 DEF Intact, Left, UpdatePCs
<1>8. Asks(r)'
  <2>1. given # drivers[d].user => u \in Users /\ j.pc = "update.ask" /\ given = u
    BY <1>2
  <2>2. given # drivers[d].user /\ drivers[d].state = "deleted" => disturbed'[u] = "anything"
    BY <1>4, <2>1 DEF Lost
  <2>3. QED
    BY <1>1, <1>2, <1>4, <2>1, <2>2 DEF Asks, Lost
<1>9. QED
  BY <1>2, <1>3, <1>6, <1>7, <1>8, AcceptStep

LEMMA AccountRemoveDriver ==
  ASSUME AccountInv, NEW r \in Requests, NEW d \in DriverIds,
         RemoveDriver(r, d) \/ UndeleteDriver(r, d)
  PROVE  AccountInv'
<1> PICK pc \in {"remove.write", "undelete.write"} :
      /\ drivers[d].state = IF pc = "remove.write" THEN "live" ELSE "deleted"
      /\ Accept(r, [Idle EXCEPT !.pc = pc, !.driver = d, !.user = drivers[d].user], {})
  BY DEF RemoveDriver, UndeleteDriver
<1> DEFINE j == [Idle EXCEPT !.pc = pc, !.driver = d, !.user = drivers[d].user]
<1>1. drivers[d].state # "unused" /\ drivers[d].user \in Users /\ d # None
  BY RowUsers, AccountConstants
<1>2. j \in Job /\ j.pc = pc /\ j.driver = d /\ j.user = drivers[d].user
  BY <1>1 DEF Idle, Job, PCs, Driver, NoDriver
<1> HIDE DEF j
<1>3. Accept(r, j, {})
  BY DEF j
<1>4. job'[r] = j /\ drivers' = drivers
  BY <1>2, <1>3, Accepted
<1>5. Holds(r)' /\ Intact(r)' /\ Asks(r)'
  BY <1>1, <1>2, <1>4 DEF Holds, Intact, Asks, Left, UpdatePCs
<1>6. QED
  BY <1>2, <1>3, <1>5, AcceptStep

-----------------------------------------------------------------------------

LEMMA AccountStep ==
  ASSUME AccountInv, [Next]_vars
  PROVE  AccountInv'
<1>1. ASSUME NEW r \in Requests, Arrive(r)
      PROVE  AccountInv'
  BY <1>1, AccountCreateDriver, AccountUpdateDriver, AccountRemoveDriver DEF Arrive
<1>2. ASSUME NEW r \in Requests, Serve(r)
      PROVE  AccountInv'
  BY <1>2, AccountSaveNewDriver, AccountAskNewUser, AccountLoadForSave, AccountWriteDriver,
     AccountEraseDriver, AccountRestoreDriver, AccountChangeAccount, AccountAccountCallFails,
     AccountAccountCallTimesOut, AccountRefuse DEF Serve
<1>3. ASSUME UNCHANGED vars
      PROVE  AccountInv'
  <2>1. Grows /\ UNCHANGED <<drivers, accounts, late, disturbed, job>>
    BY <1>3, UnchangedGrows DEF vars
  <2>2. TypeOK' /\ Known'
    BY <2>1 DEF AccountInv, TypeOK, Known, AllLost, Lost
  <2>3. \A r \in Requests : Holds(r)' /\ Intact(r)' /\ Asks(r)'
    BY <2>1, OtherSlot
  <2>4. \A d \in DriverIds : Pair(d)'
    BY <2>1, OtherPair DEF Calling
  <2>5. QED
    BY <2>1, <2>2, <2>3, <2>4 DEF AccountInv, Lost
<1>4. QED
  BY <1>1, <1>2, <1>3, AccountLateCall, AccountSetAccount DEF Next

-----------------------------------------------------------------------------
(* Theorems.                                                               *)

(* Rows and requests keep their form, and no two drivers ever have the     *)
(* same account, whatever create and update do at the same time.           *)
THEOREM AccountTypes == Spec => []TypeOK
<1>1. AccountInv => TypeOK
  BY DEF AccountInv
<1>2. QED
  BY <1>1, AccountInit, AccountStep, PTL DEF Spec

(* A driver that is not called about agrees with its account. *)
LEMMA QuietAgrees ==
  ASSUME AccountInv, NEW d \in DriverIds, drivers[d].state # "unused",
         Quiet(drivers[d].user), ~Lost(drivers[d].user)
  PROVE  Agree(d)
<1>1. drivers[d].user # None
  BY RowUsers, AccountConstants
<1>2. \A r \in Requests : job[r].user # drivers[d].user
  BY <1>1 DEF Quiet, About
<1>3. QED
  BY <1>2 DEF AccountInv, Pair

(* A driver and its account agree between requests: a live driver has an   *)
(* ACTIVE account and a removed one an INACTIVE one, unless something that *)
(* explains the difference has happened to the account.                    *)
THEOREM DriversAgree == Spec => []PairAgrees
<1>1. ASSUME AccountInv, NEW d \in DriverIds, drivers[d].state # "unused",
             Quiet(drivers[d].user), disturbed[drivers[d].user] = "nothing"
      PROVE  drivers[d].state = "live" <=> accounts[drivers[d].user] = "ACTIVE"
  <2>1. Agree(d)
    BY <1>1, QuietAgrees DEF Lost
  <2>2. drivers[d].state \in {"live", "deleted"}
    BY <1>1, RowUsers
  <2>3. QED
    BY <1>1, <2>1, <2>2 DEF Agree
<1>2. AccountInv => PairAgrees
  BY <1>1 DEF PairAgrees
<1>3. QED
  BY <1>2, AccountInit, AccountStep, PTL DEF Spec

(* A refused second call of remove never leaves a driver in service whose  *)
(* account is closed.                                                      *)
THEOREM LiveDriversLogIn == Spec => []LiveDriverCanLogIn
<1>1. ASSUME AccountInv, NEW d \in DriverIds, drivers[d].state = "live",
             Quiet(drivers[d].user), disturbed[drivers[d].user] # "anything"
      PROVE  accounts[drivers[d].user] = "ACTIVE"
  BY <1>1, QuietAgrees DEF Lost, Agree
<1>2. AccountInv => LiveDriverCanLogIn
  BY <1>1 DEF LiveDriverCanLogIn
<1>3. QED
  BY <1>2, AccountInit, AccountStep, PTL DEF Spec

(* The rows a step writes: what brings a removed driver back. *)
LEMMA BackInService ==
  ASSUME AccountInv, [Next]_vars, NEW d \in DriverIds,
         drivers[d].state = "deleted", drivers'[d].state = "live"
  PROVE  \/ Lost(drivers[d].user)
         \/ \E r \in Requests :
              job[r].driver = d /\ job[r].pc = "undelete.write" /\ job'[r] # job[r]
<1>1. drivers' # drivers
  OBVIOUS
<1>2. PICK r \in Requests :
        SaveNewDriver(r) \/ WriteDriver(r) \/ EraseDriver(r) \/ RestoreDriver(r)
  <2>1. \A r \in Requests : Arrive(r) => drivers' = drivers
    <3>1. \A r, j, cause : Accept(r, j, cause) => drivers' = drivers
      BY DEF Accept
    <3>2. QED
      BY <3>1 DEF Arrive, CreateDriver, UpdateDriver, RemoveDriver, UndeleteDriver
  <2>2. \A r \in Requests :
          AskNewUser(r) \/ LoadForSave(r) \/ ChangeAccount(r) \/ AccountCallFails(r)
            \/ AccountCallTimesOut(r) \/ Refuse(r) => drivers' = drivers
    BY DEF AskNewUser, LoadForSave, ChangeAccount, AccountCallFails, AccountCallTimesOut, Refuse
  <2>3. \A u \in Users, s \in UserStatus : LateCall(u, s) \/ SetAccount(u, s) => drivers' = drivers
    BY DEF LateCall, SetAccount
  <2>4. QED
    BY <1>1, <2>1, <2>2, <2>3 DEF Next, vars, Serve
<1> DEFINE j == job[r]
<1>3. j \in Job /\ Holds(r) /\ Intact(r)
  BY Typed DEF AccountInv
<1>4. ASSUME SaveNewDriver(r)
      PROVE  FALSE
  <2>1. PICK e \in DriverIds :
          /\ drivers[e] = NoDriver
          /\ drivers' = [drivers EXCEPT ![e] = [state |-> "live", user |-> j.user]]
    BY <1>1, <1>4 DEF SaveNewDriver
  <2>2. d # e
    BY <2>1 DEF NoDriver
  <2>3. QED
    BY <2>1, <2>2, Typed
<1>5. ASSUME EraseDriver(r)
      PROVE  FALSE
  <2>1. drivers' = [drivers EXCEPT ![j.driver].state = "deleted"]
    BY <1>5 DEF EraseDriver
  <2>2. CASE d = j.driver
    BY <2>1, <2>2, Typed DEF Driver
  <2>3. CASE d # j.driver
    BY <2>1, <2>3, Typed
  <2>4. QED
    BY <2>2, <2>3
<1>6. ASSUME RestoreDriver(r)
      PROVE  j.driver = d /\ j.pc = "undelete.write" /\ job'[r] # job[r]
  <2>1. j.pc = "undelete.write" /\ drivers' = [drivers EXCEPT ![j.driver].state = "live"]
    BY <1>6 DEF RestoreDriver
  <2>2. d = j.driver
    BY <2>1, Typed
  <2>3. job'[r].pc = "undelete.account"
    BY <1>3, <1>6, Typed DEF RestoreDriver, Goto, Job
  <2>4. QED
    BY <2>1, <2>2, <2>3
<1>7. ASSUME WriteDriver(r)
      PROVE  Lost(drivers[d].user)
  <2>1. j.pc = "update.write" /\ drivers' = [drivers EXCEPT ![j.driver] = WrittenRow(r)]
    BY <1>1, <1>7 DEF WriteDriver
  <2>2. d = j.driver /\ drivers'[d] = WrittenRow(r)
    BY <2>1, Typed
  <2>3. WrittenRow(r).state \in {j.row.state, drivers[d].state}
    BY <2>2 DEF WrittenRow
  <2>4. drivers[d].state # Left(j) /\ d # None
    BY <2>1, <2>2, <2>3, AccountConstants DEF Left, UpdatePCs
  <2>5. QED
    BY <1>3, <2>2, <2>4 DEF Intact
<1>8. QED
  BY <1>2, <1>4, <1>5, <1>6, <1>7

(* Only undelete brings a removed driver back, unless requests on it or on *)
(* its account have overlapped: the whole-entity save of update does not.  *)
THEOREM RemovalsStand == Spec => RemovalStands
<1>1. ASSUME AccountInv, [Next]_vars
      PROVE  [ \A d \in DriverIds :
                 drivers[d].state = "deleted" /\ drivers'[d].state = "live" =>
                   \/ disturbed[drivers[d].user] = "anything"
                   \/ \E r \in Requests :
                        job[r].driver = d /\ job[r].pc = "undelete.write" /\ job'[r] # job[r] ]_vars
  BY <1>1, BackInService DEF Lost
<1>2. QED
  BY <1>1, AccountInit, AccountStep, PTL DEF Spec, RemovalStands

=============================================================================
