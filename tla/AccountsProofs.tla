--------------------------- MODULE AccountsProofs ---------------------------
(* Theorems of Accounts, for any browsers, names and number of rows. *)
EXTENDS Accounts, FiniteSetTheorems, TLAPS

USE AccountsAssumption
USE DEF server, tab, Ids, Goto

-----------------------------------------------------------------------------
(* Types                                                                   *)

LEMMA InitTyped == Init => TypeOK
<1> SUFFICES ASSUME Init PROVE TypeOK
    OBVIOUS
<1>1. list \in [Browsers -> [Ids -> {"none", "pending", "active", "disabled"}]]
  <2>1. [i \in Ids |-> "none"] \in [Ids -> {"none", "pending", "active", "disabled"}]
        OBVIOUS
  <2> QED BY <2>1 DEF Init
<1>2. page \in [Browsers -> Pages]
      BY DEF Init, Pages, LoginModes
<1>3. users \in [Ids -> UserRow \cup {NoUser}] /\ cfg \in [Ids -> {"none", "off", "on"}]
      BY DEF Init
<1>4. /\ cookie \in [Browsers -> Cookie \cup {NoSession}]
      /\ dialog \in [Browsers -> Ids \cup {0}]
      /\ req \in [Browsers -> Request \cup {NoReq}]
      BY DEF Init
<1> QED BY <1>1, <1>2, <1>3, <1>4 DEF Init, TypeOK

Statuses == {"none", "pending", "active", "disabled"}

LEMMA EmptyRow == NoUser.status = "none" /\ NoUser.role = "none"
BY DEF NoUser

LEMMA RowTyped ==
    ASSUME TypeOK, NEW i \in Ids
    PROVE  /\ users[i].status \in Statuses
           /\ i \in Rows => users[i] \in UserRow
           /\ users[i].status # "none" => i \in Rows
<1>1. users[i] \in UserRow \cup {NoUser}
      BY DEF TypeOK
<1>2. CASE users[i] \in UserRow
  <2>1. users[i].status \in {"pending", "active", "disabled"}
        BY <1>2 DEF UserRow
  <2>2. users[i] # NoUser
        BY <2>1, EmptyRow
  <2>3. users[i].status \in Statuses
        BY <2>1 DEF Statuses
  <2>4. i \in Rows
        BY <2>2 DEF Rows
  <2> QED BY <1>2, <2>3, <2>4
<1>3. CASE users[i] = NoUser
  <2>1. users[i].status = "none"
        BY <1>3, EmptyRow
  <2>2. users[i].status \in Statuses
        BY <2>1 DEF Statuses
  <2>3. i \notin Rows
        BY <1>3 DEF Rows
  <2> QED BY <2>1, <2>2, <2>3
<1> QED BY <1>1, <1>2, <1>3

LEMMA ListTyped == TypeOK => ListedNow \in [Ids -> Statuses]
BY RowTyped DEF ListedNow

\* The pages, the login form and the dialogs change no row.
LEMMA PagesTyped ==
    ASSUME TypeOK, NEW b \in Browsers, NEW i \in Ids,
           \/ LoadMode(b) \/ SwitchMode(b) \/ Expire(b) \/ Logout(b) \/ Visit(b)
           \/ ShowUsers(b) \/ CancelReject(b) \/ Login(b, i) \/ AskReject(b, i)
    PROVE  TypeOK' /\ UNCHANGED <<server, req>>
<1> USE DEF Pages, LoginModes
<1>0. UNCHANGED <<server, req>>
      BY DEF LoadMode, SwitchMode, Expire, Logout, Visit, ShowUsers, CancelReject,
             Login, AskReject
<1>1. page' \in [Browsers -> Pages]
  <2>1. ASSUME NEW mode \in Pages, Goto(b, mode) PROVE page' \in [Browsers -> Pages]
        BY <2>1 DEF TypeOK, Goto
  <2>2. CASE LoadMode(b) \/ SwitchMode(b)
        BY <2>1, <2>2 DEF LoadMode, SwitchMode
  <2>3. CASE Visit(b)
        BY <2>1, <2>3 DEF Visit
  <2>4. CASE Logout(b) \/ ShowUsers(b) \/ Login(b, i)
        BY <2>1, <2>4 DEF Logout, ShowUsers, Login
  <2>5. CASE UNCHANGED page
        BY <2>5 DEF TypeOK
  <2> QED BY <2>2, <2>3, <2>4, <2>5 DEF Expire, CancelReject, AskReject
<1>2. dialog' \in [Browsers -> Ids \cup {0}]
      BY DEF TypeOK, LoadMode, SwitchMode, Expire, Logout, Visit, ShowUsers,
             CancelReject, Login, AskReject
<1>3. cookie' \in [Browsers -> Cookie \cup {NoSession}]
  <2>1. CASE Login(b, i)
    <3>1. users[i] \in UserRow
          BY <2>1, RowTyped DEF Login, MayLogIn
    <3>2. [id |-> i, name |-> users[i].name] \in Cookie
          BY <3>1 DEF Cookie, UserRow
    <3> QED BY <2>1, <3>2 DEF TypeOK, Login
  <2>2. CASE Expire(b) \/ Logout(b)
        BY <2>2 DEF TypeOK, Expire, Logout
  <2>3. CASE UNCHANGED cookie
        BY <2>3 DEF TypeOK
  <2> QED BY <2>1, <2>2, <2>3 DEF LoadMode, SwitchMode, Visit, ShowUsers, CancelReject,
                                  AskReject
<1>4. list' \in [Browsers -> [Ids -> Statuses]]
  <2>1. list \in [Browsers -> [Ids -> Statuses]]
        BY DEF TypeOK, Statuses
  <2>2. CASE Visit(b)
    <3>1. [j \in Ids |-> "none"] \in [Ids -> Statuses]
          BY DEF Statuses
    <3> QED BY <2>1, <2>2, <3>1 DEF Visit
  <2>3. CASE ShowUsers(b)
        BY <2>1, <2>3, ListTyped DEF ShowUsers
  <2>4. CASE UNCHANGED list
        BY <2>1, <2>4
  <2> QED BY <2>2, <2>3, <2>4 DEF LoadMode, SwitchMode, Expire, Logout, CancelReject,
                                  Login, AskReject
<1> QED BY <1>0, <1>1, <1>2, <1>3, <1>4 DEF TypeOK, Statuses

LEMMA RegisterTyped ==
    ASSUME TypeOK, NEW b \in Browsers, NEW n \in Names, NEW i \in Ids, Register(b, n, i)
    PROVE  TypeOK'
<1>1. NewRow(n) \in UserRow
  <2>1. IsBootstrap \in BOOLEAN
        BY DEF IsBootstrap
  <2> QED BY <2>1 DEF NewRow, UserRow
<1>2. [id |-> i, name |-> n] \in Cookie
      BY DEF Cookie
<1>3. users' \in [Ids -> UserRow \cup {NoUser}]
      BY <1>1 DEF TypeOK, Register
<1>4. cookie' \in [Browsers -> Cookie \cup {NoSession}]
      BY <1>2 DEF TypeOK, Register, AfterSignup
<1>5. page' \in [Browsers -> Pages]
      BY DEF TypeOK, Register, AfterSignup, Pages, LoginModes
<1> QED BY <1>3, <1>4, <1>5 DEF TypeOK, Register

LEMMA SendTyped ==
    ASSUME TypeOK, NEW b \in Browsers, NEW i \in Ids,
           NEW op \in UserOps \cup {"switch"}, Send(b, op, i)
    PROVE  TypeOK'
<1>1. [op |-> op, id |-> i, who |-> cookie[b].id, stage |-> "sent"] \in Request
      BY DEF TypeOK, Send, Cookie, NoSession, Request
<1> QED BY <1>1 DEF TypeOK, Send

\* A request that is being served is one, and its guard let it through.
LEMMA ServedRequest ==
    ASSUME TypeOK, NEW b \in Browsers, req[b].stage # "none"
    PROVE  req[b] \in Request /\ req[b].id \in Ids /\ req[b].who \in Ids
BY DEF TypeOK, NoReq, Request

LEMMA ReadTyped ==
    ASSUME TypeOK, NEW b \in Browsers, Read(b) PROVE TypeOK'
<1>1. [req[b] EXCEPT !.stage = "read"] \in Request
      BY ServedRequest DEF Read, Request
<1> QED BY <1>1 DEF TypeOK, Read

\* What a commit does to the row of its request.
LEMMA CommitCases ==
    ASSUME TypeOK, NEW b \in Browsers, Commit(b)
    PROVE  \/ UNCHANGED server
           \/ req[b].op = "disable" /\ req[b].id \in Rows /\ DisableUser(req[b].id)
           \/ req[b].op = "reject" /\ cfg[req[b].id] = "none" /\ RejectUser(req[b].id)
           \/ req[b].op = "switch" /\ req[b].id \in Rows /\ TurnOn(req[b].id)
           \/ /\ req[b].op \in {"approve", "enable"} /\ req[b].id \in Rows
              /\ ActivateUser(req[b].id, req[b].op = "approve")
<1> DEFINE r == req[b]
<1>1. r \in Request
      BY ServedRequest DEF Commit
<1>2. CASE Commits(r)
  <2>1. CASE r.op = "disable" BY <1>2, <2>1 DEF Commit, Commits
  <2>2. CASE r.op = "reject"  BY <1>2, <2>2 DEF Commit, Commits
  <2>3. CASE r.op = "switch"  BY <1>2, <2>3 DEF Commit, Commits
  <2>4. CASE r.op \in {"approve", "enable"} BY <1>2, <2>4 DEF Commit, Commits
  <2> QED BY <1>1, <2>1, <2>2, <2>3, <2>4 DEF Request, UserOps
<1>3. CASE ~Commits(r)
      BY <1>3 DEF Commit
<1> QED BY <1>2, <1>3

LEMMA CommitTyped ==
    ASSUME TypeOK, NEW b \in Browsers, Commit(b) PROVE TypeOK'
<1> DEFINE r == req[b]
<1>1. r \in Request /\ r.id \in Ids
      BY ServedRequest DEF Commit
<1>2. /\ users' \in [Ids -> UserRow \cup {NoUser}]
      /\ cfg' \in [Ids -> {"none", "off", "on"}]
      /\ lostRace' \in BOOLEAN /\ revived' \subseteq Ids
  <2>1. CASE UNCHANGED server
        BY <2>1 DEF TypeOK
  <2>2. CASE r.id \in Rows /\ DisableUser(r.id)
    <3> DEFINE new == [users[r.id] EXCEPT !.status = "disabled"]
    <3>1. users[r.id] \in UserRow
          BY <1>1, <2>2, RowTyped
    <3>2. new \in UserRow
          BY <3>1 DEF UserRow
    <3>3. users' = [users EXCEPT ![r.id] = new]
          BY <2>2 DEF DisableUser
    <3> HIDE DEF new
    <3>4. users' \in [Ids -> UserRow \cup {NoUser}]
          BY <1>1, <3>2, <3>3 DEF TypeOK
    <3>5. cfg' \in [Ids -> {"none", "off", "on"}]
          BY <1>1, <2>2 DEF TypeOK, DisableUser
    <3> QED BY <2>2, <3>4, <3>5 DEF TypeOK, DisableUser
  <2>3. CASE RejectUser(r.id)
    <3>1. users' \in [Ids -> UserRow \cup {NoUser}]
          BY <1>1, <2>3 DEF TypeOK, RejectUser
    <3>2. lostRace \in BOOLEAN
          BY DEF TypeOK
    <3> QED BY <2>3, <3>1, <3>2 DEF TypeOK, RejectUser
  <2>4. CASE TurnOn(r.id)
        BY <1>1, <2>4 DEF TypeOK, TurnOn
  <2>5. CASE r.id \in Rows /\ ActivateUser(r.id, r.op = "approve")
    <3>1. users[r.id] \in UserRow
          BY <1>1, <2>5, RowTyped
    <3> DEFINE approved == users[r.id].approved \/ r.op = "approve"
               new == [users[r.id] EXCEPT !.status = "active", !.approved = approved]
    <3>2. approved \in BOOLEAN
          OBVIOUS
    <3>3. new \in UserRow
          BY <3>1, <3>2 DEF UserRow
    <3>4. users' = [users EXCEPT ![r.id] = new] /\ UNCHANGED <<cfg, lostRace, revived>>
          BY <2>5 DEF ActivateUser
    <3> HIDE DEF new
    <3> QED BY <1>1, <3>3, <3>4 DEF TypeOK
  <2> QED BY <2>1, <2>2, <2>3, <2>4, <2>5, CommitCases
<1>3. [j \in Ids |-> users'[j].status] \in [Ids -> Statuses]
  <2> SUFFICES ASSUME NEW j \in Ids PROVE users'[j].status \in Statuses
      OBVIOUS
  <2>1. users'[j] \in UserRow \/ users'[j] = NoUser
        BY <1>2
  <2>2. users'[j] \in UserRow => users'[j].status \in {"pending", "active", "disabled"}
        BY DEF UserRow
  <2>3. users'[j] = NoUser => users'[j].status = "none"
        BY EmptyRow
  <2> QED BY <2>1, <2>2, <2>3 DEF Statuses
<1>4. list' \in [Browsers -> [Ids -> Statuses]]
      BY <1>3 DEF TypeOK, Commit, Answered, Statuses
<1>5. req' \in [Browsers -> Request \cup {NoReq}] /\ dialog' \in [Browsers -> Ids \cup {0}]
      BY DEF TypeOK, Commit, Answered
<1> QED BY <1>2, <1>4, <1>5 DEF TypeOK, Commit, Statuses

LEMMA NextTyped == TypeOK /\ [Next]_vars => TypeOK'
<1> SUFFICES ASSUME TypeOK, [Next]_vars PROVE TypeOK'
    OBVIOUS
<1>1. CASE UNCHANGED vars
      BY <1>1 DEF TypeOK, vars
<1>2. ASSUME NEW i \in Ids, PollingEnds(i) PROVE TypeOK'
      BY <1>2 DEF TypeOK, PollingEnds
<1>3. ASSUME NEW b \in Browsers, NEW i \in Ids,
             SwitchOn(b, i) \/ \E op \in UserOps : RunAction(b, op, i)
      PROVE  TypeOK'
      BY <1>3, SendTyped DEF SwitchOn, RunAction
<1>4. ASSUME NEW b \in Browsers, Read(b) \/ Commit(b) PROVE TypeOK'
      BY <1>4, ReadTyped, CommitTyped
<1>5. ASSUME NEW b \in Browsers, NEW i \in Ids, NEW n \in Names, Register(b, n, i)
      PROVE  TypeOK'
      BY <1>5, RegisterTyped
<1>6. 1 \in Ids
      OBVIOUS
<1>7. ASSUME NEW b \in Browsers, NEW i \in Ids,
             \/ LoadMode(b) \/ SwitchMode(b) \/ Expire(b) \/ Logout(b) \/ Visit(b)
             \/ ShowUsers(b) \/ CancelReject(b) \/ Login(b, i) \/ AskReject(b, i)
      PROVE  TypeOK'
      BY <1>7, PagesTyped
<1> QED
  <2>1. CASE \E b \in Browsers : \/ LoadMode(b) \/ SwitchMode(b) \/ Expire(b) \/ Logout(b)
                                 \/ Visit(b) \/ ShowUsers(b) \/ CancelReject(b)
        BY <2>1, <1>6, <1>7
  <2>2. CASE \E b \in Browsers : Read(b) \/ Commit(b)
        BY <2>2, <1>4
  <2>3. CASE \E b \in Browsers, i \in Ids :
                \/ \E n \in Names : Register(b, n, i)
                \/ Login(b, i) \/ AskReject(b, i) \/ SwitchOn(b, i)
                \/ \E op \in UserOps : RunAction(b, op, i)
        BY <2>3, <1>3, <1>5, <1>7
  <2> QED BY <1>1, <1>2, <2>1, <2>2, <2>3 DEF Next

\* Every variable keeps its type.
THEOREM TypeCorrect == Spec => []TypeOK
<1> QED BY InitTyped, NextTyped, PTL DEF Spec

-----------------------------------------------------------------------------
(* There is one admin and it stays                                         *)

\* The requests that a handler has let through leave the admin alone, and
\* nobody has a session or a request before the first signup.
Managed ==
    /\ AdminRemains
    /\ Rows = {} => \A b \in Browsers : cookie[b] = NoSession /\ req[b] = NoReq
    /\ \A b \in Browsers : req[b].stage = "read" /\ req[b].op \in UserOps
                             => users[req[b].id].role # "admin"

LEMMA InitManaged == Init => Managed
<1> SUFFICES ASSUME Init PROVE Managed
    OBVIOUS
<1>1. Rows = {}
      BY DEF Init, Rows
<1>2. \A b \in Browsers : cookie[b] = NoSession /\ req[b] = NoReq
      BY DEF Init
<1>3. NoReq.stage # "read"
      BY DEF NoReq
<1> QED BY <1>1, <1>2, <1>3 DEF Managed, AdminRemains

\* With a single admin, the guards of the four handlers admit no request for
\* its row: it is active and it is the last one.
LEMMA AdminNotAllowed ==
    ASSUME TypeOK, AdminRemains, NEW r \in Request, r.op \in UserOps, Allowed(r)
    PROVE  users[r.id].role # "admin"
<1> SUFFICES ASSUME users[r.id].role = "admin" PROVE FALSE
    OBVIOUS
<1>1. r.id \in Rows /\ r.id \in Ids
      BY DEF Allowed, Rows
<1>2. PICK i \in ActiveAdmins : \A j \in Rows : users[j].role = "admin" => j = i
      BY <1>1 DEF AdminRemains
<1>3. ActiveAdmins = {i}
  <2>1. ASSUME NEW j \in ActiveAdmins PROVE j = i
    <3>1. j \in Ids /\ users[j].status = "active" /\ users[j].role = "admin"
          BY <2>1 DEF ActiveAdmins, Admin
    <3>2. j \in Rows
          BY <3>1, RowTyped
    <3> QED BY <1>2, <3>1, <3>2
  <2> QED BY <1>2, <2>1
<1>4. r.id = i /\ users[r.id].status = "active" /\ Admin(r.id)
      BY <1>1, <1>2 DEF ActiveAdmins, Admin
<1>5. Cardinality(ActiveAdmins) = 1
      BY <1>3, FS_Singleton
<1>6. ~Disposable(r.id)
      BY <1>4, <1>5 DEF Disposable
<1> QED BY <1>4, <1>6 DEF Allowed, UserOps

\* A step that takes no role, no row of an admin and no active state from the
\* admin keeps it.
LEMMA AdminKept ==
    ASSUME TypeOK, AdminRemains, Rows # {}, TypeOK',
           \A j \in Ids : users[j].role = "admin" => users'[j] = users[j],
           \A j \in Ids : users'[j].role = "admin" => users[j].role = "admin"
    PROVE  AdminRemains' /\ Rows' # {}
<1>1. PICK i \in ActiveAdmins : \A j \in Rows : users[j].role = "admin" => j = i
      BY DEF AdminRemains
<1>2. i \in Ids /\ users[i].role = "admin" /\ users[i].status = "active"
      BY DEF ActiveAdmins, Admin
<1>3. users'[i] = users[i]
      BY <1>2
<1>4. i \in ActiveAdmins'
      BY <1>2, <1>3 DEF ActiveAdmins, Admin
<1>5. i \in Rows'
      BY <1>2, <1>3, EmptyRow DEF Rows
<1>6. ASSUME NEW j \in Rows', users'[j].role = "admin" PROVE j = i
  <2>1. j \in Ids /\ users[j].role = "admin"
        BY <1>6 DEF Rows
  <2>2. j \in Rows
        BY <2>1, EmptyRow DEF Rows
  <2> QED BY <1>1, <2>1, <2>2
<1> QED BY <1>4, <1>5, <1>6 DEF AdminRemains

\* The first signup makes the admin, the later ones do not.
LEMMA RegisterManaged ==
    ASSUME TypeOK, Managed, NEW b \in Browsers, NEW n \in Names, NEW i \in Ids,
           Register(b, n, i), TypeOK'
    PROVE  Managed'
<1> USE DEF Register
<1>1. i \notin Rows /\ users[i] = NoUser
      BY DEF IsNextId, Rows
<1>2. users'[i] = NewRow(n) /\ \A j \in Ids : j # i => users'[j] = users[j]
      BY DEF TypeOK
<1>3. req' = req
      OBVIOUS
<1>4. i \in Rows'
  <2>1. NewRow(n).status # "none"
        BY DEF NewRow
  <2> QED BY <1>2, <2>1, EmptyRow DEF Rows
<1>5. CASE Rows = {}
  <2>1. NewRow(n).role = "admin" /\ NewRow(n).status = "active"
        BY <1>5 DEF NewRow, IsBootstrap
  <2>2. i \in ActiveAdmins'
        BY <1>2, <2>1 DEF ActiveAdmins, Admin
  <2>3. \A j \in Rows' : j = i
        BY <1>2, <1>5 DEF Rows
  <2>4. AdminRemains'
        BY <2>2, <2>3 DEF AdminRemains
  <2>5. \A c \in Browsers : req'[c].stage # "read"
        BY <1>3, <1>5 DEF Managed, NoReq
  <2> QED BY <1>4, <2>4, <2>5 DEF Managed
<1>6. CASE Rows # {}
  <2>1. NewRow(n).role = "user"
        BY <1>6 DEF NewRow, IsBootstrap
  <2>2. \A j \in Ids : users[j].role = "admin" => users'[j] = users[j]
        BY <1>1, <1>2, EmptyRow
  <2>3. \A j \in Ids : users'[j].role = "admin" => users[j].role = "admin"
        BY <1>2, <2>1
  <2>4. AdminRemains'
        BY <1>6, <2>2, <2>3, AdminKept DEF Managed
  <2>5. ASSUME NEW c \in Browsers, req'[c].stage = "read", req'[c].op \in UserOps
        PROVE  users'[req'[c].id].role # "admin"
    <3>1. req[c].id \in Ids
          BY <1>3, <2>5, ServedRequest
    <3> QED BY <1>3, <2>3, <2>5, <3>1 DEF Managed
  <2> QED BY <1>4, <2>4, <2>5 DEF Managed
<1> QED BY <1>5, <1>6

\* A commit lands on a row that was not the admin's when its guard read it and
\* has not become so.
LEMMA CommitManaged ==
    ASSUME TypeOK, Managed, NEW b \in Browsers, Commit(b), TypeOK'
    PROVE  Managed'
<1> DEFINE r == req[b]
<1>1. r \in Request /\ r.id \in Ids /\ r.stage = "read"
      BY ServedRequest DEF Commit
<1>2. Rows # {}
      BY <1>1 DEF Managed, NoReq
<1>3. ASSUME NEW j \in Ids, j # r.id PROVE users'[j] = users[j]
  <2>1. CASE UNCHANGED server \/ TurnOn(r.id)
        BY <2>1 DEF TurnOn
  <2>2. CASE RejectUser(r.id)
        BY <1>1, <1>3, <2>2 DEF TypeOK, RejectUser
  <2>3. CASE DisableUser(r.id)
        BY <1>1, <1>3, <2>3 DEF TypeOK, DisableUser
  <2>4. CASE ActivateUser(r.id, r.op = "approve")
        BY <1>1, <1>3, <2>4 DEF TypeOK, ActivateUser
  <2> QED BY <2>1, <2>2, <2>3, <2>4, CommitCases
<1>4. users'[r.id] = users[r.id]
      \/ /\ users[r.id].role # "admin"
         /\ users'[r.id].role # "admin"
  <2>1. CASE UNCHANGED server \/ TurnOn(r.id)
        BY <2>1 DEF TurnOn
  <2>2. CASE r.op \in UserOps /\ RejectUser(r.id)
        BY <1>1, <2>2, EmptyRow DEF TypeOK, RejectUser, Managed
  <2>3. CASE r.op \in UserOps /\ r.id \in Rows /\ DisableUser(r.id)
    <3>1. users[r.id] \in UserRow
          BY <1>1, <2>3, RowTyped
    <3> QED BY <1>1, <2>3, <3>1 DEF TypeOK, DisableUser, Managed, UserRow
  <2>4. CASE r.op \in UserOps /\ r.id \in Rows /\ ActivateUser(r.id, r.op = "approve")
    <3>1. users[r.id] \in UserRow
          BY <1>1, <2>4, RowTyped
    <3> QED BY <1>1, <2>4, <3>1 DEF TypeOK, ActivateUser, Managed, UserRow
  <2> QED BY <2>1, <2>2, <2>3, <2>4, CommitCases DEF UserOps
<1>5. \A j \in Ids : users[j].role = "admin" => users'[j] = users[j]
      BY <1>3, <1>4
<1>6. \A j \in Ids : users'[j].role = "admin" => users[j].role = "admin"
      BY <1>3, <1>4
<1>7. AdminRemains' /\ Rows' # {}
      BY <1>2, <1>5, <1>6, AdminKept DEF Managed
<1>8. ASSUME NEW c \in Browsers, req'[c].stage = "read", req'[c].op \in UserOps
      PROVE  users'[req'[c].id].role # "admin"
  <2>1. c # b /\ req'[c] = req[c]
        BY <1>8 DEF TypeOK, Commit, NoReq
  <2>2. req[c].id \in Ids
        BY <1>8, <2>1, ServedRequest
  <2> QED BY <1>6, <1>8, <2>1, <2>2 DEF Managed
<1> QED BY <1>7, <1>8 DEF Managed

\* The pages give a session only to an account that exists.
LEMMA PagesManaged ==
    ASSUME TypeOK, Managed, NEW b \in Browsers, NEW i \in Ids,
           \/ LoadMode(b) \/ SwitchMode(b) \/ Expire(b) \/ Logout(b) \/ Visit(b)
           \/ ShowUsers(b) \/ CancelReject(b) \/ Login(b, i) \/ AskReject(b, i)
    PROVE  Managed'
<1>1. users' = users /\ req' = req /\ Rows' = Rows
      BY PagesTyped DEF Rows
<1>2. AdminRemains'
      BY <1>1 DEF Managed, AdminRemains, ActiveAdmins, Admin
<1>3. ASSUME Rows' = {}, NEW c \in Browsers
      PROVE  cookie'[c] = NoSession /\ req'[c] = NoReq
  <2>1. ~Login(b, i)
        BY <1>1, <1>3, RowTyped DEF Login, MayLogIn
  <2>2. cookie[c] = NoSession /\ req[c] = NoReq
        BY <1>1, <1>3 DEF Managed
  <2>3. cookie' = cookie \/ cookie' = [cookie EXCEPT ![b] = NoSession]
        BY <2>1 DEF LoadMode, SwitchMode, Expire, Logout, Visit, ShowUsers, CancelReject,
                    AskReject
  <2> QED BY <1>1, <2>2, <2>3 DEF TypeOK
<1> QED BY <1>1, <1>2, <1>3 DEF Managed

LEMMA NextManaged == TypeOK /\ Managed /\ TypeOK' /\ [Next]_vars => Managed'
<1> SUFFICES ASSUME TypeOK, Managed, TypeOK', [Next]_vars PROVE Managed'
    OBVIOUS
<1> USE DEF Managed, AdminRemains, ActiveAdmins, Admin, Rows
<1>1. CASE UNCHANGED vars
      BY <1>1 DEF vars
<1>2. ASSUME NEW i \in Ids, PollingEnds(i) PROVE Managed'
      BY <1>2 DEF PollingEnds
<1>3. ASSUME NEW b \in Browsers, NEW i \in Ids,
             SwitchOn(b, i) \/ \E op \in UserOps : RunAction(b, op, i)
      PROVE  Managed'
  <2>1. PICK op : Send(b, op, i)
        BY <1>3 DEF SwitchOn, RunAction
  <2>2. users' = users /\ Rows # {}
        BY <2>1 DEF Send
  <2>3. \A c \in Browsers : req'[c].stage = "read" => req'[c] = req[c]
        BY <2>1 DEF TypeOK, Send
  <2> QED BY <2>2, <2>3
<1>4. ASSUME NEW b \in Browsers, Read(b) PROVE Managed'
  <2>1. req[b] \in Request
        BY <1>4, ServedRequest DEF Read
  <2>2. users' = users /\ cookie' = cookie /\ Rows # {}
        BY <1>4 DEF Read, NoReq
  <2>3. ASSUME NEW c \in Browsers, req'[c].stage = "read", req'[c].op \in UserOps
        PROVE  users[req'[c].id].role # "admin"
    <3>1. CASE c = b
      <4>1. Allowed(req[b]) /\ req'[b] = [req[b] EXCEPT !.stage = "read"]
            BY <1>4, <2>3, <3>1 DEF TypeOK, Read, NoReq
      <4>2. req'[b].op = req[b].op /\ req'[b].id = req[b].id
            BY <2>1, <4>1 DEF Request
      <4> QED BY <2>1, <2>3, <3>1, <4>1, <4>2, AdminNotAllowed
    <3>2. CASE c # b
          BY <1>4, <2>3, <3>2 DEF TypeOK, Read
    <3> QED BY <3>1, <3>2
  <2> QED BY <2>2, <2>3
<1>5. ASSUME NEW b \in Browsers, Commit(b) PROVE Managed'
      BY <1>5, CommitManaged
<1>6. ASSUME NEW b \in Browsers, NEW i \in Ids, NEW n \in Names, Register(b, n, i)
      PROVE  Managed'
      BY <1>6, RegisterManaged
<1>7. 1 \in Ids
      OBVIOUS
<1>8. ASSUME NEW b \in Browsers, NEW i \in Ids,
             \/ LoadMode(b) \/ SwitchMode(b) \/ Expire(b) \/ Logout(b) \/ Visit(b)
             \/ ShowUsers(b) \/ CancelReject(b) \/ Login(b, i) \/ AskReject(b, i)
      PROVE  Managed'
      BY <1>8, PagesManaged
<1> QED
  <2> HIDE DEF Managed, Ids
  <2>1. CASE \E b \in Browsers : \/ LoadMode(b) \/ SwitchMode(b) \/ Expire(b) \/ Logout(b)
                                 \/ Visit(b) \/ ShowUsers(b) \/ CancelReject(b)
        BY <2>1, <1>7, <1>8
  <2>2. CASE \E b \in Browsers : Read(b) \/ Commit(b)
        BY <2>2, <1>4, <1>5
  <2>3. CASE \E b \in Browsers, i \in Ids :
                \/ \E n \in Names : Register(b, n, i)
                \/ Login(b, i) \/ AskReject(b, i) \/ SwitchOn(b, i)
                \/ \E op \in UserOps : RunAction(b, op, i)
        BY <2>3, <1>3, <1>6, <1>8
  <2> QED BY <1>1, <1>2, <2>1, <2>2, <2>3 DEF Next

\* From the first signup on there is exactly one admin and it is active.
THEOREM AdminAlwaysRemains == Spec => []AdminRemains
<1>1. Init => TypeOK /\ Managed
      BY InitTyped, InitManaged
<1>2. TypeOK /\ Managed /\ [Next]_vars => (TypeOK /\ Managed)'
      BY NextTyped, NextManaged
<1>3. Managed => AdminRemains
      BY DEF Managed
<1> QED BY <1>1, <1>2, <1>3, PTL DEF Spec

-----------------------------------------------------------------------------
(* Sessions                                                                *)

\* Who has a session has been approved once: the row is not one that a reject
\* deletes, unless the reject lost the race.
Owned ==
    ~lostRace => \A b \in Browsers : cookie[b] # NoSession =>
        /\ users[cookie[b].id].name = cookie[b].name
        /\ users[cookie[b].id].status \in {"active", "disabled"}

\* What a step does to a row that has left "pending": it keeps its name and
\* does not become pending again, unless a reject that lost the race deletes it.
LEMMA SettledRow ==
    ASSUME TypeOK, [Next]_vars, ~lostRace', NEW i \in Ids,
           users[i].status \in {"active", "disabled"}
    PROVE  /\ users'[i].name = users[i].name
           /\ users'[i].status \in {"active", "disabled"}
           /\ users[i].approved => users'[i].approved
<1>1. users[i] \in UserRow /\ i \in Rows
      BY RowTyped
<1>2. CASE users' = users
      BY <1>2
<1>3. ASSUME NEW b \in Browsers, NEW n \in Names, NEW j \in Ids, Register(b, n, j)
      PROVE  users'[i] = users[i]
      BY <1>1, <1>3 DEF TypeOK, Register, IsNextId
<1>4. ASSUME NEW b \in Browsers, Commit(b)
      PROVE  /\ users'[i].name = users[i].name
             /\ users'[i].status \in {"active", "disabled"}
             /\ users[i].approved => users'[i].approved
  <2> DEFINE r == req[b]
  <2>1. r.id \in Ids
        BY <1>4, ServedRequest DEF Commit
  <2>2. CASE UNCHANGED server \/ TurnOn(r.id)
        BY <2>2 DEF TurnOn
  <2>3. CASE DisableUser(r.id)
        BY <1>1, <2>1, <2>3 DEF TypeOK, DisableUser, UserRow
  <2>4. CASE RejectUser(r.id)
        BY <2>1, <2>4 DEF TypeOK, RejectUser
  <2>5. CASE ActivateUser(r.id, r.op = "approve")
        BY <1>1, <2>1, <2>5 DEF TypeOK, ActivateUser, UserRow
  <2> QED BY <1>4, <2>2, <2>3, <2>4, <2>5, CommitCases
<1>5. \/ users' = users
      \/ \E b \in Browsers : Commit(b)
      \/ \E b \in Browsers, n \in Names, j \in Ids : Register(b, n, j)
      BY DEF Next, vars, LoadMode, SwitchMode, Expire, Logout, Visit, ShowUsers,
             CancelReject, Read, Login, AskReject, SwitchOn, RunAction, Send, PollingEnds
<1> QED BY <1>2, <1>3, <1>4, <1>5

LEMMA RaceRemembered ==
    ASSUME TypeOK, [Next]_vars, ~lostRace' PROVE ~lostRace
<1>1. ASSUME NEW b \in Browsers, Commit(b) PROVE ~lostRace
      BY <1>1, CommitCases DEF DisableUser, RejectUser, TurnOn, ActivateUser
<1>2. lostRace' = lostRace \/ \E b \in Browsers : Commit(b)
      BY DEF Next, vars, LoadMode, SwitchMode, Expire, Logout, Visit, ShowUsers, Register,
             CancelReject, Read, Login, AskReject, SwitchOn, RunAction, Send, PollingEnds
<1> QED BY <1>1, <1>2

\* A new session is that of an active account, under the account's name.
LEMMA NewSession ==
    ASSUME TypeOK, TypeOK', [Next]_vars, NEW b \in Browsers, cookie'[b] # NoSession,
           cookie'[b] # cookie[b]
    PROVE  /\ users'[cookie'[b].id].name = cookie'[b].name
           /\ users'[cookie'[b].id].status \in {"active", "disabled"}
<1>1. ASSUME NEW c \in Browsers, NEW i \in Ids, Login(c, i), cookie'[b] # cookie[b]
      PROVE  /\ users'[cookie'[b].id].name = cookie'[b].name
             /\ users'[cookie'[b].id].status \in {"active", "disabled"}
      BY <1>1 DEF TypeOK, Login, MayLogIn
<1>2. ASSUME NEW c \in Browsers, NEW n \in Names, NEW i \in Ids, Register(c, n, i),
             cookie'[b] # cookie[b]
      PROVE  /\ users'[cookie'[b].id].name = cookie'[b].name
             /\ users'[cookie'[b].id].status \in {"active", "disabled"}
  <2>1. IsBootstrap /\ cookie'[b] = [id |-> i, name |-> n]
        BY <1>2 DEF TypeOK, Register, AfterSignup
  <2>2. users'[i] = NewRow(n)
        BY <1>2 DEF TypeOK, Register
  <2>3. NewRow(n).name = n /\ NewRow(n).status = "active"
        BY <2>1 DEF NewRow
  <2> QED BY <2>1, <2>2, <2>3
<1>3. \/ cookie' = cookie
      \/ \E c \in Browsers : cookie' = [cookie EXCEPT ![c] = NoSession]
      \/ \E c \in Browsers, i \in Ids : Login(c, i)
      \/ \E c \in Browsers, n \in Names, i \in Ids : Register(c, n, i)
      BY DEF Next, vars, LoadMode, SwitchMode, Expire, Logout, Visit, ShowUsers, CancelReject,
             Read, Commit, AskReject, SwitchOn, RunAction, Send, PollingEnds
<1> QED BY <1>1, <1>2, <1>3 DEF TypeOK

LEMMA NextOwned == TypeOK /\ Owned /\ TypeOK' /\ [Next]_vars => Owned'
<1> SUFFICES ASSUME TypeOK, Owned, TypeOK', [Next]_vars, ~lostRace',
                    NEW b \in Browsers, cookie'[b] # NoSession
             PROVE  /\ users'[cookie'[b].id].name = cookie'[b].name
                    /\ users'[cookie'[b].id].status \in {"active", "disabled"}
    BY DEF Owned
<1>1. CASE cookie'[b] # cookie[b]
      BY <1>1, NewSession
<1>2. CASE cookie'[b] = cookie[b]
  <2>1. cookie[b] \in Cookie /\ cookie[b].id \in Ids
        BY <1>2 DEF TypeOK, Cookie
  <2>2. /\ users[cookie[b].id].name = cookie[b].name
        /\ users[cookie[b].id].status \in {"active", "disabled"}
        BY <1>2, RaceRemembered DEF Owned
  <2> QED BY <1>2, <2>1, <2>2, SettledRow
<1> QED BY <1>1, <1>2

\* A session cookie denotes the account that logged in with it.
THEOREM CookiesDenoteTheirOwners == Spec => []CookieIsItsOwner
<1>1. Init => TypeOK /\ Owned
      BY InitTyped DEF Init, Owned
<1>2. TypeOK /\ Owned /\ [Next]_vars => (TypeOK /\ Owned)'
      BY NextTyped, NextOwned
<1>3. Owned => CookieIsItsOwner
      BY DEF Owned, CookieIsItsOwner
<1> QED BY <1>1, <1>2, <1>3, PTL DEF Spec

-----------------------------------------------------------------------------
(* Approval                                                                *)

Settled(i) == users[i].status \in {"active", "disabled"} /\ users[i].approved

\* Whatever a list shows as active or disabled, and whatever row a request to
\* disable or enable is for, was approved and still is there.
AllApproved ==
    ~lostRace =>
        /\ \A i \in Ids : users[i].status \in {"active", "disabled"} => users[i].approved
        /\ \A b \in Browsers, i \in Ids : list[b][i] \in {"active", "disabled"} => Settled(i)
        /\ \A b \in Browsers : req[b].op \in {"disable", "enable"} => Settled(req[b].id)

LEMMA InitAllApproved == Init => AllApproved
<1> SUFFICES ASSUME Init PROVE AllApproved
    OBVIOUS
<1>1. \A i \in Ids : users[i].status = "none"
      BY EmptyRow DEF Init
<1>2. \A b \in Browsers, i \in Ids : list[b][i] = "none"
      BY DEF Init
<1>3. \A b \in Browsers : req[b].op = "none"
      BY DEF Init, NoReq
<1> QED BY <1>1, <1>2, <1>3 DEF AllApproved

\* A row that becomes active or disabled is the first one, one that is being
\* approved, or one that a request to disable or enable is for.
LEMMA RowsApproved ==
    ASSUME TypeOK, AllApproved, TypeOK', [Next]_vars, ~lostRace', NEW i \in Ids,
           users'[i].status \in {"active", "disabled"}
    PROVE  users'[i].approved
<1>1. CASE users[i].status \in {"active", "disabled"}
      BY <1>1, SettledRow, RaceRemembered DEF AllApproved
<1>2. CASE users[i].status \notin {"active", "disabled"}
  <2>1. ASSUME NEW b \in Browsers, NEW n \in Names, NEW j \in Ids, Register(b, n, j)
        PROVE  users'[i].approved
    <3>1. j = i /\ users'[i] = NewRow(n)
          BY <1>2, <2>1 DEF TypeOK, Register
    <3>2. IsBootstrap
          BY <3>1 DEF NewRow
    <3> QED BY <3>1, <3>2 DEF NewRow
  <2>2. ASSUME NEW b \in Browsers, Commit(b) PROVE users'[i].approved
    <3> DEFINE r == req[b]
    <3>1. r.id \in Ids
          BY <2>2, ServedRequest DEF Commit
    <3>2. r.op \notin {"disable", "enable"} \/ r.id # i
          BY <1>2, RaceRemembered DEF AllApproved, Settled
    <3>3. CASE UNCHANGED server \/ TurnOn(r.id)
          BY <1>2, <3>3 DEF TurnOn
    <3>4. CASE r.op = "disable" /\ DisableUser(r.id)
          BY <1>2, <3>1, <3>2, <3>4 DEF TypeOK, DisableUser
    <3>5. CASE RejectUser(r.id)
          BY <1>2, <3>1, <3>5, EmptyRow DEF TypeOK, RejectUser
    <3>6. CASE r.op \in {"approve", "enable"} /\ r.id \in Rows
               /\ ActivateUser(r.id, r.op = "approve")
      <4>1. users[r.id] \in UserRow
            BY <3>1, <3>6, RowTyped
      <4> QED BY <1>2, <3>1, <3>2, <3>6, <4>1 DEF TypeOK, ActivateUser, UserRow
    <3> QED BY <2>2, <3>3, <3>4, <3>5, <3>6, CommitCases
  <2>3. \/ users' = users
        \/ \E b \in Browsers : Commit(b)
        \/ \E b \in Browsers, n \in Names, j \in Ids : Register(b, n, j)
        BY DEF Next, vars, LoadMode, SwitchMode, Expire, Logout, Visit, ShowUsers,
               CancelReject, Read, Login, AskReject, SwitchOn, RunAction, Send, PollingEnds
  <2> QED BY <1>2, <2>1, <2>2, <2>3
<1> QED BY <1>1, <1>2

\* A list changes to nothing at all or to the statuses of the rows.
LEMMA ListsFollowRows ==
    ASSUME TypeOK, TypeOK', [Next]_vars, NEW b \in Browsers, NEW i \in Ids,
           list'[b][i] # list[b][i]
    PROVE  list'[b][i] \in {"none", users'[i].status}
<1>1. ASSUME NEW c \in Browsers, Commit(c)
      PROVE  list' = list \/ list' = [list EXCEPT ![c] = [j \in Ids |-> users'[j].status]]
      BY <1>1 DEF Commit, Answered
<1>2. ASSUME NEW c \in Browsers, ShowUsers(c)
      PROVE  list' = [list EXCEPT ![c] = [j \in Ids |-> users'[j].status]]
      BY <1>2 DEF ShowUsers, ListedNow
<1>3. \/ list' = list
      \/ \E c \in Browsers : list' = [list EXCEPT ![c] = [j \in Ids |-> "none"]]
      \/ \E c \in Browsers : Commit(c) \/ ShowUsers(c)
      BY DEF Next, vars, LoadMode, SwitchMode, Expire, Logout, Visit, CancelReject, Register,
             Read, Login, AskReject, SwitchOn, RunAction, Send, PollingEnds
<1>4. ASSUME NEW c \in Browsers, NEW f, list' = [list EXCEPT ![c] = f]
      PROVE  list'[b][i] = f[i]
      BY <1>4 DEF TypeOK
<1> QED BY <1>1, <1>2, <1>3, <1>4

\* A new request to disable or enable comes from a button of the list.
LEMMA RequestsFollowLists ==
    ASSUME TypeOK, TypeOK', [Next]_vars, NEW b \in Browsers,
           req'[b].op \in {"disable", "enable"}
    PROVE  /\ req'[b].id \in Ids
           /\ \/ req[b].op = req'[b].op /\ req[b].id = req'[b].id
              \/ list[b][req'[b].id] \in {"active", "disabled"}
<1>0. req'[b] \in Request
      BY DEF TypeOK, NoReq
<1>1. ASSUME NEW c \in Browsers, Read(c)
      PROVE  req[b].op = req'[b].op /\ req[b].id = req'[b].id
  <2>1. req[c] \in Request
        BY <1>1, ServedRequest DEF Read
  <2>2. CASE c = b
    <3>1. req'[b] = [req[b] EXCEPT !.stage = "read"]
          BY <1>1, <2>2 DEF TypeOK, Read, NoReq
    <3> QED BY <2>1, <2>2, <3>1 DEF Request
  <2>3. CASE c # b
        BY <1>1, <2>3 DEF TypeOK, Read
  <2> QED BY <2>2, <2>3
<1>2. ASSUME NEW c \in Browsers, NEW op \in UserOps \cup {"switch"}, NEW i \in Ids,
             Send(c, op, i), op \in {"disable", "enable"} => list[c][i] \in {"active", "disabled"}
      PROVE  \/ req[b].op = req'[b].op /\ req[b].id = req'[b].id
             \/ list[b][req'[b].id] \in {"active", "disabled"}
  <2>1. CASE c = b
    <3>1. req'[b] = [op |-> op, id |-> i, who |-> cookie[b].id, stage |-> "sent"]
          BY <1>2, <2>1 DEF TypeOK, Send
    <3> QED BY <1>2, <2>1, <3>1
  <2>2. CASE c # b
        BY <1>2, <2>2 DEF TypeOK, Send
  <2> QED BY <2>1, <2>2
<1>3. ASSUME NEW c \in Browsers, Commit(c) PROVE req'[b] = req[b]
      BY <1>3 DEF TypeOK, Commit, NoReq
<1>4. ASSUME NEW c \in Browsers, NEW i \in Ids, NEW op \in UserOps, RunAction(c, op, i)
      PROVE  Send(c, op, i) /\ (op \in {"disable", "enable"} => list[c][i] \in {"active", "disabled"})
      BY <1>4 DEF RunAction, Offered
<1>5. ASSUME NEW c \in Browsers, NEW i \in Ids, SwitchOn(c, i)
      PROVE  Send(c, "switch", i)
      BY <1>5 DEF SwitchOn
<1>6. \/ req' = req
      \/ \E c \in Browsers : Read(c) \/ Commit(c)
      \/ \E c \in Browsers, i \in Ids : SwitchOn(c, i) \/ \E op \in UserOps : RunAction(c, op, i)
      BY DEF Next, vars, LoadMode, SwitchMode, Expire, Logout, Visit, CancelReject, Register,
             ShowUsers, Login, AskReject, PollingEnds
<1>7. req'[b].id \in Ids
      BY <1>0 DEF Request
<1> QED BY <1>1, <1>2, <1>3, <1>4, <1>5, <1>6, <1>7

LEMMA NextAllApproved == TypeOK /\ AllApproved /\ TypeOK' /\ [Next]_vars => AllApproved'
<1> SUFFICES ASSUME TypeOK, AllApproved, TypeOK', [Next]_vars, ~lostRace'
             PROVE  AllApproved'
    BY DEF AllApproved
<1>1. ~lostRace
      BY RaceRemembered
<1>2. \A i \in Ids : users'[i].status \in {"active", "disabled"} => users'[i].approved
      BY RowsApproved
<1>3. \A i \in Ids : Settled(i) => Settled(i)'
      BY SettledRow DEF Settled
<1>4. ASSUME NEW b \in Browsers, NEW i \in Ids, list'[b][i] \in {"active", "disabled"}
      PROVE  Settled(i)'
  <2>1. CASE list'[b][i] = list[b][i]
        BY <1>1, <1>3, <1>4, <2>1 DEF AllApproved
  <2>2. CASE list'[b][i] # list[b][i]
    <3>1. users'[i].status = list'[b][i]
          BY <1>4, <2>2, ListsFollowRows
    <3> QED BY <1>2, <1>4, <3>1 DEF Settled
  <2> QED BY <2>1, <2>2
<1>5. ASSUME NEW b \in Browsers, req'[b].op \in {"disable", "enable"}, NEW k, k = req'[b].id
      PROVE  Settled(k)'
  <2>1. k \in Ids
        BY <1>5, RequestsFollowLists
  <2>2. Settled(k)
        BY <1>1, <1>5, <2>1, RequestsFollowLists DEF AllApproved
  <2> QED BY <1>3, <2>1, <2>2
<1> QED BY <1>2, <1>4, <1>5 DEF AllApproved, Settled

\* Nobody becomes active through the console without an approval.
THEOREM NobodyUnapproved == Spec => []ApprovedBeforeActive
<1>1. Init => TypeOK /\ AllApproved
      BY InitTyped, InitAllApproved
<1>2. TypeOK /\ AllApproved /\ [Next]_vars => (TypeOK /\ AllApproved)'
      BY NextTyped, NextAllApproved
<1>3. AllApproved => ApprovedBeforeActive
      BY DEF AllApproved, ApprovedBeforeActive, Rows
<1> QED BY <1>1, <1>2, <1>3, PTL DEF Spec

-----------------------------------------------------------------------------
(* Configs of disabled accounts                                            *)

\* A row that does not exist has no config left for the next holder of its id.
Swept == DisabledOwnersIdle /\ \A i \in Ids : i \notin Rows => cfg[i] = "none"

LEMMA CommitSwept ==
    ASSUME TypeOK, Swept, NEW b \in Browsers, Commit(b) PROVE Swept'
<1> USE DEF Swept, DisabledOwnersIdle
<1> DEFINE r == req[b]
<1>1. r.id \in Ids
      BY ServedRequest DEF Commit
<1>2. CASE UNCHANGED server
      BY <1>2 DEF Rows
<1>3. CASE r.id \in Rows /\ DisableUser(r.id)
  <2>1. \A i \in Ids : i # r.id => users'[i] = users[i] /\ cfg'[i] = cfg[i]
        BY <1>3 DEF TypeOK, DisableUser
  <2>2. cfg'[r.id] # "on" /\ revived' = revived \ {r.id}
        BY <1>1, <1>3 DEF TypeOK, DisableUser
  <2>3. users'[r.id].status = "disabled"
        BY <1>1, <1>3, RowTyped DEF TypeOK, DisableUser, UserRow
  <2> QED BY <1>3, <2>1, <2>2, <2>3, EmptyRow DEF Rows
<1>4. CASE cfg[r.id] = "none" /\ RejectUser(r.id)
  <2>1. \A i \in Ids : i # r.id => users'[i] = users[i]
        BY <1>4 DEF TypeOK, RejectUser
  <2> QED BY <1>1, <1>4, <2>1 DEF RejectUser, Rows
<1>5. CASE r.id \in Rows /\ TurnOn(r.id)
  <2>1. \A i \in Ids : i # r.id => cfg'[i] = cfg[i]
        BY <1>5 DEF TypeOK, TurnOn
  <2> QED BY <1>1, <1>5, <2>1 DEF TurnOn, Rows
<1>6. CASE r.id \in Rows /\ ActivateUser(r.id, r.op = "approve")
  <2>1. \A i \in Ids : i # r.id => users'[i] = users[i]
        BY <1>6 DEF TypeOK, ActivateUser
  <2>2. users'[r.id].status = "active"
        BY <1>1, <1>6, RowTyped DEF TypeOK, ActivateUser, UserRow
  <2> QED BY <1>1, <1>6, <2>1, <2>2, EmptyRow DEF ActivateUser, Rows
<1> QED BY <1>2, <1>3, <1>4, <1>5, <1>6, CommitCases

LEMMA NextSwept == TypeOK /\ Swept /\ [Next]_vars => Swept'
<1> SUFFICES ASSUME TypeOK, Swept, [Next]_vars PROVE Swept'
    OBVIOUS
<1>1. CASE UNCHANGED server
      BY <1>1 DEF Swept, DisabledOwnersIdle, Rows
<1>2. ASSUME NEW i \in Ids, PollingEnds(i) PROVE Swept'
  <2>1. cfg' = [cfg EXCEPT ![i] = "off"] /\ users' = users /\ revived' = revived \ {i}
        BY <1>2 DEF PollingEnds
  <2>2. i \in Rows
        BY <1>2 DEF Swept, PollingEnds
  <2> QED BY <2>1, <2>2 DEF TypeOK, Swept, DisabledOwnersIdle, Rows
<1>3. ASSUME NEW b \in Browsers, NEW n \in Names, NEW i \in Ids, Register(b, n, i)
      PROVE  Swept'
  <2>1. i \notin Rows /\ cfg' = cfg /\ revived' = revived
        BY <1>3 DEF Register, IsNextId
  <2>2. \A j \in Ids : j # i => users'[j] = users[j]
        BY <1>3 DEF TypeOK, Register
  <2> QED BY <2>1, <2>2 DEF Swept, DisabledOwnersIdle, Rows
<1>4. ASSUME NEW b \in Browsers, Commit(b) PROVE Swept'
      BY <1>4, CommitSwept
<1>5. \/ UNCHANGED server
      \/ \E i \in Ids : PollingEnds(i)
      \/ \E b \in Browsers : Commit(b)
      \/ \E b \in Browsers, n \in Names, i \in Ids : Register(b, n, i)
      BY DEF Next, vars, LoadMode, SwitchMode, Expire, Logout, Visit, CancelReject, Read,
             ShowUsers, Login, AskReject, SwitchOn, RunAction, Send
<1> QED BY <1>1, <1>2, <1>3, <1>4, <1>5

\* A disabled account's config polls only if it was turned on afterwards.
THEOREM DisabledAccountsIdle == Spec => []DisabledOwnersIdle
<1>1. Init => TypeOK /\ Swept
      BY InitTyped DEF Init, Swept, DisabledOwnersIdle
<1>2. TypeOK /\ Swept /\ [Next]_vars => (TypeOK /\ Swept)'
      BY NextTyped, NextSwept
<1>3. Swept => DisabledOwnersIdle
      BY DEF Swept
<1> QED BY <1>1, <1>2, <1>3, PTL DEF Spec
=============================================================================
