------------------------------ MODULE Accounts ------------------------------
(***************************************************************************)
(* Accounts: the user rows and session cookies of the server (api/auth.py, *)
(* api/users.py, api/deps.py, services/auth.py) and the pages of the web   *)
(* console that act on them: login, signup and the admin's user list.      *)
(*                                                                         *)
(* The auth handlers are coroutines without an await and run in one step.  *)
(* The handlers of users.py and configs.py run in threads: they read the   *)
(* row and check it in one step and commit by primary key in another, so   *)
(* two requests can interleave.  SQLite hands out the id of a deleted last *)
(* row again.                                                              *)
(***************************************************************************)
EXTENDS Naturals, FiniteSets

CONSTANTS Browsers,   \* each with its cookie jar and one tab of the console
          Names,      \* the usernames people sign up with
          MaxId,      \* bound: the greatest row id
          Owners      \* bound: the rows that get a config

ASSUME AccountsAssumption == MaxId \in Nat \ {0} /\ Owners \subseteq 1..MaxId

VARIABLES
    users,     \* users[i]: the row with id i, or NoUser
    cfg,       \* cfg[i]: "none", or whether user i's config is "off" or "on"
    cookie,    \* cookie[b]: the session cookie of the browser, or NoSession
    page,      \* page[b]: the login page's mode, or "home" or "users"
    list,      \* list[b][i]: the status the cached user list shows for row i
    dialog,    \* dialog[b]: the row whose rejection is to be confirmed, or 0
    req,       \* req[b]: the browser's request in a thread handler, or NoReq
    lostRace,  \* history: a reject has deleted an account approved meanwhile
    revived    \* history: configs turned on while their owner was not active

vars == <<users, cfg, cookie, page, list, dialog, req, lostRace, revived>>
server == <<users, cfg, lostRace, revived>>
tab == <<list, dialog, req>>

Ids == 1..MaxId
NoUser == [name |-> "", role |-> "none", status |-> "none", approved |-> FALSE]
NoSession == [id |-> 0, name |-> ""]
NoReq == [op |-> "none", id |-> 0, who |-> 0, stage |-> "none"]

UserRow == [name : Names, role : {"admin", "user"},
            status : {"pending", "active", "disabled"}, approved : BOOLEAN]
Cookie  == [id : Ids, name : Names]
UserOps == {"approve", "reject", "disable", "enable"}
Request == [op : UserOps \cup {"switch"}, id : Ids, who : Ids,
            stage : {"sent", "read"}]
LoginModes == {"loading", "setup", "login", "signup", "pending"}
Pages == LoginModes \cup {"home", "users"}

TypeOK ==
    /\ users \in [Ids -> UserRow \cup {NoUser}]
    /\ cfg \in [Ids -> {"none", "off", "on"}]
    /\ cookie \in [Browsers -> Cookie \cup {NoSession}]
    /\ page \in [Browsers -> Pages]
    /\ list \in [Browsers -> [Ids -> {"none", "pending", "active", "disabled"}]]
    /\ dialog \in [Browsers -> Ids \cup {0}]
    /\ req \in [Browsers -> Request \cup {NoReq}]
    /\ lostRace \in BOOLEAN
    /\ revived \subseteq Ids

Rows == {i \in Ids : users[i] # NoUser}

Init ==
    /\ users = [i \in Ids |-> NoUser]
    /\ cfg = [i \in Ids |-> "none"]
    /\ cookie = [b \in Browsers |-> NoSession]
    /\ page = [b \in Browsers |-> "loading"]
    /\ list = [b \in Browsers |-> [i \in Ids |-> "none"]]
    /\ dialog = [b \in Browsers |-> 0]
    /\ req = [b \in Browsers |-> NoReq]
    /\ lostRace = FALSE
    /\ revived = {}

-----------------------------------------------------------------------------
(* The login page                                                          *)

Goto(b, p) == page' = [page EXCEPT ![b] = p]

\* needs_setup, or the login form when the status cannot be had.
LoadMode(b) ==
    /\ page[b] = "loading"
    /\ \/ Rows = {} /\ Goto(b, "setup")
       \/ Goto(b, "login")
    /\ UNCHANGED <<server, cookie, tab>>

SwitchMode(b) ==
    /\ \/ page[b] = "login" /\ Goto(b, "signup")
       \/ page[b] \in {"signup", "pending"} /\ Goto(b, "login")
    /\ UNCHANGED <<server, cookie, tab>>

\* The id of a new row: SQLite's rowid, one above the greatest in the table.
IsNextId(i) == (\A j \in Rows : j < i) /\ (i = 1 \/ i - 1 \in Rows)

IsBootstrap == Rows = {}

NewRow(n) ==
    [name |-> n, role |-> IF IsBootstrap THEN "admin" ELSE "user",
     status |-> IF IsBootstrap THEN "active" ELSE "pending",
     approved |-> IsBootstrap]

Taken(n) == \E i \in Rows : users[i].name = n

\* After the reply: home with a session, the pending notice, or, from the
\* setup form that has no onPending, nothing.
AfterSignup(b, n, i) ==
    /\ cookie' = IF IsBootstrap THEN [cookie EXCEPT ![b] = [id |-> i, name |-> n]]
                                ELSE cookie
    /\ Goto(b, CASE IsBootstrap                          -> "home"
                 [] ~IsBootstrap /\ page[b] = "signup" -> "pending"
                 [] OTHER                               -> page[b])

\* A signup of the form; the reply to it may be lost.  A username already
\* taken shows an error and changes nothing.
Register(b, n, i) ==
    /\ page[b] \in {"setup", "signup"}
    /\ ~Taken(n) /\ IsNextId(i)
    /\ users' = [users EXCEPT ![i] = NewRow(n)]
    /\ \/ AfterSignup(b, n, i)
       \/ UNCHANGED <<cookie, page>>
    /\ UNCHANGED <<cfg, lostRace, revived, tab>>

\* Mutant: the status is not looked at.
KnownAccount(i) == i \in Rows

MayLogIn(i) == users[i].status = "active"

Login(b, i) ==
    /\ page[b] = "login" /\ MayLogIn(i)
    /\ cookie' = [cookie EXCEPT ![b] = [id |-> i, name |-> users[i].name]]
    /\ Goto(b, "home")
    /\ UNCHANGED <<server, tab>>

\* The cookie expires in the browser.
Expire(b) ==
    /\ cookie[b] # NoSession
    /\ cookie' = [cookie EXCEPT ![b] = NoSession]
    /\ UNCHANGED <<server, page, tab>>

Logout(b) ==
    /\ page[b] \in {"home", "users"}
    /\ cookie' = [cookie EXCEPT ![b] = NoSession]
    /\ Goto(b, "loading")
    /\ dialog' = [dialog EXCEPT ![b] = 0]
    /\ UNCHANGED <<server, list, req>>

\* Loading a page of the console: the guard of middleware.ts only looks for a
\* cookie.  The tab starts anew, with an empty query cache.
Visit(b) ==
    /\ Goto(b, IF cookie[b] # NoSession THEN "home" ELSE "loading")
    /\ dialog' = [dialog EXCEPT ![b] = 0]
    /\ list' = [list EXCEPT ![b] = [i \in Ids |-> "none"]]
    /\ UNCHANGED <<server, cookie, req>>

-----------------------------------------------------------------------------
(* The user list and its buttons                                           *)

Admin(i) == i \in Ids /\ users[i].role = "admin" /\ users[i].status = "active"

ListedNow == [i \in Ids |-> users[i].status]

\* UsersRoute shows the list to an admin; the list is fetched on mount and
\* again when the window gets the focus.
ShowUsers(b) ==
    /\ page[b] \in {"home", "users"} /\ Admin(cookie[b].id)
    /\ Goto(b, "users")
    /\ list' = [list EXCEPT ![b] = ListedNow]
    /\ UNCHANGED <<server, cookie, dialog, req>>

\* Mutant: Disable is offered for every row that is not disabled already.
OfferedUnlessDisabled(b, op, i) ==
    CASE op = "approve" -> list[b][i] = "pending"
      [] op = "disable" -> list[b][i] \in {"active", "pending"}
      [] op = "enable"  -> list[b][i] = "disabled"
      [] op = "reject"  -> dialog[b] = i

\* The buttons of a row by the status the list shows; rejecting goes through
\* the dialog, which stays open whatever the list shows next.
Offered(b, op, i) ==
    CASE op = "approve" -> list[b][i] = "pending"
      [] op = "disable" -> list[b][i] = "active"
      [] op = "enable"  -> list[b][i] = "disabled"
      [] op = "reject"  -> dialog[b] = i

AskReject(b, i) ==
    /\ page[b] = "users" /\ dialog[b] = 0 /\ list[b][i] = "pending"
    /\ dialog' = [dialog EXCEPT ![b] = i]
    /\ UNCHANGED <<server, cookie, page, list, req>>

CancelReject(b) ==
    /\ dialog[b] # 0 /\ req[b] = NoReq
    /\ dialog' = [dialog EXCEPT ![b] = 0]
    /\ UNCHANGED <<server, cookie, page, list, req>>

Send(b, op, i) ==
    /\ req[b] = NoReq /\ cookie[b] # NoSession
    /\ req' = [req EXCEPT ![b] = [op |-> op, id |-> i, who |-> cookie[b].id,
                                  stage |-> "sent"]]
    /\ UNCHANGED <<server, cookie, page, list, dialog>>

RunAction(b, op, i) ==
    /\ page[b] = "users" /\ (dialog[b] = 0 \/ op = "reject")
    /\ Offered(b, op, i) /\ Send(b, op, i)

\* A config of row i is created enabled, or toggled on, from its page.
SwitchOn(b, i) == page[b] = "home" /\ i \in Owners /\ Send(b, "switch", i)

-----------------------------------------------------------------------------
(* The handlers that run in threads                                        *)

ActiveAdmins == {i \in Ids : Admin(i)}

\* Mutant: the guard counts the row it is about to disable out.
SpareAdminLeft(i) == ~Admin(i) \/ Cardinality(ActiveAdmins \cup {i}) >= 1

\* Whether i is not the last active admin.
Disposable(i) == ~Admin(i) \/ Cardinality(ActiveAdmins) > 1

\* What the handler checks of the row it has read.
Allowed(r) ==
    /\ r.id \in Rows
    /\ CASE r.op \in {"approve", "reject"} -> users[r.id].status = "pending"
         [] r.op = "disable" -> Disposable(r.id)
         [] r.op = "enable"  -> users[r.id].status = "disabled"
         [] r.op = "switch"  -> r.id = r.who \/ Admin(r.who)

\* require_login or require_admin, then the handler's own checks.
Admitted(r) ==
    /\ users[r.who].status = "active"
    /\ r.op \in UserOps => Admin(r.who)

Read(b) ==
    LET r == req[b] IN
    /\ r.stage = "sent"
    /\ req' = [req EXCEPT ![b] = IF Admitted(r) /\ Allowed(r)
                                 THEN [r EXCEPT !.stage = "read"] ELSE NoReq]
    /\ UNCHANGED <<server, cookie, page, list, dialog>>

\* Mutant: the configs of the account are left alone.
DisableOnly(i) ==
    /\ users' = [users EXCEPT ![i].status = "disabled"]
    /\ UNCHANGED <<cfg, lostRace, revived>>

DisableUser(i) ==
    /\ users' = [users EXCEPT ![i].status = "disabled"]
    /\ cfg' = [cfg EXCEPT ![i] = IF @ = "on" THEN "off" ELSE @]
    /\ revived' = revived \ {i}
    /\ UNCHANGED lostRace

RejectUser(i) ==
    /\ users' = [users EXCEPT ![i] = NoUser]
    /\ lostRace' = (lostRace \/ users[i].status \in {"active", "disabled"})
    /\ UNCHANGED <<cfg, revived>>

ActivateUser(i, approving) ==
    /\ users' = [users EXCEPT ![i] = [users[i] EXCEPT
                     !.status = "active", !.approved = users[i].approved \/ approving]]
    /\ UNCHANGED <<cfg, lostRace, revived>>

TurnOn(i) ==
    /\ cfg' = [cfg EXCEPT ![i] = "on"]
    /\ revived' = IF users[i].status = "active" THEN revived ELSE revived \cup {i}
    /\ UNCHANGED <<users, lostRace>>

\* Mutant: a statement that matches no row is taken for done.
AnyCommits(r) == r.op = "reject" => cfg[r.id] = "none"

\* An update matches its row; a delete needs no row, but no config that refers
\* to it.
Commits(r) == IF r.op = "reject" THEN cfg[r.id] = "none" ELSE r.id \in Rows

\* The reply comes back and the list is fetched again, or the reply is lost.
Answered(b) ==
    \/ /\ page[b] = "users" /\ Admin(cookie[b].id)
       /\ list' = [list EXCEPT ![b] = [i \in Ids |-> users'[i].status]]
       /\ dialog' = IF req[b].op = "reject" THEN [dialog EXCEPT ![b] = 0] ELSE dialog
    \/ UNCHANGED <<list, dialog>>

Commit(b) ==
    LET r == req[b] IN
    /\ r.stage = "read"
    /\ req' = [req EXCEPT ![b] = NoReq]
    /\ \/ /\ Commits(r)
          /\ CASE r.op = "disable" -> DisableUser(r.id)
               [] r.op = "reject"  -> RejectUser(r.id)
               [] r.op = "switch"  -> TurnOn(r.id)
               [] OTHER            -> ActivateUser(r.id, r.op = "approve")
          /\ Answered(b)
       \/ ~Commits(r) /\ UNCHANGED <<server, list, dialog>>
    /\ UNCHANGED <<cookie, page>>

\* The config's worker succeeds, or its owner turns it off.
PollingEnds(i) ==
    /\ cfg[i] = "on"
    /\ cfg' = [cfg EXCEPT ![i] = "off"]
    /\ revived' = revived \ {i}
    /\ UNCHANGED <<users, cookie, page, tab, lostRace>>

-----------------------------------------------------------------------------
Next ==
    \/ \E b \in Browsers :
        \/ LoadMode(b) \/ SwitchMode(b) \/ Expire(b) \/ Logout(b) \/ Visit(b)
        \/ ShowUsers(b) \/ CancelReject(b) \/ Read(b) \/ Commit(b)
        \/ \E i \in Ids : \/ \E n \in Names : Register(b, n, i)
                          \/ Login(b, i) \/ AskReject(b, i) \/ SwitchOn(b, i)
                          \/ \E op \in UserOps : RunAction(b, op, i)
    \/ \E i \in Ids : PollingEnds(i)

Spec == Init /\ [][Next]_vars

-----------------------------------------------------------------------------
(* Properties                                                              *)

\* Once anybody has signed up there is exactly one admin and it is active:
\* whatever signups, approvals, rejections and disables interleave, somebody
\* can manage the accounts (the bootstrap rule of register_user and the
\* last-admin guard of disable_user).
AdminRemains ==
    Rows # {} => \E i \in ActiveAdmins : \A j \in Rows : users[j].role = "admin" => j = i

\* A session cookie denotes the account that logged in with it, although ids
\* of deleted rows are used again: only accounts that never had a session are
\* deleted.  The exception is the race of two requests over one row, a reject
\* that has read "pending" and commits after an approve.
CookieIsItsOwner ==
    ~lostRace => \A b \in Browsers :
        cookie[b] # NoSession => users[cookie[b].id].name = cookie[b].name

\* Nobody gets in unapproved through the console: the server disables a
\* pending account and enables any disabled one, but the buttons, driven by
\* lists that may be stale, never send the two in this order for an account
\* that was not approved; with the same exception.
ApprovedBeforeActive ==
    ~lostRace => \A i \in Rows : users[i].status = "active" => users[i].approved

\* A disabled account's config polls only if it was turned on after the
\* disabling, by an admin or by a request let in before (revived): the sweep
\* of disable_user leaves none on, and a new account that gets the id of a
\* deleted one starts without configs.
DisabledOwnersIdle ==
    \A i \in Ids : users[i].status # "active" /\ cfg[i] = "on" => i \in revived
=============================================================================
