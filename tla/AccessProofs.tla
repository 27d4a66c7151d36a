---------------------------- MODULE AccessProofs ----------------------------
(***************************************************************************)
(* What holds of accounts, sessions and rights for every set of accounts   *)
(* and connections, and for every bound.                                   *)
(***************************************************************************)
EXTENDS Access, FiniteSetTheorems, TLAPS

-----------------------------------------------------------------------------
(* The inductive invariant *)

Places ==
  {"idle", "bootstrap", "login", "device", "issue", "unread", "recovery", "compare", "wrong", "state",
   "remember", "refresh", "change", "setup", "confirm", "disable", "codes", "revoke", "forget",
   "deny", "password", "factor", "enrolled", "require", "admitted", "count", "write", "reset"}

\* Operations on an account, one's own or another.
OnAccount ==
  {"change", "setup", "confirm", "disable", "role", "create", "deactivate", "reactivate",
   "reset", "remove"}

Operations ==
  OnAccount \cup {"none", "bootstrap", "login", "verify", "refresh",
                  "list", "inspect", "compute", "enter"}

Arguments ==
  NewRoles \cup {"none", "totp", "code", "other"} \cup ((Accounts \cup {NoOne}) \X Nat)

RequestRow ==
  [at : Places, op : Operations, who : Accounts \cup {NoOne}, on : Accounts \cup {NoOne},
   arg : Arguments, disturbed : BOOLEAN]

\* A request is where its operation leads, names accounts where it will write
\* to them, and is of an account that exists, but for the first of all.
RequestOK(r) ==
  /\ At(r, "idle") => request[r] = Idle
  /\ ~At(r, "idle") => Who(r) \in Accounts
  /\ At(r, "bootstrap") <=> request[r].op = "bootstrap"
  /\ ~At(r, "idle") /\ ~At(r, "bootstrap") => Exists(Who(r))
  /\ request[r].at \in {"login", "device"} => request[r].op = "login"
  /\ request[r].at \in {"recovery", "compare", "wrong", "state", "remember"} =>
       request[r].op = "verify"
  /\ request[r].at \in {"change", "setup", "confirm", "disable", "codes", "revoke", "forget",
                        "count", "write", "reset"} => request[r].op \in OnAccount
  /\ request[r].op \in OnAccount => On(r) \in Accounts
  /\ request[r].op \in {"role", "create"} => request[r].arg \in NewRoles
  /\ At(r, "reset") => Exists(On(r))

RequestsOK ==
  /\ request \in [Requests -> RequestRow]
  /\ \A r \in Requests : RequestOK(r)

\* Tokens are of accounts that exist.
SessionsExist ==
  /\ \A u \in access \cup challenge : Exists(u)
  /\ \A u \in Accounts : refresh[u] > 0 => Exists(u)

\* Who was created by Bootstrap was the first, and accounts never vanish.
FoundedOnce ==
  /\ founded # {} => \E v \in Accounts : Exists(v)
  /\ \A u, v \in founded : u = v

\* Requests that have passed the throttle and not yet been counted by it.
InFlight(u) == {r \in Requests : Who(r) = u /\ request[r].at \in {"compare", "wrong"}}

Throttled ==
  \A u \in Accounts :
    /\ tried[u] = failures[u]
    /\ tried[u] + Cardinality(InFlight(u)) <= MaxFailures + Cardinality(Requests) - 1

\* What each filter has found stands as long as nobody disturbs the request.
Cleared(r) ==
  LET user == users[Who(r)]
      route == Route[request[r].op]
      past(places) == request[r].at \in places /\ ~request[r].disturbed
  IN /\ past({"factor", "enrolled", "require", "admitted"}) => user.active /\ ~user.mustChange
     /\ past({"require", "admitted"}) =>
          (RequiresSecondFactor(user.role) => factor[Who(r)] = "confirmed")
     /\ past({"admitted"}) => Can(user.role, route.perm)

AccessInv ==
  /\ TypeOK
  /\ RequestsOK
  /\ SessionsExist
  /\ FoundedOnce
  /\ Throttled
  /\ CodesOfLastEnrolment
  /\ \A r \in Requests : Cleared(r)
  /\ SecondFactorAsked
-----------------------------------------------------------------------------
(* What the steps do to the requests *)

\* Two rows that differ in the place at most, and in being disturbed.
SameCase(old, new) ==
  /\ new.op = old.op
  /\ new.who = old.who
  /\ new.on = old.on
  /\ new.arg = old.arg
  /\ old.disturbed => new.disturbed

\* Requests other than r stay where they are.
OthersKept(r) ==
  \A q \in Requests \ {r} :
    /\ request'[q].at = request[q].at
    /\ SameCase(request[q], request'[q])
    /\ request[q] = Idle => request'[q] = Idle

\* Who is being decided upon for u is disturbed.
Disturbs(u) ==
  \A q \in Requests : request'[q].who = u /\ request'[q].at \in Deciding => request'[q].disturbed

\* Where request r goes.
Moves(r, place) ==
  /\ request' \in [Requests -> RequestRow]
  /\ request'[r].at = place
  /\ SameCase(request[r], request'[r])
  /\ OthersKept(r)

\* Request r is answered.
Ends(r) ==
  /\ request' \in [Requests -> RequestRow]
  /\ request'[r] = Idle
  /\ OthersKept(r)

\* The row of a connection at rest.
LEMMA IdleRow == Idle \in RequestRow
  BY DEF Idle, RequestRow, Places, Operations, Arguments

LEMMA GotoMoves ==
  ASSUME request \in [Requests -> RequestRow], NEW r \in Requests, NEW place \in Places,
         Goto(r, place)
  PROVE  Moves(r, place)
<1>1. request' = [request EXCEPT ![r].at = place]
  BY DEF Goto
<1>2. request' \in [Requests -> RequestRow]
  BY <1>1 DEF RequestRow
<1> QED
  BY <1>1, <1>2 DEF Moves, OthersKept, SameCase, RequestRow

LEMMA FinishEnds ==
  ASSUME request \in [Requests -> RequestRow], NEW r \in Requests, Finish(r)
  PROVE  Ends(r)
  BY IdleRow DEF Finish, Ends, OthersKept, SameCase

\* The mark on the requests of an account leaves rows of requests.
LEMMA DisturbRows ==
  ASSUME NEW moved \in [Requests -> RequestRow], NEW u
  PROVE  Disturb(u, moved) \in [Requests -> RequestRow]
<1>1. ASSUME NEW q \in Requests
      PROVE  (IF moved[q].who = u /\ moved[q].at \in Deciding
              THEN [moved[q] EXCEPT !.disturbed = TRUE] ELSE moved[q]) \in RequestRow
  <2>1. PICK row : row = moved[q]
    OBVIOUS
  <2>2. row \in RequestRow
    BY <2>1
  <2>3. [row EXCEPT !.disturbed = TRUE] \in RequestRow
    BY <2>2 DEF RequestRow
  <2> QED
    BY <2>1, <2>2, <2>3
<1> QED
  BY <1>1 DEF Disturb

LEMMA CheckMoves ==
  ASSUME request \in [Requests -> RequestRow], NEW r \in Requests, NEW place \in Places,
         NEW condition, Check(r, condition, place)
  PROVE  (condition /\ Moves(r, place)) \/ Ends(r)
  BY GotoMoves, FinishEnds DEF Check

LEMMA GotoDisturbingMoves ==
  ASSUME request \in [Requests -> RequestRow], NEW r \in Requests, NEW place \in Places,
         NEW u, GotoDisturbing(r, place, u)
  PROVE  Moves(r, place) /\ Disturbs(u)
<1> DEFINE moved == [request EXCEPT ![r].at = place]
<1>1. request' = Disturb(u, moved)
  BY DEF GotoDisturbing
<1>2. moved \in [Requests -> RequestRow]
  BY DEF RequestRow
<1>3. moved[r].at = place /\ SameCase(request[r], moved[r])
      /\ \A q \in Requests \ {r} : moved[q] = request[q]
  BY DEF SameCase, RequestRow
<1> HIDE DEF moved
<1>4. request' \in [Requests -> RequestRow]
  BY <1>1, <1>2, DisturbRows
<1>5. \A q \in Requests : request'[q].at = moved[q].at /\ SameCase(moved[q], request'[q])
  BY <1>1, <1>2 DEF Disturb, SameCase, RequestRow
<1>6. Disturbs(u)
  BY <1>1, <1>2 DEF Disturb, Disturbs, RequestRow
<1>7. \A q \in Requests : moved[q] = Idle => request'[q] = Idle
  <2>1. Idle.at \notin Deciding
    BY DEF Idle, Deciding
  <2> QED
    BY <1>1, <1>2, <2>1 DEF Disturb
<1> QED
  BY <1>3, <1>4, <1>5, <1>6, <1>7 DEF Moves, OthersKept, SameCase

LEMMA FinishDisturbingEnds ==
  ASSUME request \in [Requests -> RequestRow], NEW r \in Requests, NEW u,
         FinishDisturbing(r, u)
  PROVE  Ends(r) /\ Disturbs(u)
<1> DEFINE moved == [request EXCEPT ![r] = Idle]
<1>1. request' = Disturb(u, moved)
  BY DEF FinishDisturbing
<1>2. moved \in [Requests -> RequestRow] /\ moved[r] = Idle
      /\ \A q \in Requests \ {r} : moved[q] = request[q]
  BY IdleRow
<1> HIDE DEF moved
<1>3. request' \in [Requests -> RequestRow]
  BY <1>1, <1>2, DisturbRows
<1>4. \A q \in Requests : request'[q].at = moved[q].at /\ SameCase(moved[q], request'[q])
  BY <1>1, <1>2 DEF Disturb, SameCase, RequestRow
<1>5. \A q \in Requests : moved[q] = Idle => request'[q] = Idle
  <2>1. Idle.at \notin Deciding
    BY DEF Idle, Deciding
  <2> QED
    BY <1>1, <1>2, <2>1 DEF Disturb
<1>6. Disturbs(u)
  BY <1>1, <1>2 DEF Disturb, Disturbs, RequestRow
<1> QED
  BY <1>2, <1>3, <1>4, <1>5, <1>6 DEF Ends, OthersKept, SameCase

\* Request r begins; it is not disturbed yet.
Starts(r, op, u, v, arg, place) ==
  /\ request' \in [Requests -> RequestRow]
  /\ request[r] = Idle
  /\ request'[r].at = place /\ request'[r].op = op /\ request'[r].who = u
  /\ request'[r].on = v /\ request'[r].arg = arg /\ request'[r].disturbed = FALSE
  /\ OthersKept(r)

LEMMA BeginStarts ==
  ASSUME request \in [Requests -> RequestRow], NEW r \in Requests,
         NEW op \in Operations, NEW u \in Accounts, NEW v \in Accounts \cup {NoOne},
         NEW arg \in Arguments, NEW place \in Places, Begin(r, op, u, v, arg, place)
  PROVE  Starts(r, op, u, v, arg, place)
<1> DEFINE row == [Idle EXCEPT !.at = place, !.op = op, !.who = u, !.on = v, !.arg = arg]
<1>1. request[r] = Idle /\ request' = [request EXCEPT ![r] = row]
  BY DEF Begin
<1>2. row \in RequestRow
  BY IdleRow DEF RequestRow
<1>3. /\ row.at = place /\ row.op = op /\ row.who = u
      /\ row.on = v /\ row.arg = arg /\ row.disturbed = FALSE
  BY DEF Idle
<1> HIDE DEF row
<1> QED
  BY <1>1, <1>2, <1>3 DEF Starts, OthersKept, SameCase

\* Accounts that exist go on existing.
NoneVanishes == \A u \in Accounts : Exists(u) => Exists(u)'

\* Each request keeps its shape if the one that takes the step does.
LEMMA RequestsKeep ==
  ASSUME RequestsOK, NEW r \in Requests, request' \in [Requests -> RequestRow],
         OthersKept(r), NoneVanishes, RequestOK(r)'
  PROVE  RequestsOK'
<1>1. ASSUME NEW q \in Requests \ {r}
      PROVE  RequestOK(q)'
  <2>1. RequestOK(q) /\ request[q] \in RequestRow
    BY DEF RequestsOK
  <2>2. request'[q].at = request[q].at /\ SameCase(request[q], request'[q])
        /\ (request[q] = Idle => request'[q] = Idle)
    BY DEF OthersKept
  <2>3. On(q) \in Accounts /\ Exists(On(q)) => Exists(On(q))'
    BY <2>2 DEF NoneVanishes, SameCase, On, Exists
  <2>4. Who(q) \in Accounts /\ Exists(Who(q)) => Exists(Who(q))'
    BY <2>2 DEF NoneVanishes, SameCase, Who, Exists
  <2>5. At(q, "reset") => On(q) \in Accounts
    BY <2>1 DEF RequestOK, At
  <2> HIDE DEF Exists
  <2> QED
    BY <2>1, <2>2, <2>3, <2>4, <2>5 DEF RequestOK, SameCase, At, Who, On
<1> QED
  BY <1>1 DEF RequestsOK

\* The same, of a request that is answered.
LEMMA EndKeeps ==
  ASSUME RequestsOK, NEW r \in Requests, Ends(r), NoneVanishes
  PROVE  RequestsOK'
<1>1. RequestOK(r)'
  BY DEF Ends, RequestOK, At, Who, On, Idle, OnAccount
<1> QED
  BY <1>1, RequestsKeep DEF Ends

\* The same, of a request that goes on.
LEMMA MoveKeeps ==
  ASSUME RequestsOK, NEW r \in Requests, NEW place \in Places \ {"idle"}, Moves(r, place),
         NoneVanishes, ~At(r, "idle"), ~At(r, "bootstrap"), place # "bootstrap",
         place \in {"login", "device"} => request[r].op = "login",
         place \in {"recovery", "compare", "wrong", "state", "remember"} =>
           request[r].op = "verify",
         place \in {"change", "setup", "confirm", "disable", "codes", "revoke", "forget",
                    "count", "write", "reset"} => request[r].op \in OnAccount,
         place = "reset" => Exists(On(r))
  PROVE  RequestsOK'
<1>1. RequestOK(r) /\ request[r] \in RequestRow
  BY DEF RequestsOK
<1>2. Exists(Who(r)) => Exists(Who(r))'
  BY <1>1 DEF NoneVanishes, RequestOK, Moves, SameCase, Exists, Who
<1>3. place = "reset" => Exists(On(r))'
  <2>1. place = "reset" => On(r) \in Accounts
    BY <1>1 DEF RequestOK
  <2> QED
    BY <2>1 DEF NoneVanishes, Moves, SameCase, Exists, On
<1>4. RequestOK(r)'
  BY <1>1, <1>2, <1>3 DEF RequestOK, Moves, SameCase, At, Who, On
<1> QED
  BY <1>4, RequestsKeep DEF Moves

\* The same, of a request that begins.
LEMMA StartKeeps ==
  ASSUME RequestsOK, NEW r \in Requests,
         NEW op \in Operations, NEW u \in Accounts, NEW v, NEW arg,
         NEW place \in Places \ {"idle"}, Starts(r, op, u, v, arg, place), NoneVanishes,
         place = "bootstrap" <=> op = "bootstrap",
         op # "bootstrap" => Exists(u),
         place \in {"login", "device"} => op = "login",
         place \in {"recovery", "compare", "wrong", "state", "remember"} => op = "verify",
         place \in {"change", "setup", "confirm", "disable", "codes", "revoke", "forget",
                    "count", "write"} => op \in OnAccount,
         place # "reset",
         op \in OnAccount => v \in Accounts,
         op \in {"role", "create"} => arg \in NewRoles
  PROVE  RequestsOK'
<1>1. Exists(u) => Exists(u)'
  BY DEF NoneVanishes
<1>2. RequestOK(r)'
  BY <1>1 DEF RequestOK, Starts, At, Who, On, Exists
<1> QED
  BY <1>2, RequestsKeep DEF Starts

-----------------------------------------------------------------------------
(* Which steps write to what *)

\* All but the requests.
Rest == <<tables, memory, counts>>

LEMMA PublicWrites ==
  ASSUME NEW r \in Requests, Public(r)
  PROVE  \/ UNCHANGED Rest
         \/ \E u \in Accounts : Logout(r, u)
         \/ Bootstrap(r) \/ LoginDevice(r) \/ IssueSession(r) \/ CodeRight(r) \/ CodeWrong(r)
         \/ RememberDevice(r) \/ Refresh(r)
  BY DEF Public, BootstrapLook, RefreshRead, LoginRead, VerifyRead, LoginFactor, CodeLook,
         VerifyState, RememberNothing, Rest

LEMMA OwnWrites ==
  ASSUME NEW r \in Requests, Own(r)
  PROVE  \/ UNCHANGED Rest
         \/ \E u \in Accounts : ForgetTrustedDevices(r, u)
         \/ ChangePassword(r) \/ MFASetup(r) \/ MFAConfirm(r) \/ DropFactor(r)
         \/ DropCodes(r) \/ Revoke(r) \/ Forget(r)
  BY DEF Own, ChangeRead, SetupRead, ConfirmRead, DisableRead, IgnoreFailure, Rest

LEMMA FiltersWrite ==
  ASSUME NEW r \in Requests, Filters(r)
  PROVE  UNCHANGED Rest
  BY DEF Filters, Arrive, DenyWrites, RequirePasswordChanged, RequireMFARole,
         RequireMFAEnrolled, Require, Work, Rest

LEMMA AdministrationWrites ==
  ASSUME NEW r \in Requests, Administration(r)
  PROVE  \/ UNCHANGED Rest
         \/ CreateUser(r) \/ UpdateUserRole(r) \/ Deactivate(r) \/ Reactivate(r)
         \/ ResetPassword(r)
  BY DEF Administration, LastAdminTarget, LastAdminCount, ResetRead, RemoveMFA, NoSuchTarget,
         Rest

\* A step changes the tables and the memory in one of these ways or not at all.
LEMMA Writers ==
  ASSUME [Next]_vars
  PROVE  \/ UNCHANGED Rest
         \/ \E r \in Requests :
              \/ \E u \in Accounts : Logout(r, u) \/ ForgetTrustedDevices(r, u)
              \/ Bootstrap(r) \/ LoginDevice(r) \/ IssueSession(r) \/ CodeRight(r)
              \/ CodeWrong(r) \/ RememberDevice(r) \/ Refresh(r)
              \/ ChangePassword(r) \/ MFASetup(r) \/ MFAConfirm(r) \/ DropFactor(r)
              \/ DropCodes(r) \/ Revoke(r) \/ Forget(r)
              \/ CreateUser(r) \/ UpdateUserRole(r) \/ Deactivate(r) \/ Reactivate(r)
              \/ ResetPassword(r)
         \/ \E u \in Accounts : Expire(u) \/ FallQuiet(u) \/ WindowPasses(u)
         \/ Restart
<1>1. CASE UNCHANGED vars
  BY <1>1 DEF vars, Rest, tables, memory, counts
<1>2. ASSUME NEW r \in Requests, Abandon(r)
      PROVE  UNCHANGED Rest
  BY <1>2 DEF Abandon, Rest
<1> QED
  BY <1>1, <1>2, PublicWrites, OwnWrites, FiltersWrite, AdministrationWrites DEF Next

AccountRow == [role : Roles, active : BOOLEAN, mustChange : BOOLEAN]

\* The row of an account that exists is written over, or that of one to be.
LEMMA RowWritten ==
  ASSUME users \in [Accounts -> AccountRow \cup {NoUser}], NEW u \in Accounts,
         NEW row \in AccountRow, users' = [users EXCEPT ![u] = row]
  PROVE  users' \in [Accounts -> AccountRow \cup {NoUser}] /\ NoneVanishes
<1>1. row.role # "none"
  BY DEF AccountRow, Roles
<1> QED
  BY <1>1 DEF NoneVanishes, Exists

\* An account that exists has a row.
LEMMA RowOfAccount ==
  ASSUME users \in [Accounts -> AccountRow \cup {NoUser}], NEW u \in Accounts, Exists(u)
  PROVE  users[u] \in AccountRow
  BY DEF Exists, NoUser

\* Who writes to the accounts writes rows of accounts, and takes none away.
LEMMA UsersStep ==
  ASSUME AccessInv, [Next]_vars
  PROVE  users' \in [Accounts -> AccountRow \cup {NoUser}] /\ NoneVanishes
<1> DEFINE Goal == users' \in [Accounts -> AccountRow \cup {NoUser}] /\ NoneVanishes
<1>1. users \in [Accounts -> AccountRow \cup {NoUser}]
  BY DEF AccessInv, TypeOK, AccountRow
<1>2. ASSUME NEW r \in Requests PROVE RequestOK(r) /\ request[r] \in RequestRow
  BY DEF AccessInv, RequestsOK
<1>3. ASSUME NEW r \in Requests, Bootstrap(r)
      PROVE  Goal
  <2>1. CASE users' = users
    BY <1>1, <2>1 DEF NoneVanishes, Exists
  <2>2. CASE users' = FirstAdmin(Who(r))
    <3>1. Who(r) \in Accounts
      BY <1>2, <1>3 DEF Bootstrap, RequestOK, At
    <3>2. [role |-> "admin", active |-> TRUE, mustChange |-> FALSE] \in AccountRow
      BY DEF AccountRow, Roles
    <3> QED
      BY <1>1, <2>2, <3>1, <3>2, RowWritten DEF FirstAdmin
  <2> QED
    BY <1>3, <2>1, <2>2 DEF Bootstrap
<1>4. ASSUME NEW r \in Requests, ChangePassword(r)
      PROVE  Goal
  <2>1. Who(r) \in Accounts /\ users[Who(r)] \in AccountRow
    BY <1>1, <1>2, <1>4, RowOfAccount DEF ChangePassword, RequestOK, At
  <2>2. [users[Who(r)] EXCEPT !.mustChange = FALSE] \in AccountRow
    BY <2>1 DEF AccountRow
  <2> QED
    BY <1>1, <1>4, <2>1, <2>2, RowWritten DEF ChangePassword
<1>5. ASSUME NEW r \in Requests, CreateUser(r)
      PROVE  Goal
  <2>1. On(r) \in Accounts /\ request[r].arg \in Roles
    BY <1>2, <1>5, AccessAssumption DEF CreateUser, RequestOK, OnAccount
  <2>2. [role |-> request[r].arg, active |-> TRUE, mustChange |-> TRUE] \in AccountRow
    BY <2>1 DEF AccountRow
  <2> QED
    BY <1>1, <1>5, <2>1, <2>2, RowWritten DEF CreateUser
<1>6. ASSUME NEW r \in Requests, UpdateUserRole(r)
      PROVE  Goal
  <2>1. On(r) \in Accounts /\ request[r].arg \in Roles /\ users[On(r)] \in AccountRow
    BY <1>1, <1>2, <1>6, AccessAssumption, RowOfAccount DEF UpdateUserRole, RequestOK, OnAccount
  <2>2. [users[On(r)] EXCEPT !.role = request[r].arg] \in AccountRow
    BY <2>1 DEF AccountRow
  <2> QED
    BY <1>1, <1>6, <2>1, <2>2, RowWritten DEF UpdateUserRole
<1>7. ASSUME NEW r \in Requests, Deactivate(r) \/ Reactivate(r) \/ ResetPassword(r)
      PROVE  Goal
  <2>1. On(r) \in Accounts /\ users[On(r)] \in AccountRow
    BY <1>1, <1>2, <1>7, RowOfAccount
    DEF Deactivate, Reactivate, ResetPassword, RequestOK, OnAccount, At
  <2>2. /\ [users[On(r)] EXCEPT !.active = FALSE] \in AccountRow
        /\ [users[On(r)] EXCEPT !.active = TRUE] \in AccountRow
        /\ [users[On(r)] EXCEPT !.mustChange = TRUE] \in AccountRow
    BY <2>1 DEF AccountRow
  <2> QED
    BY <1>1, <1>7, <2>1, <2>2, RowWritten DEF Deactivate, Reactivate, ResetPassword
<1>8. CASE users' = users
  BY <1>1, <1>8 DEF NoneVanishes, Exists
<1>9. \/ users' = users
      \/ \E r \in Requests : \/ Bootstrap(r) \/ ChangePassword(r) \/ CreateUser(r)
                            \/ UpdateUserRole(r) \/ Deactivate(r) \/ Reactivate(r)
                            \/ ResetPassword(r)
  BY Writers DEF Rest, tables, Logout, LoginDevice, IssueSession, CodeRight, CodeWrong,
     RememberDevice, Refresh, ForgetTrustedDevices, MFASetup, MFAConfirm, DropFactor, DropCodes,
     Revoke, Forget, Expire, FallQuiet, WindowPasses, Restart
<1> QED
  BY <1>3, <1>4, <1>5, <1>6, <1>7, <1>8, <1>9

Counted == served' = served \/ (served < MaxServed /\ served' = served + 1)

LEMMA Counting ==
  ASSUME NEW r
  PROVE  /\ \A op, u, v, arg, place : Begin(r, op, u, v, arg, place) => Counted
         /\ \A place : Goto(r, place) => Counted
         /\ Finish(r) => Counted
         /\ \A condition, place : Check(r, condition, place) => Counted
         /\ \A place, u : GotoDisturbing(r, place, u) => Counted
         /\ \A u : FinishDisturbing(r, u) => Counted
  BY DEF Counted, Begin, Goto, Finish, Check, GotoDisturbing, FinishDisturbing

\* The requests that begin are counted.
LEMMA ServedStep ==
  ASSUME [Next]_vars
  PROVE  Counted
<1>1. CASE UNCHANGED vars
  BY <1>1 DEF vars, Counted
<1>2. ASSUME NEW r \in Requests, Public(r)
      PROVE  Counted
  BY <1>2, Counting
  DEF Public, Counted, BootstrapLook, RefreshRead, Logout, LoginRead, VerifyRead, Bootstrap,
      LoginFactor, LoginDevice, IssueSession, CodeLook, CodeRight, CodeWrong, VerifyState,
      RememberDevice, RememberNothing, Refresh
<1>3. ASSUME NEW r \in Requests, Own(r)
      PROVE  Counted
  BY <1>3, Counting
  DEF Own, Counted, ChangeRead, SetupRead, ConfirmRead, DisableRead, ForgetTrustedDevices,
      ChangePassword, MFASetup, MFAConfirm, DropFactor, DropCodes, Revoke, Forget, IgnoreFailure
<1>4. ASSUME NEW r \in Requests, Filters(r)
      PROVE  Counted
  BY <1>4, Counting DEF Filters, Arrive, DenyWrites, RequirePasswordChanged, RequireMFARole,
     RequireMFAEnrolled, Require, Work
<1>5. ASSUME NEW r \in Requests, Administration(r) \/ Abandon(r)
      PROVE  Counted
  BY <1>5, Counting DEF Administration, CreateUser, LastAdminTarget, LastAdminCount, UpdateUserRole,
     Deactivate, Reactivate, ResetRead, ResetPassword, RemoveMFA, NoSuchTarget, Abandon
<1>6. ASSUME NEW u \in Accounts, Expire(u) \/ FallQuiet(u) \/ WindowPasses(u)
      PROVE  Counted
  BY <1>6 DEF Expire, FallQuiet, WindowPasses, Counted
<1>7. ASSUME Restart
      PROVE  Counted
  BY <1>7 DEF Restart, Counted
<1> QED
  BY <1>1, <1>2, <1>3, <1>4, <1>5, <1>6, <1>7 DEF Next

\* The tables beside the accounts, and the memory, have their types.
TablesOK ==
  /\ factor \in [Accounts -> {"none", "prepared", "confirmed"}]
  /\ codes \in [Accounts -> SUBSET (1..MaxEnrolments)]
  /\ devices \in [Accounts -> SUBSET (1..MaxDevices)]
  /\ refresh \in [Accounts -> 0..MaxTokens]
  /\ access \cup challenge \cup quiet \cup founded \subseteq Accounts
  /\ failures \in [Accounts -> Nat] /\ tried \in [Accounts -> Nat]
  /\ enrolled \in [Accounts -> 0..MaxEnrolments] /\ given \in [Accounts -> 0..MaxDevices]

LEMMA TablesStep ==
  ASSUME AccessInv, [Next]_vars
  PROVE  TablesOK'
<1> USE AccessAssumption
<1> USE DEF tables, memory, counts
<1>1. TablesOK
  BY DEF AccessInv, TypeOK, TablesOK
<1>2. ASSUME NEW r \in Requests
      PROVE  /\ ~At(r, "idle") => Who(r) \in Accounts
             /\ request[r].op \in OnAccount => On(r) \in Accounts
             /\ request[r].at \in {"disable", "codes", "revoke", "forget"} => On(r) \in Accounts
  BY DEF AccessInv, RequestsOK, RequestOK
<1>3. CASE UNCHANGED Rest
  BY <1>1, <1>3 DEF TablesOK, Rest
<1>4. ASSUME NEW r \in Requests, NEW u \in Accounts, Logout(r, u) \/ ForgetTrustedDevices(r, u)
      PROVE  TablesOK'
  BY <1>1, <1>4 DEF TablesOK, Logout, ForgetTrustedDevices, forgetDevices
<1>5. ASSUME NEW r \in Requests, Bootstrap(r) \/ LoginDevice(r) \/ IssueSession(r) \/ Refresh(r)
      PROVE  TablesOK'
  <2>1. Who(r) \in Accounts
    BY <1>2, <1>5 DEF Bootstrap, LoginDevice, IssueSession, Issuing, Refresh, At
  <2>2. CASE Bootstrap(r)
    BY <1>1, <2>1, <2>2 DEF TablesOK, Bootstrap
  <2>3. CASE LoginDevice(r)
    BY <1>1, <2>1, <2>3 DEF TablesOK, LoginDevice
  <2>4. CASE IssueSession(r)
    BY <1>1, <2>1, <2>4 DEF TablesOK, IssueSession
  <2>5. CASE Refresh(r)
    BY <1>1, <2>1, <2>5 DEF TablesOK, Refresh
  <2> QED
    BY <1>5, <2>2, <2>3, <2>4, <2>5
<1>6. ASSUME NEW r \in Requests, CodeRight(r) \/ CodeWrong(r) \/ RememberDevice(r)
      PROVE  TablesOK'
  <2>1. Who(r) \in Accounts
    BY <1>2, <1>6 DEF CodeRight, CodeWrong, RememberDevice, At
  <2>2. CASE CodeRight(r)
    BY <1>1, <2>1, <2>2 DEF TablesOK, CodeRight
  <2>3. CASE CodeWrong(r)
    BY <1>1, <2>1, <2>3 DEF TablesOK, CodeWrong
  <2>4. CASE RememberDevice(r)
    BY <1>1, <2>1, <2>4 DEF TablesOK, RememberDevice
  <2> QED
    BY <1>6, <2>2, <2>3, <2>4
<1>7. ASSUME NEW r \in Requests, ChangePassword(r) \/ MFASetup(r) \/ MFAConfirm(r)
      PROVE  TablesOK'
  <2>1. Who(r) \in Accounts
    BY <1>2, <1>7 DEF ChangePassword, MFASetup, MFAConfirm, At
  <2>2. CASE ChangePassword(r)
    BY <1>1, <2>1, <2>2 DEF TablesOK, ChangePassword
  <2>3. CASE MFASetup(r)
    BY <1>1, <2>1, <2>3 DEF TablesOK, MFASetup
  <2>4. CASE MFAConfirm(r)
    BY <1>1, <2>1, <2>4 DEF TablesOK, MFAConfirm
  <2> QED
    BY <1>7, <2>2, <2>3, <2>4
<1>8. ASSUME NEW r \in Requests, DropFactor(r) \/ DropCodes(r) \/ Revoke(r) \/ Forget(r)
      PROVE  TablesOK'
  <2>1. On(r) \in Accounts
    BY <1>2, <1>8 DEF DropFactor, DropCodes, Revoke, Forget, At
  <2>2. CASE DropFactor(r)
    BY <1>1, <2>1, <2>2 DEF TablesOK, DropFactor
  <2>3. CASE DropCodes(r)
    BY <1>1, <2>1, <2>3 DEF TablesOK, DropCodes, ForgetCodes
  <2>4. CASE Revoke(r)
    BY <1>1, <2>1, <2>4 DEF TablesOK, Revoke, ForgetRefresh
  <2>5. CASE Forget(r)
    BY <1>1, <2>1, <2>5 DEF TablesOK, Forget, forgetDevices
  <2> QED
    BY <1>8, <2>2, <2>3, <2>4, <2>5
<1>9. ASSUME NEW r \in Requests, \/ CreateUser(r) \/ UpdateUserRole(r) \/ Deactivate(r)
                                \/ Reactivate(r) \/ ResetPassword(r)
      PROVE  TablesOK'
  BY <1>1, <1>9 DEF TablesOK, CreateUser, UpdateUserRole, Deactivate, Reactivate, ResetPassword
<1>10. ASSUME NEW u \in Accounts, Expire(u) \/ FallQuiet(u) \/ WindowPasses(u)
       PROVE  TablesOK'
  BY <1>1, <1>10 DEF TablesOK, Expire, FallQuiet, WindowPasses
<1>11. ASSUME Restart
       PROVE  TablesOK'
  BY <1>1, <1>11 DEF TablesOK, Restart
<1> QED
  BY <1>3, <1>4, <1>5, <1>6, <1>7, <1>8, <1>9, <1>10, <1>11, Writers

LEMMA TypeStep ==
  ASSUME AccessInv, [Next]_vars, RequestsOK'
  PROVE  TypeOK'
<1>1. served' \in 0..MaxServed
  BY ServedStep, AccessAssumption DEF AccessInv, TypeOK, Counted
<1>2. \A r \in Requests : request'[r] # Idle => request'[r].who \in Accounts
  BY DEF RequestsOK, RequestOK, At, Who
<1> QED
  BY <1>1, <1>2, UsersStep, TablesStep DEF TypeOK, TablesOK, AccountRow, Who

-----------------------------------------------------------------------------
(* The tables *)

LEMMA SessionsStep ==
  ASSUME AccessInv, [Next]_vars
  PROVE  SessionsExist'
<1> DEFINE After == /\ \A u \in access' \cup challenge' : Exists(u)
                    /\ \A u \in Accounts : refresh'[u] > 0 => Exists(u)
<1>1. TablesOK /\ SessionsExist /\ \A u \in access' \cup challenge' : u \in Accounts
  BY TablesStep DEF AccessInv, TypeOK, TablesOK
<1>2. ASSUME NEW r \in Requests, ~At(r, "idle"), ~At(r, "bootstrap")
      PROVE  Who(r) \in Accounts /\ Exists(Who(r))
  BY <1>2 DEF AccessInv, RequestsOK, RequestOK
<1>3. ASSUME NEW r \in Requests, request[r].at \in {"codes", "revoke", "forget"}
      PROVE  On(r) \in Accounts
  BY <1>3 DEF AccessInv, RequestsOK, RequestOK
<1>4. After
  <2> USE DEF tables, memory, SessionsExist
  <2>1. ASSUME NEW r \in Requests, LoginDevice(r)
        PROVE  After
    BY <1>1, <1>2, <2>1 DEF LoginDevice, At
  <2>2. ASSUME NEW r \in Requests, IssueSession(r)
        PROVE  After
    <3>1. Who(r) \in Accounts /\ Exists(Who(r))
      BY <1>2, <2>2 DEF IssueSession, Issuing, At
    <3>2. \A u \in Accounts : u # Who(r) => refresh'[u] = refresh[u]
      BY <1>1, <2>2 DEF IssueSession, TablesOK
    <3> QED
      BY <1>1, <2>2, <3>1, <3>2 DEF IssueSession
  <2>3. ASSUME NEW r \in Requests, Refresh(r)
        PROVE  After
    BY <1>1, <1>2, <2>3 DEF Refresh, At
  <2>4. ASSUME NEW r \in Requests, NEW u \in Accounts, Logout(r, u)
        PROVE  After
    BY <1>1, <2>4 DEF Logout, TablesOK
  <2>5. ASSUME NEW r \in Requests, Revoke(r)
        PROVE  After
    BY <1>1, <1>3, <2>5 DEF Revoke, ForgetRefresh, TablesOK, At
  <2>6. ASSUME NEW u \in Accounts, Expire(u)
        PROVE  After
    BY <1>1, <2>6 DEF Expire
  <2>7. CASE UNCHANGED <<access, challenge, refresh>>
    BY <1>1, <2>7
  <2>8. \/ UNCHANGED <<access, challenge, refresh>>
        \/ \E r \in Requests : \/ LoginDevice(r) \/ IssueSession(r) \/ Refresh(r) \/ Revoke(r)
                              \/ \E u \in Accounts : Logout(r, u)
        \/ \E u \in Accounts : Expire(u)
    BY Writers DEF Rest, Bootstrap, CodeRight, CodeWrong, RememberDevice, ForgetTrustedDevices,
       ChangePassword, MFASetup, MFAConfirm, DropFactor, DropCodes, Forget, CreateUser,
       UpdateUserRole, Deactivate, Reactivate, ResetPassword, FallQuiet, WindowPasses, Restart
  <2> QED
    BY <2>1, <2>2, <2>3, <2>4, <2>5, <2>6, <2>7, <2>8
<1> QED
  BY <1>1, <1>4, UsersStep DEF SessionsExist, NoneVanishes

\* Bootstrap writes where nobody exists, and somebody exists from then on.
LEMMA FoundedStep ==
  ASSUME AccessInv, [Next]_vars
  PROVE  FoundedOnce'
<1>1. FoundedOnce /\ NoneVanishes
  BY UsersStep DEF AccessInv
<1>2. CASE founded' = founded
  BY <1>1, <1>2 DEF FoundedOnce, NoneVanishes
<1>3. ASSUME NEW r \in Requests, Bootstrap(r), founded' # founded
      PROVE  FoundedOnce'
  <2>1. users' = FirstAdmin(Who(r)) /\ founded' = founded \cup {Who(r)} /\ founded = {}
    BY <1>1, <1>3 DEF Bootstrap, FoundedOnce
  <2>2. Who(r) \in Accounts
    BY <1>3 DEF AccessInv, RequestsOK, RequestOK, Bootstrap, At
  <2>3. users'[Who(r)].role = "admin"
    BY <2>1, <2>2 DEF FirstAdmin, AccessInv, TypeOK
  <2>4. \E v \in Accounts : Exists(v)'
    BY <2>2, <2>3 DEF Exists
  <2> QED
    BY <2>1, <2>4 DEF FoundedOnce
<1>4. founded' = founded \/ \E r \in Requests : Bootstrap(r)
  BY Writers DEF Rest, counts, Logout, LoginDevice, IssueSession, CodeRight, CodeWrong,
     RememberDevice, Refresh, ForgetTrustedDevices, ChangePassword, MFASetup, MFAConfirm,
     DropFactor, DropCodes, Revoke, Forget, CreateUser, UpdateUserRole, Deactivate, Reactivate,
     ResetPassword, Expire, FallQuiet, WindowPasses, Restart
<1> QED
  BY <1>2, <1>3, <1>4

\* Codes are written by a confirmation, as its own, and otherwise emptied.
LEMMA CodesStep ==
  ASSUME AccessInv, [Next]_vars
  PROVE  CodesOfLastEnrolment'
<1>1. CodesOfLastEnrolment /\ TablesOK
  BY DEF AccessInv, TypeOK, TablesOK
<1>2. CASE UNCHANGED <<codes, enrolled>>
  BY <1>1, <1>2 DEF CodesOfLastEnrolment
<1>3. ASSUME NEW r \in Requests, CodeRight(r)
      PROVE  CodesOfLastEnrolment'
  BY <1>1, <1>3 DEF CodesOfLastEnrolment, CodeRight, TablesOK, counts
<1>4. ASSUME NEW r \in Requests, DropCodes(r)
      PROVE  CodesOfLastEnrolment'
  BY <1>1, <1>4 DEF CodesOfLastEnrolment, DropCodes, ForgetCodes, TablesOK, counts
<1>5. ASSUME NEW r \in Requests, MFAConfirm(r)
      PROVE  CodesOfLastEnrolment'
  BY <1>1, <1>5 DEF CodesOfLastEnrolment, MFAConfirm, TablesOK
<1>6. \/ UNCHANGED <<codes, enrolled>>
      \/ \E r \in Requests : CodeRight(r) \/ DropCodes(r) \/ MFAConfirm(r)
  BY Writers DEF Rest, tables, counts, Logout, Bootstrap, LoginDevice, IssueSession, CodeWrong,
     RememberDevice, Refresh, ForgetTrustedDevices, ChangePassword, MFASetup,
     DropFactor, Revoke, Forget, CreateUser, UpdateUserRole, Deactivate, Reactivate,
     ResetPassword, Expire, FallQuiet, WindowPasses, Restart
<1> QED
  BY <1>2, <1>3, <1>4, <1>5, <1>6

-----------------------------------------------------------------------------
(* The requests *)

\* What SecondFactorAsked says of one request.
Asked(r) ==
  /\ At(r, "issue") /\ request[r].op = "login" /\ ~request[r].disturbed
  /\ factor[Who(r)] = "confirmed"
  => request[r].arg[1] = Who(r)

\* The rights of an account stay, or who is being decided upon for it is disturbed.
RightsKept ==
  \A u \in Accounts : Exists(u) =>
    \/ users'[u] = users[u] /\ factor'[u] = factor[u]
    \/ Disturbs(u)

RequestsInv ==
  /\ RequestsOK
  /\ \A r \in Requests : Cleared(r) /\ Asked(r)

\* No request enters the throttle.
NoneEnters == \A u \in Accounts : InFlight(u)' \subseteq InFlight(u)

\* Places past the first filter, and the one where a session is about to be given.
Filtered == {"password", "factor", "enrolled", "require", "admitted"}

\* Requests other than the one that takes the step stay cleared.
LEMMA OthersCleared ==
  ASSUME RequestsInv, NEW r \in Requests, OthersKept(r), RightsKept, NEW q \in Requests \ {r}
  PROVE  Cleared(q)' /\ Asked(q)'
<1> DEFINE decided == request'[q].at \in Filtered \cup {"issue"} /\ ~request'[q].disturbed
<1>1. request'[q].at = request[q].at /\ SameCase(request[q], request'[q])
  BY DEF OthersKept
<1>2. Cleared(q) /\ Asked(q) /\ RequestOK(q)
  BY DEF RequestsInv, RequestsOK
<1>3. CASE ~decided
  BY <1>3 DEF Cleared, Asked, Filtered, At
<1>4. CASE decided
  <2>1. Who(q) \in Accounts /\ Exists(Who(q))
    BY <1>1, <1>2, <1>4 DEF RequestOK, At, Filtered
  <2>2. ~Disturbs(Who(q))
    BY <1>1, <1>4 DEF Disturbs, SameCase, Who, Filtered, Deciding
  <2>3. users'[Who(q)] = users[Who(q)] /\ factor'[Who(q)] = factor[Who(q)]
    BY <2>1, <2>2 DEF RightsKept
  <2>4. ~request[q].disturbed
    BY <1>1, <1>4 DEF SameCase
  <2>5. Cleared(q)'
    BY <1>1, <1>2, <2>3, <2>4 DEF Cleared, SameCase, Who
  <2>6. Asked(q)'
    BY <1>1, <1>2, <2>3, <2>4 DEF Asked, SameCase, Who, At
  <2> QED
    BY <2>5, <2>6
<1> QED
  BY <1>3, <1>4

\* What a step has to show of its own request.
LEMMA OwnCleared ==
  ASSUME RequestsInv, NEW r \in Requests, OthersKept(r), RightsKept, RequestsOK',
         request'[r].at \in Filtered => Cleared(r)',
         request'[r].at = "issue" => Asked(r)'
  PROVE  RequestsInv'
<1>1. Cleared(r)' /\ Asked(r)'
  BY DEF Cleared, Asked, Filtered, At
<1> QED
  BY <1>1, OthersCleared DEF RequestsInv

LEMMA NoneEnter ==
  ASSUME NEW r \in Requests, OthersKept(r), request'[r].at \notin {"compare", "wrong"}
  PROVE  NoneEnters
  BY DEF NoneEnters, InFlight, OthersKept, SameCase, Who

LEMMA EndStep ==
  ASSUME RequestsInv, NEW r \in Requests, Ends(r), NoneVanishes, RightsKept
  PROVE  RequestsInv' /\ NoneEnters
<1>1. request'[r].at = "idle" /\ OthersKept(r)
  BY DEF Ends, Idle
<1>2. RequestsOK'
  BY EndKeeps DEF RequestsInv
<1> QED
  BY <1>1, <1>2, OwnCleared, NoneEnter DEF Filtered

LEMMA StartStep ==
  ASSUME RequestsInv, NEW r \in Requests, RequestsOK', RightsKept,
         NEW op, NEW u, NEW v, NEW arg, NEW place, Starts(r, op, u, v, arg, place),
         place \notin Filtered \cup {"issue", "compare", "wrong"}
  PROVE  RequestsInv' /\ NoneEnters
  BY OwnCleared, NoneEnter DEF Starts

LEMMA MoveStep ==
  ASSUME RequestsInv, NEW r \in Requests, NEW place, Moves(r, place), RequestsOK', RightsKept,
         place \in Filtered => Cleared(r)',
         place = "issue" => Asked(r)',
         place \notin {"compare", "wrong"}
  PROVE  RequestsInv' /\ NoneEnters
  BY OwnCleared, NoneEnter DEF Moves

\* Steps that leave the accounts and the factors alone.
LEMMA SameRights ==
  ASSUME users' = users, factor' = factor
  PROVE  RightsKept /\ NoneVanishes
  BY DEF RightsKept, NoneVanishes, Exists

LEMMA InvOfRequests ==
  ASSUME AccessInv
  PROVE  RequestsInv /\ request \in [Requests -> RequestRow]
  BY DEF AccessInv, RequestsInv, RequestsOK, SecondFactorAsked, Asked, PasswordAlone

\* A request that goes on, by a step that leaves accounts and factors alone.
LEMMA PlainMove ==
  ASSUME AccessInv, NEW r \in Requests, NEW place \in Places \ {"idle", "bootstrap"},
         Goto(r, place), users' = users, factor' = factor,
         ~At(r, "idle"), ~At(r, "bootstrap"),
         place \in {"login", "device"} => request[r].op = "login",
         place \in {"recovery", "compare", "wrong", "state", "remember"} =>
           request[r].op = "verify",
         place \in {"change", "setup", "confirm", "disable", "codes", "revoke", "forget",
                    "count", "write", "reset"} => request[r].op \in OnAccount,
         place = "reset" => Exists(On(r)),
         place \in Filtered => Cleared(r)',
         place = "issue" => Asked(r)',
         place \notin {"compare", "wrong"}
  PROVE  RequestsInv' /\ NoneEnters
<1>1. RequestsInv /\ request \in [Requests -> RequestRow]
  BY InvOfRequests
<1>2. RightsKept /\ NoneVanishes
  BY SameRights
<1>3. Moves(r, place)
  BY <1>1, GotoMoves
<1>4. RequestsOK'
  BY <1>1, <1>2, <1>3, MoveKeeps DEF RequestsInv
<1> QED
  BY <1>1, <1>2, <1>3, <1>4, MoveStep

\* A request that is answered, by a step that leaves accounts and factors alone.
LEMMA PlainEnd ==
  ASSUME AccessInv, NEW r \in Requests, Finish(r), users' = users, factor' = factor
  PROVE  RequestsInv' /\ NoneEnters
  BY InvOfRequests, SameRights, FinishEnds, EndStep

\* A request that begins.
LEMMA PlainStart ==
  ASSUME AccessInv, NEW r \in Requests, users' = users, factor' = factor,
         NEW op \in Operations, NEW u \in Accounts, NEW v \in Accounts \cup {NoOne},
         NEW arg \in Arguments, NEW place \in Places \ {"idle"}, Begin(r, op, u, v, arg, place),
         place = "bootstrap" <=> op = "bootstrap",
         op # "bootstrap" => Exists(u),
         place \in {"login", "device"} => op = "login",
         place \in {"recovery", "state", "remember"} => op = "verify",
         place \in {"change", "setup", "confirm", "disable", "codes", "revoke", "forget",
                    "count", "write"} => op \in OnAccount,
         place # "reset",
         op \in OnAccount => v \in Accounts,
         op \in {"role", "create"} => arg \in NewRoles,
         place \notin Filtered \cup {"issue", "compare", "wrong"}
  PROVE  RequestsInv' /\ NoneEnters
<1>1. RequestsInv /\ request \in [Requests -> RequestRow]
  BY InvOfRequests
<1>2. RightsKept /\ NoneVanishes
  BY SameRights
<1>3. Starts(r, op, u, v, arg, place)
  BY <1>1, BeginStarts
<1>4. RequestsOK'
  BY <1>1, <1>2, <1>3, StartKeeps DEF RequestsInv
<1> QED
  BY <1>1, <1>2, <1>3, <1>4, StartStep

\* Each filter lets a request go on, cleared, or answers it.
LEMMA FiltersStep ==
  ASSUME AccessInv, NEW r \in Requests, Filters(r)
  PROVE  RequestsInv' /\ NoneEnters
<1> USE DEF tables
<1>1. request \in [Requests -> RequestRow] /\ Cleared(r)
  BY InvOfRequests DEF RequestsInv
<1>2. ASSUME NEW u \in Accounts, NEW v \in Accounts,
             NEW op \in {"deactivate", "reactivate", "reset", "remove"},
             Arrive(r, u, op, v, "none")
      PROVE  RequestsInv' /\ NoneEnters
  <2>1. Exists(u)
    BY <1>2 DEF Arrive, AccessInv, SessionsExist
  <2> QED
    BY <1>2, <2>1, PlainStart DEF Arrive, Operations, OnAccount, Arguments, Places, Filtered
<1>3. ASSUME NEW u \in Accounts, NEW v \in Accounts, NEW op \in {"role", "create"},
             NEW role \in NewRoles, Arrive(r, u, op, v, role)
      PROVE  RequestsInv' /\ NoneEnters
  <2>1. Exists(u)
    BY <1>3 DEF Arrive, AccessInv, SessionsExist
  <2> QED
    BY <1>3, <2>1, PlainStart DEF Arrive, Operations, OnAccount, Arguments, Places, Filtered
<1>4. ASSUME NEW u \in Accounts, NEW op \in {"list", "inspect", "compute", "enter"},
             Arrive(r, u, op, NoOne, "none")
      PROVE  RequestsInv' /\ NoneEnters
  <2>1. Exists(u)
    BY <1>4 DEF Arrive, AccessInv, SessionsExist
  <2> QED
    BY <1>4, <2>1, PlainStart DEF Arrive, Operations, OnAccount, Arguments, Places, Filtered
<1>5. CASE DenyWrites(r)
  <2>1. CASE Goto(r, "password")
    <3>1. Cleared(r)'
      BY <1>1, <1>5, <2>1, GotoMoves DEF DenyWrites, Cleared, Moves, SameCase, Who, Places
    <3> QED
      BY <1>5, <2>1, <3>1, PlainMove DEF DenyWrites, At, Places
  <2>2. CASE Finish(r)
    BY <1>5, <2>2, PlainEnd DEF DenyWrites
  <2> QED
    BY <1>5, <2>1, <2>2 DEF DenyWrites, Check
<1>6. CASE RequirePasswordChanged(r)
  <2>1. CASE Goto(r, "factor") /\ users[Who(r)].active /\ ~users[Who(r)].mustChange
    <3>1. Cleared(r)'
      BY <1>1, <1>6, <2>1, GotoMoves
      DEF RequirePasswordChanged, Cleared, Moves, SameCase, Who, Places, At
    <3> QED
      BY <1>6, <2>1, <3>1, PlainMove DEF RequirePasswordChanged, At, Places
  <2>2. CASE Finish(r)
    BY <1>6, <2>2, PlainEnd DEF RequirePasswordChanged
  <2> QED
    BY <1>6, <2>1, <2>2 DEF RequirePasswordChanged, Check
<1>7. CASE RequireMFARole(r)
  <2>1. CASE Goto(r, "enrolled")
    <3>1. Cleared(r)'
      BY <1>1, <1>7, <2>1, GotoMoves DEF RequireMFARole, Cleared, Moves, SameCase, Who, Places, At
    <3> QED
      BY <1>7, <2>1, <3>1, PlainMove DEF RequireMFARole, At, Places
  <2>2. CASE Goto(r, "require") /\ ~RequiresSecondFactor(users[Who(r)].role)
    <3>1. Cleared(r)'
      BY <1>1, <1>7, <2>2, GotoMoves DEF RequireMFARole, Cleared, Moves, SameCase, Who, Places, At
    <3> QED
      BY <1>7, <2>2, <3>1, PlainMove DEF RequireMFARole, At, Places
  <2>3. CASE Finish(r)
    BY <1>7, <2>3, PlainEnd DEF RequireMFARole
  <2> QED
    BY <1>7, <2>1, <2>2, <2>3 DEF RequireMFARole, Check
<1>8. CASE RequireMFAEnrolled(r)
  <2>1. CASE Goto(r, "require") /\ factor[Who(r)] = "confirmed"
    <3>1. Cleared(r)'
      BY <1>1, <1>8, <2>1, GotoMoves
      DEF RequireMFAEnrolled, Cleared, Moves, SameCase, Who, Places, At
    <3> QED
      BY <1>8, <2>1, <3>1, PlainMove DEF RequireMFAEnrolled, At, Places
  <2>2. CASE Finish(r)
    BY <1>8, <2>2, PlainEnd DEF RequireMFAEnrolled
  <2> QED
    BY <1>8, <2>1, <2>2 DEF RequireMFAEnrolled, Check
<1>9. CASE Require(r)
  <2>1. CASE Goto(r, "admitted") /\ Can(users[Who(r)].role, Route[request[r].op].perm)
    <3>1. Cleared(r)'
      BY <1>1, <1>9, <2>1, GotoMoves DEF Require, Cleared, Moves, SameCase, Who, Places, At
    <3> QED
      BY <1>9, <2>1, <3>1, PlainMove DEF Require, At, Places
  <2>2. CASE Finish(r)
    BY <1>9, <2>2, PlainEnd DEF Require
  <2> QED
    BY <1>9, <2>1, <2>2 DEF Require, Check
<1>10. CASE Work(r)
  BY <1>10, PlainEnd DEF Work
<1> QED
  BY <1>2, <1>3, <1>4, <1>5, <1>6, <1>7, <1>8, <1>9, <1>10 DEF Filters

LEMMA BeginnersStep ==
  ASSUME AccessInv, NEW r \in Requests,
         \/ \E u \in Accounts : BootstrapLook(r, u) \/ RefreshRead(r, u)
         \/ \E u \in Accounts, cookie \in Cookies \cup {NoCookie} : LoginRead(r, u, cookie)
         \/ \E u \in Accounts, kind \in {"totp", "code", "other"} : VerifyRead(r, u, kind)
         \/ \E u \in Accounts : \/ ChangeRead(r, u) \/ SetupRead(r, u) \/ ConfirmRead(r, u)
                               \/ DisableRead(r, u)
  PROVE  RequestsInv' /\ NoneEnters
<1> USE DEF tables, Operations, OnAccount, Arguments, Places, Filtered
<1>1. ASSUME NEW u \in Accounts, BootstrapLook(r, u)
      PROVE  RequestsInv' /\ NoneEnters
  BY <1>1, PlainStart DEF BootstrapLook
<1>2. ASSUME NEW u \in Accounts, RefreshRead(r, u)
      PROVE  RequestsInv' /\ NoneEnters
  <2>1. Exists(u)
    BY <1>2 DEF RefreshRead, AccessInv, SessionsExist
  <2> QED
    BY <1>2, <2>1, PlainStart DEF RefreshRead
<1>3. ASSUME NEW u \in Accounts, NEW cookie \in Cookies \cup {NoCookie}, LoginRead(r, u, cookie)
      PROVE  RequestsInv' /\ NoneEnters
  <2>1. Exists(u)
    BY <1>3 DEF LoginRead, AccessInv, TypeOK, NoUser, Exists, Roles
  <2>2. cookie \in Arguments
    BY AccessAssumption DEF AccessInv, TypeOK, Cookies, NoCookie
  <2> HIDE DEF Arguments
  <2> QED
    BY <1>3, <2>1, <2>2, PlainStart DEF LoginRead
<1>4. ASSUME NEW u \in Accounts, NEW kind \in {"totp", "code", "other"}, VerifyRead(r, u, kind)
      PROVE  RequestsInv' /\ NoneEnters
  <2>1. Exists(u)
    BY <1>4 DEF VerifyRead, AccessInv, SessionsExist
  <2>2. CASE kind = "totp"
    BY <1>4, <2>1, <2>2, PlainStart DEF VerifyRead
  <2>3. CASE kind # "totp"
    BY <1>4, <2>1, <2>3, PlainStart DEF VerifyRead
  <2> QED
    BY <2>2, <2>3
<1>5. ASSUME NEW u \in Accounts, u \in access
      PROVE  Exists(u)
  BY <1>5 DEF AccessInv, SessionsExist
<1>6. ASSUME NEW u \in Accounts, ChangeRead(r, u)
      PROVE  RequestsInv' /\ NoneEnters
  BY <1>5, <1>6, PlainStart DEF ChangeRead
<1>7. ASSUME NEW u \in Accounts, SetupRead(r, u)
      PROVE  RequestsInv' /\ NoneEnters
  BY <1>5, <1>7, PlainStart DEF SetupRead
<1>8. ASSUME NEW u \in Accounts, ConfirmRead(r, u)
      PROVE  RequestsInv' /\ NoneEnters
  BY <1>5, <1>8, PlainStart DEF ConfirmRead
<1>9. ASSUME NEW u \in Accounts, DisableRead(r, u)
      PROVE  RequestsInv' /\ NoneEnters
  BY <1>5, <1>9, PlainStart DEF DisableRead
<1> QED
  BY <1>1, <1>2, <1>3, <1>4, <1>6, <1>7, <1>8, <1>9

LEMMA LoginStep ==
  ASSUME AccessInv, NEW r \in Requests,
         \/ Bootstrap(r) \/ LoginFactor(r) \/ LoginDevice(r) \/ IssueSession(r)
         \/ CodeRight(r) \/ CodeWrong(r) \/ VerifyState(r)
         \/ RememberDevice(r) \/ RememberNothing(r) \/ Refresh(r)
  PROVE  RequestsInv' /\ NoneEnters
<1> USE DEF tables, Places, Filtered
<1>1. request \in [Requests -> RequestRow] /\ RequestOK(r)
  BY InvOfRequests DEF RequestsInv, RequestsOK
<1>2. CASE Bootstrap(r)
  <2>1. NoneVanishes
    BY <1>2, UsersStep DEF Next, Public
  <2>2. RightsKept
    BY <1>2 DEF Bootstrap, RightsKept
  <2> QED
    BY <1>2, <2>1, <2>2, InvOfRequests, FinishEnds, EndStep DEF Bootstrap
<1>3. CASE LoginFactor(r)
  <2>1. CASE Goto(r, "device")
    BY <1>1, <1>3, <2>1, PlainMove DEF LoginFactor, RequestOK, At
  <2>2. CASE Goto(r, "issue") /\ factor[Who(r)] # "confirmed"
    <3>1. Asked(r)'
      BY <1>1, <1>3, <2>2, GotoMoves DEF LoginFactor, Asked, Moves, SameCase, Who
    <3> QED
      BY <1>1, <1>3, <2>2, <3>1, PlainMove DEF LoginFactor, At
  <2>3. CASE Goto(r, "unread")
    BY <1>1, <1>3, <2>3, PlainMove DEF LoginFactor, At
  <2> QED
    BY <1>3, <2>1, <2>2, <2>3 DEF LoginFactor
<1>4. CASE LoginDevice(r)
  <2>1. CASE Goto(r, "issue") /\ deviceIsTrusted(Who(r), request[r].arg)
    <3>1. Asked(r)'
      BY <1>1, <1>4, <2>1, GotoMoves DEF Asked, Moves, SameCase, Who, deviceIsTrusted
    <3> QED
      BY <1>1, <1>4, <2>1, <3>1, PlainMove DEF LoginDevice, At
  <2>2. CASE Finish(r)
    BY <1>4, <2>2, PlainEnd DEF LoginDevice
  <2> QED
    BY <1>4, <2>1, <2>2 DEF LoginDevice
<1>5. CASE IssueSession(r)
  BY <1>5, PlainEnd DEF IssueSession, Issuing, At
<1>6. CASE CodeRight(r)
  BY <1>1, <1>6, PlainMove DEF CodeRight, RequestOK, At
<1>7. CASE CodeWrong(r)
  BY <1>7, PlainEnd DEF CodeWrong
<1>8. CASE VerifyState(r)
  <2>1. CASE Goto(r, "remember")
    BY <1>1, <1>8, <2>1, PlainMove DEF VerifyState, RequestOK, At
  <2>2. CASE Finish(r)
    BY <1>8, <2>2, PlainEnd DEF VerifyState
  <2> QED
    BY <1>8, <2>1, <2>2 DEF VerifyState, Check
<1>9. CASE RememberDevice(r) \/ RememberNothing(r)
  <2>1. At(r, "remember") /\ request[r].op = "verify" /\ Goto(r, "issue")
    BY <1>1, <1>9 DEF RememberDevice, RememberNothing, RequestOK, At
  <2>2. Asked(r)'
    BY <1>1, <2>1, GotoMoves DEF Asked, Moves, SameCase
  <2> QED
    BY <1>1, <1>9, <2>1, <2>2, PlainMove DEF RememberDevice, RememberNothing, At
<1>10. CASE Refresh(r)
  BY <1>10, PlainEnd DEF Refresh
<1> QED
  BY <1>2, <1>3, <1>4, <1>5, <1>6, <1>7, <1>8, <1>9, <1>10

\* The only step that enters the throttle.
LEMMA CodeLookStep ==
  ASSUME AccessInv, NEW r \in Requests, CodeLook(r)
  PROVE  /\ RequestsInv'
         /\ NoneEnters \/ ~blocked(Who(r))
         /\ \A u \in Accounts : InFlight(u)' \subseteq InFlight(u) \cup {r}
         /\ \A u \in Accounts : u # Who(r) => InFlight(u)' \subseteq InFlight(u)
<1> USE DEF tables, Places, Filtered
<1>1. request \in [Requests -> RequestRow] /\ RequestOK(r) /\ RequestsInv
  BY InvOfRequests DEF RequestsInv, RequestsOK
<1>2. RightsKept /\ NoneVanishes
  BY SameRights DEF CodeLook
<1>3. CASE Finish(r)
  <2>1. RequestsInv' /\ NoneEnters
    BY <1>3, PlainEnd DEF CodeLook
  <2> QED
    BY <2>1 DEF NoneEnters
<1>4. ASSUME NEW place \in {"compare", "wrong"}, Goto(r, place), ~blocked(Who(r))
      PROVE  /\ RequestsInv'
             /\ \A u \in Accounts : InFlight(u)' \subseteq InFlight(u) \cup {r}
             /\ \A u \in Accounts : u # Who(r) => InFlight(u)' \subseteq InFlight(u)
  <2>1. Moves(r, place)
    BY <1>1, <1>4, GotoMoves
  <2>2. RequestsOK'
    BY <1>1, <1>2, <1>4, <2>1, MoveKeeps DEF RequestsInv, CodeLook, RequestOK, At
  <2>3. RequestsInv'
    BY <1>1, <1>2, <1>4, <2>1, <2>2, OwnCleared DEF Moves
  <2>4. \A u \in Accounts : InFlight(u)' \subseteq InFlight(u) \cup {r}
    BY <2>1 DEF InFlight, Moves, OthersKept, SameCase, Who
  <2>5. \A u \in Accounts : u # Who(r) => InFlight(u)' \subseteq InFlight(u)
    BY <2>1 DEF InFlight, Moves, OthersKept, SameCase, Who
  <2> QED
    BY <2>3, <2>4, <2>5
<1> QED
  BY <1>3, <1>4 DEF CodeLook, Check

\* A step that changes the rights of one account, and disturbs who is being
\* decided upon for it.
LEMMA RightsOfOne ==
  ASSUME NEW u \in Accounts, Disturbs(u),
         \A v \in Accounts \ {u} : users'[v] = users[v] /\ factor'[v] = factor[v]
  PROVE  RightsKept
  BY DEF RightsKept

LEMMA DisturbingMove ==
  ASSUME AccessInv, [Next]_vars, NEW r \in Requests, NEW u \in Accounts,
         NEW place \in {"revoke", "forget", "codes"}, GotoDisturbing(r, place, u),
         \A v \in Accounts \ {u} : users'[v] = users[v] /\ factor'[v] = factor[v],
         ~At(r, "idle"), ~At(r, "bootstrap"), request[r].op \in OnAccount
  PROVE  RequestsInv' /\ NoneEnters
<1> USE DEF Places, Filtered
<1>1. RequestsInv /\ request \in [Requests -> RequestRow] /\ NoneVanishes
  BY InvOfRequests, UsersStep
<1>2. Moves(r, place) /\ Disturbs(u)
  BY <1>1, GotoDisturbingMoves
<1>3. RightsKept
  BY <1>2, RightsOfOne
<1>4. RequestsOK'
  BY <1>1, <1>2, MoveKeeps DEF RequestsInv
<1> QED
  BY <1>1, <1>2, <1>3, <1>4, MoveStep

LEMMA DisturbingEnd ==
  ASSUME AccessInv, [Next]_vars, NEW r \in Requests, NEW u \in Accounts,
         FinishDisturbing(r, u),
         \A v \in Accounts \ {u} : users'[v] = users[v] /\ factor'[v] = factor[v]
  PROVE  RequestsInv' /\ NoneEnters
<1>1. RequestsInv /\ request \in [Requests -> RequestRow] /\ NoneVanishes
  BY InvOfRequests, UsersStep
<1>2. Ends(r) /\ Disturbs(u)
  BY <1>1, FinishDisturbingEnds
<1>3. RightsKept
  BY <1>2, RightsOfOne
<1> QED
  BY <1>1, <1>2, <1>3, EndStep

LEMMA OwnStep ==
  ASSUME AccessInv, NEW r \in Requests,
         \/ ChangePassword(r) \/ MFASetup(r) \/ MFAConfirm(r) \/ DropFactor(r)
         \/ DropCodes(r) \/ Revoke(r) \/ Forget(r) \/ IgnoreFailure(r)
  PROVE  RequestsInv' /\ NoneEnters
<1> USE DEF tables, Places, Filtered
<1>1. request \in [Requests -> RequestRow] /\ RequestOK(r) /\ [Next]_vars
  BY InvOfRequests DEF RequestsInv, RequestsOK, Next, Own
<1>2. /\ users \in [Accounts -> AccountRow \cup {NoUser}]
      /\ factor \in [Accounts -> {"none", "prepared", "confirmed"}]
  BY DEF AccessInv, TypeOK, AccountRow
<1>3. ~At(r, "idle") => Who(r) \in Accounts
  BY <1>1 DEF RequestOK
<1>4. request[r].at \in {"change", "setup", "confirm", "disable", "codes", "revoke", "forget"} =>
        request[r].op \in OnAccount /\ On(r) \in Accounts
  BY <1>1 DEF RequestOK
<1>5. CASE ChangePassword(r)
  BY <1>1, <1>2, <1>3, <1>4, <1>5, DisturbingMove DEF ChangePassword, At
<1>6. CASE MFASetup(r)
  BY <1>1, <1>2, <1>3, <1>4, <1>6, DisturbingEnd DEF MFASetup, At
<1>7. CASE MFAConfirm(r)
  BY <1>1, <1>2, <1>3, <1>4, <1>7, DisturbingMove DEF MFAConfirm, At
<1>8. CASE DropFactor(r)
  BY <1>1, <1>2, <1>3, <1>4, <1>8, DisturbingMove DEF DropFactor, At
<1>9. ASSUME At(r, "codes") \/ At(r, "revoke"), UNCHANGED <<users, factor>>,
             NEW place \in {"forget", "revoke"}, Goto(r, place)
      PROVE  RequestsInv' /\ NoneEnters
  BY <1>1, <1>4, <1>9, PlainMove DEF At
<1>10. CASE DropCodes(r)
  BY <1>9, <1>10 DEF DropCodes
<1>11. CASE Revoke(r)
  BY <1>9, <1>11, PlainEnd DEF Revoke, Check
<1>12. CASE Forget(r)
  BY <1>12, PlainEnd DEF Forget
<1>13. CASE IgnoreFailure(r)
  BY <1>9, <1>13, PlainEnd DEF IgnoreFailure, Check
<1> QED
  BY <1>5, <1>6, <1>7, <1>8, <1>10, <1>11, <1>12, <1>13

LEMMA AdministrationStep ==
  ASSUME AccessInv, NEW r \in Requests, Administration(r)
  PROVE  RequestsInv' /\ NoneEnters
<1> USE DEF tables, Places, Filtered
<1>1. request \in [Requests -> RequestRow] /\ RequestOK(r) /\ [Next]_vars
  BY InvOfRequests DEF RequestsInv, RequestsOK, Next
<1>2. /\ users \in [Accounts -> AccountRow \cup {NoUser}]
      /\ factor \in [Accounts -> {"none", "prepared", "confirmed"}]
  BY DEF AccessInv, TypeOK, AccountRow
<1>3. CASE CreateUser(r)
  <2>1. On(r) \in Accounts /\ ~Exists(On(r))
    BY <1>1, <1>3 DEF CreateUser, RequestOK, OnAccount
  <2>2. RightsKept
    BY <1>2, <1>3, <2>1 DEF CreateUser, RightsKept
  <2> QED
    BY <1>1, <1>3, <2>2, InvOfRequests, UsersStep, FinishEnds, EndStep DEF CreateUser
<1>4. CASE LastAdminTarget(r)
  BY <1>1, <1>4, PlainMove DEF LastAdminTarget, Removes, OnAccount, At
<1>5. CASE LastAdminCount(r)
  <2>1. CASE Goto(r, "write")
    BY <1>1, <1>5, <2>1, PlainMove DEF LastAdminCount, RequestOK, At
  <2>2. CASE Finish(r)
    BY <1>5, <2>2, PlainEnd DEF LastAdminCount
  <2> QED
    BY <1>5, <2>1, <2>2 DEF LastAdminCount, Check
<1>6. CASE UpdateUserRole(r)
  <2>1. On(r) \in Accounts
    BY <1>1, <1>6 DEF UpdateUserRole, RequestOK, OnAccount
  <2> QED
    BY <1>1, <1>2, <1>6, <2>1, DisturbingEnd DEF UpdateUserRole
<1>7. CASE Deactivate(r)
  <2>1. On(r) \in Accounts /\ request[r].op \in OnAccount
    BY <1>1, <1>7 DEF Deactivate, RequestOK, OnAccount
  <2> QED
    BY <1>1, <1>2, <1>7, <2>1, DisturbingMove DEF Deactivate, At
<1>8. CASE Reactivate(r)
  <2>1. On(r) \in Accounts
    BY <1>1, <1>8 DEF Reactivate, RequestOK, OnAccount
  <2> QED
    BY <1>1, <1>2, <1>8, <2>1, DisturbingEnd DEF Reactivate
<1>9. CASE ResetRead(r)
  <2>1. CASE Goto(r, "reset") /\ users[On(r)].active
    <3>1. request[r].op \in OnAccount /\ On(r) \in Accounts
      BY <1>1, <1>9 DEF ResetRead, RequestOK, OnAccount
    <3>2. Exists(On(r))
      BY <1>2, <2>1, <3>1 DEF Exists, NoUser, AccountRow, Roles
    <3> QED
      BY <1>1, <1>9, <2>1, <3>1, <3>2, PlainMove DEF ResetRead, At
  <2>2. CASE Finish(r)
    BY <1>9, <2>2, PlainEnd DEF ResetRead
  <2> QED
    BY <1>9, <2>1, <2>2 DEF ResetRead, Check
<1>10. CASE ResetPassword(r)
  <2>1. On(r) \in Accounts /\ request[r].op \in OnAccount
    BY <1>1, <1>10 DEF ResetPassword, RequestOK, At
  <2> QED
    BY <1>1, <1>2, <1>10, <2>1, DisturbingMove DEF ResetPassword, At
<1>11. CASE RemoveMFA(r)
  BY <1>1, <1>11, PlainMove DEF RemoveMFA, OnAccount, At
<1>12. CASE NoSuchTarget(r)
  BY <1>12, PlainEnd DEF NoSuchTarget
<1> QED
  BY <1>3, <1>4, <1>5, <1>6, <1>7, <1>8, <1>9, <1>10, <1>11, <1>12 DEF Administration

LEMMA StillStep ==
  ASSUME RequestsInv, UNCHANGED <<request, users, factor>>
  PROVE  RequestsInv' /\ NoneEnters
  BY DEF RequestsInv, RequestsOK, RequestOK, Cleared, Asked, NoneEnters, InFlight, At, Who, On,
         Exists

LEMMA RestartStep ==
  ASSUME Restart
  PROVE  RequestsInv' /\ NoneEnters
<1>1. request' = [r \in Requests |-> Idle]
  BY DEF Restart
<1>2. RequestsOK'
  BY <1>1, IdleRow DEF RequestsOK, RequestOK, At, Who, On, Idle, OnAccount
<1>3. \A r \in Requests : Cleared(r)' /\ Asked(r)'
  BY <1>1 DEF Cleared, Asked, At, Idle
<1>4. NoneEnters
  BY <1>1 DEF NoneEnters, InFlight, Idle
<1> QED
  BY <1>2, <1>3, <1>4 DEF RequestsInv

\* What every step does to the requests.
LEMMA RequestsStep ==
  ASSUME AccessInv, [Next]_vars
  PROVE  RequestsInv' /\ (NoneEnters \/ \E r \in Requests : CodeLook(r))
<1> DEFINE Goal == RequestsInv' /\ (NoneEnters \/ \E r \in Requests : CodeLook(r))
<1>1. RequestsInv
  BY InvOfRequests
<1>2. CASE UNCHANGED vars
  BY <1>1, <1>2, StillStep DEF vars
<1>3. ASSUME NEW r \in Requests, Public(r)
      PROVE  Goal
  <2>1. ASSUME NEW u \in Accounts, Logout(r, u)
        PROVE  Goal
    BY <1>1, <2>1, StillStep DEF Logout
  <2>2. CASE CodeLook(r)
    BY <2>2, CodeLookStep
  <2> QED
    BY <1>3, <2>1, <2>2, BeginnersStep, LoginStep DEF Public
<1>4. ASSUME NEW r \in Requests, Own(r)
      PROVE  Goal
  <2>1. ASSUME NEW u \in Accounts, ForgetTrustedDevices(r, u)
        PROVE  Goal
    BY <1>1, <2>1, StillStep DEF ForgetTrustedDevices
  <2> QED
    BY <1>4, <2>1, BeginnersStep, OwnStep DEF Own
<1>5. ASSUME NEW r \in Requests, Filters(r) \/ Administration(r)
      PROVE  Goal
  BY <1>5, FiltersStep, AdministrationStep
<1>6. ASSUME NEW r \in Requests, Abandon(r)
      PROVE  Goal
  BY <1>6, PlainEnd DEF Abandon, tables
<1>7. ASSUME NEW u \in Accounts, Expire(u) \/ FallQuiet(u) \/ WindowPasses(u)
      PROVE  Goal
  BY <1>1, <1>7, StillStep DEF Expire, FallQuiet, WindowPasses, tables
<1>8. CASE Restart
  BY <1>8, RestartStep
<1> QED
  BY <1>2, <1>3, <1>4, <1>5, <1>6, <1>7, <1>8 DEF Next

-----------------------------------------------------------------------------
(* The throttle *)

LEMMA InFlightBound ==
  ASSUME NEW u
  PROVE  /\ IsFiniteSet(InFlight(u))
         /\ Cardinality(InFlight(u)) \in Nat
         /\ Cardinality(Requests) \in Nat
         /\ Cardinality(InFlight(u)) <= Cardinality(Requests)
<1>1. InFlight(u) \subseteq Requests
  BY DEF InFlight
<1> QED
  BY <1>1, AccessAssumption, FS_Subset, FS_CardinalityType

\* Fewer in flight, more room.
LEMMA InFlightLess ==
  ASSUME NEW u, InFlight(u)' \subseteq InFlight(u)
  PROVE  /\ Cardinality(InFlight(u)') \in Nat
         /\ Cardinality(InFlight(u)') <= Cardinality(InFlight(u))
<1>1. IsFiniteSet(InFlight(u))
  BY InFlightBound
<1> QED
  BY <1>1, FS_Subset, FS_CardinalityType

\* A step that lets none into the throttle, and counts nothing but a failure
\* of a request that leaves it.
LEMMA ThrottledStep ==
  ASSUME AccessInv, [Next]_vars
  PROVE  Throttled'
<1> DEFINE n == Cardinality(Requests)
<1>1. Throttled /\ failures \in [Accounts -> Nat] /\ tried \in [Accounts -> Nat]
  BY DEF AccessInv, TypeOK
<1>2. MaxFailures \in Nat \ {0} /\ n \in Nat
  BY AccessAssumption, InFlightBound
<1>3. ASSUME NEW r \in Requests, CodeLook(r)
      PROVE  Throttled'
  <2>1. UNCHANGED <<tried, failures>>
    BY <1>3 DEF CodeLook, memory
  <2>2. ASSUME NEW u \in Accounts, InFlight(u)' \subseteq InFlight(u)
        PROVE  tried[u] + Cardinality(InFlight(u)') <= MaxFailures + n - 1
    <3>1. /\ tried[u] + Cardinality(InFlight(u)) <= MaxFailures + n - 1
          /\ tried[u] \in Nat /\ Cardinality(InFlight(u)) \in Nat
      BY <1>1, InFlightBound DEF Throttled
    <3>2. /\ Cardinality(InFlight(u)') \in Nat
          /\ Cardinality(InFlight(u)') <= Cardinality(InFlight(u))
      BY <2>2, InFlightLess
    <3> HIDE DEF n
    <3> QED
      BY <1>2, <3>1, <3>2
  <2>3. ASSUME NEW u \in Accounts, ~(InFlight(u)' \subseteq InFlight(u))
        PROVE  tried[u] + Cardinality(InFlight(u)') <= MaxFailures + n - 1
    <3>1. u = Who(r) /\ ~blocked(u)
      BY <1>3, <2>3, CodeLookStep DEF NoneEnters
    <3>2. tried[u] < MaxFailures
      BY <1>1, <1>2, <3>1 DEF blocked, Throttled
    <3>3. InFlight(u)' \subseteq Requests
      BY DEF InFlight
    <3>4. Cardinality(InFlight(u)') \in Nat /\ Cardinality(InFlight(u)') <= n
      BY <3>3, AccessAssumption, FS_Subset, FS_CardinalityType
    <3> HIDE DEF n
    <3> QED
      BY <1>1, <1>2, <3>2, <3>4
  <2> QED
    BY <1>1, <2>1, <2>2, <2>3 DEF Throttled
<1>4. ASSUME NoneEnters, \A u \in Accounts : /\ tried'[u] = failures'[u]
                                            /\ tried'[u] \in {0, tried[u]}
      PROVE  Throttled'
  <2>1. ASSUME NEW u \in Accounts
        PROVE  tried'[u] + Cardinality(InFlight(u)') <= MaxFailures + n - 1
    <3>1. /\ tried[u] + Cardinality(InFlight(u)) <= MaxFailures + n - 1
          /\ tried[u] \in Nat /\ Cardinality(InFlight(u)) \in Nat
          /\ Cardinality(InFlight(u)) <= n
      BY <1>1, InFlightBound DEF Throttled
    <3>2. /\ Cardinality(InFlight(u)') \in Nat
          /\ Cardinality(InFlight(u)') <= Cardinality(InFlight(u))
      BY <1>4, InFlightLess DEF NoneEnters
    <3>3. tried'[u] \in {0, tried[u]}
      BY <1>4
    <3> HIDE DEF n
    <3> QED
      BY <1>2, <3>1, <3>2, <3>3
  <2> QED
    BY <1>4, <2>1 DEF Throttled
<1>5. ASSUME NEW r \in Requests, CodeWrong(r)
      PROVE  Throttled'
  <2>1. /\ request \in [Requests -> RequestRow] /\ request[r].at \in {"compare", "wrong"}
        /\ Who(r) \in Accounts
    BY <1>5, InvOfRequests DEF AccessInv, RequestsOK, RequestOK, CodeWrong, At
  <2>2. Ends(r)
    BY <1>5, <2>1, FinishEnds DEF CodeWrong
  <2>3. NoneEnters
    BY <2>2, NoneEnter DEF Ends, Idle
  <2>4. r \in InFlight(Who(r)) /\ r \notin InFlight(Who(r))'
    BY <2>1, <2>2 DEF InFlight, Ends, Idle
  <2>5. ASSUME NEW u \in Accounts
        PROVE  /\ tried'[u] = failures'[u]
               /\ tried'[u] + Cardinality(InFlight(u)') <= MaxFailures + n - 1
    <3>1. /\ tried[u] + Cardinality(InFlight(u)) <= MaxFailures + n - 1
          /\ tried[u] = failures[u]
          /\ tried[u] \in Nat /\ Cardinality(InFlight(u)) \in Nat
      BY <1>1, InFlightBound DEF Throttled
    <3>2. /\ Cardinality(InFlight(u)') \in Nat
          /\ Cardinality(InFlight(u)') <= Cardinality(InFlight(u))
      BY <2>3, InFlightLess DEF NoneEnters
    <3>3. CASE u # Who(r)
      <4>1. tried'[u] = tried[u] /\ failures'[u] = failures[u]
        BY <1>1, <1>5, <3>3 DEF CodeWrong
      <4> HIDE DEF n
      <4> QED
        BY <1>2, <3>1, <3>2, <4>1
    <3>4. CASE u = Who(r)
      <4>1. tried'[u] = tried[u] + 1 /\ failures'[u] = failures[u] + 1
        BY <1>1, <1>5, <3>4 DEF CodeWrong
      <4>2. InFlight(u)' \subseteq InFlight(u) \ {r} /\ r \in InFlight(u)
        <5>1. r \in InFlight(u) /\ request'[r].at \notin {"compare", "wrong"}
          BY <2>2, <2>4, <3>4 DEF Ends, Idle
        <5> QED
          BY <2>3, <5>1 DEF NoneEnters, InFlight
      <4>3. /\ Cardinality(InFlight(u) \ {r}) = Cardinality(InFlight(u)) - 1
            /\ IsFiniteSet(InFlight(u) \ {r})
        BY <4>2, InFlightBound, FS_RemoveElement
      <4>4. Cardinality(InFlight(u)') <= Cardinality(InFlight(u)) - 1
        BY <4>2, <4>3, FS_Subset
      <4> HIDE DEF n
      <4> QED
        BY <1>2, <3>1, <3>2, <4>1, <4>4
    <3> QED
      BY <3>3, <3>4
  <2> QED
    BY <2>5 DEF Throttled
<1>6. \/ \E r \in Requests : CodeWrong(r)
      \/ \A u \in Accounts : tried'[u] = failures'[u] /\ tried'[u] \in {0, tried[u]}
  <2> USE <1>1 DEF Throttled
  <2>1. CASE UNCHANGED <<tried, failures>>
    BY <2>1
  <2>2. ASSUME NEW r \in Requests, CodeRight(r)
        PROVE  \A u \in Accounts : tried'[u] = failures'[u] /\ tried'[u] \in {0, tried[u]}
    BY <2>2 DEF CodeRight
  <2>3. ASSUME NEW v \in Accounts, WindowPasses(v)
        PROVE  \A u \in Accounts : tried'[u] = failures'[u] /\ tried'[u] \in {0, tried[u]}
    BY <2>3 DEF WindowPasses
  <2>4. ASSUME Restart
        PROVE  \A u \in Accounts : tried'[u] = failures'[u] /\ tried'[u] \in {0, tried[u]}
    BY <2>4 DEF Restart
  <2>5. \/ UNCHANGED <<tried, failures>>
        \/ \E r \in Requests : CodeRight(r) \/ CodeWrong(r)
        \/ \E u \in Accounts : WindowPasses(u)
        \/ Restart
    BY Writers DEF Rest, memory, Logout, Bootstrap, LoginDevice, IssueSession,
       RememberDevice, Refresh, ForgetTrustedDevices, ChangePassword, MFASetup, MFAConfirm,
       DropFactor, DropCodes, Revoke, Forget, CreateUser, UpdateUserRole, Deactivate, Reactivate,
       ResetPassword, Expire, FallQuiet
  <2> QED
    BY <2>1, <2>2, <2>3, <2>4, <2>5
<1> QED
  BY <1>3, <1>4, <1>5, <1>6, RequestsStep

-----------------------------------------------------------------------------
(* The theorems *)

LEMMA InitInv == Init => AccessInv
<1> SUFFICES ASSUME Init PROVE AccessInv
  OBVIOUS
<1> USE AccessAssumption
<1>1. users \in [Accounts -> AccountRow \cup {NoUser}]
  <2>1. PICK roles \in Populations :
          users = [u \in Accounts |->
                     IF u \in DOMAIN roles
                     THEN [role |-> roles[u], active |-> TRUE, mustChange |-> FALSE]
                     ELSE NoUser]
    BY DEF Init
  <2>2. \A u \in DOMAIN roles :
          [role |-> roles[u], active |-> TRUE, mustChange |-> FALSE] \in AccountRow
    BY DEF AccountRow
  <2> QED
    BY <2>1, <2>2
<1>2. TablesOK
  <2>1. \A u \in Accounts : factor[u] \in {"none", "confirmed"}
    BY DEF Init
  <2> QED
    BY <2>1 DEF Init, TablesOK
<1>3. RequestsOK
  BY IdleRow DEF Init, RequestsOK, RequestOK, At, Who, On, Idle, OnAccount
<1>4. TypeOK
  BY <1>1, <1>2 DEF Init, TypeOK, TablesOK, AccountRow
<1>5. SessionsExist
  <2>1. \A u \in Accounts : factor[u] = "confirmed" => Exists(u)
    BY DEF Init, Exists, RequiresSecondFactor
  <2> QED
    BY <2>1 DEF Init, SessionsExist, Exists
<1>6. FoundedOnce
  BY DEF Init, FoundedOnce
<1>7. Throttled
  <2>1. \A u \in Accounts : InFlight(u) = {}
    BY DEF Init, InFlight, Idle
  <2> QED
    BY <2>1, InFlightBound, FS_EmptySet DEF Init, Throttled
<1>8. CodesOfLastEnrolment
  BY DEF Init, CodesOfLastEnrolment
<1>9. (\A r \in Requests : Cleared(r)) /\ SecondFactorAsked
  BY DEF Init, Cleared, SecondFactorAsked, At, Idle
<1> QED
  BY <1>3, <1>4, <1>5, <1>6, <1>7, <1>8, <1>9 DEF AccessInv

LEMMA StepInv == AccessInv /\ [Next]_vars => AccessInv'
<1> SUFFICES ASSUME AccessInv, [Next]_vars PROVE AccessInv'
  OBVIOUS
<1>1. RequestsInv'
  BY RequestsStep
<1>2. RequestsOK' /\ (\A r \in Requests : Cleared(r)') /\ SecondFactorAsked'
  BY <1>1 DEF RequestsInv, SecondFactorAsked, Asked, PasswordAlone
<1> QED
  BY <1>2, TypeStep, SessionsStep, FoundedStep, CodesStep, ThrottledStep DEF AccessInv

LEMMA Invariance == Spec => []AccessInv
  BY InitInv, StepInv, PTL DEF Spec

\* Users, factors, codes, devices, tokens, counters and requests have their
\* types along every run of the handlers.
THEOREM AccessTyped == Spec => []TypeOK
<1>1. AccessInv => TypeOK
  BY DEF AccessInv
<1> QED
  BY <1>1, Invariance, PTL

\* What the chain of filters lets through to a handler is allowed by the
\* account as it stands, however many requests and administrators there are,
\* unless that very request was disturbed.
THEOREM HandlersWorkAsAllowed == Spec => []WorkAsAllowed
<1>1. AccessInv => WorkAsAllowed
  BY DEF AccessInv, WorkAsAllowed, Cleared, At
<1> QED
  BY <1>1, Invariance, PTL

\* A login of one step is of an account without a second factor, or comes with
\* the token of a device of that same account, unless the factor of the account
\* could not be read.
THEOREM FactorAsked == Spec => []SecondFactorAsked
<1>1. AccessInv => SecondFactorAsked
  BY DEF AccessInv
<1> QED
  BY <1>1, Invariance, PTL

\* Bootstrap creates at most one account: its count, read again in the
\* transaction of the insertion, shuts out all those that looked before.
THEOREM OneBootstrap == Spec => []BootstrapOnce
<1>1. AccessInv => BootstrapOnce
  <2> SUFFICES ASSUME AccessInv PROVE Cardinality(founded) <= 1
    BY DEF BootstrapOnce
  <2>1. CASE founded = {}
    BY <2>1, FS_EmptySet
  <2>2. ASSUME NEW u \in founded
        PROVE  Cardinality(founded) <= 1
    <3>1. \A v \in founded : v = u
      BY DEF AccessInv, FoundedOnce
    <3>2. founded = {u}
      BY <3>1
    <3>3. Cardinality({u}) = 1
      BY FS_Singleton
    <3> QED
      BY <3>2, <3>3
  <2> QED
    BY <2>1, <2>2
<1> QED
  BY <1>1, Invariance, PTL

\* The recovery codes in force are those of the last confirmation.
THEOREM CodesAreLast == Spec => []CodesOfLastEnrolment
<1>1. AccessInv => CodesOfLastEnrolment
  BY DEF AccessInv
<1> QED
  BY <1>1, Invariance, PTL

\* The throttle of the recovery codes exceeds its limit by no more than the
\* connections that were past it when it was reached.
THEOREM ThrottleHolds == Spec => []ThrottleBounds
<1>1. AccessInv => ThrottleBounds
  <2> SUFFICES ASSUME AccessInv, NEW u \in Accounts
               PROVE  tried[u] <= MaxFailures + Cardinality(Requests) - 1
    BY DEF ThrottleBounds
  <2>1. /\ tried[u] + Cardinality(InFlight(u)) <= MaxFailures + Cardinality(Requests) - 1
        /\ tried[u] \in Nat
    BY DEF AccessInv, Throttled, TypeOK
  <2> QED
    BY <2>1, InFlightBound, AccessAssumption
<1> QED
  BY <1>1, Invariance, PTL

\* An account gone quiet obtains an access token where a login issues one,
\* and nowhere else: not from the cookie of its refresh token.
THEOREM QuietNeedsLogin == Spec => QuietStaysOut
<1> DEFINE Stays ==
      \A u \in quiet : u \in access' \ access => \E r \in Requests : Issuing(r) /\ Who(r) = u
<1>1. [Next]_vars => [Stays]_vars
  <2> SUFFICES ASSUME [Next]_vars PROVE Stays
    OBVIOUS
  <2>1. CASE access' \subseteq access
    BY <2>1
  <2>2. ASSUME NEW r \in Requests, IssueSession(r)
        PROVE  Stays
    BY <2>2 DEF IssueSession
  <2>3. ASSUME NEW r \in Requests, Refresh(r)
        PROVE  Stays
    BY <2>3 DEF Refresh
  <2>4. \/ access' \subseteq access
        \/ \E r \in Requests : IssueSession(r) \/ Refresh(r)
    BY Writers DEF Rest, memory, Logout, Bootstrap, LoginDevice, CodeRight, CodeWrong,
       RememberDevice, ForgetTrustedDevices, ChangePassword, MFASetup, MFAConfirm,
       DropFactor, DropCodes, Revoke, Forget, CreateUser, UpdateUserRole, Deactivate, Reactivate,
       ResetPassword, Expire, FallQuiet, WindowPasses, Restart
  <2> QED
    BY <2>1, <2>2, <2>3, <2>4
<1> QED
  BY <1>1, PTL DEF Spec, QuietStaysOut
=============================================================================
