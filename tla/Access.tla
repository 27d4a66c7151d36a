------------------------------- MODULE Access -------------------------------
(***************************************************************************)
(* Accounts, sessions and rights: the first administrator, the login in    *)
(* one or two steps, the second factor with its recovery codes and its     *)
(* trusted devices, the filters every request of the application passes,   *)
(* and the administration of accounts.                                     *)
(*                                                                         *)
(* No handler runs in a transaction, but for the confirmation of a second  *)
(* factor and the first account: each statement is a step, and requests    *)
(* interleave between them.                                                *)
(*                                                                         *)
(* Passwords and codes are abstracted: a request that presents a wrong one *)
(* is refused and changes nothing, except that a wrong recovery code       *)
(* counts; whether a code of the application is right, and of a window not *)
(* yet consumed, is a choice of the step that checks it.  A token is known *)
(* by the account it names.                                                *)
(***************************************************************************)
EXTENDS Integers, FiniteSets

CONSTANTS
  Accounts,      \* accounts that may exist
  Requests,      \* connections
  Populations,   \* installations met at the start: roles of their accounts
  NewRoles,      \* roles given by the administration
  MaxFailures,   \* recoveryMaxFailures
  MaxEnrolments, \* bound: confirmations per account
  MaxDevices,    \* bound: devices remembered per account
  MaxTokens,     \* bound: live refresh tokens per account
  MaxServed      \* bound: requests served

Roles == {"admin", "accountant", "viewer"}

NoUser == [role |-> "none", active |-> FALSE, mustChange |-> FALSE]

NoOne == "no one"

ASSUME AccessAssumption ==
  /\ NoOne \notin Accounts
  /\ \A p \in Populations : DOMAIN p \subseteq Accounts /\ \A u \in DOMAIN p : p[u] \in Roles
  /\ NewRoles \subseteq Roles
  /\ MaxFailures \in Nat \ {0}
  /\ MaxEnrolments \in Nat \ {0}
  /\ {MaxDevices, MaxTokens, MaxServed} \subseteq Nat
  /\ IsFiniteSet(Requests)

VARIABLES
  users,     \* table users
  factor,    \* table user_mfa: "none", "prepared" or "confirmed"
  codes,     \* table mfa_recovery_codes, unused: the enrolment they belong to
  devices,   \* table trusted_devices
  refresh,   \* table refresh_tokens: live tokens per account
  access,    \* accounts for which an access token is valid
  challenge, \* accounts for which a token of a half login is valid
  quiet,     \* accounts that ActivityTracker finds expired
  failures,  \* recoveryThrottle: failures within the window
  request,   \* what each connection serves
  served,    \* number of requests begun
  enrolled,  \* history: confirmations per account
  given,     \* history: device tokens handed out per account
  tried,     \* history: recovery codes compared and refused within the window
  founded    \* history: accounts created by Bootstrap

tables == <<users, factor, codes, devices, refresh>>
memory == <<access, challenge, quiet, failures, tried>>
counts == <<enrolled, given, founded>>
vars == <<users, factor, codes, devices, refresh, access, challenge, quiet,
          failures, request, served, enrolled, given, tried, founded>>

-----------------------------------------------------------------------------
(* Rights *)

Can(role, perm) ==
  CASE role = "admin" -> perm \in {"read", "documents", "accounting", "manage", "admin"}
    [] role = "accountant" -> perm \in {"read", "documents", "accounting", "manage"}
    [] role = "viewer" -> perm = "read"
    [] OTHER -> FALSE

RequiresSecondFactor(role) == role \in {"admin", "accountant"}

\* Operations behind the filters: the permission of their route, and whether
\* its method writes.  A POST may ask for no more than reading.
Route == [list       |-> [perm |-> "read",       write |-> FALSE],
          inspect    |-> [perm |-> "manage",     write |-> FALSE],
          compute    |-> [perm |-> "read",       write |-> TRUE],
          enter      |-> [perm |-> "accounting", write |-> TRUE],
          role       |-> [perm |-> "admin",      write |-> TRUE],
          deactivate |-> [perm |-> "admin",      write |-> TRUE],
          reactivate |-> [perm |-> "admin",      write |-> TRUE],
          create     |-> [perm |-> "admin",      write |-> TRUE],
          reset      |-> [perm |-> "admin",      write |-> TRUE],
          remove     |-> [perm |-> "admin",      write |-> TRUE]]

\* Operations on an account other than one's own.
OnAnother == {"role", "deactivate", "reset", "remove"}

-----------------------------------------------------------------------------
(* Requests *)

Exists(u) == users[u].role # "none"

Idle == [at |-> "idle", op |-> "none", who |-> NoOne, on |-> NoOne, arg |-> "none",
         disturbed |-> FALSE]

At(r, place) == request[r].at = place

Who(r) == request[r].who

On(r) == request[r].on

Begin(r, op, u, v, arg, place) ==
  /\ request[r] = Idle
  /\ served < MaxServed
  /\ served' = served + 1
  /\ request' = [request EXCEPT ![r] = [Idle EXCEPT !.at = place, !.op = op, !.who = u,
                                               !.on = v, !.arg = arg]]

Goto(r, place) ==
  /\ request' = [request EXCEPT ![r].at = place]
  /\ UNCHANGED served

\* The answer is sent, be it a refusal.
Finish(r) ==
  /\ request' = [request EXCEPT ![r] = Idle]
  /\ UNCHANGED served

\* Places at which what a request is allowed is being decided.
Deciding == {"login", "device", "issue", "unread", "deny", "password", "factor", "enrolled", "require",
             "admitted"}

\* The same, with a change of the rights of u: who is being decided upon at
\* that moment is disturbed (history).
Disturb(u, requests) ==
  [q \in Requests |-> IF requests[q].who = u /\ requests[q].at \in Deciding
                      THEN [requests[q] EXCEPT !.disturbed = TRUE] ELSE requests[q]]

GotoDisturbing(r, place, u) ==
  /\ request' = Disturb(u, [request EXCEPT ![r].at = place])
  /\ UNCHANGED served

FinishDisturbing(r, u) ==
  /\ request' = Disturb(u, [request EXCEPT ![r] = Idle])
  /\ UNCHANGED served

\* Go on if the condition holds, answer with a refusal otherwise.
Check(r, condition, place) == IF condition THEN Goto(r, place) ELSE Finish(r)

\* The client leaves, or a statement fails: what was written stays.
Abandon(r) ==
  /\ request[r] # Idle
  /\ Finish(r)
  /\ UNCHANGED <<tables, memory, counts>>

-----------------------------------------------------------------------------
(* The first administrator *)

\* The count read before the password is hashed.
BootstrapLook(r, u) ==
  /\ \A v \in Accounts : ~Exists(v)
  /\ Begin(r, "bootstrap", u, NoOne, "none", "bootstrap")
  /\ UNCHANGED <<tables, memory, counts>>

FirstAdmin(u) == [users EXCEPT ![u] = [role |-> "admin", active |-> TRUE, mustChange |-> FALSE]]

\* Faulty variant: the count is not read again.
BootstrapUnchecked(r) ==
  /\ At(r, "bootstrap")
  /\ users' = IF Exists(Who(r)) THEN users ELSE FirstAdmin(Who(r))
  /\ founded' = IF Exists(Who(r)) THEN founded ELSE founded \cup {Who(r)}
  /\ Finish(r)
  /\ UNCHANGED <<factor, codes, devices, refresh, memory, enrolled, given>>

\* The count is read again in the transaction of the insertion.
Bootstrap(r) ==
  /\ At(r, "bootstrap")
  /\ IF \E v \in Accounts : Exists(v)
     THEN UNCHANGED <<users, founded>>
     ELSE /\ users' = FirstAdmin(Who(r))
          /\ founded' = founded \cup {Who(r)}
  /\ Finish(r)
  /\ UNCHANGED <<factor, codes, devices, refresh, memory, enrolled, given>>

-----------------------------------------------------------------------------
(* Login *)

\* The tokens of devices that browsers hold: the account and its number.
Cookies == UNION {{<<u, n>> : n \in 1..given[u]} : u \in Accounts}

NoCookie == <<NoOne, 0>>

\* The password is right and the account active; arg is the cookie.
LoginRead(r, u, cookie) ==
  /\ users[u].active
  /\ Begin(r, "login", u, NoOne, cookie, "login")
  /\ UNCHANGED <<tables, memory, counts>>

\* mfaEnabled, which also answers no when its read fails.
LoginFactor(r) ==
  /\ At(r, "login")
  /\ \/ Goto(r, IF factor[Who(r)] = "confirmed" THEN "device" ELSE "issue")
     \/ Goto(r, "unread")
  /\ UNCHANGED <<tables, memory, counts>>

\* Faulty variant: the token alone identifies the device.
deviceIsKnown(u, cookie) == \E v \in Accounts : cookie[1] = v /\ cookie[2] \in devices[v]

\* A token of an expired device is removed, which the row's absence stands
\* for; so is, for this login, a read that fails.
deviceIsTrusted(u, cookie) == cookie[1] = u /\ cookie[2] \in devices[u]

LoginDevice(r) ==
  /\ At(r, "device")
  /\ \/ /\ deviceIsTrusted(Who(r), request[r].arg)
        /\ Goto(r, "issue") /\ UNCHANGED challenge
     \/ /\ challenge' = challenge \cup {Who(r)}
        /\ Finish(r)
  /\ UNCHANGED <<tables, access, quiet, failures, tried, counts>>

\* The session is due: what was read of the account lets it in, or its factor
\* could not be read.
Issuing(r) == At(r, "issue") \/ At(r, "unread")

\* issueSession: the row of the refresh token is inserted whatever the
\* account has become; the access token goes out with the answer.
IssueSession(r) ==
  /\ Issuing(r)
  /\ refresh[Who(r)] < MaxTokens
  /\ refresh' = [refresh EXCEPT ![Who(r)] = @ + 1]
  /\ access' = access \cup {Who(r)}
  /\ quiet' = quiet \ {Who(r)}
  /\ Finish(r)
  /\ UNCHANGED <<users, factor, codes, devices, challenge, failures, tried, counts>>

-----------------------------------------------------------------------------
(* The second step of a login *)

\* RequireMFAChallenge and mfaState; the code is of the application (and
\* right), or a recovery code, or neither.
VerifyRead(r, u, kind) ==
  /\ u \in challenge
  /\ factor[u] = "confirmed"
  /\ Begin(r, "verify", u, NoOne, kind, IF kind = "totp" THEN "state" ELSE "recovery")
  /\ UNCHANGED <<tables, memory, counts>>

\* Faulty variant: one failure too many before the way is shut.
blockedLate(u) == failures[u] > MaxFailures

blocked(u) == failures[u] >= MaxFailures

\* A code of too few signs is refused without being counted, like a wrong
\* code of the application, and stands for neither.
CodeLook(r) ==
  /\ At(r, "recovery")
  /\ Check(r, ~blocked(Who(r)), IF codes[Who(r)] # {} THEN "compare" ELSE "wrong")
  /\ UNCHANGED <<tables, memory, counts>>

\* The code is used up: it was the last one, or others are left.
CodeRight(r) ==
  /\ At(r, "compare")
  /\ request[r].arg = "code"
  /\ \/ codes' = [codes EXCEPT ![Who(r)] = {}]
     \/ UNCHANGED codes
  /\ failures' = [failures EXCEPT ![Who(r)] = 0]
  /\ tried' = [tried EXCEPT ![Who(r)] = 0]
  /\ Goto(r, "state")
  /\ UNCHANGED <<users, factor, devices, refresh, access, challenge, quiet, counts>>

CodeWrong(r) ==
  /\ At(r, "wrong") \/ At(r, "compare")
  /\ failures' = [failures EXCEPT ![Who(r)] = @ + 1]
  /\ tried' = [tried EXCEPT ![Who(r)] = @ + 1]
  /\ Finish(r)
  /\ UNCHANGED <<tables, access, challenge, quiet, counts>>

\* The state of the account is read again, after the code.
VerifyState(r) ==
  /\ At(r, "state")
  /\ Check(r, users[Who(r)].active, "remember")
  /\ UNCHANGED <<tables, memory, counts>>

RememberDevice(r) ==
  /\ At(r, "remember")
  /\ given[Who(r)] < MaxDevices
  /\ given' = [given EXCEPT ![Who(r)] = @ + 1]
  /\ devices' = [devices EXCEPT ![Who(r)] = @ \cup {given[Who(r)] + 1}]
  /\ Goto(r, "issue")
  /\ UNCHANGED <<users, factor, codes, refresh, memory, enrolled, founded>>

\* The box is not ticked, or the device cannot be kept.
RememberNothing(r) ==
  /\ At(r, "remember")
  /\ Goto(r, "issue")
  /\ UNCHANGED <<tables, memory, counts>>

-----------------------------------------------------------------------------
(* Keeping and ending a session *)

\* The row of the token is read; a token of a half login has none.
RefreshRead(r, u) ==
  /\ refresh[u] > 0
  /\ Begin(r, "refresh", u, NoOne, "none", "refresh")
  /\ UNCHANGED <<tables, memory, counts>>

\* Faulty variant: inactivity is the business of the interface.
RefreshQuiet(r) ==
  /\ At(r, "refresh")
  /\ access' = access \cup {Who(r)}
  /\ quiet' = quiet \ {Who(r)}
  /\ Finish(r)
  /\ UNCHANGED <<tables, challenge, failures, tried, counts>>

Refresh(r) ==
  /\ At(r, "refresh")
  /\ access' = IF Who(r) \in quiet THEN access ELSE access \cup {Who(r)}
  /\ Finish(r)
  /\ UNCHANGED <<tables, challenge, quiet, failures, tried, counts>>

Logout(r, u) ==
  /\ request[r] = Idle
  /\ refresh[u] > 0
  /\ refresh' = [refresh EXCEPT ![u] = @ - 1]
  /\ UNCHANGED <<users, factor, codes, devices, memory, request, served, counts>>

\* Tokens expire, and nothing is heard of an account for the set time.
Expire(u) ==
  /\ u \in access \cup challenge
  /\ \/ access' = access \ {u} /\ UNCHANGED challenge
     \/ challenge' = challenge \ {u} /\ UNCHANGED access
  /\ UNCHANGED <<tables, quiet, failures, tried, request, served, counts>>

FallQuiet(u) ==
  /\ u \notin quiet
  /\ quiet' = quiet \cup {u}
  /\ UNCHANGED <<tables, access, challenge, failures, tried, request, served, counts>>

\* The failures leave the window.
WindowPasses(u) ==
  /\ failures[u] > 0
  /\ failures' = [failures EXCEPT ![u] = 0]
  /\ tried' = [tried EXCEPT ![u] = 0]
  /\ UNCHANGED <<tables, access, challenge, quiet, request, served, counts>>

\* The server restarts: what it kept in memory is gone, tokens are not.
Restart ==
  /\ request' = [r \in Requests |-> Idle]
  /\ quiet' = {}
  /\ failures' = [u \in Accounts |-> 0]
  /\ tried' = [u \in Accounts |-> 0]
  /\ UNCHANGED <<tables, access, challenge, served, counts>>

-----------------------------------------------------------------------------
(* One's own account: routes that ask for a session and nothing more *)

ForgetRefresh(u) == refresh' = [refresh EXCEPT ![u] = 0]

ForgetCodes(u) == codes' = [codes EXCEPT ![u] = {}]

forgetDevices(u) == devices' = [devices EXCEPT ![u] = {}]

\* The hash is read and the current password is right.
ChangeRead(r, u) ==
  /\ u \in access
  /\ users[u].active
  /\ Begin(r, "change", u, u, "none", "change")
  /\ UNCHANGED <<tables, memory, counts>>

ChangePassword(r) ==
  /\ At(r, "change")
  /\ users' = [users EXCEPT ![Who(r)].mustChange = FALSE]
  /\ GotoDisturbing(r, "revoke", Who(r))
  /\ UNCHANGED <<factor, codes, devices, refresh, memory, counts>>

SetupRead(r, u) ==
  /\ u \in access
  /\ factor[u] # "confirmed"
  /\ Begin(r, "setup", u, u, "none", "setup")
  /\ UNCHANGED <<tables, memory, counts>>

\* ON CONFLICT (user_id) DO UPDATE SET confirmed_at = NULL
MFASetup(r) ==
  /\ At(r, "setup")
  /\ factor' = [factor EXCEPT ![Who(r)] = "prepared"]
  /\ FinishDisturbing(r, Who(r))
  /\ UNCHANGED <<users, codes, devices, refresh, memory, counts>>

\* The secret is read and the code is right for it.
ConfirmRead(r, u) ==
  /\ u \in access
  /\ factor[u] # "none"
  /\ Begin(r, "confirm", u, u, "none", "confirm")
  /\ UNCHANGED <<tables, memory, counts>>

\* Faulty variant: the codes of an earlier enrolment are kept.
MFAConfirmAdds(r) ==
  LET u == Who(r) IN
  /\ At(r, "confirm")
  /\ enrolled[u] < MaxEnrolments
  /\ factor' = [factor EXCEPT ![u] = IF @ = "none" THEN @ ELSE "confirmed"]
  /\ codes' = [codes EXCEPT ![u] = @ \cup {enrolled[u] + 1}]
  /\ enrolled' = [enrolled EXCEPT ![u] = @ + 1]
  /\ GotoDisturbing(r, "forget", u)
  /\ UNCHANGED <<users, devices, refresh, memory, given, founded>>

\* One transaction: UPDATE user_mfa WHERE user_id = ?, which may meet no row
\* any more, and the codes replaced.
MFAConfirm(r) ==
  LET u == Who(r) IN
  /\ At(r, "confirm")
  /\ enrolled[u] < MaxEnrolments
  /\ factor' = [factor EXCEPT ![u] = IF @ = "none" THEN @ ELSE "confirmed"]
  /\ codes' = [codes EXCEPT ![u] = {enrolled[u] + 1}]
  /\ enrolled' = [enrolled EXCEPT ![u] = @ + 1]
  /\ GotoDisturbing(r, "forget", u)
  /\ UNCHANGED <<users, devices, refresh, memory, given, founded>>

\* The password asked for again is right.
DisableRead(r, u) ==
  /\ u \in access
  /\ Begin(r, "disable", u, u, "none", "disable")
  /\ UNCHANGED <<tables, memory, counts>>

ForgetTrustedDevices(r, u) ==
  /\ u \in access
  /\ request[r] = Idle
  /\ forgetDevices(u)
  /\ UNCHANGED <<users, factor, codes, refresh, memory, request, served, counts>>

\* Removing the factor, by its owner or by an administrator, is a series of
\* statements; so is what follows a new password.
DropFactor(r) ==
  /\ At(r, "disable")
  /\ factor' = [factor EXCEPT ![On(r)] = "none"]
  /\ GotoDisturbing(r, "codes", On(r))
  /\ UNCHANGED <<users, codes, devices, refresh, memory, counts>>

DropCodes(r) ==
  /\ At(r, "codes")
  /\ ForgetCodes(On(r))
  /\ Goto(r, IF request[r].op = "disable" THEN "forget" ELSE "revoke")
  /\ UNCHANGED <<users, factor, devices, refresh, memory, counts>>

Revoke(r) ==
  /\ At(r, "revoke")
  /\ ForgetRefresh(On(r))
  /\ Check(r, request[r].op = "change", "forget")
  /\ UNCHANGED <<users, factor, codes, devices, memory, counts>>

Forget(r) ==
  /\ At(r, "forget")
  /\ forgetDevices(On(r))
  /\ Finish(r)
  /\ UNCHANGED <<users, factor, codes, refresh, memory, counts>>

\* A statement whose failure is ignored: the next one follows.
IgnoreFailure(r) ==
  /\ \/ At(r, "codes") /\ Goto(r, IF request[r].op = "disable" THEN "forget" ELSE "revoke")
     \/ At(r, "revoke") /\ Check(r, request[r].op = "change", "forget")
     \/ At(r, "forget") /\ Finish(r)
  /\ UNCHANGED <<tables, memory, counts>>

-----------------------------------------------------------------------------
(* The filters of the application's routes *)

\* RequireAuth, IdleLimit: a token of a half login is not an access token.
Arrive(r, u, op, v, arg) ==
  /\ u \in access
  /\ u \notin quiet
  /\ op \in OnAnother => u # v
  /\ Begin(r, op, u, v, arg, "deny")
  /\ UNCHANGED <<tables, memory, counts>>

\* DenyWritesWithoutPermission: by the method, whatever the route asks for.
deniesWrites(r) ==
  Route[request[r].op].write /\ ~(users[Who(r)].active /\ users[Who(r)].role # "viewer")

DenyWrites(r) ==
  /\ At(r, "deny")
  /\ Check(r, ~deniesWrites(r), "password")
  /\ UNCHANGED <<tables, memory, counts>>

RequirePasswordChanged(r) ==
  /\ At(r, "password")
  /\ Check(r, users[Who(r)].active /\ ~users[Who(r)].mustChange, "factor")
  /\ UNCHANGED <<tables, memory, counts>>

\* RequireMFAEnrolled reads the role, then the factor.
RequireMFARole(r) ==
  /\ At(r, "factor")
  /\ Check(r, users[Who(r)].active,
           IF RequiresSecondFactor(users[Who(r)].role) THEN "enrolled" ELSE "require")
  /\ UNCHANGED <<tables, memory, counts>>

RequireMFAEnrolled(r) ==
  /\ At(r, "enrolled")
  /\ Check(r, factor[Who(r)] = "confirmed", "require")
  /\ UNCHANGED <<tables, memory, counts>>

\* Faulty variant: the role is not read again for the route.
RequireNothing(r) ==
  /\ At(r, "require")
  /\ Goto(r, "admitted")
  /\ UNCHANGED <<tables, memory, counts>>

Require(r) ==
  /\ At(r, "require")
  /\ Check(r, users[Who(r)].active /\ Can(users[Who(r)].role, Route[request[r].op].perm),
           "admitted")
  /\ UNCHANGED <<tables, memory, counts>>

\* Work that leaves the accounts alone.
Work(r) ==
  /\ At(r, "admitted")
  /\ request[r].op \in {"list", "inspect", "compute", "enter"}
  /\ Finish(r)
  /\ UNCHANGED <<tables, memory, counts>>

-----------------------------------------------------------------------------
(* Administration of accounts *)

CreateUser(r) ==
  /\ At(r, "admitted")
  /\ request[r].op = "create"
  /\ ~Exists(On(r))
  /\ users' = [users EXCEPT ![On(r)] = [role |-> request[r].arg, active |-> TRUE, mustChange |-> TRUE]]
  /\ Finish(r)
  /\ UNCHANGED <<factor, codes, devices, refresh, memory, counts>>

IsActiveAdmin(u) == users[u].role = "admin" /\ users[u].active

\* Taking away the role of administrator, or the account.
Removes(r) == request[r].op = "deactivate" \/ (request[r].op = "role" /\ request[r].arg # "admin")

\* isLastAdmin is two SELECTs: is the target an active administrator, and how
\* many are there.
LastAdminTarget(r) ==
  /\ At(r, "admitted")
  /\ Removes(r)
  /\ Goto(r, IF IsActiveAdmin(On(r)) THEN "count" ELSE "write")
  /\ UNCHANGED <<tables, memory, counts>>

LastAdminCount(r) ==
  /\ At(r, "count")
  /\ Check(r, Cardinality({u \in Accounts : IsActiveAdmin(u)}) > 1, "write")
  /\ UNCHANGED <<tables, memory, counts>>

UpdateUserRole(r) ==
  /\ At(r, "write") \/ (At(r, "admitted") /\ ~Removes(r))
  /\ request[r].op = "role"
  /\ Exists(On(r))
  /\ users' = [users EXCEPT ![On(r)].role = request[r].arg]
  /\ FinishDisturbing(r, On(r))
  /\ UNCHANGED <<factor, codes, devices, refresh, memory, counts>>

Deactivate(r) ==
  /\ At(r, "write")
  /\ request[r].op = "deactivate"
  /\ Exists(On(r))
  /\ users' = [users EXCEPT ![On(r)].active = FALSE]
  /\ GotoDisturbing(r, "revoke", On(r))
  /\ UNCHANGED <<factor, codes, devices, refresh, memory, counts>>

Reactivate(r) ==
  /\ At(r, "admitted")
  /\ request[r].op = "reactivate"
  /\ Exists(On(r))
  /\ users' = [users EXCEPT ![On(r)].active = TRUE]
  /\ FinishDisturbing(r, On(r))
  /\ UNCHANGED <<factor, codes, devices, refresh, memory, counts>>

ResetRead(r) ==
  /\ At(r, "admitted")
  /\ request[r].op = "reset"
  /\ Check(r, users[On(r)].active, "reset")
  /\ UNCHANGED <<tables, memory, counts>>

ResetPassword(r) ==
  /\ At(r, "reset")
  /\ users' = [users EXCEPT ![On(r)].mustChange = TRUE]
  /\ GotoDisturbing(r, "revoke", On(r))
  /\ UNCHANGED <<factor, codes, devices, refresh, memory, counts>>

\* The administrator's way to remove a factor keeps the trusted devices.
RemoveMFA(r) ==
  /\ At(r, "admitted")
  /\ request[r].op = "remove"
  /\ Goto(r, "disable")
  /\ UNCHANGED <<tables, memory, counts>>

\* An account that is not there, or there already: 404, 409.
NoSuchTarget(r) ==
  /\ At(r, "admitted") \/ At(r, "write")
  /\ request[r].op \in {"role", "deactivate", "reactivate", "create"}
  /\ Exists(On(r)) <=> request[r].op = "create"
  /\ Finish(r)
  /\ UNCHANGED <<tables, memory, counts>>

-----------------------------------------------------------------------------

\* An installation, fresh or with accounts that have what their role needs.
Init ==
  /\ \E roles \in Populations :
       users = [u \in Accounts |->
                  IF u \in DOMAIN roles
                  THEN [role |-> roles[u], active |-> TRUE, mustChange |-> FALSE]
                  ELSE NoUser]
  /\ factor = [u \in Accounts |-> IF RequiresSecondFactor(users[u].role) THEN "confirmed" ELSE "none"]
  /\ enrolled = [u \in Accounts |-> IF factor[u] = "confirmed" THEN 1 ELSE 0]
  /\ codes = [u \in Accounts |-> IF factor[u] = "confirmed" THEN {1} ELSE {}]
  /\ devices = [u \in Accounts |-> {}]
  /\ given = [u \in Accounts |-> 0]
  /\ refresh = [u \in Accounts |-> 0]
  /\ access = {u \in Accounts : users[u].role # "none"}
  /\ challenge = {u \in Accounts : factor[u] = "confirmed"}
  /\ quiet = {}
  /\ failures = [u \in Accounts |-> 0]
  /\ tried = [u \in Accounts |-> 0]
  /\ request = [r \in Requests |-> Idle]
  /\ served = 0
  /\ founded = {}

Public(r) ==
  \/ \E u \in Accounts : BootstrapLook(r, u) \/ RefreshRead(r, u) \/ Logout(r, u)
  \/ \E u \in Accounts, cookie \in Cookies \cup {NoCookie} : LoginRead(r, u, cookie)
  \/ \E u \in Accounts, kind \in {"totp", "code", "other"} : VerifyRead(r, u, kind)
  \/ Bootstrap(r) \/ LoginFactor(r) \/ LoginDevice(r) \/ IssueSession(r)
  \/ CodeLook(r) \/ CodeRight(r) \/ CodeWrong(r) \/ VerifyState(r)
  \/ RememberDevice(r) \/ RememberNothing(r) \/ Refresh(r)

Own(r) ==
  \/ \E u \in Accounts : \/ ChangeRead(r, u) \/ SetupRead(r, u) \/ ConfirmRead(r, u)
                         \/ DisableRead(r, u) \/ ForgetTrustedDevices(r, u)
  \/ ChangePassword(r) \/ MFASetup(r) \/ MFAConfirm(r) \/ DropFactor(r)
  \/ DropCodes(r) \/ Revoke(r) \/ Forget(r) \/ IgnoreFailure(r)

Filters(r) ==
  \/ \E u, v \in Accounts, op \in {"deactivate", "reactivate", "reset", "remove"} :
       Arrive(r, u, op, v, "none")
  \/ \E u, v \in Accounts, op \in {"role", "create"}, role \in NewRoles : Arrive(r, u, op, v, role)
  \/ \E u \in Accounts, op \in {"list", "inspect", "compute", "enter"} : Arrive(r, u, op, NoOne, "none")
  \/ DenyWrites(r) \/ RequirePasswordChanged(r) \/ RequireMFARole(r)
  \/ RequireMFAEnrolled(r) \/ Require(r) \/ Work(r)

Administration(r) ==
  \/ CreateUser(r) \/ LastAdminTarget(r) \/ LastAdminCount(r) \/ UpdateUserRole(r)
  \/ Deactivate(r) \/ Reactivate(r) \/ ResetRead(r) \/ ResetPassword(r)
  \/ RemoveMFA(r) \/ NoSuchTarget(r)

Next ==
  \/ \E r \in Requests : Public(r) \/ Own(r) \/ Filters(r) \/ Administration(r) \/ Abandon(r)
  \/ \E u \in Accounts : Expire(u) \/ FallQuiet(u) \/ WindowPasses(u)
  \/ Restart

Spec == Init /\ [][Next]_vars

-----------------------------------------------------------------------------
(* Properties *)

\* The tables, the counters and the requests have their types.
TypeOK ==
  /\ users \in [Accounts -> [role : Roles, active : BOOLEAN, mustChange : BOOLEAN] \cup {NoUser}]
  /\ factor \in [Accounts -> {"none", "prepared", "confirmed"}]
  /\ codes \in [Accounts -> SUBSET (1..MaxEnrolments)]
  /\ devices \in [Accounts -> SUBSET (1..MaxDevices)]
  /\ refresh \in [Accounts -> 0..MaxTokens]
  /\ access \cup challenge \cup quiet \cup founded \subseteq Accounts
  /\ failures \in [Accounts -> Nat] /\ tried \in [Accounts -> Nat]
  /\ enrolled \in [Accounts -> 0..MaxEnrolments] /\ given \in [Accounts -> 0..MaxDevices]
  /\ \A r \in Requests : request[r] # Idle => Who(r) \in Accounts
  /\ served \in 0..MaxServed

\* What reaches its handler is allowed by the account as it is, active, with
\* a password of its own, enrolled if its role must be, and of a role that
\* may: never by what an earlier login or an earlier role allowed.  Only a
\* change of the account during the request itself may come too late.
WorkAsAllowed ==
  \A r \in Requests : At(r, "admitted") /\ ~request[r].disturbed =>
    LET user == users[Who(r)]
        route == Route[request[r].op]
    IN /\ user.active /\ ~user.mustChange
       /\ Can(user.role, route.perm)
       /\ RequiresSecondFactor(user.role) => factor[Who(r)] = "confirmed"

\* What the filters say no to for its method is not open to the account: a
\* reader may draw the documents of several invoices and compute a
\* declaration, which are reads sent by POST (cmd/server/main.go, routes
\* bulk-pdf and vat/declaration).  It does not hold.
ReaderComputes ==
  \A r \in Requests :
    At(r, "deny") /\ users[Who(r)].active /\ Can(users[Who(r)].role, Route[request[r].op].perm)
    => ~deniesWrites(r)

\* The password alone is about to open a session of an account whose second
\* factor stayed confirmed along the login.
PasswordAlone(r) ==
  /\ request[r].op = "login" /\ ~request[r].disturbed
  /\ factor[Who(r)] = "confirmed"
  /\ request[r].arg[1] # Who(r)

\* An account whose second factor stays confirmed along a login gets no
\* session from its password alone, unless by a device remembered for it, or
\* because its factor could not be read.
SecondFactorAsked == \A r \in Requests : At(r, "issue") => ~PasswordAlone(r)

\* Nor does it when its factor cannot be read: a session is born after the
\* code only (Login), and a read that fails lifts no rule (mfaConfirmed).  It
\* does not hold.
UnreadFactorRefused == \A r \in Requests : At(r, "unread") => ~PasswordAlone(r)

\* Bootstrap creates one account, however many call it at once.
BootstrapOnce == Cardinality(founded) <= 1

\* The recovery codes in force are those shown at the last confirmation, also
\* when a removal stopped half way before it.
CodesOfLastEnrolment == \A u \in Accounts : codes[u] \subseteq {enrolled[u]}

\* Within its window the throttle lets through no more wrong recovery codes
\* than its limit and those compared at the moment it is reached.
ThrottleBounds ==
  \A u \in Accounts : tried[u] <= MaxFailures + Cardinality(Requests) - 1

\* An account gone quiet gets an access token by a login only: the cookie of
\* its refresh token does not reopen the session.
QuietStaysOut ==
  [][\A u \in quiet : u \in access' \ access => \E r \in Requests : Issuing(r) /\ Who(r) = u]_vars

\* ErrLastAdmin: an installation keeps an administrator who can enter.
AdminRemains ==
  (\E u \in Accounts : Exists(u)) => \E u \in Accounts : IsActiveAdmin(u)
=============================================================================
