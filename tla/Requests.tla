------------------------------ MODULE Requests ------------------------------
(***************************************************************************)
(* The requests of users: authentication, authorisation and the methods    *)
(* that change users, groups and the owner and permissions of an object.   *)
(*                                                                         *)
(* Each connection has a thread.  A thread has one object of a pool locked *)
(* at a time, so a method is one step for each object it looks at or       *)
(* changes, and other threads come between: what a method decides with is  *)
(* a copy.                                                                 *)
(***************************************************************************)
EXTENDS Integers, FiniteSets

CONSTANTS
    Threads,      \* Threads of the XML-RPC server
    Names,        \* Names of users
    Tokens,       \* Passwords
    NoToken,      \* Not a password: there is no session
    Directory,    \* Names and passwords that the default driver accepts
    Modes,        \* The permissions that users ask for with chmod
    EnableOther,  \* ENABLE_OTHER_PERMISSIONS
    Scopes,       \* Bounds: the sets of methods that are called together
    MaxUid,       \* Bound on the identifiers of users
    MaxGid,       \* Bound on the identifiers of groups
    MaxRequests,  \* Bound on the requests
    MaxCrashes    \* Bound on the crashes of the daemon

ONEADMIN_ID == 0
USERS_ID == 1
FirstGid == 100    \* The first groups are reserved for the system

Uids == 0..MaxUid
Gids == {ONEADMIN_ID, USERS_ID} \cup FirstGid..MaxGid
NoId == -1

Drivers == {"core", "public", "server", "ldap"}
Methods == {"UserAllocate", "UserDelete", "UserChown", "GroupAllocate",
            "GroupDelete", "ChangePassword", "ChangeAuth", "Chmod", "Chown",
            "Delete"}

\* Permissions that tell the cases of chmod apart: rights to manage and to
\* administer for the owner, to manage for the group, to use for others.
Bits == {"owner_m", "owner_a", "group_m", "other_u"}

ASSUME RequestsAssumption ==
    /\ Tokens # {} /\ NoToken \notin Tokens
    /\ Directory \subseteq Names \X Tokens
    /\ Modes \subseteq [Bits -> {-1, 0, 1}]
    /\ EnableOther \in BOOLEAN
    /\ Scopes \subseteq SUBSET Methods
    /\ MaxUid \in Nat \ {0} /\ MaxGid \in Nat
    /\ MaxRequests \in Nat /\ MaxCrashes \in Nat

VARIABLES
    users,    \* The pool of users
    groups,   \* The users of each group; NoGroup if there is none
    object,   \* An object of a user
    thread,   \* What each thread does
    next,     \* The next identifiers of users and groups
    scope,    \* The methods that are called
    crossed,  \* TRUE iff two requests changed the group of a user at the same
              \* time, or a group went or the daemon died in between
    outdated, \* TRUE iff a session was given for a password changed meanwhile
    requests, \* Requests so far
    crashes   \* Crashes so far

vars == <<users, groups, object, thread, next, scope, crossed, outdated,
          requests, crashes>>

NoGroup == {NoId}
NoSession == [token |-> NoToken, of |-> NoId]
NoUser == [name |-> "", gid |-> NoId, password |-> NoToken, driver |-> "core",
           session |-> NoSession]
Idle == [at |-> "idle", uid |-> NoId, gid |-> NoId, target |-> NoId,
         group |-> NoId, token |-> NoToken, password |-> NoToken,
         driver |-> "core", server |-> NoId, op |-> "USE",
         mode |-> [b \in Bits |-> -1]]

NewUser(name, gid, password, driver) ==
    [name |-> name, gid |-> gid, password |-> password, driver |-> driver,
     session |-> NoSession]

\* A new installation: the system groups, oneadmin, the user of the servers;
\* and one user with an object.
Init ==
    /\ LET token == CHOOSE token \in Tokens : TRUE IN
        users = [u \in Uids |->
            CASE u = 0 -> NewUser("oneadmin", ONEADMIN_ID, token, "core")
              [] u = 1 -> NewUser("serveradmin", ONEADMIN_ID, token, "server")
              [] u = 2 -> NewUser("user", USERS_ID, token, "core")
              [] OTHER -> NoUser]
    /\ groups = [g \in Gids |-> CASE g = ONEADMIN_ID -> {0, 1}
                                  [] g = USERS_ID -> {2}
                                  [] OTHER -> NoGroup]
    /\ object = [uid |-> 2, gid |-> USERS_ID, perms |->
                    [b \in Bits |-> IF b = "owner_m" THEN 1 ELSE 0]]
    /\ thread = [t \in Threads |-> Idle]
    /\ next = [uid |-> 3, gid |-> FirstGid]
    /\ scope \in Scopes
    /\ crossed = FALSE /\ outdated = FALSE
    /\ requests = 0 /\ crashes = 0

Exists(u) == u \in Uids /\ users[u] # NoUser
IsGroup(g) == g \in Gids /\ groups[g] # NoGroup
Named(n) == {u \in Uids : Exists(u) /\ users[u].name = n}

At(t, at) == thread[t].at = at
Goes(t, r) == thread' = [thread EXCEPT ![t] = r]
Returns(t) == Goes(t, Idle)

\* Threads in the middle of a change of the group of user u.
Between == {"join", "leave", "addnew", "delold"}
Busy(u) == \E t \in Threads : thread[t].at \in Between /\ thread[t].target = u
-----------------------------------------------------------------------------
(* Authentication: Request::execute and UserPool::authenticate.            *)

\* A request comes to an idle thread.
Comes(t) ==
    /\ At(t, "idle")
    /\ requests < MaxRequests /\ requests' = requests + 1

\* The request begins: the attributes of the user are copied.
Begin(t, u) == Goes(t, [Idle EXCEPT !.at = "ready", !.uid = u,
                                    !.gid = users[u].gid])

\* authenticate_internal: a valid session is enough; else the password is
\* compared, by the core or by a driver, after the user was unlocked.
authenticate_internal(t, u, token) ==
    /\ IF users[u].session.token = token THEN Begin(t, u)
       ELSE Goes(t, [Idle EXCEPT !.at = "check", !.target = u,
                        !.gid = users[u].gid, !.token = token,
                        !.password = users[u].password,
                        !.driver = users[u].driver, !.server = u])

\* authenticate_server: server s asks in the name of user u, with its own token.
authenticate_server(t, s, u, token) ==
    /\ users[s].driver = "server"
    /\ IF users[u].session.token = token THEN Begin(t, u)
       ELSE Goes(t, [Idle EXCEPT !.at = "check", !.target = u,
                        !.gid = users[u].gid, !.token = token,
                        !.password = users[s].password,
                        !.driver = users[s].driver, !.server = s])

\* UserPool::allocate: the name is unique in the table.
Allocates(n, gid, password, driver) ==
    /\ next.uid \in Uids /\ Named(n) = {}
    /\ users' = [users EXCEPT ![next.uid] = NewUser(n, gid, password, driver)]
    /\ next' = [next EXCEPT !.uid = @ + 1]

\* authenticate_external: the default driver knows the user, which is added.
authenticate_external(t, n, token) ==
    /\ Comes(t)
    /\ Named(n) = {} /\ <<n, token>> \in Directory
    /\ Allocates(n, USERS_ID, token, "ldap")
    /\ Goes(t, [Idle EXCEPT !.at = "join", !.target = next.uid,
                            !.group = USERS_ID, !.uid = next.uid])
    /\ UNCHANGED <<groups, object, scope, crossed, outdated, crashes>>

authenticate(t, token) ==
    /\ Comes(t)
    /\ \E u \in Uids :
        /\ Exists(u)
        /\ \/ users[u].driver # "server" /\ authenticate_internal(t, u, token)
           \/ \E s \in Uids : Exists(s) /\ authenticate_server(t, s, u, token)
    /\ UNCHANGED <<users, groups, object, next, scope, crossed, outdated,
                   crashes>>

\* The session of a token that was accepted, if the user is still there.
set_session(u, token, accepted) ==
    users' = IF accepted /\ Exists(u.target)
             THEN [users EXCEPT ![u.target].session =
                      [token |-> token, of |-> u.server]]
             ELSE users

\* core_authenticate, or the answer of the driver, to the copy of the password;
\* users with driver "public" do not log in.
Checked(t) ==
    LET r == thread[t]
        accepted == r.token = r.password /\ r.driver # "public"
        changed == users[r.server].password # r.password
                   \/ users[r.server].driver # r.driver
    IN
    /\ At(t, "check")
    /\ set_session(r, r.token, accepted)
    /\ IF accepted
       THEN Goes(t, [Idle EXCEPT !.at = "ready", !.uid = r.target,
                                 !.gid = r.gid])
       ELSE Returns(t)
    /\ outdated' = (outdated \/ (accepted /\ changed))
    /\ UNCHANGED <<groups, object, next, scope, crossed, requests, crashes>>

\* A session ends with time, or when the user is read again from the database.
SessionEnds(u) ==
    /\ users[u].session # NoSession
    /\ users' = [users EXCEPT ![u].session = NoSession]
    /\ UNCHANGED <<groups, object, thread, next, scope, crossed, outdated,
                   requests, crashes>>
-----------------------------------------------------------------------------
(* Authorisation, with the permissions of objects; rules of the access     *)
(* control lists are in AccessControl.                                     *)

IsAdmin(r) == r.uid = 0 \/ r.gid = ONEADMIN_ID

\* On the object: its owner and its group, by the bits.
MayObject(r, op) ==
    \/ IsAdmin(r)
    \/ op = "MANAGE" /\ r.uid = object.uid /\ object.perms["owner_m"] = 1
    \/ op = "MANAGE" /\ r.gid = object.gid /\ object.perms["group_m"] = 1
    \/ op = "ADMIN" /\ r.uid = object.uid /\ object.perms["owner_a"] = 1

\* On a user: the user itself may manage it.
MayUser(r, op, u) == IsAdmin(r) \/ (op = "MANAGE" /\ r.uid = u)

\* A group is used by its members.
MayGroup(r, g) == IsAdmin(r) \/ r.gid = g

\* The thread begins method m; a request that is refused changes nothing.
Calls(t, m) == At(t, "ready") /\ m \in scope

Refused(t) ==
    /\ At(t, "ready")
    /\ Returns(t)
    /\ UNCHANGED <<users, groups, object, next, scope, crossed, outdated,
                   requests, crashes>>
-----------------------------------------------------------------------------
(* Users and groups.                                                       *)

\* A new user is in the group of the one who asks, or in USERS.
UserAllocate(t, n, token) ==
    LET gid == IF thread[t].gid = ONEADMIN_ID THEN USERS_ID ELSE thread[t].gid
    IN
    /\ Calls(t, "UserAllocate") /\ IsAdmin(thread[t])
    /\ Allocates(n, gid, token, "core")
    /\ Goes(t, [thread[t] EXCEPT !.at = "join", !.target = next.uid,
                                 !.group = gid, !.uid = NoId])
    /\ UNCHANGED <<groups, object, scope, crossed, outdated, requests,
                   crashes>>

\* The second half of UserPool::allocate; without the group it fails, and the
\* user stays.
Join(t) ==
    LET r == thread[t] IN
    /\ At(t, "join")
    /\ groups' = IF IsGroup(r.group)
                 THEN [groups EXCEPT ![r.group] = @ \cup {r.target}] ELSE groups
    /\ crossed' = (crossed \/ ~IsGroup(r.group))
    /\ IF r.uid = r.target /\ IsGroup(r.group)
       THEN Goes(t, [Idle EXCEPT !.at = "ready", !.uid = r.target,
                                 !.gid = USERS_ID])
       ELSE Returns(t)
    /\ UNCHANGED <<users, object, next, scope, outdated, requests,
                   crashes>>

\* Mutant: the group of the user is left as it is.
UserDelete_Member(t, u) ==
    /\ Calls(t, "UserDelete") /\ MayUser(thread[t], "ADMIN", u)
    /\ Exists(u) /\ u # 0
    /\ users' = [users EXCEPT ![u] = NoUser]
    /\ crossed' = (crossed \/ Busy(u))
    /\ Returns(t)
    /\ UNCHANGED <<groups, object, next, scope, outdated, requests,
                   crashes>>

\* oneadmin is not deleted; the group of a user that was is changed after.
UserDelete(t, u) ==
    /\ Calls(t, "UserDelete") /\ MayUser(thread[t], "ADMIN", u)
    /\ Exists(u) /\ u # 0
    /\ users' = [users EXCEPT ![u] = NoUser]
    /\ crossed' = (crossed \/ Busy(u))
    /\ Goes(t, [thread[t] EXCEPT !.at = "leave", !.target = u,
                                 !.group = users[u].gid])
    /\ UNCHANGED <<groups, object, next, scope, outdated, requests,
                   crashes>>

\* A user leaves a group, if there is one.
Leave(t) ==
    LET r == thread[t] IN
    /\ thread[t].at \in {"leave", "delold"}
    /\ groups' = IF IsGroup(r.group)
                 THEN [groups EXCEPT ![r.group] = @ \ {r.target}] ELSE groups
    /\ Returns(t)
    /\ UNCHANGED <<users, object, next, scope, crossed, outdated, requests,
                   crashes>>

\* UserChown: user and group are looked up; then come the user, the new group
\* and the old one.
UserChown(t, u, g) ==
    /\ Calls(t, "UserChown") /\ Exists(u) /\ IsGroup(g)
    /\ MayUser(thread[t], "MANAGE", u) /\ MayGroup(thread[t], g)
    /\ Goes(t, [thread[t] EXCEPT !.at = "setgroup", !.target = u, !.group = g])
    /\ UNCHANGED <<users, groups, object, next, scope, crossed, outdated,
                   requests, crashes>>

SetGroup(t) ==
    LET r == thread[t]
        moves == Exists(r.target) /\ users[r.target].gid # r.group
    IN
    /\ At(t, "setgroup")
    /\ users' = IF moves THEN [users EXCEPT ![r.target].gid = r.group] ELSE users
    /\ crossed' = (crossed \/ (moves /\ Busy(r.target)))
    /\ IF moves
       THEN Goes(t, [r EXCEPT !.at = "addnew", !.gid = users[r.target].gid])
       ELSE Returns(t)
    /\ UNCHANGED <<groups, object, next, scope, outdated, requests,
                   crashes>>

\* The user joins the new group; if that is gone, the request fails here.
AddNew(t) ==
    LET r == thread[t] IN
    /\ At(t, "addnew")
    /\ IF IsGroup(r.group)
       THEN /\ groups' = [groups EXCEPT ![r.group] = @ \cup {r.target}]
            /\ Goes(t, [r EXCEPT !.at = "delold", !.group = r.gid])
            /\ UNCHANGED crossed
       ELSE Returns(t) /\ crossed' = TRUE /\ UNCHANGED groups
    /\ UNCHANGED <<users, object, next, scope, outdated, requests,
                   crashes>>

GroupAllocate(t) ==
    /\ Calls(t, "GroupAllocate") /\ IsAdmin(thread[t]) /\ next.gid \in Gids
    /\ groups' = [groups EXCEPT ![next.gid] = {}]
    /\ next' = [next EXCEPT !.gid = @ + 1]
    /\ Returns(t)
    /\ UNCHANGED <<users, object, scope, crossed, outdated, requests,
                   crashes>>

\* Groups of the system and groups with users are not deleted.
CanDrop(g) == IsGroup(g) /\ g >= FirstGid /\ groups[g] = {}

GroupDelete(t, g) ==
    /\ Calls(t, "GroupDelete") /\ IsAdmin(thread[t])
    /\ CanDrop(g)
    /\ groups' = [groups EXCEPT ![g] = NoGroup]
    /\ Returns(t)
    /\ UNCHANGED <<users, object, next, scope, crossed, outdated, requests,
                   crashes>>

\* Mutant: the session survives the change.
set_password_Session(u, token, driver) ==
    users' = [users EXCEPT ![u].password = token, ![u].driver = driver]

\* set_password and set_auth_driver end the session.
set_password(u, token, driver) ==
    users' = [users EXCEPT ![u].password = token, ![u].driver = driver,
                           ![u].session = NoSession]

ChangePassword(t, u, token) ==
    /\ Calls(t, "ChangePassword") /\ MayUser(thread[t], "MANAGE", u)
    /\ Exists(u)
    /\ set_password(u, token, users[u].driver)
    /\ Returns(t)
    /\ UNCHANGED <<groups, object, next, scope, crossed, outdated, requests,
                   crashes>>

\* An administrator changes the driver, and the password if there is a new one.
ChangeAuth(t, u, token, driver) ==
    /\ Calls(t, "ChangeAuth") /\ MayUser(thread[t], "ADMIN", u)
    /\ Exists(u)
    /\ set_password(u, IF token = NoToken THEN users[u].password ELSE token,
                    driver)
    /\ Returns(t)
    /\ UNCHANGED <<groups, object, next, scope, crossed, outdated, requests,
                   crashes>>
-----------------------------------------------------------------------------
(* The object: authorised with a copy of its permissions, then changed.    *)

\* Mutant: permissions that stay as they are are written again.
Asked_All(mode) == mode

\* What is left to change: administrative and other permissions that the
\* object has already are not touched.
Asked(mode) ==
    [b \in Bits |-> IF b \in {"owner_a", "other_u"} /\ mode[b] = object.perms[b]
                    THEN -1 ELSE mode[b]]

\* The right that a change takes: ADMIN for an administrative permission.
OpFor(mode) ==
    IF mode["owner_a"] \notin {-1, object.perms["owner_a"]} THEN "ADMIN"
    ELSE "MANAGE"

\* Chmod: permissions for others are changed only if the daemon allows it.
Chmod(t, mode) ==
    LET r == thread[t] IN
    /\ Calls(t, "Chmod") /\ object.uid # NoId
    /\ \/ /\ IsAdmin(r)
          /\ Goes(t, [r EXCEPT !.at = "chmod", !.op = "ADMIN", !.mode = mode])
       \/ /\ ~IsAdmin(r)
          /\ EnableOther \/ mode["other_u"] \in {-1, object.perms["other_u"]}
          /\ MayObject(r, OpFor(mode))
          /\ Goes(t, [r EXCEPT !.at = "chmod", !.op = OpFor(mode),
                               !.mode = Asked(mode)])
    /\ UNCHANGED <<users, groups, object, next, scope, crossed, outdated,
                   requests, crashes>>

set_permissions(t) ==
    LET m == thread[t].mode IN
    /\ At(t, "chmod")
    /\ object' = IF object.uid = NoId THEN object
                 ELSE [object EXCEPT !.perms =
                          [b \in Bits |-> IF m[b] = -1 THEN @[b] ELSE m[b]]]
    /\ Returns(t)
    /\ UNCHANGED <<users, groups, next, scope, crossed, outdated, requests,
                   crashes>>

\* Chown: the new owner and group are looked up (NoId: no change).
Chown(t, u, g) ==
    LET r == thread[t] IN
    /\ Calls(t, "Chown") /\ object.uid # NoId
    /\ u = NoId \/ (Exists(u) /\ MayUser(r, "MANAGE", u))
    /\ g = NoId \/ (IsGroup(g) /\ MayGroup(r, g))
    /\ MayObject(r, "MANAGE")
    /\ Goes(t, [r EXCEPT !.at = "chown", !.target = u, !.group = g])
    /\ UNCHANGED <<users, groups, object, next, scope, crossed, outdated,
                   requests, crashes>>

set_owner(t) ==
    LET r == thread[t] IN
    /\ At(t, "chown")
    /\ object' = IF object.uid = NoId THEN object
                 ELSE [object EXCEPT !.uid = IF r.target = NoId THEN @
                                             ELSE r.target,
                                     !.gid = IF r.group = NoId THEN @
                                             ELSE r.group]
    /\ Returns(t)
    /\ UNCHANGED <<users, groups, next, scope, crossed, outdated, requests,
                   crashes>>

Delete(t) ==
    /\ Calls(t, "Delete") /\ object.uid # NoId
    /\ MayObject(thread[t], "MANAGE")
    /\ Goes(t, [thread[t] EXCEPT !.at = "drop"])
    /\ UNCHANGED <<users, groups, object, next, scope, crossed, outdated,
                   requests, crashes>>

Drop(t) ==
    /\ At(t, "drop")
    /\ object' = [object EXCEPT !.uid = NoId]
    /\ Returns(t)
    /\ UNCHANGED <<users, groups, next, scope, crossed, outdated, requests,
                   crashes>>
-----------------------------------------------------------------------------
\* The daemon dies and starts: requests and sessions are gone.
Crash ==
    /\ crashes < MaxCrashes /\ crashes' = crashes + 1
    /\ thread' = [t \in Threads |-> Idle]
    /\ users' = [u \in Uids |-> [users[u] EXCEPT !.session = NoSession]]
    /\ crossed' = (crossed \/ \E u \in Uids : Busy(u))
    /\ UNCHANGED <<groups, object, next, scope, outdated, requests>>

Next ==
    \/ \E t \in Threads :
        \/ Checked(t) \/ Refused(t) \/ Join(t) \/ Leave(t) \/ SetGroup(t)
        \/ AddNew(t) \/ GroupAllocate(t) \/ set_permissions(t) \/ set_owner(t)
        \/ Delete(t) \/ Drop(t)
        \/ \E token \in Tokens :
            \/ authenticate(t, token)
            \/ \E n \in Names : \/ UserAllocate(t, n, token)
                                \/ authenticate_external(t, n, token)
            \/ \E u \in Uids : ChangePassword(t, u, token)
        \/ \E u \in Uids : \/ UserDelete(t, u)
                           \/ \E g \in Gids : UserChown(t, u, g)
                           \/ \E token \in Tokens \cup {NoToken}, d \in Drivers :
                               ChangeAuth(t, u, token, d)
        \/ \E g \in Gids : GroupDelete(t, g)
        \/ \E m \in Modes : Chmod(t, m)
        \/ \E u \in Uids \cup {NoId}, g \in Gids \cup {NoId} : Chown(t, u, g)
    \/ \E u \in Uids : SessionEnds(u)
    \/ Crash

Spec == Init /\ [][Next]_vars
-----------------------------------------------------------------------------
\* Users and groups agree: a user that no request is changing is in the set of
\* its own group, which exists, and in no other; a user that was deleted is in
\* none.  (Not after requests about the same user crossed, after the group went
\* before the user joined, or after a crash in between: nothing puts it right.)
MembershipAgrees ==
    ~crossed => \A u \in Uids : ~Busy(u) =>
        /\ \A g \in Gids : IsGroup(g) => (u \in groups[g] <=> users[u].gid = g)
        /\ Exists(u) => IsGroup(users[u].gid)

\* A session stands for the password the user has now: one given for an earlier
\* password of the user is not valid any more.  (Unless the password was
\* changed between the check of a token and the session; and a session a server
\* was given lasts when the password of the server changes.)
SessionIsCurrent ==
    ~outdated => \A u \in Uids :
        users[u].session.of = u => /\ users[u].session.token = users[u].password
                                   /\ users[u].driver # "public"

\* An administrative permission of an object changes only for one who was given
\* the right to administer it, and one of others only for administrators or if
\* the daemon allows it; whatever other requests do between the check of the
\* permissions and their change.
ChmodIsAllowed ==
    [][\A b \in {"owner_a", "other_u"} : object'.perms[b] # object.perms[b] =>
        \E t \in Threads :
            /\ thread[t].at = "chmod" /\ thread'[t].at = "idle"
            /\ \/ IsAdmin(thread[t])
               \/ (IF b = "owner_a" THEN thread[t].op = "ADMIN" ELSE EnableOther)
      ]_vars
=============================================================================
