--------------------------- MODULE RequestsProofs ---------------------------
(***************************************************************************)
(* Users, groups, sessions and permissions: proved for any threads, users, *)
(* groups and requests.                                                    *)
(***************************************************************************)
EXTENDS Requests, TLAPS

Stages == {"idle", "check", "ready", "setgroup", "chmod", "chown", "drop"} \cup Between

\* The types of the variables.
Session == [token : Tokens \cup {NoToken}, of : Uids \cup {NoId}]
User == [name : Names \cup {"", "oneadmin", "serveradmin", "user"},
         gid : Gids \cup {NoId}, password : Tokens \cup {NoToken}, driver : Drivers,
         session : Session]
Mode == [Bits -> {-1, 0, 1}]
Ops == {"USE", "MANAGE", "ADMIN"}
Request == [at : Stages, uid : Uids \cup {NoId}, gid : Gids \cup {NoId},
            target : Uids \cup {NoId}, group : Gids \cup {NoId},
            token : Tokens \cup {NoToken}, password : Tokens \cup {NoToken},
            driver : Drivers, server : Uids \cup {NoId},
            op : Ops, mode : Mode]
Object == [uid : Int, gid : Int, perms : Mode]
Ids == [uid : Nat, gid : Nat]

Types ==
    /\ users \in [Uids -> User] /\ groups \in [Gids -> SUBSET Int]
    /\ object \in Object /\ thread \in [Threads -> Request] /\ next \in Ids

\* What a request refers to was allocated before.
Refs(r) ==
    /\ r.target < next.uid /\ r.gid < next.gid /\ r.group < next.gid
    /\ r.at \in {"ready", "check", "addnew"} => r.gid \in Gids
    /\ r.at \in Between \cup {"setgroup"} => r.target \in Uids /\ r.group \in Gids

\* Users and groups have identifiers that were allocated, once.
Known ==
    /\ next.uid >= 3 /\ next.gid >= FirstGid
    /\ \A u \in Uids : /\ users[u].gid = NoId <=> ~Exists(u)
                       /\ Exists(u) => u < next.uid
                       /\ users[u].gid < next.gid
    /\ \A g \in Gids : IsGroup(g) => g < next.gid /\ NoId \notin groups[g]
    /\ \A t \in Threads : Refs(thread[t])

\* The groups that have user u as a member.
Member(u) == {g \in Gids : IsGroup(g) /\ u \in groups[g]}

Mover(t, u) == thread[t].at \in Between /\ thread[t].target = u

\* A user that no request is changing is a member of its own group.
Settled(u) == Member(u) = IF Exists(u) THEN {users[u].gid} ELSE {}

\* How far request r is with the group of user u.
Moving(u, r) ==
    \/ r.at = "join" /\ users[u].gid = r.group /\ Member(u) = {}
    \/ r.at = "leave" /\ ~Exists(u) /\ Member(u) = {r.group}
    \/ /\ r.at = "addnew" /\ users[u].gid = r.group
       /\ r.gid # r.group /\ Member(u) = {r.gid}
    \/ /\ r.at = "delold" /\ Exists(u) /\ users[u].gid # r.group
       /\ Member(u) = {users[u].gid, r.group}

\* One request at a time changes the group of a user, and is as far as its
\* stage says.
Place(u) ==
    /\ (\A t \in Threads : ~Mover(t, u)) => Settled(u)
    /\ \A t \in Threads : Mover(t, u) =>
        /\ Moving(u, thread[t])
        /\ \A s \in Threads : Mover(s, u) => s = t

Placed == ~crossed => \A u \in Uids : Place(u)

GroupInv == Types /\ Known /\ Placed
-----------------------------------------------------------------------------
(* Records.                                                                *)

LEMMA IdleType == Idle \in Request /\ Idle.at = "idle" /\ Idle.target = NoId
                  /\ Idle.gid = NoId /\ Idle.group = NoId /\ Idle.uid = NoId
  <1>1. [b \in Bits |-> -1] \in Mode
    BY DEF Mode
  <1>2. PICK m \in Mode : m = [b \in Bits |-> -1]
    BY <1>1
  <1>3. Idle = [at |-> "idle", uid |-> NoId, gid |-> NoId, target |-> NoId,
                group |-> NoId, token |-> NoToken, password |-> NoToken,
                driver |-> "core", server |-> NoId, op |-> "USE", mode |-> m]
    BY <1>2 DEF Idle
  <1>4. "idle" \in Stages /\ "core" \in Drivers /\ "USE" \in Ops
    BY DEF Stages, Drivers, Ops
  <1> QED BY <1>3, <1>4 DEF Request


\* The thread of a request that goes on or returns.
LEMMA GoesDoes ==
    ASSUME Types, NEW t \in Threads, NEW r \in Request, Goes(t, r)
    PROVE  /\ thread' \in [Threads -> Request] /\ thread'[t] = r
           /\ \A s \in Threads : s # t => thread'[s] = thread[s]
  BY DEF Types, Goes

\* What is known of a user that exists, of a group and of a thread.
LEMMA KnownUser ==
    ASSUME Types, Known, NEW u \in Uids, Exists(u)
    PROVE  users[u].gid \in Gids /\ users[u].gid < next.gid /\ u < next.uid
  BY DEF Types, Known, User

LEMMA KnownThread ==
    ASSUME Types, Known, NEW t \in Threads
    PROVE  thread[t] \in Request /\ Refs(thread[t])
  BY DEF Types, Known

LEMMA IdleRefs ==
    ASSUME Types, Known
    PROVE  Refs(Idle)
  <1>1. next.uid \in Nat /\ next.gid \in Nat
    BY DEF Types, Ids
  <1> QED BY <1>1, IdleType DEF Refs, Between, NoId

LEMMA StagesAre ==
    /\ {"idle", "check", "ready", "setgroup", "chmod", "chown", "drop",
        "join", "leave", "addnew", "delold"} = Stages
    /\ {"idle", "check", "ready", "setgroup", "chmod", "chown", "drop"} \cap Between = {}
  BY DEF Stages, Between
-----------------------------------------------------------------------------
(* Requests that change the group of no user.                              *)

\* Users stay what they are and where they are.
SameUsers ==
    \A u \in Uids : users'[u].gid = users[u].gid /\ (~Exists(u) => users'[u] = users[u])

Quiet(t, r) ==
    /\ r \in Request /\ Refs(r) /\ r.at \notin Between /\ thread[t].at \notin Between
    /\ Goes(t, r) /\ UNCHANGED <<groups, next>> /\ (crossed => crossed')
    /\ users' \in [Uids -> User] /\ object' \in Object /\ SameUsers

LEMMA AuthenticateQuiet ==
    ASSUME Types, Known, NEW t \in Threads, NEW token \in Tokens, authenticate(t, token)
    PROVE  \E r : Quiet(t, r)
  <1>0. /\ UNCHANGED <<groups, next, users, object>> /\ crossed' = crossed
        /\ thread[t].at = "idle"
    BY DEF authenticate, Comes, At
  <1>1. PICK u \in Uids :
        /\ Exists(u)
        /\ \/ authenticate_internal(t, u, token)
           \/ \E s \in Uids : Exists(s) /\ authenticate_server(t, s, u, token)
    BY DEF authenticate
  <1>2. users[u].gid \in Gids /\ users[u].gid < next.gid /\ u < next.uid
    BY <1>1, KnownUser
  <1>3. \A s \in Uids : users[s].password \in Tokens \cup {NoToken} /\ users[s].driver \in Drivers
    BY DEF Types, User
  <1>4. \/ Begin(t, u)
        \/ \E s \in Uids : Goes(t, [Idle EXCEPT !.at = "check", !.target = u,
                        !.gid = users[u].gid, !.token = token,
                        !.password = users[s].password,
                        !.driver = users[s].driver, !.server = s])
    BY <1>1 DEF authenticate_internal, authenticate_server
  <1>5. PICK r : /\ Goes(t, r) /\ r \in Request /\ r.at \in {"ready", "check"}
                 /\ r.target \in {u, NoId} /\ r.gid = users[u].gid /\ r.group = NoId
    <2>1. CASE Begin(t, u)
      <3>1. PICK r : r = [Idle EXCEPT !.at = "ready", !.uid = u, !.gid = users[u].gid]
        OBVIOUS
      <3>2. r \in Request
        BY <1>2, <3>1, IdleType, StagesAre DEF Request
      <3>3. r.at = "ready" /\ r.target = NoId /\ r.gid = users[u].gid /\ r.group = NoId
        BY <3>1 DEF Idle
      <3> QED BY <2>1, <3>1, <3>2, <3>3 DEF Begin
    <2>2. ASSUME NEW s \in Uids,
                 Goes(t, [Idle EXCEPT !.at = "check", !.target = u,
                        !.gid = users[u].gid, !.token = token,
                        !.password = users[s].password,
                        !.driver = users[s].driver, !.server = s])
          PROVE  \E r : /\ Goes(t, r) /\ r \in Request /\ r.at \in {"ready", "check"}
                        /\ r.target \in {u, NoId} /\ r.gid = users[u].gid /\ r.group = NoId
      <3>0. PICK password \in Tokens \cup {NoToken}, driver \in Drivers :
                password = users[s].password /\ driver = users[s].driver
        BY <1>3
      <3>1. PICK r : r = [Idle EXCEPT !.at = "check", !.target = u,
                        !.gid = users[u].gid, !.token = token,
                        !.password = password, !.driver = driver, !.server = s]
        OBVIOUS
      <3>2. r \in Request
        BY <1>2, <3>1, IdleType, StagesAre DEF Request
      <3>3. r.at = "check" /\ r.target = u /\ r.gid = users[u].gid /\ r.group = NoId
        BY <3>1 DEF Idle
      <3> QED BY <2>2, <3>0, <3>1, <3>2, <3>3
    <2> QED BY <1>4, <2>1, <2>2
  <1>6. Refs(r)
    <2>1. next.uid \in Nat /\ next.gid \in Nat
      BY DEF Types, Ids
    <2> QED BY <1>2, <1>5, <2>1 DEF Refs, Between, NoId
  <1>7. r.at \notin Between /\ thread[t].at \notin Between
    BY <1>0, <1>5 DEF Between
  <1> QED BY <1>0, <1>5, <1>6, <1>7 DEF Quiet, Types, SameUsers

\* Requests that return.
LEMMA ReturnsQuiet ==
    ASSUME Types, Known, NEW t \in Threads, Returns(t), thread[t].at \notin Between,
           UNCHANGED <<groups, next>>, crossed => crossed',
           users' \in [Uids -> User], object' \in Object, SameUsers
    PROVE  \E r : Quiet(t, r)
  <1>1. Idle.at \notin Between
    BY IdleType DEF Between
  <1> QED BY <1>1, IdleType, IdleRefs DEF Quiet, Returns

\* set_password changes neither the users nor their groups.
LEMMA PasswordType ==
    ASSUME Types, NEW u \in Uids, NEW token \in Tokens \cup {NoToken},
           NEW driver \in Drivers, set_password(u, token, driver)
    PROVE  /\ users' \in [Uids -> User] /\ users'[u].gid = users[u].gid
           /\ users'[u].session = NoSession
           /\ \A w \in Uids : w # u => users'[w] = users[w]
  <1>1. NoSession \in Session
    BY DEF NoSession, Session
  <1>2. users \in [Uids -> User] /\ users[u] \in User
    BY DEF Types
  <1>3. users' = [users EXCEPT ![u] = [users[u] EXCEPT !.password = token,
                                            !.driver = driver, !.session = NoSession]]
    BY <1>2 DEF set_password
  <1>4. PICK x : x = [users[u] EXCEPT !.password = token, !.driver = driver,
                                      !.session = NoSession]
    OBVIOUS
  <1>5. x \in User
    BY <1>1, <1>2, <1>4 DEF User
  <1>6. x.gid = users[u].gid /\ x.session = NoSession
    BY <1>2, <1>4 DEF User
  <1> QED BY <1>2, <1>3, <1>4, <1>5, <1>6

LEMMA ChangesQuiet ==
    ASSUME Types, Known, NEW t \in Threads, NEW u \in Uids,
           \/ \E token \in Tokens : ChangePassword(t, u, token)
           \/ \E token \in Tokens \cup {NoToken}, d \in Drivers : ChangeAuth(t, u, token, d)
    PROVE  \E r : Quiet(t, r)
  <1>0. users[u].driver \in Drivers /\ users[u].password \in Tokens \cup {NoToken}
    BY DEF Types, User
  <1>1. PICK token \in Tokens \cup {NoToken}, d \in Drivers : set_password(u, token, d)
    <2>1. ASSUME NEW token \in Tokens, ChangePassword(t, u, token)
          PROVE  \E k \in Tokens \cup {NoToken}, d \in Drivers : set_password(u, k, d)
      BY <1>0, <2>1 DEF ChangePassword
    <2>2. ASSUME NEW token \in Tokens \cup {NoToken}, NEW d \in Drivers,
                 ChangeAuth(t, u, token, d)
          PROVE  \E k \in Tokens \cup {NoToken}, e \in Drivers : set_password(u, k, e)
      BY <1>0, <2>2 DEF ChangeAuth
    <2> QED BY <2>1, <2>2
  <1>2. users' \in [Uids -> User] /\ SameUsers
    <2>1. Exists(u)
      BY DEF ChangePassword, ChangeAuth
    <2> QED BY <1>1, <2>1, PasswordType DEF SameUsers
  <1>3. /\ Returns(t) /\ thread[t].at = "ready" /\ UNCHANGED <<groups, next, object>>
        /\ crossed' = crossed
    BY DEF ChangePassword, ChangeAuth, Calls, At
  <1>4. thread[t].at \notin Between /\ object' \in Object
    BY <1>3 DEF Between, Types
  <1> QED BY <1>2, <1>3, <1>4, ReturnsQuiet

\* The object, in one step of the request.
LEMMA ObjectQuiet ==
    ASSUME Types, Known, NEW t \in Threads,
           Refused(t) \/ set_permissions(t) \/ set_owner(t) \/ Drop(t)
    PROVE  \E r : Quiet(t, r)
  <1>0. /\ Returns(t) /\ UNCHANGED <<users, groups, next>> /\ crossed' = crossed
        /\ thread[t].at \in {"ready", "chmod", "chown", "drop"}
    BY DEF Refused, set_permissions, set_owner, Drop, At
  <1>1. thread[t].at \notin Between /\ users' \in [Uids -> User] /\ SameUsers
    BY <1>0 DEF Between, Types, SameUsers
  <1>2. object \in Object /\ thread[t] \in Request
    BY DEF Types
  <1>3. object' \in Object
    <2>1. CASE Refused(t)
      BY <1>2, <2>1 DEF Refused
    <2>2. CASE set_permissions(t)
      <3>1. PICK m \in Mode : m = thread[t].mode
        BY <1>2 DEF Request
      <3>2. PICK p \in Mode : p = object.perms
        BY <1>2 DEF Object
      <3>3. PICK q : q = [b \in Bits |-> IF m[b] = -1 THEN p[b] ELSE m[b]]
        OBVIOUS
      <3>4. q \in Mode
        BY <3>3 DEF Mode
      <3>5. object' = object \/ object' = [object EXCEPT !.perms = q]
        BY <1>2, <2>2, <3>1, <3>2, <3>3 DEF set_permissions, Object
      <3> QED BY <1>2, <3>4, <3>5 DEF Object
    <2>3. CASE set_owner(t)
      <3>1. thread[t].target \in Int /\ thread[t].group \in Int
        BY <1>2, RequestsAssumption
           DEF Request, Uids, Gids, NoId, ONEADMIN_ID, USERS_ID, FirstGid
      <3>2. object.uid \in Int /\ object.gid \in Int
        BY <1>2 DEF Object
      <3>3. PICK x \in Int, y \in Int :
                object' = object \/ object' = [object EXCEPT !.uid = x, !.gid = y]
        <4>1. PICK x \in Int : x = IF thread[t].target = NoId THEN object.uid
                                   ELSE thread[t].target
          BY <3>1, <3>2
        <4>2. PICK y \in Int : y = IF thread[t].group = NoId THEN object.gid
                                   ELSE thread[t].group
          BY <3>1, <3>2
        <4>3. object' = object \/ object' = [object EXCEPT !.uid = x, !.gid = y]
          BY <1>2, <2>3, <4>1, <4>2 DEF set_owner, Object
        <4> QED BY <4>3
      <3> QED BY <1>2, <3>3 DEF Object
    <2>4. CASE Drop(t)
      <3>1. NoId \in Int
        BY DEF NoId
      <3> QED BY <1>2, <2>4, <3>1 DEF Drop, Object
    <2> QED BY <2>1, <2>2, <2>3, <2>4
  <1> QED BY <1>0, <1>1, <1>3, ReturnsQuiet

\* Users are looked up, checked and authorised; the request goes on.
LEMMA GoesOnQuiet ==
    ASSUME Types, Known, NEW t \in Threads, NEW r \in Request, Goes(t, r),
           r.at \in {"ready", "setgroup", "chmod", "chown", "drop"},
           thread[t].at \in {"ready", "check"}, r.gid = thread[t].gid,
           r.target < next.uid, r.group < next.gid,
           r.at = "setgroup" => r.target \in Uids /\ r.group \in Gids,
           UNCHANGED <<users, groups, next, object>>, crossed' = crossed
    PROVE  Quiet(t, r)
  <1>1. thread[t].gid < next.gid /\ thread[t].gid \in Gids
    BY KnownThread DEF Refs
  <1>2. Refs(r)
    BY <1>1 DEF Refs, Between
  <1>3. r.at \notin Between /\ thread[t].at \notin Between
    BY DEF Between
  <1> QED BY <1>2, <1>3 DEF Quiet, Types, SameUsers

LEMMA MethodsQuiet ==
    ASSUME Types, Known, NEW t \in Threads,
           \/ \E u \in Uids, g \in Gids : UserChown(t, u, g)
           \/ \E m \in Modes : Chmod(t, m)
           \/ \E u \in Uids \cup {NoId}, g \in Gids \cup {NoId} : Chown(t, u, g)
           \/ Delete(t)
    PROVE  \E r : Quiet(t, r)
  <1>0. /\ UNCHANGED <<users, groups, next, object>> /\ crossed' = crossed
        /\ thread[t].at = "ready"
    BY DEF UserChown, Chmod, Chown, Delete, Calls, At
  <1>1. thread[t] \in Request /\ Refs(thread[t])
    BY KnownThread
  <1>2. next.uid \in Nat /\ next.gid \in Nat
    BY DEF Types, Ids
  <1>3. thread[t].target < next.uid /\ thread[t].group < next.gid
    BY <1>1 DEF Refs
  <1>4. ASSUME NEW u \in Uids, NEW g \in Gids, UserChown(t, u, g)
        PROVE  \E r : Quiet(t, r)
    <2>1. PICK r : r = [thread[t] EXCEPT !.at = "setgroup", !.target = u, !.group = g]
      OBVIOUS
    <2>2. r \in Request
      BY <1>1, <2>1, StagesAre DEF Request
    <2>3. r.at = "setgroup" /\ r.target = u /\ r.group = g /\ r.gid = thread[t].gid
      BY <1>1, <2>1 DEF Request
    <2>4. u < next.uid /\ g < next.gid
      BY <1>4, KnownUser DEF UserChown, Known
    <2>5. Goes(t, r)
      BY <1>4, <2>1 DEF UserChown
    <2> QED BY <1>0, <2>2, <2>3, <2>4, <2>5, GoesOnQuiet
  <1>5. ASSUME NEW m \in Modes, Chmod(t, m)
        PROVE  \E r : Quiet(t, r)
    <2>1. PICK op \in {"MANAGE", "ADMIN"}, n \in {m, Asked(m)} :
              Goes(t, [thread[t] EXCEPT !.at = "chmod", !.op = op, !.mode = n])
      <3>1. OpFor(m) \in {"MANAGE", "ADMIN"}
        BY DEF OpFor
      <3> QED BY <1>5, <3>1 DEF Chmod
    <2>2. m \in Mode /\ Asked(m) \in Mode
      BY RequestsAssumption DEF Mode, Asked
    <2>3. PICK r : r = [thread[t] EXCEPT !.at = "chmod", !.op = op, !.mode = n]
      OBVIOUS
    <2>4. r \in Request
      <3>1. n \in Mode /\ op \in Ops /\ "chmod" \in Stages
        BY <2>2, StagesAre DEF Ops
      <3> QED BY <1>1, <2>3, <3>1 DEF Request
    <2>5. /\ r.at = "chmod" /\ r.target = thread[t].target /\ r.group = thread[t].group
          /\ r.gid = thread[t].gid
      BY <1>1, <2>3 DEF Request
    <2> QED BY <1>0, <1>3, <2>1, <2>3, <2>4, <2>5, GoesOnQuiet
  <1>6. ASSUME NEW u \in Uids \cup {NoId}, NEW g \in Gids \cup {NoId}, Chown(t, u, g)
        PROVE  \E r : Quiet(t, r)
    <2>1. PICK r : r = [thread[t] EXCEPT !.at = "chown", !.target = u, !.group = g]
      OBVIOUS
    <2>2. r \in Request
      BY <1>1, <2>1, StagesAre DEF Request
    <2>3. r.at = "chown" /\ r.target = u /\ r.group = g /\ r.gid = thread[t].gid
      BY <1>1, <2>1 DEF Request
    <2>4. u < next.uid
      <3>1. CASE u = NoId
        BY <1>2, <3>1 DEF NoId
      <3>2. CASE u # NoId
        BY <1>6, <3>2, KnownUser DEF Chown
      <3> QED BY <3>1, <3>2
    <2>5. g < next.gid
      <3>1. CASE g = NoId
        BY <1>2, <3>1 DEF NoId
      <3>2. CASE g # NoId
        BY <1>6, <3>2 DEF Chown, Known
      <3> QED BY <3>1, <3>2
    <2>6. Goes(t, r)
      BY <1>6, <2>1 DEF Chown
    <2> QED BY <1>0, <2>2, <2>3, <2>4, <2>5, <2>6, GoesOnQuiet
  <1>7. CASE Delete(t)
    <2>1. PICK r : r = [thread[t] EXCEPT !.at = "drop"]
      OBVIOUS
    <2>2. r \in Request
      BY <1>1, <2>1, StagesAre DEF Request
    <2>3. /\ r.at = "drop" /\ r.target = thread[t].target /\ r.group = thread[t].group
          /\ r.gid = thread[t].gid
      BY <1>1, <2>1 DEF Request
    <2>4. Goes(t, r)
      BY <1>7, <2>1 DEF Delete
    <2> QED BY <1>0, <1>3, <2>2, <2>3, <2>4, GoesOnQuiet
  <1> QED BY <1>4, <1>5, <1>6, <1>7

\* The session of a user.
LEMMA SessionType ==
    ASSUME Types, NEW u \in Uids, NEW s \in Session,
           users' = [users EXCEPT ![u].session = s]
    PROVE  /\ users' \in [Uids -> User] /\ users'[u].gid = users[u].gid
           /\ users'[u].session = s
           /\ users'[u].password = users[u].password
           /\ users'[u].driver = users[u].driver
           /\ \A w \in Uids : w # u => users'[w] = users[w]
  <1>1. users \in [Uids -> User] /\ users[u] \in User
    BY DEF Types
  <1>2. PICK x : x = [users[u] EXCEPT !.session = s]
    OBVIOUS
  <1>3. users' = [users EXCEPT ![u] = x]
    BY <1>1, <1>2
  <1>4. x \in User
    BY <1>1, <1>2 DEF User
  <1>5. /\ x.gid = users[u].gid /\ x.session = s /\ x.password = users[u].password
        /\ x.driver = users[u].driver
    BY <1>1, <1>2 DEF User
  <1> QED BY <1>1, <1>3, <1>4, <1>5

\* The session that is given is for the one whose token it was.
LEMMA CheckedGives ==
    ASSUME Types, NEW t \in Threads, Checked(t), users' # users
    PROVE  /\ thread[t].token = thread[t].password /\ thread[t].driver # "public"
           /\ \E s \in Session :
                /\ s.token = thread[t].token /\ s.of = thread[t].server
                /\ Exists(thread[t].target)
                /\ users' = [users EXCEPT ![thread[t].target].session = s]
  <1>1. thread[t] \in Request
    BY DEF Types
  <1>2. /\ thread[t].token = thread[t].password /\ thread[t].driver # "public"
        /\ Exists(thread[t].target)
        /\ users' = [users EXCEPT ![thread[t].target].session =
                        [token |-> thread[t].token, of |-> thread[t].server]]
    BY DEF Checked, set_session
  <1>3. PICK s : s = [token |-> thread[t].token, of |-> thread[t].server]
    OBVIOUS
  <1>4. s \in Session /\ s.token = thread[t].token /\ s.of = thread[t].server
    BY <1>1, <1>3 DEF Session, Request
  <1>5. users' = [users EXCEPT ![thread[t].target].session = s]
    BY <1>2, <1>3
  <1> QED BY <1>2, <1>4, <1>5

LEMMA CheckedQuiet ==
    ASSUME Types, Known, NEW t \in Threads, Checked(t)
    PROVE  \E r : Quiet(t, r)
  <1>0. /\ UNCHANGED <<groups, next, object>> /\ crossed' = crossed
        /\ thread[t].at = "check" /\ object' \in Object
    BY DEF Checked, At, Types
  <1>1. thread[t] \in Request /\ Refs(thread[t])
    BY KnownThread
  <1>2. users' \in [Uids -> User] /\ SameUsers
    <2>1. CASE users' = users
      BY <2>1 DEF Types, SameUsers
    <2>2. CASE users' # users
      <3>1. PICK s \in Session :
                /\ Exists(thread[t].target)
                /\ users' = [users EXCEPT ![thread[t].target].session = s]
        BY <2>2, CheckedGives
      <3>2. PICK u \in Uids : u = thread[t].target
        BY <3>1 DEF Exists
      <3>3. Exists(u)
        BY <3>1, <3>2
      <3> QED BY <3>1, <3>2, <3>3, SessionType DEF SameUsers
    <2> QED BY <2>1, <2>2
  <1>3. \/ Returns(t)
        \/ Goes(t, [Idle EXCEPT !.at = "ready", !.uid = thread[t].target,
                                !.gid = thread[t].gid])
    BY DEF Checked
  <1>4. CASE Returns(t)
    <2>1. thread[t].at \notin Between
      BY <1>0 DEF Between
    <2> QED BY <1>0, <1>2, <1>4, <2>1, ReturnsQuiet
  <1>5. CASE Goes(t, [Idle EXCEPT !.at = "ready", !.uid = thread[t].target,
                                  !.gid = thread[t].gid])
    <2>0. thread[t].target \in Uids \cup {NoId} /\ thread[t].gid \in Gids
          /\ thread[t].gid < next.gid
      BY <1>0, <1>1 DEF Request, Refs
    <2>1. PICK r : r = [Idle EXCEPT !.at = "ready", !.uid = thread[t].target,
                                    !.gid = thread[t].gid]
      OBVIOUS
    <2>2. r \in Request
      BY <2>0, <2>1, IdleType, StagesAre DEF Request
    <2>3. r.at = "ready" /\ r.target = NoId /\ r.group = NoId /\ r.gid = thread[t].gid
      BY <2>1 DEF Idle
    <2>4. next.uid \in Nat /\ next.gid \in Nat
      BY DEF Types, Ids
    <2>5. Refs(r) /\ r.at \notin Between /\ thread[t].at \notin Between
      BY <1>0, <2>0, <2>3, <2>4 DEF Refs, Between, NoId
    <2> QED BY <1>0, <1>2, <1>5, <2>1, <2>2, <2>5 DEF Quiet
  <1> QED BY <1>3, <1>4, <1>5
-----------------------------------------------------------------------------
(* The invariant, user by user.                                            *)

\* Who exists is who has a group.
LEMMA ExistsKept ==
    ASSUME Known, SameUsers
    PROVE  \A u \in Uids : (Exists(u)' <=> Exists(u)) /\ (users'[u].gid = NoId <=> ~Exists(u)')
  <1> SUFFICES ASSUME NEW u \in Uids
               PROVE  (Exists(u)' <=> Exists(u)) /\ (users'[u].gid = NoId <=> ~Exists(u)')
    OBVIOUS
  <1>1. users'[u].gid = users[u].gid /\ (~Exists(u) => users'[u] = users[u])
    BY DEF SameUsers
  <1>2. users[u].gid = NoId <=> ~Exists(u)
    BY DEF Known
  <1>3. NoUser.gid = NoId
    BY DEF NoUser
  <1>4. (Exists(u)' <=> users'[u] # NoUser) /\ (Exists(u) <=> users[u] # NoUser)
    BY DEF Exists
  <1> QED BY <1>1, <1>2, <1>3, <1>4

LEMMA PlaceKept ==
    ASSUME NEW u \in Uids, Place(u), users'[u].gid = users[u].gid,
           Exists(u)' <=> Exists(u), Member(u)' = Member(u),
           \A s \in Threads : /\ Mover(s, u)' <=> Mover(s, u)
                              /\ Mover(s, u) => thread'[s] = thread[s]
    PROVE  Place(u)'
  <1>1. ASSUME \A s \in Threads : ~Mover(s, u)'
        PROVE  Settled(u)'
    BY <1>1 DEF Place, Settled
  <1>2. ASSUME NEW t \in Threads, Mover(t, u)'
        PROVE  Moving(u, thread[t])' /\ \A s \in Threads : Mover(s, u)' => s = t
    <2>1. /\ Mover(t, u) /\ thread'[t] = thread[t] /\ Moving(u, thread[t])
          /\ \A s \in Threads : Mover(s, u) => s = t
      BY <1>2 DEF Place
    <2> QED BY <2>1 DEF Moving
  <1> QED BY <1>1, <1>2 DEF Place

LEMMA MemberKept ==
    ASSUME NEW u, groups' = groups
    PROVE  Member(u)' = Member(u)
  BY DEF Member, IsGroup

LEMMA QuietInv ==
    ASSUME GroupInv, NEW t \in Threads, NEW r, Quiet(t, r)
    PROVE  GroupInv'
  <1>0. Types /\ Known /\ Placed /\ r \in Request
    BY DEF GroupInv, Quiet
  <1>1. /\ thread' \in [Threads -> Request] /\ thread'[t] = r
        /\ \A s \in Threads : s # t => thread'[s] = thread[s]
    BY <1>0, GoesDoes DEF Quiet
  <1>2. Types'
    BY <1>0, <1>1 DEF Quiet, Types
  <1>3. \A u \in Uids : /\ Exists(u)' <=> Exists(u)
                        /\ users'[u].gid = NoId <=> ~Exists(u)'
                        /\ users'[u].gid = users[u].gid
    BY <1>0, ExistsKept DEF Quiet, SameUsers
  <1>4. Known'
    <2>1. groups' = groups /\ next' = next
      BY DEF Quiet
    <2>2. ASSUME NEW s \in Threads
          PROVE  Refs(thread[s])'
      <3>1. Refs(thread'[s])
        BY <1>0, <1>1, KnownThread DEF Quiet
      <3> QED BY <2>1, <3>1 DEF Refs
    <2>3. \A g \in Gids : IsGroup(g)' => g < next.gid /\ NoId \notin groups[g]
      BY <1>0, <2>1 DEF Known, IsGroup
    <2>4. \A u \in Uids : (Exists(u)' => u < next.uid) /\ users'[u].gid < next.gid
      BY <1>0, <1>3 DEF Known
    <2>5. next.uid >= 3 /\ next.gid >= FirstGid
      BY <1>0 DEF Known
    <2> QED BY <1>3, <2>1, <2>2, <2>3, <2>4, <2>5 DEF Known
  <1>5. Placed'
    <2> SUFFICES ASSUME ~crossed', NEW u \in Uids
                 PROVE  Place(u)'
      BY DEF Placed
    <2>1. Place(u)
      BY <1>0 DEF Placed, Quiet
    <2>2. Member(u)' = Member(u)
      BY MemberKept DEF Quiet
    <2>3. \A s \in Threads : /\ Mover(s, u)' <=> Mover(s, u)
                             /\ Mover(s, u) => thread'[s] = thread[s]
      BY <1>1 DEF Mover, Quiet
    <2> QED BY <1>3, <2>1, <2>2, <2>3, PlaceKept
  <1> QED BY <1>2, <1>4, <1>5 DEF GroupInv
-----------------------------------------------------------------------------
(* Requests that change the group of a user.                               *)

\* The invariant is kept for the users the request is not about.
LEMMA OtherPlaceKept ==
    ASSUME NEW u, NEW t \in Threads, NEW w \in Uids, w # u, Place(w),
           users'[w] = users[w], Member(w)' = Member(w),
           \A s \in Threads : s # t => thread'[s] = thread[s],
           ~Mover(t, w), ~Mover(t, w)'
    PROVE  Place(w)'
  <1>1. Exists(w)' <=> Exists(w)
    BY DEF Exists
  <1>2. ASSUME NEW s \in Threads
        PROVE  (Mover(s, w)' <=> Mover(s, w)) /\ (Mover(s, w) => thread'[s] = thread[s])
    BY DEF Mover
  <1> QED BY <1>1, <1>2, PlaceKept

\* A user of whom nobody knows is new.
LEMMA NewIsNobody ==
    ASSUME GroupInv, NEW u \in Uids, u = next.uid
    PROVE  /\ ~Exists(u) /\ \A s \in Threads : ~Mover(s, u)
           /\ ~crossed => Member(u) = {}
  <1>0. Types /\ Known /\ Placed
    BY DEF GroupInv
  <1>1. next.uid \in Nat
    BY <1>0 DEF Types, Ids
  <1>2. ~Exists(u)
    BY <1>0, <1>1 DEF Known
  <1>3. \A s \in Threads : ~Mover(s, u)
    BY <1>0, <1>1, KnownThread DEF Mover, Refs
  <1> QED BY <1>0, <1>2, <1>3 DEF Placed, Place, Settled

LEMMA NewUserType ==
    ASSUME NEW n \in Names, NEW gid \in Gids, NEW token \in Tokens,
           NEW driver \in Drivers
    PROVE  /\ NewUser(n, gid, token, driver) \in User
           /\ NewUser(n, gid, token, driver).gid = gid
           /\ NewUser(n, gid, token, driver) # NoUser
           /\ NewUser(n, gid, token, driver).session = NoSession
  <1>1. NoSession \in Session
    BY DEF NoSession, Session
  <1>2. PICK x : x = NewUser(n, gid, token, driver)
    OBVIOUS
  <1>3. x = [name |-> n, gid |-> gid, password |-> token, driver |-> driver,
             session |-> NoSession]
    BY <1>2 DEF NewUser
  <1>4. x \in User /\ x.gid = gid /\ x.session = NoSession
    BY <1>1, <1>3 DEF User
  <1>5. gid # NoId /\ NoUser.gid = NoId
    BY DEF Gids, NoId, NoUser, ONEADMIN_ID, USERS_ID, FirstGid
  <1> QED BY <1>2, <1>4, <1>5

\* A user is added to the pool, and its request is to join its group.
LEMMA AllocatesInv ==
    ASSUME GroupInv, NEW t \in Threads, NEW n \in Names, NEW gid \in Gids,
           NEW token \in Tokens, NEW driver \in Drivers,
           Allocates(n, gid, token, driver), gid < next.gid,
           thread[t].at \notin Between,
           NEW r \in Request, Goes(t, r), r.at = "join", r.target = next.uid,
           r.group = gid, r.gid < next.gid,
           UNCHANGED <<groups, object>>, crossed' = crossed
    PROVE  GroupInv'
  <1>0. Types /\ Known /\ Placed
    BY DEF GroupInv
  <1>1. PICK u \in Uids : u = next.uid
    BY DEF Allocates
  <1>2. PICK x \in User : x = NewUser(n, gid, token, driver) /\ x.gid = gid /\ x # NoUser
    BY NewUserType
  <1>3. /\ users' = [users EXCEPT ![u] = x] /\ next' = [next EXCEPT !.uid = next.uid + 1]
    BY <1>1, <1>2 DEF Allocates
  <1>4. /\ thread' \in [Threads -> Request] /\ thread'[t] = r
        /\ \A s \in Threads : s # t => thread'[s] = thread[s]
    BY <1>0, GoesDoes
  <1>5. /\ users' \in [Uids -> User] /\ users'[u] = x
        /\ \A w \in Uids : w # u => users'[w] = users[w]
    BY <1>0, <1>3 DEF Types
  <1>6. /\ next' \in Ids /\ next'.uid = next.uid + 1 /\ next'.gid = next.gid
        /\ next.uid \in Nat /\ next.gid \in Nat
    BY <1>0, <1>3 DEF Types, Ids
  <1>7. Types'
    BY <1>0, <1>4, <1>5, <1>6 DEF Types
  <1>8. /\ ~Exists(u) /\ \A s \in Threads : ~Mover(s, u)
        /\ ~crossed => Member(u) = {}
    BY <1>1, NewIsNobody
  <1>9. Exists(u)' /\ \A w \in Uids : w # u => (Exists(w)' <=> Exists(w))
    BY <1>2, <1>5 DEF Exists
  <1>10. gid # NoId
    BY DEF Gids, NoId, ONEADMIN_ID, USERS_ID, FirstGid
  <1>11. Known'
    <2>1. ASSUME NEW w \in Uids
          PROVE  /\ users'[w].gid = NoId <=> ~Exists(w)'
                 /\ Exists(w)' => w < next'.uid
                 /\ users'[w].gid < next'.gid
      <3>1. CASE w = u
        BY <1>1, <1>2, <1>5, <1>6, <1>9, <1>10, <3>1
      <3>2. CASE w # u
        <4>1. /\ users[w].gid = NoId <=> ~Exists(w)
              /\ Exists(w) => w < next.uid
              /\ users[w].gid < next.gid
          BY <1>0 DEF Known
        <4>2. w \in Int
          BY RequestsAssumption DEF Uids
        <4> QED BY <1>5, <1>6, <1>9, <3>2, <4>1, <4>2
      <3> QED BY <3>1, <3>2
    <2>2. ASSUME NEW s \in Threads
          PROVE  Refs(thread[s])'
      <3>1. CASE s = t
        BY <1>1, <1>4, <1>6, <3>1 DEF Refs, Between
      <3>2. CASE s # t
        <4>1. Refs(thread[s]) /\ thread[s].target \in Int
          BY <1>0, KnownThread, RequestsAssumption DEF Request, Uids, NoId
        <4> QED BY <1>4, <1>6, <3>2, <4>1 DEF Refs
      <3> QED BY <3>1, <3>2
    <2>3. \A g \in Gids : IsGroup(g)' => g < next'.gid /\ NoId \notin groups'[g]
      BY <1>0, <1>6 DEF Known, IsGroup
    <2>4. next'.uid >= 3 /\ next'.gid >= FirstGid
      BY <1>0, <1>6 DEF Known
    <2> QED BY <2>1, <2>2, <2>3, <2>4 DEF Known
  <1>12. Placed'
    <2> SUFFICES ASSUME ~crossed, NEW w \in Uids
                 PROVE  Place(w)'
      BY DEF Placed
    <2>1. Place(w) /\ Member(w)' = Member(w)
      BY <1>0, MemberKept DEF Placed
    <2>2. CASE w # u
      <3>1. ~Mover(t, w) /\ ~Mover(t, w)'
        BY <1>1, <1>4, <2>2 DEF Mover
      <3> QED BY <1>4, <1>5, <2>1, <2>2, <3>1, OtherPlaceKept
    <2>3. CASE w = u
      <3>1. \A s \in Threads : Mover(s, w)' <=> s = t
        BY <1>1, <1>4, <1>8, <2>3 DEF Mover, Between
      <3>2. Moving(w, thread[t])'
        BY <1>2, <1>4, <1>5, <1>8, <2>1, <2>3 DEF Moving
      <3> QED BY <3>1, <3>2 DEF Place
    <2> QED BY <2>2, <2>3
  <1> QED BY <1>7, <1>11, <1>12 DEF GroupInv

LEMMA NewUserInv ==
    ASSUME GroupInv, NEW t \in Threads, NEW n \in Names, NEW token \in Tokens,
           UserAllocate(t, n, token) \/ authenticate_external(t, n, token)
    PROVE  GroupInv'
  <1>0. Types /\ Known
    BY DEF GroupInv
  <1>1. thread[t] \in Request /\ Refs(thread[t]) /\ next.uid \in Nat /\ next.gid \in Nat
    BY <1>0, KnownThread DEF Types, Ids
  <1>2. /\ next.gid >= 100 /\ USERS_ID \in Gids /\ USERS_ID < next.gid
        /\ "core" \in Drivers /\ "ldap" \in Drivers
    BY <1>0, <1>1 DEF Known, FirstGid, Gids, USERS_ID, Drivers
  <1>3. CASE UserAllocate(t, n, token)
    <2>0. thread[t].at = "ready" /\ thread[t].gid \in Gids /\ thread[t].gid < next.gid
      BY <1>1, <1>3 DEF UserAllocate, Calls, At, Refs
    <2>1. PICK gid : gid = IF thread[t].gid = ONEADMIN_ID THEN USERS_ID ELSE thread[t].gid
      OBVIOUS
    <2>2. gid \in Gids /\ gid < next.gid
      BY <1>2, <2>0, <2>1
    <2>3. PICK u \in Uids : u = next.uid
      BY <1>3 DEF UserAllocate, Allocates
    <2>4. PICK r : r = [thread[t] EXCEPT !.at = "join", !.target = u, !.group = gid,
                                         !.uid = NoId]
      OBVIOUS
    <2>5. r \in Request
      BY <1>1, <2>2, <2>4, StagesAre DEF Request
    <2>6. /\ r.at = "join" /\ r.target = next.uid /\ r.group = gid
          /\ r.gid = thread[t].gid
      BY <1>1, <2>3, <2>4 DEF Request
    <2>7. /\ Goes(t, r) /\ Allocates(n, gid, token, "core")
          /\ UNCHANGED <<groups, object>> /\ crossed' = crossed
      BY <1>3, <2>1, <2>3, <2>4 DEF UserAllocate
    <2>8. thread[t].at \notin Between
      BY <2>0 DEF Between
    <2> QED BY <1>2, <2>0, <2>2, <2>5, <2>6, <2>7, <2>8, AllocatesInv
  <1>4. CASE authenticate_external(t, n, token)
    <2>1. PICK u \in Uids : u = next.uid
      BY <1>4 DEF authenticate_external, Allocates
    <2>2. PICK r : r = [Idle EXCEPT !.at = "join", !.target = u, !.group = USERS_ID,
                                    !.uid = u]
      OBVIOUS
    <2>3. r \in Request
      BY <1>2, <2>2, IdleType, StagesAre DEF Request
    <2>4. r.at = "join" /\ r.target = next.uid /\ r.group = USERS_ID /\ r.gid = NoId
      BY <2>1, <2>2 DEF Idle
    <2>5. r.gid < next.gid
      BY <1>1, <2>4 DEF NoId
    <2>6. /\ Goes(t, r) /\ Allocates(n, USERS_ID, token, "ldap")
          /\ UNCHANGED <<groups, object>> /\ crossed' = crossed
      BY <1>4, <2>1, <2>2 DEF authenticate_external
    <2>7. thread[t].at \notin Between
      BY <1>4 DEF authenticate_external, Comes, At, Between
    <2> QED BY <1>2, <2>3, <2>4, <2>5, <2>6, <2>7, AllocatesInv
  <1> QED BY <1>3, <1>4

\* A step that changes members of groups, and no user.
LEMMA GroupsKnown ==
    ASSUME Types, Known, NEW t \in Threads, NEW r \in Request, Goes(t, r), Refs(r),
           UNCHANGED <<users, next, object>>, groups' \in [Gids -> SUBSET Int],
           \A g \in Gids : IsGroup(g)' => IsGroup(g) /\ NoId \notin groups'[g]
    PROVE  Types' /\ Known'
  <1>1. /\ thread' \in [Threads -> Request] /\ thread'[t] = r
        /\ \A s \in Threads : s # t => thread'[s] = thread[s]
    BY GoesDoes
  <1>2. Types'
    BY <1>1 DEF Types
  <1>3. ASSUME NEW s \in Threads
        PROVE  Refs(thread[s])'
    <2>1. Refs(thread'[s])
      BY <1>1, KnownThread
    <2> QED BY <2>1 DEF Refs
  <1>4. \A u \in Uids : Exists(u)' <=> Exists(u)
    BY DEF Exists
  <1>5. \A g \in Gids : IsGroup(g)' => g < next.gid /\ NoId \notin groups'[g]
    BY DEF Known
  <1> QED BY <1>2, <1>3, <1>4, <1>5 DEF Known

\* Users enter a group and leave it.
LEMMA MemberAdded ==
    ASSUME Types, Known, NEW u \in Uids, NEW g \in Gids, IsGroup(g),
           groups' = [groups EXCEPT ![g] = @ \cup {u}]
    PROVE  /\ groups' \in [Gids -> SUBSET Int]
           /\ \A h \in Gids : /\ IsGroup(h)' <=> IsGroup(h)
                              /\ IsGroup(h) => NoId \notin groups'[h]
           /\ Member(u)' = Member(u) \cup {g}
           /\ \A w \in Uids : w # u => Member(w)' = Member(w)
  <1>0. u \in Int /\ u # NoId
    BY RequestsAssumption DEF Uids, NoId
  <1>1. /\ groups' \in [Gids -> SUBSET Int] /\ groups'[g] = groups[g] \cup {u}
        /\ \A h \in Gids : h # g => groups'[h] = groups[h]
    BY <1>0 DEF Types
  <1>2. \A h \in Gids : IsGroup(h) => NoId \notin groups[h]
    BY DEF Known
  <1>3. \A h \in Gids : IsGroup(h)' <=> IsGroup(h)
    BY <1>0, <1>1 DEF IsGroup, NoGroup
  <1>4. \A h \in Gids : IsGroup(h) => NoId \notin groups'[h]
    BY <1>0, <1>1, <1>2
  <1>5. Member(u)' = Member(u) \cup {g}
    BY <1>1, <1>3 DEF Member
  <1>6. \A w \in Uids : w # u => Member(w)' = Member(w)
    BY <1>1, <1>3 DEF Member
  <1> QED BY <1>1, <1>3, <1>4, <1>5, <1>6

LEMMA MemberRemoved ==
    ASSUME Types, Known, NEW u \in Uids, NEW g \in Gids, IsGroup(g),
           groups' = [groups EXCEPT ![g] = @ \ {u}]
    PROVE  /\ groups' \in [Gids -> SUBSET Int]
           /\ \A h \in Gids : /\ IsGroup(h)' <=> IsGroup(h)
                              /\ IsGroup(h) => NoId \notin groups'[h]
           /\ Member(u)' = Member(u) \ {g}
           /\ \A w \in Uids : w # u => Member(w)' = Member(w)
  <1>1. /\ groups' \in [Gids -> SUBSET Int] /\ groups'[g] = groups[g] \ {u}
        /\ \A h \in Gids : h # g => groups'[h] = groups[h]
    BY DEF Types
  <1>2. \A h \in Gids : IsGroup(h) => NoId \notin groups[h]
    BY DEF Known
  <1>3. \A h \in Gids : IsGroup(h)' <=> IsGroup(h)
    BY <1>1, <1>2 DEF IsGroup, NoGroup
  <1>4. \A h \in Gids : IsGroup(h) => NoId \notin groups'[h]
    BY <1>1, <1>2
  <1>5. Member(u)' = Member(u) \ {g}
    BY <1>1, <1>3 DEF Member
  <1>6. \A w \in Uids : w # u => Member(w)' = Member(w)
    BY <1>1, <1>3 DEF Member
  <1> QED BY <1>1, <1>3, <1>4, <1>5, <1>6

\* The request that moves a user is the only one, and it is over.
LEMMA MoveEnds ==
    ASSUME GroupInv, NEW t \in Threads, NEW r \in Request, Goes(t, r),
           r.at \notin Between, NEW u \in Uids, Mover(t, u),
           users' = users, crossed => crossed',
           ~crossed' => Settled(u)',
           \A w \in Uids : w # u => Member(w)' = Member(w)
    PROVE  Placed'
  <1>0. Types /\ Placed
    BY DEF GroupInv
  <1>1. /\ thread'[t] = r /\ \A s \in Threads : s # t => thread'[s] = thread[s]
    BY <1>0, GoesDoes
  <1> SUFFICES ASSUME ~crossed', NEW w \in Uids
               PROVE  Place(w)'
    BY DEF Placed
  <1>2. Place(w)
    BY <1>0 DEF Placed
  <1>3. CASE w # u
    <2>1. ~Mover(t, w) /\ ~Mover(t, w)'
      BY <1>1, <1>3 DEF Mover
    <2> QED BY <1>1, <1>2, <1>3, <2>1, OtherPlaceKept
  <1>4. CASE w = u
    <2>1. \A s \in Threads : Mover(s, w) => s = t
      BY <1>2, <1>4 DEF Place
    <2>2. \A s \in Threads : ~Mover(s, w)'
      BY <1>1, <2>1 DEF Mover
    <2> QED BY <1>4, <2>2 DEF Place
  <1> QED BY <1>3, <1>4

\* What is known of the request that moves a user.
LEMMA MoverKnown ==
    ASSUME GroupInv, NEW t \in Threads, thread[t].at \in Between
    PROVE  /\ Types /\ Known /\ thread[t] \in Request /\ Refs(thread[t])
           /\ thread[t].target \in Uids /\ thread[t].group \in Gids
           /\ Mover(t, thread[t].target)
           /\ ~crossed => Moving(thread[t].target, thread[t])
  <1>1. Types /\ Known /\ Placed
    BY DEF GroupInv
  <1>2. thread[t] \in Request /\ Refs(thread[t])
    BY <1>1, KnownThread
  <1>3. thread[t].target \in Uids /\ thread[t].group \in Gids
    BY <1>2 DEF Refs
  <1>4. Mover(t, thread[t].target)
    BY DEF Mover
  <1> QED BY <1>1, <1>2, <1>3, <1>4 DEF Placed, Place

LEMMA JoinInv ==
    ASSUME GroupInv, NEW t \in Threads, Join(t)
    PROVE  GroupInv'
  <1>0. /\ Types /\ Known /\ thread[t] \in Request /\ Refs(thread[t])
        /\ thread[t].at = "join"
        /\ thread[t].target \in Uids /\ thread[t].group \in Gids
        /\ Mover(t, thread[t].target)
        /\ ~crossed => Moving(thread[t].target, thread[t])
    BY MoverKnown DEF Join, At, Between
  <1>1. PICK u \in Uids, g \in Gids : u = thread[t].target /\ g = thread[t].group
    BY <1>0
  <1>2. UNCHANGED <<users, next, object>>
    BY DEF Join
  <1>3. (crossed => crossed') /\ (~crossed' => IsGroup(g))
    <2>1. crossed' = (crossed \/ ~IsGroup(g))
      BY <1>1 DEF Join
    <2> QED BY <2>1, Zenon
  <1>4. PICK r \in Request : Goes(t, r) /\ Refs(r) /\ r.at \notin Between
    <2>1. CASE Returns(t)
      <3>1. Idle.at \notin Between
        BY IdleType DEF Between
      <3> QED BY <1>0, <2>1, <3>1, IdleType, IdleRefs DEF Returns
    <2>2. CASE Goes(t, [Idle EXCEPT !.at = "ready", !.uid = thread[t].target,
                                    !.gid = USERS_ID])
      <3>1. PICK r : r = [Idle EXCEPT !.at = "ready", !.uid = u, !.gid = USERS_ID]
        OBVIOUS
      <3>2. USERS_ID \in Gids /\ next.uid \in Nat /\ next.gid \in Nat /\ next.gid >= 100
        BY <1>0 DEF Gids, Types, Ids, Known, FirstGid
      <3>3. r \in Request
        BY <3>1, <3>2, IdleType, StagesAre DEF Request
      <3>4. r.at = "ready" /\ r.target = NoId /\ r.group = NoId /\ r.gid = USERS_ID
        BY <3>1 DEF Idle
      <3>5. Refs(r) /\ r.at \notin Between
        BY <3>2, <3>4 DEF Refs, Between, NoId, USERS_ID
      <3> QED BY <1>1, <2>2, <3>1, <3>3, <3>5
    <2> QED BY <2>1, <2>2 DEF Join
  <1>5. CASE IsGroup(g)
    <2>1. groups' = [groups EXCEPT ![g] = @ \cup {u}]
      BY <1>1, <1>5 DEF Join
    <2>2. /\ groups' \in [Gids -> SUBSET Int]
          /\ \A h \in Gids : /\ IsGroup(h)' <=> IsGroup(h)
                             /\ IsGroup(h) => NoId \notin groups'[h]
          /\ Member(u)' = Member(u) \cup {g}
          /\ \A w \in Uids : w # u => Member(w)' = Member(w)
      BY <1>0, <1>5, <2>1, MemberAdded
    <2>3. Types' /\ Known'
      BY <1>0, <1>2, <1>4, <2>2, GroupsKnown
    <2>4. ASSUME ~crossed'
          PROVE  Settled(u)'
      <3>1. users[u].gid = g /\ Member(u) = {}
        BY <1>0, <1>1, <1>3, <2>4 DEF Moving
      <3>2. g # NoId
        BY DEF Gids, NoId, ONEADMIN_ID, USERS_ID, FirstGid
      <3>3. Exists(u)
        BY <1>0, <3>1, <3>2 DEF Known
      <3> QED BY <1>2, <2>2, <3>1, <3>3 DEF Settled, Exists
    <2>5. Placed'
      BY <1>0, <1>1, <1>2, <1>3, <1>4, <2>2, <2>4, MoveEnds
    <2> QED BY <2>3, <2>5 DEF GroupInv
  <1>6. CASE ~IsGroup(g)
    <2>1. groups' = groups
      BY <1>1, <1>6 DEF Join
    <2>2. \A h \in Gids : IsGroup(h)' => IsGroup(h) /\ NoId \notin groups'[h]
      BY <1>0, <2>1 DEF IsGroup, Known
    <2>3. Types' /\ Known'
      BY <1>0, <1>2, <1>4, <2>1, <2>2, GroupsKnown DEF Types
    <2>4. Placed'
      BY <1>3, <1>6 DEF Placed
    <2> QED BY <2>3, <2>4 DEF GroupInv
  <1> QED BY <1>5, <1>6

LEMMA LeaveInv ==
    ASSUME GroupInv, NEW t \in Threads, Leave(t)
    PROVE  GroupInv'
  <1>0. /\ Types /\ Known /\ thread[t] \in Request /\ Refs(thread[t])
        /\ thread[t].at \in {"leave", "delold"}
        /\ thread[t].target \in Uids /\ thread[t].group \in Gids
        /\ Mover(t, thread[t].target)
        /\ ~crossed => Moving(thread[t].target, thread[t])
    BY MoverKnown DEF Leave, Between
  <1>1. PICK u \in Uids, g \in Gids : u = thread[t].target /\ g = thread[t].group
    BY <1>0
  <1>2. UNCHANGED <<users, next, object>> /\ crossed' = crossed
    BY DEF Leave
  <1>4. Idle \in Request /\ Goes(t, Idle) /\ Refs(Idle) /\ Idle.at \notin Between
    <2>1. Idle.at \notin Between
      BY IdleType DEF Between
    <2> QED BY <1>0, <2>1, IdleType, IdleRefs DEF Leave, Returns
  <1>5. ~crossed => IsGroup(g) /\ Member(u) \ {g} = IF Exists(u) THEN {users[u].gid} ELSE {}
    <2> SUFFICES ASSUME ~crossed
                 PROVE  IsGroup(g)
                        /\ Member(u) \ {g} = IF Exists(u) THEN {users[u].gid} ELSE {}
      OBVIOUS
    <2>1. \/ ~Exists(u) /\ Member(u) = {g}
          \/ Exists(u) /\ users[u].gid # g /\ Member(u) = {users[u].gid, g}
      BY <1>0, <1>1 DEF Moving
    <2>2. g \in Member(u)
      BY <2>1
    <2> QED BY <2>1, <2>2 DEF Member
  <1>6. CASE IsGroup(g)
    <2>1. groups' = [groups EXCEPT ![g] = @ \ {u}]
      BY <1>1, <1>6 DEF Leave
    <2>2. /\ groups' \in [Gids -> SUBSET Int]
          /\ \A h \in Gids : /\ IsGroup(h)' <=> IsGroup(h)
                             /\ IsGroup(h) => NoId \notin groups'[h]
          /\ Member(u)' = Member(u) \ {g}
          /\ \A w \in Uids : w # u => Member(w)' = Member(w)
      BY <1>0, <1>6, <2>1, MemberRemoved
    <2>3. Types' /\ Known'
      BY <1>0, <1>2, <1>4, <2>2, GroupsKnown
    <2>4. ~crossed' => Settled(u)'
      BY <1>2, <1>5, <2>2 DEF Settled, Exists
    <2>5. Placed'
      BY <1>0, <1>1, <1>2, <1>4, <2>2, <2>4, MoveEnds
    <2> QED BY <2>3, <2>5 DEF GroupInv
  <1>7. CASE ~IsGroup(g)
    <2>1. groups' = groups
      BY <1>1, <1>7 DEF Leave
    <2>2. \A h \in Gids : IsGroup(h)' => IsGroup(h) /\ NoId \notin groups'[h]
      BY <1>0, <2>1 DEF IsGroup, Known
    <2>3. Types' /\ Known'
      BY <1>0, <1>2, <1>4, <2>1, <2>2, GroupsKnown DEF Types
    <2>4. Placed'
      BY <1>2, <1>5, <1>7 DEF Placed
    <2> QED BY <2>3, <2>4 DEF GroupInv
  <1> QED BY <1>6, <1>7

LEMMA AddNewInv ==
    ASSUME GroupInv, NEW t \in Threads, AddNew(t)
    PROVE  GroupInv'
  <1>0. /\ Types /\ Known /\ Placed /\ thread[t] \in Request /\ Refs(thread[t])
        /\ thread[t].at = "addnew"
        /\ thread[t].target \in Uids /\ thread[t].group \in Gids
        /\ Mover(t, thread[t].target)
        /\ ~crossed => Moving(thread[t].target, thread[t])
    BY MoverKnown DEF AddNew, At, Between, GroupInv
  <1>1. PICK u \in Uids, g \in Gids : u = thread[t].target /\ g = thread[t].group
    BY <1>0
  <1>2. UNCHANGED <<users, next, object>>
    BY DEF AddNew
  <1>3. CASE IsGroup(g)
    <2>0. PICK old \in Gids : old = thread[t].gid /\ old < next.gid
      BY <1>0 DEF Refs
    <2>1. /\ groups' = [groups EXCEPT ![g] = @ \cup {u}] /\ crossed' = crossed
          /\ Goes(t, [thread[t] EXCEPT !.at = "delold", !.group = old])
      BY <1>1, <1>3, <2>0 DEF AddNew
    <2>2. /\ groups' \in [Gids -> SUBSET Int]
          /\ \A h \in Gids : /\ IsGroup(h)' <=> IsGroup(h)
                             /\ IsGroup(h) => NoId \notin groups'[h]
          /\ Member(u)' = Member(u) \cup {g}
          /\ \A w \in Uids : w # u => Member(w)' = Member(w)
      BY <1>0, <1>3, <2>1, MemberAdded
    <2>3. PICK r : r = [thread[t] EXCEPT !.at = "delold", !.group = old]
      OBVIOUS
    <2>4. r \in Request
      BY <1>0, <2>3, StagesAre DEF Request
    <2>5. r.at = "delold" /\ r.target = u /\ r.group = old /\ r.gid = old
      BY <1>0, <1>1, <2>0, <2>3 DEF Request
    <2>6. Refs(r)
      BY <1>0, <1>1, <2>0, <2>5 DEF Refs
    <2>7. Goes(t, r)
      BY <2>1, <2>3
    <2>8. Types' /\ Known'
      BY <1>0, <1>2, <2>2, <2>4, <2>6, <2>7, GroupsKnown
    <2>9. /\ thread'[t] = r /\ \A s \in Threads : s # t => thread'[s] = thread[s]
      BY <1>0, <2>4, <2>7, GoesDoes
    <2>10. Placed'
      <3> SUFFICES ASSUME ~crossed, NEW w \in Uids
                   PROVE  Place(w)'
        BY <2>1 DEF Placed
      <3>1. Place(w)
        BY <1>0 DEF Placed
      <3>2. CASE w # u
        <4>1. ~Mover(t, w) /\ ~Mover(t, w)'
          BY <1>1, <2>5, <2>9, <3>2 DEF Mover
        <4> QED BY <1>2, <2>2, <2>9, <3>1, <3>2, <4>1, OtherPlaceKept
      <3>3. CASE w = u
        <4>1. \A s \in Threads : Mover(s, w) => s = t
          BY <1>0, <1>1, <3>1, <3>3 DEF Place
        <4>2. \A s \in Threads : Mover(s, w)' <=> s = t
          BY <2>5, <2>9, <3>3, <4>1 DEF Mover, Between
        <4>3. users[u].gid = g /\ old # g /\ Member(u) = {old}
          BY <1>0, <1>1, <2>0 DEF Moving
        <4>4. g # NoId
          BY DEF Gids, NoId, ONEADMIN_ID, USERS_ID, FirstGid
        <4>5. Exists(u)
          BY <1>0, <4>3, <4>4 DEF Known
        <4>6. Moving(w, thread[t])'
          BY <1>2, <2>2, <2>5, <2>9, <3>3, <4>3, <4>5 DEF Moving, Exists
        <4> QED BY <4>2, <4>6 DEF Place
      <3> QED BY <3>2, <3>3
    <2> QED BY <2>8, <2>10 DEF GroupInv
  <1>4. CASE ~IsGroup(g)
    <2>1. groups' = groups /\ crossed' = TRUE /\ Goes(t, Idle)
      BY <1>1, <1>4 DEF AddNew, Returns
    <2>2. \A h \in Gids : IsGroup(h)' => IsGroup(h) /\ NoId \notin groups'[h]
      BY <1>0, <2>1 DEF IsGroup, Known
    <2>3. Types' /\ Known'
      BY <1>0, <1>2, <2>1, <2>2, IdleType, IdleRefs, GroupsKnown DEF Types
    <2> QED BY <2>1, <2>3 DEF GroupInv, Placed
  <1> QED BY <1>3, <1>4

\* A request begins to change the group of a user that nobody else is changing.
LEMMA MoveBegins ==
    ASSUME GroupInv, NEW t \in Threads, NEW u \in Uids, NEW r \in Request,
           Goes(t, r), r.at \in Between, r.target = u, thread[t].at \notin Between,
           \A w \in Uids : w # u => users'[w] = users[w], groups' = groups,
           crossed => crossed', ~crossed' => ~Busy(u),
           ~crossed' /\ Settled(u) => Moving(u, r)'
    PROVE  Placed'
  <1>0. Types /\ Placed
    BY DEF GroupInv
  <1>1. /\ thread'[t] = r /\ \A s \in Threads : s # t => thread'[s] = thread[s]
    BY <1>0, GoesDoes
  <1> SUFFICES ASSUME ~crossed', NEW w \in Uids
               PROVE  Place(w)'
    BY DEF Placed
  <1>2. Place(w) /\ Member(w)' = Member(w)
    BY <1>0, MemberKept DEF Placed
  <1>3. CASE w # u
    <2>1. ~Mover(t, w) /\ ~Mover(t, w)'
      BY <1>1, <1>3 DEF Mover
    <2> QED BY <1>1, <1>2, <1>3, <2>1, OtherPlaceKept
  <1>4. CASE w = u
    <2>1. \A s \in Threads : ~Mover(s, w)
      BY <1>4 DEF Busy, Mover
    <2>2. \A s \in Threads : Mover(s, w)' <=> s = t
      BY <1>1, <1>4, <2>1 DEF Mover
    <2>3. Settled(w)
      BY <1>2, <2>1 DEF Place
    <2>4. Moving(w, thread[t])'
      BY <1>1, <1>4, <2>3 DEF Moving
    <2> QED BY <2>2, <2>4 DEF Place
  <1> QED BY <1>3, <1>4

\* One user is changed.
LEMMA UsersKnown ==
    ASSUME Types, Known, NEW t \in Threads, NEW r \in Request, Goes(t, r), Refs(r),
           NEW u \in Uids, NEW x \in User, users' = [users EXCEPT ![u] = x],
           x.gid = NoId <=> x = NoUser, x # NoUser => u < next.uid,
           x.gid < next.gid, UNCHANGED <<groups, next, object>>
    PROVE  /\ Types' /\ Known' /\ users'[u] = x
           /\ \A w \in Uids : w # u => users'[w] = users[w]
  <1>1. /\ thread' \in [Threads -> Request] /\ thread'[t] = r
        /\ \A s \in Threads : s # t => thread'[s] = thread[s]
    BY GoesDoes
  <1>2. /\ users' \in [Uids -> User] /\ users'[u] = x
        /\ \A w \in Uids : w # u => users'[w] = users[w]
    BY DEF Types
  <1>3. Types'
    BY <1>1, <1>2 DEF Types
  <1>4. ASSUME NEW s \in Threads
        PROVE  Refs(thread[s])'
    <2>1. Refs(thread'[s])
      BY <1>1, KnownThread
    <2> QED BY <2>1 DEF Refs
  <1>5. ASSUME NEW w \in Uids
        PROVE  /\ users'[w].gid = NoId <=> ~Exists(w)'
               /\ Exists(w)' => w < next.uid
               /\ users'[w].gid < next.gid
    <2>1. CASE w = u
      BY <1>2, <2>1 DEF Exists
    <2>2. CASE w # u
      BY <1>2, <2>2 DEF Exists, Known
    <2> QED BY <2>1, <2>2
  <1>6. \A g \in Gids : IsGroup(g)' => g < next.gid /\ NoId \notin groups[g]
    BY DEF Known, IsGroup
  <1>7. next.uid >= 3 /\ next.gid >= FirstGid
    BY DEF Known
  <1> QED BY <1>2, <1>3, <1>4, <1>5, <1>6, <1>7 DEF Known

LEMMA UserDeleteInv ==
    ASSUME GroupInv, NEW t \in Threads, NEW u \in Uids, UserDelete(t, u)
    PROVE  GroupInv'
  <1>0. Types /\ Known /\ Exists(u) /\ thread[t].at = "ready"
    BY DEF GroupInv, UserDelete, Calls, At
  <1>1. users[u].gid \in Gids /\ users[u].gid < next.gid /\ u < next.uid
    BY <1>0, KnownUser
  <1>2. thread[t] \in Request /\ Refs(thread[t])
    BY <1>0, KnownThread
  <1>3. PICK g \in Gids : g = users[u].gid
    BY <1>1
  <1>4. PICK r : r = [thread[t] EXCEPT !.at = "leave", !.target = u, !.group = g]
    OBVIOUS
  <1>5. r \in Request
    BY <1>2, <1>4, StagesAre DEF Request
  <1>6. r.at = "leave" /\ r.target = u /\ r.group = g /\ r.gid = thread[t].gid
    BY <1>2, <1>4 DEF Request
  <1>7. Refs(r) /\ r.at \in Between /\ thread[t].at \notin Between
    BY <1>0, <1>1, <1>2, <1>3, <1>6 DEF Refs, Between
  <1>8. /\ Goes(t, r) /\ users' = [users EXCEPT ![u] = NoUser]
        /\ UNCHANGED <<groups, next, object>>
    BY <1>3, <1>4 DEF UserDelete
  <1>9. (crossed => crossed') /\ (~crossed' => ~Busy(u))
    <2>1. crossed' = (crossed \/ Busy(u))
      BY DEF UserDelete
    <2> QED BY <2>1, Zenon
  <1>10. NoUser \in User /\ NoUser.gid = NoId /\ NoId < next.gid
    <2>1. next.gid \in Nat /\ NoSession \in Session /\ "core" \in Drivers
      BY <1>0 DEF Types, Ids, NoSession, Session, Drivers
    <2> QED BY <2>1 DEF NoUser, User, NoId
  <1>11. /\ Types' /\ Known' /\ users'[u] = NoUser
         /\ \A w \in Uids : w # u => users'[w] = users[w]
    BY <1>0, <1>5, <1>7, <1>8, <1>10, UsersKnown
  <1>12. ASSUME Settled(u)
         PROVE  Moving(u, r)'
    <2>1. Member(u)' = Member(u) /\ Member(u) = {g}
      BY <1>0, <1>3, <1>8, <1>12, MemberKept DEF Settled
    <2>2. ~Exists(u)'
      BY <1>11 DEF Exists
    <2> QED BY <1>6, <2>1, <2>2 DEF Moving
  <1>13. Placed'
    BY <1>5, <1>6, <1>7, <1>8, <1>9, <1>11, <1>12, MoveBegins
  <1> QED BY <1>11, <1>13 DEF GroupInv

LEMMA SetGroupInv ==
    ASSUME GroupInv, NEW t \in Threads, SetGroup(t)
    PROVE  GroupInv'
  <1>0. Types /\ Known /\ thread[t].at = "setgroup"
    BY DEF GroupInv, SetGroup, At
  <1>1. thread[t] \in Request /\ Refs(thread[t])
    BY <1>0, KnownThread
  <1>2. PICK u \in Uids, g \in Gids : u = thread[t].target /\ g = thread[t].group
    BY <1>0, <1>1 DEF Refs
  <1>3. UNCHANGED <<groups, next, object>> /\ thread[t].at \notin Between
    BY <1>0 DEF SetGroup, Between
  <1>4. CASE Exists(u) /\ users[u].gid # g
    <2>1. PICK old \in Gids : old = users[u].gid /\ old < next.gid
      BY <1>0, <1>4, KnownUser
    <2>2. PICK r : r = [thread[t] EXCEPT !.at = "addnew", !.gid = old]
      OBVIOUS
    <2>3. r \in Request
      BY <1>1, <2>2, StagesAre DEF Request
    <2>4. r.at = "addnew" /\ r.target = u /\ r.group = g /\ r.gid = old
      BY <1>1, <1>2, <2>2 DEF Request
    <2>5. Refs(r) /\ r.at \in Between /\ g < next.gid
      BY <1>1, <1>2, <2>1, <2>4 DEF Refs, Between
    <2>6. Goes(t, r) /\ users' = [users EXCEPT ![u].gid = g]
      BY <1>2, <1>4, <2>1, <2>2 DEF SetGroup
    <2>7. (crossed => crossed') /\ (~crossed' => ~Busy(u))
      <3>1. crossed' = (crossed \/ Busy(u))
        BY <1>2, <1>4 DEF SetGroup
      <3> QED BY <3>1, Zenon
    <2>8. users \in [Uids -> User] /\ users[u] \in User
      BY <1>0 DEF Types
    <2>9. PICK x : x = [users[u] EXCEPT !.gid = g]
      OBVIOUS
    <2>10. x \in User /\ x.gid = g
      BY <2>8, <2>9 DEF User
    <2>11. users' = [users EXCEPT ![u] = x]
      BY <2>6, <2>8, <2>9
    <2>12. g # NoId /\ NoUser.gid = NoId
      BY DEF Gids, NoId, ONEADMIN_ID, USERS_ID, FirstGid, NoUser
    <2>13. x # NoUser /\ u < next.uid
      BY <1>0, <1>4, <2>10, <2>12, KnownUser
    <2>14. /\ Types' /\ Known' /\ users'[u] = x
           /\ \A w \in Uids : w # u => users'[w] = users[w]
      BY <1>0, <1>3, <2>3, <2>5, <2>6, <2>10, <2>11, <2>12, <2>13, UsersKnown
    <2>15. ASSUME Settled(u)
           PROVE  Moving(u, r)'
      <3>1. Member(u)' = Member(u) /\ Member(u) = {old}
        BY <1>3, <1>4, <2>1, <2>15, MemberKept DEF Settled
      <3> QED BY <1>4, <2>1, <2>4, <2>10, <2>14, <3>1 DEF Moving
    <2>16. Placed'
      BY <1>3, <2>3, <2>4, <2>5, <2>6, <2>7, <2>14, <2>15, MoveBegins
    <2> QED BY <2>14, <2>16 DEF GroupInv
  <1>5. CASE ~(Exists(u) /\ users[u].gid # g)
    <2>1. Returns(t) /\ users' = users
      BY <1>2, <1>5 DEF SetGroup
    <2>2. crossed => crossed'
      <3>1. crossed' = (crossed \/ (Exists(u) /\ users[u].gid # g /\ Busy(u)))
        BY <1>2, <1>5 DEF SetGroup
      <3> QED BY <3>1, Zenon
    <2>3. SameUsers /\ users' \in [Uids -> User] /\ object' \in Object
      BY <1>0, <1>3, <2>1 DEF SameUsers, Types
    <2> QED BY <1>0, <1>3, <2>1, <2>2, <2>3, ReturnsQuiet, QuietInv
  <1> QED BY <1>4, <1>5

\* Groups come and go without members.
LEMMA GroupsPlaced ==
    ASSUME GroupInv, NEW t \in Threads, NEW r \in Request, Goes(t, r),
           r.at \notin Between, thread[t].at \notin Between, users' = users,
           crossed' = crossed, \A u \in Uids : Member(u)' = Member(u)
    PROVE  Placed'
  <1>0. Types /\ Placed
    BY DEF GroupInv
  <1>1. /\ thread'[t] = r /\ \A s \in Threads : s # t => thread'[s] = thread[s]
    BY <1>0, GoesDoes
  <1> SUFFICES ASSUME ~crossed, NEW u \in Uids
               PROVE  Place(u)'
    BY DEF Placed
  <1>2. \A s \in Threads : /\ Mover(s, u)' <=> Mover(s, u)
                           /\ Mover(s, u) => thread'[s] = thread[s]
    BY <1>1 DEF Mover
  <1>3. Exists(u)' <=> Exists(u)
    BY DEF Exists
  <1> QED BY <1>0, <1>2, <1>3, PlaceKept DEF Placed

LEMMA GroupDeleteInv ==
    ASSUME GroupInv, NEW t \in Threads, NEW g \in Gids, GroupDelete(t, g)
    PROVE  GroupInv'
  <1>0. Types /\ Known
    BY DEF GroupInv
  <1>1. /\ IsGroup(g) /\ groups[g] = {} /\ groups' = [groups EXCEPT ![g] = NoGroup]
        /\ Goes(t, Idle) /\ thread[t].at = "ready" /\ crossed' = crossed
        /\ UNCHANGED <<users, next, object>>
    BY DEF GroupDelete, CanDrop, Calls, At, Returns
  <1>2. /\ groups' \in [Gids -> SUBSET Int] /\ groups'[g] = NoGroup
        /\ \A h \in Gids : h # g => groups'[h] = groups[h]
    BY <1>0, <1>1 DEF Types, NoGroup, NoId
  <1>3. \A h \in Gids : (IsGroup(h)' <=> IsGroup(h) /\ h # g)
    BY <1>2 DEF IsGroup
  <1>4. \A h \in Gids : IsGroup(h)' => IsGroup(h) /\ NoId \notin groups'[h]
    BY <1>0, <1>2, <1>3 DEF Known
  <1>5. Types' /\ Known'
    BY <1>0, <1>1, <1>2, <1>4, IdleType, IdleRefs, GroupsKnown
  <1>6. \A u \in Uids : Member(u)' = Member(u)
    BY <1>1, <1>2, <1>3 DEF Member
  <1>7. Idle.at \notin Between /\ thread[t].at \notin Between
    BY <1>1, IdleType DEF Between
  <1>8. Placed'
    BY <1>1, <1>6, <1>7, IdleType, GroupsPlaced
  <1> QED BY <1>5, <1>8 DEF GroupInv

LEMMA GroupAllocateInv ==
    ASSUME GroupInv, NEW t \in Threads, GroupAllocate(t)
    PROVE  GroupInv'
  <1>0. Types /\ Known
    BY DEF GroupInv
  <1>1. PICK g \in Gids : g = next.gid
    BY DEF GroupAllocate
  <1>2. /\ groups' = [groups EXCEPT ![g] = {}] /\ next' = [next EXCEPT !.gid = next.gid + 1]
        /\ Goes(t, Idle) /\ thread[t].at = "ready" /\ crossed' = crossed
        /\ UNCHANGED <<users, object>>
    BY <1>1 DEF GroupAllocate, Calls, At, Returns
  <1>3. /\ next' \in Ids /\ next'.gid = next.gid + 1 /\ next'.uid = next.uid
        /\ next.uid \in Nat /\ next.gid \in Nat
    BY <1>0, <1>2 DEF Types, Ids
  <1>4. ~IsGroup(g)
    BY <1>0, <1>1, <1>3 DEF Known
  <1>5. /\ groups' \in [Gids -> SUBSET Int] /\ groups'[g] = {}
        /\ \A h \in Gids : h # g => groups'[h] = groups[h]
    BY <1>0, <1>2 DEF Types
  <1>6. \A h \in Gids : (IsGroup(h)' <=> IsGroup(h) \/ h = g)
    BY <1>5 DEF IsGroup, NoGroup
  <1>7. /\ thread' \in [Threads -> Request] /\ thread'[t] = Idle
        /\ \A s \in Threads : s # t => thread'[s] = thread[s]
    BY <1>0, <1>2, IdleType, GoesDoes
  <1>8. Types'
    BY <1>0, <1>2, <1>3, <1>5, <1>7 DEF Types
  <1>9. \A h \in Gids : h \in Int
    BY RequestsAssumption DEF Gids, ONEADMIN_ID, USERS_ID, FirstGid
  <1>10. Known'
    <2>1. \A h \in Gids : IsGroup(h)' => h < next'.gid /\ NoId \notin groups'[h]
      BY <1>0, <1>1, <1>3, <1>5, <1>6, <1>9 DEF Known
    <2>2. ASSUME NEW s \in Threads
          PROVE  Refs(thread[s])'
      <3>1. PICK q \in Request : q = thread'[s] /\ Refs(q)
        BY <1>0, <1>7, IdleType, IdleRefs, KnownThread
      <3>2. q.gid \in Int /\ q.group \in Int
        BY <1>9, <3>1 DEF Request, NoId
      <3> QED BY <1>3, <3>1, <3>2 DEF Refs
    <2>3. ASSUME NEW u \in Uids
          PROVE  /\ users'[u].gid = NoId <=> ~Exists(u)'
                 /\ Exists(u)' => u < next'.uid
                 /\ users'[u].gid < next'.gid
      <3>1. users[u].gid \in Int
        <4>1. users[u].gid \in Gids \cup {NoId}
          BY <1>0 DEF Types, User
        <4> QED BY <1>9, <4>1 DEF NoId
      <3>2. /\ users[u].gid = NoId <=> ~Exists(u)
            /\ Exists(u) => u < next.uid
            /\ users[u].gid < next.gid
        BY <1>0 DEF Known
      <3> QED BY <1>2, <1>3, <3>1, <3>2 DEF Exists
    <2>4. next'.uid >= 3 /\ next'.gid >= FirstGid
      BY <1>0, <1>3 DEF Known, FirstGid
    <2> QED BY <2>1, <2>2, <2>3, <2>4 DEF Known
  <1>11. \A u \in Uids : Member(u)' = Member(u)
    BY <1>4, <1>5, <1>6 DEF Member
  <1>12. Idle.at \notin Between /\ thread[t].at \notin Between
    BY <1>2, IdleType DEF Between
  <1>13. Placed'
    BY <1>2, <1>11, <1>12, IdleType, GroupsPlaced
  <1> QED BY <1>8, <1>10, <1>13 DEF GroupInv

\* Sessions end, with time or with the daemon.
LEMMA SessionEndsInv ==
    ASSUME GroupInv, NEW u \in Uids, SessionEnds(u)
    PROVE  GroupInv'
  <1>0. Types /\ Known /\ Placed
    BY DEF GroupInv
  <1>1. /\ users[u].session # NoSession /\ users' = [users EXCEPT ![u].session = NoSession]
        /\ UNCHANGED <<groups, object, thread, next, crossed>>
    BY DEF SessionEnds
  <1>2. Exists(u)
    <2>1. NoUser.session = NoSession
      BY DEF NoUser
    <2> QED BY <1>1, <2>1 DEF Exists
  <1>3. users' \in [Uids -> User] /\ SameUsers
    <2>1. NoSession \in Session
      BY DEF NoSession, Session
    <2> QED BY <1>0, <1>1, <1>2, <2>1, SessionType DEF SameUsers
  <1>4. \A w \in Uids : /\ Exists(w)' <=> Exists(w)
                        /\ users'[w].gid = NoId <=> ~Exists(w)'
                        /\ users'[w].gid = users[w].gid
    BY <1>0, <1>3, ExistsKept DEF SameUsers
  <1>5. Types'
    BY <1>0, <1>1, <1>3 DEF Types
  <1>6. Known'
    <2>1. \A s \in Threads : Refs(thread[s])'
      BY <1>0, <1>1 DEF Refs, Known
    <2>2. \A g \in Gids : IsGroup(g)' => g < next.gid /\ NoId \notin groups[g]
      BY <1>0, <1>1 DEF Known, IsGroup
    <2> QED BY <1>0, <1>1, <1>4, <2>1, <2>2 DEF Known
  <1>7. Placed'
    <2> SUFFICES ASSUME ~crossed, NEW w \in Uids
                 PROVE  Place(w)'
      BY <1>1 DEF Placed
    <2>1. \A s \in Threads : /\ Mover(s, w)' <=> Mover(s, w)
                             /\ Mover(s, w) => thread'[s] = thread[s]
      BY <1>1 DEF Mover
    <2> QED BY <1>0, <1>1, <1>4, <2>1, MemberKept, PlaceKept DEF Placed
  <1> QED BY <1>5, <1>6, <1>7 DEF GroupInv

LEMMA CrashUsers ==
    ASSUME Types, Crash
    PROVE  users' \in [Uids -> User] /\ SameUsers
           /\ \A u \in Uids : users'[u].session = NoSession
  <1>0. users \in [Uids -> User] /\ NoSession \in Session
    BY DEF Types, NoSession, Session
  <1>1. users' = [u \in Uids |-> [users[u] EXCEPT !.session = NoSession]]
    BY DEF Crash
  <1>2. ASSUME NEW u \in Uids
        PROVE  /\ users'[u] \in User /\ users'[u].gid = users[u].gid
               /\ users'[u].session = NoSession
               /\ users[u] = NoUser => users'[u] = NoUser
    <2>1. PICK x \in User : x = users[u]
      BY <1>0
    <2>2. PICK y : y = [x EXCEPT !.session = NoSession]
      OBVIOUS
    <2>3. y \in User
      BY <1>0, <2>1, <2>2 DEF User
    <2>4. y.gid = x.gid /\ y.session = NoSession
      BY <2>1, <2>2 DEF User
    <2>5. x = NoUser => y = NoUser
      <3>1. NoUser.session = NoSession
        BY DEF NoUser
      <3>2. ASSUME x = NoUser PROVE y = x
        <4>1. y = [x EXCEPT !["session"] = x["session"]]
          BY <2>2, <3>1, <3>2
        <4> QED BY <2>1, <4>1 DEF User
      <3> QED BY <3>2
    <2> QED BY <1>1, <2>1, <2>2, <2>3, <2>4, <2>5
  <1>3. users' \in [Uids -> User]
    BY <1>1, <1>2
  <1> QED BY <1>2, <1>3 DEF SameUsers, Exists

LEMMA CrashInv ==
    ASSUME GroupInv, Crash
    PROVE  GroupInv'
  <1>0. Types /\ Known /\ Placed
    BY DEF GroupInv
  <1>1. /\ thread' = [t \in Threads |-> Idle] /\ UNCHANGED <<groups, object, next>>
    BY DEF Crash
  <1>2. users' \in [Uids -> User] /\ SameUsers
    BY <1>0, CrashUsers
  <1>3. \A w \in Uids : /\ Exists(w)' <=> Exists(w)
                        /\ users'[w].gid = NoId <=> ~Exists(w)'
                        /\ users'[w].gid = users[w].gid
    BY <1>0, <1>2, ExistsKept DEF SameUsers
  <1>4. Types'
    BY <1>0, <1>1, <1>2, IdleType DEF Types
  <1>5. Known'
    <2>1. ASSUME NEW s \in Threads
          PROVE  Refs(thread[s])'
      <3>1. Refs(Idle) /\ thread'[s] = Idle
        BY <1>0, <1>1, IdleRefs
      <3> QED BY <1>1, <3>1 DEF Refs
    <2>2. \A g \in Gids : IsGroup(g)' => g < next.gid /\ NoId \notin groups[g]
      BY <1>0, <1>1 DEF Known, IsGroup
    <2> QED BY <1>0, <1>1, <1>3, <2>1, <2>2 DEF Known
  <1>6. (crossed => crossed') /\ (~crossed' => \A u \in Uids : ~Busy(u))
    <2>1. crossed' = (crossed \/ \E u \in Uids : Busy(u))
      BY DEF Crash
    <2> QED BY <2>1, Zenon
  <1>7. Placed'
    <2> SUFFICES ASSUME ~crossed', NEW w \in Uids
                 PROVE  Place(w)'
      BY DEF Placed
    <2>1. \A s \in Threads : ~Mover(s, w)
      BY <1>6 DEF Busy, Mover
    <2>2. \A s \in Threads : ~Mover(s, w)'
      BY <1>1, IdleType DEF Mover, Between
    <2> QED BY <1>0, <1>1, <1>3, <1>6, <2>1, <2>2, MemberKept, PlaceKept DEF Placed
  <1> QED BY <1>4, <1>5, <1>7 DEF GroupInv

LEMMA InitTypes ==
    ASSUME Init
    PROVE  Types
  <1>1. PICK token \in Tokens : token = CHOOSE k \in Tokens : TRUE
    BY RequestsAssumption
  <1>2. /\ NoSession \in Session /\ ONEADMIN_ID \in Gids /\ USERS_ID \in Gids
        /\ "core" \in Drivers /\ "server" \in Drivers
    BY DEF NoSession, Session, Gids, Drivers
  <1>3. /\ NewUser("oneadmin", ONEADMIN_ID, token, "core") \in User
        /\ NewUser("serveradmin", ONEADMIN_ID, token, "server") \in User
        /\ NewUser("user", USERS_ID, token, "core") \in User /\ NoUser \in User
    BY <1>2 DEF NewUser, NoUser, User
  <1>4. users = [u \in Uids |->
            CASE u = 0 -> NewUser("oneadmin", ONEADMIN_ID, token, "core")
              [] u = 1 -> NewUser("serveradmin", ONEADMIN_ID, token, "server")
              [] u = 2 -> NewUser("user", USERS_ID, token, "core")
              [] OTHER -> NoUser]
    BY <1>1 DEF Init
  <1>5. users \in [Uids -> User]
    BY <1>3, <1>4
  <1>6. groups \in [Gids -> SUBSET Int]
    <2>1. NoGroup \in SUBSET Int /\ {0, 1} \in SUBSET Int /\ {2} \in SUBSET Int
      BY DEF NoGroup, NoId
    <2> QED BY <2>1 DEF Init
  <1>7. object \in Object
    <2>1. PICK m : m = [b \in Bits |-> IF b = "owner_m" THEN 1 ELSE 0]
      OBVIOUS
    <2>2. m \in Mode
      BY <2>1 DEF Mode
    <2>3. object = [uid |-> 2, gid |-> USERS_ID, perms |-> m]
      BY <2>1 DEF Init
    <2> QED BY <2>2, <2>3 DEF Object, USERS_ID
  <1>8. thread \in [Threads -> Request] /\ next \in Ids
    BY IdleType DEF Init, Ids, FirstGid
  <1> QED BY <1>5, <1>6, <1>7, <1>8 DEF Types

LEMMA InitKnown ==
    ASSUME Init
    PROVE  Known /\ (\A u \in Uids : Settled(u)) /\ \A u \in Uids : users[u].session = NoSession
  <1>0. next.uid = 3 /\ next.gid = 100 /\ Types
    BY InitTypes DEF Init, FirstGid
  <1>1. PICK token : token = CHOOSE k \in Tokens : TRUE
    OBVIOUS
  <1>2. users = [u \in Uids |->
            CASE u = 0 -> NewUser("oneadmin", ONEADMIN_ID, token, "core")
              [] u = 1 -> NewUser("serveradmin", ONEADMIN_ID, token, "server")
              [] u = 2 -> NewUser("user", USERS_ID, token, "core")
              [] OTHER -> NoUser]
    BY <1>1 DEF Init
  <1>3. \A n, gid, k, d : /\ NewUser(n, gid, k, d).gid = gid
                          /\ NewUser(n, gid, k, d).session = NoSession
    BY DEF NewUser
  <1>4. NoUser.gid = -1 /\ NoUser.session = NoSession
    BY DEF NoUser, NoId
  <1>5. ASSUME NEW u \in Uids
        PROVE  /\ users[u].session = NoSession
               /\ users[u].gid = IF u \in {0, 1} THEN 0 ELSE IF u = 2 THEN 1 ELSE -1
               /\ u \notin {0, 1, 2} => users[u] = NoUser
               /\ u \in Int
    <2>1. u \in Int
      BY RequestsAssumption DEF Uids
    <2>2. CASE u = 0
      BY <1>2, <1>3, <2>2 DEF ONEADMIN_ID
    <2>3. CASE u = 1
      BY <1>2, <1>3, <2>3 DEF ONEADMIN_ID
    <2>4. CASE u = 2
      BY <1>2, <1>3, <2>4 DEF USERS_ID
    <2>5. CASE u \notin {0, 1, 2}
      <3>1. users[u] = NoUser
        BY <1>2, <2>5
      <3> QED BY <1>4, <2>1, <2>5, <3>1
    <2> QED BY <2>1, <2>2, <2>3, <2>4, <2>5
  <1>6. \A u \in Uids : Exists(u) <=> u \in {0, 1, 2}
    BY <1>4, <1>5 DEF Exists
  <1>7. \A g \in Gids : /\ g \in Int
                        /\ groups[g] = IF g = 0 THEN {0, 1} ELSE IF g = 1 THEN {2} ELSE {-1}
    BY RequestsAssumption
       DEF Init, Gids, ONEADMIN_ID, USERS_ID, FirstGid, NoGroup, NoId
  <1>8. \A g \in Gids : IsGroup(g) <=> g \in {0, 1}
    BY <1>7 DEF IsGroup, NoGroup, NoId
  <1>9. \A s \in Threads : Refs(thread[s])
    <2>1. Idle.at \notin Between
      BY IdleType DEF Between
    <2> QED BY <1>0, <2>1, IdleType DEF Init, Refs, NoId
  <1>10. Known
    <2>1. \A u \in Uids : /\ users[u].gid = NoId <=> ~Exists(u)
                          /\ Exists(u) => u < next.uid
                          /\ users[u].gid < next.gid
      BY <1>0, <1>5, <1>6 DEF NoId
    <2>2. \A g \in Gids : IsGroup(g) => g < next.gid /\ NoId \notin groups[g]
      BY <1>0, <1>7, <1>8 DEF NoId
    <2> QED BY <1>0, <1>9, <2>1, <2>2 DEF Known, FirstGid
  <1>11. \A u \in Uids : Settled(u)
    <2> SUFFICES ASSUME NEW u \in Uids
                 PROVE  Member(u) = IF Exists(u) THEN {users[u].gid} ELSE {}
      BY DEF Settled
    <2>1. 0 \in Gids /\ 1 \in Gids
      BY DEF Gids, ONEADMIN_ID, USERS_ID
    <2>2. Member(u) = IF u \in {0, 1} THEN {0} ELSE IF u = 2 THEN {1} ELSE {}
      BY <1>5, <1>7, <1>8, <2>1 DEF Member
    <2> QED BY <1>5, <1>6, <2>2
  <1> QED BY <1>5, <1>10, <1>11

LEMMA GroupInit == Init => GroupInv
  <1> SUFFICES ASSUME Init PROVE GroupInv
    OBVIOUS
  <1>1. \A u \in Uids, s \in Threads : ~Mover(s, u)
    BY IdleType DEF Init, Mover, Between
  <1>2. Placed
    BY <1>1, InitKnown DEF Placed, Place
  <1> QED BY <1>2, InitTypes, InitKnown DEF GroupInv

LEMMA GroupStutter ==
    ASSUME GroupInv, UNCHANGED vars
    PROVE  GroupInv'
  <1>0. Types /\ Known /\ Placed
    BY DEF GroupInv
  <1>1. UNCHANGED <<users, groups, object, thread, next, crossed>>
    BY DEF vars
  <1>2. Types'
    BY <1>0, <1>1 DEF Types
  <1>3. Known'
    BY <1>0, <1>1 DEF Known, Refs, Exists, IsGroup
  <1>4. Placed'
    BY <1>0, <1>1 DEF Placed, Place, Mover, Settled, Moving, Member, Exists, IsGroup
  <1> QED BY <1>2, <1>3, <1>4 DEF GroupInv

LEMMA GroupStep ==
    ASSUME GroupInv, [Next]_vars
    PROVE  GroupInv'
  <1>0. Types /\ Known
    BY DEF GroupInv
  <1>1. ASSUME NEW t \in Threads, \E r : Quiet(t, r)
        PROVE  GroupInv'
    BY <1>1, QuietInv
  <1>2. ASSUME NEW t \in Threads,
               \/ Checked(t) \/ Refused(t) \/ set_permissions(t) \/ set_owner(t)
               \/ Delete(t) \/ Drop(t)
               \/ \E token \in Tokens : authenticate(t, token)
               \/ \E u \in Uids, g \in Gids : UserChown(t, u, g)
               \/ \E m \in Modes : Chmod(t, m)
               \/ \E u \in Uids \cup {NoId}, g \in Gids \cup {NoId} : Chown(t, u, g)
        PROVE  GroupInv'
    <2>1. \E r : Quiet(t, r)
      BY <1>0, <1>2, CheckedQuiet, ObjectQuiet, MethodsQuiet, AuthenticateQuiet
    <2> QED BY <1>1, <2>1
  <1>3. ASSUME NEW t \in Threads, NEW u \in Uids,
               \/ \E token \in Tokens : ChangePassword(t, u, token)
               \/ \E token \in Tokens \cup {NoToken}, d \in Drivers :
                    ChangeAuth(t, u, token, d)
        PROVE  GroupInv'
    <2>1. \E r : Quiet(t, r)
      BY <1>0, <1>3, ChangesQuiet
    <2> QED BY <1>1, <2>1
  <1>4. ASSUME NEW t \in Threads,
               \/ Join(t) \/ Leave(t) \/ SetGroup(t) \/ AddNew(t) \/ GroupAllocate(t)
               \/ \E token \in Tokens, n \in Names :
                    UserAllocate(t, n, token) \/ authenticate_external(t, n, token)
               \/ \E u \in Uids : UserDelete(t, u)
               \/ \E g \in Gids : GroupDelete(t, g)
        PROVE  GroupInv'
    BY <1>4, JoinInv, LeaveInv, SetGroupInv, AddNewInv, GroupAllocateInv, NewUserInv,
       UserDeleteInv, GroupDeleteInv
  <1> QED BY <1>2, <1>3, <1>4, SessionEndsInv, CrashInv, GroupStutter DEF Next

\* Users and groups agree, for any number of threads, users and groups: a user
\* that no request is changing is in the set of its own group, which exists, and
\* in no other; unless requests about the same user crossed, the group went in
\* between, or the daemon died there.
THEOREM UsersAndGroupsAgree == Spec => []MembershipAgrees
  <1>1. GroupInv /\ [Next]_vars => GroupInv'
    BY GroupStep
  <1>2. ASSUME GroupInv
        PROVE  MembershipAgrees
    <2> SUFFICES ASSUME ~crossed, NEW u \in Uids, ~Busy(u)
                 PROVE  /\ \A g \in Gids : IsGroup(g) =>
                                (u \in groups[g] <=> users[u].gid = g)
                        /\ Exists(u) => IsGroup(users[u].gid)
      BY DEF MembershipAgrees
    <2>1. \A s \in Threads : ~Mover(s, u)
      BY DEF Busy, Mover
    <2>2. Settled(u)
      BY <1>2, <2>1 DEF GroupInv, Placed, Place
    <2>3. CASE Exists(u)
      <3>1. Member(u) = {users[u].gid}
        BY <2>2, <2>3 DEF Settled
      <3> QED BY <3>1 DEF Member
    <2>4. CASE ~Exists(u)
      <3>1. Member(u) = {} /\ users[u].gid = NoId
        BY <1>2, <2>2, <2>4 DEF Settled, GroupInv, Known
      <3>2. NoId \notin Gids
        BY DEF Gids, NoId, ONEADMIN_ID, USERS_ID, FirstGid
      <3> QED BY <2>4, <3>1, <3>2 DEF Member
    <2> QED BY <2>3, <2>4
  <1> QED BY GroupInit, <1>1, <1>2, PTL DEF Spec
-----------------------------------------------------------------------------
(* Sessions.                                                               *)

\* Users that change lose their session, or keep it with their password.
LEMMA SessionsKept ==
    ASSUME SessionIsCurrent, outdated' = outdated,
           \A u \in Uids :
                \/ users'[u].session = NoSession
                \/ /\ users'[u].session = users[u].session
                   /\ users'[u].password = users[u].password
                   /\ users'[u].driver = users[u].driver
    PROVE  SessionIsCurrent'
  <1>1. \A u \in Uids : NoSession.of # u
    BY RequestsAssumption DEF NoSession, Uids, NoId
  <1> QED BY <1>1 DEF SessionIsCurrent

\* The session that is given stands for the password that was checked; if the
\* user has another one by now, the session is outdated.
LEMMA CheckedSession ==
    ASSUME GroupInv, SessionIsCurrent, NEW t \in Threads, Checked(t)
    PROVE  SessionIsCurrent'
  <1>0. Types /\ thread[t] \in Request
    BY DEF GroupInv, Types
  <1> DEFINE r == thread[t]
             accepted == r.token = r.password /\ r.driver # "public"
             changed == users[r.server].password # r.password
                        \/ users[r.server].driver # r.driver
  <1>1. (outdated => outdated') /\ (~outdated' => ~(accepted /\ changed))
    <2>1. outdated' = (outdated \/ (accepted /\ changed))
      BY DEF Checked
    <2> QED BY <2>1, Zenon
  <1>2. CASE users' = users
    BY <1>1, <1>2 DEF SessionIsCurrent
  <1>3. CASE users' # users
    <2>1. PICK s \in Session :
              /\ s.token = r.token /\ s.of = r.server /\ Exists(r.target)
              /\ users' = [users EXCEPT ![r.target].session = s]
      BY <1>0, <1>3, CheckedGives
    <2>2. PICK u \in Uids : u = r.target
      BY <2>1 DEF Exists
    <2>3. /\ users'[u].session = s
          /\ users'[u].password = users[u].password
          /\ users'[u].driver = users[u].driver
          /\ \A w \in Uids : w # u => users'[w] = users[w]
      BY <1>0, <2>1, <2>2, SessionType
    <2>4. accepted
      BY <1>0, <1>3, CheckedGives
    <2>5. ASSUME ~outdated', s.of = u
          PROVE  s.token = users[u].password /\ users[u].driver # "public"
      BY <1>1, <2>1, <2>2, <2>4, <2>5
    <2> QED BY <1>1, <2>3, <2>5 DEF SessionIsCurrent
  <1> QED BY <1>2, <1>3

LEMMA SessionStep ==
    ASSUME GroupInv, SessionIsCurrent, [Next]_vars
    PROVE  SessionIsCurrent'
  <1>0. Types /\ Known
    BY DEF GroupInv
  <1>1. CASE users' = users /\ outdated' = outdated
    BY <1>1, SessionsKept
  <1>2. ASSUME NEW t \in Threads,
               \/ Refused(t) \/ Join(t) \/ Leave(t) \/ AddNew(t) \/ GroupAllocate(t)
               \/ set_permissions(t) \/ set_owner(t) \/ Delete(t) \/ Drop(t)
               \/ \E token \in Tokens : authenticate(t, token)
               \/ \E u \in Uids, g \in Gids : UserChown(t, u, g)
               \/ \E g \in Gids : GroupDelete(t, g)
               \/ \E m \in Modes : Chmod(t, m)
               \/ \E u \in Uids \cup {NoId}, g \in Gids \cup {NoId} : Chown(t, u, g)
        PROVE  SessionIsCurrent'
    BY <1>1, <1>2 DEF Refused, Join, Leave, AddNew, GroupAllocate, set_permissions,
       set_owner, Delete, Drop, authenticate, UserChown, GroupDelete, Chmod, Chown
  <1>3. ASSUME NEW u \in Uids, NEW x, users' = [users EXCEPT ![u] = x],
               x.session = NoSession, outdated' = outdated
        PROVE  SessionIsCurrent'
    <2>1. \A w \in Uids : users'[w] = IF w = u THEN x ELSE users[w]
      BY <1>0, <1>3 DEF Types
    <2> QED BY <1>3, <2>1, SessionsKept
  <1>4. ASSUME NEW t \in Threads, NEW n \in Names, NEW token \in Tokens,
               UserAllocate(t, n, token) \/ authenticate_external(t, n, token)
        PROVE  SessionIsCurrent'
    <2>1. PICK gid, driver : Allocates(n, gid, token, driver) /\ outdated' = outdated
      BY <1>4 DEF UserAllocate, authenticate_external
    <2>2. PICK u \in Uids : u = next.uid
      BY <2>1 DEF Allocates
    <2>3. PICK x : x = NewUser(n, gid, token, driver)
      OBVIOUS
    <2>4. x.session = NoSession /\ users' = [users EXCEPT ![u] = x]
      BY <2>1, <2>2, <2>3 DEF Allocates, NewUser
    <2> QED BY <1>3, <2>1, <2>4
  <1>5. ASSUME NEW t \in Threads, NEW u \in Uids, UserDelete(t, u)
        PROVE  SessionIsCurrent'
    <2>1. NoUser.session = NoSession
      BY DEF NoUser
    <2> QED BY <1>3, <1>5, <2>1 DEF UserDelete
  <1>6. ASSUME NEW t \in Threads, NEW u \in Uids,
               \/ \E token \in Tokens : ChangePassword(t, u, token)
               \/ \E token \in Tokens \cup {NoToken}, d \in Drivers :
                    ChangeAuth(t, u, token, d)
        PROVE  SessionIsCurrent'
    <2>0. users[u].driver \in Drivers /\ users[u].password \in Tokens \cup {NoToken}
      BY <1>0 DEF Types, User
    <2>1. outdated' = outdated /\ \E k \in Tokens \cup {NoToken}, d \in Drivers :
                                        set_password(u, k, d)
      BY <1>6, <2>0 DEF ChangePassword, ChangeAuth
    <2>2. /\ users'[u].session = NoSession
          /\ \A w \in Uids : w # u => users'[w] = users[w]
      BY <1>0, <2>1, PasswordType
    <2> QED BY <2>1, <2>2, SessionsKept
  <1>7. ASSUME NEW t \in Threads, SetGroup(t)
        PROVE  SessionIsCurrent'
    <2>0. outdated' = outdated
      BY <1>7 DEF SetGroup
    <2>1. CASE users' = users
      BY <1>1, <2>0, <2>1
    <2>2. CASE users' # users
      <3>1. /\ thread[t].target \in Uids
            /\ users' = [users EXCEPT ![thread[t].target].gid = thread[t].group]
        BY <1>7, <2>2 DEF SetGroup, Exists
      <3>2. \A w \in Uids : /\ users'[w].session = users[w].session
                            /\ users'[w].password = users[w].password
                            /\ users'[w].driver = users[w].driver
        BY <1>0, <3>1 DEF Types, User
      <3> QED BY <2>0, <3>2, SessionsKept
    <2> QED BY <2>1, <2>2
  <1>8. ASSUME NEW u \in Uids, SessionEnds(u)
        PROVE  SessionIsCurrent'
    <2>1. users' = [users EXCEPT ![u].session = NoSession] /\ outdated' = outdated
      BY <1>8 DEF SessionEnds
    <2>2. \A w \in Uids : IF w = u THEN users'[w].session = NoSession
                          ELSE users'[w] = users[w]
      BY <1>0, <2>1 DEF Types, User
    <2> QED BY <2>1, <2>2, SessionsKept
  <1>9. CASE Crash
    BY <1>0, <1>9, CrashUsers, SessionsKept DEF Crash
  <1>10. CASE UNCHANGED vars
    BY <1>1, <1>10 DEF vars
  <1> QED BY <1>2, <1>4, <1>5, <1>6, <1>7, <1>8, <1>9, <1>10, CheckedSession DEF Next

\* A session of a user stands for the password and the driver the user has now,
\* whatever changed between the check of the token and the session; unless the
\* password itself changed exactly there.
THEOREM SessionsAreCurrent == Spec => []SessionIsCurrent
  <1>1. GroupInv /\ [Next]_vars => GroupInv'
    BY GroupStep
  <1>2. Init => SessionIsCurrent
    <2>1. \A u \in Uids : NoSession.of # u
      BY RequestsAssumption DEF NoSession, Uids, NoId
    <2> QED BY <2>1, InitKnown DEF SessionIsCurrent
  <1>3. GroupInv /\ SessionIsCurrent /\ [Next]_vars => SessionIsCurrent'
    BY SessionStep
  <1> QED BY GroupInit, <1>1, <1>2, <1>3, PTL DEF Spec
-----------------------------------------------------------------------------
(* Permissions.                                                            *)

\* A request about to change permissions was given the right to.
Allowed(r) ==
    r.at = "chmod" /\ ~IsAdmin(r) =>
        /\ r.mode["owner_a"] # -1 => r.op = "ADMIN"
        /\ r.mode["other_u"] # -1 => EnableOther

ChmodInv == \A t \in Threads : Allowed(thread[t])

\* Only Chmod brings a request there.
GoesElsewhere(t) == \E r : Goes(t, r) /\ r.at # "chmod"

LEMMA Elsewhere ==
    ASSUME Types, NEW t \in Threads,
           \/ Checked(t) \/ Refused(t) \/ Join(t) \/ Leave(t) \/ SetGroup(t)
           \/ AddNew(t) \/ GroupAllocate(t) \/ set_permissions(t) \/ set_owner(t)
           \/ Delete(t) \/ Drop(t)
           \/ \E token \in Tokens : authenticate(t, token)
           \/ \E n \in Names, token \in Tokens : \/ UserAllocate(t, n, token)
                                                 \/ authenticate_external(t, n, token)
           \/ \E u \in Uids, token \in Tokens : ChangePassword(t, u, token)
           \/ \E u \in Uids, token \in Tokens \cup {NoToken}, d \in Drivers :
                ChangeAuth(t, u, token, d)
           \/ \E u \in Uids : UserDelete(t, u)
           \/ \E u \in Uids, g \in Gids : UserChown(t, u, g)
           \/ \E g \in Gids : GroupDelete(t, g)
           \/ \E u \in Uids \cup {NoId}, g \in Gids \cup {NoId} : Chown(t, u, g)
    PROVE  GoesElsewhere(t)
  <1>0. thread[t] \in Request
    BY DEF Types
  <1>1. ASSUME Returns(t) PROVE GoesElsewhere(t)
    BY <1>1, IdleType DEF Returns, GoesElsewhere
  <1>2. ASSUME NEW u, NEW g, Goes(t, [Idle EXCEPT !.at = "ready", !.uid = u, !.gid = g])
        PROVE  GoesElsewhere(t)
    <2>1. PICK r : r = [Idle EXCEPT !.at = "ready", !.uid = u, !.gid = g]
      OBVIOUS
    <2>2. r.at = "ready"
      BY <2>1 DEF Idle
    <2> QED BY <1>2, <2>1, <2>2 DEF GoesElsewhere
  <1>3. ASSUME NEW u, NEW g, NEW k, NEW p, NEW d, NEW s,
               Goes(t, [Idle EXCEPT !.at = "check", !.target = u, !.gid = g,
                            !.token = k, !.password = p, !.driver = d, !.server = s])
        PROVE  GoesElsewhere(t)
    <2>1. PICK r : r = [Idle EXCEPT !.at = "check", !.target = u, !.gid = g,
                            !.token = k, !.password = p, !.driver = d, !.server = s]
      OBVIOUS
    <2>2. r.at = "check"
      BY <2>1 DEF Idle
    <2> QED BY <1>3, <2>1, <2>2 DEF GoesElsewhere
  <1>4. ASSUME NEW r, Goes(t, r), r.at # "chmod"
        PROVE  GoesElsewhere(t)
    BY <1>4 DEF GoesElsewhere
  <1>5. ASSUME NEW token \in Tokens, authenticate(t, token)
        PROVE  GoesElsewhere(t)
    <2>1. PICK u \in Uids : \/ authenticate_internal(t, u, token)
                            \/ \E s \in Uids : authenticate_server(t, s, u, token)
      BY <1>5 DEF authenticate
    <2>2. CASE authenticate_internal(t, u, token)
      BY <1>2, <1>3, <2>2 DEF authenticate_internal, Begin
    <2>3. ASSUME NEW s \in Uids, authenticate_server(t, s, u, token)
          PROVE  GoesElsewhere(t)
      BY <1>2, <1>3, <2>3 DEF authenticate_server, Begin
    <2> QED BY <2>1, <2>2, <2>3
  <1>6. CASE Checked(t)
    BY <1>1, <1>2, <1>6 DEF Checked
  <1>7. CASE Join(t)
    BY <1>1, <1>2, <1>7 DEF Join
  <1>8. CASE \/ Refused(t) \/ Leave(t) \/ GroupAllocate(t) \/ set_permissions(t)
             \/ set_owner(t) \/ Drop(t)
             \/ \E u \in Uids, token \in Tokens : ChangePassword(t, u, token)
             \/ \E u \in Uids, token \in Tokens \cup {NoToken}, d \in Drivers :
                  ChangeAuth(t, u, token, d)
             \/ \E g \in Gids : GroupDelete(t, g)
    BY <1>1, <1>8 DEF Refused, Leave, GroupAllocate, set_permissions, set_owner, Drop,
       ChangePassword, ChangeAuth, GroupDelete
  <1>9. CASE SetGroup(t)
    <2>1. PICK r : r = [thread[t] EXCEPT !.at = "addnew",
                                         !.gid = users[thread[t].target].gid]
      OBVIOUS
    <2>2. r.at = "addnew"
      BY <1>0, <2>1 DEF Request
    <2> QED BY <1>1, <1>4, <1>9, <2>1, <2>2 DEF SetGroup
  <1>10. CASE AddNew(t)
    <2>1. PICK r : r = [thread[t] EXCEPT !.at = "delold", !.group = thread[t].gid]
      OBVIOUS
    <2>2. r.at = "delold"
      BY <1>0, <2>1 DEF Request
    <2> QED BY <1>1, <1>4, <1>10, <2>1, <2>2 DEF AddNew
  <1>11. CASE Delete(t)
    <2>1. PICK r : r = [thread[t] EXCEPT !.at = "drop"]
      OBVIOUS
    <2>2. r.at = "drop"
      BY <1>0, <2>1 DEF Request
    <2> QED BY <1>4, <1>11, <2>1, <2>2 DEF Delete
  <1>12. ASSUME NEW n \in Names, NEW token \in Tokens, UserAllocate(t, n, token)
         PROVE  GoesElsewhere(t)
    <2>1. PICK g : Goes(t, [thread[t] EXCEPT !.at = "join", !.target = next.uid,
                                             !.group = g, !.uid = NoId])
      BY <1>12 DEF UserAllocate
    <2>2. PICK r : r = [thread[t] EXCEPT !.at = "join", !.target = next.uid,
                                         !.group = g, !.uid = NoId]
      OBVIOUS
    <2>3. r.at = "join"
      BY <1>0, <2>2 DEF Request
    <2> QED BY <1>4, <2>1, <2>2, <2>3
  <1>13. ASSUME NEW n \in Names, NEW token \in Tokens, authenticate_external(t, n, token)
         PROVE  GoesElsewhere(t)
    <2>1. PICK r : r = [Idle EXCEPT !.at = "join", !.target = next.uid,
                                    !.group = USERS_ID, !.uid = next.uid]
      OBVIOUS
    <2>2. r.at = "join"
      BY <2>1 DEF Idle
    <2> QED BY <1>4, <1>13, <2>1, <2>2 DEF authenticate_external
  <1>14. ASSUME NEW u, NEW g, NEW at \in {"leave", "setgroup", "chown"},
                Goes(t, [thread[t] EXCEPT !.at = at, !.target = u, !.group = g])
         PROVE  GoesElsewhere(t)
    <2>1. PICK r : r = [thread[t] EXCEPT !.at = at, !.target = u, !.group = g]
      OBVIOUS
    <2>2. r.at = at
      BY <1>0, <2>1 DEF Request
    <2> QED BY <1>4, <1>14, <2>1, <2>2
  <1>15. CASE \/ \E u \in Uids : UserDelete(t, u)
              \/ \E u \in Uids, g \in Gids : UserChown(t, u, g)
              \/ \E u \in Uids \cup {NoId}, g \in Gids \cup {NoId} : Chown(t, u, g)
    BY <1>14, <1>15 DEF UserDelete, UserChown, Chown
  <1> QED BY <1>5, <1>6, <1>7, <1>8, <1>9, <1>10, <1>11, <1>12, <1>13, <1>15

LEMMA OnlyChmod ==
    ASSUME Types, [Next]_vars, NEW s \in Threads, thread'[s].at = "chmod"
    PROVE  thread'[s] = thread[s] \/ \E m \in Modes : Chmod(s, m)
  <1>1. ASSUME NEW t \in Threads, GoesElsewhere(t)
        PROVE  thread'[s] = thread[s]
    BY <1>1 DEF GoesElsewhere, Goes, Types
  <1>2. ASSUME NEW t \in Threads, NEW m \in Modes, Chmod(t, m), t # s
        PROVE  thread'[s] = thread[s]
    BY <1>2 DEF Chmod, Goes, Types
  <1>3. CASE \E u \in Uids : SessionEnds(u)
    BY <1>3 DEF SessionEnds
  <1>4. CASE Crash
    BY <1>4, IdleType DEF Crash
  <1>5. CASE UNCHANGED vars
    BY <1>5 DEF vars
  <1> QED BY <1>1, <1>2, <1>3, <1>4, <1>5, Elsewhere DEF Next

\* Chmod decides with the permissions of the object, and asks for no more than
\* it decided about.
LEMMA ChmodAllowed ==
    ASSUME Types, NEW t \in Threads, NEW m \in Modes, Chmod(t, m)
    PROVE  Allowed(thread'[t])
  <1>0. thread[t] \in Request /\ m \in Mode /\ object.perms \in Mode
    BY RequestsAssumption DEF Types, Object, Mode
  <1>1. CASE IsAdmin(thread[t])
    <2>1. PICK r : r = [thread[t] EXCEPT !.at = "chmod", !.op = "ADMIN", !.mode = m]
      OBVIOUS
    <2>2. r.uid = thread[t].uid /\ r.gid = thread[t].gid
      BY <1>0, <2>1 DEF Request
    <2>3. thread'[t] = r
      BY <1>1, <2>1 DEF Chmod, Goes, Types
    <2> QED BY <1>1, <2>2, <2>3 DEF Allowed, IsAdmin
  <1>2. CASE ~IsAdmin(thread[t])
    <2>1. PICK op, a : op = OpFor(m) /\ a = Asked(m)
      OBVIOUS
    <2>2. PICK r : r = [thread[t] EXCEPT !.at = "chmod", !.op = op, !.mode = a]
      OBVIOUS
    <2>3. r.op = op /\ r.mode = a
      BY <1>0, <2>2 DEF Request
    <2>4. /\ thread'[t] = r
          /\ EnableOther \/ m["other_u"] \in {-1, object.perms["other_u"]}
      BY <1>2, <2>1, <2>2 DEF Chmod, Goes, Types
    <2>5. /\ a["owner_a"] # -1 => op = "ADMIN"
          /\ a["other_u"] # -1 => EnableOther
      BY <1>0, <2>1, <2>4 DEF Asked, OpFor, Bits, Mode
    <2> QED BY <2>3, <2>4, <2>5 DEF Allowed
  <1> QED BY <1>1, <1>2

LEMMA ChmodStep ==
    ASSUME Types, ChmodInv, [Next]_vars
    PROVE  ChmodInv'
  <1> SUFFICES ASSUME NEW s \in Threads PROVE Allowed(thread'[s])
    BY DEF ChmodInv, Allowed, IsAdmin
  <1>1. CASE thread'[s].at # "chmod"
    BY <1>1 DEF Allowed
  <1>2. CASE thread'[s] = thread[s]
    BY <1>2 DEF ChmodInv
  <1> QED BY <1>1, <1>2, OnlyChmod, ChmodAllowed

\* Nothing else changes the permissions of the object.
LEMMA OnlySetPermissions ==
    ASSUME Types, Next, object'.perms # object.perms
    PROVE  \E t \in Threads : set_permissions(t)
  <1>1. object' # object
    OBVIOUS
  <1>2. PICK t \in Threads : set_permissions(t) \/ set_owner(t) \/ Drop(t)
    <2>1. ASSUME NEW t \in Threads
          PROVE  ~(\/ Checked(t) \/ Refused(t) \/ Join(t) \/ Leave(t) \/ SetGroup(t)
                   \/ AddNew(t) \/ GroupAllocate(t) \/ Delete(t))
      BY <1>1 DEF Checked, Refused, Join, Leave, SetGroup, AddNew, GroupAllocate, Delete
    <2>2. ASSUME NEW t \in Threads, NEW token
          PROVE  /\ ~authenticate(t, token)
                 /\ \A n : ~UserAllocate(t, n, token) /\ ~authenticate_external(t, n, token)
                 /\ \A u : ~ChangePassword(t, u, token)
                 /\ \A u, d : ~ChangeAuth(t, u, token, d)
      BY <1>1 DEF authenticate, UserAllocate, authenticate_external, ChangePassword,
         ChangeAuth
    <2>3. ASSUME NEW t \in Threads
          PROVE  /\ \A u : ~UserDelete(t, u)
                 /\ \A u, g : ~UserChown(t, u, g) /\ ~Chown(t, u, g)
                 /\ \A g : ~GroupDelete(t, g)
                 /\ \A m : ~Chmod(t, m)
      BY <1>1 DEF UserDelete, UserChown, Chown, GroupDelete, Chmod
    <2>4. ~Crash /\ \A u : ~SessionEnds(u)
      BY <1>1 DEF Crash, SessionEnds
    <2> QED BY <2>1, <2>2, <2>3, <2>4 DEF Next
  <1>3. ASSUME set_owner(t) PROVE object'.perms = object.perms
    BY <1>3 DEF set_owner, Types, Object
  <1>4. ASSUME Drop(t) PROVE object'.perms = object.perms
    BY <1>4 DEF Drop, Types, Object
  <1> QED BY <1>2, <1>3, <1>4

\* Administrative permissions and those of others change only for requests that
\* were given the right to, whatever changed between the check and the change.
THEOREM ChmodsAreAllowed == Spec => ChmodIsAllowed
  <1>1. GroupInv /\ [Next]_vars => GroupInv'
    BY GroupStep
  <1>2. Init => ChmodInv
    BY IdleType DEF Init, ChmodInv, Allowed
  <1>3. GroupInv /\ ChmodInv /\ [Next]_vars => ChmodInv'
    BY ChmodStep DEF GroupInv
  <1>4. ASSUME GroupInv, ChmodInv, [Next]_vars
        PROVE  [\A b \in {"owner_a", "other_u"} : object'.perms[b] # object.perms[b] =>
                    \E t \in Threads :
                        /\ thread[t].at = "chmod" /\ thread'[t].at = "idle"
                        /\ \/ IsAdmin(thread[t])
                           \/ (IF b = "owner_a" THEN thread[t].op = "ADMIN"
                               ELSE EnableOther)]_vars
    <2> SUFFICES ASSUME Next, NEW b \in {"owner_a", "other_u"},
                        object'.perms[b] # object.perms[b]
                 PROVE  \E t \in Threads :
                            /\ thread[t].at = "chmod" /\ thread'[t].at = "idle"
                            /\ \/ IsAdmin(thread[t])
                               \/ (IF b = "owner_a" THEN thread[t].op = "ADMIN"
                                   ELSE EnableOther)
      BY <1>4
    <2>1. Types
      BY <1>4 DEF GroupInv
    <2>2. PICK t \in Threads : set_permissions(t)
      BY <2>1, OnlySetPermissions
    <2>3. thread[t].at = "chmod" /\ thread'[t].at = "idle"
      BY <2>1, <2>2, IdleType, GoesDoes DEF set_permissions, At, Returns
    <2>4. thread[t].mode[b] # -1
      BY <2>1, <2>2 DEF set_permissions, Types, Object, Mode, Bits
    <2> QED BY <1>4, <2>3, <2>4 DEF ChmodInv, Allowed
  <1> QED BY GroupInit, <1>1, <1>2, <1>3, <1>4, PTL DEF Spec, ChmodIsAllowed
=============================================================================
