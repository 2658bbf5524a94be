--------------------------- MODULE AccessControl ---------------------------
(***************************************************************************)
(* Access control lists: the rules of the AclManager, in memory and in the *)
(* table, the decision whether a user may do something with an object, and *)
(* the filter of the lists that a user gets.                               *)
(*                                                                         *)
(* A 64-bit word of a rule (its user or its resource) is a record of the   *)
(* set of its type bits, the set of its scope bits and its 32-bit          *)
(* identifier; its bits are those sets, so a mask is an intersection.      *)
(***************************************************************************)
EXTENDS Integers, FiniteSets

CONSTANTS
    Users,      \* Identifiers of the users that ask
    Groups,     \* Identifiers of the groups
    Types,      \* Types of objects
    Oids,       \* Identifiers of objects
    Asked,      \* The rules that administrators ask to add
    Default,    \* The two rules of a new installation, in the order of their oids
    INT_MAX     \* The largest identifier of a rule

DefaultRules == {Default[1], Default[2]}

Scopes == {"INDIVIDUAL", "GROUP", "ALL"}
Rights == {"USE", "MANAGE", "ADMIN", "CREATE"}
ObjectType == {"VM", "HOST", "NET", "IMAGE", "USER", "TEMPLATE", "GROUP", "ACL"}

Word(types, scopes, id) == [types |-> types, scopes |-> scopes, id |-> id]

\* What the bits of a negative identifier make of a word: they are all set.
Ones == Word(ObjectType \cup {"wrong"}, Scopes \cup {"NONE"}, -1)
NONE_ID == Word({}, {"NONE"}, 0)

\* type | scope | id
Or(types, scope, id) == IF id < 0 THEN Ones ELSE Word(types, {scope}, id)

\* w & (type | scope | 0xFFFFFFFF)
Mask(w, type, scope) ==
    Word(w.types \cap {type}, w.scopes \cap {scope}, w.id)

RuleOids == 0..INT_MAX
NoRule == [user |-> NONE_ID, resource |-> NONE_ID, rights |-> {}]

\* Three words: the strings in hexadecimal that a request brings, or a row.
WordSet == [types : SUBSET (ObjectType \cup {"wrong"}),
            scopes : SUBSET (Scopes \cup {"NONE"}), id : Int]
Rule == [user : WordSet, resource : WordSet, rights : SUBSET (Rights \cup {"wrong"})]

ASSUME AccessAssumption ==
    /\ Users \subseteq Nat /\ Groups \subseteq Nat /\ Oids \subseteq Nat
    /\ Types \subseteq ObjectType
    /\ DOMAIN Default = 1..2 /\ Default[1] # Default[2]
    /\ INT_MAX \in Nat /\ INT_MAX >= 1
    /\ Asked \cup DefaultRules \subseteq Rule \ {NoRule}

VARIABLES
    table,          \* The rows of the table of rules
    last_oid,       \* The last identifier, in pool_control
    acl_rules,      \* How many copies of each rule the index by user has
    acl_rules_oids, \* The index by identifier
    lastOID,        \* The last identifier given
    fresh           \* TRUE iff the daemon has run since it made the table

vars == <<table, last_oid, acl_rules, acl_rules_oids, lastOID, fresh>>

AllRules == Asked \cup DefaultRules
Held == {r \in AllRules : acl_rules[r] > 0}
-----------------------------------------------------------------------------
(* A request: user uid of group gid asks to do op on an object.  An object *)
(* is its type, oid, owner, group and the rights of owner, group, others.  *)

\* The rules that the permissions of an object stand for.
get_acl_rules(o) ==
    LET resource == Or({o.type}, "INDIVIDUAL", o.oid) IN
    {[user |-> Or({}, "INDIVIDUAL", o.uid), resource |-> resource,
      rights |-> o.owner],
     [user |-> Or({}, "GROUP", o.gid), resource |-> resource,
      rights |-> o.group],
     [user |-> Word({}, {"ALL"}, 0), resource |-> resource,
      rights |-> o.other]}

\* The words of the user that rules are looked up by.
user_reqs(uid, gid) ==
    {Word({}, {"ALL"}, 0), Or({}, "INDIVIDUAL", uid), Or({}, "GROUP", gid)}

\* Mutant: the group of the object is not compared.
match_rules_AnyGroup(r, o, op) ==
    /\ op \in r.rights
    /\ \/ {o.type} \subseteq r.resource.types /\ "ALL" \in r.resource.scopes
       \/ Mask(r.resource, o.type, "GROUP").scopes = {"GROUP"}
       \/ /\ o.oid >= 0
          /\ Mask(r.resource, o.type, "INDIVIDUAL")
                = Or({o.type}, "INDIVIDUAL", o.oid)

match_rules(r, o, op) ==
    LET oid_req == IF o.oid >= 0 THEN Or({o.type}, "INDIVIDUAL", o.oid)
                   ELSE NONE_ID
        gid_req == IF o.gid >= 0 THEN Or({o.type}, "GROUP", o.gid)
                   ELSE NONE_ID
    IN
    /\ op \in r.rights
    /\ \/ {o.type} \subseteq r.resource.types /\ "ALL" \in r.resource.scopes
       \/ Mask(r.resource, o.type, "GROUP") = gid_req
       \/ Mask(r.resource, o.type, "INDIVIDUAL") = oid_req

match_rules_wrapper(u, o, op) ==
    \E r \in get_acl_rules(o) \cup Held : r.user = u /\ match_rules(r, o, op)

authorize(uid, gid, o, op) ==
    \E u \in user_reqs(uid, gid) : match_rules_wrapper(u, o, op)

\* Decision on one item of a request: administrators may do everything.
add_auth(uid, gid, o, op) == uid = 0 \/ gid = 0 \/ authorize(uid, gid, o, op)

\* The object of a request to create one, and of one about no object.
CreateObject(uid, type) ==
    [type |-> type, oid |-> -1, uid |-> uid, gid |-> -1,
     owner |-> {"USE", "MANAGE"}, group |-> {}, other |-> {}]
NoObject(type) == [CreateObject(-1, type) EXCEPT !.uid = -1]

-----------------------------------------------------------------------------
(* The lists that users get.                                               *)

\* The rules that give user uid of group gid op on objects of type.
Found(uid, gid, type, op) ==
    {r \in Held : r.user \in user_reqs(uid, gid) /\ op \in r.rights}

\* Mutant: a rule for a group is taken for one for an object.
reverse_search_Swapped(uid, gid, type, op) ==
    LET found == Found(uid, gid, type, op) IN
    [all |-> \E r \in found : type \in r.resource.types
                              /\ "ALL" \in r.resource.scopes,
     gids |-> {},
     oids |-> {r.resource.id : r \in
                 {f \in found : type \in f.resource.types}}]

\* all: every object; gids: the objects of these groups; oids: these objects.
reverse_search(uid, gid, type, op) ==
    LET found == {r \in Found(uid, gid, type, op) : type \in r.resource.types}
        all == \E r \in found : "ALL" \in r.resource.scopes
        In(scope) == {r.resource.id : r \in
                        {f \in found : scope \in f.resource.scopes}}
    IN
    [all |-> all,
     gids |-> IF all THEN {} ELSE In("GROUP"),
     oids |-> IF all THEN {} ELSE In("INDIVIDUAL")]

MINE == -3
ALL == -2
MINE_GROUP == -1
Filters == {MINE, ALL, MINE_GROUP} \cup Users

\* dump: the row of object o is in the list that uid of gid asks for.
Listed(uid, gid, filter, o) ==
    LET s == IF uid = 0 \/ gid = 0
             THEN [all |-> TRUE, gids |-> {}, oids |-> {}]
             ELSE reverse_search(uid, gid, o.type, "USE")
        mine == o.uid = uid
        my_group == o.gid = gid /\ "USE" \in o.group
        shared == \/ my_group \/ "USE" \in o.other
                  \/ o.oid \in s.oids \/ o.gid \in s.gids
    IN
    CASE filter = MINE -> mine
      [] filter = MINE_GROUP -> mine \/ my_group
      [] filter = ALL -> s.all \/ mine \/ shared
      [] OTHER -> o.uid = filter /\ (filter = uid \/ s.all \/ shared)
-----------------------------------------------------------------------------
(* The rules.                                                              *)

OneScope(w) ==
    /\ Cardinality(w.scopes \cap Scopes) = 1
    /\ w.id >= 0
    /\ "ALL" \in w.scopes => w.id = 0

malformed(r) ==
    ~ /\ OneScope(r.user) /\ OneScope(r.resource)
      /\ r.resource.types # {} /\ "wrong" \notin r.resource.types
      /\ "NONE" \notin r.resource.scopes
      /\ r.rights # {} /\ r.rights \subseteq Rights

\* The constructor would refuse a default rule that is malformed.
ASSUME DefaultAssumption == \A r \in DefaultRules : ~malformed(r)

NextOid == (IF lastOID = INT_MAX THEN -1 ELSE lastOID) + 1

\* The rule is new, well formed, and its row can be inserted.
CanAdd(r) == r \notin Held /\ ~malformed(r) /\ table[NextOid] = NoRule

add_rule(r) ==
    /\ CanAdd(r)
    /\ table' = [table EXCEPT ![NextOid] = r]
    /\ acl_rules' = [acl_rules EXCEPT ![r] = @ + 1]
    /\ acl_rules_oids' = [acl_rules_oids EXCEPT ![NextOid] = r]
    /\ lastOID' = NextOid /\ last_oid' = NextOid
    /\ UNCHANGED fresh

\* An identifier that was not used is given back, also after it began again.
AddFails(r) ==
    /\ ~CanAdd(r)
    /\ lastOID' = NextOid - 1
    /\ UNCHANGED <<table, last_oid, acl_rules, acl_rules_oids, fresh>>

\* del_rule: the first equal rule of the index by user goes.
del_rule(oid) ==
    LET r == acl_rules_oids[oid] IN
    /\ r # NoRule /\ acl_rules[r] > 0
    /\ table' = [table EXCEPT ![oid] = NoRule]
    /\ acl_rules' = [acl_rules EXCEPT ![r] = @ - 1]
    /\ acl_rules_oids' = [acl_rules_oids EXCEPT ![oid] = NoRule]
    /\ UNCHANGED <<last_oid, lastOID, fresh>>

\* start: select loads the rows into the indexes.
Rows(t, r) == {o \in RuleOids : t[o] = r}
select(t) == [r \in AllRules |-> Cardinality(Rows(t, r))]

\* A new installation: the constructor adds the default rules, which start then
\* loads again.
Bootstrap ==
    /\ table = [o \in RuleOids |-> IF o < 2 THEN Default[o + 1] ELSE NoRule]
    /\ acl_rules_oids = table
    /\ acl_rules = [r \in AllRules |-> IF r \in DefaultRules THEN 2 ELSE 0]
    /\ last_oid = 1 /\ lastOID = 1
    /\ fresh = TRUE

\* The daemon stops or dies, and starts again.
Restart ==
    /\ acl_rules' = select(table)
    /\ acl_rules_oids' = table
    /\ lastOID' = last_oid
    /\ fresh' = FALSE
    /\ UNCHANGED <<table, last_oid>>

\* It dies between the INSERT and the update of pool_control.
CrashInAdd(r) ==
    LET t == [table EXCEPT ![NextOid] = r] IN
    /\ CanAdd(r)
    /\ table' = t
    /\ acl_rules' = select(t)
    /\ acl_rules_oids' = t
    /\ lastOID' = last_oid
    /\ fresh' = FALSE
    /\ UNCHANGED last_oid

Init == Bootstrap

Next ==
    \/ \E r \in AllRules : add_rule(r) \/ AddFails(r) \/ CrashInAdd(r)
    \/ \E oid \in RuleOids : del_rule(oid)
    \/ Restart

Spec == Init /\ [][Next]_vars
-----------------------------------------------------------------------------
(* What the documentation of the rules means: a rule speaks of a user, of  *)
(* a group of users or of all; of an object, of the objects of a group or  *)
(* of all objects of its types.                                            *)

Speaks(w, id, gid) ==
    \/ "ALL" \in w.scopes
    \/ "GROUP" \in w.scopes /\ w.id = gid
    \/ "INDIVIDUAL" \in w.scopes /\ w.id = id

Permitted(uid, gid, o, op) ==
    \/ uid = o.uid /\ op \in o.owner
    \/ gid = o.gid /\ op \in o.group
    \/ op \in o.other

Granted(uid, gid, o, op) ==
    \/ Permitted(uid, gid, o, op)
    \/ \E oid \in RuleOids :
        /\ table[oid] # NoRule
        /\ op \in table[oid].rights /\ o.type \in table[oid].resource.types
        /\ Speaks(table[oid].user, uid, gid)
        /\ Speaks(table[oid].resource, o.oid, o.gid)

\* The objects there may be, with rights to use them.
Perms == {{}, {"USE"}}
Objects ==
    [type : Types, oid : Oids, uid : Users, gid : Groups, owner : Perms,
     group : Perms, other : Perms]

\* A request is authorised exactly when a rule of the table or the permissions
\* of the object grant it: the words, masks and indexes lose nothing and add
\* nothing, also for requests to create an object and about no object, whose
\* identifiers are -1.  (A daemon that made the table in its own life holds the
\* default rules twice: it may grant more, never less.)
AuthorizedIsGranted ==
    \A uid \in Users \ {0}, gid \in Groups \ {0} :
        /\ \A o \in Objects, op \in {"USE", "MANAGE"} :
            /\ Granted(uid, gid, o, op) => add_auth(uid, gid, o, op)
            /\ ~fresh /\ add_auth(uid, gid, o, op) => Granted(uid, gid, o, op)
        /\ \A type \in Types :
            /\ Granted(uid, gid, CreateObject(uid, type), "CREATE")
                => add_auth(uid, gid, CreateObject(uid, type), "CREATE")
            /\ ~fresh /\ add_auth(uid, gid, CreateObject(uid, type), "CREATE")
                => Granted(uid, gid, CreateObject(uid, type), "CREATE")
            /\ ~fresh /\ add_auth(uid, gid, NoObject(type), "MANAGE")
                => Granted(uid, gid, NoObject(type), "MANAGE")

\* A list shows a user only its own objects and those it may use, and the whole
\* list shows all of them: the filter in SQL and the search for rules agree
\* with the decision on each object.
ListedIsUsable ==
    \A uid \in Users \ {0}, gid \in Groups \ {0}, o \in Objects :
        LET usable == o.uid = uid \/ authorize(uid, gid, o, "USE") IN
        /\ \A f \in Filters : Listed(uid, gid, f, o) => usable
        /\ usable => /\ Listed(uid, gid, ALL, o)
                     /\ Listed(uid, gid, o.uid, o)
=============================================================================
