------------------------ MODULE AccessControlProofs ------------------------
(***************************************************************************)
(* Proofs about access control lists, for any users, groups, objects and   *)
(* rules: the indexes of the AclManager are those of the table, and the    *)
(* masks decide what the rules say.                                        *)
(***************************************************************************)
EXTENDS AccessControl, FiniteSetTheorems, TLAPS

-----------------------------------------------------------------------------
(* The inductive invariant.                                                 *)

InTable(t, r) == \E o \in RuleOids : t[o] = r

\* No rule has two rows, and no row is malformed.
TableInv ==
  /\ table \in [RuleOids -> AllRules \cup {NoRule}]
  /\ \A o, p \in RuleOids : table[o] = table[p] /\ table[o] # NoRule => o = p
  /\ acl_rules_oids = table

\* The index by user has every rule of the table, and is well formed; it has
\* nothing else, and nothing twice, unless the daemon made the table itself.
IndexInv ==
  /\ acl_rules \in [AllRules -> Nat]
  /\ \A r \in AllRules :
        /\ InTable(table, r) => acl_rules[r] > 0
        /\ acl_rules[r] > 0 => ~malformed(r)
        /\ ~fresh => acl_rules[r] = IF InTable(table, r) THEN 1 ELSE 0

OidInv == lastOID \in -1 .. INT_MAX /\ last_oid \in RuleOids /\ fresh \in BOOLEAN

AccessInv == TableInv /\ IndexInv /\ OidInv

\* The index that a daemon which starts makes of a table without two rows for
\* a rule has the rules of the table.
LEMMA Selected ==
  ASSUME NEW t,
         \A o, p \in RuleOids : t[o] = t[p] /\ t[o] # NoRule => o = p
  PROVE  /\ DOMAIN select(t) = AllRules
         /\ \A r \in AllRules : select(t)[r] = IF InTable(t, r) THEN 1 ELSE 0
         /\ select(t) \in [AllRules -> Nat]
  <1>1. ASSUME NEW r \in AllRules
        PROVE  Cardinality(Rows(t, r)) = IF InTable(t, r) THEN 1 ELSE 0
    <2>1. CASE ~InTable(t, r)
      <3>1. Rows(t, r) = {}
        BY <2>1 DEF Rows, InTable
      <3> QED BY <2>1, <3>1, FS_EmptySet
    <2>2. CASE InTable(t, r)
      <3>1. PICK o \in RuleOids : t[o] = r
        BY <2>2 DEF InTable
      <3>2. Rows(t, r) = {o}
        BY <1>1, <3>1, AccessAssumption DEF Rows, AllRules
      <3> QED BY <2>2, <3>2, FS_Singleton
    <2> QED BY <2>1, <2>2
  <1> QED BY <1>1 DEF select

LEMMA NextOidType ==
  ASSUME OidInv
  PROVE  NextOid \in RuleOids /\ NextOid - 1 \in -1 .. INT_MAX
  BY AccessAssumption DEF OidInv, NextOid, RuleOids

LEMMA NoRuleApart == NoRule \notin AllRules
  BY AccessAssumption DEF AllRules

LEMMA InitAccess == Init => AccessInv
  <1> SUFFICES ASSUME Init PROVE AccessInv
    OBVIOUS
  <1>0. /\ table = [o \in RuleOids |-> IF o < 2 THEN Default[o + 1] ELSE NoRule]
        /\ acl_rules = [r \in AllRules |-> IF r \in DefaultRules THEN 2 ELSE 0]
        /\ acl_rules_oids = table /\ last_oid = 1 /\ lastOID = 1 /\ fresh = TRUE
    BY DEF Init, Bootstrap
  <1>1. /\ INT_MAX \in Nat /\ INT_MAX >= 1 /\ Default[1] # Default[2]
        /\ DefaultRules \subseteq AllRules
        /\ Default[1] \in DefaultRules /\ Default[2] \in DefaultRules
    BY AccessAssumption DEF AllRules, DefaultRules
  <1>2. ASSUME NEW o \in RuleOids
        PROVE  /\ o = 0 => table[o] = Default[1]
               /\ o = 1 => table[o] = Default[2]
               /\ o \notin {0, 1} => table[o] = NoRule
    BY <1>0, <1>1 DEF RuleOids
  <1>3. TableInv
    <2>1. table \in [RuleOids -> AllRules \cup {NoRule}]
      BY <1>0, <1>1, <1>2
    <2> QED BY <1>0, <1>1, <1>2, <2>1 DEF TableInv
  <1>4. IndexInv
    <2>1. acl_rules \in [AllRules -> Nat]
      BY <1>0
    <2>2. ASSUME NEW r \in AllRules
          PROVE  /\ InTable(table, r) => acl_rules[r] > 0
                 /\ acl_rules[r] > 0 => ~malformed(r)
      <3>1. InTable(table, r) => r \in DefaultRules
        BY <1>1, <1>2, NoRuleApart DEF InTable
      <3> QED BY <1>0, <3>1, DefaultAssumption
    <2> QED BY <1>0, <2>1, <2>2 DEF IndexInv
  <1>5. OidInv
    BY <1>0, <1>1 DEF OidInv, RuleOids
  <1> QED BY <1>3, <1>4, <1>5 DEF AccessInv

\* A rule that the index does not have gets a row of its own.
LEMMA RowAdded ==
  ASSUME AccessInv, NEW r \in AllRules, CanAdd(r),
         table' = [table EXCEPT ![NextOid] = r]
  PROVE  /\ NextOid \in RuleOids /\ ~malformed(r) /\ acl_rules[r] = 0
         /\ table' \in [RuleOids -> AllRules \cup {NoRule}]
         /\ \A o, p \in RuleOids : table'[o] = table'[p] /\ table'[o] # NoRule => o = p
         /\ \A q \in AllRules : InTable(table', q) <=> InTable(table, q) \/ q = r
  <1>1. NextOid \in RuleOids /\ table[NextOid] = NoRule /\ ~malformed(r)
    BY NextOidType DEF AccessInv, CanAdd
  <1>2. acl_rules[r] = 0 /\ ~InTable(table, r)
    BY DEF AccessInv, IndexInv, CanAdd, Held
  <1>3. \A o \in RuleOids : table'[o] = IF o = NextOid THEN r ELSE table[o]
    BY <1>1 DEF AccessInv, TableInv
  <1>4. \A o \in RuleOids : table[o] # r
    BY <1>2 DEF InTable
  <1>5. table' \in [RuleOids -> AllRules \cup {NoRule}]
    BY <1>1 DEF AccessInv, TableInv
  <1>6. \A o, p \in RuleOids : table'[o] = table'[p] /\ table'[o] # NoRule => o = p
    BY <1>3, <1>4 DEF AccessInv, TableInv
  <1>7. \A q \in AllRules : InTable(table', q) <=> InTable(table, q) \/ q = r
    BY <1>1, <1>3, NoRuleApart DEF InTable
  <1> QED BY <1>1, <1>2, <1>5, <1>6, <1>7

LEMMA AddAccess ==
  ASSUME AccessInv, NEW r \in AllRules, add_rule(r)
  PROVE  AccessInv'
  <1>1. /\ CanAdd(r) /\ table' = [table EXCEPT ![NextOid] = r]
        /\ acl_rules' = [acl_rules EXCEPT ![r] = @ + 1]
        /\ acl_rules_oids' = [acl_rules_oids EXCEPT ![NextOid] = r]
        /\ lastOID' = NextOid /\ last_oid' = NextOid /\ fresh' = fresh
    BY DEF add_rule
  <1>2. /\ NextOid \in RuleOids /\ ~malformed(r) /\ acl_rules[r] = 0
        /\ table' \in [RuleOids -> AllRules \cup {NoRule}]
        /\ \A o, p \in RuleOids : table'[o] = table'[p] /\ table'[o] # NoRule => o = p
        /\ \A q \in AllRules : InTable(table', q) <=> InTable(table, q) \/ q = r
    BY <1>1, RowAdded
  <1>3. TableInv'
    BY <1>1, <1>2 DEF AccessInv, TableInv
  <1>4. ASSUME NEW q \in AllRules
        PROVE  acl_rules'[q] = IF q = r THEN 1 ELSE acl_rules[q]
    BY <1>1, <1>2 DEF AccessInv, IndexInv
  <1>5. acl_rules' \in [AllRules -> Nat]
    BY <1>1 DEF AccessInv, IndexInv
  <1>6. IndexInv'
    <2>1. ASSUME NEW q \in AllRules
          PROVE  /\ InTable(table', q) => acl_rules'[q] > 0
                 /\ acl_rules'[q] > 0 => ~malformed(q)
      BY <1>2, <1>4 DEF AccessInv, IndexInv
    <2>2. ASSUME NEW q \in AllRules, ~fresh
          PROVE  acl_rules'[q] = IF InTable(table', q) THEN 1 ELSE 0
      BY <1>2, <1>4, <2>2 DEF AccessInv, IndexInv
    <2> QED BY <1>1, <1>5, <2>1, <2>2 DEF IndexInv
  <1>7. OidInv'
    BY <1>1, <1>2 DEF AccessInv, OidInv, RuleOids
  <1> QED BY <1>3, <1>6, <1>7 DEF AccessInv

LEMMA DelAccess ==
  ASSUME AccessInv, NEW oid \in RuleOids, del_rule(oid)
  PROVE  AccessInv'
  <1> DEFINE r == acl_rules_oids[oid]
  <1>1. /\ r # NoRule /\ acl_rules[r] > 0 /\ r = table[oid] /\ r \in AllRules
        /\ table' = [table EXCEPT ![oid] = NoRule]
        /\ acl_rules' = [acl_rules EXCEPT ![r] = @ - 1]
        /\ acl_rules_oids' = [acl_rules_oids EXCEPT ![oid] = NoRule]
        /\ UNCHANGED <<last_oid, lastOID, fresh>>
    BY DEF del_rule, AccessInv, TableInv
  <1> HIDE DEF r
  <1>2. \A o \in RuleOids : table'[o] = IF o = oid THEN NoRule ELSE table[o]
    BY <1>1 DEF AccessInv, TableInv
  <1>3. TableInv'
    BY <1>1, <1>2 DEF AccessInv, TableInv
  <1>4. \A q \in AllRules : InTable(table', q) <=> InTable(table, q) /\ q # r
    BY <1>1, <1>2, NoRuleApart DEF InTable, AccessInv, TableInv
  <1>5. InTable(table, r)
    BY <1>1 DEF InTable
  <1>6. acl_rules' \in [AllRules -> Nat]
    BY <1>1 DEF AccessInv, IndexInv
  <1>7. \A q \in AllRules : acl_rules'[q] = IF q = r THEN acl_rules[r] - 1
                                            ELSE acl_rules[q]
    BY <1>1 DEF AccessInv, IndexInv
  <1>8. IndexInv'
    <2>1. ASSUME NEW q \in AllRules
          PROVE  /\ InTable(table', q) => acl_rules'[q] > 0
                 /\ acl_rules'[q] > 0 => ~malformed(q)
      BY <1>1, <1>4, <1>7 DEF AccessInv, IndexInv
    <2>2. ASSUME NEW q \in AllRules, ~fresh
          PROVE  acl_rules'[q] = IF InTable(table', q) THEN 1 ELSE 0
      <3>1. \A p \in AllRules : acl_rules[p] = IF InTable(table, p) THEN 1 ELSE 0
        BY <2>2 DEF AccessInv, IndexInv
      <3>2. CASE q = r
        <4>1. acl_rules[r] = 1 /\ acl_rules'[q] = acl_rules[r] - 1
          BY <1>1, <1>5, <1>7, <3>1, <3>2
        <4>2. ~InTable(table', q)
          BY <1>1, <1>4, <3>2
        <4> QED BY <4>1, <4>2
      <3>3. CASE q # r
        BY <1>4, <1>7, <2>2, <3>1, <3>3
      <3> QED BY <3>2, <3>3
    <2> QED BY <1>1, <1>6, <2>1, <2>2 DEF IndexInv
  <1> QED BY <1>1, <1>3, <1>8 DEF AccessInv, OidInv

\* The daemon starts with table t, which has no rule but those of the table and
\* perhaps one that is well formed.
LEMMA StartAccess ==
  ASSUME AccessInv, table' \in [RuleOids -> AllRules \cup {NoRule}],
         \A o, p \in RuleOids : table'[o] = table'[p] /\ table'[o] # NoRule => o = p,
         \A q \in AllRules : InTable(table', q) => InTable(table, q) \/ ~malformed(q),
         acl_rules' = select(table'), acl_rules_oids' = table',
         lastOID' = last_oid, fresh' = FALSE, UNCHANGED last_oid
  PROVE  AccessInv'
  <1>1. /\ \A r \in AllRules : acl_rules'[r] = IF InTable(table', r) THEN 1 ELSE 0
        /\ acl_rules' \in [AllRules -> Nat]
    BY Selected
  <1>2. TableInv'
    BY DEF TableInv
  <1>3. IndexInv'
    BY <1>1 DEF IndexInv, AccessInv
  <1>4. OidInv'
    <2>1. last_oid \in RuleOids
      BY DEF OidInv, AccessInv
    <2>2. lastOID' \in -1 .. INT_MAX
      BY <2>1, AccessAssumption DEF RuleOids
    <2>3. fresh' \in BOOLEAN
      OBVIOUS
    <2> QED BY <2>1, <2>2, <2>3 DEF OidInv
  <1> QED BY <1>2, <1>3, <1>4 DEF AccessInv

LEMMA NextAccess == AccessInv /\ [Next]_vars => AccessInv'
  <1> SUFFICES ASSUME AccessInv, [Next]_vars PROVE AccessInv'
    OBVIOUS
  <1>1. ASSUME NEW r \in AllRules, AddFails(r) PROVE AccessInv'
    <2>1. OidInv'
      BY <1>1, NextOidType DEF AddFails, AccessInv, OidInv
    <2> QED BY <1>1, <2>1 DEF AddFails, AccessInv, TableInv, IndexInv
  <1>2. ASSUME NEW r \in AllRules, CrashInAdd(r) PROVE AccessInv'
    <2>1. /\ CanAdd(r) /\ table' = [table EXCEPT ![NextOid] = r]
          /\ acl_rules' = select(table') /\ acl_rules_oids' = table'
          /\ lastOID' = last_oid /\ fresh' = FALSE /\ UNCHANGED last_oid
      BY <1>2 DEF CrashInAdd
    <2> QED BY <2>1, RowAdded, StartAccess
  <1>3. CASE Restart
    BY <1>3, StartAccess DEF Restart, AccessInv, TableInv
  <1>4. CASE UNCHANGED vars
    BY <1>4 DEF vars, AccessInv, TableInv, IndexInv, OidInv
  <1> QED BY <1>1, <1>2, <1>3, <1>4, AddAccess, DelAccess DEF Next

\* The index by user has the rules of the table, each well formed and in one
\* row: whatever administrators ask for, and wherever the daemon dies.
THEOREM AccessCorrect == Spec => []AccessInv
  BY InitAccess, NextAccess, PTL DEF Spec

-----------------------------------------------------------------------------
(* Words and masks.                                                         *)

\* The word of the users of a rule has no bits but a scope and an identifier,
\* as oneacl writes it.  malformed looks at no others, and authorize would not
\* find a rule that has more.
UserWords == \A r \in AllRules : r.user.types = {} /\ "NONE" \notin r.user.scopes

LEMMA RuleType ==
  ASSUME NEW r \in AllRules
  PROVE  r.user \in WordSet /\ r.resource \in WordSet
  BY AccessAssumption DEF AllRules, Rule

LEMMA ObjectWords ==
  ASSUME NEW o \in Objects
  PROVE  /\ o.oid \in Nat /\ o.uid \in Nat /\ o.gid \in Nat
         /\ o.uid \in Users
         /\ Or({o.type}, "INDIVIDUAL", o.oid) = Word({o.type}, {"INDIVIDUAL"}, o.oid)
         /\ Or({o.type}, "GROUP", o.gid) = Word({o.type}, {"GROUP"}, o.gid)
         /\ Or({}, "INDIVIDUAL", o.uid) = Word({}, {"INDIVIDUAL"}, o.uid)
         /\ Or({}, "GROUP", o.gid) = Word({}, {"GROUP"}, o.gid)
  <1>1. /\ o.oid \in Nat /\ o.uid \in Nat /\ o.gid \in Nat
        /\ o.uid \in Users
    BY AccessAssumption DEF Objects
  <1>2. ASSUME NEW types, NEW scope, NEW id \in Nat
        PROVE  Or(types, scope, id) = Word(types, {scope}, id)
    BY <1>2 DEF Or
  <1> QED BY <1>1, <1>2

\* A mask picks the rules for an object by its type, scope and identifier.
LEMMA MaskPicks ==
  ASSUME NEW w, NEW type, NEW scope, NEW id
  PROVE  /\ Mask(w, type, scope) = Word({type}, {scope}, id)
              <=> type \in w.types /\ scope \in w.scopes /\ w.id = id
         /\ scope # "NONE" => Mask(w, type, scope) # NONE_ID
  <1>1. Mask(w, type, scope) = Word({type}, {scope}, id)
          <=> w.types \cap {type} = {type} /\ w.scopes \cap {scope} = {scope}
              /\ w.id = id
    BY DEF Mask, Word
  <1>2. scope # "NONE" => Mask(w, type, scope) # NONE_ID
    <2>1. Mask(w, type, scope) = NONE_ID => w.scopes \cap {scope} = {"NONE"}
      BY DEF Mask, Word, NONE_ID
    <2> QED BY <2>1
  <1> QED BY <1>1, <1>2

LEMMA MatchObject ==
  ASSUME NEW o \in Objects, NEW r, NEW op
  PROVE  match_rules(r, o, op)
            <=> /\ op \in r.rights /\ o.type \in r.resource.types
                /\ Speaks(r.resource, o.oid, o.gid)
  <1>1. /\ o.oid >= 0 /\ o.gid >= 0
        /\ Or({o.type}, "INDIVIDUAL", o.oid) = Word({o.type}, {"INDIVIDUAL"}, o.oid)
        /\ Or({o.type}, "GROUP", o.gid) = Word({o.type}, {"GROUP"}, o.gid)
    BY ObjectWords
  <1>2. /\ Mask(r.resource, o.type, "GROUP") = Word({o.type}, {"GROUP"}, o.gid)
             <=> /\ o.type \in r.resource.types
                 /\ "GROUP" \in r.resource.scopes /\ r.resource.id = o.gid
        /\ Mask(r.resource, o.type, "INDIVIDUAL")
                = Word({o.type}, {"INDIVIDUAL"}, o.oid)
             <=> /\ o.type \in r.resource.types
                 /\ "INDIVIDUAL" \in r.resource.scopes /\ r.resource.id = o.oid
    BY MaskPicks
  <1>3. match_rules(r, o, op)
          <=> /\ op \in r.rights
              /\ \/ o.type \in r.resource.types /\ "ALL" \in r.resource.scopes
                 \/ Mask(r.resource, o.type, "GROUP")
                        = Word({o.type}, {"GROUP"}, o.gid)
                 \/ Mask(r.resource, o.type, "INDIVIDUAL")
                        = Word({o.type}, {"INDIVIDUAL"}, o.oid)
    BY <1>1 DEF match_rules
  <1> QED BY <1>2, <1>3 DEF Speaks

\* Only a rule for all objects matches a request about none.
LEMMA MatchNone ==
  ASSUME NEW o, NEW r, NEW op, o.oid = -1, o.gid = -1
  PROVE  match_rules(r, o, op)
            <=> /\ op \in r.rights /\ o.type \in r.resource.types
                /\ "ALL" \in r.resource.scopes
  <1>1. Mask(r.resource, o.type, "GROUP") # NONE_ID
    BY MaskPicks
  <1>2. Mask(r.resource, o.type, "INDIVIDUAL") # NONE_ID
    BY MaskPicks
  <1> QED BY <1>1, <1>2 DEF match_rules

LEMMA OneOfThree ==
  ASSUME NEW w, OneScope(w)
  PROVE  \E s \in Scopes : w.scopes \cap Scopes = {s}
  <1>1. IsFiniteSet(Scopes)
    <2>1. IsFiniteSet({"INDIVIDUAL"})
      BY FS_Singleton
    <2>2. IsFiniteSet({"INDIVIDUAL"} \cup {"GROUP"})
      BY <2>1, FS_AddElement
    <2>3. IsFiniteSet(({"INDIVIDUAL"} \cup {"GROUP"}) \cup {"ALL"})
      BY <2>2, FS_AddElement
    <2>4. Scopes = ({"INDIVIDUAL"} \cup {"GROUP"}) \cup {"ALL"}
      BY DEF Scopes
    <2> QED BY <2>3, <2>4
  <1>2. IsFiniteSet(w.scopes \cap Scopes)
    BY <1>1, FS_Subset
  <1>3. PICK s : w.scopes \cap Scopes = {s}
    BY <1>2, FS_Singleton DEF OneScope
  <1> QED BY <1>3

\* A rule that is not malformed is looked up for those of whom it speaks.
LEMMA UserFound ==
  ASSUME UserWords, NEW r \in AllRules, ~malformed(r), NEW uid \in Nat, NEW gid \in Nat
  PROVE  r.user \in user_reqs(uid, gid) <=> Speaks(r.user, uid, gid)
  <1>1. /\ r.user \in WordSet /\ r.user.types = {} /\ "NONE" \notin r.user.scopes
        /\ OneScope(r.user)
    BY RuleType DEF UserWords, malformed
  <1>2. PICK s \in Scopes : r.user.scopes \cap Scopes = {s}
    BY <1>1, OneOfThree
  <1>3. r.user.scopes = {s}
    BY <1>1, <1>2 DEF WordSet
  <1>4. s = "ALL" => r.user.id = 0
    BY <1>1, <1>3 DEF OneScope
  <1>5. user_reqs(uid, gid) = {Word({}, {"ALL"}, 0), Word({}, {"INDIVIDUAL"}, uid),
                               Word({}, {"GROUP"}, gid)}
    BY DEF user_reqs, Or
  <1>6. /\ r.user = Word({}, {"ALL"}, 0) <=> s = "ALL"
        /\ r.user = Word({}, {"INDIVIDUAL"}, uid) <=> s = "INDIVIDUAL" /\ r.user.id = uid
        /\ r.user = Word({}, {"GROUP"}, gid) <=> s = "GROUP" /\ r.user.id = gid
    <2>1. ASSUME NEW x, NEW id
          PROVE  r.user = Word({}, {x}, id) <=> s = x /\ r.user.id = id
      <3>1. {s} = {x} <=> s = x
        OBVIOUS
      <3>2. r.user = Word({}, {x}, id)
              <=> r.user.types = {} /\ r.user.scopes = {x} /\ r.user.id = id
        BY <1>1 DEF WordSet, Word
      <3> QED BY <1>1, <1>3, <3>1, <3>2
    <2> QED BY <1>4, <2>1
  <1> QED BY <1>3, <1>5, <1>6 DEF Speaks

-----------------------------------------------------------------------------
(* The decision.                                                            *)

\* Some rule of S is looked up for the user and matches.
Allowed(S, uid, gid, o, op) ==
  \E r \in S : r.user \in user_reqs(uid, gid) /\ match_rules(r, o, op)

LEMMA AuthorizeSplits ==
  ASSUME NEW uid, NEW gid, NEW o, NEW op
  PROVE  authorize(uid, gid, o, op)
            <=> \/ Allowed(get_acl_rules(o), uid, gid, o, op)
                \/ Allowed(Held, uid, gid, o, op)
  BY DEF authorize, match_rules_wrapper, Allowed

LEMMA ApartWords ==
  /\ \A i, j : (Word({}, {"INDIVIDUAL"}, i) = Word({}, {"INDIVIDUAL"}, j)) <=> (i = j)
  /\ \A i, j : (Word({}, {"GROUP"}, i) = Word({}, {"GROUP"}, j)) <=> (i = j)
  /\ \A i, j : Word({}, {"INDIVIDUAL"}, i) # Word({}, {"GROUP"}, j)
  /\ \A i, j : Word({}, {"INDIVIDUAL"}, i) # Word({}, {"ALL"}, j)
  /\ \A i, j : Word({}, {"GROUP"}, i) # Word({}, {"ALL"}, j)
  <1>1. ASSUME NEW v, NEW x, NEW i, v = Word({}, {x}, i)
        PROVE  v.scopes = {x} /\ v.id = i
    BY <1>1 DEF Word
  <1>2. ASSUME NEW v, NEW x, NEW y, NEW i, NEW j,
               v = Word({}, {x}, i), v = Word({}, {y}, j)
        PROVE  x = y /\ i = j
    <2>1. v.scopes = {x} /\ v.id = i
      BY <1>1, <1>2
    <2>2. v.scopes = {y} /\ v.id = j
      BY <1>1, <1>2
    <2> QED BY <2>1, <2>2
  <1>3. "INDIVIDUAL" # "GROUP" /\ "INDIVIDUAL" # "ALL" /\ "GROUP" # "ALL"
    OBVIOUS
  <1>4. ASSUME NEW i, NEW j
        PROVE  /\ Word({}, {"INDIVIDUAL"}, i) = Word({}, {"INDIVIDUAL"}, j) => i = j
               /\ Word({}, {"GROUP"}, i) = Word({}, {"GROUP"}, j) => i = j
               /\ Word({}, {"INDIVIDUAL"}, i) # Word({}, {"GROUP"}, j)
               /\ Word({}, {"INDIVIDUAL"}, i) # Word({}, {"ALL"}, j)
               /\ Word({}, {"GROUP"}, i) # Word({}, {"ALL"}, j)
    <2>1. PICK v, g : v = Word({}, {"INDIVIDUAL"}, i) /\ g = Word({}, {"GROUP"}, i)
      OBVIOUS
    <2>2. v = Word({}, {"INDIVIDUAL"}, j) => i = j
      BY <1>2, <2>1
    <2>3. g = Word({}, {"GROUP"}, j) => i = j
      BY <1>2, <2>1
    <2>4. v # Word({}, {"GROUP"}, j)
      BY <1>2, <1>3, <2>1
    <2>5. v # Word({}, {"ALL"}, j)
      BY <1>2, <1>3, <2>1
    <2>6. g # Word({}, {"ALL"}, j)
      BY <1>2, <1>3, <2>1
    <2> QED BY <2>1, <2>2, <2>3, <2>4, <2>5, <2>6
  <1> QED BY <1>4

\* The rules made of the permissions of an object allow what these permit.
LEMMA PermissionsAllow ==
  ASSUME NEW uid \in Nat, NEW gid \in Nat, NEW o \in Objects, NEW op
  PROVE  Allowed(get_acl_rules(o), uid, gid, o, op) <=> Permitted(uid, gid, o, op)
  <1> DEFINE w == Word({o.type}, {"INDIVIDUAL"}, o.oid)
             a == [user |-> Word({}, {"INDIVIDUAL"}, o.uid), resource |-> w,
                   rights |-> o.owner]
             b == [user |-> Word({}, {"GROUP"}, o.gid), resource |-> w,
                   rights |-> o.group]
             c == [user |-> Word({}, {"ALL"}, 0), resource |-> w,
                   rights |-> o.other]
  <1>1. get_acl_rules(o) = {a, b, c}
    BY ObjectWords DEF get_acl_rules
  <1>2. user_reqs(uid, gid) = {Word({}, {"ALL"}, 0), Word({}, {"INDIVIDUAL"}, uid),
                               Word({}, {"GROUP"}, gid)}
    BY DEF user_reqs, Or
  <1>3. /\ a.user \in user_reqs(uid, gid) <=> o.uid = uid
        /\ b.user \in user_reqs(uid, gid) <=> o.gid = gid
        /\ c.user \in user_reqs(uid, gid)
    <2>1. PICK u, v, z : /\ u = Word({}, {"INDIVIDUAL"}, o.uid)
                         /\ v = Word({}, {"GROUP"}, o.gid)
                         /\ z = Word({}, {"ALL"}, 0)
      OBVIOUS
    <2>2. a.user = u /\ b.user = v /\ c.user = z
      BY <2>1
    <2> HIDE DEF a, b, c
    <2>3. PICK p, q : p = Word({}, {"INDIVIDUAL"}, uid) /\ q = Word({}, {"GROUP"}, gid)
      OBVIOUS
    <2>4. user_reqs(uid, gid) = {z, p, q}
      BY <1>2, <2>1, <2>3
    <2>5. u # z /\ u # q /\ (u = p <=> o.uid = uid)
      BY <2>1, <2>3, ApartWords
    <2>6. v # z /\ v # p /\ (v = q <=> o.gid = gid)
      BY <2>1, <2>3, ApartWords
    <2> QED BY <2>2, <2>4, <2>5, <2>6
  <1>4. ASSUME NEW r, r.resource = w
        PROVE  match_rules(r, o, op) <=> op \in r.rights
    <2>1. /\ o.type \in w.types /\ w.scopes = {"INDIVIDUAL"} /\ w.id = o.oid
      BY DEF Word
    <2> HIDE DEF w
    <2> QED BY <1>4, <2>1, MatchObject DEF Speaks
  <1>5. /\ match_rules(a, o, op) <=> op \in o.owner
        /\ match_rules(b, o, op) <=> op \in o.group
        /\ match_rules(c, o, op) <=> op \in o.other
    <2>1. a.resource = w /\ b.resource = w /\ c.resource = w
      OBVIOUS
    <2>2. a.rights = o.owner /\ b.rights = o.group /\ c.rights = o.other
      OBVIOUS
    <2> HIDE DEF a, b, c, w
    <2> QED BY <1>4, <2>1, <2>2
  <1> HIDE DEF a, b, c
  <1> QED BY <1>1, <1>3, <1>5 DEF Allowed, Permitted

\* Those of a request to create an object, and of one about none, allow nothing.
LEMMA NothingAllowed ==
  ASSUME NEW uid \in Nat, NEW gid \in Nat, NEW type
  PROVE  /\ LET o == CreateObject(uid, type)
            IN  /\ ~Allowed(get_acl_rules(o), uid, gid, o, "CREATE")
                /\ ~Permitted(uid, gid, o, "CREATE")
         /\ LET o == NoObject(type)
            IN  /\ ~Allowed(get_acl_rules(o), uid, gid, o, "MANAGE")
                /\ ~Permitted(uid, gid, o, "MANAGE")
  <1>1. ASSUME NEW o, NEW op, o.group = {}, o.other = {}, NEW r \in get_acl_rules(o),
               match_rules(r, o, op)
        PROVE  op \in o.owner /\ r.user = Or({}, "INDIVIDUAL", o.uid)
    <2>1. op \in r.rights
      BY <1>1 DEF match_rules
    <2> QED BY <1>1, <2>1 DEF get_acl_rules
  <1>2. PICK o : o = CreateObject(uid, type)
    OBVIOUS
  <1>3. /\ o.owner = {"USE", "MANAGE"} /\ o.group = {} /\ o.other = {} /\ o.uid = uid
        /\ o.oid = -1 /\ o.gid = -1
    BY <1>2 DEF CreateObject
  <1>4. ~Allowed(get_acl_rules(o), uid, gid, o, "CREATE")
    BY <1>1, <1>3 DEF Allowed
  <1>5. PICK n : n = NoObject(type)
    OBVIOUS
  <1>6. /\ n.owner = {"USE", "MANAGE"} /\ n.group = {} /\ n.other = {} /\ n.uid = -1
        /\ n.oid = -1 /\ n.gid = -1
    BY <1>5 DEF NoObject, CreateObject
  <1>7. Or({}, "INDIVIDUAL", -1) \notin user_reqs(uid, gid)
    <2>1. Or({}, "INDIVIDUAL", -1) = Ones /\ Ones.types # {}
      BY DEF Or, Ones, Word
    <2>2. \A u \in user_reqs(uid, gid) : u.types = {}
      BY DEF user_reqs, Or, Word
    <2> QED BY <2>1, <2>2
  <1>8. ~Allowed(get_acl_rules(n), uid, gid, n, "MANAGE")
    BY <1>1, <1>6, <1>7 DEF Allowed
  <1>9. ~Permitted(uid, gid, o, "CREATE") /\ ~Permitted(uid, gid, n, "MANAGE")
    BY <1>3, <1>6 DEF Permitted
  <1> QED BY <1>2, <1>4, <1>5, <1>8, <1>9

\* The rules of the index allow what a row of the table says.
RowGrants(uid, gid, o, op) ==
  \E oid \in RuleOids :
    /\ table[oid] # NoRule
    /\ op \in table[oid].rights /\ o.type \in table[oid].resource.types
    /\ Speaks(table[oid].user, uid, gid)
    /\ Speaks(table[oid].resource, o.oid, o.gid)

LEMMA HeldAllow ==
  ASSUME AccessInv, UserWords, NEW uid \in Nat, NEW gid \in Nat, NEW o, NEW op,
         \/ o \in Objects
         \/ o.oid = -1 /\ o.gid = -1
  PROVE  /\ RowGrants(uid, gid, o, op) => Allowed(Held, uid, gid, o, op)
         /\ ~fresh /\ Allowed(Held, uid, gid, o, op) => RowGrants(uid, gid, o, op)
  <1>1. ASSUME NEW r \in AllRules, ~malformed(r)
        PROVE  (r.user \in user_reqs(uid, gid) /\ match_rules(r, o, op))
                 <=> /\ op \in r.rights /\ o.type \in r.resource.types
                     /\ Speaks(r.user, uid, gid) /\ Speaks(r.resource, o.oid, o.gid)
    <2>1. match_rules(r, o, op)
            <=> /\ op \in r.rights /\ o.type \in r.resource.types
                /\ Speaks(r.resource, o.oid, o.gid)
      <3>1. CASE o \in Objects
        BY <3>1, MatchObject
      <3>2. CASE o.oid = -1 /\ o.gid = -1
        <4>1. r.resource.id \in Int /\ r.resource.id >= 0
          BY <1>1, RuleType DEF malformed, OneScope, WordSet
        <4>2. Speaks(r.resource, o.oid, o.gid) <=> "ALL" \in r.resource.scopes
          BY <3>2, <4>1 DEF Speaks
        <4> QED BY <3>2, <4>2, MatchNone
      <3> QED BY <3>1, <3>2
    <2> QED BY <1>1, <2>1, UserFound
  <1>2. \A r \in Held : r \in AllRules /\ ~malformed(r)
    BY DEF Held, AccessInv, IndexInv
  <1>3. ASSUME NEW oid \in RuleOids, table[oid] # NoRule
        PROVE  table[oid] \in Held
    <2>1. table[oid] \in AllRules /\ InTable(table, table[oid])
      BY <1>3 DEF AccessInv, TableInv, InTable
    <2> QED BY <2>1 DEF Held, AccessInv, IndexInv
  <1>4. ASSUME NEW r \in Held, ~fresh
        PROVE  \E oid \in RuleOids : table[oid] # NoRule /\ table[oid] = r
    <2>1. acl_rules[r] > 0 /\ r \in AllRules
      BY DEF Held
    <2>2. acl_rules[r] = IF InTable(table, r) THEN 1 ELSE 0
      BY <1>4, <2>1 DEF AccessInv, IndexInv
    <2>3. InTable(table, r)
      BY <2>1, <2>2
    <2> QED BY <2>1, <2>3, NoRuleApart DEF InTable
  <1>5. RowGrants(uid, gid, o, op) => Allowed(Held, uid, gid, o, op)
    BY <1>1, <1>2, <1>3 DEF RowGrants, Allowed
  <1>6. ASSUME ~fresh, Allowed(Held, uid, gid, o, op) PROVE RowGrants(uid, gid, o, op)
    <2>1. PICK r \in Held : r.user \in user_reqs(uid, gid) /\ match_rules(r, o, op)
      BY <1>6 DEF Allowed
    <2>2. PICK oid \in RuleOids : table[oid] # NoRule /\ table[oid] = r
      BY <1>4, <1>6
    <2> QED BY <1>1, <1>2, <2>1, <2>2 DEF RowGrants
  <1> QED BY <1>5, <1>6

LEMMA GrantedSplits ==
  ASSUME NEW uid, NEW gid, NEW o, NEW op
  PROVE  Granted(uid, gid, o, op)
            <=> Permitted(uid, gid, o, op) \/ RowGrants(uid, gid, o, op)
  BY DEF Granted, RowGrants

LEMMA AuthorizedAccess ==
  ASSUME AccessInv, UserWords
  PROVE  AuthorizedIsGranted
  <1> SUFFICES ASSUME NEW uid \in Users \ {0}, NEW gid \in Groups \ {0}
               PROVE
        /\ \A o \in Objects, op \in {"USE", "MANAGE"} :
            /\ Granted(uid, gid, o, op) => add_auth(uid, gid, o, op)
            /\ ~fresh /\ add_auth(uid, gid, o, op) => Granted(uid, gid, o, op)
        /\ \A type \in Types :
            /\ Granted(uid, gid, CreateObject(uid, type), "CREATE")
                => add_auth(uid, gid, CreateObject(uid, type), "CREATE")
            /\ ~fresh /\ add_auth(uid, gid, CreateObject(uid, type), "CREATE")
                => Granted(uid, gid, CreateObject(uid, type), "CREATE")
            /\ ~fresh /\ add_auth(uid, gid, NoObject(type), "MANAGE")
                => Granted(uid, gid, NoObject(type), "MANAGE")
    BY DEF AuthorizedIsGranted
  <1>1. uid \in Nat /\ gid \in Nat
    BY AccessAssumption
  <1>2. ASSUME NEW o, NEW op, o \in Objects \/ (o.oid = -1 /\ o.gid = -1),
               Allowed(get_acl_rules(o), uid, gid, o, op)
                   <=> Permitted(uid, gid, o, op)
        PROVE  /\ Granted(uid, gid, o, op) => add_auth(uid, gid, o, op)
               /\ ~fresh /\ add_auth(uid, gid, o, op) => Granted(uid, gid, o, op)
    <2>1. add_auth(uid, gid, o, op) <=> authorize(uid, gid, o, op)
      BY DEF add_auth
    <2>2. /\ RowGrants(uid, gid, o, op) => Allowed(Held, uid, gid, o, op)
          /\ ~fresh /\ Allowed(Held, uid, gid, o, op) => RowGrants(uid, gid, o, op)
      BY <1>1, <1>2, HeldAllow
    <2> QED BY <1>2, <2>1, <2>2, AuthorizeSplits, GrantedSplits
  <1>3. ASSUME NEW o \in Objects, NEW op
        PROVE  /\ Granted(uid, gid, o, op) => add_auth(uid, gid, o, op)
               /\ ~fresh /\ add_auth(uid, gid, o, op) => Granted(uid, gid, o, op)
    BY <1>1, <1>2, PermissionsAllow
  <1>4. ASSUME NEW type
        PROVE  /\ Granted(uid, gid, CreateObject(uid, type), "CREATE")
                    => add_auth(uid, gid, CreateObject(uid, type), "CREATE")
               /\ ~fresh /\ add_auth(uid, gid, CreateObject(uid, type), "CREATE")
                    => Granted(uid, gid, CreateObject(uid, type), "CREATE")
               /\ ~fresh /\ add_auth(uid, gid, NoObject(type), "MANAGE")
                    => Granted(uid, gid, NoObject(type), "MANAGE")
    <2>1. PICK o : o = CreateObject(uid, type)
      OBVIOUS
    <2>2. PICK n : n = NoObject(type)
      OBVIOUS
    <2>3. o.oid = -1 /\ o.gid = -1 /\ n.oid = -1 /\ n.gid = -1
      BY <2>1, <2>2 DEF CreateObject, NoObject
    <2>4. /\ Allowed(get_acl_rules(o), uid, gid, o, "CREATE")
                <=> Permitted(uid, gid, o, "CREATE")
          /\ Allowed(get_acl_rules(n), uid, gid, n, "MANAGE")
                <=> Permitted(uid, gid, n, "MANAGE")
      BY <1>1, <2>1, <2>2, NothingAllowed
    <2> QED BY <1>2, <2>1, <2>2, <2>3, <2>4
  <1> QED BY <1>3, <1>4

\* Whatever rules there are, with users as oneacl writes them: a request is
\* authorised exactly when a row of the table or the permissions of the object
\* grant it (a daemon that made the table itself may grant more, never less).
THEOREM AuthorizedCorrect ==
  ASSUME UserWords
  PROVE  Spec => []AuthorizedIsGranted
  <1>1. AccessInv => AuthorizedIsGranted
    BY AuthorizedAccess
  <1> QED BY <1>1, AccessCorrect, PTL

-----------------------------------------------------------------------------
(* The lists.                                                               *)

\* What the search for rules finds is what the decision on an object looks for.
LEMMA SearchFinds ==
  ASSUME NEW uid \in Nat, NEW gid \in Nat, NEW o \in Objects
  PROVE  LET s == reverse_search(uid, gid, o.type, "USE")
         IN  s.all \/ o.oid \in s.oids \/ o.gid \in s.gids
               <=> Allowed(Held, uid, gid, o, "USE")
  <1> DEFINE found == {r \in Found(uid, gid, o.type, "USE") :
                          o.type \in r.resource.types}
             all == \E r \in found : "ALL" \in r.resource.scopes
             In(scope) == {r.resource.id : r \in
                             {f \in found : scope \in f.resource.scopes}}
  <1>1. PICK s : s = reverse_search(uid, gid, o.type, "USE")
    OBVIOUS
  <1>2. s.all = all
    BY <1>1 DEF reverse_search
  <1>3. s.gids = IF all THEN {} ELSE In("GROUP")
    BY <1>1 DEF reverse_search
  <1>4. s.oids = IF all THEN {} ELSE In("INDIVIDUAL")
    BY <1>1 DEF reverse_search
  <1>5. (s.all \/ o.oid \in s.oids \/ o.gid \in s.gids)
          <=> \E r \in found : Speaks(r.resource, o.oid, o.gid)
    <2>1. CASE all
      BY <2>1, <1>2 DEF Speaks
    <2>2. CASE ~all
      <3>1. o.oid \in s.oids
              <=> \E r \in found : /\ "INDIVIDUAL" \in r.resource.scopes
                                   /\ r.resource.id = o.oid
        BY <1>4, <2>2
      <3>2. o.gid \in s.gids
              <=> \E r \in found : "GROUP" \in r.resource.scopes /\ r.resource.id = o.gid
        BY <1>3, <2>2
      <3> HIDE DEF found
      <3> QED BY <1>2, <2>2, <3>1, <3>2 DEF Speaks
    <2> QED BY <2>1, <2>2
  <1>6. Allowed(Held, uid, gid, o, "USE")
          <=> \E r \in found : Speaks(r.resource, o.oid, o.gid)
    BY MatchObject DEF Allowed, Found
  <1> QED BY <1>1, <1>5, <1>6

LEMMA ListedAccess == ListedIsUsable
  <1> SUFFICES ASSUME NEW uid \in Users \ {0}, NEW gid \in Groups \ {0},
                      NEW o \in Objects
               PROVE  LET usable == o.uid = uid \/ authorize(uid, gid, o, "USE")
                      IN  /\ \A f \in Filters : Listed(uid, gid, f, o) => usable
                          /\ usable => /\ Listed(uid, gid, ALL, o)
                                       /\ Listed(uid, gid, o.uid, o)
    BY DEF ListedIsUsable
  <1> DEFINE usable == o.uid = uid \/ authorize(uid, gid, o, "USE")
             my_group == o.gid = gid /\ "USE" \in o.group
  <1>1. /\ uid \in Nat /\ gid \in Nat /\ o.uid \in Nat /\ o.uid \in Users
        /\ uid # 0 /\ gid # 0
    BY AccessAssumption DEF Objects
  <1>2. PICK s : s = reverse_search(uid, gid, o.type, "USE")
    OBVIOUS
  <1> DEFINE shared == \/ my_group \/ "USE" \in o.other
                       \/ o.oid \in s.oids \/ o.gid \in s.gids
  <1>3. authorize(uid, gid, o, "USE")
          <=> \/ Permitted(uid, gid, o, "USE")
              \/ s.all \/ o.oid \in s.oids \/ o.gid \in s.gids
    <2>1. Allowed(Held, uid, gid, o, "USE")
            <=> s.all \/ o.oid \in s.oids \/ o.gid \in s.gids
      BY <1>1, <1>2, SearchFinds
    <2>2. Allowed(get_acl_rules(o), uid, gid, o, "USE")
            <=> Permitted(uid, gid, o, "USE")
      BY <1>1, PermissionsAllow
    <2> QED BY <2>1, <2>2, AuthorizeSplits
  <1>4. usable <=> o.uid = uid \/ s.all \/ shared
    BY <1>3 DEF Permitted
  <1>5. /\ Listed(uid, gid, MINE, o) <=> o.uid = uid
        /\ Listed(uid, gid, MINE_GROUP, o) <=> o.uid = uid \/ my_group
        /\ Listed(uid, gid, ALL, o) <=> s.all \/ o.uid = uid \/ shared
    BY <1>1, <1>2 DEF Listed, MINE, MINE_GROUP, ALL
  <1>6. ASSUME NEW f \in Users
        PROVE  Listed(uid, gid, f, o)
                 <=> o.uid = f /\ (f = uid \/ s.all \/ shared)
    <2>1. f \in Nat
      BY AccessAssumption
    <2> QED BY <1>1, <1>2, <2>1 DEF Listed, MINE, MINE_GROUP, ALL
  <1> HIDE DEF usable, shared, my_group
  <1>7. ASSUME NEW f \in Filters, Listed(uid, gid, f, o) PROVE usable
    <2>1. CASE f \in Users
      BY <1>4, <1>6, <1>7, <2>1
    <2>2. CASE f \in {MINE, ALL, MINE_GROUP}
      BY <1>4, <1>5, <1>7, <2>2 DEF shared
    <2> QED BY <2>1, <2>2 DEF Filters
  <1>8. usable => Listed(uid, gid, ALL, o) /\ Listed(uid, gid, o.uid, o)
    BY <1>1, <1>4, <1>5, <1>6
  <1> QED BY <1>7, <1>8 DEF usable

\* In every state, whatever rules there are: a list shows a user only its own
\* objects and those it may use, and the whole list shows all of them.  The search
\* for rules, the filter in SQL and the decision on one object agree.
THEOREM ListedCorrect == Spec => []ListedIsUsable
  BY ListedAccess, PTL

=============================================================================
