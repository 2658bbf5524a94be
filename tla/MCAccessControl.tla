-------------------------- MODULE MCAccessControl --------------------------
(***************************************************************************)
(* Access control lists on small instances.                                *)
(***************************************************************************)
EXTENDS AccessControl

R(uscope, uid, types, scope, id, rights) ==
    [user |-> Word({}, uscope, uid), resource |-> Word(types, scope, id),
     rights |-> rights]

MCDefault == <<R({"GROUP"}, 1, {"VM", "NET", "IMAGE", "TEMPLATE"}, {"ALL"}, 0,
                {"CREATE"}),
               R({"GROUP"}, 1, {"HOST"}, {"ALL"}, 0, {"MANAGE"})>>

\* Rules for a user, a group and all; for an object, a group and all objects;
\* two of them are malformed.
MCAsked == {R({"INDIVIDUAL"}, 2, {"VM"}, {"INDIVIDUAL"}, 1, {"USE", "MANAGE"}),
            R({"GROUP"}, 1, {"VM", "HOST"}, {"GROUP"}, 2, {"USE"}),
            R({"ALL"}, 0, {"HOST"}, {"ALL"}, 0, {"USE"}),
            R({"ALL"}, 2, {"VM"}, {"ALL"}, 0, {"MANAGE"}),
            R({"GROUP"}, 2, {"VM"}, {"GROUP", "ALL"}, 0, {"USE"})}
=============================================================================
