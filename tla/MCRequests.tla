----------------------------- MODULE MCRequests -----------------------------
(***************************************************************************)
(* Requests on small instances.                                            *)
(***************************************************************************)
EXTENDS Requests, TLC

Mode(om, oa, gm, ou) ==
    [b \in Bits |-> CASE b = "owner_m" -> om [] b = "owner_a" -> oa
                      [] b = "group_m" -> gm [] b = "other_u" -> ou]

\* Give and take the right to administer; all bits; the group; the others.
MCModes == {Mode(1, 1, 1, 0), Mode(1, 0, 1, 0), Mode(-1, -1, 0, -1),
            Mode(-1, -1, -1, 1)}

MCDirectory == {<<"guest", "a">>}

MCScopes == {{"UserAllocate", "UserDelete", "UserChown", "GroupAllocate",
              "GroupDelete"},
             {"ChangePassword", "ChangeAuth"},
             {"Chmod", "Chown", "Delete"}}

Symmetry == Permutations(Threads)
=============================================================================
