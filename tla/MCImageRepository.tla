------------------------- MODULE MCImageRepository -------------------------
(***************************************************************************)
(* The image repository on small instances.                                *)
(***************************************************************************)
EXTENDS ImageRepository, TLC

T(type, path, source, sized, persis) ==
    [type |-> type, path |-> path, source |-> source, sized |-> sized,
     persistent |-> persis]

\* An image that is copied, one with a SOURCE, and a datablock to make.
MCTemplates == {T("OS", "path", "", FALSE, 0),
                T("OS", "", "repository", FALSE, 1),
                T("DATABLOCK", "", "", TRUE, 0)}

\* Two images, one image twice, and swap with an image.
MCWants == {<<0, 1>>, <<0, 0>>, <<Swap, 0>>}

\* Users edit images, or something fails.
MCBudgets == {[edits |-> 1, faults |-> 0], [edits |-> 0, faults |-> 1]}

SymmetricVMs == Permutations(VMs)
=============================================================================
