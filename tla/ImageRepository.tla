-------------------------- MODULE ImageRepository --------------------------
(***************************************************************************)
(* The image repository: the image pool, the Image Manager with its        *)
(* driver, and the disks of Virtual Machines that use or save images.      *)
(*                                                                         *)
(* An operation on an image runs while the image is locked, so it is one   *)
(* step.  What takes several images (the disks of a VM) or locks an image  *)
(* twice (a registration, "save as") takes several steps, and others may   *)
(* come between.  The driver copies, moves, makes and removes files in the *)
(* background and answers in any order.                                    *)
(***************************************************************************)
EXTENDS Integers, Sequences, FiniteSets

CONSTANTS
    VMs,          \* Identifiers of Virtual Machines
    NoVm,         \* Not a VM
    Templates,    \* The image templates users register
    Types,        \* The types users give to images with chtype
    Wants,        \* The disks VMs ask for: images, NoImage or Swap
    MaxImages,    \* Bound on the images
    MaxDisks,     \* Bound on the disks of a VM
    Budgets       \* Bounds on the edits of users (enable, persistent, chmod,
                  \* chtype) and on faults (crashes, losses of the driver)

Images == 0..(MaxImages - 1)
NoImage == -1       \* A disk that is not in the repository, or is not saved
Swap == -2          \* A swap disk

ImageType == {"OS", "CDROM", "DATABLOCK"}

\* "NONE": no image has this identifier.
ImageState == {"NONE", "READY", "USED", "DISABLED", "LOCKED", "ERROR"}

\* Where the file of an image is: nowhere yet, to be saved from a disk of a VM
\* (SOURCE = "-"), or in the repository.
Source == {"", "-", "repository"}

\* The template has a PATH to copy the file from; PERSISTENT and the permission
\* for others are 1 or 0.
Path == {"", "path"}
Bit == {0, 1}

Template == [type : ImageType, path : Path, source : Source,
             sized : BOOLEAN, persistent : Bit]

\* The operations of the driver.
Actions == {"CP", "MV", "MKFS", "RM"}

ASSUME RepositoryAssumption ==
    /\ IsFiniteSet(VMs) /\ NoVm \notin VMs
    /\ Templates \subseteq Template /\ Types \subseteq ImageType
    /\ Wants \subseteq Seq(Images \cup {NoImage, Swap})
    /\ \A want \in Wants : Len(want) <= MaxDisks
    /\ MaxImages \in Nat \ {0} /\ MaxDisks \in Nat \ {0}
    /\ Budgets \subseteq [edits : Nat, faults : Nat]

VARIABLES
    img,       \* The image pool
    next,      \* The identifier of the next image
    vm,        \* The VMs: their phase, disks and the disk they are at
    ops,       \* Operations on each image the driver has not answered
    request,   \* The request that allocates an image, and its next step
    driver,    \* TRUE iff the Image Manager has its driver
    daemon,    \* "up" or "dead"
    left,      \* Images whose mutex is never unlocked
    budget,    \* What is left of the bounds
    faulty,    \* TRUE iff the daemon died or lost the driver
    removed    \* TRUE iff an image was removed while a VM had it

vars == <<img, next, vm, ops, request, driver, daemon, left, budget, faulty,
          removed>>

NoneImage == [state |-> "NONE", type |-> "OS", running |-> 0,
              persistent_img |-> 0, public |-> 0, source |-> "", path |-> ""]
NoneVm == [phase |-> "none", want |-> <<>>, disks |-> <<>>, at |-> 1,
           status |-> "new"]
GoneVm == [NoneVm EXCEPT !.phase = "gone"]
NoOps == [i \in Images |-> [a \in Actions |-> 0]]
Idle == [step |-> "idle", iid |-> NoImage, vm |-> NoVm, disk |-> 0]

Init ==
    /\ img = [i \in Images |-> NoneImage]
    /\ next = 0
    /\ vm = [v \in VMs |-> NoneVm]
    /\ ops = NoOps
    /\ request = Idle
    /\ driver = TRUE /\ daemon = "up" /\ left = {}
    /\ budget \in Budgets /\ faulty = FALSE /\ removed = FALSE

Exists(i) == i \in Images /\ img[i].state # "NONE"
Free(i)   == i \notin left          \* get(i,true) returns
Send(action, i) ==
    ops' = IF driver THEN [ops EXCEPT ![i][action] = @ + 1] ELSE ops

\* Disk d of VM v holds image i: it was acquired and not yet released.
Held(v, d, i) ==
    /\ d \in DOMAIN vm[v].disks /\ vm[v].disks[d].image = i
    /\ \/ vm[v].phase \in {"acquire", "live"}
       \/ vm[v].phase \in {"rollback", "release"} /\ d >= vm[v].at
       \/ vm[v].phase = "saving" /\ d > vm[v].at

Holders(i) == {h \in VMs \X (1..MaxDisks) : Held(h[1], h[2], i)}

-----------------------------------------------------------------------------
(* Registration: ImagePool::allocate, Image::insert and register_image.    *)

\* ImageTemplate::check: the template has a restricted attribute, SOURCE.
check(t) == t.source # ""

\* The attributes insert asks for.  A user outside of group oneadmin may give no
\* restricted attribute.
ValidTemplate(t, admin) ==
    /\ check(t) => admin
    /\ IF t.source = "" /\ t.path = "" THEN t.type = "DATABLOCK" /\ t.sized
                                       ELSE t.source = "" \/ t.path = ""

\* The image is in the pool, LOCKED until the driver has its file.
insert(t, r) ==
    /\ next < MaxImages
    /\ img' = [img EXCEPT ![next] =
                  [state |-> "LOCKED", type |-> t.type, running |-> 0,
                   persistent_img |-> t.persistent, public |-> 0,
                   source |-> t.source, path |-> t.path]]
    /\ next' = next + 1
    /\ request' = [r EXCEPT !.step = "register", !.iid = next]

allocate(t, admin) ==
    /\ daemon = "up" /\ request = Idle
    /\ ValidTemplate(t, admin)
    /\ insert(t, Idle)
    /\ UNCHANGED <<vm, ops, driver, daemon, left, budget, faulty, removed>>

\* The step of a request after a registration: a request of an image ends, one
\* of "save as" goes on to the VM if the registration did not fail.
AfterRegister(ok) ==
    request' = IF request.vm = NoVm \/ ~ok THEN Idle
               ELSE [request EXCEPT !.step = "save"]

\* Without a driver the registration fails and the image stays LOCKED.
register_image ==
    LET i == request.iid IN
    /\ daemon = "up" /\ request.step = "register" /\ Free(i)
    /\ IF ~driver \/ ~Exists(i)
       THEN AfterRegister(FALSE) /\ UNCHANGED <<img, ops>>
       ELSE /\ AfterRegister(TRUE)
            /\ \/ /\ img[i].path # ""
                  /\ Send("CP", i) /\ UNCHANGED img
               \/ /\ img[i].path = "" /\ img[i].type = "DATABLOCK"
                  /\ Send("MKFS", i) /\ UNCHANGED img
               \/ /\ img[i].path = "" /\ img[i].type # "DATABLOCK"
                  /\ img' = IF img[i].source = "-" THEN img
                            ELSE [img EXCEPT ![i].state = "READY"]
                  /\ UNCHANGED ops
    /\ UNCHANGED <<next, vm, driver, daemon, left, budget, faulty, removed>>

-----------------------------------------------------------------------------
(* The answers of the driver: ImageManagerDriver::protocol.                *)

\* PoolSQL::drop of an image.
drop(i) == img' = [img EXCEPT ![i] = NoneImage]

\* The image after the answer to another action than RM: CP and MKFS give it its
\* source; MV only if it had none yet.
Answered(image, action, ok) ==
    [image EXCEPT !.state = IF ok THEN "READY" ELSE "ERROR",
                  !.source = IF ok /\ (action # "MV" \/ @ = "-")
                             THEN "repository" ELSE @]

Answer(i, action, ok) ==
    /\ daemon = "up" /\ ops[i][action] > 0 /\ Free(i)
    /\ ops' = [ops EXCEPT ![i][action] = @ - 1]
    /\ IF ~Exists(i) THEN UNCHANGED <<img, removed>>
       ELSE IF action = "RM"
            THEN drop(i) /\ removed' = (removed \/ Holders(i) # {})
            ELSE /\ img' = [img EXCEPT ![i] = Answered(@, action, ok)]
                 /\ UNCHANGED removed
    /\ UNCHANGED <<next, vm, request, driver, daemon, left, budget, faulty>>

protocol ==
    \E i \in Images, action \in Actions, ok \in BOOLEAN : Answer(i, action, ok)

-----------------------------------------------------------------------------
(* Requests on an image.                                                   *)

Edit(i) ==
    /\ daemon = "up" /\ budget.edits > 0 /\ Exists(i) /\ Free(i)
    /\ budget' = [budget EXCEPT !.edits = @ - 1]
    /\ UNCHANGED <<next, vm, ops, request, driver, daemon, left, faulty,
                   removed>>

enable_image(i, to_enable) ==
    /\ Edit(i)
    /\ img[i].state \in {"ERROR", IF to_enable THEN "DISABLED" ELSE "READY"}
    /\ img' = [img EXCEPT ![i].state =
                  IF to_enable THEN "READY" ELSE "DISABLED"]

persistent(i, persis) ==
    /\ Edit(i)
    /\ img[i].running = 0
    /\ persis = 1 => img[i].public = 0
    /\ img' = [img EXCEPT ![i].persistent_img = persis]

set_permissions(i, public) ==
    /\ Edit(i)
    /\ ~(img[i].persistent_img = 1 /\ public = 1)
    /\ img' = [img EXCEPT ![i].public = public]

set_type(i, type) == Edit(i) /\ img' = [img EXCEPT ![i].type = type]

\* An image with a file is removed when the driver answers, and keeps its state
\* until then.  Without a driver the request returns with the image locked.
delete_image(i) ==
    /\ daemon = "up" /\ Exists(i) /\ Free(i)
    /\ img[i].state # "USED" /\ (img[i].state = "READY" => img[i].running = 0)
    /\ \/ ~driver /\ left' = left \cup {i} /\ UNCHANGED <<img, ops>>
       \/ driver /\ img[i].source = "" /\ drop(i) /\ UNCHANGED <<ops, left>>
       \/ /\ driver /\ img[i].source # ""
          /\ ops[i]["RM"] = 0   \* Bound: once
          /\ Send("RM", i) /\ UNCHANGED <<img, left>>
    /\ UNCHANGED <<next, vm, request, driver, daemon, budget, faulty, removed>>

-----------------------------------------------------------------------------
(* The disks of a VM: get_disk_images and release_disk_images.             *)

\* Mutant: a persistent image in use is given to a second disk.
CanAcquire_Shared(i) == Exists(i) /\ img[i].state \in {"READY", "USED"}

CanAcquire(i) ==
    /\ Exists(i)
    /\ \/ img[i].state = "READY"
       \/ img[i].state = "USED" /\ img[i].persistent_img = 0

Acquired(image) == [image EXCEPT !.running = @ + 1, !.state = "USED"]
acquire_image(i) == img' = [img EXCEPT ![i] = Acquired(@)]

Count(disks, type) == Cardinality({d \in DOMAIN disks : disks[d].type = type})
MaxOfType == [OS |-> 1, CDROM |-> 1, DATABLOCK |-> 10]

\* Mutant: the first datablock takes the letter of the swap disk.
Letter_D(disks, type) ==
    CASE type = "OS" -> 1 [] type = "CDROM" -> 3 [] type = "SWAP" -> 4
      [] type = "DATABLOCK" -> 4 + Count(disks, "DATABLOCK")
      [] OTHER -> 0

\* TARGET of a disk that names none, as the number of its letter: a for the OS,
\* c for a CD (b is the context's), d for swap, from e on for datablocks.
Letter(disks, type) ==
    CASE type = "OS" -> 1 [] type = "CDROM" -> 3 [] type = "SWAP" -> 4
      [] type = "DATABLOCK" -> 5 + Count(disks, "DATABLOCK")
      [] OTHER -> 0

\* The attributes of a DISK: Image::disk_attribute.
DiskOf(v, w, type, persis) ==
    [image |-> IF w \in Images THEN w ELSE NoImage, type |-> type,
     persistent |-> persis, target |-> Letter(vm[v].disks, type),
     save_as |-> NoImage]

\* VM r with one more disk.
AddDisk(r, disk, phase) ==
    [r EXCEPT !.disks = Append(@, disk), !.want = Tail(@), !.phase = phase]

create(v, want) ==
    /\ daemon = "up" /\ vm[v].phase = "none"
    /\ vm' = [vm EXCEPT ![v] = [@ EXCEPT !.phase = "acquire", !.want = want]]
    /\ UNCHANGED <<img, next, ops, request, driver, daemon, left, budget,
                   faulty, removed>>

\* One round of the loop of get_disk_images.
disk_attribute(v) ==
    LET w == Head(vm[v].want)
        type == IF w = Swap THEN "SWAP" ELSE IF w = NoImage THEN "FS"
                ELSE img[w].type
        disk == DiskOf(v, w, type,
                       IF w \in Images THEN img[w].persistent_img ELSE 0)
        Add(phase) == vm' = [vm EXCEPT ![v] = AddDisk(@, disk, phase)]
    IN
    /\ daemon = "up" /\ vm[v].phase = "acquire" /\ vm[v].want # <<>>
    /\ \/ w \notin Images /\ Add("acquire") /\ UNCHANGED img
       \/ /\ w \in Images /\ Free(w) /\ ~CanAcquire(w)
          /\ vm' = [vm EXCEPT ![v].phase = "rollback"] /\ UNCHANGED img
       \/ /\ w \in Images /\ Free(w) /\ CanAcquire(w)
          /\ acquire_image(w)
          /\ Add(IF Count(vm[v].disks, type) < MaxOfType[type]
                 THEN "acquire" ELSE "rollback")
    /\ UNCHANGED <<next, ops, request, driver, daemon, left, budget, faulty,
                   removed>>

\* The VM is in the database, or something after get_disk_images failed and
\* insert releases the disks of a VM without history.
EndInsert(v) ==
    /\ daemon = "up" /\ vm[v].phase = "acquire" /\ vm[v].want = <<>>
    /\ \E phase \in {"live", "release"} :
        vm' = [vm EXCEPT ![v].phase = phase]
    /\ UNCHANGED <<img, next, ops, request, driver, daemon, left, budget,
                   faulty, removed>>

\* A history record gives the VM a directory; a VM may fail; then it ends.
Live(v, new) ==
    /\ daemon = "up" /\ vm[v].phase = "live"
    /\ vm' = [vm EXCEPT ![v] = new]
    /\ UNCHANGED <<img, next, ops, request, driver, daemon, left, budget,
                   faulty, removed>>

Deploy(v) == /\ vm[v].status = "new"
             /\ Live(v, [vm[v] EXCEPT !.status = "stored"])
Fail(v)   == /\ vm[v].status = "stored"
             /\ Live(v, [vm[v] EXCEPT !.status = "failed"])
Done(v)   == Live(v, [vm[v] EXCEPT !.phase = "release"])
HasPath(v) == vm[v].status # "new"

\* Mutant: an image released by one of its VMs is READY.
ReleasedState_Ready(image) == "READY"

ReleasedState(image) == IF image.running = 1 THEN "READY" ELSE "USED"
Released(image, state) == [image EXCEPT !.running = @ - 1, !.state = state]

\* release_image: the image that is released, and the operations of the driver.
\* A persistent image takes the disk's file back, if the disk has a path.
release_image(i, has_path) ==
    IF img[i].state # "USED" THEN UNCHANGED <<img, ops>>
    ELSE IF img[i].persistent_img = 1 /\ has_path
         THEN /\ img' = [img EXCEPT ![i] = Released(@, "LOCKED")]
              /\ Send("MV", i)
         ELSE /\ img' = [img EXCEPT ![i] = Released(@, ReleasedState(@))]
              /\ UNCHANGED ops

\* TRUE iff release_image goes on to save the disk to another image.
ThenSaves(i, has_path) ==
    img[i].state = "USED" /\ ~(img[i].persistent_img = 1 /\ has_path)

\* What comes after a disk: the next one, or the end.
NextDisk(r) ==
    IF r.at < Len(r.disks) THEN [r EXCEPT !.at = @ + 1, !.phase = "release"]
    ELSE GoneVm

ReleaseDisk(v) ==
    LET d == vm[v].disks[vm[v].at] IN
    /\ daemon = "up" /\ vm[v].phase = "release" /\ vm[v].disks # <<>>
    /\ d.image # NoImage => Free(d.image)
    /\ IF d.image # NoImage /\ Exists(d.image)
       THEN /\ release_image(d.image, HasPath(v))
            /\ vm' = [vm EXCEPT ![v] =
                  IF d.save_as # NoImage /\ ThenSaves(d.image, HasPath(v))
                  THEN [@ EXCEPT !.phase = "saving"] ELSE NextDisk(@)]
       ELSE /\ vm' = [vm EXCEPT ![v] =
                  IF d.save_as # NoImage /\ d.image = NoImage
                  THEN [@ EXCEPT !.phase = "saving"] ELSE NextDisk(@)]
            /\ UNCHANGED <<img, ops>>
    /\ UNCHANGED <<next, request, driver, daemon, left, budget, faulty,
                   removed>>

NextRollback(r) ==
    IF r.at < Len(r.disks) THEN [r EXCEPT !.at = @ + 1] ELSE GoneVm

\* The rollback of get_disk_images: no file is moved.
RollbackDisk(v) ==
    LET i == vm[v].disks[vm[v].at].image IN
    /\ daemon = "up" /\ vm[v].phase = "rollback" /\ vm[v].disks # <<>>
    /\ i # NoImage => Free(i)
    /\ IF Exists(i) THEN release_image(i, FALSE) ELSE UNCHANGED <<img, ops>>
    /\ vm' = [vm EXCEPT ![v] = NextRollback(@)]
    /\ UNCHANGED <<next, request, driver, daemon, left, budget, faulty,
                   removed>>

\* A VM with no disk to give back.
NothingToRelease(v) ==
    /\ daemon = "up" /\ vm[v].phase \in {"rollback", "release"}
    /\ vm[v].disks = <<>>
    /\ vm' = [vm EXCEPT ![v] = GoneVm]
    /\ UNCHANGED <<img, next, ops, request, driver, daemon, left, budget,
                   faulty, removed>>

\* disk_to_image and the end of release_image: move the disk to the image it is
\* saved to.  An image that is no longer there is unlocked through a null
\* pointer, and the daemon dies.
disk_to_image(v) ==
    LET i == vm[v].disks[vm[v].at].save_as IN
    /\ daemon = "up" /\ vm[v].phase = "saving" /\ Free(i)
    /\ IF Exists(i)
       THEN /\ Send("MV", i)
            /\ vm' = [vm EXCEPT ![v] = NextDisk(@)]
            /\ UNCHANGED <<daemon, faulty>>
       ELSE /\ daemon' = "dead" /\ faulty' = TRUE /\ UNCHANGED <<ops, vm>>
    /\ UNCHANGED <<img, next, request, driver, left, budget, removed>>

-----------------------------------------------------------------------------
(* "Save as": VirtualMachineSaveDisk.                                      *)

\* The image is allocated first, with SOURCE = "-" and the rights of the user:
\* only oneadmin's group can.
SaveDisk(v, d, type) ==
    LET t == [type |-> type, path |-> "", source |-> "-",
              sized |-> FALSE, persistent |-> 0] IN
    /\ daemon = "up" /\ request = Idle
    /\ vm[v].phase \in {"live", "release", "saving"}
    /\ \E admin \in BOOLEAN : ValidTemplate(t, admin)
    /\ insert(t, [Idle EXCEPT !.vm = v, !.disk = d])
    /\ UNCHANGED <<vm, ops, driver, daemon, left, budget, faulty, removed>>

\* VirtualMachine::save_disk.
MaySave(v, d) ==
    /\ vm[v].phase = "live" /\ vm[v].status # "failed"
    /\ d \in DOMAIN vm[v].disks
    /\ vm[v].disks[d].save_as = NoImage /\ vm[v].disks[d].persistent = 0

\* The record of a VM whose disk d will be saved to image i.
SavedAs(r, d, i) ==
    LET disk == [r.disks[d] EXCEPT !.save_as = i] IN
    [r EXCEPT !.disks = [r.disks EXCEPT ![d] = disk]]

\* Mutant: the image of a disk that cannot be saved is not dropped.
save_disk_Keep ==
    LET v == request.vm IN
    /\ daemon = "up" /\ request.step = "save"
    /\ vm[v].phase \in {"live", "gone"}
    /\ vm' = IF MaySave(v, request.disk)
             THEN [vm EXCEPT ![v] = SavedAs(@, request.disk, request.iid)]
             ELSE vm
    /\ request' = Idle
    /\ UNCHANGED <<img, next, ops, driver, daemon, left, budget, faulty,
                   removed>>

\* The VM is locked: while it releases its disks the request waits.  When the
\* disk cannot be saved the new image is dropped.
save_disk ==
    LET v == request.vm  i == request.iid IN
    /\ daemon = "up" /\ request.step = "save"
    /\ vm[v].phase \in {"live", "gone"}
    /\ \/ /\ MaySave(v, request.disk)
          /\ vm' = [vm EXCEPT ![v] = SavedAs(@, request.disk, i)]
          /\ UNCHANGED img
       \/ /\ ~MaySave(v, request.disk) /\ Free(i)
          /\ img' = [img EXCEPT ![i] = NoneImage]
          /\ UNCHANGED vm
    /\ request' = Idle
    /\ UNCHANGED <<next, ops, driver, daemon, left, budget, faulty, removed>>

-----------------------------------------------------------------------------
(* Faults.                                                                 *)

\* The driver dies.  MadManager starts it again, without its operations, or
\* forgets it when it does not start.
DriverLost ==
    /\ driver /\ daemon = "up" /\ budget.faults > 0
    /\ driver' \in BOOLEAN /\ ops' = NoOps
    /\ budget' = [budget EXCEPT !.faults = @ - 1] /\ faulty' = TRUE
    /\ UNCHANGED <<img, next, vm, request, daemon, left, removed>>

Crash ==
    /\ daemon = "up" /\ budget.faults > 0
    /\ daemon' = "dead" /\ faulty' = TRUE
    /\ budget' = [budget EXCEPT !.faults = @ - 1]
    /\ UNCHANGED <<img, next, vm, ops, request, driver, left, removed>>

\* The driver is loaded when the Image Manager starts.
load_mads == driver' = TRUE /\ ops' = NoOps

\* A VM whose disks were being released is DONE in the database, one that was
\* being inserted is not there: neither gives its images back.  The driver
\* starts again without its operations (recover does nothing).
Restart ==
    /\ daemon = "dead"
    /\ daemon' = "up" /\ left' = {} /\ request' = Idle
    /\ load_mads
    /\ vm' = [v \in VMs |-> IF vm[v].phase \in {"none", "live", "gone"}
                            THEN vm[v] ELSE GoneVm]
    /\ UNCHANGED <<img, next, budget, faulty, removed>>

-----------------------------------------------------------------------------
ImageRequests ==
    \/ \E t \in Templates, admin \in BOOLEAN : allocate(t, admin)
    \/ register_image
    \/ \E i \in Images :
        \/ delete_image(i)
        \/ \E to_enable \in BOOLEAN : enable_image(i, to_enable)
        \/ \E b \in Bit : persistent(i, b) \/ set_permissions(i, b)
        \/ \E type \in Types : set_type(i, type)

VmSteps ==
    \/ \E v \in VMs :
        \/ \E want \in Wants : create(v, want)
        \/ disk_attribute(v) \/ EndInsert(v) \/ Deploy(v) \/ Fail(v) \/ Done(v)
        \/ ReleaseDisk(v) \/ RollbackDisk(v) \/ NothingToRelease(v)
        \/ disk_to_image(v)
        \/ \E d \in 1..MaxDisks, type \in Types : SaveDisk(v, d, type)
    \/ save_disk

Faults == DriverLost \/ Crash \/ Restart

Next == ImageRequests \/ protocol \/ VmSteps \/ Faults
Spec == Init /\ [][Next]_vars

-----------------------------------------------------------------------------
\* Every disk that has an image is counted in it: an image is never READY (so
\* delete_image, enable_image and persistent refuse it) under a VM that has it,
\* however often the daemon was killed.  While it was not, the count is exact,
\* through rollbacks of half acquired disks and releases of several VMs.  (An
\* image that was acquired after delete_image asked the driver to remove it is
\* removed under its VM when the answer comes.)
UseIsCounted ==
    \A i \in Images : Exists(i) =>
        LET n == Cardinality(Holders(i)) IN
        /\ img[i].running >= n
        /\ n > 0 => img[i].state = "USED"
        /\ ~faulty => /\ img[i].running = n
                      /\ n = 0 => img[i].state # "USED"

\* The file of a persistent image is the disk of at most one VM and nobody but
\* its owner may use it, whatever is published, made persistent or acquired.
PersistentIsPrivate ==
    \A i \in Images : Exists(i) /\ img[i].persistent_img = 1 =>
        img[i].public = 0 /\ Cardinality(Holders(i)) <= 1

\* An image is LOCKED while the driver works on it, while its registration
\* goes on or while a VM will save a disk to it: no other image stays LOCKED.
\* (An image removed under its VM is not released, and then the disk is not
\* saved; a crash or a lost driver leaves images LOCKED for ever.)
LockedIsBusy ==
    ~faulty /\ ~removed => \A i \in Images : img[i].state = "LOCKED" =>
        \/ \E action \in {"CP", "MV", "MKFS"} : ops[i][action] > 0
        \/ request.iid = i
        \/ \E v \in VMs : \E d \in DOMAIN vm[v].disks :
            vm[v].disks[d].save_as = i

\* Two disks of a VM that name no target have different ones, except two swap
\* disks: at most one OS and one CD, and the letters of datablocks are theirs.
TargetsDiffer ==
    \A v \in VMs : vm[v].phase = "live" =>
        \A d, e \in DOMAIN vm[v].disks :
            LET a == vm[v].disks[d]  b == vm[v].disks[e] IN
            d # e /\ a.target # 0 /\ a.target = b.target => a.type = "SWAP"
=============================================================================
