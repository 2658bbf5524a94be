----------------------- MODULE ImageRepositoryProofs -----------------------
(***************************************************************************)
(* The use of images by VMs: proved for any images, VMs, disks and         *)
(* requests.                                                               *)
(***************************************************************************)
EXTENDS ImageRepository, FiniteSetTheorems, TLAPS

\* Templates have no SOURCE = "-", the mark of disks to be saved.
Sources == \A t \in Templates : t.source # "-"

\* The types of the variables.
Phase == {"none", "acquire", "live", "rollback", "release", "saving", "gone"}
DiskType == ImageType \cup {"SWAP", "FS"}
Status == {"new", "stored", "failed"}
Image == [state : ImageState, type : ImageType, running : Int, persistent_img : Bit,
          public : Bit, source : Source, path : Path]
Disk == [image : Images \cup {NoImage}, type : DiskType, persistent : Bit,
         target : Nat, save_as : Images \cup {NoImage}]
DiskList == Seq(Disk)
WantList == Seq(Images \cup {NoImage, Swap})
Vm == [phase : Phase, want : WantList, disks : DiskList, at : Nat, status : Status]
Steps == {"idle", "register", "save"}
Request == [step : Steps, iid : Images \cup {NoImage}, vm : VMs \cup {NoVm}, disk : Nat]

WellTyped ==
    /\ img \in [Images -> Image] /\ next \in 0..MaxImages
    /\ vm \in [VMs -> Vm] /\ ops \in [Images -> [Actions -> Nat]]
    /\ request \in Request

\* The disks of VM r are those it asked for, it releases them one by one, and
\* saves only disks whose images are not persistent.
Shape(r) ==
    /\ Len(r.disks) <= MaxDisks
    /\ r.phase \in {"none", "gone"} => r.disks = <<>>
    /\ r.phase = "acquire" => Len(r.disks) + Len(r.want) <= MaxDisks
    /\ r.phase \in {"none", "acquire", "live", "gone"} => r.at = 1
    /\ r.phase \in {"rollback", "release", "saving"} =>
        (1 <= r.at /\ r.at <= Len(r.disks)) \/ (r.at = 1 /\ r.disks = <<>> /\ r.phase # "saving")
    /\ r.phase = "none" => r.want = <<>>
    /\ \A d \in DOMAIN r.disks : r.disks[d].save_as # NoImage =>
        r.phase \in {"live", "release", "saving"} /\ r.disks[d].persistent = 0

\* What is referred to was allocated; identifiers are not used again.
Known(r) == \A d \in DOMAIN r.disks : r.disks[d].image < next /\ r.disks[d].save_as < next

Allocated ==
    /\ \A v \in VMs : Shape(vm[v]) /\ Known(vm[v])
    /\ request.iid < next
    /\ request.step = "idle" <=> request.iid = NoImage
    /\ request.step = "save" => request.vm # NoVm
    /\ \A i \in Images : i >= next =>
        img[i].state = "NONE" /\ \A a \in Actions : ops[i][a] = 0

\* Disk d of the VM with record r holds image i, and will be saved to image i.
Holding(r, d, i) ==
    /\ d \in DOMAIN r.disks /\ r.disks[d].image = i
    /\ \/ r.phase \in {"acquire", "live"}
       \/ r.phase \in {"rollback", "release"} /\ d >= r.at
       \/ r.phase = "saving" /\ d > r.at

Saving(r, d, i) ==
    /\ d \in DOMAIN r.disks /\ r.disks[d].save_as = i
    /\ r.phase \in {"live", "release", "saving"} /\ d >= r.at

\* Who makes image i ready: an operation of the driver, the request that
\* allocates it, or a disk that will be saved to it.
Total(i) == ops[i]["CP"] + ops[i]["MV"] + ops[i]["MKFS"]
Asked(i) == request.step # "idle" /\ request.iid = i
Closed(i) == img[i].state \in {"LOCKED", "NONE"}

\* It is at most one of these, and until then nobody has the image.
Work(i) ==
    /\ Total(i) <= 1
    /\ Total(i) = 1 => Closed(i)
    /\ Asked(i) => Closed(i) /\ Total(i) = 0
    /\ Asked(i) /\ request.vm # NoVm /\ img[i].state # "NONE" =>
        img[i].path = "" /\ img[i].source = "-" /\ img[i].type # "DATABLOCK"
    /\ \A v \in VMs : \A d \in 1..MaxDisks : Saving(vm[v], d, i) =>
        /\ Closed(i) /\ Total(i) = 0 /\ ~Asked(i)
        /\ \A w \in VMs : \A e \in 1..MaxDisks : Saving(vm[w], e, i) => w = v /\ e = d

Counted(i) ==
    img[i].state # "NONE" =>
        /\ img[i].running >= Cardinality(Holders(i))
        /\ Holders(i) # {} => img[i].state = "USED"
        /\ ~faulty => /\ img[i].running = Cardinality(Holders(i))
                      /\ Holders(i) = {} => img[i].state # "USED"

Private(i) ==
    img[i].state # "NONE" =>
        /\ img[i].persistent_img = 1 =>
            img[i].public = 0 /\ Cardinality(Holders(i)) <= 1
        /\ \A v \in VMs : \A d \in 1..MaxDisks : Holding(vm[v], d, i) =>
            vm[v].disks[d].persistent = img[i].persistent_img

\* An image is removed under a VM only when removed says so.
Present(i) == ~removed /\ Holders(i) # {} => img[i].state # "NONE"

Waits(i) ==
    Sources /\ ~faulty /\ ~removed /\ img[i].state = "LOCKED" =>
        \/ Total(i) = 1 \/ Asked(i)
        \/ \E v \in VMs : \E d \in 1..MaxDisks : Saving(vm[v], d, i)

\* An image that is registered with its file has one.
Registers(i) ==
    Sources /\ Asked(i) /\ request.vm = NoVm /\ img[i].state # "NONE" =>
        img[i].source # "-"

ImageOK(i) == Work(i) /\ Counted(i) /\ Private(i) /\ Present(i) /\ Waits(i) /\ Registers(i)

Faultless == ~faulty => driver /\ daemon = "up"

ImageInv == WellTyped /\ Allocated /\ Faultless /\ \A i \in Images : ImageOK(i)
-----------------------------------------------------------------------------
(* Records.                                                                *)

LEMMA NoneRecords ==
    /\ NoneImage \in Image /\ NoneImage.state = "NONE" /\ NoneImage.running = 0
    /\ NoneVm \in Vm /\ NoneVm.phase = "none" /\ NoneVm.disks = <<>> /\ NoneVm.at = 1
    /\ GoneVm \in Vm /\ GoneVm.phase = "gone" /\ GoneVm.disks = <<>> /\ GoneVm.at = 1
    /\ NoneVm.want = <<>>
    /\ Idle \in Request /\ Idle.step = "idle" /\ Idle.iid = NoImage /\ Idle.vm = NoVm
  <1>1. NoneImage \in Image
    BY DEF NoneImage, Image, ImageState, ImageType, Bit, Source, Path
  <1>2. NoneVm \in Vm
    <2>1. <<>> \in WantList /\ <<>> \in DiskList
      BY DEF WantList, DiskList
    <2> QED BY <2>1 DEF NoneVm, Vm, Phase, Status
  <1>3. GoneVm \in Vm /\ GoneVm.phase = "gone" /\ GoneVm.disks = <<>> /\ GoneVm.at = 1
    <2>1. GoneVm = [phase |-> "gone", want |-> <<>>, disks |-> <<>>, at |-> 1,
                    status |-> "new"]
      BY DEF GoneVm, NoneVm
    <2>2. <<>> \in WantList /\ <<>> \in DiskList
      BY DEF WantList, DiskList
    <2> QED BY <2>1, <2>2 DEF Vm, Phase, Status
  <1>4. Idle \in Request
    BY DEF Idle, Request, Steps
  <1> QED BY <1>1, <1>2, <1>3, <1>4 DEF NoneImage, NoneVm, Idle

LEMMA VmDisks ==
    ASSUME NEW r \in Vm
    PROVE  /\ r.disks \in Seq(Disk) /\ r.want \in WantList /\ Len(r.disks) \in Nat
           /\ DOMAIN r.disks = 1..Len(r.disks)
           /\ \A d \in DOMAIN r.disks : r.disks[d] \in Disk
           /\ r.at \in Nat
  BY DEF Vm, DiskList

LEMMA EmptyVm ==
    ASSUME NEW r \in Vm, r.disks = <<>>
    PROVE  \A d, i : ~Holding(r, d, i) /\ ~Saving(r, d, i)
  BY DEF Holding, Saving
-----------------------------------------------------------------------------
(* Who has an image.                                                       *)

LEMMA HoldersCount ==
    ASSUME NEW i
    PROVE  /\ IsFiniteSet(Holders(i)) /\ Cardinality(Holders(i)) \in Nat
           /\ Cardinality(Holders(i)) = 0 <=> Holders(i) = {}
  <1>1. IsFiniteSet(VMs) /\ IsFiniteSet(1..MaxDisks)
    BY RepositoryAssumption, FS_Interval
  <1>2. IsFiniteSet(VMs \X (1..MaxDisks))
    BY <1>1, FS_Product
  <1>3. Holders(i) \subseteq VMs \X (1..MaxDisks)
    BY DEF Holders
  <1> QED BY <1>2, <1>3, FS_Subset, FS_CardinalityType, FS_EmptySet

LEMMA HoldersAre ==
    ASSUME NEW i
    PROVE  /\ Holders(i) =
                {h \in VMs \X (1..MaxDisks) : Holding(vm[h[1]], h[2], i)}
           /\ Holders(i)' =
                {h \in VMs \X (1..MaxDisks) : Holding(vm'[h[1]], h[2], i)}
  BY DEF Holders, Held, Holding

LEMMA NobodyHolds ==
    ASSUME NEW i, Holders(i) = {}
    PROVE  \A v \in VMs : \A d \in 1..MaxDisks : ~Holding(vm[v], d, i)
  <1> SUFFICES ASSUME NEW v \in VMs, NEW d \in 1..MaxDisks, Holding(vm[v], d, i)
               PROVE  FALSE
    OBVIOUS
  <1>1. PICK h : h = <<v, d>>
    OBVIOUS
  <1>2. h \in VMs \X (1..MaxDisks) /\ h[1] = v /\ h[2] = d
    BY <1>1
  <1>3. h \in Holders(i)
    BY <1>2, HoldersAre
  <1> QED BY <1>3

LEMMA HoldersKept ==
    ASSUME NEW i,
           \A v \in VMs : \A d \in 1..MaxDisks :
                Holding(vm'[v], d, i) <=> Holding(vm[v], d, i)
    PROVE  Holders(i)' = Holders(i)
  BY HoldersAre

LEMMA HoldersShrink ==
    ASSUME NEW i,
           \A v \in VMs : \A d \in 1..MaxDisks :
                Holding(vm'[v], d, i) => Holding(vm[v], d, i)
    PROVE  /\ Holders(i)' \subseteq Holders(i)
           /\ Cardinality(Holders(i)') <= Cardinality(Holders(i))
           /\ Cardinality(Holders(i)') \in Nat
  <1>1. Holders(i)' \subseteq Holders(i)
    BY HoldersAre
  <1> QED BY <1>1, HoldersCount, FS_Subset, FS_CardinalityType

LEMMA HoldersAdded ==
    ASSUME NEW i, NEW u \in VMs, NEW e \in 1..MaxDisks, ~Holding(vm[u], e, i),
           \A v \in VMs : \A d \in 1..MaxDisks :
                Holding(vm'[v], d, i) <=> Holding(vm[v], d, i) \/ (v = u /\ d = e)
    PROVE  /\ Holders(i)' # {}
           /\ Cardinality(Holders(i)') = Cardinality(Holders(i)) + 1
  <1>1. Holders(i)' = Holders(i) \cup {<<u, e>>}
    BY HoldersAre
  <1>2. <<u, e>> \notin Holders(i)
    BY HoldersAre
  <1> QED BY <1>1, <1>2, HoldersCount, FS_AddElement

LEMMA HoldersRemoved ==
    ASSUME NEW i, NEW u \in VMs, NEW e \in 1..MaxDisks, Holding(vm[u], e, i),
           \A v \in VMs : \A d \in 1..MaxDisks :
                Holding(vm'[v], d, i) <=> Holding(vm[v], d, i) /\ ~(v = u /\ d = e)
    PROVE  /\ Cardinality(Holders(i)') = Cardinality(Holders(i)) - 1
           /\ Cardinality(Holders(i)) \in Nat \ {0}
           /\ Holders(i)' = {} <=> Cardinality(Holders(i)) = 1
           /\ Holders(i) # {}
  <1>1. Holders(i)' = Holders(i) \ {<<u, e>>}
    BY HoldersAre
  <1>2. <<u, e>> \in Holders(i)
    BY HoldersAre
  <1>3. /\ Cardinality(Holders(i)') = Cardinality(Holders(i)) - 1
        /\ IsFiniteSet(Holders(i)')
    BY <1>1, <1>2, HoldersCount, FS_RemoveElement
  <1>4. Cardinality(Holders(i)') \in Nat /\ (Cardinality(Holders(i)') = 0 <=> Holders(i)' = {})
    BY <1>3, FS_CardinalityType, FS_EmptySet
  <1> QED BY <1>2, <1>3, <1>4, HoldersCount
-----------------------------------------------------------------------------
(* Images that a step does not touch.                                      *)

SameFor(r, s, i) ==
    \A d \in 1..MaxDisks :
        /\ Holding(s, d, i) <=> Holding(r, d, i)
        /\ Holding(s, d, i) => s.disks[d].persistent = r.disks[d].persistent
        /\ Saving(s, d, i) <=> Saving(r, d, i)

SameVm(r, s) == \A i \in Images : SameFor(r, s, i)

SameDisks(i) ==
    \A v \in VMs : \A d \in 1..MaxDisks :
        /\ Holding(vm'[v], d, i) <=> Holding(vm[v], d, i)
        /\ Holding(vm'[v], d, i) => vm'[v].disks[d].persistent = vm[v].disks[d].persistent
        /\ Saving(vm'[v], d, i) <=> Saving(vm[v], d, i)

LEMMA VmsKeep ==
    ASSUME WellTyped, NEW v \in VMs, NEW s, NEW i \in Images, SameFor(vm[v], s, i),
           vm' = [vm EXCEPT ![v] = s]
    PROVE  SameDisks(i)
  <1>1. \A w \in VMs : vm'[w] = IF w = v THEN s ELSE vm[w]
    BY DEF WellTyped
  <1> QED BY <1>1 DEF SameFor, SameDisks

LEMMA VmsSame ==
    ASSUME vm' = vm
    PROVE  \A i : SameDisks(i)
  BY DEF SameDisks

LEMMA TotalNat ==
    ASSUME WellTyped, NEW i \in Images
    PROVE  /\ Total(i) \in Nat
           /\ \A a \in {"CP", "MV", "MKFS"} : ops[i][a] \in Nat /\ ops[i][a] <= Total(i)
           /\ ops'[i] = ops[i] => Total(i)' = Total(i)
  <1>1. \A a \in Actions : ops[i][a] \in Nat
    BY DEF WellTyped
  <1>2. ops[i]["CP"] \in Nat /\ ops[i]["MV"] \in Nat /\ ops[i]["MKFS"] \in Nat
    BY <1>1 DEF Actions
  <1> QED BY <1>2 DEF Total

SameWork(i) ==
    /\ Total(i)' = Total(i) /\ SameDisks(i)
    /\ Asked(i)' <=> Asked(i)
    /\ Asked(i) => request'.vm = request.vm

\* Less is going on with image i.
LessWork(i) ==
    /\ Total(i)' \in {0, Total(i)}
    /\ Asked(i)' => Asked(i) /\ request'.vm = request.vm
    /\ \A v \in VMs : \A d \in 1..MaxDisks : Saving(vm'[v], d, i) => Saving(vm[v], d, i)

SameFile(i) ==
    /\ img'[i].state = img[i].state /\ img'[i].path = img[i].path
    /\ img'[i].source = img[i].source
    /\ img'[i].type = "DATABLOCK" => img[i].type = "DATABLOCK"

LEMMA WorkRemains ==
    ASSUME NEW i \in Images, Work(i), LessWork(i), SameFile(i)
    PROVE  Work(i)'
  <1>1. Closed(i)' <=> Closed(i)
    BY DEF Closed, SameFile
  <1>2. /\ Total(i)' <= 1
        /\ Total(i)' = 1 => Closed(i)'
        /\ Asked(i)' => Closed(i)' /\ Total(i)' = 0
    <2>1. 0 <= 1 /\ 0 # 1
      OBVIOUS
    <2>2. Total(i)' = 0 \/ Total(i)' = Total(i)
      BY DEF LessWork
    <2>3. Total(i)' <= 1
      <3>1. CASE Total(i)' = 0
        BY <2>1, <3>1
      <3>2. CASE Total(i)' = Total(i)
        BY <3>2 DEF Work
      <3> QED BY <2>2, <3>1, <3>2
    <2>4. Total(i)' = 1 => Closed(i)'
      BY <1>1, <2>1, <2>2, Zenon DEF Work
    <2>5. Asked(i)' => Closed(i)' /\ Total(i)' = 0
      BY <1>1, <2>2, Zenon DEF Work, LessWork
    <2> QED BY <2>3, <2>4, <2>5
  <1>3. Asked(i)' /\ request'.vm # NoVm /\ img'[i].state # "NONE" =>
        img'[i].path = "" /\ img'[i].source = "-" /\ img'[i].type # "DATABLOCK"
    BY DEF Work, LessWork, SameFile
  <1>4. ASSUME NEW v \in VMs, NEW d \in 1..MaxDisks, Saving(vm'[v], d, i)
        PROVE  /\ Closed(i)' /\ Total(i)' = 0 /\ ~Asked(i)'
               /\ \A w \in VMs : \A e \in 1..MaxDisks :
                    Saving(vm'[w], e, i) => w = v /\ e = d
    <2>1. /\ Closed(i) /\ Total(i) = 0 /\ ~Asked(i)
          /\ \A w \in VMs : \A e \in 1..MaxDisks :
                Saving(vm[w], e, i) => w = v /\ e = d
      BY <1>4 DEF Work, LessWork
    <2> QED BY <1>1, <2>1 DEF LessWork
  <1> QED BY <1>2, <1>3, <1>4 DEF Work

LEMMA WorkShrinks ==
    ASSUME NEW i \in Images, Work(i), LessWork(i), img'[i] = img[i]
    PROVE  Work(i)'
  BY WorkRemains DEF SameFile

LEMMA WorkKept ==
    ASSUME NEW i \in Images, Work(i), SameWork(i), img'[i] = img[i]
    PROVE  Work(i)'
  BY WorkShrinks DEF LessWork, SameWork, SameDisks

LEMMA ImageKept ==
    ASSUME NEW i \in Images, ImageOK(i), SameWork(i), img'[i] = img[i],
           faulty => faulty', removed => removed'
    PROVE  ImageOK(i)'
  <1>2. Holders(i)' = Holders(i)
    BY HoldersKept DEF SameWork, SameDisks
  <1>3. Counted(i)' /\ Present(i)'
    BY <1>2 DEF ImageOK, Counted, Present
  <1>4. Private(i)'
    BY <1>2 DEF ImageOK, Private, SameWork, SameDisks
  <1>5. Waits(i)'
    BY DEF ImageOK, Waits, SameWork, SameDisks
  <1>6. Registers(i)'
    BY DEF ImageOK, Registers, SameWork
  <1> QED BY <1>3, <1>4, <1>5, <1>6, WorkKept DEF ImageOK

\* After a fault images may stay LOCKED, and used by nobody.
LEMMA ImageAfterFault ==
    ASSUME NEW i \in Images, ImageOK(i), LessWork(i), img'[i] = img[i], faulty',
           removed' = removed,
           \A v \in VMs : \A d \in 1..MaxDisks : Holding(vm'[v], d, i) =>
                Holding(vm[v], d, i)
                /\ vm'[v].disks[d].persistent = vm[v].disks[d].persistent,
           img[i].running \in Int
    PROVE  ImageOK(i)'
  <1>1. /\ Holders(i)' \subseteq Holders(i)
        /\ Cardinality(Holders(i)') <= Cardinality(Holders(i))
        /\ Cardinality(Holders(i)') \in Nat /\ Cardinality(Holders(i)) \in Nat
    BY HoldersShrink, HoldersCount
  <1>2. Counted(i)'
    BY <1>1 DEF ImageOK, Counted
  <1>3. Present(i)' /\ Waits(i)'
    BY <1>1 DEF ImageOK, Present, Waits
  <1>4. Private(i)'
    BY <1>1 DEF ImageOK, Private
  <1>5. Registers(i)'
    BY DEF ImageOK, Registers, LessWork
  <1> QED BY <1>2, <1>3, <1>4, <1>5, WorkShrinks DEF ImageOK
-----------------------------------------------------------------------------
(* What happens to one VM.                                                 *)

\* A VM goes on with the same disks.
LEMMA PhaseChanges ==
    ASSUME NEW r \in Vm, Shape(r), NEW p \in Phase,
           \/ r.phase = "acquire" /\ p = "rollback"
           \/ r.phase = "acquire" /\ r.want = <<>> /\ p \in {"live", "release"}
           \/ r.phase = "live" /\ p = "release",
           NEW s, s = [r EXCEPT !.phase = p]
    PROVE  s \in Vm /\ Shape(s) /\ s.disks = r.disks /\ SameVm(r, s)
  <1>1. s \in Vm
    BY DEF Vm
  <1>2. /\ s.phase = p /\ s.want = r.want /\ s.disks = r.disks /\ s.at = r.at
    BY DEF Vm
  <1>3. r.disks \in Seq(Disk) /\ Len(r.disks) \in Nat /\ DOMAIN r.disks = 1..Len(r.disks)
    BY VmDisks
  <1>4. Len(r.disks) = 0 => r.disks = <<>>
    BY <1>3
  <1>5. r.at = 1
    BY DEF Shape
  <1>6. Shape(s)
    <2>1. \A d \in DOMAIN r.disks : r.disks[d].save_as # NoImage =>
            p \in {"live", "release", "saving"} /\ r.disks[d].persistent = 0
      BY DEF Shape
    <2>2. (1 <= r.at /\ r.at <= Len(r.disks)) \/ (r.at = 1 /\ r.disks = <<>>)
      BY <1>3, <1>4, <1>5
    <2>3. Len(r.disks) <= MaxDisks
      BY DEF Shape
    <2> QED BY <1>2, <1>5, <2>1, <2>2, <2>3 DEF Shape
  <1>7. \A i \in Images : i # NoImage
    BY DEF Images, NoImage
  <1>8. SameVm(r, s)
    BY <1>2, <1>3, <1>5, <1>7 DEF SameVm, SameFor, Holding, Saving, Shape
  <1> QED BY <1>1, <1>2, <1>6, <1>8

LEMMA StatusChanges ==
    ASSUME NEW r \in Vm, Shape(r), NEW x \in Status,
           NEW s, s = [r EXCEPT !.status = x]
    PROVE  s \in Vm /\ Shape(s) /\ s.disks = r.disks /\ SameVm(r, s)
  <1>1. s \in Vm
    BY DEF Vm
  <1>2. /\ s.phase = r.phase /\ s.want = r.want /\ s.disks = r.disks /\ s.at = r.at
    BY DEF Vm
  <1> QED BY <1>1, <1>2 DEF Shape, SameVm, SameFor, Holding, Saving

LEMMA VmCreated ==
    ASSUME NEW r \in Vm, Shape(r), r.phase = "none", NEW want \in Wants,
           NEW s, s = [r EXCEPT !.phase = "acquire", !.want = want]
    PROVE  s \in Vm /\ Shape(s) /\ s.disks = r.disks /\ SameVm(r, s)
  <1>1. want \in WantList /\ Len(want) <= MaxDisks
    BY RepositoryAssumption DEF WantList
  <1>2. s \in Vm
    BY <1>1 DEF Vm, Phase
  <1>3. /\ s.phase = "acquire" /\ s.want = want /\ s.disks = r.disks /\ s.at = r.at
    BY DEF Vm
  <1>4. r.disks = <<>> /\ Len(r.disks) = 0 /\ Len(want) \in Nat
    BY <1>1 DEF Shape, WantList
  <1>5. DOMAIN r.disks = {}
    BY <1>4
  <1>6. Shape(s)
    BY <1>1, <1>3, <1>4, <1>5, RepositoryAssumption DEF Shape
  <1> QED BY <1>2, <1>3, <1>5, <1>6 DEF SameVm, SameFor, Holding, Saving

\* A VM that acquires disk k, its n-th.
Gains(r, s, k, n) ==
    /\ n = Len(r.disks) + 1 /\ n \in 1..MaxDisks
    /\ n \in DOMAIN s.disks /\ s.disks[n] = k
    /\ \A d \in DOMAIN s.disks : d # n => d \in DOMAIN r.disks /\ s.disks[d] = r.disks[d]
    /\ \A d, i : Holding(s, d, i) <=> Holding(r, d, i) \/ (d = n /\ k.image = i)
    /\ \A d : \A i \in Images : ~Saving(s, d, i) /\ ~Saving(r, d, i)
    /\ \A i : ~Holding(r, n, i)

LEMMA DiskAdded ==
    ASSUME NEW r \in Vm, Shape(r), r.phase = "acquire", r.want # <<>>,
           NEW k \in Disk, k.save_as = NoImage, NEW p \in {"acquire", "rollback"},
           NEW s, s = AddDisk(r, k, p)
    PROVE  s \in Vm /\ Shape(s) /\ Gains(r, s, k, Len(r.disks) + 1)
  <1>1. /\ r.disks \in Seq(Disk) /\ Len(r.disks) \in Nat /\ DOMAIN r.disks = 1..Len(r.disks)
        /\ r.want \in WantList
    BY VmDisks
  <1>2. PICK e, w : e = Append(r.disks, k) /\ w = Tail(r.want)
    OBVIOUS
  <1>3. /\ e \in DiskList /\ Len(e) = Len(r.disks) + 1
        /\ e[Len(r.disks) + 1] = k /\ \A d \in 1..Len(r.disks) : e[d] = r.disks[d]
        /\ DOMAIN e = 1..(Len(r.disks) + 1)
    BY <1>1, <1>2 DEF DiskList
  <1>4. w \in WantList /\ Len(w) = Len(r.want) - 1 /\ Len(r.want) \in Nat \ {0}
    BY <1>1, <1>2 DEF WantList
  <1>5. p \in Phase
    BY DEF Phase
  <1>6. s = [r EXCEPT !.disks = e, !.want = w, !.phase = p]
    BY <1>2 DEF AddDisk
  <1>7. s \in Vm /\ s.disks = e /\ s.want = w /\ s.phase = p /\ s.at = r.at
    BY <1>3, <1>4, <1>5, <1>6 DEF Vm
  <1>8. r.at = 1 /\ Len(r.disks) + Len(r.want) <= MaxDisks /\ MaxDisks \in Nat
        /\ \A d \in DOMAIN r.disks : r.disks[d].save_as = NoImage
    BY RepositoryAssumption DEF Shape
  <1>9. \A d \in DOMAIN e : e[d].save_as = NoImage
    BY <1>1, <1>3, <1>8
  <1>17. Len(e) + Len(w) <= MaxDisks /\ Len(e) <= MaxDisks /\ Len(r.disks) + 1 \in 1..MaxDisks
    <2>1. PICK n \in Nat, m \in Nat \ {0}, x \in Nat :
            n = Len(r.disks) /\ m = Len(r.want) /\ x = MaxDisks
      BY <1>1, <1>4, RepositoryAssumption
    <2>2. n + m <= x
      BY <1>8, <2>1
    <2>3. n + 1 <= x /\ (n + 1) + (m - 1) <= x /\ n + 1 \in 1..x
      BY <2>2
    <2>4. Len(e) = n + 1 /\ Len(w) = m - 1
      BY <1>3, <1>4, <2>1
    <2> QED BY <2>1, <2>3, <2>4
  <1>10. Shape(s)
    <2>1. Len(s.disks) <= MaxDisks
      BY <1>7, <1>17
    <2>2. s.phase = "acquire" => Len(s.disks) + Len(s.want) <= MaxDisks
      BY <1>7, <1>17
    <2>3. 1 <= s.at /\ s.at <= Len(s.disks) /\ s.at = 1
      BY <1>1, <1>3, <1>7, <1>8
    <2> QED BY <1>7, <1>9, <2>1, <2>2, <2>3 DEF Shape
  <1>11. \A i \in Images : i # NoImage
    BY DEF Images, NoImage
  <1>12. \A d : \A i \in Images : ~Saving(s, d, i) /\ ~Saving(r, d, i)
    BY <1>7, <1>8, <1>9, <1>11 DEF Saving
  <1>13. ASSUME NEW d, NEW i
         PROVE  Holding(s, d, i) <=>
                Holding(r, d, i) \/ (d = Len(r.disks) + 1 /\ k.image = i)
    <2>1. Holding(r, d, i) <=> d \in 1..Len(r.disks) /\ r.disks[d].image = i
      BY <1>1 DEF Holding
    <2>2. Holding(s, d, i) <=> d \in 1..(Len(r.disks) + 1) /\ e[d].image = i
      BY <1>3, <1>7, <1>8 DEF Holding
    <2>3. CASE d = Len(r.disks) + 1
      BY <1>1, <1>3, <2>1, <2>2, <2>3
    <2>4. CASE d # Len(r.disks) + 1
      BY <1>1, <1>3, <2>1, <2>2, <2>4
    <2> QED BY <2>3, <2>4
  <1>15. \A i : ~Holding(r, Len(r.disks) + 1, i)
    BY <1>1 DEF Holding
  <1>16. \A d \in DOMAIN s.disks : d # Len(r.disks) + 1 =>
                d \in DOMAIN r.disks /\ s.disks[d] = r.disks[d]
    BY <1>1, <1>3, <1>7
  <1>18. s.disks[Len(r.disks) + 1] = k /\ Len(r.disks) + 1 \in DOMAIN s.disks
    BY <1>1, <1>3, <1>7
  <1> QED BY <1>7, <1>10, <1>12, <1>13, <1>15, <1>16, <1>17, <1>18 DEF Gains

\* A VM lets go of the disk it is at, and no longer saves it.
Leaves(r, s) ==
    /\ r.at \in DOMAIN r.disks /\ (s.disks = <<>> \/ s.disks = r.disks)
    /\ \A d, i : Holding(s, d, i) <=> Holding(r, d, i) /\ d # r.at
    /\ \A d, i : Holding(s, d, i) => s.disks[d] = r.disks[d]

Unsaves(r, s) == \A d, i : Saving(s, d, i) <=> Saving(r, d, i) /\ d # r.at
KeepsSaves(r, s) == \A d : \A i \in Images : Saving(s, d, i) <=> Saving(r, d, i)

LEMMA DiskLeft ==
    ASSUME NEW r \in Vm, Shape(r), r.disks # <<>>,
           r.phase \in {"rollback", "release", "saving"}, NEW s \in Vm,
           \/ ~(r.at < Len(r.disks)) /\ s = GoneVm
           \/ /\ r.at < Len(r.disks) /\ s.disks = r.disks /\ s.at = r.at + 1
              /\ s.phase = IF r.phase = "rollback" THEN "rollback" ELSE "release"
    PROVE  Shape(s) /\ Leaves(r, s) /\ Unsaves(r, s)
  <1>1. /\ r.disks \in Seq(Disk) /\ DOMAIN r.disks = 1..Len(r.disks)
    BY VmDisks
  <1>2. PICK n \in Nat, a \in Nat, x \in Nat :
          n = Len(r.disks) /\ a = r.at /\ x = MaxDisks
    BY VmDisks, RepositoryAssumption
  <1>3. DOMAIN r.disks = 1..n /\ 1 <= a /\ a <= n /\ n <= x /\ r.at \in DOMAIN r.disks
    BY <1>1, <1>2 DEF Shape
  <1>4. CASE ~(r.at < Len(r.disks)) /\ s = GoneVm
    <2>1. a = n
      BY <1>2, <1>3, <1>4
    <2>2. s.phase = "gone" /\ s.disks = <<>> /\ s.at = 1 /\ Len(s.disks) = 0
          /\ DOMAIN s.disks = {}
      BY <1>4, NoneRecords
    <2>3. Shape(s)
      BY <2>2, <1>2 DEF Shape
    <2>4. \A d, i : ~Holding(s, d, i) /\ ~Saving(s, d, i)
      BY <2>2 DEF Holding, Saving
    <2>5. \A d, i : ~(Holding(r, d, i) /\ d # r.at)
      BY <1>2, <1>3, <2>1 DEF Holding
    <2>6. \A d, i : ~(Saving(r, d, i) /\ d # r.at)
      BY <1>2, <1>3, <2>1 DEF Saving
    <2> QED BY <1>3, <2>2, <2>3, <2>4, <2>5, <2>6 DEF Leaves, Unsaves
  <1>5. CASE /\ r.at < Len(r.disks) /\ s.disks = r.disks /\ s.at = r.at + 1
             /\ s.phase = IF r.phase = "rollback" THEN "rollback" ELSE "release"
    <2>1. a < n /\ s.at = a + 1 /\ Len(s.disks) = n
      BY <1>2, <1>5
    <2>2. Shape(s)
      <3>1. 1 <= s.at /\ s.at <= Len(s.disks) /\ Len(s.disks) <= MaxDisks
        BY <1>2, <1>3, <2>1
      <3>2. \A d \in DOMAIN s.disks : s.disks[d].save_as # NoImage =>
              s.phase \in {"live", "release", "saving"} /\ s.disks[d].persistent = 0
        BY <1>5 DEF Shape
      <3> QED BY <1>5, <3>1, <3>2 DEF Shape
    <2>3. ASSUME NEW d, NEW i
          PROVE  /\ Holding(s, d, i) <=> Holding(r, d, i) /\ d # r.at
                 /\ Saving(s, d, i) <=> Saving(r, d, i) /\ d # r.at
      <3>1. CASE d \in 1..n
        <4>1. d >= s.at <=> d >= a /\ d # a
          BY <2>1, <3>1
        <4>2. d > a <=> d >= a /\ d # a
          BY <3>1
        <4> QED BY <1>2, <1>3, <1>5, <4>1, <4>2 DEF Holding, Saving
      <3>2. CASE d \notin 1..n
        BY <1>3, <1>5, <3>2 DEF Holding, Saving
      <3> QED BY <3>1, <3>2
    <2> QED BY <1>3, <1>5, <2>2, <2>3 DEF Leaves, Unsaves
  <1> QED BY <1>4, <1>5

LEMMA NextDiskLeaves ==
    ASSUME NEW r \in Vm, Shape(r), r.disks # <<>>, r.phase \in {"release", "saving"},
           NEW s, s = NextDisk(r)
    PROVE  s \in Vm /\ Shape(s) /\ Leaves(r, s) /\ Unsaves(r, s)
  <1>1. r.at + 1 \in Nat
    BY VmDisks
  <1>2. CASE r.at < Len(r.disks)
    <2>1. s = [r EXCEPT !.at = r.at + 1, !.phase = "release"]
      BY <1>2 DEF NextDisk
    <2>2. s \in Vm /\ s.disks = r.disks /\ s.at = r.at + 1 /\ s.phase = "release"
      BY <1>1, <2>1 DEF Vm, Phase
    <2> QED BY <1>2, <2>2, DiskLeft
  <1>3. CASE ~(r.at < Len(r.disks))
    <2>1. s = GoneVm /\ s \in Vm
      BY <1>3, NoneRecords DEF NextDisk
    <2> QED BY <1>3, <2>1, DiskLeft
  <1> QED BY <1>2, <1>3

LEMMA RollbackLeaves ==
    ASSUME NEW r \in Vm, Shape(r), r.disks # <<>>, r.phase = "rollback",
           NEW s, s = NextRollback(r)
    PROVE  s \in Vm /\ Shape(s) /\ Leaves(r, s) /\ KeepsSaves(r, s)
  <1>1. r.at + 1 \in Nat
    BY VmDisks
  <1>2. s \in Vm /\ Shape(s) /\ Leaves(r, s) /\ Unsaves(r, s)
    <2>1. CASE r.at < Len(r.disks)
      <3>1. s = [r EXCEPT !.at = r.at + 1]
        BY <2>1 DEF NextRollback
      <3>2. s \in Vm /\ s.disks = r.disks /\ s.at = r.at + 1 /\ s.phase = "rollback"
        BY <1>1, <3>1 DEF Vm
      <3> QED BY <2>1, <3>2, DiskLeft
    <2>2. CASE ~(r.at < Len(r.disks))
      <3>1. s = GoneVm /\ s \in Vm
        BY <2>2, NoneRecords DEF NextRollback
      <3> QED BY <2>2, <3>1, DiskLeft
    <2> QED BY <2>1, <2>2
  <1>3. \A d, i : ~Saving(r, d, i)
    BY DEF Saving
  <1> QED BY <1>2, <1>3 DEF Unsaves, KeepsSaves

\* A VM that saves the disk it is at, once its image is released.
LEMMA DiskReleased ==
    ASSUME NEW r \in Vm, Shape(r), r.disks # <<>>, r.phase = "release",
           NEW s, s = [r EXCEPT !.phase = "saving"]
    PROVE  s \in Vm /\ Shape(s) /\ Leaves(r, s) /\ KeepsSaves(r, s)
  <1>1. s \in Vm /\ s.disks = r.disks /\ s.at = r.at /\ s.phase = "saving"
    BY DEF Vm, Phase
  <1>2. /\ r.disks \in Seq(Disk) /\ DOMAIN r.disks = 1..Len(r.disks)
        /\ r.at \in Nat /\ Len(r.disks) \in Nat
    BY VmDisks
  <1>3. 1 <= r.at /\ r.at <= Len(r.disks) /\ r.at \in DOMAIN r.disks
    BY <1>2 DEF Shape
  <1>4. Shape(s)
    BY <1>1, <1>3 DEF Shape
  <1>5. ASSUME NEW d, NEW i
        PROVE  Holding(s, d, i) <=> Holding(r, d, i) /\ d # r.at
    <2>1. CASE d \in DOMAIN r.disks
      <3>1. d > r.at <=> d >= r.at /\ d # r.at
        BY <1>2, <2>1
      <3> QED BY <1>1, <3>1 DEF Holding
    <2>2. CASE d \notin DOMAIN r.disks
      BY <1>1, <2>2 DEF Holding
    <2> QED BY <2>1, <2>2
  <1>6. \A d, i : Saving(s, d, i) <=> Saving(r, d, i)
    BY <1>1 DEF Saving
  <1> QED BY <1>1, <1>3, <1>4, <1>5, <1>6 DEF Leaves, KeepsSaves

\* A disk that is to be saved.
LEMMA DiskSavedAs ==
    ASSUME NEW r \in Vm, Shape(r), r.phase = "live", NEW e \in DOMAIN r.disks,
           r.disks[e].save_as = NoImage, r.disks[e].persistent = 0,
           NEW x \in Images, NEW s, s = SavedAs(r, e, x)
    PROVE  /\ s \in Vm /\ Shape(s)
           /\ DOMAIN s.disks = DOMAIN r.disks
           /\ \A d \in DOMAIN r.disks : /\ s.disks[d].image = r.disks[d].image
                                        /\ s.disks[d].persistent = r.disks[d].persistent
                                        /\ s.disks[d].save_as = IF d = e THEN x
                                                               ELSE r.disks[d].save_as
           /\ \A d, i : Holding(s, d, i) <=> Holding(r, d, i)
           /\ \A d : \A i \in Images : Saving(s, d, i) <=> Saving(r, d, i) \/ (d = e /\ i = x)
  <1>1. /\ r.disks \in Seq(Disk) /\ DOMAIN r.disks = 1..Len(r.disks) /\ Len(r.disks) \in Nat
        /\ r.disks[e] \in Disk
    BY VmDisks
  <1>2. PICK k : k = [r.disks[e] EXCEPT !.save_as = x]
    OBVIOUS
  <1>3. /\ k \in Disk /\ k.image = r.disks[e].image /\ k.persistent = r.disks[e].persistent
        /\ k.save_as = x
    BY <1>1, <1>2 DEF Disk
  <1>4. PICK l : l = [r.disks EXCEPT ![e] = k]
    OBVIOUS
  <1>5. /\ l \in DiskList /\ DOMAIN l = DOMAIN r.disks /\ Len(l) = Len(r.disks)
        /\ \A d \in DOMAIN r.disks : l[d] = IF d = e THEN k ELSE r.disks[d]
    BY <1>1, <1>3, <1>4 DEF DiskList
  <1>6. s = [r EXCEPT !.disks = l]
    <2>1. s = [r EXCEPT !.disks =
                  [r.disks EXCEPT ![e] = [r.disks[e] EXCEPT !.save_as = x]]]
      BY Zenon DEF SavedAs
    <2> QED BY <1>2, <1>4, <2>1, Zenon
  <1>7. s \in Vm /\ s.disks = l /\ s.phase = r.phase /\ s.at = r.at /\ s.want = r.want
    BY <1>5, <1>6 DEF Vm
  <1>8. \A d \in DOMAIN r.disks : /\ s.disks[d].image = r.disks[d].image
                                  /\ s.disks[d].persistent = r.disks[d].persistent
                                  /\ s.disks[d].save_as = IF d = e THEN x
                                                         ELSE r.disks[d].save_as
    BY <1>3, <1>5, <1>7
  <1>9. r.at = 1 /\ Len(r.disks) <= MaxDisks
    BY DEF Shape
  <1>10. Shape(s)
    <2>1. \A d \in DOMAIN s.disks : s.disks[d].save_as # NoImage =>
            s.phase \in {"live", "release", "saving"} /\ s.disks[d].persistent = 0
      BY <1>5, <1>7, <1>8 DEF Shape
    <2> QED BY <1>5, <1>7, <1>9, <2>1 DEF Shape
  <1>11. \A d, i : Holding(s, d, i) <=> Holding(r, d, i)
    BY <1>5, <1>7, <1>8 DEF Holding
  <1>12. \A i \in Images : i # NoImage
    BY DEF Images, NoImage
  <1>13. e >= r.at
    BY <1>1, <1>9
  <1>14. ASSUME NEW d, NEW i \in Images
         PROVE  Saving(s, d, i) <=> Saving(r, d, i) \/ (d = e /\ i = x)
    <2>1. CASE d = e
      BY <1>5, <1>7, <1>8, <1>12, <1>13, <2>1 DEF Saving
    <2>2. CASE d # e
      BY <1>5, <1>7, <1>8, <2>2 DEF Saving
    <2> QED BY <2>1, <2>2
  <1> QED BY <1>5, <1>7, <1>8, <1>10, <1>11, <1>14
-----------------------------------------------------------------------------
(* Steps that leave the VMs alone.                                         *)

LEMMA Identifiers ==
    /\ NoImage \in Int /\ NoImage \notin Images /\ Images \subseteq Nat
    /\ MaxImages \in Nat /\ \A i \in Images : i < MaxImages
    /\ \A n \in Nat : n < MaxImages => n \in Images
    /\ \A i \in Images \cup {NoImage} : i \in Int
  BY RepositoryAssumption DEF Images, NoImage

LEMMA Typed ==
    ASSUME ImageInv
    PROVE  /\ WellTyped /\ img \in [Images -> Image] /\ next \in Nat /\ next <= MaxImages
           /\ vm \in [VMs -> Vm] /\ ops \in [Images -> [Actions -> Nat]] /\ request \in Request
  <1>1. WellTyped
    BY DEF ImageInv
  <1>2. next \in Nat /\ next <= MaxImages
    BY <1>1, RepositoryAssumption DEF WellTyped
  <1> QED BY <1>1, <1>2 DEF WellTyped

LEMMA Untouched ==
    ASSUME ImageInv, NEW j \in Images, img'[j] = img[j], Total(j)' = Total(j), vm' = vm,
           Asked(j)' <=> Asked(j), Asked(j) => request'.vm = request.vm,
           faulty => faulty', removed => removed'
    PROVE  ImageOK(j)'
  <1>1. SameWork(j)
    BY VmsSame DEF SameWork
  <1> QED BY <1>1, ImageKept DEF ImageInv

LEMMA VmsKnown ==
    ASSUME ImageInv, vm' = vm, next' \in Int, next <= next'
    PROVE  \A v \in VMs : Shape(vm[v])' /\ Known(vm[v])'
  <1> SUFFICES ASSUME NEW v \in VMs PROVE Shape(vm[v])' /\ Known(vm[v])'
    OBVIOUS
  <1>1. Shape(vm[v]) /\ Known(vm[v]) /\ vm[v] \in Vm /\ next \in Int
    BY RepositoryAssumption DEF ImageInv, WellTyped, Allocated
  <1>2. \A d \in DOMAIN vm[v].disks :
          vm[v].disks[d].image \in Int /\ vm[v].disks[d].save_as \in Int
    BY <1>1, VmDisks, Identifiers DEF Disk
  <1>3. Known(vm[v])'
    BY <1>1, <1>2 DEF Known
  <1>4. Shape(vm[v])'
    BY <1>1 DEF Shape
  <1> QED BY <1>3, <1>4

\* An image that no VM has had.
LEMMA NextIsNew ==
    ASSUME ImageInv, next \in Images
    PROVE  /\ img[next].state = "NONE" /\ Total(next) = 0 /\ Holders(next) = {}
           /\ \A v \in VMs : \A d \in 1..MaxDisks :
                ~Holding(vm[v], d, next) /\ ~Saving(vm[v], d, next)
  <1>1. next \in Int /\ next >= next
    BY Identifiers
  <1>2. img[next].state = "NONE" /\ \A a \in Actions : ops[next][a] = 0
    BY <1>1 DEF ImageInv, Allocated
  <1>3. ops[next]["CP"] = 0 /\ ops[next]["MV"] = 0 /\ ops[next]["MKFS"] = 0
    BY <1>2 DEF Actions
  <1>4. Total(next) = 0
    BY <1>3 DEF Total
  <1>5. \A v \in VMs : \A d \in 1..MaxDisks :
                ~Holding(vm[v], d, next) /\ ~Saving(vm[v], d, next)
    <2>1. \A v \in VMs : Known(vm[v])
      BY DEF ImageInv, Allocated
    <2> QED BY <1>1, <2>1 DEF Known, Holding, Saving
  <1>6. Holders(next) = {}
    BY <1>5, HoldersAre
  <1> QED BY <1>2, <1>4, <1>5, <1>6

\* Request r allocates an image of template t: only "save as" has SOURCE "-".
Fits(t, r) ==
    /\ r.vm # NoVm => t.path = "" /\ t.source = "-" /\ t.type # "DATABLOCK"
    /\ r.vm = NoVm /\ Sources => t.source # "-"

LEMMA InsertKeeps ==
    ASSUME ImageInv, NEW t \in Template, NEW r \in Request, request = Idle, insert(t, r),
           Fits(t, r), UNCHANGED <<vm, ops, driver, daemon, faulty, removed>>
    PROVE  ImageInv'
  <1>1. PICK image : image = [state |-> "LOCKED", type |-> t.type, running |-> 0,
                              persistent_img |-> t.persistent, public |-> 0,
                              source |-> t.source, path |-> t.path]
    OBVIOUS
  <1>2. /\ t.type \in ImageType /\ t.persistent \in Bit /\ t.source \in Source /\ t.path \in Path
    BY DEF Template
  <1>3. /\ image \in Image /\ image.state = "LOCKED" /\ image.running = 0 /\ image.public = 0
        /\ image.type = t.type /\ image.source = t.source /\ image.path = t.path
    <2>1. "LOCKED" \in ImageState /\ 0 \in Bit
      BY DEF ImageState, Bit
    <2> QED BY <1>1, <1>2, <2>1 DEF Image
  <1>4. next < MaxImages /\ next' = next + 1
    BY DEF insert
  <1>12. img' = [img EXCEPT ![next] = image]
    BY <1>1 DEF insert
  <1>5. next \in Images /\ next \in Nat /\ next' \in 0..MaxImages /\ next' \in Int /\ next <= next'
    BY <1>4, Typed, Identifiers
  <1>6. /\ request' \in Request /\ request'.step = "register" /\ request'.iid = next
        /\ request'.vm = r.vm
    <2>1. request' = [r EXCEPT !.step = "register", !.iid = next]
      BY DEF insert
    <2> QED BY <1>5, <2>1 DEF Request, Steps
  <1>7. img' \in [Images -> Image] /\ \A j \in Images : img'[j] = IF j = next THEN image ELSE img[j]
    BY <1>3, <1>5, <1>12, Typed
  <1>8. WellTyped'
    BY <1>5, <1>6, <1>7, Typed DEF WellTyped
  <1>9. Allocated'
    <2>1. \A j \in Images : j >= next' =>
            img'[j].state = "NONE" /\ \A a \in Actions : ops'[j][a] = 0
      <3> SUFFICES ASSUME NEW j \in Images, j >= next'
                   PROVE img'[j].state = "NONE" /\ \A a \in Actions : ops'[j][a] = 0
        OBVIOUS
      <3>1. j # next /\ j >= next
        BY <1>4, <1>5, Identifiers
      <3> QED BY <1>7, <3>1 DEF ImageInv, Allocated
    <2>2. request'.iid < next' /\ request'.iid # NoImage
      BY <1>4, <1>5, <1>6, Identifiers
    <2>3. \A v \in VMs : Shape(vm[v])' /\ Known(vm[v])'
      BY <1>5, VmsKnown
    <2> QED BY <1>6, <2>1, <2>2, <2>3 DEF Allocated
  <1>10. Faultless'
    BY DEF ImageInv, Faultless
  <1>11. ASSUME NEW j \in Images PROVE ImageOK(j)'
    <2>1. Asked(j)' <=> j = next
      BY <1>6 DEF Asked
    <2>2. ~Asked(j)
      BY NoneRecords DEF Asked
    <2>3. Total(j)' = Total(j)
      BY DEF Total
    <2>4. CASE j # next
      BY <1>7, <2>1, <2>2, <2>3, <2>4, Untouched
    <2>5. CASE j = next
      <3>1. /\ img'[j] = image /\ Total(j)' = 0 /\ Asked(j)'
        BY <1>7, <2>1, <2>3, <2>5, <1>5, NextIsNew
      <3>2. \A v \in VMs : \A d \in 1..MaxDisks :
                ~Holding(vm'[v], d, j) /\ ~Saving(vm'[v], d, j)
        BY <2>5, <1>5, NextIsNew
      <3>3. Holders(j)' = {} /\ Cardinality(Holders(j)') = 0
        <4>1. Holders(j)' = {}
          BY <3>2, HoldersAre
        <4> QED BY <4>1, FS_EmptySet
      <3>4. Closed(j)'
        BY <1>3, <3>1 DEF Closed
      <3>5. Work(j)'
        <4>1. request'.vm # NoVm =>
              img'[j].path = "" /\ img'[j].source = "-" /\ img'[j].type # "DATABLOCK"
          BY <1>3, <1>6, <3>1 DEF Fits
        <4>2. Total(j)' <= 1 /\ Total(j)' = 0 /\ Total(j)' # 1
          BY <3>1
        <4> QED BY <3>2, <3>4, <4>1, <4>2, Zenon DEF Work
      <3>6. Counted(j)'
        BY <1>3, <3>1, <3>3 DEF Counted
      <3>7. Private(j)'
        BY <1>3, <3>1, <3>2, <3>3 DEF Private
      <3>8. Present(j)' /\ Waits(j)'
        BY <3>1, <3>3 DEF Present, Waits
      <3>9. Registers(j)'
        BY <1>3, <1>6, <3>1 DEF Registers, Sources, Fits
      <3> QED BY <3>5, <3>6, <3>7, <3>8, <3>9 DEF ImageOK
    <2> QED BY <2>4, <2>5
  <1> QED BY <1>8, <1>9, <1>10, <1>11 DEF ImageInv

LEMMA AllocateKeeps ==
    ASSUME ImageInv, NEW t \in Templates, NEW admin, allocate(t, admin)
    PROVE  ImageInv'
  <1>1. t \in Template /\ Idle \in Request /\ Idle.vm = NoVm
    BY RepositoryAssumption, NoneRecords
  <1> QED BY <1>1, InsertKeeps DEF allocate, Sources, Fits

LEMMA SaveDiskKeeps ==
    ASSUME "DATABLOCK" \notin Types, ImageInv, NEW v \in VMs, NEW d \in 1..MaxDisks,
           NEW type \in Types, SaveDisk(v, d, type)
    PROVE  ImageInv'
  <1>1. PICK t : t = [type |-> type, path |-> "", source |-> "-",
                      sized |-> FALSE, persistent |-> 0]
    OBVIOUS
  <1>2. t \in Template /\ t.path = "" /\ t.source = "-" /\ t.type = type
    BY <1>1, RepositoryAssumption DEF Template, Path, Source, Bit
  <1>3. PICK r : r = [Idle EXCEPT !.vm = v, !.disk = d]
    OBVIOUS
  <1>4. r \in Request /\ r.vm = v
    <2>1. d \in Nat
      OBVIOUS
    <2> QED BY <1>3, <2>1, NoneRecords DEF Request
  <1>5. request = Idle /\ insert(t, r) /\ UNCHANGED <<vm, ops, driver, daemon, faulty, removed>>
    BY <1>1, <1>3 DEF SaveDisk
  <1>6. type # "DATABLOCK" /\ v # NoVm
    BY RepositoryAssumption
  <1> QED BY <1>2, <1>4, <1>5, <1>6, InsertKeeps DEF Fits

\* What happens to one image and its driver.
LEMMA DropKeeps ==
    ASSUME ImageInv, NEW i \in Images, img' = [img EXCEPT ![i] = NoneImage],
           next' = next, vm' = vm, ops' \in [Images -> [Actions -> Nat]],
           \A j \in Images : Total(j)' = Total(j),
           \A j \in Images : \A a \in Actions : ops'[j][a] <= ops[j][a],
           request' = request \/ (request' = Idle /\ request.iid = i),
           Holders(i) # {} => removed', removed => removed',
           UNCHANGED <<driver, daemon, faulty>>
    PROVE  ImageInv'
  <1>1. /\ img' \in [Images -> Image]
        /\ \A j \in Images : img'[j] = IF j = i THEN NoneImage ELSE img[j]
    BY NoneRecords, Typed
  <1>2. request' \in Request
    BY Typed, NoneRecords
  <1>3. WellTyped'
    BY <1>1, <1>2, Typed DEF WellTyped, ImageInv
  <1>4. Allocated'
    <2>1. \A v \in VMs : Shape(vm[v])' /\ Known(vm[v])'
      BY Typed, VmsKnown
    <2>2. /\ request'.iid < next'
          /\ request'.step = "idle" <=> request'.iid = NoImage
          /\ request'.step = "save" => request'.vm # NoVm
      <3>1. CASE request' = request
        BY <3>1 DEF ImageInv, Allocated
      <3>2. CASE request' = Idle
        BY <3>2, NoneRecords, Typed DEF NoImage
      <3> QED BY <3>1, <3>2
    <2>3. ASSUME NEW j \in Images, j >= next', NEW a \in Actions
          PROVE  img'[j].state = "NONE" /\ ops'[j][a] = 0
      <3>1. img[j].state = "NONE" /\ ops[j][a] = 0
        BY <2>3 DEF ImageInv, Allocated
      <3>2. ops'[j][a] \in Nat
        BY <2>3
      <3>3. ops'[j][a] <= ops[j][a]
        BY <2>3
      <3> QED BY <1>1, <3>1, <3>2, <3>3, NoneRecords
    <2>4. "RM" \in Actions
      BY DEF Actions
    <2> QED BY <2>1, <2>2, <2>3, <2>4 DEF Allocated
  <1>5. Faultless'
    BY DEF ImageInv, Faultless
  <1>6. ASSUME NEW j \in Images PROVE ImageOK(j)'
    <2>1. /\ Asked(j)' => Asked(j) /\ request'.vm = request.vm
          /\ j # i => (Asked(j)' <=> Asked(j)) /\ (Asked(j) => request'.vm = request.vm)
      BY NoneRecords DEF Asked
    <2>2. CASE j # i
      BY <1>1, <2>1, <2>2, Untouched
    <2>3. CASE j = i
      <3>1. img'[j].state = "NONE"
        BY <1>1, <2>3, NoneRecords
      <3>2. Holders(j)' = Holders(j)
        BY HoldersKept
      <3>3. Work(j)'
        <4>1. Work(j) /\ Total(j)' = Total(j)
          BY DEF ImageInv, ImageOK
        <4>2. Closed(j)'
          BY <3>1 DEF Closed
        <4> QED BY <2>1, <3>1, <4>1, <4>2 DEF Work
      <3>4. Counted(j)' /\ Private(j)' /\ Waits(j)' /\ Registers(j)'
        BY <3>1 DEF Counted, Private, Waits, Registers
      <3>5. Present(j)'
        BY <2>3, <3>2 DEF Present
      <3> QED BY <3>3, <3>4, <3>5 DEF ImageOK
    <2> QED BY <2>2, <2>3
  <1> QED BY <1>3, <1>4, <1>5, <1>6 DEF ImageInv

LEMMA NotHeld ==
    ASSUME ImageInv, NEW i \in Images, img[i].state \notin {"NONE", "USED"}
    PROVE  Holders(i) = {} /\ Cardinality(Holders(i)) = 0 /\ i < next
  <1>1. Counted(i)
    BY DEF ImageInv, ImageOK
  <1>2. Holders(i) = {}
    BY <1>1 DEF Counted
  <1>3. i < next
    BY Typed, Identifiers DEF ImageInv, Allocated
  <1> QED BY <1>2, <1>3, FS_EmptySet

LEMMA Known1 ==
    ASSUME ImageInv, NEW i \in Images, Asked(i) \/ img[i].state # "NONE" \/ Total(i) # 0
    PROVE  i < next
  <1>1. CASE Asked(i)
    BY <1>1 DEF Asked, ImageInv, Allocated
  <1>2. CASE img[i].state # "NONE"
    BY <1>2, Typed, Identifiers DEF ImageInv, Allocated
  <1>3. CASE Total(i) # 0
    <2>1. ASSUME i >= next PROVE FALSE
      <3>1. \A a \in Actions : ops[i][a] = 0
        BY <2>1 DEF ImageInv, Allocated
      <3>2. ops[i]["CP"] = 0 /\ ops[i]["MV"] = 0 /\ ops[i]["MKFS"] = 0
        BY <3>1 DEF Actions
      <3> QED BY <1>3, <3>2 DEF Total
    <2> QED BY <2>1, Typed, Identifiers
  <1> QED BY <1>1, <1>2, <1>3

\* Nothing goes on with an image that is not LOCKED.
LEMMA OpenImage ==
    ASSUME ImageInv, NEW i \in Images, img[i].state \notin {"NONE", "LOCKED"}
    PROVE  /\ Total(i) = 0 /\ ~Asked(i)
           /\ \A v \in VMs : \A d \in 1..MaxDisks : ~Saving(vm[v], d, i)
  <1>1. Work(i) /\ ~Closed(i) /\ Total(i) \in Nat
    BY Typed, TotalNat DEF ImageInv, ImageOK, Closed
  <1>2. Total(i) <= 1 /\ Total(i) # 1
    BY <1>1, Zenon DEF Work
  <1>3. Total(i) = 0
    BY <1>1, <1>2
  <1>4. ~Asked(i) /\ \A v \in VMs : \A d \in 1..MaxDisks : ~Saving(vm[v], d, i)
    BY <1>1, Zenon DEF Work
  <1> QED BY <1>3, <1>4

RequestMoves(i) ==
    \/ request' = request
    \/ request.iid = i /\ request' = Idle
    \/ /\ request.iid = i /\ request.step = "register" /\ request.vm # NoVm
       /\ request' = [request EXCEPT !.step = "save"]

\* Only operations on image i are sent or answered.
OpsOf(i) == \E f \in [Actions -> Nat] : ops' = [ops EXCEPT ![i] = f]

\* A step that changes one image and its operations.
LEMMA OneImage ==
    ASSUME ImageInv, NEW i \in Images, i < next, NEW image \in Image,
           img' = [img EXCEPT ![i] = image], OpsOf(i), RequestMoves(i), ImageOK(i)',
           UNCHANGED <<vm, next, driver, daemon, faulty, removed>>
    PROVE  ImageInv'
  <1>1. /\ img' \in [Images -> Image] /\ img'[i] = image
        /\ \A j \in Images : j # i => img'[j] = img[j]
    BY Typed
  <1>2. /\ ops' \in [Images -> [Actions -> Nat]]
        /\ \A j \in Images : j # i => ops'[j] = ops[j]
    <2>1. PICK f \in [Actions -> Nat] : ops' = [ops EXCEPT ![i] = f]
      BY DEF OpsOf
    <2> QED BY <2>1, Typed
  <1>3. request' \in Request /\ (request' # request => request.iid = i)
    BY Typed, NoneRecords DEF RequestMoves, Request, Steps
  <1>4. WellTyped'
    BY <1>1, <1>2, <1>3, Typed DEF WellTyped
  <1>5. Allocated'
    <2>1. \A v \in VMs : Shape(vm[v])' /\ Known(vm[v])'
      BY Typed, VmsKnown
    <2>2. /\ request'.iid < next'
          /\ request'.step = "idle" <=> request'.iid = NoImage
          /\ request'.step = "save" => request'.vm # NoVm
      <3>1. CASE request' = request
        BY <3>1 DEF ImageInv, Allocated
      <3>2. CASE request' = Idle
        BY <3>2, NoneRecords, Typed DEF NoImage
      <3>3. CASE /\ request.iid = i /\ request.step = "register" /\ request.vm # NoVm
                 /\ request' = [request EXCEPT !.step = "save"]
        <4>1. request'.step = "save" /\ request'.iid = i /\ request'.vm # NoVm
          BY <3>3, Typed DEF Request
        <4> QED BY <4>1, Identifiers
      <3> QED BY <3>1, <3>2, <3>3 DEF RequestMoves
    <2>3. ASSUME NEW j \in Images, j >= next'
          PROVE  img'[j].state = "NONE" /\ \A a \in Actions : ops'[j][a] = 0
      <3>1. j # i
        BY <2>3, Typed, Identifiers
      <3> QED BY <1>1, <1>2, <2>3, <3>1 DEF ImageInv, Allocated
    <2> QED BY <2>1, <2>2, <2>3 DEF Allocated
  <1>6. Faultless'
    BY DEF ImageInv, Faultless
  <1>7. ASSUME NEW j \in Images, j # i PROVE ImageOK(j)'
    <2>1. /\ Asked(j)' <=> Asked(j)
          /\ Asked(j) => request'.vm = request.vm
      <3>1. CASE request' = request
        BY <3>1 DEF Asked
      <3>2. CASE request' = Idle /\ request.iid = i
        BY <1>7, <3>2, NoneRecords DEF Asked
      <3>3. CASE request.iid = i /\ request' = [request EXCEPT !.step = "save"]
        <4>1. request'.iid = i
          BY <3>3, Typed DEF Request
        <4> QED BY <1>7, <3>3, <4>1 DEF Asked
      <3> QED BY <3>1, <3>2, <3>3 DEF RequestMoves
    <2>2. Total(j)' = Total(j)
      BY <1>2, <1>7 DEF Total
    <2> QED BY <1>1, <1>7, <2>1, <2>2, Untouched
  <1> QED BY <1>4, <1>5, <1>6, <1>7 DEF ImageInv

\* An image that keeps its users and its protection.
LEMMA NewState ==
    ASSUME ImageInv, NEW i \in Images, UNCHANGED <<vm, faulty, removed>>,
           Work(i)', Waits(i)', Registers(i)', img[i].state # "NONE",
           img'[i].running = img[i].running,
           img'[i].persistent_img = img[i].persistent_img, img'[i].public = img[i].public,
           \/ img'[i].state = img[i].state
           \/ img[i].state # "USED" /\ img'[i].state \notin {"USED", "NONE"}
    PROVE  ImageOK(i)'
  <1>1. Holders(i)' = Holders(i)
    BY HoldersKept
  <1>2. Counted(i) /\ Private(i) /\ Present(i)
    BY DEF ImageInv, ImageOK
  <1>3. Counted(i)'
    BY <1>1, <1>2 DEF Counted
  <1>4. Private(i)'
    BY <1>1, <1>2 DEF Private
  <1>5. Present(i)'
    BY <1>1, <1>2 DEF Present
  <1> QED BY <1>3, <1>4, <1>5 DEF ImageOK

\* The number of operations a on image i changes.
OpsBecome(i, a, n) == ops' = [ops EXCEPT ![i][a] = n]

LEMMA OpsChange ==
    ASSUME ImageInv, NEW i \in Images, NEW a \in Actions, NEW n \in Nat,
           OpsBecome(i, a, n)
    PROVE  /\ OpsOf(i)
           /\ a = "RM" => Total(i)' = Total(i)
           /\ a # "RM" => Total(i)' = Total(i) + n - ops[i][a]
           /\ \A j \in Images : j # i => ops'[j] = ops[j]
           /\ ops'[i][a] = n /\ \A b \in Actions \ {a} : ops'[i][b] = ops[i][b]
  <1>1. PICK f : f = [ops[i] EXCEPT ![a] = n]
    OBVIOUS
  <1>2. ops[i] \in [Actions -> Nat]
    BY Typed
  <1>3. f \in [Actions -> Nat] /\ f[a] = n /\ \A b \in Actions \ {a} : f[b] = ops[i][b]
    BY <1>1, <1>2
  <1>4. ops' = [ops EXCEPT ![i] = f]
    BY <1>1 DEF OpsBecome
  <1>5. ops'[i] = f /\ \A j \in Images : j # i => ops'[j] = ops[j]
    BY <1>4, Typed
  <1>6. PICK c \in Nat, m \in Nat, k \in Nat :
          c = ops[i]["CP"] /\ m = ops[i]["MV"] /\ k = ops[i]["MKFS"]
    BY <1>2 DEF Actions
  <1>7. Total(i) = c + m + k
    BY <1>6 DEF Total
  <1>8. Total(i)' = f["CP"] + f["MV"] + f["MKFS"]
    BY <1>5 DEF Total
  <1>9. /\ f["CP"] = IF a = "CP" THEN n ELSE c
        /\ f["MV"] = IF a = "MV" THEN n ELSE m
        /\ f["MKFS"] = IF a = "MKFS" THEN n ELSE k
    BY <1>3, <1>6 DEF Actions
  <1>10. a = "RM" => Total(i)' = Total(i)
    BY <1>7, <1>8, <1>9
  <1>11. ASSUME a # "RM" PROVE Total(i)' = Total(i) + n - ops[i][a]
    <2>1. CASE a = "CP"
      <3>1. f["CP"] = n /\ f["MV"] = m /\ f["MKFS"] = k /\ ops[i][a] = c
        BY <1>6, <1>9, <2>1
      <3>2. (n + m) + k = ((c + m) + k) + n - c
        OBVIOUS
      <3> QED BY <1>7, <1>8, <3>1, <3>2
    <2>2. CASE a = "MV"
      <3>1. f["CP"] = c /\ f["MV"] = n /\ f["MKFS"] = k /\ ops[i][a] = m
        BY <1>6, <1>9, <2>2
      <3>2. (c + n) + k = ((c + m) + k) + n - m
        OBVIOUS
      <3> QED BY <1>7, <1>8, <3>1, <3>2
    <2>3. CASE a = "MKFS"
      <3>1. f["CP"] = c /\ f["MV"] = m /\ f["MKFS"] = n /\ ops[i][a] = k
        BY <1>6, <1>9, <2>3
      <3>2. (c + m) + n = ((c + m) + k) + n - k
        OBVIOUS
      <3> QED BY <1>7, <1>8, <3>1, <3>2
    <2> QED BY <1>11, <2>1, <2>2, <2>3 DEF Actions
  <1>12. OpsOf(i)
    BY <1>3, <1>4 DEF OpsOf
  <1> QED BY <1>3, <1>5, <1>10, <1>11, <1>12

LEMMA Sent ==
    ASSUME ImageInv, NEW i \in Images, NEW a \in Actions, Send(a, i), driver
    PROVE  /\ OpsOf(i)
           /\ Total(i)' = IF a = "RM" THEN Total(i) ELSE Total(i) + 1
           /\ \A j \in Images : j # i => ops'[j] = ops[j]
  <1>1. PICK n \in Nat : n = ops[i][a]
    BY Typed
  <1>2. PICK m \in Nat : m = n + 1
    OBVIOUS
  <1>3. OpsBecome(i, a, m)
    BY <1>1, <1>2 DEF Send, OpsBecome
  <1>4. Total(i) \in Nat
    BY Typed, TotalNat
  <1>5. /\ OpsOf(i)
        /\ a = "RM" => Total(i)' = Total(i)
        /\ a # "RM" => Total(i)' = Total(i) + m - ops[i][a]
        /\ \A j \in Images : j # i => ops'[j] = ops[j]
    BY <1>3, OpsChange
  <1>6. Total(i) + m - n = Total(i) + 1
    BY <1>2, <1>4
  <1> QED BY <1>1, <1>5, <1>6

LEMMA NothingSent ==
    ASSUME ImageInv, ops' = ops, NEW i \in Images
    PROVE  /\ Total(i)' = Total(i)
           /\ OpsOf(i)
  <1>1. ops[i] \in [Actions -> Nat] /\ ops = [ops EXCEPT ![i] = ops[i]]
    BY Typed
  <1> QED BY <1>1 DEF Total, OpsOf

LEMMA SameImages ==
    ASSUME ImageInv, img' = img, NEW i \in Images
    PROVE  img' = [img EXCEPT ![i] = img[i]] /\ img[i] \in Image /\ img'[i] = img[i]
  BY Typed

LEMMA RegisterKeeps ==
    ASSUME ImageInv, register_image
    PROVE  ImageInv'
  <1>1. PICK i : i = request.iid
    OBVIOUS
  <1>2. /\ request.step = "register" /\ UNCHANGED <<vm, next, driver, daemon, faulty, removed>>
    BY DEF register_image
  <1>3. i \in Images /\ Asked(i)
    BY <1>1, <1>2, Typed DEF ImageInv, Allocated, Asked, Request
  <1>4. i < next
    BY <1>3, Known1
  <1>5. Work(i) /\ Counted(i) /\ Waits(i) /\ Registers(i)
    BY <1>3 DEF ImageInv, ImageOK
  <1>6. /\ Closed(i) /\ Total(i) = 0
        /\ \A v \in VMs : \A d \in 1..MaxDisks : ~Saving(vm[v], d, i)
        /\ \A v \in VMs : \A d \in 1..MaxDisks : ~Saving(vm'[v], d, i)
    BY <1>2, <1>3, <1>5, Zenon DEF Work
  <1>7. CASE ~driver \/ ~Exists(i)
    <2>1. request' = Idle /\ img' = img /\ ops' = ops
      BY <1>1, <1>7 DEF register_image, AfterRegister
    <2>2. RequestMoves(i) /\ ~Asked(i)'
      BY <1>1, <2>1, NoneRecords DEF RequestMoves, Asked
    <2>3. Total(i)' = Total(i) /\ img'[i] = img[i]
      BY <1>3, <2>1, NothingSent
    <2>4. Work(i)'
      BY <1>3, <1>5, <1>6, <2>2, <2>3, WorkShrinks DEF LessWork
    <2>5. Waits(i)' /\ Registers(i)'
      <3>1. ~driver => faulty'
        BY <1>2 DEF ImageInv, Faultless
      <3>2. driver => img'[i].state = "NONE"
        BY <1>3, <1>7, <2>3 DEF Exists
      <3> QED BY <2>2, <3>1, <3>2 DEF Waits, Registers
    <2>6. CASE img[i].state # "NONE"
      <3>1. ImageOK(i)'
        BY <1>2, <1>3, <2>3, <2>4, <2>5, <2>6, NewState
      <3>2. /\ OpsOf(i)
            /\ img' = [img EXCEPT ![i] = img[i]] /\ img[i] \in Image
        BY <1>3, <2>1, NothingSent, SameImages
      <3> QED BY <1>2, <1>3, <1>4, <2>2, <3>1, <3>2, OneImage
    <2>7. CASE img[i].state = "NONE"
      <3>1. ImageOK(i)'
        <4>1. Counted(i)' /\ Private(i)'
          BY <2>3, <2>7 DEF Counted, Private
        <4>2. Present(i)'
          <5>1. Holders(i)' = Holders(i)
            BY <1>2, HoldersKept
          <5> QED BY <1>2, <1>3, <2>3, <5>1 DEF Present, ImageInv, ImageOK
        <4> QED BY <2>4, <2>5, <4>1, <4>2 DEF ImageOK
      <3>2. /\ OpsOf(i)
            /\ img' = [img EXCEPT ![i] = img[i]] /\ img[i] \in Image
        BY <1>3, <2>1, NothingSent, SameImages
      <3> QED BY <1>2, <1>3, <1>4, <2>2, <3>1, <3>2, OneImage
    <2> QED BY <2>6, <2>7
  <1>8. CASE driver /\ Exists(i)
    <2>1. /\ request' = IF request.vm = NoVm THEN Idle ELSE [request EXCEPT !.step = "save"]
          /\ img[i].state = "LOCKED"
      BY <1>1, <1>6, <1>8 DEF register_image, AfterRegister, Exists, Closed
    <2>2. RequestMoves(i)
      BY <1>1, <1>2, <2>1 DEF RequestMoves
    <2>3. request.vm # NoVm =>
            img[i].path = "" /\ img[i].source = "-" /\ img[i].type # "DATABLOCK"
      BY <1>3, <1>5, <2>1 DEF Work
    <2>4. Registers(i)'
      BY <1>2, <1>3, <2>1, NoneRecords, Typed DEF Registers, Asked, Request
    <2>5. CASE \E a \in {"CP", "MKFS"} : Send(a, i) /\ img' = img /\ request.vm = NoVm
      <3>1. request' = Idle /\ ~Asked(i)'
        BY <2>1, <2>5, NoneRecords DEF Asked
      <3>2. /\ Total(i)' = 1 /\ OpsOf(i)
        <4>1. PICK a \in {"CP", "MKFS"} : Send(a, i)
          BY <2>5
        <4>2. a \in Actions /\ a # "RM" /\ driver
          BY <1>8 DEF Actions
        <4>3. /\ OpsOf(i)
              /\ Total(i)' = Total(i) + 1
          BY <1>3, <4>1, <4>2, Sent
        <4> QED BY <1>6, <4>3
      <3>3. img' = [img EXCEPT ![i] = img[i]] /\ img[i] \in Image /\ img'[i] = img[i]
        BY <1>3, <2>5, SameImages
      <3>4. Work(i)'
        <4>1. Closed(i)' /\ Total(i)' <= 1
          BY <1>6, <3>2, <3>3 DEF Closed
        <4> QED BY <1>6, <3>1, <4>1, Zenon DEF Work
      <3>5. Waits(i)'
        BY <3>2 DEF Waits
      <3>6. ImageOK(i)'
        BY <1>2, <1>3, <2>1, <2>4, <3>3, <3>4, <3>5, NewState
      <3> QED BY <1>2, <1>3, <1>4, <2>2, <3>2, <3>3, <3>6, OneImage
    <2>6. CASE /\ ops' = ops /\ img[i].path = "" /\ img[i].source = "-" /\ img' = img
      <3>1. img' = [img EXCEPT ![i] = img[i]] /\ img[i] \in Image /\ img'[i] = img[i]
        BY <1>3, <2>6, SameImages
      <3>2. Total(i)' = Total(i) /\ OpsOf(i)
        BY <1>3, <2>6, NothingSent
      <3>3. Asked(i)' => request'.vm = request.vm /\ request.vm # NoVm
        BY <1>3, <2>1, NoneRecords, Typed DEF Asked, Request
      <3>4. Work(i)'
        BY <1>3, <1>5, <1>6, <3>1, <3>2, <3>3, WorkShrinks DEF LessWork
      <3>5. Waits(i)'
        <4>1. CASE request.vm = NoVm
          BY <1>3, <1>5, <2>1, <2>6, <4>1 DEF Registers, Waits
        <4>2. CASE request.vm # NoVm
          <5>1. Asked(i)'
            BY <1>1, <1>3, <2>1, <4>2, Typed DEF Asked, Request
          <5> QED BY <5>1 DEF Waits
        <4> QED BY <4>1, <4>2
      <3>6. ImageOK(i)'
        BY <1>2, <1>3, <2>1, <2>4, <3>1, <3>4, <3>5, NewState
      <3> QED BY <1>2, <1>3, <1>4, <2>2, <3>1, <3>2, <3>6, OneImage
    <2>7. CASE /\ ops' = ops /\ img[i].source # "-"
               /\ img' = [img EXCEPT ![i].state = "READY"]
      <3>1. PICK image : image = [img[i] EXCEPT !.state = "READY"]
        OBVIOUS
      <3>2. img' = [img EXCEPT ![i] = image]
        BY <2>7, <3>1
      <3>3. /\ image \in Image /\ image.state = "READY" /\ image.running = img[i].running
            /\ image.persistent_img = img[i].persistent_img /\ image.public = img[i].public
        <4>1. img[i] \in Image /\ "READY" \in ImageState
          BY <1>3, Typed DEF ImageState
        <4> QED BY <3>1, <4>1 DEF Image
      <3>4. img'[i] = image
        BY <1>3, <3>2, Typed
      <3>5. Total(i)' = 0 /\ OpsOf(i)
        BY <1>3, <1>6, <2>7, NothingSent
      <3>6. ~Asked(i)'
        BY <2>1, <2>3, <2>7, NoneRecords DEF Asked
      <3>7. Work(i)'
        <4>1. Total(i)' <= 1 /\ Total(i)' # 1
          BY <3>5
        <4> QED BY <1>6, <3>6, <4>1, Zenon DEF Work
      <3>8. Waits(i)'
        BY <3>3, <3>4 DEF Waits
      <3>9. ImageOK(i)'
        BY <1>2, <1>3, <2>1, <2>4, <3>3, <3>4, <3>7, <3>8, NewState
      <3> QED BY <1>2, <1>3, <1>4, <2>2, <3>2, <3>3, <3>5, <3>9, OneImage
    <2> QED BY <1>1, <1>8, <2>1, <2>3, <2>5, <2>6, <2>7 DEF register_image
  <1> QED BY <1>7, <1>8

\* An image that was removed.
LEMMA NoneOK ==
    ASSUME ImageInv, NEW i \in Images, img'[i] = img[i], img[i].state = "NONE",
           UNCHANGED <<vm, removed>>, Work(i)'
    PROVE  ImageOK(i)'
  <1>1. Holders(i)' = Holders(i)
    BY HoldersKept
  <1>2. Counted(i)' /\ Private(i)' /\ Waits(i)' /\ Registers(i)'
    BY DEF Counted, Private, Waits, Registers
  <1>3. Present(i)'
    BY <1>1 DEF Present, ImageInv, ImageOK
  <1> QED BY <1>2, <1>3 DEF ImageOK

LEMMA AnswerKeeps ==
    ASSUME ImageInv, NEW i \in Images, NEW a \in Actions, NEW ok \in BOOLEAN,
           Answer(i, a, ok)
    PROVE  ImageInv'
  <1>1. UNCHANGED <<vm, next, request, driver, daemon, faulty>>
    BY DEF Answer
  <1>2. PICK m \in Nat : m = ops[i][a]
    BY Typed
  <1>3. m > 0
    BY <1>2 DEF Answer
  <1>4. PICK n \in Nat : n = m - 1
    BY <1>3
  <1>5. OpsBecome(i, a, n)
    BY <1>2, <1>4 DEF OpsBecome, Answer
  <1>6. /\ OpsOf(i)
        /\ a = "RM" => Total(i)' = Total(i)
        /\ a # "RM" => Total(i)' = Total(i) + n - ops[i][a]
        /\ \A j \in Images : j # i => ops'[j] = ops[j]
        /\ ops'[i][a] = n /\ \A b \in Actions \ {a} : ops'[i][b] = ops[i][b]
    BY <1>5, OpsChange
  <1>7. i < next
    <2>1. ~(i >= next)
      BY <1>2, <1>3 DEF ImageInv, Allocated
    <2> QED BY <2>1, Typed, Identifiers
  <1>8. RequestMoves(i) /\ (Asked(i)' <=> Asked(i))
    BY <1>1 DEF RequestMoves, Asked
  <1>9. CASE a = "RM" /\ ~Exists(i)
    <2>1. img' = img /\ removed' = removed
      BY <1>9 DEF Answer
    <2>2. img' = [img EXCEPT ![i] = img[i]] /\ img[i] \in Image /\ img'[i] = img[i]
      BY <2>1, SameImages
    <2>3. ImageOK(i)'
      BY <1>1, <1>6, <1>8, <1>9, <2>1, <2>2, Untouched
    <2> QED BY <1>1, <1>6, <1>7, <1>8, <2>1, <2>2, <2>3, OneImage
  <1>10. CASE a = "RM" /\ Exists(i)
    <2>1. img' = [img EXCEPT ![i] = NoneImage] /\ removed' = (removed \/ Holders(i) # {})
      BY <1>10 DEF Answer, drop
    <2>2. \A j \in Images : Total(j)' = Total(j)
      BY <1>6, <1>10, Typed, TotalNat
    <2>3. ops' \in [Images -> [Actions -> Nat]]
      BY <1>6, Typed DEF OpsOf
    <2>4. \A j \in Images : \A b \in Actions : ops'[j][b] <= ops[j][b]
      <3> SUFFICES ASSUME NEW j \in Images, NEW b \in Actions PROVE ops'[j][b] <= ops[j][b]
        OBVIOUS
      <3>1. ops[j][b] \in Nat
        BY Typed
      <3>2. CASE j = i /\ b = a
        BY <1>2, <1>4, <1>6, <3>2
      <3>3. CASE ~(j = i /\ b = a)
        <4>1. ops'[j][b] = ops[j][b]
          BY <1>6, <3>3
        <4> QED BY <3>1, <4>1
      <3> QED BY <3>2, <3>3
    <2>5. (Holders(i) # {} => removed') /\ (removed => removed')
      BY <2>1
    <2> QED BY <1>1, <2>1, <2>2, <2>3, <2>4, <2>5, DropKeeps
  <1>11. CASE a # "RM"
    <2>1. /\ Work(i) /\ Total(i) \in Nat /\ ops[i][a] <= Total(i)
      BY <1>11, Typed, TotalNat DEF ImageInv, ImageOK, Actions
    <2>2. Total(i) <= 1
      BY <2>1 DEF Work
    <2>3. Total(i) = 1 /\ m = 1
      BY <1>2, <1>3, <2>1, <2>2
    <2>4. Total(i)' = 0
      BY <1>2, <1>4, <1>6, <1>11, <2>3
    <2>5. /\ Closed(i) /\ ~Asked(i)
          /\ \A v \in VMs : \A d \in 1..MaxDisks : ~Saving(vm[v], d, i)
      <3>1. Total(i) = 1 /\ Total(i) # 0
        BY <2>3
      <3> QED BY <2>1, <3>1, Zenon DEF Work
    <2>6. \A v \in VMs : \A d \in 1..MaxDisks : ~Saving(vm'[v], d, i)
      BY <1>1, <2>5
    <2>7. Work(i)'
      <3>1. Total(i)' <= 1 /\ Total(i)' # 1
        BY <2>4
      <3> QED BY <1>8, <2>5, <2>6, <3>1, Zenon DEF Work
    <2>8. Registers(i)'
      BY <1>8, <2>5 DEF Registers
    <2>9. CASE ~Exists(i)
      <3>1. img' = img /\ removed' = removed /\ img[i].state = "NONE"
        BY <2>9 DEF Answer, Exists
      <3>2. img' = [img EXCEPT ![i] = img[i]] /\ img[i] \in Image /\ img'[i] = img[i]
        BY <3>1, SameImages
      <3>3. ImageOK(i)'
        BY <1>1, <2>7, <3>1, <3>2, NoneOK
      <3> QED BY <1>1, <1>6, <1>7, <1>8, <3>1, <3>2, <3>3, OneImage
    <2>10. CASE Exists(i)
      <3>1. PICK image : image = Answered(img[i], a, ok)
        OBVIOUS
      <3>2. img' = [img EXCEPT ![i] = image] /\ removed' = removed
        BY <1>11, <2>10, <3>1 DEF Answer
      <3>3. PICK s \in {"READY", "ERROR"}, x \in Source :
              image = [img[i] EXCEPT !.state = s, !.source = x]
        <4>1. img[i].source \in Source /\ "repository" \in Source
          BY Typed DEF Image, Source
        <4> QED BY <3>1, <4>1 DEF Answered
      <3>4. /\ image \in Image /\ image.state = s /\ image.running = img[i].running
            /\ image.persistent_img = img[i].persistent_img /\ image.public = img[i].public
        <4>1. img[i] \in Image /\ s \in ImageState
          BY Typed DEF ImageState
        <4> QED BY <3>3, <4>1 DEF Image
      <3>5. img'[i] = image
        BY <3>2, Typed
      <3>6. img[i].state = "LOCKED"
        BY <2>5, <2>10 DEF Exists, Closed
      <3>7. Waits(i)'
        BY <3>4, <3>5 DEF Waits
      <3>8. ImageOK(i)'
        BY <1>1, <2>7, <2>8, <3>2, <3>4, <3>5, <3>6, <3>7, NewState
      <3> QED BY <1>1, <1>6, <1>7, <1>8, <3>2, <3>4, <3>8, OneImage
    <2> QED BY <2>9, <2>10
  <1> QED BY <1>9, <1>10, <1>11

LEMMA FileKept ==
    ASSUME ImageInv, NEW i \in Images, SameFile(i),
           UNCHANGED <<vm, ops, request, faulty, removed>>
    PROVE  /\ Work(i)' /\ Waits(i)' /\ Registers(i)' /\ Present(i)'
           /\ Holders(i)' = Holders(i)
  <1>1. Work(i) /\ Waits(i) /\ Registers(i) /\ Present(i)
    BY DEF ImageInv, ImageOK
  <1>2. Total(i)' = Total(i) /\ (Asked(i)' <=> Asked(i))
    BY DEF Total, Asked
  <1>3. Holders(i)' = Holders(i)
    BY HoldersKept
  <1>4. Work(i)'
    BY <1>1, <1>2, WorkRemains DEF LessWork
  <1>5. Waits(i)'
    BY <1>1, <1>2 DEF Waits, SameFile
  <1>6. Registers(i)' /\ Present(i)'
    BY <1>1, <1>2, <1>3 DEF Registers, Present, SameFile
  <1> QED BY <1>3, <1>4, <1>5, <1>6

\* What an edit leaves alone.
LEMMA EditKeeps ==
    ASSUME ImageInv, NEW i \in Images, Edit(i), NEW image \in Image,
           img' = [img EXCEPT ![i] = image], ImageOK(i)'
    PROVE  ImageInv'
  <1>1. UNCHANGED <<next, vm, ops, request, driver, daemon, faulty, removed>>
        /\ img[i].state # "NONE"
    BY DEF Edit, Exists
  <1>2. i < next
    BY <1>1, Known1
  <1>3. OpsOf(i) /\ RequestMoves(i)
    BY <1>1, NothingSent DEF RequestMoves
  <1> QED BY <1>1, <1>2, <1>3, OneImage

LEMMA EnableKeeps ==
    ASSUME ImageInv, NEW i \in Images, NEW to_enable \in BOOLEAN,
           enable_image(i, to_enable)
    PROVE  ImageInv'
  <1>1. PICK s \in {"READY", "DISABLED"} : img' = [img EXCEPT ![i].state = s]
    BY DEF enable_image
  <1>2. Edit(i) /\ UNCHANGED <<vm, ops, request, faulty, removed>>
        /\ img[i].state \in {"ERROR", "DISABLED", "READY"}
    BY DEF enable_image, Edit
  <1>3. PICK image : image = [img[i] EXCEPT !.state = s]
    OBVIOUS
  <1>4. img' = [img EXCEPT ![i] = image] /\ img[i] \in Image
    BY <1>1, <1>3, Typed
  <1>5. /\ image \in Image /\ image.state = s /\ image.running = img[i].running
        /\ image.persistent_img = img[i].persistent_img /\ image.public = img[i].public
    <2>1. s \in ImageState
      BY DEF ImageState
    <2> QED BY <1>3, <1>4, <2>1 DEF Image
  <1>6. img'[i] = image
    BY <1>4, Typed
  <1>7. /\ Total(i) = 0 /\ ~Asked(i)
        /\ \A v \in VMs : \A d \in 1..MaxDisks : ~Saving(vm[v], d, i)
    BY <1>2, OpenImage
  <1>8. /\ Total(i)' = 0 /\ ~Asked(i)'
        /\ \A v \in VMs : \A d \in 1..MaxDisks : ~Saving(vm'[v], d, i)
    BY <1>2, <1>7 DEF Total, Asked
  <1>9. Work(i)'
    <2>1. Total(i)' <= 1 /\ Total(i)' # 1
      BY <1>8
    <2> QED BY <1>8, <2>1, Zenon DEF Work
  <1>10. Waits(i)' /\ Registers(i)'
    BY <1>5, <1>6, <1>8 DEF Waits, Registers
  <1>11. ImageOK(i)'
    BY <1>2, <1>5, <1>6, <1>9, <1>10, NewState
  <1> QED BY <1>2, <1>4, <1>5, <1>11, EditKeeps

LEMMA PersistentKeeps ==
    ASSUME ImageInv, NEW i \in Images, NEW b \in Bit, persistent(i, b)
    PROVE  ImageInv'
  <1>1. /\ Edit(i) /\ UNCHANGED <<vm, ops, request, faulty, removed>>
        /\ img[i].running = 0 /\ (b = 1 => img[i].public = 0)
        /\ img' = [img EXCEPT ![i].persistent_img = b] /\ img[i].state # "NONE"
    BY DEF persistent, Edit, Exists
  <1>2. PICK image : image = [img[i] EXCEPT !.persistent_img = b]
    OBVIOUS
  <1>3. img' = [img EXCEPT ![i] = image] /\ img[i] \in Image
    BY <1>1, <1>2, Typed
  <1>4. /\ image \in Image /\ image.state = img[i].state /\ image.running = img[i].running
        /\ image.persistent_img = b /\ image.public = img[i].public
        /\ image.path = img[i].path /\ image.source = img[i].source
        /\ image.type = img[i].type
    BY <1>2, <1>3 DEF Image
  <1>5. img'[i] = image
    BY <1>3, Typed
  <1>6. SameFile(i)
    BY <1>4, <1>5 DEF SameFile
  <1>7. /\ Work(i)' /\ Waits(i)' /\ Registers(i)' /\ Present(i)'
        /\ Holders(i)' = Holders(i)
    BY <1>1, <1>6, FileKept
  <1>8. Counted(i)
    BY DEF ImageInv, ImageOK
  <1>9. Cardinality(Holders(i)) = 0 /\ Holders(i) = {}
    <2>1. 0 >= Cardinality(Holders(i))
      BY <1>1, <1>8 DEF Counted
    <2> QED BY <2>1, HoldersCount
  <1>10. Counted(i)'
    BY <1>1, <1>4, <1>5, <1>7, <1>8 DEF Counted
  <1>11. Private(i)'
    <2>1. \A v \in VMs : \A d \in 1..MaxDisks : ~Holding(vm'[v], d, i)
      BY <1>1, <1>9, NobodyHolds
    <2>2. Cardinality(Holders(i)') <= 1
      BY <1>7, <1>9
    <2>3. img'[i].persistent_img = 1 => img'[i].public = 0
      BY <1>1, <1>4, <1>5
    <2> QED BY <2>1, <2>2, <2>3 DEF Private
  <1>12. ImageOK(i)'
    BY <1>7, <1>10, <1>11 DEF ImageOK
  <1> QED BY <1>1, <1>3, <1>4, <1>12, EditKeeps

LEMMA PermissionsKeep ==
    ASSUME ImageInv, NEW i \in Images, NEW b \in Bit, set_permissions(i, b)
    PROVE  ImageInv'
  <1>1. /\ Edit(i) /\ UNCHANGED <<vm, ops, request, faulty, removed>>
        /\ ~(img[i].persistent_img = 1 /\ b = 1)
        /\ img' = [img EXCEPT ![i].public = b] /\ img[i].state # "NONE"
    BY DEF set_permissions, Edit, Exists
  <1>2. PICK image : image = [img[i] EXCEPT !.public = b]
    OBVIOUS
  <1>3. img' = [img EXCEPT ![i] = image] /\ img[i] \in Image
    BY <1>1, <1>2, Typed
  <1>4. /\ image \in Image /\ image.state = img[i].state /\ image.running = img[i].running
        /\ image.persistent_img = img[i].persistent_img /\ image.public = b
        /\ image.path = img[i].path /\ image.source = img[i].source
        /\ image.type = img[i].type
    BY <1>2, <1>3 DEF Image
  <1>5. img'[i] = image
    BY <1>3, Typed
  <1>6. SameFile(i)
    BY <1>4, <1>5 DEF SameFile
  <1>7. /\ Work(i)' /\ Waits(i)' /\ Registers(i)' /\ Present(i)'
        /\ Holders(i)' = Holders(i)
    BY <1>1, <1>6, FileKept
  <1>8. Counted(i) /\ Private(i)
    BY DEF ImageInv, ImageOK
  <1>9. Counted(i)'
    BY <1>1, <1>4, <1>5, <1>7, <1>8 DEF Counted
  <1>10. Private(i)'
    <2>1. b # 1 => b = 0
      BY DEF Bit
    <2> QED BY <1>1, <1>4, <1>5, <1>7, <1>8, <2>1 DEF Private
  <1>11. ImageOK(i)'
    BY <1>7, <1>9, <1>10 DEF ImageOK
  <1> QED BY <1>1, <1>3, <1>4, <1>11, EditKeeps

LEMMA TypeKeeps ==
    ASSUME "DATABLOCK" \notin Types, ImageInv, NEW i \in Images, NEW type \in Types,
           set_type(i, type)
    PROVE  ImageInv'
  <1>1. /\ Edit(i) /\ UNCHANGED <<vm, ops, request, faulty, removed>>
        /\ img' = [img EXCEPT ![i].type = type] /\ img[i].state # "NONE"
    BY DEF set_type, Edit, Exists
  <1>2. PICK image : image = [img[i] EXCEPT !.type = type]
    OBVIOUS
  <1>3. img' = [img EXCEPT ![i] = image] /\ img[i] \in Image /\ type \in ImageType
    BY <1>1, <1>2, Typed, RepositoryAssumption
  <1>4. /\ image \in Image /\ image.state = img[i].state /\ image.running = img[i].running
        /\ image.persistent_img = img[i].persistent_img /\ image.public = img[i].public
        /\ image.path = img[i].path /\ image.source = img[i].source
        /\ image.type = type
    BY <1>2, <1>3 DEF Image
  <1>5. img'[i] = image
    BY <1>3, Typed
  <1>6. SameFile(i)
    BY <1>4, <1>5 DEF SameFile
  <1>7. Work(i)' /\ Waits(i)' /\ Registers(i)'
    BY <1>1, <1>6, FileKept
  <1>8. ImageOK(i)'
    BY <1>1, <1>4, <1>5, <1>7, NewState
  <1> QED BY <1>1, <1>3, <1>4, <1>8, EditKeeps

LEMMA LeftKeeps ==
    ASSUME ImageInv,
           UNCHANGED <<img, next, vm, ops, request, driver, daemon, faulty, removed>>
    PROVE  ImageInv'
  <1>1. WellTyped'
    BY DEF ImageInv, WellTyped
  <1>2. \A v \in VMs : Shape(vm[v])' /\ Known(vm[v])'
    BY Typed, VmsKnown
  <1>3. Allocated'
    BY <1>2 DEF ImageInv, Allocated
  <1>4. ASSUME NEW j \in Images PROVE ImageOK(j)'
    <2>1. Total(j)' = Total(j) /\ (Asked(j)' <=> Asked(j))
      BY DEF Total, Asked
    <2> QED BY <2>1, Untouched
  <1> QED BY <1>1, <1>3, <1>4 DEF ImageInv, Faultless

LEMMA DeleteKeeps ==
    ASSUME ImageInv, NEW i \in Images, delete_image(i)
    PROVE  ImageInv'
  <1>1. /\ UNCHANGED <<next, vm, request, driver, daemon, faulty, removed>>
        /\ img[i].state \notin {"NONE", "USED"}
    BY DEF delete_image, Exists
  <1>2. Holders(i) = {} /\ i < next
    BY <1>1, NotHeld
  <1>3. CASE img' = img /\ ops' = ops
    BY <1>1, <1>3, LeftKeeps
  <1>4. CASE drop(i) /\ ops' = ops
    <2>1. \A j \in Images : Total(j)' = Total(j)
      BY <1>4 DEF Total
    <2>2. ops' \in [Images -> [Actions -> Nat]]
      BY <1>4, Typed
    <2>3. \A j \in Images : \A b \in Actions : ops'[j][b] <= ops[j][b]
      BY <1>4, Typed
    <2> QED BY <1>1, <1>2, <1>4, <2>1, <2>2, <2>3, DropKeeps DEF drop
  <1>5. CASE driver /\ Send("RM", i) /\ img' = img
    <2>1. "RM" \in Actions
      BY DEF Actions
    <2>2. OpsOf(i) /\ Total(i)' = Total(i)
      BY <1>5, <2>1, Sent
    <2>3. RequestMoves(i) /\ (Asked(i)' <=> Asked(i))
      BY <1>1 DEF RequestMoves, Asked
    <2>4. img' = [img EXCEPT ![i] = img[i]] /\ img[i] \in Image /\ img'[i] = img[i]
      BY <1>5, SameImages
    <2>5. ImageOK(i)'
      BY <1>1, <2>2, <2>3, <2>4, Untouched
    <2> QED BY <1>1, <1>2, <2>2, <2>3, <2>4, <2>5, OneImage
  <1> QED BY <1>3, <1>4, <1>5 DEF delete_image
-----------------------------------------------------------------------------
(* Steps of a VM.                                                          *)

LEMMA VmTyped ==
    ASSUME ImageInv, NEW v \in VMs, NEW s \in Vm, Shape(s), Known(s),
           vm' = [vm EXCEPT ![v] = s], next' = next,
           img' \in [Images -> Image], ops' \in [Images -> [Actions -> Nat]],
           \A j \in Images : j >= next => img'[j] = img[j] /\ ops'[j] = ops[j],
           request' = request \/ request' = Idle
    PROVE  WellTyped' /\ Allocated'
  <1>1. request' \in Request
    BY Typed, NoneRecords
  <1>2. /\ vm' \in [VMs -> Vm]
        /\ \A w \in VMs : vm'[w] = IF w = v THEN s ELSE vm[w]
    BY Typed
  <1>3. WellTyped'
    BY <1>1, <1>2, Typed DEF WellTyped
  <1>4. \A w \in VMs : Shape(vm[w])' /\ Known(vm[w])'
    <2> SUFFICES ASSUME NEW w \in VMs PROVE Shape(vm[w])' /\ Known(vm[w])'
      OBVIOUS
    <2>1. PICK r : r = vm'[w]
      OBVIOUS
    <2>2. Shape(r) /\ Known(r)
      BY <1>2, <2>1 DEF ImageInv, Allocated
    <2>3. Known(r)' <=> Known(r)
      BY DEF Known
    <2> QED BY <2>1, <2>2, <2>3 DEF Shape, Known
  <1>5. /\ request'.iid < next'
        /\ request'.step = "idle" <=> request'.iid = NoImage
        /\ request'.step = "save" => request'.vm # NoVm
    <2>1. CASE request' = request
      BY <2>1 DEF ImageInv, Allocated
    <2>2. CASE request' = Idle
      BY <2>2, NoneRecords, Typed DEF NoImage
    <2> QED BY <2>1, <2>2
  <1>6. \A j \in Images : j >= next' =>
            img'[j].state = "NONE" /\ \A a \in Actions : ops'[j][a] = 0
    BY DEF ImageInv, Allocated
  <1> QED BY <1>3, <1>4, <1>5, <1>6 DEF Allocated

LEMMA ElsewhereKept ==
    ASSUME ImageInv, NEW v \in VMs, NEW s, vm' = [vm EXCEPT ![v] = s],
           NEW j \in Images, SameFor(vm[v], s, j), img'[j] = img[j],
           Total(j)' = Total(j), Asked(j)' <=> Asked(j),
           Asked(j) => request'.vm = request.vm, UNCHANGED <<faulty, removed>>
    PROVE  ImageOK(j)'
  <1>1. SameDisks(j)
    BY Typed, VmsKeep
  <1>2. SameWork(j)
    BY <1>1 DEF SameWork
  <1> QED BY <1>2, ImageKept DEF ImageInv

\* A step of a VM that concerns no image.
LEMMA VmKeeps ==
    ASSUME ImageInv, NEW v \in VMs, NEW s \in Vm, Shape(s), Known(s), SameVm(vm[v], s),
           vm' = [vm EXCEPT ![v] = s],
           UNCHANGED <<img, next, ops, request, driver, daemon, faulty, removed>>
    PROVE  ImageInv'
  <1>1. WellTyped' /\ Allocated'
    BY Typed, VmTyped
  <1>2. Faultless'
    BY DEF ImageInv, Faultless
  <1>3. ASSUME NEW j \in Images PROVE ImageOK(j)'
    <2>1. Total(j)' = Total(j) /\ (Asked(j)' <=> Asked(j))
      BY DEF Total, Asked
    <2> QED BY <2>1, ElsewhereKept DEF SameVm
  <1> QED BY <1>1, <1>2, <1>3 DEF ImageInv

LEMMA VmFacts ==
    ASSUME ImageInv, NEW v \in VMs
    PROVE  vm[v] \in Vm /\ Shape(vm[v]) /\ Known(vm[v])
  BY Typed DEF ImageInv, Allocated

LEMMA SameKnown ==
    ASSUME NEW r, Known(r), NEW s, s.disks = r.disks \/ s.disks = <<>>
    PROVE  Known(s)
  BY DEF Known

LEMMA CreateKeeps ==
    ASSUME ImageInv, NEW v \in VMs, NEW want \in Wants, create(v, want)
    PROVE  ImageInv'
  <1>1. PICK s : s = [vm[v] EXCEPT !.phase = "acquire", !.want = want]
    OBVIOUS
  <1>2. vm' = [vm EXCEPT ![v] = s] /\ vm[v].phase = "none"
        /\ UNCHANGED <<img, next, ops, request, driver, daemon, faulty, removed>>
    BY <1>1 DEF create
  <1>3. s \in Vm /\ Shape(s) /\ s.disks = vm[v].disks /\ SameVm(vm[v], s)
    BY <1>1, <1>2, VmFacts, VmCreated
  <1>4. Known(s)
    BY <1>3, VmFacts, SameKnown
  <1> QED BY <1>2, <1>3, <1>4, VmKeeps

LEMMA PhaseKeeps ==
    ASSUME ImageInv, NEW v \in VMs, NEW p \in Phase,
           \/ vm[v].phase = "acquire" /\ p = "rollback"
           \/ vm[v].phase = "acquire" /\ vm[v].want = <<>> /\ p \in {"live", "release"}
           \/ vm[v].phase = "live" /\ p = "release",
           NEW s, s = [vm[v] EXCEPT !.phase = p], vm' = [vm EXCEPT ![v] = s],
           UNCHANGED <<img, next, ops, request, driver, daemon, faulty, removed>>
    PROVE  ImageInv'
  <1>1. s \in Vm /\ Shape(s) /\ s.disks = vm[v].disks /\ SameVm(vm[v], s)
    BY VmFacts, PhaseChanges
  <1>2. Known(s)
    BY <1>1, VmFacts, SameKnown
  <1> QED BY <1>1, <1>2, VmKeeps

LEMMA LifeKeeps ==
    ASSUME ImageInv, NEW v \in VMs,
           EndInsert(v) \/ Deploy(v) \/ Fail(v) \/ Done(v) \/ NothingToRelease(v)
    PROVE  ImageInv'
  <1>1. UNCHANGED <<img, next, ops, request, driver, daemon, faulty, removed>>
    BY DEF EndInsert, Deploy, Fail, Done, NothingToRelease, Live
  <1>2. ASSUME EndInsert(v) PROVE ImageInv'
    <2>1. PICK p \in {"live", "release"} : vm' = [vm EXCEPT ![v].phase = p]
      BY <1>2 DEF EndInsert
    <2>2. vm[v].phase = "acquire" /\ vm[v].want = <<>> /\ p \in Phase
      BY <1>2 DEF EndInsert, Phase
    <2>3. PICK s : s = [vm[v] EXCEPT !.phase = p]
      OBVIOUS
    <2>4. vm' = [vm EXCEPT ![v] = s]
      BY <2>1, <2>3
    <2> QED BY <1>1, <2>2, <2>3, <2>4, PhaseKeeps
  <1>3. ASSUME Done(v) PROVE ImageInv'
    <2>1. PICK s : s = [vm[v] EXCEPT !.phase = "release"]
      OBVIOUS
    <2>2. vm' = [vm EXCEPT ![v] = s] /\ vm[v].phase = "live" /\ "release" \in Phase
      BY <1>3, <2>1 DEF Done, Live, Phase
    <2> QED BY <1>1, <2>1, <2>2, PhaseKeeps
  <1>4. ASSUME Deploy(v) \/ Fail(v) PROVE ImageInv'
    <2>1. PICK x \in Status : vm' = [vm EXCEPT ![v] = [vm[v] EXCEPT !.status = x]]
      BY <1>4 DEF Deploy, Fail, Live, Status
    <2>2. PICK s : s = [vm[v] EXCEPT !.status = x]
      OBVIOUS
    <2>3. s \in Vm /\ Shape(s) /\ s.disks = vm[v].disks /\ SameVm(vm[v], s)
      BY <2>2, VmFacts, StatusChanges
    <2>4. Known(s)
      BY <2>3, VmFacts, SameKnown
    <2> QED BY <1>1, <2>1, <2>2, <2>3, <2>4, VmKeeps
  <1>5. ASSUME NothingToRelease(v) PROVE ImageInv'
    <2>1. vm' = [vm EXCEPT ![v] = GoneVm] /\ vm[v].disks = <<>>
      BY <1>5 DEF NothingToRelease
    <2>2. GoneVm \in Vm /\ GoneVm.disks = <<>> /\ GoneVm.phase = "gone" /\ GoneVm.at = 1
      BY NoneRecords
    <2>3. Len(GoneVm.disks) = 0 /\ DOMAIN GoneVm.disks = {}
      BY <2>2
    <2>4. Shape(GoneVm)
      BY <2>2, <2>3, RepositoryAssumption DEF Shape
    <2>5. Known(GoneVm)
      BY <2>3 DEF Known
    <2>6. SameVm(vm[v], GoneVm)
      BY <2>1, <2>2, VmFacts, EmptyVm DEF SameVm, SameFor
    <2> QED BY <1>1, <2>1, <2>2, <2>4, <2>5, <2>6, VmKeeps
  <1> QED BY <1>2, <1>3, <1>4, <1>5

LEMMA CountNat ==
    ASSUME NEW r \in Vm, NEW type
    PROVE  Count(r.disks, type) \in Nat
  <1>1. DOMAIN r.disks = 1..Len(r.disks) /\ Len(r.disks) \in Nat
    BY VmDisks
  <1>2. IsFiniteSet(1..Len(r.disks))
    BY <1>1, FS_Interval
  <1>3. {d \in DOMAIN r.disks : r.disks[d].type = type} \subseteq 1..Len(r.disks)
    BY <1>1
  <1>4. IsFiniteSet({d \in DOMAIN r.disks : r.disks[d].type = type})
    BY <1>2, <1>3, FS_Subset
  <1> QED BY <1>4, FS_CardinalityType DEF Count

LEMMA LetterNat ==
    ASSUME NEW r \in Vm, NEW type
    PROVE  Letter(r.disks, type) \in Nat
  <1>1. PICK n \in Nat : n = Count(r.disks, "DATABLOCK")
    BY CountNat
  <1>2. 5 + n \in Nat
    OBVIOUS
  <1> QED BY <1>1, <1>2 DEF Letter

LEMMA DiskMade ==
    ASSUME ImageInv, NEW v \in VMs, NEW w, NEW type \in DiskType, NEW b \in Bit,
           NEW k, k = DiskOf(v, w, type, b)
    PROVE  /\ k \in Disk /\ k.save_as = NoImage /\ k.persistent = b /\ k.type = type
           /\ k.image = IF w \in Images THEN w ELSE NoImage
           /\ k.target = Letter(vm[v].disks, type)
  <1>1. PICK x \in Images \cup {NoImage} : x = IF w \in Images THEN w ELSE NoImage
    OBVIOUS
  <1>2. PICK t \in Nat : t = Letter(vm[v].disks, type)
    BY VmFacts, LetterNat
  <1>3. k = [image |-> x, type |-> type, persistent |-> b, target |-> t,
             save_as |-> NoImage]
    BY <1>1, <1>2 DEF DiskOf
  <1>4. k \in Disk /\ k.save_as = NoImage /\ k.persistent = b /\ k.image = x
        /\ k.type = type /\ k.target = t
    BY <1>3 DEF Disk
  <1> QED BY <1>1, <1>2, <1>4

LEMMA VmAcquires ==
    ASSUME ImageInv, NEW v \in VMs, vm[v].phase = "acquire", vm[v].want # <<>>,
           NEW k \in Disk, k.save_as = NoImage, k.image < next,
           NEW p \in {"acquire", "rollback"}, NEW s, s = AddDisk(vm[v], k, p)
    PROVE  s \in Vm /\ Shape(s) /\ Known(s) /\ Gains(vm[v], s, k, Len(vm[v].disks) + 1)
  <1>1. s \in Vm /\ Shape(s) /\ Gains(vm[v], s, k, Len(vm[v].disks) + 1)
    BY VmFacts, DiskAdded
  <1>2. NoImage < next /\ Known(vm[v])
    BY Typed, VmFacts DEF NoImage
  <1>3. Known(s)
    BY <1>1, <1>2 DEF Known, Gains
  <1> QED BY <1>1, <1>3

LEMMA PlainDiskKeeps ==
    ASSUME ImageInv, NEW v \in VMs, vm[v].phase = "acquire", vm[v].want # <<>>,
           NEW k \in Disk, k.save_as = NoImage, k.image = NoImage,
           NEW s, s = AddDisk(vm[v], k, "acquire"), vm' = [vm EXCEPT ![v] = s],
           UNCHANGED <<img, next, ops, request, driver, daemon, faulty, removed>>
    PROVE  ImageInv'
  <1>1. NoImage < next /\ \A i \in Images : i # NoImage
    BY Typed, Identifiers DEF NoImage
  <1>2. PICK n : n = Len(vm[v].disks) + 1
    OBVIOUS
  <1>3. s \in Vm /\ Shape(s) /\ Known(s) /\ Gains(vm[v], s, k, n)
    BY <1>1, <1>2, VmAcquires
  <1>4. SameVm(vm[v], s)
    <2>1. \A d, i : Holding(s, d, i) /\ d # n =>
            s.disks[d].persistent = vm[v].disks[d].persistent
      BY <1>3 DEF Gains, Holding
    <2>2. /\ \A d : \A i \in Images : Holding(s, d, i) <=> Holding(vm[v], d, i)
          /\ \A d : \A i \in Images : ~Saving(s, d, i) /\ ~Saving(vm[v], d, i)
          /\ \A i : ~Holding(vm[v], n, i)
      BY <1>1, <1>3 DEF Gains
    <2> QED BY <2>1, <2>2 DEF SameVm, SameFor
  <1> QED BY <1>3, <1>4, VmKeeps

LEMMA ImageDiskKeeps ==
    ASSUME ImageInv, NEW v \in VMs, vm[v].phase = "acquire", vm[v].want # <<>>,
           NEW w \in Images, CanAcquire(w), acquire_image(w),
           NEW k \in Disk, k.save_as = NoImage, k.image = w,
           k.persistent = img[w].persistent_img,
           NEW p \in {"acquire", "rollback"},
           NEW s, s = AddDisk(vm[v], k, p), vm' = [vm EXCEPT ![v] = s],
           UNCHANGED <<next, ops, request, driver, daemon, faulty, removed>>
    PROVE  ImageInv'
  <1>1. /\ img[w].state \in {"READY", "USED"}
        /\ img[w].persistent_img = 1 => img[w].state = "READY"
    BY DEF CanAcquire
  <1>2. w < next
    BY <1>1, Known1
  <1>3. PICK n : n = Len(vm[v].disks) + 1
    OBVIOUS
  <1>4. s \in Vm /\ Shape(s) /\ Known(s) /\ Gains(vm[v], s, k, n)
    BY <1>2, <1>3, VmAcquires
  <1>14. \A d, i : Holding(s, d, i) /\ d # n =>
            s.disks[d].persistent = vm[v].disks[d].persistent
    BY <1>4 DEF Gains, Holding
  <1>15. /\ n \in 1..MaxDisks /\ s.disks[n] = k
         /\ \A d, i : Holding(s, d, i) <=> Holding(vm[v], d, i) \/ (d = n /\ i = w)
         /\ \A d : \A i \in Images : ~Saving(s, d, i) /\ ~Saving(vm[v], d, i)
         /\ \A i : ~Holding(vm[v], n, i)
    BY <1>4 DEF Gains
  <1>5. PICK m \in Int : m = img[w].running
    BY Typed DEF Image
  <1>6. PICK image : image = [img[w] EXCEPT !.running = m + 1, !.state = "USED"]
    OBVIOUS
  <1>7. img' = [img EXCEPT ![w] = image]
    BY <1>5, <1>6 DEF acquire_image, Acquired
  <1>8. /\ image \in Image /\ image.state = "USED" /\ image.running = m + 1
        /\ image.persistent_img = img[w].persistent_img /\ image.public = img[w].public
    <2>1. img[w] \in Image /\ "USED" \in ImageState /\ m + 1 \in Int
      BY Typed DEF ImageState
    <2> QED BY <1>6, <2>1 DEF Image
  <1>9. /\ img' \in [Images -> Image] /\ img'[w] = image
        /\ \A j \in Images : j # w => img'[j] = img[j]
    BY <1>7, <1>8, Typed
  <1>10. WellTyped' /\ Allocated'
    <2>1. \A j \in Images : j >= next => img'[j] = img[j] /\ ops'[j] = ops[j]
      <3> SUFFICES ASSUME NEW j \in Images, j >= next
                   PROVE  img'[j] = img[j] /\ ops'[j] = ops[j]
        OBVIOUS
      <3>1. j # w
        BY <1>2, Typed, Identifiers
      <3> QED BY <1>9, <3>1
    <2> QED BY <1>4, <1>9, <2>1, Typed, VmTyped
  <1>11. Faultless'
    BY DEF ImageInv, Faultless
  <1>12. ASSUME NEW j \in Images, j # w PROVE ImageOK(j)'
    <2>1. Total(j)' = Total(j) /\ (Asked(j)' <=> Asked(j))
      BY DEF Total, Asked
    <2>2. SameFor(vm[v], s, j)
      BY <1>14, <1>15, <1>12 DEF SameFor
    <2> QED BY <1>9, <1>12, <2>1, <2>2, ElsewhereKept
  <1>13. ImageOK(w)'
    <2>1. \A u \in VMs : vm'[u] = IF u = v THEN s ELSE vm[u]
      BY Typed
    <2>2. /\ Total(w) = 0 /\ ~Asked(w)
          /\ \A u \in VMs : \A d \in 1..MaxDisks : ~Saving(vm[u], d, w)
      BY <1>1, OpenImage
    <2>3. /\ Total(w)' = 0 /\ ~Asked(w)'
          /\ \A u \in VMs : \A d \in 1..MaxDisks : ~Saving(vm'[u], d, w)
      BY <1>14, <1>15, <2>1, <2>2 DEF Total, Asked
    <2>4. Work(w)'
      <3>1. Total(w)' <= 1 /\ Total(w)' # 1
        BY <2>3
      <3> QED BY <2>3, <3>1, Zenon DEF Work
    <2>5. \A u \in VMs : \A d \in 1..MaxDisks :
            Holding(vm'[u], d, w) <=> Holding(vm[u], d, w) \/ (u = v /\ d = n)
      BY <1>14, <1>15, <2>1
    <2>6. /\ Holders(w)' # {}
          /\ Cardinality(Holders(w)') = Cardinality(Holders(w)) + 1
      BY <1>14, <1>15, <2>5, HoldersAdded
    <2>7. Counted(w) /\ Private(w)
      BY DEF ImageInv, ImageOK
    <2>8. PICK c \in Nat : c = Cardinality(Holders(w))
      BY HoldersCount
    <2>9. m >= c /\ (~faulty => m = c)
      BY <1>1, <1>5, <2>7, <2>8 DEF Counted
    <2>10. m + 1 >= c + 1 /\ (~faulty => m + 1 = c + 1)
      BY <2>9
    <2>11. Counted(w)'
      BY <1>8, <1>9, <2>6, <2>8, <2>10 DEF Counted
    <2>12. Private(w)'
      <3>1. img[w].persistent_img = 1 => img[w].public = 0 /\ c = 0
        <4>1. img[w].state = "READY" => c = 0
          BY <2>8, NotHeld
        <4> QED BY <1>1, <2>7, <4>1 DEF Private
      <3>2. img'[w].persistent_img = 1 =>
              img'[w].public = 0 /\ Cardinality(Holders(w)') <= 1
        BY <1>8, <1>9, <2>6, <2>8, <3>1
      <3>3. ASSUME NEW u \in VMs, NEW d \in 1..MaxDisks, Holding(vm'[u], d, w)
            PROVE  vm'[u].disks[d].persistent = img'[w].persistent_img
        <4>1. CASE u = v /\ d = n
          BY <1>14, <1>15, <1>8, <1>9, <2>1, <4>1
        <4>2. CASE ~(u = v /\ d = n)
          <5>1. Holding(vm[u], d, w)
            BY <2>5, <3>3, <4>2
          <5>2. vm[u].disks[d].persistent = img[w].persistent_img
            BY <1>1, <2>7, <5>1 DEF Private
          <5>3. vm'[u].disks[d].persistent = vm[u].disks[d].persistent
            BY <1>14, <1>15, <2>1, <3>3, <4>2
          <5> QED BY <1>8, <1>9, <5>2, <5>3
        <4> QED BY <4>1, <4>2
      <3> QED BY <3>2, <3>3 DEF Private
    <2>13. Present(w)' /\ Waits(w)' /\ Registers(w)'
      BY <1>8, <1>9, <2>3 DEF Present, Waits, Registers
    <2> QED BY <2>4, <2>11, <2>12, <2>13 DEF ImageOK
  <1> QED BY <1>10, <1>11, <1>12, <1>13 DEF ImageInv

LEMMA DiskAttributeKeeps ==
    ASSUME ImageInv, NEW v \in VMs, disk_attribute(v)
    PROVE  ImageInv'
  <1>1. PICK w : w = Head(vm[v].want)
    OBVIOUS
  <1>2. /\ vm[v].phase = "acquire" /\ vm[v].want # <<>>
        /\ UNCHANGED <<next, ops, request, driver, daemon, faulty, removed>>
    BY DEF disk_attribute
  <1>3. w \in Images \cup {NoImage, Swap}
    <2>1. vm[v].want \in Seq(Images \cup {NoImage, Swap})
      BY VmFacts, VmDisks DEF WantList
    <2> QED BY <1>1, <1>2, <2>1
  <1>4. PICK type : type = IF w = Swap THEN "SWAP" ELSE IF w = NoImage THEN "FS"
                           ELSE img[w].type
    OBVIOUS
  <1>5. Swap \notin Images /\ NoImage \notin Images
    BY DEF Images, Swap, NoImage
  <1>6. type \in DiskType
    <2>1. w \in Images => img[w].type \in ImageType
      BY Typed DEF Image
    <2> QED BY <1>3, <1>4, <2>1 DEF DiskType
  <1>7. PICK b \in Bit : b = IF w \in Images THEN img[w].persistent_img ELSE 0
    BY Typed DEF Image, Bit
  <1>8. PICK k : k = DiskOf(v, w, type, b)
    OBVIOUS
  <1>9. /\ k \in Disk /\ k.save_as = NoImage /\ k.persistent = b
        /\ k.image = IF w \in Images THEN w ELSE NoImage
    BY <1>6, <1>8, DiskMade
  <1>10. CASE /\ w \notin Images /\ img' = img
              /\ vm' = [vm EXCEPT ![v] = AddDisk(vm[v], k, "acquire")]
    <2>1. PICK s : s = AddDisk(vm[v], k, "acquire")
      OBVIOUS
    <2> QED BY <1>2, <1>9, <1>10, <2>1, PlainDiskKeeps
  <1>11. CASE vm' = [vm EXCEPT ![v].phase = "rollback"] /\ img' = img
    <2>1. PICK s : s = [vm[v] EXCEPT !.phase = "rollback"]
      OBVIOUS
    <2>2. vm' = [vm EXCEPT ![v] = s] /\ "rollback" \in Phase
      BY <1>11, <2>1 DEF Phase
    <2> QED BY <1>2, <1>11, <2>1, <2>2, PhaseKeeps
  <1>12. CASE /\ w \in Images /\ CanAcquire(w) /\ acquire_image(w)
              /\ \E p \in {"acquire", "rollback"} :
                    vm' = [vm EXCEPT ![v] = AddDisk(vm[v], k, p)]
    <2>1. PICK p \in {"acquire", "rollback"} :
            vm' = [vm EXCEPT ![v] = AddDisk(vm[v], k, p)]
      BY <1>12
    <2>2. PICK s : s = AddDisk(vm[v], k, p)
      OBVIOUS
    <2>3. k.image = w /\ k.persistent = img[w].persistent_img
      BY <1>7, <1>9, <1>12
    <2> QED BY <1>2, <1>9, <1>12, <2>1, <2>2, <2>3, ImageDiskKeeps
  <1> QED
    <2>1. k = DiskOf(v, Head(vm[v].want), type,
                     IF Head(vm[v].want) \in Images
                     THEN img[Head(vm[v].want)].persistent_img ELSE 0)
      BY <1>1, <1>7, <1>8
    <2> QED BY <1>1, <1>4, <1>10, <1>11, <1>12, <2>1 DEF disk_attribute

LEMMA LeavesKnown ==
    ASSUME ImageInv, NEW v \in VMs, NEW s, Leaves(vm[v], s)
    PROVE  Known(s)
  BY VmFacts, SameKnown DEF Leaves

\* A disk without an image.
LEMMA PlainLeftKeeps ==
    ASSUME ImageInv, NEW v \in VMs, NEW s \in Vm, Shape(s), Leaves(vm[v], s),
           KeepsSaves(vm[v], s), vm[v].disks[vm[v].at].image = NoImage,
           vm' = [vm EXCEPT ![v] = s],
           UNCHANGED <<img, next, ops, request, driver, daemon, faulty, removed>>
    PROVE  ImageInv'
  <1>1. \A i \in Images : i # NoImage
    BY Identifiers
  <1>2. \A i \in Images : ~Holding(vm[v], vm[v].at, i)
    BY <1>1 DEF Holding
  <1>3. SameVm(vm[v], s)
    BY <1>2 DEF SameVm, SameFor, Leaves, KeepsSaves
  <1> QED BY <1>3, LeavesKnown, VmKeeps

\* A disk whose image was removed.
LEMMA GoneLeftKeeps ==
    ASSUME ImageInv, NEW v \in VMs, NEW s \in Vm, Shape(s), Leaves(vm[v], s),
           KeepsSaves(vm[v], s) \/ Unsaves(vm[v], s), vm[v].phase \in {"rollback", "release"},
           NEW j \in Images, vm[v].disks[vm[v].at].image = j, img[j].state = "NONE",
           vm' = [vm EXCEPT ![v] = s],
           UNCHANGED <<img, next, ops, request, driver, daemon, faulty, removed>>
    PROVE  ImageInv'
  <1>1. vm[v].at \in DOMAIN vm[v].disks /\ vm[v].at \in 1..MaxDisks /\ vm[v].at >= vm[v].at
    <2>1. /\ vm[v].at \in DOMAIN vm[v].disks /\ vm[v].at \in Nat
          /\ DOMAIN vm[v].disks = 1..Len(vm[v].disks) /\ Len(vm[v].disks) \in Nat
          /\ Len(vm[v].disks) <= MaxDisks
      BY VmFacts, VmDisks DEF Leaves, Shape
    <2> QED BY <2>1, RepositoryAssumption
  <1>2. Holding(vm[v], vm[v].at, j)
    BY <1>1 DEF Holding
  <1>3. removed
    <2>1. Holders(j) # {}
      BY <1>1, <1>2, NobodyHolds
    <2> QED BY <2>1 DEF ImageInv, ImageOK, Present
  <1>4. WellTyped' /\ Allocated'
    BY Typed, LeavesKnown, VmTyped
  <1>5. Faultless'
    BY DEF ImageInv, Faultless
  <1>6. \A u \in VMs : vm'[u] = IF u = v THEN s ELSE vm[u]
    BY Typed
  <1>7. ASSUME NEW i \in Images PROVE ImageOK(i)'
    <2>1. Total(i)' = Total(i) /\ (Asked(i)' <=> Asked(i))
      BY DEF Total, Asked
    <2>2. LessWork(i)
      BY <1>6, <2>1 DEF LessWork, KeepsSaves, Unsaves
    <2>3. Work(i) /\ Counted(i) /\ Private(i) /\ Present(i) /\ Registers(i)
      BY DEF ImageInv, ImageOK
    <2>4. Work(i)'
      BY <2>2, <2>3, WorkShrinks
    <2>5. Waits(i)' /\ Present(i)'
      BY <1>3 DEF Waits, Present
    <2>6. Registers(i)'
      BY <2>1, <2>3 DEF Registers
    <2>7. CASE i = j
      BY <2>4, <2>5, <2>6, <2>7 DEF ImageOK, Counted, Private
    <2>8. CASE i # j
      <3>1. ~Holding(vm[v], vm[v].at, i)
        BY <2>8 DEF Holding
      <3>2. \A u \in VMs : \A d \in 1..MaxDisks :
              /\ Holding(vm'[u], d, i) <=> Holding(vm[u], d, i)
              /\ Holding(vm'[u], d, i) =>
                    vm'[u].disks[d].persistent = vm[u].disks[d].persistent
        BY <1>6, <3>1 DEF Leaves
      <3>3. Holders(i)' = Holders(i)
        BY <3>2, HoldersKept
      <3>4. Counted(i)'
        BY <2>3, <3>3 DEF Counted
      <3>5. Private(i)'
        BY <2>3, <3>2, <3>3 DEF Private
      <3> QED BY <2>4, <2>5, <2>6, <3>4, <3>5 DEF ImageOK
    <2> QED BY <2>7, <2>8
  <1> QED BY <1>4, <1>5, <1>7 DEF ImageInv

LEMMA HeldIsUsed ==
    ASSUME ImageInv, NEW v \in VMs, vm[v].at \in DOMAIN vm[v].disks,
           vm[v].phase \in {"rollback", "release"},
           NEW j \in Images, vm[v].disks[vm[v].at].image = j
    PROVE  /\ vm[v].at \in 1..MaxDisks /\ Holding(vm[v], vm[v].at, j)
           /\ img[j].state # "NONE" => img[j].state = "USED" /\ j < next
  <1>1. vm[v].at \in 1..MaxDisks /\ vm[v].at >= vm[v].at
    <2>1. /\ vm[v].at \in DOMAIN vm[v].disks /\ vm[v].at \in Nat
          /\ DOMAIN vm[v].disks = 1..Len(vm[v].disks) /\ Len(vm[v].disks) \in Nat
          /\ Len(vm[v].disks) <= MaxDisks
      BY VmFacts, VmDisks DEF Shape
    <2> QED BY <2>1, RepositoryAssumption
  <1>2. Holding(vm[v], vm[v].at, j)
    BY <1>1 DEF Holding
  <1>3. Holders(j) # {}
    BY <1>1, <1>2, NobodyHolds
  <1>4. img[j].state # "NONE" => img[j].state = "USED"
    BY <1>3 DEF ImageInv, ImageOK, Counted
  <1> QED BY <1>1, <1>2, <1>4, Known1

\* A disk whose image is released.
LEMMA ImageLeftKeeps ==
    ASSUME ImageInv, NEW v \in VMs, NEW s \in Vm, Shape(s), Leaves(vm[v], s),
           KeepsSaves(vm[v], s), vm[v].phase \in {"rollback", "release"},
           NEW j \in Images, vm[v].disks[vm[v].at].image = j, img[j].state # "NONE",
           NEW hp \in BOOLEAN, release_image(j, hp), vm' = [vm EXCEPT ![v] = s],
           UNCHANGED <<next, request, driver, daemon, faulty, removed>>
    PROVE  ImageInv'
  <1>1. vm[v].at \in DOMAIN vm[v].disks
    BY DEF Leaves
  <1>2. PICK e : e = vm[v].at
    OBVIOUS
  <1>3. e \in 1..MaxDisks /\ Holding(vm[v], e, j) /\ img[j].state = "USED" /\ j < next
    BY <1>1, <1>2, HeldIsUsed
  <1>4. /\ Total(j) = 0 /\ ~Asked(j)
        /\ \A u \in VMs : \A d \in 1..MaxDisks : ~Saving(vm[u], d, j)
    BY <1>3, OpenImage
  <1>5. PICK m \in Int : m = img[j].running
    BY Typed DEF Image
  <1>6. PICK x : x = IF img[j].persistent_img = 1 /\ hp THEN "LOCKED" ELSE ReleasedState(img[j])
    OBVIOUS
  <1>7. /\ img' = [img EXCEPT ![j] = Released(img[j], x)]
        /\ IF img[j].persistent_img = 1 /\ hp THEN Send("MV", j) ELSE ops' = ops
    BY <1>3, <1>6 DEF release_image
  <1>8. PICK image : image = Released(img[j], x)
    OBVIOUS
  <1>9. x \in ImageState /\ x # "NONE"
    BY <1>6 DEF ReleasedState, ImageState
  <1>10. /\ image \in Image /\ image.state = x /\ image.running = m - 1
         /\ image.persistent_img = img[j].persistent_img /\ image.public = img[j].public
    <2>1. image = [img[j] EXCEPT !.running = m - 1, !.state = x]
      BY <1>5, <1>8 DEF Released
    <2>2. img[j] \in Image /\ m - 1 \in Int
      BY Typed
    <2> QED BY <1>9, <2>1, <2>2 DEF Image
  <1>11. /\ img' \in [Images -> Image] /\ img'[j] = image
         /\ \A i \in Images : i # j => img'[i] = img[i]
    BY <1>7, <1>8, <1>10, Typed
  <1>12. /\ OpsOf(j) /\ ops' \in [Images -> [Actions -> Nat]]
         /\ \A i \in Images : i # j => ops'[i] = ops[i]
         /\ driver /\ x = "LOCKED" => Total(j)' = 1
         /\ Total(j)' \in {0, 1} /\ (Total(j)' = 1 => x = "LOCKED")
    <2>1. CASE ops' = ops /\ ~(img[j].persistent_img = 1 /\ hp)
      <3>1. x # "LOCKED"
        BY <1>6, <2>1 DEF ReleasedState
      <3> QED BY <1>4, <2>1, <3>1, NothingSent, Typed
    <2>2. CASE ops' = ops /\ ~driver
      BY <1>4, <2>2, NothingSent, Typed
    <2>3. CASE driver /\ Send("MV", j) /\ img[j].persistent_img = 1 /\ hp
      <3>1. "MV" \in Actions /\ "MV" # "RM"
        BY DEF Actions
      <3>2. OpsOf(j) /\ Total(j)' = Total(j) + 1 /\ \A i \in Images : i # j => ops'[i] = ops[i]
        BY <2>3, <3>1, Sent
      <3>3. Total(j)' = 1
        BY <1>4, <3>2
      <3>4. ops' \in [Images -> [Actions -> Nat]]
        BY <3>2, Typed DEF OpsOf
      <3> QED BY <1>6, <2>3, <3>2, <3>3, <3>4
    <2> QED BY <1>7, <2>1, <2>2, <2>3 DEF Send
  <1>13. WellTyped' /\ Allocated'
    <2>1. \A i \in Images : i >= next => img'[i] = img[i] /\ ops'[i] = ops[i]
      <3> SUFFICES ASSUME NEW i \in Images, i >= next
                   PROVE  img'[i] = img[i] /\ ops'[i] = ops[i]
        OBVIOUS
      <3>1. i # j
        BY <1>3, Typed, Identifiers
      <3> QED BY <1>11, <1>12, <3>1
    <2> QED BY <1>11, <1>12, <2>1, Typed, LeavesKnown, VmTyped
  <1>14. Faultless'
    BY DEF ImageInv, Faultless
  <1>15. \A u \in VMs : vm'[u] = IF u = v THEN s ELSE vm[u]
    BY Typed
  <1>16. ASSUME NEW i \in Images, i # j PROVE ImageOK(i)'
    <2>1. Total(i)' = Total(i) /\ (Asked(i)' <=> Asked(i))
      BY <1>12, <1>16 DEF Total, Asked
    <2>2. ~Holding(vm[v], vm[v].at, i)
      BY <1>16 DEF Holding
    <2>3. SameFor(vm[v], s, i)
      BY <2>2 DEF SameFor, Leaves, KeepsSaves
    <2> QED BY <1>11, <1>16, <2>1, <2>3, ElsewhereKept
  <1>17. ImageOK(j)'
    <2>1. /\ ~Asked(j)'
          /\ \A u \in VMs : \A d \in 1..MaxDisks : ~Saving(vm'[u], d, j)
      BY <1>4, <1>15 DEF Asked, KeepsSaves
    <2>2. Closed(j)' <=> x = "LOCKED"
      BY <1>9, <1>10, <1>11 DEF Closed
    <2>3. Work(j)'
      <3>1. Total(j)' <= 1 /\ (Total(j)' = 1 => Closed(j)')
        BY <1>12, <2>2
      <3> QED BY <2>1, <3>1, Zenon DEF Work
    <2>4. \A u \in VMs : \A d \in 1..MaxDisks :
            Holding(vm'[u], d, j) <=> Holding(vm[u], d, j) /\ ~(u = v /\ d = e)
      BY <1>2, <1>15 DEF Leaves
    <2>5. /\ Cardinality(Holders(j)') = Cardinality(Holders(j)) - 1
          /\ Cardinality(Holders(j)) \in Nat \ {0}
          /\ Holders(j)' = {} <=> Cardinality(Holders(j)) = 1
          /\ Holders(j) # {}
      BY <1>3, <2>4, HoldersRemoved
    <2>6. Counted(j) /\ Private(j) /\ Present(j)
      BY DEF ImageInv, ImageOK
    <2>7. PICK c \in Nat \ {0} : c = Cardinality(Holders(j))
      BY <2>5
    <2>8. m >= c /\ (~faulty => m = c) /\ (img[j].persistent_img = 1 => img[j].public = 0 /\ c <= 1)
      BY <1>3, <1>5, <2>6, <2>7 DEF Counted, Private
    <2>9. /\ m - 1 >= c - 1 /\ (~faulty => m - 1 = c - 1) /\ c - 1 <= c
      BY <2>8
    <2>10. c # 1 => x = "USED"
      <3>1. c # 1 => m # 1 /\ img[j].persistent_img # 1
        BY <2>8
      <3> QED BY <1>5, <1>6, <3>1 DEF ReleasedState
    <2>11. ~faulty /\ c = 1 => x # "USED"
      BY <1>5, <1>6, <2>8 DEF ReleasedState
    <2>12. Counted(j)'
      <3>1. /\ img'[j].running >= Cardinality(Holders(j)')
            /\ ~faulty => img'[j].running = Cardinality(Holders(j)')
        BY <1>10, <1>11, <2>5, <2>7, <2>9
      <3>2. /\ Holders(j)' # {} => img'[j].state = "USED"
            /\ ~faulty /\ Holders(j)' = {} => img'[j].state # "USED"
        BY <1>10, <1>11, <2>5, <2>7, <2>10, <2>11
      <3> QED BY <3>1, <3>2 DEF Counted
    <2>13. Private(j)'
      <3>1. img'[j].persistent_img = 1 =>
              img'[j].public = 0 /\ Cardinality(Holders(j)') <= 1
        BY <1>10, <1>11, <2>5, <2>7, <2>8
      <3>2. ASSUME NEW u \in VMs, NEW d \in 1..MaxDisks, Holding(vm'[u], d, j)
            PROVE  vm'[u].disks[d].persistent = img'[j].persistent_img
        <4>1. Holding(vm[u], d, j)
          BY <2>4, <3>2
        <4>2. vm[u].disks[d].persistent = img[j].persistent_img
          BY <1>3, <2>6, <4>1 DEF Private
        <4>3. vm'[u].disks[d].persistent = vm[u].disks[d].persistent
          BY <1>15, <3>2 DEF Leaves
        <4> QED BY <1>10, <1>11, <4>2, <4>3
      <3> QED BY <3>1, <3>2 DEF Private
    <2>14. Present(j)' /\ Registers(j)'
      BY <1>9, <1>10, <1>11, <2>1 DEF Present, Registers
    <2>15. Waits(j)'
      BY <1>10, <1>11, <1>12 DEF Waits, ImageInv, Faultless
    <2> QED BY <2>3, <2>12, <2>13, <2>14, <2>15 DEF ImageOK
  <1> QED BY <1>13, <1>14, <1>16, <1>17 DEF ImageInv

LEMMA SavesKept ==
    ASSUME NEW r, NEW s, Unsaves(r, s), r.disks[r.at].save_as = NoImage
    PROVE  KeepsSaves(r, s)
  BY Identifiers DEF Unsaves, KeepsSaves, Saving

LEMMA ReleaseKeeps ==
    ASSUME ImageInv, NEW v \in VMs, ReleaseDisk(v)
    PROVE  ImageInv'
  <1>1. /\ vm[v].phase = "release" /\ vm[v].disks # <<>>
        /\ UNCHANGED <<next, request, driver, daemon, faulty, removed>>
    BY DEF ReleaseDisk
  <1>2. PICK s : s = [vm[v] EXCEPT !.phase = "saving"]
    OBVIOUS
  <1>3. s \in Vm /\ Shape(s) /\ Leaves(vm[v], s) /\ KeepsSaves(vm[v], s)
    BY <1>1, <1>2, VmFacts, DiskReleased
  <1>4. PICK t : t = NextDisk(vm[v])
    OBVIOUS
  <1>5. t \in Vm /\ Shape(t) /\ Leaves(vm[v], t) /\ Unsaves(vm[v], t)
    BY <1>1, <1>4, VmFacts, NextDiskLeaves
  <1>6. PICK d : d = vm[v].disks[vm[v].at]
    OBVIOUS
  <1>7. vm[v].at \in DOMAIN vm[v].disks /\ d \in Disk
    BY <1>3, <1>6, VmFacts, VmDisks DEF Leaves
  <1>8. d.image \in Images \cup {NoImage}
    BY <1>7 DEF Disk
  <1>9. CASE d.image # NoImage /\ Exists(d.image)
    <2>1. PICK j \in Images : j = d.image
      BY <1>8, <1>9
    <2>2. PICK hp \in BOOLEAN : hp = HasPath(v)
      BY DEF HasPath
    <2>3. /\ release_image(j, hp)
          /\ vm' = [vm EXCEPT ![v] =
                IF d.save_as # NoImage /\ ThenSaves(j, hp) THEN s ELSE t]
      BY <1>2, <1>4, <1>6, <1>9, <2>1, <2>2 DEF ReleaseDisk
    <2>4. img[j].state # "NONE" /\ vm[v].disks[vm[v].at].image = j
      BY <1>6, <1>9, <2>1 DEF Exists
    <2>5. /\ vm[v].at \in 1..MaxDisks /\ Holding(vm[v], vm[v].at, j)
          /\ img[j].state = "USED"
      BY <1>1, <1>7, <2>4, HeldIsUsed
    <2>6. CASE d.save_as # NoImage /\ ThenSaves(j, hp)
      BY <1>1, <1>3, <2>3, <2>4, <2>6, ImageLeftKeeps
    <2>7. CASE ~(d.save_as # NoImage /\ ThenSaves(j, hp))
      <3>1. d.save_as = NoImage
        <4>1. SUFFICES ASSUME d.save_as # NoImage PROVE FALSE
          OBVIOUS
        <4>2. d.persistent = 0
          BY <1>6, <1>7, <4>1, VmFacts DEF Shape
        <4>3. img[j].persistent_img = 1
          BY <2>5, <2>7, <4>1 DEF ThenSaves
        <4>4. d.persistent = img[j].persistent_img
          BY <1>6, <2>4, <2>5 DEF ImageInv, ImageOK, Private
        <4> QED BY <4>2, <4>3, <4>4
      <3>2. KeepsSaves(vm[v], t)
        BY <1>5, <1>6, <3>1, SavesKept
      <3> QED BY <1>1, <1>5, <2>3, <2>4, <2>7, <3>2, ImageLeftKeeps
    <2> QED BY <2>6, <2>7
  <1>10. CASE ~(d.image # NoImage /\ Exists(d.image))
    <2>1. /\ vm' = [vm EXCEPT ![v] =
                IF d.save_as # NoImage /\ d.image = NoImage THEN s ELSE t]
          /\ img' = img /\ ops' = ops
      BY <1>2, <1>4, <1>6, <1>10 DEF ReleaseDisk
    <2>2. CASE d.image = NoImage /\ d.save_as # NoImage
      BY <1>1, <1>3, <1>6, <2>1, <2>2, PlainLeftKeeps
    <2>3. CASE d.image = NoImage /\ d.save_as = NoImage
      <3>1. KeepsSaves(vm[v], t)
        BY <1>5, <1>6, <2>3, SavesKept
      <3> QED BY <1>1, <1>5, <1>6, <2>1, <2>3, <3>1, PlainLeftKeeps
    <2>4. CASE d.image # NoImage
      <3>1. PICK j \in Images : j = d.image
        BY <1>8, <2>4
      <3>2. img[j].state = "NONE" /\ vm[v].disks[vm[v].at].image = j
        BY <1>6, <1>10, <2>4, <3>1 DEF Exists
      <3>3. vm' = [vm EXCEPT ![v] = t]
        BY <2>1, <2>4
      <3> QED BY <1>1, <1>5, <2>1, <3>2, <3>3, GoneLeftKeeps
    <2> QED BY <2>2, <2>3, <2>4
  <1> QED BY <1>9, <1>10

LEMMA RollbackKeeps ==
    ASSUME ImageInv, NEW v \in VMs, RollbackDisk(v)
    PROVE  ImageInv'
  <1>1. /\ vm[v].phase = "rollback" /\ vm[v].disks # <<>>
        /\ UNCHANGED <<next, request, driver, daemon, faulty, removed>>
    BY DEF RollbackDisk
  <1>2. PICK s : s = NextRollback(vm[v])
    OBVIOUS
  <1>3. s \in Vm /\ Shape(s) /\ Leaves(vm[v], s) /\ KeepsSaves(vm[v], s)
    BY <1>1, <1>2, VmFacts, RollbackLeaves
  <1>4. PICK j : j = vm[v].disks[vm[v].at].image
    OBVIOUS
  <1>5. j \in Images \cup {NoImage}
    BY <1>3, <1>4, VmFacts, VmDisks DEF Leaves, Disk
  <1>6. /\ vm' = [vm EXCEPT ![v] = s]
        /\ IF Exists(j) THEN release_image(j, FALSE) ELSE img' = img /\ ops' = ops
    BY <1>2, <1>4 DEF RollbackDisk
  <1>7. CASE j = NoImage
    <2>1. ~Exists(j)
      BY <1>7, Identifiers DEF Exists
    <2> QED BY <1>1, <1>3, <1>4, <1>6, <1>7, <2>1, PlainLeftKeeps
  <1>8. CASE j \in Images /\ ~Exists(j)
    <2>1. img[j].state = "NONE"
      BY <1>8 DEF Exists
    <2> QED BY <1>1, <1>3, <1>4, <1>6, <1>8, <2>1, GoneLeftKeeps
  <1>9. CASE j \in Images /\ Exists(j)
    <2>1. img[j].state # "NONE" /\ FALSE \in BOOLEAN
      BY <1>9 DEF Exists
    <2> QED BY <1>1, <1>3, <1>4, <1>6, <1>9, <2>1, ImageLeftKeeps
  <1> QED BY <1>5, <1>7, <1>8, <1>9

\* The daemon dies, restarts or loses its driver.
LEMMA FaultKeeps ==
    ASSUME ImageInv, faulty', UNCHANGED <<img, next, removed>>,
           vm' \in [VMs -> Vm], \A v \in VMs : vm'[v] = vm[v] \/ vm'[v] = GoneVm,
           ops' = ops \/ ops' = NoOps, request' = request \/ request' = Idle
    PROVE  ImageInv'
  <1>1. /\ ops' \in [Images -> [Actions -> Nat]]
        /\ \A i \in Images : ops'[i] = ops[i] \/ \A a \in Actions : ops'[i][a] = 0
    BY Typed DEF NoOps
  <1>2. WellTyped'
    BY <1>1, Typed, NoneRecords DEF WellTyped
  <1>3. GoneVm.disks = <<>> /\ GoneVm.phase = "gone" /\ GoneVm.at = 1
        /\ Len(GoneVm.disks) = 0 /\ DOMAIN GoneVm.disks = {}
    BY NoneRecords
  <1>4. Shape(GoneVm)
    BY <1>3, RepositoryAssumption DEF Shape
  <1>5. \A v \in VMs : Shape(vm[v])' /\ Known(vm[v])'
    <2> SUFFICES ASSUME NEW v \in VMs PROVE Shape(vm[v])' /\ Known(vm[v])'
      OBVIOUS
    <2>1. PICK r : r = vm'[v]
      OBVIOUS
    <2>2. Shape(r) /\ Known(r)
      <3>1. CASE r = vm[v]
        BY <3>1, VmFacts
      <3>2. CASE r = GoneVm
        BY <1>3, <1>4, <3>2 DEF Known
      <3> QED BY <2>1, <3>1, <3>2
    <2>3. Known(r)' <=> Known(r)
      BY DEF Known
    <2> QED BY <2>1, <2>2, <2>3 DEF Shape, Known
  <1>6. /\ request'.iid < next'
        /\ request'.step = "idle" <=> request'.iid = NoImage
        /\ request'.step = "save" => request'.vm # NoVm
    <2>1. CASE request' = request
      BY <2>1 DEF ImageInv, Allocated
    <2>2. CASE request' = Idle
      BY <2>2, NoneRecords, Typed DEF NoImage
    <2> QED BY <2>1, <2>2
  <1>7. Allocated'
    <2>1. \A i \in Images : i >= next =>
            img'[i].state = "NONE" /\ \A a \in Actions : ops'[i][a] = 0
      BY <1>1 DEF ImageInv, Allocated
    <2> QED BY <1>5, <1>6, <2>1 DEF Allocated
  <1>8. Faultless'
    BY DEF Faultless
  <1>9. ASSUME NEW i \in Images PROVE ImageOK(i)'
    <2>1. Total(i)' \in {0, Total(i)}
      <3>1. CASE ops'[i] = ops[i]
        BY <3>1 DEF Total
      <3>2. CASE \A a \in Actions : ops'[i][a] = 0
        <4>1. ops'[i]["CP"] = 0 /\ ops'[i]["MV"] = 0 /\ ops'[i]["MKFS"] = 0
          BY <3>2 DEF Actions
        <4> QED BY <4>1 DEF Total
      <3> QED BY <1>1, <3>1, <3>2
    <2>2. Asked(i)' => Asked(i) /\ request'.vm = request.vm
      BY NoneRecords DEF Asked
    <2>3. \A v \in VMs : \A d \in 1..MaxDisks :
            /\ Saving(vm'[v], d, i) => Saving(vm[v], d, i)
            /\ Holding(vm'[v], d, i) =>
                 Holding(vm[v], d, i)
                 /\ vm'[v].disks[d].persistent = vm[v].disks[d].persistent
      <3>1. \A d : ~Saving(GoneVm, d, i) /\ ~Holding(GoneVm, d, i)
        BY <1>3 DEF Saving, Holding
      <3> QED BY <3>1
    <2>4. LessWork(i)
      BY <2>1, <2>2, <2>3 DEF LessWork
    <2>5. img[i].running \in Int /\ ImageOK(i) /\ img'[i] = img[i]
      BY Typed DEF ImageInv, Image
    <2> QED BY <2>3, <2>4, <2>5, ImageAfterFault
  <1> QED BY <1>2, <1>7, <1>8, <1>9 DEF ImageInv

LEMMA FaultsKeep ==
    ASSUME ImageInv, Faults
    PROVE  ImageInv'
  <1>1. ASSUME DriverLost PROVE ImageInv'
    <2>1. /\ faulty' /\ UNCHANGED <<img, next, removed, vm, request>> /\ ops' = NoOps
      BY <1>1 DEF DriverLost
    <2> QED BY <2>1, Typed, FaultKeeps
  <1>2. ASSUME Crash PROVE ImageInv'
    <2>1. /\ faulty' /\ UNCHANGED <<img, next, removed, vm, request, ops>>
      BY <1>2 DEF Crash
    <2> QED BY <2>1, Typed, FaultKeeps
  <1>3. ASSUME Restart PROVE ImageInv'
    <2>1. /\ UNCHANGED <<img, next, removed>> /\ ops' = NoOps /\ request' = Idle
          /\ vm' = [v \in VMs |-> IF vm[v].phase \in {"none", "live", "gone"}
                                  THEN vm[v] ELSE GoneVm]
      BY <1>3 DEF Restart, load_mads
    <2>2. faulty'
      <3>1. daemon # "up" /\ faulty' = faulty
        BY <1>3 DEF Restart
      <3> QED BY <3>1 DEF ImageInv, Faultless
    <2>3. vm' \in [VMs -> Vm] /\ \A v \in VMs : vm'[v] = vm[v] \/ vm'[v] = GoneVm
      BY <2>1, Typed, NoneRecords
    <2> QED BY <2>1, <2>2, <2>3, FaultKeeps
  <1> QED BY <1>1, <1>2, <1>3 DEF Faults

LEMMA DiskToImageKeeps ==
    ASSUME ImageInv, NEW v \in VMs, disk_to_image(v)
    PROVE  ImageInv'
  <1>1. /\ vm[v].phase = "saving" /\ UNCHANGED <<img, next, request, driver, removed>>
    BY DEF disk_to_image
  <1>2. PICK e : e = vm[v].at
    OBVIOUS
  <1>3. PICK i : i = vm[v].disks[e].save_as
    OBVIOUS
  <1>4. CASE ~Exists(i)
    <2>1. faulty' /\ ops' = ops /\ vm' = vm
      BY <1>2, <1>3, <1>4 DEF disk_to_image
    <2> QED BY <1>1, <2>1, Typed, FaultKeeps
  <1>5. CASE Exists(i)
    <2>1. i \in Images /\ img[i].state # "NONE"
      BY <1>5 DEF Exists
    <2>2. PICK s : s = NextDisk(vm[v])
      OBVIOUS
    <2>3. /\ vm' = [vm EXCEPT ![v] = s] /\ Send("MV", i) /\ UNCHANGED <<daemon, faulty>>
      BY <1>2, <1>3, <1>5, <2>2 DEF disk_to_image
    <2>4. vm[v].disks # <<>>
      <3>1. /\ 1 <= vm[v].at /\ vm[v].at <= Len(vm[v].disks)
            /\ vm[v].at \in Nat /\ Len(vm[v].disks) \in Nat
        BY <1>1, VmFacts, VmDisks DEF Shape
      <3>2. Len(vm[v].disks) # 0
        BY <3>1
      <3> QED BY <3>2
    <2>5. s \in Vm /\ Shape(s) /\ Leaves(vm[v], s) /\ Unsaves(vm[v], s)
      BY <1>1, <2>2, <2>4, VmFacts, NextDiskLeaves
    <2>6. e \in DOMAIN vm[v].disks /\ e \in 1..MaxDisks /\ e >= e
      <3>1. /\ e \in DOMAIN vm[v].disks /\ e \in Nat
            /\ DOMAIN vm[v].disks = 1..Len(vm[v].disks) /\ Len(vm[v].disks) \in Nat
            /\ Len(vm[v].disks) <= MaxDisks
        BY <1>2, <2>5, VmFacts, VmDisks DEF Leaves, Shape
      <3> QED BY <3>1, RepositoryAssumption
    <2>7. Saving(vm[v], e, i)
      BY <1>1, <1>2, <1>3, <2>6 DEF Saving
    <2>8. /\ Closed(i) /\ Total(i) = 0 /\ ~Asked(i)
          /\ \A u \in VMs : \A d \in 1..MaxDisks : Saving(vm[u], d, i) => u = v /\ d = e
      BY <2>1, <2>6, <2>7 DEF ImageInv, ImageOK, Work
    <2>9. img[i].state = "LOCKED" /\ i < next
      BY <2>1, <2>8, Known1 DEF Closed
    <2>10. /\ ops' \in [Images -> [Actions -> Nat]]
           /\ \A j \in Images : j # i => ops'[j] = ops[j]
           /\ Total(i)' \in {0, 1} /\ (driver => Total(i)' = 1)
      <3>1. CASE driver
        <4>1. "MV" \in Actions /\ "MV" # "RM"
          BY DEF Actions
        <4>2. OpsOf(i) /\ Total(i)' = Total(i) + 1 /\ \A j \in Images : j # i => ops'[j] = ops[j]
          BY <2>1, <2>3, <3>1, <4>1, Sent
        <4>3. Total(i)' = 1
          BY <2>8, <4>2
        <4>4. ops' \in [Images -> [Actions -> Nat]]
          BY <2>1, <4>2, Typed DEF OpsOf
        <4> QED BY <4>2, <4>3, <4>4
      <3>2. CASE ~driver
        <4>1. ops' = ops
          BY <2>3, <3>2 DEF Send
        <4> QED BY <2>1, <2>8, <3>2, <4>1, NothingSent, Typed
      <3> QED BY <3>1, <3>2
    <2>11. WellTyped' /\ Allocated'
      <3>1. \A j \in Images : j >= next => img'[j] = img[j] /\ ops'[j] = ops[j]
        <4> SUFFICES ASSUME NEW j \in Images, j >= next
                     PROVE  img'[j] = img[j] /\ ops'[j] = ops[j]
          OBVIOUS
        <4>1. j # i
          BY <2>1, <2>9, Typed, Identifiers
        <4> QED BY <1>1, <2>10, <4>1
      <3> QED BY <1>1, <2>3, <2>5, <2>10, <3>1, Typed, LeavesKnown, VmTyped
    <2>12. Faultless'
      BY <1>1, <2>3 DEF ImageInv, Faultless
    <2>13. \A d, j : ~Holding(vm[v], e, j)
      <3>1. ~(e > e)
        BY <2>6
      <3> QED BY <1>1, <1>2, <3>1 DEF Holding
    <2>14. \A u \in VMs : vm'[u] = IF u = v THEN s ELSE vm[u]
      BY <2>3, Typed
    <2>15. \A j : \A u \in VMs : \A d \in 1..MaxDisks :
              /\ Holding(vm'[u], d, j) <=> Holding(vm[u], d, j)
              /\ Holding(vm'[u], d, j) =>
                    vm'[u].disks[d].persistent = vm[u].disks[d].persistent
      BY <1>2, <2>5, <2>13, <2>14 DEF Leaves
    <2>16. ASSUME NEW j \in Images, j # i PROVE ImageOK(j)'
      <3>1. Total(j)' = Total(j) /\ (Asked(j)' <=> Asked(j))
        BY <1>1, <2>10, <2>16 DEF Total, Asked
      <3>2. ~Saving(vm[v], e, j)
        BY <1>3, <2>16 DEF Saving
      <3>3. SameFor(vm[v], s, j)
        BY <1>2, <2>5, <2>13, <3>2 DEF SameFor, Leaves, Unsaves
      <3> QED BY <1>1, <2>3, <2>16, <3>1, <3>3, ElsewhereKept
    <2>17. ImageOK(i)'
      <3>1. ~Asked(i)' /\ Closed(i)' /\ img'[i] = img[i]
        BY <1>1, <2>8 DEF Asked, Closed
      <3>2. \A u \in VMs : \A d \in 1..MaxDisks : ~Saving(vm'[u], d, i)
        BY <1>2, <2>5, <2>8, <2>14 DEF Unsaves
      <3>3. Work(i)'
        <4>1. Total(i)' <= 1
          BY <2>10
        <4> QED BY <3>1, <3>2, <4>1, Zenon DEF Work
      <3>4. Holders(i)' = Holders(i)
        BY <2>15, HoldersKept
      <3>5. Counted(i) /\ Private(i) /\ Present(i)
        BY <2>1 DEF ImageInv, ImageOK
      <3>6. Counted(i)' /\ Present(i)'
        BY <1>1, <2>3, <3>1, <3>4, <3>5 DEF Counted, Present
      <3>7. Private(i)'
        BY <2>15, <3>1, <3>4, <3>5 DEF Private
      <3>8. Waits(i)' /\ Registers(i)'
        BY <1>1, <2>3, <2>10, <3>1 DEF Waits, Registers, ImageInv, Faultless
      <3> QED BY <3>3, <3>6, <3>7, <3>8 DEF ImageOK
    <2> QED BY <2>11, <2>12, <2>16, <2>17 DEF ImageInv
  <1> QED BY <1>4, <1>5

LEMMA SaveDiskEnds ==
    ASSUME ImageInv, save_disk
    PROVE  ImageInv'
  <1>1. PICK v, i, e : v = request.vm /\ i = request.iid /\ e = request.disk
    OBVIOUS
  <1>2. /\ request.step = "save" /\ request' = Idle
        /\ UNCHANGED <<next, ops, driver, daemon, faulty, removed>>
    BY DEF save_disk
  <1>3. v \in VMs /\ i \in Images /\ Asked(i) /\ i < next
    BY <1>1, <1>2, Typed DEF ImageInv, Allocated, Asked, Request
  <1>4. /\ Closed(i) /\ Total(i) = 0
        /\ \A u \in VMs : \A d \in 1..MaxDisks : ~Saving(vm[u], d, i)
    BY <1>3, Zenon DEF ImageInv, ImageOK, Work
  <1>5. \A j \in Images : ~Asked(j)' /\ Total(j)' = Total(j) /\ (j # i => ~Asked(j))
    BY <1>1, <1>2, NoneRecords DEF Asked, Total
  <1>6. CASE /\ MaySave(v, e) /\ img' = img
             /\ vm' = [vm EXCEPT ![v] = SavedAs(vm[v], e, i)]
    <2>1. PICK s : s = SavedAs(vm[v], e, i)
      OBVIOUS
    <2>2. /\ vm[v].phase = "live" /\ e \in DOMAIN vm[v].disks
          /\ vm[v].disks[e].save_as = NoImage /\ vm[v].disks[e].persistent = 0
      BY <1>6 DEF MaySave
    <2>3. /\ s \in Vm /\ Shape(s)
          /\ DOMAIN s.disks = DOMAIN vm[v].disks
          /\ \A d \in DOMAIN vm[v].disks :
                /\ s.disks[d].image = vm[v].disks[d].image
                /\ s.disks[d].persistent = vm[v].disks[d].persistent
                /\ s.disks[d].save_as = IF d = e THEN i ELSE vm[v].disks[d].save_as
          /\ \A d, j : Holding(s, d, j) <=> Holding(vm[v], d, j)
          /\ \A d : \A j \in Images :
                Saving(s, d, j) <=> Saving(vm[v], d, j) \/ (d = e /\ j = i)
      BY <1>3, <2>1, <2>2, VmFacts, DiskSavedAs
    <2>4. Known(s)
      BY <1>3, <2>3, VmFacts DEF Known
    <2>5. e \in 1..MaxDisks
      <3>1. /\ DOMAIN vm[v].disks = 1..Len(vm[v].disks) /\ Len(vm[v].disks) \in Nat
            /\ Len(vm[v].disks) <= MaxDisks
        BY <1>3, VmFacts, VmDisks DEF Shape
      <3> QED BY <2>2, <3>1, RepositoryAssumption
    <2>6. WellTyped' /\ Allocated'
      BY <1>2, <1>3, <1>6, <2>1, <2>3, <2>4, Typed, VmTyped
    <2>7. Faultless'
      BY <1>2 DEF ImageInv, Faultless
    <2>8. \A u \in VMs : vm'[u] = IF u = v THEN s ELSE vm[u]
      BY <1>6, <2>1, Typed
    <2>9. \A j : \A u \in VMs : \A d \in 1..MaxDisks :
              /\ Holding(vm'[u], d, j) <=> Holding(vm[u], d, j)
              /\ Holding(vm'[u], d, j) =>
                    vm'[u].disks[d].persistent = vm[u].disks[d].persistent
      <3>1. \A d, j : Holding(s, d, j) => s.disks[d].persistent = vm[v].disks[d].persistent
        BY <2>3 DEF Holding
      <3>2. \A d, j : Holding(s, d, j) <=> Holding(vm[v], d, j)
        BY <2>3
      <3> QED BY <2>8, <3>1, <3>2
    <2>10. ASSUME NEW j \in Images, j # i PROVE ImageOK(j)'
      <3>1. SameFor(vm[v], s, j)
        BY <2>3, <2>10 DEF SameFor, Holding
      <3> QED BY <1>2, <1>3, <1>5, <1>6, <2>1, <2>10, <3>1, ElsewhereKept
    <2>11. ImageOK(i)'
      <3>1. ~Asked(i)' /\ Closed(i)' /\ img'[i] = img[i] /\ Total(i)' = 0
        BY <1>3, <1>4, <1>5, <1>6 DEF Closed
      <3>2. \A u \in VMs : \A d \in 1..MaxDisks :
              Saving(vm'[u], d, i) <=> u = v /\ d = e
        BY <1>3, <1>4, <2>3, <2>5, <2>8
      <3>3. Work(i)'
        <4>1. Total(i)' <= 1
          BY <3>1
        <4> QED BY <3>1, <3>2, <4>1 DEF Work
      <3>4. Holders(i)' = Holders(i)
        BY <2>9, HoldersKept
      <3>5. Counted(i) /\ Private(i) /\ Present(i)
        BY <1>3 DEF ImageInv, ImageOK
      <3>6. Counted(i)' /\ Present(i)'
        BY <1>2, <3>1, <3>4, <3>5 DEF Counted, Present
      <3>7. Private(i)'
        BY <2>9, <3>1, <3>4, <3>5 DEF Private
      <3>8. Waits(i)' /\ Registers(i)'
        BY <1>3, <2>5, <3>1, <3>2 DEF Waits, Registers
      <3> QED BY <3>3, <3>6, <3>7, <3>8 DEF ImageOK
    <2> QED BY <2>6, <2>7, <2>10, <2>11 DEF ImageInv
  <1>7. CASE img' = [img EXCEPT ![i] = NoneImage] /\ vm' = vm
    <2>1. Holders(i) # {} => removed'
      <3>1. CASE img[i].state = "LOCKED"
        BY <1>3, <3>1, NotHeld
      <3>2. CASE img[i].state = "NONE"
        BY <1>2, <1>3, <3>2 DEF ImageInv, ImageOK, Present
      <3> QED BY <1>4, <3>1, <3>2 DEF Closed
    <2>2. ops' \in [Images -> [Actions -> Nat]]
          /\ \A j \in Images : \A a \in Actions : ops'[j][a] <= ops[j][a]
      BY <1>2, Typed
    <2> QED BY <1>1, <1>2, <1>3, <1>5, <1>7, <2>1, <2>2, DropKeeps
  <1> QED BY <1>1, <1>6, <1>7 DEF save_disk
-----------------------------------------------------------------------------
(* The theorems.                                                           *)

\* The inductive invariant holds initially, is kept by every step, and so always
\* holds.
LEMMA ImageInit == Init => ImageInv
  <1> SUFFICES ASSUME Init PROVE ImageInv
    OBVIOUS
  <1>1. /\ img = [i \in Images |-> NoneImage] /\ next = 0 /\ vm = [v \in VMs |-> NoneVm]
        /\ ops = NoOps /\ request = Idle /\ driver /\ daemon = "up"
    BY DEF Init
  <1>2. WellTyped
    <2>1. 0 \in 0..MaxImages
      BY RepositoryAssumption
    <2> QED BY <1>1, <2>1, NoneRecords DEF WellTyped, NoOps
  <1>3. /\ NoneVm.disks = <<>> /\ Len(NoneVm.disks) = 0 /\ DOMAIN NoneVm.disks = {}
        /\ NoneVm.phase = "none" /\ NoneVm.at = 1 /\ NoneVm.want = <<>>
    BY NoneRecords
  <1>4. Shape(NoneVm) /\ Known(NoneVm)
    BY <1>3, RepositoryAssumption DEF Shape, Known
  <1>5. \A i \in Images : img[i].state = "NONE" /\ \A a \in Actions : ops[i][a] = 0
    BY <1>1, NoneRecords DEF NoOps
  <1>6. Allocated
    BY <1>1, <1>4, <1>5, NoneRecords DEF Allocated, NoImage
  <1>7. ASSUME NEW i \in Images PROVE ImageOK(i)
    <2>1. ops[i]["CP"] = 0 /\ ops[i]["MV"] = 0 /\ ops[i]["MKFS"] = 0
      BY <1>5 DEF Actions
    <2>2. Total(i) = 0 /\ Total(i) <= 1
      BY <2>1 DEF Total
    <2>3. ~Asked(i)
      BY <1>1, NoneRecords DEF Asked
    <2>4. \A v \in VMs : \A d : ~Saving(vm[v], d, i) /\ ~Holding(vm[v], d, i)
      BY <1>1, <1>3 DEF Saving, Holding
    <2>5. Closed(i)
      BY <1>5 DEF Closed
    <2>6. Work(i)
      BY <2>2, <2>3, <2>4, <2>5 DEF Work
    <2>7. Holders(i) = {}
      BY <2>4, HoldersAre
    <2> QED BY <1>5, <2>3, <2>6, <2>7
            DEF ImageOK, Counted, Private, Present, Waits, Registers
  <1> QED BY <1>1, <1>2, <1>6, <1>7 DEF ImageInv, Faultless

LEMMA ImageStep ==
    ASSUME "DATABLOCK" \notin Types, ImageInv, [Next]_vars
    PROVE  ImageInv'
  <1>1. ASSUME ImageRequests PROVE ImageInv'
    BY <1>1, AllocateKeeps, RegisterKeeps, DeleteKeeps, EnableKeeps, PersistentKeeps,
       PermissionsKeep, TypeKeeps DEF ImageRequests
  <1>2. ASSUME protocol PROVE ImageInv'
    BY <1>2, AnswerKeeps DEF protocol
  <1>3. ASSUME VmSteps PROVE ImageInv'
    BY <1>3, CreateKeeps, DiskAttributeKeeps, LifeKeeps, ReleaseKeeps, RollbackKeeps,
       DiskToImageKeeps, SaveDiskKeeps, SaveDiskEnds DEF VmSteps
  <1>4. ASSUME Faults PROVE ImageInv'
    BY <1>4, FaultsKeep
  <1>5. ASSUME UNCHANGED vars PROVE ImageInv'
    BY <1>5, LeftKeeps DEF vars
  <1> QED BY <1>1, <1>2, <1>3, <1>4, <1>5 DEF Next

LEMMA ImageInvariant ==
    ASSUME "DATABLOCK" \notin Types
    PROVE  Spec => []ImageInv
  <1>1. ImageInv /\ [Next]_vars => ImageInv'
    BY ImageStep
  <1> QED BY <1>1, ImageInit, PTL DEF Spec

\* For any VMs, disks, templates and wishes: between the acquisitions and the
\* releases of disks, half done insertions and their rollbacks, answers of the
\* driver in any order, crashes and losses of the driver, an image that a VM has
\* is USED and counts at least its disks, and exactly them until a fault.  The
\* types users give are not DATABLOCK: register_image makes a file system for
\* such an image even if a disk will be saved to it, and its two answers make it
\* READY twice, the second time under the VM that may have acquired it.
THEOREM UsesAreCounted ==
    ASSUME "DATABLOCK" \notin Types
    PROVE  Spec => []UseIsCounted
  <1>1. ImageInv => UseIsCounted
    <2> SUFFICES ASSUME ImageInv, NEW i \in Images, Exists(i)
                 PROVE  LET n == Cardinality(Holders(i)) IN
                        /\ img[i].running >= n
                        /\ n > 0 => img[i].state = "USED"
                        /\ ~faulty => /\ img[i].running = n
                                      /\ n = 0 => img[i].state # "USED"
      BY DEF UseIsCounted
    <2>1. Counted(i) /\ img[i].state # "NONE"
      BY DEF ImageInv, ImageOK, Exists
    <2>2. /\ Cardinality(Holders(i)) \in Nat
          /\ Cardinality(Holders(i)) = 0 <=> Holders(i) = {}
      BY HoldersCount
    <2> QED BY <2>1, <2>2 DEF Counted
  <1> QED BY <1>1, ImageInvariant, PTL

\* A persistent image has at most one disk and is not public, for any number of
\* VMs that acquire it and users that publish it or change its persistence: the
\* checks of acquire_image, persistent and set_permissions are enough because
\* the count of the image is never less than its disks, even after faults.
THEOREM PersistentImagesArePrivate ==
    ASSUME "DATABLOCK" \notin Types
    PROVE  Spec => []PersistentIsPrivate
  <1>1. ImageInv => PersistentIsPrivate
    BY DEF PersistentIsPrivate, ImageInv, ImageOK, Private, Exists
  <1> QED BY <1>1, ImageInvariant, PTL

\* No image stays LOCKED unless the driver works on it, its registration goes on
\* or a disk will be saved to it, as long as there is no fault and no image is
\* removed under its VM.  No administrator registers an image with SOURCE = "-":
\* register_image takes it for a disk to be saved, and nobody unlocks it.
THEOREM LockedImagesAreBusy ==
    ASSUME "DATABLOCK" \notin Types, Sources
    PROVE  Spec => []LockedIsBusy
  <1>1. ImageInv => LockedIsBusy
    <2> SUFFICES ASSUME ImageInv, ~faulty, ~removed, NEW i \in Images,
                        img[i].state = "LOCKED"
                 PROVE  \/ \E action \in {"CP", "MV", "MKFS"} : ops[i][action] > 0
                        \/ request.iid = i
                        \/ \E v \in VMs : \E d \in DOMAIN vm[v].disks :
                            vm[v].disks[d].save_as = i
      BY DEF LockedIsBusy
    <2>1. \/ Total(i) = 1 \/ Asked(i)
          \/ \E v \in VMs : \E d \in 1..MaxDisks : Saving(vm[v], d, i)
      BY DEF ImageInv, ImageOK, Waits
    <2>2. CASE Total(i) = 1
      <3>1. /\ ops[i]["CP"] \in Nat /\ ops[i]["MV"] \in Nat /\ ops[i]["MKFS"] \in Nat
        BY Typed DEF Actions
      <3>2. ops[i]["CP"] > 0 \/ ops[i]["MV"] > 0 \/ ops[i]["MKFS"] > 0
        BY <2>2, <3>1 DEF Total
      <3> QED BY <3>2
    <2>3. CASE Asked(i)
      BY <2>3 DEF Asked
    <2>4. CASE \E v \in VMs : \E d \in 1..MaxDisks : Saving(vm[v], d, i)
      BY <2>4 DEF Saving
    <2> QED BY <2>1, <2>2, <2>3, <2>4
  <1> QED BY <1>1, ImageInvariant, PTL
-----------------------------------------------------------------------------
(* The targets of the disks of a VM.                                       *)

\* The letters of a VM that has its disks: by type, with one OS and one CD, and
\* those of datablocks in the order they came.
Named(k, n) ==
    /\ k.type = "OS" => k.target = 1
    /\ k.type = "CDROM" => k.target = 3
    /\ k.type = "SWAP" => k.target = 4
    /\ k.type = "FS" => k.target = 0
    /\ k.type = "DATABLOCK" => 5 <= k.target /\ k.target < 5 + n

Apart(j, k) ==
    j.type = k.type => /\ j.type \notin {"OS", "CDROM"}
                       /\ j.type = "DATABLOCK" => j.target # k.target

Lettered(r) ==
    r.phase \in {"acquire", "live"} =>
        /\ \A d \in DOMAIN r.disks : Named(r.disks[d], Count(r.disks, "DATABLOCK"))
        /\ \A d, e \in DOMAIN r.disks : d # e => Apart(r.disks[d], r.disks[e])

LetterInv == \A v \in VMs : Lettered(vm[v])

LEMMA CountGrows ==
    ASSUME NEW r \in Vm, NEW s \in Vm, NEW k \in Disk, NEW n,
           Gains(r, s, k, n), NEW type
    PROVE  /\ Count(s.disks, type) \in Nat /\ Count(r.disks, type) \in Nat
           /\ Count(s.disks, type) = IF k.type = type THEN Count(r.disks, type) + 1
                                     ELSE Count(r.disks, type)
           /\ Count(r.disks, type) = 0 => \A d \in DOMAIN r.disks : r.disks[d].type # type
  <1>1. PICK S, T : /\ S = {d \in DOMAIN r.disks : r.disks[d].type = type}
                    /\ T = {d \in DOMAIN s.disks : s.disks[d].type = type}
    OBVIOUS
  <1>2. Count(r.disks, type) = Cardinality(S) /\ Count(s.disks, type) = Cardinality(T)
    BY <1>1 DEF Count
  <1>3. /\ DOMAIN r.disks = 1..Len(r.disks) /\ Len(r.disks) \in Nat
        /\ DOMAIN s.disks = 1..Len(s.disks) /\ Len(s.disks) \in Nat
    BY VmDisks
  <1>4. IsFiniteSet(S)
    <2>1. IsFiniteSet(1..Len(r.disks)) /\ S \subseteq 1..Len(r.disks)
      BY <1>1, <1>3, FS_Interval
    <2> QED BY <2>1, FS_Subset
  <1>5. n \notin DOMAIN r.disks
    BY <1>3 DEF Gains
  <1>6. \A d \in DOMAIN r.disks : d \in DOMAIN s.disks /\ d # n
    <2>1. n \in 1..Len(s.disks) /\ n = Len(r.disks) + 1
      BY <1>3 DEF Gains
    <2>2. Len(r.disks) < Len(s.disks)
      BY <1>3, <2>1
    <2> QED BY <1>3, <2>1, <2>2
  <1>7. k.type = type => T = S \cup {n}
    BY <1>1, <1>5, <1>6 DEF Gains
  <1>8. k.type # type => T = S
    BY <1>1, <1>5, <1>6 DEF Gains
  <1>9. n \notin S
    BY <1>1, <1>5
  <1>10. Cardinality(T) = IF k.type = type THEN Cardinality(S) + 1 ELSE Cardinality(S)
    BY <1>4, <1>7, <1>8, <1>9, FS_AddElement
  <1>11. Cardinality(S) \in Nat /\ (Cardinality(S) = 0 <=> S = {})
    BY <1>4, FS_CardinalityType, FS_EmptySet
  <1> QED BY <1>1, <1>2, <1>10, <1>11

LEMMA LetteredGains ==
    ASSUME NEW r \in Vm, r.phase = "acquire", Lettered(r), NEW s \in Vm,
           NEW k \in Disk, NEW n, Gains(r, s, k, n), k.target = Letter(r.disks, k.type),
           k.type \in {"OS", "CDROM"} => Count(r.disks, k.type) < 1
    PROVE  Lettered(s)
  <1>1. PICK c \in Nat : c = Count(r.disks, "DATABLOCK")
    BY CountNat
  <1>2. PICK b \in Nat : b = Count(s.disks, "DATABLOCK")
    BY CountNat
  <1>3. b = IF k.type = "DATABLOCK" THEN c + 1 ELSE c
    BY <1>1, <1>2, CountGrows
  <1>4. k.type \in DiskType /\ k.target \in Nat
    BY DEF Disk
  <1>5. /\ k.type = "OS" => k.target = 1
        /\ k.type = "CDROM" => k.target = 3
        /\ k.type = "SWAP" => k.target = 4
        /\ k.type = "FS" => k.target = 0
        /\ k.type = "DATABLOCK" => k.target = 5 + c
    BY <1>1 DEF Letter
  <1>6. k.type = "DATABLOCK" => 5 <= k.target /\ k.target < 5 + b
    BY <1>3, <1>4, <1>5
  <1>7. Named(k, b)
    BY <1>5, <1>6 DEF Named
  <1>8. ASSUME NEW d \in DOMAIN r.disks
        PROVE  /\ Named(r.disks[d], b) /\ Apart(r.disks[d], k) /\ Apart(k, r.disks[d])
    <2>1. Named(r.disks[d], c)
      BY <1>1 DEF Lettered
    <2>2. r.disks[d].target \in Nat
      BY VmDisks DEF Disk
    <2>3. r.disks[d].type = "DATABLOCK" =>
            /\ 5 <= r.disks[d].target /\ r.disks[d].target < 5 + b
            /\ r.disks[d].target # 5 + c
      BY <1>3, <2>1, <2>2 DEF Named
    <2>4. Named(r.disks[d], b)
      BY <2>1, <2>3 DEF Named
    <2>5. ASSUME k.type \in {"OS", "CDROM"} PROVE r.disks[d].type # k.type
      <3>1. PICK m \in Nat : m = Count(r.disks, k.type)
        BY CountNat
      <3>2. m = 0
        BY <2>5, <3>1
      <3> QED BY <3>1, <3>2, CountGrows
    <2> QED BY <1>5, <2>3, <2>4, <2>5 DEF Apart
  <1>9. /\ s.disks[n] = k
        /\ \A d \in DOMAIN s.disks : d # n => d \in DOMAIN r.disks /\ s.disks[d] = r.disks[d]
    BY DEF Gains
  <1>10. \A d \in DOMAIN s.disks : Named(s.disks[d], b)
    BY <1>7, <1>8, <1>9
  <1>11. \A d, e \in DOMAIN s.disks : d # e => Apart(s.disks[d], s.disks[e])
    <2> SUFFICES ASSUME NEW d \in DOMAIN s.disks, NEW e \in DOMAIN s.disks, d # e
                 PROVE  Apart(s.disks[d], s.disks[e])
      OBVIOUS
    <2>1. CASE d = n
      BY <1>8, <1>9, <2>1
    <2>2. CASE e = n
      BY <1>8, <1>9, <2>2
    <2>3. CASE d # n /\ e # n
      BY <1>9, <2>3 DEF Lettered
    <2> QED BY <2>1, <2>2, <2>3
  <1> QED BY <1>2, <1>10, <1>11 DEF Lettered

LEMMA LetteredKept ==
    ASSUME NEW r, Lettered(r), NEW s, s.disks = r.disks,
           s.phase \in {"acquire", "live"} => r.phase \in {"acquire", "live"}
    PROVE  Lettered(s)
  BY DEF Lettered

LEMMA LetteredEnds ==
    ASSUME NEW s, s.phase \notin {"acquire", "live"} \/ s.disks = <<>>
    PROVE  Lettered(s)
  <1>1. DOMAIN <<>> = {}
    OBVIOUS
  <1> QED BY <1>1 DEF Lettered

LEMMA LetteredSaves ==
    ASSUME NEW r \in Vm, Lettered(r), r.phase = "live", NEW e \in DOMAIN r.disks,
           NEW x \in Images, NEW s, s = SavedAs(r, e, x)
    PROVE  Lettered(s)
  <1>1. /\ r.disks \in Seq(Disk) /\ DOMAIN r.disks = 1..Len(r.disks) /\ Len(r.disks) \in Nat
        /\ r.disks[e] \in Disk
    BY VmDisks
  <1>2. PICK k : k = [r.disks[e] EXCEPT !.save_as = x]
    OBVIOUS
  <1>3. k \in Disk /\ k.type = r.disks[e].type /\ k.target = r.disks[e].target
    BY <1>1, <1>2 DEF Disk
  <1>4. PICK l : l = [r.disks EXCEPT ![e] = k]
    OBVIOUS
  <1>5. /\ l \in DiskList /\ DOMAIN l = DOMAIN r.disks
        /\ \A d \in DOMAIN r.disks : l[d] = IF d = e THEN k ELSE r.disks[d]
    BY <1>1, <1>3, <1>4 DEF DiskList
  <1>6. s = [r EXCEPT !.disks = l]
    BY <1>2, <1>4 DEF SavedAs
  <1>7. s.disks = l /\ s.phase = r.phase
    BY <1>5, <1>6 DEF Vm
  <1>8. \A d \in DOMAIN r.disks : l[d].type = r.disks[d].type /\ l[d].target = r.disks[d].target
    BY <1>3, <1>5
  <1>9. Count(l, "DATABLOCK") = Count(r.disks, "DATABLOCK")
    <2>1. {d \in DOMAIN l : l[d].type = "DATABLOCK"} =
          {d \in DOMAIN r.disks : r.disks[d].type = "DATABLOCK"}
      BY <1>5, <1>8
    <2> QED BY <2>1 DEF Count
  <1>10. PICK c : c = Count(r.disks, "DATABLOCK")
    OBVIOUS
  <1>11. \A d \in DOMAIN l : Named(l[d], c)
    <2>1. \A d \in DOMAIN l : Named(r.disks[d], c)
      BY <1>5, <1>10 DEF Lettered
    <2> QED BY <1>5, <1>8, <2>1 DEF Named
  <1>12. \A d, f \in DOMAIN l : d # f => Apart(l[d], l[f])
    <2>1. \A d, f \in DOMAIN l : d # f => Apart(r.disks[d], r.disks[f])
      BY <1>5 DEF Lettered
    <2> QED BY <1>5, <1>8, <2>1 DEF Apart
  <1> QED BY <1>7, <1>9, <1>10, <1>11, <1>12 DEF Lettered

\* The VM of a step.
LEMMA OneLettered ==
    ASSUME ImageInv, LetterInv, NEW v \in VMs, NEW s, vm' = [vm EXCEPT ![v] = s], Lettered(s)
    PROVE  LetterInv'
  <1>1. \A w \in VMs : vm'[w] = IF w = v THEN s ELSE vm[w]
    BY Typed
  <1>2. \A w \in VMs : Lettered(vm'[w])
    BY <1>1 DEF LetterInv
  <1> QED BY <1>2 DEF LetterInv, Lettered

LEMMA SameLettered ==
    ASSUME LetterInv, vm' = vm
    PROVE  LetterInv'
  BY DEF LetterInv, Lettered

LEMMA DiskAttributeLetters ==
    ASSUME ImageInv, LetterInv, NEW v \in VMs, disk_attribute(v)
    PROVE  LetterInv'
  <1>1. PICK w : w = Head(vm[v].want)
    OBVIOUS
  <1>2. vm[v].phase = "acquire" /\ vm[v].want # <<>>
    BY DEF disk_attribute
  <1>3. w \in Images \cup {NoImage, Swap}
    <2>1. vm[v].want \in Seq(Images \cup {NoImage, Swap})
      BY VmFacts, VmDisks DEF WantList
    <2> QED BY <1>1, <1>2, <2>1
  <1>4. PICK type : type = IF w = Swap THEN "SWAP" ELSE IF w = NoImage THEN "FS"
                           ELSE img[w].type
    OBVIOUS
  <1>5. Swap \notin Images /\ NoImage \notin Images
    BY DEF Images, Swap, NoImage
  <1>6. /\ type \in DiskType /\ (w \in Images => type \in ImageType)
        /\ w \notin Images => type \in {"SWAP", "FS"}
    <2>1. w \in Images => img[w].type \in ImageType
      BY Typed DEF Image
    <2> QED BY <1>3, <1>4, <1>5, <2>1 DEF DiskType
  <1>7. PICK b \in Bit : b = IF w \in Images THEN img[w].persistent_img ELSE 0
    BY Typed DEF Image, Bit
  <1>8. PICK k : k = DiskOf(v, w, type, b)
    OBVIOUS
  <1>9. /\ k \in Disk /\ k.save_as = NoImage /\ k.type = type
        /\ k.target = Letter(vm[v].disks, type)
    BY <1>6, <1>8, DiskMade
  <1>10. ASSUME type \in {"OS", "CDROM"} => Count(vm[v].disks, type) < 1,
                vm' = [vm EXCEPT ![v] = AddDisk(vm[v], k, "acquire")]
         PROVE  LetterInv'
    <2>1. PICK s : s = AddDisk(vm[v], k, "acquire")
      OBVIOUS
    <2>2. s \in Vm /\ Gains(vm[v], s, k, Len(vm[v].disks) + 1)
      BY <1>2, <1>9, <2>1, VmFacts, DiskAdded
    <2>3. Lettered(s)
      BY <1>2, <1>9, <1>10, <2>2, VmFacts, LetteredGains DEF LetterInv
    <2> QED BY <1>10, <2>1, <2>3, OneLettered
  <1>11. ASSUME vm' = [vm EXCEPT ![v] = AddDisk(vm[v], k, "rollback")]
         PROVE  LetterInv'
    <2>1. PICK s : s = AddDisk(vm[v], k, "rollback")
      OBVIOUS
    <2>2. s.phase = "rollback"
      BY <2>1, VmFacts DEF AddDisk, Vm
    <2> QED BY <1>11, <2>1, <2>2, LetteredEnds, OneLettered
  <1>12. ASSUME vm' = [vm EXCEPT ![v].phase = "rollback"]
         PROVE  LetterInv'
    <2>1. PICK s : s = [vm[v] EXCEPT !.phase = "rollback"]
      OBVIOUS
    <2>2. s.phase = "rollback" /\ vm' = [vm EXCEPT ![v] = s]
      BY <1>12, <2>1, VmFacts DEF Vm
    <2> QED BY <2>2, LetteredEnds, OneLettered
  <1>13. MaxOfType["OS"] = 1 /\ MaxOfType["CDROM"] = 1
    BY DEF MaxOfType
  <1> QED
    <2>1. k = DiskOf(v, Head(vm[v].want), type,
                     IF Head(vm[v].want) \in Images
                     THEN img[Head(vm[v].want)].persistent_img ELSE 0)
      BY <1>1, <1>7, <1>8
    <2>2. \/ vm' = [vm EXCEPT ![v].phase = "rollback"]
          \/ w \notin Images /\ vm' = [vm EXCEPT ![v] = AddDisk(vm[v], k, "acquire")]
          \/ vm' = [vm EXCEPT ![v] = AddDisk(vm[v], k,
                        IF Count(vm[v].disks, type) < MaxOfType[type]
                        THEN "acquire" ELSE "rollback")]
      BY <1>1, <1>4, <2>1 DEF disk_attribute
    <2> QED BY <1>6, <1>10, <1>11, <1>12, <1>13, <2>2

LEMMA LetterStep ==
    ASSUME ImageInv, LetterInv, [Next]_vars
    PROVE  LetterInv'
  <1>1. ASSUME vm' = vm PROVE LetterInv'
    BY <1>1, SameLettered
  <1>2. ASSUME NEW v \in VMs, NEW want \in Wants, create(v, want) PROVE LetterInv'
    <2>1. PICK s : s = [vm[v] EXCEPT !.phase = "acquire", !.want = want]
      OBVIOUS
    <2>2. vm' = [vm EXCEPT ![v] = s] /\ vm[v].phase = "none"
      BY <1>2, <2>1 DEF create
    <2>3. s.disks = <<>>
      <3>1. s.disks = vm[v].disks
        BY <2>1, VmFacts DEF Vm
      <3> QED BY <2>2, <3>1, VmFacts DEF Shape
    <2> QED BY <2>2, <2>3, LetteredEnds, OneLettered
  <1>3. ASSUME NEW v \in VMs, EndInsert(v) PROVE LetterInv'
    <2>1. PICK p \in {"live", "release"} : vm' = [vm EXCEPT ![v].phase = p]
      BY <1>3 DEF EndInsert
    <2>2. PICK s : s = [vm[v] EXCEPT !.phase = p]
      OBVIOUS
    <2>3. vm' = [vm EXCEPT ![v] = s] /\ s.disks = vm[v].disks /\ vm[v].phase = "acquire"
      BY <1>3, <2>1, <2>2, VmFacts DEF Vm, EndInsert
    <2>4. Lettered(s)
      BY <2>3, LetteredKept DEF LetterInv
    <2> QED BY <2>3, <2>4, OneLettered
  <1>4. ASSUME NEW v \in VMs, Deploy(v) \/ Fail(v) PROVE LetterInv'
    <2>1. PICK x \in Status : vm' = [vm EXCEPT ![v] = [vm[v] EXCEPT !.status = x]]
      BY <1>4 DEF Deploy, Fail, Live, Status
    <2>2. PICK s : s = [vm[v] EXCEPT !.status = x]
      OBVIOUS
    <2>3. s.disks = vm[v].disks /\ s.phase = vm[v].phase
      BY <2>2, VmFacts DEF Vm
    <2>4. Lettered(s)
      BY <2>3, LetteredKept DEF LetterInv
    <2> QED BY <2>1, <2>2, <2>4, OneLettered
  <1>5. ASSUME NEW v \in VMs, NEW s, vm' = [vm EXCEPT ![v] = s],
               s.phase \notin {"acquire", "live"}
        PROVE  LetterInv'
    BY <1>5, LetteredEnds, OneLettered
  <1>6. GoneVm.phase = "gone"
    BY NoneRecords
  <1>7. ASSUME NEW v \in VMs
        PROVE  /\ NextDisk(vm[v]).phase \in {"release", "gone"}
               /\ [vm[v] EXCEPT !.phase = "saving"].phase = "saving"
               /\ [vm[v] EXCEPT !.phase = "release"].phase = "release"
    <2>1. [vm[v] EXCEPT !.at = @ + 1, !.phase = "release"].phase = "release"
      BY VmFacts DEF Vm
    <2> QED BY <1>6, <2>1, VmFacts DEF NextDisk, Vm
  <1>8. ASSUME NEW v \in VMs, Done(v) \/ NothingToRelease(v) \/ ReleaseDisk(v) \/ disk_to_image(v)
        PROVE  LetterInv'
    <2>1. \/ vm' = vm \/ vm' = [vm EXCEPT ![v] = GoneVm]
          \/ vm' = [vm EXCEPT ![v] = NextDisk(vm[v])]
          \/ vm' = [vm EXCEPT ![v] = [vm[v] EXCEPT !.phase = "saving"]]
          \/ vm' = [vm EXCEPT ![v] = [vm[v] EXCEPT !.phase = "release"]]
      BY <1>8 DEF Done, Live, NothingToRelease, ReleaseDisk, disk_to_image
    <2> QED BY <1>1, <1>5, <1>6, <1>7, <2>1
  <1>9. ASSUME NEW v \in VMs, RollbackDisk(v) PROVE LetterInv'
    <2>1. PICK s : s = NextRollback(vm[v])
      OBVIOUS
    <2>2. vm' = [vm EXCEPT ![v] = s] /\ vm[v].phase = "rollback"
      BY <1>9, <2>1 DEF RollbackDisk
    <2>3. [vm[v] EXCEPT !.at = @ + 1].phase = "rollback"
      BY <2>2, VmFacts DEF Vm
    <2>4. s.phase \in {"rollback", "gone"}
      BY <1>6, <2>1, <2>3 DEF NextRollback
    <2> QED BY <1>5, <2>2, <2>4
  <1>10. ASSUME save_disk PROVE LetterInv'
    <2>1. CASE vm' = vm
      BY <1>1, <2>1
    <2>2. CASE vm' # vm
      <3>1. PICK v, i, e : v = request.vm /\ i = request.iid /\ e = request.disk
        OBVIOUS
      <3>2. /\ request.step = "save" /\ MaySave(v, e)
            /\ vm' = [vm EXCEPT ![v] = SavedAs(vm[v], e, i)]
        BY <1>10, <2>2, <3>1 DEF save_disk
      <3>3. v \in VMs /\ i \in Images
        BY <3>1, <3>2, Typed DEF ImageInv, Allocated, Request
      <3>4. PICK s : s = SavedAs(vm[v], e, i)
        OBVIOUS
      <3>5. vm[v].phase = "live" /\ e \in DOMAIN vm[v].disks
        BY <3>2 DEF MaySave
      <3>6. Lettered(s)
        BY <3>3, <3>4, <3>5, VmFacts, LetteredSaves DEF LetterInv
      <3> QED BY <3>2, <3>3, <3>4, <3>6, OneLettered
    <2> QED BY <2>1, <2>2
  <1>11. ASSUME Restart PROVE LetterInv'
    <2>1. \A v \in VMs : vm'[v] = vm[v] \/ vm'[v] = GoneVm
      BY <1>11 DEF Restart
    <2>2. Lettered(GoneVm)
      BY <1>6, LetteredEnds
    <2>3. \A v \in VMs : Lettered(vm'[v])
      BY <2>1, <2>2 DEF LetterInv
    <2> QED BY <2>3 DEF LetterInv, Lettered
  <1>12. ASSUME ImageRequests \/ protocol \/ DriverLost \/ Crash \/ UNCHANGED vars
         PROVE  vm' = vm
    BY <1>12 DEF ImageRequests, protocol, DriverLost, Crash, vars, allocate, register_image,
       delete_image, enable_image, persistent, set_permissions, set_type, Edit, Answer
  <1>13. ASSUME NEW v \in VMs, NEW d, NEW type, SaveDisk(v, d, type) PROVE vm' = vm
    BY <1>13 DEF SaveDisk
  <1>14. ASSUME VmSteps PROVE LetterInv'
    BY <1>1, <1>2, <1>3, <1>4, <1>8, <1>9, <1>10, <1>13, <1>14, DiskAttributeLetters
       DEF VmSteps
  <1> QED BY <1>1, <1>11, <1>12, <1>14 DEF Next, Faults

\* The disks of a VM that name no target get different ones, however many images
\* and datablocks it asks for: get_disk_images stops at the second OS or CD, and
\* a datablock's letter is past those of the datablocks before it.
THEOREM TargetsAreDifferent ==
    ASSUME "DATABLOCK" \notin Types
    PROVE  Spec => []TargetsDiffer
  <1>1. Init => LetterInv
    <2> SUFFICES ASSUME Init, NEW v \in VMs PROVE Lettered(vm[v])
      BY DEF LetterInv
    <2>1. vm[v].phase = "none"
      BY NoneRecords DEF Init
    <2> QED BY <2>1, LetteredEnds
  <1>2. ImageInv /\ LetterInv /\ [Next]_vars => LetterInv'
    BY LetterStep
  <1>3. ImageInv /\ LetterInv => TargetsDiffer
    <2> SUFFICES ASSUME ImageInv, LetterInv, NEW v \in VMs, vm[v].phase = "live",
                        NEW d \in DOMAIN vm[v].disks, NEW e \in DOMAIN vm[v].disks, d # e,
                        vm[v].disks[d].target # 0,
                        vm[v].disks[d].target = vm[v].disks[e].target
                 PROVE  vm[v].disks[d].type = "SWAP"
      BY DEF TargetsDiffer
    <2>1. PICK a, b, c : /\ a = vm[v].disks[d] /\ b = vm[v].disks[e]
                         /\ c = Count(vm[v].disks, "DATABLOCK")
      OBVIOUS
    <2>2. Named(a, c) /\ Named(b, c) /\ Apart(a, b)
      BY <2>1 DEF LetterInv, Lettered
    <2>3. a \in Disk /\ b \in Disk
      BY <2>1, VmFacts, VmDisks
    <2>4. /\ a.type \in DiskType /\ b.type \in DiskType /\ a.target \in Nat /\ b.target \in Nat
          /\ a.target # 0 /\ a.target = b.target
      BY <2>1, <2>3 DEF Disk
    <2>5. a.type = "SWAP"
      BY <2>2, <2>4 DEF Named, Apart, DiskType, ImageType
    <2> QED BY <2>1, <2>5
  <1> QED BY <1>1, <1>2, <1>3, ImageInvariant, PTL DEF Spec
=============================================================================
