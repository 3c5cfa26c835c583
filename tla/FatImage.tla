-------------------------------- MODULE FatImage --------------------------------
(***************************************************************************)
(* The FAT32 volume of a private image, three times over: as private_fat32 *)
(* of isopropyl lays it out, as the independent parser of fat_image.py     *)
(* reads it, and as the privileged helper judges it                        *)
(* (syslinux_device_helper.py).  Nothing but the size of the image and the *)
(* names is common to the three, so the image that the first one makes has *)
(* to be the image that the other two expect: else a medium is refused     *)
(* after it was built, or its files are found under other names.  They     *)
(* agree for every size; where they do not, it is the name (Plain).        *)
(*                                                                         *)
(* Sizes are real, in sectors of 512 bytes.  A name is a record: text is   *)
(* what is shown, fold its case folding, short the 8.3 name that shows it  *)
(* exactly, or "none", slots the long-name slots that it takes.            *)
(***************************************************************************)
EXTENDS Integers, Sequences, FiniteSets, TLC
LOCAL INSTANCE FiniteSetsExt
LOCAL INSTANCE SequencesExt

Reserved == 32
FatCount == 2
VolumeLabel == "ISOPROPYL"
End == 0

CeilDiv(a, b) == (a + b - 1) \div b

-----------------------------------------------------------------------------
(* Geometry. *)

ClusterSectors(sectors) ==
  CASE sectors < 532480 -> 1
    [] sectors \in 532480..16777215 -> 8
    [] sectors \in 16777216..33554431 -> 16
    [] sectors \in 33554432..67108863 -> 32
    [] OTHER -> 64

DataClusters(sectors, cluster, fat) == (sectors - Reserved - FatCount * fat) \div cluster

\* Sectors that one table needs for the clusters that are left beside two tables of this size.
Required(sectors, cluster, fat) == CeilDiv(4 * (DataClusters(sectors, cluster, fat) + 2), 512)

\* A size of the table that needs itself; where two sizes need each other, the larger.
Settled(sectors, cluster, first) ==
  LET settled[fat \in Nat, seen \in SUBSET Nat] ==
        LET required == Required(sectors, cluster, fat)
        IN IF required = fat THEN fat
           ELSE IF required \in seen THEN Max({fat, required})
           ELSE settled[required, seen \cup {fat}]
  IN settled[first, {}]

FirstGuess(sectors, cluster) == Max({1, (4 * ((sectors - Reserved) \div cluster + 2)) \div 512})

FatSectors(sectors, cluster) == Settled(sectors, cluster, FirstGuess(sectors, cluster))

Laid(sectors, cluster, fat) ==
  [sectors |-> sectors, cluster |-> cluster, fat |-> fat,
   data |-> Reserved + FatCount * fat, clusters |-> DataClusters(sectors, cluster, fat)]

Geometry(sectors) == Laid(sectors, ClusterSectors(sectors), FatSectors(sectors, ClusterSectors(sectors)))

Supported(geometry) == geometry.clusters >= 65525 /\ geometry.clusters + 2 <= 128 * geometry.fat

\* Mutation: the helper takes the first table that is large enough for the clusters before it.
CanonicalWithoutRepeat(sectors) ==
  LET cluster == ClusterSectors(sectors)
  IN Laid(sectors, cluster, Required(sectors, cluster, FirstGuess(sectors, cluster)))

\* _canonical_fat32_geometry of the helper.
CanonicalGeometry(sectors) ==
  LET cluster == ClusterSectors(sectors) IN Laid(sectors, cluster, FatSectors(sectors, cluster))

-----------------------------------------------------------------------------
(* The plan of the volume. *)

Parent(path) == SubSeq(path, 1, Len(path) - 1)
Name(path) == path[Len(path)]
Entries(tree) == DOMAIN tree \ {<<>>}
Children(tree, directory) == {path \in Entries(tree) : Parent(path) = directory}
Directories(tree) == {path \in Entries(tree) : tree[path].dir}

\* The short names that are taken before the first child gets one.
Taken(directory) == IF directory = <<>> THEN {VolumeLabel} ELSE {}

\* _short_candidate, for the children whose name is its own short name.
Direct(tree, directory) ==
  {path \in Children(tree, directory) : Name(path).short \notin {"none"} \cup Taken(directory)}

Alias(n) == [short |-> "I" \o ToString(n), fold |-> "i" \o ToString(n)]

Free(tree, directory, n) ==
  /\ Alias(n).short \notin Taken(directory) \cup {Name(path).short : path \in Direct(tree, directory)}
  /\ Alias(n).fold \notin {Name(path).fold : path \in Children(tree, directory)}

\* The k-th number that is free.
Numbered(tree, directory, k) ==
  CHOOSE n \in 1..(k + 2 * Cardinality(Children(tree, directory)) + 1) :
    Free(tree, directory, n) /\ Cardinality({m \in 1..n : Free(tree, directory, m)}) = k

AssignAlias(tree, path) ==
  LET directory == Parent(path)
      deferred == SetToSeq(Children(tree, directory) \ Direct(tree, directory))
  IN IF path \in Direct(tree, directory)
       THEN [short |-> Name(path).short, fold |-> Name(path).fold, long |-> FALSE]
       ELSE LET alias == Alias(Numbered(tree, directory, CHOOSE k \in DOMAIN deferred : deferred[k] = path))
            IN [short |-> alias.short, fold |-> alias.fold, long |-> TRUE]

\* Records of 32 bytes, with the label or the dots and the end mark.
Records(tree, directory) ==
  LET Slots(path) == 1 + (IF AssignAlias(tree, path).long THEN Name(path).slots ELSE 0)
  IN (IF directory = <<>> THEN 2 ELSE 3) + MapThenSumSet(Slots, Children(tree, directory))

ClustersOf(tree, geometry, path) ==
  LET bytes == 512 * geometry.cluster
  IN IF tree[path].dir THEN Max({1, CeilDiv(32 * Records(tree, path), bytes)})
     ELSE CeilDiv(tree[path].size, bytes)

\* The root, the file that boots, the directories, the other files.
Order(tree, priority) ==
  <<<<>>>> \o SetToSeq(priority) \o SetToSeq(Directories(tree))
    \o SetToSeq(Entries(tree) \ (Directories(tree) \cup priority))

\* _layout: chains without a gap, from cluster 2 on.
Layout(tree, geometry, priority) ==
  LET order == Order(tree, priority)
      Before(path) == {order[i] : i \in 1..((CHOOSE i \in DOMAIN order : order[i] = path) - 1)}
      Count(path) == ClustersOf(tree, geometry, path)
  IN [path \in DOMAIN tree |->
        LET first == 2 + MapThenSumSet(Count, Before(path))
        IN [first |-> IF Count(path) = 0 THEN 0 ELSE first,
            chain |-> [i \in 1..Count(path) |-> first + i - 1]]]

Allocated(layout) == UNION {Range(layout[path].chain) : path \in DOMAIN layout}

Fits(layout, geometry) == Cardinality(Allocated(layout)) <= geometry.clusters

-----------------------------------------------------------------------------
(* The volume as it is written. *)

BootSector(geometry) ==
  [cluster |-> geometry.cluster, reserved |-> Reserved, fats |-> FatCount,
   total |-> geometry.sectors, fat |-> geometry.fat, root |-> 2]

FsInfo(geometry, layout) ==
  LET free == geometry.clusters - Cardinality(Allocated(layout))
  IN [free |-> free, next |-> IF free = 0 THEN End ELSE 2 + Cardinality(Allocated(layout))]

\* _fat: each cluster of a chain leads to the next one.
AllocationTable(layout) ==
  [c \in Allocated(layout) |->
     IF \E path \in DOMAIN layout : layout[path].chain # <<>> /\ Last(layout[path].chain) = c
       THEN End ELSE c + 1]

Shown(tree, path) == IF AssignAlias(tree, path).long THEN Name(path).text ELSE "none"

\* _directory_content: the label, or the dots, and the children.
DirectoryContent(tree, layout, directory) ==
  [self |-> layout[directory].first,
   parent |-> IF Len(directory) < 2 THEN 0 ELSE layout[Parent(directory)].first,
   entries |-> {[short |-> AssignAlias(tree, path).short, seen |-> AssignAlias(tree, path).fold,
                 long |-> Shown(tree, path), name |-> Name(path), dir |-> tree[path].dir,
                 first |-> layout[path].first, size |-> tree[path].size] :
                   path \in Children(tree, directory)}]

Written(tree, sectors, priority) ==
  LET geometry == Geometry(sectors)
      layout == Layout(tree, geometry, priority)
      directories == Directories(tree) \cup {<<>>}
  IN [boot |-> BootSector(geometry), fsinfo |-> FsInfo(geometry, layout),
      table |-> AllocationTable(layout),
      content |-> [c \in {layout[d].first : d \in directories} |->
                     DirectoryContent(tree, layout, CHOOSE d \in directories : layout[d].first = c)]]

\* What the parser has to find (_expected_entries).
Expected(tree, sectors, priority) ==
  LET layout == Layout(tree, Geometry(sectors), priority)
  IN {[path |-> path, dir |-> tree[path].dir, size |-> tree[path].size, chain |-> layout[path].chain] :
        path \in Entries(tree)}

-----------------------------------------------------------------------------
(* The parser of fat_image.py. *)

\* _parse_layout: the kind of FAT follows from the number of clusters.
ParsedClusters(boot) == (boot.total - boot.reserved - boot.fats * boot.fat) \div boot.cluster

LayoutIsFat32(boot) ==
  /\ boot.reserved + boot.fats * boot.fat < boot.total
  /\ ParsedClusters(boot) >= 65525
  /\ boot.root \in 2..(ParsedClusters(boot) + 1)
  /\ 128 * boot.fat >= ParsedClusters(boot) + 2

\* _chain.
Chain(image, first) ==
  LET chain[cluster \in Nat, passed \in SUBSET Nat] ==
        IF cluster \in passed \/ cluster \notin DOMAIN image.table THEN <<End>>
        ELSE <<cluster>> \o (IF image.table[cluster] = End THEN <<>>
                              ELSE chain[image.table[cluster], passed \cup {cluster}])
  IN chain[first, {}]

Sound(chain) == End \notin Range(chain)

ChainOf(image, entry) == IF ~entry.dir /\ entry.size = 0 THEN <<>> ELSE Chain(image, entry.first)

VisibleFold(entry) == IF entry.long = "none" THEN entry.seen ELSE entry.name.fold

\* _parse_directory: no two entries have a short name in common, or a name that is shown.
NamesAreApart(content, labels) ==
  /\ \A e \in content.entries : e.short \notin labels
  /\ \A e, f \in content.entries :
       e # f => e.short # f.short /\ {VisibleFold(e), e.seen} \cap {VisibleFold(f), f.seen} = {}

EntryIsSound(image, entry) ==
  LET chain == ChainOf(image, entry)
  IN /\ Sound(chain)
     /\ entry.dir => entry.size = 0 /\ entry.first \in DOMAIN image.content
     /\ ~entry.dir => Len(chain) = CeilDiv(entry.size, 512 * image.boot.cluster)

Refusal == [path |-> <<>>, dir |-> FALSE, size |-> 0, chain |-> <<>>]

\* The entries below a directory, or a refusal among them.
ParseDirectory(image) ==
  LET names == {e.name : e \in UNION {content.entries : content \in Range(image.content)}}
      parse[path \in Seq(names), self \in Nat, parent \in Nat] ==
        LET content == image.content[self]
            Path(e) == path \o <<e.name>>
        IN IF /\ content.self = self /\ content.parent = parent
              /\ NamesAreApart(content, IF path = <<>> THEN {VolumeLabel} ELSE {})
              /\ \A e \in content.entries : EntryIsSound(image, e)
             THEN {[path |-> Path(e), dir |-> e.dir, size |-> e.size, chain |-> ChainOf(image, e)] :
                     e \in content.entries}
                    \cup UNION {parse[Path(e), e.first, IF path = <<>> THEN 0 ELSE self] :
                                   e \in {x \in content.entries : x.dir}}
             ELSE {Refusal}
  IN parse[<<>>, image.boot.root, 0]

\* inspect_regular_fat32_image: no cluster belongs to two chains, and the others are free.
Inspect(image) ==
  LET found == ParseDirectory(image)
      root == Chain(image, image.boot.root)
      claimed == Range(root) \cup UNION {Range(e.chain) : e \in found}
  IN IF /\ LayoutIsFat32(image.boot) /\ Refusal \notin found /\ Sound(root)
        /\ Cardinality(claimed) = Len(root) + MapThenSumSet(LAMBDA e : Len(e.chain), found)
        /\ claimed = DOMAIN image.table
        /\ image.fsinfo.free = ParsedClusters(image.boot) - Cardinality(claimed)
        /\ IF image.fsinfo.free = 0 THEN image.fsinfo.next = End
           ELSE image.fsinfo.next \notin claimed /\ 2..(image.fsinfo.next - 1) \subseteq claimed
       THEN found ELSE {Refusal}

\* The independent parser reads what was planned.
ReadsAsPlanned(tree, sectors, priority) ==
  Inspect(Written(tree, sectors, priority)) = Expected(tree, sectors, priority)

-----------------------------------------------------------------------------
(* The helper's checks of an image, before the drive is opened. *)

\* The boot sector and the FSInfo are the canonical ones.
BootIsCanonical(image, sectors) ==
  LET geometry == CanonicalGeometry(sectors)
  IN /\ Supported(geometry)
     /\ image.boot = BootSector(geometry)
     /\ image.fsinfo.free <= geometry.clusters
     /\ image.fsinfo.next = IF image.fsinfo.free = 0 THEN End
                            ELSE 2 + geometry.clusters - image.fsinfo.free

\* _validate_syslinux_image_layout: the loader lies in the data.
SyslinuxImageLayout(image, sectors) == BootIsCanonical(image, sectors)

\* _validate_grub_rescue_image_layout: an empty volume, to its last sector.
GrubRescueImageLayout(image, sectors) ==
  /\ BootIsCanonical(image, sectors)
  /\ image.fsinfo.free = CanonicalGeometry(sectors).clusters - 1 /\ image.fsinfo.next = 3
  /\ image.table = (2 :> End) /\ image.content[2].entries = {}

\* _fat32_short_entry: by its short name, or by the long one that the caller knows.
ShortEntry(image, directory, short, long) ==
  {e \in image.content[directory].entries : e.short = short \/ (long # "none" /\ e.long = long)}

HasDirectory(image, directory, short, long) == \E e \in ShortEntry(image, directory, short, long) : e.dir
HasFile(image, directory, short) ==
  \E e \in ShortEntry(image, directory, short, "none") : ~e.dir /\ e.size > 0 /\ e.first >= 2

DirectoryAt(image, directory, short, long) ==
  (CHOOSE e \in ShortEntry(image, directory, short, long) : e.dir).first

\* _validate_windows_image_layout.
WindowsImageLayout(image, sectors) ==
  /\ BootIsCanonical(image, sectors)
  /\ HasFile(image, 2, "BOOTMGR")
  /\ HasDirectory(image, 2, "BOOT", "Boot") /\ HasDirectory(image, 2, "EFI", "none")
  /\ HasFile(image, DirectoryAt(image, 2, "BOOT", "Boot"), "BCD")
  /\ LET efi == DirectoryAt(image, 2, "EFI", "none")
     IN /\ HasDirectory(image, efi, "BOOT", "none")
        /\ HasFile(image, DirectoryAt(image, efi, "BOOT", "none"), "BOOTX64.EFI")

ImageLayout(profile, image, sectors) ==
  CASE profile = "syslinux" -> SyslinuxImageLayout(image, sectors)
    [] profile = "grub" -> GrubRescueImageLayout(image, sectors)
    [] OTHER -> WindowsImageLayout(image, sectors)

-----------------------------------------------------------------------------
(* The volumes that are looked at. *)

Same(text, fold, short) == [text |-> text, fold |-> fold, short |-> short, slots |-> 1]
Mixed(text, fold) == Same(text, fold, "none")
Long(text) == [text |-> text, fold |-> text, short |-> "none", slots |-> 12]

Folder == [dir |-> TRUE, size |-> 0]
File(size) == [dir |-> FALSE, size |-> size]

Loader == [syslinux |-> Same("ldlinux.sys", "ldlinux.sys", "LDLINUX.SYS"), windows |-> Same("bootmgr", "bootmgr", "BOOTMGR")]

\* Names like the label, like the first alias and like the second; an empty file; and a
\* directory that takes two small clusters.
SyslinuxTree ==
  LET aliased == Mixed("Live", "live")
      label == Same("ISOPROPY.L", "isopropy.l", VolumeLabel)
  IN (<<>> :> Folder) @@ (<<Loader.syslinux>> :> File(3000)) @@ (<<label>> :> File(1))
       @@ (<<Same("I1", "i1", "I1")>> :> File(0)) @@ (<<Mixed("i2", "i2")>> :> File(513))
       @@ (<<aliased>> :> Folder) @@ (<<aliased, label>> :> Folder)
       @@ (<<aliased, Long("first.squashfs")>> :> File(2500)) @@ (<<aliased, Long("second.squashfs")>> :> File(512))

\* What _required_file_digests asks of a Windows tree, in the spelling of README.md.
Exact ==
  [bootmgr |-> Loader.windows, boot |-> Mixed("Boot", "boot"), bcd |-> Same("BCD", "bcd", "BCD"),
   efi |-> Same("EFI", "efi", "EFI"), inner |-> Same("BOOT", "boot", "BOOT"),
   bootx64 |-> Same("BOOTX64.EFI", "bootx64.efi", "BOOTX64.EFI")]

\* _manifest_files folds the case: any of the names may be written in mixed case.
Spellings ==
  {Exact, [Exact EXCEPT !.boot = Same("boot", "boot", "BOOT")]}
    \cup {[Exact EXCEPT ![part] = Mixed("mixed " \o @.fold, @.fold)] : part \in DOMAIN Exact}

WindowsTree(names) ==
  LET efi == <<names.efi>>
      inner == efi \o <<names.inner>>
  IN (<<>> :> Folder) @@ (<<names.bootmgr>> :> File(4000)) @@ (<<names.boot>> :> Folder)
       @@ (<<names.boot, names.bcd>> :> File(1024)) @@ (efi :> Folder)
       @@ (inner :> Folder) @@ (inner \o <<names.bootx64>> :> File(3000))

Trees(profile) ==
  CASE profile = "syslinux" -> {SyslinuxTree}
    [] profile = "grub" -> {<<>> :> Folder}
    [] OTHER -> {WindowsTree(names) : names \in Spellings}

\* Each name of the tree of Windows is in one case, or is the Boot of the root.
Plain(profile, tree) ==
  profile = "windows" =>
    \A path \in Entries(tree) : Name(path).short # "none" \/ path = <<Mixed("Boot", "boot")>>

Priority(tree) == {path \in DOMAIN tree : path = <<Loader.syslinux>>}

\* The smallest; the ends of the ranges of cluster sizes; two where two sizes of the table
\* need each other; and 128 GiB.
Sizes == {66581, 70000, 532479, 532480, 16777216, 33554432, 67108863, 114609446, 268433408}

Volumes(profile) == Trees(profile) \X Sizes

\* What the independent parser, and what the helper, says of the images of a profile.
Readings(profile) == {ReadsAsPlanned(v[1], v[2], Priority(v[1])) : v \in Volumes(profile)}
Judgements(profile) ==
  {[plain |-> Plain(profile, v[1]),
    laid |-> ImageLayout(profile, Written(v[1], v[2], Priority(v[1])), v[2])] : v \in Volumes(profile)}
=============================================================================
