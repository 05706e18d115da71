---------------- MODULE PackagingAndAlgorithms_proofs -----------------------
(***************************************************************************)
(* Packaging: a packaging that no other overlapped makes a whole archive,  *)
(* without an overlap the process always has a directory to be in, and     *)
(* what a descriptor names is there, for any number of threads and         *)
(* whatever they are asked for.  Algorithms: each of the factory's         *)
(* algorithms computes what it is to, whatever it is given.                *)
(***************************************************************************)
EXTENDS Packaging, Algorithms, SequenceTheorems, WellFoundedInduction,
        FiniteSetTheorems, TLAPS

Working == Places \ {"called", "raised", "done"}

Types ==
  /\ TypeOK
  /\ files = [t \in Threads |-> files[t]]
  /\ todo = [t \in Threads |-> todo[t]]
  /\ archive = [t \in Threads |-> archive[t]]
  /\ lead = [t \in Threads |-> lead[t]]

\* What keeps the packages apart: two inside are both known to overlap.
Windows ==
  \A t, u \in Threads : t # u /\ Inside(t) /\ Inside(u) => t \in overlapped

\* A package is there, and of a known format, from its making to its deletion;
\* after the staging it has a descriptor if it needs one.
Stands ==
  /\ \A t \in Threads : at[t] \in Working => t \in standing /\ Format(t) # "raises"
  /\ \A t \in Threads :
       at[t] \in Working \ {"staging"} => ~CannotDescribe(Format(t))

\* The process is where somebody is inside, or failed inside; so it was when
\* those who are inside came.
Somewhere ==
  overlapped = {} =>
    /\ cwd # Home => cwd \in standing /\ at[cwd] \in {"entered", "adding", "raised"}
    /\ \A t \in Threads :
         Inside(t) /\ cameFrom[t] # Home =>
           cameFrom[t] \in standing /\ at[cameFrom[t]] = "raised"

Complete(t) == \A f \in Whole(t) : IsDescriptor(f) => lead[t] = f

\* What a package has come to, if no other disturbed it.
Contents(t) ==
  /\ at[t] \in {"opened", "named", "entered", "adding"} => files[t] = Whole(t) \cup {Ova}
  /\ at[t] \in {"called", "staging", "opened", "named", "entered"} => archive[t] = {}
  /\ t \notin overlapped =>
       /\ at[t] \in {"entered", "adding"} => cwd = t
       /\ at[t] = "adding" =>
            /\ todo[t] \subseteq Whole(t)
            /\ archive[t] = {t} \X (Whole(t) \ todo[t])
            /\ archive[t] # {} => Complete(t)
       /\ at[t] \in {"zipping", "archived", "delivered", "done"} =>
            /\ archive[t] = {t} \X Whole(t)
            /\ Complete(t)

IInv == Types /\ Windows /\ Stands /\ Somewhere /\ \A t \in Threads : Contents(t)

-----------------------------------------------------------------------------
(* What a descriptor says, and the files that its package has.             *)

\* The path of a file below a root.
LEMMA Below ==
  ASSUME NEW a, NEW b
  PROVE  /\ <<"images">> \o <<a, b>> = <<"images", a, b>>
         /\ << >> \o <<a>> = <<a>>
<1> DEFINE S == {"images", a, b}
<1>1. /\ <<"images">> \in Seq(S) /\ <<a, b>> \in Seq(S) /\ <<"images", a, b>> \in Seq(S)
      /\ <<a>> \in Seq(S)
  OBVIOUS
<1>2. /\ <<"images">> \o <<a, b>> \in Seq(S)
      /\ Len(<<"images">> \o <<a, b>>) = Len(<<"images">>) + Len(<<a, b>>)
      /\ \A i \in 1 .. Len(<<"images">>) + Len(<<a, b>>) :
           (<<"images">> \o <<a, b>>)[i] =
              IF i <= Len(<<"images">>) THEN <<"images">>[i] ELSE <<a, b>>[i - Len(<<"images">>)]
  BY <1>1, ConcatProperties
<1>3. Len(<<"images">>) = 1 /\ Len(<<a, b>>) = 2 /\ Len(<<"images", a, b>>) = 3
  OBVIOUS
<1>4. \A i \in 1 .. 3 : (<<"images">> \o <<a, b>>)[i] = <<"images", a, b>>[i]
  BY <1>2, <1>3
<1>5. <<"images">> \o <<a, b>> = <<"images", a, b>>
  <2> DEFINE s == <<"images">> \o <<a, b>>
             r == <<"images", a, b>>
  <2>1. s \in Seq(S) /\ r \in Seq(S) /\ Len(s) = 3 /\ Len(r) = 3 /\ \A i \in 1 .. 3 : s[i] = r[i]
    BY <1>1, <1>2, <1>3, <1>4
  <2> HIDE DEF s, r, S
  <2>2. s = r
    BY <2>1, SeqEqual
  <2> QED
    BY <2>2 DEF s, r
<1>6. << >> \o <<a>> = <<a>>
  BY <1>1, ConcatEmptySeq
<1> QED
  BY <1>5, <1>6

\* What a part has, by how it was made.
LEMMA ItemParts ==
  \A id, type : /\ Item(id, type).id = id /\ Item(id, type).type = type
                /\ Item(id, type).parent = Top
                /\ Item(id, type).host = Nothing /\ Item(id, type).network = Nothing
  BY DEF Item

LEMMA DriveParts ==
  \A id, parent, host : /\ Drive(id, parent, host).id = id
                        /\ Drive(id, parent, host).parent = parent
                        /\ Drive(id, parent, host).host = host
                        /\ Drive(id, parent, host).network = Nothing
  BY DEF Item, Drive

LEMMA CardParts ==
  \A id, network : /\ Card(id, network).id = id /\ Card(id, network).parent = Top
                   /\ Card(id, network).host = Nothing /\ Card(id, network).network = network
  BY DEF Item, Card

\* The CD-ROM of vSphere hangs from the IDE controller.
LEMMA CdromParts ==
  LET i == [Item("7", "15") EXCEPT !.parent = "6"] IN
  /\ i.id = "7" /\ i.parent = "6" /\ i.host = Nothing /\ i.network = Nothing
<1> QED
  BY DEF Item

\* The hardware that a RHEV-M descriptor lists is connected: its drive is the volume.
LEMMA RHEVConnected ==
  ASSUME NEW u
  PROVE  Connected(RHEVItems(u), With(RHEVReferences(u), {RHEVItems(u)}))
<1> DEFINE d == With(RHEVReferences(u), {RHEVItems(u)})
<1>1. d.disks = {[names |-> {<<"vol">>, <<u, "vol">>}, file |-> <<u, "vol">>]}
  BY DEF With, RHEVReferences
<1> HIDE DEF d
<1>2. \A i \in RHEVItems(u) : 
        /\ i.parent = Top /\ i.network = Nothing
        /\ i.host # Nothing => i.host = <<u, "vol">>
  BY ItemParts, DriveParts, CardParts DEF RHEVItems
<1>3. \A i, j \in RHEVItems(u) : i.id = j.id => i = j
  BY ItemParts, DriveParts, CardParts DEF RHEVItems
<1>4. \E k \in d.disks : <<u, "vol">> \in k.names
  BY <1>1
<1> QED
  BY <1>2, <1>3, <1>4 DEF Connected, d

\* So is that of a vSphere descriptor, with a CD-ROM or without one.
LEMMA VsphereConnected ==
  ASSUME NEW cdrom \in BOOLEAN, NEW h
  PROVE  Connected(VsphereItems(cdrom), With(VsphereReferences, h))
<1> DEFINE d == With(VsphereReferences, h)
           cpu == Item("1", "3")
           memory == Item("2", "4")
           scsi == Item("3", "6")
           disk == Drive("4", "3", <<"vmdisk1">>)
           card == Card("5", <<"VM Network">>)
           ide == Item("6", "5")
           drive == [Item("7", "15") EXCEPT !.parent = "6"]
           items == VsphereItems(cdrom)
<1>1. /\ items = {cpu, memory, scsi, disk, card} \cup IF cdrom THEN {ide, drive} ELSE {}
      /\ d.networks = {<<"VM Network">>}
  BY DEF VsphereItems, VsphereCdrom, With, VsphereReferences
<1>2. \E k \in d.disks : <<"vmdisk1">> \in k.names
  BY DEF With, VsphereReferences
<1>3. /\ drive.id = "7" /\ drive.parent = "6" /\ drive.host = Nothing /\ drive.network = Nothing
  BY CdromParts
<1> HIDE DEF d, items, drive
<1>4. /\ cpu.id = "1" /\ cpu.parent = Top /\ cpu.host = Nothing /\ cpu.network = Nothing
      /\ memory.id = "2" /\ memory.parent = Top /\ memory.host = Nothing /\ memory.network = Nothing
      /\ scsi.id = "3" /\ scsi.parent = Top /\ scsi.host = Nothing /\ scsi.network = Nothing
      /\ scsi.type = "6"
      /\ ide.id = "6" /\ ide.parent = Top /\ ide.host = Nothing /\ ide.network = Nothing
      /\ ide.type = "5"
  BY ItemParts
<1>5. /\ disk.id = "4" /\ disk.parent = "3" /\ disk.host = <<"vmdisk1">> /\ disk.network = Nothing
  BY DriveParts
<1>6. /\ card.id = "5" /\ card.parent = Top /\ card.host = Nothing /\ card.network = <<"VM Network">>
  BY CardParts
<1> HIDE DEF cpu, memory, scsi, disk, card, ide
<1>7. \A i, j \in items : i.id = j.id => i = j
  <2>1. \A i \in items : /\ i.id \in {"1", "2", "3", "4", "5", "6", "7"}
                         /\ (i.id = "1" => i = cpu) /\ (i.id = "2" => i = memory)
                         /\ (i.id = "3" => i = scsi) /\ (i.id = "4" => i = disk)
                         /\ (i.id = "5" => i = card) /\ (i.id = "6" => i = ide)
                         /\ (i.id = "7" => i = drive)
    BY <1>1, <1>3, <1>4, <1>5, <1>6
  <2> QED
    BY <2>1
<1>8. \A i \in items : i.parent # Top => \E c \in items : c.id = i.parent /\ c.type \in Controllers
  BY <1>1, <1>3, <1>4, <1>5, <1>6 DEF Controllers
<1>9. \A i \in items : i.host \in {Nothing, <<"vmdisk1">>} /\ i.network \in {Nothing, <<"VM Network">>}
  BY <1>1, <1>3, <1>4, <1>5, <1>6
<1>10. \A i \in items : i.host # Nothing => \E k \in d.disks : i.host \in k.names
  BY <1>2, <1>9
<1>11. \A i \in items : i.network # Nothing => i.network \in d.networks
  BY <1>1, <1>9
<1>12. Connected(items, d)
  BY <1>7, <1>8, <1>10, <1>11 DEF Connected
<1> QED
  BY <1>12 DEF d, items

\* So is the hardware that VirtualBox's descriptor lists the first time,
LEMMA VirtualBoxConnected ==
  ASSUME NEW h
  PROVE  Connected(VirtualBoxItems, With(VirtualBoxReferences, h))
<1> DEFINE d == With(VirtualBoxReferences, h)
           cpu == Item("1", "3")
           memory == Item("2", "4")
           first == Item("3", "5")
           second == Item("4", "5")
           disk == Drive("5", "3", <<"vmdisk1">>)
           card == Card("6", <<"NAT">>)
           items == VirtualBoxItems
<1>1. /\ items = {cpu, memory, first, second, disk, card}
      /\ d.disks = {[names |-> {<<"vmdisk1">>, <<"disk_uuid">>}, file |-> <<"file1">>]}
      /\ d.networks = {<<"NAT">>}
  BY DEF VirtualBoxItems, With, VirtualBoxReferences
<1>2. \E k \in d.disks : <<"vmdisk1">> \in k.names
  BY <1>1
<1>3. /\ cpu.id = "1" /\ memory.id = "2" /\ first.id = "3" /\ second.id = "4" /\ disk.id = "5"
      /\ card.id = "6" /\ first.type = "5"
  BY ItemParts, DriveParts, CardParts
<1>4. /\ cpu.parent = Top /\ memory.parent = Top /\ first.parent = Top /\ second.parent = Top
      /\ disk.parent = "3" /\ card.parent = Top
  BY ItemParts, DriveParts, CardParts
<1>5. /\ cpu.host = Nothing /\ memory.host = Nothing /\ first.host = Nothing
      /\ second.host = Nothing /\ disk.host = <<"vmdisk1">> /\ card.host = Nothing
  BY ItemParts, DriveParts, CardParts
<1>6. /\ cpu.network = Nothing /\ memory.network = Nothing /\ first.network = Nothing
      /\ second.network = Nothing /\ disk.network = Nothing /\ card.network = <<"NAT">>
  BY ItemParts, DriveParts, CardParts
<1> HIDE DEF d, cpu, memory, first, second, disk, card, items
<1>7. \A i, j \in items : i.id = j.id => i = j
  BY <1>1, <1>3
<1>8. \A i \in items : i.parent # Top => \E c \in items : c.id = i.parent /\ c.type \in Controllers
  BY <1>1, <1>3, <1>4 DEF Controllers
<1>9. \A i \in items : i.host \in {Nothing, <<"vmdisk1">>} /\ i.network \in {Nothing, <<"NAT">>}
  BY <1>1, <1>5, <1>6
<1>10. \A i \in items : i.host # Nothing => \E k \in d.disks : i.host \in k.names
  BY <1>2, <1>9
<1>11. \A i \in items : i.network # Nothing => i.network \in d.networks
  BY <1>1, <1>9
<1>12. Connected(items, d)
  BY <1>7, <1>8, <1>10, <1>11 DEF Connected
<1> QED
  BY <1>12 DEF d, items

\* and the hardware that it lists the second time.
LEMMA MachineConnected ==
  ASSUME NEW h
  PROVE  Connected(VirtualBoxMachine, With(VirtualBoxReferences, h))
<1> DEFINE d == With(VirtualBoxReferences, h)
           slots == {"slot 1", "slot 2", "slot 3", "slot 4", "slot 5", "slot 6", "slot 7"}
           others == {Card(slot, Nothing) : slot \in slots}
           cpu == Item("CPU", "3")
           memory == Item("Memory", "4")
           ide == Item("IDE", "5")
           disk == Drive("port 0", "IDE", <<"disk_uuid">>)
           card == Card("slot 0", <<"NAT">>)
           items == VirtualBoxMachine
<1>1. /\ items = {cpu, memory, ide, disk, card} \cup others
      /\ d.networks = {<<"NAT">>}
  BY DEF VirtualBoxMachine, VirtualBoxAdapters, VirtualBoxStorage, With, VirtualBoxReferences
<1>2. \E k \in d.disks : <<"disk_uuid">> \in k.names
  BY DEF With, VirtualBoxReferences
<1> HIDE DEF d, items, others
<1>3. /\ cpu.id = "CPU" /\ cpu.parent = Top /\ cpu.host = Nothing /\ cpu.network = Nothing
      /\ memory.id = "Memory" /\ memory.parent = Top /\ memory.host = Nothing
      /\ memory.network = Nothing
      /\ ide.id = "IDE" /\ ide.parent = Top /\ ide.host = Nothing /\ ide.network = Nothing
      /\ ide.type = "5"
  BY ItemParts
<1>4. /\ disk.id = "port 0" /\ disk.parent = "IDE" /\ disk.host = <<"disk_uuid">>
      /\ disk.network = Nothing
  BY DEF Drive, Item
<1>5. /\ card.id = "slot 0" /\ card.parent = Top /\ card.host = Nothing
      /\ card.network = <<"NAT">>
  BY CardParts
<1> HIDE DEF cpu, memory, ide, disk, card
<1>6. \A slot \in slots : /\ Card(slot, Nothing).id = slot
                          /\ Card(slot, Nothing).parent = Top
                          /\ Card(slot, Nothing).host = Nothing
                          /\ Card(slot, Nothing).network = Nothing
  BY CardParts
<1>7. \A i \in others : /\ i.id \in slots /\ i = Card(i.id, Nothing)
                        /\ i.parent = Top /\ i.host = Nothing /\ i.network = Nothing
  BY <1>6 DEF others
<1>8. \A i, j \in items : i.id = j.id => i = j
  <2>1. \A i \in items : /\ i.id \in {"CPU", "Memory", "IDE", "port 0", "slot 0"} \cup slots
                         /\ (i.id = "CPU" => i = cpu) /\ (i.id = "Memory" => i = memory)
                         /\ (i.id = "IDE" => i = ide) /\ (i.id = "port 0" => i = disk)
                         /\ (i.id = "slot 0" => i = card)
                         /\ (i.id \in slots => i = Card(i.id, Nothing))
    BY <1>1, <1>3, <1>4, <1>5, <1>7
  <2> QED
    BY <2>1
<1>9. \A i \in items : i.parent # Top => \E c \in items : c.id = i.parent /\ c.type \in Controllers
  BY <1>1, <1>3, <1>4, <1>5, <1>7 DEF Controllers
<1>10. \A i \in items : i.host \in {Nothing, <<"disk_uuid">>} /\ i.network \in {Nothing, <<"NAT">>}
  BY <1>1, <1>3, <1>4, <1>5, <1>7
<1>11. \A i \in items : i.host # Nothing => \E k \in d.disks : i.host \in k.names
  BY <1>2, <1>10
<1>12. \A i \in items : i.network # Nothing => i.network \in d.networks
  BY <1>1, <1>10
<1>13. Connected(items, d)
  BY <1>8, <1>9, <1>11, <1>12 DEF Connected
<1> QED
  BY <1>13 DEF d, items

\* The two accounts name the one disk and the one network.
LEMMA AccountsAgree ==
  ASSUME NEW h, NEW items \in {VirtualBoxItems, VirtualBoxMachine}
  PROVE  LET d == With(VirtualBoxReferences, h) IN
         /\ DisksOf(items, d) = d.disks
         /\ NetworksOf(items) = {<<"NAT">>}
<1> DEFINE d == With(VirtualBoxReferences, h)
           disk == Drive("5", "3", <<"vmdisk1">>)
           port == Drive("port 0", "IDE", <<"disk_uuid">>)
<1>1. /\ \A k \in d.disks : <<"vmdisk1">> \in k.names /\ <<"disk_uuid">> \in k.names
      /\ d.networks = {<<"NAT">>}
  BY DEF With, VirtualBoxReferences
<1> HIDE DEF d
<1>2. disk.host = <<"vmdisk1">> /\ port.host = <<"disk_uuid">>
  <2>1. disk.host = <<"vmdisk1">>
    BY DriveParts
  <2>2. port.host = <<"disk_uuid">>
    BY DEF Drive, Item
  <2> QED
    BY <2>1, <2>2
<1>3. disk \in items \/ port \in items
  BY DEF VirtualBoxItems, VirtualBoxMachine, VirtualBoxStorage
<1>4. DisksOf(items, d) = d.disks
  BY <1>1, <1>2, <1>3 DEF DisksOf
<1>5. Connected(items, d)
  BY VirtualBoxConnected, MachineConnected DEF d
<1>6. \A i \in items : i.network \in {Nothing, <<"NAT">>}
  BY <1>1, <1>5 DEF Connected
<1>7. \E i \in items : i.network = <<"NAT">>
  <2>1. Card("6", <<"NAT">>).network = <<"NAT">> /\ Card("slot 0", <<"NAT">>).network = <<"NAT">>
    BY CardParts
  <2>2. Card("6", <<"NAT">>) \in items \/ Card("slot 0", <<"NAT">>) \in items
    BY DEF VirtualBoxItems, VirtualBoxMachine, VirtualBoxAdapters
  <2> QED
    BY <2>1, <2>2
<1>8. <<"NAT">> # Nothing
  BY DEF Nothing
<1>9. NetworksOf(items) = {<<"NAT">>}
  BY <1>6, <1>7, <1>8 DEF NetworksOf
<1> QED
  BY <1>4, <1>9 DEF d

\* So is the hardware that a .vmx file lists.
LEMMA FusionConnected ==
  ASSUME NEW h
  PROVE  Connected(FusionItems, With(FusionReferences, h))
<1> DEFINE d == With(FusionReferences, h)
           scsi == Item("scsi0", "6")
           disk == Drive("scsi0:0", "scsi0", <<"scsi0:0">>)
           card == Card("ethernet0", Nothing)
           items == FusionItems
<1>1. items = {scsi, disk, card}
  BY DEF FusionItems
<1>2. \E k \in d.disks : <<"scsi0:0">> \in k.names
  BY DEF With, FusionReferences
<1>3. /\ scsi.id = "scsi0" /\ disk.id = "scsi0:0" /\ card.id = "ethernet0" /\ scsi.type = "6"
      /\ scsi.parent = Top /\ disk.parent = "scsi0" /\ card.parent = Top
  BY ItemParts, DriveParts, CardParts
<1>4. /\ scsi.host = Nothing /\ disk.host = <<"scsi0:0">> /\ card.host = Nothing
      /\ scsi.network = Nothing /\ disk.network = Nothing /\ card.network = Nothing
  BY ItemParts, DriveParts, CardParts
<1> HIDE DEF d, scsi, disk, card, items
<1>5. \A i, j \in items : i.id = j.id => i = j
  BY <1>1, <1>3
<1>6. \A i \in items : i.parent # Top => \E c \in items : c.id = i.parent /\ c.type \in Controllers
  BY <1>1, <1>3 DEF Controllers
<1>7. \A i \in items : i.host # Nothing => \E k \in d.disks : i.host \in k.names
  BY <1>1, <1>2, <1>4
<1>8. \A i \in items : i.network # Nothing => i.network \in d.networks
  BY <1>1, <1>4
<1>9. Connected(items, d)
  BY <1>5, <1>6, <1>7, <1>8 DEF Connected
<1> QED
  BY <1>9 DEF d, items

\* The files and the disks that each descriptor names, and where it lists hardware.
LEMMA RHEVNamed ==
  ASSUME NEW u, NEW h
  PROVE  LET d == With(RHEVReferences(u), h) IN
         /\ \A f \in d.files : d.root \o f.href = <<"images", u, "vol">>
         /\ \A k \in d.disks : \E f \in d.files : k.file \in {f.id, f.href}
         /\ d.hardware = h
<1> DEFINE d == With(RHEVReferences(u), h)
           file == [href |-> <<u, "vol">>, id |-> <<"vol">>]
           disk == [names |-> {<<"vol">>, <<u, "vol">>}, file |-> <<u, "vol">>]
<1>1. d.files = {file} /\ d.disks = {disk} /\ d.root = <<"images">> /\ d.hardware = h
  BY DEF With, RHEVReferences
<1>2. file.href = <<u, "vol">> /\ file.id = <<"vol">> /\ disk.file = <<u, "vol">>
  OBVIOUS
<1> HIDE DEF d, file, disk
<1>3. \A f \in d.files : d.root \o f.href = <<"images", u, "vol">>
  BY <1>1, <1>2, Below
<1>4. \A k \in d.disks : \E f \in d.files : k.file \in {f.id, f.href}
  BY <1>1, <1>2
<1> QED
  BY <1>1, <1>3, <1>4 DEF d

LEMMA VsphereNamed ==
  ASSUME NEW h
  PROVE  LET d == With(VsphereReferences, h) IN
         /\ \A f \in d.files : d.root \o f.href = <<"disk.vmdk">>
         /\ \A k \in d.disks : \E f \in d.files : k.file \in {f.id, f.href}
         /\ d.hardware = h
<1> DEFINE d == With(VsphereReferences, h)
           file == [href |-> <<"disk.vmdk">>, id |-> <<"file1">>]
           disk == [names |-> {<<"vmdisk1">>}, file |-> <<"file1">>]
<1>1. d.files = {file} /\ d.disks = {disk} /\ d.root = << >> /\ d.hardware = h
  BY DEF With, VsphereReferences
<1>2. file.href = <<"disk.vmdk">> /\ file.id = <<"file1">> /\ disk.file = <<"file1">>
  OBVIOUS
<1> HIDE DEF d, file, disk
<1>3. \A f \in d.files : d.root \o f.href = <<"disk.vmdk">>
  BY <1>1, <1>2, Below
<1>4. \A k \in d.disks : \E f \in d.files : k.file \in {f.id, f.href}
  BY <1>1, <1>2
<1> QED
  BY <1>1, <1>3, <1>4 DEF d

LEMMA VirtualBoxNamed ==
  ASSUME NEW h
  PROVE  LET d == With(VirtualBoxReferences, h) IN
         /\ \A f \in d.files : d.root \o f.href = <<"name.vmdk">>
         /\ \A k \in d.disks : \E f \in d.files : k.file \in {f.id, f.href}
         /\ d.hardware = h
<1> DEFINE d == With(VirtualBoxReferences, h)
           file == [href |-> <<"name.vmdk">>, id |-> <<"file1">>]
           disk == [names |-> {<<"vmdisk1">>, <<"disk_uuid">>}, file |-> <<"file1">>]
<1>1. d.files = {file} /\ d.disks = {disk} /\ d.root = << >> /\ d.hardware = h
  BY DEF With, VirtualBoxReferences
<1>2. file.href = <<"name.vmdk">> /\ file.id = <<"file1">> /\ disk.file = <<"file1">>
  OBVIOUS
<1> HIDE DEF d, file, disk
<1>3. \A f \in d.files : d.root \o f.href = <<"name.vmdk">>
  BY <1>1, <1>2, Below
<1>4. \A k \in d.disks : \E f \in d.files : k.file \in {f.id, f.href}
  BY <1>1, <1>2
<1> QED
  BY <1>1, <1>3, <1>4 DEF d

LEMMA FusionNamed ==
  ASSUME NEW h
  PROVE  LET d == With(FusionReferences, h) IN
         /\ \A f \in d.files : d.root \o f.href = <<"name-disk1.vmdk">>
         /\ \A k \in d.disks : \E f \in d.files : k.file \in {f.id, f.href}
         /\ d.hardware = h
<1> DEFINE d == With(FusionReferences, h)
           file == [href |-> <<"name-disk1.vmdk">>, id |-> <<"name-disk1.vmdk">>]
           disk == [names |-> {<<"scsi0:0">>}, file |-> <<"name-disk1.vmdk">>]
<1>1. d.files = {file} /\ d.disks = {disk} /\ d.root = << >> /\ d.hardware = h
  BY DEF With, FusionReferences
<1>2. file.href = <<"name-disk1.vmdk">> /\ file.id = <<"name-disk1.vmdk">> /\ disk.file = <<"name-disk1.vmdk">>
  OBVIOUS
<1> HIDE DEF d, file, disk
<1>3. \A f \in d.files : d.root \o f.href = <<"name-disk1.vmdk">>
  BY <1>1, <1>2, Below
<1>4. \A k \in d.disks : \E f \in d.files : k.file \in {f.id, f.href}
  BY <1>1, <1>2
<1> QED
  BY <1>1, <1>3, <1>4 DEF d

\* With the files that sync makes, the descriptor of a package means something,
\* whatever the format.
LEMMA PackageResolves ==
  ASSUME NEW format \in Formats, NEW u, NEW d \in Descriptors(format, u), NEW has,
         \A i \in DOMAIN Staged(format, u) : Staged(format, u)[i] \in has
  PROVE  Resolves(d, has)
<1>1. CASE format = "rhevm"
  <2>1. d = With(RHEVReferences(u), {RHEVItems(u)})
    BY <1>1 DEF Descriptors
  <2>2. <<"images", u, "vol">> \in has
    <3>1. Staged(format, u) = RHEVFiles(u)
      BY <1>1 DEF Staged
    <3>2. 1 \in DOMAIN RHEVFiles(u) /\ RHEVFiles(u)[1] = <<"images", u, "vol">>
      BY DEF RHEVFiles
    <3> QED
      BY <3>1, <3>2
  <2>3. Connected(RHEVItems(u), d)
    BY <2>1, RHEVConnected
  <2>4. d.hardware = {RHEVItems(u)}
    BY <2>1, RHEVNamed
  <2>5. \A f \in d.files : d.root \o f.href \in has
    BY <2>1, <2>2, RHEVNamed
  <2>6. \A k \in d.disks : \E f \in d.files : k.file \in {f.id, f.href}
    BY <2>1, RHEVNamed
  <2> QED
    BY <2>3, <2>4, <2>5, <2>6 DEF Resolves
<1>2. CASE format = "vsphere"
  <2>1. PICK cdrom \in BOOLEAN : d = With(VsphereReferences, {VsphereItems(cdrom)})
    BY <1>2 DEF Descriptors
  <2>2. <<"disk.vmdk">> \in has
    BY <1>2 DEF Staged, VsphereFiles
  <2>3. Connected(VsphereItems(cdrom), d)
    BY <2>1, VsphereConnected
  <2>4. d.hardware = {VsphereItems(cdrom)}
    BY <2>1, VsphereNamed
  <2>5. \A f \in d.files : d.root \o f.href \in has
    BY <2>1, <2>2, VsphereNamed
  <2>6. \A k \in d.disks : \E f \in d.files : k.file \in {f.id, f.href}
    BY <2>1, VsphereNamed
  <2> QED
    BY <2>3, <2>4, <2>5, <2>6 DEF Resolves
<1>3. CASE format = "vagrant-virtualbox"
  <2>1. d = With(VirtualBoxReferences, {VirtualBoxItems, VirtualBoxMachine})
    BY <1>3 DEF Descriptors
  <2>2. <<"name.vmdk">> \in has
    <3>1. Staged(format, u) = VirtualBoxFiles
      BY <1>3 DEF Staged
    <3>3. 1 \in DOMAIN VirtualBoxFiles /\ VirtualBoxFiles[1] = <<"name.vmdk">>
      BY DEF VirtualBoxFiles, BoxFiles
    <3> QED
      BY <3>1, <3>3
  <2>3. \A items \in {VirtualBoxItems, VirtualBoxMachine} :
          Connected(items, d) /\ DisksOf(items, d) = d.disks /\ NetworksOf(items) = {<<"NAT">>}
    BY <2>1, VirtualBoxConnected, MachineConnected, AccountsAgree
  <2>4. d.hardware = {VirtualBoxItems, VirtualBoxMachine}
    BY <2>1, VirtualBoxNamed
  <2>5. \A f \in d.files : d.root \o f.href \in has
    BY <2>1, <2>2, VirtualBoxNamed
  <2>6. \A k \in d.disks : \E f \in d.files : k.file \in {f.id, f.href}
    BY <2>1, VirtualBoxNamed
  <2> QED
    BY <2>3, <2>4, <2>5, <2>6 DEF Resolves
<1>4. CASE format = "vagrant-vmware-fusion"
  <2>1. d = With(FusionReferences, {FusionItems})
    BY <1>4 DEF Descriptors
  <2>2. <<"name-disk1.vmdk">> \in has
    BY <1>4 DEF Staged, FusionFiles
  <2>3. Connected(FusionItems, d)
    BY <2>1, FusionConnected
  <2>4. d.hardware = {FusionItems}
    BY <2>1, FusionNamed
  <2>5. \A f \in d.files : d.root \o f.href \in has
    BY <2>1, <2>2, FusionNamed
  <2>6. \A k \in d.disks : \E f \in d.files : k.file \in {f.id, f.href}
    BY <2>1, FusionNamed
  <2> QED
    BY <2>3, <2>4, <2>5, <2>6 DEF Resolves
<1> QED
  BY <1>1, <1>2, <1>3, <1>4 DEF Formats, Descriptors

-----------------------------------------------------------------------------
\* Of the has of a package one at most is a descriptor, and none is the archive.
LEMMA FilesOf ==
  ASSUME NEW t \in Threads, Format(t) # "raises", ~CannotDescribe(Format(t))
  PROVE  /\ \A f, g \in Whole(t) : IsDescriptor(f) /\ IsDescriptor(g) => f = g
         /\ Ova \notin Whole(t)
         /\ Whole(t) # {}
<1>1. Format(t) \in Formats
  BY DEF Format, Class, Formats
<1>2. CASE Format(t) = "rhevm"
  <2>1. Whole(t) = {<<"images", t, "vol">>, <<"master", "vms", t, "tpl.ovf">>,
                    <<"images", t, "vol.meta">>}
    BY <1>2 DEF Whole, Makes, Staged, RHEVFiles
  <2> QED  BY <2>1 DEF IsDescriptor, Ova
<1>3. CASE Format(t) = "vagrant-libvirt"
  <2>1. Whole(t) = {<<"box.img">>, <<"Vagrantfile">>, <<"metadata.json">>}
    BY <1>3 DEF Whole, Makes, Staged, LibvirtFiles, BoxFiles
  <2> QED  BY <2>1 DEF IsDescriptor, Ova
<1>4. CASE Format(t) = "vsphere"
  <2>1. Whole(t) = {<<"disk.vmdk">>, <<"desc.ovf">>}
    BY <1>4 DEF Whole, Makes, Staged, VsphereFiles
  <2> QED  BY <2>1 DEF IsDescriptor, Ova
<1>5. CASE Format(t) = "vagrant-virtualbox"
  <2>1. Whole(t) = {<<"name.vmdk">>, <<"box.ovf">>, <<"Vagrantfile">>, <<"metadata.json">>}
    BY <1>5 DEF Whole, Makes, Staged, VirtualBoxFiles, BoxFiles
  <2> QED  BY <2>1 DEF IsDescriptor, Ova
<1>6. CASE Format(t) = "vagrant-vmware-fusion"
  <2>1. Whole(t) = {<<"name-disk1.vmdk">>, <<"Vagrantfile">>, <<"name.vmx">>, <<"name.vmxf">>,
                    <<"metadata.json">>}
    BY <1>6 DEF Whole, Makes, Staged, FusionFiles
  <2> QED  BY <2>1 DEF IsDescriptor, Ova
<1> QED  BY <1>1, <1>2, <1>3, <1>4, <1>5, <1>6 DEF Formats, CannotDescribe

\* A product with one member is empty only when the other set is.
LEMMA EmptyProduct ==
  ASSUME NEW t, NEW S, {t} \X S = {}
  PROVE  S = {}
<1>1. \A x \in S : <<t, x>> \in {t} \X S
  OBVIOUS
<1> QED  BY <1>1

LEMMA InitIInv == Init => IInv
  BY HomeAssumption DEF Init, IInv, Types, TypeOK, Places, Windows, Stands, Somewhere, Contents,
     Inside, Working

\* An action of one thread leaves every other where it is.
LEMMA StepTypes == Types /\ [Next]_vars => Types'
<1> SUFFICES ASSUME Types, [Next]_vars PROVE Types'
  OBVIOUS
<1> USE DEF Types, TypeOK, Places, Goes
<1>1. CASE UNCHANGED vars
  BY <1>1 DEF vars
<1>2. ASSUME NEW t \in Threads, Make(t) PROVE Types'
  BY <1>2 DEF Make
<1>3. ASSUME NEW t \in Threads, Stage(t) PROVE Types'
  BY <1>3 DEF Stage
<1>4. ASSUME NEW t \in Threads, OpenTar(t) PROVE Types'
  BY <1>4 DEF OpenTar
<1>5. ASSUME NEW t \in Threads, GetCwd(t) PROVE Types'
  BY <1>5 DEF GetCwd
<1>6. ASSUME NEW t \in Threads, Enter(t) PROVE Types'
  BY <1>6 DEF Enter
<1>7. ASSUME NEW t \in Threads, Walk(t) PROVE Types'
  BY <1>7 DEF Walk
<1>8. ASSUME NEW t \in Threads, Add(t) PROVE Types'
  BY <1>8 DEF Add
<1>9. ASSUME NEW t \in Threads, Leave(t) PROVE Types'
  BY <1>9 DEF Leave
<1>10. ASSUME NEW t \in Threads, Gzip(t) PROVE Types'
  BY <1>10 DEF Gzip
<1>11. ASSUME NEW t \in Threads, Deliver(t) PROVE Types'
  BY <1>11 DEF Deliver
<1>12. ASSUME NEW t \in Threads, Delete(t) PROVE Types'
  BY <1>12 DEF Delete
<1>13. ASSUME NEW t \in Threads, Fail(t) PROVE Types'
  BY <1>13 DEF Fail
<1> QED
  BY <1>1, <1>2, <1>3, <1>4, <1>5, <1>6, <1>7, <1>8, <1>9, <1>10, <1>11, <1>12, <1>13
     DEF Next, AllEnded

\* Who enters the window records all that he finds in it.
LEMMA StepWindows == Types /\ Windows /\ [Next]_vars => Windows'
<1> SUFFICES ASSUME Types, Windows, [Next]_vars PROVE Windows'
  OBVIOUS
<1> USE DEF Types, TypeOK, Places, Goes, Windows, Inside
<1>1. CASE UNCHANGED vars
  BY <1>1 DEF vars
<1>2. ASSUME NEW t \in Threads, Make(t) PROVE Windows'
  BY <1>2 DEF Make
<1>3. ASSUME NEW t \in Threads, Stage(t) PROVE Windows'
  BY <1>3 DEF Stage
<1>4. ASSUME NEW t \in Threads, OpenTar(t) PROVE Windows'
  BY <1>4 DEF OpenTar
<1>5. ASSUME NEW t \in Threads, GetCwd(t) PROVE Windows'
  BY <1>5 DEF GetCwd
<1>6. ASSUME NEW t \in Threads, Enter(t) PROVE Windows'
  BY <1>6 DEF Enter
<1>7. ASSUME NEW t \in Threads, Walk(t) PROVE Windows'
  BY <1>7 DEF Walk
<1>8. ASSUME NEW t \in Threads, Add(t) PROVE Windows'
  BY <1>8 DEF Add
<1>9. ASSUME NEW t \in Threads, Leave(t) PROVE Windows'
  BY <1>9 DEF Leave
<1>10. ASSUME NEW t \in Threads, Gzip(t) PROVE Windows'
  BY <1>10 DEF Gzip
<1>11. ASSUME NEW t \in Threads, Deliver(t) PROVE Windows'
  BY <1>11 DEF Deliver
<1>12. ASSUME NEW t \in Threads, Delete(t) PROVE Windows'
  BY <1>12 DEF Delete
<1>13. ASSUME NEW t \in Threads, Fail(t) PROVE Windows'
  BY <1>13 DEF Fail
<1> QED
  BY <1>1, <1>2, <1>3, <1>4, <1>5, <1>6, <1>7, <1>8, <1>9, <1>10, <1>11, <1>12, <1>13
     DEF Next, AllEnded

\* Only the thread of a package deletes it, when it is done with it.
LEMMA StepStands == Types /\ Stands /\ [Next]_vars => Stands'
<1> SUFFICES ASSUME Types, Stands, [Next]_vars PROVE Stands'
  OBVIOUS
<1> USE DEF Types, TypeOK, Places, Goes, Stands, Working, Format
<1>1. CASE UNCHANGED vars
  BY <1>1 DEF vars
<1>2. ASSUME NEW t \in Threads, Make(t) PROVE Stands'
  BY <1>2 DEF Make
<1>3. ASSUME NEW t \in Threads, Stage(t) PROVE Stands'
  BY <1>3 DEF Stage
<1>4. ASSUME NEW t \in Threads, OpenTar(t) PROVE Stands'
  BY <1>4 DEF OpenTar
<1>5. ASSUME NEW t \in Threads, GetCwd(t) PROVE Stands'
  BY <1>5 DEF GetCwd
<1>6. ASSUME NEW t \in Threads, Enter(t) PROVE Stands'
  BY <1>6 DEF Enter
<1>7. ASSUME NEW t \in Threads, Walk(t) PROVE Stands'
  BY <1>7 DEF Walk
<1>8. ASSUME NEW t \in Threads, Add(t) PROVE Stands'
  BY <1>8 DEF Add
<1>9. ASSUME NEW t \in Threads, Leave(t) PROVE Stands'
  BY <1>9 DEF Leave
<1>10. ASSUME NEW t \in Threads, Gzip(t) PROVE Stands'
  BY <1>10 DEF Gzip
<1>11. ASSUME NEW t \in Threads, Deliver(t) PROVE Stands'
  BY <1>11 DEF Deliver
<1>12. ASSUME NEW t \in Threads, Delete(t) PROVE Stands'
  BY <1>12 DEF Delete
<1>13. ASSUME NEW t \in Threads, Fail(t) PROVE Stands'
  BY <1>13 DEF Fail
<1> QED
  BY <1>1, <1>2, <1>3, <1>4, <1>5, <1>6, <1>7, <1>8, <1>9, <1>10, <1>11, <1>12, <1>13
     DEF Next, AllEnded

\* Who is inside alone goes back to where the process was; and a package that
\* the process was left in belongs to a thread that raised, and stays.
LEMMA StepSomewhere == Types /\ Windows /\ Stands /\ Somewhere /\ [Next]_vars => Somewhere'
<1> SUFFICES ASSUME Types, Windows, Stands, Somewhere, [Next]_vars PROVE Somewhere'
  OBVIOUS
<1> USE DEF Types, TypeOK, Places, Goes, Windows, Stands, Working, Inside, Somewhere, There
<1>1. CASE UNCHANGED vars
  BY <1>1 DEF vars
<1>2. ASSUME NEW t \in Threads, Make(t) PROVE Somewhere'
  BY <1>2 DEF Make
<1>3. ASSUME NEW t \in Threads, Stage(t) PROVE Somewhere'
  BY <1>3 DEF Stage
<1>4. ASSUME NEW t \in Threads, OpenTar(t) PROVE Somewhere'
  BY <1>4 DEF OpenTar
<1>5. ASSUME NEW t \in Threads, GetCwd(t) PROVE Somewhere'
  BY <1>5 DEF GetCwd
<1>6. ASSUME NEW t \in Threads, Enter(t) PROVE Somewhere'
  BY <1>6 DEF Enter
<1>7. ASSUME NEW t \in Threads, Walk(t) PROVE Somewhere'
  BY <1>7 DEF Walk
<1>8. ASSUME NEW t \in Threads, Add(t) PROVE Somewhere'
  BY <1>8 DEF Add
<1>9. ASSUME NEW t \in Threads, Leave(t) PROVE Somewhere'
  BY <1>9 DEF Leave
<1>10. ASSUME NEW t \in Threads, Gzip(t) PROVE Somewhere'
  BY <1>10 DEF Gzip
<1>11. ASSUME NEW t \in Threads, Deliver(t) PROVE Somewhere'
  BY <1>11 DEF Deliver
<1>12. ASSUME NEW t \in Threads, Delete(t) PROVE Somewhere'
  BY <1>12 DEF Delete
<1>13. ASSUME NEW t \in Threads, Fail(t) PROVE Somewhere'
  BY <1>13 DEF Fail
<1> QED
  BY <1>1, <1>2, <1>3, <1>4, <1>5, <1>6, <1>7, <1>8, <1>9, <1>10, <1>11, <1>12, <1>13
     DEF Next, AllEnded

\* Nobody who is not inside changes the directory under who is, and the archive
\* of a thread takes from its own package as long as the process is in it.
LEMMA StepContents ==
  ASSUME IInv, [Next]_vars, NEW u \in Threads
  PROVE  Contents(u)'
<1> USE DEF IInv, Types, TypeOK, Places, Goes, Windows, Inside, Contents, Complete
<1>0. \A v \in Threads : Whole(v)' = Whole(v) /\ Format(v)' = Format(v)
  <2>1. asked' = asked
    BY DEF Next, AllEnded, vars, Make, Stage, OpenTar, GetCwd, Enter, Walk, Add, Leave, Gzip,
       Deliver, Delete, Fail
  <2> QED
    BY <2>1 DEF Whole, Makes, Format
<1>1. CASE UNCHANGED vars
  BY <1>0, <1>1 DEF vars
<1>2. ASSUME NEW t \in Threads, Make(t) PROVE Contents(u)'
  BY <1>0, <1>2 DEF Make
<1>3. ASSUME NEW t \in Threads, Stage(t) PROVE Contents(u)'
  BY <1>0, <1>3 DEF Stage
<1>4. ASSUME NEW t \in Threads, OpenTar(t) PROVE Contents(u)'
  BY <1>0, <1>4 DEF OpenTar
<1>5. ASSUME NEW t \in Threads, GetCwd(t) PROVE Contents(u)'
  BY <1>0, <1>5 DEF GetCwd
<1>6. ASSUME NEW t \in Threads, Enter(t) PROVE Contents(u)'
  BY <1>0, <1>6 DEF Enter
<1>7. ASSUME NEW t \in Threads, Walk(t) PROVE Contents(u)'
  <2>1. CASE u # t
    BY <1>0, <1>7, <2>1 DEF Walk
  <2>2. CASE u = t
    <3>1. at[t] = "entered" /\ archive[t] = {} /\ files[t] = Whole(t) \cup {Ova}
      BY <1>0, <1>7 DEF Walk
    <3>2. t \in standing /\ Ova \notin Whole(t)
      BY <3>1, FilesOf DEF Stands, Working
    <3>3. t \notin overlapped => Here = Whole(t) \cup {Ova} /\ cwd = t
      BY <3>1, <3>2 DEF Here
    <3>4. {t} \X (Whole(t) \ Whole(t)) = {}
      OBVIOUS
    <3> QED  BY <1>0, <1>7, <2>2, <3>1, <3>2, <3>3, <3>4 DEF Walk
  <2> QED  BY <2>1, <2>2
<1>8. ASSUME NEW t \in Threads, Add(t) PROVE Contents(u)'
  <2>1. CASE u # t
    BY <1>0, <1>8, <2>1 DEF Add
  <2>2. CASE u = t /\ at'[t] = "raised"
    BY <1>0, <1>8, <2>2 DEF Add
  <2>3. CASE u = t /\ at'[t] # "raised"
    <3>1. PICK f \in MayFollow(todo[t]) :
            /\ archive' = [archive EXCEPT ![t] = @ \cup {<<cwd, f>>}]
            /\ lead' = [lead EXCEPT ![t] = IF archive[t] = {} THEN f ELSE @]
            /\ todo' = [todo EXCEPT ![t] = @ \ {f}]
      BY <1>0, <1>8, <2>3 DEF Add
    <3>2. SUFFICES ASSUME t \notin overlapped
                   PROVE  /\ todo'[t] \subseteq Whole(t)
                          /\ archive'[t] = {t} \X (Whole(t) \ todo'[t])
                          /\ Complete(t)'
      BY <1>0, <1>8, <2>3 DEF Add
    <3>3. /\ cwd = t /\ at[t] = "adding" /\ todo[t] \subseteq Whole(t)
          /\ archive[t] = {t} \X (Whole(t) \ todo[t])
          /\ archive[t] # {} => Complete(t)
      BY <1>0, <1>8, <3>2 DEF Add
    <3>4. f \in todo[t]
      BY <3>1 DEF MayFollow
    <3>5. archive'[t] = {t} \X (Whole(t) \ todo'[t])
      BY <3>1, <3>3, <3>4
    <3>6. Complete(t)'
      <4>1. CASE archive[t] # {}
        BY <4>1, <1>0, <1>8, <3>1, <3>3 DEF Add
      <4>2. CASE archive[t] = {}
        <5>1. todo[t] = Whole(t)
          <6>1. {t} \X (Whole(t) \ todo[t]) = {}
            BY <4>2, <3>3
          <6>2. Whole(t) \ todo[t] = {}
            BY <6>1, EmptyProduct
          <6> QED  BY <6>2, <3>3
        <5>2. \A g \in Whole(t) : IsDescriptor(g) => IsDescriptor(f)
          BY <5>1, <3>1 DEF MayFollow
        <5>3. \A g \in Whole(t) : IsDescriptor(g) => g = f
          BY <5>2, <3>3, <3>4, FilesOf DEF Stands, Working
        <5>4. lead'[t] = f /\ Whole(t)' = Whole(t)
          BY <1>0, <4>2, <3>1, <1>8 DEF Add
        <5> QED  BY <5>3, <5>4
      <4> QED  BY <4>1, <4>2
    <3> QED  BY <3>1, <3>3, <3>5, <3>6
  <2> QED  BY <2>1, <2>2, <2>3
<1>9. ASSUME NEW t \in Threads, Leave(t) PROVE Contents(u)'
  <2>1. CASE u # t
    BY <1>0, <1>9, <2>1 DEF Leave
  <2>2. CASE u = t
    <3>1. Whole(t) # {} /\ at[t] = "adding" /\ todo[t] = {}
      BY <1>0, <1>9, FilesOf DEF Leave, Stands, Working
    <3>2. t \notin overlapped =>
            archive[t] = {t} \X Whole(t) /\ archive[t] # {} /\ Complete(t)
      <4>1. Whole(t) \ todo[t] = Whole(t) /\ {t} \X Whole(t) # {}
        BY <3>1, EmptyProduct
      <4> QED  BY <3>1, <4>1
    <3> QED  BY <1>0, <1>9, <2>2, <3>1, <3>2 DEF Leave
  <2> QED  BY <2>1, <2>2
<1>10. ASSUME NEW t \in Threads, Gzip(t) PROVE Contents(u)'
  BY <1>0, <1>10 DEF Gzip, Stands, Working
<1>11. ASSUME NEW t \in Threads, Deliver(t) PROVE Contents(u)'
  BY <1>0, <1>11 DEF Deliver
<1>12. ASSUME NEW t \in Threads, Delete(t) PROVE Contents(u)'
  BY <1>0, <1>12 DEF Delete
<1>13. ASSUME NEW t \in Threads, Fail(t) PROVE Contents(u)'
  BY <1>0, <1>13 DEF Fail
<1> QED
  BY <1>1, <1>2, <1>3, <1>4, <1>5, <1>6, <1>7, <1>8, <1>9, <1>10, <1>11, <1>12, <1>13
     DEF Next, AllEnded

LEMMA Invariance == Spec => []IInv
<1>1. IInv /\ [Next]_vars => IInv'
  BY StepTypes, StepWindows, StepStands, StepSomewhere, StepContents DEF IInv
<1> QED  BY InitIInv, <1>1, PTL DEF Spec

\* An image that nobody's packaging overlapped has in its archive all the files
\* of its package, from its own directory, and the descriptor before the others.
THEOREM ArchivesWhole == Spec => []ArchiveWhole
<1>1. IInv => ArchiveWhole
  BY DEF IInv, Contents, Complete, ArchiveWhole, Delivered
<1> QED  BY Invariance, <1>1, PTL

\* As long as no packagings overlap, the process is in a directory that exists,
\* whatever fails: the next os.getcwd() of make_ova_package does not raise.
THEOREM HasDirectory == Spec => []NeverHomeless
<1>1. IInv => NeverHomeless
  BY DEF IInv, Somewhere, NeverHomeless, There
<1> QED  BY Invariance, <1>1, PTL

\* Every format but the one that raises has a class.
LEMMA FormatKnown == ASSUME NEW t \in Threads, Format(t) # "raises" PROVE Format(t) \in Formats
<1> QED
  BY DEF Format, Class, Formats

\* In the archive of an image that nobody's packaging overlapped, every file, disk
\* and network that its descriptor names is there and its hardware is connected,
\* in all the formats of ovfcommon.py and for any number of images.
THEOREM DescriptorsResolve == Spec => []ReferencesResolve
<1>1. IInv => ReferencesResolve
  <2> SUFFICES ASSUME IInv, NEW t \in Threads \ overlapped, Delivered(t),
                      NEW d \in Descriptors(Format(t), t)
               PROVE  Resolves(d, {entry[2] : entry \in archive[t]})
      BY DEF ReferencesResolve
  <2> DEFINE inside == {entry[2] : entry \in archive[t]}
  <2>1. archive[t] = {t} \X Whole(t)
    BY DEF IInv, Contents, Delivered
  <2>2. CASE Format(t) = "raises"
    BY <2>2 DEF Descriptors
  <2>3. CASE Format(t) # "raises"
    <3>1. Format(t) \in Formats
      BY <2>3, FormatKnown
    <3>2. \A f \in Whole(t) : f \in inside
      <4>1. \A f \in Whole(t) : <<t, f>> \in archive[t] /\ <<t, f>>[2] = f
        BY <2>1
      <4> QED
        BY <4>1
    <3>3. \A i \in DOMAIN Staged(Format(t), t) : Staged(Format(t), t)[i] \in inside
      BY <3>2 DEF Whole, Makes
    <3> HIDE DEF inside
    <3>4. Resolves(d, inside)
      BY <3>1, <3>3, PackageResolves
    <3> QED
      BY <3>4 DEF inside
  <2> QED
    BY <2>2, <2>3
<1> QED  BY Invariance, <1>1, PTL

-----------------------------------------------------------------------------

\* What the smallest and the largest number of a set are.
LEMMA MinIs ==
  ASSUME NEW S, NEW k \in S, S \subseteq Int, \A m \in S : k <= m PROVE Min(S) = k
<1> DEFINE P(x) == x \in S /\ \A y \in S : x =< y
<1>1. \E x : P(x)
  OBVIOUS
<1>2. P(CHOOSE x : P(x))
  BY <1>1
<1>3. Min(S) = CHOOSE x : P(x)
  BY DEF Min
<1>4. Min(S) \in S /\ Min(S) <= k /\ k <= Min(S)
  BY <1>2, <1>3
<1>5. \A a, b \in Int : a <= b /\ b <= a => a = b
  OBVIOUS
<1> QED
  BY <1>4, <1>5

LEMMA MaxIs ==
  ASSUME NEW S, NEW k \in S, S \subseteq Int, \A m \in S : m <= k PROVE Max(S) = k
<1> DEFINE P(x) == x \in S /\ \A y \in S : x >= y
<1>0. \A a, b \in Int : a <= b <=> b >= a
  OBVIOUS
<1>1. P(k)
  BY <1>0
<1>2. P(CHOOSE x : P(x))
  BY <1>1
<1>3. Max(S) = CHOOSE x : P(x)
  BY DEF Max
<1>4. Max(S) \in S /\ Max(S) >= k /\ k >= Max(S)
  BY <1>1, <1>2, <1>3
<1>5. \A a, b \in Int : a >= b /\ b >= a => a = b
  OBVIOUS
<1> QED
  BY <1>4, <1>5

\* A set of natural numbers has a smallest one, and a bounded one a largest.
LEMMA HasMin ==
  ASSUME NEW S, S \subseteq Nat, S # {}
  PROVE  Min(S) \in S /\ \A m \in S : Min(S) <= m
<1> DEFINE R == {ss \in Nat \X Nat : ss[1] < ss[2]}
<1>1. IsWellFoundedOn(R, Nat)
  BY NatLessThanWellFounded DEF OpToRel
<1>2. \A m, k \in Nat : ~ (<<m, k>> \in R) => k <= m
  OBVIOUS
<1> HIDE DEF R
<1>3. PICK k \in S : \A m \in S : ~ (<<m, k>> \in R)
  BY <1>1, WFMin
<1>4. \A m \in S : k <= m
  BY <1>2, <1>3
<1>5. Min(S) = k
  <2>1. S \subseteq Int
    OBVIOUS
  <2> QED
    BY <1>4, <2>1, MinIs
<1> QED
  BY <1>4, <1>5

LEMMA HasMax ==
  ASSUME NEW n \in Nat, NEW S, S \subseteq 0 .. n, S # {}
  PROVE  Max(S) \in S /\ \A m \in S : m <= Max(S)
<1> DEFINE T == {n - m : m \in S}
<1>1. T \subseteq Nat /\ T # {}
  <2>1. \A m \in S : n - m \in Nat
    OBVIOUS
  <2> QED
    BY <2>1
<1>2. Min(T) \in T /\ \A m \in T : Min(T) <= m
  <2> HIDE DEF T
  <2> QED
    BY <1>1, HasMin
<1>3. PICK k \in S : n - k = Min(T)
  BY <1>2
<1>4. \A m \in S : m <= k
  <2> SUFFICES ASSUME NEW m \in S PROVE m <= k
    OBVIOUS
  <2>1. n - k <= n - m
    BY <1>2, <1>3
  <2>2. m \in 0 .. n /\ k \in 0 .. n
    OBVIOUS
  <2> QED
    BY <2>1, <2>2
<1>5. S \subseteq Int
  OBVIOUS
<1> QED
  BY <1>4, <1>5, MaxIs

-----------------------------------------------------------------------------
(* PluginManager.load.                                                     *)

\* The targets of the files that the loop has been through.
Seen(k, j) ==
  LET list == input.files IN
  /\ k \in DOMAIN list /\ Known(list[k]) /\ j \in DOMAIN list[k].targets
  /\ Reached(list[k], j)
  /\ k < place[1] \/ (k = place[1] /\ j < place[2])
Offered(k, target) ==
  \E j \in DOMAIN input.files[k].targets : Seen(k, j) /\ input.files[k].targets[j] = target
PatternsOf(list) ==
  UNION {{list[k].targets[i] : i \in DOMAIN list[k].targets} : k \in DOMAIN list}

\* Each of them is registered, for the first file that offers it; and of the file
\* that the loop is at it has refused none.
LoadInv ==
  input.kind = "plugins" =>
    LET list == input.files IN
    /\ list \in Listings
    /\ place \in (1 .. Len(list) + 1) \X (Nat \ {0})
    /\ DOMAIN made = {target \in PatternsOf(list) : \E k \in DOMAIN list : Offered(k, target)}
    /\ \A target \in DOMAIN made :
         \E k \in DOMAIN list :
           /\ Offered(k, target) /\ made[target] = list[k].name
           /\ \A m \in DOMAIN list : Offered(m, target) => k <= m
    /\ place[1] \in DOMAIN list => Reached(list[place[1]], place[2] - 1)
    /\ over => place[1] = Len(list) + 1

\* A listing is a sequence of files, and so are the targets of a file.
LEMMA Listing ==
  ASSUME NEW list \in Listings
  PROVE  /\ Len(list) \in Nat /\ DOMAIN list = 1 .. Len(list)
         /\ \A k \in DOMAIN list :
              /\ Len(list[k].targets) \in Nat
              /\ DOMAIN list[k].targets = 1 .. Len(list[k].targets)
              /\ \A i \in DOMAIN list[k].targets : IsList(list[k].targets[i].says)
<1>1. IsList(list) /\ \A k \in DOMAIN list : IsList(list[k].targets)
  BY ListingsAssumption
<1>2. ASSUME NEW s, IsList(s) PROVE Len(s) \in Nat /\ DOMAIN s = 1 .. Len(s)
  BY <1>2 DEF IsList
<1> QED
  BY <1>1, <1>2, ListingsAssumption

LEMMA RegisterKeeps == LoadInv /\ input.kind = "plugins" /\ RegisterTarget => LoadInv'
<1> SUFFICES ASSUME LoadInv, input.kind = "plugins", RegisterTarget PROVE LoadInv'
  OBVIOUS
<1> DEFINE list == input.files
           j == place[2]
<1>1. PICK k \in DOMAIN list :
        /\ At(k) /\ Known(list[k]) /\ j \in DOMAIN list[k].targets
        /\ list[k].targets[j].form # "other"
        /\ made' = Register(made, list[k].targets[j], list[k].name)
        /\ place' = <<k, j + 1>>
        /\ UNCHANGED <<input, over>>
  BY DEF RegisterTarget
<1> DEFINE new == list[k].targets[j]
<1>2. /\ list \in Listings /\ place \in (1 .. Len(list) + 1) \X (Nat \ {0})
      /\ place[1] = k /\ k \in Nat /\ j \in Nat \ {0} /\ ~over
      /\ place'[1] = k /\ place'[2] = j + 1 /\ list' = list
      /\ Len(list) \in Nat /\ DOMAIN list = 1 .. Len(list)
  BY <1>1, Listing DEF LoadInv, At
<1>a. Reached(list[k], j) /\ Reached(list[k], (j + 1) - 1)
  <2>1. Reached(list[k], j - 1)
    BY <1>1, <1>2 DEF LoadInv
  <2>2. 1 .. j = (1 .. j - 1) \cup {j} /\ (j + 1) - 1 = j
    BY <1>2
  <2>3. Reached(list[k], j)
    BY <1>1, <2>1, <2>2 DEF Reached
  <2> QED
    BY <2>2, <2>3
<1>3. \A m \in DOMAIN list : DOMAIN list[m].targets \subseteq Nat
  BY <1>2, Listing
<1>4. \A m \in DOMAIN list : \A i \in DOMAIN list[m].targets : Seen(m, i)' <=> Seen(m, i) \/ (m = k /\ i = j)
  <2> SUFFICES ASSUME NEW m \in DOMAIN list, NEW i \in DOMAIN list[m].targets
               PROVE  Seen(m, i)' <=> Seen(m, i) \/ (m = k /\ i = j)
    OBVIOUS
  <2>1. m \in Nat /\ i \in Nat
    BY <1>2, <1>3
  <2> QED
    BY <1>1, <1>2, <1>a, <2>1 DEF Seen
<1>5. \A target : \A m \in DOMAIN list : Offered(m, target)' <=> Offered(m, target) \/ (m = k /\ target = new)
  BY <1>1, <1>2, <1>4 DEF Offered
<1>6. \A target : \A m \in DOMAIN list : Offered(m, target) => m <= k
  BY <1>2 DEF Offered, Seen
<1>7. new \in PatternsOf(list)
  BY <1>1 DEF PatternsOf
<1>8. /\ DOMAIN made = {target \in PatternsOf(list) : \E m \in DOMAIN list : Offered(m, target)}
      /\ \A target \in DOMAIN made :
           \E n \in DOMAIN list :
             /\ Offered(n, target) /\ made[target] = list[n].name
             /\ \A m \in DOMAIN list : Offered(m, target) => n <= m
  BY DEF LoadInv
<1>9. /\ DOMAIN made' = DOMAIN made \cup {new}
      /\ \A x \in DOMAIN made : made'[x] = made[x]
      /\ new \notin DOMAIN made => made'[new] = list[k].name
  <2>1. made' = IF new \in DOMAIN made THEN made ELSE Put(made, new, list[k].name)
    BY <1>1 DEF Register, IfNew
  <2> HIDE DEF new, list
  <2>2. CASE new \in DOMAIN made
    BY <2>1, <2>2
  <2>3. CASE new \notin DOMAIN made
    BY <2>1, <2>3 DEF Put
  <2> QED
    BY <2>2, <2>3
<1> HIDE DEF new, list, j
<1>10. DOMAIN made' = {target \in PatternsOf(list) : \E m \in DOMAIN list : Offered(m, target)'}
  BY <1>5, <1>7, <1>8, <1>9
<1>11. ASSUME NEW target \in DOMAIN made'
       PROVE  \E n \in DOMAIN list :
                /\ Offered(n, target)' /\ made'[target] = list[n].name
                /\ \A m \in DOMAIN list : Offered(m, target)' => n <= m
  <2>1. CASE target \in DOMAIN made
    <3>1. PICK n \in DOMAIN list :
            /\ Offered(n, target) /\ made[target] = list[n].name
            /\ \A m \in DOMAIN list : Offered(m, target) => n <= m
      BY <1>8, <2>1
    <3>2. n <= k
      BY <1>6, <3>1
    <3> QED
      BY <1>5, <1>9, <2>1, <3>1, <3>2
  <2>2. CASE target \notin DOMAIN made
    <3>1. target = new /\ made'[target] = list[k].name
      BY <1>9, <2>2
    <3>2. \A m \in DOMAIN list : ~ Offered(m, target)
      BY <1>7, <1>8, <2>2, <3>1
    <3>3. \A m \in DOMAIN list : Offered(m, target)' <=> m = k
      BY <1>5, <3>1, <3>2
    <3>4. k <= k
      BY <1>2
    <3> QED
      BY <3>1, <3>3, <3>4
  <2> QED
    BY <2>1, <2>2
<1>12. place' \in (1 .. Len(list) + 1) \X (Nat \ {0})
  BY <1>1, <1>2
<1> QED
  BY <1>1, <1>2, <1>a, <1>10, <1>11, <1>12 DEF LoadInv, list

LEMMA NextFileKeeps == LoadInv /\ input.kind = "plugins" /\ (RefuseTarget \/ NextFile) => LoadInv'
<1> SUFFICES ASSUME LoadInv, input.kind = "plugins", RefuseTarget \/ NextFile PROVE LoadInv'
  OBVIOUS
<1> DEFINE list == input.files
           j == place[2]
<1>1. PICK k \in DOMAIN list :
        /\ At(k)
        /\ Known(list[k]) =>
             j \notin DOMAIN list[k].targets \/ list[k].targets[j].form = "other"
        /\ place' = <<k + 1, 1>>
        /\ UNCHANGED <<input, made, over>>
  BY DEF NextFile, RefuseTarget
<1>2. /\ list \in Listings /\ place \in (1 .. Len(list) + 1) \X (Nat \ {0})
      /\ place[1] = k /\ k \in Nat /\ j \in Nat \ {0} /\ ~over
      /\ place'[1] = k + 1 /\ place'[2] = 1 /\ list' = list
      /\ Len(list) \in Nat /\ DOMAIN list = 1 .. Len(list)
  BY <1>1, Listing DEF LoadInv, At
<1>3. \A m \in DOMAIN list :
        Len(list[m].targets) \in Nat /\ DOMAIN list[m].targets = 1 .. Len(list[m].targets)
  BY <1>2, Listing
<1>4. \A m \in DOMAIN list : \A i \in DOMAIN list[m].targets : Seen(m, i)' <=> Seen(m, i)
  <2> SUFFICES ASSUME NEW m \in DOMAIN list, NEW i \in DOMAIN list[m].targets
               PROVE  Seen(m, i)' <=> Seen(m, i)
    OBVIOUS
  <2>1. m \in Nat /\ i \in Nat \ {0}
    <3>1. Len(list) \in Nat /\ m \in 1 .. Len(list)
      BY <1>2
    <3>2. Len(list[m].targets) \in Nat /\ i \in 1 .. Len(list[m].targets)
      BY <1>3
    <3> HIDE DEF list
    <3> QED
      BY <3>1, <3>2
  <2>2. m = k /\ Known(list[m]) /\ Reached(list[m], i) => i < j
    <3>1. ASSUME m = k, Known(list[m]), Reached(list[m], i), ~ (i < j) PROVE FALSE
      <4>1. j \in 1 .. i
        BY <1>2, <2>1, <3>1
      <4>2. list[k].targets[j].form # "other"
        BY <3>1, <4>1 DEF Reached
      <4>3. j \in DOMAIN list[k].targets
        BY <1>3, <2>1, <3>1, <4>1
      <4> QED
        BY <1>1, <3>1, <4>2, <4>3
    <3> QED
      BY <3>1
  <2> QED
    BY <1>1, <1>2, <2>1, <2>2 DEF Seen
<1>5. \A target : \A m \in DOMAIN list : Offered(m, target)' <=> Offered(m, target)
  BY <1>1, <1>2, <1>4 DEF Offered
<1>6. place' \in (1 .. Len(list) + 1) \X (Nat \ {0})
  BY <1>1, <1>2
<1>7. \A m \in DOMAIN list : Reached(list[m], 1 - 1)
  BY DEF Reached
<1> QED
  BY <1>1, <1>2, <1>5, <1>6, <1>7 DEF LoadInv

LEMMA LoadEndsKeeps == LoadInv /\ input.kind = "plugins" /\ LoadEnds => LoadInv'
<1> SUFFICES ASSUME LoadInv, input.kind = "plugins", LoadEnds PROVE LoadInv'
  OBVIOUS
<1>1. \A k, target : Offered(k, target)' <=> Offered(k, target)
  BY DEF LoadEnds, Offered, Seen
<1> QED
  BY <1>1 DEF LoadInv, LoadEnds, At

-----------------------------------------------------------------------------
(* merge_cloud_plugin_content.                                             *)

\* The template has what the first n entries gave.
MergedUpTo(map, entries, n) ==
  /\ DOMAIN map = {"own"} \cup {entries[k].name : k \in 1 .. n}
  /\ \A name \in DOMAIN map :
       \/ /\ \A k \in 1 .. n : entries[k].name # name
          /\ map[name] = "template"
       \/ \E k \in 1 .. n :
            /\ entries[k].name = name /\ map[name] = Content(entries[k])
            /\ \A m \in 1 .. n : entries[m].name = name => m <= k

\* They are those that the loop has been through, and they were good.
MergeInv ==
  input.kind = "merge" =>
    LET entries == input.entries
        here == place[1]
    IN  /\ entries \in Merges
        /\ place \in (1 .. Len(entries) + 1) \X {1}
        /\ made = [map |-> made.map, raised |-> made.raised] /\ made.raised \in BOOLEAN
        /\ \A k \in DOMAIN entries : k < here => ~Bad(entries[k])
        /\ made.raised => here \in DOMAIN entries /\ Bad(entries[here])
        /\ MergedUpTo(made.map, entries, here - 1)
        /\ over => made.raised \/ here = Len(entries) + 1

LEMMA Entries ==
  ASSUME NEW entries \in Merges PROVE Len(entries) \in Nat /\ DOMAIN entries = 1 .. Len(entries)
<1>1. IsList(entries)
  BY MergesAssumption
<1> QED
  BY <1>1 DEF IsList

\* One entry more takes its name, whatever was there.
LEMMA MergedOneMore ==
  ASSUME NEW map, NEW made1, NEW entries, NEW k \in Nat \ {0}, MergedUpTo(map, entries, k - 1),
         DOMAIN made1 = DOMAIN map \cup {entries[k].name},
         made1[entries[k].name] = Content(entries[k]),
         \A x \in DOMAIN map \ {entries[k].name} : made1[x] = map[x]
  PROVE  MergedUpTo(made1, entries, (k + 1) - 1)
<1>1. 1 .. (k + 1) - 1 = (1 .. k - 1) \cup {k} /\ \A m \in 1 .. (k + 1) - 1 : m <= k
  OBVIOUS
<1>2. DOMAIN made1 = {"own"} \cup {entries[m].name : m \in 1 .. (k + 1) - 1}
  BY <1>1 DEF MergedUpTo
<1>3. ASSUME NEW name \in DOMAIN made1
      PROVE  \/ /\ \A m \in 1 .. (k + 1) - 1 : entries[m].name # name
                /\ made1[name] = "template"
             \/ \E n \in 1 .. (k + 1) - 1 :
                  /\ entries[n].name = name /\ made1[name] = Content(entries[n])
                  /\ \A m \in 1 .. (k + 1) - 1 : entries[m].name = name => m <= n
  <2>1. CASE name = entries[k].name
    BY <1>1, <2>1
  <2>2. CASE name # entries[k].name
    <3>1. name \in DOMAIN map /\ made1[name] = map[name]
      BY <1>3, <2>2
    <3>2. \/ /\ \A m \in 1 .. k - 1 : entries[m].name # name
             /\ map[name] = "template"
          \/ \E n \in 1 .. k - 1 :
               /\ entries[n].name = name /\ map[name] = Content(entries[n])
               /\ \A m \in 1 .. k - 1 : entries[m].name = name => m <= n
      BY <3>1 DEF MergedUpTo
    <3> QED
      BY <1>1, <2>2, <3>1, <3>2
  <2> QED
    BY <2>1, <2>2
<1> QED
  BY <1>2, <1>3 DEF MergedUpTo

LEMMA MergeKeeps == MergeInv /\ input.kind = "merge" /\ MergeEntry => MergeInv'
<1> SUFFICES ASSUME MergeInv, input.kind = "merge", MergeEntry PROVE MergeInv'
  OBVIOUS
<1> DEFINE entries == input.entries
<1>1. PICK k \in DOMAIN entries :
        /\ At(k) /\ ~made.raised
        /\ made' = Merge(made, entries[k])
        /\ place' = IF made'.raised THEN place ELSE <<k + 1, 1>>
        /\ UNCHANGED <<input, over>>
  BY DEF MergeEntry
<1> DEFINE entry == entries[k]
<1>2. /\ entries \in Merges /\ place \in (1 .. Len(entries) + 1) \X {1}
      /\ place[1] = k /\ k \in Nat \ {0} /\ ~over /\ entries' = entries
      /\ Len(entries) \in Nat /\ DOMAIN entries = 1 .. Len(entries)
      /\ made = [map |-> made.map, raised |-> made.raised]
      /\ \A m \in DOMAIN entries : m < k => ~Bad(entries[m])
      /\ MergedUpTo(made.map, entries, k - 1)
  BY <1>1, Entries DEF MergeInv, At
<1>3. CASE Bad(entry)
  <2>1. made'.map = made.map /\ made'.raised = TRUE /\ made' = [map |-> made'.map, raised |-> made'.raised]
    BY <1>1, <1>2, <1>3 DEF Merge
  <2>2. place' = place
    BY <1>1, <2>1
  <2>3. MergedUpTo(made'.map, entries', place'[1] - 1)
    BY <1>2, <2>1, <2>2
  <2> HIDE DEF entries
  <2> QED
    BY <1>1, <1>2, <1>3, <2>1, <2>2, <2>3 DEF MergeInv, entries
<1>4. CASE ~Bad(entry)
  <2> DEFINE content == Content(entry)
             name == entry.name
             map == made.map
  <2>1. made' = [made EXCEPT !.map = Put(map, name, content)]
    BY <1>1, <1>4 DEF Merge
  <2>2. /\ made'.map = Put(map, name, content)
        /\ made'.raised = FALSE
        /\ made' = [map |-> made'.map, raised |-> made'.raised]
    <3> HIDE DEF content, name
    <3> QED
      BY <1>1, <1>2, <2>1
  <2>3. place' = <<k + 1, 1>> /\ place'[1] = k + 1
    BY <1>1, <2>2
  <2>4. 1 .. (k + 1) - 1 = (1 .. k - 1) \cup {k}
    BY <1>2
  <2>5. /\ DOMAIN made'.map = DOMAIN map \cup {name}
        /\ made'.map[name] = content
        /\ \A x \in DOMAIN map \ {name} : made'.map[x] = map[x]
    <3> HIDE DEF content, name, map
    <3> QED
      BY <2>2 DEF Put
  <2>6. MergedUpTo(made'.map, entries, (k + 1) - 1)
    BY <1>2, <2>4, <2>5, MergedOneMore
  <2>7. \A m \in DOMAIN entries : m < k + 1 => ~Bad(entries[m])
    BY <1>2, <1>4
  <2>8. k + 1 \in 1 .. Len(entries) + 1 /\ place' \in (1 .. Len(entries) + 1) \X {1}
    BY <1>1, <1>2, <2>3
  <2> HIDE DEF entries
  <2> QED
    BY <1>1, <1>2, <2>2, <2>3, <2>6, <2>7, <2>8 DEF MergeInv, entries
<1> QED
  BY <1>3, <1>4

LEMMA MergeEndsKeeps == MergeInv /\ input.kind = "merge" /\ MergeEnds => MergeInv'
<1> SUFFICES ASSUME MergeInv, input.kind = "merge", MergeEnds PROVE MergeInv'
  OBVIOUS
<1> QED
  BY DEF MergeInv, MergeEnds, At
-----------------------------------------------------------------------------
(* The whole: what is not computed by a loop is computed at once.          *)
AtOnce ==
  /\ input.kind = "include" =>
       /\ input.includes \in Sections
       /\ over => made = add_target_content(input.includes, ThisBuild)
  /\ input.kind = "request" =>
       /\ input.request \in Requests
       /\ over => made = rest_api(input.request, input.settings[1], input.settings[2])
ComputeInv == LoadInv /\ MergeInv /\ AtOnce

\* Nothing has been seen at the start.
LEMMA InitComputeInv == ComputeInit => ComputeInv
<1> SUFFICES ASSUME ComputeInit PROVE ComputeInv
  OBVIOUS
<1>1. place = <<1, 1>> /\ place[1] = 1 /\ place[2] = 1 /\ over = FALSE
  BY DEF ComputeInit
<1>2. LoadInv
  <2> SUFFICES ASSUME input.kind = "plugins" PROVE LoadInv
    BY DEF LoadInv
  <2> DEFINE list == input.files
  <2>1. list \in Listings
    BY DEF ComputeInit, Inputs
  <2>2. made = << >> /\ DOMAIN made = {}
    BY DEF ComputeInit
  <2>3. /\ Len(list) \in Nat /\ DOMAIN list = 1 .. Len(list)
        /\ \A m \in DOMAIN list : DOMAIN list[m].targets = 1 .. Len(list[m].targets)
    BY <2>1, Listing
  <2>4. \A m \in DOMAIN list : \A i \in DOMAIN list[m].targets : ~ Seen(m, i)
    BY <1>1, <2>3 DEF Seen
  <2>5. \A target : \A m \in DOMAIN list : ~ Offered(m, target)
    BY <2>4 DEF Offered
  <2>6. place \in (1 .. Len(list) + 1) \X (Nat \ {0})
    BY <1>1, <2>3
  <2>7. \A m \in DOMAIN list : Reached(list[m], 1 - 1)
    BY DEF Reached
  <2> QED
    BY <1>1, <2>1, <2>2, <2>5, <2>6, <2>7 DEF LoadInv
<1>3. MergeInv
  <2> SUFFICES ASSUME input.kind = "merge" PROVE MergeInv
    BY DEF MergeInv
  <2> DEFINE entries == input.entries
  <2>1. entries \in Merges
    BY DEF ComputeInit, Inputs
  <2>2. made = [map |-> Template, raised |-> FALSE]
    BY DEF ComputeInit
  <2>3. made = [map |-> made.map, raised |-> made.raised] /\ made.raised = FALSE /\ made.map = Template
    BY <2>2
  <2>4. Len(entries) \in Nat /\ DOMAIN entries = 1 .. Len(entries)
    BY <2>1, Entries
  <2>5. MergedUpTo(made.map, entries, place[1] - 1)
    BY <1>1, <2>3 DEF MergedUpTo, Template
  <2>6. place \in (1 .. Len(entries) + 1) \X {1}
    BY <1>1, <2>4
  <2>7. \A k \in DOMAIN entries : ~ (k < place[1])
    BY <1>1, <2>4
  <2> QED
    BY <1>1, <2>1, <2>3, <2>5, <2>6, <2>7 DEF MergeInv
<1>4. AtOnce
  BY <1>1 DEF AtOnce, ComputeInit, Inputs
<1> QED
  BY <1>2, <1>3, <1>4 DEF ComputeInv

\* What a loop does concerns no other computation.
LEMMA StepComputeInv == ComputeInv /\ [Compute]_computeVars => ComputeInv'
<1> SUFFICES ASSUME ComputeInv, [Compute]_computeVars PROVE ComputeInv'
  OBVIOUS
<1>1. CASE load
  <2>1. input.kind = "plugins" /\ input' = input
    BY <1>1 DEF load, RegisterTarget, RefuseTarget, NextFile, LoadEnds
  <2>2. MergeInv' /\ AtOnce'
    BY <2>1 DEF MergeInv, AtOnce
  <2> QED
    BY <1>1, <2>2, RegisterKeeps, NextFileKeeps, LoadEndsKeeps DEF load, ComputeInv
<1>2. CASE merge_cloud_plugin_content
  <2>1. input.kind = "merge" /\ input' = input
    BY <1>2 DEF merge_cloud_plugin_content, MergeEntry, MergeEnds
  <2>2. LoadInv' /\ AtOnce'
    BY <2>1 DEF LoadInv, AtOnce
  <2> QED
    BY <1>2, <2>2, MergeKeeps, MergeEndsKeeps DEF merge_cloud_plugin_content, ComputeInv
<1>3. CASE FindInclude
  <2>1. input.kind = "include" /\ input' = input /\ over'
        /\ made' = add_target_content(input.includes, ThisBuild)
    BY <1>3 DEF FindInclude
  <2>2. LoadInv' /\ MergeInv'
    BY <2>1 DEF LoadInv, MergeInv
  <2>3. AtOnce'
    BY <2>1 DEF AtOnce, ComputeInv
  <2> QED
    BY <2>2, <2>3 DEF ComputeInv
<1>4. CASE Answer
  <2>1. input.kind = "request" /\ input' = input /\ over'
        /\ made' = rest_api(input.request, input.settings[1], input.settings[2])
    BY <1>4 DEF Answer
  <2>2. LoadInv' /\ MergeInv'
    BY <2>1 DEF LoadInv, MergeInv
  <2>3. AtOnce'
    BY <2>1 DEF AtOnce, ComputeInv
  <2> QED
    BY <2>2, <2>3 DEF ComputeInv
<1>5. CASE UNCHANGED computeVars
  <2>1. input' = input /\ place' = place /\ made' = made /\ over' = over
    BY <1>5 DEF computeVars
  <2>2. \A k, target : Offered(k, target)' <=> Offered(k, target)
    BY <2>1 DEF Offered, Seen
  <2>3. LoadInv'
    BY <2>1, <2>2 DEF LoadInv, ComputeInv
  <2>4. MergeInv'
    BY <2>1 DEF MergeInv, ComputeInv
  <2>5. AtOnce'
    BY <2>1 DEF AtOnce, ComputeInv
  <2> QED
    BY <2>3, <2>4, <2>5 DEF ComputeInv
<1> QED
  BY <1>1, <1>2, <1>3, <1>4, <1>5 DEF Compute, Computed

\* The invariant of the computations.
THEOREM Computing == Computation => []ComputeInv
<1> QED
  BY InitComputeInv, StepComputeInv, PTL DEF Computation


-----------------------------------------------------------------------------
\* When the loop is over, every target that is offered is registered, for the
\* first file that offers it.
LEMMA Registered ==
  ASSUME ComputeInv, Of("plugins")
  PROVE  LET list == input.files IN
         /\ list \in Listings
         /\ DOMAIN made = {target \in PatternsOf(list) : Offers(list, target) # {}}
         /\ \A target \in DOMAIN made : made[target] = list[Min(Offers(list, target))].name
<1> DEFINE list == input.files
<1>1. /\ list \in Listings /\ place[1] = Len(list) + 1
      /\ DOMAIN made = {target \in PatternsOf(list) : \E k \in DOMAIN list : Offered(k, target)}
      /\ \A target \in DOMAIN made :
           \E k \in DOMAIN list :
             /\ Offered(k, target) /\ made[target] = list[k].name
             /\ \A m \in DOMAIN list : Offered(m, target) => k <= m
  BY DEF ComputeInv, LoadInv, Of
<1>2. Len(list) \in Nat /\ DOMAIN list = 1 .. Len(list)
  BY <1>1, Listing
<1>3. \A target : \A k \in DOMAIN list : Offered(k, target) <=> k \in Offers(list, target)
  <2> SUFFICES ASSUME NEW k \in DOMAIN list, NEW target
               PROVE  Offered(k, target) <=> k \in Offers(list, target)
    OBVIOUS
  <2>1. k < place[1]
    BY <1>1, <1>2
  <2>2. \A j \in DOMAIN list[k].targets :
          Seen(k, j) <=> list[k].type \in PLUGIN_TYPES /\ Reached(list[k], j)
    BY <2>1 DEF Seen, Known
  <2> QED
    BY <2>2 DEF Offered, Offers
<1> HIDE DEF list
<1>4. \A target : Offers(list, target) \subseteq DOMAIN list
  BY DEF Offers
<1>5. DOMAIN made = {target \in PatternsOf(list) : Offers(list, target) # {}}
  BY <1>1, <1>3, <1>4
<1>6. ASSUME NEW target \in DOMAIN made PROVE made[target] = list[Min(Offers(list, target))].name
  <2>1. PICK k \in DOMAIN list :
          /\ Offered(k, target) /\ made[target] = list[k].name
          /\ \A m \in DOMAIN list : Offered(m, target) => k <= m
    BY <1>1
  <2>2. /\ k \in Offers(list, target) /\ Offers(list, target) \subseteq Int
        /\ \A m \in Offers(list, target) : k <= m
    BY <1>2, <1>3, <1>4, <2>1
  <2>3. Min(Offers(list, target)) = k
    BY <2>2, MinIs
  <2> QED
    BY <2>1, <2>3
<1> QED
  BY <1>1, <1>5, <1>6 DEF list

\* What the look with the first n elements is for.
Try(target, n) == [i \in 1 .. 3 |-> IF i <= n THEN target[i] ELSE None]

LEMMA TryFits == ASSUME NEW target, NEW n \in 1 .. 3 PROVE n \in Fits(Try(target, n), target)
BY DEF Try, Fits

LEMMA FitsTry ==
  ASSUME NEW p, IsList(p), Len(p) = 3, NEW target, NEW n \in Fits(p, target)
  PROVE  p = Try(target, n) /\ n \in 1 .. 3
<1>1. p = [i \in 1 .. 3 |-> p[i]]
  BY DEF IsList
<1>2. n \in 1 .. 3 /\ \A i \in 1 .. 3 : p[i] = IF i <= n THEN target[i] ELSE None
  BY DEF Fits
<1> QED
  BY <1>1, <1>2 DEF Try

LEMMA TryLen == ASSUME NEW target, NEW n, IsList(Try(target, n)) PROVE Len(Try(target, n)) = 3
<1>1. DOMAIN Try(target, n) = 1 .. 3
  BY DEF Try
<1> DEFINE l == Len(Try(target, n))
<1>2. l \in Nat /\ DOMAIN Try(target, n) = 1 .. l
  BY DEF IsList
<1> HIDE DEF l
<1>3. 1 .. l = 1 .. 3
  BY <1>1, <1>2
<1>4. 3 \in 1 .. l
  BY <1>3
<1>5. l >= 3 /\ l \in 1 .. l
  BY <1>2, <1>4
<1>6. l \in 1 .. 3
  BY <1>3, <1>5
<1> QED
  BY <1>2, <1>5, <1>6 DEF l

\* Whatever the files have for targets, lists, strings or what no key can be made
\* of, and in whatever order, the plugin of a target is that of a list that fits and
\* says most, and of its files the first; a string that a file has is never found
\* (PluginManager.py:54-155).
THEOREM PluginNearest == Computation => []NearestPlugin
<1>1. ComputeInv => NearestPlugin
  <2> SUFFICES ASSUME ComputeInv, Of("plugins") PROVE NearestPlugin
    BY DEF NearestPlugin
  <2> DEFINE list == input.files
             Patterns ==
               UNION {{list[k].targets[i].says : i \in DOMAIN list[k].targets} : k \in DOMAIN list}
             First(p) == list[Min(Offers(list, AsList(p)))].name
             fitting(target) ==
               {p \in Patterns :
                  Len(p) = 3 /\ Offers(list, AsList(p)) # {} /\ Fits(p, target) # {}}
  <2>0. /\ list \in Listings
        /\ DOMAIN made = {target \in PatternsOf(list) : Offers(list, target) # {}}
        /\ \A target \in DOMAIN made : made[target] = list[Min(Offers(list, target))].name
    BY Registered
  <2>1. \A p : /\ AsList(p) \in DOMAIN made <=> Offers(list, AsList(p)) # {}
               /\ AsList(p) \in DOMAIN made => p \in Patterns /\ made[AsList(p)] = First(p)
    <3> SUFFICES ASSUME NEW p
                 PROVE  /\ AsList(p) \in DOMAIN made <=> Offers(list, AsList(p)) # {}
                        /\ AsList(p) \in DOMAIN made => p \in Patterns /\ made[AsList(p)] = First(p)
      OBVIOUS
    <3>1. ASSUME Offers(list, AsList(p)) # {}
          PROVE  AsList(p) \in PatternsOf(list) /\ p \in Patterns
      <4>1. PICK k \in DOMAIN list : \E i \in DOMAIN list[k].targets : list[k].targets[i] = AsList(p)
        BY <3>1 DEF Offers
      <4>2. AsList(p).says = p
        BY DEF AsList
      <4> QED
        BY <4>1, <4>2 DEF PatternsOf
    <3> QED
      BY <2>0, <3>1
  <2>2. \A p \in Patterns : IsList(p)
    BY <2>0, Listing
  <2> HIDE DEF list, Patterns, First
  <2>4. ASSUME NEW target
        PROVE  LET found == MatchList(made, target) IN
               IF fitting(target) = {} THEN found = None
               ELSE \E p \in fitting(target) :
                      /\ found = First(p)
                      /\ \A q \in fitting(target) : \A m \in Fits(q, target) :
                           \E n \in Fits(p, target) : m <= n
    <3> DEFINE looks == {n \in 1 .. 3 : AsList(Try(target, n)) \in DOMAIN made}
               best == Max(looks)
               p == Try(target, best)
    <3>1. MatchList(made, target) = IF looks = {} THEN None ELSE made[AsList(p)]
      BY DEF MatchList, Try
    <3>2. \A n \in looks : Try(target, n) \in fitting(target) /\ n \in Fits(Try(target, n), target)
      <4> SUFFICES ASSUME NEW n \in looks
                   PROVE  Try(target, n) \in fitting(target) /\ n \in Fits(Try(target, n), target)
        OBVIOUS
      <4>1. n \in Fits(Try(target, n), target)
        BY TryFits
      <4>2. Try(target, n) \in Patterns /\ Offers(list, AsList(Try(target, n))) # {}
        BY <2>1
      <4>3. Len(Try(target, n)) = 3
        BY <2>2, <4>2, TryLen
      <4> QED
        BY <4>1, <4>2, <4>3
    <3>3. \A q \in fitting(target) : \A m \in Fits(q, target) : m \in looks
      <4> SUFFICES ASSUME NEW q \in fitting(target), NEW m \in Fits(q, target) PROVE m \in looks
        OBVIOUS
      <4>1. q = Try(target, m) /\ m \in 1 .. 3
        BY <2>2, FitsTry
      <4>2. AsList(q) \in DOMAIN made
        BY <2>1
      <4> QED
        BY <4>1, <4>2
    <3>4. CASE looks = {}
      <4>1. fitting(target) = {}
        BY <3>3, <3>4
      <4> QED
        BY <3>1, <3>4, <4>1
    <3>5. CASE looks # {}
      <4>1. best \in looks /\ \A m \in looks : m <= best
        <5>1. looks \subseteq 0 .. 3
          OBVIOUS
        <5> HIDE DEF looks
        <5> QED
          BY <3>5, <5>1, HasMax
      <4>2. p \in fitting(target) /\ best \in Fits(p, target) /\ AsList(p) \in DOMAIN made
        BY <3>2, <4>1
      <4>3. MatchList(made, target) = First(p)
        BY <2>1, <3>1, <3>5, <4>2
      <4> HIDE DEF looks, best, p, fitting
      <4> QED
        BY <3>3, <4>1, <4>2, <4>3
    <3> QED
      BY <3>4, <3>5
  <2>5. ASSUME NEW cloud
        PROVE  MatchString(made, cloud) =
                 IF Offers(list, AsList(<<cloud>>)) = {} THEN Raises ELSE First(<<cloud>>)
    BY <2>1 DEF MatchString
  <2> QED
    BY <2>4, <2>5 DEF NearestPlugin, list, Patterns, First
<1> QED
  BY <1>1, Computing, PTL

-----------------------------------------------------------------------------
\* A bad entry raises, one that does not decode too, the entries after it are not
\* looked at, and the last of a name is what the template has, whatever the entries
\* and whichever bodies decode (TinMan.py:133-170, Nova.py:333-369).
THEOREM LastOfAName == Computation => []MergedContent
<1>1. ComputeInv => MergedContent
  <2> SUFFICES ASSUME ComputeInv, Of("merge") PROVE MergedContent
    BY DEF MergedContent
  <2> DEFINE entries == input.entries
             here == place[1]
             map == made.map
             bad == {k \in DOMAIN entries : Bad(entries[k])}
             good == IF bad = {} THEN DOMAIN entries ELSE 1 .. Min(bad) - 1
             Givers(name) == {k \in good : entries[k].name = name}
  <2>1. /\ entries \in Merges /\ here \in 1 .. Len(entries) + 1
        /\ made.raised \in BOOLEAN
        /\ \A k \in DOMAIN entries : k < here => ~Bad(entries[k])
        /\ made.raised => here \in DOMAIN entries /\ Bad(entries[here])
        /\ MergedUpTo(map, entries, here - 1)
        /\ made.raised \/ here = Len(entries) + 1
    BY DEF ComputeInv, MergeInv, Of
  <2>2. Len(entries) \in Nat /\ DOMAIN entries = 1 .. Len(entries)
    BY <2>1, Entries
  <2> HIDE DEF entries, here, map
  <2>3. (made.raised <=> bad # {}) /\ good = 1 .. here - 1
    <3>1. CASE made.raised
      <4>1. here \in bad /\ bad \subseteq Int /\ \A k \in bad : here <= k
        BY <2>1, <2>2, <3>1
      <4>2. Min(bad) = here
        <5> HIDE DEF bad
        <5> QED
          BY <4>1, MinIs
      <4> QED
        BY <3>1, <4>1, <4>2
    <3>2. CASE ~made.raised
      <4>1. bad = {}
        BY <2>1, <2>2, <3>2
      <4> QED
        BY <2>1, <2>2, <3>2, <4>1
    <3> QED
      BY <3>1, <3>2
  <2> HIDE DEF bad, good
  <2>4. DOMAIN map = {"own"} \cup {entries[k].name : k \in good}
    BY <2>1, <2>3 DEF MergedUpTo
  <2>5. ASSUME NEW name \in DOMAIN map
        PROVE  map[name] = IF Givers(name) = {} THEN "template" ELSE Content(entries[Max(Givers(name))])
    <3>1. CASE \A k \in good : entries[k].name # name
      <4>1. Givers(name) = {}
        BY <3>1
      <4>2. map[name] = "template"
        BY <2>1, <2>3, <3>1 DEF MergedUpTo
      <4> QED
        BY <4>1, <4>2
    <3>2. CASE ~ \A k \in good : entries[k].name # name
      <4>1. PICK k \in good : /\ entries[k].name = name /\ map[name] = Content(entries[k])
                              /\ \A m \in good : entries[m].name = name => m <= k
        BY <2>1, <2>3, <3>2 DEF MergedUpTo
      <4>2. k \in Givers(name) /\ Givers(name) \subseteq Int /\ \A m \in Givers(name) : m <= k
        BY <2>1, <2>3, <4>1
      <4>3. Max(Givers(name)) = k
        <5> HIDE DEF Givers
        <5> QED
          BY <4>2, MaxIs
      <4> QED
        BY <4>1, <4>2, <4>3
    <3> QED
      BY <3>1, <3>2
  <2> QED
    BY <2>3, <2>4, <2>5 DEF MergedContent, Of, entries, map, bad, good
<1> QED
  BY <1>1, Computing, PTL

-----------------------------------------------------------------------------
\* What a section says, when a query finds it.
LEMMA SelectsGives ==
  ASSUME NEW include, NEW n \in 0 .. 4, Selects(include, ThisBuild, n)
  PROVE  Given(include) = 1 .. n /\ Cardinality(Given(include)) = n
<1>1. Given(include) = 1 .. n
  BY ThisBuildAssumption DEF Given, Selects
<1>2. Cardinality(1 .. n) = n
  <2>1. 1 \in Int /\ n \in Int
    OBVIOUS
  <2>2. Cardinality(1 .. n) = IF 1 > n THEN 0 ELSE n - 1 + 1
    BY <2>1, FS_Interval
  <2> QED
    BY <2>2
<1> QED
  BY <1>1, <1>2

\* The sections of a build are those that a query finds.
Applying(include) ==
  /\ \A i \in Given(include) : include[i] = ThisBuild[i]
  /\ \A i \in Given(include) : 1 .. i \subseteq Given(include)

LEMMA ApplyingSelects ==
  ASSUME NEW include PROVE Applying(include) <=> \E n \in 0 .. 4 : Selects(include, ThisBuild, n)
<1>1. ASSUME NEW n \in 0 .. 4, Selects(include, ThisBuild, n) PROVE Applying(include)
  <2>1. Given(include) = 1 .. n
    BY <1>1, SelectsGives
  <2> QED
    BY <1>1, <2>1 DEF Applying, Selects
<1>2. ASSUME Applying(include) PROVE \E n \in 0 .. 4 : Selects(include, ThisBuild, n)
  <2>0. Given(include) \subseteq 1 .. 4 /\ Given(include) \subseteq 0 .. 4
    BY DEF Given
  <2>1. CASE Given(include) = {}
    <3>1. Selects(include, ThisBuild, 0)
      BY <2>1 DEF Given, Selects
    <3> QED
      BY <3>1
  <2>2. CASE Given(include) # {}
    <3>1. PICK n \in Given(include) : \A m \in Given(include) : m <= n
      BY <2>0, <2>2, HasMax
    <3>2. n \in 0 .. 4
      BY <2>0
    <3>3. \A i \in 1 .. 4 : i \in Given(include) <=> i <= n
      BY <1>2, <2>0, <3>1 DEF Applying
    <3>4. Selects(include, ThisBuild, n)
      BY <1>2, <3>3 DEF Given, Selects, Applying
    <3> QED
      BY <3>2, <3>4
  <2> QED
    BY <2>1, <2>2
<1> QED
  BY <1>1, <1>2

\* The section that a build takes is one that says as much about it as any, and
\* the first of them (TinMan.py:173-220).
THEOREM SectionNearest == Computation => []NearestInclude
<1>1. ComputeInv => NearestInclude
  <2> SUFFICES ASSUME ComputeInv, Of("include") PROVE NearestInclude
    BY DEF NearestInclude
  <2> DEFINE includes == input.includes
             chosen == made
             found(n) == {k \in DOMAIN includes : Selects(includes[k], ThisBuild, n)}
             useful == {n \in 0 .. 4 : found(n) # {}}
             Size(k) == Cardinality(Given(includes[k]))
             best == Max(useful)
  <2>1. includes \in Sections /\ chosen = IF useful = {} THEN 0 ELSE Min(found(best))
    BY DEF ComputeInv, AtOnce, Of, add_target_content
  <2>2. DOMAIN includes \subseteq Nat \ {0}
    <3>1. IsList(includes)
      BY <2>1, SectionsAssumption
    <3> QED
      BY <3>1 DEF IsList
  <2> HIDE DEF includes, chosen
  <2>3. \A k \in DOMAIN includes :
          Applying(includes[k]) <=> \E n \in useful : Size(k) = n /\ k \in found(n)
    BY ApplyingSelects, SelectsGives
  <2>4. CASE useful = {}
    <3>1. chosen = 0 /\ \A k \in DOMAIN includes : ~Applying(includes[k])
      BY <2>1, <2>3, <2>4
    <3> QED
      BY <3>1 DEF NearestInclude, Applying, includes, chosen
  <2>5. CASE useful # {}
    <3>1. best \in useful /\ \A n \in useful : n <= best
      <4>1. useful \subseteq 0 .. 4
        OBVIOUS
      <4> HIDE DEF useful
      <4> QED
        BY <2>5, <4>1, HasMax
    <3>2. chosen \in found(best) /\ \A k \in found(best) : chosen <= k
      <4>1. found(best) \subseteq Nat /\ found(best) # {}
        BY <2>2, <3>1
      <4>2. chosen = Min(found(best))
        BY <2>1, <2>5
      <4> HIDE DEF found
      <4> QED
        BY <4>1, <4>2, HasMin
    <3>3. chosen \in DOMAIN includes /\ chosen # 0 /\ Applying(includes[chosen]) /\ Size(chosen) = best
      <4>1. chosen \in DOMAIN includes /\ Selects(includes[chosen], ThisBuild, best) /\ best \in 0 .. 4
        BY <3>1, <3>2
      <4> QED
        BY <2>2, <4>1, ApplyingSelects, SelectsGives
    <3>4. ASSUME NEW k \in DOMAIN includes, Applying(includes[k])
          PROVE  Size(k) < Size(chosen) \/ (Size(k) = Size(chosen) /\ k >= chosen)
      <4>1. PICK n \in useful : Size(k) = n /\ k \in found(n)
        BY <2>3, <3>4
      <4>2. n \in Nat /\ best \in Nat /\ n <= best /\ k \in Nat /\ chosen \in Nat
        BY <2>2, <3>1, <3>2
      <4> HIDE DEF Size, found, useful
      <4>3. CASE n = best
        <5>1. chosen <= k
          BY <3>2, <4>1, <4>3
        <5> QED
          BY <3>3, <4>1, <4>2, <4>3, <5>1
      <4>4. CASE n # best
        BY <3>3, <4>1, <4>2, <4>4
      <4> QED
        BY <4>3, <4>4
    <3> QED
      BY <3>3, <3>4 DEF NearestInclude, Applying, includes, chosen
  <2> QED
    BY <2>4, <2>5
<1> QED
  BY <1>1, Computing, PTL
-----------------------------------------------------------------------------
\* Nothing is found under a str.
LEMMA NeverHas == \A r, key : ~Has(r, key)
BY DEF Has, dencode

\* An answer, and one that was raised before anything was done.
IsAnswer(a) == a = [status |-> a.status, started |-> a.started, stored |-> a.stored]
Honest(r, a) ==
  /\ IsAnswer(a) /\ a.status \in Nat
  /\ a.status \in {202, 204} => a.started
  /\ a.started => a.status \in {202, 204} \/ (r.route = "create" /\ r.accept = "xml")
  /\ a.stored /\ ~a.started => a.status = 500

\* What nothing was done for may be told any other status.
Idle(a) ==
  IsAnswer(a) /\ a.status \in Nat \ {202, 204} /\ a.started = FALSE /\ a.stored = FALSE

LEMMA IdleHonest == ASSUME NEW r, NEW a, Idle(a) PROVE Honest(r, a)
BY DEF Idle, Honest

LEMMA SaysIs ==
  \A status : /\ Says(status).status = status /\ Says(status).started = FALSE
              /\ Says(status).stored = FALSE /\ IsAnswer(Says(status))
BY DEF Says, IsAnswer

LEMMA StartsIs ==
  \A status : /\ Starts(status).status = status /\ Starts(status).started = TRUE
              /\ Starts(status).stored = TRUE /\ IsAnswer(Starts(status))
BY DEF Starts, IsAnswer

LEMMA SaysIdle == \A status \in Nat \ {202, 204} : Idle(Says(status))
BY SaysIs DEF Idle

\* An exception is told as one; what was started is not told otherwise by that.
LEMMA CaughtIs ==
  ASSUME NEW a, IsAnswer(a)
  PROVE  Caught(a) = a \/ (a.status >= 300 /\ Caught(a) = [status |-> 500, started |-> a.started, stored |-> a.stored])
BY DEF IsAnswer, Caught

LEMMA CaughtHonest == ASSUME NEW r, NEW a, Honest(r, a) PROVE Honest(r, Caught(a))
<1>1. IsAnswer(a)
  BY DEF Honest
<1> QED
  BY <1>1, CaughtIs DEF Honest, IsAnswer

LEMMA CaughtIdle == ASSUME NEW a, Idle(a) PROVE Idle(Caught(a))
<1>1. IsAnswer(a)
  BY DEF Idle
<1> QED
  BY <1>1, CaughtIs DEF Idle, IsAnswer

\* The conversion to XML raises whatever was done.
LEMMA ConvertedIs ==
  ASSUME NEW r, NEW a, IsAnswer(a)
  PROVE  IF r.accept = "xml"
         THEN converted_response(r, a) = [status |-> 500, started |-> a.started, stored |-> a.stored]
         ELSE converted_response(r, a) = a
BY DEF IsAnswer, converted_response

LEMMA ConvertedIdle == ASSUME NEW r, NEW a, Idle(a) PROVE Idle(converted_response(r, a))
<1>1. IsAnswer(a)
  BY DEF Idle
<1> QED
  BY <1>1, ConvertedIs DEF Idle, IsAnswer

LEMMA ConvertedHonest ==
  ASSUME NEW r, NEW a, Honest(r, a), r.route = "create" PROVE Honest(r, converted_response(r, a))
<1>1. IsAnswer(a)
  BY DEF Honest
<1> QED
  BY <1>1, ConvertedIs DEF Honest, IsAnswer

LEMMA StartedHonest == ASSUME NEW r, NEW status \in {202, 204} PROVE Honest(r, Starts(status))
<1> DEFINE a == Starts(status)
<1>1. a.status = status /\ a.started = TRUE /\ a.stored = TRUE /\ IsAnswer(a)
  BY StartsIs
<1> HIDE DEF a
<1>2. Honest(r, a)
  BY <1>1 DEF Honest
<1> QED
  BY <1>2 DEF a

\* A thread is started last, and what is stored before an exception is told as 500.
LEMMA BuildHonest == ASSUME NEW r PROVE Honest(r, Builder(r, Build(r)))
<1>1. Honest(r, Starts(202))
  BY StartedHonest
<1>2. Honest(r, Leaves(500))
  <2> DEFINE a == Leaves(500)
  <2>1. a.status = 500 /\ a.started = FALSE /\ a.stored = TRUE /\ IsAnswer(a)
    BY DEF Leaves, IsAnswer
  <2> HIDE DEF a
  <2>2. Honest(r, a)
    BY <2>1 DEF Honest
  <2> QED
    BY <2>2 DEF a
<1>3. Honest(r, Says(500))
  BY SaysIdle, IdleHonest
<1> QED
  BY <1>1, <1>2, <1>3 DEF Builder, Build

LEMMA CreateHonest == ASSUME NEW r, r.route = "create" PROVE Honest(r, create_image(r))
<1>1. Honest(r, Says(500)) /\ Honest(r, Says(400)) /\ Honest(r, Says(404))
  BY SaysIdle, IdleHonest
<1>2. Honest(r, CreateInside(r))
  BY <1>1, BuildHonest DEF CreateInside
<1>3. Honest(r, converted_response(r, CreateInside(r)))
  BY <1>2, ConvertedHonest
<1> QED
  BY <1>2, <1>3, CaughtHonest DEF create_image

LEMMA DeleteHonest == ASSUME NEW r PROVE Honest(r, delete_image_with_id(r))
<1>1. Honest(r, Says(500)) /\ Honest(r, Says(400)) /\ Honest(r, Says(404))
  BY SaysIdle, IdleHonest
<1>2. Honest(r, Starts(204))
  BY StartedHonest
<1>3. Honest(r, DeleteInside(r))
  BY <1>1, <1>2 DEF DeleteInside, Builder
<1> QED
  BY <1>3, CaughtHonest DEF delete_image_with_id

\* The other handlers look, and do nothing.
LEMMA OthersIdle ==
  ASSUME NEW r, r.route \in Routes \ {"create", "delete"} PROVE Idle(Handle(r))
<1>1. Idle(Says(200)) /\ Idle(Says(404)) /\ Idle(Says(500)) /\ Idle(Says(501))
  BY SaysIdle
<1>2. \A any : Idle(list_images(any))
  BY <1>1, ConvertedIdle, CaughtIdle DEF list_images
<1>3. Idle(get_plugins(r))
  BY <1>1, ConvertedIdle, CaughtIdle DEF get_plugins
<1>4. Idle(image_with_id(r))
  BY <1>1, <1>2, <1>3, ConvertedIdle, CaughtIdle DEF image_with_id
<1>5. Idle(get_image_file(r))
  BY <1>1, CaughtIdle DEF get_image_file
<1>6. Idle(api_info(r)) /\ Idle(get_jeos_config(r))
  BY <1>1, ConvertedIdle, CaughtIdle DEF api_info, get_jeos_config
<1>7. Idle(get_jeos_info(r))
  BY <1>1, ConvertedIdle, CaughtIdle DEF get_jeos_info
<1>8. Idle(method_not_implemented)
  BY <1>1 DEF method_not_implemented
<1> QED
  BY <1>2, <1>3, <1>4, <1>5, <1>6, <1>7, <1>8 DEF Handle, Routes

\* The answer to a request tells what was done for it (RESTv2.py:119-178, 259-295).
THEOREM AnswersHonest == Computation => []HonestAnswers
<1>1. ComputeInv => HonestAnswers
  <2> SUFFICES ASSUME ComputeInv, Of("request") PROVE HonestAnswers
    BY DEF HonestAnswers
  <2> DEFINE r == input.request
             debug == input.settings[1]
             no_oauth == input.settings[2]
  <2>1. r.route \in Routes /\ made = rest_api(r, debug, no_oauth)
    BY RequestsAssumption DEF ComputeInv, AtOnce, Of
  <2> HIDE DEF r, debug, no_oauth
  <2>2. Honest(r, Handle(r))
    <3>1. CASE r.route = "create"
      BY <3>1, CreateHonest DEF Handle
    <3>2. CASE r.route = "delete"
      BY <3>2, DeleteHonest DEF Handle
    <3>3. CASE r.route \notin {"create", "delete"}
      BY <2>1, <3>3, OthersIdle, IdleHonest
    <3> QED
      BY <3>1, <3>2, <3>3
  <2>3. Honest(r, Says(500)) /\ Honest(r, Says(406)) /\ Honest(r, Says(401))
    BY SaysIdle, IdleHonest
  <2>4. Honest(r, made)
    BY <2>1, <2>2, <2>3 DEF rest_api, log_request, oauth_protect, check_accept_header
  <2> QED
    BY <2>4 DEF HonestAnswers, Honest, r
<1> QED
  BY <1>1, Computing, PTL
=============================================================================
