------------------------------ MODULE Packages ------------------------------
(***************************************************************************)
(* What the packages of ovfcommon.py hold and what their descriptors say.  *)
(* A path is the sequence of its components below the directory of the     *)
(* package; uuid stands for the identifiers that a package draws.          *)
(* A descriptor lists files, disks that are kept in a file, and items of   *)
(* hardware, of which one may hang from another and a drive names what it  *)
(* is made of.  The rest of the XML is the same for every image.           *)
(***************************************************************************)
EXTENDS Naturals, Sequences

Formats == {"rhevm", "vagrant-libvirt", "vsphere", "vagrant-virtualbox",
            "vagrant-vmware-fusion", "hyperv-vagrant"}

\* What generate_ova answers to: the target of the image under the OVA, and the
\* *_ova_format parameter.  "hyperv" asks for a package without the files of
\* Vagrant, but a parameter that is False is not passed on: it makes the same.
Class(target, format) ==
  CASE target = "rhevm" /\ format \in {"rhevm", "vagrant-libvirt"} -> format
    [] target = "vsphere"
         /\ format \in {"vsphere", "vagrant-virtualbox", "vagrant-vmware-fusion"} -> format
    [] target = "hyperv" /\ format \in {"hyperv-vagrant", "hyperv"} -> "hyperv-vagrant"
    [] OTHER -> "raises"

\* Vagrantfile and metadata.json.
BoxFiles == <<<<"Vagrantfile">>, <<"metadata.json">>>>

\* The RHEV-M layout: the volume, the descriptor, then the metadata of the volume.
RHEVFiles(uuid) ==
  <<<<"images", uuid, "vol">>, <<"master", "vms", uuid, "tpl.ovf">>, <<"images", uuid, "vol.meta">>>>
VsphereFiles == <<<<"disk.vmdk">>, <<"desc.ovf">>>>
LibvirtFiles == <<<<"box.img">>>> \o BoxFiles
FusionFiles ==
  <<<<"name-disk1.vmdk">>, <<"Vagrantfile">>, <<"name.vmx">>, <<"name.vmxf">>, <<"metadata.json">>>>
VirtualBoxFiles == <<<<"name.vmdk">>, <<"box.ovf">>>> \o BoxFiles

\* Writing the descriptor of Hyper-V raises a TypeError under Python 3 (the
\* encoded creation time is bytes, and a str is added to it): only the disk has
\* been copied, and the empty vm.XML opened.
HyperVFiles == <<<<"Virtual Hard Disks", "disk.vhd">>, <<"Virtual Machines", "vm.XML">>>>

\* The files that sync makes, in its order.
Staged(format, uuid) ==
  CASE format = "rhevm" -> RHEVFiles(uuid)
    [] format = "vagrant-libvirt" -> LibvirtFiles
    [] format = "vsphere" -> VsphereFiles
    [] format = "vagrant-virtualbox" -> VirtualBoxFiles
    [] format = "vagrant-vmware-fusion" -> FusionFiles
    [] format = "hyperv-vagrant" -> HyperVFiles

CannotDescribe(format) == format = "hyperv-vagrant"

\* VMDKs are compressed as they are, so the archive of these is not.
Gzipped(format) == format \notin {"vsphere", "vagrant-virtualbox"}

\* f.endswith(".ovf")
IsDescriptor(f) == f[Len(f)] \in {"tpl.ovf", "desc.ovf", "box.ovf"}

-----------------------------------------------------------------------------
Top == "none"
Nothing == << >>
Item(id, type) ==
  [id |-> id, type |-> type, parent |-> Top, host |-> Nothing, network |-> Nothing]
Drive(id, parent, host) == [Item(id, "17") EXCEPT !.parent = parent, !.host = host]
Card(id, network) == [Item(id, "10") EXCEPT !.network = network]

\* generate_ovf_xml of RHEV-M: references are relative to the images directory,
\* and the drive names its disk by the path of the file, not by the ID.  The
\* network section is a dummy: the card's network is one of the cluster.
RHEVReferences(uuid) ==
  [root |-> <<"images">>, networks |-> {},
   files |-> {[href |-> <<uuid, "vol">>, id |-> <<"vol">>]},
   disks |-> {[names |-> {<<"vol">>, <<uuid, "vol">>}, file |-> <<uuid, "vol">>]}]
RHEVItems(uuid) ==
  {Item("1", "3"), Item("2", "4"), Drive("vol", Top, <<uuid, "vol">>), Card("3", Nothing),
   Item("5", "20")}

VsphereReferences ==
  [root |-> << >>, networks |-> {<<"VM Network">>},
   files |-> {[href |-> <<"disk.vmdk">>, id |-> <<"file1">>]},
   disks |-> {[names |-> {<<"vmdisk1">>}, file |-> <<"file1">>]}]

\* A CD-ROM that expects the controller of the disk.
VsphereCdromAlone == {[Item("7", "15") EXCEPT !.parent = "6"]}

\* A CD-ROM is on an IDE controller of its own.
VsphereCdrom == {Item("6", "5"), [Item("7", "15") EXCEPT !.parent = "6"]}
VsphereItems(cdrom) ==
  {Item("1", "3"), Item("2", "4"), Item("3", "6"), Drive("4", "3", <<"vmdisk1">>),
   Card("5", <<"VM Network">>)}
    \cup IF cdrom THEN VsphereCdrom ELSE {}

\* VirtualBox has the same parts, with an IDE controller, and its own name for
\* the disk; its name has its spaces replaced before either is made.
VirtualBoxReferences ==
  [root |-> << >>, networks |-> {<<"NAT">>},
   files |-> {[href |-> <<"name.vmdk">>, id |-> <<"file1">>]},
   disks |-> {[names |-> {<<"vmdisk1">>, <<"disk_uuid">>}, file |-> <<"file1">>]}]
VirtualBoxItems ==
  {Item("1", "3"), Item("2", "4"), Item("3", "5"), Item("4", "5"),
   Drive("5", "3", <<"vmdisk1">>), Card("6", <<"NAT">>)}

\* It says all of it again in a Machine of VirtualBox's own, whose disk goes by its
\* UUID; of its eight adapters the one in slot 0 is enabled.
VirtualBoxAdapters ==
  {Card("slot 0", <<"NAT">>)}
    \cup {Card(slot, Nothing) :
            slot \in {"slot 1", "slot 2", "slot 3", "slot 4", "slot 5", "slot 6", "slot 7"}}
VirtualBoxStorage == {Item("IDE", "5"), Drive("port 0", "IDE", <<"disk_uuid">>)}
VirtualBoxMachine ==
  {Item("CPU", "3"), Item("Memory", "4")} \cup VirtualBoxAdapters \cup VirtualBoxStorage

\* A .vmx file says which file the first disk is; the card is bridged.
FusionReferences ==
  [root |-> << >>, networks |-> {},
   files |-> {[href |-> <<"name-disk1.vmdk">>, id |-> <<"name-disk1.vmdk">>]},
   disks |-> {[names |-> {<<"scsi0:0">>}, file |-> <<"name-disk1.vmdk">>]}]
FusionItems ==
  {Item("scsi0", "6"), Drive("scsi0:0", "scsi0", <<"scsi0:0">>), Card("ethernet0", Nothing)}

\* A descriptor says what hardware there is, once or twice.
With(references, hardware) ==
  [root |-> references.root, networks |-> references.networks, files |-> references.files,
   disks |-> references.disks, hardware |-> hardware]

\* The descriptors that a package of the format may come with.
Descriptors(format, uuid) ==
  CASE format = "rhevm" -> {With(RHEVReferences(uuid), {RHEVItems(uuid)})}
    [] format = "vsphere" -> {With(VsphereReferences, {VsphereItems(cdrom)}) : cdrom \in BOOLEAN}
    [] format = "vagrant-virtualbox" ->
         {With(VirtualBoxReferences, {VirtualBoxItems, VirtualBoxMachine})}
    [] format = "vagrant-vmware-fusion" -> {With(FusionReferences, {FusionItems})}
    [] OTHER -> {}

-----------------------------------------------------------------------------
\* SCSI and IDE.
Controllers == {"5", "6"}

\* The disks and the networks of d that the hardware uses.
DisksOf(items, d) == {k \in d.disks : \E i \in items : i.host \in k.names}
NetworksOf(items) == {i.network : i \in items} \ {Nothing}

\* Every part hangs from a controller that is there, and is made of what d has.
Connected(items, d) ==
  /\ \A i \in items :
       /\ i.parent # Top => \E c \in items : c.id = i.parent /\ c.type \in Controllers
       /\ i.host # Nothing => \E k \in d.disks : i.host \in k.names
       /\ i.network # Nothing => i.network \in d.networks
  /\ \A i, j \in items : i.id = j.id => i = j

\* With these files, the descriptor means something, and what it says twice it
\* says alike.
Resolves(d, files) ==
  /\ \A f \in d.files : d.root \o f.href \in files
  /\ \A k \in d.disks : \E f \in d.files : k.file \in {f.id, f.href}
  /\ \A items \in d.hardware : Connected(items, d)
  /\ \A one, other \in d.hardware :
       DisksOf(one, d) = DisksOf(other, d) /\ NetworksOf(one) = NetworksOf(other)
=============================================================================
