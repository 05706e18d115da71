---------------------------- MODULE CloudCourses ----------------------------
(***************************************************************************)
(* The methods of the cloud plugins (imagefactory_plugins) as courses.     *)
(*                                                                         *)
(* Calls in a row between which nothing is made, removed or waited for are *)
(* one call.  The things are: "body", the data file of the target image;   *)
(* "tmp", a file beside it; "image", "vm", "instance" and so on, what the  *)
(* cloud holds; "recorded", the identifier_on_provider of the image.       *)
(***************************************************************************)
EXTENDS Steps

Method == [steps |-> <<>>, has |-> {}, gives |-> {}, keeps |-> {}, leaks |-> {},
           aborts |-> {}]

\* A method that works on the data file: it is there before and after.
OnBody(steps) ==
  [Method EXCEPT !.steps = steps, !.has = {"body"}, !.gives = {"body"},
                 !.leaks = {"body", "tmp"}]

\* A method that brings an image to a provider and records it.
Pushes(steps, keeps, leaks) ==
  [Method EXCEPT !.steps = steps, !.gives = {"image", "recorded"},
                 !.keeps = keeps, !.leaks = leaks]

\* A method that does away with an image.
Deletes(steps) ==
  [Method EXCEPT !.steps = steps, !.has = {"image", "recorded"},
                 !.keeps = {"recorded"}, !.leaks = {"image", "recorded"}]

\* The tail of every conversion: the original is unlinked and the file beside
\* it takes its name.
Renamed == Drop("body") \o Call("rename") \o Set("body") \o Lose("tmp")
\* A faulty variant of Converted: the original goes first.
ConvertedInPlace == Drop("body") \o Make("tmp") \o Call("rename") \o Set("body") \o Lose("tmp")
Converted == Make("tmp") \o Renamed

\* launch_inspect_and_mount, remove_net_persist, create_cloud_info and
\* shutdown_and_close: the file is changed in place.
Modified == Call("guestfs")

-----------------------------------------------------------------------------
(* Rackspace.                                                              *)

RackspaceCredentials == Call("credentials")
RackspaceSsh == Wait("ssh")
RackspaceTerminate == Ignore(Drop("instance"))
RackspaceStart == OnFailure(Wait("start"), RackspaceTerminate)

RackspaceCustomize ==
  Poll("address") \o RackspaceSsh \o Call("customize") \o Make("image")
  \o Call("find") \o Poll("saved") \o Set("recorded")

\* A faulty variant of RackspaceSnapshot: only the way out terminates.
RackspaceSnapshotNoFinally ==
  [Pushes(RackspaceCredentials \o Call("prepare") \o Make("instance") \o RackspaceStart
            \o RackspaceCustomize \o RackspaceTerminate, {}, {})
     EXCEPT !.aborts = {"instance"}]

\* except Exception logs a warning, and the method returns.
RackspaceSnapshot ==
  [Pushes(RackspaceCredentials \o Call("prepare") \o Make("instance") \o RackspaceStart
            \o Finally(Ignore(RackspaceCustomize), RackspaceTerminate), {}, {})
     EXCEPT !.aborts = {"instance"}]

\* The import task makes the image whenever it likes.
RackspacePush ==
  Pushes(RackspaceCredentials \o Call("connect") \o Maybe(Make("container"))
           \o Make("object") \o Call("verify") \o Make("image") \o Wait("import")
           \o Call("find") \o Set("recorded"),
         {"container", "object"}, {"container", "object", "image"})

RackspaceDelete == Deletes(RackspaceCredentials \o Call("find") \o Drop("image"))

RackspaceTarget == OnBody(Modified \o Converted)

-----------------------------------------------------------------------------
(* OpenStack and GCE.                                                      *)

OpenStackCredentials == Call("credentials")
OpenStackKeystone == Call("keystone")
OpenStackGlance == Make("image")
\* A faulty variant: what the service answers is only logged.
OpenStackGlanceV2Logged == Ignore(Make("image"))
OpenStackGlanceV2 == Make("image")

OpenStackPush ==
  Pushes(OpenStackCredentials
           \o Either(Maybe(OpenStackKeystone) \o OpenStackGlanceV2, OpenStackGlance)
           \o Set("recorded"), {}, {})

OpenStackTarget == OnBody(Modified \o Maybe(Converted))

\* The tar file takes the place of the image that was unlinked.
GCETarget == OnBody(Make("tmp") \o Drop("body") \o Make("body") \o Drop("tmp"))

GCEOperation == Poll("operation")

\* An earlier image of the name is deleted before the new one is inserted.
GCEPush ==
  Pushes(Maybe(Set("earlier")) \o Call("prepare") \o Make("object") \o Drop("earlier")
           \o GCEOperation \o Make("image") \o GCEOperation \o Set("recorded"),
         {"object"}, {"object", "earlier", "image"})

-----------------------------------------------------------------------------
(* Atlas.                                                                  *)

AtlasPush ==
  LET kept == {"box", "version", "provider"} IN
  Pushes(Call("credentials") \o Maybe(Make("box")) \o Maybe(Make("version"))
           \o Maybe(Make("provider")) \o Call("path") \o Make("image")
           \o Maybe(Call("release")) \o Set("recorded"),
         kept, kept \cup {"image"})

-----------------------------------------------------------------------------
(* vSphere.  The deletion reads self.builder, which nothing has set.       *)

VSphereCredentials == Call("credentials")
VSphereConvertStream == Converted
VSphereConvertStandard == Converted

VSphereTarget ==
  OnBody(Modified \o Either(VSphereConvertStream, Either(VSphereConvertStandard, Raise)))

VSphereSpecs == Call("specs")

\* When the lease is not ready after the last look, the method goes on.
VSphereUpload ==
  Patience("lease") \o Call("upload") \o Call("complete") \o Call("template")

VSphereCreateVM == VSphereSpecs \o Make("image") \o VSphereUpload

VSpherePush ==
  Pushes(Call("prepare") \o VSphereCredentials \o VSphereCreateVM \o Set("recorded"),
         {}, {"image"})

VSphereDelete == Deletes(Raise)

\* VSphereHelper.delete_vm, which the deletion would call.
VSphereDeleteVM == Deletes(Call("find") \o Drop("image") \o Wait("destroy"))

-----------------------------------------------------------------------------
(* RHEVM.  One connection to the API at a time, whatever the server.       *)

RHEVMCredentials == Call("credentials")

\* An OVFPackage: a directory beside the images.
OVFPackage == Make("package")
OVFSync == Call("sync")
OVFDelete == Ignore(Drop("package"))

RHEVMConnect == Lock("api") \o Call("connect")
\* A faulty variant: a lost connection keeps the lock.
RHEVMDisconnectPlain == Call("disconnect") \o Unlock("api")
RHEVMDisconnect == Finally(Call("disconnect"), Unlock("api"))
RHEVMConnected(body) == Finally(RHEVMConnect \o body, RHEVMDisconnect)

RHEVMInitImport == Call("lookups")
RHEVMStage == Call("export domain") \o OVFPackage \o OVFSync
RHEVMMove == Make("exported disk") \o Make("exported ovf")
RHEVMUnexport == Drop("exported disk") \o Drop("exported ovf")

\* Nothing happens when the template is not found in the export domain.
RHEVMExecute ==
  Call("master domain")
  \o Maybe(Make("image") \o Patience("import") \o RHEVMUnexport \o Maybe(Raise))

RHEVMImport ==
  RHEVMConnected(RHEVMInitImport) \o RHEVMStage \o RHEVMMove \o OVFDelete
  \o RHEVMConnected(RHEVMExecute)

RHEVMPush ==
  LET exported == {"exported disk", "exported ovf"} IN
  Pushes(RHEVMCredentials \o RHEVMImport \o Set("recorded"),
         exported, exported \cup {"package", "image"})

RHEVMDelete == Deletes(Raise)
RHEVMTarget == OnBody(Modified \o Maybe(Converted))

-----------------------------------------------------------------------------
(* EC2 before the push: the image becomes one flat file system.            *)

EC2Flatten == Make("tmp") \o Call("copy") \o Renamed
EC2JustCopy == Converted
EC2ModifyFilesystem == Call("modify")

EC2Target ==
  OnBody(Call("prepare") \o Modified \o Either(EC2Flatten, EC2JustCopy)
         \o Maybe(EC2ModifyFilesystem))

\* The certificate and the key of the account lie in temporary files.
EC2Credentials ==
  [Method EXCEPT !.steps = Call("decode") \o Make("certfile") \o Make("keyfile"),
                 !.gives = {"certfile", "keyfile"}, !.leaks = {"certfile"}]

-----------------------------------------------------------------------------
CloudTable ==
  [rackspace_snapshot |-> RackspaceSnapshot, rackspace_push |-> RackspacePush,
   rackspace_delete |-> RackspaceDelete, rackspace_target |-> RackspaceTarget,
   openstack_push |-> OpenStackPush, openstack_target |-> OpenStackTarget,
   gce_push |-> GCEPush, gce_target |-> GCETarget, atlas_push |-> AtlasPush,
   vsphere_push |-> VSpherePush, vsphere_target |-> VSphereTarget,
   vsphere_delete |-> VSphereDelete, vsphere_delete_vm |-> VSphereDeleteVM,
   rhevm_push |-> RHEVMPush, rhevm_target |-> RHEVMTarget, rhevm_delete |-> RHEVMDelete,
   ec2_target |-> EC2Target, ec2_credentials |-> EC2Credentials]
=============================================================================
