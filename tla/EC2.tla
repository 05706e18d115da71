-------------------------------- MODULE EC2 --------------------------------
(***************************************************************************)
(* imagefactory_plugins/EC2/EC2.py: how a provider image comes to EC2 and  *)
(* is deleted there again.                                                 *)
(*                                                                         *)
(* An image is pushed as an EBS volume that a utility instance fills       *)
(* ("ebs"), or as a bundle in S3 ("s3"); or an instance of a JEOS image is *)
(* customized and made an image itself, an EBS one or a bundle.  A push    *)
(* that rents an instance makes a security group and a key pair for it.    *)
(* All of them are given back in a finally clause, each step of which may  *)
(* raise itself.                                                           *)
(*                                                                         *)
(* EC2 is external.  It answers each call or raises, and changes what it   *)
(* holds whenever it likes; nothing makes it.                              *)
(***************************************************************************)
EXTENDS Naturals

CONSTANTS Kinds,        \* what may be asked for
          Limit,        \* how often each wait looks, and a deletion is tried
          CallsFail     \* whether a call of EC2 or of the guest may raise

AllKinds == {"ebs", "s3", "snapshot_ebs", "snapshot_s3"}
Waits == {"start", "ssh", "available", "attached", "completed", "image",
          "stopped", "delvolume"}

ASSUME KindsAssumption == Kinds \subseteq AllKinds
ASSUME LimitAssumption == Limit \in [Waits -> Nat \ {0}]
ASSUME CallsFailAssumption == CallsFail \in BOOLEAN

VARIABLES
  kind,     \* what was asked for
  at,       \* where the plugin is
  tries,    \* how often the wait that it is in has looked
  failedAt, \* where the exception was raised that ends the try, or "nowhere"
  recorded, \* whether identifier_on_provider is set
  cloud,    \* what EC2 holds
  slips     \* history: the steps of tidying up that failed

vars == <<kind, at, tries, failedAt, recorded, cloud, slips>>

\* Places before the try, in it, in the finally clause, and in a deletion.
Before == {"group", "authorize", "key", "keyfile", "launch", "start"}
Body == {"ssh", "volume", "upload", "available", "attach", "attached",
         "decompress", "snapshot", "completed", "register", "customize",
         "createimage", "image", "bundle", "uploadbundle", "registerbundle",
         "amiid"}
Tidying == {"terminate", "delkey", "stopped", "delgroup", "delvolume"}
Deleting == {"lookup", "deregister", "delsnapshot", "delparts", "delrest",
             "delmanifest", "deregisterbundle"}
Ends == {"gaveup", "raised", "returned", "deleted", "notdeleted"}

\* What EC2 may hold for us.
Holdings ==
  [group : BOOLEAN, key : BOOLEAN,
   instance : {"none", "pending", "running", "stopping", "terminated"},
   volume : {"none", "creating", "available", "attaching", "attached"},
   written : {"nothing", "part", "all"},
   snapshot : {"none", "pending", "completed"},
   bundle : {"none", "some", "manifest", "whole"},
   ami : {"none", "pending", "failed", "available"}]

TypeOK ==
  /\ kind \in Kinds
  /\ at \in Before \cup Body \cup Tidying \cup Deleting \cup Ends
  /\ tries \in Nat /\ (at \in Waits => tries < Limit[at])
  /\ failedAt \in {"nowhere"} \cup Body
  /\ recorded \in BOOLEAN
  /\ cloud \in Holdings
  /\ slips \subseteq Tidying \cup {"start"}

Rents == kind # "s3"

Init ==
  /\ kind \in Kinds
  /\ at = IF Rents THEN "group" ELSE "bundle"
  /\ tries = 0
  /\ failedAt = "nowhere"
  /\ recorded = FALSE
  /\ cloud = [group |-> FALSE, key |-> FALSE, instance |-> "none",
              volume |-> "none", written |-> "nothing", snapshot |-> "none",
              bundle |-> "none", ami |-> "none"]
  /\ slips = {}

\* Control goes from one place to another.
Goes(from, to) == at = from /\ at' = to /\ tries' = 0 /\ UNCHANGED kind
Straight == UNCHANGED <<failedAt, recorded, slips>>

\* A step that calls EC2 or the guest and changes what EC2 holds.
Calls(from, to, held) == Goes(from, to) /\ cloud' = held /\ Straight

-----------------------------------------------------------------------------
(* Up to the running instance: an exception leaves what there is.          *)

CreateGroup == Calls("group", "authorize", [cloud EXCEPT !.group = TRUE])
Authorize == Calls("authorize", "key", cloud)
CreateKey == Calls("key", "keyfile", [cloud EXCEPT !.key = TRUE])
WriteKeyFile == Calls("keyfile", "launch", cloud)
RunInstances == Calls("launch", "start", [cloud EXCEPT !.instance = "pending"])

RaisesBefore ==
  /\ CallsFail
  /\ \E from \in Before \ {"start"} : Goes(from, "gaveup")
  /\ UNCHANGED cloud
  /\ Straight

\* terminate_instance.
Terminated ==
  [cloud EXCEPT !.instance =
     IF cloud.instance \in {"pending", "running"} THEN "stopping" ELSE cloud.instance]

InstanceRuns == cloud.instance = "running" /\ Calls("start", "ssh", cloud)

\* A wait looks and does not find; a look at an instance that starts may fail
\* with an EC2ResponseError, which is ignored.
Missed(wait) ==
  /\ at = wait /\ tries + 1 < Limit[wait]
  /\ tries' = tries + 1
  /\ UNCHANGED <<kind, at, cloud>> /\ Straight

StartMissed ==
  (cloud.instance # "running" \/ CallsFail) /\ Missed("start")

\* A faulty variant of StartFails: the instance is not terminated.
StartFailsRunning ==
  /\ CallsFail \/ (tries + 1 = Limit["start"] /\ cloud.instance # "running")
  /\ Calls("start", "gaveup", cloud)

\* The last look missed, or a look raised another exception: the instance is
\* terminated, or may still be running.
StartFails ==
  /\ CallsFail \/ (tries + 1 = Limit["start"] /\ cloud.instance # "running")
  /\ Goes("start", "gaveup")
  /\ \/ cloud' = Terminated /\ UNCHANGED slips
     \/ CallsFail /\ UNCHANGED cloud /\ slips' = slips \cup {"start"}
  /\ UNCHANGED <<failedAt, recorded>>

-----------------------------------------------------------------------------
(* The body of the try.                                                    *)

RaisesHolding(from, held) ==
  /\ Goes(from, IF Rents THEN "terminate" ELSE "raised")
  /\ failedAt' = from
  /\ cloud' = held
  /\ UNCHANGED <<recorded, slips>>
Raises(from) == RaisesHolding(from, cloud)

BodyRaises == CallsFail /\ \E from \in Body : Raises(from)

AfterSsh == IF kind = "ebs" THEN "volume" ELSE "customize"

\* Access at the very last try counts as none.
SshAccess == tries + 1 < Limit["ssh"] /\ Calls("ssh", AfterSsh, cloud)
SshMissed == Missed("ssh")
SshTimeout == tries + 1 = Limit["ssh"] /\ Raises("ssh")

CreateVolume == Calls("volume", "upload", [cloud EXCEPT !.volume = "creating"])
Upload == Calls("upload", "available", cloud)
AttachVolume == Calls("attach", "attached", [cloud EXCEPT !.volume = "attaching"])

\* The exit status of a pipe is that of dd: gzip may fail unnoticed.
Decompress ==
  \E data \in IF CallsFail THEN {"part", "all"} ELSE {"all"} :
    Calls("decompress", "snapshot", [cloud EXCEPT !.written = data])

CreateSnapshot == Calls("snapshot", "completed", [cloud EXCEPT !.snapshot = "pending"])

\* The calls that make an image, and what EC2 holds once it has done so.
Asking == {"register", "createimage", "registerbundle"}
Registered(from) ==
  [cloud EXCEPT !.ami = IF from = "createimage" THEN "pending" ELSE "available"]

\* EC2 makes the image, but its answer is lost on the way.
AnswerLost == CallsFail /\ \E from \in Asking : RaisesHolding(from, Registered(from))

RegisterSnapshot == Calls("register", "terminate", Registered("register"))

\* A faulty variant of Ready: a snapshot is not waited for.
ReadyEarly(wait) ==
  CASE wait = "available" -> cloud.volume = "available"
    [] wait = "attached" -> cloud.volume = "attached"
    [] wait = "completed" -> cloud.snapshot # "none"

\* What a wait of an EBS push looks for, and where it goes on.
Ready(wait) ==
  CASE wait = "available" -> cloud.volume = "available"
    [] wait = "attached" -> cloud.volume = "attached"
    [] wait = "completed" -> cloud.snapshot = "completed"
AfterWait == [available |-> "attach", attached |-> "decompress",
              completed |-> "register"]

Found(wait) == at = wait /\ Ready(wait) /\ Calls(wait, AfterWait[wait], cloud)
NotFound(wait) == at = wait /\ ~Ready(wait) /\ Missed(wait)
WaitTimeout(wait) ==
  at = wait /\ ~Ready(wait) /\ tries + 1 = Limit[wait] /\ Raises(wait)

Customize ==
  Calls("customize", IF kind = "snapshot_ebs" THEN "createimage" ELSE "bundle", cloud)

CreateImage == Calls("createimage", "image", Registered("createimage"))

Record(from) ==
  /\ Goes(from, IF Rents THEN "terminate" ELSE "returned")
  /\ recorded' = TRUE
  /\ UNCHANGED <<cloud, failedAt, slips>>

\* The loop that waits for an image ends with the last look, whatever it saw.
ImageSeen ==
  /\ cloud.ami = "available" \/ (cloud.ami = "pending" /\ tries + 1 = Limit["image"])
  /\ Record("image")
ImageMissed == cloud.ami = "pending" /\ Missed("image")
ImageFailed == cloud.ami = "failed" /\ Raises("image")

\* A bundle is made in place or locally, uploaded and registered; the id of the
\* image is looked for in what the command that registers says.  If it is not
\* there m is None, and m.group raises (BodyRaises).
Bundle == Calls("bundle", "uploadbundle", cloud)
UploadBundle == Calls("uploadbundle", "registerbundle", [cloud EXCEPT !.bundle = "whole"])
RegisterBundle == Calls("registerbundle", "amiid", Registered("registerbundle"))
RecordAmiId == Record("amiid")

-----------------------------------------------------------------------------
(* The finally clause.                                                     *)

\* A faulty variant of Leave: the image that was registered is not recorded.
LeaveUnrecorded(held) ==
  /\ at' = IF failedAt = "nowhere" THEN "returned" ELSE "raised"
  /\ cloud' = held
  /\ tries' = 0
  /\ UNCHANGED <<kind, failedAt, recorded>>

\* What the method does when it has tidied up, or has given that up.
Leave(held) ==
  /\ at' = IF failedAt = "nowhere" THEN "returned" ELSE "raised"
  /\ recorded' = (recorded \/ (kind = "ebs" /\ failedAt = "nowhere"))
  /\ cloud' = held
  /\ tries' = 0
  /\ UNCHANGED <<kind, failedAt>>

\* An exception of the finally clause itself replaces the one it runs for.
Slips(from) ==
  /\ Goes(from, "raised")
  /\ slips' = slips \cup {from}
  /\ UNCHANGED <<failedAt, recorded, cloud>>

Terminate == Calls("terminate", "delkey", Terminated)
DeleteKey == Calls("delkey", "stopped", [cloud EXCEPT !.key = FALSE])
InstanceStopped ==
  cloud.instance = "terminated" /\ Calls("stopped", "delgroup", cloud)
StopMissed == cloud.instance # "terminated" /\ Missed("stopped")

\* Out of patience, a push warns that it leaves the volume and the group: if
\* there is no volume yet, to make the warning raises.  The loop of a snapshot
\* just ends.
StopTimeout ==
  /\ at = "stopped" /\ cloud.instance # "terminated" /\ tries + 1 = Limit["stopped"]
  /\ IF kind = "ebs" /\ cloud.volume = "none"
       THEN Slips("stopped")
       ELSE Leave(cloud) /\ slips' = slips \cup {"stopped"}

\* A faulty variant of VolumeLeft: a volume that is not attached any more is
\* taken for deleted.
VolumeAttached == cloud.volume = "attached"
VolumeLeft == cloud.volume # "none"

DeleteGroup ==
  /\ at = "delgroup"
  /\ IF kind = "ebs" /\ VolumeLeft
       THEN Calls("delgroup", "delvolume", [cloud EXCEPT !.group = FALSE])
       ELSE Leave([cloud EXCEPT !.group = FALSE]) /\ UNCHANGED slips

\* EC2 refuses to delete a volume that it takes for attached.
DeleteVolume ==
  /\ at = "delvolume"
  /\ cloud.volume \notin {"attaching", "attached"}
  /\ Leave([cloud EXCEPT !.volume = "none"])
  /\ UNCHANGED slips

DeleteRefused == CallsFail \/ cloud.volume \in {"attaching", "attached"}
RetryDelete == DeleteRefused /\ Missed("delvolume")
DeleteFails == DeleteRefused /\ tries + 1 = Limit["delvolume"] /\ Slips("delvolume")

\* After a snapshot exceptions of the last steps are logged.
TidyingRaises ==
  /\ CallsFail
  /\ \/ \E from \in {"terminate", "delkey"} : Slips(from)
     \/ \E from \in {"stopped", "delgroup"} :
          IF kind = "ebs"
            THEN Slips(from)
            ELSE at = from /\ Leave(cloud) /\ slips' = slips \cup {from}

-----------------------------------------------------------------------------
(* delete_from_provider: of an image that was recorded, again if it fails. *)

AskDelete ==
  /\ recorded
  /\ \E end \in {"raised", "returned", "notdeleted"} : Goes(end, "lookup")
  /\ UNCHANGED cloud /\ Straight

\* The root device tells how the AMI came to be.
Lookup ==
  /\ cloud.ami # "none"
  /\ Calls("lookup", IF kind \in {"ebs", "snapshot_ebs"} THEN "deregister"
                                                         ELSE "delparts", cloud)
LookupFails == cloud.ami = "none" /\ Calls("lookup", "notdeleted", cloud)

Deregister == Calls("deregister", "delsnapshot", [cloud EXCEPT !.ami = "none"])
DeleteSnapshot == Calls("delsnapshot", "deleted", [cloud EXCEPT !.snapshot = "none"])

\* One part after the other is looked up and deleted; one that is not there
\* any more is None, which cannot be deleted.
DeletePart ==
  cloud.bundle = "whole" /\ Calls("delparts", "delrest", [cloud EXCEPT !.bundle = "some"])
PartMissing == cloud.bundle # "whole" /\ Calls("delparts", "notdeleted", cloud)
DeleteRest == Calls("delrest", "delmanifest", [cloud EXCEPT !.bundle = "manifest"])
DeleteManifest ==
  Calls("delmanifest", "deregisterbundle", [cloud EXCEPT !.bundle = "none"])
DeregisterBundle == Calls("deregisterbundle", "deleted", [cloud EXCEPT !.ami = "none"])

DeletionRaises ==
  /\ CallsFail
  /\ \E from \in Deleting : Goes(from, "notdeleted")
  /\ UNCHANGED cloud /\ Straight

-----------------------------------------------------------------------------
\* What EC2 does by itself, or not.
Becomes(held) == cloud' = held /\ UNCHANGED <<kind, at, tries, failedAt, recorded, slips>>

InstanceChanges ==
  \/ cloud.instance = "pending" /\ Becomes([cloud EXCEPT !.instance = "running"])
  \/ cloud.instance \in {"pending", "running", "stopping"}
       /\ Becomes([cloud EXCEPT !.instance = "terminated"])

VolumeChanges ==
  \/ cloud.volume = "creating" /\ Becomes([cloud EXCEPT !.volume = "available"])
  \/ cloud.volume = "attaching" /\ Becomes([cloud EXCEPT !.volume = "attached"])
  \/ cloud.volume \in {"attaching", "attached"} /\ cloud.instance = "terminated"
       /\ Becomes([cloud EXCEPT !.volume = "available"])

SnapshotChanges ==
  cloud.snapshot = "pending" /\ Becomes([cloud EXCEPT !.snapshot = "completed"])

ImageChanges ==
  /\ cloud.ami = "pending"
  /\ \/ Becomes([cloud EXCEPT !.ami = "available", !.snapshot = "completed"])
     \/ Becomes([cloud EXCEPT !.ami = "failed"])

Prepare ==
  \/ CreateGroup \/ Authorize \/ CreateKey \/ WriteKeyFile \/ RunInstances
  \/ InstanceRuns \/ StartMissed \/ StartFails \/ RaisesBefore

Work ==
  \/ SshAccess \/ SshMissed \/ SshTimeout
  \/ CreateVolume \/ Upload \/ AttachVolume \/ Decompress
  \/ CreateSnapshot \/ RegisterSnapshot
  \/ \E wait \in DOMAIN AfterWait : Found(wait) \/ NotFound(wait) \/ WaitTimeout(wait)
  \/ Customize \/ CreateImage \/ ImageSeen \/ ImageMissed \/ ImageFailed
  \/ Bundle \/ UploadBundle \/ RegisterBundle \/ RecordAmiId \/ AnswerLost
  \/ BodyRaises

TidyUp ==
  \/ Terminate \/ DeleteKey
  \/ InstanceStopped \/ StopMissed \/ StopTimeout
  \/ DeleteGroup \/ DeleteVolume \/ RetryDelete \/ DeleteFails
  \/ TidyingRaises

Delete ==
  \/ Lookup \/ LookupFails \/ Deregister \/ DeleteSnapshot
  \/ DeletePart \/ PartMissing \/ DeleteRest \/ DeleteManifest \/ DeregisterBundle
  \/ DeletionRaises

Plugin == Prepare \/ Work \/ TidyUp \/ Delete
EC2Changes == InstanceChanges \/ VolumeChanges \/ SnapshotChanges \/ ImageChanges
Finished == at \in Ends /\ UNCHANGED vars

Next == Plugin \/ AskDelete \/ EC2Changes \/ Finished

\* The plugin goes on; EC2 need not change anything.
Spec == Init /\ [][Next]_vars /\ WF_vars(Plugin)

-----------------------------------------------------------------------------
(* Correctness.                                                            *)

\* "Accidentally running a 64 bit instance doing nothing costs 56 USD week": an
\* instance that was launched is told to terminate in the end, whichever step
\* fails and however long EC2 takes, unless telling it raises.
InstanceEnds ==
  cloud.instance = "pending"
    ~> (cloud.instance \in {"stopping", "terminated"} \/ slips \cap {"start", "terminate"} # {})

\* An EBS image that can be launched has the completed snapshot it is made of,
\* and that of a volume that was written, from its registration to the end of
\* its deletion, also if that fails half way.
ImageHasData ==
  (kind \in {"ebs", "snapshot_ebs"} /\ cloud.ami = "available")
    => cloud.snapshot = "completed" /\ (kind = "ebs" => cloud.written # "nothing")

\* Once the try was entered nothing temporary is left, unless a step of the
\* finally clause failed or ran out of patience.
TidyUnlessSlips ==
  (at \in {"returned", "raised"} /\ slips = {})
    => /\ ~cloud.group /\ ~cloud.key /\ cloud.volume = "none"
       /\ cloud.instance \in {"none", "terminated"}

\* An image that EC2 has and nobody recorded, so that nobody will delete it,
\* comes only from a step of tidying up that failed - an EBS push records after
\* the finally clause - or from the registration itself: the call raised though
\* EC2 did what it asks, its answer held no id, or a snapshot to EBS failed while
\* it waited for the image.
Registration == Asking \cup {"amiid", "image"}

RecordedUnlessSlips ==
  (at \in {"returned", "raised"} /\ cloud.ami # "none" /\ slips = {})
    => recorded \/ failedAt \in Registration
=============================================================================
