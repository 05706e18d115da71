----------------------------- MODULE EC2_proofs -----------------------------
(***************************************************************************)
(* Proofs about EC2: whatever is asked for and however often each wait     *)
(* looks.                                                                  *)
(***************************************************************************)
EXTENDS EC2, TLAPS

\* The inductive invariant.  Which places each kind of request reaches, and
\* what EC2 can hold there.
Course ==
  /\ at \in {"volume", "upload", "available", "attach", "attached", "decompress",
             "snapshot", "completed", "register", "delvolume"} => kind = "ebs"
  /\ at \in {"createimage", "image"} => kind = "snapshot_ebs"
  /\ at \in {"bundle", "uploadbundle", "registerbundle", "amiid"} => kind \in {"s3", "snapshot_s3"}
  /\ at = "customize" => kind \in {"snapshot_ebs", "snapshot_s3"}
  /\ at \in Before \cup Tidying \cup {"ssh"} => Rents
  /\ at \in {"deregister", "delsnapshot"} => kind \in {"ebs", "snapshot_ebs"}

\* A push to EBS writes its volume and has it copied before it registers.
Written ==
  /\ (kind = "ebs" /\ at \in {"snapshot", "completed", "register"})
       => cloud.written # "nothing"
  /\ at = "register" => cloud.snapshot = "completed"
  /\ at = "delsnapshot" => cloud.ami = "none"

\* There is no image before the step that makes it, and what is registered need
\* not be waited for.
NotYet ==
  /\ kind # "snapshot_ebs" => cloud.ami \in {"none", "available"}
  /\ at \in Before \cup (Body \ {"image", "amiid"}) => cloud.ami = "none"
  /\ at \in Before \cup Body => failedAt = "nowhere" /\ slips = {}

\* What is temporary is made for who rents, and what the finally clause has
\* passed is gone.
Temporary ==
  /\ ~Rents => ~cloud.group /\ ~cloud.key /\ cloud.instance = "none"
  /\ kind # "ebs" => cloud.volume = "none"
  /\ at \in {"stopped", "delgroup", "delvolume"} => ~cloud.key
  /\ at \in {"delgroup", "delvolume"} => cloud.instance = "terminated"
  /\ at = "delvolume" => ~cloud.group

\* An image that was not recorded is one that the plugin still goes to record
\* after the finally clause, or that its registration lost.
ToRecord ==
  (at \in Tidying /\ cloud.ami # "none")
    => \/ recorded \/ (kind = "ebs" /\ failedAt = "nowhere")
       \/ failedAt \in Registration

IInv ==
  /\ TypeOK
  /\ Course
  /\ Written
  /\ NotYet
  /\ Temporary
  /\ ToRecord
  /\ ImageHasData
  /\ TidyUnlessSlips
  /\ RecordedUnlessSlips

-----------------------------------------------------------------------------
LEMMA LimitPositive ==
  ASSUME NEW wait \in Waits
  PROVE  Limit[wait] \in Nat /\ 0 < Limit[wait]
BY LimitAssumption

LEMMA InitIInv == Init => IInv
<1> SUFFICES ASSUME Init PROVE IInv
  OBVIOUS
<1> USE DEF Before, Body, Tidying, Deleting, Ends, Waits, Rents
<1>1. TypeOK
  BY LimitPositive DEF Init, TypeOK, Holdings
<1> QED
  BY <1>1 DEF Init, IInv, Course, Written, NotYet, Temporary, ToRecord, ImageHasData,
     TidyUnlessSlips, RecordedUnlessSlips

\* Up to the running instance.
LEMMA PrepareStep ==
  ASSUME IInv, Prepare
  PROVE  IInv'
<1> USE LimitPositive
        DEF IInv, TypeOK, Holdings, Course, Written, NotYet, Temporary, ToRecord,
            ImageHasData, TidyUnlessSlips, RecordedUnlessSlips, Before, Body, Tidying,
            Deleting, Ends, Waits, Rents, Goes, Straight, Calls, Missed, Terminated
<1>1. CASE CreateGroup
  BY <1>1 DEF CreateGroup
<1>2. CASE Authorize
  BY <1>2 DEF Authorize
<1>3. CASE CreateKey
  BY <1>3 DEF CreateKey
<1>4. CASE WriteKeyFile
  BY <1>4 DEF WriteKeyFile
<1>5. CASE RunInstances
  BY <1>5 DEF RunInstances
<1>6. CASE InstanceRuns
  BY <1>6 DEF InstanceRuns
<1>7. CASE StartMissed
  BY <1>7 DEF StartMissed
<1>8. CASE StartFails
  BY <1>8 DEF StartFails
<1>9. CASE RaisesBefore
  BY <1>9 DEF RaisesBefore
<1> QED
  BY <1>1, <1>2, <1>3, <1>4, <1>5, <1>6, <1>7, <1>8, <1>9 DEF Prepare

\* The body of the try.
LEMMA WorkStep ==
  ASSUME IInv, Work
  PROVE  IInv'
<1> USE LimitPositive
        DEF IInv, TypeOK, Holdings, Course, Written, NotYet, Temporary, ToRecord,
            ImageHasData, TidyUnlessSlips, RecordedUnlessSlips, Registration, Registered,
            Asking, Before, Body, Tidying, Deleting, Ends, Waits, Rents, Goes, Straight, Calls, Missed, AfterSsh, Ready, AfterWait, Record, Raises, RaisesHolding
<1>1. CASE SshAccess
  <2>1. CASE kind = "ebs"
    BY <1>1, <2>1 DEF SshAccess
  <2>2. CASE kind # "ebs"
    <3>1. /\ at = "ssh" /\ at' = "customize" /\ tries' = 0
          /\ UNCHANGED <<kind, failedAt, recorded, cloud, slips>>
      BY <1>1, <2>2 DEF SshAccess
    <3>2. kind \in {"snapshot_ebs", "snapshot_s3"}
      BY <2>2, <3>1, KindsAssumption DEF AllKinds
    <3> QED  BY <3>1, <3>2
  <2> QED  BY <2>1, <2>2
<1>2. CASE SshMissed
  BY <1>2 DEF SshMissed
<1>3. CASE SshTimeout
  BY <1>3 DEF SshTimeout
<1>4. CASE CreateVolume
  BY <1>4 DEF CreateVolume
<1>5. CASE Upload
  BY <1>5 DEF Upload
<1>6. CASE AttachVolume
  BY <1>6 DEF AttachVolume
<1>7. CASE Decompress
  BY <1>7 DEF Decompress
<1>8. CASE CreateSnapshot
  BY <1>8 DEF CreateSnapshot
<1>9. CASE RegisterSnapshot
  BY <1>9 DEF RegisterSnapshot
<1>10. CASE \E wait \in DOMAIN AfterWait : Found(wait)
  <2>1. CASE Found("available")
    BY <2>1 DEF Found
  <2>2. CASE Found("attached")
    BY <2>2 DEF Found
  <2>3. CASE Found("completed")
    BY <2>3 DEF Found
  <2>4. DOMAIN AfterWait = {"available", "attached", "completed"}
    BY DEF AfterWait
  <2> QED  BY <1>10, <2>1, <2>2, <2>3, <2>4
<1>11. CASE \E wait \in DOMAIN AfterWait : NotFound(wait)
  BY <1>11 DEF NotFound
<1>12. CASE \E wait \in DOMAIN AfterWait : WaitTimeout(wait)
  BY <1>12 DEF WaitTimeout
<1>13. CASE Customize
  BY <1>13 DEF Customize
<1>14. CASE CreateImage
  BY <1>14 DEF CreateImage
<1>15. CASE ImageSeen
  BY <1>15 DEF ImageSeen
<1>16. CASE ImageMissed
  BY <1>16 DEF ImageMissed
<1>17. CASE ImageFailed
  BY <1>17 DEF ImageFailed
<1>18. CASE Bundle
  BY <1>18 DEF Bundle
<1>19. CASE UploadBundle
  BY <1>19 DEF UploadBundle
<1>20. CASE RegisterBundle
  BY <1>20 DEF RegisterBundle
<1>21. CASE BodyRaises
  BY <1>21 DEF BodyRaises
<1>22. CASE RecordAmiId
  BY <1>22 DEF RecordAmiId
<1>23. CASE AnswerLost
  BY <1>23 DEF AnswerLost
<1> QED
  BY <1>1, <1>2, <1>3, <1>4, <1>5, <1>6, <1>7, <1>8, <1>9, <1>10, <1>11, <1>12, <1>13, <1>14, <1>15, <1>16, <1>17, <1>18, <1>19, <1>20, <1>21, <1>22, <1>23 DEF Work

\* The finally clause.
LEMMA TidyStep ==
  ASSUME IInv, TidyUp
  PROVE  IInv'
<1> USE LimitPositive
        DEF IInv, TypeOK, Holdings, Course, Written, NotYet, Temporary, ToRecord,
            ImageHasData, TidyUnlessSlips, RecordedUnlessSlips, Before, Body, Tidying,
            Deleting, Ends, Waits, Rents, Goes, Straight, Calls, Missed, Terminated, Slips, Leave, VolumeLeft, DeleteRefused
<1>1. CASE Terminate
  BY <1>1 DEF Terminate
<1>2. CASE DeleteKey
  <2>1. TypeOK'
    BY <1>2 DEF DeleteKey
  <2>2. (Course /\ Written /\ NotYet)'
    BY <1>2 DEF DeleteKey
  <2>3. (Temporary /\ ToRecord)'
    BY <1>2 DEF DeleteKey
  <2>4. (ImageHasData /\ TidyUnlessSlips /\ RecordedUnlessSlips)'
    BY <1>2 DEF DeleteKey
  <2> QED  BY <2>1, <2>2, <2>3, <2>4
<1>3. CASE InstanceStopped
  BY <1>3 DEF InstanceStopped
<1>4. CASE StopMissed
  BY <1>4 DEF StopMissed
<1>5. CASE StopTimeout
  <2>1. CASE Slips("stopped")
    BY <2>1
  <2>2. CASE at = "stopped" /\ Leave(cloud) /\ slips' = slips \cup {"stopped"}
    BY <2>2
  <2>3. \/ Slips("stopped")
        \/ at = "stopped" /\ Leave(cloud) /\ slips' = slips \cup {"stopped"}
    BY <1>5 DEF StopTimeout
  <2> QED  BY <2>1, <2>2, <2>3
<1>6. CASE DeleteGroup
  <2>1. at = "delgroup" /\ cloud.instance = "terminated" /\ ~cloud.key
    BY <1>6 DEF DeleteGroup
  <2>2. CASE Calls("delgroup", "delvolume", [cloud EXCEPT !.group = FALSE]) /\ kind = "ebs"
    <3>1. TypeOK'
      BY <2>1, <2>2
    <3>2. (Course /\ Written /\ NotYet)'
      BY <2>1, <2>2
    <3>3. (Temporary /\ ToRecord)'
      BY <2>1, <2>2
    <3>4. (ImageHasData /\ TidyUnlessSlips /\ RecordedUnlessSlips)'
      BY <2>1, <2>2
    <3> QED  BY <3>1, <3>2, <3>3, <3>4
  <2>3. CASE /\ Leave([cloud EXCEPT !.group = FALSE]) /\ UNCHANGED slips
             /\ cloud.volume = "none"
    <3>1. TypeOK'
      <4>1. cloud' \in Holdings
        BY <2>1, <2>3
      <4>2. /\ kind' = kind /\ failedAt' = failedAt /\ slips' = slips /\ tries' = 0
            /\ at' \in {"raised", "returned"} /\ recorded' \in BOOLEAN
        BY <2>1, <2>3
      <4> QED  BY <4>1, <4>2
    <3>2. (Course /\ Written /\ NotYet)'
      BY <2>1, <2>3
    <3>3. (Temporary /\ ToRecord)'
      BY <2>1, <2>3
    <3>4. ImageHasData'
      BY <2>1, <2>3
    <3>5. TidyUnlessSlips'
      <4>1. /\ ~cloud'.group /\ ~cloud'.key /\ cloud'.volume = "none"
            /\ cloud'.instance = "terminated"
        BY <2>1, <2>3
      <4> QED  BY <4>1
    <3>6. RecordedUnlessSlips'
      <4>1. cloud'.ami = cloud.ami /\ UNCHANGED <<kind, failedAt>>
            /\ recorded' = (recorded \/ (kind = "ebs" /\ failedAt = "nowhere"))
        BY <2>1, <2>3
      <4>2. ToRecord /\ at \in Tidying
        BY <2>1
      <4> QED  BY <4>1, <4>2
    <3> QED  BY <3>1, <3>2, <3>3, <3>4, <3>5, <3>6
  <2>4. CASE kind = "ebs" /\ VolumeLeft
    BY <1>6, <2>2, <2>4 DEF DeleteGroup
  <2>5. CASE ~(kind = "ebs" /\ VolumeLeft)
    BY <1>6, <2>3, <2>5 DEF DeleteGroup
  <2> QED  BY <2>4, <2>5
<1>7. CASE DeleteVolume
  <2>1. TypeOK'
    BY <1>7 DEF DeleteVolume
  <2>2. (Course /\ Written /\ NotYet)'
    BY <1>7 DEF DeleteVolume
  <2>3. (Temporary /\ ToRecord)'
    BY <1>7 DEF DeleteVolume
  <2>4. (ImageHasData /\ TidyUnlessSlips)'
    BY <1>7 DEF DeleteVolume
  <2>5. RecordedUnlessSlips'
    BY <1>7 DEF DeleteVolume
  <2> QED  BY <2>1, <2>2, <2>3, <2>4, <2>5
<1>8. CASE RetryDelete
  BY <1>8 DEF RetryDelete
<1>9. CASE DeleteFails
  BY <1>9 DEF DeleteFails
<1>10. CASE TidyingRaises
  <2>1. CASE \E from \in {"terminate", "delkey", "stopped", "delgroup"} : Slips(from)
    BY <2>1
  <2>2. CASE \E from \in {"stopped", "delgroup"} :
               kind # "ebs" /\ at = from /\ Leave(cloud) /\ slips' = slips \cup {from}
    BY <2>2
  <2> QED  BY <1>10, <2>1, <2>2 DEF TidyingRaises
<1> QED
  BY <1>1, <1>2, <1>3, <1>4, <1>5, <1>6, <1>7, <1>8, <1>9, <1>10 DEF TidyUp

\* A deletion.
LEMMA DeleteStep ==
  ASSUME IInv, Delete
  PROVE  IInv'
<1> USE LimitPositive
        DEF IInv, TypeOK, Holdings, Course, Written, NotYet, Temporary, ToRecord,
            ImageHasData, TidyUnlessSlips, RecordedUnlessSlips, Before, Body, Tidying,
            Deleting, Ends, Waits, Rents, Goes, Straight, Calls, Missed
<1>1. CASE Lookup
  BY <1>1 DEF Lookup
<1>2. CASE LookupFails
  BY <1>2 DEF LookupFails
<1>3. CASE Deregister
  BY <1>3 DEF Deregister
<1>4. CASE DeleteSnapshot
  BY <1>4 DEF DeleteSnapshot
<1>5. CASE DeletePart
  BY <1>5 DEF DeletePart
<1>6. CASE PartMissing
  BY <1>6 DEF PartMissing
<1>7. CASE DeleteRest
  BY <1>7 DEF DeleteRest
<1>8. CASE DeleteManifest
  BY <1>8 DEF DeleteManifest
<1>9. CASE DeregisterBundle
  BY <1>9 DEF DeregisterBundle
<1>10. CASE DeletionRaises
  BY <1>10 DEF DeletionRaises
<1> QED
  BY <1>1, <1>2, <1>3, <1>4, <1>5, <1>6, <1>7, <1>8, <1>9, <1>10 DEF Delete

\* What EC2 does, and asking for a deletion.
LEMMA OtherStep ==
  ASSUME IInv, AskDelete \/ EC2Changes \/ UNCHANGED vars
  PROVE  IInv'
<1> USE LimitPositive
        DEF IInv, TypeOK, Holdings, Course, Written, NotYet, Temporary, ToRecord,
            ImageHasData, TidyUnlessSlips, RecordedUnlessSlips, Before, Body, Tidying,
            Deleting, Ends, Waits, Rents, Goes, Straight, Becomes
<1>1. CASE AskDelete
  BY <1>1 DEF AskDelete
<1>2. CASE InstanceChanges
  BY <1>2 DEF InstanceChanges
<1>3. CASE VolumeChanges
  BY <1>3 DEF VolumeChanges
<1>4. CASE SnapshotChanges
  BY <1>4 DEF SnapshotChanges
<1>5. CASE ImageChanges
  <2>1. CASE Becomes([cloud EXCEPT !.ami = "available", !.snapshot = "completed"])
    <3>1. at # "delsnapshot" /\ kind = "snapshot_ebs"
      BY <1>5 DEF ImageChanges
    <3>2. /\ cloud' \in Holdings
          /\ cloud'.ami = "available" /\ cloud'.snapshot = "completed"
          /\ cloud'.group = cloud.group /\ cloud'.key = cloud.key
          /\ cloud'.instance = cloud.instance /\ cloud'.volume = cloud.volume
          /\ cloud'.written = cloud.written
          /\ UNCHANGED <<kind, at, tries, failedAt, recorded, slips>>
      BY <2>1
    <3>3. cloud.ami = "pending"
      BY <1>5 DEF ImageChanges
    <3> QED  BY <3>1, <3>2, <3>3
  <2>2. CASE Becomes([cloud EXCEPT !.ami = "failed"])
    BY <1>5, <2>2 DEF ImageChanges
  <2> QED  BY <1>5, <2>1, <2>2 DEF ImageChanges
<1>6. CASE UNCHANGED vars
  BY <1>6 DEF vars
<1> QED  BY <1>1, <1>2, <1>3, <1>4, <1>5, <1>6 DEF EC2Changes

LEMMA Invariant == Spec => []IInv
<1>1. IInv /\ [Next]_vars => IInv'
  BY PrepareStep, WorkStep, TidyStep, DeleteStep, OtherStep DEF Next, Plugin, Finished
<1> QED  BY <1>1, InitIInv, PTL DEF Spec

-----------------------------------------------------------------------------
\* Every variable keeps its type, and no wait looks more often than its limit.
THEOREM TypeCorrect == Spec => []TypeOK
<1>1. IInv => TypeOK
  BY DEF IInv
<1> QED  BY <1>1, Invariant, PTL

\* An EBS image that can be launched has all of its data, from registration to
\* deletion.
THEOREM DataThere == Spec => []ImageHasData
<1>1. IInv => ImageHasData
  BY DEF IInv
<1> QED  BY <1>1, Invariant, PTL

\* The finally clause leaves nothing temporary unless one of its steps failed.
THEOREM Tidy == Spec => []TidyUnlessSlips
<1>1. IInv => TidyUnlessSlips
  BY DEF IInv
<1> QED  BY <1>1, Invariant, PTL

\* An image that EC2 has is recorded unless a step of the finally clause failed,
\* or the call that registers it or the reading of its answer (EC2.py 812-817,
\* 833, 1170 and 1348-1351).
THEOREM Recorded == Spec => []RecordedUnlessSlips
<1>1. IInv => RecordedUnlessSlips
  BY DEF IInv
<1> QED  BY <1>1, Invariant, PTL

-----------------------------------------------------------------------------
\* An instance that runs is one that the plugin is still to terminate, unless
\* telling it failed.
Owed ==
  cloud.instance \in {"pending", "running"} =>
    at \in {"start", "terminate"} \cup Body \/ slips \cap {"start", "terminate"} # {}

LEMMA NextOwed == IInv /\ Owed /\ [Next]_vars => Owed'
<1> SUFFICES ASSUME IInv, Owed, [Next]_vars PROVE Owed'
  OBVIOUS
<1>0. TypeOK /\ Course /\ Temporary
  BY DEF IInv
<1>1. CASE Prepare
  BY <1>0, <1>1 DEF Prepare, CreateGroup, Authorize, CreateKey, WriteKeyFile, RunInstances,
     InstanceRuns, StartMissed, StartFails, RaisesBefore, Goes, Straight, Calls, Missed, Terminated,
     Owed, TypeOK, Holdings, Before, Body
<1>2. CASE Work
  <2>1. at \in Body /\ UNCHANGED <<kind, slips>> /\ cloud'.instance = cloud.instance
    BY <1>0, <1>2 DEF Work, SshAccess, SshMissed, SshTimeout, CreateVolume, Upload, AttachVolume,
       Decompress, CreateSnapshot, RegisterSnapshot, Found, NotFound, WaitTimeout, AfterWait,
       Customize, CreateImage, ImageSeen, ImageMissed, ImageFailed, Bundle, UploadBundle,
       RegisterBundle, BodyRaises, Record, Raises, RaisesHolding,
       AnswerLost, RecordAmiId, Registered, Asking, Goes, Straight, Calls, Missed, TypeOK, Holdings,
       Body
  <2>2. Rents => at' \in Body \cup {"terminate"}
    BY <1>0, <1>2 DEF Work, SshAccess, SshMissed, SshTimeout, CreateVolume, Upload, AttachVolume,
       Decompress, CreateSnapshot, RegisterSnapshot, Found, NotFound, WaitTimeout, AfterWait, AfterSsh,
       Customize, CreateImage, ImageSeen, ImageMissed, ImageFailed, Bundle, UploadBundle,
       RegisterBundle, BodyRaises, Record, Raises, RaisesHolding,
       AnswerLost, RecordAmiId, Registered, Asking, Goes, Straight, Calls, Missed, Body
  <2> QED  BY <1>0, <2>1, <2>2 DEF Owed, Temporary
<1>3. CASE TidyUp
  <2>1. CASE Terminate
    BY <1>0, <2>1 DEF Terminate, Calls, Goes, Terminated, Owed, TypeOK, Holdings
  <2>2. CASE TidyingRaises
    BY <1>0, <2>2 DEF TidyingRaises, Slips, Goes, Leave, Owed, Body
  <2>3. CASE ~Terminate /\ ~TidyingRaises
    <3>1. at \in {"delkey", "stopped", "delgroup", "delvolume"}
      BY <1>3, <2>3 DEF TidyUp, DeleteKey, InstanceStopped, StopMissed, StopTimeout, DeleteGroup,
         DeleteVolume, RetryDelete, DeleteFails, Calls, Goes, Missed, Slips
    <3>2. slips \subseteq slips' /\ cloud'.instance = cloud.instance
      BY <1>0, <1>3, <2>3 DEF TidyUp, DeleteKey, InstanceStopped, StopMissed, StopTimeout, DeleteGroup,
         DeleteVolume, RetryDelete, DeleteFails, Calls, Goes, Missed, Slips, Straight, Leave,
         TypeOK, Holdings
    <3> QED  BY <3>1, <3>2 DEF Owed, Body
  <2> QED  BY <2>1, <2>2, <2>3
<1>4. CASE Delete \/ AskDelete
  <2>1. /\ at \in Deleting \cup {"raised", "returned", "notdeleted"}
        /\ UNCHANGED slips /\ cloud'.instance = cloud.instance
    BY <1>0, <1>4 DEF Delete, Lookup, LookupFails, Deregister, DeleteSnapshot, DeletePart,
       PartMissing, DeleteRest, DeleteManifest, DeregisterBundle, DeletionRaises, AskDelete,
       Calls, Goes, Straight, TypeOK, Holdings, Deleting
  <2> QED  BY <2>1 DEF Owed, Body, Deleting
<1>5. CASE EC2Changes
  <2>1. UNCHANGED <<at, slips>> /\ (cloud'.instance \in {"pending", "running"}
                                     => cloud.instance \in {"pending", "running"})
    BY <1>0, <1>5 DEF EC2Changes, InstanceChanges, VolumeChanges, SnapshotChanges, ImageChanges,
       Becomes, TypeOK, Holdings
  <2> QED  BY <2>1 DEF Owed
<1>6. CASE UNCHANGED vars \/ Finished
  BY <1>6 DEF Finished, vars, Owed
<1> QED  BY <1>1, <1>2, <1>3, <1>4, <1>5, <1>6 DEF Next, Plugin

\* An instance that was launched and is still pending or running is never lost:
\* the plugin is at a place from which it has yet to pass terminate_instance, or
\* that call has raised (EC2.py _terminate_instance and the finally clauses).
THEOREM InstanceOwed ==
  Spec => [](cloud.instance \in {"pending", "running"} =>
               \/ at \in {"start", "terminate"} \cup Body
               \/ slips \cap {"start", "terminate"} # {})
<1>1. Init => Owed
  BY DEF Init, Owed
<1>2. Owed => (cloud.instance \in {"pending", "running"} =>
                 \/ at \in {"start", "terminate"} \cup Body
                 \/ slips \cap {"start", "terminate"} # {})
  BY DEF Owed
<1> QED  BY <1>1, <1>2, NextOwed, Invariant, PTL DEF Spec

\* The places in an order in which they can be passed.
Place ==
  [group |-> 0, authorize |-> 1, key |-> 2, keyfile |-> 3, launch |-> 4, start |-> 5, ssh |-> 6,
   volume |-> 7, upload |-> 8, available |-> 9, attach |-> 10, attached |-> 11,
   decompress |-> 12, snapshot |-> 13, completed |-> 14, register |-> 15,
   customize |-> 7, createimage |-> 8, image |-> 9,
   bundle |-> 8, uploadbundle |-> 9, registerbundle |-> 10, amiid |-> 11,
   terminate |-> 16, delkey |-> 17, stopped |-> 18, delgroup |-> 19, delvolume |-> 20,
   gaveup |-> 21, raised |-> 21, returned |-> 21,
   lookup |-> 22, deregister |-> 23, delsnapshot |-> 24,
   delparts |-> 23, delrest |-> 24, delmanifest |-> 25, deregisterbundle |-> 26,
   deleted |-> 27, notdeleted |-> 27]

\* Onward, or one more look of a wait.
Onward ==
  /\ at' # at => Place[at] < Place[at'] \/ (at = "notdeleted" /\ at' = "lookup")
  /\ at' = at /\ tries' # tries => tries' = tries + 1 /\ tries' < Limit[at]

LEMMA GoesOnward ==
  ASSUME NEW from, NEW to, Goes(from, to), Place[from] < Place[to], from # to
  PROVE  Onward
<1>1. at = from /\ at' = to
  BY DEF Goes
<1>2. Place[at] < Place[at'] /\ at' # at
  BY <1>1
<1> QED  BY <1>2 DEF Onward

LEMMA MissedOnward ==
  ASSUME NEW wait, Missed(wait)
  PROVE  Onward
BY DEF Missed, Onward

LEMMA StepOnward ==
  ASSUME IInv, Next
  PROVE  Onward
<1>0. TypeOK /\ Course
  BY DEF IInv
<1>1. CASE Prepare
  BY <1>1, GoesOnward, MissedOnward DEF Prepare, CreateGroup, Authorize, CreateKey, WriteKeyFile,
     RunInstances, InstanceRuns, StartMissed, StartFails, RaisesBefore, Calls, Before, Place
<1>2. CASE Work
  <2>1. CASE BodyRaises \/ SshTimeout \/ ImageFailed \/ AnswerLost
             \/ \E wait \in DOMAIN AfterWait : WaitTimeout(wait)
    <3>1. \E from \in Body : \E held : RaisesHolding(from, held)
      BY <2>1 DEF BodyRaises, SshTimeout, ImageFailed, WaitTimeout, AnswerLost, Raises, Asking,
         AfterWait, Body
    <3> QED  BY <3>1, GoesOnward DEF RaisesHolding, Body, Place
  <2>2. CASE SshMissed \/ ImageMissed \/ \E wait \in DOMAIN AfterWait : NotFound(wait)
    BY <2>2, MissedOnward DEF SshMissed, ImageMissed, NotFound
  <2>3. CASE \E wait \in DOMAIN AfterWait : Found(wait)
    BY <2>3, GoesOnward DEF Found, Calls, AfterWait, Place
  <2>4. CASE \/ SshAccess \/ CreateVolume \/ Upload \/ AttachVolume \/ Decompress
             \/ CreateSnapshot \/ RegisterSnapshot \/ Customize \/ CreateImage \/ ImageSeen
             \/ Bundle \/ UploadBundle \/ RegisterBundle \/ RecordAmiId
    BY <2>4, GoesOnward DEF SshAccess, AfterSsh, CreateVolume, Upload, AttachVolume, Decompress,
       CreateSnapshot, RegisterSnapshot, Customize, CreateImage, ImageSeen, Bundle, UploadBundle,
       RegisterBundle, RecordAmiId, Record, Calls, Place
  <2> QED  BY <1>2, <2>1, <2>2, <2>3, <2>4 DEF Work
<1>3. CASE TidyUp
  <2>1. CASE StopMissed \/ RetryDelete
    BY <2>1, MissedOnward DEF StopMissed, RetryDelete
  <2>2. CASE \E from \in Tidying : Slips(from)
    BY <2>2, GoesOnward DEF Slips, Tidying, Place
  <2>3. CASE \E held : at \in Tidying /\ Leave(held)
    <3>1. at \in Tidying /\ at' \in {"raised", "returned"}
      BY <2>3 DEF Leave
    <3>2. Place[at] < Place[at'] /\ at' # at
      BY <3>1 DEF Tidying, Place
    <3> QED  BY <3>2 DEF Onward
  <2>4. CASE Terminate \/ DeleteKey \/ InstanceStopped
             \/ Calls("delgroup", "delvolume", [cloud EXCEPT !.group = FALSE])
    BY <2>4, GoesOnward DEF Terminate, DeleteKey, InstanceStopped, Calls, Place
  <2> QED
    BY <1>3, <2>1, <2>2, <2>3, <2>4 DEF TidyUp, StopTimeout, DeleteGroup, DeleteVolume, DeleteFails,
       TidyingRaises, Tidying
<1>4. CASE Delete
  BY <1>4, GoesOnward DEF Delete, Lookup, LookupFails, Deregister, DeleteSnapshot, DeletePart,
     PartMissing, DeleteRest, DeleteManifest, DeregisterBundle, DeletionRaises, Calls, Deleting, Place
<1>5. CASE AskDelete
  BY <1>5 DEF AskDelete, Goes, Onward, Place
<1>6. CASE EC2Changes \/ Finished
  BY <1>6 DEF EC2Changes, InstanceChanges, VolumeChanges, SnapshotChanges, ImageChanges, Becomes,
     Finished, vars, Onward
<1> QED  BY <1>1, <1>2, <1>3, <1>4, <1>5, <1>6 DEF Next, Plugin

\* No step of the plugin goes back, and no wait looks more often than its limit:
\* with InstanceOwed this is why a rented instance is told to terminate in the end,
\* however long EC2 takes.  Only a deletion that failed is begun again.
THEOREM PushesGoOn ==
  Spec => [][/\ at' # at => Place[at] < Place[at'] \/ (at = "notdeleted" /\ at' = "lookup")
             /\ at' = at /\ tries' # tries => tries' = tries + 1 /\ tries' < Limit[at]]_vars
<1>1. IInv /\ [Next]_vars =>
        [/\ at' # at => Place[at] < Place[at'] \/ (at = "notdeleted" /\ at' = "lookup")
         /\ at' = at /\ tries' # tries => tries' = tries + 1 /\ tries' < Limit[at]]_vars
  BY StepOnward DEF Onward
<1> QED  BY <1>1, Invariant, PTL DEF Spec
=============================================================================
