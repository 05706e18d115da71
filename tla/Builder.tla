------------------------------ MODULE Builder ------------------------------
(***************************************************************************)
(* imgfac/Builder.py over a PersistentImageManager: how a request creates  *)
(* its images, starts one thread for each, and how these threads wait for  *)
(* one another, settle the images and save them.                           *)
(*                                                                         *)
(* A ProviderImage is made from a TargetImage, which is made from a        *)
(* BaseImage.  A request gives the parent's ID, and the thread polls the   *)
(* store until the parent is settled; or it gives a template, and the      *)
(* Builder makes the parent too and joins its thread.  Builders share      *)
(* nothing but the store: each of them may be a process of its own.        *)
(*                                                                         *)
(* Plugins, template parsing and secondary factories are reduced to what   *)
(* the Builder sees of them: they return or they raise.  A save is two     *)
(* steps, its test that the image is in the store and its write;           *)
(* FileImageStore has what happens inside the write.                       *)
(***************************************************************************)
EXTENDS FiniteSets

CONSTANTS Builders,         \* Builder instances, one request each
          Requests,         \* what each of them may be asked for
          Deleters,         \* Builder instances, one delete_image each
          NoImage,          \* None, where an image ID is expected
          StorageFails,     \* whether writing to the store may fail
          CallbacksFail,    \* whether setting up a callback worker may fail
          Crashes,          \* the Builders whose process may be killed
          PluginStatuses    \* what an OS plugin passes to BaseImage.update

Kinds == {"base", "target", "provider"}
Images == Builders \X Kinds

ASSUME NoImageAssumption == NoImage \notin Images
ASSUME StorageFailsAssumption == StorageFails \in BOOLEAN
ASSUME CallbacksFailAssumption == CallbacksFail \in BOOLEAN
ASSUME CrashesAssumption == Crashes \subseteq Builders

ASSUME PluginStatusesAssumption ==
  PluginStatuses \subseteq {"PENDING", "BUILDING", "COMPLETE", "FAILED"}

Request == [kind : Kinds \cup {"snapshot"}, template : BOOLEAN,
            id : Images \cup {NoImage}]

\* An ID names an image of another request: one's own are not known yet.
ASSUME RequestsAssumption ==
  /\ Requests \in [Builders -> SUBSET Request]
  /\ \A b \in Builders : \A r \in Requests[b] : r.id # NoImage => r.id[1] # b

ParentKind(k) == IF k = "provider" THEN "target" ELSE "base"
ChildKind(k) == IF k = "base" THEN "target" ELSE "provider"

VARIABLES
  persisted,    \* what a reader of the store sees of each image
  status,       \* the status of the object the image's own Builder holds
  request,      \* what each Builder was asked for
  caller,       \* where the thread that called the Builder is
  thread,       \* where the thread that makes the image is
  parent,       \* the ID of the object self.base_image / self.target_image
  seen,         \* that object's status, where it was loaded from the store
  callbacks,    \* the callback workers of the image
  deletion,     \* where each delete_image is, and the status of its object
  settled,      \* history: the final status the store got for the image
  deleted,      \* history: the images that were deleted
  raced,        \* history: those of them deleted in the middle of a save
  unsaved       \* history: the images whose last save failed

imageVars  == <<status, thread, callbacks>>
callerVars == <<request, caller, parent>>
storeVars  == <<persisted, settled, deleted, raced, unsaved>>
vars == <<imageVars, callerVars, storeVars, seen, deletion>>

Stored == {"absent", "NEW", "COMPLETE", "FAILED", "DELETEFAILED", "unreadable"}
Status == {"none", "NEW", "PENDING", "BUILDING", "COMPLETE", "FAILED",
           "DELETING", "DELETED", "DELETEFAILED"}

NoRequest == [kind |-> "none", template |-> FALSE, id |-> NoImage]

\* The kind of image a request ends with.
Product(r) == IF r.kind = "snapshot" THEN "provider" ELSE r.kind

Alive == {"start", "join", "check", "poll", "lookup", "plugin", "save", "write",
          "failsave", "failwrite", "shut"}

TypeOK ==
  /\ persisted \in [Images -> Stored]
  /\ status \in [Images -> Status]
  /\ request \in [Builders -> Request \cup {NoRequest}]
  /\ caller \in [Builders -> [at : {"idle", "add", "source", "start", "returned",
                                    "raised", "crashed"},
                              kind : Kinds]]
  /\ thread \in [Images -> Alive \cup {"none", "ended", "crashed"}]
  /\ parent \in [Images -> Images \cup {NoImage}]
  /\ seen \in [Images -> Stored]
  /\ callbacks \in [Images -> {"none", "open", "closed"}]
  /\ deletion \in [Deleters -> [at : {"idle", "start", "plugin", "remove",
                                      "failsave", "failwrite", "ended"},
                                id : Images \cup {NoImage}, status : Status]]
  /\ settled \in [Images -> {"no", "COMPLETE", "FAILED"}]
  /\ deleted \subseteq Images
  /\ raced \subseteq deleted
  /\ unsaved \subseteq Images

Init ==
  /\ persisted = [i \in Images |-> "absent"]
  /\ status = [i \in Images |-> "none"]
  /\ request = [b \in Builders |-> NoRequest]
  /\ caller = [b \in Builders |-> [at |-> "idle", kind |-> "base"]]
  /\ thread = [i \in Images |-> "none"]
  /\ parent = [i \in Images |-> NoImage]
  /\ seen = [i \in Images |-> "absent"]
  /\ callbacks = [i \in Images |-> "none"]
  /\ deletion = [d \in Deleters |-> [at |-> "idle", id |-> NoImage, status |-> "none"]]
  /\ settled = [i \in Images |-> "no"]
  /\ deleted = {}
  /\ raced = {}
  /\ unsaved = {}

-----------------------------------------------------------------------------
(* The store, as the Builder uses it.                                      *)

\* image_with_id returns None for an image whose metadata cannot be read.
CanLoad(i) == i # NoImage /\ persisted[i] \notin {"absent", "unreadable"}

\* A save of i, by its own thread or by a deletion, has found it.
BeingWritten(i) ==
  \/ thread[i] \in {"write", "failwrite"}
  \/ \E d \in Deleters : deletion[d].at = "failwrite" /\ deletion[d].id = i

\* Meanwhile another process, which does not share the metadata lock, may find
\* the file empty.
MayMiss(i) == CanLoad(i) => BeingWritten(i)

\* A faulty variant of IsManaged: saving creates what it does not find.
SaveCreates(i) == TRUE

\* save_image refuses an image it does not find.
IsManaged(i) == persisted[i] # "absent"

\* Past that test the write creates what it does not find.
WriteSucceeds(i, s) ==
  /\ persisted' = [persisted EXCEPT ![i] = s]
  /\ settled' = IF s \in {"COMPLETE", "FAILED"}
                  THEN [settled EXCEPT ![i] = s] ELSE settled
  /\ unsaved' = unsaved \ {i}
  /\ UNCHANGED <<deleted, raced>>

\* Writing fails before the file is truncated, or after.
WriteFails(i) ==
  /\ StorageFails
  /\ \E left \in {persisted[i], "unreadable"} :
       persisted' = [persisted EXCEPT ![i] = left]
  /\ unsaved' = unsaved \cup {i}
  /\ UNCHANGED <<settled, deleted, raced>>

SaveRefused(i) ==
  /\ ~IsManaged(i)
  /\ unsaved' = unsaved \cup {i}
  /\ UNCHANGED <<persisted, settled, deleted, raced>>

-----------------------------------------------------------------------------
(* The caller: build_image_from_template, customize_image_for_target,      *)
(* push_image_to_provider and snapshot_image, up to their return.          *)

\* An ID was given out by the call that added the image, or is no image's.
KnownIds ==
  {NoImage} \cup {i \in Images : status[i] # "none" \/ Requests[i[1]] = {}}

Ask(b, r) ==
  /\ caller[b].at = "idle"
  /\ r.id \in KnownIds
  /\ request' = [request EXCEPT ![b] = r]
  /\ caller' = [caller EXCEPT ![b] = [at |-> "add", kind |-> Product(r)]]
  /\ UNCHANGED <<imageVars, storeVars, parent, seen, deletion>>

\* The image is created, added to the store and given its callback workers.
AddImage(b) ==
  LET i == <<b, caller[b].kind>> IN
  /\ caller[b].at = "add"
  /\ status' = [status EXCEPT ![i] = "NEW"]
  /\ callbacks' = [callbacks EXCEPT ![i] = "open"]
  /\ persisted' = [persisted EXCEPT ![i] = "NEW"]
  /\ caller' = [caller EXCEPT ![b].at = "source"]
  /\ UNCHANGED <<settled, deleted, raced, unsaved, request, parent, thread, seen, deletion>>

\* add_image raises: the file could not be created, or not written.
AddImageFails(b) ==
  LET i == <<b, caller[b].kind>> IN
  /\ StorageFails
  /\ caller[b].at = "add"
  /\ status' = [status EXCEPT ![i] = "NEW"]
  /\ \E left \in {"absent", "unreadable"} :
       persisted' = [persisted EXCEPT ![i] = left]
  /\ caller' = [caller EXCEPT ![b].at = "raised"]
  /\ UNCHANGED <<settled, deleted, raced, unsaved, request, parent, thread, callbacks,
                 seen, deletion>>

\* _init_callback_workers raises: CallbackWorker cannot be made for a URL that
\* holds a user and a password.  The image is in the store all the same.
InitWorkersFails(b) ==
  LET i == <<b, caller[b].kind>> IN
  /\ CallbacksFail
  /\ caller[b].at = "add"
  /\ status' = [status EXCEPT ![i] = "NEW"]
  /\ persisted' = [persisted EXCEPT ![i] = "NEW"]
  /\ caller' = [caller EXCEPT ![b].at = "raised"]
  /\ UNCHANGED <<settled, deleted, raced, unsaved, request, parent, thread, callbacks,
                 seen, deletion>>

\* What customize_image_for_target and push_image_to_provider were given: a
\* nested call always passes the template on, and no ID.
GivenId(b, k) == IF k = Product(request[b]) THEN request[b].id ELSE NoImage

\* base_image_id in the metadata of a TargetImage: the one the request gave
\* until the target's final save has written the ID of the base it was built on.
StoredBaseId(t) ==
  IF persisted[t] \in {"COMPLETE", "FAILED"} THEN parent[t] ELSE GivenId(t[1], "target")

\* The parents push_image_to_provider insists on finding.
ParentsFound(k, id) ==
  /\ CanLoad(id)
  /\ k = "provider" => CanLoad(StoredBaseId(id))

HasId(b, k) == GivenId(b, k) # NoImage /\ ~request[b].template
CanUseId(b, k) == HasId(b, k) /\ ParentsFound(k, GivenId(b, k))

MayMissParents(b, k) ==
  LET id == GivenId(b, k) IN
  /\ HasId(b, k)
  /\ \/ MayMiss(id)
     \/ k = "provider" /\ MayMiss(StoredBaseId(id))

\* "Must specify either a template or a TargetImage ID, not both": the same
\* test of customize_image_for_target comes after the one for a template.
CanUseTemplate(b, k) ==
  /\ request[b].template
  /\ k = "provider" => GivenId(b, k) = NoImage

\* A BaseImage or a snapshot has no parent; a snapshot insists on a template.
Independent(b) == caller[b].kind = "base" \/ request[b].kind = "snapshot"
NeedsTemplate(b) == request[b].kind = "snapshot" /\ ~request[b].template

SourceNone(b) ==
  /\ caller[b].at = "source"
  /\ Independent(b) /\ ~NeedsTemplate(b)
  /\ caller' = [caller EXCEPT ![b].at = "start"]
  /\ UNCHANGED <<imageVars, storeVars, request, parent, seen, deletion>>

SourceById(b) ==
  LET k == caller[b].kind  i == <<b, k>>  id == GivenId(b, k) IN
  /\ caller[b].at = "source"
  /\ ~Independent(b) /\ CanUseId(b, k)
  /\ parent' = [parent EXCEPT ![i] = id]
  /\ seen' = [seen EXCEPT ![i] = persisted[id]]
  /\ caller' = [caller EXCEPT ![b].at = "start"]
  /\ UNCHANGED <<imageVars, storeVars, request, deletion>>

SourceByTemplate(b) ==
  LET k == caller[b].kind  i == <<b, k>> IN
  /\ caller[b].at = "source"
  /\ ~Independent(b) /\ CanUseTemplate(b, k)
  /\ parent' = [parent EXCEPT ![i] = <<b, ParentKind(k)>>]
  /\ caller' = [caller EXCEPT ![b] = [at |-> "add", kind |-> ParentKind(k)]]
  /\ UNCHANGED <<imageVars, storeVars, request, seen, deletion>>

\* The call raises: the image stays as it was added and no thread will ever
\* settle it.
SourceRaises(b) ==
  LET k == caller[b].kind IN
  /\ caller[b].at = "source"
  /\ IF Independent(b) THEN NeedsTemplate(b)
                       ELSE ~CanUseTemplate(b, k) /\ (HasId(b, k) => MayMissParents(b, k))
  /\ caller' = [caller EXCEPT ![b].at = "raised"]
  /\ UNCHANGED <<imageVars, storeVars, request, parent, seen, deletion>>

\* The thread is started; a nested call returns to the call that made it.
StartThread(b) ==
  LET k == caller[b].kind IN
  /\ caller[b].at = "start"
  /\ thread' = [thread EXCEPT ![<<b, k>>] = "start"]
  /\ caller' = IF k = Product(request[b])
                 THEN [caller EXCEPT ![b].at = "returned"]
                 ELSE [caller EXCEPT ![b].kind = ChildKind(k)]
  /\ UNCHANGED <<status, callbacks, storeVars, request, parent, seen, deletion>>

-----------------------------------------------------------------------------
(* The threads: _build_image_from_template, _customize_image_for_target,   *)
(* _push_image_to_provider and _snapshot_image.                            *)

OwnParent(i) == parent[i] = <<i[1], ParentKind(i[2])>>

\* The status of self.base_image / self.target_image.
ParentStatus(i) == IF OwnParent(i) THEN status[parent[i]] ELSE seen[i]

Goes(i, from, to) == thread[i] = from /\ thread' = [thread EXCEPT ![i] = to]
Sets(i, s) == status' = [status EXCEPT ![i] = s]

\* A faulty variant of AfterRaise: the except clause forgets to save.
NoFailSave == "shut"

\* The except clause: the image is FAILED, then saved.
AfterRaise == "failsave"
Raises(i, from) == Goes(i, from, AfterRaise) /\ Sets(i, "FAILED")

ThreadStart(i) ==
  /\ IF i[2] # "base" /\ OwnParent(i)
       THEN Goes(i, "start", "join") /\ Sets(i, "PENDING")
       ELSE /\ Goes(i, "start", IF parent[i] = NoImage THEN "lookup" ELSE "check")
            /\ UNCHANGED status
  /\ UNCHANGED <<callbacks, callerVars, storeVars, seen, deletion>>

JoinParent(i) ==
  /\ Goes(i, "join", "check")
  /\ thread[parent[i]] = "ended"
  /\ UNCHANGED <<status, callbacks, callerVars, storeVars, seen, deletion>>

\* Faulty variants of ParentReady and Undecided: the tests that abort after a
\* failed parent are left out; only success ends the wait.
AnyParent(i) == TRUE
NotComplete(s) == s # "COMPLETE"

Undecided(s) == s \in {"NEW", "PENDING"}
ParentReady(i) == ParentStatus(i) = "COMPLETE"

CheckParent(i) ==
  /\ \/ Undecided(ParentStatus(i)) /\ Goes(i, "check", "poll") /\ Sets(i, "PENDING")
     \/ /\ ~Undecided(ParentStatus(i)) /\ ParentReady(i)
        /\ Goes(i, "check", "lookup") /\ UNCHANGED status
     \/ ~Undecided(ParentStatus(i)) /\ ~ParentReady(i) /\ Raises(i, "check")
  /\ UNCHANGED <<callbacks, callerVars, storeVars, seen, deletion>>

\* _wait_for_final_status finds the parent settled, or, when image_with_id
\* returns None, raises: its wait ends as well when it looks while another
\* process truncates the file.
Poll(i) ==
  /\ \/ /\ CanLoad(parent[i]) /\ ~Undecided(persisted[parent[i]])
        /\ Goes(i, "poll", "check") /\ UNCHANGED status
        /\ seen' = [seen EXCEPT ![i] = persisted[parent[i]]]
     \/ MayMiss(parent[i]) /\ Raises(i, "poll") /\ UNCHANGED seen
  /\ UNCHANGED <<callbacks, callerVars, storeVars, deletion>>

\* It does not, and sleeps before it looks again.
PollAgain(i) ==
  /\ thread[i] = "poll"
  /\ CanLoad(parent[i]) /\ Undecided(persisted[parent[i]])
  /\ UNCHANGED vars

\* The template is parsed and the plugins are found, or not.
FindPlugins(i) ==
  /\ \/ Goes(i, "lookup", "plugin") /\ Sets(i, "BUILDING")
     \/ Raises(i, "lookup")
  /\ UNCHANGED <<callbacks, callerVars, storeVars, seen, deletion>>

\* An OS plugin may set the status of the BaseImage it builds, as Nova does.
PluginUpdates(i, s) ==
  /\ i[2] = "base"
  /\ Goes(i, "plugin", "plugin") /\ Sets(i, s)
  /\ UNCHANGED <<callbacks, callerVars, storeVars, seen, deletion>>

\* A faulty variant of PluginReturns: the workers are shut down at once.
ReturnsAndShuts(i) ==
  /\ Goes(i, "plugin", "save") /\ Sets(i, "COMPLETE")
  /\ callbacks' = [callbacks EXCEPT ![i] = "closed"]
  /\ UNCHANGED <<callerVars, storeVars, seen, deletion>>

PluginReturns(i) ==
  /\ Goes(i, "plugin", "save") /\ Sets(i, "COMPLETE")
  /\ UNCHANGED <<callbacks, callerVars, storeVars, seen, deletion>>

PluginRaises(i) ==
  /\ Raises(i, "plugin")
  /\ UNCHANGED <<callbacks, callerVars, storeVars, seen, deletion>>

Save(i) ==
  /\ \/ IsManaged(i) /\ Goes(i, "save", "write") /\ UNCHANGED <<status, storeVars>>
     \/ SaveRefused(i) /\ Raises(i, "save")
  /\ UNCHANGED <<callbacks, callerVars, seen, deletion>>

\* A faulty variant of Write: what raises after the save is not told from a
\* save that fails.
WriteThenRaises(i) ==
  /\ \/ WriteSucceeds(i, "COMPLETE") /\ Goes(i, "write", "shut") /\ UNCHANGED status
     \/ WriteSucceeds(i, "COMPLETE") /\ Raises(i, "write")
     \/ WriteFails(i) /\ Raises(i, "write")
  /\ UNCHANGED <<callbacks, callerVars, seen, deletion>>

Write(i) ==
  /\ \/ WriteSucceeds(i, "COMPLETE") /\ Goes(i, "write", "shut") /\ UNCHANGED status
     \/ WriteFails(i) /\ Raises(i, "write")
  /\ UNCHANGED <<callbacks, callerVars, seen, deletion>>

\* The save of the except clause: if it raises, the thread ends with the
\* exception once the finally clause is done.
FailSave(i) ==
  /\ \/ IsManaged(i) /\ Goes(i, "failsave", "failwrite") /\ UNCHANGED storeVars
     \/ SaveRefused(i) /\ Goes(i, "failsave", "shut")
  /\ UNCHANGED <<status, callbacks, callerVars, seen, deletion>>

FailWrite(i) ==
  /\ Goes(i, "failwrite", "shut")
  /\ WriteSucceeds(i, "FAILED") \/ WriteFails(i)
  /\ UNCHANGED <<status, callbacks, callerVars, seen, deletion>>

ShutWorkers(i) ==
  /\ Goes(i, "shut", "ended")
  /\ callbacks' = [callbacks EXCEPT ![i] = "closed"]
  /\ UNCHANGED <<status, callerVars, storeVars, seen, deletion>>

-----------------------------------------------------------------------------
(* delete_image and _delete_image.                                         *)

DeleteGoes(d, from, to, s) ==
  /\ deletion[d].at = from
  /\ deletion' = [deletion EXCEPT ![d] = [at |-> to, id |-> @.id, status |-> s]]
  /\ UNCHANGED <<imageVars, callerVars, seen>>

\* The image is loaded by the caller and handed to the new thread.
AskDelete(d, i) ==
  /\ deletion[d].at = "idle"
  /\ CanLoad(i)
  /\ deletion' = [deletion EXCEPT ![d] = [at |-> "start", id |-> i,
                                          status |-> persisted[i]]]
  /\ UNCHANGED <<imageVars, callerVars, storeVars, seen>>

\* Only a ProviderImage needs its plugin.
DeleteStart(d) ==
  /\ DeleteGoes(d, "start", IF deletion[d].id[2] = "provider" THEN "plugin"
                                                              ELSE "remove",
                "DELETING")
  /\ UNCHANGED storeVars

DeletePlugin(d) ==
  /\ \/ DeleteGoes(d, "plugin", "remove", "DELETING")
     \/ DeleteGoes(d, "plugin", "failsave", "DELETEFAILED")
  /\ UNCHANGED storeVars

\* delete_image_with_id only logs what goes wrong: the image is reported
\* DELETED either way.
DeleteRemove(d) ==
  LET i == deletion[d].id IN
  /\ DeleteGoes(d, "remove", "ended", "DELETED")
  /\ \/ /\ persisted' = [persisted EXCEPT ![i] = "absent"]
        /\ deleted' = deleted \cup {i}
        /\ raced' = IF BeingWritten(i) THEN raced \cup {i} ELSE raced
        /\ UNCHANGED <<settled, unsaved>>
     \/ StorageFails /\ UNCHANGED storeVars

DeleteFailSave(d) ==
  LET i == deletion[d].id IN
  /\ deletion[d].at = "failsave"
  /\ \/ /\ IsManaged(i)
        /\ DeleteGoes(d, "failsave", "failwrite", deletion[d].status)
        /\ UNCHANGED storeVars
     \/ SaveRefused(i) /\ DeleteGoes(d, "failsave", "ended", deletion[d].status)

DeleteFailWrite(d) ==
  LET i == deletion[d].id IN
  /\ DeleteGoes(d, "failwrite", "ended", deletion[d].status)
  /\ WriteSucceeds(i, "DELETEFAILED") \/ WriteFails(i)

-----------------------------------------------------------------------------
\* The Builder's process is killed: its threads and objects are gone, and a
\* write it was in the middle of may have left the file empty.
Crash(b) ==
  LET alive == {k \in Kinds : thread[<<b, k>>] \in Alive}
      written == {<<b, k>> : k \in {k \in alive :
                    thread[<<b, k>>] \in {"write", "failwrite"}}}
                 \cup (IF caller[b].at = "add" THEN {<<b, caller[b].kind>>} ELSE {})
  IN
  /\ alive # {} \/ caller[b].at \in {"add", "source", "start"}
  /\ caller' = [caller EXCEPT ![b].at = "crashed"]
  /\ thread' = [i \in Images |-> IF i \in {b} \X alive THEN "crashed" ELSE thread[i]]
  /\ \E torn \in SUBSET written :
       persisted' = [i \in Images |-> IF i \in torn THEN "unreadable"
                                                    ELSE persisted[i]]
  /\ UNCHANGED <<status, callbacks, request, parent, settled, deleted, raced, unsaved,
                 seen, deletion>>

CallerStep(b) ==
  \/ AddImage(b)
  \/ AddImageFails(b)
  \/ InitWorkersFails(b)
  \/ SourceNone(b)
  \/ SourceById(b)
  \/ SourceByTemplate(b)
  \/ SourceRaises(b)
  \/ StartThread(b)

ThreadStep(i) ==
  \/ ThreadStart(i)
  \/ JoinParent(i)
  \/ CheckParent(i)
  \/ Poll(i)
  \/ FindPlugins(i)
  \/ PluginReturns(i)
  \/ PluginRaises(i)
  \/ Save(i)
  \/ Write(i)
  \/ FailSave(i)
  \/ FailWrite(i)
  \/ ShutWorkers(i)

DeleteStep(d) ==
  \/ DeleteStart(d)
  \/ DeletePlugin(d)
  \/ DeleteRemove(d)
  \/ DeleteFailSave(d)
  \/ DeleteFailWrite(d)

\* All that was asked for is over, and nothing is left to delete.
Finished ==
  /\ \A b \in Builders :
       \/ caller[b].at \in {"returned", "raised", "crashed"}
       \/ caller[b].at = "idle" /\ \A r \in Requests[b] : r.id \notin KnownIds
  /\ \A i \in Images : thread[i] \in {"none", "ended", "crashed"}
  /\ \A d \in Deleters : \/ deletion[d].at = "ended"
                          \/ /\ deletion[d].at = "idle"
                             /\ \A i \in Images : ~CanLoad(i)
  /\ UNCHANGED vars

Next ==
  \/ \E b \in Builders : CallerStep(b) \/ \E r \in Requests[b] : Ask(b, r)
  \/ \E i \in Images : ThreadStep(i) \/ PollAgain(i)
  \/ \E i \in Images, s \in PluginStatuses : PluginUpdates(i, s)
  \/ \E d \in Deleters : DeleteStep(d) \/ \E i \in Images : AskDelete(d, i)
  \/ \E b \in Crashes : Crash(b)
  \/ Finished

\* A call that was begun goes on, a thread that can run does, and a plugin
\* returns or raises in the end.  Nothing obliges anybody to ask or to delete.
Fairness ==
  /\ \A b \in Builders : WF_vars(CallerStep(b))
  /\ \A i \in Images : WF_vars(ThreadStep(i))
  /\ \A d \in Deleters : WF_vars(DeleteStep(d))

Spec == Init /\ [][Next]_vars /\ Fairness

-----------------------------------------------------------------------------
(* Correctness.                                                            *)

\* No image is built before the image it is made from: once a thread has
\* started to build on a parent, that parent was saved as COMPLETE, whether
\* the thread joined the parent's thread or polled the store, and whatever
\* was deleted, failed or killed meanwhile.
StageOrder ==
  \A i \in Images :
    (parent[i] # NoImage /\ status[i] \in {"BUILDING", "COMPLETE"})
      => settled[parent[i]] = "COMPLETE"

\* When a thread ends, its image has a final status, and the store has the
\* same one, unless a deletion of the image failed, or removed it, or the last
\* write of its metadata failed.
ReportedIsStored ==
  \A i \in Images :
    thread[i] = "ended" =>
      /\ status[i] \in {"COMPLETE", "FAILED"}
      /\ i \notin unsaved \cup deleted => persisted[i] \in {status[i], "DELETEFAILED"}

\* What was saved as COMPLETE is never taken back.  What was only reported is,
\* when the store does not take it, or when an OS plugin had claimed it: "the
\* plugin can never dictate completion", but Nova does, and may raise then.
ClaimedByPlugin(i) == i[2] = "base" /\ thread[i] = "plugin"

CompleteTakenBack ==
  [][\A i \in Images :
       (status[i] = "COMPLETE" /\ status'[i] # "COMPLETE")
         => settled'[i] = "no" /\ (i \in unsaved' \/ ClaimedByPlugin(i))]_vars

\* Once the callback workers of an image are shut down its status does not
\* change: this is the promise CallbackWorker.shut_down relies on.
NoReportAfterShutDown ==
  [][\A i \in Images : callbacks[i] = "closed" => status'[i] = status[i]]_vars

\* What readers of the store see of the images is an ImageLifecycle.
Lifecycle == INSTANCE ImageLifecycle

ImplementsImageLifecycle == Lifecycle!Spec

\* An image that was added and that nothing will ever settle: its request
\* raised or was killed, its thread was killed, or its last save failed.
Stranded(i) ==
  /\ persisted[i] = "NEW"
  /\ \/ caller[i[1]].at \in {"raised", "crashed"}
     \/ thread[i] = "crashed"
     \/ i \in unsaved

WaitsForStranded(i) ==
  /\ thread[i] = "poll"
  /\ \/ Stranded(parent[i])
     \/ thread[parent[i]] = "poll" /\ Stranded(parent[parent[i]])

\* A thread that was started ends: no chain of joins and polls goes on for
\* ever, except a poll for an image that is stranded, or that itself waits
\* for one.
ThreadsEnd ==
  \A i \in Images :
    thread[i] \in Alive ~> thread[i] \in {"ended", "crashed"} \/ WaitsForStranded(i)

\* "Wait forever - Short of a factory crash, we have timeouts elsewhere that
\* should ensure that the pending images eventually hit success or failure."
PollsEnd == \A i \in Images : thread[i] = "poll" ~> thread[i] # "poll"
=============================================================================
