--------------------------- MODULE Builder_proofs ---------------------------
(***************************************************************************)
(* Theorems about Builder, for any Builders, requests, deletions, failures *)
(* and crashes.                                                            *)
(***************************************************************************)
EXTENDS Builder, Naturals, WellFoundedInduction, TLAPS

\* The kinds of image that a call for kind k has yet to start threads for.
Onward(k) ==
  {j \in Kinds : k = "base" \/ j = k \/ j = "provider"}

\* Threads are started after the calls that make the images are through, the
\* parent's first.
CallerAhead(b) ==
  /\ caller[b].at \in {"idle", "add", "source"} =>
       \A k \in Kinds : thread[<<b, k>>] = "none"
  /\ caller[b].at = "start" =>
       \A k \in Onward(caller[b].kind) : thread[<<b, k>>] = "none"
  /\ caller[b].at \in {"add", "source", "start"} =>
       Product(request[b]) \in Onward(caller[b].kind)

\* What the status of the object is at each place of its thread.
StatusFits(i) ==
  /\ thread[i] = "none" => status[i] \in {"none", "NEW"}
  /\ thread[i] \in {"save", "write"} => status[i] = "COMPLETE"
  /\ thread[i] \in {"failsave", "failwrite"} => status[i] = "FAILED"
  /\ thread[i] \in {"shut", "ended"} => status[i] \in {"COMPLETE", "FAILED"}

\* The final status is in the store when the thread is about to end, not before,
\* and not without the object's having it.
SettledLast(i) ==
  /\ thread[i] \in {"shut", "ended"} /\ status[i] = "COMPLETE" => settled[i] = "COMPLETE"
  /\ settled[i] # "no" => thread[i] \in {"shut", "ended", "crashed"}
  /\ persisted[i] = "COMPLETE" => settled[i] = "COMPLETE"

\* What a thread knows of the parent it waits for.
KnowsParent(i) ==
  /\ i[2] = "base" => parent[i] = NoImage
  /\ parent[i] # NoImage /\ ~OwnParent(i) /\ seen[i] = "COMPLETE"
       => settled[parent[i]] = "COMPLETE"
  /\ OwnParent(i) /\ thread[i] \notin {"none", "start", "join", "crashed"}
       => thread[parent[i]] = "ended"

\* What a thread builds on.
BuildsOnSettled(i) ==
  parent[i] # NoImage
    /\ (thread[i] \in {"lookup", "plugin", "save", "write"} \/ status[i] \in {"BUILDING", "COMPLETE"})
  => settled[parent[i]] = "COMPLETE"

\* The last write of an image that is about to be left.
Recorded(i) ==
  thread[i] \in {"shut", "ended"} /\ i \notin unsaved \cup deleted
    => persisted[i] \in {status[i], "DELETEFAILED"}

\* Deletions know their image.
Deletions == \A d \in Deleters : deletion[d].at # "idle" => deletion[d].id \in Images

\* The callback workers are shut down last.
ClosedLast(i) == callbacks[i] = "closed" => thread[i] = "ended"

ImageFits(i) ==
  /\ StatusFits(i) /\ SettledLast(i) /\ KnowsParent(i) /\ BuildsOnSettled(i)
  /\ Recorded(i) /\ ClosedLast(i)

IInv ==
  /\ TypeOK /\ Deletions
  /\ \A b \in Builders : CallerAhead(b)
  /\ \A i \in Images : ImageFits(i)

-----------------------------------------------------------------------------
\* An image is a Builder and a kind.
LEMMA Pairs ==
  /\ \A i \in Images : i[1] \in Builders /\ i[2] \in Kinds /\ i = <<i[1], i[2]>>
  /\ \A b \in Builders, k \in Kinds : <<b, k>> \in Images
  BY DEF Images

\* Whatever a Builder is asked for, its call starts with an image of some kind,
\* and so does the call for the parent.
LEMMA KindsOfRequests ==
  /\ \A b \in Builders : \A r \in Requests[b] : r \in Request
  /\ \A r \in Request \cup {NoRequest} : r.id \in Images \cup {NoImage}
  /\ \A r \in Request : Product(r) \in Kinds
  /\ \A k \in Kinds : ParentKind(k) \in Kinds /\ ChildKind(k) \in Kinds
  BY RequestsAssumption DEF Request, NoRequest, Product, Kinds, ParentKind, ChildKind

LEMMA InitIInv == Init => IInv
<1> SUFFICES ASSUME Init PROVE IInv
  OBVIOUS
<1>1. TypeOK
  BY DEF Init, TypeOK, Stored, Status, Kinds, Images
<1>2. Deletions
  BY DEF Init, Deletions
<1>3. ASSUME NEW b \in Builders PROVE CallerAhead(b)
  BY Pairs DEF Init, CallerAhead
<1>4. ASSUME NEW i \in Images PROVE ImageFits(i)
  BY DEF Init, ImageFits, StatusFits, SettledLast, KnowsParent, BuildsOnSettled, Recorded,
     ClosedLast
<1> QED
  BY <1>1, <1>2, <1>3, <1>4 DEF IInv

-----------------------------------------------------------------------------
(* The types.                                                              *)

\* The steps of the calling thread.
LEMMA CallerTypes ==
  ASSUME TypeOK, NEW b \in Builders,
         CallerStep(b) \/ \E r \in Requests[b] : Ask(b, r)
  PROVE  TypeOK'
<1> USE Pairs, KindsOfRequests DEF TypeOK
<1>0. /\ caller[b].kind \in Kinds /\ <<b, caller[b].kind>> \in Images
      /\ ParentKind(caller[b].kind) \in Kinds /\ ChildKind(caller[b].kind) \in Kinds
      /\ <<b, ParentKind(caller[b].kind)>> \in Images
      /\ GivenId(b, caller[b].kind) \in Images \cup {NoImage}
  BY DEF GivenId
<1>1. ASSUME NEW r \in Requests[b], Ask(b, r) PROVE TypeOK'
  BY <1>1 DEF Ask, imageVars, storeVars
<1>2. CASE AddImage(b)
  BY <1>0, <1>2 DEF AddImage, Stored, Status
<1>3. CASE AddImageFails(b)
  BY <1>0, <1>3 DEF AddImageFails, Stored, Status
<1>4. CASE InitWorkersFails(b)
  <2>1. status' \in [Images -> Status] /\ persisted' \in [Images -> Stored]
    BY <1>0, <1>4 DEF InitWorkersFails, Stored, Status
  <2> QED
    BY <2>1, <1>0, <1>4 DEF InitWorkersFails
<1>5. CASE SourceNone(b)
  BY <1>0, <1>5 DEF SourceNone, imageVars, storeVars
<1>6. CASE SourceById(b)
  BY <1>0, <1>6 DEF SourceById, CanUseId, ParentsFound, CanLoad, imageVars, storeVars
<1>7. CASE SourceByTemplate(b)
  BY <1>0, <1>7 DEF SourceByTemplate, imageVars, storeVars
<1>8. CASE SourceRaises(b)
  BY <1>0, <1>8 DEF SourceRaises, imageVars, storeVars
<1>9. CASE StartThread(b)
  BY <1>0, <1>9 DEF StartThread, storeVars, Alive
<1> QED
  BY <1>1, <1>2, <1>3, <1>4, <1>5, <1>6, <1>7, <1>8, <1>9 DEF CallerStep

\* The steps of a thread.
LEMMA ThreadTypes ==
  ASSUME TypeOK, NEW i \in Images,
         ThreadStep(i) \/ \E s \in PluginStatuses : PluginUpdates(i, s)
  PROVE  TypeOK'
<1> USE DEF TypeOK, Goes, callerVars, storeVars
<1>1. CASE ThreadStart(i)
  BY <1>1 DEF ThreadStart, Sets, Alive, Status
<1>2. CASE JoinParent(i)
  BY <1>2 DEF JoinParent, Alive
<1>3. CASE CheckParent(i)
  BY <1>3 DEF CheckParent, Raises, AfterRaise, Sets, Alive, Status
<1>4. CASE Poll(i)
  <2>1. CASE CanLoad(parent[i]) /\ Goes(i, "poll", "check") /\ UNCHANGED status
             /\ seen' = [seen EXCEPT ![i] = persisted[parent[i]]]
    BY <2>1, <1>4 DEF Poll, CanLoad, Alive
  <2>2. CASE Raises(i, "poll") /\ UNCHANGED seen
    BY <2>2, <1>4 DEF Poll, Raises, AfterRaise, Sets, Alive, Status
  <2> QED
    BY <1>4, <2>1, <2>2 DEF Poll
<1>5. CASE FindPlugins(i)
  BY <1>5 DEF FindPlugins, Raises, AfterRaise, Sets, Alive, Status
<1>6. CASE PluginReturns(i)
  BY <1>6 DEF PluginReturns, Sets, Alive, Status
<1>7. CASE PluginRaises(i)
  BY <1>7 DEF PluginRaises, Raises, AfterRaise, Sets, Alive, Status
<1>8. CASE Save(i)
  BY <1>8 DEF Save, SaveRefused, Raises, AfterRaise, Sets, Alive, Status
<1>9. CASE Write(i)
  <2>1. CASE WriteSucceeds(i, "COMPLETE") /\ Goes(i, "write", "shut") /\ UNCHANGED status
    BY <2>1, <1>9 DEF Write, WriteSucceeds, Alive, Stored
  <2>2. CASE WriteFails(i) /\ Raises(i, "write")
    BY <2>2, <1>9 DEF Write, WriteFails, Raises, AfterRaise, Sets, Alive, Status, Stored
  <2> QED
    BY <1>9, <2>1, <2>2 DEF Write
<1>10. CASE FailSave(i)
  BY <1>10 DEF FailSave, SaveRefused, Alive
<1>11. CASE FailWrite(i)
  <2>1. CASE WriteSucceeds(i, "FAILED")
    BY <2>1, <1>11 DEF FailWrite, WriteSucceeds, Alive, Stored
  <2>2. CASE WriteFails(i)
    BY <2>2, <1>11 DEF FailWrite, WriteFails, Alive, Stored
  <2> QED
    BY <1>11, <2>1, <2>2 DEF FailWrite
<1>12. CASE ShutWorkers(i)
  BY <1>12 DEF ShutWorkers
<1>13. ASSUME NEW s \in PluginStatuses, PluginUpdates(i, s) PROVE TypeOK'
  BY <1>13, PluginStatusesAssumption DEF PluginUpdates, Sets, Alive, Status
<1> QED
  BY <1>1, <1>2, <1>3, <1>4, <1>5, <1>6, <1>7, <1>8, <1>9, <1>10, <1>11, <1>12, <1>13
     DEF ThreadStep

Deletion == [at : {"idle", "start", "plugin", "remove", "failsave", "failwrite", "ended"},
             id : Images \cup {NoImage}, status : Status]

\* The steps of a deletion.
LEMMA DeletionTypes ==
  ASSUME TypeOK, Deletions, NEW d \in Deleters,
         DeleteStep(d) \/ \E i \in Images : AskDelete(d, i)
  PROVE  TypeOK' /\ Deletions'
<1>0. deletion \in [Deleters -> Deletion] /\ deletion[d].status \in Status
  BY DEF TypeOK, Deletion
<1>1. ASSUME NEW i \in Images, AskDelete(d, i) PROVE TypeOK' /\ Deletions'
  BY <1>1 DEF AskDelete, CanLoad, Stored, Status, TypeOK, Deletions, callerVars, imageVars,
     storeVars
<1>2. ASSUME NEW from, from # "idle", NEW s \in Status,
             NEW to \in {"start", "plugin", "remove", "failsave", "failwrite", "ended"},
             DeleteGoes(d, from, to, s),
             /\ persisted' \in [Images -> Stored]
             /\ settled' \in [Images -> {"no", "COMPLETE", "FAILED"}]
             /\ deleted' \subseteq Images /\ raced' \subseteq deleted' /\ unsaved' \subseteq Images
      PROVE  TypeOK' /\ Deletions'
  <2>1. deletion' \in [Deleters -> Deletion] /\ Deletions'
    BY <1>0, <1>2 DEF DeleteGoes, Deletion, Deletions
  <2> QED
    BY <2>1, <1>2 DEF TypeOK, Deletion, DeleteGoes, imageVars, callerVars
<1>3. ASSUME NEW from, from # "idle", NEW s, NEW to, DeleteGoes(d, from, to, s)
      PROVE  deletion[d].id \in Images
  BY <1>3 DEF DeleteGoes, Deletions
<1>4. CASE DeleteStart(d)
  BY <1>2, <1>4 DEF DeleteStart, storeVars, TypeOK, Status
<1>5. CASE DeletePlugin(d)
  BY <1>2, <1>5 DEF DeletePlugin, storeVars, TypeOK, Status
<1>6. CASE DeleteRemove(d)
  <2>1. DeleteGoes(d, "remove", "ended", "DELETED") /\ deletion[d].id \in Images
    BY <1>3, <1>6 DEF DeleteRemove
  <2>2. CASE UNCHANGED storeVars
    BY <1>2, <2>1, <2>2 DEF storeVars, TypeOK, Status
  <2>3. CASE ~ UNCHANGED storeVars
    <3>1. /\ persisted' \in [Images -> Stored]
          /\ settled' \in [Images -> {"no", "COMPLETE", "FAILED"}]
      BY <1>6, <2>1, <2>3 DEF DeleteRemove, TypeOK, Stored
    <3>2. deleted' \subseteq Images /\ raced' \subseteq deleted' /\ unsaved' \subseteq Images
      BY <1>6, <2>1, <2>3 DEF DeleteRemove, TypeOK
    <3> QED
      BY <1>2, <2>1, <3>1, <3>2 DEF Status
  <2> QED
    BY <2>2, <2>3
<1>7. CASE DeleteFailSave(d)
  BY <1>2, <1>0, <1>3, <1>7 DEF DeleteFailSave, SaveRefused, storeVars, TypeOK
<1>8. CASE DeleteFailWrite(d)
  <2>1. DeleteGoes(d, "failwrite", "ended", deletion[d].status) /\ deletion[d].id \in Images
    BY <1>3, <1>8 DEF DeleteFailWrite
  <2>2. CASE WriteSucceeds(deletion[d].id, "DELETEFAILED")
    BY <1>2, <1>0, <2>1, <2>2 DEF WriteSucceeds, TypeOK, Stored
  <2>3. CASE WriteFails(deletion[d].id)
    <3>1. persisted' \in [Images -> Stored]
      BY <2>1, <2>3 DEF WriteFails, TypeOK, Stored
    <3>2. /\ settled' \in [Images -> {"no", "COMPLETE", "FAILED"}]
          /\ deleted' \subseteq Images /\ raced' \subseteq deleted' /\ unsaved' \subseteq Images
      BY <2>1, <2>3 DEF WriteFails, TypeOK
    <3> QED
      BY <1>2, <1>0, <2>1, <3>1, <3>2
  <2> QED
    BY <1>8, <2>2, <2>3 DEF DeleteFailWrite
<1> QED
  BY <1>1, <1>4, <1>5, <1>6, <1>7, <1>8 DEF DeleteStep

LEMMA StepTypes == TypeOK /\ Deletions /\ [Next]_vars => TypeOK' /\ Deletions'
<1> SUFFICES ASSUME TypeOK, Deletions, [Next]_vars PROVE TypeOK' /\ Deletions'
  OBVIOUS
<1>1. CASE UNCHANGED vars
  BY <1>1 DEF TypeOK, Deletions, vars, imageVars, callerVars, storeVars
<1>2. ASSUME NEW b \in Builders, CallerStep(b) \/ \E r \in Requests[b] : Ask(b, r)
      PROVE  TypeOK' /\ Deletions'
  <2>1. TypeOK'
    BY <1>2, CallerTypes
  <2>2. UNCHANGED deletion
    BY <1>2 DEF CallerStep, Ask, AddImage, AddImageFails, InitWorkersFails, SourceNone,
       SourceById, SourceByTemplate, SourceRaises, StartThread
  <2> QED
    BY <2>1, <2>2 DEF Deletions
<1>3. ASSUME NEW i \in Images, ThreadStep(i) \/ \E s \in PluginStatuses : PluginUpdates(i, s)
      PROVE  TypeOK' /\ Deletions'
  <2>1. TypeOK'
    BY <1>3, ThreadTypes
  <2>2. UNCHANGED deletion
    BY <1>3 DEF ThreadStep, ThreadStart, JoinParent, CheckParent, Poll, FindPlugins,
       PluginReturns, PluginRaises, Save, Write, FailSave, FailWrite, ShutWorkers, PluginUpdates
  <2> QED
    BY <2>1, <2>2 DEF Deletions
<1>4. ASSUME NEW d \in Deleters, DeleteStep(d) \/ \E i \in Images : AskDelete(d, i)
      PROVE  TypeOK' /\ Deletions'
  BY <1>4, DeletionTypes
<1>5. ASSUME NEW b \in Crashes, Crash(b) PROVE TypeOK' /\ Deletions'
  BY <1>5, CrashesAssumption DEF Crash, TypeOK, Deletions, Stored
<1>6. CASE Finished \/ \E i \in Images : PollAgain(i)
  BY <1>1, <1>6 DEF Finished, PollAgain
<1> QED
  BY <1>1, <1>2, <1>3, <1>4, <1>5, <1>6 DEF Next

-----------------------------------------------------------------------------
(* The invariant.                                                          *)

\* What stays as it was fits as it did: the images that a step does not touch.
LEMMA Untouched ==
  ASSUME TypeOK, NEW j \in Images, ImageFits(j),
         /\ status'[j] = status[j] /\ thread'[j] = thread[j] /\ callbacks'[j] = callbacks[j]
         /\ parent'[j] = parent[j] /\ seen'[j] = seen[j]
         /\ persisted'[j] = persisted[j] /\ settled'[j] = settled[j]
         /\ j \in unsaved' \cup deleted' <=> j \in unsaved \cup deleted,
         \A x \in Images : settled[x] = "COMPLETE" => settled'[x] = "COMPLETE",
         \A x \in Images : thread[x] = "ended" => thread'[x] = "ended"
  PROVE  ImageFits(j)'
<1>1. parent[j] # NoImage => parent[j] \in Images
  BY DEF TypeOK
<1>2. OwnParent(j)' <=> OwnParent(j)
  BY DEF OwnParent
<1>3. StatusFits(j)' /\ SettledLast(j)' /\ Recorded(j)' /\ ClosedLast(j)'
  BY DEF ImageFits, StatusFits, SettledLast, Recorded, ClosedLast
<1>4. BuildsOnSettled(j)'
  BY <1>1 DEF ImageFits, BuildsOnSettled
<1>5. KnowsParent(j)'
  <2>1. OwnParent(j) => parent[j] \in Images
    BY <1>1, NoImageAssumption, Pairs, KindsOfRequests DEF OwnParent
  <2> QED
    BY <1>1, <1>2, <2>1 DEF ImageFits, KnowsParent
<1> QED
  BY <1>3, <1>4, <1>5 DEF ImageFits

\* An image whose thread is yet to be started fits, if what its call gave it does.
LEMMA NotStarted ==
  ASSUME NEW i \in Images, ImageFits(i), thread[i] = "none", thread'[i] = "none",
         status'[i] \in {"none", "NEW"},
         persisted'[i] \in {persisted[i], "NEW", "absent", "unreadable"},
         settled'[i] = settled[i], callbacks'[i] # "closed",
         i[2] = "base" => parent'[i] = NoImage,
         parent'[i] # NoImage /\ ~OwnParent(i)' /\ seen'[i] = "COMPLETE"
           => settled'[parent'[i]] = "COMPLETE"
  PROVE  ImageFits(i)'
  BY DEF ImageFits, StatusFits, SettledLast, KnowsParent, BuildsOnSettled, Recorded, ClosedLast

\* A call touches but the image that it makes.
LEMMA CallerKeepsImages ==
  ASSUME IInv, NEW b \in Builders, CallerStep(b) \/ \E r \in Requests[b] : Ask(b, r),
         NEW j \in Images
  PROVE  ImageFits(j)'
<1>k. PICK k \in Kinds : k = caller[b].kind
  BY DEF IInv, TypeOK
<1>i. PICK i \in Images : i = <<b, k>>
  BY Pairs
<1>0. /\ k = caller[b].kind /\ i = <<b, k>> /\ i[1] = b /\ i[2] = k
      /\ TypeOK /\ CallerAhead(b) /\ \A x \in Images : ImageFits(x)
  BY <1>k, <1>i DEF IInv
<1>1. CASE \E r \in Requests[b] : Ask(b, r)
  BY <1>0, <1>1, Untouched DEF Ask, imageVars, storeVars
<1>2. ASSUME UNCHANGED <<thread, settled, deleted, unsaved>>, caller[b].at \in {"add", "source"},
             j # i => /\ status'[j] = status[j] /\ callbacks'[j] = callbacks[j]
                      /\ parent'[j] = parent[j] /\ seen'[j] = seen[j]
                      /\ persisted'[j] = persisted[j],
             /\ status'[i] \in {"none", "NEW"}
             /\ persisted'[i] \in {persisted[i], "NEW", "absent", "unreadable"}
             /\ callbacks'[i] # "closed"
             /\ k = "base" => parent'[i] = NoImage
             /\ parent'[i] # NoImage /\ ~OwnParent(i)' /\ seen'[i] = "COMPLETE"
                  => settled'[parent'[i]] = "COMPLETE"
      PROVE  ImageFits(j)'
  <2>1. CASE j # i
    BY <1>0, <1>2, <2>1, Untouched
  <2>2. CASE j = i
    <3>1. thread[i] = "none"
      BY <1>0, <1>2 DEF CallerAhead
    <3> QED
      BY <1>0, <1>2, <2>2, <3>1, NotStarted
  <2> QED
    BY <2>1, <2>2
\* What the image is before a step of the call, up to its start.
<1>3. ASSUME caller[b].at \in {"add", "source"}
      PROVE  /\ status[i] \in {"none", "NEW"} /\ callbacks[i] # "closed"
             /\ k = "base" => parent[i] = NoImage
             /\ parent[i] # NoImage /\ ~OwnParent(i) /\ seen[i] = "COMPLETE"
                  => settled[parent[i]] = "COMPLETE"
  BY <1>0, <1>3 DEF CallerAhead, ImageFits, StatusFits, ClosedLast, KnowsParent
<1>4. CASE AddImage(b)
  <2>1. OwnParent(i)' <=> OwnParent(i)
    BY <1>4 DEF AddImage, OwnParent
  <2> QED
    BY <1>0, <1>2, <1>3, <1>4, <2>1 DEF AddImage, TypeOK
<1>5. CASE AddImageFails(b)
  <2>1. OwnParent(i)' <=> OwnParent(i)
    BY <1>5 DEF AddImageFails, OwnParent
  <2> QED
    BY <1>0, <1>2, <1>3, <1>5, <2>1 DEF AddImageFails, TypeOK
<1>6. CASE InitWorkersFails(b)
  <2>1. OwnParent(i)' <=> OwnParent(i)
    BY <1>6 DEF InitWorkersFails, OwnParent
  <2> QED
    BY <1>0, <1>2, <1>3, <1>6, <2>1 DEF InitWorkersFails, TypeOK
<1>7. CASE SourceNone(b) \/ SourceRaises(b)
  BY <1>0, <1>7, Untouched DEF SourceNone, SourceRaises, imageVars, storeVars
<1>8. CASE SourceById(b)
  <2>0. PICK id \in Images \cup {NoImage} : id = GivenId(b, k)
    BY <1>0, KindsOfRequests DEF GivenId, TypeOK
  <2>1. /\ caller[b].at = "source" /\ k # "base" /\ id # NoImage
        /\ parent' = [parent EXCEPT ![i] = id] /\ seen' = [seen EXCEPT ![i] = persisted[id]]
        /\ UNCHANGED <<imageVars, storeVars>>
    BY <1>0, <1>8, <2>0 DEF SourceById, Independent, CanUseId, HasId
  <2>2. id \in Images
    BY <2>0, <2>1
  <2>3. persisted[id] = "COMPLETE" => settled[id] = "COMPLETE"
    BY <1>0, <2>2 DEF ImageFits, SettledLast
  <2>4. parent'[i] = id /\ seen'[i] = persisted[id]
    BY <1>0, <2>1 DEF TypeOK
  <2>5. settled' = settled /\ persisted' = persisted /\ status' = status /\ callbacks' = callbacks
    BY <2>1 DEF imageVars, storeVars
  <2>6. UNCHANGED <<thread, settled, deleted, unsaved>>
    BY <2>1 DEF imageVars, storeVars
  <2>7. j # i => parent'[j] = parent[j] /\ seen'[j] = seen[j]
    BY <2>1 DEF TypeOK
  <2> QED
    BY <1>2, <1>3, <2>1, <2>3, <2>4, <2>5, <2>6, <2>7
<1>9. CASE SourceByTemplate(b)
  <2> DEFINE own == <<b, ParentKind(k)>>
  <2>1. /\ caller[b].at = "source" /\ k # "base"
        /\ parent' = [parent EXCEPT ![i] = own]
        /\ UNCHANGED <<imageVars, storeVars, seen>>
    BY <1>0, <1>9 DEF SourceByTemplate, Independent
  <2>2. parent'[i] = own
    BY <1>0, <2>1 DEF TypeOK
  <2>3. OwnParent(i)'
    BY <1>0, <2>2 DEF OwnParent
  <2>4. j # i => parent'[j] = parent[j]
    BY <2>1 DEF TypeOK
  <2> QED
    BY <1>2, <1>3, <2>1, <2>3, <2>4 DEF imageVars, storeVars
<1>10. CASE StartThread(b)
  <2>1. /\ caller[b].at = "start" /\ thread' = [thread EXCEPT ![i] = "start"]
        /\ UNCHANGED <<status, callbacks, parent, seen, persisted, settled, deleted, unsaved>>
    BY <1>0, <1>10 DEF StartThread, storeVars
  <2>2. thread[i] = "none"
    BY <1>0, <2>1 DEF CallerAhead, Onward
  <2>3. thread'[i] = "start" /\ \A x \in Images : x # i => thread'[x] = thread[x]
    BY <1>0, <2>1 DEF TypeOK
  <2>4. CASE j # i
    BY <1>0, <2>1, <2>2, <2>3, <2>4, Untouched
  <2>5. CASE j = i
    BY <1>0, <2>1, <2>2, <2>3, <2>5
       DEF ImageFits, StatusFits, SettledLast, KnowsParent, BuildsOnSettled, Recorded,
           ClosedLast, OwnParent
  <2> QED
    BY <2>4, <2>5
<1> QED
  BY <1>1, <1>4, <1>5, <1>6, <1>7, <1>8, <1>9, <1>10 DEF CallerStep

\* A call is ahead of the threads that it starts.
LEMMA CallerKeepsAhead ==
  ASSUME IInv, NEW b \in Builders, CallerStep(b) \/ \E r \in Requests[b] : Ask(b, r),
         NEW c \in Builders
  PROVE  CallerAhead(c)'
<1> DEFINE k == caller[b].kind
<1>0. k \in Kinds /\ TypeOK /\ CallerAhead(b) /\ CallerAhead(c)
  BY DEF IInv, TypeOK
<1>1. c # b => caller'[c] = caller[c] /\ request'[c] = request[c]
  BY <1>0 DEF CallerStep, Ask, AddImage, AddImageFails, InitWorkersFails, SourceNone,
     SourceById, SourceByTemplate, SourceRaises, StartThread, TypeOK
<1>2. CASE ~ StartThread(b)
  <2>1. thread' = thread
    BY <1>2 DEF CallerStep, Ask, AddImage, AddImageFails, InitWorkersFails, SourceNone,
       SourceById, SourceByTemplate, SourceRaises, imageVars
  <2>2. CASE c # b
    BY <1>0, <1>1, <2>1, <2>2 DEF CallerAhead
  <2>3. CASE c = b
    <3>1. ASSUME NEW r \in Requests[b], Ask(b, r) PROVE CallerAhead(b)'
      BY <1>0, <3>1, <2>1, KindsOfRequests DEF Ask, CallerAhead, TypeOK, Onward
    <3>2. CASE SourceByTemplate(b)
      BY <1>0, <3>2, <2>1 DEF SourceByTemplate, CallerAhead, TypeOK, Onward, ParentKind, Kinds,
         Independent
    <3>3. CASE SourceNone(b) \/ SourceById(b) \/ AddImage(b)
      BY <1>0, <3>3, <2>1 DEF SourceNone, SourceById, AddImage, CallerAhead, TypeOK, Onward
    <3>4. CASE AddImageFails(b) \/ InitWorkersFails(b) \/ SourceRaises(b)
      <4>1. caller' = [caller EXCEPT ![b].at = "raised"]
        BY <3>4 DEF AddImageFails, InitWorkersFails, SourceRaises
      <4>2. caller'[b].at = "raised"
        BY <1>0, <4>1 DEF TypeOK
      <4> QED
        BY <2>3, <4>2 DEF CallerAhead
    <3> QED
      BY <1>2, <2>3, <3>1, <3>2, <3>3, <3>4 DEF CallerStep
  <2> QED
    BY <2>2, <2>3
<1>3. CASE StartThread(b)
  <2>1. /\ caller[b].at = "start" /\ thread' = [thread EXCEPT ![<<b, k>>] = "start"]
        /\ request' = request
        /\ Product(request[b]) \in Onward(k)
    BY <1>0, <1>3 DEF StartThread, CallerAhead
  <2>2. \A x \in Images : x # <<b, k>> => thread'[x] = thread[x]
    BY <1>0, <2>1 DEF TypeOK
  <2>3. CASE c # b
    BY <1>0, <1>1, <2>2, <2>3, Pairs DEF CallerAhead, Onward
  <2>4. CASE c = b /\ k = Product(request[b])
    BY <1>0, <1>3, <2>4 DEF StartThread, CallerAhead, TypeOK
  <2>5. CASE c = b /\ k # Product(request[b])
    <3>1. /\ k # "provider" /\ caller'[b].at = "start" /\ caller'[b].kind = ChildKind(k)
          /\ Product(request[b]) \in Onward(ChildKind(k)) /\ k \notin Onward(ChildKind(k))
          /\ Onward(ChildKind(k)) \subseteq Onward(k)
      BY <1>0, <1>3, <2>1, <2>5 DEF StartThread, Onward, ChildKind, Kinds, TypeOK
    <3>2. \A x \in Onward(k) : thread[<<b, x>>] = "none"
      BY <1>0, <2>1 DEF CallerAhead
    <3>3. \A x \in Onward(ChildKind(k)) : thread'[<<b, x>>] = "none"
      BY <2>2, <3>1, <3>2, Pairs DEF Onward
    <3> QED
      BY <2>1, <2>5, <3>1, <3>3 DEF CallerAhead
  <2> QED
    BY <2>3, <2>4, <2>5
<1> QED
  BY <1>2, <1>3

\* A thread touches but its image, and settles it at most once.
LEMMA ThreadTouches ==
  ASSUME TypeOK, NEW i \in Images,
         ThreadStep(i) \/ \E s \in PluginStatuses : PluginUpdates(i, s)
  PROVE  /\ thread[i] \in Alive
         /\ UNCHANGED <<parent, deleted, caller, request>>
         /\ settled'[i] # settled[i] => thread[i] \in {"write", "failwrite"}
         /\ persisted'[i] = persisted[i] \/ thread[i] \in {"write", "failwrite"}
         /\ status'[i] = "none" => status[i] = "none"
         /\ UNCHANGED <<raced, deletion>>
         /\ \A x \in Images : x # i =>
              /\ thread'[x] = thread[x] /\ status'[x] = status[x]
              /\ callbacks'[x] = callbacks[x] /\ seen'[x] = seen[x]
              /\ persisted'[x] = persisted[x] /\ settled'[x] = settled[x]
              /\ x \in unsaved' <=> x \in unsaved
<1> USE DEF Goes, callerVars, storeVars, Alive, TypeOK
<1>1. CASE ThreadStart(i)
  BY <1>1 DEF ThreadStart, Sets
<1>2. CASE JoinParent(i)
  BY <1>2 DEF JoinParent
<1>3. CASE CheckParent(i)
  BY <1>3 DEF CheckParent, Raises, Sets
<1>4. CASE Poll(i)
  BY <1>4 DEF Poll, Raises, Sets
<1>5. CASE FindPlugins(i)
  BY <1>5 DEF FindPlugins, Raises, Sets
<1>6. CASE PluginReturns(i)
  BY <1>6 DEF PluginReturns, Sets
<1>7. CASE PluginRaises(i)
  BY <1>7 DEF PluginRaises, Raises, Sets
<1>8. CASE Save(i)
  BY <1>8 DEF Save, SaveRefused, Raises, Sets
<1>9. CASE Write(i)
  BY <1>9 DEF Write, WriteSucceeds, WriteFails, Raises, Sets
<1>10. CASE FailSave(i)
  BY <1>10 DEF FailSave, SaveRefused
<1>11. CASE FailWrite(i)
  BY <1>11 DEF FailWrite, WriteSucceeds, WriteFails
<1>12. CASE ShutWorkers(i)
  BY <1>12 DEF ShutWorkers
<1>13. CASE \E s \in PluginStatuses : PluginUpdates(i, s)
  BY <1>13, PluginStatusesAssumption DEF PluginUpdates, Sets
<1> QED
  BY <1>1, <1>2, <1>3, <1>4, <1>5, <1>6, <1>7, <1>8, <1>9, <1>10, <1>11, <1>12, <1>13 DEF ThreadStep

LEMMA ThreadKeepsImages ==
  ASSUME IInv, NEW i \in Images,
         ThreadStep(i) \/ \E s \in PluginStatuses : PluginUpdates(i, s),
         NEW j \in Images
  PROVE  ImageFits(j)'
<1>0. /\ TypeOK /\ ImageFits(i) /\ ImageFits(j)
      /\ parent[i] # NoImage => parent[i] \in Images
  BY DEF IInv, TypeOK
<1>1. /\ thread[i] \notin {"none", "ended", "crashed"}
      /\ UNCHANGED <<parent, deleted>>
      /\ \A x \in Images : x # i =>
           /\ thread'[x] = thread[x] /\ status'[x] = status[x]
           /\ callbacks'[x] = callbacks[x] /\ seen'[x] = seen[x]
           /\ persisted'[x] = persisted[x] /\ settled'[x] = settled[x]
           /\ x \in unsaved' <=> x \in unsaved
  BY <1>0, ThreadTouches DEF Alive
<1>2. \A x \in Images : settled[x] = "COMPLETE" => settled'[x] = "COMPLETE"
  BY <1>0, <1>1, ThreadTouches DEF ImageFits, SettledLast
<1>3. \A x \in Images : thread[x] = "ended" => thread'[x] = "ended"
  BY <1>1
<1>4. CASE j # i
  BY <1>0, <1>1, <1>2, <1>3, <1>4, Untouched
<1>5. CASE j = i
  <2>0. /\ OwnParent(i)' <=> OwnParent(i)
        /\ OwnParent(i) => parent[i] \in Images
        /\ parent'[i] = parent[i] /\ callbacks[i] # "closed" /\ deleted' = deleted
        /\ parent[i] # NoImage /\ settled[parent[i]] = "COMPLETE"
             => settled'[parent[i]] = "COMPLETE"
        /\ OwnParent(i) /\ thread[parent[i]] = "ended" => thread'[parent[i]] = "ended"
    BY <1>0, <1>1, <1>2, <1>3, NoImageAssumption, Pairs, KindsOfRequests
       DEF OwnParent, ImageFits, ClosedLast
  <2> USE DEF ImageFits, StatusFits, SettledLast, KnowsParent, BuildsOnSettled, Recorded, ClosedLast
  <2>1. CASE ThreadStart(i)
    <3>1. /\ thread[i] = "start"
          /\ \/ i[2] # "base" /\ OwnParent(i) /\ thread'[i] = "join" /\ status'[i] = "PENDING"
             \/ /\ ~(i[2] # "base" /\ OwnParent(i)) /\ status'[i] = status[i]
                /\ thread'[i] = IF parent[i] = NoImage THEN "lookup" ELSE "check"
          /\ persisted'[i] = persisted[i] /\ settled'[i] = settled[i] /\ unsaved' = unsaved
          /\ seen'[i] = seen[i] /\ callbacks'[i] = callbacks[i]
      BY <1>0, <2>1 DEF ThreadStart, Goes, callerVars, storeVars, TypeOK, Sets
    <3> QED
      BY <1>0, <1>5, <2>0, <3>1, NoImageAssumption
  <2>2. CASE JoinParent(i)
    <3>1. /\ thread[i] = "join" /\ thread'[i] = "check" /\ status'[i] = status[i]
          /\ thread[parent[i]] = "ended"
          /\ persisted'[i] = persisted[i] /\ settled'[i] = settled[i] /\ unsaved' = unsaved
          /\ seen'[i] = seen[i] /\ callbacks'[i] = callbacks[i]
      BY <1>0, <2>2 DEF JoinParent, Goes, callerVars, storeVars, TypeOK
    <3> QED
      BY <1>0, <1>5, <2>0, <3>1
  <2>3. CASE CheckParent(i)
    <3>1. /\ thread[i] = "check"
          /\ \/ thread'[i] = "poll" /\ status'[i] = "PENDING"
             \/ ParentStatus(i) = "COMPLETE" /\ thread'[i] = "lookup" /\ status'[i] = status[i]
             \/ thread'[i] = "failsave" /\ status'[i] = "FAILED"
          /\ persisted'[i] = persisted[i] /\ settled'[i] = settled[i] /\ unsaved' = unsaved
          /\ seen'[i] = seen[i] /\ callbacks'[i] = callbacks[i]
      BY <1>0, <2>3 DEF CheckParent, Goes, callerVars, storeVars, TypeOK, Raises,
         AfterRaise, Sets, ParentReady
    <3>2. parent[i] # NoImage /\ ParentStatus(i) = "COMPLETE" => settled[parent[i]] = "COMPLETE"
      <4>1. parent[i] # NoImage => ImageFits(parent[i])
        BY <1>0 DEF IInv
      <4> QED
        BY <1>0, <3>1, <4>1 DEF ParentStatus
    <3> QED
      BY <1>0, <1>5, <2>0, <3>1, <3>2
  <2>4. CASE Poll(i)
    <3>1. /\ thread[i] = "poll"
          /\ \/ /\ thread'[i] = "check" /\ status'[i] = status[i] /\ parent[i] # NoImage
                /\ seen'[i] = persisted[parent[i]]
             \/ thread'[i] = "failsave" /\ status'[i] = "FAILED" /\ seen'[i] = seen[i]
          /\ persisted'[i] = persisted[i] /\ settled'[i] = settled[i] /\ unsaved' = unsaved
          /\ callbacks'[i] = callbacks[i]
      BY <1>0, <2>4 DEF Poll, CanLoad, Goes, callerVars, storeVars, TypeOK, Raises,
         AfterRaise, Sets
    <3>2. parent[i] # NoImage /\ persisted[parent[i]] = "COMPLETE"
            => settled[parent[i]] = "COMPLETE"
      <4>1. parent[i] # NoImage => ImageFits(parent[i])
        BY <1>0 DEF IInv
      <4> QED
        BY <4>1
    <3> QED
      BY <1>0, <1>5, <2>0, <3>1, <3>2
  <2>5. CASE FindPlugins(i)
    <3>1. /\ thread[i] = "lookup"
          /\ \/ thread'[i] = "plugin" /\ status'[i] = "BUILDING"
             \/ thread'[i] = "failsave" /\ status'[i] = "FAILED"
          /\ persisted'[i] = persisted[i] /\ settled'[i] = settled[i] /\ unsaved' = unsaved
          /\ seen'[i] = seen[i] /\ callbacks'[i] = callbacks[i]
      BY <1>0, <2>5 DEF FindPlugins, Goes, callerVars, storeVars, TypeOK, Raises, AfterRaise, Sets
    <3> QED
      BY <1>0, <1>5, <2>0, <3>1
  <2>6. CASE PluginReturns(i)
    <3>1. /\ thread[i] = "plugin" /\ thread'[i] = "save" /\ status'[i] = "COMPLETE"
          /\ persisted'[i] = persisted[i] /\ settled'[i] = settled[i] /\ unsaved' = unsaved
          /\ seen'[i] = seen[i] /\ callbacks'[i] = callbacks[i]
      BY <1>0, <2>6 DEF PluginReturns, Goes, callerVars, storeVars, TypeOK, Sets
    <3> QED
      BY <1>0, <1>5, <2>0, <3>1
  <2>7. CASE PluginRaises(i)
    <3>1. /\ thread[i] = "plugin" /\ thread'[i] = "failsave" /\ status'[i] = "FAILED"
          /\ persisted'[i] = persisted[i] /\ settled'[i] = settled[i] /\ unsaved' = unsaved
          /\ seen'[i] = seen[i] /\ callbacks'[i] = callbacks[i]
      BY <1>0, <2>7 DEF PluginRaises, Goes, callerVars, storeVars, TypeOK, Raises, AfterRaise, Sets
    <3> QED
      BY <1>0, <1>5, <2>0, <3>1
  <2>8. CASE Save(i)
    <3>1. /\ thread[i] = "save" /\ persisted'[i] = persisted[i] /\ settled'[i] = settled[i]
          /\ \/ thread'[i] = "write" /\ status'[i] = status[i] /\ unsaved' = unsaved
             \/ thread'[i] = "failsave" /\ status'[i] = "FAILED"
          /\ seen'[i] = seen[i] /\ callbacks'[i] = callbacks[i]
      BY <1>0, <2>8 DEF Save, Goes, callerVars, storeVars, TypeOK, SaveRefused, Raises, AfterRaise, Sets
    <3> QED
      BY <1>0, <1>5, <2>0, <3>1
  <2>9. CASE Write(i)
    <3>1. /\ thread[i] = "write"
          /\ \/ /\ persisted'[i] = "COMPLETE" /\ settled'[i] = "COMPLETE"
                /\ thread'[i] = "shut" /\ status'[i] = status[i]
             \/ /\ persisted'[i] \in {persisted[i], "unreadable"} /\ settled'[i] = settled[i]
                /\ thread'[i] = "failsave" /\ status'[i] = "FAILED"
          /\ seen'[i] = seen[i] /\ callbacks'[i] = callbacks[i]
      BY <1>0, <2>9 DEF Write, Goes, callerVars, storeVars, TypeOK, WriteSucceeds,
         WriteFails, Raises, AfterRaise, Sets
    <3> QED
      BY <1>0, <1>5, <2>0, <3>1
  <2>10. CASE FailSave(i)
    <3>1. /\ thread[i] = "failsave" /\ status'[i] = status[i]
          /\ persisted'[i] = persisted[i] /\ settled'[i] = settled[i]
          /\ thread'[i] = "failwrite" \/ (thread'[i] = "shut" /\ i \in unsaved')
          /\ seen'[i] = seen[i] /\ callbacks'[i] = callbacks[i]
      <4>1. CASE SaveRefused(i) /\ Goes(i, "failsave", "shut")
        BY <1>0, <2>10, <4>1 DEF FailSave, SaveRefused, Goes, callerVars, TypeOK
      <4>2. CASE UNCHANGED storeVars /\ Goes(i, "failsave", "failwrite")
        <5>1. UNCHANGED <<persisted, settled, status, seen, callbacks>>
          BY <2>10, <4>2 DEF FailSave, storeVars
        <5>2. thread[i] = "failsave" /\ thread'[i] = "failwrite"
          BY <1>0, <4>2 DEF Goes, TypeOK
        <5> QED
          BY <5>1, <5>2
      <4> QED
        BY <2>10, <4>1, <4>2 DEF FailSave
    <3> QED
      BY <1>0, <1>5, <2>0, <3>1
  <2>11. CASE FailWrite(i)
    <3>1. /\ thread[i] = "failwrite" /\ thread'[i] = "shut" /\ status'[i] = status[i]
          /\ \/ persisted'[i] = "FAILED" /\ settled'[i] = "FAILED"
             \/ /\ persisted'[i] \in {persisted[i], "unreadable"} /\ settled'[i] = settled[i]
                /\ i \in unsaved'
          /\ seen'[i] = seen[i] /\ callbacks'[i] = callbacks[i]
      BY <1>0, <2>11 DEF FailWrite, Goes, callerVars, storeVars, TypeOK, WriteSucceeds, WriteFails
    <3> QED
      BY <1>0, <1>5, <2>0, <3>1
  <2>12. CASE ShutWorkers(i)
    <3>1. /\ thread[i] = "shut" /\ thread'[i] = "ended" /\ status'[i] = status[i]
          /\ persisted'[i] = persisted[i] /\ settled'[i] = settled[i] /\ unsaved' = unsaved
          /\ seen'[i] = seen[i]
      BY <1>0, <2>12 DEF ShutWorkers, Goes, callerVars, storeVars, TypeOK
    <3> QED
      BY <1>0, <1>5, <2>0, <3>1
  <2>13. CASE \E s \in PluginStatuses : PluginUpdates(i, s)
    <3>1. /\ thread[i] = "plugin" /\ thread'[i] = "plugin" /\ i[2] = "base"
          /\ persisted'[i] = persisted[i] /\ settled'[i] = settled[i] /\ unsaved' = unsaved
          /\ seen'[i] = seen[i] /\ callbacks'[i] = callbacks[i]
      BY <1>0, <2>13 DEF PluginUpdates, Goes, callerVars, storeVars, TypeOK
    <3> QED
      BY <1>0, <1>5, <2>0, <3>1
  <2> QED
    BY <2>1, <2>2, <2>3, <2>4, <2>5, <2>6, <2>7, <2>8, <2>9, <2>10, <2>11, <2>12, <2>13 DEF ThreadStep
<1> QED
  BY <1>4, <1>5

LEMMA ThreadKeepsAhead ==
  ASSUME IInv, NEW i \in Images,
         ThreadStep(i) \/ \E s \in PluginStatuses : PluginUpdates(i, s),
         NEW c \in Builders
  PROVE  CallerAhead(c)'
<1>1. TypeOK /\ CallerAhead(c)
  BY DEF IInv
<1>2. \A x \in Images : thread[x] = "none" => thread'[x] = "none"
  BY <1>1, ThreadTouches DEF Alive
<1>3. UNCHANGED <<caller, request>>
  BY <1>1, ThreadTouches
<1> QED
  BY <1>1, <1>2, <1>3, Pairs DEF CallerAhead, Onward

\* A deletion touches but the metadata of its image, and takes no COMPLETE back.
LEMMA DeletionKeeps ==
  ASSUME IInv, NEW d \in Deleters, DeleteStep(d) \/ \E i \in Images : AskDelete(d, i)
  PROVE  /\ \A j \in Images : ImageFits(j)'
         /\ \A c \in Builders : CallerAhead(c)'
<1>1. UNCHANGED <<imageVars, callerVars, seen>>
  BY DEF DeleteStep, AskDelete, DeleteStart, DeletePlugin, DeleteRemove, DeleteFailSave,
     DeleteFailWrite, DeleteGoes
<1>2. ASSUME NEW c \in Builders PROVE CallerAhead(c)'
  BY <1>1, <1>2 DEF IInv, CallerAhead, imageVars, callerVars
<1>3. ASSUME NEW j \in Images PROVE ImageFits(j)'
  <2>0. TypeOK /\ Deletions /\ ImageFits(j)
    BY DEF IInv
  <2>1. settled' = settled
    BY <2>0 DEF DeleteStep, AskDelete, DeleteStart, DeletePlugin, DeleteRemove, DeleteFailSave,
       DeleteFailWrite, WriteSucceeds, WriteFails, SaveRefused, storeVars
  <2>2. \/ persisted'[j] = persisted[j] /\ (j \in unsaved' \cup deleted' <=> j \in unsaved \cup deleted)
        \/ persisted'[j] \in {persisted[j], "absent", "unreadable"} /\ j \in unsaved' \cup deleted'
        \/ persisted'[j] = "DELETEFAILED"
    <3>0. deletion[d].at # "idle" => deletion[d].id \in Images
      BY <2>0 DEF Deletions
    <3>1. CASE DeleteStart(d) \/ DeletePlugin(d) \/ \E i \in Images : AskDelete(d, i)
      BY <3>1 DEF DeleteStart, DeletePlugin, AskDelete, storeVars
    <3>2. CASE DeleteRemove(d)
      BY <2>0, <3>0, <3>2 DEF DeleteRemove, DeleteGoes, storeVars, TypeOK
    <3>3. CASE DeleteFailSave(d)
      BY <2>0, <3>3 DEF DeleteFailSave, SaveRefused, storeVars
    <3>4. CASE DeleteFailWrite(d)
      <4>1. CASE WriteSucceeds(deletion[d].id, "DELETEFAILED")
        BY <2>0, <3>0, <3>4, <4>1 DEF DeleteFailWrite, DeleteGoes, WriteSucceeds, TypeOK
      <4>2. CASE WriteFails(deletion[d].id)
        BY <2>0, <3>0, <3>4, <4>2 DEF DeleteFailWrite, DeleteGoes, WriteFails, TypeOK
      <4> QED
        BY <3>4, <4>1, <4>2 DEF DeleteFailWrite
    <3> QED
      BY <3>1, <3>2, <3>3, <3>4 DEF DeleteStep
  <2>3. StatusFits(j)' /\ KnowsParent(j)' /\ BuildsOnSettled(j)' /\ ClosedLast(j)'
    BY <1>1, <2>0, <2>1 DEF ImageFits, StatusFits, KnowsParent, BuildsOnSettled, ClosedLast,
       OwnParent, imageVars, callerVars
  <2>4. SettledLast(j)'
    BY <1>1, <2>0, <2>1, <2>2 DEF ImageFits, SettledLast, imageVars
  <2>5. Recorded(j)'
    BY <1>1, <2>0, <2>2 DEF ImageFits, Recorded, imageVars
  <2> QED
    BY <2>3, <2>4, <2>5 DEF ImageFits
<1> QED
  BY <1>2, <1>3

\* A crash takes only threads that are about, and tears only what they write.
LEMMA CrashKeeps ==
  ASSUME IInv, NEW b \in Builders, Crash(b)
  PROVE  /\ \A j \in Images : ImageFits(j)'
         /\ \A c \in Builders : CallerAhead(c)'
<1>0. TypeOK /\ CallerAhead(b) /\ \A x \in Images : ImageFits(x)
  BY DEF IInv
<1>1. UNCHANGED <<status, callbacks, request, parent, settled, deleted, unsaved, seen>>
  BY DEF Crash
<1>2. ASSUME NEW x \in Images
      PROVE  IF x[1] = b /\ thread[x] \in Alive THEN thread'[x] = "crashed"
                                                ELSE thread'[x] = thread[x]
  BY <1>2, Pairs DEF Crash
<1>3. ASSUME NEW x \in Images
      PROVE  \/ persisted'[x] = persisted[x]
             \/ /\ persisted'[x] = "unreadable"
                /\ thread[x] \in {"write", "failwrite", "none"} /\ x[1] = b
  <2> DEFINE alive == {k \in Kinds : thread[<<b, k>>] \in Alive}
             written == {<<b, k>> : k \in {k \in alive :
                             thread[<<b, k>>] \in {"write", "failwrite"}}}
                        \cup (IF caller[b].at = "add" THEN {<<b, caller[b].kind>>} ELSE {})
  <2>1. PICK torn \in SUBSET written :
          persisted' = [i \in Images |-> IF i \in torn THEN "unreadable" ELSE persisted[i]]
    BY DEF Crash
  <2>2. ASSUME x \in written PROVE thread[x] \in {"write", "failwrite", "none"} /\ x[1] = b
    <3>1. CASE caller[b].at = "add" /\ x = <<b, caller[b].kind>>
      <4>1. caller[b].kind \in Kinds
        BY <1>0 DEF TypeOK
      <4> QED
        BY <1>0, <3>1, <4>1 DEF CallerAhead
    <3>2. CASE \E k \in Kinds : x = <<b, k>> /\ thread[<<b, k>>] \in {"write", "failwrite"}
      BY <3>2
    <3> QED
      BY <2>2, <3>1, <3>2
  <2> QED
    BY <2>1, <2>2
<1>4. ASSUME NEW c \in Builders PROVE CallerAhead(c)'
  <2>1. CASE c = b
    <3>1. caller'[b].at = "crashed"
      BY <1>0 DEF Crash, TypeOK
    <3> QED
      BY <2>1, <3>1 DEF CallerAhead
  <2>2. CASE c # b
    <3>1. caller'[c] = caller[c]
      BY <1>0, <2>2 DEF Crash, TypeOK
    <3>2. CallerAhead(c) /\ \A k \in Kinds : thread'[<<c, k>>] = thread[<<c, k>>]
      <4>1. CallerAhead(c)
        BY DEF IInv
      <4>2. ASSUME NEW k \in Kinds PROVE thread'[<<c, k>>] = thread[<<c, k>>]
        <5>1. <<c, k>> \in Images /\ <<c, k>>[1] = c
          BY Pairs
        <5> QED
          BY <1>2, <2>2, <5>1
      <4> QED
        BY <4>1, <4>2
    <3> QED
      BY <1>1, <3>1, <3>2 DEF CallerAhead, Onward
  <2> QED
    BY <2>1, <2>2
<1>5. ASSUME NEW j \in Images PROVE ImageFits(j)'
  <2>0. ImageFits(j) /\ OwnParent(j)' = OwnParent(j)
    BY <1>0, <1>1 DEF OwnParent
  <2>1. StatusFits(j)' /\ SettledLast(j)' /\ Recorded(j)' /\ BuildsOnSettled(j)' /\ ClosedLast(j)'
    BY <1>1, <1>2, <1>3, <2>0 DEF ImageFits, StatusFits, SettledLast, Recorded, BuildsOnSettled,
       ClosedLast, Alive
  <2>2. KnowsParent(j)'
    <3>1. OwnParent(j) => parent[j] \in Images
      BY <1>0, NoImageAssumption, Pairs, KindsOfRequests DEF OwnParent, TypeOK
    <3> QED
      BY <1>1, <1>2, <2>0, <3>1 DEF ImageFits, KnowsParent, Alive
  <2> QED
    BY <2>1, <2>2 DEF ImageFits
<1> QED
  BY <1>4, <1>5

LEMMA NextIInv == IInv /\ [Next]_vars => IInv'
<1> SUFFICES ASSUME IInv, [Next]_vars PROVE IInv'
  OBVIOUS
<1>1. TypeOK' /\ Deletions'
  BY StepTypes DEF IInv
<1> SUFFICES /\ \A j \in Images : ImageFits(j)'
             /\ \A c \in Builders : CallerAhead(c)'
  BY <1>1 DEF IInv
<1>2. CASE UNCHANGED vars
  BY <1>2 DEF IInv, ImageFits, StatusFits, SettledLast, KnowsParent, BuildsOnSettled, Recorded,
     ClosedLast, OwnParent, CallerAhead, vars, imageVars, callerVars, storeVars
<1>3. ASSUME NEW b \in Builders, CallerStep(b) \/ \E r \in Requests[b] : Ask(b, r)
      PROVE  /\ \A j \in Images : ImageFits(j)'
             /\ \A c \in Builders : CallerAhead(c)'
  BY <1>3, CallerKeepsImages, CallerKeepsAhead
<1>4. ASSUME NEW i \in Images, ThreadStep(i) \/ \E s \in PluginStatuses : PluginUpdates(i, s)
      PROVE  /\ \A j \in Images : ImageFits(j)'
             /\ \A c \in Builders : CallerAhead(c)'
  BY <1>4, ThreadKeepsImages, ThreadKeepsAhead
<1>5. ASSUME NEW d \in Deleters, DeleteStep(d) \/ \E i \in Images : AskDelete(d, i)
      PROVE  /\ \A j \in Images : ImageFits(j)'
             /\ \A c \in Builders : CallerAhead(c)'
  BY <1>5, DeletionKeeps
<1>6. ASSUME NEW b \in Crashes, Crash(b)
      PROVE  /\ \A j \in Images : ImageFits(j)'
             /\ \A c \in Builders : CallerAhead(c)'
  BY <1>6, CrashKeeps, CrashesAssumption
<1>7. CASE Finished \/ \E i \in Images : PollAgain(i)
  BY <1>2, <1>7 DEF Finished, PollAgain
<1> QED
  BY <1>2, <1>3, <1>4, <1>5, <1>6, <1>7 DEF Next

LEMMA Invariant == Spec => []IInv
<1>1. IInv /\ [Next]_vars => IInv'
  BY NextIInv
<1> QED
  BY InitIInv, <1>1, PTL DEF Spec

-----------------------------------------------------------------------------
(* What follows.                                                           *)

\* The variables have their types, whatever is asked for, fails, is deleted or
\* is killed.
THEOREM TypeCorrect == Spec => []TypeOK
<1>1. IInv => TypeOK
  BY DEF IInv
<1> QED
  BY <1>1, Invariant, PTL

\* No image is built on a parent that was not saved as COMPLETE, for any number of
\* Builders and deletions (_customize_image_for_target, _push_image_to_provider).
THEOREM StagesInOrder == Spec => []StageOrder
<1>1. IInv => StageOrder
  BY DEF IInv, ImageFits, BuildsOnSettled, StageOrder
<1> QED
  BY <1>1, Invariant, PTL

\* A thread that ended has left a final status, in the store too unless the image
\* was deleted or its last save failed.
THEOREM ReportsStored == Spec => []ReportedIsStored
<1>1. IInv => ReportedIsStored
  BY DEF IInv, ImageFits, StatusFits, Recorded, ReportedIsStored
<1> QED
  BY <1>1, Invariant, PTL

\* Once the callback workers of an image are shut down, nothing changes its status
\* any more (the finally clauses of Builder.py).
THEOREM ReportsEnd == Spec => NoReportAfterShutDown
<1>1. ASSUME IInv, [Next]_vars, NEW i \in Images, callbacks[i] = "closed"
      PROVE  status'[i] = status[i]
  <2>0. /\ TypeOK /\ thread[i] = "ended"
        /\ \A b \in Builders : CallerAhead(b)
    BY <1>1 DEF IInv, ImageFits, ClosedLast
  <2>1. CASE UNCHANGED status
    BY <2>1
  <2>2. ASSUME NEW b \in Builders, CallerStep(b), ~ UNCHANGED status
        PROVE  status'[i] = status[i]
    <3>1. /\ caller[b].at = "add"
          /\ status' = [status EXCEPT ![<<b, caller[b].kind>>] = "NEW"]
      BY <2>2 DEF CallerStep, AddImage, AddImageFails, InitWorkersFails, SourceNone, SourceById,
         SourceByTemplate, SourceRaises, StartThread, imageVars
    <3>2. thread[<<b, caller[b].kind>>] = "none"
      BY <2>0, <3>1 DEF CallerAhead, TypeOK
    <3>3. <<b, caller[b].kind>> # i
      BY <2>0, <3>2
    <3> QED
      BY <2>0, <3>1, <3>3 DEF TypeOK
  <2>3. ASSUME NEW j \in Images, ThreadStep(j) \/ \E s \in PluginStatuses : PluginUpdates(j, s)
        PROVE  status'[i] = status[i]
    BY <2>0, <2>3, ThreadTouches DEF Alive
  <2>4. ASSUME NEW d \in Deleters, DeleteStep(d) \/ \E j \in Images : AskDelete(d, j)
        PROVE  UNCHANGED status
    BY <2>4 DEF DeleteStep, AskDelete, DeleteStart, DeletePlugin, DeleteRemove, DeleteFailSave,
       DeleteFailWrite, DeleteGoes, imageVars
  <2> QED
    BY <1>1, <2>1, <2>2, <2>3, <2>4
       DEF Next, Ask, Crash, Finished, PollAgain, vars, imageVars
<1>2. IInv /\ [Next]_vars
        => [\A i \in Images : callbacks[i] = "closed" => status'[i] = status[i]]_vars
  BY <1>1
<1> QED
  BY <1>2, Invariant, PTL DEF Spec, NoReportAfterShutDown

\* Before its plugin has returned no image is COMPLETE, unless an OS plugin says so.
CompleteLate(i) ==
  status[i] = "COMPLETE"
    => /\ thread[i] \notin {"none", "start", "join", "check", "poll", "lookup"}
       /\ thread[i] = "plugin" => i[2] = "base"

LEMMA ThreadCompletes ==
  ASSUME IInv, NEW i \in Images, CompleteLate(i),
         ThreadStep(i) \/ \E s \in PluginStatuses : PluginUpdates(i, s)
  PROVE  /\ CompleteLate(i)'
         /\ status[i] = "COMPLETE" /\ status'[i] # "COMPLETE"
                => /\ thread'[i] \in {"plugin", "failsave"}
                   /\ i \in unsaved' \/ ClaimedByPlugin(i)
<1>0. TypeOK /\ StatusFits(i)
  BY DEF IInv, ImageFits
<1> USE DEF CompleteLate, ClaimedByPlugin, StatusFits, Goes, TypeOK
<1>1. CASE ThreadStart(i)
  BY <1>0, <1>1 DEF ThreadStart, Sets
<1>2. CASE JoinParent(i)
  BY <1>0, <1>2 DEF JoinParent
<1>3. CASE CheckParent(i)
  BY <1>0, <1>3 DEF CheckParent, Raises, AfterRaise, Sets
<1>4. CASE Poll(i)
  BY <1>0, <1>4 DEF Poll, Raises, AfterRaise, Sets
<1>5. CASE FindPlugins(i)
  BY <1>0, <1>5 DEF FindPlugins, Raises, AfterRaise, Sets
<1>6. CASE PluginReturns(i)
  BY <1>0, <1>6 DEF PluginReturns, Sets
<1>7. CASE PluginRaises(i)
  BY <1>0, <1>7 DEF PluginRaises, Raises, AfterRaise, Sets
<1>8. CASE Save(i)
  BY <1>0, <1>8 DEF Save, SaveRefused, Raises, AfterRaise, Sets
<1>9. CASE Write(i)
  BY <1>0, <1>9 DEF Write, WriteFails, Raises, AfterRaise, Sets
<1>10. CASE FailSave(i)
  BY <1>0, <1>10 DEF FailSave
<1>11. CASE FailWrite(i)
  BY <1>0, <1>11 DEF FailWrite
<1>12. CASE ShutWorkers(i)
  BY <1>0, <1>12 DEF ShutWorkers
<1>13. ASSUME NEW s \in PluginStatuses, PluginUpdates(i, s)
       PROVE  /\ CompleteLate(i)'
              /\ status[i] = "COMPLETE" /\ status'[i] # "COMPLETE"
                => /\ thread'[i] \in {"plugin", "failsave"}
                   /\ i \in unsaved' \/ ClaimedByPlugin(i)
  BY <1>0, <1>13, PluginStatusesAssumption DEF PluginUpdates, Sets
<1> QED
  BY <1>1, <1>2, <1>3, <1>4, <1>5, <1>6, <1>7, <1>8, <1>9, <1>10, <1>11, <1>12, <1>13 DEF ThreadStep

\* Only its own thread changes the status of an image that is COMPLETE.
LEMMA OthersComplete ==
  ASSUME IInv, [Next]_vars, NEW j \in Images,
         ~ (ThreadStep(j) \/ \E s \in PluginStatuses : PluginUpdates(j, s))
  PROVE  /\ status'[j] = status[j] \/ status[j] # "COMPLETE"
         /\ CompleteLate(j) => CompleteLate(j)'
<1>0. TypeOK /\ StatusFits(j) /\ \A b \in Builders : CallerAhead(b)
  BY DEF IInv, ImageFits
<1>1. CASE UNCHANGED <<status, thread>>
  BY <1>1 DEF CompleteLate
<1>2. ASSUME NEW b \in Builders, CallerStep(b)
      PROVE  /\ status'[j] = status[j] \/ status[j] # "COMPLETE"
             /\ CompleteLate(j) => CompleteLate(j)'
  <2>1. CASE StartThread(b)
    <3>1. thread[<<b, caller[b].kind>>] = "none"
      BY <1>0, <2>1 DEF StartThread, CallerAhead, Onward, TypeOK
    <3> QED
      BY <1>0, <2>1, <3>1 DEF StartThread, CompleteLate, StatusFits, TypeOK
  <2>2. CASE AddImage(b) \/ AddImageFails(b) \/ InitWorkersFails(b)
    <3>1. thread[<<b, caller[b].kind>>] = "none"
      BY <1>0, <2>2 DEF AddImage, AddImageFails, InitWorkersFails, CallerAhead, TypeOK
    <3>2. thread' = thread /\ status' = [status EXCEPT ![<<b, caller[b].kind>>] = "NEW"]
      BY <2>2 DEF AddImage, AddImageFails, InitWorkersFails
    <3>3. CASE j = <<b, caller[b].kind>>
      BY <1>0, <3>1, <3>2, <3>3 DEF StatusFits, CompleteLate, TypeOK
    <3>4. CASE j # <<b, caller[b].kind>>
      BY <1>0, <3>2, <3>4 DEF CompleteLate, TypeOK
    <3> QED  BY <3>3, <3>4
  <2> QED
    BY <1>1, <1>2, <2>1, <2>2
       DEF CallerStep, SourceNone, SourceById, SourceByTemplate, SourceRaises, imageVars
<1>3. ASSUME NEW i \in Images, ThreadStep(i) \/ \E s \in PluginStatuses : PluginUpdates(i, s)
      PROVE  status'[j] = status[j] /\ thread'[j] = thread[j]
  BY <1>0, <1>3, ThreadTouches
<1>4. ASSUME NEW d \in Deleters, DeleteStep(d) \/ \E i \in Images : AskDelete(d, i)
      PROVE  UNCHANGED <<status, thread>>
  BY <1>4 DEF DeleteStep, AskDelete, DeleteStart, DeletePlugin, DeleteRemove, DeleteFailSave,
     DeleteFailWrite, DeleteGoes, imageVars
<1>5. ASSUME NEW b \in Crashes, Crash(b)
      PROVE  /\ status' = status
             /\ thread'[j] = thread[j] \/ thread'[j] = "crashed"
  BY <1>5 DEF Crash
<1> QED
  BY <1>1, <1>2, <1>3, <1>4, <1>5
     DEF Next, Ask, Finished, PollAgain, vars, imageVars, CompleteLate

\* COMPLETE that was saved is never taken back, and COMPLETE that was reported only
\* by an image that could not be saved, or whose OS plugin had passed COMPLETE to
\* BaseImage.update before it raised (Builder.py:136-143, Nova.py:183-184).
THEOREM CompleteStands == Spec => CompleteTakenBack
<1> DEFINE Late == \A i \in Images : CompleteLate(i)
<1> DEFINE Back(i) == (status[i] = "COMPLETE" /\ status'[i] # "COMPLETE")
                        => settled'[i] = "no" /\ (i \in unsaved' \/ ClaimedByPlugin(i))
<1>1. Init => Late
  BY DEF Init, CompleteLate
<1>2. ASSUME IInv, IInv', Late, [Next]_vars, NEW i \in Images
      PROVE  CompleteLate(i)' /\ Back(i)
  <2>1. CASE ThreadStep(i) \/ \E s \in PluginStatuses : PluginUpdates(i, s)
    <3>1. /\ CompleteLate(i)'
          /\ status[i] = "COMPLETE" /\ status'[i] # "COMPLETE"
               => /\ thread'[i] \in {"plugin", "failsave"}
                  /\ i \in unsaved' \/ ClaimedByPlugin(i)
      BY <1>2, <2>1, ThreadCompletes
    <3>2. status[i] = "COMPLETE" /\ status'[i] # "COMPLETE" => settled'[i] = "no"
      <4>1. settled'[i] # "no" => thread'[i] \in {"shut", "ended", "crashed"}
        BY <1>2 DEF IInv, ImageFits, SettledLast
      <4> QED  BY <3>1, <4>1
    <3> QED  BY <3>1, <3>2
  <2>2. CASE ~ (ThreadStep(i) \/ \E s \in PluginStatuses : PluginUpdates(i, s))
    BY <1>2, <2>2, OthersComplete
  <2> QED
    BY <2>1, <2>2
<1> HIDE DEF Back
<1>3. IInv /\ IInv' /\ Late /\ [Next]_vars => Late'
  BY <1>2
<1>4. IInv /\ IInv' /\ Late /\ [Next]_vars => [\A i \in Images : Back(i)]_vars
  BY <1>2
<1>5. CompleteTakenBack <=> [][\A i \in Images : Back(i)]_vars
  BY DEF CompleteTakenBack, Back
<1> QED
  BY <1>1, <1>3, <1>4, <1>5, Invariant, PTL DEF Spec
-----------------------------------------------------------------------------
(* The store's images are an ImageLifecycle: every step of Builder is a    *)
(* step of it, for one image, or leaves it as it is.                       *)

\* The kinds of image that are made before and after one of kind k, in the calls
\* that Builder b makes for its request.
Strictly(k) == Onward(k) \ {k}
Above(b, k) == {j \in Strictly(k) : Product(request[b]) \in Onward(j)}

\* Parents are made within the calls for their children.
Nested(b) ==
  /\ caller[b].at \in {"add", "source", "start"} =>
       \A j \in Above(b, caller[b].kind) : OwnParent(<<b, j>>)
  /\ \A k \in Kinds : thread[<<b, k>>] # "none" =>
       /\ Product(request[b]) \in Onward(k)
       /\ \A j \in Above(b, k) : OwnParent(<<b, j>>)

\* What a call has yet to make.
Unmade(b) ==
  \A k \in Kinds :
    \/ caller[b].at = "idle"
    \/ caller[b].at = "add" /\ caller[b].kind \in Onward(k)
    \/ caller[b].at = "source" /\ caller[b].kind \in Strictly(k)
    => /\ status[<<b, k>>] = "none" /\ persisted[<<b, k>>] = "absent"
       /\ <<b, k>> \notin deleted

\* Nothing can be loaded, and so be deleted, that was not made.
Traceless(i) == status[i] = "none" => persisted[i] \in {"absent", "unreadable"}

DeletesMade == \A d \in Deleters : deletion[d].at # "idle" => status[deletion[d].id] # "none"

\* What is being written is there, or was deleted in the meantime.
WritesFound(i) == BeingWritten(i) => Lifecycle!Writable(i)

LInv ==
  /\ IInv /\ DeletesMade
  /\ \A b \in Builders : Nested(b) /\ Unmade(b)
  /\ \A i \in Images : Traceless(i) /\ WritesFound(i)

\* A Builder whose images a step leaves alone.
LEMMA OthersNested ==
  ASSUME NEW c \in Builders, Nested(c), Unmade(c),
         caller'[c] = caller[c], request'[c] = request[c], deleted' = deleted,
         \A k \in Kinds :
           /\ thread'[<<c, k>>] = thread[<<c, k>>] /\ parent'[<<c, k>>] = parent[<<c, k>>]
           /\ status'[<<c, k>>] = status[<<c, k>>] /\ persisted'[<<c, k>>] = persisted[<<c, k>>]
  PROVE  Nested(c)' /\ Unmade(c)'
<1>1. \A k \in Kinds : OwnParent(<<c, k>>)' = OwnParent(<<c, k>>)
  BY DEF OwnParent
<1>2. \A k \in Kinds : Above(c, k)' = Above(c, k) /\ Above(c, k) \subseteq Kinds
  BY DEF Above, Strictly, Onward
<1>3. Above(c, caller[c].kind)' = Above(c, caller[c].kind) /\ Above(c, caller[c].kind) \subseteq Kinds
  BY DEF Above, Strictly, Onward
<1>4. Nested(c)'
  BY <1>1, <1>2, <1>3 DEF Nested
<1>5. Unmade(c)'
  BY DEF Unmade
<1> QED
  BY <1>4, <1>5

\* A call makes the images of its own Builder, from the last to the first.
LEMMA CallerKeepsNested ==
  ASSUME LInv, NEW b \in Builders, CallerStep(b) \/ \E r \in Requests[b] : Ask(b, r),
         NEW c \in Builders
  PROVE  Nested(c)' /\ Unmade(c)'
<1>0. /\ TypeOK /\ CallerAhead(b) /\ Nested(b) /\ Unmade(b) /\ Nested(c) /\ Unmade(c)
  BY DEF LInv, IInv
<1>k. PICK k \in Kinds : k = caller[b].kind
  BY <1>0 DEF TypeOK
<1>1. deleted' = deleted
  BY DEF CallerStep, Ask, AddImage, AddImageFails, InitWorkersFails, SourceNone, SourceById,
     SourceByTemplate, SourceRaises, StartThread, storeVars
<1>2. CASE c # b
  <2>1. caller'[c] = caller[c] /\ request'[c] = request[c]
    BY <1>0, <1>2 DEF CallerStep, Ask, AddImage, AddImageFails, InitWorkersFails, SourceNone,
       SourceById, SourceByTemplate, SourceRaises, StartThread, TypeOK
  <2>2. ASSUME NEW x \in Images, x # <<b, k>>
        PROVE  /\ thread'[x] = thread[x] /\ parent'[x] = parent[x]
               /\ status'[x] = status[x] /\ persisted'[x] = persisted[x]
    BY <1>0, <1>k, <2>2 DEF CallerStep, Ask, AddImage, AddImageFails, InitWorkersFails, SourceNone,
       SourceById, SourceByTemplate, SourceRaises, StartThread, TypeOK, imageVars, storeVars
  <2>3. \A m \in Kinds : <<c, m>> \in Images /\ <<c, m>> # <<b, k>>
    BY <1>2, Pairs
  <2> QED
    BY <1>0, <1>1, <2>1, <2>2, <2>3, OthersNested
<1>3. CASE c = b
  <2>1. \A m \in Kinds : <<b, m>> \in Images /\ (m # k => <<b, m>> # <<b, k>>)
    BY Pairs
  <2>2. ASSUME NEW r \in Requests[b], Ask(b, r) PROVE Nested(b)' /\ Unmade(b)'
    <3>1. PICK m \in Kinds : m = Product(r)
      BY KindsOfRequests
    <3>2. /\ caller[b].at = "idle" /\ caller'[b] = [at |-> "add", kind |-> m]
          /\ request'[b] = r
          /\ UNCHANGED <<thread, parent, status, persisted>>
      BY <1>0, <2>2, <3>1 DEF Ask, TypeOK, imageVars, storeVars
    <3>3. Above(b, m)' = {}
      BY <3>1, <3>2 DEF Above, Strictly, Onward, Kinds
    <3>4. \A x \in Kinds : thread[<<b, x>>] = "none"
      BY <1>0, <3>2 DEF CallerAhead
    <3>5. Nested(b)'
      BY <3>2, <3>3, <3>4 DEF Nested
    <3>6. Unmade(b)'
      BY <1>0, <1>1, <3>2 DEF Unmade
    <3> QED
      BY <3>5, <3>6
  <2>3. CASE CallerStep(b)
    <3>1. request' = request
      BY <2>3 DEF CallerStep, AddImage, AddImageFails, InitWorkersFails, SourceNone, SourceById,
         SourceByTemplate, SourceRaises, StartThread
    <3>2. \A m \in Kinds : Above(b, m)' = Above(b, m) /\ Above(b, m) \subseteq Kinds
                           /\ m \notin Above(b, m)
      BY <3>1 DEF Above, Strictly, Onward
    <3>3. CASE AddImage(b)
      <4>1. /\ caller[b].at = "add" /\ caller'[b].at = "source" /\ caller'[b].kind = k
            /\ UNCHANGED <<thread, parent>>
            /\ \A x \in Images : x # <<b, k>> => status'[x] = status[x] /\ persisted'[x] = persisted[x]
        BY <1>0, <1>k, <3>3 DEF AddImage, TypeOK
      <4>2. \A x \in Images : OwnParent(x)' = OwnParent(x)
        BY <4>1 DEF OwnParent
      <4>3. Nested(b)'
        BY <1>0, <1>k, <2>1, <3>1, <3>2, <4>1, <4>2 DEF Nested
      <4>4. Unmade(b)'
        BY <1>0, <1>1, <1>k, <2>1, <4>1 DEF Unmade, Strictly
      <4> QED
        BY <1>3, <4>3, <4>4
    <3>4. CASE AddImageFails(b) \/ InitWorkersFails(b) \/ SourceRaises(b)
      <4>1. caller' = [caller EXCEPT ![b].at = "raised"] /\ UNCHANGED <<thread, parent>>
        BY <3>4 DEF AddImageFails, InitWorkersFails, SourceRaises, imageVars
      <4>2. caller'[b].at = "raised" /\ \A x \in Images : OwnParent(x)' = OwnParent(x)
        BY <1>0, <4>1 DEF TypeOK, OwnParent
      <4>3. Nested(b)'
        BY <1>0, <2>1, <3>1, <3>2, <4>1, <4>2 DEF Nested
      <4>4. Unmade(b)'
        BY <4>2 DEF Unmade
      <4> QED
        BY <1>3, <4>3, <4>4
    <3>5. CASE SourceNone(b) \/ SourceById(b)
      <4>1. /\ caller[b].at = "source" /\ caller'[b].at = "start" /\ caller'[b].kind = k
            /\ UNCHANGED thread
            /\ \A x \in Images : x # <<b, k>> => parent'[x] = parent[x]
        BY <1>0, <1>k, <3>5 DEF SourceNone, SourceById, TypeOK, imageVars
      <4>2. \A m \in Kinds : m # k => OwnParent(<<b, m>>)' = OwnParent(<<b, m>>)
        BY <2>1, <4>1 DEF OwnParent
      <4>3. \A m \in Kinds : thread[<<b, m>>] = "none"
        BY <1>0, <4>1 DEF CallerAhead
      <4>4. Nested(b)'
        BY <1>0, <1>k, <3>1, <3>2, <4>1, <4>2, <4>3 DEF Nested
      <4>5. Unmade(b)'
        BY <4>1 DEF Unmade
      <4> QED
        BY <1>3, <4>4, <4>5
    <3>6. CASE SourceByTemplate(b)
      <4>1. /\ caller[b].at = "source" /\ k # "base"
            /\ caller'[b] = [at |-> "add", kind |-> ParentKind(k)]
            /\ UNCHANGED <<thread, status, persisted>>
            /\ parent' = [parent EXCEPT ![<<b, k>>] = <<b, ParentKind(k)>>]
        BY <1>0, <1>k, <3>6 DEF SourceByTemplate, Independent, TypeOK, imageVars, storeVars
      <4>2. \A m \in Kinds : m # k => OwnParent(<<b, m>>)' = OwnParent(<<b, m>>)
        BY <1>0, <2>1, <4>1 DEF OwnParent, TypeOK
      <4>3. OwnParent(<<b, k>>)'
        BY <1>0, <2>1, <4>1 DEF OwnParent, TypeOK
      <4>4. \A m \in Kinds : thread[<<b, m>>] = "none"
        BY <1>0, <4>1 DEF CallerAhead
      <4>5. Above(b, ParentKind(k)) \subseteq Above(b, k) \cup {k}
        BY <4>1 DEF Above, Strictly, Onward, ParentKind, Kinds
      <4>6. ParentKind(k) \in Kinds
        BY KindsOfRequests
      <4>7. Nested(b)'
        BY <1>0, <1>k, <3>1, <3>2, <4>1, <4>2, <4>3, <4>4, <4>5, <4>6 DEF Nested
      <4>8. \A m \in Kinds : ParentKind(k) \in Onward(m) => k \in Strictly(m)
        BY <4>1 DEF Strictly, Onward, ParentKind, Kinds
      <4>9. Unmade(b)'
        BY <1>0, <1>1, <1>k, <4>1, <4>8 DEF Unmade
      <4> QED
        BY <1>3, <4>7, <4>9
    <3>7. CASE StartThread(b)
      <4>1. /\ caller[b].at = "start" /\ UNCHANGED parent
            /\ caller'[b].at \in {"start", "returned"}
            /\ caller'[b].at = "start" => caller'[b].kind = ChildKind(k) /\ k # Product(request[b])
            /\ \A x \in Images : x # <<b, k>> => thread'[x] = thread[x]
        BY <1>0, <1>k, <3>7 DEF StartThread, TypeOK
      <4>2. \A x \in Images : OwnParent(x)' = OwnParent(x)
        BY <4>1 DEF OwnParent
      <4>3. Product(request[b]) \in Onward(k) /\ \A j \in Above(b, k) : OwnParent(<<b, j>>)
        BY <1>0, <1>k, <4>1 DEF CallerAhead, Nested
      <4>4. k # Product(request[b]) => Above(b, ChildKind(k)) \subseteq Above(b, k)
        BY <4>3 DEF Above, Strictly, Onward, ChildKind, Kinds
      <4>5. \A m \in Kinds : thread'[<<b, m>>] # "none" => m = k \/ thread[<<b, m>>] # "none"
        BY <2>1, <4>1
      <4>6. ChildKind(k) \in Kinds
        BY KindsOfRequests
      <4>7. Nested(b)'
        BY <1>0, <2>1, <3>1, <3>2, <4>1, <4>2, <4>3, <4>4, <4>5, <4>6 DEF Nested
      <4>8. Unmade(b)'
        BY <4>1 DEF Unmade
      <4> QED
        BY <1>3, <4>7, <4>8
    <3> QED
      BY <2>3, <3>3, <3>4, <3>5, <3>6, <3>7 DEF CallerStep
  <2> QED
    BY <1>3, <2>2, <2>3
<1> QED
  BY <1>2, <1>3

\* What LInv says of the images, and the step of the lifecycle.
Follows ==
  /\ \A i \in Images : Traceless(i)' /\ WritesFound(i)'
  /\ DeletesMade'
  /\ [Lifecycle!Next]_(Lifecycle!vars)

\* A call adds its image.
LEMMA CallerFollows ==
  ASSUME LInv, NEW b \in Builders, CallerStep(b) \/ \E r \in Requests[b] : Ask(b, r)
  PROVE  Follows
<1>0. /\ TypeOK /\ Deletions /\ DeletesMade /\ CallerAhead(b) /\ Unmade(b)
      /\ \A x \in Images : Traceless(x) /\ WritesFound(x)
  BY DEF LInv, IInv
<1>k. PICK k \in Kinds : k = caller[b].kind
  BY <1>0 DEF TypeOK
<1>i. PICK i \in Images : i = <<b, k>>
  BY Pairs
<1>1. UNCHANGED <<settled, deleted, raced, deletion>>
  BY DEF CallerStep, Ask, AddImage, AddImageFails, InitWorkersFails, SourceNone, SourceById,
     SourceByTemplate, SourceRaises, StartThread, storeVars
<1>2. CASE UNCHANGED <<status, persisted>>
  <2>1. \A x \in Images : BeingWritten(x)' => BeingWritten(x)
    BY <1>0, <1>1, <1>k DEF BeingWritten, CallerStep, Ask, AddImage, AddImageFails,
       InitWorkersFails, SourceNone, SourceById, SourceByTemplate, SourceRaises, StartThread,
       TypeOK, imageVars
  <2>2. UNCHANGED Lifecycle!vars
    BY <1>1, <1>2 DEF Lifecycle!vars
  <2> QED
    BY <1>0, <1>1, <1>2, <2>1, <2>2
       DEF Follows, Traceless, WritesFound, DeletesMade, Lifecycle!Writable
<1>3. CASE AddImage(b) \/ AddImageFails(b) \/ InitWorkersFails(b)
  <2>1. /\ caller[b].at = "add" /\ UNCHANGED thread
        /\ status' = [status EXCEPT ![i] = "NEW"]
        /\ \/ persisted' = [persisted EXCEPT ![i] = "NEW"]
           \/ persisted' = [persisted EXCEPT ![i] = "unreadable"]
           \/ persisted' = [persisted EXCEPT ![i] = "absent"]
    BY <1>k, <1>i, <1>3 DEF AddImage, AddImageFails, InitWorkersFails
  <2>2. status[i] = "none" /\ persisted[i] = "absent" /\ i \notin deleted /\ thread[i] = "none"
    BY <1>0, <1>k, <1>i, <2>1 DEF Unmade, CallerAhead, Onward
  <2>3. ~ BeingWritten(i)
    BY <1>0, <2>2 DEF BeingWritten, DeletesMade
  <2>4. \A x \in Images : BeingWritten(x)' <=> BeingWritten(x)
    BY <1>1, <2>1 DEF BeingWritten
  <2>5. ASSUME NEW x \in Images PROVE Traceless(x)' /\ WritesFound(x)'
    BY <1>0, <1>1, <2>1, <2>3, <2>4 DEF Traceless, WritesFound, Lifecycle!Writable, TypeOK
  <2>6. DeletesMade'
    BY <1>0, <1>1, <2>1 DEF DeletesMade, Deletions, TypeOK
  <2>7. [Lifecycle!Next]_(Lifecycle!vars)
    <3>1. CASE persisted' = [persisted EXCEPT ![i] = "NEW"]
      BY <1>1, <2>2, <3>1 DEF Lifecycle!Next, Lifecycle!Add
    <3>2. CASE persisted' = [persisted EXCEPT ![i] = "unreadable"]
      BY <1>1, <2>2, <3>2 DEF Lifecycle!Next, Lifecycle!Damage
    <3>3. CASE persisted' = [persisted EXCEPT ![i] = "absent"]
      <4>1. persisted' = persisted
        BY <1>0, <2>2, <3>3 DEF TypeOK
      <4> QED
        BY <1>1, <4>1 DEF Lifecycle!vars
    <3> QED
      BY <2>1, <3>1, <3>2, <3>3
  <2> QED
    BY <2>5, <2>6, <2>7 DEF Follows
<1> QED
  BY <1>2, <1>3 DEF CallerStep, Ask, SourceNone, SourceById, SourceByTemplate, SourceRaises,
     StartThread, imageVars, storeVars

LEMMA ThreadKeepsNested ==
  ASSUME LInv, NEW i \in Images,
         ThreadStep(i) \/ \E s \in PluginStatuses : PluginUpdates(i, s),
         NEW c \in Builders
  PROVE  Nested(c)' /\ Unmade(c)'
<1>0. TypeOK /\ CallerAhead(c) /\ Nested(c) /\ Unmade(c)
  BY DEF LInv, IInv
<1>1. /\ UNCHANGED <<parent, deleted, caller, request>>
      /\ thread[i] # "none" /\ thread[i] \in Alive
      /\ \A x \in Images : x # i => /\ thread'[x] = thread[x] /\ status'[x] = status[x]
                                    /\ persisted'[x] = persisted[x]
  BY <1>0, ThreadTouches DEF Alive
<1>2. \A x \in Images : thread[x] = "none" => thread'[x] = "none"
  BY <1>1
<1>3. Nested(c)'
  BY <1>0, <1>1, <1>2, Pairs DEF Nested, Above, Strictly, Onward, OwnParent
<1>4. Unmade(c)'
  <2>1. caller[c].at \in {"idle", "add", "source"} => \A k \in Kinds : <<c, k>> # i
    BY <1>0, <1>1 DEF CallerAhead
  <2> QED
    BY <1>0, <1>1, <2>1, Pairs DEF Unmade
<1> QED
  BY <1>3, <1>4

\* A thread settles its image once, and writes what it has found.
LEMMA ThreadFollows ==
  ASSUME LInv, NEW i \in Images,
         ThreadStep(i) \/ \E s \in PluginStatuses : PluginUpdates(i, s)
  PROVE  Follows
<1>0. /\ TypeOK /\ Deletions /\ DeletesMade /\ StatusFits(i) /\ SettledLast(i)
      /\ \A x \in Images : Traceless(x) /\ WritesFound(x)
  BY DEF LInv, IInv, ImageFits
<1>1. /\ thread[i] \in Alive
      /\ UNCHANGED <<deleted, raced, deletion>>
      /\ persisted'[i] = persisted[i] \/ thread[i] \in {"write", "failwrite"}
      /\ status'[i] = "none" => status[i] = "none"
      /\ \A x \in Images : x # i =>
           /\ thread'[x] = thread[x] /\ status'[x] = status[x]
           /\ persisted'[x] = persisted[x] /\ settled'[x] = settled[x]
  BY <1>0, ThreadTouches
<1>2. DeletesMade'
  BY <1>0, <1>1 DEF DeletesMade, Deletions
<1>3. ASSUME NEW x \in Images PROVE Traceless(x)'
  BY <1>0, <1>1 DEF Traceless, StatusFits
<1>4. /\ \A x \in Images : x # i => WritesFound(x)'
      /\ BeingWritten(i)' => BeingWritten(i) \/ thread'[i] \in {"write", "failwrite"}
  BY <1>0, <1>1 DEF WritesFound, BeingWritten, Lifecycle!Writable
<1>5. CASE Write(i) \/ FailWrite(i)
  <2>1. BeingWritten(i) /\ Lifecycle!Writable(i) /\ settled[i] = "no"
    <3>1. thread[i] \in {"write", "failwrite"}
      BY <1>5 DEF Write, FailWrite, Raises, Goes
    <3>2. BeingWritten(i)
      BY <3>1 DEF BeingWritten
    <3> QED
      BY <1>0, <3>1, <3>2 DEF WritesFound, SettledLast
  <2>2. \/ \E s \in {"COMPLETE", "FAILED"} : WriteSucceeds(i, s)
        \/ WriteFails(i)
    BY <1>5 DEF Write, FailWrite
  <2>3. CASE \E s \in {"COMPLETE", "FAILED"} : WriteSucceeds(i, s)
    <3>1. PICK s \in {"COMPLETE", "FAILED"} : WriteSucceeds(i, s)
      BY <2>3
    <3>2. Lifecycle!Settle(i, s)
      BY <2>1, <3>1 DEF WriteSucceeds, Lifecycle!Settle
    <3>3. WritesFound(i)'
      BY <1>0, <3>1 DEF WriteSucceeds, WritesFound, Lifecycle!Writable, TypeOK
    <3> QED
      BY <1>2, <1>3, <1>4, <3>2, <3>3 DEF Follows, Lifecycle!Next
  <2>4. CASE WriteFails(i)
    <3>1. PICK left \in {persisted[i], "unreadable"} : persisted' = [persisted EXCEPT ![i] = left]
      BY <2>4 DEF WriteFails
    <3>2. UNCHANGED <<settled, deleted, raced>>
      BY <2>4 DEF WriteFails
    <3>3. WritesFound(i)'
      BY <1>0, <2>1, <3>1, <3>2 DEF WritesFound, Lifecycle!Writable, TypeOK
    <3>4. [Lifecycle!Next]_(Lifecycle!vars)
      <4>1. CASE left = "unreadable"
        BY <2>1, <3>1, <3>2, <4>1 DEF Lifecycle!Next, Lifecycle!Damage
      <4>2. CASE left = persisted[i]
        <5>1. persisted' = persisted
          BY <1>0, <3>1, <4>2 DEF TypeOK
        <5> QED
          BY <3>2, <5>1 DEF Lifecycle!vars
      <4> QED
        BY <3>1, <4>1, <4>2
    <3> QED
      BY <1>2, <1>3, <1>4, <3>3, <3>4 DEF Follows
  <2> QED
    BY <2>2, <2>3, <2>4
<1>6. CASE ~ (Write(i) \/ FailWrite(i))
  <2>1. UNCHANGED <<persisted, settled>>
    BY <1>6 DEF ThreadStep, ThreadStart, JoinParent, CheckParent, Poll, FindPlugins, PluginReturns,
       PluginRaises, PluginUpdates, Save, FailSave, ShutWorkers, SaveRefused, storeVars
  <2>2. thread'[i] \in {"write", "failwrite"} => persisted[i] # "absent"
    BY <1>0, <1>6 DEF ThreadStep, ThreadStart, JoinParent, CheckParent, Poll, FindPlugins,
       PluginReturns, PluginRaises, PluginUpdates, Save, FailSave, ShutWorkers, IsManaged, Raises,
       AfterRaise, Goes, TypeOK
  <2>3. WritesFound(i)'
    BY <1>0, <1>1, <1>4, <2>1, <2>2 DEF WritesFound, Lifecycle!Writable
  <2>4. UNCHANGED Lifecycle!vars
    BY <1>1, <2>1 DEF Lifecycle!vars
  <2> QED
    BY <1>2, <1>3, <1>4, <2>3, <2>4 DEF Follows
<1> QED
  BY <1>5, <1>6

\* A deletion writes what it has found, too.
LEMMA DeletionFollows ==
  ASSUME LInv, NEW d \in Deleters, DeleteStep(d) \/ \E i \in Images : AskDelete(d, i)
  PROVE  Follows /\ \A c \in Builders : Nested(c)' /\ Unmade(c)'
<1>0. /\ TypeOK /\ Deletions /\ DeletesMade
      /\ \A x \in Images : Traceless(x) /\ WritesFound(x)
      /\ \A c \in Builders : Nested(c) /\ Unmade(c)
  BY DEF LInv, IInv
<1>1. /\ UNCHANGED <<status, thread, caller, request, parent>>
      /\ \A e \in Deleters : e # d => deletion'[e] = deletion[e]
  BY <1>0 DEF DeleteStep, AskDelete, DeleteStart, DeletePlugin, DeleteRemove, DeleteFailSave,
     DeleteFailWrite, DeleteGoes, imageVars, callerVars, TypeOK
\* The image of the deletion: only its metadata may change.
<1>2. ASSUME NEW i \in Images, deletion[d].at # "idle" => i = deletion[d].id,
             status[i] # "none", UNCHANGED settled,
             deletion'[d].at # "idle" => deletion'[d].id = i,
             deletion'[d].at = "failwrite" => persisted'[i] # "absent",
             \/ UNCHANGED <<persisted, deleted, raced>>
             \/ /\ persisted' = [persisted EXCEPT ![i] = "absent"] /\ deleted' = deleted \cup {i}
                /\ raced' = IF BeingWritten(i) THEN raced \cup {i} ELSE raced
             \/ /\ \/ persisted' = [persisted EXCEPT ![i] = "DELETEFAILED"]
                   \/ persisted' = [persisted EXCEPT ![i] = "unreadable"]
                /\ UNCHANGED <<deleted, raced>> /\ BeingWritten(i)
      PROVE  Follows /\ \A c \in Builders : Nested(c)' /\ Unmade(c)'
  <2>1. /\ \A x \in Images : x # i => persisted'[x] = persisted[x] /\ (BeingWritten(x)' => BeingWritten(x))
        /\ \A x \in Images : x # i => (x \in deleted' <=> x \in deleted) /\ (x \in raced' <=> x \in raced)
    BY <1>0, <1>1, <1>2 DEF BeingWritten, TypeOK
  <2>2. ASSUME NEW x \in Images PROVE Traceless(x)' /\ (x # i => WritesFound(x)')
    BY <1>0, <1>1, <1>2, <2>1 DEF Traceless, WritesFound, Lifecycle!Writable, TypeOK
  <2>3. WritesFound(i)'
    <3>1. BeingWritten(i)' => BeingWritten(i) \/ deletion'[d].at = "failwrite"
      BY <1>0, <1>1, <1>2 DEF BeingWritten
    <3> QED
      BY <1>0, <1>2, <3>1 DEF WritesFound, Lifecycle!Writable, TypeOK
  <2>4. DeletesMade'
    BY <1>0, <1>1, <1>2 DEF DeletesMade
  <2>5. [Lifecycle!Next]_(Lifecycle!vars)
    <3>1. CASE UNCHANGED <<persisted, deleted, raced>>
      BY <1>2, <3>1 DEF Lifecycle!vars
    <3>2. CASE persisted' = [persisted EXCEPT ![i] = "absent"] /\ deleted' = deleted \cup {i}
               /\ raced' = IF BeingWritten(i) THEN raced \cup {i} ELSE raced
      BY <1>2, <3>2 DEF Lifecycle!Next, Lifecycle!Delete
    <3>3. CASE UNCHANGED <<deleted, raced>> /\ BeingWritten(i)
               /\ persisted' = [persisted EXCEPT ![i] = "DELETEFAILED"]
      BY <1>0, <1>2, <3>3 DEF WritesFound, Lifecycle!Next, Lifecycle!DeletionFails
    <3>4. CASE UNCHANGED <<deleted, raced>> /\ BeingWritten(i)
               /\ persisted' = [persisted EXCEPT ![i] = "unreadable"]
      BY <1>0, <1>2, <3>4 DEF WritesFound, Lifecycle!Next, Lifecycle!Damage
    <3> QED
      BY <1>2, <3>1, <3>2, <3>3, <3>4
  <2>6. ASSUME NEW c \in Builders PROVE Nested(c)' /\ Unmade(c)'
    <3>1. Nested(c)'
      BY <1>0, <1>1, Pairs DEF Nested, Above, OwnParent
    <3>2. ASSUME NEW k \in Kinds, status[<<c, k>>] = "none"
          PROVE  /\ persisted'[<<c, k>>] = persisted[<<c, k>>]
                 /\ <<c, k>> \in deleted' <=> <<c, k>> \in deleted
      BY <1>2, <2>1, <3>2, Pairs
    <3> QED
      BY <1>0, <1>1, <3>1, <3>2 DEF Unmade
  <2> QED
    BY <2>2, <2>3, <2>4, <2>5, <2>6 DEF Follows
<1>3. ASSUME NEW i \in Images, AskDelete(d, i)
      PROVE  Follows /\ \A c \in Builders : Nested(c)' /\ Unmade(c)'
  <2>1. /\ deletion[d].at = "idle" /\ deletion'[d] = [at |-> "start", id |-> i, status |-> persisted[i]]
        /\ UNCHANGED <<persisted, deleted, raced, settled>>
    BY <1>0, <1>3 DEF AskDelete, storeVars, TypeOK
  <2>2. status[i] # "none"
    BY <1>0, <1>3 DEF AskDelete, CanLoad, Traceless
  <2> QED
    BY <1>2, <2>1, <2>2
<1>4. CASE DeleteStep(d)
  <2>1. PICK i \in Images : i = deletion[d].id /\ status[i] # "none" /\ deletion[d].at # "idle"
    BY <1>0, <1>4 DEF DeleteStep, DeleteStart, DeletePlugin, DeleteRemove, DeleteFailSave,
       DeleteFailWrite, DeleteGoes, Deletions, DeletesMade
  <2>2. deletion'[d].id = i
    BY <1>0, <1>4, <2>1 DEF DeleteStep, DeleteStart, DeletePlugin, DeleteRemove, DeleteFailSave,
       DeleteFailWrite, DeleteGoes, TypeOK
  <2>3. CASE DeleteStart(d) \/ DeletePlugin(d)
    <3>1. UNCHANGED <<persisted, deleted, raced, settled>> /\ deletion'[d].at # "failwrite"
      BY <1>0, <2>3 DEF DeleteStart, DeletePlugin, DeleteGoes, storeVars, TypeOK
    <3> QED
      BY <1>2, <2>1, <2>2, <3>1
  <2>4. CASE DeleteRemove(d)
    <3>1. deletion'[d].at # "failwrite" /\ UNCHANGED settled
      BY <1>0, <2>4 DEF DeleteRemove, DeleteGoes, storeVars, TypeOK
    <3>2. \/ UNCHANGED <<persisted, deleted, raced>>
          \/ /\ persisted' = [persisted EXCEPT ![i] = "absent"] /\ deleted' = deleted \cup {i}
             /\ raced' = IF BeingWritten(i) THEN raced \cup {i} ELSE raced
      BY <2>1, <2>4 DEF DeleteRemove, storeVars
    <3> QED
      BY <1>2, <2>1, <2>2, <3>1, <3>2
  <2>5. CASE DeleteFailSave(d)
    <3>1. UNCHANGED <<persisted, deleted, raced, settled>>
      BY <2>5 DEF DeleteFailSave, SaveRefused, storeVars
    <3>2. deletion'[d].at = "failwrite" => persisted[i] # "absent"
      BY <1>0, <2>1, <2>5 DEF DeleteFailSave, IsManaged, DeleteGoes, TypeOK
    <3> QED
      BY <1>2, <2>1, <2>2, <3>1, <3>2
  <2>6. CASE DeleteFailWrite(d)
    <3>1. deletion'[d].at # "failwrite" /\ BeingWritten(i)
      BY <1>0, <2>1, <2>6 DEF DeleteFailWrite, DeleteGoes, BeingWritten, TypeOK
    <3>2. UNCHANGED <<deleted, raced, settled>>
      BY <2>6 DEF DeleteFailWrite, WriteSucceeds, WriteFails
    <3>3. \/ persisted' = [persisted EXCEPT ![i] = "DELETEFAILED"]
          \/ persisted' = [persisted EXCEPT ![i] = "unreadable"]
          \/ persisted' = [persisted EXCEPT ![i] = persisted[i]]
      BY <2>1, <2>6 DEF DeleteFailWrite, WriteSucceeds, WriteFails
    <3>4. persisted' = [persisted EXCEPT ![i] = persisted[i]] => persisted' = persisted
      BY <1>0 DEF TypeOK
    <3> QED
      BY <1>2, <2>1, <2>2, <3>1, <3>2, <3>3, <3>4
  <2> QED
    BY <1>4, <2>3, <2>4, <2>5, <2>6 DEF DeleteStep
<1> QED
  BY <1>3, <1>4

\* A Builder writes one image at a time: each thread has joined the one before.
LEMMA OneWrites ==
  ASSUME LInv, NEW b \in Builders, NEW k \in Kinds, NEW m \in Kinds,
         thread[<<b, k>>] \in {"write", "failwrite"}, thread[<<b, m>>] \in {"write", "failwrite"}
  PROVE  k = m
<1>0. Nested(b) /\ \A x \in Images : KnowsParent(x)
  BY DEF LInv, IInv, ImageFits
<1>1. ASSUME NEW j \in Kinds, OwnParent(<<b, j>>),
             thread[<<b, j>>] \notin {"none", "start", "join", "crashed"}
      PROVE  thread[<<b, ParentKind(j)>>] = "ended"
  BY <1>0, <1>1, Pairs DEF KnowsParent, OwnParent
<1>2. ASSUME NEW x \in Kinds, NEW y \in Kinds, y \in Strictly(x),
             thread[<<b, x>>] \in {"write", "failwrite"}, thread[<<b, y>>] \in {"write", "failwrite"}
      PROVE  FALSE
  <2>1. Product(request[b]) \in Onward(y)
    BY <1>0, <1>2 DEF Nested
  <2>2. \A j \in Above(b, x) : OwnParent(<<b, j>>)
    BY <1>0, <1>2 DEF Nested
  <2>3. OwnParent(<<b, y>>)
    BY <1>2, <2>1, <2>2 DEF Above
  <2>4. thread[<<b, ParentKind(y)>>] = "ended"
    BY <1>1, <1>2, <2>3
  <2>5. x = "base" /\ y = "provider" /\ ParentKind(y) = "target" /\ ParentKind("target") = "base"
    BY <1>2, <2>4 DEF Strictly, Onward, ParentKind, Kinds
  <2>6. "target" \in Above(b, x)
    BY <2>1, <2>5 DEF Above, Strictly, Onward, Kinds
  <2>7. thread[<<b, "base">>] = "ended"
    BY <1>1, <2>2, <2>4, <2>5, <2>6 DEF Kinds
  <2> QED
    BY <1>2, <2>5, <2>7
<1>3. k # m => m \in Strictly(k) \/ k \in Strictly(m)
  BY DEF Strictly, Onward, Kinds
<1> QED
  BY <1>2, <1>3

LEMMA CrashFollows ==
  ASSUME LInv, NEW b \in Builders, Crash(b)
  PROVE  Follows /\ \A c \in Builders : Nested(c)' /\ Unmade(c)'
<1>0. /\ TypeOK /\ Deletions /\ DeletesMade /\ CallerAhead(b)
      /\ \A x \in Images : Traceless(x) /\ WritesFound(x)
      /\ \A c \in Builders : Nested(c) /\ Unmade(c)
  BY DEF LInv, IInv
<1>1. UNCHANGED <<status, request, parent, settled, deleted, raced, deletion>>
  BY DEF Crash
<1>2. ASSUME NEW x \in Images
      PROVE  thread'[x] = thread[x] \/ (thread[x] \in Alive /\ thread'[x] = "crashed")
  BY <1>2, Pairs DEF Crash
<1> DEFINE Written(x) == \/ \E k \in Kinds : x = <<b, k>> /\ thread[x] \in {"write", "failwrite"}
                         \/ caller[b].at = "add" /\ x = <<b, caller[b].kind>>
<1>3. \E torn \in SUBSET {x \in Images : Written(x)} :
        persisted' = [i \in Images |-> IF i \in torn THEN "unreadable" ELSE persisted[i]]
  <2> DEFINE alive == {k \in Kinds : thread[<<b, k>>] \in Alive}
             written == {<<b, k>> : k \in {k \in alive :
                             thread[<<b, k>>] \in {"write", "failwrite"}}}
                        \cup (IF caller[b].at = "add" THEN {<<b, caller[b].kind>>} ELSE {})
  <2>1. PICK torn \in SUBSET written :
          persisted' = [i \in Images |-> IF i \in torn THEN "unreadable" ELSE persisted[i]]
    BY DEF Crash
  <2>2. ASSUME NEW x \in written PROVE x \in Images /\ Written(x)
    <3>1. CASE caller[b].at = "add" /\ x = <<b, caller[b].kind>>
      BY <1>0, <3>1, Pairs DEF TypeOK
    <3>2. CASE \E k \in Kinds : x = <<b, k>> /\ thread[<<b, k>>] \in {"write", "failwrite"}
      BY <3>2, Pairs
    <3> QED
      BY <2>2, <3>1, <3>2
  <2>3. torn \in SUBSET {x \in Images : Written(x)}
    BY <2>2
  <2> QED
    BY <2>1, <2>3
<1>4. ASSUME NEW x \in Images, NEW y \in Images, Written(x), Written(y) PROVE x = y
  <2>1. caller[b].at = "add" => \A k \in Kinds : thread[<<b, k>>] = "none"
    BY <1>0 DEF CallerAhead
  <2> QED
    BY <1>4, <2>1, OneWrites
<1>5. ASSUME NEW x \in Images, Written(x)
      PROVE  x[1] = b /\ (Lifecycle!Writable(x) \/ x \notin deleted)
  <2>1. CASE thread[x] \in {"write", "failwrite"}
    BY <1>0, <1>5, <2>1 DEF WritesFound, BeingWritten
  <2>2. CASE caller[b].at = "add" /\ x = <<b, caller[b].kind>>
    BY <1>0, <2>2 DEF Unmade, Onward, TypeOK
  <2> QED
    BY <1>5, <2>1, <2>2
<1>6. PICK torn \in SUBSET {x \in Images : Written(x)} :
        persisted' = [i \in Images |-> IF i \in torn THEN "unreadable" ELSE persisted[i]]
  BY <1>3
<1>7. [Lifecycle!Next]_(Lifecycle!vars)
  <2>1. CASE torn = {}
    <3>1. persisted' = persisted
      BY <1>0, <1>6, <2>1 DEF TypeOK
    <3> QED
      BY <1>1, <3>1 DEF Lifecycle!vars
  <2>2. CASE torn # {}
    <3>1. PICK x \in torn : x \in Images /\ Written(x)
      BY <1>6, <2>2
    <3>2. torn = {x}
      BY <1>4, <1>6, <3>1
    <3>3. persisted' = [persisted EXCEPT ![x] = "unreadable"]
      BY <1>0, <1>6, <3>1, <3>2 DEF TypeOK
    <3> QED
      BY <1>1, <1>5, <3>1, <3>3 DEF Lifecycle!Next, Lifecycle!Damage
  <2> QED
    BY <2>1, <2>2
<1>8. \A x \in Images : persisted'[x] = persisted[x] \/ (persisted'[x] = "unreadable" /\ x[1] = b)
  BY <1>5, <1>6
<1>9. DeletesMade' /\ \A i \in Images : Traceless(i)' /\ WritesFound(i)'
  BY <1>0, <1>1, <1>2, <1>8 DEF DeletesMade, Traceless, WritesFound, BeingWritten,
     Lifecycle!Writable
<1>10. ASSUME NEW c \in Builders PROVE Nested(c)' /\ Unmade(c)'
  <2>1. CASE c # b
    <3>1. caller'[c] = caller[c] /\ \A k \in Kinds : persisted'[<<c, k>>] = persisted[<<c, k>>]
      BY <1>0, <1>8, <2>1, Pairs DEF Crash, TypeOK
    <3>2. \A k \in Kinds : thread'[<<c, k>>] # "none" => thread[<<c, k>>] # "none"
      BY <1>2, Pairs DEF Alive
    <3> QED
      BY <1>0, <1>1, <3>1, <3>2 DEF Nested, Unmade, Above, OwnParent
  <2>2. CASE c = b
    <3>1. caller'[b].at = "crashed"
      BY <1>0 DEF Crash, TypeOK
    <3>2. \A k \in Kinds : thread'[<<b, k>>] # "none" => thread[<<b, k>>] # "none"
      BY <1>2, Pairs DEF Alive
    <3>3. Nested(b)'
      BY <1>0, <1>1, <3>1, <3>2 DEF Nested, Above, OwnParent
    <3>4. Unmade(b)'
      BY <3>1 DEF Unmade
    <3> QED
      BY <2>2, <3>3, <3>4
  <2> QED
    BY <2>1, <2>2
<1> QED
  BY <1>7, <1>9, <1>10 DEF Follows

LEMMA InitLInv == Init => LInv
<1>1. Init => IInv
  BY InitIInv
<1>2. ASSUME Init, NEW b \in Builders PROVE Nested(b) /\ Unmade(b)
  BY <1>2, Pairs DEF Init, Nested, Unmade
<1>3. ASSUME Init, NEW i \in Images PROVE Traceless(i) /\ WritesFound(i)
  BY <1>3 DEF Init, Traceless, WritesFound, BeingWritten
<1>4. Init => DeletesMade
  BY DEF Init, DeletesMade
<1> QED
  BY <1>1, <1>2, <1>3, <1>4 DEF LInv

LEMMA NextLInv == LInv /\ [Next]_vars => LInv' /\ [Lifecycle!Next]_(Lifecycle!vars)
<1> SUFFICES ASSUME LInv, [Next]_vars PROVE LInv' /\ [Lifecycle!Next]_(Lifecycle!vars)
  OBVIOUS
<1>1. IInv'
  BY NextIInv DEF LInv
<1> SUFFICES Follows /\ \A c \in Builders : Nested(c)' /\ Unmade(c)'
  BY <1>1 DEF LInv, Follows
<1>2. CASE UNCHANGED vars
  BY <1>2 DEF LInv, Follows, Nested, Unmade, Traceless, DeletesMade, WritesFound, BeingWritten,
     Above, OwnParent, Lifecycle!Writable, Lifecycle!vars, vars, imageVars, callerVars, storeVars
<1>3. ASSUME NEW b \in Builders, CallerStep(b) \/ \E r \in Requests[b] : Ask(b, r)
      PROVE  Follows /\ \A c \in Builders : Nested(c)' /\ Unmade(c)'
  BY <1>3, CallerFollows, CallerKeepsNested
<1>4. ASSUME NEW i \in Images, ThreadStep(i) \/ \E s \in PluginStatuses : PluginUpdates(i, s)
      PROVE  Follows /\ \A c \in Builders : Nested(c)' /\ Unmade(c)'
  BY <1>4, ThreadFollows, ThreadKeepsNested
<1>5. ASSUME NEW d \in Deleters, DeleteStep(d) \/ \E i \in Images : AskDelete(d, i)
      PROVE  Follows /\ \A c \in Builders : Nested(c)' /\ Unmade(c)'
  BY <1>5, DeletionFollows
<1>6. ASSUME NEW b \in Crashes, Crash(b)
      PROVE  Follows /\ \A c \in Builders : Nested(c)' /\ Unmade(c)'
  BY <1>6, CrashFollows, CrashesAssumption
<1>7. CASE Finished \/ \E i \in Images : PollAgain(i)
  BY <1>2, <1>7 DEF Finished, PollAgain
<1> QED
  BY <1>2, <1>3, <1>4, <1>5, <1>6, <1>7 DEF Next

\* Whatever is asked for, deleted or killed, what a reader of the store sees of an
\* image is an ImageLifecycle: settled at most once, never back once deleted but by
\* a save that was overtaken (FilePersistentImageManager as Builder.py uses it).
THEOREM LifecycleHolds == Spec => ImplementsImageLifecycle
<1>1. Init => LInv
  BY InitLInv
<1>2. Init => Lifecycle!Init
  BY DEF Init, Lifecycle!Init
<1>3. LInv /\ [Next]_vars => LInv' /\ [Lifecycle!Next]_(Lifecycle!vars)
  BY NextLInv
<1> QED
  BY <1>1, <1>2, <1>3, PTL DEF Spec, ImplementsImageLifecycle, Lifecycle!Spec

\* What the abstract lifecycle gives its readers.
ReadersFit(i) ==
  /\ i \in deleted \ raced => persisted[i] = "absent"
  /\ persisted[i] \in {"COMPLETE", "FAILED"} => settled[i] = persisted[i]
  /\ persisted[i] = "NEW" => settled[i] = "no"
  /\ persisted[i] = "absent" /\ i \notin deleted => settled[i] = "no"

RInv ==
  /\ persisted \in [Images -> Stored]
  /\ settled \in [Images -> {"no", "COMPLETE", "FAILED"}]
  /\ \A i \in Images : ReadersFit(i)

LEMMA LifecycleKeeps ==
  ASSUME RInv, [Lifecycle!Next]_(Lifecycle!vars)
  PROVE  RInv' /\ \A i \in Images : settled[i] # "no" => settled'[i] = settled[i]
<1> USE DEF RInv, Stored
<1>1. CASE UNCHANGED Lifecycle!vars
  BY <1>1 DEF Lifecycle!vars, ReadersFit
<1>2. ASSUME NEW i \in Images, Lifecycle!Add(i)
      PROVE  RInv' /\ \A j \in Images : settled[j] # "no" => settled'[j] = settled[j]
  BY <1>2 DEF Lifecycle!Add, ReadersFit
<1>3. ASSUME NEW i \in Images, NEW s \in {"COMPLETE", "FAILED"}, Lifecycle!Settle(i, s)
      PROVE  RInv' /\ \A j \in Images : settled[j] # "no" => settled'[j] = settled[j]
  BY <1>3 DEF Lifecycle!Settle, Lifecycle!Writable, ReadersFit
<1>4. ASSUME NEW i \in Images, Lifecycle!DeletionFails(i) \/ Lifecycle!Damage(i)
      PROVE  RInv' /\ \A j \in Images : settled[j] # "no" => settled'[j] = settled[j]
  BY <1>4 DEF Lifecycle!DeletionFails, Lifecycle!Damage, Lifecycle!Writable, ReadersFit
<1>5. ASSUME NEW i \in Images, Lifecycle!Delete(i)
      PROVE  RInv' /\ \A j \in Images : settled[j] # "no" => settled'[j] = settled[j]
  BY <1>5 DEF Lifecycle!Delete, ReadersFit
<1> QED  BY <1>1, <1>2, <1>3, <1>4, <1>5 DEF Lifecycle!Next

LEMMA InitRInv == Lifecycle!Init => RInv
BY DEF Lifecycle!Init, RInv, ReadersFit, Stored

\* image_with_id: readers of the store agree, whenever each of them looks.  Who finds
\* an image COMPLETE or FAILED finds it as it was settled, how it was settled never
\* changes, and nobody finds it NEW after that: what a poll for a parent has seen
\* stays true (_wait_for_final_status), whatever is deleted, fails or is killed.
THEOREM ReadersAgree ==
  Spec => /\ [](\A i \in Images :
                  /\ persisted[i] \in {"COMPLETE", "FAILED"} => settled[i] = persisted[i]
                  /\ persisted[i] = "NEW" => settled[i] = "no")
          /\ [][\A i \in Images : settled[i] # "no" => settled'[i] = settled[i]]_settled
<1>1. Spec => Lifecycle!Spec
  BY LifecycleHolds DEF ImplementsImageLifecycle
<1>2. RInv /\ [Lifecycle!Next]_(Lifecycle!vars)
        => RInv' /\ [\A i \in Images : settled[i] # "no" => settled'[i] = settled[i]]_settled
  BY LifecycleKeeps
<1>3. RInv => \A i \in Images :
                /\ persisted[i] \in {"COMPLETE", "FAILED"} => settled[i] = persisted[i]
                /\ persisted[i] = "NEW" => settled[i] = "no"
  BY DEF RInv, ReadersFit
<1> QED  BY <1>1, <1>2, <1>3, InitRInv, PTL DEF Lifecycle!Spec

\* delete_image: what was deleted stays out of the store for good: neither the thread
\* that was building it, nor the except clause of that thread, nor another deletion's
\* save puts it back, but a save that had found it before it was removed.
THEOREM GoneForGood ==
  Spec => [](\A i \in deleted \ raced : persisted[i] = "absent")
<1>1. Spec => Lifecycle!Spec
  BY LifecycleHolds DEF ImplementsImageLifecycle
<1>2. RInv /\ [Lifecycle!Next]_(Lifecycle!vars) => RInv'
  BY LifecycleKeeps
<1>3. Spec => []TypeOK
  BY TypeCorrect
<1>4. RInv /\ TypeOK => \A i \in deleted \ raced : persisted[i] = "absent"
  BY DEF RInv, ReadersFit, TypeOK
<1> QED  BY <1>1, <1>2, <1>3, <1>4, InitRInv, PTL DEF Lifecycle!Spec

-----------------------------------------------------------------------------
(* The waits: a thread joins its parent's thread, or polls the store for    *)
(* the parent, and the parent's thread may be waiting in turn.              *)

\* The images that a call has made and not yet started a thread for, from the one
\* it is at to the one that was asked for: nobody else leaves an image NEW without
\* a thread, but a call that raised or was killed.
Making(b) ==
  \A k \in Kinds :
    persisted[<<b, k>>] = "NEW" /\ thread[<<b, k>>] = "none" =>
      \/ caller[b].at \in {"raised", "crashed"}
      \/ /\ caller[b].at \in {"add", "source", "start"}
         /\ k \in Onward(caller[b].kind) /\ Product(request[b]) \in Onward(k)

\* A source is looked up once for each image.
NotGiven(b) ==
  \A k \in Kinds :
    \/ caller[b].at = "idle"
    \/ caller[b].at \in {"add", "source"} /\ caller[b].kind \in Onward(k)
    => parent[<<b, k>>] = NoImage

\* The threads of a process are killed together.
CrashTogether(b) ==
  (\E k \in Kinds : thread[<<b, k>>] = "crashed") =>
    caller[b].at = "crashed" /\ \A k \in Kinds : thread[<<b, k>>] \notin Alive

\* The thread of a parent that the request makes is started before its child's.
ParentStarted(b) ==
  caller[b].at = "start" /\ OwnParent(<<b, caller[b].kind>>) =>
    thread[<<b, ParentKind(caller[b].kind)>>] # "none"

\* The builders whose images are asked for have been asked before.
AskedBefore(b) ==
  LET id == request[b].id IN
  id # NoImage => id[1] # b /\ (caller[id[1]].at # "idle" \/ Requests[id[1]] = {})

JoinsStarted(i) == OwnParent(i) /\ thread[i] # "none" => thread[parent[i]] # "none"

ParentGiven(i) == parent[i] # NoImage => OwnParent(i) \/ parent[i] = request[i[1]].id

HasParent(i) ==
  /\ thread[i] \in {"join", "check", "poll"} => parent[i] # NoImage
  /\ thread[i] = "join" => OwnParent(i)

\* An image that was deleted is not made again.
NotNewAgain(i) == i \in deleted => persisted[i] # "NEW"

\* An order in which the builders have been asked.
Ordered(r) == \A b \in Builders : request[b].id # NoImage => r[request[b].id[1]] < r[b]

\* What a Builder keeps to for its threads to end.
BuilderWaits(b) ==
  Making(b) /\ NotGiven(b) /\ CrashTogether(b) /\ ParentStarted(b) /\ AskedBefore(b)

\* What a waiting thread can rely on.
ImageWaits(i) == JoinsStarted(i) /\ ParentGiven(i) /\ HasParent(i) /\ NotNewAgain(i)

\* The invariant, with an order of the Builders in which they may have been asked.
WInv ==
  /\ LInv
  /\ \A b \in Builders : BuilderWaits(b)
  /\ \A i \in Images : ImageWaits(i)
  /\ \E r \in [Builders -> Nat] : Ordered(r)

\* A parent, and what a request asks for, is an image.
LEMMA ParentsAreImages ==
  ASSUME TypeOK
  PROVE  /\ \A i \in Images : parent[i] # NoImage => parent[i] \in Images /\ parent[i][1] \in Builders
         /\ \A i \in Images : OwnParent(i) => parent[i] # NoImage
         /\ \A b \in Builders : request[b].id # NoImage => request[b].id \in Images /\ request[b].id[1] \in Builders
<1>1. \A i \in Images : parent[i] # NoImage => parent[i] \in Images
  BY DEF TypeOK
<1>2. \A i \in Images : <<i[1], ParentKind(i[2])>> \in Images
  BY Pairs, KindsOfRequests
<1>3. \A i \in Images : OwnParent(i) => parent[i] # NoImage
  BY <1>2, NoImageAssumption DEF OwnParent
<1>4. \A b \in Builders : request[b].id # NoImage => request[b].id \in Images
  BY KindsOfRequests DEF TypeOK
<1> QED
  BY <1>1, <1>3, <1>4, Pairs

\* A Builder that a step leaves to its threads.
LEMMA OthersWait ==
  ASSUME TypeOK, NEW c \in Builders, BuilderWaits(c),
         caller'[c] = caller[c], request'[c] = request[c],
         \A b \in Builders : caller[b].at # "idle" => caller'[b].at # "idle",
         \A k \in Kinds :
           /\ parent'[<<c, k>>] = parent[<<c, k>>]
           /\ persisted'[<<c, k>>] = "NEW" => persisted[<<c, k>>] = "NEW"
           /\ \/ thread'[<<c, k>>] = thread[<<c, k>>]
              \/ thread[<<c, k>>] \in Alive /\ thread'[<<c, k>>] \in Alive \cup {"ended"}
  PROVE  BuilderWaits(c)'
<1> USE DEF BuilderWaits
<1>0. \A k \in Kinds : <<c, k>> \in Images /\ <<c, ParentKind(k)>> \in Images /\ ParentKind(k) \in Kinds
  BY Pairs, KindsOfRequests
<1>1. caller[c].kind \in Kinds
  BY DEF TypeOK
<1>2. "none" \notin Alive \cup {"ended"} /\ "crashed" \notin Alive \cup {"ended"}
  BY DEF Alive
<1>3. Making(c)'
  BY <1>2 DEF Making
<1>4. NotGiven(c)'
  BY DEF NotGiven
<1>5. CrashTogether(c)'
  BY <1>2 DEF CrashTogether
<1>6. ParentStarted(c)'
  BY <1>0, <1>1, <1>2 DEF ParentStarted, OwnParent
<1>7. AskedBefore(c)'
  BY ParentsAreImages DEF AskedBefore
<1> QED
  BY <1>3, <1>4, <1>5, <1>6, <1>7

\* An image that a step leaves with its parent.
LEMMA ImageStays ==
  ASSUME TypeOK, NEW i \in Images, ImageWaits(i), HasParent(i)',
         parent'[i] = parent[i], parent[i] # NoImage => request'[i[1]] = request[i[1]],
         thread[i] = "none" => thread'[i] = "none",
         \A x \in Images : thread'[x] = "none" => thread[x] = "none",
         persisted'[i] = "NEW" => persisted[i] = "NEW" /\ (i \in deleted' => i \in deleted)
  PROVE  ImageWaits(i)'
<1> USE DEF ImageWaits
<1>1. OwnParent(i)' <=> OwnParent(i)
  BY DEF OwnParent
<1>2. OwnParent(i) => parent[i] \in Images
  BY ParentsAreImages
<1>3. JoinsStarted(i)'
  BY <1>1, <1>2 DEF JoinsStarted
<1>4. ParentGiven(i)'
  BY <1>1 DEF ParentGiven
<1>5. NotNewAgain(i)'
  BY DEF NotNewAgain
<1> QED
  BY <1>3, <1>4, <1>5

\* A thread waits for a parent only if it has one.
LEMMA ThreadWaits ==
  ASSUME WInv, NEW i \in Images, ThreadStep(i) \/ \E s \in PluginStatuses : PluginUpdates(i, s)
  PROVE  /\ \A c \in Builders : BuilderWaits(c)'
         /\ \A j \in Images : ImageWaits(j)'
<1>0. TypeOK /\ (\A x \in Images : ImageWaits(x)) /\ (\A c \in Builders : BuilderWaits(c))
  BY DEF WInv, LInv, IInv
<1>1. /\ thread[i] \in Alive
      /\ UNCHANGED <<parent, deleted, caller, request>>
      /\ \A x \in Images : x # i => thread'[x] = thread[x] /\ persisted'[x] = persisted[x]
  BY <1>0, ThreadTouches
<1>2. thread'[i] \in Alive \cup {"ended"}
  BY <1>0, <1>1 DEF ThreadStep, ThreadStart, JoinParent, CheckParent, Poll, FindPlugins,
     PluginReturns, PluginRaises, Save, Write, FailSave, FailWrite, ShutWorkers, PluginUpdates,
     Raises, Goes, AfterRaise, Alive, TypeOK
<1>3. persisted'[i] = "NEW" => persisted[i] = "NEW"
  <2>1. CASE persisted' = persisted
    BY <2>1
  <2>2. CASE \E s \in {"COMPLETE", "FAILED"} : WriteSucceeds(i, s)
    BY <1>0, <2>2 DEF WriteSucceeds, TypeOK
  <2>3. CASE WriteFails(i)
    BY <1>0, <2>3 DEF WriteFails, TypeOK
  <2> QED
    BY <2>1, <2>2, <2>3 DEF ThreadStep, ThreadStart, JoinParent, CheckParent, Poll, FindPlugins,
       PluginReturns, PluginRaises, Save, Write, FailSave, FailWrite, ShutWorkers, PluginUpdates,
       SaveRefused, storeVars
<1>4. HasParent(i)'
  <2>1. OwnParent(i)' <=> OwnParent(i)
    BY <1>1 DEF OwnParent
  <2>2. CASE ThreadStart(i)
    BY <1>0, <1>1, <2>1, <2>2, ParentsAreImages DEF ThreadStart, Goes, HasParent, TypeOK
  <2>3. CASE JoinParent(i) \/ CheckParent(i)
    BY <1>0, <1>1, <2>1, <2>3 DEF JoinParent, CheckParent, Raises, Goes, AfterRaise, HasParent,
       ImageWaits, TypeOK
  <2>4. CASE Poll(i)
    BY <1>0, <1>1, <2>1, <2>4 DEF Poll, Raises, Goes, AfterRaise, HasParent, ImageWaits, TypeOK
  <2>5. CASE thread'[i] \notin {"join", "check", "poll"}
    BY <2>5 DEF HasParent
  <2>6. \/ ThreadStart(i) \/ JoinParent(i) \/ CheckParent(i) \/ Poll(i)
        \/ thread'[i] \notin {"join", "check", "poll"}
    BY <1>0 DEF ThreadStep, FindPlugins, PluginReturns, PluginRaises, Save, Write, FailSave,
       FailWrite, ShutWorkers, PluginUpdates, Raises, Goes, AfterRaise, TypeOK
  <2> QED
    BY <2>2, <2>3, <2>4, <2>5, <2>6
<1>5. "none" \notin Alive \cup {"ended"}
  BY DEF Alive
<1>6. ASSUME NEW c \in Builders PROVE BuilderWaits(c)'
  <2>1. \A k \in Kinds : <<c, k>> \in Images
    BY Pairs
  <2> QED
    BY <1>0, <1>1, <1>2, <1>3, <2>1, OthersWait
<1>7. ASSUME NEW j \in Images PROVE ImageWaits(j)'
  <2>1. HasParent(j)'
    <3>1. CASE j # i
      BY <1>0, <1>1, <3>1 DEF ImageWaits, HasParent, OwnParent
    <3> QED
      BY <1>4, <3>1
  <2>2. \A x \in Images : thread'[x] = "none" <=> thread[x] = "none"
    BY <1>1, <1>2, <1>5
  <2> QED
    BY <1>0, <1>1, <1>3, <2>1, <2>2, Pairs, ImageStays
<1> QED
  BY <1>6, <1>7

\* A deletion does away with an image, and makes none.
LEMMA DeletionWaits ==
  ASSUME WInv, NEW d \in Deleters, DeleteStep(d) \/ \E i \in Images : AskDelete(d, i)
  PROVE  /\ \A c \in Builders : BuilderWaits(c)'
         /\ \A j \in Images : ImageWaits(j)'
<1>0. /\ TypeOK /\ Deletions
      /\ (\A x \in Images : ImageWaits(x)) /\ (\A c \in Builders : BuilderWaits(c))
  BY DEF WInv, LInv, IInv
<1>1. UNCHANGED <<imageVars, callerVars, seen>>
  BY DEF DeleteStep, AskDelete, DeleteStart, DeletePlugin, DeleteRemove, DeleteFailSave,
     DeleteFailWrite, DeleteGoes
<1>2. UNCHANGED <<thread, caller, request, parent>>
  BY <1>1 DEF imageVars, callerVars
<1>3. \A j \in Images : persisted'[j] = "NEW" => persisted[j] = "NEW" /\ (j \in deleted' => j \in deleted)
  <2>0. deletion[d].at # "idle" => deletion[d].id \in Images
    BY <1>0 DEF Deletions
  <2>1. CASE persisted' = persisted /\ deleted' = deleted
    BY <2>1
  <2>2. CASE DeleteRemove(d)
    BY <1>0, <2>0, <2>2 DEF DeleteRemove, DeleteGoes, storeVars, TypeOK
  <2>3. CASE deletion[d].at = "failwrite" /\ WriteSucceeds(deletion[d].id, "DELETEFAILED")
    BY <1>0, <2>0, <2>3 DEF WriteSucceeds, TypeOK
  <2>4. CASE deletion[d].at = "failwrite" /\ WriteFails(deletion[d].id)
    BY <1>0, <2>0, <2>4 DEF WriteFails, TypeOK
  <2> QED
    BY <2>1, <2>2, <2>3, <2>4 DEF DeleteStep, AskDelete, DeleteStart, DeletePlugin, DeleteFailSave,
       DeleteFailWrite, DeleteGoes, SaveRefused, storeVars
<1>4. ASSUME NEW c \in Builders PROVE BuilderWaits(c)'
  <2>1. \A k \in Kinds : <<c, k>> \in Images
    BY Pairs
  <2> QED
    BY <1>0, <1>2, <1>3, <2>1, OthersWait
<1>5. ASSUME NEW j \in Images PROVE ImageWaits(j)'
  <2>1. HasParent(j)'
    BY <1>0, <1>2 DEF ImageWaits, HasParent, OwnParent
  <2> QED
    BY <1>0, <1>2, <1>3, <2>1, ImageStays
<1> QED
  BY <1>4, <1>5

\* A crash ends the waits of its Builder.
LEMMA CrashWaits ==
  ASSUME WInv, NEW b \in Builders, Crash(b)
  PROVE  /\ \A c \in Builders : BuilderWaits(c)'
         /\ \A j \in Images : ImageWaits(j)'
<1>0. /\ TypeOK /\ (\A x \in Images : ImageWaits(x)) /\ (\A c \in Builders : BuilderWaits(c))
  BY DEF WInv, LInv, IInv
<1>1. UNCHANGED <<request, parent, deleted>>
  BY DEF Crash
<1>2. ASSUME NEW x \in Images
      PROVE  IF x[1] = b /\ thread[x] \in Alive THEN thread'[x] = "crashed"
                                                ELSE thread'[x] = thread[x]
  BY <1>2, Pairs DEF Crash
<1>3. \A x \in Images : persisted'[x] \in {persisted[x], "unreadable"}
  BY DEF Crash
<1>4. /\ caller'[b].at = "crashed"
      /\ \A c \in Builders : c # b => caller'[c] = caller[c]
  BY <1>0 DEF Crash, TypeOK
<1>5. "crashed" \notin Alive /\ "none" \notin Alive
  BY DEF Alive
<1>6. ASSUME NEW c \in Builders PROVE BuilderWaits(c)'
  <2>0. \A k \in Kinds : <<c, k>> \in Images /\ <<c, k>>[1] = c
    BY Pairs
  <2>1. CASE c = b
    <3>1. Making(b)' /\ NotGiven(b)' /\ ParentStarted(b)'
      BY <1>4 DEF Making, NotGiven, ParentStarted
    <3>2. CrashTogether(b)'
      BY <1>2, <1>4, <1>5, <2>0, <2>1 DEF CrashTogether
    <3>3. AskedBefore(b)'
      BY <1>0, <1>1, <1>4, ParentsAreImages DEF BuilderWaits, AskedBefore
    <3> QED
      BY <2>1, <3>1, <3>2, <3>3 DEF BuilderWaits
  <2>2. CASE c # b
    <3>1. \A k \in Kinds : thread'[<<c, k>>] = thread[<<c, k>>]
      BY <1>2, <2>0, <2>2
    <3>2. \A x \in Builders : caller[x].at # "idle" => caller'[x].at # "idle"
      BY <1>4
    <3>3. \A k \in Kinds : persisted'[<<c, k>>] = "NEW" => persisted[<<c, k>>] = "NEW"
      BY <1>3, <2>0
    <3> QED
      BY <1>0, <1>1, <1>4, <2>2, <3>1, <3>2, <3>3, OthersWait
  <2> QED
    BY <2>1, <2>2
<1>7. ASSUME NEW j \in Images PROVE ImageWaits(j)'
  <2>1. HasParent(j)'
    BY <1>0, <1>1, <1>2 DEF ImageWaits, HasParent, OwnParent
  <2>2. \A x \in Images : thread'[x] = "none" <=> thread[x] = "none"
    BY <1>2, <1>5
  <2> QED
    BY <1>0, <1>1, <1>3, <2>1, <2>2, Pairs, ImageStays
<1> QED
  BY <1>6, <1>7

\* A call makes its images one within the other and starts their threads in turn.
LEMMA CallerWaits ==
  ASSUME WInv, NEW b \in Builders, CallerStep(b) \/ \E r \in Requests[b] : Ask(b, r)
  PROVE  /\ \A c \in Builders : BuilderWaits(c)'
         /\ \A j \in Images : ImageWaits(j)'
<1>0. /\ TypeOK /\ (\A x \in Images : ImageWaits(x)) /\ (\A c \in Builders : BuilderWaits(c))
      /\ CallerAhead(b) /\ Unmade(b) /\ \A c \in Builders : Unmade(c)
  BY DEF WInv, LInv, IInv
<1>k. PICK k \in Kinds : k = caller[b].kind
  BY <1>0 DEF TypeOK
<1>i. PICK i \in Images : i = <<b, k>>
  BY Pairs
<1>p. \A m \in Kinds : <<b, m>> \in Images /\ <<b, m>>[1] = b /\ (m # k => <<b, m>> # i)
  BY <1>i, Pairs
<1>1. deleted' = deleted
  BY DEF CallerStep, Ask, AddImage, AddImageFails, InitWorkersFails, SourceNone, SourceById,
     SourceByTemplate, SourceRaises, StartThread, storeVars
<1>2. /\ \A c \in Builders : c # b => caller'[c] = caller[c] /\ request'[c] = request[c]
      /\ caller'[b].at # "idle"
      /\ \A x \in Images : x # i =>
           thread'[x] = thread[x] /\ parent'[x] = parent[x] /\ persisted'[x] = persisted[x]
  BY <1>0, <1>k, <1>i DEF CallerStep, Ask, AddImage, AddImageFails, InitWorkersFails, SourceNone,
     SourceById, SourceByTemplate, SourceRaises, StartThread, TypeOK, imageVars, storeVars
<1>3. \A c \in Builders : caller[c].at # "idle" => caller'[c].at # "idle"
  BY <1>2
<1>4. ASSUME NEW c \in Builders, c # b PROVE BuilderWaits(c)'
  <2>1. \A m \in Kinds : <<c, m>> \in Images /\ <<c, m>> # i
    BY <1>4, <1>i, Pairs
  <2> QED
    BY <1>0, <1>2, <1>3, <1>4, <2>1, OthersWait
<1>5. ASSUME thread'[i] # "none" \/ UNCHANGED thread, HasParent(i)', ImageWaits(i)',
             NEW j \in Images, j[1] = b => parent[j] = NoImage \/ request' = request
      PROVE  ImageWaits(j)'
  <2>1. CASE j # i
    <3>1. HasParent(j)'
      BY <1>0, <1>2, <2>1 DEF ImageWaits, HasParent, OwnParent
    <3>2. \A x \in Images : thread'[x] = "none" => thread[x] = "none"
      BY <1>2, <1>5
    <3>3. parent[j] # NoImage => request'[j[1]] = request[j[1]]
      BY <1>2, <1>5, Pairs
    <3> QED
      BY <1>0, <1>1, <1>2, <2>1, <3>1, <3>2, <3>3, ImageStays
  <2> QED
    BY <1>5, <2>1
<1> USE DEF BuilderWaits, ImageWaits
<1>6. CASE \E r \in Requests[b] : Ask(b, r)
  <2>1. PICK r \in Requests[b] : Ask(b, r)
    BY <1>6
  <2>2. /\ caller[b].at = "idle" /\ caller'[b].at = "add"
        /\ request'[b] = r /\ r.id \in KnownIds
        /\ UNCHANGED <<thread, parent, persisted>>
    BY <1>0, <2>1 DEF Ask, TypeOK, imageVars, storeVars
  <2>3. \A m \in Kinds : /\ thread[<<b, m>>] = "none" /\ persisted[<<b, m>>] = "absent"
                         /\ parent[<<b, m>>] = NoImage /\ status[<<b, m>>] = "none"
    BY <1>0, <2>2 DEF CallerAhead, Unmade, NotGiven
  <2>4. Making(b)' /\ NotGiven(b)' /\ CrashTogether(b)' /\ ParentStarted(b)'
    BY <2>2, <2>3 DEF Making, NotGiven, CrashTogether, ParentStarted
  <2>5. AskedBefore(b)'
    <3>1. r.id # NoImage => /\ r.id \in Images /\ r.id[1] \in Builders /\ r.id[1] # b
                            /\ status[r.id] # "none" \/ Requests[r.id[1]] = {}
      BY <2>2, KindsOfRequests, RequestsAssumption, Pairs DEF KnownIds
    <3>2. r.id # NoImage /\ status[r.id] # "none" => caller[r.id[1]].at # "idle"
      BY <1>0, <3>1, Pairs DEF Unmade
    <3> QED
      BY <1>3, <2>2, <3>1, <3>2 DEF AskedBefore
  <2>6. ASSUME NEW j \in Images PROVE ImageWaits(j)'
    <3>1. HasParent(j)'
      BY <1>0, <2>2 DEF HasParent, OwnParent
    <3>2. parent[j] # NoImage => j[1] # b
      BY <2>3, Pairs
    <3> QED
      BY <1>0, <1>1, <1>2, <2>2, <3>1, <3>2, Pairs, ImageStays
  <2> QED
    BY <1>4, <2>4, <2>5, <2>6
<1>7. CASE AddImage(b) \/ AddImageFails(b) \/ InitWorkersFails(b)
  <2>1. /\ caller[b].at = "add"
        /\ \/ caller'[b] = [at |-> "source", kind |-> k]
           \/ caller'[b].at = "raised"
        /\ UNCHANGED <<request, thread, parent>>
    BY <1>0, <1>7, <1>k DEF AddImage, AddImageFails, InitWorkersFails, TypeOK
  <2>2. /\ \A m \in Kinds : thread[<<b, m>>] = "none"
        /\ Product(request[b]) \in Onward(k) /\ parent[i] = NoImage /\ i \notin deleted
    BY <1>0, <1>k, <1>i, <2>1 DEF CallerAhead, NotGiven, Unmade, Onward
  <2>3. Making(b)'
    BY <1>0, <1>2, <1>k, <1>i, <1>p, <2>1, <2>2 DEF Making, Onward
  <2>4. NotGiven(b)' /\ CrashTogether(b)' /\ ParentStarted(b)'
    <3>1. NotGiven(b)'
      BY <1>0, <1>k, <2>1 DEF NotGiven
    <3>2. CrashTogether(b)'
      BY <2>1, <2>2 DEF CrashTogether
    <3>3. ParentStarted(b)'
      BY <2>1 DEF ParentStarted
    <3> QED
      BY <3>1, <3>2, <3>3
  <2>5. AskedBefore(b)'
    BY <1>0, <1>3, <2>1, ParentsAreImages DEF AskedBefore
  <2>6. HasParent(i)' /\ ImageWaits(i)'
    BY <1>0, <1>1, <1>i, <2>1, <2>2, ParentsAreImages
    DEF HasParent, JoinsStarted, ParentGiven, NotNewAgain, OwnParent
  <2> QED
    BY <1>4, <1>5, <2>1, <2>3, <2>4, <2>5, <2>6
<1>8. CASE SourceNone(b) \/ SourceById(b) \/ SourceRaises(b)
  <2>1. /\ caller[b].at = "source"
        /\ \/ caller'[b] = [at |-> "start", kind |-> k]
           \/ caller'[b].at = "raised"
        /\ UNCHANGED <<request, thread, persisted>>
        /\ parent'[i] \in {parent[i], request[b].id}
    BY <1>0, <1>8, <1>k, <1>i DEF SourceNone, SourceById, SourceRaises, GivenId, CanUseId, HasId,
       TypeOK, imageVars, storeVars
  <2>2. /\ \A m \in Kinds : thread[<<b, m>>] = "none"
        /\ parent[i] = NoImage
    BY <1>0, <1>k, <1>i, <2>1 DEF CallerAhead, NotGiven, Onward
  <2>3. ~ OwnParent(i)'
    <3>1. request[b].id # NoImage => request[b].id[1] # b
      BY <1>0 DEF AskedBefore
    <3>2. \A m \in Kinds : <<b, m>> # NoImage /\ <<b, m>>[1] = b
      BY <1>p, NoImageAssumption
    <3> QED
      BY <1>i, <2>1, <2>2, <3>1, <3>2, KindsOfRequests DEF OwnParent
  <2>4. Making(b)'
    BY <1>0, <1>k, <2>1 DEF Making
  <2>5. NotGiven(b)' /\ CrashTogether(b)' /\ ParentStarted(b)'
    <3>1. NotGiven(b)'
      BY <2>1 DEF NotGiven
    <3>2. CrashTogether(b)'
      BY <2>1, <2>2 DEF CrashTogether
    <3>3. caller'[b].at = "start" => caller'[b].kind = k
      BY <2>1
    <3>4. ParentStarted(b)'
      BY <1>i, <2>3, <3>3 DEF ParentStarted
    <3> QED
      BY <3>1, <3>2, <3>4
  <2>6. AskedBefore(b)'
    BY <1>0, <1>3, <2>1, ParentsAreImages DEF AskedBefore
  <2>7. HasParent(i)' /\ ImageWaits(i)'
    BY <1>0, <1>1, <1>i, <1>p, <2>1, <2>2, <2>3 DEF HasParent, JoinsStarted, ParentGiven, NotNewAgain
  <2> QED
    BY <1>4, <1>5, <2>1, <2>4, <2>5, <2>6, <2>7
<1>9. CASE SourceByTemplate(b)
  <2>1. /\ caller[b].at = "source" /\ k # "base"
        /\ caller'[b] = [at |-> "add", kind |-> ParentKind(k)]
        /\ UNCHANGED <<request, thread, persisted>>
        /\ parent'[i] = <<b, ParentKind(k)>>
    BY <1>0, <1>9, <1>k, <1>i DEF SourceByTemplate, Independent, TypeOK, imageVars, storeVars
  <2>2. \A m \in Kinds : thread[<<b, m>>] = "none"
    BY <1>0, <2>1 DEF CallerAhead
  <2>3. /\ \A m \in Kinds : m \in Onward(k) => m \in Onward(ParentKind(k))
        /\ \A m \in Kinds : ParentKind(k) \in Onward(m) => m # k /\ k \in Onward(m)
    BY <2>1 DEF Onward, ParentKind, Kinds
  <2>4. Making(b)'
    BY <1>0, <1>k, <2>1, <2>3 DEF Making
  <2>5. NotGiven(b)'
    BY <1>0, <1>2, <1>k, <1>p, <2>1, <2>3 DEF NotGiven
  <2>6. CrashTogether(b)' /\ ParentStarted(b)'
    <3>1. CrashTogether(b)'
      BY <2>1, <2>2 DEF CrashTogether
    <3>2. ParentStarted(b)'
      BY <2>1 DEF ParentStarted
    <3> QED
      BY <3>1, <3>2
  <2>7. AskedBefore(b)'
    BY <1>0, <1>3, <2>1, ParentsAreImages DEF AskedBefore
  <2>8. OwnParent(i)'
    BY <1>i, <2>1 DEF OwnParent
  <2>9. HasParent(i)' /\ ImageWaits(i)'
    BY <1>0, <1>1, <1>i, <2>1, <2>2, <2>8 DEF HasParent, JoinsStarted, ParentGiven, NotNewAgain
  <2> QED
    BY <1>4, <1>5, <2>1, <2>4, <2>5, <2>6, <2>7, <2>9
<1>10. CASE StartThread(b)
  <2>1. /\ caller[b].at = "start" /\ UNCHANGED <<request, parent, persisted>>
        /\ thread'[i] = "start"
        /\ IF k = Product(request[b]) THEN caller'[b].at = "returned"
           ELSE caller'[b].at = "start" /\ caller'[b].kind = ChildKind(k)
    <3>1. /\ caller[b].at = "start" /\ UNCHANGED <<request, parent, persisted>>
          /\ thread'[i] = "start"
      BY <1>0, <1>10, <1>k, <1>i DEF StartThread, TypeOK, storeVars
    <3>2. CASE k = Product(request[b])
      BY <1>0, <1>10, <1>k, <3>1, <3>2 DEF StartThread, TypeOK
    <3>3. CASE k # Product(request[b])
      BY <1>0, <1>10, <1>k, <3>1, <3>3 DEF StartThread, TypeOK
    <3> QED
      BY <3>1, <3>2, <3>3
  <2>2. Product(request[b]) \in Onward(k)
    BY <1>0, <1>k, <2>1 DEF CallerAhead
  <2>3. /\ \A m \in Kinds : k = Product(request[b]) /\ m \in Onward(k) /\ Product(request[b]) \in Onward(m) => m = k
        /\ \A m \in Kinds : m \in Onward(k) /\ m # k /\ k # Product(request[b]) => m \in Onward(ChildKind(k))
        /\ k # Product(request[b]) => ParentKind(ChildKind(k)) = k
    BY <2>2 DEF Onward, ParentKind, ChildKind, Kinds
  <2>4. Making(b)'
    BY <1>0, <1>2, <1>k, <1>i, <1>p, <2>1, <2>3 DEF Making
  <2>5. NotGiven(b)'
    BY <2>1 DEF NotGiven
  <2>6. CrashTogether(b)'
    BY <1>0, <1>2, <1>i, <1>p, <2>1 DEF CrashTogether
  <2>7. ParentStarted(b)'
    BY <1>i, <2>1, <2>3 DEF ParentStarted
  <2>8. AskedBefore(b)'
    BY <1>0, <1>3, <2>1, ParentsAreImages DEF AskedBefore
  <2>9. OwnParent(i)' <=> OwnParent(i)
    BY <2>1 DEF OwnParent
  <2>10. JoinsStarted(i)'
    <3>1. OwnParent(i) => parent[i] = <<b, ParentKind(k)>> /\ thread[parent[i]] # "none"
      BY <1>0, <1>k, <1>i, <2>1 DEF OwnParent, ParentStarted
    <3>2. <<b, ParentKind(k)>> \in Images
      BY <1>p, KindsOfRequests
    <3> QED
      BY <1>2, <2>1, <2>9, <3>1, <3>2 DEF JoinsStarted
  <2>11. HasParent(i)' /\ ImageWaits(i)'
    BY <1>0, <1>1, <2>1, <2>9, <2>10 DEF HasParent, ParentGiven, NotNewAgain
  <2> QED
    BY <1>4, <1>5, <2>1, <2>4, <2>5, <2>6, <2>7, <2>8, <2>11
<1> QED
  BY <1>6, <1>7, <1>8, <1>9, <1>10 DEF CallerStep


\* The Builders can be numbered in an order in which they have been asked.
LEMMA KeepsOrder ==
  ASSUME WInv, [Next]_vars
  PROVE  \E r \in [Builders -> Nat] : Ordered(r)'
<1>0. TypeOK /\ \A c \in Builders : AskedBefore(c)
  BY DEF WInv, LInv, IInv, BuilderWaits
<1>r. PICK r \in [Builders -> Nat] : Ordered(r)
  BY DEF WInv
<1>1. CASE UNCHANGED request
  <2>1. Ordered(r)'
    BY <1>r, <1>1 DEF Ordered
  <2> QED
    BY <2>1
<1>2. ASSUME NEW b \in Builders, NEW q \in Requests[b], Ask(b, q)
      PROVE  \E s \in [Builders -> Nat] : Ordered(s)'
  <2>1. caller[b].at = "idle" /\ request' = [request EXCEPT ![b] = q]
    BY <1>2 DEF Ask
  <2>2. request'[b] = q /\ \A c \in Builders : c # b => request'[c] = request[c]
    BY <1>0, <2>1 DEF TypeOK
  <2>3. q.id # NoImage => q.id[1] \in Builders /\ q.id[1] # b
    BY KindsOfRequests, RequestsAssumption, Pairs
  <2>4. \A c \in Builders : request[c].id # NoImage =>
          request[c].id[1] \in Builders /\ request[c].id[1] # b
    <3> SUFFICES ASSUME NEW c \in Builders, request[c].id # NoImage
                 PROVE  request[c].id[1] \in Builders /\ request[c].id[1] # b
      OBVIOUS
    <3>1. request[c].id[1] \in Builders
      BY <1>0, ParentsAreImages
    <3>2. caller[request[c].id[1]].at # "idle" \/ Requests[request[c].id[1]] = {}
      BY <1>0 DEF AskedBefore
    <3> QED
      BY <2>1, <3>1, <3>2
  <2> DEFINE n == IF q.id = NoImage THEN 0 ELSE r[q.id[1]] + 1
             s == [r EXCEPT ![b] = n]
  <2>5. n \in Nat /\ (q.id # NoImage => r[q.id[1]] < n)
    BY <1>r, <2>3
  <2> HIDE DEF n
  <2>6. s \in [Builders -> Nat] /\ s[b] = n /\ \A c \in Builders : c # b => s[c] = r[c]
    BY <1>r, <2>5
  <2> HIDE DEF s
  <2>7. ASSUME NEW c \in Builders, request'[c].id # NoImage
        PROVE  s[request'[c].id[1]] < s[c]
    <3>1. CASE c = b
      BY <2>2, <2>3, <2>5, <2>6, <2>7, <3>1
    <3>2. CASE c # b
      <4>1. r[request[c].id[1]] < r[c]
        BY <1>r, <2>2, <2>7, <3>2 DEF Ordered
      <4> QED
        BY <2>2, <2>4, <2>6, <2>7, <3>2, <4>1
    <3> QED
      BY <3>1, <3>2
  <2>8. Ordered(s)'
    BY <2>7 DEF Ordered
  <2> QED
    BY <2>6, <2>8
<1>3. UNCHANGED request \/ \E b \in Builders : \E q \in Requests[b] : Ask(b, q)
  <2>1. ASSUME NEW b \in Builders, CallerStep(b) PROVE UNCHANGED request
    BY <2>1 DEF CallerStep, AddImage, AddImageFails, InitWorkersFails, SourceNone, SourceById,
       SourceByTemplate, SourceRaises, StartThread
  <2>2. ASSUME NEW i \in Images, ThreadStep(i) \/ \E s \in PluginStatuses : PluginUpdates(i, s)
        PROVE  UNCHANGED request
    BY <1>0, <2>2, ThreadTouches
  <2>3. ASSUME NEW d \in Deleters, DeleteStep(d) \/ \E i \in Images : AskDelete(d, i)
        PROVE  UNCHANGED request
    BY <2>3 DEF DeleteStep, AskDelete, DeleteStart, DeletePlugin, DeleteRemove, DeleteFailSave,
       DeleteFailWrite, DeleteGoes, callerVars
  <2>4. ASSUME NEW b \in Crashes, Crash(b) PROVE UNCHANGED request
    BY <2>4 DEF Crash
  <2>5. CASE UNCHANGED vars \/ Finished \/ \E i \in Images : PollAgain(i)
    BY <2>5 DEF Finished, PollAgain, vars, callerVars
  <2> QED
    BY <2>1, <2>2, <2>3, <2>4, <2>5 DEF Next
<1> QED
  BY <1>1, <1>2, <1>3

LEMMA InitWInv == Init => WInv
<1> SUFFICES ASSUME Init PROVE WInv
  OBVIOUS
<1>1. LInv
  BY InitLInv
<1>2. ASSUME NEW b \in Builders PROVE BuilderWaits(b)
  BY Pairs DEF Init, BuilderWaits, Making, NotGiven, CrashTogether, ParentStarted, AskedBefore,
     NoRequest
<1>3. ASSUME NEW i \in Images PROVE ImageWaits(i)
  BY DEF Init, ImageWaits, JoinsStarted, ParentGiven, HasParent, NotNewAgain
<1>4. [b \in Builders |-> 0] \in [Builders -> Nat] /\ Ordered([b \in Builders |-> 0])
  BY DEF Init, Ordered, NoRequest
<1> QED
  BY <1>1, <1>2, <1>3, <1>4 DEF WInv

LEMMA NextWInv == WInv /\ [Next]_vars => WInv'
<1> SUFFICES ASSUME WInv, [Next]_vars PROVE WInv'
  OBVIOUS
<1>0. LInv
  BY DEF WInv
<1>1. LInv'
  BY <1>0, NextLInv
<1>2. \E r \in [Builders -> Nat] : Ordered(r)'
  BY KeepsOrder
<1> DEFINE W == /\ \A c \in Builders : BuilderWaits(c)
                /\ \A j \in Images : ImageWaits(j)
<1>3. ASSUME UNCHANGED vars PROVE W'
  <2>1. UNCHANGED <<persisted, thread, caller, request, parent, deleted, unsaved>>
    BY <1>3 DEF vars, imageVars, callerVars, storeVars
  <2>2. W' <=> W
    BY <2>1 DEF BuilderWaits, Making, NotGiven, CrashTogether, ParentStarted, AskedBefore,
       ImageWaits, JoinsStarted, ParentGiven, HasParent, NotNewAgain, OwnParent
  <2> QED
    BY <2>2 DEF WInv
<1>4. ASSUME NEW b \in Builders, CallerStep(b) \/ \E r \in Requests[b] : Ask(b, r) PROVE W'
  BY <1>4, CallerWaits
<1>5. ASSUME NEW i \in Images, ThreadStep(i) \/ \E s \in PluginStatuses : PluginUpdates(i, s)
      PROVE  W'
  BY <1>5, ThreadWaits
<1>6. ASSUME NEW d \in Deleters, DeleteStep(d) \/ \E i \in Images : AskDelete(d, i) PROVE W'
  BY <1>6, DeletionWaits
<1>7. ASSUME NEW b \in Crashes, Crash(b) PROVE W'
  BY <1>7, CrashesAssumption, CrashWaits
<1>8. ASSUME Finished \/ \E i \in Images : PollAgain(i) PROVE W'
  BY <1>3, <1>8 DEF Finished, PollAgain
<1> HIDE DEF W
<1>9. W'
  BY <1>3, <1>4, <1>5, <1>6, <1>7, <1>8 DEF Next
<1> QED
  BY <1>1, <1>2, <1>9 DEF W, WInv

LEMMA WaitsFit == Spec => []WInv
<1> QED
  BY InitWInv, NextWInv, PTL DEF Spec

\* The numbers of a Builder's images, the base first, follow those of the images
\* of the Builders that were asked before.
Deeper(r) ==
  [i \in Images |-> 3 * r[i[1]] + (IF i[2] = "base" THEN 0 ELSE IF i[2] = "target" THEN 1 ELSE 2)]

\* The images can be numbered so that each has a greater number than its parent.
LEMMA ParentsFirst ==
  ASSUME WInv
  PROVE  \E f \in [Images -> Nat] : \A i \in Images : parent[i] # NoImage => f[parent[i]] < f[i]
<1>0. /\ TypeOK
      /\ \A i \in Images : KnowsParent(i) /\ ParentGiven(i)
  BY DEF WInv, LInv, IInv, ImageFits, ImageWaits
<1>r. PICK r \in [Builders -> Nat] : Ordered(r)
  BY DEF WInv
<1>1. Deeper(r) \in [Images -> Nat]
  BY <1>r, Pairs DEF Deeper
<1>2. ASSUME NEW i \in Images, parent[i] # NoImage PROVE Deeper(r)[parent[i]] < Deeper(r)[i]
  <2>1. PICK p \in Images : p = parent[i]
    BY <1>0, <1>2 DEF TypeOK
  <2>2. r[i[1]] \in Nat /\ r[p[1]] \in Nat /\ i[2] \in Kinds /\ i[2] # "base" /\ p[2] \in Kinds
    BY <1>0, <1>2, <1>r, Pairs DEF KnowsParent
  <2>3. CASE OwnParent(i)
    <3>1. p[1] = i[1] /\ p[2] = ParentKind(i[2])
      BY <2>1, <2>3 DEF OwnParent
    <3> QED
      BY <2>1, <2>2, <3>1 DEF Deeper, ParentKind, Kinds
  <2>4. CASE parent[i] = request[i[1]].id
    <3>1. r[p[1]] < r[i[1]]
      BY <1>2, <1>r, <2>1, <2>4, Pairs DEF Ordered
    <3> QED
      BY <2>1, <2>2, <3>1 DEF Deeper, Kinds
  <2> QED
    BY <1>0, <1>2, <2>3, <2>4 DEF ParentGiven
<1> QED
  BY <1>1, <1>2

\* Builder.py _customize_image_for_target and _push_image_to_provider: a thread
\* joins or polls for its parent, whose thread may wait for its own parent in turn.
\* Whatever was asked for, these waits never close a circle: the images can be
\* numbered so that every one has a greater number than the one it is made from.
THEOREM NoCircleOfWaits ==
  Spec => [](\E f \in [Images -> Nat] :
               \A i \in Images : parent[i] # NoImage => f[parent[i]] < f[i])
<1> QED
  BY WaitsFit, ParentsFirst, PTL

\* The first of a set of threads, in an order of their images.
LEMMA FirstOfSome ==
  ASSUME NEW f \in [Images -> Nat], NEW A \in SUBSET Images, A # {}
  PROVE  \E i \in A : \A j \in A : ~(f[j] < f[i])
<1> DEFINE T == {f[i] : i \in A}
<1>1. T \subseteq Nat /\ T # {}
  OBVIOUS
<1>2. \E x \in T : \A y \in T : ~(<<y, x>> \in OpToRel(<, Nat))
  BY <1>1, NatLessThanWellFounded, WFMin
<1>3. PICK x \in T : \A y \in T : ~(y < x)
  BY <1>1, <1>2 DEF OpToRel
<1> QED
  BY <1>3

\* Where a thread may take a step: it is not waiting, or what it waits for is over.
MayStep(i) ==
  \/ thread[i] \in Alive \ {"join", "poll"}
  \/ thread[i] = "join" /\ thread[parent[i]] = "ended"
  \/ thread[i] = "poll" /\ (~CanLoad(parent[i]) \/ ~Undecided(persisted[parent[i]]))

\* Where a call may.
Calls(b) == caller[b].at \in {"add", "source", "start"}

LEMMA FirstMayStep ==
  ASSUME WInv, NEW S \in SUBSET Images,
         \E i \in S : thread[i] \in Alive,
         \A i \in S : thread[i] \in {"join", "poll"} => parent[i] \in S
  PROVE  \E i \in S : \/ MayStep(i) \/ Calls(i[1])
                      \/ thread[i] = "poll" /\ Stranded(parent[i])
<1>0. /\ TypeOK
      /\ \A i \in Images : ImageFits(i) /\ ImageWaits(i)
      /\ \A b \in Builders : BuilderWaits(b)
  BY DEF WInv, LInv, IInv
<1>f. PICK f \in [Images -> Nat] : \A i \in Images : parent[i] # NoImage => f[parent[i]] < f[i]
  BY ParentsFirst
<1>1. PICK i \in S : /\ thread[i] \in Alive
                     /\ \A j \in S : thread[j] \in Alive => ~(f[j] < f[i])
  <2> DEFINE A == {j \in S : thread[j] \in Alive}
  <2>1. A \in SUBSET Images /\ A # {}
    OBVIOUS
  <2>2. \E j \in A : \A l \in A : ~(f[l] < f[j])
    BY <2>1, FirstOfSome
  <2> QED
    BY <2>2
<1>2. CASE thread[i] \notin {"join", "poll"}
  BY <1>1, <1>2 DEF MayStep
<1>3. ASSUME thread[i] \in {"join", "poll"}
      PROVE  /\ parent[i] \in S /\ parent[i] \in Images /\ parent[i] # NoImage
             /\ thread[parent[i]] \notin Alive
  <2>1. parent[i] \in S /\ parent[i] # NoImage
    BY <1>0, <1>3 DEF ImageWaits, HasParent
  <2>2. f[parent[i]] < f[i]
    BY <1>f, <2>1
  <2> QED
    BY <1>1, <2>1, <2>2
<1>4. CASE thread[i] = "join"
  <2>1. PICK p \in Images : p = parent[i]
    BY <1>3, <1>4
  <2>2. OwnParent(i) /\ thread[p] # "none"
    BY <1>0, <1>4, <2>1 DEF ImageWaits, HasParent, JoinsStarted
  <2>3. p = <<i[1], p[2]>> /\ p[2] \in Kinds /\ i = <<i[1], i[2]>> /\ i[2] \in Kinds /\ i[1] \in Builders
    BY <2>1, <2>2, Pairs, KindsOfRequests DEF OwnParent
  <2>4. thread[p] # "crashed"
    <3>1. CrashTogether(i[1])
      BY <1>0, <2>3 DEF BuilderWaits
    <3> QED
      BY <1>1, <2>3, <3>1 DEF CrashTogether
  <2>5. thread[p] = "ended"
    BY <1>0, <1>3, <1>4, <2>1, <2>2, <2>4 DEF TypeOK
  <2> QED
    BY <1>4, <2>1, <2>5 DEF MayStep
<1>5. CASE thread[i] = "poll"
  <2>1. PICK p \in Images : p = parent[i]
    BY <1>3, <1>5
  <2>2. CASE ~CanLoad(p) \/ ~Undecided(persisted[p])
    BY <1>5, <2>1, <2>2 DEF MayStep
  <2>3. CASE CanLoad(p) /\ Undecided(persisted[p])
    <3>1. persisted[p] = "NEW"
      BY <1>0, <2>3 DEF Undecided, TypeOK, Stored
    <3>2. thread[p] \in {"none", "ended", "crashed"}
      BY <1>0, <1>3, <1>5, <2>1 DEF TypeOK
    <3>3. CASE thread[p] = "crashed"
      BY <1>5, <2>1, <3>1, <3>3 DEF Stranded
    <3>4. CASE thread[p] = "ended"
      <4>1. p \notin deleted
        BY <1>0, <3>1 DEF ImageWaits, NotNewAgain
      <4>2. p \in unsaved
        BY <1>0, <3>1, <3>4, <4>1 DEF ImageFits, StatusFits, Recorded
      <4> QED
        BY <1>5, <2>1, <3>1, <4>2 DEF Stranded
    <3>5. CASE thread[p] = "none"
      <4>1. p[1] \in Builders /\ p[2] \in Kinds /\ p = <<p[1], p[2]>> /\ Making(p[1])
        BY <1>0, Pairs DEF BuilderWaits
      <4>2. caller[p[1]].at \in {"raised", "crashed"} \/ Calls(p[1])
        BY <3>1, <3>5, <4>1 DEF Making, Calls
      <4> QED
        BY <1>3, <1>5, <2>1, <3>1, <4>2 DEF Stranded
    <3> QED
      BY <3>2, <3>3, <3>4, <3>5
  <2> QED
    BY <2>2, <2>3
<1> QED
  BY <1>2, <1>4, <1>5

\* Builder.py's threads never all wait for one another: among the images that a
\* thread waits for, those that their threads wait for, and so on (any set S that
\* is closed under this), there is one whose thread or call may take a step, or one
\* whose thread polls for an image that nothing will ever settle: its call raised
\* or was killed, its thread was killed, or its last save failed.  It is what a
\* state must give for ThreadsEnd.
THEOREM SomeThreadMayStep ==
  Spec => [](\A S \in SUBSET Images :
               /\ \E i \in S : thread[i] \in Alive
               /\ \A i \in S : thread[i] \in {"join", "poll"} => parent[i] \in S
               => \E i \in S : \/ MayStep(i) \/ Calls(i[1])
                               \/ thread[i] = "poll" /\ Stranded(parent[i]))
<1>1. WInv => \A S \in SUBSET Images :
                /\ \E i \in S : thread[i] \in Alive
                /\ \A i \in S : thread[i] \in {"join", "poll"} => parent[i] \in S
                => \E i \in S : \/ MayStep(i) \/ Calls(i[1])
                                \/ thread[i] = "poll" /\ Stranded(parent[i])
  BY FirstMayStep
<1> QED
  BY <1>1, WaitsFit, PTL

-----------------------------------------------------------------------------
(* The threads go on.                                                      *)

\* The order of the places of a thread.  It looks at its parent before it polls for
\* it and once more when it has found it settled.
Place == [none |-> 0, start |-> 1, join |-> 2, check |-> 3, poll |-> 4, lookup |-> 6,
          plugin |-> 7, save |-> 8, write |-> 9, failsave |-> 10, failwrite |-> 11,
          shut |-> 12, ended |-> 13, crashed |-> 13]

Rank(i) ==
  IF thread[i] = "check" /\ ~Undecided(ParentStatus(i)) THEN 5 ELSE Place[thread[i]]

\* A parent whose thread was joined is settled.
Decided(i) == thread[i] = "check" /\ OwnParent(i) => ~Undecided(ParentStatus(i))

LEMMA OwnParentDecided == IInv => \A i \in Images : Rank(i) \in Nat /\ Decided(i)
<1> SUFFICES ASSUME IInv, NEW i \in Images PROVE Rank(i) \in Nat /\ Decided(i)
  OBVIOUS
<1>1. Rank(i) \in Nat
  BY DEF IInv, TypeOK, Alive, Rank, Place
<1>2. Decided(i)
  <2> SUFFICES ASSUME thread[i] = "check", OwnParent(i) PROVE ~Undecided(ParentStatus(i))
    BY DEF Decided
  <2>1. parent[i] \in Images
    BY Pairs, KindsOfRequests DEF OwnParent
  <2>2. status[parent[i]] \in {"COMPLETE", "FAILED"}
    BY <2>1 DEF IInv, ImageFits, KnowsParent, StatusFits
  <2> QED  BY <2>2 DEF ParentStatus, Undecided
<1> QED  BY <1>1, <1>2

\* A thread that a step leaves where it is, or starts, or kills.
LEMMA RankKept ==
  ASSUME IInv, NEW i \in Images, Decided(i), Decided(i)', TypeOK',
         \/ /\ thread'[i] = thread[i]
            /\ thread[i] = "check" => parent'[i] = parent[i] /\ seen'[i] = seen[i]
         \/ thread[i] = "none" /\ thread'[i] = "start"
         \/ thread'[i] = "crashed"
  PROVE  Rank(i) <= Rank(i)'
<1>1. thread[i] \in DOMAIN Place /\ thread'[i] \in DOMAIN Place
  BY DEF IInv, TypeOK, Alive, Place
<1>2. CASE thread'[i] = thread[i] /\ thread[i] # "check"
  BY <1>1, <1>2 DEF Rank, Place
<1>3. CASE thread'[i] = "check" /\ thread[i] = "check"
  <2>1. parent'[i] = parent[i] /\ seen'[i] = seen[i] /\ (OwnParent(i)' <=> OwnParent(i))
    BY <1>3 DEF OwnParent
  <2>2. CASE OwnParent(i)
    <3>1. ~Undecided(ParentStatus(i)) /\ ~Undecided(ParentStatus(i))'
      BY <1>3, <2>1, <2>2 DEF Decided
    <3> QED  BY <1>3, <3>1 DEF Rank
  <2>3. CASE ~OwnParent(i)
    BY <1>3, <2>1, <2>3 DEF Rank, ParentStatus, Place
  <2> QED  BY <2>2, <2>3
<1>4. CASE thread'[i] # thread[i]
  BY <1>1, <1>4 DEF Rank, Place
<1> QED  BY <1>2, <1>3, <1>4

\* Every step of a thread takes it further, but for its polls and for what a plugin
\* tells of its status, and nobody else's step sends it back: a thread looks at its
\* parent twice at most, and cannot go from one poll to another or retry a save.
\* With SomeThreadMayStep and NoCircleOfWaits this is why ThreadsEnd holds.
THEOREM ThreadsGoOn ==
  Spec => [][\A i \in Images :
               Rank(i) <= Rank(i)' /\ (ThreadStep(i) => Rank(i) < Rank(i)')]_vars
<1> DEFINE On(i) == Rank(i) <= Rank(i)' /\ (ThreadStep(i) => Rank(i) < Rank(i)')
<1>1. ASSUME IInv, NEW i \in Images, Decided(i)', ThreadStep(i) PROVE Rank(i) < Rank(i)'
  <2> USE <1>1 DEF Goes, Rank, Place
  <2>0. TypeOK
    BY DEF IInv
  <2>1. CASE ThreadStart(i)
    BY <2>0, <2>1 DEF ThreadStart, TypeOK
  <2>2. CASE JoinParent(i)
    BY <2>0, <2>2 DEF JoinParent, TypeOK
  <2>3. CASE CheckParent(i)
    BY <2>0, <2>3 DEF CheckParent, Raises, AfterRaise, TypeOK
  <2>4. CASE Poll(i)
    <3>1. CASE thread'[i] = "failsave"
      BY <2>0, <2>4, <3>1 DEF Poll, Raises, AfterRaise, TypeOK
    <3>2. CASE thread'[i] # "failsave"
      <4>1. /\ thread[i] = "poll" /\ thread'[i] = "check"
            /\ ~Undecided(persisted[parent[i]]) /\ seen'[i] = persisted[parent[i]]
            /\ parent' = parent
        BY <2>0, <2>4, <3>2 DEF Poll, Raises, AfterRaise, TypeOK, callerVars
      <4>2. ~Undecided(ParentStatus(i))'
        <5>1. CASE OwnParent(i)'
          BY <1>1, <4>1, <5>1 DEF Decided
        <5>2. CASE ~OwnParent(i)'
          BY <4>1, <5>2 DEF ParentStatus, Undecided
        <5> QED  BY <5>1, <5>2
      <4> QED  BY <4>1, <4>2
    <3> QED  BY <3>1, <3>2
  <2>5. CASE FindPlugins(i)
    BY <2>0, <2>5 DEF FindPlugins, Raises, AfterRaise, TypeOK
  <2>6. CASE PluginReturns(i) \/ PluginRaises(i)
    BY <2>0, <2>6 DEF PluginReturns, PluginRaises, Raises, AfterRaise, TypeOK
  <2>7. CASE Save(i) \/ Write(i)
    BY <2>0, <2>7 DEF Save, Write, Raises, AfterRaise, TypeOK
  <2>8. CASE FailSave(i) \/ FailWrite(i) \/ ShutWorkers(i)
    BY <2>0, <2>8 DEF FailSave, FailWrite, ShutWorkers, TypeOK
  <2> QED
    BY <2>1, <2>2, <2>3, <2>4, <2>5, <2>6, <2>7, <2>8 DEF ThreadStep
<1>2. ASSUME IInv, TypeOK', Next, NEW i \in Images, Decided(i), Decided(i)', ~ThreadStep(i)
      PROVE  Rank(i) <= Rank(i)'
  <2>0. TypeOK /\ \A b \in Builders : CallerAhead(b)
    BY <1>2 DEF IInv
  <2>1. ASSUME NEW j \in Images, ThreadStep(j) \/ \E s \in PluginStatuses : PluginUpdates(j, s)
        PROVE  Rank(i) <= Rank(i)'
    <3>1. parent' = parent /\ (j # i => UNCHANGED <<thread[i], seen[i]>>)
      BY <2>0, <2>1, ThreadTouches
    <3>2. CASE j = i
      <4>1. thread[i] = "plugin" /\ thread'[i] = "plugin"
        BY <1>2, <2>0, <2>1, <3>2 DEF PluginUpdates, Goes, TypeOK
      <4> QED  BY <1>2, <4>1, RankKept
    <3> QED  BY <1>2, <3>1, <3>2, RankKept
  <2>2. ASSUME NEW b \in Builders, CallerStep(b) \/ \E r \in Requests[b] : Ask(b, r)
        PROVE  Rank(i) <= Rank(i)'
    <3>1. CASE StartThread(b)
      <4>1. /\ thread' = [thread EXCEPT ![<<b, caller[b].kind>>] = "start"]
            /\ UNCHANGED <<parent, seen>> /\ caller[b].at = "start"
            /\ caller[b].kind \in Kinds
        BY <2>0, <3>1 DEF StartThread, TypeOK
      <4>2. thread[<<b, caller[b].kind>>] = "none"
        BY <2>0, <4>1 DEF CallerAhead, Onward
      <4>3. \/ thread'[i] = thread[i]
            \/ thread[i] = "none" /\ thread'[i] = "start"
        BY <2>0, <4>1, <4>2 DEF TypeOK
      <4> QED  BY <1>2, <4>1, <4>3, RankKept
    <3>2. CASE SourceById(b) \/ SourceByTemplate(b)
      <4>1. /\ thread' = thread /\ caller[b].at = "source" /\ caller[b].kind \in Kinds
            /\ i # <<b, caller[b].kind>> => UNCHANGED <<parent[i], seen[i]>>
        BY <2>0, <3>2 DEF SourceById, SourceByTemplate, TypeOK, imageVars
      <4>2. thread[<<b, caller[b].kind>>] = "none"
        BY <2>0, <4>1 DEF CallerAhead
      <4> QED  BY <1>2, <4>1, <4>2, RankKept
    <3>3. UNCHANGED <<thread, parent, seen>> \/ StartThread(b) \/ SourceById(b) \/ SourceByTemplate(b)
      BY <2>2 DEF CallerStep, Ask, AddImage, AddImageFails, InitWorkersFails, SourceNone,
         SourceRaises, imageVars
    <3> QED  BY <1>2, <3>1, <3>2, <3>3, RankKept
  <2>3. ASSUME NEW d \in Deleters, DeleteStep(d) \/ \E j \in Images : AskDelete(d, j)
        PROVE  Rank(i) <= Rank(i)'
    <3>1. UNCHANGED <<thread, parent, seen>>
      BY <2>3 DEF DeleteStep, AskDelete, DeleteStart, DeletePlugin, DeleteRemove, DeleteFailSave,
         DeleteFailWrite, DeleteGoes, imageVars, callerVars
    <3> QED  BY <1>2, <3>1, RankKept
  <2>4. ASSUME NEW b \in Crashes, Crash(b) PROVE Rank(i) <= Rank(i)'
    <3>1. /\ UNCHANGED <<parent, seen>>
          /\ thread'[i] = thread[i] \/ thread'[i] = "crashed"
      BY <2>4 DEF Crash
    <3> QED  BY <1>2, <3>1, RankKept
  <2>5. CASE Finished \/ \E j \in Images : PollAgain(j)
    <3>1. UNCHANGED <<thread, parent, seen>>
      BY <2>5 DEF Finished, PollAgain, vars, imageVars, callerVars
    <3> QED  BY <1>2, <3>1, RankKept
  <2> QED  BY <1>2, <2>1, <2>2, <2>3, <2>4, <2>5 DEF Next
<1>3. IInv' => (\A i \in Images : Rank(i) \in Nat /\ Decided(i))'
  BY OwnParentDecided, PTL
<1>4. ASSUME IInv, IInv', Next, NEW i \in Images PROVE On(i)
  <2>1. Rank(i) \in Nat /\ Rank(i)' \in Nat /\ Decided(i) /\ Decided(i)'
    BY <1>3, <1>4, OwnParentDecided
  <2>2. TypeOK'
    BY <1>4 DEF IInv
  <2>3. CASE ThreadStep(i)
    BY <1>1, <1>4, <2>1, <2>3
  <2>4. CASE ~ThreadStep(i)
    BY <1>2, <1>4, <2>1, <2>2, <2>4
  <2> QED  BY <2>3, <2>4
<1>5. IInv /\ IInv' /\ [Next]_vars => [\A i \in Images : On(i)]_vars
  BY <1>4
<1> QED  BY <1>5, Invariant, PTL DEF Spec
=============================================================================
