# Image Factory in TLA+

Image Factory builds disk images of operating systems and pushes them to
clouds. A *BaseImage* is installed from a template, a *TargetImage* is a base
customised for a kind of cloud, a *ProviderImage* is a target put on one cloud.
Each image is made by a thread of its own; threads wait for one another's
images, save them in a store that several processes share, and report status
changes to callback URLs. This directory specifies those parts of the program
that are hard to test, checks them with TLC on small instances, and proves some
of them with TLAPS for all instances.

Paths are relative to the repository (`imgfac/Builder.py` is
`src/imgfac/Builder.py`). `PROJECT.json` maps every definition to its lines.

## Inventory

| component | state it keeps | operations | what is hard | what makes it correct | where |
|---|---|---|---|---|---|
| Builder (`imgfac/Builder.py`) | three image objects, four threads, callback workers | build, customize, push, snapshot, delete | threads that join or poll for one another across factories; saves that fail in the handler of a failure; requests that raise half way | parents before children; what is reported is what is stored; every thread ends | `Builder` |
| callback worker (`imgfac/CallbackWorker.py`) | queue, event, semaphore, shutdown flag | enqueue, deliver, shut down | flag and queue length read without the lock; event cleared while others append | every accepted update once and in order; exits, with nothing left | `CallbackWorker` |
| file store (`imgfac/FilePersistentImageManager.py`) | `.meta` and `.body` files, a lock per process | add, save, load, query, delete | test before lock; truncate before write; two files for one image; several processes; crashes | whole metadata for readers; the last save stays; metadata has a body | `FileImageStore` |
| reservation manager (`imgfac/ReservationManager.py`) | singleton, named locks, ports, queues, reservations | lock, unlock, next port, queues, space | construction of the singleton and of a lock by several first callers | one holder of each lock | `ReservationManager` |
| files shared by TinMan and EC2 builds | install media, compressed images | generate once, compress once | partial files left by crashes and failures | only whole files are used | `SharedArtifacts` |
| notification center, image status (`NotificationCenter.py`, `PersistentImage.py`) | observers, a re-entrant lock | add, remove, post | observers run under the lock; loading an image posts as well | nobody waits for the lock for ever | `Service` |
| build dispatcher (`imgfac/BuildDispatcher.py`) | builders by image ID | start, forget on a final status | registered after the thread was started; a load posts a status again, and a deletion posts its own | running builders can be found until a failure or a deletion of their image | `Service` |
| daemon and command line (`imagefactoryd`, `imagefactory`) | the main thread | create, join, signal handlers | a handler runs between any two steps of the main thread | running builders are aborted | `Service` |
| EC2 plugin | an instance, group, key, volume, snapshot, bundle and AMI | push to EBS or S3, snapshot, delete | waits with limits on a cloud that keeps its own time; a finally clause whose steps raise; deletions that fail half way | instances end; nothing rented is left; a registered image has its data, and is recorded once its registration is over | `EC2`, `CloudCourses` |
| Rackspace, RHEVM, vSphere, OpenStack, GCE, Atlas plugins | servers, volumes, disks, templates on a cloud; files beside the image | push, snapshot, delete, prepare a target | long operations polled with limits; cleanup after each step may fail | nothing acquired is left behind; the data file survives; an image that is returned is there | `CloudCourses` |
| TinMan, Nova, IndirectionCloud, Docker, OVA, HyperV plugins, image importer | guests, domains, mounts, temporary files, a lock on install media | build, customize, convert, abort | the same, with `abort` called from another thread | the same | `OsCourses` |
| `ovfcommon` | a package directory, the working directory of the process | stage files, write a descriptor, make an archive | the working directory belongs to all threads | an archive is whole and refers to what it holds | `Packages`, `Packaging` |
| plugin manager (`imgfac/PluginManager.py`), target content (TinMan, Nova) | plugins by target | load, look up, merge | two plugins for one target; a partial match; targets of other forms; content that does not decode | first come, most specific match | `Lookups`, `Algorithms` |
| REST API (`imgfac/rest/RESTv2.py`) | none | one handler per route | decorators, exceptions inside and outside of a `try` | the answer says what was done | `Rest`, `Algorithms` |
| Mongo store, Windows proxy, configuration and templates | | | | | not modelled, or as calls that may raise |

Interactions: the REST API and the command line call the build dispatcher or the
Builder directly. A Builder adds each image to the store, registers callback
workers with the notification center for it, and starts its thread, which calls
plugins and sets the image's status; setting the status posts a notification,
which runs the workers' `status_notifier` in the same thread. Builders of
different processes share only the store and the files beside it.

## Modules

| module | what it is |
|---|---|
| `StatusDelivery` | abstract: what a callback worker promises |
| `CallbackWorker` | `imgfac/CallbackWorker.py`, one action per step that others can see |
| `ImageLifecycle` | abstract: what the store shows of an image |
| `Builder` | `imgfac/Builder.py`: requests, threads, waits, saves, deletion, crashes |
| `FileImageStore` | `imgfac/FilePersistentImageManager.py`, inside the saves `Builder` takes as two steps |
| `ReservationManager` | `imgfac/ReservationManager.py`: singleton, named locks, ports |
| `SharedArtifacts` | the threads of TinMan and EC2 that use it, and the files they share |
| `EC2` | pushes, snapshots and deletions of the EC2 plugin, and EC2 as they see it |
| `Steps` | a vocabulary for the control of a method: call, make, drop, wait, if, try, except, finally |
| `CloudCourses`, `OsCourses` | the methods of the other plugins, written in it |
| `Courses` | threads that run such methods, and what a method answers for |
| `Service` | the process: main thread, signals, dispatcher, notification center, builder threads |
| `Packages` | what the files of an OVA package are, and what its descriptors refer to |
| `Packaging` | threads that make packages and share one working directory |
| `Lookups`, `Rest` | plugin lookup, target content and its merge; the answers of the REST API |
| `Algorithms` | these, each against what it is to compute |
| `..._proofs` | theorems about the module, or the two, of that name |
| `MC...` | instances for TLC |

`CallbackWorker` needs a promise of its caller, that nothing is enqueued from
the moment `shut_down` is called. `Builder` shows that the caller keeps it:
`NoReportAfterShutDown`. `SharedArtifacts` extends `ReservationManager`.
Operators called "a faulty variant of ..." are no part of a specification: each
is a plausible mistake in the definition after it, and shows that a property
would notice.

### CallbackWorker

`callback_queue`, `queue_not_empty`, `queue_lock` and `shutdown` are the
attributes of that name. What a thread does under the lock is one step unless
somebody reads the same thing without it: `_enqueue` appends and then sets the
event in two, because the exit test of the worker reads the length of the
queue. The worker's wait, pop, PUT and the two halves of its exit test are
steps. A PUT that fails and one that succeeds are the same to the worker, so one
action stands for both. History variables record what was accepted and put, and
whether the caller kept its promise.

### Builder

For each image there is what the store holds (`persisted`), the status of the
object (`status`) and the place of its thread (`thread`); for each Builder the
request and the place of the calling thread. A request is a kind, whether it has
a template, and an ID or none. `Ask` to `StartThread` are the calling thread:
the image is added before anything can raise, as in the code, and a template
makes the caller go on to the parent image. `ThreadStart` to `ShutWorkers` are
the four thread functions, which have one shape: join, test the parent, poll,
find plugins, run the plugin, save, and in the except clause fail and save again.
An OS plugin may set any status itself while it runs (`PluginUpdates`), COMPLETE
included, as Nova does, and raise then.
A save is two steps, the test that the image is managed and the write; a
deletion or a kill may come between them, and another process that looks between
them may find the file empty. Plugins, templates and secondary factories return
or raise. `NoImage` is Python's `None`.

### FileImageStore

`meta` is what each `.meta` file holds: nothing (`empty`), metadata, or a mixture
(`torn`). Opening it for writing truncates or creates it; its contents arrive
when it is closed. `linked` tells whether the open file is still the one that
the name leads to. Each process has its own `metadata_lock`. A thread may add,
save, load or delete at any time; a process may be killed anywhere and started
again.

### ReservationManager and SharedArtifacts

An instance of the manager is known by the thread that built it, so that two
may exist. A thread of TinMan takes a port and then the lock of its install
media; one of EC2 takes the lock of its image, tests for the `.gz` and the
marker, compresses, touches the marker and releases, or raises. The exit status
of `gzip` is looked at, that of `touch` is not: `TouchFails` leaves the image
without a marker, so that the next push compresses again while the one before
may still be reading; `unmarked` and `clashed` record where the file may not be
whole for that reason or because two managers let two threads in. Two gzips of
one image write the same bytes, so the file is whole when the last is done.

### EC2

`at` is the place of the plugin in the method, `tries` the counter of the loop it
is in, and `cloud` what EC2 holds. Each call of EC2 or of the guest is an action
that may raise instead (`RaisesBefore`, `BodyRaises`, `TidyingRaises`,
`DeletionRaises`), with the consequence of the place: before the `try` the method
is left with what there is, in its body the finally clause runs, in the finally
clause the rest of it is skipped. `slips` records the steps of tidying up that
failed, `failedAt` the place that the body of the `try` raised at. A call that
raises is taken to have done nothing, but for those that make an image
(`Asking`): `AnswerLost` is EC2 doing what it was asked while the answer is lost.
To register a bundle and to find the new image's id in the output are two steps
(`RegisterBundle`, `RecordAmiId`), since the output may hold no id. The push to
EBS and the two snapshots share the actions up to the running instance and the
start of the finally clause, which the source repeats; the ends of the finally
clauses differ, and `StopTimeout`, `DeleteGroup` and `TidyingRaises` distinguish
them. What EC2 does in its own time, `InstanceChanges` to `ImageChanges`, is
external and is modelled from what the plugin waits for.

### Steps, Courses, CloudCourses, OsCourses

The plugins' methods differ in the order of the same few steps: acquire, wait,
use, record, release, each of which may raise. So each method is a *course*: a
sequence of steps, put together by operators that do what the statements of
Python do. `Finally(body, cleanup)` is there twice, as Python compiles it, once
for the way out and once for an exception; an exception in the cleanup skips the
rest of it. `CloudCourses` and `OsCourses` translate 27 methods this way, with
the things that they make (an instance, a volume, a file beside the image, the
identifier that is recorded) as members of a small set. Calls in a row between
which nothing is made, removed or waited for are one call that may raise.

With its steps, a course states what it answers for: what there is when the
method is called (`has`), when it returns (`gives`, and `keeps` for what may
also be there), what it leaves behind when it raises (`leaks`), and what `abort`,
called by another thread, does away with. `leaks` is read off the code: where it
is not empty, the code has no finally clause, and the table says what is lost.

`Courses` runs the courses of a table: the constants are the table, the locks,
and which courses may run side by side. A call raises or not; one that makes or
removes something may raise though it was done, or without having been
(`AnswerLost`, `DropFails`); a wait looks `Limit` times. `Lenient` names the two
methods that return short of what they give: Rackspace's snapshot, which swallows
every exception (`Rackspace.py:272`), and RHEVM's import, which does nothing when
it does not find its template (`RHEVMHelper.py:282`). `Known` and `Sure` say for
each place of a course what may and what must be there. `MCCourses` computes
them by one walk through each course; that they follow from the steps is not
taken from that computation but is an assumption of `Courses`
(`KnownAssumption`, `SureAssumption`), which TLC evaluates for the table.

### Service

`main` is where the main thread is, `pc` where each builder's thread is, `post`
the notification that a thread is about to deliver; `center` and `regLock` are
the holders of the two locks, `builders` and `observers` the two registries. The
observers run with the lock of the center held, and the dispatcher, one of them,
takes its own lock within. The dispatcher starts a thread and then registers the
builder (`Launch`, `Register`), so the failure may be notified in between. A
deletion is a Builder of its own, in a thread of its own: `LoadToDelete` loads
the image, which posts its status, and `DeleteBegins` to `DeleteFailSaves` set
DELETING and then DELETED or DELETEFAILED on the object that was loaded;
DELETEFAILED is saved over whatever the image's own builder has saved. `Decided`
is the set of images that a deletion has come to an end for. The threads of the
HTTP server load images, and loading an image sets its status through the
property, which posts as any change does. A signal may end the main thread
between any two steps (`Leaves`), also inside of a notification that a load posts
(`Broken`); what it held is then recorded in `cut`.

### Packages and Packaging

`Packages` says which files each of the formats stages and in what order, and to
which files its descriptors refer. `Packaging` is `OVA.generate_ova` and
`make_ova_package`: stage, `getcwd`, `chdir`, add the descriptor and then the
rest by walking `.`, `chdir` back, remove. The working directory `cwd` is one for
all threads; `overlapped` records the threads whose walks overlapped with
another's, and the properties promise nothing to those.

### Lookups, Rest, Algorithms

`load` and `plugin_for_target` of the plugin manager, the choice of a section of
`target_content.xml` and its merge in TinMan and Nova, and the status each REST
route answers with, from its decorators and its handler in their order. A target is
a list, a string or something that no key can be made of (`Forms`): a string is
registered as it is, though a lookup asks for a list of it; the last raises, and the
rest of its file is passed over (`RefuseTarget`). `Undecodable` are the bodies that
base64 refuses; an entry with one is `Bad`. In
`Algorithms` a behaviour takes one `input` and computes one of these: `load` and
`merge_cloud_plugin_content` go through their loops, one step for a target, a file
or an entry, with `made` what has been computed so far and `place` where the loop
is; a lookup and an answer are one step. Its invariants compare the result, once
it is `over`, with a definition that is not the code's.

## Runs

| run | instance | what it shows |
|---|---|---|
| `callback_worker` | 2 posting threads, 3 updates | `InOrder`, `NoLostWakeup`, `NotStranded`, `DrainedAtExit`: delivery in order, no lost wakeup, an exit with an empty queue; `WorkerTerminates`; `ImplementsStatusDelivery` |
| `builder_cascade` | a cascade or snapshot by template, a request by ID that may be malformed, a deletion; storage fails; plugins set PENDING, BUILDING, COMPLETE or FAILED | `StageOrder`, `ReportedIsStored`, `CompleteTakenBack`, `NoReportAfterShutDown`: parents first, reported is stored, COMPLETE that was saved stands; `ImplementsImageLifecycle` |
| `builder_chain` | three factories chained by ID; two may be killed; storage and callbacks fail | `ThreadsEnd`: every thread ends, or waits for an image that is stranded |
| `builder_wait` | as the chain, no crash | `PollsEnd` is violated: an image whose request raised is polled for without end |
| `file_store` | two threads of one process and one of another that may be killed, one image, two versions, a disk that fails | `WholeUnderLock`, `LastSaveStays`, `BodyWithMeta`, `LockFreed`: whole metadata under the lock, the last save stays, metadata has a body, the lock is given back |
| `shared_artifacts` | two pushes in one process, a build and a push in one that may be killed, gzip and touch fail | `OneAtATime`, `MarkerMeansWhole`, `UploadsWhole`, `ThreadsEnd`: one holder of a lock per manager, marked files are whole, everybody gets through |
| `ec2` | each kind of push and snapshot, then deletions; waits look twice, a deletion of a volume is tried three times; any call may raise, and the answer of one that makes an image be lost | `InstanceEnds`, `TidyUnlessSlips`, `RecordedUnlessSlips`, `ImageHasData`: instances end, nothing temporary is left unless tidying up failed, and no unrecorded image unless that or the registration itself did; an EBS image has its snapshot |
| `courses` | every course, and any two that take the same lock | `Accounted`, `Tidy`, `ReturnedIsComplete`, `LocksFreed`, `DataKept`, `CourseEnds`: what a method leaves on each way out is what it answers for, locks are given back, the data file is never lost, a method whose waits are bounded ends |
| `service` | one image, two deletions, one thread of the server that loads twice, a signal at any moment | `NotForgotten`, `LeftoverIsLate`, `ThreadsEnd`: a builder stays registered until its image fails or a deletion is decided, one that stays after its failure was registered late, and no thread of a builder waits on a lock for ever |
| `sigterm` | two images, one deletion, one load | `SigtermAborts` is violated: the handler looks for an attribute that builders do not have |
| `packaging` | two packagings at once, in any two of the formats; writes may fail | `ArchiveWhole`, `ReferencesResolve`, `NeverHomeless`: without an overlap an archive has all its files and no other, in order, its descriptor refers to what is there, and the process stays in a directory that exists |
| `algorithms` | all small directories of plugins with targets of every form, target contents, merges with bodies that do not decode, and requests | `NearestPlugin`, `NearestInclude`, `MergedContent`, `HonestAnswers`: each against its reference |

The two violated properties quote what a comment or a docstring of the code says;
the findings in `PROJECT.json` name both lines.

### Bounds

Two posting threads are enough for every pair of steps that can interfere with
the worker and with each other; three updates for a queue that grows, is drained
and grows again. A chain has at most three images, so three Builders reach every
combination of joins and polls. One image is enough for the file store: files
share nothing but the lock, whose holder may as well be busy with this image;
three threads in two processes give a conflict within a process and one across. A
wait of EC2 that looks twice has a look that misses, a last look, and a hit at
each; three tries to delete a volume add one that is neither the first nor the
last. For the same reason waits of courses look twice (`Looking`). Courses have
nothing in common but locks, so that each is run alone, beside an idle thread,
and beside every course that takes the same lock. In `Service` an image has one
builder; one image is enough for `NotForgotten`, which speaks of one, and two
deletions let one of them load, and post, what the other has saved; `sigterm` has
two images, so that one is registered while the other runs; `Requests` bounds the
loads. `PluginStatuses` has every status that Nova passes to `update`. Two
packagings are enough for one to change the directory under another; the seven
asks of `AllAsks` cover every class of package. The range of ports is shortened,
since only the distance of two first ports matters. What the proofs cover holds
without these bounds.

### Fairness

Weak fairness for each thread: a thread that can go on does, as Python's
scheduler and its semaphores allow; no lock is taken again and again by the same
thread while another waits, so weak fairness suffices. Plugins, `gzip` and
`generate_install_media` return or raise in the end. Nobody is obliged to ask for
an image, to delete one, to call the store, to send a signal, or to kill a
process. EC2 need not change anything or answer with success, ever: only the
plugin itself goes on (`WF(Plugin)`; its loops sleep and count), so
`InstanceEnds` rests on the limits of the waits and not on EC2. In `Courses`, too,
a call answers or raises; but a poll without limit is exempt from fairness, since
the code may poll for ever, and `CourseEnds` speaks of courses without one.
In `Service` the main thread is fair only while it is at something; requests
come or do not. Of the callback worker only the worker and a `shut_down` that was
called are fair; the caller need not call it.

## Proofs

`CallbackWorker_proofs` proves, for every set of threads and of updates:
`TypeCorrect`, `Ordered`, `Awake`, `Reachable`, `Drained` (the invariants
`TypeOK`, `InOrder`, `NoLostWakeup`, `NotStranded`, `DrainedAtExit`) and
`Implements` (the safety part of `StatusDelivery`). They assume only that
`NoThread` and `NoUpdate` are no thread and no update. The inductive invariant
`IInv` joins to these invariants what makes them inductive: which thread holds
the lock, what the worker's hands hold at each of its places, and that after a
kept promise no thread is in `_enqueue`. The invariants alone are not inductive:
that the queue is empty at exit, say, depends on no thread having passed the
flag test before. The lemmas about sequences (`AppendConcat`, `HeadThenTail`)
are what `InOrder` and the refinement need when an update moves.
`WakesEmptyForShutdown` is what the comment in `_get_next_callback` says, and
`ShutDownGoesOn` the safety half of `WorkerTerminates`: whoever holds the lock is
about to give it back, and where the worker sleeps somebody is to wake it.
`DrainsDown` is the other part: once the flag is up and while the promise is kept
every step of the worker lowers `Left`, which is at most five times the length of
the queue and nine, and nobody raises it.

`SharedArtifacts_proofs` proves, for every set of threads, processes, media and
images, and every assignment of threads to them: `TypeCorrect` (`TypeOK`),
`NamedLocksExclude` (`OneAtATime`), `MarkersTrue` (`MarkerMeansWhole`) and
`PushesWhole` (`UploadsWhole`). It assumes what the two modules state of their
constants: threads are builds and pushes, each works on a medium or an image, and
a thread is neither of the two words a semaphore uses for having no holder. Its
inductive invariant says that a thread past `made` has a manager, that the
semaphore names the thread that is inside (`TakenByHolder`), and, for the files,
that two threads on the way to the marker of one image have clashed (`OneMarks`),
that nobody is on the way to a marker that is there (`MarkedIsLeft`), that who is
about to touch the marker has a whole file (`TouchesWhole`), and that who has
done with the lock left a marker or failed to (`ReleasesMarked`). Without these
the properties are not inductive: that a marked file is whole depends on nobody
being between the test and `gzip`. `WaitsForWorker` is the safety half of
`ThreadsEnd`: its invariant `LInv` says that a process's threads have a manager
that one of them built (`OwnManager`), that who has a semaphore is inside the lock
or was killed there (`TakenInside`), and that the threads of a process die together
(`KilledTogether`), so that a killed holder leaves nobody waiting; and
`ThreadsGoOn`, for which the places are numbered (`Place`), says that steps only
go on. `MarkedStands` is an action property of the same invariant. Two theorems
are about the listen ports, for every range of ports and every process ID. Their
invariant `PInv` says that the ports a manager has handed out follow one another
round the range (`AsFarApart`) from the one its process ID gives (`FromFirst`).
`PortsApart` says that a port comes again only after all others. `RunsApart` says
what the start by process ID is worth: two runs share no port while neither has
handed out more than lie between its start and the other's. That bound cannot be
raised: of two runs that begin one port apart, the lower is sure of its first only.

`FileImageStore_proofs` proves `TypeCorrect`, `LockedReads` (`WholeUnderLock`),
`SavesStay` (`LastSaveStays`) and `BodiesThere` (`BodyWithMeta`), for every set of
threads, processes, images and contents. Its inductive invariant joins to them
that the holder of a lock is the thread that has a file open (`Busy`,
`LockOfWriter`), that an image not yet added has no metadata and one being
added is nobody's to write (`NotAdded`, `Fresh`), that an open file is empty and
open once unless two processes write it (`OpenOnce`), and that between the two
removals of a deletion there is no metadata unless a save brought it back
(`RemovesDead`). `LockedByWriter`, the safety half of `LockFreed`, says who has the
lock: a thread of the process (`OwnLock`) that has a file open, and that is at no
place where it would wait; by `CallsGoOn` each of its steps takes it on.
`ReadsLastSave` says what all this is for: a poll returns what the last save that
returned has written, whatever the other threads of its process are doing. Its
hypotheses are what can really spoil it: another process with the file open, a
write that failed, was cut short or met another.

`EC2_proofs` proves `TypeCorrect`, `DataThere` (`ImageHasData`), `Tidy`
(`TidyUnlessSlips`) and `Recorded` (`RecordedUnlessSlips`) for every positive
`Limit` of each wait, so also for those of the code, and for every set of kinds.
Its inductive invariant says which places each kind of request can reach
(`Course`), what was written before a snapshot is waited for (`Written`), that
there is no image before the step that makes it (`NotYet`), what the finally
clause has already removed (`Temporary`), and that an image not yet recorded is
one that a push is about to record, or whose registration raised (`ToRecord`).
The safety half of `InstanceEnds` is in two theorems: an instance that runs is
one the plugin has yet to terminate (`InstanceOwed`), and no step goes back or
looks once more than a wait allows (`PushesGoOn`), for which the places are
numbered (`Place`).

`Builder_proofs` proves, for every set of Builders, requests, deletions, crashes
and plugin statuses: `StagesInOrder` (`StageOrder`), `ReportsStored`
(`ReportedIsStored`), `ReportsEnd` (`NoReportAfterShutDown`), and
`LifecycleHolds` (`Spec => ImplementsImageLifecycle`, the whole refinement); and
`CompleteStands` (`CompleteTakenBack`), for whatever statuses plugins set:
COMPLETE that was saved is never taken back, and COMPLETE that was only reported
is when its save raised, or when an OS plugin had claimed it and raised then
(`ClaimedByPlugin`). `IInv` joins to the types how far the calling thread must be
for an image's thread to be where it is (`CallerAhead`), and of each image that
its status fits its place (`StatusFits`), that a settled status was saved last
(`SettledLast`), that its thread knows its parent and works only on a settled one
(`KnowsParent`, `BuildsOnSettled`), and that history records it (`Recorded`,
`ClosedLast`). `StageOrder` is not inductive without them: that a parent was
complete is learnt before a join or a poll, and used after. For the refinement
`LInv` adds that the parents of one request are made within the calls for their
children (`Nested`), that an image not yet made has left no trace (`Unmade`,
`Traceless`), and that who writes has found the image managed (`WritesFound`);
the lemma `OneWrites`, that a Builder writes one image at a time, lets a step of
one thread be a step of the abstract store. Two theorems are about the waits.
Their invariant `WInv` says that an image left NEW without a thread is one its
call is still at, or one whose call raised or was killed (`Making`), that a
parent made by the same call has its thread first (`ParentStarted`,
`JoinsStarted`), that an ID names an image of a Builder asked before
(`AskedBefore`), and that the Builders can be numbered accordingly (`Ordered`).
`NoCircleOfWaits` numbers the images from it; `SomeThreadMayStep` takes the
thread with the least number out of any set of threads that wait within the set:
it may step, or its call may, or it polls for an image that is stranded. With
weak fairness of threads and calls this is why `ThreadsEnd` holds, and the
exception it makes; `MayStep` spells out the guards of `ThreadStep`. That no
thread goes on for ever is `ThreadsGoOn`: its `Rank` counts the places, and at
the test of the parent whether the thread knows a status that is decided, for
which `OwnParentDecided` shows that a parent of its own call is settled by then;
so the loop of test and poll is left after one round. Two theorems follow from
the refinement, with an invariant of the abstract store (`RInv`), for every
reader: `ReadersAgree`, that an image which one poll saw settled no later one
sees settled otherwise, or NEW; and `GoneForGood`, that a deletion stands against
the thread which was still building the image, unless the save of that thread had
found the image before.

`Courses_proofs` proves, for every table of courses, every set of threads and of
locks, every limit, and every choice of what runs side by side: `TableIsTidy`
(`Tidy`), `TableIsComplete` (`ReturnedIsComplete`) and `TableFreesLocks`
(`LocksFreed`). It assumes what `Courses` states of its constants, which TLC
evaluates for the plugins' table, and has the hypothesis that every course is
accounted for (`AccountedFor`): the flow through its steps brings to its ends what
it answers for. That is a finite fact of each course; the run checks it
(`Accounted`). The inductive invariant adds to the types that what a thread holds
accords with `Known` and `Sure` at its place (`Accords`). From it follow also
`TableKeepsData` (`DataKept`), since where one of the two data files goes the other
is sure to be there, and `TableGoesOn`: while a thread runs some thread can act,
because whoever holds a lock is not waiting for one (`OneLock`). `NoWayBack` is the
safety half of `CourseEnds`: a step brings its thread onward or spends a look, and
nobody sends another back.

`Service_proofs` proves `RegistryKeeps` (`NotForgotten`) and `RegistryForgets`
(`LeftoverIsLate`) for every set of images, of deletions and of threads that
load. Its invariant says which status a builder's thread can have at each place,
and that a failure or a failed deletion that is stored did happen
(`StatusFollows`), what holds of the image that the main thread is creating
(`MainFollows`), that a notification of a failure or of a deletion is true
(`NewsIsTrue`), that a failed image's failure is on its way or has been told
(`FailureIsNews`), and that a builder registered after being told of is late
(`ToldIsLate`). A second invariant, `LInv`, is about the two locks: who holds one
is at a place where it was taken, and goes on (`HoldersAreIn`, `HoldersGoOn`), a
thread posts one notification after the other (`OneAtATime`), and workers outlive
their time as observers (`ObserversWork`). It gives `LocksComeBack`,
`ObserversAnswer` and `DeadlockFree`, the safety half of `ThreadsEnd`: unless a
signal ended the main thread with a lock held, somebody can take a step as long
as a builder builds or deletes. `ThreadsGoOn` bounds the steps: a builder's rank
counts its places and, in each, the phases of the notification it posted there,
so that the steps under the two locks count as well.

`PackagingAndAlgorithms_proofs` proves `ArchivesWhole` (`ArchiveWhole`),
`HasDirectory` (`NeverHomeless`) and `DescriptorsResolve` (`ReferencesResolve`)
for every set of threads and of requests. Its invariant says that of two threads
between `getcwd` and the last `chdir` both have overlapped (`Windows`), which
packages are there (`Stands`), where the process is unless packagings overlapped
(`Somewhere`), and what is in a package and its archive at each place
(`Contents`). That a whole package has what its descriptors name is shown format
by format (`PackageResolves`). For the algorithms it proves, for inputs of any
length, `PluginNearest` (`NearestPlugin`), `LastOfAName` (`MergedContent`),
`SectionNearest` (`NearestInclude`) and `AnswersHonest` (`HonestAnswers`). The
loops need an invariant: the targets of the files seen so far are those that are
registered, each for the first file that offers it, up to a target that no key
can be made of (`LoadInv`); the template has what the entries seen so far gave,
and they were good (`MergeInv`). That a set of numbers has a least and a greatest
member (`HasMin`, `HasMax`) comes from the library's theorem that < is well
founded.

Only model-checked: liveness (`WorkerTerminates`, `ThreadsEnd`, `LockFreed`,
`InstanceEnds`, `CourseEnds`, and the fairness in `ImplementsStatusDelivery`), since
TLAPS has no ENABLED and no rule for fairness: the theorems named above as their
safety halves show that the waits never block one another (`ShutDownGoesOn`,
`WaitsForWorker`, `LockedByWriter`, `SomeThreadMayStep`, `DeadlockFree`,
`TableGoesOn`) and that steps only go on, by a rank that every step raises and
nobody lowers (`DrainsDown`, `ThreadsGoOn`, `CallsGoOn`, `PushesGoOn`, `NoWayBack`);
they leave to TLC that a step which may be taken is taken in the end;
`Accounted`, a fact about the plugins' table and not about all tables; and of course
the violations. No module with a theorem reaches a RECURSIVE operator.

## Limits

* Within one process the metadata lock keeps a poll from finding an empty file;
  `Builder` lets its Builders be processes, which includes that case.
* The status of an image is set and reported by its own thread; a deletion works
  on an object of its own, and its status is in `deletion`.
* In `EC2` the exit status of `gzip -dc ... | dd` is that of `dd`: `Decompress` may
  leave a volume written in part and go on, and `ImageHasData` says only that it
  was written to. Access by ssh at the last of 300 tries counts as none
  (`SshAccess`, `EC2.py:522`), as in the code. What is left when `authorize`,
  `create_key_pair` or `run_instances` raises (`RaisesBefore`, `EC2.py:1016`) is
  left: the code enters its `try` later. A factory that is killed leaves its
  instance running; nothing is stored from which it could be found. A call that
  raises is taken to have changed nothing at EC2, but for the three that make an
  image, whose answer may be lost (`AnswerLost`).
* Courses abstract the data of a method: that a call is made with the right
  arguments is not shown.
* `Service` has one way to build; the other two methods of the dispatcher have
  the same steps around another call of the Builder. Filters of observers are
  reduced to their image. Deletions are started by the main thread alone, since
  no other thread can make a Builder; their own callback workers are left out.
* `Rest` has no answer 400 for the KeyError that `create_image` handles
  (`RESTv2.py:173-175`): it takes image metadata without keys that the code itself
  always writes.

### Not modelled

The Mongo store (a find and an upsert; `FileImageStore` has its one hazard, the
test before the save); the Windows proxy, which no part of the factory calls; the
HyperV descriptor, which always raises under Python 3 before it writes; the text,
sizes and numbers of descriptors; parsing of templates, options and XML;
secondary factories; space reservations and job queues, which only their tests
use; `EC2.abort`, since the Builder aborts OS plugins only, and the table of
regions; `images_from_query`, which reads each file as `image_with_id` does;
`percent_complete`, which posts as `status` does, and `status_detail`; `bottle.py`,
which is vendored; daemonizing, logging and arguments; the shape of responses.

## What reading and modelling brought to light

Shown by a run: see `builder_wait` and `sigterm`. The rest is in the modules as the
code has it, or was met while reading.

* Builder and process. `Builder.__init__` sets a signal handler (line 52), which
  Python allows in the main thread only, so that request handlers, which run in
  the server's pool of threads (`imagefactoryd:213`), cannot make a Builder.
  `BuildDispatcher` waits for a status COMPLETED (line 31), which
  `PersistentImage` does not have: builders that succeed are never forgotten. A
  deletion, also one that failed, makes it forget a builder that still runs, and
  so does every later load of an image that was saved as DELETEFAILED, which that
  deletion may have written over what the builder saved (`Decided`). A signal
  that arrives while the main thread holds the lock of the center or of the
  registry leaves it held, and the process hangs (`cut`).
  `customize_image_for_target` accepts a template together with a BaseImage ID:
  its message "not both" (line 185) is out of reach, because the branch before
  takes every request with a template; `push_image_to_provider` has the tests in
  the other order. A snapshot sets `provider_account_identifier` on the Builder
  (`EC2.py:850`), a push on the image (line 1231).
* Store and manager. A save that has passed the test at
  `FilePersistentImageManager.py:157` outside of the lock brings a deleted image
  back. The first two callers of `ReservationManager` may get a manager each
  (line 63), and then both compress one image (`EC2.py:971`); listen ports of
  processes with consecutive IDs collide (lines 74-76); `reserve_space_for_file`
  (line 107), which nothing uses, tests and records without a lock; the docstring
  of `enter_queue` promises the local queue by default, the code enters none. A
  `touch` that fails (`TouchFails`) leaves the compressed image unmarked, so that
  the next push compresses again under a reader.
* EC2. The loop that waits for a snapshot's AMI has no `else`: a pending AMI is
  recorded and COMPLETE (`EC2.py:828-843`). Between the call that registers an image
  and the line that records its id a call may raise, or `m` be None (lines 816 and
  1338): the image is then registered and recorded nowhere (`Registration`). A
  deletion from S3 that failed half way cannot be repeated (line 263).
* Other plugins. `delete_from_provider` of vSphere and RHEVM always raises
  (`self.builder` is never set). GCE deletes the earlier image before it inserts
  the new one. Nova leaves its instance on any exception and passes COMPLETE to
  `update` before it terminates it (`Nova.py:183`, against the convention at
  `Builder.py:136-137`): when that raises the image is FAILED after it was
  reported COMPLETE, which `CompleteTakenBack` has as `ClaimedByPlugin`.
  IndirectionCloud names its guest after the utility image. TinMan's
  `create_target_image` raises in `_init_oz` when the base image was built
  elsewhere and there are no parameters. Docker leaves its mount directory when
  the mount fails, OVA the package when `generate_ova` raises. TinMan and Nova
  both register Fedora, and the order of `listdir` decides.
* Packages. `make_ova_package` changes the working directory of the process
  (`ovfcommon.py:797-822`): walks that overlap mix files, and one that ends may
  remove the directory that the process is left in, after which `getcwd` raises
  for every later packaging. "hyperv" never omits the Vagrant files, because a
  False is filtered out (`OVA.py:130`); sizes for RHEV are floats under Python 3;
  the VirtualBox section says one CPU whatever `ovf_cpu_count` is
  (`ovfcommon.py:1667`); `pyvhd` cannot be imported under Python 3.
* Plugin manager. The entry that says a duplicate plugin is inactive is
  overwritten (`PluginManager.py:82`), though the docstring says it is listed. A
  target that is a string is registered as a string (line 73), but looked up as the
  list of it (line 138), so nobody finds it; and a string that nothing fits raises
  (line 140) where the docstring promises None (lines 124-133) and `Builder.py:230`
  expects it.
* REST. `dencode` makes keys of bytes, so that a JSON request to create is
  answered 500; 400, 401 and 404 raised inside of the `try` are answered 500 as
  well; a request that accepts XML passes the check and raises when the builder
  is running already; `log_request` raises a TypeError in debug mode. `Template`
  calls methods for UUIDs and URLs that do not exist.

## State of the plan

The components were taken in this order: callback worker, Builder, file store,
reservation manager with its users, EC2; then the process around the builders,
the methods of all other plugins, packaging, and the algorithms; proofs followed
each. What could still be added, in order of worth: `percent_complete` and
`status_detail` in `Service`, with the update that changes a queued dictionary in
place (`PersistentImage.py:114`); secondary factories as another pair of processes
in `Builder`; lost answers of calls other than those that make an image, in `EC2`.
