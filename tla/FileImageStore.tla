--------------------------- MODULE FileImageStore ---------------------------
(***************************************************************************)
(* imgfac/FilePersistentImageManager.py: the images of a factory as pairs  *)
(* of files in one directory, a .meta that holds the metadata and a .body. *)
(*                                                                         *)
(* Several processes may use the directory at once, a daemon and any       *)
(* number of command line runs; each of them has a metadata_lock of its    *)
(* own.  The lock covers reading and writing a .meta file.  It covers      *)
(* neither the test that the file exists, nor its creation or removal.     *)
(*                                                                         *)
(* A save opens the file, which truncates or creates it, and writes it out *)
(* when it is closed: metadata fits in the file object's buffer.           *)
(***************************************************************************)
CONSTANTS Processes, Threads,
          Process,          \* the process each thread belongs to
          Images,
          Versions,         \* the metadata an image may be saved with
          NoThread,
          NoImage,          \* None, what image_with_id returns
          DiskFails,        \* whether an operation on a file may fail
          Crashes           \* the processes that may be killed and restarted

ASSUME ProcessAssumption == Process \in [Threads -> Processes]
ASSUME NoThreadAssumption == NoThread \notin Threads
ASSUME VersionsAssumption ==
  {NoImage, "none", "empty", "torn"} \cap Versions = {}
ASSUME NoImageAssumption ==
  NoImage \notin Images /\ NoImage \notin {"none", "empty", "torn"}
ASSUME DiskFailsAssumption == DiskFails \in BOOLEAN
ASSUME CrashesAssumption == Crashes \subseteq Processes

VARIABLES
  meta,         \* what each .meta file holds, "none" if there is no file
  body,         \* the images that have a .body file
  lock,         \* who holds the metadata_lock of each process
  op,           \* what each thread is doing, with which image and metadata
  loaded,       \* what the last call of image_with_id returned
  added,        \* history: the images that add_image was called with
  saved,        \* history: the metadata last written out to each image
  spoiled,      \* history: the images whose last write failed, was cut short
                \* by a crash, or met a write of another process
  bodyless      \* history: the images whose .body could not be created, and
                \* those that a save created anew after their deletion

historyVars == <<added, saved, spoiled, bodyless>>
vars == <<meta, body, lock, op, loaded, added, saved, spoiled, bodyless>>

Idle == [at |-> "idle", image |-> NoImage, version |-> NoImage, linked |-> FALSE]

Calls == [at : {"idle", "createmeta", "createbody", "ismanaged", "open", "close",
                "removebody"},
          image : Images \cup {NoImage},
          version : Versions \cup {NoImage},
          linked : BOOLEAN]

TypeOK ==
  /\ meta \in [Images -> Versions \cup {"none", "empty", "torn"}]
  /\ body \subseteq Images
  /\ lock \in [Processes -> Threads \cup {NoThread}]
  /\ op \in [Threads -> Calls]
  /\ loaded \in Versions \cup {NoImage}
  /\ added \subseteq Images
  /\ saved \in [Images -> Versions \cup {NoImage}]
  /\ spoiled \subseteq Images
  /\ bodyless \subseteq Images

Init ==
  /\ meta = [i \in Images |-> "none"]
  /\ body = {}
  /\ lock = [p \in Processes |-> NoThread]
  /\ op = [t \in Threads |-> Idle]
  /\ loaded = NoImage
  /\ added = {}
  /\ saved = [i \in Images |-> NoImage]
  /\ spoiled = {}
  /\ bodyless = {}

At(t, where) == op[t].at = where
Go(t, where) == op' = [op EXCEPT ![t].at = where]
Return(t) == op' = [op EXCEPT ![t] = Idle]
Begin(t, where, i, v) ==
  op' = [op EXCEPT ![t] = [at |-> where, image |-> i, version |-> v,
                           linked |-> FALSE]]

-----------------------------------------------------------------------------
(* add_image.                                                              *)

\* An identifier is a fresh UUID.
Add(t, i, v) ==
  /\ At(t, "idle")
  /\ i \notin added
  /\ added' = added \cup {i}
  /\ Begin(t, "createmeta", i, v)
  /\ UNCHANGED <<meta, body, lock, loaded, saved, spoiled, bodyless>>

CreateMeta(t) ==
  /\ At(t, "createmeta")
  /\ meta' = [meta EXCEPT ![op[t].image] = "empty"]
  /\ Go(t, "createbody")
  /\ UNCHANGED <<body, lock, loaded, historyVars>>

CreateBody(t) ==
  /\ At(t, "createbody")
  /\ body' = body \cup {op[t].image}
  /\ Go(t, "ismanaged")
  /\ UNCHANGED <<meta, lock, loaded, historyVars>>

\* An IOError is logged, the rest of the files is not created, and the image
\* is saved all the same.
CreateFails(t) ==
  /\ DiskFails
  /\ At(t, "createmeta") \/ At(t, "createbody")
  /\ bodyless' = bodyless \cup {op[t].image}
  /\ Go(t, "ismanaged")
  /\ UNCHANGED <<meta, body, lock, loaded, added, saved, spoiled>>

-----------------------------------------------------------------------------
(* save_image.                                                             *)

\* Whoever saves an image has added it or loaded it before.
Save(t, i, v) ==
  /\ At(t, "idle")
  /\ i \in added
  /\ Begin(t, "ismanaged", i, v)
  /\ UNCHANGED <<meta, body, lock, loaded, historyVars>>

\* The test for the file; save_image raises if there is none.
IsManaged(t) ==
  /\ At(t, "ismanaged")
  /\ IF meta[op[t].image] = "none" THEN Return(t) ELSE Go(t, "open")
  /\ UNCHANGED <<meta, body, lock, loaded, historyVars>>

HasOpen(t, i) == At(t, "close") /\ op[t].image = i /\ op[t].linked

\* A faulty variant of TakeLock: the file is written without the lock.
LeaveLock(t) == UNCHANGED lock

TakeLock(t) ==
  /\ lock[Process[t]] = NoThread
  /\ lock' = [lock EXCEPT ![Process[t]] = t]

\* open(path, 'w') truncates the file, or creates it if it was deleted since.
Open(t) ==
  LET i == op[t].image IN
  /\ At(t, "open")
  /\ TakeLock(t)
  /\ meta' = [meta EXCEPT ![i] = "empty"]
  /\ op' = [op EXCEPT ![t].at = "close", ![t].linked = TRUE]
  /\ bodyless' = IF meta[i] = "none" THEN bodyless \cup {i} ELSE bodyless
  /\ spoiled' = IF \E u \in Threads : Process[u] # Process[t] /\ HasOpen(u, i)
                  THEN spoiled \cup {i} ELSE spoiled \ {i}
  /\ UNCHANGED <<body, loaded, added, saved>>

\* open raises; save_image does too.
OpenFails(t) ==
  /\ DiskFails
  /\ At(t, "open")
  /\ lock[Process[t]] = NoThread
  /\ Return(t)
  /\ UNCHANGED <<meta, body, lock, loaded, historyVars>>

\* The file is written from its start.  What another writer put there since it
\* was truncated is overwritten, but its end may stick out.  A file removed
\* since is written all the same, for nobody to see.
Close(t) ==
  LET i == op[t].image  v == op[t].version IN
  /\ At(t, "close")
  /\ IF op[t].linked
       THEN /\ \E c \in IF meta[i] = "empty" THEN {v} ELSE {v, "torn"} :
                 meta' = [meta EXCEPT ![i] = c]
            /\ saved' = [saved EXCEPT ![i] = v]
       ELSE UNCHANGED <<meta, saved>>
  /\ lock' = [lock EXCEPT ![Process[t]] = NoThread]
  /\ Return(t)
  /\ UNCHANGED <<body, loaded, added, spoiled, bodyless>>

\* A faulty variant of LockAfterFailure: the lock is released on success only.
KeptLock(t) == lock
LockAfterFailure(t) == [lock EXCEPT ![Process[t]] = NoThread]

\* Dumping the metadata, or writing the file out, raises; save_image does too.
CloseFails(t) ==
  LET i == op[t].image IN
  /\ DiskFails
  /\ At(t, "close")
  /\ IF op[t].linked
       THEN /\ \E c \in {meta[i], "torn"} : meta' = [meta EXCEPT ![i] = c]
            /\ spoiled' = spoiled \cup {i}
       ELSE UNCHANGED <<meta, spoiled>>
  /\ lock' = LockAfterFailure(t)
  /\ Return(t)
  /\ UNCHANGED <<body, loaded, added, saved, bodyless>>

-----------------------------------------------------------------------------
(* image_with_id and delete_image_with_id.                                 *)

\* image_with_id returns None for any file that it cannot open or parse.
Parsed(content) == IF content \in Versions THEN content ELSE NoImage

Load(t, i) ==
  /\ At(t, "idle")
  /\ i \in added
  /\ lock[Process[t]] = NoThread
  /\ loaded' = Parsed(meta[i])
  /\ UNCHANGED <<meta, body, lock, op, historyVars>>

\* Writers that have the file open keep it, but nobody finds it any more.
Unlinked(i) ==
  [t \in Threads |-> IF HasOpen(t, i) THEN [op[t] EXCEPT !.linked = FALSE] ELSE op[t]]

\* A faulty variant of Delete: the .body is removed first.
DeleteBodyFirst(t, i) ==
  /\ At(t, "idle")
  /\ i \in body
  /\ body' = body \ {i}
  /\ Begin(t, "removebody", i, NoImage)
  /\ UNCHANGED <<meta, lock, loaded, historyVars>>

\* The .meta file is removed.  If that fails the .body stays: the exception is
\* logged, and the caller is told nothing.
Delete(t, i) ==
  /\ At(t, "idle")
  /\ i \in added
  /\ meta[i] # "none"
  /\ meta' = [meta EXCEPT ![i] = "none"]
  /\ op' = [Unlinked(i) EXCEPT ![t] = [at |-> "removebody", image |-> i,
                                       version |-> NoImage, linked |-> FALSE]]
  /\ UNCHANGED <<body, lock, loaded, historyVars>>

RemoveBody(t) ==
  /\ At(t, "removebody")
  /\ \/ body' = body \ {op[t].image}
     \/ DiskFails /\ UNCHANGED body
  /\ Return(t)
  /\ UNCHANGED <<meta, lock, loaded, historyVars>>

-----------------------------------------------------------------------------
\* A process is killed, its files left as they are, and started again.
Crash(p) ==
  LET mine == {t \in Threads : Process[t] = p}
      cut == {i \in Images : \E t \in mine : HasOpen(t, i)}
  IN
  /\ \E t \in mine : ~At(t, "idle")
  /\ op' = [t \in Threads |-> IF t \in mine THEN Idle ELSE op[t]]
  /\ lock' = [lock EXCEPT ![p] = NoThread]
  /\ spoiled' = spoiled \cup cut
  /\ bodyless' = bodyless \cup {op[t].image : t \in {u \in mine : At(u, "createbody")}}
  /\ \E torn \in SUBSET cut :
       meta' = [i \in Images |-> IF i \in torn THEN "torn" ELSE meta[i]]
  /\ UNCHANGED <<body, loaded, added, saved>>

ThreadStep(t) ==
  \/ CreateMeta(t)
  \/ CreateBody(t)
  \/ CreateFails(t)
  \/ IsManaged(t)
  \/ Open(t)
  \/ OpenFails(t)
  \/ Close(t)
  \/ CloseFails(t)
  \/ RemoveBody(t)

Call(t, i) ==
  \/ \E v \in Versions : Add(t, i, v) \/ Save(t, i, v)
  \/ Load(t, i)
  \/ Delete(t, i)

Next ==
  \/ \E t \in Threads : ThreadStep(t) \/ \E i \in Images : Call(t, i)
  \/ \E p \in Crashes : Crash(p)

\* What was called goes on.  Nothing obliges anybody to call.
Spec == Init /\ [][Next]_vars /\ \A t \in Threads : WF_vars(ThreadStep(t))

-----------------------------------------------------------------------------
(* Correctness.                                                            *)

\* A thread that may take its process's lock finds no half written metadata,
\* except of an image that is just being added, that another process is
\* writing, or whose last write did not succeed: so a poll for an image that
\* the same process builds never fails because of a save.
WholeUnderLock ==
  \A p \in Processes :
    lock[p] = NoThread =>
      \A i \in Images :
        meta[i] \in {"empty", "torn"} =>
          \/ saved[i] = NoImage
          \/ i \in spoiled
          \/ \E t \in Threads : Process[t] # p /\ HasOpen(t, i)

\* Once nobody writes an image, its file holds the metadata of the save that
\* was the last to return.
LastSaveStays ==
  \A i \in Images :
    (meta[i] # "none" /\ saved[i] # NoImage /\ i \notin spoiled
       /\ \A t \in Threads : ~HasOpen(t, i)) => meta[i] = saved[i]

\* Metadata never points to a missing .body, whatever creations, saves and
\* deletions overlap and wherever a process is killed, except where the .body
\* could not be created or a save overtaken by a deletion put the image back.
BodyWithMeta ==
  \A i \in Images :
    (meta[i] # "none" /\ i \notin bodyless
       /\ \A t \in Threads : ~(At(t, "createbody") /\ op[t].image = i)) => i \in body

\* The lock is given back, also when the write it was taken for fails.
LockFreed ==
  \A t \in Threads : lock[Process[t]] = t ~> lock[Process[t]] # t
=============================================================================
