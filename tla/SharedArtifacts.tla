-------------------------- MODULE SharedArtifacts --------------------------
(***************************************************************************)
(* The files that builds share, and the named locks that guard them.       *)
(*                                                                         *)
(* A TinMan build takes a listen port for its guest and generates install  *)
(* media, which Oz caches for each kind of guest (TinMan.py).  An EC2 push *)
(* compresses the data of its TargetImage into a .gz beside it, unless a   *)
(* .gz and the marker of its completion are there, and uploads it          *)
(* (EC2.py).  Each of these is guarded by a lock of the ReservationManager *)
(* of the process.                                                         *)
(***************************************************************************)
EXTENDS ReservationManager

CONSTANTS Builds, Pushes,   \* the threads that build, and those that push
          Media, Images,    \* the media and the images; also names of locks
          Artifact,         \* what each thread works on
          CommandsFail,     \* whether gzip and touch may fail
          Crashes           \* the processes that may be killed

ASSUME ThreadsAssumption == Threads = Builds \cup Pushes /\ Builds \cap Pushes = {}
ASSUME NamesAssumption == Names = Media \cup Images
ASSUME ArtifactAssumption ==
  Artifact \in [Threads -> Names]
  /\ \A t \in Threads : IF t \in Builds THEN Artifact[t] \in Media
                                       ELSE Artifact[t] \in Images
ASSUME CommandsFailAssumption == CommandsFail \in BOOLEAN
ASSUME CrashesAssumption == Crashes \subseteq Processes

VARIABLES
  at,       \* where each thread is
  gz,       \* the .gz of each image
  marker,   \* the images whose completion marker is there
  clashed,  \* history: the images two threads compressed at the same time
  unmarked  \* history: the images whose marker could not be made

vars == <<instance, manager, named_locks, listen_port, ports, at, gz, marker,
          clashed, unmarked>>
fileVars == <<gz, marker, clashed, unmarked>>

TypeOK ==
  /\ ManagerTypeOK
  /\ at \in [Threads -> {"start", "making", "made", "port", "acquire",
                         "generating", "test", "gzip", "compressing", "touch",
                         "release", "failing", "uploading", "done", "failed",
                         "killed"}]
  /\ gz \in [Images -> {"none", "partial", "whole"}]
  /\ marker \subseteq Images
  /\ clashed \subseteq Images
  /\ unmarked \subseteq Images

Init ==
  /\ ManagerInit
  /\ at = [t \in Threads |-> "start"]
  /\ gz = [i \in Images |-> "none"]
  /\ marker = {}
  /\ clashed = {}
  /\ unmarked = {}

Goes(t, from, to) == at[t] = from /\ at' = [at EXCEPT ![t] = to]

\* Where a thread goes once it has its manager.
AfterManager(t) == IF t \in Builds THEN "port" ELSE "acquire"
Inside(t) == IF t \in Builds THEN "generating" ELSE "test"

FindNoManager(t) ==
  /\ Goes(t, "start", "making")
  /\ FindsNone(t)
  /\ UNCHANGED <<managerVars, fileVars>>

FindManager(t) ==
  /\ Goes(t, "start", "made")
  /\ ~FindsNone(t)
  /\ UNCHANGED <<managerVars, fileVars>>

MakeManager(t) ==
  /\ Goes(t, "making", "made")
  /\ PutInstance(t)
  /\ UNCHANGED fileVars

GetManager(t) ==
  /\ Goes(t, "made", AfterManager(t))
  /\ TakeInstance(t)
  /\ UNCHANGED fileVars

TakePort(t) ==
  /\ Goes(t, "port", "acquire")
  /\ GetNextListenPort(t)
  /\ UNCHANGED fileVars

\* GuestFactory raises before a port is taken.
GuestRefused(t) ==
  /\ Goes(t, "port", "failed")
  /\ UNCHANGED <<managerVars, fileVars>>

AcquireNamedLock(t) ==
  /\ Goes(t, "acquire", Inside(t))
  /\ GetNamedLock(t, Artifact[t])
  /\ UNCHANGED fileVars

\* generate_install_media returns, or raises.
GenerateMedia(t) ==
  /\ Goes(t, "generating", "release") \/ Goes(t, "generating", "failing")
  /\ UNCHANGED <<managerVars, fileVars>>

\* A faulty variant of Compressed: only the .gz is looked for.
OnlyGz(i) == gz[i] # "none"

Compressed(i) == gz[i] # "none" /\ i \in marker

FindCompressed(t) ==
  /\ Goes(t, "test", "release")
  /\ Compressed(Artifact[t])
  /\ UNCHANGED <<managerVars, fileVars>>

Compressing(t, i) == Artifact[t] = i /\ at[t] = "compressing"
WillMark(t, i) == Artifact[t] = i /\ at[t] \in {"gzip", "compressing", "touch"}

FindNotCompressed(t) ==
  LET i == Artifact[t] IN
  /\ Goes(t, "test", "gzip")
  /\ ~Compressed(i)
  /\ clashed' = IF \E u \in Threads : WillMark(u, i) THEN clashed \cup {i} ELSE clashed
  /\ UNCHANGED <<gz, marker, unmarked, managerVars>>

\* The shell truncates the .gz and runs gzip.
StartGzip(t) ==
  /\ Goes(t, "gzip", "compressing")
  /\ gz' = [gz EXCEPT ![Artifact[t]] = "partial"]
  /\ UNCHANGED <<marker, clashed, unmarked, managerVars>>

\* Two gzips of one image write the same bytes to the same places: the file is
\* whole when the last of them is done.
EndGzip(t) ==
  /\ Goes(t, "compressing", "touch")
  /\ gz' = IF \E u \in Threads \ {t} : Compressing(u, Artifact[t])
             THEN gz ELSE [gz EXCEPT ![Artifact[t]] = "whole"]
  /\ UNCHANGED <<marker, clashed, unmarked, managerVars>>

\* A faulty variant of GzipRaises: the exit status of gzip is not looked at.
GzipIgnored(t) ==
  /\ CommandsFail
  /\ Goes(t, "compressing", "touch")
  /\ UNCHANGED <<managerVars, fileVars>>

GzipRaises(t) ==
  /\ CommandsFail
  /\ Goes(t, "compressing", "failing")
  /\ UNCHANGED <<managerVars, fileVars>>

TouchMarker(t) ==
  /\ Goes(t, "touch", "release")
  /\ marker' = marker \cup {Artifact[t]}
  /\ UNCHANGED <<gz, clashed, unmarked, managerVars>>

\* Nobody looks at the exit status of touch.
TouchFails(t) ==
  /\ CommandsFail
  /\ Goes(t, "touch", "release")
  /\ unmarked' = unmarked \cup {Artifact[t]}
  /\ UNCHANGED <<gz, marker, clashed, managerVars>>

\* A faulty variant of Released: the lock is released on success only.
ReleasedOnSuccess(t) ==
  IF at[t] = "release" THEN ReleaseNamedLock(t, Artifact[t]) ELSE UNCHANGED managerVars

Released(t) == ReleaseNamedLock(t, Artifact[t])

\* The finally clause.
Release(t) ==
  /\ \/ Goes(t, "release", IF t \in Builds THEN "done" ELSE "uploading")
     \/ Goes(t, "failing", "failed")
  /\ Released(t)
  /\ UNCHANGED fileVars

\* The push goes on to read the .gz, and returns or raises.
Upload(t) ==
  /\ Goes(t, "uploading", "done")
  /\ UNCHANGED <<managerVars, fileVars>>

Ended(t) == at[t] \in {"done", "failed", "killed"}

\* A process is killed; the semaphores and ports go with it.
Crash(p) ==
  /\ \E t \in Threads : Process[t] = p /\ ~Ended(t)
  /\ at' = [t \in Threads |-> IF Process[t] = p /\ ~Ended(t) THEN "killed" ELSE at[t]]
  /\ UNCHANGED <<managerVars, fileVars>>

ThreadStep(t) ==
  \/ FindNoManager(t)
  \/ FindManager(t)
  \/ MakeManager(t)
  \/ GetManager(t)
  \/ TakePort(t)
  \/ GuestRefused(t)
  \/ AcquireNamedLock(t)
  \/ GenerateMedia(t)
  \/ FindCompressed(t)
  \/ FindNotCompressed(t)
  \/ StartGzip(t)
  \/ EndGzip(t)
  \/ GzipRaises(t)
  \/ TouchMarker(t)
  \/ TouchFails(t)
  \/ Release(t)
  \/ Upload(t)

Finished == (\A t \in Threads : Ended(t)) /\ UNCHANGED vars

Next ==
  \/ \E t \in Threads : ThreadStep(t)
  \/ \E p \in Crashes : Crash(p)
  \/ Finished

Spec == Init /\ [][Next]_vars /\ \A t \in Threads : WF_vars(ThreadStep(t))

-----------------------------------------------------------------------------
(* Correctness.                                                            *)

Holds(t) ==
  at[t] \in {"generating", "test", "gzip", "compressing", "touch", "release", "failing"}

\* "We can only have one active generate_install_media() call for each unique
\* tuple", and one compression of an image: two threads that share a manager
\* are never both between acquiring and releasing the lock of one artifact,
\* even if both were the first to ask for it.
OneAtATime ==
  \A t, u \in Threads :
    (t # u /\ manager[t] = manager[u] /\ Artifact[t] = Artifact[u])
      => ~(Holds(t) /\ Holds(u))

\* The marker is "without this we might use a partially compressed file that
\* resulted from a crash": a .gz that is marked complete is whole, and nobody
\* writes it, unless two threads had compressed it at once: threads with two managers,
\* as OneAtATime says.
MarkerMeansWhole ==
  \A i \in marker \ clashed : gz[i] = "whole" /\ \A t \in Threads : ~Compressing(t, i)

\* What is uploaded is a whole .gz, with the same exception, and if its marker
\* could be made: without one the next push writes the file again, under the
\* lock, but the upload before it reads without.
UploadsWhole ==
  \A t \in Pushes :
    (at[t] = "uploading" /\ Artifact[t] \notin clashed \cup unmarked)
      => gz[Artifact[t]] = "whole"

\* Every thread that has a lock to wait for gets it, whoever fails inside.
ThreadsEnd == <>(\A t \in Threads : Ended(t))
=============================================================================
