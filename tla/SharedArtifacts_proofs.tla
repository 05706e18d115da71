----------------------- MODULE SharedArtifacts_proofs -----------------------
(***************************************************************************)
(* Proofs about SharedArtifacts: for every set of processes, threads,      *)
(* media and images.                                                       *)
(***************************************************************************)
EXTENDS SharedArtifacts, SequenceTheorems, TLAPS

\* The inductive invariant.  A thread that has passed ReservationManager() has
\* an instance, and who is between acquiring and releasing a lock is the one
\* whom the instance's semaphore is taken by.
HasManager ==
  \A t \in Threads :
    /\ at[t] = "made" => instance[Process[t]] \in Threads
    /\ (at[t] \in {"port", "acquire"} \/ Holds(t)) => manager[t] \in Threads

TakenByHolder ==
  \A t \in Threads : Holds(t) => named_locks[manager[t]][Artifact[t]] = t

Places ==
  \A t \in Threads :
    /\ at[t] \in {"port", "generating"} => t \in Builds
    /\ at[t] \in {"test", "gzip", "compressing", "touch", "uploading"} => t \in Pushes

\* Where two threads are on the way to the marker of an image they clash.
OneMarks ==
  \A t, u \in Threads :
    (t # u /\ WillMark(t, Artifact[t]) /\ WillMark(u, Artifact[t]))
      => Artifact[t] \in clashed

MarkedIsLeft ==
  \A i \in marker \ clashed :
    gz[i] = "whole" /\ \A t \in Threads : ~WillMark(t, i)

TouchesWhole ==
  \A t \in Threads :
    (at[t] = "touch" /\ Artifact[t] \notin clashed) => gz[Artifact[t]] = "whole"

ReleasesMarked ==
  \A t \in Pushes :
    at[t] \in {"release", "uploading"} => Artifact[t] \in marker \cup unmarked

IInv ==
  /\ TypeOK
  /\ HasManager
  /\ TakenByHolder
  /\ Places
  /\ OneMarks
  /\ MarkedIsLeft
  /\ TouchesWhole
  /\ ReleasesMarked

-----------------------------------------------------------------------------
LEMMA FirstPortInRange ==
  ASSUME NEW p \in Processes
  PROVE  FirstPort(p) \in MIN_PORT .. MAX_PORT
<1>1. Pid[p] \in Nat /\ MAX_PORT - MIN_PORT \in Nat /\ MAX_PORT - MIN_PORT > 0
  BY PidAssumption, PortAssumption
<1>2. \A a, b \in Nat : b > 0 => a % b \in 0 .. b - 1
  OBVIOUS
<1>3. Pid[p] % (MAX_PORT - MIN_PORT) \in 0 .. (MAX_PORT - MIN_PORT) - 1
  BY <1>1, <1>2
<1> QED  BY <1>1, <1>3, PortAssumption DEF FirstPort

LEMMA InitIInv == Init => IInv
<1> SUFFICES ASSUME Init PROVE IInv
  OBVIOUS
<1>1. ManagerTypeOK
  BY FirstPortInRange, ProcessAssumption, EmptySeq
     DEF Init, ManagerInit, ManagerTypeOK
<1>2. TypeOK
  BY <1>1 DEF Init, TypeOK
<1>3. \A t \in Threads : at[t] = "start"
  BY DEF Init
<1>4. HasManager /\ TakenByHolder /\ Places /\ OneMarks /\ TouchesWhole
  BY <1>3 DEF HasManager, TakenByHolder, Places, OneMarks, TouchesWhole, Holds, WillMark
<1>5. MarkedIsLeft /\ ReleasesMarked
  BY <1>3, ThreadsAssumption DEF Init, MarkedIsLeft, ReleasesMarked
<1> QED  BY <1>2, <1>4, <1>5 DEF IInv

\* The steps of a thread before it has a manager.
LEMMA ManagerStep ==
  ASSUME IInv, NEW t \in Threads,
         FindNoManager(t) \/ FindManager(t) \/ MakeManager(t) \/ GetManager(t)
  PROVE  IInv'
<1> USE ProcessAssumption, NoThreadAssumption DEF IInv, Goes, managerVars, fileVars
<1>1. at[t] \in {"start", "making", "made"}
  BY DEF FindNoManager, FindManager, MakeManager, GetManager
<1>2. at' \in [Threads -> {"start", "making", "made", "port", "acquire",
                           "generating", "test", "gzip", "compressing", "touch",
                           "release", "failing", "uploading", "done", "failed",
                           "killed"}]
      /\ at'[t] \in {"making", "made", "port", "acquire"}
      /\ (at'[t] = "port" => t \in Builds)
      /\ \A u \in Threads \ {t} : at'[u] = at[u]
  BY DEF TypeOK, FindNoManager, FindManager, MakeManager, GetManager, AfterManager
<1>3. UNCHANGED <<named_locks, listen_port, ports, gz, marker, clashed, unmarked>>
  BY DEF FindNoManager, FindManager, MakeManager, GetManager, PutInstance, TakeInstance
<1>4. /\ instance' \in [Processes -> Threads \cup {NoThread}]
      /\ manager' \in [Threads -> Threads \cup {NoThread}]
      /\ \A u \in Threads \ {t} : manager'[u] = manager[u]
      /\ \A p \in Processes : instance[p] \in Threads => instance'[p] \in Threads
      /\ at'[t] = "made" => instance'[Process[t]] \in Threads
      /\ at'[t] \in {"port", "acquire"} => manager'[t] \in Threads
  <2>1. CASE FindNoManager(t)
    BY <2>1 DEF FindNoManager, TypeOK, ManagerTypeOK
  <2>2. CASE FindManager(t)
    BY <2>2 DEF FindManager, FindsNone, TypeOK, ManagerTypeOK
  <2>3. CASE MakeManager(t)
    BY <2>3 DEF MakeManager, PutInstance, TypeOK, ManagerTypeOK
  <2>4. CASE GetManager(t)
    BY <2>4 DEF GetManager, AfterManager, TakeInstance, HasManager, TypeOK,
       ManagerTypeOK
  <2> QED  BY <2>1, <2>2, <2>3, <2>4
<1>5. TypeOK'
  BY <1>2, <1>3, <1>4 DEF TypeOK, ManagerTypeOK
<1>6. \A u \in Threads : Holds(u)' <=> Holds(u)
  BY <1>1, <1>2 DEF Holds
<1>7. \A u \in Threads, i \in Names : WillMark(u, i)' <=> WillMark(u, i)
  BY <1>1, <1>2 DEF WillMark
<1>8. (HasManager /\ TakenByHolder)'
  BY <1>1, <1>2, <1>3, <1>4, <1>6 DEF HasManager, TakenByHolder, Holds
<1>9. (Places /\ TouchesWhole /\ ReleasesMarked)'
  BY <1>1, <1>2, <1>3, ThreadsAssumption DEF Places, TouchesWhole, ReleasesMarked
<1>10. (OneMarks /\ MarkedIsLeft)'
  BY <1>3, <1>7, ArtifactAssumption, NamesAssumption
     DEF OneMarks, MarkedIsLeft, TypeOK
<1> QED  BY <1>5, <1>8, <1>9, <1>10

\* The steps outside the manager and the files of images: a port is taken, the
\* guest is refused, media are generated, an upload ends, a process is killed.
LEMMA QuietStep ==
  ASSUME IInv,
         \/ \E t \in Threads : TakePort(t) \/ GuestRefused(t) \/ GenerateMedia(t)
                                 \/ Upload(t)
         \/ \E p \in Crashes : Crash(p)
         \/ UNCHANGED vars
  PROVE  IInv'
<1> USE DEF IInv, Goes, managerVars, fileVars
<1>1. /\ UNCHANGED <<instance, manager, named_locks, gz, marker, clashed, unmarked>>
      /\ listen_port' \in [Threads -> MIN_PORT .. MAX_PORT]
      /\ ports' \in [Threads -> Seq(MIN_PORT .. MAX_PORT)]
  <2>1. CASE \E t \in Threads : TakePort(t)
    <3>1. PICK t \in Threads : TakePort(t)
      BY <2>1
    <3>2. manager[t] \in Threads
      BY <3>1 DEF TakePort, HasManager
    <3>3. NextPort(listen_port[manager[t]]) \in MIN_PORT .. MAX_PORT
      BY <3>2, PortAssumption DEF NextPort, TypeOK, ManagerTypeOK
    <3>4. Append(ports[manager[t]], NextPort(listen_port[manager[t]]))
            \in Seq(MIN_PORT .. MAX_PORT)
      BY <3>2, <3>3, AppendProperties DEF TypeOK, ManagerTypeOK
    <3> QED
      BY <3>1, <3>3, <3>4 DEF TakePort, GetNextListenPort, TypeOK, ManagerTypeOK
  <2>2. CASE \E t \in Threads : GuestRefused(t) \/ GenerateMedia(t) \/ Upload(t)
    BY <2>2 DEF GuestRefused, GenerateMedia, Upload, TypeOK, ManagerTypeOK
  <2>3. CASE (\E p \in Crashes : Crash(p)) \/ UNCHANGED vars
    BY <2>3 DEF Crash, vars, TypeOK, ManagerTypeOK
  <2> QED  BY <2>1, <2>2, <2>3
<1>2. /\ at' \in [Threads -> {"start", "making", "made", "port", "acquire",
                              "generating", "test", "gzip", "compressing",
                              "touch", "release", "failing", "uploading", "done",
                              "failed", "killed"}]
      /\ \A u \in Threads :
           \/ at'[u] = at[u]
           \/ at'[u] \in {"done", "failed", "killed"}
           \/ at[u] = "port" /\ at'[u] = "acquire"
           \/ at[u] = "generating" /\ at'[u] \in {"release", "failing"}
  BY DEF TypeOK, TakePort, GuestRefused, GenerateMedia, Upload, Crash, vars
<1>3. TypeOK'
  BY <1>1, <1>2 DEF TypeOK, ManagerTypeOK
<1>4. (HasManager /\ TakenByHolder)'
  BY <1>1, <1>2 DEF HasManager, TakenByHolder, Holds
<1>5. (Places /\ OneMarks /\ MarkedIsLeft /\ TouchesWhole)'
  <2>1. \A t \in Threads :
          at'[t] \in {"gzip", "compressing", "touch"} => at'[t] = at[t]
    BY <1>2
  <2>2. Places'
    BY <1>2 DEF Places
  <2> QED
    BY <1>1, <2>1, <2>2 DEF OneMarks, MarkedIsLeft, TouchesWhole, WillMark
<1>6. ReleasesMarked'
  <2>1. \A t \in Pushes :
          at'[t] \in {"release", "uploading"} => at[t] \in {"release", "uploading"}
    BY <1>2, ThreadsAssumption DEF Places
  <2> QED  BY <1>1, <2>1 DEF ReleasesMarked
<1> QED  BY <1>3, <1>4, <1>5, <1>6

\* The named locks.
LEMMA LockStep ==
  ASSUME IInv, NEW t \in Threads, AcquireNamedLock(t) \/ Release(t)
  PROVE  IInv'
<1> USE NoThreadAssumption, ArtifactAssumption DEF IInv, Goes, managerVars, fileVars
<1>1. manager[t] \in Threads /\ Artifact[t] \in Names
  BY DEF AcquireNamedLock, Release, HasManager, Holds
<1>2. UNCHANGED <<instance, manager, listen_port, ports, gz, marker, clashed, unmarked>>
  BY DEF AcquireNamedLock, Release, GetNamedLock, Released, ReleaseNamedLock
<1>3. /\ at' \in [Threads -> {"start", "making", "made", "port", "acquire",
                              "generating", "test", "gzip", "compressing",
                              "touch", "release", "failing", "uploading", "done",
                              "failed", "killed"}]
      /\ \A u \in Threads \ {t} : at'[u] = at[u]
  BY DEF AcquireNamedLock, Release, Inside, TypeOK
<1>4. CASE AcquireNamedLock(t)
  <2>1. named_locks[manager[t]][Artifact[t]] \in {"absent", "free"}
    BY <1>4 DEF AcquireNamedLock, GetNamedLock, Semaphore
  <2>2. named_locks' = [named_locks EXCEPT ![manager[t]][Artifact[t]] = t]
    BY <1>4 DEF AcquireNamedLock, GetNamedLock
  <2>3. at'[t] = Inside(t)
    BY <1>4 DEF AcquireNamedLock, TypeOK
  <2>4. TypeOK'
    BY <1>1, <1>2, <1>3, <2>2 DEF TypeOK, ManagerTypeOK
  <2>5. (HasManager /\ TakenByHolder)'
    BY <1>1, <1>2, <1>3, <2>1, <2>2, <2>3
       DEF HasManager, TakenByHolder, Holds, Inside, TypeOK, ManagerTypeOK
  <2>6. (Places /\ OneMarks /\ MarkedIsLeft /\ TouchesWhole /\ ReleasesMarked)'
    BY <1>2, <1>3, <2>3, ThreadsAssumption
       DEF Places, OneMarks, MarkedIsLeft, TouchesWhole, ReleasesMarked, WillMark, Inside
  <2> QED  BY <2>4, <2>5, <2>6
<1>5. CASE Release(t)
  <2>1. named_locks' = [named_locks EXCEPT ![manager[t]][Artifact[t]] = "free"]
    BY <1>5 DEF Release, Released, ReleaseNamedLock
  <2>2. /\ at[t] \in {"release", "failing"}
        /\ at'[t] \in {"done", "uploading", "failed"}
        /\ at'[t] = "uploading" => at[t] = "release" /\ t \in Pushes
    BY <1>5, ThreadsAssumption DEF Release, TypeOK
  <2>3. named_locks[manager[t]][Artifact[t]] = t
    BY <2>2 DEF TakenByHolder, Holds
  <2>4. TypeOK'
    BY <1>1, <1>2, <1>3, <2>1 DEF TypeOK, ManagerTypeOK
  <2>5. (HasManager /\ TakenByHolder)'
    BY <1>1, <1>2, <1>3, <2>1, <2>2, <2>3
       DEF HasManager, TakenByHolder, Holds, TypeOK, ManagerTypeOK
  <2>6. (Places /\ OneMarks /\ MarkedIsLeft /\ TouchesWhole /\ ReleasesMarked)'
    BY <1>2, <1>3, <2>2, ThreadsAssumption
       DEF Places, OneMarks, MarkedIsLeft, TouchesWhole, ReleasesMarked, WillMark
  <2> QED  BY <2>4, <2>5, <2>6
<1> QED  BY <1>4, <1>5

\* The compression of an image, under its lock.
LEMMA CompressStep ==
  ASSUME IInv, NEW t \in Threads,
         \/ FindCompressed(t) \/ FindNotCompressed(t)
         \/ StartGzip(t) \/ EndGzip(t) \/ GzipRaises(t)
         \/ TouchMarker(t) \/ TouchFails(t)
  PROVE  IInv'
<1> USE DEF IInv, Goes, managerVars, fileVars
<1>1. /\ UNCHANGED managerVars
      /\ at' \in [Threads -> {"start", "making", "made", "port", "acquire",
                              "generating", "test", "gzip", "compressing",
                              "touch", "release", "failing", "uploading", "done",
                              "failed", "killed"}]
      /\ \A u \in Threads \ {t} : at'[u] = at[u]
      /\ at[t] \in {"test", "gzip", "compressing", "touch"}
      /\ at'[t] \in {"gzip", "compressing", "touch", "release", "failing"}
  BY DEF TypeOK, FindCompressed, FindNotCompressed, StartGzip, EndGzip, GzipRaises,
     TouchMarker, TouchFails
<1>2. t \in Pushes /\ Artifact[t] \in Images
  BY <1>1, ThreadsAssumption, ArtifactAssumption DEF Places
<1>3. TypeOK'
  <2>1. /\ gz' \in [Images -> {"none", "partial", "whole"}]
        /\ marker' \subseteq Images
        /\ clashed' \subseteq Images
        /\ unmarked' \subseteq Images
    BY <1>2 DEF TypeOK, FindCompressed, FindNotCompressed, StartGzip, EndGzip,
       GzipRaises, TouchMarker, TouchFails
  <2> QED  BY <1>1, <2>1 DEF TypeOK, ManagerTypeOK
<1>4. (HasManager /\ TakenByHolder)'
  BY <1>1 DEF HasManager, TakenByHolder, Holds
<1>5. Places'
  BY <1>1, <1>2 DEF Places
<1>6. clashed \subseteq clashed' /\ marker \subseteq marker'
      /\ unmarked \subseteq unmarked'
  BY DEF FindCompressed, FindNotCompressed, StartGzip, EndGzip, GzipRaises,
     TouchMarker, TouchFails
<1>7. (OneMarks /\ MarkedIsLeft /\ TouchesWhole /\ ReleasesMarked)'
  <2>1. CASE FindCompressed(t)
    <3>1. at'[t] = "release" /\ UNCHANGED fileVars /\ Artifact[t] \in marker
      BY <2>1 DEF FindCompressed, Compressed, TypeOK
    <3> QED
      BY <1>1, <3>1, ThreadsAssumption
         DEF OneMarks, MarkedIsLeft, TouchesWhole, ReleasesMarked, WillMark
  <2>2. CASE FindNotCompressed(t)
    <3>1. /\ at'[t] = "gzip" /\ UNCHANGED <<gz, marker, unmarked>>
          /\ ~(gz[Artifact[t]] # "none" /\ Artifact[t] \in marker)
          /\ (\E u \in Threads : WillMark(u, Artifact[t])) => Artifact[t] \in clashed'
      BY <1>2, <2>2 DEF FindNotCompressed, Compressed, TypeOK
    <3>2. \A u \in Threads \ {t}, i \in Images : WillMark(u, i)' <=> WillMark(u, i)
      BY <1>1 DEF WillMark
    <3>3. OneMarks'
      BY <1>1, <1>2, <1>6, <3>1 DEF OneMarks, WillMark
    <3>4. MarkedIsLeft'
      <4>1. Artifact[t] \in marker => Artifact[t] \in clashed
        BY <1>2, <3>1 DEF MarkedIsLeft
      <4> QED  BY <1>6, <3>1, <3>2, <4>1 DEF MarkedIsLeft, WillMark, TypeOK
    <3>5. (TouchesWhole /\ ReleasesMarked)'
      BY <1>1, <1>6, <3>1, ThreadsAssumption DEF TouchesWhole, ReleasesMarked
    <3> QED  BY <3>3, <3>4, <3>5
  <2>3. CASE StartGzip(t) \/ EndGzip(t)
    <3>1. /\ at[t] \in {"gzip", "compressing"}
          /\ at'[t] = IF at[t] = "gzip" THEN "compressing" ELSE "touch"
          /\ UNCHANGED <<marker, clashed, unmarked>>
          /\ \A i \in Images \ {Artifact[t]} : gz'[i] = gz[i]
      BY <2>3 DEF StartGzip, EndGzip, TypeOK
    <3>2. \A u \in Threads, i \in Images : WillMark(u, i)' <=> WillMark(u, i)
      BY <1>1, <3>1 DEF WillMark
    <3>3. WillMark(t, Artifact[t])
      BY <3>1 DEF WillMark
    <3>4. OneMarks'
      BY <1>1, <3>1 DEF OneMarks, WillMark
    <3>5. MarkedIsLeft'
      BY <3>1, <3>2, <3>3 DEF MarkedIsLeft, TypeOK
    <3>6. \A u \in Threads \ {t} :
            (WillMark(u, Artifact[u]) /\ Artifact[u] = Artifact[t])
              => Artifact[t] \in clashed
      BY <3>3 DEF OneMarks
    <3>7. at[t] = "compressing" /\ Artifact[t] \notin clashed
            => gz'[Artifact[t]] = "whole"
      BY <1>2, <2>3, <3>3 DEF EndGzip, StartGzip, Compressing, WillMark, OneMarks, TypeOK
    <3>8. TouchesWhole'
      <4> SUFFICES ASSUME NEW u \in Threads, at'[u] = "touch", Artifact[u] \notin clashed
                   PROVE  gz'[Artifact[u]] = "whole"
        BY <3>1 DEF TouchesWhole
      <4>1. CASE u = t
        BY <3>1, <3>7, <4>1
      <4>2. CASE u # t
        <5>1. at[u] = "touch" /\ gz[Artifact[u]] = "whole" /\ u \in Pushes
          BY <1>1, <4>2 DEF TouchesWhole, Places
        <5>2. Artifact[u] # Artifact[t] /\ Artifact[u] \in Images
          BY <3>6, <4>2, <5>1, ThreadsAssumption, ArtifactAssumption DEF WillMark
        <5> QED  BY <3>1, <5>1, <5>2
      <4> QED  BY <4>1, <4>2
    <3>9. ReleasesMarked'
      BY <1>1, <3>1, ThreadsAssumption DEF ReleasesMarked
    <3> QED  BY <3>4, <3>5, <3>8, <3>9
  <2>4. CASE GzipRaises(t)
    <3>1. at'[t] = "failing" /\ UNCHANGED fileVars
      BY <2>4 DEF GzipRaises, TypeOK
    <3> QED
      BY <1>1, <3>1, ThreadsAssumption
         DEF OneMarks, MarkedIsLeft, TouchesWhole, ReleasesMarked, WillMark
  <2>5. CASE TouchMarker(t) \/ TouchFails(t)
    <3>1. /\ at[t] = "touch" /\ at'[t] = "release"
          /\ UNCHANGED <<gz, clashed>>
          /\ marker' \subseteq marker \cup {Artifact[t]}
          /\ Artifact[t] \in marker' \cup unmarked'
      BY <2>5 DEF TouchMarker, TouchFails, TypeOK
    <3>2. Artifact[t] \notin clashed =>
            /\ gz[Artifact[t]] = "whole"
            /\ \A u \in Threads \ {t} : ~WillMark(u, Artifact[t])
      BY <3>1 DEF TouchesWhole, OneMarks, WillMark
    <3>3. OneMarks'
      BY <1>1, <3>1 DEF OneMarks, WillMark
    <3>4. MarkedIsLeft'
      BY <1>1, <3>1, <3>2 DEF MarkedIsLeft, WillMark
    <3>5. (TouchesWhole /\ ReleasesMarked)'
      BY <1>1, <1>6, <3>1, ThreadsAssumption DEF TouchesWhole, ReleasesMarked
    <3> QED  BY <3>3, <3>4, <3>5
  <2> QED  BY <2>1, <2>2, <2>3, <2>4, <2>5
<1> QED  BY <1>3, <1>4, <1>5, <1>7

LEMMA NextIInv == IInv /\ [Next]_vars => IInv'
<1> SUFFICES ASSUME IInv, [Next]_vars PROVE IInv'
  OBVIOUS
<1>1. CASE \E t \in Threads : ThreadStep(t)
  BY <1>1, ManagerStep, QuietStep, LockStep, CompressStep DEF ThreadStep
<1>2. CASE \E p \in Crashes : Crash(p)
  BY <1>2, QuietStep
<1>3. CASE Finished \/ UNCHANGED vars
  BY <1>3, QuietStep DEF Finished
<1> QED  BY <1>1, <1>2, <1>3 DEF Next

LEMMA Invariant == Spec => []IInv
<1> QED  BY InitIInv, NextIInv, PTL DEF Spec

-----------------------------------------------------------------------------
\* Every variable keeps its type: the ports of every instance are in the range
\* of get_next_listen_port.
THEOREM TypeCorrect == Spec => []TypeOK
<1>1. IInv => TypeOK
  BY DEF IInv
<1> QED  BY <1>1, Invariant, PTL

\* get_named_lock and release_named_lock exclude each other's callers: two
\* threads that share a manager are never both inside the lock of one artifact.
THEOREM NamedLocksExclude == Spec => []OneAtATime
<1>1. IInv => OneAtATime
  BY DEF IInv, TakenByHolder, OneAtATime
<1> QED  BY <1>1, Invariant, PTL

\* A .gz beside its completion marker is whole and nobody writes it, wherever
\* a process was killed, unless two threads had compressed it at once.
THEOREM MarkersTrue == Spec => []MarkerMeansWhole
<1>1. IInv => MarkerMeansWhole
  BY DEF IInv, MarkedIsLeft, MarkerMeansWhole, WillMark, Compressing
<1> QED  BY <1>1, Invariant, PTL

\* With the same exception, and if the marker could be made, an EC2 push
\* uploads a whole .gz.
THEOREM PushesWhole == Spec => []UploadsWhole
<1>1. IInv => UploadsWhole
  BY DEF IInv, MarkedIsLeft, ReleasesMarked, UploadsWhole
<1> QED  BY <1>1, Invariant, PTL

-----------------------------------------------------------------------------
(* Who waits for a named lock.                                             *)

\* A process's threads take the manager that one of them has built.
OwnManager ==
  /\ \A p \in Processes : instance[p] # NoThread => Process[instance[p]] = p
  /\ \A t \in Threads : manager[t] # NoThread => Process[manager[t]] = Process[t]

\* A semaphore that is taken is taken by a thread inside of the lock, or that
\* was killed there.
TakenInside ==
  \A m, h \in Threads, n \in Names :
    named_locks[m][n] = h =>
      manager[h] = m /\ Artifact[h] = n /\ (Holds(h) \/ at[h] = "killed")

\* The threads of a process are killed together.
KilledTogether ==
  \A t, u \in Threads : at[t] = "killed" /\ Process[u] = Process[t] => Ended(u)

LInv == IInv /\ OwnManager /\ TakenInside /\ KilledTogether

LEMMA InitLInv == Init => LInv
<1> SUFFICES ASSUME Init PROVE LInv
  OBVIOUS
<1>1. IInv
  BY InitIInv
<1>2. OwnManager /\ TakenInside /\ KilledTogether
  BY NoThreadAssumption DEF Init, ManagerInit, OwnManager, TakenInside, KilledTogether
<1> QED  BY <1>1, <1>2 DEF LInv

\* A step that takes no manager and no lock.
LEMMA BesideLocks ==
  ASSUME LInv, UNCHANGED <<instance, manager, named_locks>>,
         \A u \in Threads : Holds(u) => Holds(u)' \/ at'[u] = "killed",
         \A u \in Threads : Ended(u) => at'[u] = at[u],
         \A t, u \in Threads :
           at'[t] = "killed" /\ at[t] # "killed" /\ Process[u] = Process[t] => Ended(u)'
  PROVE  (OwnManager /\ TakenInside /\ KilledTogether)'
<1>1. OwnManager'
  BY DEF LInv, OwnManager
<1>2. TakenInside'
  BY DEF LInv, TakenInside, Ended
<1>3. KilledTogether'
  BY DEF LInv, KilledTogether, Ended
<1> QED  BY <1>1, <1>2, <1>3

LEMMA NextLInv == LInv /\ [Next]_vars => LInv'
<1> SUFFICES ASSUME LInv, [Next]_vars PROVE LInv'
  OBVIOUS
<1>0. IInv /\ TypeOK /\ ManagerTypeOK
  BY DEF LInv, IInv, TypeOK
<1>1. IInv'
  BY <1>0, NextIInv
<1>2. SUFFICES (OwnManager /\ TakenInside /\ KilledTogether)'
  BY <1>1, <1>2 DEF LInv
<1>3. CASE UNCHANGED vars \/ Finished
  BY <1>3, BesideLocks DEF Finished, vars, Holds, Ended
<1>4. ASSUME NEW p \in Crashes, Crash(p) PROVE (OwnManager /\ TakenInside /\ KilledTogether)'
  <2>1. \A t \in Threads : at'[t] = IF Process[t] = p /\ ~Ended(t) THEN "killed" ELSE at[t]
    BY <1>4 DEF Crash
  <2>2. UNCHANGED <<instance, manager, named_locks>>
    BY <1>4 DEF Crash, managerVars
  <2>3. \A t, u \in Threads :
          at'[t] = "killed" /\ at[t] # "killed" /\ Process[u] = Process[t] => Ended(u)'
    BY <2>1 DEF Ended
  <2> QED  BY <2>1, <2>2, <2>3, BesideLocks DEF Ended, Holds
<1>5. ASSUME NEW t \in Threads, ThreadStep(t)
      PROVE  (OwnManager /\ TakenInside /\ KilledTogether)'
  <2>1. /\ \A u \in Threads : u # t => at'[u] = at[u]
        /\ ~Ended(t) /\ at'[t] # "killed"
    BY <1>0, <1>5 DEF ThreadStep, FindNoManager, FindManager, MakeManager, GetManager, TakePort,
       GuestRefused, AcquireNamedLock, GenerateMedia, FindCompressed, FindNotCompressed, StartGzip,
       EndGzip, GzipRaises, TouchMarker, TouchFails, Release, Upload, Goes, AfterManager, Inside,
       Ended, TypeOK
  <2>2. \A u \in Threads : u # t => (Holds(u)' <=> Holds(u))
    BY <2>1 DEF Holds
  <2>3. KilledTogether'
    BY <2>1 DEF LInv, KilledTogether, Ended
  <2>4. CASE MakeManager(t)
    <3>1. /\ instance' = [instance EXCEPT ![Process[t]] = t] /\ UNCHANGED <<manager, named_locks>>
          /\ at[t] = "making"
      BY <2>4 DEF MakeManager, PutInstance, Goes
    <3>2. OwnManager'
      BY <1>0, <3>1, ProcessAssumption DEF LInv, OwnManager, ManagerTypeOK
    <3>3. TakenInside'
      BY <2>1, <2>2, <3>1 DEF LInv, TakenInside, Holds
    <3> QED  BY <2>3, <3>2, <3>3
  <2>5. CASE GetManager(t)
    <3>1. /\ manager' = [manager EXCEPT ![t] = instance[Process[t]]]
          /\ UNCHANGED <<instance, named_locks>> /\ at[t] = "made"
      BY <2>5 DEF GetManager, TakeInstance, Goes
    <3>2. OwnManager'
      BY <1>0, <3>1, ProcessAssumption DEF LInv, OwnManager, ManagerTypeOK
    <3>3. \A m \in Threads, n \in Names : named_locks[m][n] # t
      BY <3>1 DEF LInv, TakenInside, Holds
    <3>4. \A u \in Threads : u # t => manager'[u] = manager[u]
      BY <1>0, <3>1 DEF ManagerTypeOK
    <3>5. TakenInside'
      BY <2>1, <2>2, <3>1, <3>3, <3>4 DEF LInv, TakenInside
    <3> QED  BY <2>3, <3>2, <3>5
  <2>6. CASE AcquireNamedLock(t)
    <3>1. /\ named_locks' = [named_locks EXCEPT ![manager[t]][Artifact[t]] = t]
          /\ UNCHANGED <<instance, manager>> /\ at[t] = "acquire"
      BY <2>6 DEF AcquireNamedLock, GetNamedLock, Goes
    <3>2. Holds(t)'
      BY <1>0, <2>6 DEF AcquireNamedLock, Goes, Inside, Holds, TypeOK
    <3>3. \A m, h \in Threads, n \in Names :
            named_locks'[m][n] = h =>
              \/ h = t /\ m = manager[t] /\ n = Artifact[t]
              \/ h # t /\ named_locks[m][n] = h
      <4> SUFFICES ASSUME NEW m \in Threads, NEW h \in Threads, NEW n \in Names,
                          named_locks'[m][n] = h
                   PROVE  \/ h = t /\ m = manager[t] /\ n = Artifact[t]
                          \/ h # t /\ named_locks[m][n] = h
        OBVIOUS
      <4>1. named_locks[m][n] # t
        BY <3>1 DEF LInv, TakenInside, Holds
      <4>2. CASE m = manager[t] /\ n = Artifact[t]
        <5>1. named_locks'[m][n] = t
          BY <1>0, <3>1, <4>2 DEF ManagerTypeOK
        <5> QED  BY <4>2, <5>1
      <4>3. CASE ~(m = manager[t] /\ n = Artifact[t])
        <5>1. named_locks[m][n] = h
          BY <1>0, <3>1, <4>3 DEF ManagerTypeOK
        <5> QED  BY <4>1, <5>1
      <4> QED  BY <4>2, <4>3
    <3>4. TakenInside'
      BY <2>1, <2>2, <3>1, <3>2, <3>3 DEF LInv, TakenInside
    <3>5. OwnManager'
      BY <3>1 DEF LInv, OwnManager
    <3> QED  BY <2>3, <3>4, <3>5
  <2>7. CASE Release(t)
    <3>1. /\ named_locks' = [named_locks EXCEPT ![manager[t]][Artifact[t]] = "free"]
          /\ UNCHANGED <<instance, manager>>
      BY <2>7 DEF Release, Released, ReleaseNamedLock
    <3>2. \A m, h \in Threads, n \in Names :
            named_locks'[m][n] = h => h # t /\ named_locks[m][n] = h
      <4> SUFFICES ASSUME NEW m \in Threads, NEW h \in Threads, NEW n \in Names,
                          named_locks'[m][n] = h
                   PROVE  h # t /\ named_locks[m][n] = h
        OBVIOUS
      <4>1. CASE m = manager[t] /\ n = Artifact[t]
        BY <1>0, <3>1, <4>1, NoThreadAssumption DEF ManagerTypeOK
      <4>2. CASE ~(m = manager[t] /\ n = Artifact[t])
        <5>1. named_locks[m][n] = h
          BY <1>0, <3>1, <4>2 DEF ManagerTypeOK
        <5> QED  BY <4>2, <5>1 DEF LInv, TakenInside
      <4> QED  BY <4>1, <4>2
    <3>3. TakenInside'
      BY <2>1, <2>2, <3>1, <3>2 DEF LInv, TakenInside
    <3>4. OwnManager'
      BY <3>1 DEF LInv, OwnManager
    <3> QED  BY <2>3, <3>3, <3>4
  <2>8. CASE /\ UNCHANGED <<instance, manager, named_locks>>
             /\ Holds(t) => Holds(t)'
    BY <2>1, <2>2, <2>8, BesideLocks DEF Ended
  <2>9. \/ MakeManager(t) \/ GetManager(t) \/ AcquireNamedLock(t) \/ Release(t)
        \/ UNCHANGED <<instance, manager, named_locks>> /\ (Holds(t) => Holds(t)')
    BY <1>0, <1>5 DEF ThreadStep, FindNoManager, FindManager, TakePort,
       GuestRefused, GenerateMedia, FindCompressed, FindNotCompressed, StartGzip,
       EndGzip, GzipRaises, TouchMarker, TouchFails, Upload, Goes, GetNextListenPort, managerVars,
       Holds, TypeOK
  <2> QED  BY <2>4, <2>5, <2>6, <2>7, <2>8, <2>9
<1> QED  BY <1>3, <1>4, <1>5 DEF Next

\* get_named_lock: who waits for a lock waits for a thread of its own process that
\* is inside of it, has the same manager and waits for nothing itself, whichever
\* thread built the manager and whichever process was killed: what ThreadsEnd asks
\* of a state.
THEOREM WaitsForWorker ==
  Spec => [](\A t \in Threads :
               at[t] = "acquire" =>
                 \/ Semaphore(manager[t], Artifact[t]) = "free"
                 \/ \E u \in Threads : /\ Holds(u) /\ Process[u] = Process[t]
                                       /\ manager[u] = manager[t] /\ Artifact[u] = Artifact[t])
<1> DEFINE Served(t) ==
      at[t] = "acquire" =>
        \/ Semaphore(manager[t], Artifact[t]) = "free"
        \/ \E u \in Threads : /\ Holds(u) /\ Process[u] = Process[t]
                              /\ manager[u] = manager[t] /\ Artifact[u] = Artifact[t]
<1>1. ASSUME LInv, NEW t \in Threads, at[t] = "acquire" PROVE Served(t)
  <2>1. manager[t] \in Threads /\ Artifact[t] \in Names
    BY <1>1, ArtifactAssumption DEF LInv, IInv, HasManager
  <2>2. CASE named_locks[manager[t]][Artifact[t]] \in {"absent", "free"}
    BY <2>2 DEF Semaphore
  <2>3. CASE named_locks[manager[t]][Artifact[t]] \notin {"absent", "free"}
    <3>1. PICK h \in Threads : named_locks[manager[t]][Artifact[t]] = h
      BY <1>1, <2>1, <2>3 DEF LInv, IInv, TypeOK, ManagerTypeOK
    <3>2. manager[h] = manager[t] /\ Artifact[h] = Artifact[t] /\ (Holds(h) \/ at[h] = "killed")
      BY <1>1, <2>1, <3>1 DEF LInv, TakenInside
    <3>3. Process[h] = Process[t]
      BY <1>1, <2>1, <3>2, NoThreadAssumption DEF LInv, OwnManager
    <3>4. at[h] # "killed"
      BY <1>1, <3>3 DEF LInv, KilledTogether, Ended
    <3> QED  BY <3>2, <3>3, <3>4
  <2> QED  BY <2>2, <2>3
<1>2. LInv => \A t \in Threads : Served(t)
  BY <1>1
<1> QED  BY <1>2, InitLInv, NextLInv, PTL DEF Spec

-----------------------------------------------------------------------------
(* Listen ports.                                                           *)

Ports == MAX_PORT - MIN_PORT + 1

\* Ports that were handed out one after the other count up, and start again at
\* MIN_PORT behind MAX_PORT: they are as many ports apart as calls, less one round.
AsFarApart(s) ==
  \A j, k \in 1 .. Len(s) : j < k /\ k - j < Ports => s[k] - s[j] \in {k - j, k - j - Ports}

FromFirst(first, s) ==
  \A k \in 1 .. Len(s) : k < Ports => s[k] - first \in {k, k - Ports}

Last(first, s) == IF s = <<>> THEN first ELSE s[Len(s)]

PInv ==
  \A m \in Threads :
    /\ AsFarApart(ports[m]) /\ FromFirst(FirstPort(Process[m]), ports[m])
    /\ listen_port[m] = Last(FirstPort(Process[m]), ports[m])

\* One call more is one port further, less one round.
LEMMA NextPortFurther ==
  ASSUME NEW p \in MIN_PORT .. MAX_PORT, NEW q \in MIN_PORT .. MAX_PORT, NEW d \in Nat,
         d + 1 < Ports, p - q \in {d, d - Ports}
  PROVE  NextPort(p) - q \in {d + 1, d + 1 - Ports}
BY PortAssumption DEF NextPort, Ports

LEMMA OnePortMore ==
  ASSUME NEW first \in MIN_PORT .. MAX_PORT, NEW s \in Seq(MIN_PORT .. MAX_PORT),
         AsFarApart(s), FromFirst(first, s)
  PROVE  LET port == NextPort(Last(first, s))
         IN  /\ AsFarApart(Append(s, port)) /\ FromFirst(first, Append(s, port))
             /\ Last(first, Append(s, port)) = port
<1> DEFINE n == Len(s)
           last == Last(first, s)
           port == NextPort(last)
           t == Append(s, port)
<1>0. n \in Nat /\ Ports \in Nat /\ Ports > 1
  BY PortAssumption, LenProperties DEF Ports
<1>1. \A k \in 1 .. n : s[k] \in MIN_PORT .. MAX_PORT
  BY ElementOfSeq
<1>2. s = <<>> <=> n = 0
  BY EmptySeq
<1>3. last \in MIN_PORT .. MAX_PORT
  BY <1>0, <1>1, <1>2 DEF Last
<1>4. port \in MIN_PORT .. MAX_PORT
  BY <1>3, PortAssumption DEF NextPort
<1>5. /\ Len(t) = n + 1 /\ t[n + 1] = port
      /\ \A k \in 1 .. n : t[k] = s[k]
  BY <1>4, AppendProperties
<1>6. t # <<>> /\ t \in Seq(MIN_PORT .. MAX_PORT)
  BY <1>0, <1>4, <1>5, AppendProperties
<1>7. Last(first, t) = port
  BY <1>5, <1>6 DEF Last
<1>8. \A j \in 1 .. n : n + 1 - j < Ports => port - s[j] \in {n + 1 - j, n + 1 - j - Ports}
  <2> SUFFICES ASSUME NEW j \in 1 .. n, n + 1 - j < Ports
               PROVE  port - s[j] \in {n + 1 - j, n + 1 - j - Ports}
    OBVIOUS
  <2> DEFINE d == n - j
  <2>1. d \in Nat /\ d + 1 = n + 1 - j /\ d + 1 < Ports /\ d < Ports
    BY <1>0
  <2>2. last = s[n]
    BY <1>0, <1>2 DEF Last
  <2>3. last - s[j] \in {d, d - Ports}
    BY <1>0, <1>1, <2>1, <2>2 DEF AsFarApart
  <2>4. s[j] \in MIN_PORT .. MAX_PORT
    BY <1>1
  <2> HIDE DEF d, last
  <2>5. NextPort(last) - s[j] \in {d + 1, d + 1 - Ports}
    BY <1>3, <2>1, <2>3, <2>4, NextPortFurther
  <2> QED  BY <1>0, <2>1, <2>5
<1>9. n + 1 < Ports => port - first \in {n + 1, n + 1 - Ports}
  <2>1. n < Ports => last - first \in {n, n - Ports}
    BY <1>0, <1>2 DEF Last, FromFirst
  <2> HIDE DEF n, last
  <2> QED  BY <1>0, <1>3, <2>1, NextPortFurther
<1> HIDE DEF t, n, last, port
<1>10. AsFarApart(t)
  <2> SUFFICES ASSUME NEW j \in 1 .. n + 1, NEW k \in 1 .. n + 1, j < k, k - j < Ports
               PROVE  t[k] - t[j] \in {k - j, k - j - Ports}
    BY <1>0, <1>5 DEF AsFarApart
  <2>1. CASE k = n + 1
    BY <1>0, <1>5, <1>8, <2>1
  <2>2. CASE k # n + 1
    <3>1. j \in 1 .. n /\ k \in 1 .. n
      BY <1>0, <2>2
    <3> QED  BY <1>5, <3>1 DEF AsFarApart, n
  <2> QED  BY <2>1, <2>2
<1>11. FromFirst(first, t)
  <2> SUFFICES ASSUME NEW k \in 1 .. n + 1, k < Ports
               PROVE  t[k] - first \in {k, k - Ports}
    BY <1>0, <1>5 DEF FromFirst
  <2>1. CASE k = n + 1
    BY <1>0, <1>5, <1>9, <2>1
  <2>2. CASE k # n + 1
    <3>1. k \in 1 .. n
      BY <1>0, <2>2
    <3> QED  BY <1>5, <3>1 DEF FromFirst, n
  <2> QED  BY <2>1, <2>2
<1> QED  BY <1>7, <1>10, <1>11 DEF t, port, last

LEMMA InitPInv == Init => PInv
BY EmptySeq DEF Init, ManagerInit, PInv, AsFarApart, FromFirst, Last

LEMMA NextPInv == IInv /\ PInv /\ [Next]_vars => PInv'
<1> SUFFICES ASSUME IInv, PInv, [Next]_vars PROVE PInv'
  OBVIOUS
<1>0. ManagerTypeOK /\ HasManager
  BY DEF IInv, TypeOK
<1>1. CASE UNCHANGED <<listen_port, ports>>
  BY <1>1 DEF PInv
<1>2. ASSUME NEW t \in Threads, TakePort(t) PROVE PInv'
  <2>1. PICK m \in Threads : m = manager[t]
    BY <1>0, <1>2 DEF TakePort, Goes, HasManager
  <2>2. PICK port : port = NextPort(listen_port[m])
    OBVIOUS
  <2>3. /\ \A n \in Threads \ {m} : ports'[n] = ports[n] /\ listen_port'[n] = listen_port[n]
        /\ ports'[m] = Append(ports[m], port) /\ listen_port'[m] = port
    BY <1>0, <1>2, <2>1, <2>2 DEF TakePort, GetNextListenPort, ManagerTypeOK
  <2>4. /\ FirstPort(Process[m]) \in MIN_PORT .. MAX_PORT
        /\ ports[m] \in Seq(MIN_PORT .. MAX_PORT)
    BY <1>0, FirstPortInRange, ProcessAssumption DEF ManagerTypeOK
  <2>5. port = NextPort(Last(FirstPort(Process[m]), ports[m]))
    BY <2>2 DEF PInv
  <2>6. /\ AsFarApart(Append(ports[m], port))
        /\ FromFirst(FirstPort(Process[m]), Append(ports[m], port))
        /\ Last(FirstPort(Process[m]), Append(ports[m], port)) = port
    BY <2>4, <2>5, OnePortMore DEF PInv
  <2> QED  BY <2>3, <2>6 DEF PInv
<1>3. \/ UNCHANGED <<listen_port, ports>>
      \/ \E t \in Threads : TakePort(t)
  BY DEF Next, ThreadStep, FindNoManager, FindManager, MakeManager, PutInstance, GetManager,
     TakeInstance, GuestRefused, AcquireNamedLock, GetNamedLock, GenerateMedia, FindCompressed,
     FindNotCompressed, StartGzip, EndGzip, GzipRaises, TouchMarker, TouchFails, Release, Released,
     ReleaseNamedLock, Upload, Crash, Finished, managerVars, vars
<1> QED  BY <1>1, <1>2, <1>3

LEMMA PortsOfThread ==
  ASSUME IInv, NEW m \in Threads
  PROVE  /\ Len(ports[m]) \in Nat /\ DOMAIN ports[m] = 1 .. Len(ports[m])
         /\ \A k \in 1 .. Len(ports[m]) : ports[m][k] \in MIN_PORT .. MAX_PORT
<1>1. ports[m] \in Seq(MIN_PORT .. MAX_PORT)
  BY DEF IInv, TypeOK, ManagerTypeOK
<1> QED  BY <1>1, LenProperties, ElementOfSeq

\* Fewer steps than there are ports do not lead back to a port.
LEMMA NotRound ==
  ASSUME NEW p \in MIN_PORT .. MAX_PORT, NEW q \in MIN_PORT .. MAX_PORT,
         NEW d \in Nat \ {0}, d < Ports, q - p \in {d, d - Ports}
  PROVE  p # q
BY PortAssumption DEF Ports

\* get_next_listen_port: fewer calls apart than there are ports, a manager never
\* hands out one port twice, wherever its process ID made it start and however
\* often it has begun again at MIN_PORT.
THEOREM PortsApart ==
  Spec => [](\A m \in Threads : \A j, k \in DOMAIN ports[m] :
               j < k /\ k - j < Ports => ports[m][j] # ports[m][k])
<1>1. IInv /\ PInv =>
        \A m \in Threads : \A j, k \in DOMAIN ports[m] :
          j < k /\ k - j < Ports => ports[m][j] # ports[m][k]
  <2> SUFFICES ASSUME IInv, PInv, NEW m \in Threads, NEW j \in DOMAIN ports[m],
                      NEW k \in DOMAIN ports[m], j < k, k - j < Ports
               PROVE  ports[m][j] # ports[m][k]
    OBVIOUS
  <2>1. /\ j \in 1 .. Len(ports[m]) /\ k \in 1 .. Len(ports[m])
        /\ Len(ports[m]) \in Nat
        /\ ports[m][j] \in MIN_PORT .. MAX_PORT /\ ports[m][k] \in MIN_PORT .. MAX_PORT
    BY PortsOfThread
  <2>2. ports[m][k] - ports[m][j] \in {k - j, k - j - Ports}
    BY <2>1 DEF PInv, AsFarApart
  <2>3. k - j \in Nat \ {0}
    BY <2>1
  <2> QED  BY <2>1, <2>2, <2>3, NotRound
<1> QED  BY <1>1, InitPInv, NextPInv, Invariant, PTL DEF Spec

\* The ports from above a to b, and those from above b, round to a, do not meet.
LEMMA Arcs ==
  ASSUME NEW a \in MIN_PORT .. MAX_PORT, NEW b \in MIN_PORT .. MAX_PORT,
         NEW p \in MIN_PORT .. MAX_PORT, NEW q \in MIN_PORT .. MAX_PORT,
         NEW j \in Nat \ {0}, NEW k \in Nat \ {0},
         b - a > 0, j <= b - a, k <= Ports - (b - a),
         p - a \in {j, j - Ports}, q - b \in {k, k - Ports}
  PROVE  p # q
BY PortAssumption DEF Ports

\* "Initialize based on PID to prevent conflicts from multiple CLI runs on the
\* same machine": two runs are kept apart for as long as neither of them has
\* handed out more ports than there are from its own first port to the other's,
\* and no longer: runs with consecutive process IDs, whose first ports are one
\* apart, already meet when the one that began below takes its second port.
THEOREM RunsApart ==
  Spec => [](\A m, n \in Threads :
               LET apart == FirstPort(Process[n]) - FirstPort(Process[m]) IN
               (apart > 0 /\ Len(ports[m]) <= apart /\ Len(ports[n]) <= Ports - apart)
                 => \A j \in DOMAIN ports[m], k \in DOMAIN ports[n] : ports[m][j] # ports[n][k])
<1> DEFINE Apart(m, n) ==
      LET apart == FirstPort(Process[n]) - FirstPort(Process[m]) IN
      (apart > 0 /\ Len(ports[m]) <= apart /\ Len(ports[n]) <= Ports - apart)
        => \A j \in DOMAIN ports[m], k \in DOMAIN ports[n] : ports[m][j] # ports[n][k]
<1>1. ASSUME IInv, PInv, NEW m \in Threads, NEW n \in Threads PROVE Apart(m, n)
  <2> DEFINE a == FirstPort(Process[m])
             b == FirstPort(Process[n])
  <2> SUFFICES ASSUME b - a > 0, Len(ports[m]) <= b - a, Len(ports[n]) <= Ports - (b - a),
                      NEW j \in DOMAIN ports[m], NEW k \in DOMAIN ports[n]
               PROVE  ports[m][j] # ports[n][k]
    OBVIOUS
  <2>1. a \in MIN_PORT .. MAX_PORT /\ b \in MIN_PORT .. MAX_PORT
    BY FirstPortInRange, ProcessAssumption
  <2>2. /\ j \in 1 .. Len(ports[m]) /\ Len(ports[m]) \in Nat
        /\ k \in 1 .. Len(ports[n]) /\ Len(ports[n]) \in Nat
        /\ ports[m][j] \in MIN_PORT .. MAX_PORT /\ ports[n][k] \in MIN_PORT .. MAX_PORT
    BY <1>1, PortsOfThread
  <2>a. FromFirst(a, ports[m]) /\ FromFirst(b, ports[n])
    BY <1>1 DEF PInv
  <2>b. b - a > 0 /\ Len(ports[m]) <= b - a /\ Len(ports[n]) <= Ports - (b - a)
    OBVIOUS
  <2> HIDE DEF a, b
  <2>c. Ports \in Nat /\ b - a < Ports
    BY <2>1, PortAssumption DEF Ports
  <2>5. j \in Nat \ {0} /\ k \in Nat \ {0} /\ j <= b - a /\ k <= Ports - (b - a)
    <3>1. j \in Nat \ {0} /\ j <= Len(ports[m]) /\ k \in Nat \ {0} /\ k <= Len(ports[n])
      BY <2>2
    <3>2. a \in Nat /\ b \in Nat /\ Ports \in Nat
      BY <2>1, <2>c, PortAssumption
    <3> QED  BY <2>2, <2>b, <3>1, <3>2
  <2>3. j < Ports /\ k < Ports
    BY <2>1, <2>5, <2>b, <2>c
  <2>d. ports[m][j] - a \in {j, j - Ports}
    BY <2>2, <2>3, <2>a, Zenon DEF FromFirst
  <2>e. ports[n][k] - b \in {k, k - Ports}
    BY <2>2, <2>3, <2>a, Zenon DEF FromFirst
  <2> QED  BY <2>1, <2>2, <2>5, <2>b, <2>d, <2>e, Arcs
<1>2. IInv /\ PInv => \A m, n \in Threads : Apart(m, n)
  BY <1>1
<1> QED  BY <1>2, InitPInv, NextPInv, Invariant, PTL DEF Spec

-----------------------------------------------------------------------------
(* What a step may never do.                                               *)

\* "test -f ... -a -f ..." (compress_and_upload): a .gz that is marked complete is
\* for good, and neither a step nor a crash takes its marker or its contents back,
\* unless two threads compress it at once: whoever reads it needs no lock.
THEOREM MarkedStands ==
  Spec => [][\A i \in marker \ clashed' : i \in marker' /\ gz'[i] = gz[i]]_vars
<1>1. IInv /\ Next => \A i \in marker \ clashed' : i \in marker' /\ gz'[i] = gz[i]
  <2> SUFFICES ASSUME IInv, Next, NEW i \in marker, i \notin clashed'
               PROVE  i \in marker' /\ gz'[i] = gz[i]
    OBVIOUS
  <2>1. CASE UNCHANGED fileVars
    BY <2>1 DEF fileVars
  <2>2. ASSUME NEW t \in Threads, FindNotCompressed(t) \/ TouchMarker(t) \/ TouchFails(t)
        PROVE  i \in marker' /\ gz'[i] = gz[i]
    BY <2>2 DEF FindNotCompressed, TouchMarker, TouchFails
  <2>3. ASSUME NEW t \in Threads, StartGzip(t) \/ EndGzip(t)
        PROVE  i \in marker' /\ gz'[i] = gz[i]
    <3>1. i \notin clashed /\ marker' = marker
      BY <2>3 DEF StartGzip, EndGzip
    <3>2. WillMark(t, Artifact[t])
      BY <2>3 DEF StartGzip, EndGzip, Goes, WillMark
    <3>3. Artifact[t] # i
      BY <3>1, <3>2 DEF IInv, MarkedIsLeft
    <3> QED  BY <2>3, <3>1, <3>3 DEF StartGzip, EndGzip, IInv, TypeOK
  <2>4. \/ UNCHANGED fileVars
        \/ \E t \in Threads : \/ FindNotCompressed(t) \/ TouchMarker(t) \/ TouchFails(t)
                              \/ StartGzip(t) \/ EndGzip(t)
    BY DEF Next, ThreadStep, FindNoManager, FindManager, MakeManager, GetManager, TakePort,
       GuestRefused, AcquireNamedLock, GenerateMedia, FindCompressed, GzipRaises, Release, Upload,
       Crash, Finished, fileVars, vars
  <2> QED  BY <2>1, <2>2, <2>3, <2>4
<1>2. IInv /\ [Next]_vars =>
        [\A i \in marker \ clashed' : i \in marker' /\ gz'[i] = gz[i]]_vars
  BY <1>1
<1> QED  BY <1>2, Invariant, PTL DEF Spec

\* The order of the places of a thread.
Place == [start |-> 0, making |-> 1, made |-> 2, port |-> 3, acquire |-> 4,
          generating |-> 5, test |-> 5, gzip |-> 6, compressing |-> 7, touch |-> 8,
          release |-> 9, failing |-> 9, uploading |-> 10,
          done |-> 11, failed |-> 11, killed |-> 11]

\* Every step of a build or a push takes that thread further, and neither another
\* thread nor a crash sends one back: with WaitsForWorker this is why ThreadsEnd
\* holds, whoever raises and whichever process is killed.
THEOREM ThreadsGoOn ==
  Spec => [][/\ \A t \in Threads : ThreadStep(t) => at'[t] # at[t]
             /\ \A t \in Threads : at'[t] # at[t] => Place[at[t]] < Place[at'[t]]]_vars
<1> DEFINE Further == /\ \A t \in Threads : ThreadStep(t) => at'[t] # at[t]
                      /\ \A t \in Threads : at'[t] # at[t] => Place[at[t]] < Place[at'[t]]
<1>1. ASSUME TypeOK, NEW t \in Threads, ThreadStep(t)
      PROVE  /\ Place[at[t]] < Place[at'[t]] /\ at'[t] # at[t]
             /\ \A u \in Threads \ {t} : at'[u] = at[u]
  <2>1. CASE FindNoManager(t) \/ FindManager(t) \/ MakeManager(t) \/ GetManager(t)
    BY <1>1, <2>1 DEF FindNoManager, FindManager, MakeManager, GetManager, AfterManager, Goes,
       TypeOK, Place
  <2>2. CASE TakePort(t) \/ GuestRefused(t) \/ AcquireNamedLock(t) \/ GenerateMedia(t)
    BY <1>1, <2>2 DEF TakePort, GuestRefused, AcquireNamedLock, Inside, GenerateMedia, Goes,
       TypeOK, Place
  <2>3. CASE FindCompressed(t) \/ FindNotCompressed(t) \/ StartGzip(t) \/ EndGzip(t)
    BY <1>1, <2>3 DEF FindCompressed, FindNotCompressed, StartGzip, EndGzip, Goes, TypeOK, Place
  <2>4. CASE GzipRaises(t) \/ TouchMarker(t) \/ TouchFails(t) \/ Release(t) \/ Upload(t)
    BY <1>1, <2>4 DEF GzipRaises, TouchMarker, TouchFails, Release, Upload, Goes, TypeOK, Place
  <2> QED  BY <1>1, <2>1, <2>2, <2>3, <2>4 DEF ThreadStep
<1>2. ASSUME TypeOK, NEW p \in Crashes, Crash(p), NEW t \in Threads, at'[t] # at[t]
      PROVE  Place[at[t]] < Place[at'[t]]
  <2>1. at'[t] = "killed" /\ ~Ended(t)
    BY <1>2 DEF Crash
  <2> QED  BY <1>2, <2>1 DEF Ended, TypeOK, Place
<1>3. IInv /\ [Next]_vars => [Further]_vars
  <2> SUFFICES ASSUME TypeOK, Next, vars' # vars PROVE Further
    BY DEF IInv
  <2>1. \A t \in Threads : ThreadStep(t) => at'[t] # at[t]
    BY <1>1
  <2>2. CASE \E t \in Threads : ThreadStep(t)
    BY <1>1, <2>1, <2>2
  <2>3. CASE \E p \in Crashes : Crash(p)
    BY <1>2, <2>1, <2>3
  <2>4. CASE Finished
    BY <2>4 DEF Finished
  <2> QED  BY <2>2, <2>3, <2>4 DEF Next
<1> QED  BY <1>3, Invariant, PTL DEF Spec
=============================================================================
