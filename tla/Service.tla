------------------------------ MODULE Service ------------------------------
(***************************************************************************)
(* The process around the builders: its main thread, which creates them    *)
(* through BuildDispatcher, the builders' threads, the threads of the HTTP *)
(* server, and what they share: NotificationCenter with its lock, the      *)
(* registry of builders with its lock, and the image store.                *)
(*                                                                         *)
(* A builder, be it to build or to delete an image, can be created by the  *)
(* main thread only: Builder.__init__ sets a signal handler, which Python  *)
(* refuses elsewhere.  The threads of the server therefore only load       *)
(* images.  Loading an image sets its status, and that posts a             *)
(* notification like any other.                                            *)
(*                                                                         *)
(* The plugins are external: a build succeeds or raises.                   *)
(***************************************************************************)
EXTENDS FiniteSets, Naturals

CONSTANTS
  Images,   \* the images that main may have built, each by a builder of its own
  Deleters, \* the deletions that main may start, each by a builder of its own
  Pool,     \* the threads of the HTTP server
  Requests, \* bound: how many requests for an image each of them gets
  Main, None

\* Who posts notifications: the builders' threads, deletions, loads.
Posters == Images \cup Deleters \cup Pool
ASSUME RequestsAssumption == Requests \in Nat
ASSUME ActorsAssumption ==
  /\ Images \cap Deleters = {} /\ (Images \cup Deleters) \cap Pool = {}
  /\ Main \notin Posters /\ None \notin Posters \cup {Main}

VARIABLES
  main,       \* where the main thread is
  current,    \* the image it creates, or the deletion that it starts
  pc,         \* where each builder's thread is
  status,     \* the status of each builder's image
  stored,     \* the status in the store
  deletion,   \* where each deletion is, and its image
  post,       \* a poster's notification on its way: phase, image and status
  requests,   \* how many requests each thread of the server has yet to get
  center,     \* who holds NotificationCenter.lock
  builders,   \* BuildDispatcher.builders
  regLock,    \* who holds BuildDispatcher.builders_lock
  observers,  \* images whose callback worker is an observer
  workers,    \* images whose callback worker takes work
  aborted,    \* builders that abort was called for
  known,      \* history: images that have been registered
  told,       \* history: images whose end the dispatcher was told of
  late,       \* history: images registered after that
  cut         \* history: locks that main held when a signal ended it

vars == <<main, current, pc, status, stored, deletion, post, requests, center, builders, regLock,
          observers, workers, aborted, known, told, late, cut>>
shared == <<requests, center, builders, regLock, observers, workers>>
history == <<aborted, known, told, late, cut>>

\* What handle_state_change waits for.  COMPLETED is the status of no image.
Final == {"COMPLETED", "FAILED", "DELETED", "DELETEFAILED"}
Quiet == [phase |-> "quiet", image |-> None, status |-> "NEW"]

Init ==
  /\ main = "ready" /\ current = None
  /\ pc = [i \in Images |-> "none"]
  /\ status = [i \in Images |-> "NEW"]
  /\ stored = [i \in Images |-> "none"]
  /\ deletion = [d \in Deleters |-> [at |-> "idle", image |-> None]]
  /\ post = [p \in Posters |-> Quiet]
  /\ requests = [p \in Pool |-> Requests]
  /\ center = None /\ builders = {} /\ regLock = None
  /\ observers = {} /\ workers = {}
  /\ aborted = {} /\ known = {} /\ told = {} /\ late = {} /\ cut = {}

-----------------------------------------------------------------------------
(* NotificationCenter.post_notification and the dispatcher, its observer.  *)

\* A setter posts: the notification waits for the lock of the center.
Posts(p, i, s) == post' = [post EXCEPT ![p] = [phase |-> "lock", image |-> i, status |-> s]]
Phase(p, f) == post' = [post EXCEPT ![p].phase = f]

\* A faulty variant of Concerns: the dispatcher does not look at the status.
ConcernsAny(s) == TRUE
\* A faulty variant of Concerns: failures are not waited for.
ConcernsNoFailure(s) == s \in {"COMPLETED", "DELETED", "DELETEFAILED"}
Concerns(s) == s \in Final

\* The observers run with the lock held.  A callback worker that was shut down
\* raises, and then nothing releases it.
Notify(p) ==
  LET n == post[p] IN
  /\ n.phase = "lock" /\ center = None
  /\ center' = p
  /\ Phase(p, IF p \in observers \ workers THEN "dead"
              ELSE IF Concerns(n.status) THEN "forget" ELSE "unlock")
  /\ UNCHANGED <<main, current, pc, status, stored, deletion, requests, builders, regLock,
                 observers, workers, history>>

Forget(p) ==
  /\ post[p].phase = "forget" /\ regLock = None
  /\ regLock' = p
  /\ builders' = builders \ {post[p].image}
  /\ told' = told \cup {post[p].image}
  /\ Phase(p, "forgotten")
  /\ UNCHANGED <<main, current, pc, status, stored, deletion, requests, center, observers,
                 workers, aborted, known, late, cut>>

Forgotten(p) ==
  /\ post[p].phase = "forgotten"
  /\ regLock' = None
  /\ Phase(p, "unlock")
  /\ UNCHANGED <<main, current, pc, status, stored, deletion, requests, center, builders,
                 observers, workers, history>>

Unlock(p) ==
  /\ post[p].phase = "unlock"
  /\ center' = None
  /\ Phase(p, "quiet")
  /\ UNCHANGED <<main, current, pc, status, stored, deletion, requests, builders, regLock,
                 observers, workers, history>>

-----------------------------------------------------------------------------
(* The builder's thread.                                                   *)

Goes(i, place) == pc' = [pc EXCEPT ![i] = place]
Quietly(p) == post[p].phase = "quiet"

\* PersistentImage.status: a new value is set and posted.
SetStatus(i, s) ==
  /\ status' = [status EXCEPT ![i] = s]
  /\ Posts(i, i, s)

Begins(i) ==
  /\ pc[i] = "started"
  /\ SetStatus(i, "BUILDING") /\ Goes(i, "building")
  /\ UNCHANGED <<main, current, stored, deletion, shared, history>>

Succeeds(i) ==
  /\ pc[i] = "building" /\ Quietly(i)
  /\ SetStatus(i, "COMPLETE") /\ Goes(i, "save")
  /\ UNCHANGED <<main, current, stored, deletion, shared, history>>

\* A faulty variant of Fails: the callback workers are shut down first.
FailsAfterShutDown(i) ==
  /\ pc[i] = "building" /\ Quietly(i)
  /\ SetStatus(i, "FAILED") /\ Goes(i, "failsave")
  /\ workers' = workers \ {i}
  /\ UNCHANGED <<main, current, stored, deletion, requests, center, builders, regLock,
                 observers, history>>

\* The build raises; so may what comes before it, and BUILDING is not set; and
\* so does a save that fails, or that finds the image deleted.
Fails(i) ==
  /\ pc[i] \in {"started", "building", "save"} /\ Quietly(i)
  /\ SetStatus(i, "FAILED") /\ Goes(i, "failsave")
  /\ UNCHANGED <<main, current, stored, deletion, shared, history>>

Saves(i) ==
  /\ pc[i] = "save" /\ Quietly(i)
  /\ stored[i] # "none" /\ stored' = [stored EXCEPT ![i] = status[i]]
  /\ Goes(i, "finally")
  /\ UNCHANGED <<main, current, status, deletion, post, shared, history>>

\* The save of the except clause: if it raises, the finally clause still runs.
FailSaves(i) ==
  /\ pc[i] = "failsave" /\ Quietly(i)
  /\ \/ stored[i] # "none" /\ stored' = [stored EXCEPT ![i] = status[i]]
     \/ UNCHANGED stored
  /\ Goes(i, "finally")
  /\ UNCHANGED <<main, current, status, deletion, post, shared, history>>

Unobserve(i) ==
  /\ pc[i] = "finally"
  /\ i \in observers => center = None
  /\ observers' = observers \ {i}
  /\ Goes(i, "shutdown")
  /\ UNCHANGED <<main, current, status, stored, deletion, post, requests, center, builders,
                 regLock, workers, history>>

ShutDown(i) ==
  /\ pc[i] = "shutdown"
  /\ workers' = workers \ {i}
  /\ Goes(i, "ended")
  /\ UNCHANGED <<main, current, status, stored, deletion, post, requests, center, builders,
                 regLock, observers, history>>

-----------------------------------------------------------------------------
(* The thread of a deletion: delete_image and _delete_image.  It sets the  *)
(* status of the object that was loaded for it.                            *)

DeletionGoes(d, from, to) ==
  deletion[d].at = from /\ Quietly(d) /\ deletion' = [deletion EXCEPT ![d].at = to]

DeleteBegins(d) ==
  /\ DeletionGoes(d, "started", "deleting")
  /\ Posts(d, deletion[d].image, "DELETING")
  /\ UNCHANGED <<main, current, pc, status, stored, shared, history>>

\* The plugin has deleted, and the store does, or only logs what goes wrong.
DeleteRemoves(d) ==
  LET i == deletion[d].image IN
  /\ DeletionGoes(d, "deleting", "deleted")
  /\ Posts(d, i, "DELETED")
  /\ stored' \in {stored, [stored EXCEPT ![i] = "none"]}
  /\ UNCHANGED <<main, current, pc, status, shared, history>>

\* The plugin raises.
DeleteFails(d) ==
  /\ DeletionGoes(d, "deleting", "undeleted")
  /\ Posts(d, deletion[d].image, "DELETEFAILED")
  /\ UNCHANGED <<main, current, pc, status, stored, shared, history>>

\* It is saved over whatever the image's own builder has saved, if there is
\* still an image and the save does not raise.
DeleteFailSaves(d) ==
  LET i == deletion[d].image IN
  /\ DeletionGoes(d, "undeleted", "deleted")
  /\ \/ stored[i] # "none" /\ stored' = [stored EXCEPT ![i] = "DELETEFAILED"]
     \/ UNCHANGED stored
  /\ UNCHANGED <<main, current, pc, status, post, shared, history>>

-----------------------------------------------------------------------------
(* The main thread.                                                        *)

\* Builder() and add_image; parameters may name callbacks.
Create(i) ==
  /\ main = "ready" /\ pc[i] = "none"
  /\ current' = i
  /\ stored' = [stored EXCEPT ![i] = "NEW"]
  /\ main' \in {"observe", "launch"}
  /\ UNCHANGED <<pc, status, deletion, post, shared, history>>

AddObserver ==
  /\ main = "observe" /\ center = None
  /\ center' = Main
  /\ workers' = workers \cup {current}
  /\ observers' = observers \cup {current}
  /\ main' = "observing"
  /\ UNCHANGED <<current, pc, status, stored, deletion, post, requests, builders, regLock,
                 history>>

Observed ==
  /\ main = "observing"
  /\ center' = None
  /\ main' = "launch"
  /\ UNCHANGED <<current, pc, status, stored, deletion, post, requests, builders, regLock,
                 observers, workers, history>>

\* The thread runs before its builder is registered.
Launch ==
  /\ main = "launch"
  /\ Goes(current, "started")
  /\ main' = "register"
  /\ UNCHANGED <<current, status, stored, deletion, post, shared, history>>

AcquireRegistry ==
  /\ main = "register" /\ regLock = None
  /\ regLock' = Main
  /\ main' = "acquired"
  /\ UNCHANGED <<current, pc, status, stored, deletion, post, requests, center, builders,
                 observers, workers, history>>

Register ==
  /\ main = "acquired"
  /\ builders' = builders \cup {current}
  /\ known' = known \cup {current}
  /\ late' = IF current \in told THEN late \cup {current} ELSE late
  /\ main' = "registered"
  /\ UNCHANGED <<current, pc, status, stored, deletion, post, requests, center, regLock,
                 observers, workers, aborted, told, cut>>

ReleaseRegistry ==
  /\ main = "registered"
  /\ regLock' = None
  /\ main' = "ready"
  /\ UNCHANGED <<current, pc, status, stored, deletion, post, requests, center, builders,
                 observers, workers, history>>

\* The image to be deleted is loaded, which posts its status, and then handed to
\* the new thread.
LoadToDelete(d, i) ==
  /\ main = "ready" /\ deletion[d].at = "idle" /\ stored[i] # "none"
  /\ deletion' = [deletion EXCEPT ![d] = [at |-> "loaded", image |-> i]]
  /\ IF stored[i] = "NEW" THEN UNCHANGED post ELSE Posts(d, i, stored[i])
  /\ current' = d
  /\ main' = "loading"
  /\ UNCHANGED <<pc, status, stored, shared, history>>

LaunchDeletion ==
  /\ main = "loading" /\ DeletionGoes(current, "loaded", "started")
  /\ main' = "ready"
  /\ UNCHANGED <<current, pc, status, stored, post, shared, history>>

\* The program joins the thread of the builder that it created last.
Join ==
  /\ main = "ready"
  /\ \/ current \in Images /\ pc[current] = "ended"
     \/ current \in Deleters /\ deletion[current].at = "deleted" /\ Quietly(current)
  /\ main' = "gone"
  /\ UNCHANGED <<current, pc, status, stored, deletion, post, shared, history>>

-----------------------------------------------------------------------------
(* Signals.  The handler runs in the main thread, between any two steps,   *)
(* and leaves by an exception: only the lock taken for a try is released.  *)

\* The phases of a notification in which its thread has the lock of the center.
WithCenter == {"forget", "forgotten", "unlock"}

\* The notification that main itself was posting, of an image that it loads, is
\* not posted to the end.
Broken == IF main = "loading" THEN post[current].phase ELSE "quiet"

Leaves ==
  /\ main # "gone"
  /\ main' = "gone"
  /\ regLock' = IF main = "registered" THEN None ELSE regLock
  /\ cut' = cut \cup (IF main = "observing" \/ Broken \in WithCenter THEN {"center"} ELSE {})
                \cup (IF main = "acquired" \/ Broken = "forgotten" THEN {"builders"} ELSE {})
  /\ IF Broken = "quiet" THEN UNCHANGED post ELSE Phase(current, "broken")
  /\ UNCHANGED <<current, pc, status, stored, deletion, requests, center, builders,
                 observers, workers, known, told, late>>

\* What a Builder has, of threads.
BuilderThreads == {"base_thread", "target_thread", "push_thread", "snapshot_thread"}

\* The handler asks for builder_thread, outside its try.
Sigterm ==
  /\ aborted' = IF "builder_thread" \in BuilderThreads THEN aborted \cup builders ELSE aborted
  /\ Leaves

\* The handler of the builder that was created last; it aborts what its OS
\* plugin does, if it builds.
Sigint ==
  /\ current \in Images
  /\ aborted' = IF pc[current] = "building" THEN aborted \cup {current} ELSE aborted
  /\ Leaves

-----------------------------------------------------------------------------
\* A request loads an image; the setter posts what differs from NEW.
Load(p, i) ==
  /\ Quietly(p) /\ requests[p] > 0 /\ stored[i] \notin {"none", "NEW"}
  /\ requests' = [requests EXCEPT ![p] = @ - 1]
  /\ Posts(p, i, stored[i])
  /\ UNCHANGED <<main, current, pc, status, stored, deletion, center, builders, regLock, observers,
                 workers, history>>

Posting(p) == Notify(p) \/ Forget(p) \/ Forgotten(p) \/ Unlock(p)
Ending(i) == Saves(i) \/ FailSaves(i) \/ Unobserve(i) \/ ShutDown(i)
Building(i) == Begins(i) \/ Succeeds(i) \/ Fails(i) \/ Ending(i)
Deleting(d) == DeleteBegins(d) \/ DeleteRemoves(d) \/ DeleteFails(d) \/ DeleteFailSaves(d)
MainGoesOn ==
  \/ AddObserver \/ Observed \/ Launch \/ AcquireRegistry \/ Register \/ ReleaseRegistry
  \/ LaunchDeletion

\* The process stops when its threads have ended, or hangs on a lock that the
\* main thread has left behind.
Stop ==
  /\ main = "gone"
  /\ \/ cut # {}
     \/ /\ \A i \in Images : pc[i] \in {"none", "ended"}
        /\ \A d \in Deleters : deletion[d].at \in {"idle", "loaded", "deleted"}
  /\ UNCHANGED vars

Next ==
  \/ \E p \in Posters : Posting(p)
  \/ \E i \in Images : Building(i) \/ Create(i)
  \/ \E d \in Deleters : Deleting(d) \/ \E i \in Images : LoadToDelete(d, i)
  \/ \E p \in Pool, i \in Images : Load(p, i)
  \/ MainGoesOn \/ Join \/ Sigterm \/ Sigint \/ Stop

\* Every thread is scheduled; signals, requests and new builds come or do not.
\* No lock is fair: who waits for one is sure of it only because the others stop.
Fairness ==
  /\ \A p \in Posters : WF_vars(Posting(p))
  /\ \A i \in Images : WF_vars(Building(i))
  /\ \A d \in Deleters : WF_vars(Deleting(d))
  /\ WF_vars(MainGoesOn)

Spec == Init /\ [][Next]_vars /\ Fairness

-----------------------------------------------------------------------------
Phases == {"quiet", "lock", "forget", "forgotten", "unlock", "dead", "broken"}
Statuses == {"NEW", "BUILDING", "COMPLETE", "FAILED", "DELETING", "DELETED", "DELETEFAILED"}

\* The variables have their types.
TypeOK ==
  /\ main \in {"ready", "observe", "observing", "launch", "register", "acquired",
               "registered", "loading", "gone"}
  /\ current \in Images \cup Deleters \cup {None}
  /\ pc \in [Images -> {"none", "started", "building", "save", "failsave", "finally",
                        "shutdown", "ended"}]
  /\ status \in [Images -> {"NEW", "BUILDING", "COMPLETE", "FAILED"}]
  /\ stored \in [Images -> {"none", "NEW", "COMPLETE", "FAILED", "DELETEFAILED"}]
  /\ deletion \in [Deleters -> [at : {"idle", "loaded", "started", "deleting", "undeleted",
                                      "deleted"},
                                image : Images \cup {None}]]
  /\ post \in [Posters -> [phase : Phases, image : Images \cup {None}, status : Statuses]]
  /\ requests \in [Pool -> 0 .. Requests]
  /\ center \in Posters \cup {Main, None} /\ regLock \in Posters \cup {Main, None}
  /\ builders \subseteq Images /\ observers \subseteq Images /\ workers \subseteq Images
  /\ aborted \subseteq Images /\ known \subseteq Images /\ told \subseteq Images
  /\ late \subseteq Images /\ cut \subseteq {"center", "builders"}

\* The images a deletion of which was decided one way or the other: DELETED, or
\* DELETEFAILED, is set.
Decided ==
  {deletion[d].image : d \in {e \in Deleters : deletion[e].at \in {"undeleted", "deleted"}}}

\* A builder that was registered stays so until its image fails or a deletion of
\* the image is decided, whoever loads the image and whatever is posted in
\* between; a handler of a signal that works would find it.  A deletion, also
\* one that failed, does make the dispatcher forget a builder that still runs
\* (BuildDispatcher.py:29-37).
NotForgotten ==
  \A i \in known : i \in builders \/ status[i] = "FAILED" \/ i \in Decided

\* The builder of a failed image that stays registered is one that was
\* registered after its failure, or a deletion, had been notified: its thread is
\* started first (BuildDispatcher.py:41-44).
LeftoverIsLate ==
  \A i \in builders : pc[i] = "ended" /\ status[i] = "FAILED" => i \in late

\* Every thread of a builder ends, though the observers run with the lock of the
\* center held and the dispatcher takes its own within it; unless a signal ended
\* the main thread while that held one of the two.
ThreadsEnd == \A i \in Images : (pc[i] = "started") ~> (pc[i] = "ended" \/ cut # {})

\* "Run the abort() method in all running builders" (imagefactoryd:90).
SigtermAborts ==
  [][Sigterm => \A i \in builders : pc[i] = "building" => i \in aborted']_vars
=============================================================================
