--------------------------- MODULE CallbackWorker ---------------------------
(***************************************************************************)
(* imgfac/CallbackWorker.py: the queue between the threads that change an  *)
(* image's status and the thread that PUTs every change to a callback URL. *)
(*                                                                         *)
(* The queue and the event are written under queue_lock.  What is read     *)
(* outside it keeps a step of its own: the shutdown test of _enqueue, the  *)
(* event the worker sleeps on, and the two halves of the exit test.  What  *)
(* the worker and shut_down do under the lock is seen by nobody half done  *)
(* and is one step; _enqueue takes two, since the worker's exit test reads *)
(* the length of the queue without the lock.                               *)
(***************************************************************************)
EXTENDS Naturals, Sequences

CONSTANTS Threads,      \* the threads that post status changes
          Updates,      \* the status updates, each of them posted once
          NoThread, NoUpdate

ASSUME NoThreadAssumption == NoThread \notin Threads
ASSUME NoUpdateAssumption == NoUpdate \notin Updates

VARIABLES callback_queue,   \* the updates waiting, oldest first
          queue_not_empty,  \* the threading.Event
          queue_lock,       \* who holds the semaphore between two steps
          shutdown,         \* the flag shut_down sets
          at,               \* where each thread is in _enqueue
          status_update,    \* what each thread is enqueuing
          caller,           \* where the caller of shut_down is
          worker,           \* where the worker thread is
          next_callback,    \* what the worker took from the queue
          accepted,         \* history: the updates appended, in order
          put,              \* history: the updates the worker PUT, in order
          posted,           \* history: the updates given to status_notifier
          promise_kept      \* history: no _enqueue overlapped or followed
                            \* the call of shut_down

vars == <<callback_queue, queue_not_empty, queue_lock, shutdown, at,
          status_update, caller, worker, next_callback, accepted, put,
          posted, promise_kept>>

queueVars    == <<callback_queue, queue_not_empty, queue_lock, accepted>>
threadVars   == <<at, status_update, posted>>
callerVars   == <<shutdown, caller, promise_kept>>
workerVars   == <<worker, next_callback, put>>

TypeOK ==
  /\ callback_queue \in Seq(Updates)
  /\ queue_not_empty \in BOOLEAN
  /\ queue_lock \in Threads \cup {NoThread}
  /\ shutdown \in BOOLEAN
  /\ at \in [Threads -> {"idle", "enqueue", "appended"}]
  /\ status_update \in [Threads -> Updates \cup {NoUpdate}]
  /\ caller \in {"building", "acquire", "join", "returned"}
  /\ worker \in {"wait", "get", "put", "check", "checkempty", "exited"}
  /\ next_callback \in Updates \cup {NoUpdate}
  /\ accepted \in Seq(Updates)
  /\ put \in Seq(Updates)
  /\ posted \subseteq Updates
  /\ promise_kept \in BOOLEAN

Init ==
  /\ callback_queue = <<>>
  /\ queue_not_empty = FALSE
  /\ queue_lock = NoThread
  /\ shutdown = FALSE
  /\ at = [t \in Threads |-> "idle"]
  /\ status_update = [t \in Threads |-> NoUpdate]
  /\ caller = "building"
  /\ worker = "wait"
  /\ next_callback = NoUpdate
  /\ accepted = <<>>
  /\ put = <<>>
  /\ posted = {}
  /\ promise_kept = TRUE

-----------------------------------------------------------------------------
(* The threads that post notifications: status_notifier and _enqueue.      *)

\* The test outside the lock passes and the thread goes on to the lock.
StatusNotifier(t, u) ==
  /\ at[t] = "idle"
  /\ u \notin posted
  /\ ~shutdown
  /\ at' = [at EXCEPT ![t] = "enqueue"]
  /\ status_update' = [status_update EXCEPT ![t] = u]
  /\ posted' = posted \cup {u}
  /\ UNCHANGED <<queueVars, callerVars, workerVars>>

\* The test outside the lock fails and _enqueue raises: the update is dropped.
EnqueueRefused(t, u) ==
  /\ at[t] = "idle"
  /\ u \notin posted
  /\ shutdown
  /\ posted' = posted \cup {u}
  /\ promise_kept' = FALSE
  /\ UNCHANGED <<queueVars, at, status_update, shutdown, caller, workerVars>>

AppendUpdate(t) ==
  /\ at[t] = "enqueue"
  /\ queue_lock = NoThread
  /\ queue_lock' = t
  /\ callback_queue' = Append(callback_queue, status_update[t])
  /\ accepted' = Append(accepted, status_update[t])
  /\ at' = [at EXCEPT ![t] = "appended"]
  /\ UNCHANGED <<queue_not_empty, status_update, posted, callerVars, workerVars>>

SetNotEmpty(t) ==
  /\ at[t] = "appended"
  /\ queue_not_empty' = TRUE
  /\ queue_lock' = NoThread
  /\ at' = [at EXCEPT ![t] = "idle"]
  /\ UNCHANGED <<callback_queue, accepted, status_update, posted, callerVars,
                 workerVars>>

-----------------------------------------------------------------------------
(* The caller of shut_down.                                                *)

SetShutdown ==
  /\ caller = "building"
  /\ shutdown' = TRUE
  /\ caller' = "acquire"
  /\ promise_kept' = (promise_kept /\ \A t \in Threads : at[t] = "idle")
  /\ UNCHANGED <<queueVars, threadVars, workerVars>>

\* A faulty variant of EventAfterShutDown: shut_down wakes nobody.
EventLeftAlone == queue_not_empty

\* The event is set, inaccurately, when the queue is empty.
EventAfterShutDown == queue_not_empty \/ callback_queue = <<>>

\* With blocking=True the caller goes on to thread.join().
WakeWorker(blocking) ==
  /\ caller = "acquire"
  /\ queue_lock = NoThread
  /\ queue_not_empty' = EventAfterShutDown
  /\ caller' = IF blocking THEN "join" ELSE "returned"
  /\ UNCHANGED <<callback_queue, queue_lock, accepted, shutdown, promise_kept,
                 threadVars, workerVars>>

Join ==
  /\ caller = "join"
  /\ worker = "exited"
  /\ caller' = "returned"
  /\ UNCHANGED <<queueVars, shutdown, promise_kept, threadVars, workerVars>>

-----------------------------------------------------------------------------
(* The worker thread: __call__, _do_next_callback.                         *)

WaitForCallback ==
  /\ worker = "wait"
  /\ queue_not_empty
  /\ worker' = "get"
  /\ UNCHANGED <<queueVars, threadVars, callerVars, next_callback, put>>

\* Faulty variants of Oldest and EventAfterPop: the newest update is taken;
\* every pop clears the event.
Newest == callback_queue[Len(callback_queue)]
ClearedByPop == FALSE

Oldest == Head(callback_queue)
Remaining == Tail(callback_queue)
EventAfterPop == Remaining # <<>>
AfterGet == IF callback_queue = <<>> THEN "check" ELSE "put"

\* _get_next_callback: None, and the event left as it is, on an empty queue.
GetNextCallback ==
  /\ worker = "get"
  /\ queue_lock = NoThread
  /\ IF callback_queue = <<>>
       THEN UNCHANGED <<callback_queue, queue_not_empty, next_callback>>
       ELSE /\ next_callback' = Oldest
            /\ callback_queue' = Remaining
            /\ queue_not_empty' = EventAfterPop
  /\ worker' = AfterGet
  /\ UNCHANGED <<queue_lock, accepted, put, threadVars, callerVars>>

\* The PUT is made once: whatever comes of it, the worker moves on.
PutCallback ==
  /\ worker = "put"
  /\ put' = Append(put, next_callback)
  /\ next_callback' = NoUpdate
  /\ worker' = "check"
  /\ UNCHANGED <<queueVars, threadVars, callerVars>>

CheckShutdown ==
  /\ worker = "check"
  /\ worker' = IF shutdown THEN "checkempty" ELSE "wait"
  /\ UNCHANGED <<queueVars, threadVars, callerVars, next_callback, put>>

\* A faulty variant of MayExit: the worker leaves as soon as it is told to.
ExitAtOnce == TRUE

MayExit == callback_queue = <<>>

CheckEmpty ==
  /\ worker = "checkempty"
  /\ worker' = IF MayExit THEN "exited" ELSE "wait"
  /\ UNCHANGED <<queueVars, threadVars, callerVars, next_callback, put>>

-----------------------------------------------------------------------------
\* Everything is over: the only states in which nothing more can happen.
Finished ==
  /\ worker = "exited"
  /\ caller = "returned"
  /\ posted = Updates
  /\ \A t \in Threads : at[t] = "idle"
  /\ UNCHANGED vars

Enqueue(t) == AppendUpdate(t) \/ SetNotEmpty(t)

Worker ==
  \/ WaitForCallback
  \/ GetNextCallback
  \/ PutCallback
  \/ CheckShutdown
  \/ CheckEmpty

ShutDown == (\E blocking \in BOOLEAN : WakeWorker(blocking)) \/ Join

Next ==
  \/ \E t \in Threads, u \in Updates : StatusNotifier(t, u) \/ EnqueueRefused(t, u)
  \/ \E t \in Threads : Enqueue(t)
  \/ SetShutdown
  \/ ShutDown
  \/ Worker
  \/ Finished

\* A thread inside _enqueue or shut_down, and the worker once it can run, are
\* scheduled again, and the PUT returns or raises.  Nothing obliges anybody to
\* post a change or to call shut_down.
Fairness ==
  /\ \A t \in Threads : WF_vars(Enqueue(t))
  /\ WF_vars(ShutDown)
  /\ WF_vars(Worker)

Spec == Init /\ [][Next]_vars /\ Fairness

-----------------------------------------------------------------------------
(* Correctness.                                                            *)

\* What the worker has taken and not yet PUT.
InHand == IF next_callback = NoUpdate THEN <<>> ELSE <<next_callback>>

\* What was put, what is in hand and what is queued is, in this order, all
\* that was ever accepted: concurrent _enqueue calls and the worker's pops
\* lose, duplicate and reorder nothing.
InOrder == accepted = put \o InHand \o callback_queue

\* An update never sits in the queue with the event clear, except between the
\* append and the set of the thread that appended it: the worker cannot sleep
\* on a queue that is not empty ("case 1" of shut_down's comment).
NoLostWakeup ==
  (callback_queue # <<>> /\ ~queue_not_empty)
    => \E t \in Threads : at[t] = "appended" /\ queue_lock = t

\* After shut_down has looked at the queue the worker is never asleep for
\* good: where it waits the event is set, or a thread is about to set it.
NotStranded ==
  (worker = "wait" /\ caller \in {"join", "returned"})
    => queue_not_empty \/ \E t \in Threads : at[t] = "appended"

\* If the caller keeps the promise shut_down's comment speaks of, the worker
\* exits only when every update it accepted has been put.
DrainedAtExit == (worker = "exited" /\ promise_kept) => put = accepted

\* The worker wakes up to an empty queue only because of shut_down, as the
\* comment in _get_next_callback has it.
EmptyWakeMeansShutdown ==
  (worker = "get" /\ callback_queue = <<>>) => shutdown

\* Once told to shut down the worker thread ends, whether or not the promise
\* is kept: no worker "lingers forever".
WorkerTerminates == shutdown ~> worker = "exited"

\* The worker implements StatusDelivery.  An update counts as accepted when it
\* is appended and as put when its PUT is over.
Delivery == INSTANCE StatusDelivery WITH
  pending <- InHand \o callback_queue,
  closed  <- shutdown,
  stopped <- worker = "exited"

ImplementsStatusDelivery == Delivery!Spec
=============================================================================
