----------------------- MODULE CallbackWorker_proofs -----------------------
(***************************************************************************)
(* Proofs about CallbackWorker, for every set of threads and of updates.   *)
(***************************************************************************)
EXTENDS CallbackWorker, SequenceTheorems, TLAPS

\* The inductive invariant.  TypeOK is not inductive alone: an update is
\* appended, and put, only because a thread in _enqueue and a worker at its
\* PUT hold one.
Holding ==
  /\ \A t \in Threads : at[t] = "enqueue" => status_update[t] \in Updates
  /\ worker = "put" <=> next_callback # NoUpdate

LockHeld ==
  /\ \A t \in Threads : at[t] = "appended" <=> queue_lock = t
  /\ queue_lock # NoThread => callback_queue # <<>>

\* The event is set on an empty queue only after shut_down has set it there.
EventSetOnEmpty ==
  (callback_queue = <<>> /\ queue_not_empty) => caller \in {"join", "returned"}

ShutdownFlag ==
  /\ shutdown <=> caller # "building"
  /\ worker \in {"checkempty", "exited"} => shutdown

Promise ==
  (promise_kept /\ shutdown) => /\ \A t \in Threads : at[t] = "idle"
                                /\ worker = "exited" => callback_queue = <<>>

IInv ==
  /\ TypeOK
  /\ Holding
  /\ LockHeld
  /\ EventSetOnEmpty
  /\ ShutdownFlag
  /\ Promise
  /\ InOrder
  /\ NoLostWakeup
  /\ NotStranded
  /\ EmptyWakeMeansShutdown

-----------------------------------------------------------------------------
(* Facts about sequences.                                                  *)

LEMMA AppendConcat ==
  ASSUME NEW S, NEW s \in Seq(S), NEW t \in Seq(S), NEW e \in S
  PROVE  s \o Append(t, e) = Append(s \o t, e)
<1>1. s \o t \in Seq(S) /\ <<e>> \in Seq(S)
  BY ConcatProperties
<1> QED  BY <1>1, AppendIsConcat, ConcatAssociative

LEMMA HeadThenTail ==
  ASSUME NEW S, NEW s \in Seq(S), s # <<>>
  PROVE  <<Head(s)>> \o Tail(s) = s
<1>1. <<Head(s)>> \in Seq(S) /\ Tail(s) \in Seq(S) /\ Len(<<Head(s)>>) = 1
  BY HeadTailProperties
<1>2. Len(<<Head(s)>> \o Tail(s)) = Len(s)
  BY <1>1, ConcatProperties, HeadTailProperties, LenProperties
<1>3. \A i \in 1 .. Len(s) : (<<Head(s)>> \o Tail(s))[i] = s[i]
  BY <1>1, <1>2, ConcatProperties, HeadTailProperties, LenProperties
<1> QED  BY <1>1, <1>2, <1>3, SeqEqual, ConcatProperties

\* Taking the head of the queue in hand leaves the concatenation as it was.
LEMMA TakeInOrder ==
  ASSUME NEW S, NEW s \in Seq(S), NEW q \in Seq(S), q # <<>>
  PROVE  s \o <<Head(q)>> \o Tail(q) = s \o <<>> \o q
<1>1. <<Head(q)>> \in Seq(S) /\ Tail(q) \in Seq(S)
  BY HeadTailProperties
<1>2. s \o <<Head(q)>> \o Tail(q) = s \o (<<Head(q)>> \o Tail(q))
  BY <1>1, ConcatAssociative
<1>3. s \o <<>> = s
  BY ConcatEmptySeq
<1> QED  BY <1>2, <1>3, HeadThenTail

\* So does putting what is in hand.
LEMMA PutInOrder ==
  ASSUME NEW S, NEW s \in Seq(S), NEW q \in Seq(S), NEW e \in S
  PROVE  Append(s, e) \o <<>> \o q = s \o <<e>> \o q
<1>1. Append(s, e) \in Seq(S) /\ Append(s, e) = s \o <<e>>
  BY AppendConcat, ConcatEmptySeq, EmptySeq
<1> QED  BY <1>1, ConcatEmptySeq

-----------------------------------------------------------------------------
LEMMA InitIInv == Init => IInv
<1> SUFFICES ASSUME Init PROVE IInv
  OBVIOUS
<1> USE NoThreadAssumption, NoUpdateAssumption
<1>1. TypeOK
  BY EmptySeq DEF Init, TypeOK
<1>2. InOrder
  BY ConcatEmptySeq, EmptySeq DEF Init, InOrder, InHand
<1> QED
  BY <1>1, <1>2 DEF Init, IInv, Holding, LockHeld, EventSetOnEmpty, ShutdownFlag,
     Promise, NoLostWakeup, NotStranded, EmptyWakeMeansShutdown

\* The steps that leave the sequences alone.
LEMMA QuietStep ==
  ASSUME IInv,
         \/ \E t \in Threads, u \in Updates :
              StatusNotifier(t, u) \/ EnqueueRefused(t, u)
         \/ \E t \in Threads : SetNotEmpty(t)
         \/ SetShutdown
         \/ ShutDown
         \/ WaitForCallback \/ CheckShutdown \/ CheckEmpty
         \/ UNCHANGED vars
  PROVE  IInv'
<1> USE NoThreadAssumption, NoUpdateAssumption DEF IInv, queueVars, threadVars,
        callerVars, workerVars
<1>0. InOrder' 
  BY DEF InOrder, InHand, StatusNotifier, EnqueueRefused, SetNotEmpty, SetShutdown,
     ShutDown, WakeWorker, Join, WaitForCallback, CheckShutdown, CheckEmpty, vars
<1>1. CASE \E t \in Threads, u \in Updates : StatusNotifier(t, u)
  <2>1. PICK t \in Threads, u \in Updates : StatusNotifier(t, u)
    BY <1>1
  <2>2. TypeOK'
    BY <2>1 DEF StatusNotifier, TypeOK
  <2>3. (Holding /\ LockHeld)'
    BY <2>1 DEF StatusNotifier, TypeOK, Holding, LockHeld
  <2>4. (NoLostWakeup /\ NotStranded)'
    BY <2>1 DEF StatusNotifier, TypeOK, NoLostWakeup, NotStranded, LockHeld
  <2> QED
    BY <1>0, <2>1, <2>2, <2>3, <2>4 DEF StatusNotifier, EventSetOnEmpty,
       ShutdownFlag, Promise, EmptyWakeMeansShutdown
<1>2. CASE \E t \in Threads, u \in Updates : EnqueueRefused(t, u)
  <2>1. PICK t \in Threads, u \in Updates : EnqueueRefused(t, u)
    BY <1>2
  <2> QED
    BY <1>0, <2>1 DEF EnqueueRefused, TypeOK, Holding, LockHeld, EventSetOnEmpty,
       ShutdownFlag, Promise, NoLostWakeup, NotStranded, EmptyWakeMeansShutdown
<1>3. CASE \E t \in Threads : SetNotEmpty(t)
  <2>1. PICK t \in Threads : SetNotEmpty(t)
    BY <1>3
  <2>2. TypeOK'
    BY <2>1 DEF SetNotEmpty, TypeOK
  <2>3. (Holding /\ LockHeld)'
    BY <2>1 DEF SetNotEmpty, TypeOK, Holding, LockHeld
  <2>4. EventSetOnEmpty'
    BY <2>1 DEF SetNotEmpty, TypeOK, LockHeld, EventSetOnEmpty
  <2> QED
    BY <1>0, <2>1, <2>2, <2>3, <2>4 DEF SetNotEmpty, TypeOK, ShutdownFlag, Promise,
       NoLostWakeup, NotStranded, EmptyWakeMeansShutdown
<1>4. CASE SetShutdown
  BY <1>0, <1>4 DEF SetShutdown, TypeOK, Holding, LockHeld, EventSetOnEmpty,
     ShutdownFlag, Promise, NoLostWakeup, NotStranded, EmptyWakeMeansShutdown
<1>5. CASE ShutDown
  BY <1>0, <1>5 DEF ShutDown, WakeWorker, EventAfterShutDown, Join, TypeOK, Holding,
     LockHeld, EventSetOnEmpty, ShutdownFlag, Promise, NoLostWakeup, NotStranded,
     EmptyWakeMeansShutdown
<1>6. CASE WaitForCallback
  BY <1>0, <1>6 DEF WaitForCallback, TypeOK, Holding, LockHeld, EventSetOnEmpty,
     ShutdownFlag, Promise, NoLostWakeup, NotStranded, EmptyWakeMeansShutdown
<1>7. CASE CheckShutdown
  BY <1>0, <1>7 DEF CheckShutdown, TypeOK, Holding, LockHeld, EventSetOnEmpty,
     ShutdownFlag, Promise, NoLostWakeup, NotStranded, EmptyWakeMeansShutdown
<1>8. CASE CheckEmpty
  BY <1>0, <1>8 DEF CheckEmpty, MayExit, TypeOK, Holding, LockHeld, EventSetOnEmpty,
     ShutdownFlag, Promise, NoLostWakeup, NotStranded, EmptyWakeMeansShutdown
<1>9. CASE UNCHANGED vars
  BY <1>0, <1>9 DEF vars, TypeOK, Holding, LockHeld, EventSetOnEmpty, ShutdownFlag,
     Promise, NoLostWakeup, NotStranded, EmptyWakeMeansShutdown
<1> QED
  BY <1>1, <1>2, <1>3, <1>4, <1>5, <1>6, <1>7, <1>8, <1>9
\* The steps that append to, pop from or put an update.
LEMMA UpdateStep ==
  ASSUME IInv,
         (\E t \in Threads : AppendUpdate(t)) \/ GetNextCallback \/ PutCallback
  PROVE  IInv'
<1> USE NoThreadAssumption, NoUpdateAssumption DEF IInv, queueVars, threadVars,
        callerVars, workerVars
<1>1. CASE \E t \in Threads : AppendUpdate(t)
  <2>1. PICK t \in Threads : AppendUpdate(t)
    BY <1>1
  <2>2. status_update[t] \in Updates
    BY <2>1 DEF AppendUpdate, Holding
  <2>3. TypeOK'
    BY <2>1, <2>2, AppendProperties DEF AppendUpdate, TypeOK
  <2>4. callback_queue' # <<>>
    BY <2>1, <2>2, AppendProperties DEF AppendUpdate, TypeOK
  <2>5. InOrder'
    <3>1. InHand' = InHand /\ InHand \in Seq(Updates)
      BY <2>1, EmptySeq DEF AppendUpdate, InHand, TypeOK
    <3>2. put \o InHand \in Seq(Updates)
      BY <3>1, ConcatProperties DEF TypeOK
    <3>3. put \o InHand \o Append(callback_queue, status_update[t])
            = Append(put \o InHand \o callback_queue, status_update[t])
      BY <2>2, <3>2, AppendConcat DEF TypeOK
    <3>4. /\ put' = put
          /\ accepted' = Append(accepted, status_update[t])
          /\ callback_queue' = Append(callback_queue, status_update[t])
      BY <2>1 DEF AppendUpdate
    <3> QED
      BY <3>1, <3>3, <3>4 DEF InOrder
  <2>6. (Holding /\ LockHeld)'
    BY <2>1, <2>4 DEF AppendUpdate, TypeOK, Holding, LockHeld
  <2>7. Promise'
    BY <2>1 DEF AppendUpdate, Promise, TypeOK
  <2>8. (NoLostWakeup /\ NotStranded)'
    BY <2>1 DEF AppendUpdate, TypeOK, NoLostWakeup, NotStranded
  <2> QED
    BY <2>1, <2>3, <2>4, <2>5, <2>6, <2>7, <2>8 DEF AppendUpdate, EventSetOnEmpty,
       ShutdownFlag, EmptyWakeMeansShutdown
<1>2. CASE GetNextCallback
  <2>1. CASE callback_queue = <<>>
    <3>1. InOrder'
      BY <1>2, <2>1 DEF GetNextCallback, InOrder, InHand
    <3> QED
      BY <1>2, <2>1, <3>1 DEF GetNextCallback, AfterGet, TypeOK, Holding, LockHeld,
         EventSetOnEmpty, ShutdownFlag, Promise, NoLostWakeup, NotStranded,
         EmptyWakeMeansShutdown
  <2>2. CASE callback_queue # <<>>
    <3>1. /\ next_callback' = Head(callback_queue)
          /\ callback_queue' = Tail(callback_queue)
          /\ worker' = "put" /\ next_callback = NoUpdate
          /\ put' = put /\ accepted' = accepted
      BY <1>2, <2>2
      DEF GetNextCallback, Oldest, Remaining, AfterGet, TypeOK, Holding
    <3>2. next_callback' \in Updates /\ callback_queue' \in Seq(Updates)
      BY <2>2, <3>1, HeadTailProperties DEF TypeOK
    <3>3. /\ queue_not_empty' \in BOOLEAN
          /\ queue_not_empty' <=> callback_queue' # <<>>
      BY <1>2, <2>2 DEF GetNextCallback, Remaining, EventAfterPop
    <3>4. InOrder'
      <4>1. InHand = <<>> /\ InHand' = <<Head(callback_queue)>>
        BY <3>1, <3>2 DEF InHand
      <4> QED
        BY SMTT(20), <2>2, <3>1, <4>1, TakeInOrder DEF InOrder, TypeOK
    <3>5. TypeOK'
      BY <1>2, <3>1, <3>2, <3>3 DEF GetNextCallback, TypeOK
    <3> QED
      BY <1>2, <2>2, <3>1, <3>2, <3>3, <3>4, <3>5 DEF GetNextCallback, Holding,
         LockHeld, EventSetOnEmpty, ShutdownFlag, Promise, NoLostWakeup, NotStranded,
         EmptyWakeMeansShutdown
  <2> QED  BY <2>1, <2>2
<1>3. CASE PutCallback
  <2>1. next_callback \in Updates
    BY <1>3 DEF PutCallback, TypeOK, Holding
  <2>2. TypeOK'
    BY <1>3, <2>1, AppendProperties DEF PutCallback, TypeOK
  <2>3. InOrder'
    <3>1. InHand = <<next_callback>> /\ InHand' = <<>>
      BY <1>3, <2>1 DEF PutCallback, InHand
    <3>2. /\ put' = Append(put, next_callback)
          /\ accepted' = accepted /\ callback_queue' = callback_queue
      BY <1>3 DEF PutCallback
    <3>3. QED
      <4>1. Append(put, next_callback) \o <<>> \o callback_queue
              = put \o <<next_callback>> \o callback_queue
        BY <2>1, PutInOrder DEF TypeOK
      <4> QED
        BY <3>1, <3>2, <4>1 DEF InOrder
  <2> QED
    BY <1>3, <2>2, <2>3 DEF PutCallback, Holding, LockHeld, EventSetOnEmpty,
       ShutdownFlag, Promise, NoLostWakeup, NotStranded, EmptyWakeMeansShutdown
<1> QED
  BY <1>1, <1>2, <1>3

LEMMA StepIInv == IInv /\ [Next]_vars => IInv'
<1> SUFFICES ASSUME IInv, [Next]_vars PROVE IInv'
  OBVIOUS
<1>1. CASE \/ \E t \in Threads : AppendUpdate(t)
           \/ GetNextCallback \/ PutCallback
  BY <1>1, UpdateStep
<1>2. CASE \/ \E t \in Threads, u \in Updates :
                StatusNotifier(t, u) \/ EnqueueRefused(t, u)
           \/ \E t \in Threads : SetNotEmpty(t)
           \/ SetShutdown
           \/ ShutDown
           \/ WaitForCallback \/ CheckShutdown \/ CheckEmpty
           \/ UNCHANGED vars
  BY <1>2, QuietStep
<1> QED
  BY <1>1, <1>2 DEF Next, Enqueue, Worker, Finished

LEMMA Invariance == Spec => []IInv
  BY InitIInv, StepIInv, PTL DEF Spec

-----------------------------------------------------------------------------
\* Every variable keeps its type: the worker never puts, and no thread ever
\* appends, anything but a status update.
THEOREM TypeCorrect == Spec => []TypeOK
  BY Invariance, PTL DEF IInv

\* Whatever the threads and the worker interleave, what was put, what is in
\* hand and what is queued is all that was accepted, in that order.
THEOREM Ordered == Spec => []InOrder
  BY Invariance, PTL DEF IInv

\* The worker never sleeps on a queue that is not empty.
THEOREM Awake == Spec => []NoLostWakeup
  BY Invariance, PTL DEF IInv

\* After shut_down the worker is never asleep for good.
THEOREM Reachable == Spec => []NotStranded
  BY Invariance, PTL DEF IInv

\* With the promise of shut_down's comment kept, the worker exits only after
\* it has put everything it accepted.
THEOREM Drained == Spec => []DrainedAtExit
<1>1. IInv => DrainedAtExit
  <2> SUFFICES ASSUME IInv, worker = "exited", promise_kept
               PROVE  put = accepted
    BY DEF DrainedAtExit
  <2>1. callback_queue = <<>> /\ next_callback = NoUpdate
    BY DEF IInv, Promise, ShutdownFlag, Holding
  <2>2. put \in Seq(Updates)
    BY DEF IInv, TypeOK
  <2> QED
    BY <2>1, <2>2, ConcatEmptySeq DEF IInv, InOrder, InHand
<1> QED
  BY <1>1, Invariance, PTL

\* _get_next_callback: the event is set on an empty queue only because of shut_down.
THEOREM WakesEmptyForShutdown == Spec => []EmptyWakeMeansShutdown
  BY Invariance, PTL DEF IInv

\* Once shut_down is called and until the worker thread ends, never do all wait for
\* one another: shut_down may take the lock and wake the worker, a thread inside
\* _enqueue is to set the event and give the lock back, or the worker may go on.
\* This is what WorkerTerminates asks of a state.
THEOREM ShutDownGoesOn ==
  Spec => [](shutdown /\ worker # "exited" =>
               \/ caller = "acquire" /\ queue_lock = NoThread
               \/ \E t \in Threads : at[t] = "appended" /\ queue_lock = t
               \/ worker = "wait" /\ queue_not_empty
               \/ worker = "get" /\ queue_lock = NoThread
               \/ worker \in {"put", "check", "checkempty"})
<1>1. IInv =>
        (shutdown /\ worker # "exited" =>
           \/ caller = "acquire" /\ queue_lock = NoThread
           \/ \E t \in Threads : at[t] = "appended" /\ queue_lock = t
           \/ worker = "wait" /\ queue_not_empty
           \/ worker = "get" /\ queue_lock = NoThread
           \/ worker \in {"put", "check", "checkempty"})
  <2> SUFFICES ASSUME IInv, shutdown, worker # "exited"
               PROVE  \/ caller = "acquire" /\ queue_lock = NoThread
                      \/ \E t \in Threads : at[t] = "appended" /\ queue_lock = t
                      \/ worker = "wait" /\ queue_not_empty
                      \/ worker = "get" /\ queue_lock = NoThread
                      \/ worker \in {"put", "check", "checkempty"}
    OBVIOUS
  <2>1. CASE queue_lock # NoThread
    BY <2>1 DEF IInv, TypeOK, LockHeld
  <2>2. CASE queue_lock = NoThread
    <3>1. caller \in {"acquire", "join", "returned"}
      BY DEF IInv, TypeOK, ShutdownFlag
    <3>2. worker = "wait" /\ caller # "acquire" =>
            queue_not_empty \/ \E t \in Threads : at[t] = "appended"
      BY <3>1 DEF IInv, NotStranded
    <3>3. worker \in {"wait", "get", "put", "check", "checkempty"}
      BY DEF IInv, TypeOK
    <3> QED
      BY <2>2, <3>2, <3>3 DEF IInv, LockHeld
  <2> QED
    BY <2>1, <2>2
<1> QED
  BY <1>1, Invariance, PTL

\* How many steps of its own the worker is from its end: five for each update that
\* waits, and those to the exit test of an empty queue.
Left ==
  IF callback_queue = <<>>
    THEN [wait |-> 9, get |-> 8, put |-> 7, check |-> 6, checkempty |-> 5, exited |-> 0][worker]
    ELSE 5 * Len(callback_queue)
           + [put |-> 7, check |-> 6, checkempty |-> 5, wait |-> 4, get |-> 3, exited |-> 0][worker]

\* Once shut_down is called, and as long as the caller keeps the promise its comment
\* speaks of, every step of the worker brings it nearer to its end, and nothing that
\* anybody else does takes it away from there: it puts what is queued, once each, and
\* exits, within five of its steps for every update and nine more.  With
\* ShutDownGoesOn this is why WorkerTerminates holds for such a caller.
THEOREM DrainsDown ==
  Spec => [][shutdown /\ promise_kept' => Left' <= Left /\ (Worker => Left' < Left)]_vars
<1>1. ASSUME IInv, Next, shutdown, promise_kept' PROVE Left' <= Left /\ (Worker => Left' < Left)
  <2>0. /\ callback_queue \in Seq(Updates) /\ Len(callback_queue) \in Nat
        /\ worker \in {"wait", "get", "put", "check", "checkempty", "exited"}
        /\ callback_queue # <<>> => Len(callback_queue) > 0
    BY <1>1, EmptySeq, LenProperties DEF IInv, TypeOK
  <2>1. CASE Worker
    <3>1. CASE WaitForCallback \/ PutCallback \/ CheckShutdown \/ CheckEmpty
      <4>1. /\ UNCHANGED callback_queue
            /\ \/ worker = "wait" /\ worker' = "get"
               \/ worker = "put" /\ worker' = "check"
               \/ worker = "check" /\ worker' = "checkempty"
               \/ worker = "checkempty" /\ callback_queue = <<>> /\ worker' = "exited"
               \/ worker = "checkempty" /\ callback_queue # <<>> /\ worker' = "wait"
        BY <1>1, <3>1 DEF WaitForCallback, PutCallback, CheckShutdown, CheckEmpty, MayExit, queueVars
      <4> QED  BY <2>0, <4>1 DEF Left
    <3>2. CASE GetNextCallback
      <4>1. CASE callback_queue = <<>>
        BY <3>2, <4>1 DEF GetNextCallback, AfterGet, Left
      <4>2. CASE callback_queue # <<>>
        <5>1. /\ callback_queue' = Tail(callback_queue)
              /\ worker = "get" /\ worker' = "put"
          BY <3>2, <4>2 DEF GetNextCallback, Remaining, AfterGet
        <5>2. Len(callback_queue') = Len(callback_queue) - 1
          BY <2>0, <4>2, <5>1, HeadTailProperties
        <5> QED  BY <2>0, <4>2, <5>1, <5>2 DEF Left
      <4> QED  BY <4>1, <4>2
    <3> QED  BY <2>1, <3>1, <3>2 DEF Worker
  <2>2. CASE ~Worker
    <3>1. UNCHANGED <<callback_queue, worker>>
      <4>1. promise_kept
        BY <1>1, <2>2 DEF Next, StatusNotifier, EnqueueRefused, Enqueue, AppendUpdate, SetNotEmpty,
           SetShutdown, ShutDown, WakeWorker, Join, Finished, vars, callerVars
      <4>2. \A t \in Threads : at[t] = "idle"
        BY <1>1, <4>1 DEF IInv, Promise
      <4> QED
        BY <1>1, <2>2, <4>2 DEF Next, StatusNotifier, EnqueueRefused, Enqueue, AppendUpdate,
           SetNotEmpty, SetShutdown, ShutDown, WakeWorker, Join, Finished, vars, queueVars, workerVars
    <3>2. Left' = Left /\ Left \in Nat
      BY <2>0, <3>1 DEF Left
    <3> QED  BY <2>2, <3>2
  <2> QED  BY <2>1, <2>2
<1>2. IInv /\ [Next]_vars
        => [shutdown /\ promise_kept' => Left' <= Left /\ (Worker => Left' < Left)]_vars
  BY <1>1
<1> QED  BY <1>2, Invariance, PTL DEF Spec

-----------------------------------------------------------------------------
(* The worker implements StatusDelivery, but for its liveness.             *)

LEMMA DeliveryInit == Init => Delivery!Init
  BY ConcatEmptySeq, EmptySeq DEF Init, Delivery!Init, InHand

LEMMA DeliveryPut ==
  ASSUME IInv, PutCallback
  PROVE  Delivery!Put
<1>1. /\ next_callback \in Updates /\ next_callback # NoUpdate
      /\ worker = "put" /\ worker' = "check"
      /\ put' = Append(put, next_callback)
      /\ callback_queue' = callback_queue /\ shutdown' = shutdown
  BY DEF IInv, TypeOK, Holding, PutCallback, queueVars, callerVars
<1>2. InHand = <<next_callback>> /\ InHand' = <<>>
  BY <1>1 DEF PutCallback, InHand
<1>3. callback_queue \in Seq(Updates) /\ <<next_callback>> \in Seq(Updates)
  BY <1>1 DEF IInv, TypeOK
<1> DEFINE pending == <<next_callback>> \o callback_queue
<1>4. pending \in Seq(Updates) /\ Len(pending) = 1 + Len(callback_queue)
  BY <1>3, ConcatProperties
<1>5. pending # <<>> /\ Head(pending) = next_callback
  BY <1>3, <1>4, ConcatProperties, LenProperties
<1>6. Tail(pending) = callback_queue
  <2>1. \A i \in 1 .. Len(callback_queue) : Tail(pending)[i] = callback_queue[i]
    BY <1>3, <1>4, <1>5, ConcatProperties, HeadTailProperties, LenProperties
  <2> QED
    BY <1>3, <1>4, <1>5, <2>1, HeadTailProperties, LenProperties, SeqEqual
<1>7. <<>> \o callback_queue = callback_queue
  BY <1>3, ConcatEmptySeq
<1> QED
  BY <1>1, <1>2, <1>5, <1>6, <1>7 DEF Delivery!Put

LEMMA DeliveryStep == IInv /\ [Next]_vars => [Delivery!Next]_(Delivery!vars)
<1> SUFFICES ASSUME IInv, [Next]_vars PROVE [Delivery!Next]_(Delivery!vars)
  OBVIOUS
<1> USE DEF queueVars, threadVars, callerVars, workerVars
<1>1. CASE \E t \in Threads : AppendUpdate(t)
  <2>1. PICK t \in Threads : AppendUpdate(t)
    BY <1>1
  <2>2. status_update[t] \in Updates
    BY <2>1 DEF AppendUpdate, IInv, Holding
  <2>3. InHand' = InHand /\ InHand \in Seq(Updates)
    BY <2>1, EmptySeq DEF AppendUpdate, InHand, IInv, TypeOK
  <2>4. InHand \o Append(callback_queue, status_update[t])
          = Append(InHand \o callback_queue, status_update[t])
    BY <2>2, <2>3, AppendConcat DEF IInv, TypeOK
  <2>5. Delivery!Accept(status_update[t])
    BY <2>1, <2>3, <2>4 DEF AppendUpdate, Delivery!Accept
  <2> QED
    BY <2>2, <2>5 DEF Delivery!Next
<1>2. CASE GetNextCallback
  <2>1. CASE callback_queue = <<>>
    BY <1>2, <2>1 DEF GetNextCallback, AfterGet, Delivery!vars, InHand
  <2>2. CASE callback_queue # <<>>
    <3>1. /\ next_callback' = Head(callback_queue)
          /\ callback_queue' = Tail(callback_queue)
          /\ next_callback = NoUpdate /\ worker = "get" /\ worker' = "put"
          /\ put' = put /\ shutdown' = shutdown
      BY <1>2, <2>2 DEF GetNextCallback, Oldest, Remaining, AfterGet, IInv, Holding
    <3>2. InHand = <<>> /\ InHand' = <<Head(callback_queue)>>
      BY <2>2, <3>1, NoUpdateAssumption, HeadTailProperties DEF InHand, IInv, TypeOK
    <3>3. /\ <<Head(callback_queue)>> \o Tail(callback_queue) = callback_queue
          /\ <<>> \o callback_queue = callback_queue
      BY <2>2, HeadThenTail, ConcatEmptySeq DEF IInv, TypeOK
    <3> QED
      BY <3>1, <3>2, <3>3 DEF Delivery!vars
  <2> QED  BY <2>1, <2>2
<1>3. CASE PutCallback
  BY <1>3, DeliveryPut DEF Delivery!Next
<1>4. CASE SetShutdown
  BY <1>4 DEF SetShutdown, InHand, Delivery!Next, Delivery!Close
<1>5. CASE CheckEmpty
  <2>1. CASE callback_queue = <<>>
    <3>1. InHand = <<>> /\ shutdown
      BY <1>5 DEF CheckEmpty, IInv, Holding, ShutdownFlag, InHand
    <3>2. InHand \o callback_queue = <<>>
      BY <2>1, <3>1, ConcatEmptySeq DEF IInv, TypeOK
    <3>3. Delivery!Stop
      BY <1>5, <2>1, <3>1, <3>2 DEF CheckEmpty, MayExit, InHand, Delivery!Stop
    <3> QED
      BY <3>3 DEF Delivery!Next
  <2>2. CASE callback_queue # <<>>
    BY <1>5, <2>2 DEF CheckEmpty, MayExit, InHand, Delivery!vars
  <2> QED  BY <2>1, <2>2
<1>6. CASE \/ \E t \in Threads, u \in Updates :
                StatusNotifier(t, u) \/ EnqueueRefused(t, u)
           \/ \E t \in Threads : SetNotEmpty(t)
           \/ ShutDown
           \/ WaitForCallback \/ CheckShutdown
           \/ UNCHANGED vars
  BY <1>6 DEF StatusNotifier, EnqueueRefused, SetNotEmpty, ShutDown, WakeWorker, Join,
     WaitForCallback, CheckShutdown, vars, InHand, Delivery!vars
<1> QED
  BY <1>1, <1>2, <1>3, <1>4, <1>5, <1>6 DEF Next, Enqueue, Worker, Finished

\* Every behaviour of the worker is one StatusDelivery allows: updates are put
\* in the order of their acceptance, and the worker stops only once it has been
\* closed and has nothing left to put.
THEOREM Implements ==
  Spec => Delivery!Init /\ [][Delivery!Next]_(Delivery!vars)
  BY DeliveryInit, DeliveryStep, Invariance, PTL DEF Spec
=============================================================================
