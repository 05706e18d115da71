--------------------------- MODULE Courses_proofs ---------------------------
(***************************************************************************)
(* Proofs about module Courses, for any table of courses, any number of    *)
(* threads and any number of looks: what the flow through a course says of *)
(* a place is so whenever a thread is there.                               *)
(***************************************************************************)
EXTENDS Courses, TLAPS

\* The inductive invariant.
Accords(t) ==
  /\ held[t] \subseteq Known[course[t]][at[t]] \cup slipped[t]
  /\ Sure[course[t]][at[t]] \subseteq held[t]

IInv == TypeOK /\ \A t \in Threads : Accords(t)

\* At the start there is what the methods find.
LEMMA InitInv == Init => IInv
<1> SUFFICES ASSUME Init PROVE IInv
    OBVIOUS
<1>1. course \in [Threads -> Names]
  BY StartsAssumption DEF Init
<1>2. TypeOK
  BY <1>1, LimitAssumption, PlacesAssumption DEF Init, TypeOK, Places, Begin, Failed
<1>3. ASSUME NEW t \in Threads PROVE Accords(t)
  BY <1>1, KnownAssumption, SureAssumption DEF Init, Accords
<1> QED
  BY <1>2, <1>3 DEF IInv

\* A thread that goes where its flow allows keeps the invariant.
LEMMA GoesKeeps ==
  ASSUME NEW t \in Threads, NEW place, NEW things, IInv,
         Goes(t, place, things), place \in Places(course[t]),
         DOMAIN slipped' = Threads,
         slipped'[t] \cap Locks = {},
         \A u \in Threads \ {t} : slipped'[u] = slipped[u],
         things \subseteq Known[course[t]][place] \cup slipped'[t],
         Sure[course[t]][place] \subseteq things
  PROVE  IInv'
<1>1. /\ at'[t] = place /\ held'[t] = things /\ tries'[t] = 0
      /\ course' = course /\ aborted' = aborted
      /\ DOMAIN at' = Threads /\ DOMAIN held' = Threads /\ DOMAIN tries' = Threads
      /\ \A u \in Threads \ {t} : at'[u] = at[u] /\ held'[u] = held[u] /\ tries'[u] = tries[u]
  BY DEF Goes, IInv, TypeOK
<1>2. TypeOK'
  BY <1>1, LimitAssumption DEF IInv, TypeOK, Places
<1>3. ASSUME NEW u \in Threads PROVE Accords(u)'
  <2>1. CASE u = t
    BY <1>1, <2>1 DEF Accords
  <2>2. CASE u # t
    BY <1>1, <2>2 DEF Accords, IInv
  <2> QED
    BY <2>1, <2>2
<1> QED
  BY <1>2, <1>3 DEF IInv

\* What the assumptions say of the place where a thread is.
LEMMA AtPlace ==
  ASSUME NEW t \in Threads, IInv, Running(t)
  PROVE  LET c == course[t]
             p == at[t]
             s == Now(t)
         IN  /\ Accords(t) /\ slipped[t] \cap Locks = {} /\ DOMAIN slipped = Threads
             /\ s = StepOf(c, p)
             /\ p \in Nat
             /\ Onward(c, p) \cup OnRaise(c, p) \subseteq Places(c)
             /\ \A q \in Onward(c, p) \cup OnRaise(c, p) : q = Failed \/ q > p
             /\ s.do \in {"make", "set", "drop"} => s.what \notin Locks
             /\ \A q \in Onward(c, p) :
                  /\ (Known[c][p] \cup Adds(s)) \ Takes(s) \subseteq Known[c][q]
                  /\ Sure[c][q] \subseteq (Sure[c][p] \cup Adds(s)) \ Takes(s)
             /\ \A q \in OnRaise(c, p) :
                  /\ Known[c][p] \ Takes(s) \subseteq Known[c][q]
                  /\ Sure[c][q] \subseteq Sure[c][p] \ Takes(s)
<1> DEFINE c == course[t]
           p == at[t]
<1>1. c \in Names /\ p \in Begin .. End(c) - 1 /\ p \in Places(c)
  BY DEF IInv, TypeOK, Running
<1>2. p \in Nat /\ End(c) \in Nat
  BY <1>1, PlacesAssumption DEF Begin
<1>3. Onward(c, p) \cup OnRaise(c, p) \subseteq (p + 1 .. End(c)) \cup {Failed}
  BY <1>1, PlacesAssumption
<1>4. p + 1 .. End(c) \subseteq Places(c) /\ Failed \in Places(c)
  BY <1>2 DEF Places, Failed
<1>5. \A q \in p + 1 .. End(c) : q > p
  BY <1>2
<1> QED
  BY <1>1, <1>2, <1>3, <1>4, <1>5, ThingsAssumption, KnownAssumption, SureAssumption
  DEF IInv, TypeOK, Now

\* Each step of a thread keeps the invariant.
LEMMA ActsKeep == ASSUME NEW t \in Threads, IInv, Acts(t) PROVE IInv'
<1> DEFINE c == course[t]
           p == at[t]
           s == Now(t)
<1>1. Running(t)
  BY DEF Acts, Succeeds, Gains, Gives, Acquires, Turns, Raises, AnswerLost, DropFails,
         Looks, GivesUp, At
<1>2. /\ Accords(t) /\ slipped[t] \cap Locks = {} /\ DOMAIN slipped = Threads
      /\ s = StepOf(c, p) /\ p \in Nat
      /\ Onward(c, p) \cup OnRaise(c, p) \subseteq Places(c)
      /\ s.do \in {"make", "set", "drop"} => s.what \notin Locks
  BY <1>1, AtPlace
<1>3. ASSUME NEW q \in Onward(c, p)
      PROVE  /\ (Known[c][p] \cup Adds(s)) \ Takes(s) \subseteq Known[c][q]
             /\ Sure[c][q] \subseteq (Sure[c][p] \cup Adds(s)) \ Takes(s)
  BY <1>1, AtPlace
<1>4. ASSUME NEW q \in OnRaise(c, p)
      PROVE  /\ Known[c][p] \ Takes(s) \subseteq Known[c][q]
             /\ Sure[c][q] \subseteq Sure[c][p] \ Takes(s)
  BY <1>1, AtPlace
<1>5. CASE Succeeds(t)
  <2>1. p + 1 \in Onward(c, p) /\ Adds(s) = {} /\ Takes(s) = {}
    BY <1>2, <1>5 DEF Succeeds, At, Onward, Adds, Takes
  <2>2. Goes(t, p + 1, held[t]) /\ slipped' = slipped
    BY <1>5 DEF Succeeds, Fine
  <2>3. held[t] \subseteq Known[c][p + 1] \cup slipped[t] /\ Sure[c][p + 1] \subseteq held[t]
    BY <1>2, <1>3, <2>1 DEF Accords
  <2> QED
    BY <1>2, <2>1, <2>2, <2>3, GoesKeeps
<1>6. CASE Gains(t)
  <2>1. p + 1 \in Onward(c, p) /\ Adds(s) = {s.what} /\ Takes(s) = {}
    BY <1>2, <1>6 DEF Gains, At, Onward, Adds, Takes
  <2>2. Goes(t, p + 1, held[t] \cup {s.what}) /\ slipped' = slipped
    BY <1>6 DEF Gains, Fine
  <2>3. /\ held[t] \cup {s.what} \subseteq Known[c][p + 1] \cup slipped[t]
        /\ Sure[c][p + 1] \subseteq held[t] \cup {s.what}
    BY <1>2, <1>3, <2>1 DEF Accords
  <2> QED
    BY <1>2, <2>1, <2>2, <2>3, GoesKeeps
<1>7. CASE Gives(t)
  <2>1. p + 1 \in Onward(c, p) /\ Adds(s) = {} /\ Takes(s) = {s.what}
    BY <1>2, <1>7 DEF Gives, At, Onward, Adds, Takes
  <2>2. Goes(t, p + 1, held[t] \ {s.what}) /\ slipped' = slipped
    BY <1>7 DEF Gives, Fine
  <2>3. /\ held[t] \ {s.what} \subseteq Known[c][p + 1] \cup slipped[t]
        /\ Sure[c][p + 1] \subseteq held[t] \ {s.what}
    BY <1>2, <1>3, <2>1 DEF Accords
  <2> QED
    BY <1>2, <2>1, <2>2, <2>3, GoesKeeps
<1>8. CASE Acquires(t)
  <2>1. p + 1 \in Onward(c, p) /\ Adds(s) = {s.what} /\ Takes(s) = {}
    BY <1>2, <1>8 DEF Acquires, At, Onward, Adds, Takes
  <2>2. Goes(t, p + 1, held[t] \cup {s.what}) /\ slipped' = slipped
    BY <1>8 DEF Acquires, Fine
  <2>3. /\ held[t] \cup {s.what} \subseteq Known[c][p + 1] \cup slipped[t]
        /\ Sure[c][p + 1] \subseteq held[t] \cup {s.what}
    BY <1>2, <1>3, <2>1 DEF Accords
  <2> QED
    BY <1>2, <2>1, <2>2, <2>3, GoesKeeps
<1>9. CASE Turns(t)
  <2>1. Adds(s) = {} /\ Takes(s) = {}
    BY <1>9 DEF Turns, At, Adds, Takes
  <2>2. PICK q \in Onward(c, p) : Goes(t, q, held[t]) /\ slipped' = slipped
    BY <1>9 DEF Turns, Fine
  <2>3. held[t] \subseteq Known[c][q] \cup slipped[t] /\ Sure[c][q] \subseteq held[t]
    BY <1>2, <1>3, <2>1 DEF Accords
  <2> QED
    BY <1>2, <2>2, <2>3, GoesKeeps
<1>10. CASE Raises(t)
  <2>1. Handler(c, p) \in OnRaise(c, p) /\ Takes(s) = {}
    BY <1>2, <1>10 DEF Raises, At, OnRaise, Takes
  <2>2. Goes(t, Handler(c, p), held[t]) /\ slipped' = slipped
    BY <1>10 DEF Raises, Fine
  <2>3. /\ held[t] \subseteq Known[c][Handler(c, p)] \cup slipped[t]
        /\ Sure[c][Handler(c, p)] \subseteq held[t]
    BY <1>2, <1>4, <2>1 DEF Accords
  <2> QED
    BY <1>2, <2>1, <2>2, <2>3, GoesKeeps
<1>11. CASE AnswerLost(t)
  <2>1. Handler(c, p) \in OnRaise(c, p) /\ Takes(s) = {} /\ s.what \notin Locks
    BY <1>2, <1>11 DEF AnswerLost, At, OnRaise, Takes
  <2>2. /\ Goes(t, Handler(c, p), held[t] \cup {s.what})
        /\ slipped' = [slipped EXCEPT ![t] = @ \cup {s.what}]
    BY <1>11 DEF AnswerLost, Slips
  <2>3. /\ slipped'[t] = slipped[t] \cup {s.what} /\ DOMAIN slipped' = Threads
        /\ \A u \in Threads \ {t} : slipped'[u] = slipped[u]
    BY <1>2, <2>2
  <2>4. /\ held[t] \cup {s.what} \subseteq Known[c][Handler(c, p)] \cup slipped'[t]
        /\ Sure[c][Handler(c, p)] \subseteq held[t] \cup {s.what}
    BY <1>2, <1>4, <2>1, <2>3 DEF Accords
  <2>5. slipped'[t] \cap Locks = {}
    BY <1>2, <2>1, <2>3
  <2> QED
    BY <1>2, <2>1, <2>2, <2>3, <2>4, <2>5, GoesKeeps
<1>12. CASE DropFails(t)
  <2>1. Handler(c, p) \in OnRaise(c, p) /\ Takes(s) = {s.what} /\ s.what \notin Locks
    BY <1>2, <1>12 DEF DropFails, At, OnRaise, Takes
  <2>2. /\ Goes(t, Handler(c, p), held[t])
        /\ slipped' = [slipped EXCEPT ![t] = @ \cup ({s.what} \cap held[t])]
    BY <1>12 DEF DropFails, Slips
  <2>3. /\ slipped'[t] = slipped[t] \cup ({s.what} \cap held[t]) /\ DOMAIN slipped' = Threads
        /\ \A u \in Threads \ {t} : slipped'[u] = slipped[u]
    BY <1>2, <2>2
  <2>4. /\ held[t] \subseteq Known[c][Handler(c, p)] \cup slipped'[t]
        /\ Sure[c][Handler(c, p)] \subseteq held[t]
    BY <1>2, <1>4, <2>1, <2>3 DEF Accords
  <2>5. slipped'[t] \cap Locks = {}
    BY <1>2, <2>1, <2>3
  <2> QED
    BY <1>2, <2>1, <2>2, <2>3, <2>4, <2>5, GoesKeeps
<1>13. CASE Looks(t)
  <2>1. /\ DOMAIN tries' = Threads /\ tries'[t] \in 0 .. Limit - 1
        /\ \A u \in Threads \ {t} : tries'[u] = tries[u]
    BY <1>13, LimitAssumption DEF Looks, IInv, TypeOK
  <2>2. UNCHANGED <<course, at, held, slipped, aborted>>
    BY <1>13 DEF Looks
  <2> QED
    BY <2>1, <2>2 DEF IInv, TypeOK, Accords, Places
<1>14. CASE GivesUp(t)
  <2>1. /\ Handler(c, p) \in OnRaise(c, p) /\ p + 1 \in Onward(c, p)
        /\ Adds(s) = {} /\ Takes(s) = {}
    BY <1>2, <1>14 DEF GivesUp, At, Onward, OnRaise, Adds, Takes
  <2>2. PICK q \in {Handler(c, p), p + 1} : Goes(t, q, held[t]) /\ slipped' = slipped
    BY <1>14 DEF GivesUp, Fine
  <2>3. held[t] \subseteq Known[c][q] \cup slipped[t] /\ Sure[c][q] \subseteq held[t]
    BY <1>2, <1>3, <1>4, <2>1 DEF Accords
  <2>4. q \in Places(c)
    BY <1>2, <2>1
  <2> QED
    BY <1>2, <2>2, <2>3, <2>4, GoesKeeps
<1> QED
  BY <1>5, <1>6, <1>7, <1>8, <1>9, <1>10, <1>11, <1>12, <1>13, <1>14 DEF Acts

\* What abort does away with no place is sure of.
LEMMA SureApart ==
  ASSUME NEW c \in Names, NEW p \in Begin .. End(c) - 1
  PROVE  Sure[c][p] \cap Course[c].aborts = {}
<1> QED
  BY SureAssumption

\* Abort takes away only what no place is sure of.
LEMMA AbortKeeps == ASSUME NEW t \in Threads, IInv, Abort(t) PROVE IInv'
<1> DEFINE c == course[t]
           p == at[t]
<1>1. Running(t) /\ c \in Names /\ p \in Begin .. End(c) - 1
  BY DEF Abort, Running, IInv, TypeOK
<1>2. Sure[c][p] \cap Course[c].aborts = {}
  BY <1>1, SureApart
<1>3. /\ held'[t] = held[t] \ Course[c].aborts
      /\ DOMAIN held' = Threads
      /\ \A u \in Threads \ {t} : held'[u] = held[u]
      /\ UNCHANGED <<course, at, tries, slipped>>
  BY DEF Abort, IInv, TypeOK
<1>4. TypeOK'
  BY <1>3 DEF Abort, IInv, TypeOK, Places
<1>5. ASSUME NEW u \in Threads PROVE Accords(u)'
  BY <1>2, <1>3 DEF IInv, Accords
<1> QED
  BY <1>4, <1>5 DEF IInv

LEMMA NextKeeps == IInv /\ [Next]_vars => IInv'
<1> SUFFICES ASSUME IInv, [Next]_vars PROVE IInv'
    OBVIOUS
<1>1. CASE UNCHANGED vars
  BY <1>1 DEF vars, IInv, TypeOK, Accords, Places
<1>2. CASE Stop
  BY <1>1, <1>2 DEF Stop
<1>3. ASSUME NEW t \in Threads, Acts(t) PROVE IInv'
  BY <1>3, ActsKeep
<1>4. ASSUME NEW t \in Threads, Abort(t) PROVE IInv'
  BY <1>4, AbortKeeps
<1> QED
  BY <1>1, <1>2, <1>3, <1>4 DEF Next

\* At every moment what a thread holds accords with the flow through its course.
THEOREM Flows == Spec => []IInv
<1> QED
  BY InitInv, NextKeeps, PTL DEF Spec

-----------------------------------------------------------------------------
\* Where a course ends is the one or the other place.
LEMMA EndsAt ==
  ASSUME NEW t \in Threads, IInv
  PROVE  /\ course[t] \in Names /\ Accords(t) /\ slipped[t] \cap Locks = {}
         /\ Ended(t) <=> Returned(t) \/ Raised(t)
<1>1. /\ course[t] \in Names /\ Accords(t) /\ slipped[t] \cap Locks = {}
      /\ at[t] \in Places(course[t])
  BY DEF IInv, TypeOK
<1> QED
  BY <1>1, PlacesAssumption DEF Ended, Running, Returned, Raised, Places, Begin, Failed

\* A table of courses whose flow is accounted for leaves nothing behind that is
\* not accounted for, whatever raises and whenever abort is called: the finally
\* clauses of the plugins.
THEOREM TableIsTidy ==
  ASSUME \A c \in Names : AccountedFor(c) PROVE Spec => []Tidy
<1>1. IInv => Tidy
  <2> SUFFICES ASSUME IInv, NEW t \in Threads
               PROVE  LET c == Course[course[t]] IN
                      /\ Returned(t) => held[t] \subseteq c.gives \cup c.keeps \cup slipped[t]
                      /\ Raised(t) => held[t] \subseteq c.leaks \cup slipped[t]
      BY DEF Tidy
  <2> QED
    BY EndsAt DEF AccountedFor, FlowFits, Accords, Returned, Raised
<1> QED
  BY <1>1, Flows, PTL

\* A method that returns has made and recorded what it was called for, but for
\* those that swallow an exception (Rackspace.py:272, RHEVMHelper.py:282).
THEOREM TableIsComplete ==
  ASSUME \A c \in Names : AccountedFor(c) PROVE Spec => []ReturnedIsComplete
<1>1. IInv => ReturnedIsComplete
  <2> SUFFICES ASSUME IInv, NEW t \in Threads, Returned(t), course[t] \notin Lenient
               PROVE  Course[course[t]].gives \subseteq held[t]
      BY DEF ReturnedIsComplete
  <2> QED
    BY EndsAt DEF AccountedFor, FlowFits, Accords, Returned
<1> QED
  BY <1>1, Flows, PTL

\* No thread that has ended holds a lock: the finally clauses of RHEVMHelper.py
\* and TinMan.py release it on every way out.
THEOREM TableFreesLocks ==
  ASSUME \A c \in Names : AccountedFor(c) PROVE Spec => []LocksFreed
<1>1. IInv => LocksFreed
  <2> SUFFICES ASSUME IInv, NEW t \in Threads, Ended(t) PROVE held[t] \cap Locks = {}
      BY DEF LocksFreed
  <2> QED
    BY EndsAt DEF AccountedFor, FlowFits, Accords, Returned, Raised
<1> QED
  BY <1>1, Flows, PTL
-----------------------------------------------------------------------------
(* What a thread is about to do, and that there is always a thread that can. *)

\* The steps that take something away are those of the kinds "drop" and "lose".
LEMMA TakesOf ==
  ASSUME NEW s
  PROVE  /\ s.do \in {"drop", "lose"} => Takes(s) = {s.what}
         /\ s.do \notin {"drop", "lose"} => Takes(s) = {}
<1> QED
  BY DEF Takes

\* A thread loses by its own step at most what the step takes away.
LEMMA ActsLose ==
  ASSUME NEW t \in Threads, IInv, Acts(t)
  PROVE  /\ Running(t) /\ course' = course
         /\ held[t] \ Takes(Now(t)) \subseteq held'[t]
         /\ \A u \in Threads \ {t} : held'[u] = held[u]
<1>1. Running(t)
  BY DEF Acts, Succeeds, Gains, Gives, Acquires, Turns, Raises, AnswerLost, DropFails,
         Looks, GivesUp, At
<1>2. DOMAIN held = Threads
  BY DEF IInv, TypeOK
<1>3. CASE Looks(t)
  BY <1>1, <1>3 DEF Looks
<1>4. CASE Gives(t)
  <2>1. Goes(t, at[t] + 1, held[t] \ {Now(t).what}) /\ Takes(Now(t)) = {Now(t).what}
    BY <1>4 DEF Gives, At, Takes
  <2> QED
    BY <1>1, <1>2, <2>1 DEF Goes
<1>5. CASE Acts(t) /\ ~ Looks(t) /\ ~ Gives(t)
  <2>1. \E place, things : Goes(t, place, things) /\ held[t] \subseteq things
    BY <1>5 DEF Acts, Succeeds, Gains, Acquires, Turns, Raises, AnswerLost, DropFails, GivesUp
  <2> QED
    BY <1>1, <1>2, <2>1 DEF Goes
<1> QED
  BY <1>3, <1>4, <1>5

\* The inductive invariant of DataKept needs no more than Accords: where the one
\* file goes the other is sure to be there.
THEOREM TableKeepsData ==
  ASSUME \A c \in Names : AccountedFor(c) PROVE Spec => []DataKept
<1>1. Init => DataKept
  BY StartsAssumption DEF Init, DataKept, Data
<1>2. IInv /\ DataKept /\ [Next]_vars => DataKept'
  <2> SUFFICES ASSUME IInv, DataKept, [Next]_vars, NEW u \in Threads,
                      "body" \in Course[course'[u]].has
               PROVE  Data \cap held'[u] # {}
      BY DEF DataKept
  <2>1. CASE UNCHANGED vars
    BY <2>1 DEF vars, DataKept
  <2>2. CASE Stop
    BY <2>1, <2>2 DEF Stop
  <2>3. ASSUME NEW t \in Threads, Acts(t) PROVE Data \cap held'[u] # {}
    <3>1. /\ Running(t) /\ course' = course /\ held[t] \ Takes(Now(t)) \subseteq held'[t]
          /\ t # u => held'[u] = held[u]
      BY <2>3, ActsLose
    <3>2. CASE t # u
      BY <3>1, <3>2 DEF DataKept
    <3>3. CASE t = u
      <4> DEFINE c == course[t]
      <4>1. c \in Names /\ KeepsData(c, Sure[c]) /\ at[t] \in Begin .. End(c) - 1 /\ Accords(t)
        BY <3>1, <3>3 DEF AccountedFor, FlowFits, IInv, TypeOK, Running
      <4>2. CASE Takes(Now(t)) \cap Data = {}
        BY <3>1, <3>3, <4>2 DEF DataKept
      <4>3. CASE Takes(Now(t)) \cap Data # {}
        <5>1. (Data \ Takes(Now(t))) \cap Sure[c][at[t]] # {}
          BY <4>1, <4>3 DEF KeepsData, Now
        <5> QED
          BY <3>1, <3>3, <4>1, <5>1 DEF Accords
      <4> QED
        BY <4>2, <4>3
    <3> QED
      BY <3>2, <3>3
  <2>4. ASSUME NEW t \in Threads, Abort(t) PROVE Data \cap held'[u] # {}
    <3>1. /\ course' = course /\ course[u] \in Names
          /\ held'[t] = held[t] \ Course[course[t]].aborts
          /\ t # u => held'[u] = held[u]
      BY <2>4 DEF Abort, IInv, TypeOK
    <3>2. Course[course[u]].aborts \cap Data = {}
      BY <3>1 DEF AccountedFor, FlowFits, KeepsData
    <3> QED
      BY <3>1, <3>2 DEF DataKept
  <2> QED
    BY <2>1, <2>2, <2>3, <2>4 DEF Next
<1> QED
  BY <1>1, <1>2, Flows, PTL DEF Spec

\* How far a thread is: it has ended, or it is further on in its course, or in
\* the same wait and has looked once more.  As a course is as long as it is and a
\* wait looks less than Limit times, it can only so often be further on.
Ahead(t) ==
  \/ Ended(t)'
  \/ at'[t] > at[t]
  \/ at'[t] = at[t] /\ tries'[t] > tries[t]

Onwards ==
  \A t \in Threads : /\ Acts(t) => Ahead(t)
                     /\ Ahead(t) \/ UNCHANGED <<course[t], at[t], tries[t]>>

\* A step leads on.
LEMMA ActsLead ==
  ASSUME NEW t \in Threads, IInv, Acts(t)
  PROVE  /\ Ahead(t) /\ course' = course
         /\ \A u \in Threads \ {t} : at'[u] = at[u] /\ tries'[u] = tries[u]
<1> DEFINE c == course[t]
           p == at[t]
           s == Now(t)
<1>1. Running(t) /\ DOMAIN at = Threads /\ DOMAIN tries = Threads /\ tries[t] \in Nat
  BY LimitAssumption
  DEF Acts, Succeeds, Gains, Gives, Acquires, Turns, Raises, AnswerLost, DropFails,
      Looks, GivesUp, At, IInv, TypeOK
<1>2. /\ p \in Nat /\ s = StepOf(c, p)
      /\ \A q \in Onward(c, p) \cup OnRaise(c, p) : q = Failed \/ q > p
  BY <1>1, AtPlace
<1>3. CASE Looks(t)
  BY <1>1, <1>3 DEF Looks, Ahead
<1>4. CASE ~ Looks(t)
  <2> DEFINE Somewhere == \E q \in Onward(c, p) \cup OnRaise(c, p) : \E things : Goes(t, q, things)
  <2>1. ASSUME Succeeds(t) \/ Gains(t) \/ Gives(t) \/ Acquires(t) PROVE Somewhere
    <3>1. p + 1 \in Onward(c, p)
      BY <1>2, <2>1 DEF Succeeds, Gains, Gives, Acquires, At, Onward
    <3>2. \E things : Goes(t, p + 1, things)
      BY <2>1 DEF Succeeds, Gains, Gives, Acquires
    <3> QED
      BY <3>1, <3>2
  <2>2. ASSUME Turns(t) PROVE Somewhere
    BY <2>2 DEF Turns
  <2>3. ASSUME Raises(t) \/ AnswerLost(t) \/ DropFails(t) PROVE Somewhere
    <3>1. Handler(c, p) \in OnRaise(c, p)
      BY <1>2, <2>3 DEF Raises, AnswerLost, DropFails, At, OnRaise
    <3>2. \E things : Goes(t, Handler(c, p), things)
      BY <2>3 DEF Raises, AnswerLost, DropFails
    <3> QED
      BY <3>1, <3>2
  <2>4. ASSUME GivesUp(t) PROVE Somewhere
    <3>1. Handler(c, p) \in OnRaise(c, p) /\ p + 1 \in Onward(c, p)
      BY <1>2, <2>4 DEF GivesUp, At, OnRaise, Onward
    <3>2. \E q \in {Handler(c, p), p + 1} : \E things : Goes(t, q, things)
      BY <2>4 DEF GivesUp
    <3> QED
      BY <3>1, <3>2
  <2>5. PICK q \in Onward(c, p) \cup OnRaise(c, p) : \E things : Goes(t, q, things)
    BY <1>4, <2>1, <2>2, <2>3, <2>4 DEF Acts
  <2>6. q = Failed \/ q > p
    BY <1>2
  <2>7. /\ at'[t] = q /\ course' = course
        /\ \A u \in Threads \ {t} : at'[u] = at[u] /\ tries'[u] = tries[u]
    BY <1>1, <2>5 DEF Goes
  <2> QED
    BY <2>6, <2>7 DEF Ahead, Ended, Running, Begin, Failed
<1> QED
  BY <1>3, <1>4

\* Every step of a thread brings it nearer to the end of its course, and no step
\* of another thread, nor an abort, sends it back: no plugin's method can go round
\* for ever but in a poll without limit, which is what CourseEnds rests on.
THEOREM NoWayBack == Spec => [][Onwards]_vars
<1>1. IInv /\ [Next]_vars => [Onwards]_vars
  <2> SUFFICES ASSUME IInv, Next, NEW u \in Threads, ~ UNCHANGED vars
               PROVE  /\ Acts(u) => Ahead(u)
                      /\ Ahead(u) \/ UNCHANGED <<course[u], at[u], tries[u]>>
      BY DEF Onwards
  <2>1. Acts(u) => Ahead(u)
    BY ActsLead
  <2>2. ASSUME NEW t \in Threads, Acts(t)
        PROVE  Ahead(u) \/ UNCHANGED <<course[u], at[u], tries[u]>>
    BY <2>2, ActsLead
  <2>3. ASSUME NEW t \in Threads, Abort(t) PROVE UNCHANGED <<course[u], at[u], tries[u]>>
    BY <2>3 DEF Abort
  <2>4. ~ Stop
    BY DEF Stop
  <2> QED
    BY <2>1, <2>2, <2>3, <2>4 DEF Next
<1> QED
  BY <1>1, Flows, PTL DEF Spec

\* A thread has a step to take: it is running and does not wait for a lock.
MayAct(t) == Running(t) /\ (At(t, {"lock"}) => \A u \in Threads : Now(t).what \notin held[u])

NobodyStuck == (\E t \in Threads : Running(t)) => \E t \in Threads : MayAct(t)

\* As long as a thread is running there is one that has a step to take: whoever
\* holds the lock that another waits for is running and waits for none, so that
\* neither the global lock of the RHEVM API nor the locks on install media can
\* stop all of them.
THEOREM TableGoesOn ==
  ASSUME \A c \in Names : AccountedFor(c) PROVE Spec => []NobodyStuck
<1>1. IInv => NobodyStuck
  <2> SUFFICES ASSUME IInv, NEW t \in Threads, Running(t)
               PROVE  \E u \in Threads : MayAct(u)
      BY DEF NobodyStuck
  <2>1. CASE MayAct(t)
    BY <2>1
  <2>2. CASE ~ MayAct(t)
    <3>1. PICK u \in Threads : At(t, {"lock"}) /\ Now(t).what \in held[u]
      BY <2>2 DEF MayAct
    <3>2. Now(t).what \in Locks
      <4>1. course[t] \in Names /\ at[t] \in Begin .. End(course[t]) - 1
        BY DEF IInv, TypeOK, Running
      <4> QED
        BY <3>1, <4>1, ThingsAssumption DEF At, Now
    <3>3. /\ course[u] \in Names /\ Accords(u) /\ slipped[u] \cap Locks = {}
          /\ Ended(u) <=> Returned(u) \/ Raised(u)
      BY EndsAt
    <3>4. Known[course[u]][at[u]] \cap Locks # {}
      BY <3>1, <3>2, <3>3 DEF Accords
    <3>5. Running(u)
      BY <3>3, <3>4 DEF AccountedFor, FlowFits, Ended, Returned, Raised
    <3>6. ~ At(u, {"lock"})
      BY <3>3, <3>4, <3>5 DEF AccountedFor, FlowFits, OneLock, At, Running, Now
    <3> QED
      BY <3>5, <3>6 DEF MayAct
  <2> QED
    BY <2>1, <2>2
<1> QED
  BY <1>1, Flows, PTL
=============================================================================
