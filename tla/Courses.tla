------------------------------ MODULE Courses ------------------------------
(***************************************************************************)
(* Builder threads that run methods of plugins.  What a method does is a   *)
(* course: its steps (module Steps) and what it answers for:               *)
(*   has    what there is when it is called,                               *)
(*   gives  what there is when it returns,                                 *)
(*   keeps  what there may also be when it returns,                        *)
(*   leaks  what the code leaves behind when it raises,                    *)
(*   aborts what abort, called by another thread, does away with.          *)
(* Modules CloudCourses and OsCourses translate the plugins' methods.      *)
(*                                                                         *)
(* The clouds, the guests and the tools that the methods call are          *)
(* external: a call answers or raises, and a call that makes or removes    *)
(* something may raise though it was done.                                 *)
(***************************************************************************)
EXTENDS Naturals, Sequences

CONSTANTS
  Threads,
  Course,   \* from the names of the courses to the courses
  Starts,   \* which courses the threads may run side by side
  Lenient,  \* courses that may return short of what they give
  Locks,    \* the things that are locks
  Limit,    \* how often a wait looks
  Known,    \* from a course and a place in it to what there may be there
  Sure      \* from a course and a place in it to what there must be there

VARIABLES
  course,   \* what each thread runs
  at,       \* its place: 0 when it has raised, past the end when it has returned
  tries,    \* how often the wait that it is in has looked
  held,     \* what there is that it made, and the locks that it holds
  slipped,  \* history: things whose making or removal raised though they stayed
  aborted   \* history: whether the course was aborted

vars == <<course, at, tries, held, slipped, aborted>>

Names == DOMAIN Course
Begin == 1
Failed == 0
End(c) == Len(Course[c].steps) + 1
Places(c) == Failed .. End(c)
StepOf(c, p) == Course[c].steps[p]

Running(t) == at[t] \in Begin .. End(course[t]) - 1
Now(t) == StepOf(course[t], at[t])
Handler(c, p) == IF StepOf(c, p).to = 0 THEN Failed ELSE p + StepOf(c, p).to
Returned(t) == at[t] = End(course[t])
Raised(t) == at[t] = Failed

-----------------------------------------------------------------------------
(* The courses are well formed: where a step leads is a place, and what    *)
(* Known and Sure say of a place follows from what they say of the places  *)
(* before.  TLC evaluates these assumptions for the plugins' courses.      *)

ASSUME LimitAssumption == Limit \in Nat \ {0}
ASSUME StartsAssumption == Starts \subseteq [Threads -> Names]

Onward(c, p) ==
  LET s == StepOf(c, p) IN
  CASE s.do = "raise" -> {}
    [] s.do = "jump" -> {p + s.to}
    [] s.do = "branch" -> {p + 1, p + s.to}
    [] OTHER -> {p + 1}

OnRaise(c, p) ==
  IF StepOf(c, p).do \in {"call", "make", "drop", "wait", "patience", "poll", "raise"}
  THEN {Handler(c, p)} ELSE {}

Adds(s) == IF s.do \in {"make", "set", "lock"} THEN {s.what} ELSE {}
Takes(s) == IF s.do \in {"drop", "lose"} THEN {s.what} ELSE {}

\* A step leads onward, and an exception onward or out of the course.
ASSUME PlacesAssumption ==
  \A c \in Names :
    /\ End(c) \in Nat \ {0}
    /\ \A p \in Begin .. End(c) - 1 :
         /\ Onward(c, p) \subseteq p + 1 .. End(c)
         /\ OnRaise(c, p) \subseteq (p + 1 .. End(c)) \cup {Failed}

\* Locks are taken by steps of their own, and aborts touches none of what a
\* course gives.
ASSUME ThingsAssumption ==
  \A c \in Names :
    /\ (Course[c].has \cup Course[c].aborts) \cap Locks = {}
    /\ Course[c].aborts \cap Course[c].gives = {}
    /\ \A p \in Begin .. End(c) - 1 :
         LET s == StepOf(c, p) IN
         /\ s.do \in {"make", "set", "drop"} => s.what \notin Locks
         /\ s.do = "lock" => s.what \in Locks

ASSUME KnownAssumption ==
  \A c \in Names :
    LET known == Known[c] IN
    /\ Course[c].has \subseteq known[Begin]
    /\ \A p \in Begin .. End(c) - 1 :
         LET s == StepOf(c, p) IN
         /\ \A q \in Onward(c, p) : (known[p] \cup Adds(s)) \ Takes(s) \subseteq known[q]
         /\ \A q \in OnRaise(c, p) : known[p] \ Takes(s) \subseteq known[q]

ASSUME SureAssumption ==
  \A c \in Names :
    LET sure == Sure[c] IN
    /\ sure[Begin] \subseteq Course[c].has
    /\ \A p \in Begin .. End(c) - 1 :
         LET s == StepOf(c, p) IN
         /\ sure[p] \cap Course[c].aborts = {}
         /\ \A q \in Onward(c, p) : sure[q] \subseteq (sure[p] \cup Adds(s)) \ Takes(s)
         /\ \A q \in OnRaise(c, p) : sure[q] \subseteq sure[p] \ Takes(s)

-----------------------------------------------------------------------------
Init ==
  /\ course \in Starts
  /\ at = [t \in Threads |-> Begin]
  /\ tries = [t \in Threads |-> 0]
  /\ held = [t \in Threads |-> Course[course[t]].has]
  /\ slipped = [t \in Threads |-> {}]
  /\ aborted = [t \in Threads |-> FALSE]

\* The thread goes on at a place, holding what it then holds.
Goes(t, place, things) ==
  /\ at' = [at EXCEPT ![t] = place]
  /\ tries' = [tries EXCEPT ![t] = 0]
  /\ held' = [held EXCEPT ![t] = things]
  /\ UNCHANGED <<course, aborted>>

At(t, kinds) == Running(t) /\ Now(t).do \in kinds

Fine == UNCHANGED slipped
Slips(t, things) == slipped' = [slipped EXCEPT ![t] = @ \cup things]

\* The call, or the look of a wait, gives what was hoped for.
Succeeds(t) ==
  /\ At(t, {"call", "wait", "patience", "poll"})
  /\ Goes(t, at[t] + 1, held[t]) /\ Fine

Gains(t) ==
  /\ At(t, {"make", "set"})
  /\ Goes(t, at[t] + 1, held[t] \cup {Now(t).what}) /\ Fine

Gives(t) ==
  /\ At(t, {"drop", "lose"})
  /\ Goes(t, at[t] + 1, held[t] \ {Now(t).what}) /\ Fine

Acquires(t) ==
  /\ At(t, {"lock"})
  /\ \A u \in Threads : Now(t).what \notin held[u]
  /\ Goes(t, at[t] + 1, held[t] \cup {Now(t).what}) /\ Fine

Turns(t) ==
  /\ At(t, {"branch", "jump"})
  /\ \E place \in Onward(course[t], at[t]) : Goes(t, place, held[t])
  /\ Fine

\* Nothing was done.
Raises(t) ==
  /\ At(t, {"call", "make", "wait", "patience", "poll", "raise"})
  /\ Goes(t, Handler(course[t], at[t]), held[t]) /\ Fine

\* The thing was made, but the answer was lost or what followed in the call
\* raised.
AnswerLost(t) ==
  /\ At(t, {"make"})
  /\ Goes(t, Handler(course[t], at[t]), held[t] \cup {Now(t).what})
  /\ Slips(t, {Now(t).what})

\* The removal raises, whether or not there was something to remove.
DropFails(t) ==
  /\ At(t, {"drop"})
  /\ Goes(t, Handler(course[t], at[t]), held[t])
  /\ Slips(t, {Now(t).what} \cap held[t])

Looks(t) ==
  /\ At(t, {"wait", "patience"}) /\ tries[t] + 1 < Limit
  /\ tries' = [tries EXCEPT ![t] = @ + 1]
  /\ UNCHANGED <<course, at, held, slipped, aborted>>

GivesUp(t) ==
  /\ At(t, {"wait", "patience"}) /\ tries[t] + 1 = Limit
  /\ Goes(t, IF Now(t).do = "wait" THEN Handler(course[t], at[t]) ELSE at[t] + 1, held[t])
  /\ Fine

Acts(t) ==
  \/ Succeeds(t) \/ Gains(t) \/ Gives(t) \/ Acquires(t) \/ Turns(t) \/ Raises(t)
  \/ AnswerLost(t) \/ DropFails(t) \/ Looks(t) \/ GivesUp(t)

\* Another thread calls the plugin's abort, once.
Abort(t) ==
  /\ ~ aborted[t] /\ Running(t) /\ Course[course[t]].aborts # {}
  /\ aborted' = [aborted EXCEPT ![t] = TRUE]
  /\ held' = [held EXCEPT ![t] = @ \ Course[course[t]].aborts]
  /\ UNCHANGED <<course, at, tries, slipped>>

Stop == (\A t \in Threads : ~ Running(t)) /\ UNCHANGED vars

Next == Stop \/ \E t \in Threads : Acts(t) \/ Abort(t)

\* A thread is scheduled; only a poll without limit may go on for ever.
Fairness == \A t \in Threads : WF_vars(Acts(t) /\ ~ At(t, {"poll"}))

Spec == Init /\ [][Next]_vars /\ Fairness

-----------------------------------------------------------------------------
Ended(t) == ~ Running(t)

\* The variables have their types, and locks are never lost.
TypeOK ==
  /\ course \in [Threads -> Names]
  /\ DOMAIN at = Threads /\ DOMAIN tries = Threads /\ DOMAIN held = Threads
  /\ DOMAIN slipped = Threads /\ aborted \in [Threads -> BOOLEAN]
  /\ \A t \in Threads :
       /\ at[t] \in Places(course[t])
       /\ tries[t] \in 0 .. Limit - 1
       /\ slipped[t] \cap Locks = {}

\* The data file, and the file beside it that is to take its place.
Data == {"body", "tmp"}

\* Where the one is taken away, the other is sure to be there.
KeepsData(c, sure) ==
  /\ Course[c].aborts \cap Data = {}
  /\ \A p \in Begin .. End(c) - 1 :
       LET taken == Takes(StepOf(c, p)) IN
       taken \cap Data # {} => (Data \ taken) \cap sure[p] # {}

\* A lock is taken only where no lock may be held.
OneLock(c, known) ==
  \A p \in Begin .. End(c) - 1 : StepOf(c, p).do = "lock" => known[p] \cap Locks = {}

\* What there may be when a course ends is accounted for, and what there must be
\* is what it gives: read off the flow through its steps, without running it.
FlowFits(c, this, known, sure) ==
  /\ known[End(c)] \subseteq this.gives \cup this.keeps
  /\ known[Failed] \subseteq this.leaks
  /\ (known[End(c)] \cup known[Failed]) \cap Locks = {}
  /\ c \notin Lenient => this.gives \subseteq sure[End(c)]
  /\ "body" \in this.has => KeepsData(c, sure)
  /\ OneLock(c, known)

AccountedFor(c) == FlowFits(c, Course[c], Known[c], Sure[c])

\* The hypothesis of the theorems about a table, of the courses that run: every
\* way through the methods of the plugins, the exceptional ones too, ends with
\* what the method answers for.
Accounted == \A t \in Threads : AccountedFor(course[t])

\* A method that has ended leaves nothing behind but what it gives or is known
\* to leave, and what could not be removed: no exception, at whatever step, and
\* no failure to remove one thing makes it forget another (the finally clauses
\* of the plugins; where they are missing, "leaks" says what is lost).
Tidy ==
  \A t \in Threads :
    LET c == Course[course[t]] IN
    /\ Returned(t) => held[t] \subseteq c.gives \cup c.keeps \cup slipped[t]
    /\ Raised(t) => held[t] \subseteq c.leaks \cup slipped[t]

\* By convention "the plugin can never dictate completion and must indicate
\* failure via an exception" (Builder.py:136-137): a method that returns has made and recorded
\* all that it was called for, but for the two methods that swallow what goes
\* wrong.
ReturnedIsComplete ==
  \A t \in Threads :
    Returned(t) /\ course[t] \notin Lenient => Course[course[t]].gives \subseteq held[t]

\* Whatever raises, and where, a thread that has ended holds no lock: neither
\* the global lock of the RHEVM API nor a lock on install media
\* (RHEVMHelper.py:85-95, TinMan.py:427-431).
LocksFreed == \A t \in Threads : Ended(t) => held[t] \cap Locks = {}

\* A data file that was there when a method was called is there at every moment,
\* or the file beside it that is to take its place: the unlink comes after the
\* conversion, whatever fails.
DataKept ==
  \A t \in Threads :
    "body" \in Course[course[t]].has => Data \cap held[t] # {}

\* A method whose waits are all bounded ends, though others hold the locks that
\* it needs.
Bounded == {c \in Names : \A p \in Begin .. End(c) - 1 : StepOf(c, p).do # "poll"}
CourseEnds == \A t \in Threads : (\A u \in Threads : course[u] \in Bounded) ~> Ended(t)
=============================================================================
