----------------------------- MODULE MCCourses -----------------------------
(***************************************************************************)
(* Every course by itself, and beside it any course that takes the same    *)
(* lock.  Known and Sure are computed by going through the places of each  *)
(* course once, from the first to the last: all jumps go forward.          *)
(***************************************************************************)
EXTENDS OsCourses, Courses
LOCAL INSTANCE TLC

\* Runs nothing beside the other thread.
Idle == Method

Table == CloudTable @@ OsTable @@ [idle |-> Idle]

ThreadSet == {"one", "two"}
LockSet == {"api", "media"}

\* The courses that take a lock.
Taking(lock) ==
  {c \in DOMAIN Table : \E i \in DOMAIN Table[c].steps : Table[c].steps[i] = Lock(lock)[1]}

Side ==
  {[one |-> c, two |-> "idle"] : c \in DOMAIN Table}
  \cup UNION {[ThreadSet -> Taking(lock)] : lock \in LockSet}

Things(c) == Course[c].has \cup {Course[c].steps[i].what : i \in DOMAIN Course[c].steps}
Steps(c) == Begin .. End(c) - 1

Pairs(places, things) == {<<q, x>> : q \in places, x \in things}
There(pairs, q) == {pair[2] : pair \in {other \in pairs : other[1] = q}}

\* The pairs of a place and a thing that the ways to the place may bring: from the
\* pairs of the first place, a step adds "on" and takes "off" on the way onward,
\* and does so with "onRaise" and "offRaise" when it raises.
Flow(c, first, on, off, onRaise, offRaise) ==
  LET upTo[p \in 0 .. End(c) - 1] ==
        IF p = 0 THEN Pairs({Begin}, first)
        ELSE LET pairs == upTo[p - 1]
                 here == There(pairs, p)
             IN  pairs \cup Pairs(Onward(c, p), (here \ off[p]) \cup on[p])
                       \cup Pairs(OnRaise(c, p), (here \ offRaise[p]) \cup onRaise[p])
  IN  upTo[End(c) - 1]

\* What may be there.  (Joined to the empty function, a function is computed once
\* and for all.)
KnownAt ==
  [c \in Names |->
     LET adds == [p \in Steps(c) |-> Adds(StepOf(c, p))]
         takes == [p \in Steps(c) |-> Takes(StepOf(c, p))]
         none == [p \in Steps(c) |-> {}]
         pairs == Flow(c, Course[c].has, adds, takes, none, takes)
     IN  [q \in Places(c) |-> There(pairs, q)] @@ << >>] @@ << >>

\* What may be missing, and so what must be there.
SureAt ==
  [c \in Names |->
     LET aborts == Course[c].aborts
         adds == [p \in Steps(c) |-> Adds(StepOf(c, p))]
         gone == [p \in Steps(c) |-> Takes(StepOf(c, p)) \cup aborts]
         none == [p \in Steps(c) |-> {}]
         pairs == Flow(c, (Things(c) \ Course[c].has) \cup aborts, gone, adds, gone, none)
     IN  [q \in Places(c) |-> (Things(c) \ aborts) \ There(pairs, q)] @@ << >>]
  @@ << >>

\* TLC computes a definition once, but for every use what a configuration puts in
\* the place of a constant.
KnownTable == KnownAt
SureTable == SureAt

\* What each wait's number of looks is does not matter beyond the second.
Looking == 2

\* Rackspace's snapshot swallows what goes wrong, and RHEVM's import does
\* nothing when the template is not found.
Swallowing == {"rackspace_snapshot", "rhevm_push"}
=============================================================================
