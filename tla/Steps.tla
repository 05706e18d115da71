------------------------------- MODULE Steps -------------------------------
(***************************************************************************)
(* A vocabulary for the control of a plugin's method: what it calls in     *)
(* what order, what it makes and removes, where it waits, and where an     *)
(* exception takes it.  A method is a sequence of steps; with, try,        *)
(* except, finally and if are operators that put sequences together, and   *)
(* are resolved to jumps the way the compiler of Python does it: a finally *)
(* clause is there twice, once for the way out and once for an exception.  *)
(***************************************************************************)
EXTENDS Naturals, Sequences

(***************************************************************************)
(* A step's "to" is how far on an exception takes the method, or how far a *)
(* jump goes; 0 is an exception that leaves the method.  All jumps go      *)
(* forward: the loops of the methods are the waits.                        *)
(***************************************************************************)
Step(do, what) == <<[do |-> do, what |-> what, to |-> 0]>>

Call(what) == Step("call", what)         \* calls, which may raise
Make(what) == Step("make", what)         \* a call that brings something into being
Drop(what) == Step("drop", what)         \* a call that does away with it
Set(what) == Step("set", what)           \* an assignment, which does not raise
Lose(what) == Step("lose", what)         \* it is gone, and nothing raises
Lock(what) == Step("lock", what)
Unlock(what) == Step("lose", what)
Wait(what) == Step("wait", what)         \* looks a number of times, then raises
Patience(what) == Step("patience", what) \* looks a number of times, then goes on
Poll(what) == Step("poll", what)         \* looks without limit
Raise == Step("raise", "")
Jump(by) == <<[do |-> "jump", what |-> "", to |-> by]>>
Branch(by) == <<[do |-> "branch", what |-> "", to |-> by]>>

Raising == {"call", "make", "drop", "wait", "patience", "poll", "raise"}

\* An exception that would leave the body goes to the place "by" after its end.
Caught(body, by) ==
  [i \in DOMAIN body |->
     IF body[i].do \in Raising /\ body[i].to = 0
     THEN [body[i] EXCEPT !.to = Len(body) - i + by]
     ELSE body[i]]

\* try: body except: pass
Ignore(body) == Caught(body, 1)

\* try: body except: handler
Except(body, handler) == Caught(body, 2) \o Jump(Len(handler) + 1) \o handler

\* try: body except: cleanup; raise
OnFailure(body, cleanup) == Except(body, cleanup \o Raise)

\* try: body finally: cleanup
Finally(body, cleanup) ==
  Caught(body, Len(cleanup) + 2) \o cleanup \o Jump(Len(cleanup) + 2) \o cleanup \o Raise

\* if ...: steps
Maybe(steps) == Branch(Len(steps) + 1) \o steps

\* if ...: one else: other
Either(one, other) == Branch(Len(one) + 2) \o one \o Jump(Len(other) + 1) \o other
=============================================================================
