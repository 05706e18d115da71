------------------------- MODULE ReservationManager -------------------------
(***************************************************************************)
(* imgfac/ReservationManager.py: named locks and listen ports for the      *)
(* threads of a process.  It is meant to be a singleton, but nothing       *)
(* guards its construction: a thread that finds no instance builds one,    *)
(* puts it into the class, and takes what is in the class by then.  An     *)
(* instance is known here by the thread that built it.                     *)
(*                                                                         *)
(* The module has the manager's state and what each call does to it;       *)
(* SharedArtifacts has the threads that make the calls.                    *)
(***************************************************************************)
EXTENDS Integers, Sequences

CONSTANTS Processes, Threads,
          Process,              \* the process each thread belongs to
          Pid,                  \* the process ID of each process
          Names,                \* the names of locks
          MIN_PORT, MAX_PORT,
          NoThread

ASSUME ProcessAssumption == Process \in [Threads -> Processes]
ASSUME PidAssumption == Pid \in [Processes -> Nat]
ASSUME PortAssumption == MIN_PORT \in Nat /\ MAX_PORT \in Nat /\ MIN_PORT < MAX_PORT
ASSUME NoThreadAssumption ==
  NoThread \notin Threads /\ {"absent", "free"} \cap Threads = {}

VARIABLES
  instance,     \* the class attribute, in each process
  manager,      \* the instance each thread has, or is about to put there
  named_locks,  \* the semaphore of each name, in each instance
  listen_port,  \* the port last handed out by each instance
  ports         \* history: the ports each instance handed out, in order

managerVars == <<instance, manager, named_locks, listen_port, ports>>

ManagerTypeOK ==
  /\ instance \in [Processes -> Threads \cup {NoThread}]
  /\ manager \in [Threads -> Threads \cup {NoThread}]
  /\ named_locks \in [Threads -> [Names -> Threads \cup {"absent", "free"}]]
  /\ listen_port \in [Threads -> MIN_PORT .. MAX_PORT]
  /\ ports \in [Threads -> Seq(MIN_PORT .. MAX_PORT)]

\* The first port depends on the process ID.
FirstPort(p) == MIN_PORT + (Pid[p] % (MAX_PORT - MIN_PORT))

ManagerInit ==
  /\ instance = [p \in Processes |-> NoThread]
  /\ manager = [t \in Threads |-> NoThread]
  /\ named_locks = [m \in Threads |-> [n \in Names |-> "absent"]]
  /\ listen_port = [m \in Threads |-> FirstPort(Process[m])]
  /\ ports = [m \in Threads |-> <<>>]

-----------------------------------------------------------------------------
(* ReservationManager().                                                   *)

FindsNone(t) == instance[Process[t]] = NoThread

PutInstance(t) ==
  /\ instance' = [instance EXCEPT ![Process[t]] = t]
  /\ UNCHANGED <<manager, named_locks, listen_port, ports>>

TakeInstance(t) ==
  /\ manager' = [manager EXCEPT ![t] = instance[Process[t]]]
  /\ UNCHANGED <<instance, named_locks, listen_port, ports>>

-----------------------------------------------------------------------------
(* get_next_listen_port, which a lock makes one step.                      *)

NextPort(port) == IF port + 1 > MAX_PORT THEN MIN_PORT ELSE port + 1

GetNextListenPort(t) ==
  LET m == manager[t]  port == NextPort(listen_port[m]) IN
  /\ listen_port' = [listen_port EXCEPT ![m] = port]
  /\ ports' = [ports EXCEPT ![m] = Append(@, port)]
  /\ UNCHANGED <<instance, manager, named_locks>>

-----------------------------------------------------------------------------
(* get_named_lock and release_named_lock.                                  *)

\* A faulty variant of Semaphore: the name is not looked up first.
NewSemaphore(m, n) == "free"

\* What the critical section leaves under the name.
Semaphore(m, n) == IF named_locks[m][n] = "absent" THEN "free" ELSE named_locks[m][n]

\* Whoever else asks meanwhile leaves the same: making sure that there is a
\* semaphore and waiting for it is one step.
GetNamedLock(t, n) ==
  LET m == manager[t] IN
  /\ Semaphore(m, n) = "free"
  /\ named_locks' = [named_locks EXCEPT ![m][n] = t]
  /\ UNCHANGED <<instance, manager, listen_port, ports>>

ReleaseNamedLock(t, n) ==
  LET m == manager[t] IN
  /\ named_locks' = [named_locks EXCEPT ![m][n] = "free"]
  /\ UNCHANGED <<instance, manager, listen_port, ports>>
=============================================================================
