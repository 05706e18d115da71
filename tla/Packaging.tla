----------------------------- MODULE Packaging -----------------------------
(***************************************************************************)
(* The OVA plugin packages a disk (OVA.generate_ova and                    *)
(* OVFPackage.make_ova_package): the files are staged in a directory of    *)
(* the package's own, and put into an archive under the names they have    *)
(* from there, for which the process changes its working directory.  There *)
(* is one working directory for all threads, and nothing that keeps two    *)
(* packagings apart.                                                       *)
(***************************************************************************)
EXTENDS Packages, FiniteSets

CONSTANTS
  Threads,      \* each packages one image
  Asks,         \* the <<target, format>> that generate_ova may be called with
  Home,         \* the directory the process was started in
  Fails         \* whether writing may fail

ASSUME HomeAssumption == Home \notin Threads

VARIABLES
  asked,        \* thread -> what it was called with
  at,           \* where each thread is in its packaging
  cwd,          \* the working directory: Home, or the package of a thread
  cameFrom,     \* what getcwd said to each thread
  files,        \* the files in each package's directory
  standing,     \* the threads whose package's directory is there
  todo,         \* what each thread has still to put in its archive
  archive,      \* the <<directory, file>> that each thread put in its archive
  lead,         \* the file that is first in it
  overlapped    \* the threads that were between getcwd and the last chdir at
                \* the same time as another

vars == <<asked, at, cwd, cameFrom, files, standing, todo, archive, lead, overlapped>>

Format(t) == Class(asked[t][1], asked[t][2])
Makes(t) == Staged(Format(t), t)
Whole(t) == {Makes(t)[i] : i \in DOMAIN Makes(t)}

Ova == <<"ova">>
OvaTmp == <<"ova.tmp.gz">>

\* A directory that can be looked up.
There(d) == d = Home \/ d \in standing

\* Between getcwd and the last chdir.
Inside(t) == at[t] \in {"named", "entered", "adding"}

Init ==
  /\ asked \in [Threads -> Asks]
  /\ at = [t \in Threads |-> "called"]
  /\ cwd = Home
  /\ cameFrom = [t \in Threads |-> Home]
  /\ files = [t \in Threads |-> {}]
  /\ standing = {}
  /\ todo = [t \in Threads |-> {}]
  /\ archive = [t \in Threads |-> {}]
  /\ lead = [t \in Threads |-> Nothing]
  /\ overlapped = {}

Goes(t, place) == at' = [at EXCEPT ![t] = place]

-----------------------------------------------------------------------------
\* The class is chosen and makes its directory, or the format is unknown.
Make(t) ==
  /\ at[t] = "called"
  /\ \/ /\ Format(t) = "raises"
        /\ Goes(t, "raised")
        /\ UNCHANGED standing
     \/ /\ Format(t) # "raises"
        /\ Goes(t, "staging")
        /\ standing' = standing \cup {t}
  /\ UNCHANGED <<asked, cwd, cameFrom, files, todo, archive, lead, overlapped>>

\* sync writes the next file.
Stage(t) ==
  /\ at[t] = "staging"
  /\ Cardinality(files[t]) < Len(Makes(t))
  /\ files' = [files EXCEPT ![t] = @ \cup {Makes(t)[Cardinality(@) + 1]}]
  /\ UNCHANGED <<asked, at, cwd, cameFrom, standing, todo, archive, lead, overlapped>>

\* The archive is created beside the files it is to hold.
OpenTar(t) ==
  /\ at[t] = "staging"
  /\ files[t] = Whole(t)
  /\ ~CannotDescribe(Format(t))
  /\ files' = [files EXCEPT ![t] = @ \cup {Ova}]
  /\ Goes(t, "opened")
  /\ UNCHANGED <<asked, cwd, cameFrom, standing, todo, archive, lead, overlapped>>

\* os.getcwd(), which raises when the directory is gone.
GetCwd(t) ==
  /\ at[t] = "opened"
  /\ \/ /\ There(cwd)
        /\ cameFrom' = [cameFrom EXCEPT ![t] = cwd]
        /\ Goes(t, "named")
        /\ overlapped' =
             LET others == {u \in Threads : Inside(u)}
             IN  IF others = {} THEN overlapped ELSE overlapped \cup others \cup {t}
     \/ /\ ~There(cwd)
        /\ Goes(t, "raised")
        /\ UNCHANGED <<cameFrom, overlapped>>
  /\ UNCHANGED <<asked, cwd, files, standing, todo, archive, lead>>

Enter(t) ==
  /\ at[t] = "named"
  /\ cwd' = t
  /\ Goes(t, "entered")
  /\ UNCHANGED <<asked, cameFrom, files, standing, todo, archive, lead, overlapped>>

\* os.walk(".") and files.remove("ova"), wherever the process is by now.
Here == IF cwd \in standing THEN files[cwd] ELSE {}
Walk(t) ==
  /\ at[t] = "entered"
  /\ \/ /\ Ova \in Here
        /\ todo' = [todo EXCEPT ![t] = Here \ {Ova}]
        /\ Goes(t, "adding")
     \/ /\ Ova \notin Here
        /\ Goes(t, "raised")
        /\ UNCHANGED todo
  /\ UNCHANGED <<asked, cwd, cameFrom, files, standing, archive, lead, overlapped>>

\* A packaging that adds the files in the order of the walk.
MayFollowAny(set) == set

\* The descriptor goes first, then the others in the order of the walk, which
\* may be any.
MayFollow(set) ==
  IF \E f \in set : IsDescriptor(f) THEN {f \in set : IsDescriptor(f)} ELSE set

\* tar.add(f), by the name that f had when the walk met it.
Add(t) ==
  /\ at[t] = "adding"
  /\ \E f \in MayFollow(todo[t]) :
       \/ /\ f \in Here
          /\ archive' = [archive EXCEPT ![t] = @ \cup {<<cwd, f>>}]
          /\ lead' = [lead EXCEPT ![t] = IF archive[t] = {} THEN f ELSE @]
          /\ todo' = [todo EXCEPT ![t] = @ \ {f}]
          /\ UNCHANGED at
       \/ /\ f \notin Here
          /\ Goes(t, "raised")
          /\ UNCHANGED <<archive, lead, todo>>
  /\ UNCHANGED <<asked, cwd, cameFrom, files, standing, overlapped>>

\* os.chdir(cwd), which raises when that directory is gone; the archive is closed.
Leave(t) ==
  /\ at[t] = "adding"
  /\ todo[t] = {}
  /\ \/ /\ There(cameFrom[t])
        /\ cwd' = cameFrom[t]
        /\ Goes(t, IF Gzipped(Format(t)) THEN "zipping" ELSE "archived")
     \/ /\ ~There(cameFrom[t])
        /\ Goes(t, "raised")
        /\ UNCHANGED cwd
  /\ UNCHANGED <<asked, cameFrom, files, standing, todo, archive, lead, overlapped>>

\* _gzip_ova writes ova.tmp.gz, unlinks ova, and gives its name to the other.
Gzip(t) ==
  /\ at[t] = "zipping"
  /\ \/ OvaTmp \notin files[t] /\ files' = [files EXCEPT ![t] = @ \cup {OvaTmp}] /\ UNCHANGED at
     \/ {Ova, OvaTmp} \subseteq files[t] /\ files' = [files EXCEPT ![t] = @ \ {Ova}] /\ UNCHANGED at
     \/ /\ OvaTmp \in files[t] /\ Ova \notin files[t]
        /\ files' = [files EXCEPT ![t] = (@ \ {OvaTmp}) \cup {Ova}]
        /\ Goes(t, "archived")
  /\ UNCHANGED <<asked, cwd, cameFrom, standing, todo, archive, lead, overlapped>>

\* The archive becomes the body of the image.
Deliver(t) ==
  /\ at[t] = "archived"
  /\ Goes(t, "delivered")
  /\ UNCHANGED <<asked, cwd, cameFrom, files, standing, todo, archive, lead, overlapped>>

\* pkg.delete(), which ignores errors.
Delete(t) ==
  /\ at[t] = "delivered"
  /\ standing' = standing \ {t}
  /\ files' = [files EXCEPT ![t] = {}]
  /\ Goes(t, "done")
  /\ UNCHANGED <<asked, cwd, cameFrom, todo, archive, lead, overlapped>>

\* A packaging that tidies up when it raises.
FailAndDelete(t) ==
  /\ Fails /\ at[t] \in {"staging", "adding", "zipping", "archived"}
  /\ Goes(t, "raised")
  /\ standing' = standing \ {t}
  /\ files' = [files EXCEPT ![t] = {}]
  /\ UNCHANGED <<asked, cwd, cameFrom, todo, archive, lead, overlapped>>

\* A file, the archive, the compression or the body cannot be written, or the
\* descriptor not be made.  There is no finally clause: the package stays, and
\* so does the process where it is.
Fail(t) ==
  /\ \/ Fails /\ at[t] \in {"staging", "adding", "zipping", "archived"}
     \/ at[t] = "staging" /\ files[t] = Whole(t) /\ CannotDescribe(Format(t))
  /\ Goes(t, "raised")
  /\ UNCHANGED <<asked, cwd, cameFrom, files, standing, todo, archive, lead, overlapped>>

Ended(t) == at[t] \in {"done", "raised"}
AllEnded == (\A t \in Threads : Ended(t)) /\ UNCHANGED vars

Next ==
  \/ \E t \in Threads :
       \/ Make(t) \/ Stage(t) \/ OpenTar(t) \/ GetCwd(t) \/ Enter(t) \/ Walk(t)
       \/ Add(t) \/ Leave(t) \/ Gzip(t) \/ Deliver(t) \/ Delete(t) \/ Fail(t)
  \/ AllEnded

Spec == Init /\ [][Next]_vars

-----------------------------------------------------------------------------
Places == {"called", "staging", "opened", "named", "entered", "adding", "zipping",
           "archived", "delivered", "done", "raised"}

TypeOK ==
  /\ asked \in [Threads -> Asks]
  /\ at \in [Threads -> Places]
  /\ cwd \in Threads \cup {Home}
  /\ cameFrom \in [Threads -> Threads \cup {Home}]
  /\ standing \subseteq Threads
  /\ overlapped \subseteq Threads

Delivered(t) == at[t] \in {"delivered", "done"}

\* An image that was packaged while no other packaging had changed the working
\* directory holds what its package had, with the descriptor first "per
\* specification" (ovfcommon.py:804).  Packagings that overlap may archive the
\* files of each other, and both end as if all were well.
ArchiveWhole ==
  \A t \in Threads \ overlapped :
    Delivered(t) =>
      /\ archive[t] = {t} \X Whole(t)
      /\ \A f \in Whole(t) : IsDescriptor(f) => lead[t] = f

\* Every file, disk and network that the descriptor of such an image names is
\* there, every part of its hardware is connected, and the two accounts that
\* VirtualBox gets of it agree.
ReferencesResolve ==
  \A t \in Threads \ overlapped :
    Delivered(t) =>
      \A d \in Descriptors(Format(t), t) :
        Resolves(d, {entry[2] : entry \in archive[t]})

\* Unless packagings overlap, the process stays somewhere that exists, though
\* a packaging that raises leaves it in the package: that is why what a failure
\* leaves must not be removed.  When it is not so, every packaging that follows
\* raises.
NeverHomeless == overlapped = {} => There(cwd)
=============================================================================
