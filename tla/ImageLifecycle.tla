--------------------------- MODULE ImageLifecycle ---------------------------
(***************************************************************************)
(* What the store shows of an image, whoever looks and whenever: it is     *)
(* NEW from the moment it is added, it is settled at most once, as         *)
(* COMPLETE or as FAILED, and otherwise it changes only because it is      *)
(* deleted or a deletion failed.  A write that goes wrong leaves it        *)
(* unreadable until a later write succeeds.  What was deleted never comes  *)
(* back, unless the deletion overtook a save that was under way.           *)
(***************************************************************************)
CONSTANT Images

VARIABLES persisted,    \* what a reader of the store sees of each image
          settled,      \* how the image was settled, once it was
          deleted,      \* the images that were deleted
          raced         \* those of them deleted while they were being saved

vars == <<persisted, settled, deleted, raced>>

\* What can still be written.
Writable(i) == persisted[i] # "absent" \/ i \in raced

Init ==
  /\ persisted = [i \in Images |-> "absent"]
  /\ settled = [i \in Images |-> "no"]
  /\ deleted = {}
  /\ raced = {}

Add(i) ==
  /\ persisted[i] = "absent"
  /\ i \notin deleted
  /\ persisted' = [persisted EXCEPT ![i] = "NEW"]
  /\ UNCHANGED <<settled, deleted, raced>>

Settle(i, s) ==
  /\ Writable(i)
  /\ settled[i] = "no"
  /\ persisted' = [persisted EXCEPT ![i] = s]
  /\ settled' = [settled EXCEPT ![i] = s]
  /\ UNCHANGED <<deleted, raced>>

DeletionFails(i) ==
  /\ Writable(i)
  /\ persisted' = [persisted EXCEPT ![i] = "DELETEFAILED"]
  /\ UNCHANGED <<settled, deleted, raced>>

Damage(i) ==
  /\ Writable(i) \/ i \notin deleted
  /\ persisted' = [persisted EXCEPT ![i] = "unreadable"]
  /\ UNCHANGED <<settled, deleted, raced>>

Delete(i) ==
  /\ persisted' = [persisted EXCEPT ![i] = "absent"]
  /\ deleted' = deleted \cup {i}
  /\ \/ UNCHANGED raced
     \/ raced' = raced \cup {i}
  /\ UNCHANGED settled

Next ==
  \E i \in Images :
    \/ Add(i)
    \/ \E s \in {"COMPLETE", "FAILED"} : Settle(i, s)
    \/ DeletionFails(i)
    \/ Damage(i)
    \/ Delete(i)

Spec == Init /\ [][Next]_vars
=============================================================================
