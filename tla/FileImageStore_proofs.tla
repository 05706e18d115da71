----------------------- MODULE FileImageStore_proofs -----------------------
(***************************************************************************)
(* Proofs about FileImageStore: for every set of processes, threads,       *)
(* images and versions of metadata.                                        *)
(***************************************************************************)
EXTENDS FileImageStore, Naturals, TLAPS

\* The inductive invariant.  What a busy thread works on is an image that was
\* added, and the thread that has a lock is the one that writes a file.
Busy ==
  \A t \in Threads :
    /\ ~At(t, "idle") => op[t].image \in added
    /\ op[t].at \in {"createmeta", "createbody", "ismanaged", "open", "close"}
         => op[t].version \in Versions
    /\ op[t].linked => At(t, "close")

LockOfWriter == \A t \in Threads : At(t, "close") <=> lock[Process[t]] = t

\* Before an image is added nobody can have made its .meta, and until its .meta
\* is made nobody who saves it gets past the test for the file.
NotAdded == \A i \in Images \ added : meta[i] = "none" /\ saved[i] = NoImage

Fresh ==
  \A t \in Threads :
    At(t, "createmeta") =>
      /\ meta[op[t].image] = "none" /\ saved[op[t].image] = NoImage
      /\ \A u \in Threads \ {t} :
           (~At(u, "idle") /\ op[u].image = op[t].image) => At(u, "ismanaged")

\* A file that is open is there, and, unless two processes write it, empty and
\* open once.
OpenOnce ==
  \A t \in Threads, i \in Images :
    HasOpen(t, i) =>
      /\ meta[i] # "none"
      /\ i \notin spoiled => /\ meta[i] = "empty"
                             /\ \A u \in Threads \ {t} : ~HasOpen(u, i)

\* What is between the two removals of a deletion has no .meta, unless a save
\* brought that back.
RemovesDead ==
  \A t \in Threads :
    At(t, "removebody") => meta[op[t].image] = "none" \/ op[t].image \in bodyless

IInv ==
  /\ TypeOK
  /\ Busy
  /\ LockOfWriter
  /\ NotAdded
  /\ Fresh
  /\ OpenOnce
  /\ RemovesDead
  /\ LastSaveStays
  /\ BodyWithMeta

-----------------------------------------------------------------------------
LEMMA InitIInv == Init => IInv
<1> SUFFICES ASSUME Init PROVE IInv
  OBVIOUS
<1> USE NoThreadAssumption, NoImageAssumption, ProcessAssumption
<1>1. TypeOK
  BY DEF Init, TypeOK, Calls, Idle
<1>2. \A t \in Threads : op[t].at = "idle" /\ op[t].linked = FALSE
  BY DEF Init, Idle
<1>3. Busy /\ LockOfWriter /\ NotAdded /\ Fresh /\ OpenOnce /\ RemovesDead
  BY <1>2 DEF Init, Busy, LockOfWriter, NotAdded, Fresh, OpenOnce, RemovesDead,
     At, HasOpen
<1>4. LastSaveStays /\ BodyWithMeta
  BY DEF Init, LastSaveStays, BodyWithMeta
<1> QED  BY <1>1, <1>3, <1>4 DEF IInv

\* A thread that goes from one place to another without touching a file.
LEMMA QuietStep ==
  ASSUME IInv, NEW t \in Threads,
         UNCHANGED <<meta, body, lock, added, saved, spoiled>>,
         loaded' \in Versions \cup {NoImage},
         op' \in [Threads -> Calls],
         \A u \in Threads \ {t} : op'[u] = op[u],
         op[t].at # "close",
         ~op'[t].linked,
         \/ op'[t].at = "idle"
         \/ /\ op'[t].at \in {"ismanaged", "open"}
            /\ op'[t].image \in added
            /\ op'[t].version \in Versions
            /\ op'[t].at = "open" => meta[op'[t].image] # "none",
         bodyless \subseteq bodyless', bodyless' \subseteq Images,
         op[t].at = "createbody" => op[t].image \in bodyless'
  PROVE  IInv'
<1> USE DEF IInv
<1>1. TypeOK'
  BY DEF TypeOK, Calls
<1>2. \A u \in Threads, i \in Images : HasOpen(u, i)' <=> HasOpen(u, i)
  BY DEF HasOpen, At, Busy
<1>3. Busy'
  BY DEF Busy, At
<1>4. LockOfWriter'
  BY DEF LockOfWriter, At
<1>5. NotAdded'
  BY DEF NotAdded
<1>6. Fresh'
  BY DEF Fresh, At
<1>7. OpenOnce'
  BY <1>2 DEF OpenOnce
<1>8. RemovesDead'
  BY DEF RemovesDead, At
<1>9. LastSaveStays'
  BY <1>2 DEF LastSaveStays
<1>10. BodyWithMeta'
  BY DEF BodyWithMeta, At
<1> QED  BY <1>1, <1>3, <1>4, <1>5, <1>6, <1>7, <1>8, <1>9, <1>10

\* The steps that save_image, image_with_id and a failing add_image take beside
\* the files.
LEMMA BesideFiles ==
  ASSUME IInv, NEW t \in Threads,
         \/ CreateFails(t) \/ IsManaged(t) \/ OpenFails(t)
         \/ \E i \in Images : Load(t, i) \/ \E v \in Versions : Save(t, i, v)
  PROVE  IInv'
<1> USE NoImageAssumption DEF IInv, historyVars
<1>1. TypeOK /\ op[t] \in Calls
  BY DEF TypeOK
<1>2. CASE CreateFails(t)
  BY <1>1, <1>2, QuietStep DEF CreateFails, At, Go, TypeOK, Calls, Busy
<1>3. CASE IsManaged(t)
  <2>1. CASE meta[op[t].image] = "none"
    <3>1. op[t].at = "ismanaged" /\ op' = [op EXCEPT ![t] = Idle]
      BY <1>3, <2>1 DEF IsManaged, At, Return
    <3>2. Idle \in Calls /\ Idle.at = "idle" /\ ~Idle.linked
      BY DEF Idle, Calls
    <3>3. /\ op' \in [Threads -> Calls]
          /\ op'[t].at = "idle" /\ ~op'[t].linked
          /\ \A u \in Threads \ {t} : op'[u] = op[u]
      BY <1>1, <3>1, <3>2 DEF TypeOK
    <3>4. UNCHANGED <<meta, body, lock, loaded, historyVars>>
      BY <1>3 DEF IsManaged
    <3> QED  BY <1>1, <3>1, <3>3, <3>4, QuietStep DEF TypeOK
  <2>2. CASE meta[op[t].image] # "none"
    BY <1>1, <1>3, <2>2, QuietStep DEF IsManaged, At, Go, TypeOK, Calls, Busy
  <2> QED  BY <2>1, <2>2
<1>4. CASE OpenFails(t)
  BY <1>1, <1>4, QuietStep DEF OpenFails, At, Return, Idle, TypeOK, Calls
<1>5. CASE \E i \in Images, v \in Versions : Save(t, i, v)
  BY <1>1, <1>5, QuietStep DEF Save, At, Begin, TypeOK, Calls
<1>6. CASE \E i \in Images : Load(t, i)
  BY <1>1, <1>6, QuietStep DEF Load, Parsed, At, TypeOK, Calls, Busy
<1> QED  BY <1>2, <1>3, <1>4, <1>5, <1>6

\* add_image, as far as the save.
LEMMA AddStep ==
  ASSUME IInv, NEW t \in Threads,
         \/ \E i \in Images, v \in Versions : Add(t, i, v)
         \/ CreateMeta(t) \/ CreateBody(t)
  PROVE  IInv'
<1> USE NoImageAssumption DEF IInv, historyVars
<1>1. CASE \E i \in Images, v \in Versions : Add(t, i, v)
  <2>1. PICK i \in Images, v \in Versions : Add(t, i, v)
    BY <1>1
  <2>2. /\ op'[t] = [at |-> "createmeta", image |-> i, version |-> v, linked |-> FALSE]
        /\ \A u \in Threads \ {t} : op'[u] = op[u]
        /\ added' = added \cup {i} /\ i \notin added /\ op[t].at = "idle"
        /\ UNCHANGED <<meta, body, lock, loaded, saved, spoiled, bodyless>>
    BY <2>1 DEF Add, Begin, At, TypeOK
  <2>3. \A u \in Threads, j \in Images : HasOpen(u, j)' <=> HasOpen(u, j)
    BY <2>2 DEF HasOpen, At
  <2>4. TypeOK'
    BY <2>1, <2>2 DEF Add, Begin, TypeOK, Calls
  <2>5. (Busy /\ LockOfWriter)'
    BY <2>2 DEF Busy, LockOfWriter, At
  <2>6. (NotAdded /\ Fresh)'
    BY <2>2 DEF NotAdded, Fresh, Busy, At
  <2>7. (OpenOnce /\ RemovesDead /\ LastSaveStays /\ BodyWithMeta)'
    BY <2>2, <2>3 DEF OpenOnce, RemovesDead, LastSaveStays, BodyWithMeta, At
  <2> QED  BY <2>4, <2>5, <2>6, <2>7
<1>2. CASE CreateMeta(t)
  <2> DEFINE i == op[t].image
  <2>1. /\ op[t].at = "createmeta" /\ i \in Images /\ i \in added
        /\ op'[t] = [op[t] EXCEPT !.at = "createbody"]
        /\ \A u \in Threads \ {t} : op'[u] = op[u]
        /\ meta' = [meta EXCEPT ![i] = "empty"]
        /\ UNCHANGED <<body, lock, loaded, added, saved, spoiled, bodyless>>
    BY <1>2 DEF CreateMeta, Go, At, TypeOK, Busy
  <2>2. /\ meta[i] = "none" /\ saved[i] = NoImage
        /\ \A u \in Threads \ {t} :
             (~At(u, "idle") /\ op[u].image = i) => At(u, "ismanaged")
    BY <2>1 DEF Fresh, At
  <2>3. \A u \in Threads, j \in Images : HasOpen(u, j)' <=> HasOpen(u, j)
    BY <2>1 DEF HasOpen, At, TypeOK, Calls
  <2>4. TypeOK'
    BY <1>2, <2>1 DEF CreateMeta, Go, TypeOK, Calls
  <2>5. (Busy /\ LockOfWriter)'
    BY <2>1 DEF Busy, LockOfWriter, At, TypeOK, Calls
  <2>6. (NotAdded /\ Fresh)'
    BY <2>1, <2>2 DEF NotAdded, Fresh, At, TypeOK, Calls
  <2>7. OpenOnce'
    BY <2>1, <2>2, <2>3 DEF OpenOnce, TypeOK
  <2>8. RemovesDead'
    BY <2>1, <2>2 DEF RemovesDead, Busy, At, TypeOK, Calls
  <2>9. (LastSaveStays /\ BodyWithMeta)'
    BY <2>1, <2>2, <2>3 DEF LastSaveStays, BodyWithMeta, At, TypeOK, Calls
  <2> QED  BY <2>4, <2>5, <2>6, <2>7, <2>8, <2>9
<1>3. CASE CreateBody(t)
  <2> DEFINE i == op[t].image
  <2>1. /\ op[t].at = "createbody" /\ i \in Images /\ i \in added
        /\ op'[t] = [op[t] EXCEPT !.at = "ismanaged"]
        /\ \A u \in Threads \ {t} : op'[u] = op[u]
        /\ body' = body \cup {i}
        /\ UNCHANGED <<meta, lock, loaded, added, saved, spoiled, bodyless>>
    BY <1>3 DEF CreateBody, Go, At, TypeOK, Busy
  <2>2. \A u \in Threads, j \in Images : HasOpen(u, j)' <=> HasOpen(u, j)
    BY <2>1 DEF HasOpen, At, TypeOK, Calls
  <2>3. TypeOK'
    BY <1>3, <2>1 DEF CreateBody, Go, TypeOK, Calls
  <2>4. (Busy /\ LockOfWriter)'
    BY <2>1 DEF Busy, LockOfWriter, At, TypeOK, Calls
  <2>5. (NotAdded /\ Fresh)'
    BY <2>1 DEF NotAdded, Fresh, At, TypeOK, Calls
  <2>6. (OpenOnce /\ RemovesDead /\ LastSaveStays)'
    BY <2>1, <2>2 DEF OpenOnce, RemovesDead, LastSaveStays, At, TypeOK, Calls
  <2>7. BodyWithMeta'
    BY <2>1 DEF BodyWithMeta, At, TypeOK, Calls
  <2> QED  BY <2>3, <2>4, <2>5, <2>6, <2>7
<1> QED  BY <1>1, <1>2, <1>3

\* The lock of a process lets one of its threads at a time have a file open.
LEMMA OneWriter ==
  ASSUME IInv, NEW t \in Threads, NEW u \in Threads,
         At(t, "close"), At(u, "close"), Process[t] = Process[u]
  PROVE  t = u
BY DEF IInv, LockOfWriter

LEMMA OpenStep ==
  ASSUME IInv, NEW t \in Threads, Open(t)
  PROVE  IInv'
<1> USE NoThreadAssumption, NoImageAssumption, VersionsAssumption, ProcessAssumption
        DEF IInv
<1> DEFINE i == op[t].image
<1>1. /\ op[t].at = "open" /\ i \in Images /\ i \in added
      /\ op[t].version \in Versions
      /\ op' = [op EXCEPT ![t].at = "close", ![t].linked = TRUE]
      /\ meta' = [meta EXCEPT ![i] = "empty"]
      /\ lock[Process[t]] = NoThread
      /\ lock' = [lock EXCEPT ![Process[t]] = t]
      /\ bodyless' = IF meta[i] = "none" THEN bodyless \cup {i} ELSE bodyless
      /\ spoiled' = IF \E u \in Threads : Process[u] # Process[t] /\ HasOpen(u, i)
                      THEN spoiled \cup {i} ELSE spoiled \ {i}
      /\ UNCHANGED <<body, loaded, added, saved>>
  BY DEF Open, TakeLock, At, TypeOK, Calls, Busy
<1>2. /\ op' \in [Threads -> Calls]
      /\ op'[t].at = "close" /\ op'[t].linked /\ op'[t].image = i
      /\ op'[t].version = op[t].version
      /\ \A u \in Threads \ {t} : op'[u] = op[u]
  BY ZenonT(40), <1>1 DEF TypeOK, Calls
<1>3. TypeOK'
  BY <1>1, <1>2 DEF TypeOK
<1>4. \A u \in Threads : op[u].at = "close" => Process[u] # Process[t]
  BY <1>1 DEF LockOfWriter, At
<1>5. /\ \A u \in Threads \ {t}, j \in Images : HasOpen(u, j)' <=> HasOpen(u, j)
      /\ \A j \in Images : ~HasOpen(t, j) /\ (HasOpen(t, j)' <=> j = i)
  BY <1>1, <1>2 DEF HasOpen, At
<1>6. i \notin spoiled' => \A u \in Threads \ {t} : ~HasOpen(u, i)
  BY <1>1, <1>4 DEF HasOpen, At
<1>7. Busy'
  BY <1>1, <1>2 DEF Busy, At
<1>8. LockOfWriter'
  BY <1>1, <1>2, <1>4 DEF LockOfWriter, At, TypeOK
<1>9. (NotAdded /\ Fresh)'
  <2>1. \A u \in Threads \ {t} : op[u].at = "createmeta" => op[u].image # i
    BY <1>1 DEF Fresh, At
  <2> QED  BY <1>1, <1>2, <2>1 DEF NotAdded, Fresh, Busy, At, TypeOK
<1>10. OpenOnce'
  BY <1>1, <1>5, <1>6 DEF OpenOnce, TypeOK
<1>11. RemovesDead'
  BY <1>1, <1>2 DEF RemovesDead, Busy, At, TypeOK
<1>12. LastSaveStays'
  <2>1. \A j \in Images : j = i => HasOpen(t, j)'
    BY <1>5
  <2>2. \A j \in Images \ {i} : /\ meta'[j] = meta[j]
                                /\ j \in spoiled' <=> j \in spoiled
                                /\ \A u \in Threads : HasOpen(u, j)' <=> HasOpen(u, j)
    BY <1>1, <1>5 DEF TypeOK
  <2> QED  BY <1>1, <2>1, <2>2 DEF LastSaveStays
<1>13. BodyWithMeta'
  BY <1>1, <1>2 DEF BodyWithMeta, At, TypeOK
<1> QED  BY <1>3, <1>7, <1>8, <1>9, <1>10, <1>11, <1>12, <1>13

\* A file that was open is written out, or not.
LEMMA CloseStep ==
  ASSUME IInv, NEW t \in Threads, Close(t) \/ CloseFails(t)
  PROVE  IInv'
<1> USE NoThreadAssumption, NoImageAssumption, VersionsAssumption, ProcessAssumption
        DEF IInv
<1> DEFINE i == op[t].image
<1>1. /\ op[t].at = "close" /\ i \in Images /\ i \in added
      /\ op[t].version \in Versions
      /\ op' = [op EXCEPT ![t] = Idle]
      /\ lock[Process[t]] = t
      /\ lock' = [lock EXCEPT ![Process[t]] = NoThread]
      /\ UNCHANGED <<body, loaded, added, bodyless>>
  BY DEF Close, CloseFails, LockAfterFailure, Return, At, TypeOK, Calls, Busy,
     LockOfWriter
<1>2. Idle \in Calls /\ Idle.at = "idle" /\ ~Idle.linked
  BY DEF Idle, Calls
<1>3. op' \in [Threads -> Calls] /\ op'[t] = Idle
      /\ \A u \in Threads \ {t} : op'[u] = op[u]
  BY <1>1, <1>2 DEF TypeOK
<1>4. \A u \in Threads, j \in Images : HasOpen(u, j)' <=> (u # t /\ HasOpen(u, j))
  BY <1>2, <1>3 DEF HasOpen, At
<1>5. ~op[t].linked =>
        UNCHANGED <<meta, saved, spoiled>> /\ \A j \in Images : ~HasOpen(t, j)
  BY DEF Close, CloseFails, HasOpen
<1>6. op[t].linked =>
        /\ HasOpen(t, i)
        /\ meta' \in [Images -> Versions \cup {"none", "empty", "torn"}]
        /\ meta[i] # "none" /\ meta'[i] # "none"
        /\ \A j \in Images \ {i} : meta'[j] = meta[j] /\ saved'[j] = saved[j]
                                   /\ (j \in spoiled' <=> j \in spoiled)
        /\ saved' \in [Images -> Versions \cup {NoImage}]
        /\ spoiled' \subseteq Images
        /\ i \notin spoiled' => /\ i \notin spoiled /\ saved'[i] = op[t].version
                                /\ meta[i] = "empty" => meta'[i] = op[t].version
  <2> SUFFICES ASSUME op[t].linked
               PROVE  /\ HasOpen(t, i)
                      /\ meta' \in [Images -> Versions \cup {"none", "empty", "torn"}]
                      /\ meta[i] # "none" /\ meta'[i] # "none"
                      /\ \A j \in Images \ {i} :
                           /\ meta'[j] = meta[j] /\ saved'[j] = saved[j]
                           /\ j \in spoiled' <=> j \in spoiled
                      /\ saved' \in [Images -> Versions \cup {NoImage}]
                      /\ spoiled' \subseteq Images
                      /\ i \notin spoiled' =>
                           /\ i \notin spoiled /\ saved'[i] = op[t].version
                           /\ meta[i] = "empty" => meta'[i] = op[t].version
    OBVIOUS
  <2>1. HasOpen(t, i) /\ meta[i] # "none"
    BY <1>1 DEF HasOpen, At, OpenOnce
  <2>2. CASE Close(t)
    <3>1. PICK c \in (IF meta[i] = "empty" THEN {op[t].version}
                      ELSE {op[t].version, "torn"}) :
            meta' = [meta EXCEPT ![i] = c]
      BY <2>2 DEF Close
    <3>2. saved' = [saved EXCEPT ![i] = op[t].version] /\ spoiled' = spoiled
      BY <2>2 DEF Close
    <3> QED  BY <1>1, <2>1, <3>1, <3>2 DEF TypeOK
  <2>3. CASE CloseFails(t)
    <3>1. PICK c \in {meta[i], "torn"} : meta' = [meta EXCEPT ![i] = c]
      BY <2>3 DEF CloseFails
    <3>2. spoiled' = spoiled \cup {i} /\ saved' = saved
      BY <2>3 DEF CloseFails
    <3> QED  BY <1>1, <2>1, <3>1, <3>2 DEF TypeOK
  <2> QED  BY <2>2, <2>3
<1>7. TypeOK'
  BY <1>1, <1>3, <1>5, <1>6 DEF TypeOK
<1>8. Busy'
  BY <1>1, <1>2, <1>3 DEF Busy, At
<1>9. LockOfWriter'
  BY <1>1, <1>2, <1>3, OneWriter DEF LockOfWriter, At, TypeOK
<1>10. (NotAdded /\ Fresh)'
  <2>1. \A u \in Threads \ {t} : op[u].at = "createmeta" => op[u].image # i
    BY <1>1 DEF Fresh, At
  <2>2. \A j \in Images \ {i} : meta'[j] = meta[j] /\ saved'[j] = saved[j]
    BY <1>5, <1>6
  <2>3. NotAdded'
    BY <1>1, <2>2 DEF NotAdded
  <2>4. Fresh'
    BY <1>1, <1>2, <1>3, <2>1, <2>2 DEF Fresh, Busy, At, TypeOK
  <2> QED  BY <2>3, <2>4
<1>11. OpenOnce'
  BY <1>4, <1>5, <1>6 DEF OpenOnce
<1>12. RemovesDead'
  BY <1>1, <1>2, <1>3, <1>5, <1>6 DEF RemovesDead, Busy, At, TypeOK
<1>13. LastSaveStays'
  <2>1. CASE op[t].linked
    <3>1. \A j \in Images \ {i}, u \in Threads : HasOpen(u, j)' <=> HasOpen(u, j)
      BY <1>4 DEF HasOpen
    <3>2. i \notin spoiled' => meta'[i] = saved'[i]
      BY <1>1, <1>6, <2>1 DEF OpenOnce
    <3> QED  BY <1>6, <2>1, <3>1, <3>2 DEF LastSaveStays
  <2>2. CASE ~op[t].linked
    BY <1>4, <1>5, <2>2 DEF LastSaveStays
  <2> QED  BY <2>1, <2>2
<1>14. BodyWithMeta'
  BY <1>1, <1>2, <1>3, <1>5, <1>6 DEF BodyWithMeta, At
<1> QED  BY <1>7, <1>8, <1>9, <1>10, <1>11, <1>12, <1>13, <1>14

\* delete_image_with_id.
LEMMA DeleteStep ==
  ASSUME IInv, NEW t \in Threads,
         (\E i \in Images : Delete(t, i)) \/ RemoveBody(t)
  PROVE  IInv'
<1> USE NoImageAssumption DEF IInv, historyVars
<1>1. CASE \E i \in Images : Delete(t, i)
  <2>1. PICK i \in Images : Delete(t, i)
    BY <1>1
  <2>2. /\ op[t].at = "idle" /\ i \in added /\ meta[i] # "none"
        /\ meta' = [meta EXCEPT ![i] = "none"]
        /\ op' = [Unlinked(i) EXCEPT ![t] = [at |-> "removebody", image |-> i,
                                             version |-> NoImage, linked |-> FALSE]]
        /\ UNCHANGED <<body, lock, loaded, added, saved, spoiled, bodyless>>
    BY <2>1 DEF Delete, At
  <2>3. /\ op' \in [Threads -> Calls]
        /\ op'[t] = [at |-> "removebody", image |-> i, version |-> NoImage,
                     linked |-> FALSE]
        /\ \A u \in Threads \ {t} :
             /\ op'[u].at = op[u].at /\ op'[u].image = op[u].image
             /\ op'[u].version = op[u].version
             /\ op'[u].linked <=> op[u].linked /\ ~HasOpen(u, i)
    <3>1. Unlinked(i) \in [Threads -> Calls]
      BY ZenonT(40) DEF Unlinked, TypeOK, Calls
    <3>2. \A u \in Threads :
            /\ Unlinked(i)[u].at = op[u].at /\ Unlinked(i)[u].image = op[u].image
            /\ Unlinked(i)[u].version = op[u].version
            /\ Unlinked(i)[u].linked <=> op[u].linked /\ ~HasOpen(u, i)
      BY DEF Unlinked, HasOpen, TypeOK, Calls
    <3>3. [at |-> "removebody", image |-> i, version |-> NoImage, linked |-> FALSE]
            \in Calls
      BY DEF Calls
    <3> QED  BY <2>2, <3>1, <3>2, <3>3
  <2>4. /\ \A u \in Threads : ~HasOpen(u, i)'
        /\ \A u \in Threads, j \in Images \ {i} : HasOpen(u, j)' <=> HasOpen(u, j)
    BY <2>2, <2>3 DEF HasOpen, At
  <2>5. \A j \in Images \ {i} : meta'[j] = meta[j]
    BY <2>2 DEF TypeOK
  <2>6. meta'[i] = "none"
    BY <2>2 DEF TypeOK
  <2>7. TypeOK'
    BY <2>2, <2>3 DEF TypeOK
  <2>8. (Busy /\ LockOfWriter)'
    BY <2>2, <2>3 DEF Busy, LockOfWriter, At
  <2>9. (NotAdded /\ Fresh)'
    BY <2>2, <2>3, <2>5 DEF NotAdded, Fresh, Busy, At, TypeOK
  <2>10. OpenOnce'
    BY <2>2, <2>4, <2>5 DEF OpenOnce
  <2>11. RemovesDead'
    BY <2>2, <2>3, <2>5, <2>6 DEF RemovesDead, Busy, At, TypeOK
  <2>12. LastSaveStays'
    BY <2>2, <2>4, <2>5, <2>6 DEF LastSaveStays
  <2>13. BodyWithMeta'
    BY <2>2, <2>3, <2>5, <2>6 DEF BodyWithMeta, At
  <2> QED  BY <2>7, <2>8, <2>9, <2>10, <2>11, <2>12, <2>13
<1>2. CASE RemoveBody(t)
  <2>1. /\ op[t].at = "removebody" /\ op' = [op EXCEPT ![t] = Idle]
        /\ body' \subseteq body /\ body \ {op[t].image} \subseteq body'
        /\ UNCHANGED <<meta, lock, loaded, added, saved, spoiled, bodyless>>
    BY <1>2 DEF RemoveBody, At, Return
  <2>2. Idle \in Calls /\ Idle.at = "idle" /\ ~Idle.linked
    BY DEF Idle, Calls
  <2>3. op' \in [Threads -> Calls] /\ op'[t] = Idle
        /\ \A u \in Threads \ {t} : op'[u] = op[u]
    BY <2>1, <2>2 DEF TypeOK
  <2>4. \A u \in Threads, j \in Images : HasOpen(u, j)' <=> HasOpen(u, j)
    BY <2>1, <2>2, <2>3 DEF HasOpen, At
  <2>5. TypeOK'
    BY <2>1, <2>3 DEF TypeOK
  <2>6. (Busy /\ LockOfWriter /\ NotAdded /\ Fresh)'
    BY <2>1, <2>2, <2>3 DEF Busy, LockOfWriter, NotAdded, Fresh, At
  <2>7. (OpenOnce /\ RemovesDead /\ LastSaveStays)'
    BY <2>1, <2>2, <2>3, <2>4 DEF OpenOnce, RemovesDead, LastSaveStays, At
  <2>8. BodyWithMeta'
    BY <2>1, <2>2, <2>3 DEF BodyWithMeta, RemovesDead, At
  <2> QED  BY <2>5, <2>6, <2>7, <2>8
<1> QED  BY <1>1, <1>2

\* A process is killed.
LEMMA CrashStep ==
  ASSUME IInv, NEW p \in Crashes, Crash(p)
  PROVE  IInv'
<1> USE NoThreadAssumption, NoImageAssumption, ProcessAssumption, CrashesAssumption
        DEF IInv
<1> DEFINE mine == {t \in Threads : Process[t] = p}
           cut == {i \in Images : \E t \in mine : HasOpen(t, i)}
<1>1. /\ op' = [t \in Threads |-> IF t \in mine THEN Idle ELSE op[t]]
      /\ lock' = [lock EXCEPT ![p] = NoThread]
      /\ spoiled' = spoiled \cup cut
      /\ bodyless' = bodyless \cup {op[t].image : t \in {u \in mine : At(u, "createbody")}}
      /\ UNCHANGED <<body, loaded, added, saved>>
  BY DEF Crash
<1>2. PICK torn \in SUBSET cut :
        meta' = [i \in Images |-> IF i \in torn THEN "torn" ELSE meta[i]]
  BY DEF Crash
<1>3. Idle \in Calls /\ Idle.at = "idle" /\ ~Idle.linked
  BY DEF Idle, Calls
<1>4. op' \in [Threads -> Calls]
      /\ \A t \in Threads : op'[t] = IF Process[t] = p THEN Idle ELSE op[t]
  BY <1>1, <1>3 DEF TypeOK
<1>5. \A t \in Threads, i \in Images :
        HasOpen(t, i)' <=> (Process[t] # p /\ HasOpen(t, i))
  BY <1>3, <1>4 DEF HasOpen, At
<1>6. \A i \in Images :
        /\ meta[i] = "none" <=> meta'[i] = "none"
        /\ i \notin cut => meta'[i] = meta[i]
  BY <1>2 DEF OpenOnce
<1>7. TypeOK'
  <2>1. \A t \in Threads : At(t, "createbody") => op[t].image \in Images
    BY DEF Busy, At, TypeOK
  <2>2. bodyless' \subseteq Images /\ spoiled' \subseteq Images
    BY <1>1, <2>1 DEF TypeOK
  <2>3. meta' \in [Images -> Versions \cup {"none", "empty", "torn"}]
    BY <1>2 DEF TypeOK
  <2> QED  BY <1>1, <1>4, <2>2, <2>3 DEF TypeOK
<1>8. Busy'
  BY <1>1, <1>3, <1>4 DEF Busy, At
<1>9. LockOfWriter'
  BY <1>1, <1>3, <1>4 DEF LockOfWriter, At, TypeOK
<1>10. (NotAdded /\ Fresh)'
  BY <1>1, <1>3, <1>4, <1>6 DEF NotAdded, Fresh, Busy, At, TypeOK
<1>11. OpenOnce'
  BY <1>1, <1>5, <1>6 DEF OpenOnce
<1>12. RemovesDead'
  BY <1>1, <1>3, <1>4, <1>6 DEF RemovesDead, Busy, At, TypeOK
<1>13. LastSaveStays'
  BY <1>1, <1>5, <1>6 DEF LastSaveStays
<1>14. BodyWithMeta'
  BY <1>1, <1>3, <1>4, <1>6 DEF BodyWithMeta, At
<1> QED  BY <1>7, <1>8, <1>9, <1>10, <1>11, <1>12, <1>13, <1>14

LEMMA Stutter == IInv /\ UNCHANGED vars => IInv'
<1> SUFFICES ASSUME IInv, UNCHANGED vars PROVE IInv'
  OBVIOUS
<1> USE DEF IInv, vars, At, HasOpen
<1>1. (TypeOK /\ Busy /\ LockOfWriter /\ NotAdded /\ Fresh)'
  BY DEF TypeOK, Busy, LockOfWriter, NotAdded, Fresh
<1>2. (OpenOnce /\ RemovesDead /\ LastSaveStays /\ BodyWithMeta)'
  BY DEF OpenOnce, RemovesDead, LastSaveStays, BodyWithMeta
<1> QED  BY <1>1, <1>2

LEMMA Invariant == Spec => []IInv
<1>1. IInv /\ [Next]_vars => IInv'
  <2> SUFFICES ASSUME IInv, [Next]_vars PROVE IInv'
    OBVIOUS
  <2>1. CASE \E t \in Threads : ThreadStep(t)
    BY <2>1, AddStep, BesideFiles, OpenStep, CloseStep, DeleteStep DEF ThreadStep
  <2>2. CASE \E t \in Threads, i \in Images : Call(t, i)
    BY <2>2, AddStep, BesideFiles, DeleteStep DEF Call
  <2>3. CASE \E p \in Crashes : Crash(p)
    BY <2>3, CrashStep
  <2>4. CASE UNCHANGED vars
    BY <2>4, Stutter
  <2> QED  BY <2>1, <2>2, <2>3, <2>4 DEF Next
<1> QED  BY <1>1, InitIInv, PTL DEF Spec

-----------------------------------------------------------------------------
\* Every variable keeps its type: whatever is killed or fails, a .meta file is
\* missing, empty, torn, or holds metadata that was saved.
THEOREM TypeCorrect == Spec => []TypeOK
<1>1. IInv => TypeOK
  BY DEF IInv
<1> QED  BY <1>1, Invariant, PTL

\* Under the metadata_lock of a process no half written file is found but of an
\* image that is being added, that another process writes, or that a failed
\* write or a crash left so.
THEOREM LockedReads == Spec => []WholeUnderLock
<1>1. IInv => WholeUnderLock
  <2> SUFFICES ASSUME IInv, NEW p \in Processes, lock[p] = NoThread, NEW i \in Images,
                      meta[i] \in {"empty", "torn"}, saved[i] # NoImage,
                      i \notin spoiled
               PROVE  \E t \in Threads : Process[t] # p /\ HasOpen(t, i)
    BY DEF WholeUnderLock
  <2>1. saved[i] \in Versions /\ meta[i] # saved[i] /\ meta[i] # "none"
    BY VersionsAssumption DEF IInv, TypeOK
  <2>2. PICK t \in Threads : HasOpen(t, i)
    BY <2>1 DEF IInv, LastSaveStays
  <2>3. Process[t] # p
    BY <2>2, NoThreadAssumption DEF IInv, LockOfWriter, HasOpen
  <2> QED  BY <2>2, <2>3
<1> QED  BY <1>1, Invariant, PTL

\* The save that returned last is what is stored once nobody writes the image.
THEOREM SavesStay == Spec => []LastSaveStays
<1>1. IInv => LastSaveStays
  BY DEF IInv
<1> QED  BY <1>1, Invariant, PTL

\* Metadata that is stored has its .body.
THEOREM BodiesThere == Spec => []BodyWithMeta
<1>1. IInv => BodyWithMeta
  BY DEF IInv
<1> QED  BY <1>1, Invariant, PTL

-----------------------------------------------------------------------------
\* A lock is its own process's to take.
OwnLock == \A p \in Processes : lock[p] # NoThread => Process[lock[p]] = p

LEMMA NextOwnLock == TypeOK /\ OwnLock /\ [Next]_vars => OwnLock'
<1> SUFFICES ASSUME TypeOK, OwnLock, [Next]_vars PROVE OwnLock'
  OBVIOUS
<1>1. CASE UNCHANGED lock
  BY <1>1 DEF OwnLock
<1>2. ASSUME NEW t \in Threads, lock' \in {[lock EXCEPT ![Process[t]] = t],
                                           [lock EXCEPT ![Process[t]] = NoThread]}
      PROVE  OwnLock'
  BY <1>2, ProcessAssumption DEF TypeOK, OwnLock
<1>3. ASSUME NEW p \in Crashes, Crash(p) PROVE OwnLock'
  BY <1>3, CrashesAssumption DEF Crash, TypeOK, OwnLock
<1>4. ASSUME NEW t \in Threads, ThreadStep(t) PROVE OwnLock'
  BY <1>1, <1>2, <1>4 DEF ThreadStep, CreateMeta, CreateBody, CreateFails, IsManaged, Open, TakeLock,
     OpenFails, Close, CloseFails, LockAfterFailure, RemoveBody
<1>5. ASSUME NEW t \in Threads, NEW i \in Images, Call(t, i) PROVE OwnLock'
  BY <1>1, <1>5 DEF Call, Add, Save, Load, Delete
<1>6. CASE UNCHANGED vars
  BY <1>1, <1>6 DEF vars
<1> QED  BY <1>3, <1>4, <1>5, <1>6 DEF Next

\* metadata_lock: who waits for the lock of a process waits for a thread of that
\* process that has a file open, to write it and close it, and for nothing else:
\* what LockFreed asks of a state, whatever was deleted, failed or killed.
THEOREM LockedByWriter ==
  Spec => [](\A p \in Processes :
               lock[p] # NoThread =>
                 /\ lock[p] \in Threads /\ Process[lock[p]] = p
                 /\ At(lock[p], "close") /\ op[lock[p]].version \in Versions)
<1>1. Init => OwnLock
  BY DEF Init, OwnLock
<1>2. IInv => TypeOK
  BY DEF IInv
<1>3. IInv /\ OwnLock => \A p \in Processes :
        lock[p] # NoThread =>
          /\ lock[p] \in Threads /\ Process[lock[p]] = p
          /\ At(lock[p], "close") /\ op[lock[p]].version \in Versions
  <2> SUFFICES ASSUME IInv, OwnLock, NEW p \in Processes, lock[p] # NoThread
               PROVE  /\ lock[p] \in Threads /\ Process[lock[p]] = p
                      /\ At(lock[p], "close") /\ op[lock[p]].version \in Versions
    OBVIOUS
  <2>1. PICK t \in Threads : t = lock[p]
    BY DEF IInv, TypeOK
  <2>2. Process[t] = p
    BY <2>1 DEF OwnLock
  <2>3. At(t, "close")
    BY <2>1, <2>2 DEF IInv, LockOfWriter
  <2>4. op[t].version \in Versions
    BY <2>3 DEF IInv, Busy, At
  <2> QED  BY <2>1, <2>2, <2>3, <2>4
<1> QED  BY <1>1, <1>2, <1>3, NextOwnLock, Invariant, PTL DEF Spec

-----------------------------------------------------------------------------
(* What a step may never do.                                               *)

\* image_with_id: as long as no other process writes an image, and unless its last
\* write failed, was cut short or met another, a poll for it returns the metadata
\* of the save that returned last, whatever the threads of the poll's own process
\* are doing: it finds the file neither empty, nor torn, nor old.
THEOREM ReadsLastSave ==
  Spec => [][\A t \in Threads, i \in Images :
               (/\ Load(t, i) /\ meta[i] # "none" /\ saved[i] # NoImage /\ i \notin spoiled
                /\ \A u \in Threads : HasOpen(u, i) => Process[u] = Process[t])
                 => loaded' = saved[i]]_vars
<1> DEFINE Reads(t, i) ==
      (/\ Load(t, i) /\ meta[i] # "none" /\ saved[i] # NoImage /\ i \notin spoiled
       /\ \A u \in Threads : HasOpen(u, i) => Process[u] = Process[t])
        => loaded' = saved[i]
<1>1. ASSUME IInv, NEW t \in Threads, NEW i \in Images PROVE Reads(t, i)
  <2> SUFFICES ASSUME Load(t, i), meta[i] # "none", saved[i] # NoImage, i \notin spoiled,
                      \A u \in Threads : HasOpen(u, i) => Process[u] = Process[t]
               PROVE  loaded' = saved[i]
    OBVIOUS
  <2>1. lock[Process[t]] = NoThread /\ loaded' = Parsed(meta[i])
    BY DEF Load
  <2>2. \A u \in Threads : ~HasOpen(u, i)
    BY <1>1, <2>1, NoThreadAssumption DEF IInv, LockOfWriter, HasOpen
  <2>3. meta[i] = saved[i]
    BY <1>1, <2>2 DEF IInv, LastSaveStays
  <2>4. saved[i] \in Versions
    BY <1>1 DEF IInv, TypeOK
  <2> QED  BY <2>1, <2>3, <2>4 DEF Parsed
<1>2. IInv /\ [Next]_vars => [\A t \in Threads, i \in Images : Reads(t, i)]_vars
  BY <1>1
<1> QED  BY <1>2, Invariant, PTL DEF Spec

\* The order of the places of a call.
Place == [createmeta |-> 0, createbody |-> 1, ismanaged |-> 2, open |-> 3, close |-> 4,
          removebody |-> 4, idle |-> 5]

\* Every step of add_image, save_image and delete_image_with_id takes that call on to
\* its end, and no other call and no crash sends it back: with LockedByWriter, the
\* holder of metadata_lock being at its last place, this is why LockFreed holds.
THEOREM CallsGoOn ==
  Spec => [][/\ \A t \in Threads : ThreadStep(t) => op'[t].at # op[t].at
             /\ \A t \in Threads :
                  (op'[t].at # op[t].at /\ ~At(t, "idle"))
                    => Place[op[t].at] < Place[op'[t].at]]_vars
<1> DEFINE On(t) == (op'[t].at # op[t].at /\ ~At(t, "idle"))
                      => Place[op[t].at] < Place[op'[t].at]
           Further == /\ \A t \in Threads : ThreadStep(t) => op'[t].at # op[t].at
                      /\ \A t \in Threads : On(t)
<1>0. Idle.at = "idle"
  BY DEF Idle
<1>1. ASSUME TypeOK, NEW t \in Threads, ThreadStep(t)
      PROVE  /\ Place[op[t].at] < Place[op'[t].at] /\ op'[t].at # op[t].at
             /\ \A u \in Threads \ {t} : op'[u] = op[u]
  <2>1. op[t] \in Calls /\ \A u \in Threads \ {t} : op'[u] = op[u]
    BY <1>1 DEF TypeOK, ThreadStep, CreateMeta, CreateBody, CreateFails, IsManaged, Open, OpenFails,
       Close, CloseFails, RemoveBody, Go, Return
  <2>2. CASE CreateMeta(t) \/ CreateBody(t) \/ CreateFails(t)
    BY <1>1, <2>1, <2>2 DEF CreateMeta, CreateBody, CreateFails, At, Go, TypeOK, Calls, Place
  <2>3. CASE IsManaged(t)
    BY <1>0, <1>1, <2>1, <2>3 DEF IsManaged, At, Go, Return, TypeOK, Calls, Place
  <2>4. CASE Open(t)
    BY <1>1, <2>1, <2>4 DEF Open, At, TypeOK, Calls, Place
  <2>5. CASE OpenFails(t) \/ Close(t) \/ CloseFails(t) \/ RemoveBody(t)
    BY <1>0, <1>1, <2>1, <2>5 DEF OpenFails, Close, CloseFails, RemoveBody, At, Return, TypeOK, Place
  <2> QED  BY <1>1, <2>1, <2>2, <2>3, <2>4, <2>5 DEF ThreadStep
<1>2. ASSUME TypeOK, NEW t \in Threads, NEW i \in Images, Call(t, i), NEW u \in Threads
      PROVE  On(u)
  <2>1. op[t].at = "idle"
    BY <1>2 DEF Call, Add, Save, Load, Delete, At
  <2>2. CASE Delete(t, i)
    BY <1>2, <2>1, <2>2 DEF Delete, Unlinked, At, TypeOK, Calls
  <2>3. CASE Load(t, i) \/ \E v \in Versions : Add(t, i, v) \/ Save(t, i, v)
    BY <1>2, <2>1, <2>3 DEF Load, Add, Save, Begin, At, TypeOK
  <2> QED  BY <1>2, <2>2, <2>3 DEF Call
<1>3. ASSUME TypeOK, NEW p \in Crashes, Crash(p), NEW t \in Threads PROVE On(t)
  <2>1. op'[t] = op[t] \/ op'[t] = Idle
    BY <1>3 DEF Crash
  <2>2. op[t].at \in {"idle", "createmeta", "createbody", "ismanaged", "open", "close",
                      "removebody"}
    BY <1>3 DEF TypeOK, Calls
  <2> QED  BY <1>0, <2>1, <2>2 DEF At, Place
<1>4. ASSUME TypeOK, Next PROVE Further
  <2>1. \A t \in Threads : ThreadStep(t) => op'[t].at # op[t].at
    BY <1>1, <1>4
  <2>2. \A t \in Threads : On(t)
    BY <1>1, <1>2, <1>3, <1>4 DEF Next
  <2> QED  BY <2>1, <2>2
<1>5. IInv /\ [Next]_vars => [Further]_vars
  BY <1>4 DEF IInv
<1> QED  BY <1>5, Invariant, PTL DEF Spec
=============================================================================
