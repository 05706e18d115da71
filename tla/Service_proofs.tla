--------------------------- MODULE Service_proofs ---------------------------
(***************************************************************************)
(* Proofs about module Service, for any number of builders, of deletions,  *)
(* of threads that serve requests and of requests.                         *)
(***************************************************************************)
EXTENDS Service, TLAPS

\* What a thread has done tells the status of its image.
StatusFollows ==
  \A i \in Images :
    /\ pc[i] \in {"none", "started"} => status[i] = "NEW"
    /\ pc[i] = "building" => status[i] = "BUILDING"
    /\ pc[i] = "save" => status[i] = "COMPLETE"
    /\ pc[i] = "failsave" => status[i] = "FAILED"
    /\ pc[i] \in {"finally", "shutdown", "ended"} => status[i] \in {"COMPLETE", "FAILED"}
    /\ stored[i] = "FAILED" => status[i] = "FAILED"
    /\ stored[i] = "DELETEFAILED" => i \in Decided

\* The main thread starts each thread once, and registers what it has started; a
\* deletion has an image.
MainFollows ==
  /\ main \in {"observe", "observing", "launch"} => current \in Images /\ pc[current] = "none"
  /\ main \in {"register", "acquired", "registered"} => current \in Images
  /\ main = "loading" => current \in Deleters /\ deletion[current].at = "loaded"
  /\ \A d \in Deleters : deletion[d].at # "idle" => deletion[d].image \in Images

\* A notification of a failure or of a deletion tells the truth, whoever posts it.
TrueNews(p) ==
  LET n == post[p] IN
  /\ n.phase # "quiet" => n.image \in Images
  /\ n.phase # "quiet" /\ n.status = "FAILED" => status[n.image] = "FAILED"
  /\ n.phase # "quiet" /\ n.status \in {"DELETED", "DELETEFAILED"} => n.image \in Decided
  /\ n.phase = "forget" => n.status \in Final
NewsIsTrue == \A p \in Posters : TrueNews(p)

\* A failure is on its way to the dispatcher until the dispatcher was told.
FailureIsNews ==
  \A i \in Images : status[i] = "FAILED" =>
    \/ i \in told
    \/ /\ pc[i] = "failsave" /\ post[i].image = i /\ post[i].status = "FAILED"
       /\ post[i].phase \in {"lock", "forget", "dead"}

\* A builder that is there though its failure was told came after that.
ToldIsLate == builders \cap told \subseteq late

IInv ==
  /\ TypeOK /\ StatusFollows /\ MainFollows /\ NewsIsTrue /\ FailureIsNews /\ ToldIsLate
  /\ NotForgotten

\* What TypeOK says of the functions.
LEMMA Types ==
  ASSUME TypeOK
  PROVE  /\ DOMAIN pc = Images /\ DOMAIN status = Images /\ DOMAIN stored = Images
         /\ DOMAIN post = Posters /\ DOMAIN requests = Pool /\ DOMAIN deletion = Deleters
         /\ Images \subseteq Posters /\ Pool \subseteq Posters /\ Deleters \subseteq Posters
         /\ \A p \in Posters : post[p] = [phase |-> post[p].phase, image |-> post[p].image,
                                           status |-> post[p].status]
<1> QED
  BY DEF TypeOK, Posters

\* A notification that moves on is one still.
LEMMA PhaseTypes ==
  ASSUME TypeOK, NEW p \in Posters, NEW f \in Phases, post' = [post EXCEPT ![p].phase = f]
  PROVE  /\ post' \in [Posters -> [phase : Phases, image : Images \cup {None},
                                   status : Statuses]]
         /\ post'[p].phase = f /\ post'[p].image = post[p].image
         /\ post'[p].status = post[p].status
         /\ \A q \in Posters \ {p} : post'[q] = post[q]
<1> QED
  BY DEF TypeOK

\* So is a deletion that does.
DeletionPlaces == {"idle", "loaded", "started", "deleting", "undeleted", "deleted"}
LEMMA DeletionTypes ==
  ASSUME TypeOK, NEW d \in Deleters, NEW to \in DeletionPlaces,
         deletion' = [deletion EXCEPT ![d].at = to]
  PROVE  /\ deletion' \in [Deleters -> [at : DeletionPlaces, image : Images \cup {None}]]
         /\ deletion'[d].at = to /\ deletion'[d].image = deletion[d].image
         /\ \A e \in Deleters \ {d} : deletion'[e] = deletion[e]
<1>1. deletion \in [Deleters -> [at : DeletionPlaces, image : Images \cup {None}]]
  BY DEF TypeOK, DeletionPlaces
<1> QED
  BY <1>1

LEMMA InitInv == Init => IInv
<1> QED
  BY ActorsAssumption, RequestsAssumption
  DEF Init, IInv, TypeOK, StatusFollows, MainFollows, NewsIsTrue, TrueNews, FailureIsNews,
      ToldIsLate, NotForgotten, Quiet, Phases, Statuses, Posters

LEMMA SameDecided == UNCHANGED deletion => Decided' = Decided
<1> QED
  BY DEF Decided

\* The parts of the invariant look at these variables only.
LEMMA Untouched ==
  ASSUME IInv, TypeOK', MainFollows',
         UNCHANGED <<pc, status, stored, deletion, post, builders, known, told, late>>
  PROVE  IInv'
<1> QED
  BY SameDecided
  DEF IInv, StatusFollows, NewsIsTrue, TrueNews, FailureIsNews, ToldIsLate, NotForgotten

\* Failures and decided deletions stay so: what was news and true stays true, and
\* a notification that is posted then is true if it is now.
LEMMA PostedNews ==
  ASSUME TypeOK, NewsIsTrue, NEW p \in Posters, NEW i \in Images, NEW s \in Statuses,
         Posts(p, i, s),
         \A j \in Images : status[j] = "FAILED" => status'[j] = "FAILED",
         Decided \subseteq Decided',
         s = "FAILED" => status'[i] = "FAILED",
         s \in {"DELETED", "DELETEFAILED"} => i \in Decided'
  PROVE  /\ NewsIsTrue'
         /\ post' \in [Posters -> [phase : Phases, image : Images \cup {None},
                                   status : Statuses]]
         /\ post'[p].phase = "lock" /\ \A q \in Posters \ {p} : post'[q] = post[q]
<1>1. /\ post'[p] = [phase |-> "lock", image |-> i, status |-> s]
      /\ \A q \in Posters \ {p} : post'[q] = post[q]
      /\ post' \in [Posters -> [phase : Phases, image : Images \cup {None}, status : Statuses]]
  BY DEF Posts, TypeOK, Phases
<1>2. ASSUME NEW q \in Posters PROVE TrueNews(q)'
  <2>1. CASE q = p
    BY <1>1, <2>1, SameDecided DEF TrueNews
  <2>2. CASE q # p
    BY <1>1, <2>2, SameDecided DEF NewsIsTrue, TrueNews
  <2> QED
    BY <2>1, <2>2
<1> QED
  BY <1>1, <1>2 DEF NewsIsTrue

-----------------------------------------------------------------------------
\* The passage of a notification.
LEMMA PostingKeeps == ASSUME NEW p \in Posters, IInv, Posting(p) PROVE IInv'
<1> USE DEF IInv
<1>0. Images \subseteq Posters
  BY DEF Posters
<1>1. CASE Notify(p)
  <2>1. PICK f \in {"dead", "forget", "unlock"} :
          /\ post' = [post EXCEPT ![p].phase = f]
          /\ f = "forget" => Concerns(post[p].status)
          /\ f = "unlock" => ~ Concerns(post[p].status)
    BY <1>1 DEF Notify, Phase
  <2>2. post[p].phase = "lock" /\ center' = p
        /\ UNCHANGED <<main, current, pc, status, stored, deletion, requests, builders, regLock,
                       observers, workers, aborted, known, told, late, cut>>
    BY <1>1 DEF Notify, history
  <2>3. Concerns(post[p].status) <=> post[p].status \in Final
    BY DEF Concerns
  <2>a. /\ post' \in [Posters -> [phase : Phases, image : Images \cup {None},
                                   status : Statuses]]
        /\ post'[p].phase = f /\ post'[p].image = post[p].image
        /\ post'[p].status = post[p].status
        /\ \A q \in Posters \ {p} : post'[q] = post[q]
    BY <2>1, PhaseTypes DEF Phases
  <2>4. TypeOK'
    BY <2>a, <2>2 DEF TypeOK
  <2>5. NewsIsTrue'
    BY <2>a, <2>1, <2>2, <2>3, SameDecided DEF NewsIsTrue, TrueNews
  <2>6. FailureIsNews'
    BY <1>0, <2>a, <2>1, <2>2, <2>3 DEF FailureIsNews, Final
  <2> QED
    BY <2>2, <2>4, <2>5, <2>6, SameDecided DEF StatusFollows, MainFollows, ToldIsLate, NotForgotten
<1>2. CASE Forget(p)
  <2> DEFINE j == post[p].image
  <2>1. /\ post' = [post EXCEPT ![p].phase = "forgotten"] /\ post[p].phase = "forget"
        /\ regLock' = p /\ builders' = builders \ {j} /\ told' = told \cup {j}
        /\ UNCHANGED <<main, current, pc, status, stored, deletion, requests, center, observers, workers,
                       aborted, known, late, cut>>
    BY <1>2 DEF Forget, Phase
  <2>2. j \in Images /\ (status[j] = "FAILED" \/ j \in Decided)
    <3>1. TrueNews(p) /\ post[p].status \in Statuses
      BY DEF NewsIsTrue, TypeOK
    <3> QED
      BY <2>1, <3>1, SameDecided DEF TrueNews, Final, Statuses
  <2>a. /\ post' \in [Posters -> [phase : Phases, image : Images \cup {None},
                                   status : Statuses]]
        /\ post'[p].phase = "forgotten" /\ post'[p].image = post[p].image
        /\ post'[p].status = post[p].status
        /\ \A q \in Posters \ {p} : post'[q] = post[q]
    BY <2>1, PhaseTypes DEF Phases
  <2>3. TypeOK'
    BY <2>a, <2>1, <2>2 DEF TypeOK
  <2>4. NewsIsTrue'
    BY <2>a, <2>1, SameDecided DEF NewsIsTrue, TrueNews
  <2>5. FailureIsNews'
    BY <1>0, <2>a, <2>1, <2>2 DEF FailureIsNews
  <2>6. NotForgotten' /\ ToldIsLate'
    BY <2>1, <2>2, SameDecided DEF NotForgotten, ToldIsLate
  <2> QED
    BY <2>1, <2>3, <2>4, <2>5, <2>6, SameDecided DEF StatusFollows, MainFollows
<1>3. CASE Forgotten(p) \/ Unlock(p)
  <2>1. PICK f \in {"unlock", "quiet"} : post' = [post EXCEPT ![p].phase = f]
    BY <1>3 DEF Forgotten, Unlock, Phase
  <2>2. /\ post[p].phase \in {"forgotten", "unlock"}
        /\ center' \in {center, None} /\ regLock' \in {regLock, None}
        /\ UNCHANGED <<main, current, pc, status, stored, deletion, requests, builders, observers,
                       workers, aborted, known, told, late, cut>>
    BY <1>3 DEF Forgotten, Unlock, history
  <2>a. /\ post' \in [Posters -> [phase : Phases, image : Images \cup {None},
                                   status : Statuses]]
        /\ post'[p].phase = f /\ post'[p].image = post[p].image
        /\ post'[p].status = post[p].status
        /\ \A q \in Posters \ {p} : post'[q] = post[q]
    BY <2>1, PhaseTypes DEF Phases
  <2>3. TypeOK'
    BY <2>a, <2>2 DEF TypeOK
  <2>4. NewsIsTrue' /\ FailureIsNews'
    BY <1>0, <2>a, <2>1, <2>2, SameDecided DEF NewsIsTrue, TrueNews, FailureIsNews
  <2> QED
    BY <2>2, <2>3, <2>4, SameDecided DEF StatusFollows, MainFollows, ToldIsLate, NotForgotten
<1> QED
  BY <1>1, <1>2, <1>3 DEF Posting

\* A thread sets the status of its image, which did not fail so far, and posts it.
SetAt(s) == IF s = "BUILDING" THEN "building" ELSE IF s = "COMPLETE" THEN "save" ELSE "failsave"
LEMMA SettingKeeps ==
  ASSUME NEW i \in Images, NEW s \in {"BUILDING", "COMPLETE", "FAILED"},
         IInv, pc[i] \in {"started", "building", "save"}, SetStatus(i, s), Goes(i, SetAt(s)),
         UNCHANGED <<main, current, stored, deletion, shared, history>>
  PROVE  IInv'
<1> USE DEF IInv
<1>1. /\ i \in Posters /\ status[i] # "FAILED" /\ stored[i] # "FAILED"
      /\ status' = [status EXCEPT ![i] = s] /\ Posts(i, i, s)
      /\ pc' = [pc EXCEPT ![i] = SetAt(s)]
      /\ UNCHANGED <<main, current, stored, deletion, requests, center, builders, regLock, observers,
                     workers, aborted, known, told, late, cut>>
  BY DEF StatusFollows, SetStatus, Goes, Posters, shared, history
<1>2. /\ \A j \in Images : status[j] = "FAILED" => status'[j] = "FAILED"
      /\ status'[i] = s /\ s \in Statuses
  BY <1>1, Types DEF Statuses
<1>3. /\ NewsIsTrue'
      /\ post' \in [Posters -> [phase : Phases, image : Images \cup {None}, status : Statuses]]
      /\ post'[i].phase = "lock" /\ \A q \in Posters \ {i} : post'[q] = post[q]
  BY <1>1, <1>2, SameDecided, PostedNews
<1>4. TypeOK'
  BY <1>1, <1>3 DEF TypeOK, SetAt
<1>5. StatusFollows'
  BY <1>1, SameDecided DEF StatusFollows, TypeOK, SetAt
<1>6. MainFollows'
  BY <1>1 DEF MainFollows, TypeOK
<1>7. FailureIsNews'
  <2> SUFFICES ASSUME NEW j \in Images, status'[j] = "FAILED"
               PROVE  \/ j \in told'
                      \/ /\ pc'[j] = "failsave" /\ post'[j].image = j /\ post'[j].status = "FAILED"
                         /\ post'[j].phase \in {"lock", "forget", "dead"}
      BY DEF FailureIsNews
  <2>1. CASE j = i
    BY <1>1, <1>2, <2>1, Types DEF SetAt, Posts
  <2>2. CASE j # i
    BY <1>1, <1>3, <2>2, Types DEF FailureIsNews
  <2> QED
    BY <2>1, <2>2
<1>8. ToldIsLate' /\ NotForgotten'
  BY <1>1, SameDecided DEF ToldIsLate, NotForgotten, TypeOK
<1> QED
  BY <1>3, <1>4, <1>5, <1>6, <1>7, <1>8

\* The steps of a builder's thread.
LEMMA BuildingKeeps == ASSUME NEW i \in Images, IInv, Building(i) PROVE IInv'
<1> USE DEF IInv
<1>1. CASE Begins(i)
  BY <1>1, SettingKeeps DEF Begins, SetAt
<1>2. CASE Succeeds(i)
  BY <1>2, SettingKeeps DEF Succeeds, SetAt
<1>3. CASE Fails(i)
  BY <1>3, SettingKeeps DEF Fails, SetAt
<1>4. CASE Saves(i) \/ FailSaves(i)
  <2>1. /\ pc[i] \in {"save", "failsave"} /\ post[i].phase = "quiet"
        /\ stored' \in {stored, [stored EXCEPT ![i] = status[i]]}
        /\ pc' = [pc EXCEPT ![i] = "finally"]
        /\ UNCHANGED <<main, current, status, deletion, post, requests, center, builders, regLock,
                       observers, workers, aborted, known, told, late, cut>>
    BY <1>4 DEF Saves, FailSaves, Quietly, Goes, shared, history
  <2>2. TypeOK'
    <3>1. status[i] \in {"COMPLETE", "FAILED"}
      BY <2>1 DEF StatusFollows
    <3>2. stored' \in [Images -> {"none", "NEW", "COMPLETE", "FAILED", "DELETEFAILED"}]
      BY <2>1, <3>1 DEF TypeOK
    <3> QED
      BY <2>1, <3>2 DEF TypeOK
  <2>3. StatusFollows' /\ MainFollows'
    <3>1. StatusFollows'
      BY <2>1, Types, SameDecided DEF StatusFollows
    <3>2. MainFollows'
      BY <2>1, Types DEF MainFollows
    <3> QED
      BY <3>1, <3>2
  <2>4. FailureIsNews'
    <3> SUFFICES ASSUME NEW j \in Images, status'[j] = "FAILED"
                 PROVE  \/ j \in told'
                        \/ /\ pc'[j] = "failsave" /\ post'[j].image = j /\ post'[j].status = "FAILED"
                           /\ post'[j].phase \in {"lock", "forget", "dead"}
        BY DEF FailureIsNews
    <3> QED
      BY <2>1, Types DEF FailureIsNews
  <2> QED
    BY <2>1, <2>2, <2>3, <2>4, SameDecided DEF NewsIsTrue, TrueNews, ToldIsLate, NotForgotten
<1>5. CASE Unobserve(i) \/ ShutDown(i)
  <2>1. PICK place \in {"shutdown", "ended"} : pc' = [pc EXCEPT ![i] = place]
    BY <1>5 DEF Unobserve, ShutDown, Goes
  <2>2. /\ pc[i] \in {"finally", "shutdown"}
        /\ observers' \subseteq observers /\ workers' \subseteq workers
        /\ UNCHANGED <<main, current, status, stored, deletion, post, requests, center, builders,
                       regLock, aborted, known, told, late, cut>>
    BY <1>5 DEF Unobserve, ShutDown, history
  <2>3. TypeOK'
    BY <2>1, <2>2 DEF TypeOK
  <2>4. StatusFollows' /\ MainFollows'
    <3>1. StatusFollows'
      BY <2>1, <2>2, SameDecided DEF StatusFollows, TypeOK
    <3>2. MainFollows'
      BY <2>1, <2>2 DEF MainFollows, TypeOK
    <3> QED
      BY <3>1, <3>2
  <2>5. FailureIsNews'
    <3> SUFFICES ASSUME NEW j \in Images, status'[j] = "FAILED"
                 PROVE  \/ j \in told'
                        \/ /\ pc'[j] = "failsave" /\ post'[j].image = j /\ post'[j].status = "FAILED"
                           /\ post'[j].phase \in {"lock", "forget", "dead"}
        BY DEF FailureIsNews
    <3> QED
      BY <2>1, <2>2, Types DEF FailureIsNews
  <2> QED
    BY <2>2, <2>3, <2>4, <2>5, SameDecided DEF NewsIsTrue, TrueNews, ToldIsLate, NotForgotten
<1> QED
  BY <1>1, <1>2, <1>3, <1>4, <1>5 DEF Building, Ending

-----------------------------------------------------------------------------
\* The steps of the main thread and of those that serve requests.
LEMMA MainKeeps ==
  ASSUME IInv,
         \/ MainGoesOn \/ Join \/ \E i \in Images : Create(i)
         \/ \E d \in Deleters, i \in Images : LoadToDelete(d, i)
  PROVE  IInv'
<1> USE DEF IInv
<1>1. ASSUME NEW i \in Images, Create(i) PROVE IInv'
  <2>1. /\ pc[i] = "none" /\ stored' = [stored EXCEPT ![i] = "NEW"]
        /\ current' = i /\ main' \in {"observe", "launch"}
        /\ UNCHANGED <<pc, status, deletion, post, requests, center, builders, regLock, observers,
                       workers, aborted, known, told, late, cut>>
    BY <1>1 DEF Create, shared, history
  <2>2. TypeOK'
    BY <2>1 DEF TypeOK
  <2>3. StatusFollows'
    BY <2>1, SameDecided DEF TypeOK, StatusFollows
  <2>4. MainFollows'
    BY <2>1 DEF MainFollows
  <2> QED
    BY <2>1, <2>2, <2>3, <2>4, SameDecided DEF NewsIsTrue, TrueNews, FailureIsNews, ToldIsLate, NotForgotten
<1>2. CASE AddObserver \/ Observed \/ AcquireRegistry \/ ReleaseRegistry \/ Join
  <2>1. /\ UNCHANGED <<current, pc, status, stored, deletion, post, requests, builders, aborted, known,
                       told, late, cut>>
        /\ center' \in {Main, None, center} /\ regLock' \in {Main, None, regLock}
    BY <1>2 DEF AddObserver, Observed, AcquireRegistry, ReleaseRegistry, Join, shared, history
  <2>2. /\ observers' \subseteq observers \cup {current} /\ workers' \subseteq workers \cup {current}
        /\ main = "observe" \/ UNCHANGED <<observers, workers>>
    BY <1>2 DEF AddObserver, Observed, AcquireRegistry, ReleaseRegistry, Join, shared, history
  <2>3. \/ main = "observe" /\ main' = "observing"
        \/ main = "observing" /\ main' = "launch"
        \/ main = "register" /\ main' = "acquired"
        \/ main' \in {"ready", "gone"}
    BY <1>2 DEF AddObserver, Observed, AcquireRegistry, ReleaseRegistry, Join
  <2>4. TypeOK'
    <3>1. main = "observe" => current \in Images
      BY DEF MainFollows
    <3> QED
      BY <2>1, <2>2, <2>3, <3>1 DEF TypeOK
  <2>5. MainFollows'
    BY <2>1, <2>3 DEF MainFollows
  <2> QED
    BY <2>1, <2>4, <2>5, Untouched
<1>3. CASE Launch
  <2>1. /\ main = "launch" /\ main' = "register" /\ pc' = [pc EXCEPT ![current] = "started"]
        /\ UNCHANGED <<current, status, stored, deletion, post, requests, center, builders, regLock,
                       observers, workers, aborted, known, told, late, cut>>
    BY <1>3 DEF Launch, Goes, shared, history
  <2>2. current \in Images /\ pc[current] = "none" /\ status[current] = "NEW"
    BY <2>1, SameDecided DEF MainFollows, StatusFollows
  <2>3. TypeOK'
    BY <2>1, <2>2 DEF TypeOK
  <2>4. MainFollows'
    BY <2>1, <2>2 DEF MainFollows
  <2>5. DOMAIN pc = Images
    BY DEF TypeOK
  <2>6. StatusFollows'
    BY <2>1, <2>2, <2>5, SameDecided DEF StatusFollows
  <2>7. ASSUME NEW j \in Images, status[j] = "FAILED" PROVE pc'[j] = pc[j]
    BY <2>1, <2>2, <2>5, <2>7
  <2>8. FailureIsNews'
    BY <2>1, <2>7 DEF FailureIsNews
  <2> QED
    BY <2>1, <2>3, <2>4, <2>6, <2>8, SameDecided DEF NewsIsTrue, TrueNews, ToldIsLate, NotForgotten
<1>4. CASE Register
  <2>1. /\ main = "acquired" /\ main' = "registered"
        /\ builders' = builders \cup {current} /\ known' = known \cup {current}
        /\ late' = IF current \in told THEN late \cup {current} ELSE late
        /\ UNCHANGED <<current, pc, status, stored, deletion, post, requests, center, regLock, observers,
                       workers, aborted, told, cut>>
    BY <1>4 DEF Register
  <2>2. current \in Images
    BY <2>1 DEF MainFollows
  <2>3. TypeOK' /\ MainFollows'
    BY <2>1, <2>2 DEF TypeOK, MainFollows
  <2>4. ToldIsLate' /\ NotForgotten'
    BY <2>1, SameDecided DEF ToldIsLate, NotForgotten
  <2> QED
    BY <2>1, <2>3, <2>4, SameDecided DEF StatusFollows, NewsIsTrue, TrueNews, FailureIsNews
<1>5. ASSUME NEW d \in Deleters, NEW i \in Images, LoadToDelete(d, i) PROVE IInv'
  <2>1. /\ d \in Posters \ Images /\ Images \subseteq Posters \ {d}
        /\ main' = "loading" /\ current' = d
        /\ deletion[d].at = "idle" /\ stored[i] # "none"
        /\ deletion' = [deletion EXCEPT ![d] = [at |-> "loaded", image |-> i]]
        /\ UNCHANGED <<pc, status, stored, requests, center, builders, regLock, observers, workers,
                       aborted, known, told, late, cut>>
    BY <1>5, ActorsAssumption DEF LoadToDelete, Posters, shared, history
  <2>2. Decided \subseteq Decided'
    BY <2>1, Types DEF Decided
  <2>3. /\ NewsIsTrue'
        /\ post' \in [Posters -> [phase : Phases, image : Images \cup {None}, status : Statuses]]
        /\ \A q \in Posters \ {d} : post'[q] = post[q]
    <3>1. CASE stored[i] = "NEW"
      <4>1. post' = post
        BY <1>5, <3>1 DEF LoadToDelete
      <4> QED
        BY <2>1, <2>2, <4>1 DEF TypeOK, NewsIsTrue, TrueNews
    <3>2. CASE stored[i] # "NEW"
      <4>1. Posts(d, i, stored[i])
        BY <1>5, <3>2 DEF LoadToDelete
      <4>2. stored[i] \in Statuses
        BY <2>1 DEF TypeOK, Statuses
      <4>3. /\ stored[i] = "FAILED" => status'[i] = "FAILED"
            /\ stored[i] # "DELETED"
            /\ stored[i] = "DELETEFAILED" => i \in Decided
        BY <2>1, SameDecided DEF StatusFollows, TypeOK
      <4> QED
        BY <2>1, <2>2, <4>1, <4>2, <4>3, PostedNews
    <3> QED
      BY <3>1, <3>2
  <2>4. TypeOK'
    BY <2>1, <2>3 DEF TypeOK
  <2>5. StatusFollows'
    BY <2>1, <2>2, SameDecided DEF StatusFollows
  <2>6. MainFollows'
    BY <2>1, Types DEF MainFollows
  <2>7. FailureIsNews'
    BY <2>1, <2>3 DEF FailureIsNews
  <2> QED
    BY <2>1, <2>2, <2>3, <2>4, <2>5, <2>6, <2>7, SameDecided DEF ToldIsLate, NotForgotten
<1>6. CASE LaunchDeletion
  <2>1. /\ main = "loading" /\ main' = "ready" /\ deletion[current].at = "loaded"
        /\ deletion' = [deletion EXCEPT ![current].at = "started"]
        /\ UNCHANGED <<current, pc, status, stored, post, requests, center, builders, regLock,
                       observers, workers, aborted, known, told, late, cut>>
    BY <1>6 DEF LaunchDeletion, DeletionGoes, shared, history
  <2>2. current \in Deleters /\ DOMAIN deletion = Deleters
    BY <2>1, Types DEF MainFollows
  <2>3. Decided \subseteq Decided'
    BY <2>1, <2>2 DEF TypeOK, Decided
  <2>4. TypeOK'
    <3>1. deletion' \in [Deleters -> [at : DeletionPlaces, image : Images \cup {None}]]
      BY <2>1, <2>2, DeletionTypes DEF DeletionPlaces
    <3> QED
      BY <2>1, <3>1 DEF TypeOK, DeletionPlaces
  <2>5. StatusFollows'
    BY <2>1, <2>3, SameDecided DEF StatusFollows
  <2>6. MainFollows'
    <3>1. ASSUME NEW e \in Deleters, deletion'[e].at # "idle" PROVE deletion'[e].image \in Images
      BY <2>1, <2>2, <3>1, DeletionTypes DEF DeletionPlaces, MainFollows
    <3> QED
      BY <2>1, <3>1 DEF MainFollows
  <2>7. NewsIsTrue'
    BY <2>1, <2>3, SameDecided DEF NewsIsTrue, TrueNews
  <2> QED
    BY <2>1, <2>3, <2>4, <2>5, <2>6, <2>7, SameDecided DEF FailureIsNews, ToldIsLate, NotForgotten
<1> QED
  BY <1>1, <1>2, <1>3, <1>4, <1>5, <1>6 DEF MainGoesOn

\* The steps of the thread of a deletion.
LEMMA DeletingKeeps == ASSUME NEW d \in Deleters, IInv, Deleting(d) PROVE IInv'
<1> USE DEF IInv
<1> DEFINE i == deletion[d].image
<1>1. PICK to \in {"deleting", "undeleted", "deleted"} :
        /\ deletion' = [deletion EXCEPT ![d].at = to]
        /\ \/ deletion[d].at = "started" /\ to = "deleting"
           \/ deletion[d].at = "deleting" /\ to \in {"undeleted", "deleted"}
           \/ deletion[d].at = "undeleted" /\ to = "deleted"
  BY DEF Deleting, DeleteBegins, DeleteRemoves, DeleteFails, DeleteFailSaves, DeletionGoes
<1>2. UNCHANGED <<main, current, pc, status, requests, center, builders, regLock, observers,
                  workers, aborted, known, told, late, cut>>
  BY DEF Deleting, DeleteBegins, DeleteRemoves, DeleteFails, DeleteFailSaves, shared, history
<1>3. /\ d \in Posters \ Images /\ Images \subseteq Posters \ {d} /\ i \in Images
      /\ DOMAIN deletion = Deleters /\ deletion[d].at # "loaded"
  BY <1>1, ActorsAssumption, Types DEF MainFollows, Posters
<1>4. /\ \A e \in Deleters \ {d} : deletion'[e] = deletion[e]
      /\ deletion'[d].at = to /\ deletion'[d].image = i
      /\ deletion' \in [Deleters -> [at : {"idle", "loaded", "started", "deleting", "undeleted",
                                           "deleted"},
                                     image : Images \cup {None}]]
  BY <1>1, DeletionTypes DEF DeletionPlaces
<1>5. /\ Decided \subseteq Decided'
      /\ to # "deleting" => i \in Decided'
  BY <1>1, <1>4 DEF Decided
<1>6. \/ Posts(d, i, "DELETING")
      \/ to # "deleting" /\ \E s \in {"DELETED", "DELETEFAILED"} : Posts(d, i, s)
      \/ UNCHANGED post
  <2>1. CASE DeleteBegins(d)
    BY <2>1 DEF DeleteBegins
  <2>2. CASE DeleteRemoves(d) \/ DeleteFails(d)
    <3>1. to # "deleting"
      BY <1>4, <2>2, <1>1 DEF DeleteRemoves, DeleteFails, DeletionGoes
    <3> QED
      BY <2>2, <3>1 DEF DeleteRemoves, DeleteFails
  <2>3. CASE DeleteFailSaves(d)
    BY <2>3 DEF DeleteFailSaves
  <2> QED
    BY <2>1, <2>2, <2>3 DEF Deleting
<1> HIDE DEF i
<1>7. /\ NewsIsTrue'
      /\ post' \in [Posters -> [phase : Phases, image : Images \cup {None}, status : Statuses]]
      /\ \A q \in Posters \ {d} : post'[q] = post[q]
  <2>1. CASE UNCHANGED post
    BY <1>2, <1>5, <2>1, SameDecided DEF TypeOK, NewsIsTrue, TrueNews
  <2>2. CASE \/ Posts(d, i, "DELETING")
             \/ to # "deleting" /\ \E s \in {"DELETED", "DELETEFAILED"} : Posts(d, i, s)
    <3>1. PICK s \in {"DELETING", "DELETED", "DELETEFAILED"} :
            Posts(d, i, s) /\ (s # "DELETING" => to # "deleting")
      BY <2>2
    <3>2. s \in Statuses /\ s # "FAILED"
      BY DEF Statuses
    <3> QED
      BY <1>2, <1>3, <1>5, <3>1, <3>2, PostedNews
  <2> QED
    BY <1>6, <2>1, <2>2
<1>8. \/ stored' = stored
      \/ stored' = [stored EXCEPT ![i] = "none"]
      \/ to # "deleting" /\ stored' = [stored EXCEPT ![i] = "DELETEFAILED"]
  <2>1. CASE DeleteFailSaves(d)
    <3>1. to # "deleting"
      BY <1>4, <2>1, <1>1 DEF DeleteFailSaves, DeletionGoes
    <3> QED
      BY <2>1, <3>1 DEF DeleteFailSaves, i
  <2>2. CASE DeleteBegins(d) \/ DeleteRemoves(d) \/ DeleteFails(d)
    BY <2>2 DEF DeleteBegins, DeleteRemoves, DeleteFails, i
  <2> QED
    BY <2>1, <2>2 DEF Deleting
<1>9. TypeOK'
  <2>1. stored' \in [Images -> {"none", "NEW", "COMPLETE", "FAILED", "DELETEFAILED"}]
    BY <1>3, <1>8 DEF TypeOK
  <2> QED
    BY <1>2, <1>4, <1>7, <2>1 DEF TypeOK
<1>10. StatusFollows'
  <2> SUFFICES ASSUME NEW j \in Images
               PROVE  /\ stored'[j] = "FAILED" => stored[j] = "FAILED"
                      /\ stored'[j] = "DELETEFAILED" => j \in Decided'
      BY <1>2, SameDecided DEF StatusFollows
  <2>1. stored[j] = "DELETEFAILED" => j \in Decided'
    BY <1>5 DEF StatusFollows
  <2>2. \/ stored'[j] = stored[j] \/ stored'[j] = "none"
        \/ stored'[j] = "DELETEFAILED" /\ j \in Decided'
    BY <1>3, <1>5, <1>8, Types
  <2> QED
    BY <2>1, <2>2
<1>11. MainFollows'
  <2>1. ASSUME NEW e \in Deleters, deletion'[e].at # "idle" PROVE deletion'[e].image \in Images
    BY <1>3, <1>4, <2>1 DEF MainFollows
  <2>2. main = "loading" => current \in Deleters \ {d} /\ deletion[current].at = "loaded"
    BY <1>3 DEF MainFollows
  <2> QED
    BY <1>2, <1>4, <2>1, <2>2 DEF MainFollows
<1>12. FailureIsNews'
  BY <1>2, <1>3, <1>7 DEF FailureIsNews
<1>13. ToldIsLate' /\ NotForgotten'
  BY <1>2, <1>5, SameDecided DEF ToldIsLate, NotForgotten, TypeOK
<1> QED
  BY <1>7, <1>9, <1>10, <1>11, <1>12, <1>13

LEMMA SignalKeeps == ASSUME IInv, Sigterm \/ Sigint PROVE IInv'
<1> USE DEF IInv
<1>1. /\ main' = "gone" /\ regLock' \in {None, regLock}
      /\ cut' \subseteq cut \cup {"center", "builders"}
      /\ UNCHANGED <<current, pc, status, stored, deletion, requests, center, builders, observers,
                     workers, known, told, late>>
  BY DEF Sigterm, Sigint, Leaves
<1>2. aborted' \subseteq Images
  BY DEF Sigterm, Sigint, TypeOK
<1>3. \/ post' = post
      \/ /\ current \in Deleters /\ post' = [post EXCEPT ![current].phase = "broken"]
         /\ post[current].phase # "quiet"
  BY DEF Sigterm, Sigint, Leaves, Broken, Phase, MainFollows
<1>4. CASE post' = post
  <2>1. TypeOK'
    BY <1>1, <1>2, <1>4 DEF TypeOK
  <2>2. MainFollows'
    BY <1>1 DEF MainFollows
  <2> QED
    BY <1>1, <1>4, <2>1, <2>2, Untouched
<1>5. CASE /\ current \in Deleters /\ post' = [post EXCEPT ![current].phase = "broken"]
           /\ post[current].phase # "quiet"
  <2>1. current \in Posters \ Images /\ Images \subseteq Posters \ {current}
    BY <1>5, ActorsAssumption DEF Posters
  <2>2. /\ post' \in [Posters -> [phase : Phases, image : Images \cup {None},
                                   status : Statuses]]
        /\ post'[current].phase = "broken" /\ post'[current].image = post[current].image
        /\ post'[current].status = post[current].status
        /\ \A q \in Posters \ {current} : post'[q] = post[q]
    BY <1>5, <2>1, PhaseTypes DEF Phases
  <2>3. TypeOK'
    BY <1>1, <1>2, <2>2 DEF TypeOK
  <2>4. MainFollows'
    BY <1>1 DEF MainFollows
  <2>5. NewsIsTrue'
    BY <1>1, <1>5, <2>2, SameDecided DEF NewsIsTrue, TrueNews
  <2>6. FailureIsNews'
    BY <1>1, <2>1, <2>2 DEF FailureIsNews
  <2> QED
    BY <1>1, <2>3, <2>4, <2>5, <2>6, SameDecided DEF StatusFollows, ToldIsLate, NotForgotten
<1> QED
  BY <1>3, <1>4, <1>5

LEMMA LoadKeeps == ASSUME NEW p \in Pool, NEW i \in Images, IInv, Load(p, i) PROVE IInv'
<1> USE DEF IInv
<1>1. /\ p \in Posters \ Images /\ Images \subseteq Posters \ {p}
      /\ requests[p] > 0 /\ requests' = [requests EXCEPT ![p] = @ - 1]
      /\ stored[i] \notin {"none", "NEW"} /\ Posts(p, i, stored[i])
      /\ UNCHANGED <<main, current, pc, status, stored, deletion, center, builders, regLock, observers,
                     workers, aborted, known, told, late, cut>>
  BY ActorsAssumption DEF Load, Posters, history
<1>2. requests'[p] \in 0 .. Requests
  <2>1. requests[p] \in 0 .. Requests /\ requests'[p] = requests[p] - 1
    BY <1>1 DEF TypeOK
  <2> QED
    BY <1>1, <2>1, RequestsAssumption
<1>3. /\ stored[i] \in Statuses /\ stored[i] # "DELETED"
      /\ stored[i] = "FAILED" => status'[i] = "FAILED"
      /\ stored[i] = "DELETEFAILED" => i \in Decided'
  BY <1>1, SameDecided DEF TypeOK, Statuses, StatusFollows
<1>4. /\ NewsIsTrue'
      /\ post' \in [Posters -> [phase : Phases, image : Images \cup {None}, status : Statuses]]
      /\ \A q \in Posters \ {p} : post'[q] = post[q]
  BY <1>1, <1>3, SameDecided, PostedNews
<1>5. TypeOK'
  BY <1>1, <1>2, <1>4 DEF TypeOK
<1>6. FailureIsNews'
  BY <1>1, <1>4 DEF FailureIsNews
<1> QED
  BY <1>1, <1>4, <1>5, <1>6, SameDecided DEF StatusFollows, MainFollows, ToldIsLate, NotForgotten

LEMMA NextKeeps == IInv /\ [Next]_vars => IInv'
<1> SUFFICES ASSUME IInv, [Next]_vars PROVE IInv'
    OBVIOUS
<1>1. CASE UNCHANGED vars
  <2>1. TypeOK'
    BY <1>1 DEF vars, IInv, TypeOK
  <2>2. MainFollows'
    BY <1>1 DEF vars, IInv, MainFollows
  <2> QED
    BY <1>1, <2>1, <2>2, Untouched DEF vars
<1>2. ASSUME NEW p \in Posters, Posting(p) PROVE IInv'
  BY <1>2, PostingKeeps
<1>3. ASSUME NEW i \in Images, Building(i) PROVE IInv'
  BY <1>3, BuildingKeeps
<1>4. ASSUME NEW d \in Deleters, Deleting(d) PROVE IInv'
  BY <1>4, DeletingKeeps
<1>5. CASE \/ MainGoesOn \/ Join \/ \E i \in Images : Create(i)
           \/ \E d \in Deleters, i \in Images : LoadToDelete(d, i)
  BY <1>5, MainKeeps
<1>6. ASSUME NEW p \in Pool, NEW i \in Images, Load(p, i) PROVE IInv'
  BY <1>6, LoadKeeps
<1>7. CASE Sigterm \/ Sigint
  BY <1>7, SignalKeeps
<1> QED
  BY <1>1, <1>2, <1>3, <1>4, <1>5, <1>6, <1>7 DEF Next, Stop

LEMMA Inductive == Spec => []IInv
<1> QED
  BY InitInv, NextKeeps, PTL DEF Spec

-----------------------------------------------------------------------------
\* The dispatcher never forgets a builder whose image has neither failed nor been
\* deleted, in vain or not, for any number of builders, deletions and requests
\* (BuildDispatcher.py:29-37, Builder.py:460-472).
THEOREM RegistryKeeps == Spec => []NotForgotten
<1>1. IInv => NotForgotten
  BY DEF IInv
<1> QED
  BY <1>1, Inductive, PTL

\* A builder of a failed image that stays in the registry was registered after
\* its failure had been notified (BuildDispatcher.py:41-44): whoever is
\* registered in time is forgotten before its thread ends.
THEOREM RegistryForgets == Spec => []LeftoverIsLate
<1>1. IInv => LeftoverIsLate
  BY DEF IInv, TypeOK, FailureIsNews, ToldIsLate, LeftoverIsLate
<1> QED
  BY <1>1, Inductive, PTL

-----------------------------------------------------------------------------
(* Deadlock.                                                               *)

\* Who is in a lock is its holder, so that nobody else is.
HoldersAreIn ==
  /\ \A p \in Posters :
       /\ post[p].phase \in WithCenter => center = p
       /\ post[p].phase = "forgotten" => regLock = p
  /\ main = "observing" => center = Main
  /\ main \in {"acquired", "registered"} => regLock = Main

\* A callback worker that is an observer takes work; so notifying never raises.
ObserversWork ==
  /\ observers \subseteq workers
  /\ \A i \in Images : pc[i] \in {"shutdown", "ended"} => i \notin observers
  /\ \A p \in Posters : post[p].phase # "dead"

\* A thread posts one notification after the other.  What a signal breaks off is
\* what the main thread posts of an image that it loads.
OneAtATime ==
  /\ \A i \in Images : pc[i] \in {"none", "started"} => post[i].phase = "quiet"
  /\ \A d \in Deleters : deletion[d].at = "idle" => post[d].phase = "quiet"
  /\ \A p \in Posters :
       post[p].phase = "broken" => p \in Deleters /\ deletion[p].at = "loaded"

\* Whoever holds a lock is about to give it back: the registry's without waiting
\* for anything, the center's without waiting for anything but the registry's.
\* Only a signal leaves a lock taken (NotificationCenter.py:69-77,
\* BuildDispatcher.py:29-44).
HoldersGoOn ==
  /\ regLock # None =>
       \/ "builders" \in cut
       \/ regLock = Main /\ main \in {"acquired", "registered"}
       \/ regLock \in Posters /\ post[regLock].phase = "forgotten"
  /\ center # None =>
       \/ "center" \in cut
       \/ center = Main /\ main = "observing"
       \/ center \in Posters /\ post[center].phase \in WithCenter

LInv == IInv /\ HoldersAreIn /\ ObserversWork /\ OneAtATime /\ HoldersGoOn

\* What a step of a notification does to its phase and to the locks.
LEMMA PostingSteps ==
  ASSUME NEW p \in Posters, LInv, Posting(p)
  PROVE  /\ \A q \in Posters \ {p} : post'[q] = post[q]
         /\ UNCHANGED <<main, pc, deletion, observers, workers, cut>>
         /\ \/ /\ post[p].phase = "lock" /\ post'[p].phase \in {"forget", "unlock"}
               /\ center = None /\ center' = p /\ regLock' = regLock
            \/ /\ post[p].phase = "forget" /\ post'[p].phase = "forgotten"
               /\ regLock = None /\ regLock' = p /\ center' = center
            \/ /\ post[p].phase = "forgotten" /\ post'[p].phase = "unlock"
               /\ regLock' = None /\ center' = center
            \/ /\ post[p].phase = "unlock" /\ post'[p].phase = "quiet"
               /\ center' = None /\ regLock' = regLock
<1> USE DEF LInv, IInv
<1>1. ASSUME NEW f \in Phases, Phase(p, f)
      PROVE  post'[p].phase = f /\ \A q \in Posters \ {p} : post'[q] = post[q]
  BY <1>1, PhaseTypes DEF Phase
<1>2. CASE Notify(p)
  <2>1. p \notin observers \ workers
    BY DEF ObserversWork
  <2>2. PICK f \in {"forget", "unlock"} : Phase(p, f)
    BY <1>2, <2>1 DEF Notify
  <2> QED
    BY <1>1, <1>2, <2>2 DEF Notify, Phases, history
<1>3. CASE Forget(p)
  BY <1>1, <1>3 DEF Forget, Phases
<1>4. CASE Forgotten(p)
  BY <1>1, <1>4 DEF Forgotten, Phases, history
<1>5. CASE Unlock(p)
  BY <1>1, <1>5 DEF Unlock, Phases, history
<1> QED
  BY <1>2, <1>3, <1>4, <1>5 DEF Posting

LEMMA PostingHolds ==
  ASSUME NEW p \in Posters, LInv, Posting(p)
  PROVE  HoldersAreIn' /\ ObserversWork' /\ OneAtATime' /\ HoldersGoOn'
<1> USE DEF LInv
<1>1. p # Main /\ p # None /\ Main # None
      /\ Images \subseteq Posters /\ Deleters \subseteq Posters
  BY ActorsAssumption DEF Posters
<1>2. HoldersAreIn'
  BY <1>1, PostingSteps, ActorsAssumption DEF HoldersAreIn, WithCenter
<1>3. ObserversWork'
  BY <1>1, PostingSteps DEF ObserversWork
<1>4. OneAtATime'
  BY <1>1, PostingSteps DEF OneAtATime
<1>5. HoldersGoOn'
  BY <1>1, PostingSteps DEF HoldersGoOn, HoldersAreIn, WithCenter
<1> QED
  BY <1>2, <1>3, <1>4, <1>5

\* A step outside the locks that posts in the name of a poster with nothing else
\* on its way, or does not post at all.
AmidLocks == {"observing", "acquired", "registered"}
LEMMA OutsideHolds ==
  ASSUME LInv, NEW p \in Posters,
         \/ post' = post
         \/ /\ post[p].phase = "quiet" /\ post'[p].phase = "lock"
            /\ \A q \in Posters \ {p} : post'[q] = post[q],
         \A i \in Images :
           /\ pc'[i] \in {"none", "started"} =>
                pc[i] \in {"none", "started"} /\ (i # p \/ post' = post)
           /\ pc'[i] \in {"shutdown", "ended"} => pc[i] \in {"shutdown", "ended"},
         \A d \in Deleters :
           /\ deletion'[d].at = "idle" => deletion[d].at = "idle" /\ (d # p \/ post' = post)
           /\ deletion[d].at = "loaded" => deletion'[d].at = "loaded" \/ post[d].phase = "quiet",
         main' = main \/ (main \notin AmidLocks /\ main' \notin AmidLocks),
         UNCHANGED <<center, regLock, observers, workers, cut>>
  PROVE  HoldersAreIn' /\ ObserversWork' /\ OneAtATime' /\ HoldersGoOn'
<1> USE DEF LInv, AmidLocks
<1>1. Images \subseteq Posters /\ Deleters \subseteq Posters
  BY DEF Posters
<1>2. HoldersAreIn'
  <2>1. \A q \in Posters : post'[q] = post[q] \/ post'[q].phase = "lock"
    OBVIOUS
  <2>2. \A q \in Posters :
          /\ post'[q].phase \in WithCenter => center' = q
          /\ post'[q].phase = "forgotten" => regLock' = q
    BY <2>1 DEF HoldersAreIn, WithCenter
  <2>3. /\ main' = "observing" => center' = Main
        /\ main' \in {"acquired", "registered"} => regLock' = Main
    BY DEF HoldersAreIn
  <2> QED
    BY <2>2, <2>3 DEF HoldersAreIn
<1>3. ObserversWork'
  BY DEF ObserversWork
<1>4. OneAtATime'
  BY <1>1 DEF OneAtATime
<1>5. HoldersGoOn'
  BY DEF HoldersGoOn, WithCenter
<1> QED
  BY <1>2, <1>3, <1>4, <1>5

\* What Posts does to the phases.
LEMMA PostsPhase ==
  ASSUME TypeOK, NEW p \in Posters, NEW i, NEW s, Posts(p, i, s)
  PROVE  post'[p].phase = "lock" /\ \A q \in Posters \ {p} : post'[q] = post[q]
<1> QED
  BY Types DEF Posts

LEMMA BuildingHolds ==
  ASSUME NEW i \in Images, LInv, Building(i)
  PROVE  HoldersAreIn' /\ ObserversWork' /\ OneAtATime' /\ HoldersGoOn'
<1> USE DEF LInv, IInv
<1>0. i \in Posters
  BY DEF Posters
<1>1. CASE Begins(i) \/ Succeeds(i) \/ Fails(i)
  <2>1. PICK s \in {"BUILDING", "COMPLETE", "FAILED"}, place \in {"building", "save", "failsave"} :
          SetStatus(i, s) /\ Goes(i, place)
    BY <1>1 DEF Begins, Succeeds, Fails
  <2>2. post[i].phase = "quiet"
    BY <1>1 DEF Begins, Succeeds, Fails, OneAtATime, Quietly
  <2>3. UNCHANGED <<main, deletion, center, regLock, observers, workers, cut>>
    BY <1>1 DEF Begins, Succeeds, Fails, shared, history
  <2>4. post'[i].phase = "lock" /\ \A q \in Posters \ {i} : post'[q] = post[q]
    BY <1>0, <2>1, PostsPhase DEF SetStatus
  <2>5. pc'[i] = place /\ \A j \in Images \ {i} : pc'[j] = pc[j]
    BY <2>1, Types DEF Goes
  <2>6. \A d \in Deleters : d # i
    BY ActorsAssumption
  <2> QED
    BY <1>0, <2>2, <2>3, <2>4, <2>5, <2>6, OutsideHolds
<1>2. CASE Ending(i)
  <2>1. PICK place \in {"finally", "shutdown", "ended"} :
          /\ pc' = [pc EXCEPT ![i] = place]
          /\ place = "shutdown" => observers' = observers \ {i}
          /\ place = "ended" => pc[i] = "shutdown"
    BY <1>2 DEF Ending, Saves, FailSaves, Unobserve, ShutDown, Goes
  <2>2. /\ observers' \in {observers, observers \ {i}}
        /\ \/ workers' = workers
           \/ workers' = workers \ {i} /\ observers' = observers /\ pc[i] = "shutdown"
        /\ UNCHANGED <<main, deletion, center, regLock, post, cut>>
    BY <1>2 DEF Ending, Saves, FailSaves, Unobserve, ShutDown, shared, history
  <2>3. pc'[i] = place /\ \A j \in Images \ {i} : pc'[j] = pc[j]
    BY <2>1, Types
  <2>4. ObserversWork'
    BY <2>1, <2>2, <2>3 DEF ObserversWork
  <2>5. OneAtATime'
    BY <2>2, <2>3 DEF OneAtATime
  <2> QED
    BY <2>2, <2>4, <2>5 DEF HoldersAreIn, HoldersGoOn
<1> QED
  BY <1>1, <1>2 DEF Building

LEMMA DeletingHolds ==
  ASSUME NEW d \in Deleters, LInv, Deleting(d)
  PROVE  HoldersAreIn' /\ ObserversWork' /\ OneAtATime' /\ HoldersGoOn'
<1> USE DEF LInv, IInv
<1>1. PICK to \in {"deleting", "undeleted", "deleted"} :
        /\ deletion' = [deletion EXCEPT ![d].at = to]
        /\ post[d].phase = "quiet"
  BY DEF Deleting, DeleteBegins, DeleteRemoves, DeleteFails, DeleteFailSaves, DeletionGoes,
         Quietly
<1>2. UNCHANGED <<main, pc, center, regLock, observers, workers, cut>>
  BY DEF Deleting, DeleteBegins, DeleteRemoves, DeleteFails, DeleteFailSaves, shared, history
<1>3. d \in Posters /\ \A i \in Images : i # d
  BY ActorsAssumption DEF Posters
<1>4. /\ deletion'[d].at = to /\ \A e \in Deleters \ {d} : deletion'[e] = deletion[e]
  BY <1>1, DeletionTypes DEF DeletionPlaces
<1>5. post' = post \/ \E i, s : Posts(d, i, s)
  BY DEF Deleting, DeleteBegins, DeleteRemoves, DeleteFails, DeleteFailSaves
<1>6. \/ post' = post
      \/ post'[d].phase = "lock" /\ \A q \in Posters \ {d} : post'[q] = post[q]
  BY <1>3, <1>5, PostsPhase
<1> QED
  BY <1>1, <1>2, <1>3, <1>4, <1>6, OutsideHolds

LEMMA MainHolds ==
  ASSUME LInv,
         \/ MainGoesOn \/ Join \/ \E i \in Images : Create(i)
         \/ \E d \in Deleters, i \in Images : LoadToDelete(d, i)
  PROVE  HoldersAreIn' /\ ObserversWork' /\ OneAtATime' /\ HoldersGoOn'
<1> USE DEF LInv, IInv, AmidLocks
<1>1. Main \notin Posters /\ Main # None
  BY ActorsAssumption DEF Posters
<1>2. CASE Launch
  <2>1. /\ main = "launch" /\ main' = "register" /\ pc' = [pc EXCEPT ![current] = "started"]
        /\ current \in Images /\ pc[current] = "none" /\ DOMAIN pc = Images
        /\ UNCHANGED <<deletion, post, center, regLock, observers, workers, cut>>
    BY <1>2, Types DEF Launch, Goes, MainFollows, shared, history
  <2>2. current \in Posters
    BY <2>1 DEF Posters
  <2> QED
    BY <2>1, <2>2, OutsideHolds
<1>3. CASE AddObserver
  <2>1. /\ main = "observe" /\ main' = "observing" /\ center = None /\ center' = Main
        /\ workers' = workers \cup {current} /\ observers' = observers \cup {current}
        /\ UNCHANGED <<pc, deletion, post, regLock, cut>>
    BY <1>3 DEF AddObserver, history
  <2>2. current \in Images /\ pc[current] = "none"
    BY <2>1 DEF MainFollows
  <2>3. HoldersAreIn'
    BY <1>1, <2>1, ActorsAssumption DEF HoldersAreIn, WithCenter
  <2>4. ObserversWork' /\ OneAtATime'
    BY <2>1, <2>2 DEF ObserversWork, OneAtATime
  <2> QED
    BY <1>1, <2>1, <2>3, <2>4 DEF HoldersGoOn
<1>4. CASE Observed \/ AcquireRegistry \/ Register \/ ReleaseRegistry
  <2>1. /\ UNCHANGED <<pc, deletion, post, observers, workers, cut>>
        /\ \/ main = "observing" /\ main' = "launch" /\ center' = None /\ regLock' = regLock
           \/ /\ main = "register" /\ main' = "acquired" /\ center' = center
              /\ regLock = None /\ regLock' = Main
           \/ main = "acquired" /\ main' = "registered" /\ UNCHANGED <<center, regLock>>
           \/ main = "registered" /\ main' = "ready" /\ center' = center /\ regLock' = None
    BY <1>4 DEF Observed, AcquireRegistry, Register, ReleaseRegistry, history
  <2>2. HoldersAreIn'
    BY <1>1, <2>1, ActorsAssumption DEF HoldersAreIn, WithCenter
  <2>3. ObserversWork' /\ OneAtATime'
    BY <2>1 DEF ObserversWork, OneAtATime
  <2>4. HoldersGoOn'
    BY <1>1, <2>1 DEF HoldersGoOn
  <2> QED
    BY <2>2, <2>3, <2>4
<1>5. ASSUME NEW i \in Images, Create(i)
      PROVE  HoldersAreIn' /\ ObserversWork' /\ OneAtATime' /\ HoldersGoOn'
  <2>1. /\ main = "ready" /\ main' \in {"observe", "launch"}
        /\ UNCHANGED <<pc, deletion, post, center, regLock, observers, workers, cut>>
    BY <1>5 DEF Create, shared, history
  <2>2. i \in Posters
    BY DEF Posters
  <2> QED
    BY <2>1, <2>2, OutsideHolds
<1>6. ASSUME NEW d \in Deleters, NEW i \in Images, LoadToDelete(d, i)
      PROVE  HoldersAreIn' /\ ObserversWork' /\ OneAtATime' /\ HoldersGoOn'
  <2>1. /\ main = "ready" /\ main' = "loading" /\ deletion[d].at = "idle"
        /\ deletion' = [deletion EXCEPT ![d] = [at |-> "loaded", image |-> i]]
        /\ UNCHANGED <<pc, center, regLock, observers, workers, cut>>
    BY <1>6 DEF LoadToDelete, shared, history
  <2>2. d \in Posters /\ \A j \in Images : j # d
    BY ActorsAssumption DEF Posters
  <2>3. deletion'[d].at = "loaded" /\ \A e \in Deleters \ {d} : deletion'[e] = deletion[e]
    BY <2>1, Types
  <2>4. post[d].phase = "quiet"
    BY <2>1 DEF OneAtATime
  <2>5. \/ post' = post
        \/ post'[d].phase = "lock" /\ \A q \in Posters \ {d} : post'[q] = post[q]
    BY <1>6, <2>2, PostsPhase DEF LoadToDelete
  <2>6. \A e \in Deleters :
          /\ deletion'[e].at = "idle" => deletion[e].at = "idle" /\ e # d
          /\ deletion[e].at = "loaded" => deletion'[e].at = "loaded"
    BY <2>1, <2>3
  <2>7. main \notin AmidLocks /\ main' \notin AmidLocks
    BY <2>1
  <2> QED
    BY <2>1, <2>2, <2>4, <2>5, <2>6, <2>7, OutsideHolds
<1>7. CASE LaunchDeletion
  <2>1. /\ main = "loading" /\ main' = "ready" /\ post[current].phase = "quiet"
        /\ deletion' = [deletion EXCEPT ![current].at = "started"]
        /\ current \in Deleters
        /\ UNCHANGED <<pc, post, center, regLock, observers, workers, cut>>
    BY <1>7 DEF LaunchDeletion, DeletionGoes, Quietly, MainFollows, shared, history
  <2>2. current \in Posters
    BY <2>1 DEF Posters
  <2>3. /\ deletion'[current].at = "started"
        /\ \A e \in Deleters \ {current} : deletion'[e] = deletion[e]
    BY <2>1, DeletionTypes DEF DeletionPlaces
  <2> QED
    BY <2>1, <2>2, <2>3, OutsideHolds
<1>8. CASE Join
  <2>1. /\ main = "ready" /\ main' = "gone"
        /\ UNCHANGED <<pc, deletion, post, center, regLock, observers, workers, cut>>
    BY <1>8 DEF Join, shared, history
  <2> QED
    BY <2>1 DEF HoldersAreIn, ObserversWork, OneAtATime, HoldersGoOn, WithCenter
<1> QED
  BY <1>2, <1>3, <1>4, <1>5, <1>6, <1>7, <1>8 DEF MainGoesOn

LEMMA SignalHolds ==
  ASSUME LInv, Sigterm \/ Sigint
  PROVE  HoldersAreIn' /\ ObserversWork' /\ OneAtATime' /\ HoldersGoOn'
<1> USE DEF LInv, IInv
<1>1. /\ main' = "gone" /\ UNCHANGED <<pc, deletion, center, observers, workers>>
      /\ regLock' = IF main = "registered" THEN None ELSE regLock
      /\ cut \subseteq cut'
      /\ main = "observing" \/ Broken \in WithCenter => "center" \in cut'
      /\ main = "acquired" \/ Broken = "forgotten" => "builders" \in cut'
  BY DEF Sigterm, Sigint, Leaves
<1>2. \/ post' = post /\ Broken = "quiet"
      \/ /\ current \in Deleters /\ deletion[current].at = "loaded" /\ main = "loading"
         /\ Broken = post[current].phase /\ post'[current].phase = "broken"
         /\ \A q \in Posters \ {current} : post'[q] = post[q]
  <2>1. CASE Broken = "quiet"
    BY <2>1 DEF Sigterm, Sigint, Leaves
  <2>2. CASE Broken # "quiet"
    <3>1. /\ main = "loading" /\ Broken = post[current].phase
          /\ post' = [post EXCEPT ![current].phase = "broken"]
      BY <2>2 DEF Sigterm, Sigint, Leaves, Broken, Phase
    <3>2. current \in Deleters /\ deletion[current].at = "loaded" /\ current \in Posters
      BY <3>1 DEF MainFollows, Posters
    <3> QED
      BY <3>1, <3>2, PhaseTypes DEF Phases
  <2> QED
    BY <2>1, <2>2
<1>3. Main # None /\ Main \notin Posters /\ None \notin Posters
  BY ActorsAssumption
<1>4. HoldersAreIn'
  BY <1>1, <1>2, <1>3 DEF HoldersAreIn, WithCenter
<1>5. ObserversWork'
  BY <1>1, <1>2 DEF ObserversWork
<1>6. OneAtATime'
  <2>1. \A i \in Images : i \notin Deleters /\ i \in Posters
    BY ActorsAssumption DEF Posters
  <2>2. Deleters \subseteq Posters
    BY DEF Posters
  <2> QED
    BY <1>1, <1>2, <2>1, <2>2 DEF OneAtATime
<1>7. HoldersGoOn'
  BY <1>1, <1>2, <1>3 DEF HoldersGoOn, HoldersAreIn, WithCenter
<1> QED
  BY <1>4, <1>5, <1>6, <1>7

LEMMA LoadHolds ==
  ASSUME LInv, NEW p \in Pool, NEW i \in Images, Load(p, i)
  PROVE  HoldersAreIn' /\ ObserversWork' /\ OneAtATime' /\ HoldersGoOn'
<1>1. /\ p \in Posters /\ \A j \in Images \cup Deleters : j # p
  BY ActorsAssumption DEF Posters
<1>2. /\ post[p].phase = "quiet" /\ Posts(p, i, stored[i])
      /\ UNCHANGED <<main, pc, deletion, center, regLock, observers, workers, cut>>
  BY DEF Load, Quietly, history
<1>3. post'[p].phase = "lock" /\ \A q \in Posters \ {p} : post'[q] = post[q]
  BY <1>1, <1>2, PostsPhase DEF LInv, IInv
<1> QED
  BY <1>1, <1>2, <1>3, OutsideHolds

LEMMA LockInvariant == Spec => []LInv
<1>1. Init => LInv
  BY InitInv, ActorsAssumption
  DEF Init, LInv, HoldersAreIn, WithCenter, ObserversWork, OneAtATime, HoldersGoOn, Quiet, Posters
<1>2. LInv /\ [Next]_vars => LInv'
  <2> SUFFICES ASSUME LInv, [Next]_vars
               PROVE  HoldersAreIn' /\ ObserversWork' /\ OneAtATime' /\ HoldersGoOn'
    BY NextKeeps DEF LInv
  <2> USE DEF LInv
  <2>1. CASE UNCHANGED vars
    BY <2>1 DEF vars, HoldersAreIn, ObserversWork, OneAtATime, HoldersGoOn
  <2> QED
    BY <2>1, PostingHolds, BuildingHolds, DeletingHolds, MainHolds, SignalHolds, LoadHolds
    DEF Next, Stop
<1> QED
  BY <1>1, <1>2, PTL DEF Spec

\* Whoever holds a lock of the process gives it back without waiting for what
\* waits for it, for any number of threads: the lock of the dispatcher is taken
\* within that of the center and never the other way round
\* (NotificationCenter.py:69-77, BuildDispatcher.py:29-44).
THEOREM LocksComeBack == Spec => []HoldersGoOn
<1>1. LInv => HoldersGoOn
  BY DEF LInv
<1> QED
  BY <1>1, LockInvariant, PTL

\* No callback worker refuses a notification: it leaves the observers before it is
\* shut down, so that the lock of the center is never left by an exception
\* (Builder.py:83-88, CallbackWorker.py:78, NotificationCenter.py:69-77).
NobodyRefuses == \A p \in Posters : post[p].phase # "dead"
THEOREM ObserversAnswer == Spec => []NobodyRefuses
<1>1. LInv => NobodyRefuses
  BY DEF LInv, ObserversWork, NobodyRefuses
<1> QED
  BY <1>1, LockInvariant, PTL

\* The guards of the steps of a notification, of the threads of a builder and of a
\* deletion that run, and of the main thread.
MayPost(p) ==
  \/ post[p].phase = "lock" /\ center = None
  \/ post[p].phase = "forget" /\ regLock = None
  \/ post[p].phase \in {"forgotten", "unlock"}
MayBuild(i) ==
  \/ pc[i] = "started"
  \/ pc[i] \in {"building", "save", "failsave"} /\ Quietly(i)
  \/ pc[i] = "finally" /\ (i \in observers => center = None)
  \/ pc[i] = "shutdown"
MayDelete(d) == Quietly(d)
MayGoOn ==
  \/ main \in {"observing", "launch", "acquired", "registered"}
  \/ main = "observe" /\ center = None
  \/ main = "register" /\ regLock = None
  \/ main = "loading" /\ Quietly(current)

\* While the thread of a builder or of a deletion has not ended, somebody can go
\* on: the thread itself, or whoever has the lock that it waits for, or whoever has
\* the lock that this one waits for.  Only a signal that ended the main thread
\* within a lock stops the process for good (imagefactoryd:89-109).
SomebodyMayGoOn(MayThat) == MayThat \/ MayGoOn \/ \E p \in Posters : MayPost(p)
NoDeadlock ==
  cut = {} =>
    /\ \A i \in Images : pc[i] \notin {"none", "ended"} => SomebodyMayGoOn(MayBuild(i))
    /\ \A d \in Deleters : deletion[d].at \notin {"idle", "loaded", "deleted"} =>
                             SomebodyMayGoOn(MayDelete(d))
THEOREM DeadlockFree == Spec => []NoDeadlock
<1>1. LInv => NoDeadlock
  <2> SUFFICES ASSUME LInv, cut = {}, ~ MayGoOn
               PROVE  /\ \A i \in Images : pc[i] \notin {"none", "ended"} =>
                                           MayBuild(i) \/ \E p \in Posters : MayPost(p)
                      /\ \A d \in Deleters : deletion[d].at \notin {"idle", "loaded", "deleted"} =>
                                           MayDelete(d) \/ \E p \in Posters : MayPost(p)
    BY DEF NoDeadlock, SomebodyMayGoOn
  <2> USE DEF LInv, IInv
  <2>1. regLock = None \/ \E p \in Posters : MayPost(p)
    BY DEF HoldersGoOn, MayGoOn, MayPost
  <2>2. center = None \/ \E p \in Posters : MayPost(p)
    BY <2>1 DEF HoldersGoOn, MayGoOn, MayPost, WithCenter
  <2>3. ASSUME center = None, NEW q \in Posters, post[q].phase \notin {"quiet", "broken"}
        PROVE  \E p \in Posters : MayPost(p)
    <3>1. post[q].phase \in {"lock", "forget", "forgotten", "unlock"}
      <4>1. post[q].phase \in Phases /\ post[q].phase # "dead"
        BY DEF TypeOK, ObserversWork
      <4> QED
        BY <2>3, <4>1 DEF Phases
    <3> QED
      BY <2>1, <2>3, <3>1 DEF MayPost
  <2>4. ASSUME NEW i \in Images, pc[i] \notin {"none", "ended"}, ~ MayBuild(i)
        PROVE  \E p \in Posters : MayPost(p)
    <3>1. i \in Posters /\ post[i].phase # "broken"
      BY ActorsAssumption DEF Posters, OneAtATime
    <3>2. CASE center = None
      <4>1. pc[i] \in {"none", "started", "building", "save", "failsave", "finally", "shutdown",
                       "ended"}
        BY DEF TypeOK
      <4>2. post[i].phase # "quiet"
        BY <2>4, <3>2, <4>1 DEF MayBuild, Quietly
      <4> QED
        BY <2>3, <3>1, <3>2, <4>2
    <3> QED
      BY <2>2, <3>2
  <2>5. ASSUME NEW d \in Deleters, deletion[d].at \notin {"idle", "loaded", "deleted"},
               ~ MayDelete(d)
        PROVE  \E p \in Posters : MayPost(p)
    <3>1. d \in Posters /\ post[d].phase \notin {"quiet", "broken"}
      BY <2>5 DEF Posters, OneAtATime, MayDelete, Quietly
    <3> QED
      BY <2>2, <2>3, <3>1
  <2> QED
    BY <2>4, <2>5
<1> QED
  BY <1>1, LockInvariant, PTL

-----------------------------------------------------------------------------
\* How far a builder's thread is: by its place, and there by the phase of the
\* notification that it posted when it came to this place.
PlaceRank(at) ==
  CASE at = "none" -> 0
    [] at = "started" -> 1
    [] at = "building" -> 2
    [] at = "save" -> 3
    [] at = "failsave" -> 4
    [] at = "finally" -> 5
    [] at = "shutdown" -> 6
    [] OTHER -> 7
PhaseRank(f) ==
  CASE f = "lock" -> 0
    [] f = "forget" -> 1
    [] f = "forgotten" -> 2
    [] f = "unlock" -> 3
    [] OTHER -> 4
Rank(i) == 5 * PlaceRank(pc[i]) + PhaseRank(post[i].phase)

LEMMA Places ==
  /\ PlaceRank("none") = 0 /\ PlaceRank("started") = 1 /\ PlaceRank("building") = 2
  /\ PlaceRank("save") = 3 /\ PlaceRank("failsave") = 4 /\ PlaceRank("finally") = 5
  /\ PlaceRank("shutdown") = 6 /\ PlaceRank("ended") = 7
<1> QED
  BY DEF PlaceRank

\* The ranks of a place and of one after it.
Onwards == {<<1, 2>>, <<1, 4>>, <<2, 3>>, <<2, 4>>, <<3, 4>>, <<3, 5>>, <<4, 5>>, <<5, 6>>,
            <<6, 7>>}
LEMMA PlacesInOrder ==
  ASSUME NEW from, NEW to,
         \/ from = "started" /\ to \in {"building", "failsave"}
         \/ from = "building" /\ to \in {"save", "failsave"}
         \/ from = "save" /\ to \in {"failsave", "finally"}
         \/ from = "failsave" /\ to = "finally"
         \/ from = "finally" /\ to = "shutdown"
         \/ from = "shutdown" /\ to = "ended"
  PROVE  <<PlaceRank(from), PlaceRank(to)>> \in Onwards
<1> QED
  BY Places, Zenon DEF Onwards

LEMMA OnwardsRises ==
  ASSUME NEW m, NEW n, <<m, n>> \in Onwards
  PROVE  m < n
<1> QED
  BY DEF Onwards

LEMMA RankTypes ==
  /\ \A at : PlaceRank(at) \in 0 .. 7
  /\ \A f : PhaseRank(f) \in 0 .. 4
<1> QED
  BY DEF PlaceRank, PhaseRank

\* A later place counts more than the phases of a notification together.
LEMMA LaterPlace ==
  ASSUME NEW i, PlaceRank(pc[i]) < PlaceRank(pc'[i])
  PROVE  Rank(i) < Rank(i)'
<1>1. /\ PlaceRank(pc[i]) \in 0 .. 7 /\ PlaceRank(pc'[i]) \in 0 .. 7
      /\ PhaseRank(post[i].phase) \in 0 .. 4 /\ PhaseRank(post'[i].phase) \in 0 .. 4
  BY RankTypes
<1> QED
  BY <1>1 DEF Rank

\* In one place, a later phase does.
LEMMA LaterPhase ==
  ASSUME NEW i, pc'[i] = pc[i]
  PROVE  /\ PhaseRank(post[i].phase) < PhaseRank(post'[i].phase) => Rank(i) < Rank(i)'
         /\ post'[i] = post[i] => Rank(i)' = Rank(i)
<1>1. /\ PlaceRank(pc[i]) \in 0 .. 7
      /\ PhaseRank(post[i].phase) \in 0 .. 4 /\ PhaseRank(post'[i].phase) \in 0 .. 4
  BY RankTypes
<1> QED
  BY <1>1 DEF Rank

\* A notification takes its own poster further, and nobody else.
LEMMA PostingGoesOn ==
  ASSUME IInv, NEW p \in Posters, Posting(p), NEW i \in Images
  PROVE  IF p = i THEN Rank(i) < Rank(i)' ELSE Rank(i)' = Rank(i)
<1>1. /\ DOMAIN post = Posters /\ i \in Posters
  BY Types DEF IInv
<1>2. PICK f \in Phases : post' = [post EXCEPT ![p].phase = f]
  BY DEF Posting, Notify, Forget, Forgotten, Unlock, Phase, Phases
<1>3. pc' = pc /\ post'[p].phase = f /\ \A q \in Posters \ {p} : post'[q] = post[q]
  BY <1>2, PhaseTypes DEF IInv, Posting, Notify, Forget, Forgotten, Unlock
<1>4. \/ post[p].phase = "lock" /\ f \in {"forget", "unlock", "dead"}
      \/ post[p].phase = "forget" /\ f = "forgotten"
      \/ post[p].phase = "forgotten" /\ f = "unlock"
      \/ post[p].phase = "unlock" /\ f = "quiet"
  <2>1. post'[p].phase = f
    BY <1>3
  <2>2. CASE Notify(p)
    <3>1. PICK g \in {"dead", "forget", "unlock"} : post' = [post EXCEPT ![p].phase = g]
      BY <2>2 DEF Notify, Phase
    <3>2. post'[p].phase = g
      BY <3>1, PhaseTypes DEF IInv, Phases
    <3> QED
      BY <2>1, <2>2, <3>2 DEF Notify
  <2>3. CASE Forget(p)
    BY <2>1, <2>3, PhaseTypes DEF IInv, Forget, Phase, Phases
  <2>4. CASE Forgotten(p)
    BY <2>1, <2>4, PhaseTypes DEF IInv, Forgotten, Phase, Phases
  <2>5. CASE Unlock(p)
    BY <2>1, <2>5, PhaseTypes DEF IInv, Unlock, Phase, Phases
  <2> QED
    BY <2>2, <2>3, <2>4, <2>5 DEF Posting
<1>5. CASE p = i
  <2>1. PhaseRank(post[i].phase) < PhaseRank(post'[i].phase)
    BY <1>3, <1>4, <1>5 DEF PhaseRank
  <2> QED
    BY <1>3, <1>5, <2>1, LaterPhase
<1>6. CASE p # i
  BY <1>1, <1>3, <1>6, LaterPhase
<1> QED
  BY <1>5, <1>6

\* So does a step of a builder's thread.
LEMMA BuildingGoesOn ==
  ASSUME IInv, NEW j \in Images, Building(j), NEW i \in Images
  PROVE  IF j = i THEN Rank(i) < Rank(i)' ELSE Rank(i)' = Rank(i)
<1>1. DOMAIN pc = Images /\ DOMAIN post = Posters /\ i \in Posters
  BY Types DEF IInv
<1>2. PICK at : /\ pc' = [pc EXCEPT ![j] = at]
                /\ \/ pc[j] = "started" /\ at \in {"building", "failsave"}
                   \/ pc[j] = "building" /\ at \in {"save", "failsave"}
                   \/ pc[j] = "save" /\ at \in {"failsave", "finally"}
                   \/ pc[j] = "failsave" /\ at = "finally"
                   \/ pc[j] = "finally" /\ at = "shutdown"
                   \/ pc[j] = "shutdown" /\ at = "ended"
  BY DEF Building, Ending, Begins, Succeeds, Fails, Saves, FailSaves, Unobserve, ShutDown, Goes
<1>3. CASE j = i
  <2>0. pc'[i] = at
    BY <1>1, <1>2, <1>3
  <2>1. PlaceRank(pc[i]) < PlaceRank(at)
    <3>1. <<PlaceRank(pc[i]), PlaceRank(at)>> \in Onwards
      BY <1>2, <1>3, PlacesInOrder, Zenon
    <3> QED
      BY <3>1, OnwardsRises
  <2> QED
    BY <1>3, <2>0, <2>1, LaterPlace
<1>4. CASE j # i
  <2>1. pc'[i] = pc[i]
    BY <1>1, <1>2, <1>4
  <2>2. post'[i] = post[i]
    BY <1>1, <1>4 DEF Building, Ending, Begins, Succeeds, Fails, Saves, FailSaves, Unobserve, ShutDown,
                      SetStatus, Posts
  <2> QED
    BY <1>4, <2>1, <2>2, LaterPhase
<1> QED
  BY <1>3, <1>4

\* Nor does anybody else send a builder's thread back: the main thread starts it,
\* once; requests and deletions post in their own names.
LEMMA OthersLetGoOn ==
  ASSUME IInv, NEW i \in Images,
         \/ MainGoesOn \/ Join \/ Sigterm \/ Sigint \/ Stop
         \/ \E j \in Images : Create(j)
         \/ \E d \in Deleters : Deleting(d)
         \/ \E d \in Deleters, j \in Images : LoadToDelete(d, j)
         \/ \E p \in Pool, j \in Images : Load(p, j)
  PROVE  Rank(i) <= Rank(i)'
<1>0. Rank(i) \in Nat
  BY RankTypes DEF Rank
<1>1. CASE Launch
  <2>1. /\ pc' = [pc EXCEPT ![current] = "started"] /\ post' = post
        /\ pc[current] = "none" /\ DOMAIN pc = Images
    BY <1>1, Types DEF IInv, MainFollows, Launch, Goes
  <2>2. CASE i = current
    <3>1. PlaceRank(pc[i]) < PlaceRank(pc'[i])
      BY <2>1, <2>2 DEF PlaceRank
    <3>2. Rank(i) < Rank(i)'
      BY <3>1, LaterPlace
    <3> QED
      BY <3>2, RankTypes DEF Rank
  <2>3. CASE i # current
    BY <1>0, <2>1, <2>3, LaterPhase
  <2> QED
    BY <2>2, <2>3
<1>2. ASSUME pc' = pc, \/ post' = post
                       \/ \E p \in Posters \ Images : \E j, s : Posts(p, j, s)
                       \/ \E p \in Posters \ Images, f \in Phases : Phase(p, f)
      PROVE  Rank(i) <= Rank(i)'
  <2>1. i \in Posters /\ DOMAIN post = Posters
    BY Types DEF IInv
  <2>2. post'[i] = post[i]
    BY <1>2, <2>1 DEF Posts, Phase
  <2> QED
    BY <1>0, <1>2, <2>2, LaterPhase
<1>3. Pool \cup Deleters \subseteq Posters \ Images
  BY ActorsAssumption DEF Posters
<1>4. CASE \/ \E d \in Deleters : Deleting(d)
           \/ \E d \in Deleters, j \in Images : LoadToDelete(d, j)
           \/ \E p \in Pool, j \in Images : Load(p, j)
  <2>1. pc' = pc /\ (post' = post \/ \E p \in Posters \ Images : \E j, s : Posts(p, j, s))
    BY <1>3, <1>4 DEF Deleting, DeleteBegins, DeleteRemoves, DeleteFails, DeleteFailSaves,
       LoadToDelete, Load
  <2> QED
    BY <1>2, <2>1
<1>5. CASE Sigterm \/ Sigint
  <2>1. pc' = pc /\ (post' = post \/ (main = "loading" /\ Phase(current, "broken")))
    <3>1. pc' = pc /\ IF Broken = "quiet" THEN UNCHANGED post ELSE Phase(current, "broken")
      BY <1>5 DEF Sigterm, Sigint, Leaves
    <3>2. Broken # "quiet" => main = "loading"
      BY DEF Broken
    <3> QED
      BY <3>1, <3>2
  <2>2. main = "loading" => current \in Posters \ Images
    BY <1>3 DEF IInv, MainFollows
  <2> QED
    BY <1>2, <2>1, <2>2 DEF Phases
<1>6. CASE \/ AddObserver \/ Observed \/ AcquireRegistry \/ Register \/ ReleaseRegistry
           \/ LaunchDeletion \/ Join \/ Stop \/ \E j \in Images : Create(j)
  <2>1. pc' = pc /\ post' = post
    BY <1>6 DEF AddObserver, Observed, AcquireRegistry, Register, ReleaseRegistry,
       LaunchDeletion, Join, Stop, vars, Create
  <2> QED
    BY <1>2, <2>1
<1> QED
  BY <1>1, <1>4, <1>5, <1>6 DEF MainGoesOn

\* Every step of a builder's thread, those of its notifications with the locks of
\* the center and of the dispatcher included, takes it further, and nobody sends it
\* back: after fewer than forty steps of its own it has ended (Builder.py:124-158,
\* NotificationCenter.py:62-77).  With DeadlockFree this is why ThreadsEnd holds.
THEOREM ThreadsGoOn ==
  Spec => [][\A i \in Images :
               /\ Rank(i) <= Rank(i)'
               /\ Building(i) \/ Posting(i) => Rank(i) < Rank(i)']_vars
<1> DEFINE On(i) == /\ Rank(i) <= Rank(i)'
                    /\ Building(i) \/ Posting(i) => Rank(i) < Rank(i)'
<1>1. ASSUME IInv, Next, NEW i \in Images PROVE On(i)
  <2>1. Rank(i) \in Nat /\ Rank(i)' \in Nat /\ i \in Posters
    BY RankTypes DEF Rank, Posters
  <2>2. Building(i) \/ Posting(i) => Rank(i) < Rank(i)'
    BY <1>1, <2>1, BuildingGoesOn, PostingGoesOn
  <2>3. Rank(i) <= Rank(i)'
    <3>1. CASE \E p \in Posters : Posting(p)
      BY <1>1, <2>1, <3>1, PostingGoesOn
    <3>2. CASE \E j \in Images : Building(j)
      BY <1>1, <2>1, <3>2, BuildingGoesOn
    <3>3. CASE \/ MainGoesOn \/ Join \/ Sigterm \/ Sigint \/ Stop
               \/ \E j \in Images : Create(j)
               \/ \E d \in Deleters : Deleting(d)
               \/ \E d \in Deleters, j \in Images : LoadToDelete(d, j)
               \/ \E p \in Pool, j \in Images : Load(p, j)
      BY <1>1, <3>3, OthersLetGoOn
    <3> QED
      BY <1>1, <3>1, <3>2, <3>3 DEF Next
  <2> QED
    BY <2>2, <2>3
<1>2. IInv /\ [Next]_vars => [\A i \in Images : On(i)]_vars
  BY <1>1
<1> QED
  BY <1>2, Inductive, PTL DEF Spec
=============================================================================
