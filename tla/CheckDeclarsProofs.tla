------------------------- MODULE CheckDeclarsProofs --------------------------
(***************************************************************************)
(* Theorems about check_all_declars, for any number of declarations and    *)
(* threads and any set of bad declarations: no declaration is lost between *)
(* the counter and the workers or checked twice, no worker outlives the    *)
(* call, and the verdict is the one that Verdict promises.                 *)
(***************************************************************************)
EXTENDS CheckDeclars, FiniteSetTheorems, TLAPS

\* The strengthening: what a worker's and the caller's positions imply.
WorkerInv ==
  /\ accepted \cap bad = {}
  /\ \A w \in Thread :
       /\ Claimed(w) => task[w] \in Declar
       /\ worker[w] = "panicked" => task[w] \in bad
       /\ worker[w] = "exited" => task_num >= NumDeclars

CallerInv ==
  /\ main = "spawn" => \A w \in Thread : w >= handle <=> worker[w] = "unborn"
  /\ main = "join" => \A w \in Thread :
       worker[w] # "unborn" /\ (w < handle => worker[w] = "exited")
  /\ main = "unwind" => failure # "none"
  /\ failure = "rejected" => bad # {}
  /\ main = "done" <=> verdict # "pending"

Inv == TypeOK /\ EachInOnePlace /\ WorkerInv /\ CallerInv /\ NothingLeftRunning

\* The threads and the declarations are natural numbers.
LEMMA Numbers ==
  /\ NumDeclars \in Nat /\ NumThreads \in Nat /\ NumThreads \in Thread /\ 1 \in Thread
  /\ \A w \in Thread : w \in Nat /\ w <= NumThreads
  /\ \A d \in Declar : d \in Nat /\ d < NumDeclars
  /\ \A d \in Nat : d < NumDeclars => d \in Declar
BY SizeAssumption DEF Thread, Declar

\* Nothing is claimed before the first worker starts.
LEMMA InitInv == Init => Inv
<1> SUFFICES ASSUME Init PROVE Inv
  OBVIOUS
<1>1. TypeOK
  BY Numbers DEF Init, TypeOK
<1>2. EachInOnePlace /\ WorkerInv /\ NothingLeftRunning
  BY Numbers DEF Init, EachInOnePlace, WorkerInv, NothingLeftRunning, Claimed
<1>3. CallerInv
  <2>1. \A w \in Thread : w >= handle /\ worker[w] = "unborn"
    BY DEF Init, Thread
  <2>2. main = "spawn" /\ failure = "none" /\ verdict = "pending"
    BY DEF Init
  <2>3. QED
    BY <2>1, <2>2 DEF CallerInv
<1>4. QED
  BY <1>1, <1>2, <1>3 DEF Inv

\* Drawing an index claims it for one worker.
LEMMA FetchKeepsInv ==
  ASSUME Inv, NEW w \in Thread, FetchTask(w)
  PROVE  Inv'
<1> DEFINE k == task_num
<1>1. /\ worker[w] = "fetching" /\ task' = [task EXCEPT ![w] = k] /\ task_num' = k + 1
      /\ worker' = [worker EXCEPT ![w] = IF k \in Declar THEN "checking" ELSE "exited"]
      /\ UNCHANGED <<bad, main, handle, failure, verdict, accepted>>
  BY DEF FetchTask, caller
<1>2. /\ k \in Nat /\ task \in [Thread -> Nat]
      /\ worker \in [Thread -> {"unborn", "fetching", "checking", "exited", "panicked"}]
  BY DEF Inv, TypeOK
<1>3. /\ task'[w] = k /\ \A v \in Thread \ {w} : task'[v] = task[v] /\ worker'[v] = worker[v]
      /\ worker'[w] = IF k \in Declar THEN "checking" ELSE "exited"
  BY <1>1, <1>2
<1>4. \A v \in Thread \ {w} : Claimed(v)' <=> Claimed(v)
  BY <1>3 DEF Claimed
<1>5. ~ Claimed(w) /\ (Claimed(w)' <=> k \in Declar)
  BY <1>1, <1>3 DEF Claimed
<1>6. \A v \in Thread \ {w} : Claimed(v) => task[v] < k
  BY DEF Inv, EachInOnePlace, WorkerInv
<1>7. TypeOK'
  BY <1>1, <1>2 DEF Inv, TypeOK
<1>8. EachInOnePlace'
  <2>1. ASSUME NEW d \in Declar
        PROVE  d < k + 1 <=> d \in accepted \/ \E v \in Thread : Claimed(v)' /\ task'[v] = d
    <3>1. d \in Nat /\ (d < k + 1 <=> d < k \/ d = k)
      BY <1>2, Numbers
    <3>2. d < k <=> d \in accepted \/ \E v \in Thread : Claimed(v) /\ task[v] = d
      BY DEF Inv, EachInOnePlace
    <3>3. d = k => Claimed(w)' /\ task'[w] = d
      BY <1>3, <1>5
    <3>4. QED
      BY <1>3, <1>4, <1>5, <3>1, <3>2, <3>3
  <2>2. ASSUME NEW v \in Thread, Claimed(v)' PROVE task'[v] \notin accepted
    <3>1. CASE v = w
      <4>1. k \in Declar /\ ~ (k < k)
        BY <1>2, <1>5, <2>2, <3>1
      <4>2. QED
        BY <1>3, <3>1, <4>1 DEF Inv, EachInOnePlace
    <3>2. CASE v # w
      BY <1>3, <1>4, <2>2, <3>2 DEF Inv, EachInOnePlace
    <3>3. QED
      BY <3>1, <3>2
  <2>3. ASSUME NEW u \in Thread, NEW v \in Thread, Claimed(u)', Claimed(v)', task'[u] = task'[v]
        PROVE  u = v
    <3>1. \A t \in Thread \ {w} : Claimed(t) => task[t] # k
      BY <1>2, <1>6
    <3>2. CASE u # w /\ v # w
      BY <1>3, <1>4, <2>3, <3>2 DEF Inv, EachInOnePlace
    <3>3. CASE u = w \/ v = w
      BY <1>3, <1>4, <2>3, <3>1, <3>3
    <3>4. QED
      BY <3>2, <3>3
  <2>4. QED
    BY <1>1, <2>1, <2>2, <2>3 DEF EachInOnePlace
<1>9. WorkerInv'
  <2>1. k \notin Declar => k + 1 >= NumDeclars
    BY <1>2, Numbers
  <2>2. \A v \in Thread \ {w} : worker[v] = "exited" => k + 1 >= NumDeclars
    BY <1>2, Numbers DEF Inv, WorkerInv
  <2>3. QED
    BY <1>1, <1>3, <1>4, <1>5, <2>1, <2>2 DEF Inv, WorkerInv
<1>10. CallerInv'
  <2>1. worker[w] # "exited" /\ worker[w] # "unborn" /\ worker'[w] # "unborn"
    BY <1>1, <1>3
  <2>2. QED
    BY <1>1, <1>3, <2>1 DEF Inv, CallerInv
<1>11. NothingLeftRunning'
  BY <1>1 DEF Inv, NothingLeftRunning, Live
<1>12. QED
  BY <1>7, <1>8, <1>9, <1>10, <1>11 DEF Inv

\* A declaration that passes goes from its worker to the accepted ones.
LEMMA PassKeepsInv ==
  ASSUME Inv, NEW w \in Thread, Pass(w)
  PROVE  Inv'
<1> DEFINE k == task[w]
<1>1. /\ worker[w] = "checking" /\ k \notin bad /\ accepted' = accepted \cup {k}
      /\ worker' = [worker EXCEPT ![w] = "fetching"]
      /\ UNCHANGED <<bad, task_num, task, main, handle, failure, verdict>>
  BY DEF Pass, caller
<1>2. /\ worker'[w] = "fetching" /\ \A v \in Thread \ {w} : worker'[v] = worker[v]
      /\ worker' \in [Thread -> {"unborn", "fetching", "checking", "exited", "panicked"}]
  BY <1>1 DEF Inv, TypeOK
<1>3. /\ Claimed(w) /\ ~ Claimed(w)' /\ k \in Declar
      /\ \A v \in Thread \ {w} : Claimed(v)' <=> Claimed(v)
  BY <1>1, <1>2 DEF Claimed, Inv, WorkerInv
<1>4. TypeOK'
  BY <1>1, <1>2, <1>3 DEF Inv, TypeOK
<1>5. EachInOnePlace'
  <2>1. ASSUME NEW d \in Declar
        PROVE  d < task_num <=> d \in accepted' \/ \E v \in Thread : Claimed(v)' /\ task[v] = d
    BY <1>1, <1>3 DEF Inv, EachInOnePlace
  <2>2. ASSUME NEW v \in Thread, Claimed(v)' PROVE task[v] \notin accepted'
    BY <1>1, <1>3, <2>2 DEF Inv, EachInOnePlace
  <2>3. \A u, v \in Thread : Claimed(u)' /\ Claimed(v)' /\ task[u] = task[v] => u = v
    BY <1>3 DEF Inv, EachInOnePlace
  <2>4. QED
    BY <1>1, <2>1, <2>2, <2>3 DEF EachInOnePlace
<1>6. WorkerInv'
  BY <1>1, <1>2, <1>3 DEF Inv, WorkerInv
<1>7. CallerInv'
  BY <1>1, <1>2 DEF Inv, CallerInv
<1>8. NothingLeftRunning'
  BY <1>1 DEF Inv, NothingLeftRunning, Live
<1>9. QED
  BY <1>4, <1>5, <1>6, <1>7, <1>8 DEF Inv

\* A declaration that panics stays with the worker that it ended.
LEMMA PanicKeepsInv ==
  ASSUME Inv, NEW w \in Thread, Panic(w)
  PROVE  Inv'
<1>1. /\ worker[w] = "checking" /\ task[w] \in bad
      /\ worker' = [worker EXCEPT ![w] = "panicked"]
      /\ UNCHANGED <<bad, task_num, task, accepted, main, handle, failure, verdict>>
  BY DEF Panic, caller
<1>2. /\ worker'[w] = "panicked" /\ \A v \in Thread \ {w} : worker'[v] = worker[v]
      /\ worker' \in [Thread -> {"unborn", "fetching", "checking", "exited", "panicked"}]
  BY <1>1 DEF Inv, TypeOK
<1>3. \A v \in Thread : Claimed(v)' <=> Claimed(v)
  BY <1>1, <1>2 DEF Claimed
<1>4. TypeOK'
  BY <1>1, <1>2 DEF Inv, TypeOK
<1>5. EachInOnePlace'
  BY <1>1, <1>3 DEF Inv, EachInOnePlace
<1>6. WorkerInv'
  BY <1>1, <1>2, <1>3 DEF Inv, WorkerInv
<1>7. CallerInv'
  BY <1>1, <1>2 DEF Inv, CallerInv
<1>8. NothingLeftRunning'
  BY <1>1 DEF Inv, NothingLeftRunning, Live
<1>9. QED
  BY <1>4, <1>5, <1>6, <1>7, <1>8 DEF Inv

\* Starting a worker, or failing to, claims nothing.
LEMMA SpawnKeepsInv == Inv /\ (Spawn \/ SpawnFails) => Inv'
<1> SUFFICES ASSUME Inv, Spawn \/ SpawnFails PROVE Inv'
  OBVIOUS
<1>1. /\ main = "spawn" /\ verdict = "pending"
      /\ UNCHANGED <<bad, task_num, task, accepted, verdict>>
  BY DEF Spawn, SpawnFails, Inv, CallerInv
<1>2. handle \in Thread /\ worker[handle] = "unborn"
  BY <1>1, Numbers DEF Inv, TypeOK, CallerInv
<1>3. CASE Spawn
  <2>1. /\ worker' = [worker EXCEPT ![handle] = "fetching"] /\ failure' = failure
        /\ \/ handle = NumThreads /\ main' = "join" /\ handle' = 1
           \/ handle # NumThreads /\ main' = "spawn" /\ handle' = handle + 1
    BY <1>1, <1>3 DEF Spawn
  <2>2. /\ worker'[handle] = "fetching"
        /\ \A v \in Thread \ {handle} : worker'[v] = worker[v]
        /\ worker' \in [Thread -> {"unborn", "fetching", "checking", "exited", "panicked"}]
    BY <1>2, <2>1 DEF Inv, TypeOK
  <2>3. \A v \in Thread : Claimed(v)' <=> Claimed(v)
    BY <1>2, <2>2 DEF Claimed
  <2>4. handle' \in Thread
    BY <1>2, <2>1, Numbers DEF Thread
  <2>5. TypeOK'
    BY <1>1, <2>1, <2>2, <2>4 DEF Inv, TypeOK
  <2>6. EachInOnePlace'
    BY <1>1, <2>3 DEF Inv, EachInOnePlace
  <2>7. WorkerInv'
    BY <1>1, <1>2, <2>2, <2>3 DEF Inv, WorkerInv
  <2>8. CallerInv'
    <3>1. \A v \in Thread : v >= handle <=> worker[v] = "unborn"
      BY <1>1 DEF Inv, CallerInv
    <3>2. CASE handle = NumThreads
      <4>1. main' = "join" /\ handle' = 1
        BY <2>1, <3>2
      <4>2. \A v \in Thread : worker'[v] # "unborn" /\ ~ (v < 1)
        BY <2>2, <3>1, <3>2, Numbers DEF Thread
      <4>3. QED
        BY <1>1, <2>1, <4>1, <4>2 DEF Inv, CallerInv
    <3>3. CASE handle # NumThreads
      <4>1. main' = "spawn" /\ handle' = handle + 1
        BY <2>1, <3>3
      <4>2. \A v \in Thread : v >= handle + 1 <=> worker'[v] = "unborn"
        <5> SUFFICES ASSUME NEW v \in Thread
                     PROVE  v >= handle + 1 <=> worker'[v] = "unborn"
          OBVIOUS
        <5>1. v \in Nat /\ handle \in Nat
          BY <1>2, Numbers
        <5>2. v >= handle + 1 <=> v >= handle /\ v # handle
          BY <5>1
        <5>3. QED
          BY <2>2, <3>1, <5>2
      <4>3. QED
        BY <1>1, <2>1, <4>1, <4>2 DEF Inv, CallerInv
    <3>4. QED
      BY <3>2, <3>3
  <2>9. NothingLeftRunning'
    BY <1>1 DEF NothingLeftRunning
  <2>10. QED
    BY <2>5, <2>6, <2>7, <2>8, <2>9 DEF Inv
<1>4. CASE SpawnFails
  <2>1. main' = "unwind" /\ failure' = "aborted" /\ UNCHANGED <<worker, handle>>
    BY <1>4 DEF SpawnFails
  <2>2. \A v \in Thread : Claimed(v)' <=> Claimed(v)
    BY <2>1 DEF Claimed
  <2>3. TypeOK' /\ CallerInv' /\ NothingLeftRunning'
    BY <1>1, <2>1 DEF Inv, TypeOK, CallerInv, NothingLeftRunning
  <2>4. EachInOnePlace'
    BY <1>1, <2>2 DEF Inv, EachInOnePlace
  <2>5. WorkerInv'
    BY <1>1, <2>1, <2>2 DEF Inv, WorkerInv
  <2>6. QED
    BY <2>3, <2>4, <2>5 DEF Inv
<1>5. QED
  BY <1>3, <1>4

\* Joining and leaving the scope look at the workers and change none.
LEMMA JoinKeepsInv == Inv /\ (Join \/ LeaveScope) => Inv'
<1> SUFFICES ASSUME Inv, Join \/ LeaveScope PROVE Inv'
  OBVIOUS
<1>1. UNCHANGED <<bad, task_num, worker, task, accepted>>
  BY DEF Join, LeaveScope
<1>2. \A v \in Thread : Claimed(v)' <=> Claimed(v)
  BY <1>1 DEF Claimed
<1>3. EachInOnePlace'
  BY <1>1, <1>2 DEF Inv, EachInOnePlace
<1>4. WorkerInv'
  BY <1>1, <1>2 DEF Inv, WorkerInv
<1>5. handle \in Thread /\ verdict \in {"pending", "accepted", "rejected", "aborted"}
      /\ failure \in {"none", "aborted", "rejected"}
  BY DEF Inv, TypeOK
<1>6. CASE Join
  <2>1. main = "join" /\ verdict = "pending" /\ worker[handle] \notin Live
    BY <1>6 DEF Join, Inv, CallerInv
  <2>2. \A v \in Thread : worker[v] # "unborn" /\ (v < handle => worker[v] = "exited")
    BY <2>1 DEF Inv, CallerInv
  <2>3. \/ /\ worker[handle] = "panicked" /\ main' = "unwind" /\ failure' = "rejected"
           /\ UNCHANGED <<handle, verdict>>
        \/ /\ worker[handle] # "panicked" /\ handle = NumThreads /\ main' = "done"
           /\ verdict' = "accepted" /\ UNCHANGED <<handle, failure>>
        \/ /\ worker[handle] # "panicked" /\ handle # NumThreads /\ handle' = handle + 1
           /\ UNCHANGED <<main, verdict, failure>>
    BY <1>6 DEF Join
  <2>4. worker[handle] # "panicked" => worker[handle] = "exited"
    BY <1>5, <2>1, <2>2 DEF Inv, TypeOK, Live
  <2>5. handle' \in Thread
    BY <1>5, <2>3, Numbers DEF Thread
  <2>6. TypeOK'
    BY <1>1, <1>5, <2>1, <2>3, <2>5 DEF Inv, TypeOK
  <2>7. CASE worker[handle] = "panicked"
    <3>1. main' = "unwind" /\ failure' = "rejected" /\ UNCHANGED <<handle, verdict>>
      BY <2>3, <2>7
    <3>2. bad # {}
      BY <1>5, <2>7 DEF Inv, WorkerInv
    <3>3. CallerInv' /\ NothingLeftRunning'
      BY <1>1, <2>1, <3>1, <3>2 DEF CallerInv, NothingLeftRunning
    <3>4. QED
      BY <1>3, <1>4, <2>6, <3>3 DEF Inv
  <2>8. CASE worker[handle] # "panicked" /\ handle = NumThreads
    <3>1. main' = "done" /\ verdict' = "accepted" /\ UNCHANGED <<handle, failure>>
      BY <2>3, <2>8
    <3>2. \A v \in Thread : v < handle \/ v = handle
      BY <2>8, Numbers
    <3>3. \A v \in Thread : worker[v] = "exited"
      BY <2>2, <2>4, <2>8, <3>2
    <3>4. CallerInv' /\ NothingLeftRunning'
      BY <1>1, <2>1, <3>1, <3>3 DEF Inv, CallerInv, NothingLeftRunning, Live
    <3>5. QED
      BY <1>3, <1>4, <2>6, <3>4 DEF Inv
  <2>9. CASE worker[handle] # "panicked" /\ handle # NumThreads
    <3>1. handle' = handle + 1 /\ UNCHANGED <<main, verdict, failure>>
      BY <2>3, <2>9
    <3>2. \A v \in Thread : v < handle + 1 => v < handle \/ v = handle
      BY <1>5, Numbers
    <3>3. \A v \in Thread : v < handle + 1 => worker[v] = "exited"
      BY <2>2, <2>4, <2>9, <3>2
    <3>4. CallerInv' /\ NothingLeftRunning'
      BY <1>1, <2>1, <2>2, <3>1, <3>3 DEF Inv, CallerInv, NothingLeftRunning
    <3>5. QED
      BY <1>3, <1>4, <2>6, <3>4 DEF Inv
  <2>10. QED
    BY <2>7, <2>8, <2>9
<1>7. CASE LeaveScope
  <2>1. /\ main = "unwind" /\ \A w \in Thread : worker[w] \notin Live
        /\ main' = "done" /\ verdict' = failure /\ UNCHANGED <<handle, failure>>
    BY <1>7 DEF LeaveScope
  <2>2. failure # "none"
    BY <2>1 DEF Inv, CallerInv
  <2>3. TypeOK'
    BY <1>1, <1>5, <2>1, <2>2 DEF Inv, TypeOK
  <2>4. CallerInv' /\ NothingLeftRunning'
    BY <1>1, <1>5, <2>1, <2>2 DEF Inv, CallerInv, NothingLeftRunning
  <2>5. QED
    BY <1>3, <1>4, <2>3, <2>4 DEF Inv
<1>8. QED
  BY <1>6, <1>7

\* Every step keeps the invariant.
LEMMA StepKeepsInv == Inv /\ [Next]_vars => Inv'
<1> SUFFICES ASSUME Inv, [Next]_vars PROVE Inv'
  OBVIOUS
<1>1. CASE Call
  BY <1>1, SpawnKeepsInv, JoinKeepsInv DEF Call
<1>2. CASE \E w \in Thread : Work(w)
  BY <1>2, FetchKeepsInv, PassKeepsInv, PanicKeepsInv DEF Work
<1>3. CASE UNCHANGED vars
  <2>1. UNCHANGED <<bad, task_num, worker, task, main, handle, failure, accepted, verdict>>
    BY <1>3 DEF vars, caller
  <2>2. \A v \in Thread : Claimed(v)' <=> Claimed(v)
    BY <2>1 DEF Claimed
  <2>3. TypeOK' /\ CallerInv' /\ NothingLeftRunning'
    BY <2>1 DEF Inv, TypeOK, CallerInv, NothingLeftRunning
  <2>4. EachInOnePlace' /\ WorkerInv'
    BY <2>1, <2>2 DEF Inv, EachInOnePlace, WorkerInv
  <2>5. QED
    BY <2>3, <2>4 DEF Inv
<1>4. QED
  BY <1>1, <1>2, <1>3 DEF Next

\* The inductive invariant holds in every reachable state of check_all_declars.
LEMMA AlwaysInv == Spec => []Inv
BY InitInv, StepKeepsInv, PTL DEF Spec

------------------------------------------------------------------------------
(***************************************************************************)
(* Results                                                                 *)
(***************************************************************************)
\* The variables of check_all_declars keep their types.
THEOREM CheckDeclarsType == Spec => []TypeOK
<1>1. Inv => TypeOK
  BY DEF Inv
<1>2. QED
  BY <1>1, AlwaysInv, PTL

\* Between the counter and the workers of check_all_declars no declaration is
\* lost and none is checked twice.
THEOREM CheckDeclarsOnce == Spec => []EachInOnePlace
<1>1. Inv => EachInOnePlace
  BY DEF Inv
<1>2. QED
  BY <1>1, AlwaysInv, PTL

\* No worker of check_all_declars outlives the call, however it ends.
THEOREM CheckDeclarsScope == Spec => []NothingLeftRunning
<1>1. Inv => NothingLeftRunning
  BY DEF Inv
<1>2. QED
  BY <1>1, AlwaysInv, PTL

\* If more workers were started than there are bad declarations, then one of them
\* has left its loop past the end when check_all_declars ends: a panic costs a
\* worker, and each panic is over another declaration.
LEMMA OneWorkerExits ==
  ASSUME Inv, verdict # "pending", Cardinality(bad) < Spawned
  PROVE  \E w \in Thread : worker[w] = "exited"
<1> DEFINE S == {w \in Thread : worker[w] # "unborn"}
           f == [w \in S |-> task[w]]
<1>1. SUFFICES ASSUME \A w \in Thread : worker[w] # "exited" PROVE FALSE
  OBVIOUS
<1>2. \A w \in S : worker[w] = "panicked"
  BY <1>1 DEF Inv, TypeOK, NothingLeftRunning, Live
<1>3. IsFiniteSet(S) /\ IsFiniteSet(bad)
  <2>1. IsFiniteSet(Thread) /\ IsFiniteSet(Declar)
    BY Numbers, FS_Interval DEF Thread, Declar
  <2>2. S \in SUBSET Thread /\ bad \in SUBSET Declar
    BY DEF Inv, TypeOK
  <2>3. QED
    BY <2>1, <2>2, FS_Subset
<1>4. f \in [S -> bad]
  BY <1>2 DEF Inv, WorkerInv
<1>5. \E v, w \in S : v # w /\ task[v] = task[w]
  <2>1. Cardinality(bad) < Cardinality(S)
    BY DEF Spawned
  <2>2. \E v, w \in S : v # w /\ f[v] = f[w]
    <3> HIDE DEF S, f
    <3>1. QED
      BY <1>3, <1>4, <2>1, FS_PigeonHole
  <2>3. QED
    BY <2>2
<1>6. QED
  BY <1>2, <1>5 DEF Inv, EachInOnePlace, Claimed

\* A panic in one worker of check_all_declars keeps no other declaration from
\* being checked before the call ends, as long as more workers were started than
\* there are bad declarations.
THEOREM CheckDeclarsOthers == Spec => []OthersAreChecked
<1>1. Inv => OthersAreChecked
  <2> SUFFICES ASSUME Inv, verdict # "pending", Cardinality(bad) < Spawned
               PROVE  accepted = Declar \ bad
    BY DEF OthersAreChecked
  <2>1. PICK w \in Thread : worker[w] = "exited"
    BY OneWorkerExits
  <2>2. \A d \in Declar : d < task_num
    BY <2>1, Numbers DEF Inv, WorkerInv, TypeOK
  <2>3. \A v \in Thread : Claimed(v) => task[v] \in bad
    BY DEF Inv, NothingLeftRunning, WorkerInv, Claimed, Live
  <2>4. \A d \in Declar : d \in accepted \/ d \in bad
    BY <2>2, <2>3 DEF Inv, EachInOnePlace
  <2>5. accepted \subseteq Declar /\ accepted \cap bad = {}
    BY DEF Inv, TypeOK, WorkerInv
  <2>6. QED
    BY <2>4, <2>5
<1>2. QED
  BY <1>1, AlwaysInv, PTL

\* When the last worker was joined and none panicked, all declarations passed.
LEMMA JoinedAll ==
  ASSUME Inv, main = "join", handle = NumThreads, worker[handle] \notin Live,
         worker[handle] # "panicked"
  PROVE  accepted = Declar
<1>1. \A w \in Thread : worker[w] # "unborn" /\ (w < NumThreads => worker[w] = "exited")
  BY DEF Inv, CallerInv
<1>2. worker[NumThreads] = "exited"
  BY <1>1, Numbers DEF Inv, TypeOK, Live
<1>3. \A w \in Thread : worker[w] = "exited"
  <2>1. \A w \in Thread : w < NumThreads \/ w = NumThreads
    BY Numbers
  <2>2. QED
    BY <1>1, <1>2, <2>1
<1>4. task_num >= NumDeclars /\ \A w \in Thread : ~ Claimed(w)
  BY <1>3, Numbers DEF Inv, WorkerInv, Claimed
<1>5. \A d \in Declar : d < task_num
  BY <1>4, Numbers DEF Inv, TypeOK
<1>6. \A d \in Declar : d \in accepted
  BY <1>4, <1>5 DEF Inv, EachInOnePlace
<1>7. QED
  BY <1>6 DEF Inv, TypeOK

\* check_all_declars implements Verdict: it returns only if every declaration
\* was checked and passed, and panics only over a bad declaration or a thread
\* that could not be started, for any number of threads, one included.
THEOREM CheckDeclarsImplementsVerdict == Spec => ImplementsVerdict
<1>1. Init => Promise!Init
  BY DEF Init, Promise!Init
<1>2. Inv /\ [Next]_vars => [Promise!Next]_<<bad, accepted, verdict>>
  <2> SUFFICES ASSUME Inv, [Next]_vars
               PROVE  Promise!Next \/ UNCHANGED <<bad, accepted, verdict>>
    OBVIOUS
  <2>1. ASSUME NEW w \in Thread, Pass(w)
        PROVE  Promise!Next
    <3>1. /\ worker[w] = "checking" /\ task[w] \notin bad
          /\ accepted' = accepted \cup {task[w]} /\ UNCHANGED <<bad, verdict>>
      BY <2>1 DEF Pass, caller
    <3>2. task[w] \in Declar /\ task[w] \notin accepted
      BY <3>1 DEF Inv, EachInOnePlace, WorkerInv, Claimed
    <3>3. verdict = "pending"
      BY <3>1 DEF Inv, NothingLeftRunning, Live
    <3>4. QED
      BY <3>1, <3>2, <3>3 DEF Promise!Next, Promise!Accept
  <2>2. CASE Join
    <3>1. main = "join" /\ verdict = "pending" /\ UNCHANGED <<bad, accepted>>
      BY <2>2 DEF Join, Inv, CallerInv
    <3>2. CASE worker[handle] # "panicked" /\ handle = NumThreads
      <4>1. accepted = Declar /\ verdict' = "accepted"
        BY <2>2, <3>2, JoinedAll DEF Join
      <4>2. QED
        BY <3>1, <4>1 DEF Promise!Next, Promise!Conclude
    <3>3. CASE ~ (worker[handle] # "panicked" /\ handle = NumThreads)
      BY <2>2, <3>1, <3>3 DEF Join
    <3>4. QED
      BY <3>2, <3>3
  <2>3. CASE LeaveScope
    <3>1. main = "unwind" /\ verdict' = failure /\ UNCHANGED <<bad, accepted>>
      BY <2>3 DEF LeaveScope
    <3>2. verdict = "pending" /\ failure # "none" /\ (failure = "rejected" => bad # {})
      BY <3>1 DEF Inv, CallerInv
    <3>3. failure = "rejected" \/ failure = "aborted"
      BY <3>2 DEF Inv, TypeOK
    <3>4. QED
      BY <3>1, <3>2, <3>3 DEF Promise!Next, Promise!Conclude
  <2>4. CASE Spawn \/ SpawnFails \/ UNCHANGED vars
    BY <2>4 DEF Spawn, SpawnFails, vars, caller
  <2>5. ASSUME NEW w \in Thread, FetchTask(w) \/ Panic(w)
        PROVE  UNCHANGED <<bad, accepted, verdict>>
    BY <2>5 DEF FetchTask, Panic, caller
  <2>6. QED
    BY <2>1, <2>2, <2>3, <2>4, <2>5 DEF Next, Call, Work
<1>3. QED
  BY <1>1, <1>2, AlwaysInv, PTL DEF Spec, ImplementsVerdict, Promise!Spec

\* What a reader of the verdict may conclude.
VerdictRight ==
  /\ verdict = "accepted" => bad = {} /\ accepted = Declar
  /\ verdict = "rejected" => bad # {}

\* When check_all_declars returns, no declaration of the environment is bad and
\* each has passed its own check; when a worker's panic makes it panic, some
\* declaration is bad.  It follows from Verdict, for whatever implements it.
THEOREM CheckDeclarsVerdict == Spec => []VerdictRight
<1> DEFINE Right == VerdictRight /\ bad \subseteq Declar /\ accepted \subseteq Declar \ bad
<1>1. Promise!Init => Right
  BY DEF Promise!Init, VerdictRight
<1>2. Right /\ [Promise!Next]_<<bad, accepted, verdict>> => Right'
  <2> SUFFICES ASSUME Right, [Promise!Next]_<<bad, accepted, verdict>> PROVE Right'
    OBVIOUS
  <2>1. ASSUME NEW d \in Declar, Promise!Accept(d) PROVE Right'
    BY <2>1 DEF Promise!Accept, VerdictRight
  <2>2. CASE Promise!Conclude
    BY <2>2 DEF Promise!Conclude, VerdictRight
  <2>3. CASE UNCHANGED <<bad, accepted, verdict>>
    BY <2>3 DEF VerdictRight, Declar
  <2>4. QED
    BY <2>1, <2>2, <2>3 DEF Promise!Next
<1>3. ImplementsVerdict => []Right
  BY <1>1, <1>2, PTL DEF ImplementsVerdict, Promise!Spec
<1>4. QED
  BY <1>3, CheckDeclarsImplementsVerdict, PTL

------------------------------------------------------------------------------
(***************************************************************************)
(* check_all_declars ends: what is left to do only shrinks                 *)
(***************************************************************************)
\* The declarations that the counter has not reached, those that have not passed,
\* the threads that have not ended and have not begun, those to be joined, and the
\* verdict.
Undrawn == {d \in Declar : d >= task_num}
Unchecked == Declar \ accepted
Unfinished == {w \in Thread : worker[w] \notin {"exited", "panicked"}}
Unborn == {w \in Thread : worker[w] = "unborn"}
Unjoined == CASE main = "spawn" -> Thread
              [] main = "join" -> {w \in Thread : w >= handle}
              [] OTHER -> {}
Undecided == IF main = "done" THEN {} ELSE {"verdict"}

Left == <<Undrawn, Unchecked, Unfinished, Unborn, Unjoined, Undecided>>

\* Nothing is left to do again that was done, and each step does something.
Shrinks == (\A i \in 1 .. 6 : Left'[i] \subseteq Left[i]) /\ Left' # Left

\* It is enough to show that each part shrinks and one of them differs.
LEMMA Parts ==
  ASSUME /\ Undrawn' \subseteq Undrawn /\ Unchecked' \subseteq Unchecked
         /\ Unfinished' \subseteq Unfinished /\ Unborn' \subseteq Unborn
         /\ Unjoined' \subseteq Unjoined /\ Undecided' \subseteq Undecided,
         \/ Undrawn' # Undrawn \/ Unchecked' # Unchecked \/ Unfinished' # Unfinished
         \/ Unborn' # Unborn \/ Unjoined' # Unjoined \/ Undecided' # Undecided
  PROVE  Shrinks
BY DEF Shrinks, Left

\* A worker draws an index and passes or panics at it, or draws none and exits.
LEMMA WorkShrinks ==
  ASSUME Inv, NEW w \in Thread, Work(w)
  PROVE  Shrinks
<1>1. UNCHANGED caller
  BY DEF Work, FetchTask, Pass, Panic
<1>2. Unjoined' = Unjoined /\ Undecided' = Undecided
  BY <1>1 DEF caller, Unjoined, Undecided
<1>3. worker \in [Thread -> {"unborn", "fetching", "checking", "exited", "panicked"}] /\ task_num \in Nat
  BY DEF Inv, TypeOK
<1>4. CASE FetchTask(w)
  <2>1. /\ worker[w] = "fetching" /\ task_num' = task_num + 1 /\ UNCHANGED accepted
        /\ worker' = [worker EXCEPT ![w] = IF task_num \in Declar THEN "checking" ELSE "exited"]
    BY <1>4 DEF FetchTask
  <2>2. Undrawn' \subseteq Undrawn /\ Unchecked' = Unchecked
    BY <1>3, <2>1, Numbers DEF Undrawn, Unchecked
  <2>3. Unfinished' \subseteq Unfinished /\ Unborn' \subseteq Unborn
    BY <1>3, <2>1 DEF Unfinished, Unborn
  <2>4. CASE task_num \in Declar
    <3>1. task_num \in Undrawn /\ task_num \notin Undrawn'
      BY <1>3, <2>1, <2>4 DEF Undrawn
    <3>2. QED
      BY <1>2, <2>2, <2>3, <3>1, Parts
  <2>5. CASE task_num \notin Declar
    <3>1. w \in Unfinished /\ w \notin Unfinished'
      BY <1>3, <2>1, <2>5 DEF Unfinished
    <3>2. QED
      BY <1>2, <2>2, <2>3, <3>1, Parts
  <2>6. QED
    BY <2>4, <2>5
<1>5. CASE Pass(w)
  <2>1. /\ worker[w] = "checking" /\ UNCHANGED task_num /\ accepted' = accepted \cup {task[w]}
        /\ worker' = [worker EXCEPT ![w] = "fetching"]
    BY <1>5 DEF Pass
  <2>2. task[w] \in Declar /\ task[w] \notin accepted
    BY <2>1 DEF Inv, WorkerInv, EachInOnePlace, Claimed
  <2>3. Undrawn' = Undrawn /\ Unchecked' \subseteq Unchecked
        /\ task[w] \in Unchecked /\ task[w] \notin Unchecked'
    BY <2>1, <2>2 DEF Undrawn, Unchecked
  <2>4. Unfinished' \subseteq Unfinished /\ Unborn' \subseteq Unborn
    BY <1>3, <2>1 DEF Unfinished, Unborn
  <2>5. QED
    BY <1>2, <2>3, <2>4, Parts
<1>6. CASE Panic(w)
  <2>1. /\ worker[w] = "checking" /\ UNCHANGED <<task_num, accepted>>
        /\ worker' = [worker EXCEPT ![w] = "panicked"]
    BY <1>6 DEF Panic
  <2>2. Undrawn' = Undrawn /\ Unchecked' = Unchecked
    BY <2>1 DEF Undrawn, Unchecked
  <2>3. /\ Unfinished' \subseteq Unfinished /\ Unborn' \subseteq Unborn
        /\ w \in Unfinished /\ w \notin Unfinished'
    BY <1>3, <2>1 DEF Unfinished, Unborn
  <2>4. QED
    BY <1>2, <2>2, <2>3, Parts
<1>7. QED
  BY <1>4, <1>5, <1>6 DEF Work

\* The caller spawns a thread, joins one, or gives its verdict.
LEMMA CallShrinks ==
  ASSUME Inv, Call
  PROVE  Shrinks
<1>1. UNCHANGED <<task_num, accepted>>
  BY DEF Call, Spawn, SpawnFails, Join, LeaveScope
<1>2. Undrawn' = Undrawn /\ Unchecked' = Unchecked
  BY <1>1 DEF Undrawn, Unchecked
<1>3. /\ worker \in [Thread -> {"unborn", "fetching", "checking", "exited", "panicked"}]
      /\ handle \in Thread /\ Thread # {}
  BY Numbers DEF Inv, TypeOK
<1>4. CASE Spawn
  <2>1. /\ main = "spawn" /\ worker' = [worker EXCEPT ![handle] = "fetching"]
        /\ main' = "spawn" \/ (main' = "join" /\ handle' = 1)
    BY <1>4 DEF Spawn
  <2>2. worker[handle] = "unborn"
    <3>1. handle >= handle
      BY <1>3, Numbers
    <3>2. QED
      BY <1>3, <2>1, <3>1 DEF Inv, CallerInv
  <2>3. /\ Unfinished' \subseteq Unfinished /\ Unborn' \subseteq Unborn
        /\ handle \in Unborn /\ handle \notin Unborn'
    BY <1>3, <2>1, <2>2 DEF Unfinished, Unborn
  <2>4. Unjoined' \subseteq Unjoined /\ Undecided' \subseteq Undecided
    BY <2>1 DEF Unjoined, Undecided
  <2>5. QED
    BY <1>2, <2>3, <2>4, Parts
<1>5. CASE SpawnFails
  <2>1. main = "spawn" /\ main' = "unwind" /\ UNCHANGED worker
    BY <1>5 DEF SpawnFails
  <2>2. Unfinished' = Unfinished /\ Unborn' = Unborn
    BY <2>1 DEF Unfinished, Unborn
  <2>3. Unjoined' = {} /\ Unjoined = Thread /\ Undecided' \subseteq Undecided
    BY <2>1 DEF Unjoined, Undecided
  <2>4. QED
    BY <1>2, <1>3, <2>2, <2>3, Parts
<1>6. CASE Join
  <2>1. /\ main = "join" /\ UNCHANGED worker
        /\ main' \in {"unwind", "done"} \/ (main' = "join" /\ handle' = handle + 1)
    BY <1>6 DEF Join
  <2>2. Unfinished' = Unfinished /\ Unborn' = Unborn
    BY <2>1 DEF Unfinished, Unborn
  <2>3. handle \in Unjoined
    BY <1>3, <2>1, Numbers DEF Unjoined
  <2>4. Unjoined' \subseteq Unjoined /\ handle \notin Unjoined'
    <3>1. CASE main' \in {"unwind", "done"}
      BY <3>1 DEF Unjoined
    <3>2. CASE main' = "join" /\ handle' = handle + 1
      <4>1. \A w \in Thread : w >= handle + 1 => w >= handle
        BY <1>3, Numbers
      <4>2. ~ (handle >= handle + 1)
        BY <1>3, Numbers
      <4>3. QED
        BY <2>1, <3>2, <4>1, <4>2 DEF Unjoined
    <3>3. QED
      BY <2>1, <3>1, <3>2
  <2>5. Undecided' \subseteq Undecided
    BY <2>1 DEF Undecided
  <2>6. QED
    BY <1>2, <2>2, <2>3, <2>4, <2>5, Parts
<1>7. CASE LeaveScope
  <2>1. main = "unwind" /\ main' = "done" /\ UNCHANGED worker
    BY <1>7 DEF LeaveScope
  <2>2. Unfinished' = Unfinished /\ Unborn' = Unborn
    BY <2>1 DEF Unfinished, Unborn
  <2>3. Unjoined' = Unjoined /\ Undecided' = {} /\ Undecided = {"verdict"}
    BY <2>1 DEF Unjoined, Undecided
  <2>4. QED
    BY <1>2, <2>2, <2>3, Parts
<1>8. QED
  BY <1>4, <1>5, <1>6, <1>7 DEF Call

\* There is finitely much to do.
LEMMA LeftFinite == \A i \in 1 .. 6 : IsFiniteSet(Left[i])
<1>1. IsFiniteSet(Declar) /\ IsFiniteSet(Thread)
  BY SizeAssumption, FS_Interval DEF Declar, Thread
<1>2. IsFiniteSet(Undrawn) /\ IsFiniteSet(Unchecked) /\ IsFiniteSet(Unfinished) /\ IsFiniteSet(Unborn)
  <2>1. Undrawn \in SUBSET Declar /\ Unchecked \in SUBSET Declar
    BY DEF Undrawn, Unchecked
  <2>2. Unfinished \in SUBSET Thread /\ Unborn \in SUBSET Thread
    BY DEF Unfinished, Unborn
  <2>3. QED
    BY <1>1, <2>1, <2>2, FS_Subset
<1>3. IsFiniteSet(Unjoined)
  <2>1. Unjoined \in SUBSET Thread
    BY DEF Unjoined
  <2>2. QED
    BY <1>1, <2>1, FS_Subset
<1>4. IsFiniteSet(Undecided)
  BY FS_EmptySet, FS_Singleton DEF Undecided
<1>5. QED
  BY <1>2, <1>3, <1>4 DEF Left

\* check_all_declars ends however its threads are interleaved, and whatever panics:
\* each step of a worker or of the caller does something for good of the finitely
\* much there is to do.
THEOREM CheckDeclarsShrinks ==
  Spec => [][Shrinks]_vars /\ [](\A i \in 1 .. 6 : IsFiniteSet(Left[i]))
<1>1. Inv /\ [Next]_vars => [Shrinks]_vars
  BY WorkShrinks, CallShrinks DEF Next
<1>2. QED
  BY <1>1, LeftFinite, AlwaysInv, PTL DEF Spec
==============================================================================
