----------------------------- MODULE CheckDeclars ----------------------------
(***************************************************************************)
(* The kernel's own entry point, `ExportFile::check_all_declars`: worker   *)
(* threads draw declarations from an atomic counter until it passes the    *)
(* end, a declaration that fails its check panics its worker, and the      *)
(* calling thread joins the workers in order and panics at the first one   *)
(* that did.  The serial checker is the case of one worker: it walks the   *)
(* declarations in the same order, and its join fails in the same way.     *)
(***************************************************************************)
EXTENDS Naturals, FiniteSets

CONSTANTS NumDeclars,  \* declarations of the environment
          NumThreads   \* Config::num_threads, or 1 for the serial checker

ASSUME SizeAssumption == NumDeclars \in Nat /\ NumThreads \in Nat \ {0}

Declar == 0 .. NumDeclars - 1
Thread == 1 .. NumThreads

VARIABLES
  bad,        \* the declarations whose check panics
  task_num,   \* the shared counter
  worker,     \* what each worker thread is doing
  task,       \* task[w]: the index that w drew last
  main,       \* the calling thread: "spawn", "join", "unwind" or "done"
  handle,     \* the thread that the calling thread spawns or joins next
  failure,    \* why the calling thread unwinds
  accepted,   \* history: the declarations that passed
  verdict     \* how check_all_declars ended: it returns or it panics

vars == <<bad, task_num, worker, task, main, handle, failure, accepted, verdict>>
caller == <<main, handle, failure, verdict>>

Live == {"fetching", "checking"}

Init ==
  /\ bad \in SUBSET Declar
  /\ task_num = 0
  /\ worker = [w \in Thread |-> "unborn"] /\ task = [w \in Thread |-> 0]
  /\ main = "spawn" /\ handle = 1
  /\ failure = "none"
  /\ accepted = {} /\ verdict = "pending"

------------------------------------------------------------------------------
\* thread::Builder::spawn_scoped, in the loop over num_threads.
Spawn ==
  /\ main = "spawn"
  /\ worker' = [worker EXCEPT ![handle] = "fetching"]
  /\ IF handle = NumThreads THEN main' = "join" /\ handle' = 1
                            ELSE handle' = handle + 1 /\ main' = main
  /\ UNCHANGED <<bad, task_num, task, failure, accepted, verdict>>

\* The operating system refuses the thread: unwrap panics inside the scope.
SpawnFails ==
  /\ main = "spawn"
  /\ main' = "unwind" /\ failure' = "aborted"
  /\ UNCHANGED <<bad, task_num, worker, task, handle, accepted, verdict>>

\* Mutant: a load and a store in place of fetch_add, so that an increment can
\* be lost.
FetchTaskLosesIncrement(w) ==
  /\ worker[w] = "fetching"
  /\ task' = [task EXCEPT ![w] = task_num]
  /\ task_num' \in {task_num, task_num + 1}
  /\ worker' = [worker EXCEPT ![w] =
                  IF task_num \in Declar THEN "checking" ELSE "exited"]
  /\ UNCHANGED <<bad, caller, accepted>>

\* let idx = task_num.fetch_add(1); a worker leaves its loop past the end.
FetchTask(w) ==
  /\ worker[w] = "fetching"
  /\ task' = [task EXCEPT ![w] = task_num]
  /\ task_num' = task_num + 1
  /\ worker' = [worker EXCEPT ![w] =
                  IF task_num \in Declar THEN "checking" ELSE "exited"]
  /\ UNCHANGED <<bad, caller, accepted>>

\* check_declar returns ...
Pass(w) ==
  /\ worker[w] = "checking" /\ task[w] \notin bad
  /\ accepted' = accepted \cup {task[w]}
  /\ worker' = [worker EXCEPT ![w] = "fetching"]
  /\ UNCHANGED <<bad, task_num, task, caller>>

\* Mutant: the first panic stops the other workers.
PanicStopsAll(w) ==
  /\ worker[w] = "checking" /\ task[w] \in bad
  /\ worker' = [worker EXCEPT ![w] = "panicked"]
  /\ task_num' = NumDeclars
  /\ UNCHANGED <<bad, task, caller, accepted>>

\* ... or panics, and the worker draws nothing any more.
Panic(w) ==
  /\ worker[w] = "checking" /\ task[w] \in bad
  /\ worker' = [worker EXCEPT ![w] = "panicked"]
  /\ UNCHANGED <<bad, task_num, task, caller, accepted>>

\* Mutant: the result of a join is dropped.
JoinIgnoresPanic ==
  /\ main = "join" /\ worker[handle] \notin Live
  /\ IF handle = NumThreads THEN main' = "done" /\ handle' = handle /\ verdict' = "accepted"
                            ELSE handle' = handle + 1 /\ UNCHANGED <<main, verdict>>
  /\ UNCHANGED <<failure, bad, task_num, worker, task, accepted>>

\* t.join().expect(..), one handle after the other.
Join ==
  /\ main = "join" /\ worker[handle] \notin Live
  /\ \/ /\ worker[handle] = "panicked"
        /\ main' = "unwind" /\ failure' = "rejected"
        /\ UNCHANGED <<handle, verdict>>
     \/ /\ worker[handle] # "panicked"
        /\ IF handle = NumThreads THEN main' = "done" /\ handle' = handle /\ verdict' = "accepted"
                                  ELSE handle' = handle + 1 /\ UNCHANGED <<main, verdict>>
        /\ UNCHANGED failure
  /\ UNCHANGED <<bad, task_num, worker, task, accepted>>

\* Mutants: the panic is passed on at once; a panicked worker is waited for.
LeaveScopeAtOnce ==
  /\ main = "unwind"
  /\ main' = "done" /\ verdict' = failure
  /\ UNCHANGED <<bad, task_num, worker, task, handle, failure, accepted>>

LeaveScopeWhenExited ==
  /\ main = "unwind" /\ \A w \in Thread : worker[w] = "exited"
  /\ main' = "done" /\ verdict' = failure
  /\ UNCHANGED <<bad, task_num, worker, task, handle, failure, accepted>>

\* thread::scope passes a panic on once all spawned threads have finished.
LeaveScope ==
  /\ main = "unwind" /\ \A w \in Thread : worker[w] \notin Live
  /\ main' = "done" /\ verdict' = failure
  /\ UNCHANGED <<bad, task_num, worker, task, handle, failure, accepted>>

Work(w) == FetchTask(w) \/ Pass(w) \/ Panic(w)
Call == Spawn \/ SpawnFails \/ Join \/ LeaveScope
Next == Call \/ \E w \in Thread : Work(w)

Spec == Init /\ [][Next]_vars

\* Every thread is scheduled again and again, and a check always ends.
FairSpec == Spec /\ WF_vars(Call) /\ \A w \in Thread : WF_vars(Work(w))
------------------------------------------------------------------------------
(***************************************************************************)
(* Properties                                                              *)
(***************************************************************************)
TypeOK ==
  /\ bad \in SUBSET Declar /\ accepted \in SUBSET Declar
  /\ task_num \in Nat /\ task \in [Thread -> Nat]
  /\ worker \in [Thread -> {"unborn", "fetching", "checking", "exited", "panicked"}]
  /\ main \in {"spawn", "join", "unwind", "done"}
  /\ handle \in Thread
  /\ failure \in {"none", "aborted", "rejected"}
  /\ verdict \in {"pending", "accepted", "rejected", "aborted"}

Claimed(w) == worker[w] \in {"checking", "panicked"}

\* Every declaration the counter has passed is in exactly one place: accepted,
\* being checked by one worker, or the one whose panic ended a worker.
EachInOnePlace ==
  /\ \A d \in Declar : d < task_num <=>
       d \in accepted \/ \E w \in Thread : Claimed(w) /\ task[w] = d
  /\ \A w \in Thread : Claimed(w) => task[w] \notin accepted
  /\ \A v, w \in Thread : Claimed(v) /\ Claimed(w) /\ task[v] = task[w] => v = w

\* As long as a worker is left, panics keep no other declaration from being
\* checked before check_all_declars ends.
Spawned == Cardinality({w \in Thread : worker[w] # "unborn"})
OthersAreChecked ==
  verdict # "pending" /\ Cardinality(bad) < Spawned => accepted = Declar \ bad

\* No worker outlives the call, and with the verdict given nothing changes.
NothingLeftRunning == verdict # "pending" => \A w \in Thread : worker[w] \notin Live

Promise == INSTANCE Verdict
ImplementsVerdict == Promise!Spec

\* check_all_declars ends, and with a bad declaration it does not return.
Ends == <>(verdict # "pending")
==============================================================================
