---------------------------- MODULE PfctlWorker ----------------------------
(***************************************************************************)
(* The life of the pfctl worker and of the queue "pfctl" (pfctl_worker.cpp *)
(* and the end of main()): every start of testtool makes a main process,   *)
(* forks a worker and creates a queue, and all of them meet through one    *)
(* name.  Removing the name leaves the queue to those who have it open.    *)
(*                                                                         *)
(* daemon(8) restarts a dead main process; its worker may still live.      *)
(* Messages are left out: modules LbPool and Testtool have them.           *)
(***************************************************************************)
EXTENDS Naturals

CONSTANT N    \* incarnations of testtool (bound)

ASSUME WorkerAssumption == N \in Nat \ {0}

Runs == 1 .. N

VARIABLES
  main,       \* the main process of each incarnation
  worker,     \* its worker
  named,      \* the queue that has the name, by incarnation; 0 if none has
  opened,     \* the queue each worker has opened; 0 if none
  running,    \* workers whose flag running is set
  clean       \* history: testtool was never started while an orphan lived

workerVars == <<main, worker, named, opened, running, clean>>

(* Every variable keeps its type, and a worker past its attachment has a   *)
(* queue.                                                                  *)
WorkerTypeOK ==
  /\ main \in [Runs -> {"none", "started", "forked", "ready", "signalled",
                        "waiting", "gone"}]
  /\ worker \in [Runs -> {"none", "forked", "attaching", "attached", "loop",
                          "leaving", "exited"}]
  /\ named \in 0 .. N
  /\ opened \in [Runs -> 0 .. N]
  /\ running \subseteq Runs
  /\ clean \in BOOLEAN
  /\ \A i \in Runs : worker[i] \in {"attached", "loop", "leaving"} => opened[i] # 0

WorkerInit ==
  /\ main = [i \in Runs |-> "none"]
  /\ worker = [i \in Runs |-> "none"]
  /\ named = 0
  /\ opened = [i \in Runs |-> 0]
  /\ running = {}
  /\ clean = TRUE

Move(process, i, from, to) == process[i] = from /\ process' = [process EXCEPT ![i] = to]
-----------------------------------------------------------------------------
(* The main process.                                                       *)

(* Mutant: an old queue is left in place.                                  *)
StartMain_KeepsQueue(i) ==
  /\ Move(main, i, "none", "started")
  /\ \A j \in 1 .. i - 1 : main[j] = "gone"
  /\ clean' = (clean /\ \A j \in 1 .. i - 1 : worker[j] \in {"none", "exited"})
  /\ UNCHANGED <<worker, named, opened, running>>

(* start_pfctl_worker() removes what an earlier incarnation left behind,   *)
StartMain(i) ==
  /\ Move(main, i, "none", "started")
  /\ \A j \in 1 .. i - 1 : main[j] = "gone"
  /\ clean' = (clean /\ \A j \in 1 .. i - 1 : worker[j] \in {"none", "exited"})
  /\ named' = 0
  /\ UNCHANGED <<worker, opened, running>>

(* forks, *)
Fork(i) ==
  /\ Move(main, i, "started", "forked")
  /\ worker' = [worker EXCEPT ![i] = "forked"]
  /\ UNCHANGED <<named, opened, running, clean>>

(* and creates the queue (new_pfctl_queue, create_only).                   *)
CreateQueue(i) ==
  /\ Move(main, i, "forked", "ready")
  /\ named = 0 /\ named' = i
  /\ UNCHANGED <<worker, opened, running, clean>>

(* stop_pfctl_worker(): SIGTERM ends a worker that has not installed its   *)
(* handler yet, and clears the flag of any other;                          *)
Signal(i) ==
  /\ Move(main, i, "ready", "signalled")
  /\ worker' = [worker EXCEPT ![i] = IF @ = "forked" THEN "exited" ELSE @]
  /\ running' = running \ {i}
  /\ UNCHANGED <<named, opened, clean>>

(* the name of the queue goes, *)
RemoveQueue(i) ==
  /\ Move(main, i, "signalled", "waiting")
  /\ named' = 0
  /\ UNCHANGED <<worker, opened, running, clean>>

(* and main() waits for the worker.                                        *)
Wait(i) ==
  /\ Move(main, i, "waiting", "gone")
  /\ worker[i] = "exited"
  /\ UNCHANGED <<worker, named, opened, running, clean>>

Crash(i) ==
  /\ main[i] \notin {"none", "gone"}
  /\ main' = [main EXCEPT ![i] = "gone"]
  /\ UNCHANGED <<worker, named, opened, running, clean>>
-----------------------------------------------------------------------------
(* The worker.                                                             *)

(* Mutant: the old queue is removed after fork(), so that both do it.      *)
InstallHandler_Removes(i) ==
  /\ Move(worker, i, "forked", "attaching")
  /\ named' = 0
  /\ UNCHANGED <<main, opened, running, clean>>

(* The handler of SIGTERM is installed.                                    *)
InstallHandler(i) ==
  /\ Move(worker, i, "forked", "attaching")
  /\ UNCHANGED <<main, named, opened, running, clean>>

(* attach_pfctl_queue() tries until the name is there.                     *)
Attach(i) ==
  /\ Move(worker, i, "attaching", "attached")
  /\ named # 0 /\ opened' = [opened EXCEPT ![i] = named]
  /\ UNCHANGED <<main, named, running, clean>>

(* pfctl_worker_loop() sets its flag.                                      *)
EnterLoop(i) ==
  /\ Move(worker, i, "attached", "loop")
  /\ running' = running \cup {i}
  /\ UNCHANGED <<main, named, opened, clean>>

(* Mutant: the loop looks at its flag only.                                *)
LeaveLoop_FlagOnly(i) ==
  /\ Move(worker, i, "loop", "leaving")
  /\ i \notin running
  /\ UNCHANGED <<main, named, opened, running, clean>>

(* Mutant: the loop looks at its parent only.                              *)
LeaveLoop_ParentOnly(i) ==
  /\ Move(worker, i, "loop", "leaving")
  /\ main[i] = "gone"
  /\ UNCHANGED <<main, named, opened, running, clean>>

(* The loop ends when the flag is cleared or the parent is gone.           *)
LeaveLoop(i) ==
  /\ Move(worker, i, "loop", "leaving")
  /\ i \notin running \/ main[i] = "gone"
  /\ UNCHANGED <<main, named, opened, running, clean>>

(* timed_receive() throws: the loop ends, flag and parent or not.          *)
ReceiveFails(i) ==
  /\ Move(worker, i, "loop", "leaving")
  /\ UNCHANGED <<main, named, opened, running, clean>>

(* The worker removes the name, whoever has it, and exits.                 *)
Exit(i) ==
  /\ Move(worker, i, "leaving", "exited")
  /\ named' = 0
  /\ UNCHANGED <<main, opened, running, clean>>

(* The worker is killed.                                                   *)
WorkerDies(i) ==
  /\ worker[i] \notin {"none", "exited"}
  /\ worker' = [worker EXCEPT ![i] = "exited"]
  /\ UNCHANGED <<main, named, opened, running, clean>>

Step(i) ==
  \/ StartMain(i) \/ Fork(i) \/ CreateQueue(i)
  \/ RemoveQueue(i) \/ Wait(i)
  \/ InstallHandler(i) \/ Attach(i) \/ EnterLoop(i) \/ LeaveLoop(i) \/ Exit(i)

WorkerNext ==
  \E i \in Runs : Step(i) \/ Signal(i) \/ Crash(i) \/ ReceiveFails(i) \/ WorkerDies(i)

WorkerSpec == WorkerInit /\ [][WorkerNext]_workerVars

(* Processes go on unless they are killed; each is scheduled on its own.   *)
WorkerFairness ==
  \A i \in Runs :
    /\ WF_workerVars(StartMain(i) \/ Fork(i) \/ CreateQueue(i) \/ RemoveQueue(i) \/ Wait(i))
    /\ WF_workerVars(InstallHandler(i) \/ Attach(i) \/ EnterLoop(i)
                       \/ LeaveLoop(i) \/ Exit(i))

FairWorkerSpec == WorkerSpec /\ WorkerFairness
-----------------------------------------------------------------------------
(* Properties.                                                             *)

(* When testtool creates its queue the name is free: create_only cannot    *)
(* fail, whatever earlier incarnations and their workers left or still do. *)
NameIsFree == \A i \in Runs : main[i] = "forked" => named = 0

(* As long as testtool is started only when the workers of its earlier     *)
(* incarnations are gone, a worker reads the queue of its own main process *)
(* only: none takes a message that another incarnation counts as sent.     *)
ReadsOwnQueue == clean => \A i \in Runs : opened[i] \in {0, i}

(* As long as that is so, attach_pfctl_queue() is right to be "Awaiting    *)
(* master process to create the queue": once its master has created it,    *)
(* the name leads there until the worker has opened it.                    *)
AwaitsCreation ==
  clean => \A i \in Runs : worker[i] = "attaching" /\ main[i] = "ready" => named = i

(* A worker that has reached its loop does not outlive its main process    *)
(* for ever.                                                               *)
OrphansLeave ==
  \A i \in Runs : (worker[i] = "loop" /\ main[i] = "gone") ~> worker[i] = "exited"

(* A main process that has signalled its worker in time, in its loop, does *)
(* not wait for it for ever.  A worker that is signalled before the loop   *)
(* sets its flag again and is waited for until one of the two is killed.   *)
StopEnds ==
  \A i \in Runs :
    (main[i] = "signalled" /\ worker[i] = "loop" /\ i \notin running) ~> main[i] = "gone"
=============================================================================
