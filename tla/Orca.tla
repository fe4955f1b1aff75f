-------------------------------- MODULE Orca --------------------------------
(***************************************************************************)
(* The integration-test orchestrator: a server with a pool of VMs, one     *)
(* scheduler goroutine, a goroutine per job, an agent in each VM, and the  *)
(* client that submits tests and waits for their results.                  *)
(***************************************************************************)
EXTENDS Integers, FiniteSets, Sequences, SequencesExt

CONSTANTS OcJobs,          \* the jobs clients submit
          OcTarget,        \* OcTarget[j]: the VM id a job asks for, 0 for any
          OcUnstartable,   \* jobs whose command the agent may fail to start
          OcWarm, OcMax,   \* warmSize and maxSize of the server
          OcQueueCap,      \* capacity of jobQueue
          OcInsts,         \* bound: VMs started in one behaviour
          OcFaults         \* bound: VM exits, failed connections, stalls

VARIABLES vmList,   \* every VMInst ever made, in order of creation
          vms,      \* the map of the server: VM id -> index in vmList
          queue,    \* jobQueue
          sched,    \* the scheduler: its program counter, job, first pass?, next id
          booted,   \* how many VMs of the initial pool main has started
          jobPhase, \* where each job is
          jobVM,    \* the VMInst a job was given, 0 for none
          stopping, \* how often `shutdown` was closed (twice is a panic)
          faults

orcaVars == <<vmList, vms, queue, sched, booted, jobPhase, jobVM, stopping, faults>>

\* "connected" and "ready" differ only in that a heartbeat came: one value.
Usable(v) == v.status = "ready"
Insts == 1..Len(vmList)
Up(i) == vmList[i].proc = "up"
\* handleAgent still reads from the instance.
Heard(i) == vmList[i].status \in {"ready", "stale"}
IdleSched == [pc |-> "idle", job |-> CHOOSE j \in OcJobs : TRUE, first |-> TRUE, id |-> 0]

OrcaInit ==
    /\ vmList = << >> /\ vms = [i \in {} |-> 0] /\ queue = << >>
    /\ sched = IdleSched /\ booted = 0
    /\ jobPhase = [j \in OcJobs |-> "new"] /\ jobVM = [j \in OcJobs |-> 0]
    /\ stopping = 0 /\ faults = 0

\* StartVM: a VMInst under this id, whatever the map held there.
StartVM(id) ==
    /\ Len(vmList) < OcInsts
    /\ vmList' = Append(vmList, [id |-> id, status |-> "starting", active |-> 0,
                                 busy |-> FALSE, proc |-> "up"])
    /\ vms' = [i \in DOMAIN vms \cup {id} |-> IF i = id THEN Len(vmList) + 1 ELSE vms[i]]

\* main starts the initial pool, while the scheduler is already at work.
StartPool ==
    /\ booted < OcWarm /\ StartVM(booted + 1) /\ booted' = booted + 1
    /\ UNCHANGED <<queue, sched, jobPhase, jobVM, stopping, faults>>

\* handleClient: submit_job, exec and shell end in the queue; a full queue
\* keeps the client's goroutine waiting.
Submit(j) ==
    /\ jobPhase[j] = "new" /\ stopping = 0 /\ Len(queue) < OcQueueCap
    /\ queue' = Append(queue, j) /\ jobPhase' = [jobPhase EXCEPT ![j] = "queued"]
    /\ UNCHANGED <<vmList, vms, sched, booted, jobVM, stopping, faults>>

TakeJob ==
    /\ sched.pc = "idle" /\ queue # << >> /\ stopping = 0
    /\ sched' = [pc |-> "scan", job |-> Head(queue), first |-> TRUE, id |-> 0]
    /\ queue' = Tail(queue)
    /\ UNCHANGED <<vmList, vms, booted, jobPhase, jobVM, stopping, faults>>

\* The instances a job may be given now: the one it names, busy or not, or
\* any idle one.
WorkersFor(j) ==
    {i \in Insts : /\ i \in Range(vms) /\ Usable(vmList[i])
                   /\ IF OcTarget[j] = 0 THEN ~vmList[i].busy ELSE vmList[i].id = OcTarget[j]}

\* The scheduler found a worker: it is marked under the lock, and a runJob
\* goroutine is started.
Dispatch ==
    /\ sched.pc = "scan"
    /\ \E i \in WorkersFor(sched.job) :
         /\ vmList' = [vmList EXCEPT ![i].active = @ + 1, ![i].busy = TRUE]
         /\ jobVM' = [jobVM EXCEPT ![sched.job] = i]
    /\ jobPhase' = [jobPhase EXCEPT ![sched.job] = "given"]
    /\ sched' = IdleSched
    /\ UNCHANGED <<vms, queue, booted, stopping, faults>>

\* A target that is not in the map at the first look: the client is told.
TargetMissing ==
    /\ sched.pc = "scan" /\ sched.first
    /\ OcTarget[sched.job] # 0 /\ OcTarget[sched.job] \notin DOMAIN vms
    /\ jobPhase' = [jobPhase EXCEPT ![sched.job] = "refused"]
    /\ sched' = IdleSched
    /\ UNCHANGED <<vmList, vms, queue, booted, jobVM, stopping, faults>>

NextId == CHOOSE n \in Cardinality(DOMAIN vms) + 1 .. OcInsts + OcMax + 1 :
             /\ n \notin DOMAIN vms
             /\ \A m \in Cardinality(DOMAIN vms) + 1 .. n - 1 : m \in DOMAIN vms

\* No worker: below the limit an id is chosen (the lock is then released),
\* otherwise the scheduler sleeps and looks again.
NoWorker ==
    /\ sched.pc = "scan" /\ WorkersFor(sched.job) = {}
    /\ ~(sched.first /\ OcTarget[sched.job] # 0 /\ OcTarget[sched.job] \notin DOMAIN vms)
    /\ sched' = IF Cardinality(DOMAIN vms) < OcMax
                THEN [sched EXCEPT !.pc = "start", !.id = NextId]
                ELSE [sched EXCEPT !.first = FALSE]
    /\ UNCHANGED <<vmList, vms, queue, booted, jobPhase, jobVM, stopping, faults>>

ScaleUp ==
    /\ sched.pc = "start"
    /\ sched' = [sched EXCEPT !.pc = "scan", !.first = FALSE, !.id = 0]
    /\ StartVM(sched.id)
    /\ UNCHANGED <<queue, booted, jobPhase, jobVM, stopping, faults>>

SetVM(i, v) == vmList' = [vmList EXCEPT ![i] = v]

\* connectAgent: it dials for a minute.
ConnectAgent(i) ==
    /\ vmList[i].status = "starting" /\ Up(i)
    /\ SetVM(i, [vmList[i] EXCEPT !.status = "ready"])
    /\ UNCHANGED <<vms, queue, sched, booted, jobPhase, jobVM, stopping, faults>>

ConnectFails(i) ==
    /\ vmList[i].status = "starting" /\ (Up(i) => faults < OcFaults)
    /\ SetVM(i, [vmList[i] EXCEPT !.status = "failed"])
    /\ faults' = IF Up(i) THEN faults + 1 ELSE faults
    /\ UNCHANGED <<vms, queue, sched, booted, jobPhase, jobVM, stopping>>

\* handleAgent, a heartbeat: it makes a stale instance ready again.
Heartbeat(i) ==
    /\ Up(i) /\ vmList[i].status = "stale"
    /\ SetVM(i, [vmList[i] EXCEPT !.status = "ready"])
    /\ UNCHANGED <<vms, queue, sched, booted, jobPhase, jobVM, stopping, faults>>

\* healthChecker: no heartbeat for a minute.
MarkStale(i) ==
    /\ i \in Range(vms) /\ Usable(vmList[i]) /\ faults < OcFaults
    /\ SetVM(i, [vmList[i] EXCEPT !.status = "stale"])
    /\ faults' = faults + 1
    /\ UNCHANGED <<vms, queue, sched, booted, jobPhase, jobVM, stopping>>

\* The QEMU process ends.
VmExit(i) ==
    /\ Up(i) /\ faults < OcFaults
    /\ SetVM(i, [vmList[i] EXCEPT !.proc = "exited"]) /\ faults' = faults + 1
    /\ UNCHANGED <<vms, queue, sched, booted, jobPhase, jobVM, stopping>>

\* StartVM's goroutine drops the id from the map, whoever holds it by now.
Removed_Kept(i) == vms
Removed(i) == [n \in DOMAIN vms \ {vmList[i].id} |-> vms[n]]

VmRemoved(i) ==
    /\ vmList[i].proc = "exited"
    /\ vms' = Removed(i) /\ SetVM(i, [vmList[i] EXCEPT !.proc = "removed"])
    /\ UNCHANGED <<queue, sched, booted, jobPhase, jobVM, stopping, faults>>

\* handleAgent ends when the connection does.
AgentGone(i) ==
    /\ vmList[i].proc # "up" /\ Heard(i)
    /\ SetVM(i, [vmList[i] EXCEPT !.status = "disconnected"])
    /\ UNCHANGED <<vms, queue, sched, booted, jobPhase, jobVM, stopping, faults>>

\* runJob's deferred cleanup: the route, then the job's place on its VM.
Released_Idle(v) == [v EXCEPT !.active = @ - 1, !.busy = FALSE]
Released(v) == IF v.active <= 1 THEN [v EXCEPT !.active = 0, !.busy = FALSE]
               ELSE [v EXCEPT !.active = @ - 1]

\* runJob registers the route and sends the request; a failed send ends it.
RunJob(j) ==
    /\ jobPhase[j] = "given"
    /\ \/ jobPhase' = [jobPhase EXCEPT ![j] = "sent"]
       \/ ~Up(jobVM[j]) /\ jobPhase' = [jobPhase EXCEPT ![j] = "done"]
    /\ UNCHANGED <<vmList, vms, queue, sched, booted, jobVM, stopping, faults>>

\* The agent starts the command and later reports its exit (a timeout kills
\* the process group, which is an exit too), or reports that it cannot.
AgentExit(j) ==
    /\ jobPhase[j] = "sent" /\ Up(jobVM[j])
    /\ jobPhase' = [jobPhase EXCEPT ![j] = "exited"]
    /\ UNCHANGED <<vmList, vms, queue, sched, booted, jobVM, stopping, faults>>

AgentError(j) ==
    /\ jobPhase[j] = "sent" /\ Up(jobVM[j]) /\ j \in OcUnstartable
    /\ Heard(jobVM[j])
    /\ jobPhase' = [jobPhase EXCEPT ![j] = "stuck"]
    /\ UNCHANGED <<vmList, vms, queue, sched, booted, jobVM, stopping, faults>>

\* handleAgent finds the route, passes the exit on and signals runJob.
RouteExit(j) ==
    /\ jobPhase[j] = "exited"
    /\ Heard(jobVM[j])
    /\ jobPhase' = [jobPhase EXCEPT ![j] = "done"]
    /\ UNCHANGED <<vmList, vms, queue, sched, booted, jobVM, stopping, faults>>

CleanUp(j) ==
    /\ jobPhase[j] = "done"
    /\ jobPhase' = [jobPhase EXCEPT ![j] = "released"]
    /\ vmList' = [vmList EXCEPT ![jobVM[j]] = Released(@)]
    /\ jobVM' = [jobVM EXCEPT ![j] = 0]
    /\ UNCHANGED <<vms, queue, sched, booted, stopping, faults>>

\* A client asks for shutdown: the server stops its VMs and exits.  A second
\* request before the exit closes the channel again, which panics.
Shutdown ==
    /\ stopping < 2 /\ stopping' = stopping + 1
    /\ vmList' = << >> /\ vms' = [i \in {} |-> 0] /\ queue' = << >> /\ sched' = IdleSched
    /\ jobPhase' = [j \in OcJobs |-> "new"] /\ jobVM' = [j \in OcJobs |-> 0]
    /\ booted' = 0 /\ faults' = 0

SchedStep == TakeJob \/ Dispatch \/ TargetMissing \/ NoWorker \/ ScaleUp
VmStep(i) == ConnectAgent(i) \/ Heartbeat(i) \/ VmRemoved(i) \/ AgentGone(i)
JobStep(j) == RunJob(j) \/ AgentExit(j) \/ AgentError(j) \/ RouteExit(j) \/ CleanUp(j)
OrcaFault == \E i \in Insts : ConnectFails(i) \/ MarkStale(i) \/ VmExit(i)

OrcaNext ==
    \/ stopping = 0 /\ (StartPool \/ SchedStep \/ OrcaFault)
    \/ stopping = 0 /\ \E i \in Insts : VmStep(i)
    \/ stopping = 0 /\ \E j \in OcJobs : Submit(j) \/ JobStep(j)
    \/ Shutdown

-----------------------------------------------------------------------------
OnVM(i) == {j \in OcJobs : jobVM[j] = i}

\* Two tests never share a VM: a job that names no VM is alone among such
\* jobs on the instance it was given, however jobs that do name it come and
\* go.  (scheduler marks Busy, runJob's cleanup clears it at the last job.)
OneTestPerVM ==
    \A i \in Insts : Cardinality({j \in OnVM(i) : OcTarget[j] = 0}) <= 1

\* What may keep a test from being run (see TestsAreRun).
PoolLost == /\ Cardinality(DOMAIN vms) >= OcMax
            /\ \A n \in DOMAIN vms :
                 \/ vmList[vms[n]].status = "failed"
                 \/ \E j \in OnVM(vms[n]) : jobPhase[j] = "stuck"
Waiting(j) == jobPhase[j] = "queued" /\ OcTarget[j] = 0

\* An instance that is gone from the pool gives its place to a new one: a
\* test that was queued is given a VM, unless the server stops, every place
\* is held by an instance that will never work (it failed to connect, or the
\* command of a job on it could not be started, which ends no route), or the
\* scheduler waits for a VM that a job names.
TestsAreRun ==
    \A j \in OcJobs : Waiting(j) ~>
        \/ ~Waiting(j) \/ stopping > 0 \/ PoolLost
        \/ (sched.pc # "idle" /\ OcTarget[sched.job] # 0)

\* No VM runs two tests at a time, and the tests that are submitted are run.
TestsServed == []OneTestPerVM /\ TestsAreRun
=============================================================================
