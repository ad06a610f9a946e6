------------------------------ MODULE Desktop ------------------------------
(***************************************************************************)
(* The job manager of the desktop server (tools/desktop/server.py) and the *)
(* workers it starts (tools/desktop/worker.py).  Request threads share the *)
(* manager's lock but not across a read of state.json, a poll of a child   *)
(* or a wait for one; a worker is a process of its own that writes the     *)
(* same state.json.  The main thread closes the manager; the manager may   *)
(* also die, its workers living on, and be started again.                  *)
(*                                                                         *)
(* A region under the lock is one step.  Of state.json only the label is   *)
(* kept.  `research` stands for the writers of derived files below a job,  *)
(* which admit, write and release in the same way.                         *)
(***************************************************************************)
EXTENDS Naturals, FiniteSets

CONSTANTS
    None,       \* no job
    Jobs,       \* job identifiers
    Requests,   \* request threads
    Closer,     \* the main thread
    BootBound   \* model bound on the managers of a workspace

ASSUME DesktopConfig == None \notin Jobs /\ Closer \notin Requests /\ BootBound \in Nat \ {0}

VARIABLES
    file,       \* label in runs/<job>/state.json
    worker,     \* the process of a job
    sig,        \* the strongest signal sent to it
    request,    \* jobs with a cancel.request file
    owner,      \* the .owner.lock marker exists
    up,         \* the manager process lives
    boots,      \* managers started so far
    children, claims, writers, interrupted, closing,    \* the Manager's fields
    research,   \* the job in whose scope a thread holds a reservation
    pc, job,    \* where a thread is, with which job
    seen,       \* the label its status has read
    err,        \* whether its cancellation has failed
    todo        \* jobs close has still to cancel

disk == <<file, request, owner>>
process == <<worker, sig>>
thread == <<pc, job, seen, err>>
manager == <<children, claims, writers, interrupted, closing>>
vars == <<disk, process, up, boots, manager, research, thread, todo>>

Threads == Requests \cup {Closer}
Live == {"queued", "running"}
Terminal == {"complete", "failed", "cancelled", "interrupted"}
Alive == {"starting", "working", "concluding", "failing", "finishing"}

Label == {"absent"} \cup Live \cup Terminal

\* What a thread of the manager is in the middle of: nothing, a request, or close.
Request == {"read", "poll", "commit", "reap", "arm", "await", "admit", "derive"}
Cancelling == {"signal", "wait", "kill", "rewait", "publish", "finally"}
Outside == {"idle", "close", "unlink", "closed", "abandoned"}

TypeOK ==
    /\ file \in [Jobs -> Label]
    /\ worker \in [Jobs -> {"none", "exited"} \cup Alive]
    /\ sig \in [Jobs -> {"none", "term", "kill"}]
    /\ request \subseteq Jobs /\ children \subseteq Jobs /\ claims \subseteq Jobs
    /\ writers \subseteq Jobs /\ interrupted \subseteq Jobs /\ todo \subseteq Jobs
    /\ owner \in BOOLEAN /\ up \in BOOLEAN /\ closing \in BOOLEAN
    /\ research \in [Threads -> Jobs \cup {None}]
    /\ pc \in [Threads -> Request \cup Cancelling \cup Outside]
    /\ job \in [Threads -> Jobs \cup {None}]
    /\ seen \in [Threads -> Label] /\ err \in [Threads -> BOOLEAN]

\* No thread has a request.
NoRequest(p, j, s, e) ==
    /\ p = [t \in Threads |-> "idle"] /\ j = [t \in Threads |-> None]
    /\ s = [t \in Threads |-> "absent"] /\ e = [t \in Threads |-> FALSE]

Init ==
    /\ file = [j \in Jobs |-> "absent"]
    /\ worker = [j \in Jobs |-> "none"]
    /\ sig = [j \in Jobs |-> "none"]
    /\ owner = FALSE /\ up = FALSE /\ closing = FALSE /\ boots = 0
    /\ request = {} /\ children = {} /\ claims = {} /\ writers = {} /\ interrupted = {} /\ todo = {}
    /\ research = [t \in Threads |-> None]
    /\ NoRequest(pc, job, seen, err)

-----------------------------------------------------------------------------
(***************************************************************************)
(* The worker.                                                             *)
(***************************************************************************)
Become(j, w) == worker' = [worker EXCEPT ![j] = w]
Publish(j, label) == file' = [file EXCEPT ![j] = label]

ByWorker == UNCHANGED <<request, owner, sig, up, boots, manager, research, thread, todo>>

\* run publishes "running" before it installs its signal handlers.
WorkerStarts(j) ==
    /\ worker[j] = "starting"
    /\ Become(j, "working") /\ Publish(j, "running")
    /\ ByWorker

\* The last check of the guard saw neither cancel.request nor a signal.
WorkerConcludes(j) ==
    /\ worker[j] = "working" /\ j \notin request /\ sig[j] = "none"
    /\ Become(j, "concluding")
    /\ ByWorker /\ UNCHANGED file

\* A failure to make "complete" durable is followed by the failure label.
WorkerCompletes(j) ==
    /\ worker[j] = "concluding"
    /\ Publish(j, "complete")
    /\ \E w \in {"failing", "finishing"} : Become(j, w)
    /\ ByWorker

\* The label of a failure tells whether cancellation was what stopped the guard.
WorkerFails(j) ==
    /\ worker[j] \in {"working", "concluding", "failing"}
    /\ Become(j, "finishing")
    /\ \/ Publish(j, "failed")
       \/ (j \in request \/ sig[j] # "none") /\ Publish(j, "cancelled")
    /\ ByWorker

\* The process ends: it is done, it dies of a signal, or it crashes.
WorkerExits(j) ==
    /\ worker[j] \in Alive
    /\ Become(j, "exited")
    /\ ByWorker /\ UNCHANGED file

-----------------------------------------------------------------------------
(***************************************************************************)
(* Steps of the manager's threads.                                         *)
(***************************************************************************)
Running(j) == j \in children /\ worker[j] \in Alive
Exited(j) == j \in children /\ worker[j] = "exited"

\* _reap: a claim is kept until the child is gone and no terminal write is pending.
Reaped(held, armed) == {j \in held : ~Exited(j) \/ j \in armed}

At(t, p) == up /\ pc[t] = p
Goto(t, p) == pc' = [pc EXCEPT ![t] = p] /\ UNCHANGED <<job, seen, err>>

\* A thread turns to job j, or to none.
Enter(t, p, j) ==
    /\ pc' = [pc EXCEPT ![t] = p]
    /\ job' = [job EXCEPT ![t] = j]
    /\ seen' = [seen EXCEPT ![t] = "absent"]
    /\ err' = [err EXCEPT ![t] = FALSE]

\* A request ends; close goes on with the next job, or is abandoned by an error.
Return(t) == Enter(t, IF t = Closer THEN "close" ELSE "idle", None)
Raise(t) == Enter(t, IF t = Closer THEN "abandoned" ELSE "idle", None)

Rest == UNCHANGED <<request, owner, process, up, boots, todo>>

\* A request names a job that exists.
Receive(t) ==
    /\ At(t, "idle") /\ t \in Requests
    /\ \E j \in Jobs, p \in {"read", "arm", "await"} : file[j] # "absent" /\ Enter(t, p, j)
    /\ UNCHANGED <<disk, process, up, boots, manager, research, todo>>

\* start: one active job; a failure after admission leaves what was written.
Start(t) ==
    /\ At(t, "idle") /\ t \in Requests
    /\ ~closing /\ ~\E i \in Jobs : Running(i)
    /\ \E j \in Jobs :
          /\ file[j] = "absent" /\ j \notin interrupted
          /\ \/ /\ Publish(j, "queued") /\ Become(j, "starting")
                /\ children' = children \cup {j}
                /\ claims' = Reaped(claims, writers) \cup {j}
                /\ Enter(t, "read", j)
                /\ UNCHANGED interrupted
             \/ /\ \E label \in {"absent", "queued"} : Publish(j, label)
                /\ interrupted' = interrupted \cup {j}
                /\ claims' = Reaped(claims, writers)
                /\ UNCHANGED <<worker, children, thread>>
    /\ UNCHANGED <<request, owner, sig, up, boots, writers, closing, research, todo>>

(***************************************************************************)
(* status: the label is read, then the child is polled, then, under the    *)
(* lock, a worker that left no terminal label is recorded as failed.       *)
(***************************************************************************)
StatusRead(t) ==
    /\ At(t, "read")
    /\ pc' = [pc EXCEPT ![t] = "poll"]
    /\ seen' = [seen EXCEPT ![t] = file[job[t]]]
    /\ UNCHANGED <<job, err>>
    /\ UNCHANGED <<disk, process, up, boots, manager, research, todo>>

StatusPoll(t) ==
    /\ At(t, "poll")
    /\ Goto(t, IF Exited(job[t]) /\ seen[t] \in Live THEN "commit" ELSE "reap")
    /\ UNCHANGED <<disk, process, up, boots, manager, research, todo>>

Scoped(j) == \E t \in Threads : research[t] = j

\* Mutant of StatusCommit: the label read before the lock decides.
StatusCommitStale(t) ==
    /\ At(t, "commit")
    /\ Publish(job[t], "failed") /\ Goto(t, "reap")
    /\ Rest /\ UNCHANGED <<manager, research>>

\* Without the job's claim the write needs a reservation of its own, which a
\* writer below the job denies.  The publication itself may fail.
StatusCommit(t) ==
    LET j == job[t]
    IN  /\ At(t, "commit")
        /\ IF file[j] \notin Live THEN Goto(t, "reap") /\ UNCHANGED file
           ELSE \/ ~(j \notin claims /\ Scoped(j)) /\ Publish(j, "failed") /\ Goto(t, "reap")
                \/ Raise(t) /\ UNCHANGED file
        /\ Rest /\ UNCHANGED <<manager, research>>

StatusReap(t) ==
    /\ At(t, "reap")
    /\ claims' = Reaped(claims, writers)
    /\ Return(t)
    /\ Rest /\ UNCHANGED <<file, children, writers, interrupted, closing, research>>

(***************************************************************************)
(* cancel: arm under the lock, signal, wait without it, escalate, publish. *)
(* A running child always has its claim, so arming never needs another.    *)
(***************************************************************************)
CancelArm(t) ==
    LET j == job[t]
    IN  /\ At(t, "arm")
        /\ \/ /\ j \in writers \/ Running(j)    \* owned already, or no request file
              /\ Raise(t) /\ UNCHANGED <<request, writers, claims>>
           \/ /\ j \notin writers /\ Running(j)
              /\ writers' = writers \cup {j} /\ request' = request \cup {j}
              /\ Goto(t, "signal") /\ UNCHANGED claims
           \/ /\ j \notin writers /\ ~Running(j)
              /\ claims' = Reaped(claims, writers)
              /\ Goto(t, "read") /\ UNCHANGED <<request, writers>>
        /\ UNCHANGED <<file, owner, process, up, boots, children, interrupted, closing, research, todo>>

Strengthen(j, s) ==
    sig' = [sig EXCEPT ![j] = IF worker[j] \in Alive /\ @ # "kill" THEN s ELSE @]

CancelSignal(t) ==
    /\ At(t, "signal")
    /\ Strengthen(job[t], "term") /\ Goto(t, "wait")
    /\ UNCHANGED <<disk, worker, up, boots, manager, research, todo>>

\* Mutant of CancelWait: the label is published after the first wait, exit or not.
CancelWaitOnce(t) ==
    /\ At(t, "wait")
    /\ Goto(t, "publish")
    /\ UNCHANGED <<disk, process, up, boots, manager, research, todo>>

CancelWait(t) ==
    /\ At(t, "wait")
    /\ Goto(t, IF worker[job[t]] = "exited" THEN "publish" ELSE "kill")
    /\ UNCHANGED <<disk, process, up, boots, manager, research, todo>>

\* The cancellation raises, after its finally clause.
GiveUp(t) ==
    /\ pc' = [pc EXCEPT ![t] = "finally"]
    /\ err' = [err EXCEPT ![t] = TRUE]
    /\ UNCHANGED <<job, seen>>

\* A child reaped by another thread since the wait leaves no group to kill.
CancelKill(t) ==
    /\ At(t, "kill")
    /\ \/ Strengthen(job[t], "kill") /\ Goto(t, "rewait")
       \/ /\ worker[job[t]] = "exited"
          /\ GiveUp(t) /\ UNCHANGED sig
    /\ UNCHANGED <<disk, worker, up, boots, manager, research, todo>>

CancelRewait(t) ==
    /\ At(t, "rewait")
    /\ IF worker[job[t]] = "exited" THEN Goto(t, "publish")
       ELSE GiveUp(t)
    /\ UNCHANGED <<disk, process, up, boots, manager, research, todo>>

CancelPublish(t) ==
    /\ At(t, "publish")
    /\ \/ Publish(job[t], "cancelled") /\ Goto(t, "finally")
       \/ GiveUp(t) /\ UNCHANGED file
    /\ Rest /\ UNCHANGED <<manager, research>>

CancelFinally(t) ==
    /\ At(t, "finally")
    /\ writers' = writers \ {job[t]}
    /\ claims' = Reaped(claims, writers')
    /\ IF err[t] THEN Raise(t) ELSE Goto(t, "read")
    /\ Rest /\ UNCHANGED <<file, children, interrupted, closing, research>>

(***************************************************************************)
(* Derived files: wait for the child behind a terminal label, admit, write *)
(* and release.                                                            *)
(***************************************************************************)
ResearchAwait(t) ==
    /\ At(t, "await")
    /\ IF Running(job[t]) /\ file[job[t]] \in Terminal
       THEN Raise(t) /\ UNCHANGED claims    \* the wait timed out
       ELSE Goto(t, "admit") /\ claims' = Reaped(claims, writers)
    /\ Rest /\ UNCHANGED <<file, children, writers, interrupted, closing, research>>

ResearchAdmit(t) ==
    /\ At(t, "admit")
    /\ claims' = IF closing THEN claims ELSE Reaped(claims, writers)
    /\ IF closing \/ job[t] \in claims' THEN Raise(t) /\ UNCHANGED research
       ELSE research' = [research EXCEPT ![t] = job[t]] /\ Goto(t, "derive")
    /\ Rest /\ UNCHANGED <<file, children, writers, interrupted, closing>>

ResearchDone(t) ==
    /\ At(t, "derive")
    /\ research' = [research EXCEPT ![t] = None]
    /\ Return(t)
    /\ Rest /\ UNCHANGED <<file, manager>>

(***************************************************************************)
(* close, on the main thread: cancel every child in turn, then give up the *)
(* marker if nothing is reserved.                                          *)
(***************************************************************************)
Close ==
    /\ At(Closer, "idle")
    /\ closing' = TRUE /\ todo' = children
    /\ Goto(Closer, "close")
    /\ UNCHANGED <<disk, process, up, boots, children, claims, writers, interrupted, research>>

CloseNext ==
    /\ At(Closer, "close") /\ todo # {}
    /\ \E j \in todo :
          /\ todo' = todo \ {j}
          /\ Enter(Closer, "arm", j)
    /\ UNCHANGED <<disk, process, up, boots, manager, research>>

CloseCheck ==
    /\ At(Closer, "close") /\ todo = {}
    /\ claims' = Reaped(claims, writers)
    /\ IF claims' # {} \/ \E j \in Jobs : Scoped(j) THEN Raise(Closer) ELSE Goto(Closer, "unlink")
    /\ Rest /\ UNCHANGED <<file, children, writers, interrupted, closing, research>>

CloseUnlink ==
    /\ At(Closer, "unlink")
    /\ owner' = FALSE
    /\ Goto(Closer, "closed")
    /\ UNCHANGED <<file, request, process, up, boots, manager, research, todo>>

-----------------------------------------------------------------------------
(***************************************************************************)
(* The manager process ends, after close or at any other moment, with all  *)
(* its threads.  A marker left behind is removed by hand, once no worker   *)
(* is left.  A new manager takes the marker and labels interrupted jobs;   *)
(* it ignores an error in doing so.                                        *)
(***************************************************************************)
ManagerEnds ==
    /\ up /\ up' = FALSE
    /\ children' = {} /\ claims' = {} /\ writers' = {} /\ interrupted' = {} /\ closing' = FALSE
    /\ research' = [t \in Threads |-> None]
    /\ NoRequest(pc', job', seen', err')
    /\ todo' = {}
    /\ UNCHANGED <<disk, process, boots>>

Recover ==
    /\ ~up /\ owner
    /\ \A j \in Jobs : worker[j] \notin Alive
    /\ owner' = FALSE
    /\ UNCHANGED <<file, request, process, up, boots, manager, research, thread, todo>>

Boot ==
    /\ ~up /\ ~owner /\ boots < BootBound
    /\ up' = TRUE /\ owner' = TRUE /\ boots' = boots + 1
    /\ interrupted' = {j \in Jobs : file[j] \in Live}
    /\ \E labelled \in SUBSET interrupted' :
          file' = [j \in Jobs |-> IF j \in labelled THEN "interrupted" ELSE file[j]]
    /\ UNCHANGED <<request, process, children, claims, writers, closing, research, thread, todo>>

-----------------------------------------------------------------------------
Worker(j) ==
    \/ WorkerStarts(j) \/ WorkerConcludes(j) \/ WorkerCompletes(j)
    \/ WorkerFails(j) \/ WorkerExits(j)

\* What a thread does once it has a request.
Proceed(t) ==
    \/ StatusRead(t) \/ StatusPoll(t) \/ StatusCommit(t) \/ StatusReap(t)
    \/ CancelArm(t) \/ CancelSignal(t) \/ CancelWait(t) \/ CancelKill(t)
    \/ CancelRewait(t) \/ CancelPublish(t) \/ CancelFinally(t)
    \/ ResearchAwait(t) \/ ResearchAdmit(t) \/ ResearchDone(t)

Next ==
    \/ \E j \in Jobs : Worker(j)
    \/ \E t \in Threads : Receive(t) \/ Start(t) \/ Proceed(t)
    \/ Close \/ CloseNext \/ CloseCheck \/ CloseUnlink
    \/ ManagerEnds \/ Recover \/ Boot

Spec == Init /\ [][Next]_vars

(***************************************************************************)
(* A request thread that can go on does; the kernel ends a process it has  *)
(* been told to kill.  Nothing is assumed of a worker that was only asked  *)
(* to stop, nor of a manager, which may end at any time.                   *)
(***************************************************************************)
Killed(j) == sig[j] = "kill" /\ WorkerExits(j)

ManagerFairness ==
    /\ \A t \in Threads : WF_vars(Proceed(t))
    /\ \A j \in Jobs : WF_vars(Killed(j))

FairSpec == Spec /\ ManagerFairness

-----------------------------------------------------------------------------
(***************************************************************************)
(* Properties.                                                             *)
(***************************************************************************)
\* Two writers never share state.json: a thread of the manager writes a label
\* only when the child is gone, and a label left by a child that is gone is
\* replaced, if it is terminal, by nothing but the cancellation that was armed
\* while the child lived.
OneWriter ==
    \A j \in Jobs : file'[j] # file[j] =>
        /\ pc' # pc => worker[j] \notin Alive
        /\ worker[j] \notin Alive /\ file[j] \in Terminal =>
               file'[j] = "cancelled" /\ j \in writers

\* A job's disk claim outlives its terminal label: while its child lives or a
\* cancellation has still to write, the claim is held and no thread derives files
\* below the job.
ScopeExclusive ==
    \A j \in children :
        Running(j) \/ j \in writers => j \in claims /\ ~Scoped(j)

\* The owner marker covers every writer: whatever is written below the
\* workspace, by a worker or by a thread still running when close returns, is
\* written under the marker, so that no second manager can be at work.
OwnerCovers ==
    file' # file \/ (\E t \in Threads : research'[t] # None) => owner'

\* A cancellation that was accepted ends the child, even one that ignores the
\* request and the first signal.
CancelEnds ==
    \A j \in Jobs : j \in writers ~> (worker[j] = "exited" \/ ~up)

\* A job is written by one process at a time: the claim on its disk is exclusive
\* while anything below it may still be written, a label that is final changes only
\* to "cancelled" by the thread that cancels, and everything written is written by
\* a manager that owns the workspace.
JobsSafe == [][ScopeExclusive' /\ OneWriter /\ OwnerCovers]_vars
=============================================================================
