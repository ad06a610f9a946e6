---------------------------- MODULE WorkerGuard ----------------------------
(***************************************************************************)
(* The resource guard of an analysis worker (tools/desktop/resources.py,   *)
(* ResourceGuard), with the main thread that runs the analysis under it    *)
(* (tools/desktop/worker.py, run), its watchdog thread, the thread that    *)
(* drains the native child's stderr, and the signal handler.  The handler  *)
(* runs on top of whatever the main thread was executing; the lock is a    *)
(* threading.Lock, which its holder cannot take again.                     *)
(***************************************************************************)
EXTENDS TLAPS

VARIABLES
    lock,       \* who holds guard.lock, or "none"
    reason, stopped,
    attached,   \* guard.child is set
    child,      \* the native process
    main,       \* where the main thread is
    call,       \* stop in progress: [pc, why, kid] for each caller
    asked,      \* cancel.request exists
    excess,     \* the lifetime or the disk budget is exceeded
    signal,     \* SIGTERM or SIGINT
    label       \* the terminal label of state.json

guardVars == <<lock, reason, stopped, attached, child, main, call, asked, excess, signal, label>>
guard == <<lock, reason, stopped, attached, child, call>>
world == <<asked, excess, signal>>

Callers == {"main", "handler", "watch", "errors"}
NoCall == [pc |-> "off", why |-> "none", kid |-> FALSE]

GuardInit ==
    /\ lock = "none" /\ reason = "none" /\ stopped = FALSE
    /\ attached = FALSE /\ child = "none"
    /\ main = "entering"
    /\ call = [c \in Callers |-> NoCall]
    /\ asked = FALSE /\ excess = FALSE /\ signal = "none"
    /\ label = "none"

-----------------------------------------------------------------------------
(***************************************************************************)
(* stop, attach and sample.                                                *)
(***************************************************************************)
Off(c) == call[c].pc = "off"

Call(c, why) == call' = [call EXCEPT ![c] = [NoCall EXCEPT !.pc = "entering", !.why = why]]

StopEnter(c) ==
    /\ call[c].pc = "entering" /\ lock = "none"
    /\ lock' = c
    /\ reason' = IF reason = "none" THEN call[c].why ELSE reason
    /\ call' = [call EXCEPT ![c].pc = "inside"]
    /\ UNCHANGED <<stopped, attached, child, main, world, label>>

StopLeave(c) ==
    /\ call[c].pc = "inside"
    /\ stopped' = TRUE
    /\ lock' = "none"
    /\ call' = [call EXCEPT ![c].pc = "killing", ![c].kid = attached]
    /\ UNCHANGED <<reason, attached, child, main, world, label>>

StopKill(c) ==
    /\ call[c].pc = "killing"
    /\ child' = IF call[c].kid /\ child = "running" THEN "dead" ELSE child
    /\ call' = [call EXCEPT ![c] = NoCall]
    /\ UNCHANGED <<lock, reason, stopped, attached, main, world, label>>

Stop(c) == StopEnter(c) \/ StopLeave(c) \/ StopKill(c)

\* The first reason for which sample stops; a later one changes nothing.
Found == IF asked THEN "cancelled" ELSE IF excess THEN "budget" ELSE "none"

-----------------------------------------------------------------------------
(***************************************************************************)
(* The main thread.  It is held up while a handler runs on top of it.      *)
(***************************************************************************)
Free == Off("main") /\ Off("handler")

Move(pc) == main' = pc

\* sample, at the entry of the guard, between events and before the end.
MainSample ==
    /\ Free /\ main \in {"entering", "reading", "ending"}
    /\ Move(CASE main = "entering" -> "opening" [] main = "reading" -> "checking"
              [] main = "ending" -> "concluding")
    /\ IF Found = "none" THEN UNCHANGED call ELSE Call("main", Found)
    /\ UNCHANGED <<lock, reason, stopped, attached, child, world, label>>

\* check raises WorkerStopped.
MainCheck ==
    /\ Free /\ main \in {"opening", "checking", "concluding"}
    /\ Move(IF stopped THEN "unwinding"
            ELSE CASE main = "opening" -> "spawning" [] main = "checking" -> "reading"
                   [] main = "concluding" -> "completing")
    /\ UNCHANGED <<guard, world, label>>

MainSpawn ==
    /\ Free /\ main = "spawning"
    /\ child' = "running" /\ Move("attaching")
    /\ UNCHANGED <<lock, reason, stopped, attached, call, world, label>>

MainAttach ==
    /\ Free /\ main = "attaching" /\ lock = "none"
    /\ attached' = TRUE /\ Move("rechecking")
    /\ UNCHANGED <<lock, reason, stopped, child, call, world, label>>

\* Mutant of MainRecheck: attach does not look whether the guard has stopped.
MainRecheckNot ==
    /\ Free /\ main = "rechecking"
    /\ Move("reading")
    /\ UNCHANGED <<guard, world, label>>

MainRecheck ==
    /\ Free /\ main = "rechecking"
    /\ Move("reading")
    /\ IF stopped THEN Call("main", reason) ELSE UNCHANGED call
    /\ UNCHANGED <<lock, reason, stopped, attached, child, world, label>>

\* The child's output ends with the child; anything else in the loop may fail.
MainEof ==
    /\ Free /\ main = "reading" /\ child = "dead"
    /\ Move("ending")
    /\ UNCHANGED <<guard, world, label>>

MainError ==
    /\ Free /\ main \in {"spawning", "reading", "ending"}
    /\ Move("unwinding")
    /\ UNCHANGED <<guard, world, label>>

MainPublish ==
    /\ Free /\ main \in {"unwinding", "completing"}
    /\ label' = IF main = "completing" THEN "complete"
                ELSE IF reason = "cancelled" THEN "cancelled" ELSE "failed"
    /\ Move("cleaning")
    /\ UNCHANGED <<guard, world>>

\* finally: a child that is still there is killed; then the guard is left.
MainClean ==
    /\ Free /\ main = "cleaning"
    /\ child' = IF child = "running" THEN "dead" ELSE child
    /\ Move("gone")
    /\ UNCHANGED <<lock, reason, stopped, attached, call, world, label>>

Main ==
    \/ MainSample \/ MainCheck \/ MainSpawn \/ MainAttach \/ MainRecheck
    \/ MainEof \/ MainError \/ MainPublish \/ MainClean

(***************************************************************************)
(* The other callers of stop.                                              *)
(***************************************************************************)
Guarded == main \notin {"entering", "gone"}

Watch ==
    /\ Guarded /\ ~stopped /\ Off("watch") /\ Found # "none"
    /\ Call("watch", Found)
    /\ UNCHANGED <<lock, reason, stopped, attached, child, main, world, label>>

\* More stderr than is kept.
Errors ==
    /\ attached /\ child = "running" /\ ~stopped /\ Off("errors") /\ main # "gone"
    /\ Call("errors", "stderr")
    /\ UNCHANGED <<lock, reason, stopped, attached, child, main, world, label>>

\* The interpreter runs the handler between two instructions of the main thread,
\* also while that holds the lock in stop.
Handle ==
    /\ signal = "pending" /\ main # "gone" /\ Off("handler")
    /\ signal' = "handled"
    /\ Call("handler", "cancelled")
    /\ UNCHANGED <<lock, reason, stopped, attached, child, main, asked, excess, label>>

ChildEnds ==
    /\ child = "running" /\ child' = "dead"
    /\ UNCHANGED <<lock, reason, stopped, attached, main, call, world, label>>

\* The manager leaves a request and then sends the signal; either may come alone.
Ask == ~asked /\ asked' = TRUE /\ UNCHANGED <<guard, main, excess, signal, label>>
Signal == signal = "none" /\ signal' = "pending" /\ UNCHANGED <<guard, main, asked, excess, label>>
Exceed == ~excess /\ excess' = TRUE /\ UNCHANGED <<guard, main, asked, signal, label>>

\* A call in progress below a handler waits for it.
Step(c) == (c = "main" => Off("handler")) /\ Stop(c)

GuardNext ==
    \/ Main \/ Watch \/ Errors \/ Handle \/ ChildEnds \/ Ask \/ Signal \/ Exceed
    \/ \E c \in Callers : Step(c)

GuardSpec == GuardInit /\ [][GuardNext]_guardVars

\* Every thread of the worker is scheduled.  The child may run for ever.
FairGuard ==
    /\ GuardSpec
    /\ WF_guardVars(Main) /\ WF_guardVars(Watch) /\ WF_guardVars(Handle)
    /\ \A c \in Callers : WF_guardVars(Step(c))

-----------------------------------------------------------------------------
(***************************************************************************)
(* Properties.                                                             *)
(***************************************************************************)
\* A stop and the attachment of the child cannot miss each other: once the guard
\* has stopped and no call is under way, an attached child does not run.
StopReaches ==
    (stopped /\ attached /\ main # "rechecking" /\ \A c \in Callers : Off(c)) => child # "running"

\* The guard kills a native child on cancellation, as its documentation says.
CancelKills == (asked /\ attached /\ child = "running") ~> child # "running"

-----------------------------------------------------------------------------
(***************************************************************************)
(* StopReaches for every schedule.  It is not inductive: a stop that was   *)
(* called before the child was attached may be anywhere, so the invariant  *)
(* says who is going to deal with a child that still runs.                 *)
(***************************************************************************)
Reasons == {"none", "cancelled", "budget", "stderr"}
CallType == [pc : {"off", "entering", "inside", "killing"}, why : Reasons, kid : BOOLEAN]

GuardTypes ==
    /\ stopped \in BOOLEAN /\ attached \in BOOLEAN
    /\ reason \in Reasons
    /\ call \in [Callers -> CallType]

\* This call of stop has still to read guard.child, or has found the child.
Reaching(k) == k.pc \in {"entering", "inside"} \/ (k.pc = "killing" /\ k.kid)

\* Somebody is going to kill the child.
Reached == main = "rechecking" \/ \E c \in Callers : Reaching(call[c])

Unattached == main \in {"entering", "opening", "spawning", "attaching"} => ~attached

Covered == stopped /\ attached /\ child = "running" => Reached

GuardInv == GuardTypes /\ Unattached /\ Covered

\* A call of stop by a thread that is in none (stop in resources.py) replaces an
\* entry of the table that reached nothing by one that will.
LEMMA CallReaches ==
    ASSUME NEW c \in Callers, NEW why \in Reasons,
           GuardTypes, Off(c), Call(c, why)
    PROVE  /\ call' \in [Callers -> CallType]
           /\ Reaching(call'[c])
           /\ \A d \in Callers : Reaching(call[d]) => Reaching(call'[d])
<1>1. /\ call' \in [Callers -> CallType]
      /\ call'[c] = [pc |-> "entering", why |-> why, kid |-> FALSE]
      /\ \A d \in Callers \ {c} : call'[d] = call[d]
  BY DEF Call, NoCall, GuardTypes, CallType
<1>2. ~Reaching(call[c])
  BY DEF Off, Reaching
<1>3. Reaching(call'[c])
  BY <1>1 DEF Reaching
<1>4. \A d \in Callers : Reaching(call[d]) => Reaching(call'[d])
  BY <1>1, <1>2 DEF Reaching
<1> QED
  BY <1>1, <1>3, <1>4

\* A step of stop itself (resources.py) keeps every child covered: the flag is
\* raised together with the look at guard.child, under the lock of attach.
LEMMA StopCovers ==
    ASSUME NEW c \in Callers, GuardInv, Stop(c)
    PROVE  GuardInv'
<1>t. GuardTypes /\ call[c] \in CallType
  BY DEF GuardInv, GuardTypes
<1>1. CASE StopEnter(c)
  <2>1. /\ call' = [call EXCEPT ![c].pc = "inside"]
        /\ reason' \in Reasons
        /\ call[c].pc = "entering"
        /\ UNCHANGED <<stopped, attached, child, main>>
    BY <1>1, <1>t DEF StopEnter, GuardTypes, CallType
  <2>2. /\ call' \in [Callers -> CallType]
        /\ call'[c].pc = "inside"
        /\ \A d \in Callers \ {c} : call'[d] = call[d]
    BY <2>1, <1>t DEF GuardTypes, CallType
  <2>3. \A d \in Callers : Reaching(call[d]) => Reaching(call'[d])
    BY <2>2 DEF Reaching
  <2> QED
    BY <2>1, <2>2, <2>3 DEF GuardInv, GuardTypes, Unattached, Covered, Reached
<1>2. CASE StopLeave(c)
  <2>1. /\ call' = [call EXCEPT ![c].pc = "killing", ![c].kid = attached]
        /\ stopped' = TRUE
        /\ UNCHANGED <<reason, attached, child, main>>
    BY <1>2 DEF StopLeave
  <2>2. /\ call' \in [Callers -> CallType]
        /\ call'[c].pc = "killing" /\ call'[c].kid = attached
    BY <2>1, <1>t DEF GuardTypes, CallType
  <2>3. attached => Reaching(call'[c])
    BY <2>2 DEF Reaching
  <2> QED
    BY <2>1, <2>2, <2>3 DEF GuardInv, GuardTypes, Unattached, Covered, Reached
<1>3. CASE StopKill(c)
  <2>1. /\ call' = [call EXCEPT ![c] = NoCall]
        /\ call[c].pc = "killing"
        /\ child' = IF call[c].kid /\ child = "running" THEN "dead" ELSE child
        /\ UNCHANGED <<stopped, reason, attached, main>>
    BY <1>3 DEF StopKill
  <2>2. /\ call' \in [Callers -> CallType]
        /\ \A d \in Callers \ {c} : call'[d] = call[d]
    BY <2>1, <1>t DEF GuardTypes, CallType, Reasons, NoCall
  <2>3. CASE call[c].kid
    BY <2>1, <2>2, <2>3 DEF GuardInv, GuardTypes, Unattached, Covered
  <2>4. CASE ~call[c].kid
    <3>1. ~Reaching(call[c])
      BY <2>1, <2>4 DEF Reaching
    <3>2. \A d \in Callers : Reaching(call[d]) => Reaching(call'[d])
      BY <3>1, <2>2
    <3> QED
      BY <2>1, <2>2, <2>4, <3>2 DEF GuardInv, GuardTypes, Unattached, Covered, Reached
  <2> QED
    BY <2>3, <2>4
<1> QED
  BY <1>1, <1>2, <1>3 DEF Stop

\* A step of the main thread (run in worker.py) keeps every child covered: the
\* child is attached before stopped is looked at again.
LEMMA MainCovers ==
    ASSUME GuardInv, Main
    PROVE  GuardInv'
<1>t. GuardTypes /\ Found \in Reasons /\ "main" \in Callers
  BY DEF GuardInv, Found, Reasons, Callers
<1>1. CASE MainSample
  <2>1. /\ Free
        /\ main' \in {"opening", "checking", "concluding"}
        /\ main' = "opening" => main = "entering"
        /\ main # "rechecking"
        /\ UNCHANGED <<reason, stopped, attached, child>>
        /\ UNCHANGED call \/ Call("main", Found)
    BY <1>1 DEF MainSample, Move
  <2>2. /\ call' \in [Callers -> CallType]
        /\ \A d \in Callers : Reaching(call[d]) => Reaching(call'[d])
    <3>1. CASE UNCHANGED call
      BY <3>1, <1>t DEF GuardTypes
    <3>2. CASE Call("main", Found)
      BY <3>2, <1>t, <2>1, CallReaches DEF Free
    <3> QED
      BY <2>1, <3>1, <3>2
  <2> QED
    BY <2>1, <2>2 DEF GuardInv, GuardTypes, Unattached, Covered, Reached
<1>2. CASE MainCheck
  <2>1. /\ main' \in {"unwinding", "spawning", "reading", "completing"}
        /\ main' = "spawning" => main = "opening"
        /\ main # "rechecking"
        /\ UNCHANGED <<reason, stopped, attached, child, call>>
    BY <1>2 DEF MainCheck, Move, guard
  <2> QED
    BY <2>1 DEF GuardInv, GuardTypes, Unattached, Covered, Reached
<1>3. CASE MainSpawn
  <2>1. /\ main = "spawning" /\ main' = "attaching"
        /\ UNCHANGED <<reason, stopped, attached, call>>
    BY <1>3 DEF MainSpawn, Move
  <2> QED
    BY <2>1 DEF GuardInv, GuardTypes, Unattached, Covered
<1>4. CASE MainAttach
  <2>1. /\ main' = "rechecking" /\ attached' = TRUE
        /\ UNCHANGED <<reason, stopped, call>>
    BY <1>4 DEF MainAttach, Move
  <2> QED
    BY <2>1 DEF GuardInv, GuardTypes, Unattached, Covered, Reached
<1>5. CASE MainRecheck
  <2>1. /\ Off("main") /\ main' = "reading"
        /\ UNCHANGED <<reason, stopped, attached, child>>
        /\ IF stopped THEN Call("main", reason) ELSE UNCHANGED call
    BY <1>5 DEF MainRecheck, Move, Free
  <2>2. CASE stopped
    <3>1. call' \in [Callers -> CallType] /\ Reaching(call'["main"])
      BY <2>1, <2>2, <1>t, CallReaches DEF GuardTypes
    <3> QED
      BY <2>1, <3>1, <1>t DEF GuardInv, GuardTypes, Unattached, Covered, Reached
  <2>3. CASE ~stopped
    BY <2>1, <2>3 DEF GuardInv, GuardTypes, Unattached, Covered
  <2> QED
    BY <2>2, <2>3
<1>6. CASE MainEof \/ MainError \/ MainPublish
  <2>1. /\ main' \in {"ending", "unwinding", "cleaning"}
        /\ main # "rechecking"
        /\ UNCHANGED <<reason, stopped, attached, child, call>>
    BY <1>6 DEF MainEof, MainError, MainPublish, Move, guard
  <2> QED
    BY <2>1 DEF GuardInv, GuardTypes, Unattached, Covered, Reached
<1>7. CASE MainClean
  <2>1. /\ main' = "gone" /\ child' # "running"
        /\ UNCHANGED <<reason, stopped, attached, call>>
    BY <1>7 DEF MainClean, Move
  <2> QED
    BY <2>1 DEF GuardInv, GuardTypes, Unattached, Covered
<1> QED
  BY <1>1, <1>2, <1>3, <1>4, <1>5, <1>6, <1>7 DEF Main

\* The other callers of stop (the watchdog, the drain of stderr, the signal
\* handler) and the world around the guard keep every child covered.
LEMMA OthersCover ==
    ASSUME GuardInv,
           Watch \/ Errors \/ Handle \/ ChildEnds \/ Ask \/ Signal \/ Exceed
    PROVE  GuardInv'
<1>t. GuardTypes /\ Found \in Reasons /\ {"watch", "errors", "handler"} \subseteq Callers
  BY DEF GuardInv, Found, Reasons, Callers
<1>1. ASSUME NEW c \in Callers, NEW why \in Reasons, Off(c), Call(c, why),
             UNCHANGED <<reason, stopped, attached, child, main>>
      PROVE  GuardInv'
  <2>1. /\ call' \in [Callers -> CallType]
        /\ \A d \in Callers : Reaching(call[d]) => Reaching(call'[d])
    BY <1>1, <1>t, CallReaches
  <2> QED
    BY <1>1, <2>1 DEF GuardInv, GuardTypes, Unattached, Covered, Reached
<1>2. CASE Watch
  BY <1>1, <1>2, <1>t DEF Watch
<1>3. CASE Errors
  BY <1>1, <1>3, <1>t DEF Errors, Reasons
<1>4. CASE Handle
  BY <1>1, <1>4, <1>t DEF Handle, Reasons
<1>5. CASE ChildEnds
  BY <1>5 DEF ChildEnds, GuardInv, GuardTypes, Unattached, Covered
<1>6. CASE Ask \/ Signal \/ Exceed
  <2>1. UNCHANGED <<reason, stopped, attached, child, main, call>>
    BY <1>6 DEF Ask, Signal, Exceed, guard
  <2> QED
    BY <2>1 DEF GuardInv, GuardTypes, Unattached, Covered, Reached
<1> QED
  BY <1>2, <1>3, <1>4, <1>5, <1>6

\* A stop reaches the child of a worker whatever the schedule (stop and attach in
\* resources.py): once the guard has stopped and no call is under way, an
\* attached child does not run.
THEOREM StopReachesThm == GuardSpec => []StopReaches
<1>1. GuardInit => GuardInv
  <2> SUFFICES ASSUME GuardInit PROVE GuardInv
    OBVIOUS
  <2>1. NoCall \in CallType
    BY DEF NoCall, CallType, Reasons
  <2>2. GuardTypes
    BY <2>1 DEF GuardInit, GuardTypes, Reasons
  <2> QED
    BY <2>2 DEF GuardInit, GuardInv, Unattached, Covered
<1>2. GuardInv /\ [GuardNext]_guardVars => GuardInv'
  <2> SUFFICES ASSUME GuardInv, [GuardNext]_guardVars PROVE GuardInv'
    OBVIOUS
  <2>1. CASE Main
    BY <2>1, MainCovers
  <2>2. CASE Watch \/ Errors \/ Handle \/ ChildEnds \/ Ask \/ Signal \/ Exceed
    BY <2>2, OthersCover
  <2>3. CASE \E c \in Callers : Step(c)
    BY <2>3, StopCovers DEF Step
  <2>4. CASE UNCHANGED guardVars
    BY <2>4 DEF guardVars, GuardInv, GuardTypes, Unattached, Covered, Reached
  <2> QED
    BY <2>1, <2>2, <2>3, <2>4 DEF GuardNext
<1>3. GuardInv => StopReaches
  BY DEF GuardInv, Covered, Reached, Reaching, StopReaches, Off
<1> QED
  BY <1>1, <1>2, <1>3, PTL DEF GuardSpec
=============================================================================
