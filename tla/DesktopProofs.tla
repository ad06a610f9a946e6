--------------------------- MODULE DesktopProofs ----------------------------
(***************************************************************************)
(* For any number of jobs, request threads and managers, the job manager   *)
(* of the desktop server has one writer of a job's label at a time, holds  *)
(* the job's claim while anybody may write below it, and writes only under *)
(* the owner marker.                                                       *)
(***************************************************************************)
EXTENDS Desktop, TLAPS

-----------------------------------------------------------------------------
(***************************************************************************)
(* The inductive invariant.                                                *)
(***************************************************************************)
\* A thread in the middle of a request has a job that exists.
Named ==
    \A t \in Threads : pc[t] \notin Outside =>
        job[t] \in Jobs /\ file[job[t]] # "absent"

\* A job without a label was never started; a child was.
Fresh ==
    /\ \A j \in Jobs : file[j] = "absent" => worker[j] = "none"
    /\ \A j \in children : worker[j] # "none"

\* While the child lives or a cancellation is armed, the claim is held.
Claimed ==
    \A j \in children : worker[j] \in Alive \/ j \in writers => j \in claims

\* An armed cancellation is that of one thread, for a child.
Armed ==
    /\ writers \subseteq children
    /\ \A t \in Threads : pc[t] \in Cancelling => job[t] \in writers
    /\ \A t, u \in Threads :
          pc[t] \in Cancelling /\ pc[u] \in Cancelling
              /\ job[t] = job[u] => t = u

\* Who is about to write a label has seen the child exit.
Gone ==
    \A t \in Threads :
        /\ pc[t] = "publish" => worker[job[t]] = "exited"
        /\ pc[t] = "finally" /\ ~err[t] => worker[job[t]] = "exited"
        /\ pc[t] = "commit" => worker[job[t]] = "exited" /\ job[t] \in children

\* A writer of derived files is in the scope of a started job nobody claims.
Apart ==
    \A t \in Threads : research[t] # None =>
        research[t] \notin claims /\ file[research[t]] # "absent"

\* Every live worker is a child of the manager, if there is one.
Kept == up => \A j \in Jobs : worker[j] \in Alive => j \in children

\* The marker is there while anybody may write; it is given up at the end of close.
Owned ==
    /\ \A j \in Jobs : worker[j] \in Alive => owner
    /\ \A t \in Threads : research[t] # None => owner /\ up
    /\ up /\ ~owner => pc[Closer] = "closed"

\* The child is gone and has a final label.
Settled(j) == worker[j] = "exited" /\ file[j] \notin Live

\* How far close has come: every child it is done with is settled, and what it
\* knows of the one it is at.
Closing ==
    /\ todo \subseteq children
    /\ pc[Closer] \notin {"await", "admit", "derive"}
    /\ pc[Closer] # "idle" => closing
    /\ pc[Closer] \in {"close", "unlink", "closed"} => \A j \in children \ todo : Settled(j)
    /\ pc[Closer] \notin Outside =>
          job[Closer] \in children /\ \A j \in children \ todo : j # job[Closer] => Settled(j)
    /\ pc[Closer] \in {"read", "poll", "commit", "reap"} => worker[job[Closer]] = "exited"
    /\ pc[Closer] = "poll" => seen[Closer] \in Live \/ file[job[Closer]] \notin Live
    /\ pc[Closer] = "reap" => file[job[Closer]] \notin Live
    /\ pc[Closer] \in {"unlink", "closed"} =>
          todo = {} /\ claims = {} /\ \A t \in Threads : research[t] = None

DeskInv ==
    /\ TypeOK /\ Named /\ Fresh /\ Claimed /\ Armed /\ Gone /\ Apart /\ Kept /\ Owned /\ Closing

-----------------------------------------------------------------------------
\* _reap takes nothing from a live child or an armed cancellation.
LEMMA ReapedFacts ==
    ASSUME NEW w
    PROVE  /\ Reaped(claims, w) \subseteq claims
           /\ \A j \in claims : worker[j] \in Alive \/ j \in w => j \in Reaped(claims, w)
BY DEF Reaped, Exited, Alive

LEMMA StatusReadInv == ASSUME DeskInv, NEW t \in Threads, StatusRead(t) PROVE DeskInv'
<1> USE DesktopConfig DEF DeskInv, TypeOK, disk, process, manager, Request, Cancelling, Outside
<1> USE DEF StatusRead, At
<1>1. TypeOK'
  BY ReapedFacts DEF Named, Label, Live, Terminal
<1>2. Named' /\ Fresh'
  BY DEF Named, Fresh, Live, Terminal
<1>3. Claimed' /\ Armed'
  BY ReapedFacts DEF Claimed, Armed, Alive
<1>4. Gone'
  BY DEF Gone, Fresh, Alive
<1>5. Apart' /\ Kept' /\ Owned'
  BY ReapedFacts DEF Apart, Kept, Owned, Named, Closing
<1>6. Closing'
  BY ReapedFacts DEF Closing, Fresh, Gone, Settled, Threads, Live, Terminal, Alive
<1> QED BY <1>1, <1>2, <1>3, <1>4, <1>5, <1>6

LEMMA StatusPollInv == ASSUME DeskInv, NEW t \in Threads, StatusPoll(t) PROVE DeskInv'
<1> USE DesktopConfig DEF DeskInv, TypeOK, disk, process, manager, Request, Cancelling, Outside
<1> USE DEF StatusPoll, At, Goto, Exited
<1>1. TypeOK'
  BY ReapedFacts DEF Named, Label, Live, Terminal
<1>2. Named' /\ Fresh'
  BY DEF Named, Fresh, Live, Terminal
<1>3. Claimed' /\ Armed'
  BY ReapedFacts DEF Claimed, Armed, Alive
<1>4. Gone'
  BY DEF Gone, Fresh, Alive
<1>5. Apart' /\ Kept' /\ Owned'
  BY ReapedFacts DEF Apart, Kept, Owned, Named, Closing
<1>6. Closing'
  BY ReapedFacts DEF Closing, Fresh, Gone, Settled, Threads, Live, Terminal, Alive
<1> QED BY <1>1, <1>2, <1>3, <1>4, <1>5, <1>6

LEMMA StatusCommitInv == ASSUME DeskInv, NEW t \in Threads, StatusCommit(t) PROVE DeskInv'
<1> USE DesktopConfig DEF DeskInv, TypeOK, disk, process, manager, Request, Cancelling, Outside
<1> USE DEF StatusCommit, At, Goto, Raise, Enter, Publish, Rest
<1>1. TypeOK'
  <2>1. (pc \in [Threads -> Request \cup Cancelling \cup Outside])'
    OBVIOUS
  <2>2. (job \in [Threads -> Jobs \cup {None}] /\ seen \in [Threads -> Label] /\ err \in [Threads -> BOOLEAN])'
    BY DEF Label
  <2>3. (file \in [Jobs -> Label] /\ worker \in [Jobs -> {"none", "exited"} \cup Alive] /\ sig \in [Jobs -> {"none", "term", "kill"}])'
    BY DEF Named, Label, Live, Terminal
  <2>4. (request \subseteq Jobs /\ children \subseteq Jobs /\ claims \subseteq Jobs)'
    BY ReapedFacts DEF Named
  <2>5. (writers \subseteq Jobs /\ interrupted \subseteq Jobs /\ todo \subseteq Jobs)'
    BY DEF Named
  <2>6. (owner \in BOOLEAN /\ up \in BOOLEAN /\ closing \in BOOLEAN /\ research \in [Threads -> Jobs \cup {None}])'
    BY DEF Named
  <2> QED BY <2>1, <2>2, <2>3, <2>4, <2>5, <2>6
<1>2. Named' /\ Fresh'
  BY DEF Named, Fresh, Live, Terminal
<1>3. Claimed' /\ Armed'
  BY ReapedFacts DEF Claimed, Armed, Alive
<1>4. Gone'
  BY DEF Gone, Fresh, Alive
<1>5. Apart' /\ Kept' /\ Owned'
  <2>1. Apart'
    BY ReapedFacts DEF Apart, Named
  <2>2. Kept'
    BY DEF Kept
  <2>3. Owned'
    BY DEF Owned, Closing, Threads
  <2> QED BY <2>1, <2>2, <2>3
<1>6. Closing'
  BY ReapedFacts DEF Closing, Fresh, Gone, Settled, Threads, Live, Terminal, Alive
<1> QED BY <1>1, <1>2, <1>3, <1>4, <1>5, <1>6

LEMMA StatusReapInv == ASSUME DeskInv, NEW t \in Threads, StatusReap(t) PROVE DeskInv'
<1> USE DesktopConfig DEF DeskInv, TypeOK, disk, process, manager, Request, Cancelling, Outside
<1> USE DEF StatusReap, At, Return, Enter, Rest
<1>1. TypeOK'
  BY ReapedFacts DEF Named, Label, Live, Terminal
<1>2. Named' /\ Fresh'
  BY DEF Named, Fresh, Live, Terminal
<1>3. Claimed' /\ Armed'
  BY ReapedFacts DEF Claimed, Armed, Alive
<1>4. Gone'
  BY DEF Gone, Fresh, Alive
<1>5. Apart' /\ Kept' /\ Owned'
  BY ReapedFacts DEF Apart, Kept, Owned, Named, Closing
<1>6. Closing'
  BY ReapedFacts DEF Closing, Fresh, Gone, Settled, Threads, Live, Terminal, Alive
<1> QED BY <1>1, <1>2, <1>3, <1>4, <1>5, <1>6

LEMMA CancelArmInv == ASSUME DeskInv, NEW t \in Threads, CancelArm(t) PROVE DeskInv'
<1> USE DesktopConfig DEF DeskInv, TypeOK, disk, process, manager, Request, Cancelling, Outside
<1> USE DEF CancelArm, At, Goto, Raise, Enter, Running
<1>1. TypeOK'
  <2>1. (pc \in [Threads -> Request \cup Cancelling \cup Outside])'
    OBVIOUS
  <2>2. (job \in [Threads -> Jobs \cup {None}] /\ seen \in [Threads -> Label] /\ err \in [Threads -> BOOLEAN])'
    BY DEF Label
  <2>3. (file \in [Jobs -> Label] /\ worker \in [Jobs -> {"none", "exited"} \cup Alive] /\ sig \in [Jobs -> {"none", "term", "kill"}])'
    BY DEF Named, Label, Live, Terminal
  <2>4. (request \subseteq Jobs /\ children \subseteq Jobs /\ claims \subseteq Jobs)'
    BY ReapedFacts DEF Named
  <2>5. (writers \subseteq Jobs /\ interrupted \subseteq Jobs /\ todo \subseteq Jobs)'
    BY DEF Named
  <2>6. (owner \in BOOLEAN /\ up \in BOOLEAN /\ closing \in BOOLEAN /\ research \in [Threads -> Jobs \cup {None}])'
    BY DEF Named
  <2> QED BY <2>1, <2>2, <2>3, <2>4, <2>5, <2>6
<1>2. Named' /\ Fresh'
  BY DEF Named, Fresh, Live, Terminal
<1>3. Claimed' /\ Armed'
  BY ReapedFacts DEF Claimed, Armed, Alive
<1>4. Gone'
  BY DEF Gone, Fresh, Alive
<1>5. Apart' /\ Kept' /\ Owned'
  <2>1. Apart'
    BY ReapedFacts DEF Apart, Named
  <2>2. Kept'
    BY DEF Kept
  <2>3. Owned'
    BY DEF Owned, Closing, Threads
  <2> QED BY <2>1, <2>2, <2>3
<1>6. Closing'
  BY ReapedFacts DEF Closing, Fresh, Gone, Settled, Threads, Live, Terminal, Alive
<1> QED BY <1>1, <1>2, <1>3, <1>4, <1>5, <1>6

LEMMA CancelSignalInv == ASSUME DeskInv, NEW t \in Threads, CancelSignal(t) PROVE DeskInv'
<1> USE DesktopConfig DEF DeskInv, TypeOK, disk, process, manager, Request, Cancelling, Outside
<1> USE DEF CancelSignal, At, Goto, Strengthen
<1>1. TypeOK'
  BY ReapedFacts DEF Named, Label, Live, Terminal
<1>2. Named' /\ Fresh'
  BY DEF Named, Fresh, Live, Terminal
<1>3. Claimed' /\ Armed'
  BY ReapedFacts DEF Claimed, Armed, Alive
<1>4. Gone'
  BY DEF Gone, Fresh, Alive
<1>5. Apart' /\ Kept' /\ Owned'
  BY ReapedFacts DEF Apart, Kept, Owned, Named, Closing
<1>6. Closing'
  BY ReapedFacts DEF Closing, Fresh, Gone, Settled, Threads, Live, Terminal, Alive
<1> QED BY <1>1, <1>2, <1>3, <1>4, <1>5, <1>6

LEMMA CancelWaitInv == ASSUME DeskInv, NEW t \in Threads, CancelWait(t) PROVE DeskInv'
<1> USE DesktopConfig DEF DeskInv, TypeOK, disk, process, manager, Request, Cancelling, Outside
<1> USE DEF CancelWait, At, Goto
<1>1. TypeOK'
  BY ReapedFacts DEF Named, Label, Live, Terminal
<1>2. Named' /\ Fresh'
  BY DEF Named, Fresh, Live, Terminal
<1>3. Claimed' /\ Armed'
  BY ReapedFacts DEF Claimed, Armed, Alive
<1>4. Gone'
  BY DEF Gone, Fresh, Alive
<1>5. Apart' /\ Kept' /\ Owned'
  BY ReapedFacts DEF Apart, Kept, Owned, Named, Closing
<1>6. Closing'
  BY ReapedFacts DEF Closing, Fresh, Gone, Settled, Threads, Live, Terminal, Alive
<1> QED BY <1>1, <1>2, <1>3, <1>4, <1>5, <1>6

LEMMA CancelKillInv == ASSUME DeskInv, NEW t \in Threads, CancelKill(t) PROVE DeskInv'
<1> USE DesktopConfig DEF DeskInv, TypeOK, disk, process, manager, Request, Cancelling, Outside
<1> USE DEF CancelKill, At, Goto, Strengthen, GiveUp
<1>1. TypeOK'
  <2>1. (pc \in [Threads -> Request \cup Cancelling \cup Outside])'
    OBVIOUS
  <2>2. (job \in [Threads -> Jobs \cup {None}] /\ seen \in [Threads -> Label] /\ err \in [Threads -> BOOLEAN])'
    BY DEF Label
  <2>3. (file \in [Jobs -> Label] /\ worker \in [Jobs -> {"none", "exited"} \cup Alive] /\ sig \in [Jobs -> {"none", "term", "kill"}])'
    BY DEF Named, Label, Live, Terminal
  <2>4. (request \subseteq Jobs /\ children \subseteq Jobs /\ claims \subseteq Jobs)'
    BY ReapedFacts DEF Named
  <2>5. (writers \subseteq Jobs /\ interrupted \subseteq Jobs /\ todo \subseteq Jobs)'
    BY DEF Named
  <2>6. (owner \in BOOLEAN /\ up \in BOOLEAN /\ closing \in BOOLEAN /\ research \in [Threads -> Jobs \cup {None}])'
    BY DEF Named
  <2> QED BY <2>1, <2>2, <2>3, <2>4, <2>5, <2>6
<1>2. Named' /\ Fresh'
  BY DEF Named, Fresh, Live, Terminal
<1>3. Claimed' /\ Armed'
  BY ReapedFacts DEF Claimed, Armed, Alive
<1>4. Gone'
  BY DEF Gone, Fresh, Alive
<1>5. Apart' /\ Kept' /\ Owned'
  <2>1. Apart'
    BY ReapedFacts DEF Apart, Named
  <2>2. Kept'
    BY DEF Kept
  <2>3. Owned'
    BY DEF Owned, Closing, Threads
  <2> QED BY <2>1, <2>2, <2>3
<1>6. Closing'
  BY ReapedFacts DEF Closing, Fresh, Gone, Settled, Threads, Live, Terminal, Alive
<1> QED BY <1>1, <1>2, <1>3, <1>4, <1>5, <1>6

LEMMA CancelRewaitInv == ASSUME DeskInv, NEW t \in Threads, CancelRewait(t) PROVE DeskInv'
<1> USE DesktopConfig DEF DeskInv, TypeOK, disk, process, manager, Request, Cancelling, Outside
<1> USE DEF CancelRewait, At, Goto, GiveUp
<1>1. TypeOK'
  <2>1. (pc \in [Threads -> Request \cup Cancelling \cup Outside])'
    OBVIOUS
  <2>2. (job \in [Threads -> Jobs \cup {None}] /\ seen \in [Threads -> Label] /\ err \in [Threads -> BOOLEAN])'
    BY DEF Label
  <2>3. (file \in [Jobs -> Label] /\ worker \in [Jobs -> {"none", "exited"} \cup Alive] /\ sig \in [Jobs -> {"none", "term", "kill"}])'
    BY DEF Named, Label, Live, Terminal
  <2>4. (request \subseteq Jobs /\ children \subseteq Jobs /\ claims \subseteq Jobs)'
    BY ReapedFacts DEF Named
  <2>5. (writers \subseteq Jobs /\ interrupted \subseteq Jobs /\ todo \subseteq Jobs)'
    BY DEF Named
  <2>6. (owner \in BOOLEAN /\ up \in BOOLEAN /\ closing \in BOOLEAN /\ research \in [Threads -> Jobs \cup {None}])'
    BY DEF Named
  <2> QED BY <2>1, <2>2, <2>3, <2>4, <2>5, <2>6
<1>2. Named' /\ Fresh'
  BY DEF Named, Fresh, Live, Terminal
<1>3. Claimed' /\ Armed'
  BY ReapedFacts DEF Claimed, Armed, Alive
<1>4. Gone'
  BY DEF Gone, Fresh, Alive
<1>5. Apart' /\ Kept' /\ Owned'
  <2>1. Apart'
    BY ReapedFacts DEF Apart, Named
  <2>2. Kept'
    BY DEF Kept
  <2>3. Owned'
    BY DEF Owned, Closing, Threads
  <2> QED BY <2>1, <2>2, <2>3
<1>6. Closing'
  BY ReapedFacts DEF Closing, Fresh, Gone, Settled, Threads, Live, Terminal, Alive
<1> QED BY <1>1, <1>2, <1>3, <1>4, <1>5, <1>6

LEMMA CancelPublishInv == ASSUME DeskInv, NEW t \in Threads, CancelPublish(t) PROVE DeskInv'
<1> USE DesktopConfig DEF DeskInv, TypeOK, disk, process, manager, Request, Cancelling, Outside
<1> USE DEF CancelPublish, At, Goto, GiveUp, Publish, Rest
<1>1. TypeOK'
  <2>1. (pc \in [Threads -> Request \cup Cancelling \cup Outside])'
    OBVIOUS
  <2>2. (job \in [Threads -> Jobs \cup {None}] /\ seen \in [Threads -> Label] /\ err \in [Threads -> BOOLEAN])'
    BY DEF Label
  <2>3. (file \in [Jobs -> Label] /\ worker \in [Jobs -> {"none", "exited"} \cup Alive] /\ sig \in [Jobs -> {"none", "term", "kill"}])'
    BY DEF Named, Label, Live, Terminal
  <2>4. (request \subseteq Jobs /\ children \subseteq Jobs /\ claims \subseteq Jobs)'
    BY ReapedFacts DEF Named
  <2>5. (writers \subseteq Jobs /\ interrupted \subseteq Jobs /\ todo \subseteq Jobs)'
    BY DEF Named
  <2>6. (owner \in BOOLEAN /\ up \in BOOLEAN /\ closing \in BOOLEAN /\ research \in [Threads -> Jobs \cup {None}])'
    BY DEF Named
  <2> QED BY <2>1, <2>2, <2>3, <2>4, <2>5, <2>6
<1>2. Named' /\ Fresh'
  BY DEF Named, Fresh, Live, Terminal
<1>3. Claimed' /\ Armed'
  BY ReapedFacts DEF Claimed, Armed, Alive
<1>4. Gone'
  BY DEF Gone, Fresh, Alive
<1>5. Apart' /\ Kept' /\ Owned'
  <2>1. Apart'
    BY ReapedFacts DEF Apart, Named
  <2>2. Kept'
    BY DEF Kept
  <2>3. Owned'
    BY DEF Owned, Closing, Threads
  <2> QED BY <2>1, <2>2, <2>3
<1>6. Closing'
  BY ReapedFacts DEF Closing, Fresh, Gone, Settled, Threads, Live, Terminal, Alive
<1> QED BY <1>1, <1>2, <1>3, <1>4, <1>5, <1>6

LEMMA CancelFinallyInv == ASSUME DeskInv, NEW t \in Threads, CancelFinally(t) PROVE DeskInv'
<1> USE DesktopConfig DEF DeskInv, TypeOK, disk, process, manager, Request, Cancelling, Outside
<1> USE DEF CancelFinally, At, Goto, Raise, Enter, Rest
<1>1. TypeOK'
  <2>1. (pc \in [Threads -> Request \cup Cancelling \cup Outside])'
    OBVIOUS
  <2>2. (job \in [Threads -> Jobs \cup {None}] /\ seen \in [Threads -> Label] /\ err \in [Threads -> BOOLEAN])'
    BY DEF Label
  <2>3. (file \in [Jobs -> Label] /\ worker \in [Jobs -> {"none", "exited"} \cup Alive] /\ sig \in [Jobs -> {"none", "term", "kill"}])'
    BY DEF Named, Label, Live, Terminal
  <2>4. (request \subseteq Jobs /\ children \subseteq Jobs /\ claims \subseteq Jobs)'
    BY ReapedFacts DEF Named
  <2>5. (writers \subseteq Jobs /\ interrupted \subseteq Jobs /\ todo \subseteq Jobs)'
    BY DEF Named
  <2>6. (owner \in BOOLEAN /\ up \in BOOLEAN /\ closing \in BOOLEAN /\ research \in [Threads -> Jobs \cup {None}])'
    BY DEF Named
  <2> QED BY <2>1, <2>2, <2>3, <2>4, <2>5, <2>6
<1>2. Named' /\ Fresh'
  BY DEF Named, Fresh, Live, Terminal
<1>3. Claimed' /\ Armed'
  BY ReapedFacts DEF Claimed, Armed, Alive
<1>4. Gone'
  BY DEF Gone, Fresh, Alive
<1>5. Apart' /\ Kept' /\ Owned'
  <2>1. Apart'
    BY ReapedFacts DEF Apart, Named
  <2>2. Kept'
    BY DEF Kept
  <2>3. Owned'
    BY DEF Owned, Closing, Threads
  <2> QED BY <2>1, <2>2, <2>3
<1>6. Closing'
  BY ReapedFacts DEF Closing, Fresh, Gone, Settled, Threads, Live, Terminal, Alive
<1> QED BY <1>1, <1>2, <1>3, <1>4, <1>5, <1>6
\* The places where a thread neither cancels nor writes a label.
Calm == {"read", "arm", "await", "admit", "derive", "idle", "close", "unlink", "abandoned"}

\* How far close has come does not change by what other threads do, as long as
\* labels and workers stay and no claim or derived writer comes back.
LEMMA ClosingStands ==
    ASSUME Closing, pc'[Closer] = pc[Closer], job'[Closer] = job[Closer],
           seen'[Closer] = seen[Closer],
           UNCHANGED <<file, worker, children, closing>>, todo' = todo,
           claims = {} => claims' = {},
           pc[Closer] \in {"unlink", "closed"} => \A u \in Threads : research'[u] = None
    PROVE  Closing'
<1>1. \A i : Settled(i)' <=> Settled(i)
  BY DEF Settled
<1>2. pc'[Closer] \in {"close", "unlink", "closed"} => \A i \in children' \ todo' : Settled(i)'
  BY <1>1 DEF Closing
<1>3. pc'[Closer] \notin Outside =>
         /\ job'[Closer] \in children'
         /\ \A i \in children' \ todo' : i # job'[Closer] => Settled(i)'
  BY <1>1 DEF Closing
<1>4. pc'[Closer] \in {"unlink", "closed"} =>
         todo' = {} /\ claims' = {} /\ \A u \in Threads : research'[u] = None
  BY DEF Closing
<1> QED BY <1>2, <1>3, <1>4 DEF Closing

\* What the steps to such a place amount to: claims are only reaped, and a writer
\* of derived files is admitted where nobody has a claim.
LEMMA TurnsTo ==
    ASSUME DeskInv, NEW t \in Threads, pc[t] \notin Cancelling, pc[t] # "closed",
           NEW p \in Calm, NEW j \in Jobs \cup {None}, NEW s \in Label, NEW e \in BOOLEAN,
           p \notin Outside => j \in Jobs /\ file[j] # "absent",
           pc' = [pc EXCEPT ![t] = p], job' = [job EXCEPT ![t] = j],
           seen' = [seen EXCEPT ![t] = s], err' = [err EXCEPT ![t] = e],
           claims' \subseteq claims,
           \A i \in claims : worker[i] \in Alive \/ i \in writers => i \in claims',
           UNCHANGED <<file, worker, sig, request, owner, up>>,
           UNCHANGED <<children, writers, interrupted, closing>>,
           research' \in [Threads -> Jobs \cup {None}],
           \A u \in Threads : research'[u] # None =>
               research'[u] \notin claims' /\ file[research'[u]] # "absent" /\ owner /\ up,
           todo' \subseteq todo,
           IF t = Closer THEN Closing'
           ELSE /\ todo' = todo
                /\ pc[Closer] \in {"unlink", "closed"} => \A u \in Threads : research'[u] = None
    PROVE  DeskInv'
<1>1. /\ pc \in [Threads -> Request \cup Cancelling \cup Outside]
      /\ job \in [Threads -> Jobs \cup {None}]
      /\ seen \in [Threads -> Label] /\ err \in [Threads -> BOOLEAN]
  BY DEF DeskInv, TypeOK
<1>2. /\ pc'[t] = p /\ job'[t] = j
      /\ \A u \in Threads \ {t} : /\ pc'[u] = pc[u] /\ job'[u] = job[u]
                                  /\ seen'[u] = seen[u] /\ err'[u] = err[u]
  BY <1>1
<1>3. p \notin Cancelling /\ p \notin {"publish", "finally", "commit", "closed"}
  BY DEF Calm, Cancelling
<1>4. TypeOK'
  <2>1. p \in Request \cup Cancelling \cup Outside
    BY DEF Calm, Request, Outside
  <2>2. /\ pc' \in [Threads -> Request \cup Cancelling \cup Outside]
        /\ job' \in [Threads -> Jobs \cup {None}]
        /\ seen' \in [Threads -> Label] /\ err' \in [Threads -> BOOLEAN]
    BY <1>1, <2>1
  <2> QED BY <2>2 DEF DeskInv, TypeOK
<1>5. Named' /\ Fresh'
  <2>1. Named' BY <1>2 DEF DeskInv, Named
  <2>2. Fresh' BY DEF DeskInv, Fresh
  <2> QED BY <2>1, <2>2
<1>6. Claimed' /\ Armed'
  <2>1. Claimed' BY DEF DeskInv, Claimed
  <2>2. Armed' BY <1>2, <1>3 DEF DeskInv, Armed
  <2> QED BY <2>1, <2>2
<1>7. Gone'
  BY <1>2, <1>3 DEF DeskInv, Gone
<1>8. Apart' /\ Kept' /\ Owned'
  <2>1. Apart' BY DEF Apart
  <2>2. Kept' BY DEF DeskInv, Kept
  <2>3. up /\ ~owner => Closer # t
    BY DEF DeskInv, Owned
  <2>4. Closer \in Threads
    BY DEF Threads
  <2>5. Owned' BY <1>2, <2>3, <2>4 DEF DeskInv, Owned
  <2> QED BY <2>1, <2>2, <2>5
<1>9. Closing'
  <2>1. CASE t # Closer
    <3>1. /\ pc'[Closer] = pc[Closer] /\ job'[Closer] = job[Closer]
          /\ seen'[Closer] = seen[Closer]
      BY <1>2, <2>1 DEF Threads
    <3>2. claims = {} => claims' = {}
      OBVIOUS
    <3>3. Closing
      BY DEF DeskInv
    <3> QED BY <2>1, <3>1, <3>2, <3>3, ClosingStands
  <2> QED BY <2>1
<1> QED BY <1>4, <1>5, <1>6, <1>7, <1>8, <1>9 DEF DeskInv

\* A thread that leaves job, label and error alone turns to what it had.
LEMMA Stays ==
    ASSUME DeskInv, NEW t \in Threads
    PROVE  /\ job = [job EXCEPT ![t] = job[t]] /\ job[t] \in Jobs \cup {None}
           /\ seen = [seen EXCEPT ![t] = seen[t]] /\ seen[t] \in Label
           /\ err = [err EXCEPT ![t] = err[t]] /\ err[t] \in BOOLEAN
BY DEF DeskInv, TypeOK

\* The writers of derived files, as they are, do not stand in the way.
LEMMA ScopesStay ==
    ASSUME DeskInv
    PROVE  /\ research \in [Threads -> Jobs \cup {None}]
           /\ \A u \in Threads : research[u] # None =>
                  research[u] \notin claims /\ file[research[u]] # "absent" /\ owner /\ up
           /\ pc[Closer] \in {"unlink", "closed"} => \A u \in Threads : research[u] = None
<1>1. research \in [Threads -> Jobs \cup {None}]
  BY DEF DeskInv, TypeOK
<1>2. \A u \in Threads : research[u] # None =>
          research[u] \notin claims /\ file[research[u]] # "absent" /\ owner /\ up
  BY DEF DeskInv, Apart, Owned
<1>3. pc[Closer] \in {"unlink", "closed"} => \A u \in Threads : research[u] = None
  BY DEF DeskInv, Closing
<1> QED BY <1>1, <1>2, <1>3

LEMMA ReceiveInv == ASSUME DeskInv, NEW t \in Threads, Receive(t) PROVE DeskInv'
<1>1. PICK j \in Jobs, p \in {"read", "arm", "await"} : file[j] # "absent" /\ Enter(t, p, j)
  BY DEF Receive
<1>2. /\ pc' = [pc EXCEPT ![t] = p] /\ job' = [job EXCEPT ![t] = j]
      /\ seen' = [seen EXCEPT ![t] = "absent"] /\ err' = [err EXCEPT ![t] = FALSE]
  BY <1>1 DEF Enter
<1>3. /\ UNCHANGED <<file, worker, sig, request, owner, up>>
      /\ UNCHANGED <<children, writers, interrupted, closing>>
      /\ UNCHANGED <<claims, research, todo>>
  BY DEF Receive, disk, process, manager
<1>4. t # Closer /\ pc[t] \notin Cancelling /\ pc[t] # "closed"
  BY DesktopConfig DEF Receive, At, Cancelling
<1>5. p \in Calm /\ "absent" \in Label
  BY DEF Calm, Label
<1> QED BY <1>1, <1>2, <1>3, <1>4, <1>5, ScopesStay, TurnsTo

\* The writer of derived files waits, is admitted, and is done; close does neither.
LEMMA ResearchPlace ==
    ASSUME DeskInv, NEW t \in Threads, pc[t] \in {"await", "admit", "derive"}
    PROVE  /\ t # Closer /\ pc[t] \notin Cancelling /\ pc[t] # "closed"
           /\ job[t] \in Jobs /\ file[job[t]] # "absent"
BY DEF DeskInv, Closing, Named, Cancelling, Outside

LEMMA ResearchAwaitInv == ASSUME DeskInv, NEW t \in Threads, ResearchAwait(t) PROVE DeskInv'
<1>1. /\ pc[t] \in {"await", "admit", "derive"}
      /\ UNCHANGED <<file, worker, sig, request, owner, up>>
      /\ UNCHANGED <<children, writers, interrupted, closing>>
      /\ UNCHANGED <<research, todo>>
  BY DEF ResearchAwait, At, Rest, process
<1>2. claims' = claims \/ claims' = Reaped(claims, writers)
  BY DEF ResearchAwait
<1>3. claims' \subseteq claims /\ \A i \in claims : worker[i] \in Alive \/ i \in writers => i \in claims'
  BY <1>2, ReapedFacts
<1>4. \/ Enter(t, "idle", None)
      \/ pc' = [pc EXCEPT ![t] = "admit"] /\ UNCHANGED <<job, seen, err>>
  BY <1>1, ResearchPlace DEF ResearchAwait, Raise, Goto
<1>5. {"idle", "admit"} \subseteq Calm /\ "absent" \in Label /\ "idle" \in Outside
  BY DEF Calm, Label, Outside
<1>6. CASE Enter(t, "idle", None)
  BY <1>1, <1>3, <1>5, <1>6, ResearchPlace, ScopesStay, TurnsTo DEF Enter
<1>7. CASE pc' = [pc EXCEPT ![t] = "admit"] /\ UNCHANGED <<job, seen, err>>
  <2>1. /\ job' = [job EXCEPT ![t] = job[t]] /\ job[t] \in Jobs \cup {None}
        /\ seen' = [seen EXCEPT ![t] = seen[t]] /\ seen[t] \in Label
        /\ err' = [err EXCEPT ![t] = err[t]] /\ err[t] \in BOOLEAN
    BY <1>7, Stays
  <2>2. pc' = [pc EXCEPT ![t] = "admit"]
    BY <1>7
  <2> QED BY <1>1, <1>3, <1>5, <2>1, <2>2, ResearchPlace, ScopesStay, TurnsTo
<1> QED BY <1>4, <1>6, <1>7

LEMMA ResearchAdmitInv == ASSUME DeskInv, NEW t \in Threads, ResearchAdmit(t) PROVE DeskInv'
<1>1. /\ pc[t] \in {"await", "admit", "derive"} /\ up
      /\ UNCHANGED <<file, worker, sig, request, owner, up>>
      /\ UNCHANGED <<children, writers, interrupted, closing>>
      /\ UNCHANGED todo
  BY DEF ResearchAdmit, At, Rest, process
<1>2. claims' = claims \/ claims' = Reaped(claims, writers)
  BY DEF ResearchAdmit
<1>3. claims' \subseteq claims /\ \A i \in claims : worker[i] \in Alive \/ i \in writers => i \in claims'
  BY <1>2, ReapedFacts
<1>4. \/ Enter(t, "idle", None) /\ UNCHANGED research
      \/ /\ ~closing /\ job[t] \notin claims'
         /\ research' = [research EXCEPT ![t] = job[t]]
         /\ pc' = [pc EXCEPT ![t] = "derive"] /\ UNCHANGED <<job, seen, err>>
  BY <1>1, ResearchPlace DEF ResearchAdmit, Raise, Goto
<1>5. {"idle", "derive"} \subseteq Calm /\ "absent" \in Label /\ "idle" \in Outside
  BY DEF Calm, Label, Outside
<1>6. CASE Enter(t, "idle", None) /\ UNCHANGED research
  BY <1>1, <1>3, <1>5, <1>6, ResearchPlace, ScopesStay, TurnsTo DEF Enter
<1>7. CASE /\ ~closing /\ job[t] \notin claims'
           /\ research' = [research EXCEPT ![t] = job[t]]
           /\ pc' = [pc EXCEPT ![t] = "derive"] /\ UNCHANGED <<job, seen, err>>
  <2>1. pc[Closer] = "idle" /\ owner
    BY <1>1, <1>7 DEF DeskInv, Closing, Owned
  <2>2. /\ research' \in [Threads -> Jobs \cup {None}]
        /\ \A u \in Threads : research'[u] # None =>
               research'[u] \notin claims' /\ file[research'[u]] # "absent" /\ owner /\ up
    BY <1>1, <1>3, <1>7, <2>1, ResearchPlace, ScopesStay
  <2>3. /\ job' = [job EXCEPT ![t] = job[t]] /\ job[t] \in Jobs \cup {None}
        /\ seen' = [seen EXCEPT ![t] = seen[t]] /\ seen[t] \in Label
        /\ err' = [err EXCEPT ![t] = err[t]] /\ err[t] \in BOOLEAN
    BY <1>7, Stays
  <2>4. pc' = [pc EXCEPT ![t] = "derive"]
    BY <1>7
  <2> QED BY <1>1, <1>3, <1>5, <2>1, <2>2, <2>3, <2>4, ResearchPlace, TurnsTo
<1> QED BY <1>4, <1>6, <1>7

LEMMA ResearchDoneInv == ASSUME DeskInv, NEW t \in Threads, ResearchDone(t) PROVE DeskInv'
<1>1. /\ pc[t] \in {"await", "admit", "derive"}
      /\ UNCHANGED <<file, worker, sig, request, owner, up>>
      /\ UNCHANGED <<children, writers, interrupted, closing>>
      /\ UNCHANGED <<claims, todo>>
      /\ research' = [research EXCEPT ![t] = None]
  BY DEF ResearchDone, At, Rest, process, manager
<1>2. Enter(t, "idle", None)
  BY <1>1, ResearchPlace DEF ResearchDone, Return
<1>3. "idle" \in Calm /\ "absent" \in Label /\ "idle" \in Outside
  BY DEF Calm, Label, Outside
<1>4. /\ research' \in [Threads -> Jobs \cup {None}]
      /\ \A u \in Threads : research'[u] # None => research'[u] = research[u]
      /\ \A u \in Threads : research[u] = None => research'[u] = None
  BY <1>1, ScopesStay
<1> QED BY <1>1, <1>2, <1>3, <1>4, ResearchPlace, ScopesStay, TurnsTo DEF Enter

LEMMA StartInv == ASSUME DeskInv, NEW t \in Threads, Start(t) PROVE DeskInv'
<1> USE DesktopConfig DEF DeskInv, TypeOK, disk, process, manager, thread, Request, Cancelling, Outside
<1>0. PICK j \in Jobs :
        /\ file[j] = "absent" /\ j \notin interrupted
        /\ \/ /\ Publish(j, "queued") /\ Become(j, "starting")
              /\ children' = children \cup {j}
              /\ claims' = Reaped(claims, writers) \cup {j}
              /\ Enter(t, "read", j)
              /\ UNCHANGED interrupted
           \/ /\ \E label \in {"absent", "queued"} : Publish(j, label)
              /\ interrupted' = interrupted \cup {j}
              /\ claims' = Reaped(claims, writers)
              /\ UNCHANGED <<worker, children, thread>>
  BY DEF Start
<1>1. /\ up /\ pc[t] = "idle" /\ t # Closer /\ pc[Closer] = "idle" /\ owner
      /\ UNCHANGED <<request, owner, sig, up, boots, writers, closing, research, todo>>
  BY DEF Start, At, Threads, Owned, Closing
<1>2. worker[j] = "none" /\ j \notin children /\ j \notin writers /\ j \notin todo
  BY <1>0 DEF Fresh, Armed, Closing
<1>3. \A u \in Threads : pc[u] \notin Outside => job[u] # j
  BY <1>0 DEF Named
<1>4. \A u \in Threads : research[u] # j
  BY <1>0 DEF Apart
<1>5. CASE /\ Publish(j, "queued") /\ Become(j, "starting")
           /\ children' = children \cup {j}
           /\ claims' = Reaped(claims, writers) \cup {j}
           /\ Enter(t, "read", j)
           /\ UNCHANGED interrupted
  <2> USE <1>1, <1>2, <1>3, <1>5 DEF Publish, Become, Enter
  <2>1. TypeOK'
    BY ReapedFacts DEF Label, Live, Terminal, Alive
  <2>2. Named' /\ Fresh'
    BY DEF Named, Fresh
  <2>3. Claimed' /\ Armed'
    BY ReapedFacts DEF Claimed, Armed, Alive
  <2>4. Gone'
    BY DEF Gone
  <2>5. Apart' /\ Kept' /\ Owned'
    BY <1>4, ReapedFacts DEF Apart, Kept, Owned, Threads
  <2>6. Closing'
    BY DEF Closing, Threads
  <2> QED BY <2>1, <2>2, <2>3, <2>4, <2>5, <2>6
<1>6. CASE /\ \E label \in {"absent", "queued"} : Publish(j, label)
           /\ interrupted' = interrupted \cup {j}
           /\ claims' = Reaped(claims, writers)
           /\ UNCHANGED <<worker, children, thread>>
  <2> USE <1>1, <1>2, <1>3, <1>6 DEF Publish
  <2>1. TypeOK'
    BY ReapedFacts DEF Label, Live, Terminal
  <2>2. Named' /\ Fresh'
    BY DEF Named, Fresh
  <2>3. Claimed' /\ Armed'
    BY ReapedFacts DEF Claimed, Armed
  <2>4. Gone'
    BY DEF Gone
  <2>5. Apart' /\ Kept' /\ Owned'
    BY <1>4, ReapedFacts DEF Apart, Kept, Owned, Threads
  <2>6. Closing'
    BY DEF Closing, Threads
  <2> QED BY <2>1, <2>2, <2>3, <2>4, <2>5, <2>6
<1> QED BY <1>0, <1>5, <1>6

\* What every step of a worker amounts to: one live process goes on or exits,
\* with some label, and everything else stays as it is.
LEMMA WorkerStep ==
    ASSUME DeskInv, NEW j \in Jobs, worker[j] \in Alive,
           NEW w \in Alive \cup {"exited"}, NEW l \in Live \cup Terminal,
           worker' = [worker EXCEPT ![j] = w], file' = [file EXCEPT ![j] = l],
           ByWorker
    PROVE  DeskInv'
<1>1. UNCHANGED <<request, owner, sig, up, children, claims, writers, interrupted, closing>>
  BY DEF ByWorker, manager
<1>2. UNCHANGED <<research, pc, job, seen, err, todo>>
  BY DEF ByWorker, thread
<1>3. /\ file \in [Jobs -> Label] /\ worker \in [Jobs -> {"none", "exited"} \cup Alive]
      /\ children \subseteq Jobs
      /\ worker' \in [Jobs -> {"none", "exited"} \cup Alive]
      /\ file' \in [Jobs -> Label]
  BY DEF DeskInv, TypeOK, Label
<1>4. \A i \in Jobs : worker[i] = "exited" => worker'[i] = "exited" /\ file'[i] = file[i]
  BY <1>3 DEF Alive
<1>5. \A i \in Jobs : /\ file'[i] = "absent" => file[i] = "absent" /\ worker'[i] = worker[i]
                      /\ worker'[i] = "none" => worker[i] = "none"
                      /\ worker'[i] \in Alive => worker[i] \in Alive
  BY <1>3 DEF Alive, Live, Terminal
<1>6. TypeOK'
  BY <1>1, <1>2, <1>3 DEF DeskInv, TypeOK
<1>7. Named' /\ Fresh'
  <2>1. Named' BY <1>2, <1>5 DEF DeskInv, Named
  <2>2. Fresh' BY <1>1, <1>3, <1>5 DEF DeskInv, Fresh
  <2> QED BY <2>1, <2>2
<1>8. Claimed' /\ Armed'
  <2>1. Claimed' BY <1>1, <1>3, <1>5 DEF DeskInv, Claimed
  <2>2. Armed' BY <1>1, <1>2 DEF DeskInv, Armed
  <2> QED BY <2>1, <2>2
<1>9. Gone'
  BY <1>1, <1>2, <1>4 DEF DeskInv, Gone, Named, Cancelling, Outside
<1>10. Apart' /\ Kept' /\ Owned'
  <2>1. \A t \in Threads : research[t] \in Jobs \cup {None}
    BY DEF DeskInv, TypeOK
  <2>2. Apart' BY <1>1, <1>2, <1>5, <2>1 DEF DeskInv, Apart
  <2>3. Kept' BY <1>1, <1>5 DEF DeskInv, Kept
  <2>4. Owned' BY <1>1, <1>2, <1>5 DEF DeskInv, Owned
  <2> QED BY <2>2, <2>3, <2>4
<1>11. Closing'
  <2>1. \A i \in children : Settled(i) => Settled(i)'
    BY <1>3, <1>4 DEF Settled
  <2>2. pc[Closer] \notin Outside => job[Closer] \in children
    BY DEF DeskInv, Closing
  <2> QED BY <1>1, <1>2, <1>3, <1>4, <2>1, <2>2 DEF DeskInv, Closing, Outside
<1> QED BY <1>6, <1>7, <1>8, <1>9, <1>10, <1>11 DEF DeskInv

\* A live worker has a label; leaving it alone is one of the choices above.
LEMMA WorkerLabel ==
    ASSUME DeskInv, NEW j \in Jobs, worker[j] \in Alive
    PROVE  file[j] \in Live \cup Terminal /\ file = [file EXCEPT ![j] = file[j]]
BY DEF DeskInv, Fresh, TypeOK, Label, Alive

LEMMA WorkerStartsInv == ASSUME DeskInv, NEW j \in Jobs, WorkerStarts(j) PROVE DeskInv'
<1>1. worker' = [worker EXCEPT ![j] = "working"] /\ file' = [file EXCEPT ![j] = "running"]
  BY DEF WorkerStarts, Become, Publish
<1>2. worker[j] \in Alive /\ ByWorker
  BY DEF WorkerStarts, Alive
<1>3. "working" \in Alive \cup {"exited"} /\ "running" \in Live \cup Terminal
  BY DEF Alive, Live
<1> QED BY ONLY <1>1, <1>2, <1>3, DeskInv, j \in Jobs, WorkerStep

LEMMA WorkerConcludesInv == ASSUME DeskInv, NEW j \in Jobs, WorkerConcludes(j) PROVE DeskInv'
<1>1. worker' = [worker EXCEPT ![j] = "concluding"] /\ file' = file
  BY DEF WorkerConcludes, Become
<1>2. worker[j] \in Alive /\ ByWorker
  BY DEF WorkerConcludes, Alive
<1>3. "concluding" \in Alive \cup {"exited"}
  BY DEF Alive
<1>4. file[j] \in Live \cup Terminal /\ file' = [file EXCEPT ![j] = file[j]]
  BY <1>1, <1>2, WorkerLabel
<1> QED BY ONLY <1>1, <1>2, <1>3, <1>4, DeskInv, j \in Jobs, WorkerStep

LEMMA WorkerCompletesInv == ASSUME DeskInv, NEW j \in Jobs, WorkerCompletes(j) PROVE DeskInv'
<1>1. PICK w \in {"failing", "finishing"} : worker' = [worker EXCEPT ![j] = w]
  BY DEF WorkerCompletes, Become
<1>2. worker[j] \in Alive /\ ByWorker /\ file' = [file EXCEPT ![j] = "complete"]
  BY DEF WorkerCompletes, Publish, Alive
<1>3. w \in Alive \cup {"exited"} /\ "complete" \in Live \cup Terminal
  BY DEF Alive, Terminal
<1> QED BY ONLY <1>1, <1>2, <1>3, DeskInv, j \in Jobs, WorkerStep

LEMMA WorkerFailsInv == ASSUME DeskInv, NEW j \in Jobs, WorkerFails(j) PROVE DeskInv'
<1>1. PICK l \in {"failed", "cancelled"} : file' = [file EXCEPT ![j] = l]
  BY DEF WorkerFails, Publish
<1>2. worker[j] \in Alive /\ ByWorker /\ worker' = [worker EXCEPT ![j] = "finishing"]
  BY DEF WorkerFails, Become, Alive
<1>3. "finishing" \in Alive \cup {"exited"} /\ l \in Live \cup Terminal
  BY DEF Alive, Terminal
<1> QED BY ONLY <1>1, <1>2, <1>3, DeskInv, j \in Jobs, WorkerStep

LEMMA WorkerExitsInv == ASSUME DeskInv, NEW j \in Jobs, WorkerExits(j) PROVE DeskInv'
<1>1. worker' = [worker EXCEPT ![j] = "exited"] /\ file' = file
  BY DEF WorkerExits, Become
<1>2. worker[j] \in Alive /\ ByWorker
  BY DEF WorkerExits
<1>3. file[j] \in Live \cup Terminal /\ file' = [file EXCEPT ![j] = file[j]]
  BY <1>1, <1>2, WorkerLabel
<1> QED BY ONLY <1>1, <1>2, <1>3, DeskInv, j \in Jobs, WorkerStep

LEMMA CloseInv == ASSUME DeskInv, Close PROVE DeskInv'
<1> USE DesktopConfig DEF DeskInv, TypeOK, disk, process, manager, Request, Cancelling, Outside
<1> USE DEF Close, At, Goto
<1>1. TypeOK'
  BY ReapedFacts DEF Named, Label, Live, Terminal, Alive, Threads
<1>2. Named' /\ Fresh'
  BY DEF Named, Fresh, Alive, Threads
<1>3. Claimed' /\ Armed'
  BY ReapedFacts DEF Claimed, Armed, Alive, Threads
<1>4. Gone'
  BY DEF Gone, Alive, Threads
<1>5. Apart' /\ Kept' /\ Owned'
  BY ReapedFacts DEF Apart, Kept, Owned, Closing, Alive, Threads
<1>6. Closing'
  BY ReapedFacts DEF Closing, Fresh, Gone, Armed, Settled, Threads, Live, Terminal, Alive
<1> QED BY <1>1, <1>2, <1>3, <1>4, <1>5, <1>6

\* Where close stands between two jobs, every child it is done with is settled.
LEMMA ClosePlace ==
    ASSUME DeskInv, pc[Closer] = "close"
    PROVE  /\ Closer \in Threads /\ closing /\ todo \subseteq children /\ children \subseteq Jobs
           /\ pc[Closer] \notin Cancelling /\ pc[Closer] # "closed"
           /\ \A i \in children \ todo : Settled(i)
           /\ \A i \in children : file[i] # "absent"
BY DEF DeskInv, TypeOK, Closing, Fresh, Cancelling, Threads

LEMMA CloseNextInv == ASSUME DeskInv, CloseNext PROVE DeskInv'
<1>1. PICK j \in todo : todo' = todo \ {j} /\ Enter(Closer, "arm", j)
  BY DEF CloseNext
<1>2. /\ pc[Closer] = "close"
      /\ UNCHANGED <<file, worker, sig, request, owner, up>>
      /\ UNCHANGED <<children, writers, interrupted, closing>>
      /\ UNCHANGED <<claims, research>>
  BY DEF CloseNext, At, disk, process, manager
<1>3. /\ pc' = [pc EXCEPT ![Closer] = "arm"] /\ job' = [job EXCEPT ![Closer] = j]
      /\ seen' = [seen EXCEPT ![Closer] = "absent"] /\ err' = [err EXCEPT ![Closer] = FALSE]
  BY <1>1 DEF Enter
<1>4. "arm" \in Calm /\ "absent" \in Label
  BY DEF Calm, Label
<1>5. pc'[Closer] = "arm" /\ job'[Closer] = j
  BY <1>2, <1>3, ClosePlace DEF DeskInv, TypeOK
<1>6. Closing'
  <2>1. \A i \in children \ todo' : i # j => Settled(i)'
    BY <1>1, <1>2, ClosePlace DEF Settled
  <2>2. j \in children /\ todo' \subseteq children
    BY <1>1, <1>2, ClosePlace
  <2> QED BY <1>2, <1>5, <2>1, <2>2, ClosePlace DEF Closing
<1>7. j \in Jobs /\ file[j] # "absent" /\ todo' \subseteq todo
  BY <1>1, <1>2, ClosePlace
<1> QED BY <1>2, <1>3, <1>4, <1>6, <1>7, ClosePlace, ScopesStay, TurnsTo

LEMMA CloseCheckInv == ASSUME DeskInv, CloseCheck PROVE DeskInv'
<1>1. /\ pc[Closer] = "close" /\ todo = {} /\ claims' = Reaped(claims, writers)
      /\ UNCHANGED <<file, worker, sig, request, owner, up>>
      /\ UNCHANGED <<children, writers, interrupted, closing>>
      /\ UNCHANGED <<research, todo>>
  BY DEF CloseCheck, At, Rest, process
<1>2. claims' \subseteq claims /\ \A i \in claims : worker[i] \in Alive \/ i \in writers => i \in claims'
  BY <1>1, ReapedFacts
<1>3. \/ Enter(Closer, "abandoned", None)
      \/ /\ claims' = {} /\ ~\E j \in Jobs : Scoped(j)
         /\ pc' = [pc EXCEPT ![Closer] = "unlink"] /\ UNCHANGED <<job, seen, err>>
  BY DEF CloseCheck, Raise, Goto
<1>4. {"abandoned", "unlink"} \subseteq Calm \cap Outside /\ "absent" \in Label
  BY DEF Calm, Outside, Label
<1>5. \A i \in children : Settled(i)'
  BY <1>1, ClosePlace DEF Settled
<1>6. pc \in [Threads -> Request \cup Cancelling \cup Outside]
  BY DEF DeskInv, TypeOK
<1>7. CASE Enter(Closer, "abandoned", None)
  <2>1. pc'[Closer] = "abandoned"
    BY <1>1, <1>6, <1>7, ClosePlace DEF Enter
  <2>2. Closing'
    BY <1>1, <1>4, <2>1, ClosePlace DEF Closing
  <2> QED BY <1>1, <1>2, <1>4, <1>7, <2>2, ClosePlace, ScopesStay, TurnsTo DEF Enter
<1>8. CASE /\ claims' = {} /\ ~\E j \in Jobs : Scoped(j)
           /\ pc' = [pc EXCEPT ![Closer] = "unlink"] /\ UNCHANGED <<job, seen, err>>
  <2>1. pc'[Closer] = "unlink"
    BY <1>1, <1>6, <1>8, ClosePlace
  <2>2. \A u \in Threads : research'[u] = None
    BY <1>1, <1>8, ScopesStay DEF Scoped
  <2>3. Closing'
    BY <1>1, <1>4, <1>5, <1>8, <2>1, <2>2, ClosePlace DEF Closing
  <2>4. /\ job' = [job EXCEPT ![Closer] = job[Closer]] /\ job[Closer] \in Jobs \cup {None}
        /\ seen' = [seen EXCEPT ![Closer] = seen[Closer]] /\ seen[Closer] \in Label
        /\ err' = [err EXCEPT ![Closer] = err[Closer]] /\ err[Closer] \in BOOLEAN
    BY <1>1, <1>8, ClosePlace, Stays
  <2>5. pc' = [pc EXCEPT ![Closer] = "unlink"]
    BY <1>8
  <2> QED BY <1>1, <1>2, <1>4, <2>3, <2>4, <2>5, ClosePlace, ScopesStay, TurnsTo
<1> QED BY <1>3, <1>7, <1>8

LEMMA CloseUnlinkInv == ASSUME DeskInv, CloseUnlink PROVE DeskInv'
<1> USE DesktopConfig DEF DeskInv, TypeOK, disk, process, manager, Request, Cancelling, Outside
<1> USE DEF CloseUnlink, At, Goto
<1>1. TypeOK'
  BY ReapedFacts DEF Named, Label, Live, Terminal, Alive, Threads
<1>2. Named' /\ Fresh'
  BY DEF Named, Fresh, Alive, Threads
<1>3. Claimed' /\ Armed'
  BY ReapedFacts DEF Claimed, Armed, Alive, Threads
<1>4. Gone'
  BY DEF Gone, Alive, Threads
<1>5. Apart' /\ Kept' /\ Owned'
  BY DEF Apart, Kept, Owned, Closing, Claimed, Threads
<1>6. Closing'
  BY ReapedFacts DEF Closing, Fresh, Gone, Armed, Settled, Threads, Live, Terminal, Alive
<1> QED BY <1>1, <1>2, <1>3, <1>4, <1>5, <1>6

LEMMA ManagerEndsInv == ASSUME DeskInv, ManagerEnds PROVE DeskInv'
<1> USE DesktopConfig DEF DeskInv, TypeOK, disk, process, manager, Request, Cancelling, Outside
<1> USE DEF ManagerEnds, NoRequest
<1>1. TypeOK'
  BY ReapedFacts DEF Named, Label, Live, Terminal, Alive, Threads
<1>2. Named' /\ Fresh'
  BY DEF Named, Fresh, Alive, Threads
<1>3. Claimed' /\ Armed'
  BY ReapedFacts DEF Claimed, Armed, Alive, Threads
<1>4. Gone'
  BY DEF Gone, Alive, Threads
<1>5. Apart' /\ Kept' /\ Owned'
  BY ReapedFacts DEF Apart, Kept, Owned, Closing, Alive, Threads
<1>6. Closing'
  BY ReapedFacts DEF Closing, Fresh, Gone, Armed, Settled, Threads, Live, Terminal, Alive
<1> QED BY <1>1, <1>2, <1>3, <1>4, <1>5, <1>6

LEMMA RecoverInv == ASSUME DeskInv, Recover PROVE DeskInv'
<1> USE DesktopConfig DEF DeskInv, TypeOK, disk, process, manager, Request, Cancelling, Outside
<1> USE DEF Recover, thread
<1>1. TypeOK'
  BY ReapedFacts DEF Named, Label, Live, Terminal, Alive, Threads
<1>2. Named' /\ Fresh'
  BY DEF Named, Fresh, Alive, Threads
<1>3. Claimed' /\ Armed'
  BY ReapedFacts DEF Claimed, Armed, Alive, Threads
<1>4. Gone'
  BY DEF Gone, Alive, Threads
<1>5. Apart' /\ Kept' /\ Owned'
  BY ReapedFacts DEF Apart, Kept, Owned, Closing, Alive, Threads
<1>6. Closing'
  BY ReapedFacts DEF Closing, Fresh, Gone, Armed, Settled, Threads, Live, Terminal, Alive
<1> QED BY <1>1, <1>2, <1>3, <1>4, <1>5, <1>6

LEMMA BootInv == ASSUME DeskInv, Boot PROVE DeskInv'
<1>1. /\ ~up /\ ~owner /\ up' = TRUE /\ owner' = TRUE
      /\ interrupted' = {j \in Jobs : file[j] \in Live}
      /\ UNCHANGED <<request, worker, sig, children, claims, writers, closing, research, todo>>
      /\ UNCHANGED <<pc, job, seen, err>>
  BY DEF Boot, process, thread
<1>2. PICK labelled \in SUBSET interrupted' :
        file' = [j \in Jobs |-> IF j \in labelled THEN "interrupted" ELSE file[j]]
  BY DEF Boot
<1>3. /\ file \in [Jobs -> Label] /\ children \subseteq Jobs
      /\ job \in [Threads -> Jobs \cup {None}] /\ research \in [Threads -> Jobs \cup {None}]
      /\ Closer \in Threads
  BY DEF DeskInv, TypeOK, Threads
<1>4. \A i \in Jobs : /\ file'[i] = "absent" <=> file[i] = "absent"
                      /\ file'[i] \in Live => file[i] \in Live
  BY <1>1, <1>2, <1>3 DEF Live
<1>5. \A i \in Jobs : worker[i] \notin Alive
  BY <1>1 DEF DeskInv, Owned
<1>6. TypeOK'
  <2>1. file' \in [Jobs -> Label]
    BY <1>2, <1>3 DEF Label, Terminal
  <2> QED BY <1>1, <2>1 DEF DeskInv, TypeOK
<1>7. Named' /\ Fresh'
  <2>1. Named' BY <1>1, <1>4 DEF DeskInv, Named
  <2>2. Fresh' BY <1>1, <1>4 DEF DeskInv, Fresh
  <2> QED BY <2>1, <2>2
<1>8. Claimed' /\ Armed' /\ Gone'
  BY <1>1 DEF DeskInv, Claimed, Armed, Gone
<1>9. Apart' /\ Kept' /\ Owned'
  <2>1. Apart' BY <1>1, <1>3, <1>4 DEF DeskInv, Apart
  <2>2. Kept' BY <1>1, <1>5 DEF Kept
  <2>3. Owned' BY <1>1 DEF Owned
  <2> QED BY <2>1, <2>2, <2>3
<1>10. Closing'
  <2>1. \A i \in children : Settled(i) => Settled(i)'
    BY <1>1, <1>3, <1>4 DEF Settled
  <2>2. pc[Closer] \notin Outside => job[Closer] \in Jobs
    BY <1>3 DEF DeskInv, Named
  <2>3. {"poll", "reap"} \cap Outside = {}
    BY DEF Outside
  <2> QED BY <1>1, <1>4, <2>1, <2>2, <2>3 DEF DeskInv, Closing
<1> QED BY <1>6, <1>7, <1>8, <1>9, <1>10 DEF DeskInv
-----------------------------------------------------------------------------
\* The manager starts in the invariant, keeps it, and so always satisfies it.
LEMMA DeskInit == Init => DeskInv
<1> SUFFICES ASSUME Init PROVE DeskInv
  OBVIOUS
<1> USE DesktopConfig DEF Init, NoRequest, Threads
<1>1. TypeOK
  BY DEF TypeOK, Label, Request, Cancelling, Outside
<1>2. Named /\ Fresh /\ Claimed /\ Armed /\ Gone /\ Apart
  BY DEF Named, Fresh, Claimed, Armed, Gone, Apart, Outside, Cancelling
<1>3. Kept /\ Owned /\ Closing
  BY DEF Kept, Owned, Closing, Outside, Alive
<1> QED BY <1>1, <1>2, <1>3 DEF DeskInv

LEMMA DeskStep == DeskInv /\ [Next]_vars => DeskInv'
<1> SUFFICES ASSUME DeskInv, [Next]_vars PROVE DeskInv'
  OBVIOUS
<1>1. CASE \E j \in Jobs : Worker(j)
  BY <1>1, WorkerStartsInv, WorkerConcludesInv, WorkerCompletesInv, WorkerFailsInv, WorkerExitsInv
     DEF Worker
<1>2. ASSUME NEW t \in Threads, Receive(t) \/ Start(t) PROVE DeskInv'
  BY <1>2, ReceiveInv, StartInv
<1>3. ASSUME NEW t \in Threads, Proceed(t) PROVE DeskInv'
  <2>1. CASE StatusRead(t) \/ StatusPoll(t) \/ StatusCommit(t) \/ StatusReap(t)
    BY <2>1, StatusReadInv, StatusPollInv, StatusCommitInv, StatusReapInv
  <2>2. CASE CancelArm(t) \/ CancelSignal(t) \/ CancelWait(t) \/ CancelKill(t)
    BY <2>2, CancelArmInv, CancelSignalInv, CancelWaitInv, CancelKillInv
  <2>3. CASE CancelRewait(t) \/ CancelPublish(t) \/ CancelFinally(t)
    BY <2>3, CancelRewaitInv, CancelPublishInv, CancelFinallyInv
  <2>4. CASE ResearchAwait(t) \/ ResearchAdmit(t) \/ ResearchDone(t)
    BY <2>4, ResearchAwaitInv, ResearchAdmitInv, ResearchDoneInv
  <2> QED BY <1>3, <2>1, <2>2, <2>3, <2>4 DEF Proceed
<1>4. CASE Close \/ CloseNext \/ CloseCheck \/ CloseUnlink
  BY <1>4, CloseInv, CloseNextInv, CloseCheckInv, CloseUnlinkInv
<1>5. CASE ManagerEnds \/ Recover \/ Boot
  BY <1>5, ManagerEndsInv, RecoverInv, BootInv
<1>6. CASE UNCHANGED vars
  <2> USE <1>6 DEF vars, disk, process, thread, manager
  <2>1. TypeOK' /\ Named' /\ Fresh' /\ Claimed' /\ Armed'
    BY DEF DeskInv, TypeOK, Named, Fresh, Claimed, Armed
  <2>2. Gone' /\ Apart' /\ Kept' /\ Owned' /\ Closing'
    BY DEF DeskInv, Gone, Apart, Kept, Owned, Closing, Settled
  <2> QED BY <2>1, <2>2 DEF DeskInv
<1> QED BY <1>1, <1>2, <1>3, <1>4, <1>5, <1>6 DEF Next

LEMMA DeskAlways == Spec => []DeskInv
<1> QED BY DeskInit, DeskStep, PTL DEF Spec

-----------------------------------------------------------------------------
(***************************************************************************)
(* The theorems.                                                           *)
(***************************************************************************)
\* The fields of the manager, the labels on disk and the places of its threads
\* are always of their kinds.
THEOREM DesktopTypes == Spec => []TypeOK
<1>1. DeskInv => TypeOK
  BY DEF DeskInv
<1> QED BY <1>1, DeskAlways, PTL

\* For any number of jobs, threads and managers, the disk claim of a job
\* outlives its terminal label: it is held, and no derived file is written
\* below the job, while the child lives or a cancellation has still to write.
THEOREM DesktopScope == Spec => []ScopeExclusive
<1>1. DeskInv => ScopeExclusive
  BY DesktopConfig DEF DeskInv, TypeOK, ScopeExclusive, Claimed, Apart, Running, Scoped
<1> QED BY <1>1, DeskAlways, PTL

\* Only these steps write a label.
LEMMA LabelSteps ==
    ASSUME Next, file' # file
    PROVE  \/ \E j \in Jobs : WorkerStarts(j) \/ WorkerCompletes(j) \/ WorkerFails(j)
           \/ \E t \in Threads : Start(t) \/ StatusCommit(t) \/ CancelPublish(t)
           \/ Boot
<1> USE DEF disk, Rest
<1>1. CASE \E j \in Jobs : Worker(j)
  BY <1>1 DEF Worker, WorkerConcludes, WorkerExits
<1>2. ASSUME NEW t \in Threads, Receive(t) PROVE FALSE
  BY <1>2 DEF Receive
<1>3. ASSUME NEW t \in Threads, Proceed(t), ~StatusCommit(t), ~CancelPublish(t) PROVE FALSE
  <2>1. ~(StatusRead(t) \/ StatusPoll(t) \/ StatusReap(t))
    BY DEF StatusRead, StatusPoll, StatusReap
  <2>2. ~(CancelArm(t) \/ CancelSignal(t))
    BY DEF CancelArm, CancelSignal
  <2>3. ~(CancelWait(t) \/ CancelKill(t))
    BY DEF CancelWait, CancelKill
  <2>4. ~(CancelRewait(t) \/ CancelFinally(t))
    BY DEF CancelRewait, CancelFinally
  <2>5. ~(ResearchAwait(t) \/ ResearchAdmit(t) \/ ResearchDone(t))
    BY DEF ResearchAwait, ResearchAdmit, ResearchDone
  <2> QED BY <1>3, <2>1, <2>2, <2>3, <2>4, <2>5 DEF Proceed
<1>4. ~(Close \/ CloseNext \/ CloseCheck \/ CloseUnlink \/ ManagerEnds \/ Recover)
  BY DEF Close, CloseNext, CloseCheck, CloseUnlink, ManagerEnds, Recover
<1> QED BY <1>1, <1>2, <1>3, <1>4 DEF Next

\* For any number of jobs, threads and managers, the manager writes a label only
\* after the child has gone, and then leaves a terminal one alone, but for the
\* cancellation armed before.
THEOREM DesktopOneWriter == Spec => [][OneWriter]_vars
<1> DEFINE Good(j) ==
      file'[j] # file[j] =>
          /\ pc' # pc => worker[j] \notin Alive
          /\ worker[j] \notin Alive /\ file[j] \in Terminal =>
                 file'[j] = "cancelled" /\ j \in writers
<1>1. ASSUME DeskInv, Next, NEW j \in Jobs, file'[j] # file[j] PROVE Good(j)
  <2> USE DEF DeskInv, TypeOK, Publish
  <2>1. ASSUME NEW i \in Jobs, WorkerStarts(i) \/ WorkerCompletes(i) \/ WorkerFails(i) PROVE Good(j)
    BY <1>1, <2>1 DEF WorkerStarts, WorkerCompletes, WorkerFails, ByWorker, thread, Alive
  <2>2. ASSUME NEW t \in Threads, Start(t) PROVE Good(j)
    BY <1>1, <2>2 DEF Start, Fresh, Alive, Terminal
  <2>3. ASSUME NEW t \in Threads, StatusCommit(t) PROVE Good(j)
    BY <1>1, <2>3 DEF StatusCommit, At, Gone, Alive, Live, Terminal
  <2>4. ASSUME NEW t \in Threads, CancelPublish(t) PROVE Good(j)
    BY <1>1, <2>4 DEF CancelPublish, At, Gone, Armed, Cancelling, Alive
  <2>5. CASE Boot
    BY <1>1, <2>5 DEF Boot, thread, Live, Terminal
  <2> QED BY <1>1, <2>1, <2>2, <2>3, <2>4, <2>5, LabelSteps
<1>2. DeskInv /\ [Next]_vars => [\A j \in Jobs : Good(j)]_vars
  BY <1>1 DEF vars
<1> QED BY <1>2, DeskAlways, PTL DEF OneWriter, Spec

\* For any number of jobs, threads and managers, whatever is written below the
\* workspace, until the last thread has ended, is written under the owner marker.
THEOREM DesktopOwner == Spec => [][OwnerCovers]_vars
<1>1. ASSUME DeskInv, Next, file' # file PROVE owner'
  <2> USE <1>1 DEF DeskInv, TypeOK
  <2>1. ASSUME NEW i \in Jobs, WorkerStarts(i) \/ WorkerCompletes(i) \/ WorkerFails(i) PROVE owner'
    BY <2>1 DEF WorkerStarts, WorkerCompletes, WorkerFails, ByWorker, Alive, Owned
  <2>2. ASSUME NEW t \in Threads, Start(t) PROVE owner'
    BY <2>2, DesktopConfig DEF Start, At, Owned, Closing, Outside
  <2>3. ASSUME NEW t \in Threads, StatusCommit(t) PROVE owner'
    <3>1. up /\ job[t] \in children /\ file[job[t]] \in Live /\ owner' = owner
      BY <2>3 DEF StatusCommit, At, Gone, Rest
    <3>2. ~owner => Settled(job[t])
      BY <3>1 DEF Owned, Closing
    <3> QED BY <3>1, <3>2 DEF Settled
  <2>4. ASSUME NEW t \in Threads, CancelPublish(t) PROVE owner'
    <3>1. up /\ job[t] \in writers /\ owner' = owner
      BY <2>4 DEF CancelPublish, At, Rest, Armed, Cancelling
    <3>2. job[t] \in claims
      BY <3>1 DEF Armed, Claimed
    <3> QED BY <3>1, <3>2 DEF Owned, Closing
  <2>5. CASE Boot
    BY <2>5 DEF Boot
  <2> QED BY <2>1, <2>2, <2>3, <2>4, <2>5, LabelSteps
<1>2. ASSUME DeskInv' PROVE (\E t \in Threads : research'[t] # None) => owner'
  BY <1>2 DEF DeskInv, Owned
<1>3. DeskInv /\ DeskInv' /\ [Next]_vars
        => [file' # file \/ (\E t \in Threads : research'[t] # None) => owner']_vars
  BY <1>1, <1>2 DEF vars
<1> QED BY <1>3, DeskAlways, PTL DEF OwnerCovers, Spec

\* For any number of jobs, threads and managers, a job is written by one process at
\* a time, under the claim on its disk and by the owner of the workspace.
THEOREM DesktopJobsSafe == Spec => JobsSafe
BY DesktopScope, DesktopOneWriter, DesktopOwner, PTL DEF JobsSafe
=============================================================================
