------------------------------ MODULE Publish ------------------------------
(***************************************************************************)
(* No-clobber publication of a report (src/src/publish.rs, write_new) by   *)
(* several threads of one process that race for the same destination, with *)
(* failing system calls and machine crashes at any point.                  *)
(*                                                                         *)
(* A directory maps names to inodes.  `dir` is what the running system     *)
(* sees, `durable` what a crash is sure to keep; of the entries in which   *)
(* they differ a crash keeps any part.  An inode's contents are none, some *)
(* or all of the bytes of the publisher that created it; contents that     *)
(* were not synced may be any of these after a crash.  A temporary name is *)
(* the serial number in it: the process id is the same for all publishers, *)
(* and after a restart may be so again.                                    *)
(***************************************************************************)
EXTENDS Integers, Sequences, FiniteSets

CONSTANTS
    Publishers,     \* threads that call write_new with the same path
    MaxTries,       \* temporary names tried, 16 in the code
    FaultBound,     \* model bound on failing system calls
    CrashBound      \* model bound on machine crashes

ASSUME PublishBounds ==
    MaxTries \in Nat \ {0} /\ FaultBound \in Nat /\ CrashBound \in Nat

Dest == 0
Contents == {"none", "some", "all"}

VARIABLES dir, durable, inodes, serial, pc, tries, temp, ino, result, faults, crashes

vars == <<dir, durable, inodes, serial, pc, tries, temp, ino, result, faults, crashes>>
files == <<dir, durable, inodes>>
locals == <<tries, temp, ino>>

Without(f, n) == [x \in DOMAIN f \ {n} |-> f[x]]
With(f, n, v) == [x \in DOMAIN f \cup {n} |-> IF x = n THEN v ELSE f[x]]

\* The destination may hold a file of someone else's (inode 1) from the start.
Init ==
    /\ inodes = <<[mem |-> "all", disk |-> "all"]>>
    /\ dir \in {[n \in {} |-> 1], [n \in {Dest} |-> 1]}
    /\ durable = dir
    /\ serial = 1
    /\ pc = [p \in Publishers |-> "check"]
    /\ tries = [p \in Publishers |-> 0]
    /\ temp = [p \in Publishers |-> Dest]
    /\ ino = [p \in Publishers |-> 0]
    /\ result = [p \in Publishers |-> "none"]
    /\ faults = 0
    /\ crashes = 0

Go(p, from, to) == pc[p] = from /\ pc' = [pc EXCEPT ![p] = to]
Returns(p, r) == result' = [result EXCEPT ![p] = r]
Fault == faults < FaultBound /\ faults' = faults + 1

\* Temporary::drop removes the file and ignores a failure to do so.
DropTemporary(p) ==
    /\ \/ dir' = Without(dir, temp[p]) /\ UNCHANGED faults
       \/ UNCHANGED dir /\ Fault

\* symlink_metadata on the destination.
Check(p) ==
    /\ IF Dest \in DOMAIN dir
       THEN Go(p, "check", "done") /\ Returns(p, "exists") /\ UNCHANGED faults
       ELSE \/ Go(p, "check", "open") /\ UNCHANGED <<result, faults>>
            \/ Go(p, "check", "done") /\ Returns(p, "io") /\ Fault
    /\ UNCHANGED <<files, serial, locals, crashes>>

MoreTries(p) == tries[p] + 1 < MaxTries

\* One round of the loop over temporary names.
Open(p) ==
    /\ serial' = serial + 1
    /\ \/ /\ serial \in DOMAIN dir
          /\ tries' = [tries EXCEPT ![p] = @ + 1]
          /\ IF MoreTries(p)
             THEN Go(p, "open", "open") /\ UNCHANGED result
             ELSE Go(p, "open", "done") /\ Returns(p, "io")
          /\ UNCHANGED <<files, temp, ino, faults>>
       \/ /\ serial \notin DOMAIN dir
          /\ Go(p, "open", "write")
          /\ inodes' = Append(inodes, [mem |-> "none", disk |-> "none"])
          /\ dir' = With(dir, serial, Len(inodes) + 1)
          /\ temp' = [temp EXCEPT ![p] = serial]
          /\ ino' = [ino EXCEPT ![p] = Len(inodes) + 1]
          /\ UNCHANGED <<durable, tries, result, faults>>
       \/ Go(p, "open", "done") /\ Returns(p, "io") /\ Fault /\ UNCHANGED <<files, locals>>
    /\ UNCHANGED crashes

WriteAll(p) ==
    /\ Go(p, "write", "sync")
    /\ inodes' = [inodes EXCEPT ![ino[p]].mem = "all"]
    /\ UNCHANGED <<dir, durable, serial, locals, result, faults, crashes>>

SyncAll(p) ==
    /\ Go(p, "sync", "link")
    /\ inodes' = [inodes EXCEPT ![ino[p]].disk = inodes[ino[p]].mem]
    /\ UNCHANGED <<dir, durable, serial, locals, result, faults, crashes>>

\* A failing write, sync or link returns an error and drops the temporary.
FailBeforeCommit(p) ==
    /\ pc[p] \in {"write", "sync", "link"}
    /\ faults < FaultBound
    /\ faults' = faults + 1
    /\ pc' = [pc EXCEPT ![p] = "done"]
    /\ Returns(p, "io")
    /\ inodes' \in {inodes, [inodes EXCEPT ![ino[p]].mem = IF pc[p] = "write" THEN "some" ELSE @]}
    /\ dir' \in {dir, Without(dir, temp[p])}
    /\ UNCHANGED <<durable, serial, locals, crashes>>

\* Mutant of Link: a rename, which replaces what is there.
LinkReplacing(p) ==
    /\ Go(p, "link", "unlink")
    /\ dir' = With(dir, Dest, ino[p])
    /\ UNCHANGED <<durable, inodes, serial, locals, result, faults, crashes>>

\* hard_link: the commit.
Link(p) ==
    /\ IF Dest \in DOMAIN dir
       THEN Go(p, "link", "done") /\ Returns(p, "exists") /\ DropTemporary(p)
       ELSE /\ Go(p, "link", "unlink")
            /\ dir' = With(dir, Dest, ino[p])
            /\ UNCHANGED <<result, faults>>
    /\ UNCHANGED <<durable, inodes, serial, locals, crashes>>

\* remove_file on the temporary; on failure the drop tries once more.
RemoveTemporary(p) ==
    /\ \/ /\ Go(p, "unlink", "dirsync")
          /\ dir' = Without(dir, temp[p])
          /\ UNCHANGED <<result, faults>>
       \/ /\ Go(p, "unlink", "done")
          /\ Returns(p, "committed")
          /\ Fault
          /\ dir' \in {dir, Without(dir, temp[p])}
    /\ UNCHANGED <<durable, inodes, serial, locals, crashes>>

\* Mutant of SyncDirectory: success is reported without it.
SyncDirectorySkipped(p) ==
    /\ Go(p, "dirsync", "done")
    /\ Returns(p, "ok")
    /\ UNCHANGED <<files, serial, locals, faults, crashes>>

SyncDirectory(p) ==
    /\ Go(p, "dirsync", "done")
    /\ \/ Returns(p, "ok") /\ durable' = dir /\ UNCHANGED faults
       \/ Returns(p, "committed") /\ Fault /\ UNCHANGED durable
    /\ UNCHANGED <<dir, inodes, serial, locals, crashes>>

\* The machine stops.  Calls that were running are lost; the ones that had
\* returned stay returned.
Crash ==
    /\ crashes < CrashBound
    /\ crashes' = crashes + 1
    /\ \E lost \in SUBSET (DOMAIN dir \cup DOMAIN durable) :
          dir' = [n \in (DOMAIN dir \ lost) \cup (DOMAIN durable \cap lost) |->
                     IF n \in lost THEN durable[n] ELSE dir[n]]
    /\ durable' = dir'
    /\ \E c \in [DOMAIN inodes -> Contents] :
          /\ \A i \in DOMAIN inodes :
                inodes[i].disk = "all" \/ (\A n \in DOMAIN dir' : dir'[n] # i) => c[i] = inodes[i].disk
          /\ inodes' = [i \in DOMAIN inodes |-> [mem |-> c[i], disk |-> c[i]]]
    /\ pc' = [p \in Publishers |-> IF pc[p] = "done" THEN "done" ELSE "lost"]
    /\ serial' = 1
    /\ UNCHANGED <<locals, result, faults>>

\* The program is run again.
Restart(p) ==
    /\ Go(p, "lost", "check")
    /\ tries' = [tries EXCEPT ![p] = 0]
    /\ temp' = [temp EXCEPT ![p] = Dest]
    /\ ino' = [ino EXCEPT ![p] = 0]
    /\ UNCHANGED <<files, serial, result, faults, crashes>>

Step(p) ==
    \/ Check(p) \/ Open(p) \/ WriteAll(p) \/ SyncAll(p) \/ FailBeforeCommit(p)
    \/ Link(p) \/ RemoveTemporary(p) \/ SyncDirectory(p) \/ Restart(p)

Next == (\E p \in Publishers : Step(p)) \/ Crash

Spec == Init /\ [][Next]_vars

-----------------------------------------------------------------------------
Results == {"none", "ok", "exists", "io", "committed"}
Steps == {"check", "open", "write", "sync", "link", "unlink", "dirsync", "done", "lost"}
Holding == {"write", "sync", "link", "unlink", "dirsync"}
Inode == [mem : Contents, disk : Contents]

\* Both directories name inodes that exist, and a call that holds a temporary
\* file holds it under a name that is not the destination's.
TypeOK ==
    /\ DOMAIN dir \subseteq Nat /\ DOMAIN durable \subseteq Nat
    /\ inodes \in Seq(Inode)
    /\ \A n \in DOMAIN dir : dir[n] \in 1 .. Len(inodes)
    /\ \A n \in DOMAIN durable : durable[n] \in 1 .. Len(inodes)
    /\ serial \in Nat \ {0}
    /\ pc \in [Publishers -> Steps]
    /\ result \in [Publishers -> Results]
    /\ tries \in [Publishers -> Nat] /\ temp \in [Publishers -> Nat]
    /\ ino \in [Publishers -> 0 .. Len(inodes)]
    /\ \A p \in Publishers : pc[p] \in Holding => temp[p] # Dest /\ ino[p] # 0

\* What is at the destination, before or after a crash, is a whole report.
WholeOrNothing == Dest \in DOMAIN dir => inodes[dir[Dest]].mem = "all"

\* A destination that exists is never replaced, and disappears only in a crash
\* that nobody was told it survives.
NoClobber ==
    [][(Dest \in DOMAIN dir) =>
          (IF Dest \in DOMAIN dir' THEN dir'[Dest] = dir[Dest] ELSE crashes' > crashes)]_vars

\* Whoever was told that the publication is durable finds it, after any crash.
OkDurable ==
    \A p \in Publishers : result[p] = "ok" => Dest \in DOMAIN dir /\ dir[Dest] = ino[p]

\* An error that does not say the output was committed means that this call
\* published nothing.
HonestErrors ==
    \A p \in Publishers :
        result[p] \in {"exists", "io"} /\ ino[p] # 0 => ~(Dest \in DOMAIN dir /\ dir[Dest] = ino[p])

\* What write_new answers is true of the disk, now and after a crash: what is at the
\* destination is whole, Ok means it is there to stay, and an error that does not say
\* "committed" means that this call put nothing there.
PublicationSound == WholeOrNothing /\ OkDurable /\ HonestErrors
=============================================================================
