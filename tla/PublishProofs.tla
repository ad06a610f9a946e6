--------------------------- MODULE PublishProofs ---------------------------
(***************************************************************************)
(* Proofs about write_new for any number of threads, temporary names,      *)
(* failing calls and crashes.                                              *)
(***************************************************************************)
EXTENDS Publish, SequenceTheorems, TLAPS

Whole(i) == inodes[i].mem = "all" /\ inodes[i].disk = "all"
At(d, i) == Dest \in DOMAIN d /\ d[Dest] = i

(***************************************************************************)
(* The inductive invariant.  A report is written and synced before it is   *)
(* linked (Progress), so whatever the destination names, now or after a    *)
(* crash, is whole (DestWhole).  The destination never changes while it    *)
(* exists, so what is durable there is what is seen there (DurableSeen),   *)
(* and what a call has linked is still there when it syncs the directory   *)
(* (Linked).  Inodes of different calls differ (Own), so a call that has   *)
(* not linked its own does not find it at the destination (Unlinked).      *)
(***************************************************************************)
Progress ==
    \A p \in Publishers :
        /\ pc[p] = "sync" => inodes[ino[p]].mem = "all"
        /\ pc[p] \in {"link", "unlink", "dirsync"} => Whole(ino[p])

DestWhole ==
    /\ Dest \in DOMAIN dir => Whole(dir[Dest])
    /\ Dest \in DOMAIN durable => Whole(durable[Dest])

DurableSeen == Dest \in DOMAIN durable => At(dir, durable[Dest])

Linked == \A p \in Publishers : pc[p] \in {"unlink", "dirsync"} => At(dir, ino[p])

OkHeld == \A p \in Publishers : result[p] = "ok" => At(durable, ino[p])

Own == \A p, q \in Publishers : p # q /\ ino[p] # 0 => ino[p] # ino[q]

Unlinked ==
    \A p \in Publishers :
        \/ pc[p] \in {"write", "sync", "link"}
        \/ result[p] \in {"exists", "io"} /\ ino[p] # 0
        => ~At(dir, ino[p])

Unreturned ==
    \A p \in Publishers :
        /\ pc[p] # "done" => result[p] = "none"
        /\ pc[p] \in {"check", "open"} => ino[p] = 0

PublishInv ==
    /\ TypeOK /\ Progress /\ DestWhole /\ DurableSeen /\ Linked /\ OkHeld /\ Own
    /\ Unlinked /\ Unreturned

LEMMA InitInv == Init => PublishInv
<1> SUFFICES ASSUME Init PROVE PublishInv
  OBVIOUS
<1>1. inodes \in Seq(Inode) /\ Len(inodes) = 1 /\ Whole(1)
  BY DEF Init, Inode, Contents, Whole
<1>2. /\ DOMAIN dir \subseteq {Dest} /\ \A n \in DOMAIN dir : dir[n] = 1
      /\ durable = dir
  BY DEF Init
<1>3. TypeOK
  BY <1>1, <1>2 DEF Init, TypeOK, Steps, Results, Holding, Dest
<1> QED
  BY <1>1, <1>2, <1>3 DEF Init, PublishInv, Progress, DestWhole, DurableSeen, Linked, OkHeld,
       Own, Unlinked, Unreturned, At

\* A step that moves one call and leaves the files alone keeps what is said of
\* the others.
LEMMA CheckInv == ASSUME PublishInv, NEW p \in Publishers, Check(p) PROVE PublishInv'
<1> USE DEF PublishInv
<1>1. TypeOK'
  BY DEF Check, TypeOK, Go, Returns, Fault, files, locals, Steps, Results, Holding
<1>2. UNCHANGED <<dir, durable, inodes, ino>>
  BY DEF Check, files, locals
<1>3. \A q \in Publishers : q # p => pc'[q] = pc[q] /\ result'[q] = result[q]
  BY DEF Check, TypeOK, Go, Returns
<1>4. /\ ino[p] = 0 /\ result[p] = "none"
      /\ pc'[p] \in {"open", "done"}
      /\ pc'[p] = "open" => result'[p] = result[p]
      /\ result'[p] # "ok"
  BY DEF Check, TypeOK, Go, Returns, Unreturned
<1>5. (Progress /\ Linked)'
  BY <1>2, <1>3, <1>4 DEF Progress, Linked, Whole, At
<1>6. (DestWhole /\ DurableSeen /\ Own)'
  BY <1>2 DEF DestWhole, DurableSeen, Own, Whole, At
<1>7. OkHeld'
  BY <1>2, <1>3, <1>4 DEF OkHeld, At
<1>8. Unlinked'
  BY <1>2, <1>3, <1>4 DEF Unlinked, At
<1>9. Unreturned'
  BY <1>2, <1>3, <1>4 DEF Unreturned
<1> QED BY <1>1, <1>5, <1>6, <1>7, <1>8, <1>9

LEMMA OpenInv == ASSUME PublishInv, NEW p \in Publishers, Open(p) PROVE PublishInv'
<1> USE DEF PublishInv
<1>0. ino[p] = 0 /\ result[p] = "none" /\ pc[p] = "open"
  BY DEF Open, Go, Unreturned
<1>1. CASE UNCHANGED <<dir, durable, inodes, ino>> /\ pc'[p] \in {"open", "done"}
  <2>0. /\ temp' = temp /\ serial' = serial + 1
        /\ tries' \in {tries, [tries EXCEPT ![p] = @ + 1]}
        /\ pc' = [pc EXCEPT ![p] = pc'[p]]
        /\ result' \in [Publishers -> Results]
    BY <1>1 DEF Open, TypeOK, Go, Returns, locals, Results
  <2>1. TypeOK'
    <3>1. /\ pc' \in [Publishers -> Steps] /\ tries' \in [Publishers -> Nat]
          /\ serial' \in Nat \ {0}
      <4>1. tries \in [Publishers -> Nat] /\ serial \in Nat
        BY DEF TypeOK
      <4>2. [tries EXCEPT ![p] = @ + 1] \in [Publishers -> Nat]
        BY <4>1
      <4>3. pc' \in [Publishers -> Steps]
        BY <1>1, <2>0 DEF TypeOK, Steps
      <4> QED BY <2>0, <4>1, <4>2, <4>3
    <3>2. \A q \in Publishers : pc'[q] \in Holding => pc[q] \in Holding
      BY <1>1, <2>0 DEF TypeOK, Holding
    <3> QED BY <1>1, <2>0, <3>1, <3>2 DEF TypeOK
  <2>2. \A q \in Publishers : q # p => pc'[q] = pc[q] /\ result'[q] = result[q]
    BY <1>1 DEF Open, TypeOK, Go, Returns
  <2>3. result'[p] # "ok" /\ (pc'[p] = "open" => result'[p] = "none")
    BY <1>0, <1>1 DEF Open, TypeOK, Go, Returns
  <2>4. (Progress /\ Linked)'
    BY <1>1, <2>2 DEF Progress, Linked, Whole, At
  <2>5. (DestWhole /\ DurableSeen /\ Own)'
    BY <1>1 DEF DestWhole, DurableSeen, Own, Whole, At
  <2>6. (OkHeld /\ Unlinked /\ Unreturned)'
    BY <1>0, <1>1, <2>2, <2>3 DEF OkHeld, Unlinked, Unreturned, At
  <2> QED BY <2>1, <2>4, <2>5, <2>6
<1>2. CASE /\ serial \notin DOMAIN dir
           /\ Go(p, "open", "write")
           /\ inodes' = Append(inodes, [mem |-> "none", disk |-> "none"])
           /\ dir' = With(dir, serial, Len(inodes) + 1)
           /\ temp' = [temp EXCEPT ![p] = serial]
           /\ ino' = [ino EXCEPT ![p] = Len(inodes) + 1]
           /\ UNCHANGED <<durable, tries, result, faults>>
           /\ serial' = serial + 1
  <2>1. inodes \in Seq(Inode) /\ [mem |-> "none", disk |-> "none"] \in Inode
    BY DEF TypeOK, Inode, Contents
  <2>2. /\ inodes' \in Seq(Inode) /\ Len(inodes') = Len(inodes) + 1
        /\ \A i \in 1 .. Len(inodes) : inodes'[i] = inodes[i]
    BY <1>2, <2>1
  <2>3. /\ DOMAIN dir' = DOMAIN dir \cup {serial}
        /\ dir'[serial] = Len(inodes) + 1
        /\ \A n \in DOMAIN dir : dir'[n] = dir[n]
    BY <1>2 DEF With
  <2>4. /\ pc'[p] = "write" /\ result'[p] = "none" /\ ino'[p] = Len(inodes) + 1
        /\ \A q \in Publishers : q # p =>
              pc'[q] = pc[q] /\ result'[q] = result[q] /\ ino'[q] = ino[q]
    BY <1>0, <1>2 DEF TypeOK, Go
  <2>5. Len(inodes) \in Nat /\ serial # Dest
    BY <2>1 DEF TypeOK, Dest
  <2>6. TypeOK'
    <3>1. /\ pc' \in [Publishers -> Steps] /\ temp' \in [Publishers -> Nat]
          /\ ino' \in [Publishers -> 0 .. Len(inodes')]
          /\ result' = result /\ tries' = tries /\ serial' \in Nat \ {0}
      BY <1>2, <2>2, <2>5 DEF TypeOK, Go, Steps
    <3>2. \A n \in DOMAIN dir' : n \in Nat /\ dir'[n] \in 1 .. Len(inodes')
      BY <2>2, <2>3, <2>5 DEF TypeOK
    <3>3. \A n \in DOMAIN durable' : n \in Nat /\ durable'[n] \in 1 .. Len(inodes')
      BY <1>2, <2>2, <2>5 DEF TypeOK
    <3>4. \A q \in Publishers : pc'[q] \in Holding => temp'[q] # Dest /\ ino'[q] # 0
      BY <1>2, <2>4, <2>5 DEF TypeOK
    <3> QED BY <2>2, <3>1, <3>2, <3>3, <3>4 DEF TypeOK
  <2>7. /\ Dest \in DOMAIN dir' <=> Dest \in DOMAIN dir
        /\ Dest \in DOMAIN dir => dir'[Dest] = dir[Dest] /\ dir[Dest] \in 1 .. Len(inodes)
        /\ durable' = durable
        /\ Dest \in DOMAIN durable => durable[Dest] \in 1 .. Len(inodes)
    BY <1>2, <2>3, <2>5 DEF TypeOK
  <2>8. \A q \in Publishers : ino[q] \in 0 .. Len(inodes)
    BY DEF TypeOK
  <2>9. Progress'
    <3>1. \A q \in Publishers : pc[q] \in Holding => ino[q] \in 1 .. Len(inodes)
      BY <2>5, <2>8 DEF TypeOK
    <3> QED BY <2>2, <2>4, <3>1 DEF Progress, Whole, Holding
  <2>10. (DestWhole /\ DurableSeen)'
    BY <2>2, <2>7 DEF DestWhole, DurableSeen, Whole, At
  <2>11. (Linked /\ OkHeld)'
    BY <2>4, <2>7 DEF Linked, OkHeld, At
  <2>12. Own'
    BY <2>4, <2>5, <2>8 DEF Own
  <2>13. Unlinked'
    BY <2>4, <2>5, <2>7 DEF Unlinked, At
  <2>14. Unreturned'
    BY <2>4 DEF Unreturned
  <2> QED BY <2>6, <2>9, <2>10, <2>11, <2>12, <2>13, <2>14
<1> QED BY <1>0, <1>1, <1>2 DEF Open, Go, TypeOK, files, locals

\* A call that has not linked its inode does not find it at the destination,
\* so what it does to the inode does not reach what is there.
LEMMA DestElsewhere ==
    ASSUME PublishInv, NEW p \in Publishers, pc[p] \in {"write", "sync", "link"},
           \A i \in 1 .. Len(inodes) : i # ino[p] => inodes'[i] = inodes[i],
           durable' = durable,
           Dest \in DOMAIN dir' <=> Dest \in DOMAIN dir,
           Dest \in DOMAIN dir => dir'[Dest] = dir[Dest]
    PROVE  (DestWhole /\ DurableSeen)'
<1>1. ~At(dir, ino[p])
  BY DEF PublishInv, Unlinked
<1>2. Dest \in DOMAIN dir => inodes'[dir[Dest]] = inodes[dir[Dest]]
  BY <1>1 DEF PublishInv, TypeOK, At
<1>3. Dest \in DOMAIN durable => At(dir, durable[Dest])
  BY DEF PublishInv, DurableSeen
<1>4. Dest \in DOMAIN durable => inodes'[durable[Dest]] = inodes[durable[Dest]]
  BY <1>2, <1>3 DEF At
<1> QED BY <1>2, <1>3, <1>4 DEF PublishInv, DestWhole, DurableSeen, Whole, At

\* An update of one inode.
LEMMA InodeUpdated ==
    ASSUME inodes \in Seq(Inode), NEW i \in 1 .. Len(inodes), NEW v \in Inode,
           inodes' = [inodes EXCEPT ![i] = v]
    PROVE  /\ inodes' \in Seq(Inode) /\ Len(inodes') = Len(inodes)
           /\ inodes'[i] = v
           /\ \A j \in 1 .. Len(inodes) : j # i => inodes'[j] = inodes[j]
BY ExceptSeq

LEMMA WriteAllInv == ASSUME PublishInv, NEW p \in Publishers, WriteAll(p) PROVE PublishInv'
<1> USE DEF PublishInv
<1>1. /\ pc[p] = "write" /\ pc' = [pc EXCEPT ![p] = "sync"]
      /\ inodes' = [inodes EXCEPT ![ino[p]].mem = "all"]
      /\ UNCHANGED <<dir, durable, serial, tries, temp, ino, result>>
  BY DEF WriteAll, Go, locals
<1>2. ino[p] \in 1 .. Len(inodes) /\ inodes \in Seq(Inode)
  BY <1>1 DEF TypeOK, Holding
<1>3. /\ inodes' \in Seq(Inode) /\ Len(inodes') = Len(inodes)
      /\ inodes'[ino[p]].mem = "all"
      /\ \A i \in 1 .. Len(inodes) : i # ino[p] => inodes'[i] = inodes[i]
  <2> DEFINE v == [inodes[ino[p]] EXCEPT !.mem = "all"]
  <2>0. inodes[ino[p]] \in Inode
    BY <1>2
  <2>1. v \in Inode /\ v.mem = "all"
    BY <1>2, <2>0 DEF Inode, Contents
  <2>2. inodes' = [inodes EXCEPT ![ino[p]] = v]
    BY <1>1
  <2> QED BY <1>2, <2>1, <2>2, InodeUpdated
<1>4. TypeOK'
  BY <1>1, <1>3 DEF TypeOK, Steps, Holding
<1>5. \A q \in Publishers : q # p => pc'[q] = pc[q]
  BY <1>1 DEF TypeOK
<1>6. pc'[p] = "sync"
  BY <1>1 DEF TypeOK
<1>7. Progress'
  <2>1. \A q \in Publishers : q # p /\ pc[q] \in Holding => inodes'[ino[q]] = inodes[ino[q]]
    BY <1>2, <1>3 DEF Own, TypeOK, Holding
  <2> QED BY <1>1, <1>3, <1>5, <1>6, <2>1 DEF Progress, Whole, Holding
<1>8. (DestWhole /\ DurableSeen)'
  BY <1>1, <1>3, DestElsewhere
<1>9. (Linked /\ OkHeld /\ Own /\ Unlinked /\ Unreturned)'
  BY <1>1, <1>5, <1>6 DEF Linked, OkHeld, Own, Unlinked, Unreturned, At
<1> QED BY <1>4, <1>7, <1>8, <1>9

LEMMA SyncAllInv == ASSUME PublishInv, NEW p \in Publishers, SyncAll(p) PROVE PublishInv'
<1> USE DEF PublishInv
<1>1. /\ pc[p] = "sync" /\ pc' = [pc EXCEPT ![p] = "link"]
      /\ inodes' = [inodes EXCEPT ![ino[p]].disk = inodes[ino[p]].mem]
      /\ UNCHANGED <<dir, durable, serial, tries, temp, ino, result>>
  BY DEF SyncAll, Go, locals
<1>2. ino[p] \in 1 .. Len(inodes) /\ inodes \in Seq(Inode) /\ inodes[ino[p]].mem = "all"
  BY <1>1 DEF TypeOK, Holding, Progress
<1>3. /\ inodes' \in Seq(Inode) /\ Len(inodes') = Len(inodes)
      /\ inodes'[ino[p]].mem = "all" /\ inodes'[ino[p]].disk = "all"
      /\ \A i \in 1 .. Len(inodes) : i # ino[p] => inodes'[i] = inodes[i]
  <2> DEFINE v == [inodes[ino[p]] EXCEPT !.disk = inodes[ino[p]].mem]
  <2>0. inodes[ino[p]] \in Inode
    BY <1>2
  <2>1. v \in Inode /\ v.mem = "all" /\ v.disk = "all"
    BY <1>2, <2>0 DEF Inode, Contents
  <2>2. inodes' = [inodes EXCEPT ![ino[p]] = v]
    BY <1>1
  <2> QED BY <1>2, <2>1, <2>2, InodeUpdated
<1>4. TypeOK'
  BY <1>1, <1>3 DEF TypeOK, Steps, Holding
<1>5. \A q \in Publishers : q # p => pc'[q] = pc[q]
  BY <1>1 DEF TypeOK
<1>6. pc'[p] = "link"
  BY <1>1 DEF TypeOK
<1>7. Progress'
  <2>1. \A q \in Publishers : q # p /\ pc[q] \in Holding => inodes'[ino[q]] = inodes[ino[q]]
    BY <1>2, <1>3 DEF Own, TypeOK, Holding
  <2> QED BY <1>1, <1>3, <1>5, <1>6, <2>1 DEF Progress, Whole, Holding
<1>8. (DestWhole /\ DurableSeen)'
  BY <1>1, <1>3, DestElsewhere
<1>9. (Linked /\ OkHeld /\ Own /\ Unlinked /\ Unreturned)'
  BY <1>1, <1>5, <1>6 DEF Linked, OkHeld, Own, Unlinked, Unreturned, At
<1> QED BY <1>4, <1>7, <1>8, <1>9

\* Removing a temporary name never touches the destination.
LEMMA WithoutTemporary ==
    ASSUME TypeOK, NEW p \in Publishers, pc[p] \in Holding,
           dir' \in {dir, Without(dir, temp[p])}
    PROVE  /\ DOMAIN dir' \subseteq DOMAIN dir
           /\ \A n \in DOMAIN dir' : dir'[n] = dir[n]
           /\ Dest \in DOMAIN dir => Dest \in DOMAIN dir'
BY DEF TypeOK, Without, Dest

LEMMA FailInv ==
    ASSUME PublishInv, NEW p \in Publishers, FailBeforeCommit(p) PROVE PublishInv'
<1> USE DEF PublishInv
<1>1. /\ pc[p] \in {"write", "sync", "link"}
      /\ pc' = [pc EXCEPT ![p] = "done"] /\ result' = [result EXCEPT ![p] = "io"]
      /\ inodes' \in {inodes, [inodes EXCEPT ![ino[p]].mem = IF pc[p] = "write" THEN "some" ELSE @]}
      /\ dir' \in {dir, Without(dir, temp[p])}
      /\ UNCHANGED <<durable, serial, tries, temp, ino>>
  BY DEF FailBeforeCommit, Returns, locals
<1>2. ino[p] \in 1 .. Len(inodes) /\ inodes \in Seq(Inode) /\ pc[p] \in Holding
  BY <1>1 DEF TypeOK, Holding
<1>3. /\ inodes' \in Seq(Inode) /\ Len(inodes') = Len(inodes)
      /\ \A i \in 1 .. Len(inodes) : i # ino[p] => inodes'[i] = inodes[i]
  <2> DEFINE v == [inodes[ino[p]] EXCEPT !.mem = IF pc[p] = "write" THEN "some" ELSE @]
  <2>1. inodes[ino[p]] \in Inode
    BY <1>2
  <2>2. v \in Inode
    BY <2>1 DEF Inode, Contents
  <2>3. CASE inodes' = inodes
    BY <1>2, <2>3
  <2>4. CASE inodes' = [inodes EXCEPT ![ino[p]] = v]
    BY <1>2, <2>2, <2>4, InodeUpdated
  <2> QED BY <1>1, <2>3, <2>4
<1>4. /\ DOMAIN dir' \subseteq DOMAIN dir
      /\ \A n \in DOMAIN dir' : dir'[n] = dir[n]
      /\ Dest \in DOMAIN dir => Dest \in DOMAIN dir'
  BY <1>1, <1>2, WithoutTemporary
<1>5. \A q \in Publishers : q # p => pc'[q] = pc[q] /\ result'[q] = result[q]
  BY <1>1 DEF TypeOK
<1>6. pc'[p] = "done" /\ result'[p] = "io" /\ ~At(dir, ino[p])
  BY <1>1 DEF TypeOK, Unlinked
<1>7. TypeOK'
  <2>1. pc' \in [Publishers -> Steps] /\ result' \in [Publishers -> Results]
    BY <1>1 DEF TypeOK, Steps, Results
  <2>2. \A q \in Publishers : pc'[q] \in Holding => pc[q] \in Holding
    BY <1>5, <1>6 DEF Holding
  <2> QED BY <1>1, <1>3, <1>4, <2>1, <2>2 DEF TypeOK
<1>8. Progress'
  <2>1. \A q \in Publishers : q # p /\ pc[q] \in Holding => inodes'[ino[q]] = inodes[ino[q]]
    BY <1>2, <1>3 DEF Own, TypeOK, Holding
  <2> QED BY <1>1, <1>3, <1>5, <1>6, <2>1 DEF Progress, Whole, Holding
<1>9. (DestWhole /\ DurableSeen)'
  BY <1>1, <1>3, <1>4, DestElsewhere
<1>10. (Linked /\ OkHeld /\ Own /\ Unlinked /\ Unreturned)'
  BY <1>1, <1>4, <1>5, <1>6 DEF Linked, OkHeld, Own, Unlinked, Unreturned, At
<1> QED BY <1>7, <1>8, <1>9, <1>10

LEMMA LinkInv == ASSUME PublishInv, NEW p \in Publishers, Link(p) PROVE PublishInv'
<1> USE DEF PublishInv
<1>1. /\ pc[p] = "link" /\ pc[p] \in Holding
      /\ UNCHANGED <<durable, inodes, serial, tries, temp, ino>>
  BY DEF Link, Go, locals, Holding
<1>2. /\ Whole(ino[p]) /\ ~At(dir, ino[p]) /\ ino[p] \in 1 .. Len(inodes)
      /\ result[p] = "none"
  BY <1>1 DEF Progress, Unlinked, TypeOK, Holding, Unreturned
<1>3. CASE Dest \in DOMAIN dir
  <2>1. /\ pc' = [pc EXCEPT ![p] = "done"] /\ result' = [result EXCEPT ![p] = "exists"]
        /\ dir' \in {dir, Without(dir, temp[p])}
    BY <1>3 DEF Link, Go, Returns, DropTemporary
  <2>2. /\ DOMAIN dir' \subseteq DOMAIN dir
        /\ \A n \in DOMAIN dir' : dir'[n] = dir[n]
        /\ Dest \in DOMAIN dir'
    BY <1>1, <1>3, <2>1, WithoutTemporary
  <2>3. \A q \in Publishers : q # p => pc'[q] = pc[q] /\ result'[q] = result[q]
    BY <2>1 DEF TypeOK
  <2>4. pc'[p] = "done" /\ result'[p] = "exists"
    BY <2>1 DEF TypeOK
  <2>5. TypeOK'
    <3>1. pc' \in [Publishers -> Steps] /\ result' \in [Publishers -> Results]
      BY <2>1 DEF TypeOK, Steps, Results
    <3>2. \A q \in Publishers : pc'[q] \in Holding => pc[q] \in Holding
      BY <2>3, <2>4 DEF Holding
    <3> QED BY <1>1, <2>2, <3>1, <3>2 DEF TypeOK
  <2>6. (Progress /\ DestWhole /\ DurableSeen /\ Linked)'
    BY <1>1, <2>2, <2>3, <2>4 DEF Progress, DestWhole, DurableSeen, Linked, Whole, At
  <2>7. (OkHeld /\ Own /\ Unlinked /\ Unreturned)'
    BY <1>1, <1>2, <2>2, <2>3, <2>4 DEF OkHeld, Own, Unlinked, Unreturned, At
  <2> QED BY <2>5, <2>6, <2>7
<1>4. CASE Dest \notin DOMAIN dir
  <2>1. /\ pc' = [pc EXCEPT ![p] = "unlink"] /\ result' = result
        /\ dir' = With(dir, Dest, ino[p])
    BY <1>4 DEF Link, Go
  <2>2. /\ DOMAIN dir' = DOMAIN dir \cup {Dest} /\ dir'[Dest] = ino[p]
        /\ \A n \in DOMAIN dir : dir'[n] = dir[n]
    BY <1>4, <2>1 DEF With
  <2>3. \A q \in Publishers : q # p => pc'[q] = pc[q]
    BY <2>1 DEF TypeOK
  <2>4. pc'[p] = "unlink"
    BY <2>1 DEF TypeOK
  <2>5. TypeOK'
    <3>1. pc' \in [Publishers -> Steps]
      BY <2>1 DEF TypeOK, Steps
    <3>2. \A q \in Publishers : pc'[q] \in Holding => pc[q] \in Holding
      BY <1>1, <2>3, <2>4 DEF Holding
    <3>3. \A n \in DOMAIN dir' : n \in Nat /\ dir'[n] \in 1 .. Len(inodes)
      BY <1>2, <2>2 DEF TypeOK, Dest
    <3> QED BY <1>1, <2>1, <3>1, <3>2, <3>3 DEF TypeOK
  <2>6. Dest \notin DOMAIN durable
    BY <1>4 DEF DurableSeen, At
  <2>7. (Progress /\ DestWhole /\ DurableSeen)'
    BY <1>1, <1>2, <2>2, <2>3, <2>4, <2>6 DEF Progress, DestWhole, DurableSeen, Whole, At
  <2>8. Linked'
    BY <1>1, <1>4, <2>2, <2>3, <2>4 DEF Linked, At
  <2>9. (OkHeld /\ Own /\ Unreturned)'
    BY <1>1, <1>2, <2>1, <2>3, <2>4 DEF OkHeld, Own, Unreturned, At
  <2>10. Unlinked'
    <3>1. \A q \in Publishers : q # p => ino[q] # ino[p]
      BY <1>2 DEF Own
    <3> QED BY <1>1, <1>2, <2>1, <2>2, <2>3, <2>4, <3>1 DEF Unlinked, At
  <2> QED BY <2>5, <2>7, <2>8, <2>9, <2>10
<1> QED BY <1>3, <1>4

LEMMA RemoveTemporaryInv ==
    ASSUME PublishInv, NEW p \in Publishers, RemoveTemporary(p) PROVE PublishInv'
<1> USE DEF PublishInv
<1>1. /\ pc[p] = "unlink" /\ pc[p] \in Holding
      /\ dir' \in {dir, Without(dir, temp[p])}
      /\ UNCHANGED <<durable, inodes, serial, tries, temp, ino>>
  BY DEF RemoveTemporary, Go, locals, Holding
<1>2. \/ pc' = [pc EXCEPT ![p] = "dirsync"] /\ result' = result
      \/ pc' = [pc EXCEPT ![p] = "done"] /\ result' = [result EXCEPT ![p] = "committed"]
  BY DEF RemoveTemporary, Go, Returns
<1>3. /\ DOMAIN dir' \subseteq DOMAIN dir
      /\ \A n \in DOMAIN dir' : dir'[n] = dir[n]
      /\ Dest \in DOMAIN dir => Dest \in DOMAIN dir'
  BY <1>1, WithoutTemporary
<1>4. \A q \in Publishers : q # p => pc'[q] = pc[q] /\ result'[q] = result[q]
  BY <1>2 DEF TypeOK
<1>5. /\ pc'[p] \in {"dirsync", "done"} /\ result'[p] \in {"none", "committed"}
      /\ pc'[p] = "dirsync" => result'[p] = "none"
  BY <1>1, <1>2 DEF TypeOK, Unreturned
<1>6. TypeOK'
  <2>1. pc' \in [Publishers -> Steps] /\ result' \in [Publishers -> Results]
    BY <1>2 DEF TypeOK, Steps, Results
  <2>2. \A q \in Publishers : pc'[q] \in Holding => pc[q] \in Holding
    BY <1>1, <1>4, <1>5 DEF Holding
  <2> QED BY <1>1, <1>3, <2>1, <2>2 DEF TypeOK
<1>7. (Progress /\ DestWhole /\ DurableSeen /\ Linked)'
  BY <1>1, <1>3, <1>4, <1>5 DEF Progress, DestWhole, DurableSeen, Linked, Whole, At
<1>8. (OkHeld /\ Own /\ Unlinked /\ Unreturned)'
  BY <1>1, <1>3, <1>4, <1>5 DEF OkHeld, Own, Unlinked, Unreturned, At
<1> QED BY <1>6, <1>7, <1>8

LEMMA SyncDirectoryInv ==
    ASSUME PublishInv, NEW p \in Publishers, SyncDirectory(p) PROVE PublishInv'
<1> USE DEF PublishInv
<1>1. /\ pc[p] = "dirsync" /\ pc' = [pc EXCEPT ![p] = "done"]
      /\ UNCHANGED <<dir, inodes, serial, tries, temp, ino>>
      /\ \/ durable' = dir /\ result' = [result EXCEPT ![p] = "ok"]
         \/ durable' = durable /\ result' = [result EXCEPT ![p] = "committed"]
  BY DEF SyncDirectory, Go, Returns, locals
<1>2. At(dir, ino[p])
  BY <1>1 DEF Linked
<1>3. \A q \in Publishers : q # p => pc'[q] = pc[q] /\ result'[q] = result[q]
  BY <1>1 DEF TypeOK
<1>4. /\ pc'[p] = "done" /\ result'[p] \in {"ok", "committed"}
      /\ result'[p] = "ok" => durable' = dir
  BY <1>1 DEF TypeOK
<1>5. TypeOK'
  <2>1. pc' \in [Publishers -> Steps] /\ result' \in [Publishers -> Results]
    BY <1>1 DEF TypeOK, Steps, Results
  <2>2. \A q \in Publishers : pc'[q] \in Holding => pc[q] \in Holding
    BY <1>3, <1>4 DEF Holding
  <2> QED BY <1>1, <2>1, <2>2 DEF TypeOK
<1>6. (Progress /\ DestWhole /\ DurableSeen /\ Linked)'
  BY <1>1, <1>3, <1>4 DEF Progress, DestWhole, DurableSeen, Linked, Whole, At
<1>7. OkHeld'
  BY <1>1, <1>2, <1>3, <1>4 DEF OkHeld, DurableSeen, At
<1>8. (Own /\ Unlinked /\ Unreturned)'
  BY <1>1, <1>3, <1>4 DEF Own, Unlinked, Unreturned, At
<1> QED BY <1>5, <1>6, <1>7, <1>8

LEMMA RestartInv == ASSUME PublishInv, NEW p \in Publishers, Restart(p) PROVE PublishInv'
<1> USE DEF PublishInv
<1>1. /\ pc[p] = "lost" /\ pc' = [pc EXCEPT ![p] = "check"]
      /\ ino' = [ino EXCEPT ![p] = 0]
      /\ tries' = [tries EXCEPT ![p] = 0] /\ temp' = [temp EXCEPT ![p] = Dest]
      /\ UNCHANGED <<dir, durable, inodes, serial, result>>
  BY DEF Restart, Go, files
<1>2. \A q \in Publishers : q # p => pc'[q] = pc[q] /\ ino'[q] = ino[q] /\ temp'[q] = temp[q]
  BY <1>1 DEF TypeOK
<1>3. pc'[p] = "check" /\ ino'[p] = 0 /\ result[p] = "none"
  BY <1>1 DEF TypeOK, Unreturned
<1>4. TypeOK'
  <2>1. /\ pc' \in [Publishers -> Steps] /\ ino' \in [Publishers -> 0 .. Len(inodes)]
        /\ tries' \in [Publishers -> Nat] /\ temp' \in [Publishers -> Nat]
    BY <1>1 DEF TypeOK, Steps, Dest
  <2> QED BY <1>1, <1>2, <1>3, <2>1 DEF TypeOK, Holding
<1>5. (Progress /\ DestWhole /\ DurableSeen /\ Linked)'
  BY SMTT(60), <1>1, <1>2, <1>3 DEF Progress, DestWhole, DurableSeen, Linked, Whole, At
<1>6. (OkHeld /\ Own /\ Unlinked /\ Unreturned)'
  BY <1>1, <1>2, <1>3 DEF OkHeld, Own, Unlinked, Unreturned, At
<1> QED BY <1>4, <1>5, <1>6

\* After a crash the destination holds what it held before, or nothing; and if
\* it was durable it holds that.
LEMMA CrashDest ==
    ASSUME PublishInv, Crash
    PROVE  /\ Dest \in DOMAIN dir' => At(dir, dir'[Dest])
           /\ Dest \in DOMAIN durable => At(dir', durable[Dest])
           /\ \A n \in DOMAIN dir' : n \in Nat /\ dir'[n] \in 1 .. Len(inodes)
           /\ durable' = dir'
<1>1. PICK lost \in SUBSET (DOMAIN dir \cup DOMAIN durable) :
        dir' = [n \in (DOMAIN dir \ lost) \cup (DOMAIN durable \cap lost) |->
                   IF n \in lost THEN durable[n] ELSE dir[n]]
  BY DEF Crash
<1>2. durable' = dir'
  BY DEF Crash
<1>3. Dest \in DOMAIN durable => Dest \in DOMAIN dir /\ dir[Dest] = durable[Dest]
  BY DEF PublishInv, DurableSeen, At
<1>4. \A n \in DOMAIN dir' : n \in Nat /\ dir'[n] \in 1 .. Len(inodes)
  BY <1>1 DEF PublishInv, TypeOK
<1> QED BY <1>1, <1>2, <1>3, <1>4 DEF At

\* A whole inode comes through a crash whole.
LEMMA CrashInodes ==
    ASSUME PublishInv, Crash
    PROVE  /\ inodes' \in Seq(Inode) /\ Len(inodes') = Len(inodes)
           /\ \A i \in 1 .. Len(inodes) : Whole(i) => Whole(i)'
<1>1. PICK c \in [DOMAIN inodes -> Contents] :
        /\ \A i \in DOMAIN inodes :
              inodes[i].disk = "all" \/ (\A n \in DOMAIN dir' : dir'[n] # i) => c[i] = inodes[i].disk
        /\ inodes' = [i \in DOMAIN inodes |-> [mem |-> c[i], disk |-> c[i]]]
  BY DEF Crash
<1>2. inodes \in Seq(Inode) /\ DOMAIN inodes = 1 .. Len(inodes) /\ Len(inodes) \in Nat
  BY DEF PublishInv, TypeOK
<1>3. \A i \in 1 .. Len(inodes) : [mem |-> c[i], disk |-> c[i]] \in Inode
  BY <1>2 DEF Inode
<1>4. inodes' \in Seq(Inode) /\ Len(inodes') = Len(inodes)
  BY <1>1, <1>2, <1>3
<1>5. \A i \in 1 .. Len(inodes) : Whole(i) => Whole(i)'
  BY <1>1, <1>2 DEF Whole
<1> QED BY <1>4, <1>5

LEMMA CrashInv == ASSUME PublishInv, Crash PROVE PublishInv'
<1> USE DEF PublishInv
<1>1. /\ pc' = [p \in Publishers |-> IF pc[p] = "done" THEN "done" ELSE "lost"]
      /\ serial' = 1
      /\ UNCHANGED <<tries, temp, ino, result>>
  BY DEF Crash, locals
<1>2. TypeOK'
  <2>1. pc' \in [Publishers -> Steps]
    BY <1>1 DEF Steps
  <2>2. \A p \in Publishers : pc'[p] \notin Holding
    BY <1>1 DEF Holding
  <2> QED BY <1>1, <2>1, <2>2, CrashDest, CrashInodes DEF TypeOK
<1>3. (Progress /\ Linked /\ Own /\ Unreturned)'
  BY <1>1 DEF Progress, Linked, Own, Unreturned
<1>4. (DestWhole /\ DurableSeen)'
  <2>1. Dest \in DOMAIN dir' => Whole(dir'[Dest])
    BY CrashDest DEF At, DestWhole
  <2>2. Dest \in DOMAIN dir' => dir'[Dest] \in 1 .. Len(inodes)
    BY CrashDest
  <2>3. Dest \in DOMAIN dir' =>
            inodes'[dir'[Dest]].mem = "all" /\ inodes'[dir'[Dest]].disk = "all"
    BY <2>1, <2>2, CrashInodes DEF Whole
  <2> QED BY <2>3, CrashDest DEF DestWhole, DurableSeen, Whole, At
<1>5. OkHeld'
  BY <1>1, CrashDest DEF OkHeld, At
<1>6. Unlinked'
  BY <1>1, CrashDest DEF Unlinked, At
<1> QED BY <1>2, <1>3, <1>4, <1>5, <1>6

LEMMA StepInv == PublishInv /\ [Next]_vars => PublishInv'
<1> SUFFICES ASSUME PublishInv, [Next]_vars PROVE PublishInv'
  OBVIOUS
<1>1. ASSUME NEW p \in Publishers, Step(p) PROVE PublishInv'
  BY <1>1, CheckInv, OpenInv, WriteAllInv, SyncAllInv, FailInv, LinkInv, RemoveTemporaryInv,
     SyncDirectoryInv, RestartInv DEF Step
<1>2. CASE Crash
  BY <1>2, CrashInv
<1>3. CASE UNCHANGED vars
  BY <1>3 DEF vars, PublishInv, TypeOK, Progress, DestWhole, DurableSeen, Linked, OkHeld, Own,
       Unlinked, Unreturned, Whole, At
<1> QED BY <1>1, <1>2, <1>3 DEF Next

LEMMA InvHolds == Spec => []PublishInv
BY InitInv, StepInv, PTL DEF Spec

\* Every name in both directories is that of an inode, and no call works on the
\* destination's name as its temporary file, for any number of callers.
THEOREM TypeCorrect == Spec => []TypeOK
<1>1. PublishInv => TypeOK
  BY DEF PublishInv
<1> QED BY InvHolds, <1>1, PTL

\* The answers of write_new are true of the disk, whatever races, fails or crashes,
\* for any number of callers, faults and crashes.
THEOREM PublicationSoundThm == Spec => []PublicationSound
<1>1. PublishInv => PublicationSound
  <2>1. PublishInv => WholeOrNothing
    BY DEF PublishInv, DestWhole, Whole, WholeOrNothing
  <2>2. PublishInv => OkDurable
    BY DEF PublishInv, OkHeld, DurableSeen, At, OkDurable
  <2>3. PublishInv => HonestErrors
    BY DEF PublishInv, Unlinked, At, HonestErrors
  <2> QED BY <2>1, <2>2, <2>3 DEF PublicationSound
<1> QED BY InvHolds, <1>1, PTL

LEMMA CrashesCounted == Spec => [](crashes \in Nat)
<1>1. Init => crashes \in Nat
  BY DEF Init
<1>2. crashes \in Nat /\ [Next]_vars => (crashes \in Nat)'
  <2> SUFFICES ASSUME crashes \in Nat, [Next]_vars PROVE crashes' \in Nat
    OBVIOUS
  <2>1. ASSUME NEW p \in Publishers, Step(p) PROVE crashes' = crashes
    BY <2>1 DEF Step, Check, Open, WriteAll, SyncAll, FailBeforeCommit, Link, RemoveTemporary,
         SyncDirectory, Restart
  <2>2. CASE Crash
    BY <2>2 DEF Crash
  <2> QED BY <2>1, <2>2 DEF Next, vars
<1> QED BY <1>1, <1>2, PTL DEF Spec

\* No step of write_new replaces or removes an existing destination.
THEOREM NoClobberThm == Spec => NoClobber
<1> DEFINE Kept == (Dest \in DOMAIN dir) =>
              (IF Dest \in DOMAIN dir' THEN dir'[Dest] = dir[Dest] ELSE crashes' > crashes)
<1>1. PublishInv /\ crashes \in Nat /\ [Next]_vars => [Kept]_vars
  <2> SUFFICES ASSUME PublishInv, crashes \in Nat, Next PROVE Kept
    OBVIOUS
  <2>1. ASSUME NEW p \in Publishers, Step(p) PROVE Kept
    <3>1. CASE Check(p) \/ WriteAll(p) \/ SyncAll(p) \/ SyncDirectory(p) \/ Restart(p)
      BY <3>1 DEF Check, WriteAll, SyncAll, SyncDirectory, Restart, files
    <3>2. CASE Open(p)
      BY <3>2 DEF Open, With, files, PublishInv, TypeOK, Dest
    <3>3. CASE FailBeforeCommit(p) \/ RemoveTemporary(p)
      <4>1. pc[p] \in Holding /\ dir' \in {dir, Without(dir, temp[p])}
        BY <3>3 DEF FailBeforeCommit, RemoveTemporary, Go, Holding
      <4> QED BY <4>1, WithoutTemporary DEF PublishInv
    <3>4. CASE Link(p)
      <4>1. Dest \in DOMAIN dir => pc[p] \in Holding /\ dir' \in {dir, Without(dir, temp[p])}
        BY <3>4 DEF Link, Go, DropTemporary, Holding
      <4> QED BY <4>1, WithoutTemporary DEF PublishInv
    <3> QED BY <2>1, <3>1, <3>2, <3>3, <3>4 DEF Step
  <2>2. CASE Crash
    <3>1. crashes' > crashes
      BY <2>2 DEF Crash
    <3> QED BY <2>2, <3>1, CrashDest DEF At
  <2> QED BY <2>1, <2>2 DEF Next
<1> QED BY InvHolds, CrashesCounted, <1>1, PTL DEF Spec, NoClobber
=============================================================================
