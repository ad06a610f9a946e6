----------------------------- MODULE MCPublish -----------------------------
(***************************************************************************)
(* What is written once and then only read: a behaviour is one of          *)
(* publishing a file (two threads race; one system call fails and the      *)
(* machine crashes twice) or of an MRT archive on disk and its readers,    *)
(* while the source may change once.                                       *)
(***************************************************************************)
EXTENDS Publish, MrtStore

CONSTANTS
    t1, t2

VARIABLE part

MCPublishers == {t1, t2}

R(c, p) == [class |-> c, peer |-> p]
MCSources ==
    {<<>>, <<R("peers", 1), R("rib", 1)>>, <<R("peers", 2), R("other", 0), R("rib", 1)>>,
     <<R("other", 0), R("peers", 2), R("rib", 2)>>,
     <<R("peers", 1), R("series", 0), R("rib", 1)>>,
     <<R("peers", 1), R("other", 0), R("other", 0)>>,
     <<R("peers", 1), R("rib", 2)>>, <<R("bad", 0)>>}

MCInit ==
    /\ part \in {"publish", "store"}
    /\ Init
    /\ StoreInit
    /\ part = "publish" => input = <<>> /\ ~store.exists
    /\ part = "store" => Dest \notin DOMAIN dir

MCNext ==
    \/ part = "publish" /\ Next /\ UNCHANGED <<part, storeVars>>
    \/ part = "store" /\ StoreNext /\ UNCHANGED <<part, vars>>

MCSpec == MCInit /\ [][MCNext]_<<part, vars, storeVars>>
=============================================================================
