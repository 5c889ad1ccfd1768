------------------------------- MODULE Launch -------------------------------
(***************************************************************************)
(* Daemons starting beside one another (server.rs run, net.rs bind, and    *)
(* the lock of Store::open_with_policy): one name for the socket, one lock *)
(* for the archive, and processes that may die anywhere.                   *)
(*                                                                         *)
(* A process binds before it asks for the lock.  The name of a socket      *)
(* outlives the process that bound it, the lock does not.  What a daemon   *)
(* does once it serves is reduced to the temporaries it has in the         *)
(* archive: Store has the rest.                                            *)
(***************************************************************************)
EXTENDS Integers

CONSTANTS
  Procs,       \* processes that may be started
  None,        \* no such file, or nobody holds the lock
  MaxStarts,   \* bound on the processes started
  MaxCrashes   \* bound on the processes that die

ASSUME LaunchAssumption ==
  /\ MaxStarts \in Nat /\ MaxCrashes \in Nat
  /\ None \notin Procs \cup {"manager", "stale", "file"}
  /\ Procs \cap {"manager", "stale", "file"} = {}

VARIABLES
  name,        \* what lies under the socket's name
  lock,        \* who holds daemon.lock, or None
  pc,          \* where each process is
  managed,     \* the processes the service manager gave its socket
  temporaries, \* the daemons with a transfer in blobs/incoming; None: left over
  starts, crashes,
  broken       \* history: one that held the archive has died or retired since

vars == <<name, lock, pc, managed, temporaries, starts, crashes, broken>>

Starting == {"bind", "probe", "unlink", "rebind", "listen", "permit"}
Inside == {"sweep", "reconcile", "serve"}
Places == {"off", "open"} \cup Starting \cup Inside

Alive(p) == pc[p] # "off"

TypeOK ==
  /\ name \in Procs \cup {None, "manager", "stale", "file"}
  /\ lock \in Procs \cup {None}
  /\ pc \in [Procs -> Places]
  /\ managed \subseteq Procs /\ \A p, q \in managed : p = q
  /\ temporaries \subseteq Procs \cup {None}
  /\ starts \in 0 .. MaxStarts /\ crashes \in 0 .. MaxCrashes
  /\ broken \in BOOLEAN
  /\ \A p \in Procs :
       /\ pc[p] \in Inside <=> lock = p
       /\ p \in temporaries => pc[p] = "serve"
       /\ p \in managed => pc[p] \in {"open"} \cup Inside
       /\ name = p => pc[p] \in {"listen", "permit", "open"} \cup Inside /\ p \notin managed

Init ==
  /\ name \in {None, "manager", "stale", "file"}
  /\ lock = None /\ pc = [p \in Procs |-> "off"] /\ managed = {}
  /\ temporaries \in SUBSET {None}
  /\ starts = 0 /\ crashes = 0 /\ broken = FALSE

-----------------------------------------------------------------------------
Go(p, place) == pc' = [pc EXCEPT ![p] = place]

(* The process ends, by an error or by force: its socket stays behind, a   *)
(* name nobody answers to, its lock is gone, its transfer is left over.    *)
End(p) ==
  /\ Go(p, "off")
  /\ name' = IF name = p THEN "stale" ELSE name
  /\ lock' = IF lock = p THEN None ELSE lock
  /\ managed' = managed \ {p}
  /\ temporaries' = {IF q = p THEN None ELSE q : q \in temporaries}

(* By hand, or by the service manager, which starts one at a time.         *)
Start(p) ==
  /\ pc[p] = "off" /\ starts < MaxStarts
  /\ starts' = starts + 1
  /\ \/ Go(p, "bind") /\ UNCHANGED managed
     \/ /\ name = "manager" /\ managed = {}
        /\ managed' = {p} /\ Go(p, "open")
  /\ UNCHANGED <<name, lock, temporaries, crashes, broken>>

(* Listener::bind() is bind(2) and then listen(2).                         *)
Bind(p) ==
  /\ pc[p] = "bind"
  /\ IF name = None THEN name' = p /\ Go(p, "listen")
     ELSE name' = name /\ Go(p, "probe")
  /\ UNCHANGED <<lock, managed, temporaries, starts, crashes, broken>>

Listen(p) ==
  /\ pc[p] = "listen"
  /\ Go(p, "permit")
  /\ UNCHANGED <<name, lock, managed, temporaries, starts, crashes, broken>>

(* A socket refuses when its process is gone or does not listen yet.       *)
Refuses == name = "stale" \/ \E q \in Procs : name = q /\ pc[q] = "listen"

(* Deviation: a socket that refuses is left alone as well.                 *)
ProbeTimid(p) ==
  /\ pc[p] = "probe"
  /\ End(p)
  /\ UNCHANGED <<starts, crashes, broken>>

(* What is no socket, is gone by now, or answers is left alone.            *)
Probe(p) ==
  /\ pc[p] = "probe"
  /\ IF Refuses
     THEN Go(p, "unlink") /\ UNCHANGED <<name, lock, managed, temporaries>>
     ELSE End(p)
  /\ UNCHANGED <<starts, crashes, broken>>

(* remove_file() takes what is under the name by now. *)
Unlink(p) ==
  /\ pc[p] = "unlink"
  /\ IF name = None THEN End(p)
     ELSE name' = None /\ Go(p, "rebind") /\ UNCHANGED <<lock, managed, temporaries>>
  /\ UNCHANGED <<starts, crashes, broken>>

Rebind(p) ==
  /\ pc[p] = "rebind"
  /\ IF name = None
     THEN name' = p /\ Go(p, "listen") /\ UNCHANGED <<lock, managed, temporaries>>
     ELSE End(p)
  /\ UNCHANGED <<starts, crashes, broken>>

(* set_permissions() goes by the name again. *)
Permit(p) ==
  /\ pc[p] = "permit"
  /\ IF name = None THEN End(p)
     ELSE Go(p, "open") /\ UNCHANGED <<name, lock, managed, temporaries>>
  /\ UNCHANGED <<starts, crashes, broken>>

(* Deviation: the temporaries are swept before the lock is asked for.      *)
OpenSwept(p) ==
  /\ pc[p] = "open"
  /\ temporaries' = {}
  /\ IF lock = None THEN lock' = p /\ Go(p, "sweep") ELSE lock' = lock /\ Go(p, "off")
  /\ name' = IF lock # None /\ name = p THEN "stale" ELSE name
  /\ managed' = IF lock # None THEN managed \ {p} ELSE managed
  /\ UNCHANGED <<starts, crashes, broken>>

(* Deviation: the archive is opened though it is in use.                   *)
OpenUnlocked(p) ==
  /\ pc[p] = "open"
  /\ lock' = p /\ Go(p, "sweep")
  /\ UNCHANGED <<name, managed, temporaries, starts, crashes, broken>>

(* try_lock() *)
Open(p) ==
  /\ pc[p] = "open"
  /\ IF lock = None
     THEN lock' = p /\ Go(p, "sweep") /\ UNCHANGED <<name, managed, temporaries>>
     ELSE End(p)
  /\ UNCHANGED <<starts, crashes, broken>>

(* sweep_incoming() *)
Sweep(p) ==
  /\ pc[p] = "sweep"
  /\ temporaries' = {} /\ Go(p, "reconcile")
  /\ UNCHANGED <<name, lock, managed, starts, crashes, broken>>

(* Reconciled, or not: a failure is only reported. *)
Reconcile(p) ==
  /\ pc[p] = "reconcile"
  /\ Go(p, "serve")
  /\ UNCHANGED <<name, lock, managed, temporaries, starts, crashes, broken>>

Receive(p) ==
  /\ pc[p] = "serve"
  /\ temporaries' = temporaries \cup {p}
  /\ UNCHANGED <<name, lock, pc, managed, starts, crashes, broken>>

Publish(p) ==
  /\ pc[p] = "serve" /\ p \in temporaries
  /\ temporaries' = temporaries \ {p}
  /\ UNCHANGED <<name, lock, pc, managed, starts, crashes, broken>>

(* The idle exit, of a daemon the manager will start again. *)
Retire(p) ==
  /\ pc[p] = "serve" /\ p \in managed
  /\ End(p) /\ broken' = TRUE
  /\ UNCHANGED <<starts, crashes>>

Crash(p) ==
  /\ Alive(p) /\ crashes < MaxCrashes
  /\ crashes' = crashes + 1
  /\ End(p) /\ broken' = TRUE
  /\ UNCHANGED starts

-----------------------------------------------------------------------------
Step(p) ==
  \/ Start(p) \/ Bind(p) \/ Probe(p) \/ Unlink(p) \/ Rebind(p) \/ Listen(p)
  \/ Permit(p) \/ Open(p) \/ Sweep(p) \/ Reconcile(p) \/ Receive(p) \/ Publish(p)
  \/ Retire(p) \/ Crash(p)

Next == \E p \in Procs : Step(p)

Spec == Init /\ [][Next]_vars

-----------------------------------------------------------------------------
(* A transfer in progress is ended by its own process only: no other       *)
(* daemon, however it was started and whatever it found under the socket's *)
(* name, sweeps the temporary of one that is at work.                      *)
OwnTransfers ==
  [][\A p \in Procs :
       p \in temporaries /\ p \notin temporaries' =>
         /\ pc[p] = "serve"
         /\ \A q \in Procs \ {p} : pc'[q] = pc[q]]_vars

(* Start-up races turn away some, never all: once every process that was   *)
(* started has settled, one of them serves, unless one has died meanwhile, *)
(* or what lies under the name is no socket.                               *)
OneServes ==
  (/\ starts > 0 /\ ~broken
   /\ name \notin {"file", "manager"}
   /\ \A p \in Procs : pc[p] \in {"off", "serve"}) =>
     \E p \in Procs : pc[p] = "serve"

(* A daemon never unlinks the name of another that is alive.               *)
NeverUnlinksLive ==
  [][\A q \in Procs : name = q /\ name' = None => ~Alive(q)]_vars
=============================================================================
