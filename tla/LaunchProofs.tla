---------------------------- MODULE LaunchProofs ----------------------------
(***************************************************************************)
(* However many daemons are started, and wherever they die: one at a time  *)
(* is past the lock, and no transfer is swept from under its daemon.       *)
(***************************************************************************)
EXTENDS Launch, TLAPS

(* Ending a process keeps the types: it lets go of all that is its own.    *)
LEMMA EndTyped ==
  ASSUME TypeOK, NEW p \in Procs, End(p),
         starts' \in 0 .. MaxStarts, crashes' \in 0 .. MaxCrashes, broken' \in BOOLEAN
  PROVE  TypeOK'
<1> USE LaunchAssumption DEF TypeOK, End, Go, Places, Starting, Inside, Alive
<1>1. pc' \in [Procs -> Places] /\ pc'[p] = "off" /\ \A q \in Procs \ {p} : pc'[q] = pc[q]
  OBVIOUS
<1>2. /\ name' \in Procs \cup {None, "manager", "stale", "file"}
      /\ lock' \in Procs \cup {None}
      /\ managed' \subseteq Procs /\ \A q, r \in managed' : q = r
  OBVIOUS
<1>3. temporaries' \subseteq Procs \cup {None} /\ \A q \in Procs : q \in temporaries' => q \in temporaries /\ q # p
  OBVIOUS
<1>4. ASSUME NEW q \in Procs
      PROVE  /\ pc'[q] \in Inside <=> lock' = q
             /\ q \in temporaries' => pc'[q] = "serve"
             /\ q \in managed' => pc'[q] \in {"open"} \cup Inside
             /\ name' = q => pc'[q] \in {"listen", "permit", "open"} \cup Inside /\ q \notin managed'
  <2>1. CASE q = p
    BY <2>1, <1>1, <1>3
  <2>2. CASE q # p
    BY <2>2, <1>1, <1>3
  <2> QED BY <2>1, <2>2
<1> QED BY <1>1, <1>2, <1>3, <1>4

(* The types hold at first. *)
LEMMA InitTyped == Init => TypeOK
<1> SUFFICES ASSUME Init PROVE TypeOK
  OBVIOUS
<1> USE LaunchAssumption DEF Init, Places, Starting, Inside, Alive
<1>1. pc \in [Procs -> Places] /\ starts \in 0 .. MaxStarts /\ crashes \in 0 .. MaxCrashes
  OBVIOUS
<1>2. ASSUME NEW p \in Procs
      PROVE  /\ pc[p] = "off" /\ lock # p /\ name # p
             /\ p \notin temporaries /\ p \notin managed
  OBVIOUS
<1> QED BY <1>1, <1>2 DEF TypeOK

(* A process that goes on moves nothing but itself. *)
LEMMA StepTyped == TypeOK /\ [Next]_vars => TypeOK'
<1> SUFFICES ASSUME TypeOK, [Next]_vars PROVE TypeOK'
  OBVIOUS
<1>1. CASE UNCHANGED vars
  BY <1>1 DEF TypeOK, vars, Alive
<1>2. ASSUME NEW p \in Procs, Step(p) PROVE TypeOK'
  <2> USE LaunchAssumption DEF Places, Starting, Inside, Alive, Go
  <2>1. CASE Start(p)
    BY <2>1 DEF TypeOK, Start
  <2>2. CASE Bind(p)
    <3>1. CASE name = None
      <4>1. name' = p /\ pc' = [pc EXCEPT ![p] = "listen"]
        BY <2>2, <3>1 DEF Bind
      <4>2. pc' \in [Procs -> Places] /\ pc'[p] = "listen"
            /\ \A q \in Procs \ {p} : pc'[q] = pc[q]
        BY <4>1 DEF TypeOK
      <4>3. p \notin managed /\ p \notin temporaries /\ lock # p
        BY <2>2 DEF TypeOK, Bind
      <4> QED BY <2>2, <4>1, <4>2, <4>3 DEF TypeOK, Bind
    <3>2. CASE name # None
      BY <2>2, <3>2 DEF TypeOK, Bind
    <3> QED BY <3>1, <3>2
  <2>3. CASE Probe(p)
    BY <2>3, EndTyped DEF TypeOK, Probe
  <2>4. CASE Unlink(p)
    BY <2>4, EndTyped DEF TypeOK, Unlink
  <2>5. CASE Rebind(p)
    BY <2>5, EndTyped DEF TypeOK, Rebind
  <2>6. CASE Permit(p)
    BY <2>6, EndTyped DEF TypeOK, Permit
  <2>7. CASE Open(p)
    BY <2>7, EndTyped DEF TypeOK, Open
  <2>8. CASE Sweep(p)
    BY <2>8 DEF TypeOK, Sweep
  <2>9. CASE Reconcile(p)
    BY <2>9 DEF TypeOK, Reconcile
  <2>10. CASE Receive(p)
    BY <2>10 DEF TypeOK, Receive
  <2>11. CASE Publish(p)
    BY <2>11 DEF TypeOK, Publish
  <2>12. CASE Retire(p)
    BY <2>12, EndTyped DEF TypeOK, Retire
  <2>13. CASE Crash(p)
    <3>1. End(p) /\ starts' = starts /\ broken' = TRUE /\ crashes' \in 0 .. MaxCrashes
      BY <2>13 DEF Crash, TypeOK
    <3> QED BY <3>1, EndTyped DEF TypeOK
  <2>14. CASE Listen(p)
    BY <2>14 DEF TypeOK, Listen
  <2> QED
    BY <1>2, <2>1, <2>2, <2>3, <2>4, <2>5, <2>6, <2>7, <2>8, <2>9, <2>10, <2>11,
       <2>12, <2>13, <2>14 DEF Step
<1> QED BY <1>1, <1>2 DEF Next

(* One process at a time is past the lock, and it holds it; a process with *)
(* a transfer serves (net.rs bind(), Store::open_with_policy()).           *)
THEOREM LaunchTyped == Spec => []TypeOK
<1> QED BY InitTyped, StepTyped, PTL DEF Spec

(* Only the process whose transfer it is takes it out of the archive: a    *)
(* daemon that sweeps blobs/incoming holds the lock, and so nobody serves. *)
THEOREM TransfersAreTheirOwn == Spec => OwnTransfers
<1> DEFINE Own == \A p \in Procs :
                    p \in temporaries /\ p \notin temporaries' =>
                      /\ pc[p] = "serve"
                      /\ \A q \in Procs \ {p} : pc'[q] = pc[q]
<1>1. ASSUME TypeOK, [Next]_vars PROVE [Own]_vars
  <2>1. CASE UNCHANGED vars
    BY <2>1
  <2>2. ASSUME NEW p \in Procs, Step(p) PROVE Own
    <3> SUFFICES ASSUME NEW o \in Procs, o \in temporaries, o \notin temporaries'
                 PROVE  pc[o] = "serve" /\ \A q \in Procs \ {o} : pc'[q] = pc[q]
      OBVIOUS
    <3>1. pc[o] = "serve"
      BY <1>1 DEF TypeOK
    <3>2. p = o
      <4>1. CASE End(p)
        BY <4>1 DEF End
      <4>2. CASE Sweep(p)
        BY <1>1, <4>2, <3>1 DEF Sweep, TypeOK, Inside
      <4>3. CASE Publish(p)
        BY <4>3 DEF Publish
      <4>4. CASE temporaries' = temporaries \/ Receive(p)
        BY <4>4 DEF Receive
      <4> QED
        BY <2>2, <4>1, <4>2, <4>3, <4>4
        DEF Step, Start, Bind, Listen, Probe, Unlink, Rebind, Permit, Open, Reconcile,
            Retire, Crash
    <3>3. \A q \in Procs \ {p} : pc'[q] = pc[q]
      BY <1>1, <2>2 DEF TypeOK, Step, Start, Bind, Listen, Probe, Unlink, Rebind, Permit, Open,
                  Sweep, Reconcile, Receive, Publish, Retire, Crash, End, Go
    <3> QED BY <3>1, <3>2, <3>3
  <2> QED BY <1>1, <2>1, <2>2 DEF Next
<1> QED BY <1>1, LaunchTyped, PTL DEF Spec, OwnTransfers

-----------------------------------------------------------------------------
(* Why somebody comes through: unless one has died, either a process is    *)
(* past the lock, or the name is that of a process on its way there, or    *)
(* somebody is about to bind it.                                           *)
Coming ==
  \/ \E p \in Procs : pc[p] \in Inside
  \/ name \in Procs
  \/ name = None /\ \E p \in Procs : pc[p] \in {"bind", "rebind"}
  \/ name = "stale" /\ \E p \in Procs : pc[p] \in {"bind", "probe", "unlink"}

(* A name that is not a daemon's own is never touched.                     *)
Kept ==
  name \in {"file", "manager"} => \A p \in Procs : pc[p] \notin {"unlink", "rebind"}

Hope == starts > 0 /\ ~broken /\ name \notin {"file", "manager"} => Coming

(* A process that ends over a name that is not its own takes nobody with it. *)
LEMMA EndKeepsHope ==
  ASSUME TypeOK, Coming, NEW p \in Procs, End(p), name # p,
         pc[p] \notin Inside \cup {"bind", "unlink"},
         pc[p] = "probe" => name # "stale", pc[p] = "rebind" => name # None
  PROVE  Coming'
<1>1. name' = name /\ \A q \in Procs \ {p} : pc'[q] = pc[q]
  BY DEF End, Go, TypeOK
<1>2. CASE \E q \in Procs : pc[q] \in Inside
  BY <1>1, <1>2 DEF Coming
<1>3. CASE name \in Procs
  BY <1>1, <1>3 DEF Coming
<1>4. CASE name = None /\ \E q \in Procs : pc[q] \in {"bind", "rebind"}
  BY <1>1, <1>4 DEF Coming
<1>5. CASE name = "stale" /\ \E q \in Procs : pc[q] \in {"bind", "probe", "unlink"}
  BY <1>1, <1>5 DEF Coming
<1> QED BY <1>2, <1>3, <1>4, <1>5 DEF Coming

(* A file, or the manager's socket, keeps the name it has. *)
LEMMA KeptStays == TypeOK /\ Kept /\ [Next]_vars => Kept' /\ (name' \in {"file", "manager"} <=> name \in {"file", "manager"})
<1> SUFFICES ASSUME TypeOK, Kept, [Next]_vars
             PROVE  Kept' /\ (name' \in {"file", "manager"} <=> name \in {"file", "manager"})
  OBVIOUS
<1>1. CASE UNCHANGED vars
  BY <1>1 DEF Kept, vars
<1>2. ASSUME NEW p \in Procs, Step(p)
      PROVE  Kept' /\ (name' \in {"file", "manager"} <=> name \in {"file", "manager"})
  <2> USE LaunchAssumption DEF TypeOK, Kept, Go, End, Inside
  <2>1. CASE Start(p)
    BY <2>1 DEF Start
  <2>2. CASE Bind(p)
    BY <2>2 DEF Bind
  <2>3. CASE Probe(p)
    BY <2>3 DEF Probe, Refuses
  <2>4. CASE Unlink(p)
    BY <2>4 DEF Unlink
  <2>5. CASE Rebind(p)
    BY <2>5 DEF Rebind
  <2>6. CASE Permit(p)
    BY <2>6 DEF Permit
  <2>7. CASE Open(p)
    BY <2>7 DEF Open
  <2>8. CASE Sweep(p) \/ Reconcile(p) \/ Receive(p) \/ Publish(p)
    BY <2>8 DEF Sweep, Reconcile, Receive, Publish
  <2>9. CASE Retire(p) \/ Crash(p)
    BY <2>9 DEF Retire, Crash
  <2>10. CASE Listen(p)
    BY <2>10 DEF Listen
  <2> QED
    BY <1>2, <2>1, <2>2, <2>3, <2>4, <2>5, <2>6, <2>7, <2>8, <2>9, <2>10 DEF Step
<1> QED BY <1>1, <1>2 DEF Next

(* While nobody has died, somebody is on the way to serve. *)
LEMMA HopeStays == TypeOK /\ Kept /\ Hope /\ [Next]_vars => Hope'
<1> SUFFICES ASSUME TypeOK, Kept, Hope, [Next]_vars,
                    starts' > 0, ~broken', name' \notin {"file", "manager"}
             PROVE  Coming'
  BY DEF Hope
<1>0. name \notin {"file", "manager"}
  BY KeptStays
<1>1. CASE UNCHANGED vars
  BY <1>1 DEF Hope, Coming, vars
<1>2. ASSUME NEW p \in Procs, Start(p) PROVE Coming'
  <2>1. pc' = [pc EXCEPT ![p] = "bind"] /\ name' = name
    BY <1>0, <1>2 DEF Start, Go
  <2>2. pc'[p] = "bind"
    BY <2>1 DEF TypeOK
  <2>3. name \in Procs \/ name = None \/ name = "stale"
    BY <1>0 DEF TypeOK
  <2> QED BY <2>1, <2>2, <2>3 DEF Coming
<1>3. ASSUME NEW p \in Procs, Step(p), ~Start(p) PROVE Coming'
  <2>1. Coming
    <3>1. starts' = starts /\ ~broken
      BY <1>3 DEF Step, Bind, Listen, Probe, Unlink, Rebind, Permit, Open, Sweep,
                  Reconcile, Receive, Publish, Retire, Crash, TypeOK
    <3> QED BY <1>0, <3>1 DEF Hope
  <2>2. CASE Bind(p) /\ name = None
    BY <2>2, LaunchAssumption DEF Bind, Coming
  <2>3. CASE Bind(p) /\ name # None
    <3>1. name' = name /\ pc'[p] = "probe" /\ \A q \in Procs \ {p} : pc'[q] = pc[q]
      BY <2>3 DEF Bind, Go, TypeOK
    <3>2. pc[p] = "bind"
      BY <2>3 DEF Bind
    <3> QED BY <2>1, <2>3, <3>1, <3>2 DEF Coming, Inside
  <2>4. CASE Probe(p) /\ Refuses
    <3>1. name' = name /\ pc'[p] = "unlink"
      BY <2>4 DEF Probe, Go, TypeOK
    <3> QED BY <2>4, <3>1 DEF Refuses, Coming
  <2>5. CASE Probe(p) /\ ~Refuses
    <3>1. End(p) /\ pc[p] = "probe" /\ name # "stale"
      BY <2>5 DEF Probe, Refuses
    <3>2. name # p
      BY <3>1 DEF TypeOK, Inside
    <3> QED BY <2>1, <3>1, <3>2, EndKeepsHope DEF Inside
  <2>6. CASE Unlink(p) /\ name # None
    <3>1. name' = None /\ pc'[p] = "rebind"
      BY <2>6 DEF Unlink, Go, TypeOK
    <3> QED BY <3>1 DEF Coming
  <2>7. CASE Unlink(p) /\ name = None
    <3>1. End(p) /\ pc[p] = "unlink"
      BY <2>7 DEF Unlink
    <3>2. name' = None /\ \A q \in Procs \ {p} : pc'[q] = pc[q]
      BY <2>7, <3>1, LaunchAssumption DEF End, Go, TypeOK
    <3>3. PICK q \in Procs : pc[q] \in Inside \cup {"bind", "rebind"}
      BY <2>1, <2>7, LaunchAssumption DEF Coming
    <3>4. pc'[q] = pc[q]
      BY <3>1, <3>2, <3>3 DEF Inside
    <3> QED BY <3>2, <3>3, <3>4 DEF Coming
  <2>8. CASE Rebind(p) /\ name = None
    BY <2>8 DEF Rebind, Coming
  <2>9. CASE Rebind(p) /\ name # None
    <3>1. End(p) /\ pc[p] = "rebind"
      BY <2>9 DEF Rebind
    <3>2. name # p
      BY <3>1 DEF TypeOK, Inside
    <3> QED BY <2>1, <2>9, <3>1, <3>2, EndKeepsHope DEF Inside
  <2>10. CASE Permit(p) /\ name = None
    <3>1. End(p) /\ pc[p] = "permit"
      BY <2>10 DEF Permit
    <3>2. name # p
      BY <2>10, LaunchAssumption
    <3> QED BY <2>1, <3>1, <3>2, EndKeepsHope DEF Inside
  <2>11. CASE Permit(p) /\ name # None
    <3>1. name' = name /\ pc[p] = "permit" /\ \A q \in Procs \ {p} : pc'[q] = pc[q]
      BY <2>11 DEF Permit, Go, TypeOK
    <3> QED BY <2>1, <2>11, <3>1 DEF Coming, Inside
  <2>12. CASE Open(p) /\ lock = None
    <3>1. pc'[p] = "sweep"
      BY <2>12 DEF Open, Go, TypeOK
    <3> QED BY <3>1 DEF Coming, Inside
  <2>13. CASE Open(p) /\ lock # None
    <3>1. lock \in Procs /\ pc[lock] \in Inside /\ pc[p] = "open"
      BY <2>13 DEF Open, TypeOK
    <3>2. pc'[lock] = pc[lock]
      BY <2>13, <3>1 DEF Open, End, Go, TypeOK, Inside
    <3> QED BY <3>1, <3>2 DEF Coming
  <2>14. CASE Sweep(p) \/ Reconcile(p) \/ Receive(p) \/ Publish(p)
    <3>1. pc'[p] \in Inside
      BY <2>14 DEF Sweep, Reconcile, Receive, Publish, Go, TypeOK, Inside
    <3> QED BY <3>1 DEF Coming
  <2>15. CASE Retire(p) \/ Crash(p)
    BY <2>15 DEF Retire, Crash
  <2>16. CASE Listen(p)
    <3>1. name' = name /\ pc[p] = "listen" /\ \A q \in Procs \ {p} : pc'[q] = pc[q]
      BY <2>16 DEF Listen, Go, TypeOK
    <3> QED BY <2>1, <3>1 DEF Coming, Inside
  <2> QED
    BY <1>3, <2>2, <2>3, <2>4, <2>5, <2>6, <2>7, <2>8, <2>9, <2>10, <2>11, <2>12,
       <2>13, <2>14, <2>15, <2>16 DEF Step
<1> QED BY <1>1, <1>2, <1>3 DEF Next

(* Start-up races never turn everybody away (net.rs bind_at(), main.rs     *)
(* leaving with the first error).                                          *)
THEOREM SomebodyServes == Spec => []OneServes
<1>1. Init => Kept /\ Hope
  BY DEF Init, Kept, Hope
<1>2. TypeOK /\ Hope => OneServes
  <2> SUFFICES ASSUME TypeOK, Hope, starts > 0, ~broken,
                      name \notin {"file", "manager"},
                      \A p \in Procs : pc[p] \in {"off", "serve"}
               PROVE  \E p \in Procs : pc[p] = "serve"
    BY DEF OneServes
  <2>1. Coming
    BY DEF Hope
  <2>2. PICK p \in Procs : pc[p] \in Inside \/ name = p
    BY <2>1 DEF Coming
  <2>3. pc[p] \in Inside \cup {"listen", "permit", "open"}
    BY <2>2 DEF TypeOK
  <2> QED BY <2>3 DEF Inside
<1> QED BY <1>1, <1>2, LaunchTyped, KeptStays, HopeStays, PTL DEF Spec
=============================================================================
