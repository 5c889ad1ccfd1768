------------------------------- MODULE Watch -------------------------------
(***************************************************************************)
(* Who hears what of the archive: daemon/src/outbox.rs between the threads *)
(* that change the archive (session.rs, capture/mod.rs, maintenance.rs)    *)
(* and the clients that watch it.                                          *)
(*                                                                         *)
(* A thread changes the archive under the index lock, answers its client   *)
(* and then broadcasts; a broadcast only fills the subscribers' bounded    *)
(* queues.  Each subscriber has a worker that writes its queue to the      *)
(* socket.  The answer to a list is written by the session's own thread,   *)
(* past the queue.                                                         *)
(***************************************************************************)
EXTENDS Integers, Sequences, FiniteSets

Seqs == INSTANCE SequencesExt

CONSTANTS
  Clients,     \* connections that watch; each is served by a thread
  Natives,     \* threads without a client: a native watcher, maintenance
  Recorders,   \* the threads that record copies
  Curators,    \* the threads that pin, remove and clear
  Expirers,    \* the threads that expire: maintenance, when there is a retention
  MaxId,       \* bound on the ids handed out
  QueueLimit,  \* events a subscriber's queue holds (64 in the code)
  WireLimit,   \* frames a socket buffers before a write blocks
  Hangups,     \* whether a client may be gone when it is answered
  MaxEvicted   \* bound on the rows one commit evicts

Threads == Clients \cup Natives
Ids == 1 .. MaxId

ASSUME WatchAssumption ==
  /\ Clients \cap Natives = {}
  /\ Recorders \cup Curators \subseteq Threads /\ Expirers \subseteq Natives
  /\ MaxId \in Nat /\ QueueLimit \in Nat \ {0} /\ WireLimit \in Nat \ {0}
  /\ Hangups \in BOOLEAN /\ MaxEvicted \in Nat

VARIABLES
  shelf,       \* the archive: its entries and which of them are pinned
  told,        \* history: the archive as the broadcasts so far describe it
  todo,        \* the events each thread has still to broadcast
  pc,          \* where each thread is
  page,        \* the list a session has read and not yet sent
  subscribed,  \* Watchers.inner: the clients that have a queue
  queue,       \* the queue, with the event its worker is writing
  wire,        \* the frames written to a client and not yet read
  shut,        \* the clients whose socket the daemon has shut down
  cut,         \* the clients whose worker failed and has yet to shut the socket
  linked,      \* the clients that know of no end of their connection
  heard        \* history: the archive as the events read by a client describe it

archive == <<shelf, told, todo>>
daemon == <<pc, page, subscribed, queue, shut, cut>>
socket == <<wire, linked, heard>>
vars == <<archive, daemon, socket>>

Shelves == {s \in [live : SUBSET Ids, pinned : SUBSET Ids] : s.pinned \subseteq s.live}
Nothing == [live |-> {}, pinned |-> {}]
Recent(s) == s.live \ s.pinned

Added(e) == [ev |-> "added", entry |-> e, pinned |-> FALSE]
Updated(e, pinned) == [ev |-> "updated", entry |-> e, pinned |-> pinned]
Removed(e) == [ev |-> "removed", entry |-> e]
Cleared == [ev |-> "cleared"]
Events == {Added(e) : e \in Ids} \cup {Removed(e) : e \in Ids} \cup {Cleared}
          \cup {Updated(e, pinned) : e \in Ids, pinned \in BOOLEAN}
Ok == [ev |-> "ok"]
List(items) == [ev |-> "list", items |-> items]
Frames == Events \cup {Ok} \cup {List(items) : items \in SUBSET Ids}

(* What a client that only follows events makes of one.                    *)
Follow(s, event) ==
  CASE event.ev \in {"added", "updated"} ->
         [live |-> s.live \cup {event.entry},
          pinned |-> IF event.pinned THEN s.pinned \cup {event.entry}
                     ELSE s.pinned \ {event.entry}]
    [] event.ev = "removed" ->
         [live |-> s.live \ {event.entry}, pinned |-> s.pinned \ {event.entry}]
    [] event.ev = "cleared" -> [s EXCEPT !.live = s.pinned]
    [] OTHER -> s

FollowAll(s, events) == Seqs!FoldLeft(Follow, s, events)

TypeOK ==
  /\ shelf \in Shelves /\ told \in Shelves
  /\ heard \in [Clients -> Shelves]
  /\ todo \in [Threads -> Seq(Events)]
  /\ pc \in [Threads -> {"idle", "answering", "listing", "telling", "gone"}]
  /\ page \in [Clients -> SUBSET Ids]
  /\ subscribed \subseteq Clients /\ shut \subseteq Clients /\ cut \subseteq Clients
  /\ linked \subseteq Clients
  /\ queue \in [Clients -> Seq(Events)] /\ wire \in [Clients -> Seq(Frames)]
  /\ \A c \in Clients : Len(queue[c]) <= QueueLimit + 1 /\ Len(wire[c]) <= WireLimit

Init ==
  /\ shelf = Nothing /\ told = Nothing
  /\ todo = [t \in Threads |-> <<>>]
  /\ pc = [t \in Threads |-> IF t \in Clients THEN "gone" ELSE "idle"]
  /\ page = [c \in Clients |-> {}]
  /\ subscribed = {} /\ shut = {} /\ cut = {} /\ linked = {}
  /\ queue = [c \in Clients |-> <<>>]
  /\ wire = [c \in Clients |-> <<>>]
  /\ heard = [c \in Clients |-> Nothing]

Go(t, place) == pc' = [pc EXCEPT ![t] = place]

-----------------------------------------------------------------------------
(* Changing the archive, under the index lock. *)

(* The change, and the events the thread will broadcast once the lock is   *)
(* given up and its client answered.                                       *)
Change(t, s, events) ==
  /\ pc[t] = "idle"
  /\ shelf' = s
  /\ todo' = [todo EXCEPT ![t] = events]
  /\ Go(t, IF t \in Clients THEN "answering" ELSE "telling")
  /\ UNCHANGED <<told, page, subscribed, queue, shut, cut, socket>>

Without(s, gone) == [live |-> s.live \ gone, pinned |-> s.pinned \ gone]

(* The rows that go, the one copied longest ago first: copying again makes *)
(* a row younger, so that the ids do not tell the order.                   *)
Orders(gone) == Seqs!SetToSeqs(gone)
Removals(order) == [i \in DOMAIN order |-> Removed(order[i])]

(* A new copy, under the id after the highest that is held.  commit()      *)
(* announces the rows evicted to make room, and then the copy itself       *)
(* unless it was one of them.                                              *)
Record(t) ==
  \E e \in Ids \ shelf.live :
    /\ \A o \in shelf.live : o < e
    /\ e = 1 \/ e - 1 \in shelf.live
    /\ LET s == [shelf EXCEPT !.live = @ \cup {e}] IN
       \E gone \in SUBSET Recent(s) :
         /\ Cardinality(gone) <= MaxEvicted
         /\ \E order \in Orders(gone) :
              Change(t, Without(s, gone),
                     Removals(order) \o IF e \in gone THEN <<>> ELSE <<Added(e)>>)

(* A copy that is held: at its first look commit() evicts nothing, and at  *)
(* its second evict_to() finds what the other thread's commit has left,    *)
(* which is within the budget.                                             *)
Touch(t) ==
  \E e \in shelf.live : Change(t, shelf, <<Updated(e, e \in shelf.pinned)>>)

SetPinned(t) ==
  \E e \in shelf.live, pinned \in BOOLEAN :
    Change(t, [shelf EXCEPT !.pinned = IF pinned THEN @ \cup {e} ELSE @ \ {e}],
           <<Updated(e, pinned)>>)

Remove(t) ==
  \E e \in shelf.live : Change(t, Without(shelf, {e}), <<Removed(e)>>)

Clear(t) == Change(t, Without(shelf, Recent(shelf)), <<Cleared>>)

(* expire(): one batch, by a thread that answers nobody.                   *)
Expire(t) ==
  \E gone \in SUBSET Recent(shelf) \ {{}} : \E order \in Orders(gone) :
    Change(t, Without(shelf, gone), Removals(order))

-----------------------------------------------------------------------------
(* Answering and broadcasting. *)

(* A write to a socket whose buffer is full fails after two seconds.       *)
Writable(c) == c \notin shut /\ Len(wire[c]) < WireLimit

Answer(t) ==
  /\ pc[t] = "answering"
  /\ Writable(t)
  /\ wire' = [wire EXCEPT ![t] = Append(@, Ok)]
  /\ Go(t, "telling")
  /\ UNCHANGED <<archive, page, subscribed, queue, shut, cut, linked, heard>>

(* The answer cannot be written: `?` ends the session, and what it had to  *)
(* broadcast is not.                                                       *)
AnswerFails(t) ==
  /\ pc[t] = "answering"
  /\ ~Writable(t) \/ Hangups
  /\ todo' = [todo EXCEPT ![t] = <<>>]
  /\ Go(t, "gone")
  /\ shut' = shut \cup {t}
  /\ subscribed' = subscribed \ {t}
  /\ queue' = [queue EXCEPT ![t] = <<>>]
  /\ cut' = cut \ {t}
  /\ UNCHANGED <<shelf, told, page, socket>>

(* The worker may or may not have taken the event it writes off the queue. *)
Full(c) == Len(queue[c]) > QueueLimit
Slow == {c \in subscribed \ shut : Len(queue[c]) >= QueueLimit}

(* The next event of t goes to `reached`, whose queues have room or not.   *)
Deliver(t, reached, closed) ==
  /\ pc[t] = "telling" /\ todo[t] # <<>>
  /\ told' = Follow(told, Head(todo[t]))
  /\ todo' = [todo EXCEPT ![t] = Tail(@)]
  /\ queue' = [c \in Clients |->
       CASE c \in reached -> Append(queue[c], Head(todo[t]))
         [] c \in closed -> <<>>
         [] OTHER -> queue[c]]
  /\ shut' = shut \cup closed
  /\ subscribed' = subscribed \ (shut \cup closed)
  /\ UNCHANGED <<shelf, pc, page, cut, socket>>

(* Deviation: an event that finds the queue full is dropped.               *)
BroadcastLossy(t) ==
  Deliver(t, {c \in subscribed \ shut : ~Full(c)}, {})

(* Deviation: the queues are not bounded.                                  *)
BroadcastUnbounded(t) == Deliver(t, subscribed \ shut, {})

(* Deviation: a broadcast waits for room.                                  *)
BroadcastBlocking(t) ==
  /\ \A c \in subscribed \ shut : ~Full(c)
  /\ Deliver(t, subscribed \ shut, {})

(* broadcast(), under the registry lock: a subscriber whose queue is full  *)
(* is shut down and struck off, one that is gone is struck off.            *)
Broadcast(t) ==
  \E closed \in SUBSET Slow :
    /\ {c \in Slow : Full(c)} \subseteq closed
    /\ Deliver(t, subscribed \ (shut \cup closed), closed)

Told(t) ==
  /\ pc[t] = "telling" /\ todo[t] = <<>>
  /\ Go(t, "idle")
  /\ UNCHANGED <<archive, page, subscribed, queue, shut, cut, socket>>

-----------------------------------------------------------------------------
(* Writing to a client: its worker and its session, in any order.          *)

Notify(c) ==
  /\ queue[c] # <<>> /\ c \notin cut /\ Writable(c)
  /\ wire' = [wire EXCEPT ![c] = Append(@, Head(queue[c]))]
  /\ queue' = [queue EXCEPT ![c] = Tail(@)]
  /\ UNCHANGED <<archive, pc, page, subscribed, shut, cut, linked, heard>>

(* out.send() failed and the event is lost: the worker is about to shut    *)
(* the socket, and the session may still write to it.                      *)
NotifyFails(c) ==
  /\ queue[c] # <<>> /\ c \notin cut \cup shut /\ ~Writable(c)
  /\ cut' = cut \cup {c}
  /\ queue' = [queue EXCEPT ![c] = Tail(@)]
  /\ UNCHANGED <<archive, pc, page, subscribed, shut, socket>>

WorkerEnds(c) ==
  /\ c \in cut
  /\ cut' = cut \ {c}
  /\ shut' = shut \cup {c}
  /\ queue' = [queue EXCEPT ![c] = <<>>]
  /\ UNCHANGED <<archive, pc, page, subscribed, socket>>

(* list: read under the index lock, sent after it.  A request may wait in  *)
(* the session's buffer when its socket is shut.                           *)
ReadList(c) ==
  /\ pc[c] = "idle"
  /\ page' = [page EXCEPT ![c] = Recent(shelf)]
  /\ Go(c, "listing")
  /\ UNCHANGED <<archive, subscribed, queue, shut, cut, wire, linked, heard>>

(* Any other answer that changes nothing is written the same way.          *)
SendList(c) ==
  /\ pc[c] = "listing" /\ Writable(c)
  /\ wire' = [wire EXCEPT ![c] = Append(@, List(page[c]))]
  /\ page' = [page EXCEPT ![c] = {}]
  /\ Go(c, "idle")
  /\ UNCHANGED <<archive, subscribed, queue, shut, cut, linked, heard>>

(* The session ends: its read returned the end of a socket that is shut,   *)
(* or its write of a list failed.  The Subscription is dropped with it.    *)
SessionEnds(c) ==
  /\ \/ pc[c] = "idle" /\ c \in shut
     \/ pc[c] = "listing" /\ ~Writable(c)
  /\ Go(c, "gone")
  /\ page' = [page EXCEPT ![c] = {}]
  /\ shut' = shut \cup {c}
  /\ subscribed' = subscribed \ {c}
  /\ queue' = [queue EXCEPT ![c] = <<>>]
  /\ cut' = cut \ {c}
  /\ UNCHANGED <<archive, socket>>

-----------------------------------------------------------------------------
(* The client's end of the connection. *)

(* The greeting, and the subscription before any request is served.        *)
Connect(c) ==
  /\ c \notin linked /\ pc[c] = "gone"
  /\ linked' = linked \cup {c}
  /\ subscribed' = subscribed \cup {c}
  /\ shut' = shut \ {c}
  /\ heard' = [heard EXCEPT ![c] = told]
  /\ Go(c, "idle")
  /\ UNCHANGED <<archive, page, queue, cut, wire>>

Read(c) ==
  /\ c \in linked /\ wire[c] # <<>>
  /\ wire' = [wire EXCEPT ![c] = Tail(@)]
  /\ heard' = [heard EXCEPT ![c] = Follow(@, Head(wire[c]))]
  /\ UNCHANGED <<archive, daemon, linked>>

(* Everything written before the socket was shut has been read.            *)
Lose(c) ==
  /\ c \in linked \cap shut /\ wire[c] = <<>>
  /\ linked' = linked \ {c}
  /\ UNCHANGED <<archive, daemon, wire, heard>>

-----------------------------------------------------------------------------
Edit(t) ==
  \/ t \in Expirers /\ Expire(t)
  \/ t \in Recorders /\ (Record(t) \/ Touch(t))
  \/ t \in Curators /\ (SetPinned(t) \/ Remove(t) \/ Clear(t))

Tell(t) == Answer(t) \/ AnswerFails(t) \/ Broadcast(t) \/ Told(t)

Work(c) == Notify(c) \/ NotifyFails(c) \/ WorkerEnds(c)

Serve(c) == ReadList(c) \/ SendList(c) \/ SessionEnds(c)

Listen(c) == Connect(c) \/ Read(c) \/ Lose(c)

Next ==
  \/ \E t \in Threads : Edit(t) \/ Tell(t)
  \/ \E c \in Clients : Work(c) \/ Serve(c) \/ Listen(c)

Spec == Init /\ [][Next]_vars

-----------------------------------------------------------------------------
(* Properties. *)

(* A watcher never misses an event and knows nothing of it: while its      *)
(* connection stands, what it has heard, what is on the wire and what is    *)
(* queued add up to everything broadcast since it connected.               *)
NoGap ==
  \A c \in subscribed \ (shut \cup cut) :
    FollowAll(FollowAll(heard[c], wire[c]), queue[c]) = told

(* Watchers learn what happened to the archive: once every thread has      *)
(* broadcast what it did, the broadcasts describe the archive.             *)
WatchersLearn ==
  (\A t \in Threads : pc[t] \in {"idle", "listing", "gone"}) => told = shelf

(* No thread waits for a client: what a thread has to tell it tells, and   *)
(* its session goes on or ends, also when no client ever reads.            *)
NeverBlocked ==
  \A t \in Threads : pc[t] \notin {"idle", "gone"} ~> pc[t] \in {"idle", "gone"}

(* The daemon's threads go on, and a blocked write times out.  Clients     *)
(* owe nothing.                                                            *)
DaemonFairness ==
  /\ \A t \in Threads : WF_vars(Tell(t))
  /\ \A c \in Clients : WF_vars(Work(c)) /\ WF_vars(SendList(c) \/ SessionEnds(c))

FairSpec == Spec /\ DaemonFairness
=============================================================================
