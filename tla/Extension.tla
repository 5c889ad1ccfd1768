----------------------------- MODULE Extension -----------------------------
(***************************************************************************)
(* The GNOME extension as it feeds the daemon: capture.js, which turns each*)
(* change of the clipboard into a draft, over client.js, which keeps one   *)
(* connection, queues what is written to it and settles what was asked, and*)
(* a daemon that accepts, serves, exits when idle and may crash.           *)
(*                                                                         *)
(* A link is a connection, numbered; a job is one run of Capture._record() *)
(* and is numbered as the copy whose event started it.  The names that     *)
(* Picker has as well begin with Ext, so that a module may extend both.    *)
(***************************************************************************)
EXTENDS Integers, Sequences, FiniteSets

CONSTANTS
  Wanted,      \* how many representations a copy offers that are recordable
  MaxCopies,   \* bound on the copies made
  MaxQueries,  \* bound on the picker's requests
  MaxLinks,    \* bound on the connections made
  Faults       \* what may go wrong, see FaultKinds

(* break  a link dies, with the daemon or alone                            *)
(* full   the daemon has no place for another connection                   *)
(* read   a representation cannot be transferred, or read back, to its end *)
(* store  the archive refuses or fails a part, or a commit                 *)
FaultKinds == {"break", "full", "read", "store"}

ASSUME ExtensionAssumption ==
  /\ Wanted \in Nat \ {0} /\ MaxCopies \in Nat /\ MaxQueries \in Nat /\ MaxLinks \in Nat \ {0}
  /\ Faults \subseteq FaultKinds

VARIABLES
  copy,        \* what is on the clipboard now, 0 for nothing
  jobs,        \* the jobs, by the copy whose owner-changed queued them
  queries,     \* how many requests the picker has made
  link,        \* Client._connection, 0 for null
  greeted,     \* the greeting was read, and _dispatch() runs
  links,       \* how many connections were made
  pending,     \* Client._pending: the requests nobody has settled
  nextReq,     \* Client._nextReq
  chain,       \* Client._writing: the operations not done, in order
  up,          \* per link, the frames on their way to the daemon
  down,        \* per link, the frames on their way to the client
  session,     \* per link, the daemon's end of it
  exiting,     \* the idle exit has found no connection
  archived,    \* the entries committed, each the parts of its draft
  illegal      \* the links whose grammar was broken

capture == <<copy, jobs, queries>>
client == <<link, greeted, links, pending, nextReq, chain>>
wires == <<up, down>>
daemon == <<session, exiting, archived, illegal>>
extVars == <<capture, client, wires, daemon>>

Jobs == 1 .. MaxCopies
Links == 1 .. MaxLinks
Reqs == 1 .. MaxQueries + MaxCopies * (Wanted + 2)

(* What a part carries: which job staged which copy's representation.      *)
Contents == [job : Jobs, copy : Jobs, mime : 1 .. Wanted]
Nothing == [job |-> 0, copy |-> 0, mime |-> 0]

(* idle     its event has not happened                                     *)
(* queued   behind the jobs before it                                      *)
(* begin, part, commit, abort   it awaits the answer to that request       *)
(* next     between two representations                                    *)
Stages == {"idle", "queued", "begin", "next", "part", "commit", "abort", "done"}
Waits == {"begin", "part", "commit", "abort"}

(* done counts the representations tried, any says one was sent; got is the*)
(* word on request req.                                                    *)
NoJob == [stage |-> "idle", draft |-> 0, done |-> 0, req |-> 0, got |-> "none", any |-> FALSE]

(* backlog  connected, not accepted         served  Session.run()          *)
(* none     never made                      ended   the daemon's end is    *)
(* part is the draft whose chunks are awaited, 0 for none; got, the draft's*)
(* parts so far: a set of [content, whole].                                *)
NoSession == [state |-> "none", next |-> 1, drafts |-> <<>>, part |-> 0,
              req |-> 0, content |-> Nothing, whole |-> FALSE]

ExtTypeOK ==
  /\ copy \in 0 .. MaxCopies
  /\ \A j \in Jobs : /\ jobs[j].stage \in Stages
                     /\ jobs[j].done \in 0 .. Wanted
                     /\ jobs[j].got \in {"none", "ok", "failed"}
  /\ link \in 0 .. links /\ links \in 0 .. MaxLinks
  /\ (greeted => link # 0)
  /\ pending \subseteq Reqs
  /\ \A i \in DOMAIN chain : chain[i].link \in 0 .. links
  /\ nextReq \in 1 .. Cardinality(Reqs) + 1
  /\ \A l \in Links : session[l].state \in {"none", "backlog", "served", "ended"}
  /\ \A e \in archived : \A p \in e : p.content \in Contents

ExtInit ==
  /\ copy = 0 /\ queries = 0
  /\ jobs = [j \in Jobs |-> NoJob]
  /\ link = 0 /\ greeted = FALSE /\ links = 0
  /\ pending = {} /\ nextReq = 1 /\ chain = <<>>
  /\ up = [l \in Links |-> <<>>] /\ down = [l \in Links |-> <<>>]
  /\ session = [l \in Links |-> NoSession]
  /\ exiting = FALSE /\ archived = {} /\ illegal = {}

May(fault) == fault \in Faults

-----------------------------------------------------------------------------
(* Client: requests, the chain of writes and what settles a request. *)

(* _request() and part(): the request is pending before it is written, and *)
(* what is queued remembers the connection of this moment.                 *)
Issue(op, draft, content) ==
  /\ pending' = pending \cup {nextReq}
  /\ chain' = Append(chain, [link |-> link, op |-> op, req |-> nextReq,
                             draft |-> draft, content |-> content])
  /\ nextReq' = nextReq + 1
  /\ UNCHANGED <<link, greeted, links>>

(* What the jobs that await these requests are told; the first word stands.*)
Settled(reqs, got, draft) ==
  [j \in Jobs |->
     IF jobs[j].req \in reqs /\ jobs[j].got = "none"
     THEN [jobs[j] EXCEPT !.got = got, !.draft = IF draft = 0 THEN @ ELSE draft]
     ELSE jobs[j]]

Failed(reqs) == Settled(reqs, "failed", 0)

(* The daemon's end is closed: reading ends, and a write fails.            *)
Dead(l) == l # 0 /\ session[l].state = "ended"

Put(frame) == up' = [up EXCEPT ![link] = Append(@, frame)]

(* _enqueue() and _writeAll(): nothing is written to another connection    *)
(* than the one the operation was queued for.                              *)
Writable(op) == op.link = link /\ link # 0 /\ ~Dead(link)

Running == Head(chain)

(* A request's one frame. *)
WriteRequest ==
  /\ chain # <<>> /\ Running.op \in {"begin", "commit", "abort", "query"}
  /\ Writable(Running)
  /\ Put([op |-> Running.op, req |-> Running.req, draft |-> Running.draft])
  /\ chain' = Tail(chain)
  /\ UNCHANGED <<capture, link, greeted, links, pending, nextReq, down, daemon>>

RequestFails ==
  /\ chain # <<>> /\ Running.op \in {"begin", "commit", "abort", "query"}
  /\ ~Writable(Running)
  /\ chain' = Tail(chain)
  /\ pending' = pending \ {Running.req}
  /\ jobs' = Failed({Running.req})
  /\ UNCHANGED <<copy, queries, link, greeted, links, nextReq, wires, daemon>>

Continue(op) == chain' = <<[Running EXCEPT !.op = op]>> \o Tail(chain)

(* part() holds the chain from its head to its terminator: "part" writes   *)
(* the head, "chunk" a chunk and the stream's end, "end" the terminator.   *)
WritePart ==
  /\ chain # <<>> /\ Writable(Running)
  /\ \/ /\ Running.op = "part" /\ Continue("chunk")
        /\ Put([op |-> "head", req |-> Running.req, draft |-> Running.draft,
                content |-> Running.content])
     \/ Running.op = "chunk" /\ Continue("end") /\ Put([op |-> "chunk"])
     \/ Running.op = "end" /\ chain' = Tail(chain) /\ Put([op |-> "end"])
  /\ UNCHANGED <<capture, link, greeted, links, pending, nextReq, down, daemon>>

(* A write of it fails. Only where its head was to be written for another  *)
(* connection does the request stay in the map.                            *)
PartFails ==
  /\ chain # <<>> /\ Running.op \in {"part", "chunk", "end"}
  /\ ~Writable(Running)
  /\ chain' = Tail(chain)
  /\ pending' = IF Running.op = "end" \/ (Running.op = "part" /\ Running.link # link)
                THEN pending ELSE pending \ {Running.req}
  /\ jobs' = Failed({Running.req})
  /\ UNCHANGED <<copy, queries, link, greeted, links, nextReq, wires, daemon>>

(* Deviation: a stream that fails is left without its terminator.          *)
StreamFailsSilently ==
  /\ May("read")
  /\ chain # <<>> /\ Running.op = "chunk"
  /\ chain' = Tail(chain)
  /\ pending' = pending \ {Running.req}
  /\ jobs' = Failed({Running.req})
  /\ UNCHANGED <<copy, queries, link, greeted, links, nextReq, wires, daemon>>

(* The stream fails: the terminator is sent and the caller told.           *)
StreamFails ==
  /\ May("read")
  /\ chain # <<>> /\ Running.op = "chunk"
  /\ chain' = Tail(chain)
  /\ pending' = pending \ {Running.req}
  /\ jobs' = Failed({Running.req})
  /\ IF Writable(Running) THEN Put([op |-> "end"]) ELSE UNCHANGED up
  /\ UNCHANGED <<copy, queries, link, greeted, links, nextReq, down, daemon>>

(* _dispatch(): the next answer goes to whoever asked.                     *)
Dispatch ==
  /\ link # 0 /\ greeted /\ down[link] # <<>>
  /\ LET frame == Head(down[link])
     IN /\ pending' = pending \ {frame.req}
        /\ jobs' = IF frame.req \in pending
                   THEN Settled({frame.req}, IF frame.ok THEN "ok" ELSE "failed", frame.draft)
                   ELSE jobs
  /\ down' = [down EXCEPT ![link] = Tail(@)]
  /\ UNCHANGED <<copy, queries, link, greeted, links, nextReq, chain, up, daemon>>

-----------------------------------------------------------------------------
(* Client: the connection. *)

(* _connect(): the connection is remembered before its greeting is read.   *)
MakeLink ==
  /\ link = 0 /\ links < MaxLinks
  /\ links' = links + 1
  /\ link' = links'
  /\ up' = [up EXCEPT ![links'] = <<[op |-> "hello"]>>]
  /\ session' = [session EXCEPT ![links'] = [NoSession EXCEPT !.state = "backlog"]]
  /\ UNCHANGED <<capture, greeted, pending, nextReq, chain, down, exiting, archived,
                 illegal>>

Greeted ==
  /\ link # 0 /\ ~greeted /\ down[link] # <<>>
  /\ greeted' = TRUE
  /\ down' = [down EXCEPT ![link] = Tail(@)]
  /\ UNCHANGED <<capture, link, links, pending, nextReq, chain, up, daemon>>

(* Deviation: a torn down connection forgets what is pending.              *)
RetryForgetful ==
  /\ link # 0 /\ Dead(link) /\ down[link] = <<>>
  /\ link' = 0 /\ greeted' = FALSE
  /\ pending' = {}
  /\ UNCHANGED <<capture, links, nextReq, chain, wires, daemon>>

(* Deviation: the next connection counts as greeted.                       *)
RetryGreeted ==
  /\ link # 0 /\ Dead(link) /\ down[link] = <<>>
  /\ link' = 0
  /\ pending' = {}
  /\ jobs' = Failed(pending)
  /\ UNCHANGED <<copy, queries, greeted, links, nextReq, chain, wires, daemon>>

(* _retry() and _teardown(): everything pending is rejected, and the timer *)
(* that connects again is all that is left.                                *)
Retry ==
  /\ link # 0 /\ Dead(link) /\ down[link] = <<>>
  /\ link' = 0 /\ greeted' = FALSE
  /\ pending' = {}
  /\ jobs' = Failed(pending)
  /\ UNCHANGED <<copy, queries, links, nextReq, chain, wires, daemon>>

-----------------------------------------------------------------------------
(* Capture: one job a copy, one job at a time. *)

OwnerChanged ==
  /\ copy < MaxCopies
  /\ copy' = copy + 1
  /\ jobs' = [jobs EXCEPT ![copy'].stage = "queued"]
  /\ UNCHANGED <<queries, client, wires, daemon>>

(* Deviation: an event is run at once. *)
TurnAtOnce(j) == jobs[j].stage = "queued"

(* Capture._queue: behind every event before it.                           *)
Turn(j) ==
  /\ jobs[j].stage = "queued"
  /\ \A i \in 1 .. j - 1 : jobs[i].stage = "done"

Done(j) == [jobs EXCEPT ![j] = [NoJob EXCEPT !.stage = "done"]]

Awaiting(j, stage) ==
  [jobs EXCEPT ![j].stage = stage, ![j].req = nextReq, ![j].got = "none"]

(* An await comes back with the write done and the answer there.           *)
Answered(j) ==
  /\ jobs[j].got # "none"
  /\ \A i \in DOMAIN chain : chain[i].req # jobs[j].req

Start(j) ==
  /\ Turn(j)
  /\ IF link = 0
     THEN jobs' = Done(j) /\ UNCHANGED client
     ELSE /\ Issue("begin", 0, Nothing)
          /\ jobs' = Awaiting(j, "begin")
  /\ UNCHANGED <<copy, queries, wires, daemon>>

Begun(j) ==
  /\ jobs[j].stage = "begin" /\ Answered(j)
  /\ jobs' = IF jobs[j].got = "ok" THEN [jobs EXCEPT ![j].stage = "next"] ELSE Done(j)
  /\ UNCHANGED <<copy, queries, client, wires, daemon>>

(* _recordOne(): a representation of whatever is on the clipboard by now   *)
(* is staged and streamed, or it cannot be and costs the entry no more.    *)
RecordOne(j) ==
  /\ jobs[j].stage = "next" /\ jobs[j].done < Wanted
  /\ LET mime == jobs[j].done + 1
     IN \/ /\ Issue("part", jobs[j].draft, [job |-> j, copy |-> copy, mime |-> mime])
           /\ jobs' = [Awaiting(j, "part") EXCEPT ![j].done = mime]
        \/ /\ May("read")
           /\ jobs' = [jobs EXCEPT ![j].done = mime]
           /\ UNCHANGED client
  /\ UNCHANGED <<copy, queries, wires, daemon>>

(* Deviation: a part that failed costs the entry only that part.           *)
RecordedSkipping(j) ==
  /\ jobs[j].stage = "part" /\ Answered(j)
  /\ jobs' = [jobs EXCEPT ![j].stage = "next", ![j].any = TRUE]
  /\ UNCHANGED <<copy, queries, client, wires, daemon>>

(* A part that failed has left something of it in the draft.               *)
Recorded(j) ==
  /\ jobs[j].stage = "part" /\ Answered(j)
  /\ IF jobs[j].got = "ok"
     THEN jobs' = [jobs EXCEPT ![j].stage = "next", ![j].any = TRUE] /\ UNCHANGED client
     ELSE Issue("abort", jobs[j].draft, Nothing) /\ jobs' = Awaiting(j, "abort")
  /\ UNCHANGED <<copy, queries, wires, daemon>>

Finish(j) ==
  /\ jobs[j].stage = "next" /\ jobs[j].done = Wanted
  /\ LET op == IF jobs[j].any THEN "commit" ELSE "abort"
     IN Issue(op, jobs[j].draft, Nothing) /\ jobs' = Awaiting(j, op)
  /\ UNCHANGED <<copy, queries, wires, daemon>>

Finished(j) ==
  /\ jobs[j].stage \in {"commit", "abort"} /\ Answered(j)
  /\ jobs' = Done(j)
  /\ UNCHANGED <<copy, queries, client, wires, daemon>>

(* The picker asks something of its own through the same client.           *)
Query ==
  /\ queries < MaxQueries
  /\ queries' = queries + 1
  /\ Issue("query", 0, Nothing)
  /\ UNCHANGED <<copy, jobs, wires, daemon>>

-----------------------------------------------------------------------------
(* The daemon: server.rs, maintenance.rs, and session.rs as far as a       *)
(* recording client sees it (the module Session has the rest).             *)

Say(l, req, ok, draft) ==
  down' = [down EXCEPT ![l] = Append(@, [req |-> req, ok |-> ok, draft |-> draft])]

(* Admission, which may find no place.                                     *)
Accept(l) ==
  /\ session[l].state = "backlog"
  /\ \E state \in {"served"} \cup IF May("full") /\ links < MaxLinks THEN {"ended"} ELSE {} :
       session' = [session EXCEPT ![l].state = state]
  /\ UNCHANGED <<capture, client, wires, exiting, archived, illegal>>

Ended(l) == [session EXCEPT ![l] = [NoSession EXCEPT !.state = "ended"]]

InPart(l) == session[l].req # 0

Frame(l) == Head(up[l])

(* Whether the archive does what a known draft asks of it.                 *)
Stores(known) == IF known /\ May("store") THEN {TRUE, FALSE} ELSE {known}

TakeHello(l) ==
  /\ Frame(l).op = "hello"
  /\ Say(l, 0, TRUE, 0)
  /\ UNCHANGED <<session, archived, illegal>>

TakeBegin(l) ==
  /\ Frame(l).op = "begin"
  /\ LET d == session[l].next
         drafts == session[l].drafts
     IN /\ session' = [session EXCEPT ![l].next = d + 1,
                          ![l].drafts = [e \in DOMAIN drafts \cup {d} |->
                                           IF e = d THEN {} ELSE drafts[e]]]
        /\ Say(l, Frame(l).req, TRUE, d)
  /\ UNCHANGED <<archived, illegal>>

TakeHead(l) ==
  /\ Frame(l).op = "head"
  /\ session' = [session EXCEPT ![l].req = Frame(l).req, ![l].part = Frame(l).draft,
                                ![l].content = Frame(l).content]
  /\ UNCHANGED <<down, archived, illegal>>

TakeChunk(l) ==
  /\ Frame(l).op = "chunk"
  /\ session' = [session EXCEPT ![l].whole = TRUE]
  /\ UNCHANGED <<down, archived, illegal>>

(* The terminator: the part is the draft's, or was drained for no draft.   *)
TakeEnd(l) ==
  /\ Frame(l).op = "end"
  /\ LET s == session[l]
         part == [content |-> s.content, whole |-> s.whole]
     IN \E kept \in Stores(s.part \in DOMAIN s.drafts) :
          /\ session' = [session EXCEPT ![l] =
                            [s EXCEPT !.req = 0, !.part = 0, !.content = Nothing, !.whole = FALSE,
                                      !.drafts = IF kept
                                                 THEN [s.drafts EXCEPT ![s.part] = @ \cup {part}]
                                                 ELSE s.drafts]]
          /\ Say(l, s.req, kept, 0)
  /\ UNCHANGED <<archived, illegal>>

Without(l) ==
  LET drafts == session[l].drafts
  IN [session EXCEPT ![l].drafts = [d \in DOMAIN drafts \ {Frame(l).draft} |-> drafts[d]]]

TakeCommit(l) ==
  /\ Frame(l).op = "commit"
  /\ LET drafts == session[l].drafts
     IN \E kept \in Stores(Frame(l).draft \in DOMAIN drafts) :
          /\ archived' = IF kept THEN archived \cup ({drafts[Frame(l).draft]} \ {{}})
                         ELSE archived
          /\ Say(l, Frame(l).req, kept, 0)
  /\ session' = Without(l)
  /\ UNCHANGED illegal

TakeAbort(l) ==
  /\ Frame(l).op = "abort"
  /\ session' = Without(l)
  /\ Say(l, Frame(l).req, TRUE, 0)
  /\ UNCHANGED <<archived, illegal>>

TakeQuery(l) ==
  /\ Frame(l).op = "query"
  /\ Say(l, Frame(l).req, TRUE, 0)
  /\ UNCHANGED <<session, archived, illegal>>

(* Another frame among a part's chunks ends the connection; a chunk that   *)
(* no part announced is refused.                                           *)
TakeStray(l) ==
  /\ IF InPart(l) THEN session' = Ended(l) /\ UNCHANGED down
     ELSE Say(l, 0, FALSE, 0) /\ UNCHANGED session
  /\ illegal' = illegal \cup {l}
  /\ UNCHANGED archived

(* One frame of a connection, in the order sent.                           *)
Take(l) ==
  /\ session[l].state = "served" /\ up[l] # <<>>
  /\ up' = [up EXCEPT ![l] = Tail(@)]
  /\ IF InPart(l) = (Frame(l).op \in {"chunk", "end"})
     THEN \/ TakeHello(l) \/ TakeBegin(l) \/ TakeHead(l) \/ TakeChunk(l) \/ TakeEnd(l)
          \/ TakeCommit(l) \/ TakeAbort(l) \/ TakeQuery(l)
     ELSE TakeStray(l)
  /\ UNCHANGED <<capture, client, exiting>>

(* A link ends with what was on its way to the daemon; what was on its way *)
(* to the client may be lost too.                                          *)
Cut(cut) ==
  /\ session' = [l \in Links |-> IF l \in cut THEN Ended(l)[l] ELSE session[l]]
  /\ up' = [l \in Links |-> IF l \in cut THEN <<>> ELSE up[l]]
  /\ down' \in {down, [l \in Links |-> IF l \in cut THEN <<>> ELSE down[l]]}
  /\ UNCHANGED <<capture, client, archived, illegal>>

Break(l) ==
  /\ May("break") /\ links < MaxLinks
  /\ session[l].state = "served"
  /\ Cut({l})
  /\ UNCHANGED exiting

Served == {l \in Links : session[l].state = "served"}

(* maintenance reads CONNECTED and then exits; the listening socket and    *)
(* its backlog are the service manager's, and so is the next daemon.       *)
FindIdle ==
  /\ ~exiting /\ Served = {} /\ links < MaxLinks
  /\ exiting' = TRUE
  /\ UNCHANGED <<capture, client, wires, session, archived, illegal>>

Exit ==
  /\ exiting
  /\ exiting' = FALSE
  /\ Cut(Served)

-----------------------------------------------------------------------------
Client ==
  \/ WriteRequest \/ RequestFails \/ WritePart \/ PartFails \/ StreamFails
  \/ Dispatch \/ MakeLink \/ Greeted \/ Retry

Job(j) ==
  Start(j) \/ Begun(j) \/ RecordOne(j) \/ Recorded(j) \/ Finish(j) \/ Finished(j)

ServeLink(l) == Accept(l) \/ Take(l)

ExtNext ==
  \/ OwnerChanged \/ Query
  \/ Client
  \/ \E j \in Jobs : Job(j)
  \/ \E l \in Links : ServeLink(l) \/ Break(l)
  \/ FindIdle \/ Exit

ExtSpec == ExtInit /\ [][ExtNext]_extVars

(* The shell's main loop and each of the daemon's threads go on. *)
ExtFairSpec ==
  /\ ExtSpec
  /\ WF_extVars(Client)
  /\ WF_extVars(\E j \in Jobs : Job(j))
  /\ \A l \in Links : WF_extVars(ServeLink(l))

-----------------------------------------------------------------------------
(* Properties. *)

(* No entry is made of half a representation, nor of two drafts: whatever  *)
(* breaks between two chunks, and though draft numbers begin again with    *)
(* every connection, what is committed is what one job has streamed whole. *)
OneDraft ==
  \A entry \in archived : \A p, q \in entry :
    p.whole /\ p.content.job = q.content.job

(* The daemon never sees a chunk that no part announced, nor another frame *)
(* among a part's chunks: not when the picker asks in the middle of a part,*)
(* not when the connection is made anew there.                             *)
Legal == illegal = {}

(* However often the clipboard changes and the connection breaks, a        *)
(* connection has one draft open at most: none is left behind by a job that*)
(* is done, so four of them never stand in the way of the next copy.       *)
OneOpen == \A l \in Links : Cardinality(DOMAIN session[l].drafts) <= 1

(* An entry is one copy's: capture.js queues the events so that "a source  *)
(* that asserts the clipboard twice in quick succession must not have its  *)
(* two transfers interleaved into one draft".                              *)
OneCopy ==
  \A entry \in archived : \A p, q \in entry : p.content.copy = q.content.copy

(* No event holds up those behind it for ever: whatever breaks, each is    *)
(* done with in the end.                                                   *)
GoesOn == \A j \in Jobs : jobs[j].stage = "queued" ~> jobs[j].stage = "done"
=============================================================================
