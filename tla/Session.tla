------------------------------ MODULE Session ------------------------------
(***************************************************************************)
(* One connection's conversation: daemon/src/session.rs over the stream of *)
(* frames and payloads a client sends, and what it writes back through     *)
(* daemon/src/outbox.rs beside the connection's notification worker.       *)
(*                                                                         *)
(* A stream is a sequence of frames and payload bytes, in both directions. *)
(* A byte carries nothing; what matters is who takes it for what.          *)
(***************************************************************************)
EXTENDS Integers, Sequences, FiniteSets

CONSTANTS
  MaxDrafts,   \* drafts a connection may have open (4 in the code)
  MaxParts,    \* kind::MAX_REPRESENTATIONS (8 in the code)
  MaxBytes,    \* bound on the bytes of one payload
  Drafts,      \* the draft numbers that clients name
  MaxReqs,     \* bound on the requests a client sends
  MaxChunks,   \* bound on the chunks it sends
  MaxEvents,   \* bound on the broadcasts
  Window,      \* tokens a client may be ahead of the session
  Faults       \* what may go wrong, see FaultKinds

(* store   a call of the store fails or refuses                            *)
(* hangup  the client goes, in the middle of anything                      *)
(* misuse  the client breaks the grammar of requests, never the framing    *)
(* write   a write times out or finds the connection reset                 *)
FaultKinds == {"store", "hangup", "misuse", "write"}

ASSUME SessionAssumption ==
  /\ {MaxDrafts, MaxParts, MaxBytes, MaxReqs, MaxChunks, MaxEvents, Window} \subseteq Nat
  /\ Drafts \subseteq Nat \ {0}
  /\ Faults \subseteq FaultKinds

VARIABLES
  input,       \* what the client has sent and the session has not read
  closed,      \* the client sends nothing any more
  sent,        \* how many requests it has sent
  chunked,     \* it is between a part without a length and its terminator
  chunks,      \* how many chunks it has sent
  role,        \* Session.role, or "none" before the greeting
  pc,          \* where the session is
  part,        \* the part or the payload being read
  drafts,      \* the open drafts: how many parts each holds
  nextDraft,   \* Session.next_draft
  reader,      \* what the client has made of what was written to it
  unwritten,   \* the payload bytes of the blob being written, lock held
  events       \* how many broadcasts the worker has written

client == <<closed, sent, chunked, chunks>>
state == <<role, part, drafts, nextDraft>>
vars == <<input, client, state, pc, reader, unwritten, events>>

Byte == [op |-> "byte"]
Bytes(n) == [i \in 1 .. n |-> Byte]
Lengths == 0 .. MaxBytes
Roles == {"capture", "ui", "both"}

Hello(r, good) == [op |-> "hello", role |-> r, good |-> good]
Begin(q) == [op |-> "begin", req |-> q]
Part(q, d, n) == [op |-> "part", req |-> q, draft |-> d, bytes |-> n]
Streamed(q, d) == [op |-> "streamed", req |-> q, draft |-> d]
Chunk(n) == [op |-> "chunk", bytes |-> n]
Commit(q, d) == [op |-> "commit", req |-> q, draft |-> d]
Abort(q, d) == [op |-> "abort", req |-> q, draft |-> d]
Fetch(q) == [op |-> "fetch", req |-> q]
Query(q) == [op |-> "query", req |-> q]
Garbage == [op |-> "garbage"]

Requests == 1 .. MaxReqs
Token ==
  [op : {"byte", "garbage"}] \cup [op : {"hello"}, role : Roles, good : BOOLEAN]
  \cup [op : {"begin", "fetch"}, req : Requests]
  \cup [op : {"query"}, req : {0} \cup Requests]
  \cup [op : {"part"}, req : Requests, draft : Drafts, bytes : Lengths]
  \cup [op : {"streamed", "commit", "abort"}, req : Requests, draft : Drafts]
  \cup [op : {"chunk"}, bytes : Lengths]

(* PartOutcome, before it is known and after. *)
Outcomes == {"pending", "recorded", "nodraft", "failed"}
PartState ==
  [req : {0} \cup Requests, draft : {0} \cup Drafts, stray : BOOLEAN, chunked : BOOLEAN,
   outcome : Outcomes, bytes : Lengths, read : Lengths, left : Lengths]
NoPart == [req |-> 0, draft |-> 0, stray |-> FALSE, chunked |-> FALSE,
           outcome |-> "pending", bytes |-> 0, read |-> 0, left |-> 0]

(* greeting   the first frame is awaited                                   *)
(* frames     between two requests                                         *)
(* taking     the store reads the payload                                  *)
(* draining   a payload nobody can use is read to its end                  *)
(* chunks     between two chunks of a part without a length                *)
(* finished   the part's payload is read; it is not answered               *)
(* blob       a payload is being written, under the writer lock            *)
(* ending     run() has returned; nothing is dropped yet                   *)
Places == {"greeting", "frames", "taking", "draining", "chunks", "finished",
           "blob", "ending", "over"}

TypeOK ==
  /\ closed \in BOOLEAN /\ chunked \in BOOLEAN
  /\ sent \in 0 .. MaxReqs /\ chunks \in 0 .. MaxChunks
  /\ role \in Roles \cup {"none"}
  /\ pc \in Places
  /\ input \in Seq(Token)
  /\ part \in PartState /\ part.read <= part.bytes
  /\ \E open \in SUBSET Requests : drafts \in [open -> 0 .. MaxParts]
  /\ Cardinality(DOMAIN drafts) <= MaxDrafts
  /\ nextDraft \in 1 .. MaxReqs + 1 /\ \A d \in DOMAIN drafts : d < nextDraft
  /\ unwritten \in Lengths
  /\ reader \in [last : {0} \cup Requests, ordered : BOOLEAN, owed : Lengths, whole : BOOLEAN]
  /\ events \in 0 .. MaxEvents

Init ==
  /\ input = <<>>
  /\ closed = FALSE /\ sent = 0 /\ chunked = FALSE /\ chunks = 0
  /\ role = "none"
  /\ pc = "greeting"
  /\ part = NoPart
  /\ drafts = <<>> /\ nextDraft = 1
  /\ reader = [last |-> 0, ordered |-> TRUE, owed |-> 0, whole |-> TRUE]
  /\ unwritten = 0 /\ events = 0

May(fault) == fault \in Faults

-----------------------------------------------------------------------------
(* The client. *)

Send(tokens) ==
  /\ ~closed
  /\ Len(input) + Len(tokens) <= Window
  /\ input' = input \o tokens
  /\ UNCHANGED <<state, pc, reader, unwritten, events, closed>>

SendHello ==
  /\ sent = 0 /\ input = <<>> /\ pc = "greeting"
  /\ \/ \E r \in Roles : Send(<<Hello(r, TRUE)>>)
     \/ May("misuse") /\ (Send(<<Hello("ui", FALSE)>>) \/ Send(<<Query(0)>>))
  /\ UNCHANGED <<sent, chunked, chunks>>

(* One request, with its payload; requests are sent ahead of the answers.  *)
SendRequest ==
  /\ sent < MaxReqs
  /\ pc # "greeting"
  /\ chunked => May("misuse")
  /\ LET q == sent + 1
         now == \/ Send(<<Begin(q)>>) \/ Send(<<Query(q)>>) \/ Send(<<Fetch(q)>>)
                \/ \E d \in Drafts :
                     \/ Send(<<Commit(q, d)>>) \/ Send(<<Abort(q, d)>>)
                     \/ \E n \in Lengths : Send(<<Part(q, d, n)>> \o Bytes(n))
     IN \/ now /\ UNCHANGED chunked
        \/ \E d \in Drafts : Send(<<Streamed(q, d)>>) /\ chunked' = TRUE
  /\ sent' = sent + 1
  /\ UNCHANGED chunks

(* A chunk, or the terminator of the part: a chunk of no bytes.            *)
SendChunk ==
  /\ chunks < MaxChunks
  /\ pc # "greeting"
  /\ chunked \/ May("misuse")
  /\ \E n \in Lengths :
       /\ Send(<<Chunk(n)>> \o Bytes(n))
       /\ chunked' = (chunked /\ n # 0)
  /\ chunks' = chunks + 1
  /\ UNCHANGED sent

SendGarbage ==
  /\ May("misuse")
  /\ pc # "greeting"
  /\ Send(<<Garbage>>)
  /\ UNCHANGED <<sent, chunked, chunks>>

(* The client goes; what it was sending is cut anywhere.                   *)
Hangup ==
  /\ ~closed
  /\ closed' = TRUE
  /\ \E k \in 0 .. Len(input) :
       /\ k = Len(input) \/ May("hangup")
       /\ input' = SubSeq(input, 1, k)
  /\ UNCHANGED <<sent, chunked, chunks, state, pc, reader, unwritten, events>>

-----------------------------------------------------------------------------
(* Reading and answering. *)

Has(op) == input # <<>> /\ Head(input).op = op
Ended == input = <<>> /\ closed
Go(place) == pc' = place

(* The client takes what is written to it for the rest of a payload it was *)
(* promised, or for a frame: an answer, or without a number an event.      *)
Written(token) ==
  reader' =
    IF reader.owed > 0
    THEN [reader EXCEPT !.owed = @ - 1, !.whole = @ /\ token = Byte]
    ELSE [reader EXCEPT !.owed = IF token.op = "blob" THEN token.bytes ELSE 0,
            !.last = IF token.req = 0 THEN @ ELSE token.req,
            !.ordered = @ /\ token.req \in {0, reader.last + 1}]

Answer(q) == [op |-> "answer", req |-> q]
Event == [op |-> "event", req |-> 0]

(* A write that fails ends the session; the connection is closed later.    *)
Reply(q) ==
  \/ Written(Answer(q)) /\ Go("frames")
  \/ May("write") /\ UNCHANGED reader /\ Go("ending")

(* read_frame() at `place`, of a frame of kind `op`. *)
Take(place, op) ==
  /\ pc = place /\ Has(op)
  /\ input' = Tail(input)
  /\ UNCHANGED <<client, events>>

Greet ==
  /\ pc = "greeting"
  /\ \/ /\ Take("greeting", "hello")
        /\ IF Head(input).good
           THEN role' = Head(input).role /\ Reply(0)
           ELSE Written(Answer(0)) /\ Go("ending") /\ UNCHANGED role
     \/ /\ input # <<>> /\ Head(input).op # "hello"
        /\ input' = Tail(input) /\ Go("ending")
        /\ UNCHANGED <<client, role, reader, events>>
  /\ UNCHANGED <<part, drafts, nextDraft, unwritten>>

Records == role \in {"capture", "both"}
Watches == role \in {"ui", "both"}

BeginDraft ==
  /\ Take("frames", "begin")
  /\ IF Records /\ Cardinality(DOMAIN drafts) < MaxDrafts
     THEN /\ drafts' = [d \in DOMAIN drafts \cup {nextDraft} |->
                          IF d = nextDraft THEN 0 ELSE drafts[d]]
          /\ nextDraft' = nextDraft + 1
          /\ Reply(Head(input).req)
     ELSE /\ Reply(Head(input).req)
          /\ UNCHANGED <<drafts, nextDraft>>
  /\ UNCHANGED <<role, part, unwritten>>

(* Deviation: a draft takes parts without end.                             *)
KnownUnlimited(d) == d \in DOMAIN drafts

Known(d) == d \in DOMAIN drafts /\ drafts[d] < MaxParts

(* commit and abort take the draft out before anything can fail.           *)
EndDraft ==
  /\ Take("frames", "commit") \/ Take("frames", "abort")
  /\ LET d == Head(input).draft
     IN drafts' = [e \in DOMAIN drafts \ {d} |-> drafts[e]]
  /\ Reply(Head(input).req)
  /\ UNCHANGED <<role, part, nextDraft, unwritten>>

(* list, stats, pin, remove, clear and a second hello: one answer.         *)
AnswerQuery ==
  /\ Take("frames", "query")
  /\ Reply(Head(input).req)
  /\ UNCHANGED <<state, unwritten>>

(* A line that is no frame of the protocol is answered and ends the        *)
(* session; one that is too long, or not UTF-8, ends it without an answer. *)
BadFrame ==
  /\ Take("frames", "garbage")
  /\ Written(Answer(0)) \/ UNCHANGED reader
  /\ Go("ending")
  /\ UNCHANGED <<state, unwritten>>

(* The stream ends, or the greeting is three seconds late.                 *)
EndOfInput ==
  /\ pc = "greeting" \/ (pc = "frames" /\ Ended)
  /\ Go("ending")
  /\ UNCHANGED <<input, client, state, reader, unwritten, events>>

-----------------------------------------------------------------------------
(* A part: part(), whole_part(), chunked_part(), drain().                  *)

PartFrame ==
  /\ Take("frames", "part")
  /\ LET f == Head(input)
     IN /\ part' = [NoPart EXCEPT !.req = f.req, !.draft = f.draft, !.bytes = f.bytes,
                      !.left = IF Known(f.draft) THEN 0 ELSE f.bytes,
                      !.outcome = IF Known(f.draft) THEN "pending" ELSE "nodraft"]
        /\ Go(IF Known(f.draft) THEN "taking" ELSE "draining")
  /\ UNCHANGED <<role, drafts, nextDraft, reader, unwritten>>

(* A part of unknown length; the store may have no place for it.           *)
StreamedFrame ==
  /\ Take("frames", "streamed")
  /\ LET f == Head(input)
     IN \E outcome \in IF ~Known(f.draft) THEN {"nodraft"}
                       ELSE {"pending"} \cup IF May("store") THEN {"failed"} ELSE {} :
          part' = [NoPart EXCEPT !.req = f.req, !.draft = f.draft,
                                 !.chunked = TRUE, !.outcome = outcome]
  /\ Go("chunks")
  /\ UNCHANGED <<role, drafts, nextDraft, reader, unwritten>>

(* A chunk of the part; the one of no bytes seals what came before.        *)
ChunkFrame ==
  /\ Take("chunks", "chunk")
  /\ LET n == Head(input).bytes
         pending == part.outcome = "pending"
     IN \/ /\ n > 0
           /\ part' = [part EXCEPT !.bytes = n, !.read = 0,
                                   !.left = IF pending THEN 0 ELSE n]
           /\ Go(IF pending THEN "taking" ELSE "draining")
        \/ /\ n = 0
           /\ \E outcome \in IF ~pending THEN {part.outcome}
                             ELSE {"recorded"} \cup IF May("store") THEN {"failed"} ELSE {} :
                part' = [part EXCEPT !.outcome = outcome]
           /\ Go("finished")
  /\ UNCHANGED <<role, drafts, nextDraft, reader, unwritten>>

(* Anything else, or the end, between two chunks: there is no count to     *)
(* skip, so the session ends.                                              *)
Interrupted ==
  /\ pc = "chunks"
  /\ \/ Ended /\ UNCHANGED input
     \/ /\ input # <<>> /\ Head(input).op \notin {"chunk", "byte"}
        /\ input' = Tail(input)
  /\ Go("ending")
  /\ UNCHANGED <<client, state, reader, unwritten, events>>

StrayChunk ==
  /\ Take("frames", "chunk")
  /\ part' = [NoPart EXCEPT !.stray = TRUE, !.left = Head(input).bytes]
  /\ Go("draining")
  /\ UNCHANGED <<role, drafts, nextDraft, reader, unwritten>>

(* Whatever comes next in the stream is taken for the payload.             *)
TakeByte ==
  /\ pc = "taking" /\ part.read < part.bytes
  /\ input # <<>>
  /\ input' = Tail(input)
  /\ part' = [part EXCEPT !.read = @ + 1]
  /\ UNCHANGED <<client, role, pc, drafts, nextDraft, reader, unwritten, events>>

Fails == May("store") \/ (Ended /\ part.read < part.bytes)

(* Deviation: the whole payload is skipped, with what the store has read.  *)
TakeFailsUncounted ==
  /\ pc = "taking" /\ Fails
  /\ part' = [part EXCEPT !.outcome = "failed", !.left = part.bytes]
  /\ Go("draining")
  /\ UNCHANGED <<input, client, role, drafts, nextDraft, reader, unwritten, events>>

(* The store refused the payload or failed, with some of it read.          *)
TakeFails ==
  /\ pc = "taking" /\ Fails
  /\ part' = [part EXCEPT !.outcome = "failed", !.left = part.bytes - part.read]
  /\ Go("draining")
  /\ UNCHANGED <<input, client, role, drafts, nextDraft, reader, unwritten, events>>

TakeDone ==
  /\ pc = "taking" /\ part.read = part.bytes
  /\ IF part.chunked THEN Go("chunks") /\ UNCHANGED part
     ELSE Go("finished") /\ part' = [part EXCEPT !.outcome = "recorded"]
  /\ UNCHANGED <<input, client, role, drafts, nextDraft, reader, unwritten, events>>

DrainByte ==
  /\ pc = "draining" /\ part.left > 0
  /\ input # <<>>
  /\ input' = Tail(input)
  /\ part' = [part EXCEPT !.left = @ - 1]
  /\ UNCHANGED <<client, role, pc, drafts, nextDraft, reader, unwritten, events>>

(* Deviation: the end of the stream is waited out.                         *)
DrainedOnly == part.left = 0

(* io::copy() ends with the payload or with the stream.                    *)
Drained == part.left = 0 \/ Ended

DrainDone ==
  /\ pc = "draining" /\ Drained
  /\ ~part.stray
  /\ Go(IF part.chunked THEN "chunks" ELSE "finished")
  /\ part' = [part EXCEPT !.left = 0]
  /\ UNCHANGED <<input, client, role, drafts, nextDraft, reader, unwritten, events>>

AnswerStray ==
  /\ pc = "draining" /\ Drained
  /\ part.stray
  /\ Reply(0)
  /\ part' = NoPart
  /\ UNCHANGED <<input, client, role, drafts, nextDraft, unwritten, events>>

PartPushed ==
  drafts' = IF part.outcome # "recorded" THEN drafts
            ELSE [drafts EXCEPT ![part.draft] = @ + 1]

(* Deviation: a part without a draft is skipped and not answered.          *)
AnswerPartRecorded ==
  /\ pc = "finished"
  /\ PartPushed
  /\ IF part.outcome = "nodraft" THEN Go("frames") /\ UNCHANGED reader
     ELSE Reply(part.req)
  /\ part' = NoPart
  /\ UNCHANGED <<input, client, role, nextDraft, unwritten, events>>

AnswerPart ==
  /\ pc = "finished"
  /\ PartPushed
  /\ Reply(part.req)
  /\ part' = NoPart
  /\ UNCHANGED <<input, client, role, nextDraft, unwritten, events>>

-----------------------------------------------------------------------------
(* Writing payloads and broadcasts. *)

(* fetch and thumb: an error, or a blob whose payload follows its frame.   *)
AnswerFetch ==
  /\ Take("frames", "fetch")
  /\ LET q == Head(input).req
     IN \/ Reply(q) /\ UNCHANGED unwritten
        \/ \E n \in Lengths :
             /\ Written([op |-> "blob", req |-> q, bytes |-> n])
             /\ unwritten' = n
             /\ Go("blob")
  /\ UNCHANGED state

WriteByte ==
  /\ pc = "blob" /\ unwritten > 0
  /\ Written(Byte)
  /\ unwritten' = unwritten - 1
  /\ UNCHANGED <<input, client, state, pc, events>>

(* The lock is given up with the payload written, or with the rest of it   *)
(* never to be.                                                            *)
BlobDone ==
  /\ pc = "blob"
  /\ \/ unwritten = 0 /\ Go("frames")
     \/ May("write") /\ Go("ending")
  /\ unwritten' = 0
  /\ UNCHANGED <<input, client, state, reader, events>>

(* Deviation: an event does not wait for the writer lock.                  *)
NotifyUnlocked ==
  /\ events < MaxEvents
  /\ Watches /\ pc \notin {"greeting", "over"}
  /\ Written(Event)
  /\ events' = events + 1
  /\ UNCHANGED <<input, client, state, pc, unwritten>>

(* The worker writes an event between any two frames of the session.       *)
Notify ==
  /\ events < MaxEvents
  /\ Watches /\ pc \notin {"greeting", "blob", "over"}
  /\ Written(Event)
  /\ events' = events + 1
  /\ UNCHANGED <<input, client, state, pc, unwritten>>

(* The Session and its Subscription are dropped, and its drafts with it.   *)
Close ==
  /\ pc = "ending"
  /\ Go("over")
  /\ drafts' = <<>> /\ part' = NoPart
  /\ UNCHANGED <<input, client, role, nextDraft, reader, unwritten, events>>

-----------------------------------------------------------------------------
Client == SendHello \/ SendRequest \/ SendChunk \/ SendGarbage \/ Hangup

Serve ==
  \/ Greet \/ BeginDraft \/ EndDraft \/ AnswerQuery \/ BadFrame \/ EndOfInput
  \/ PartFrame \/ StreamedFrame \/ ChunkFrame \/ Interrupted \/ StrayChunk
  \/ TakeByte \/ TakeFails \/ TakeDone \/ DrainByte \/ DrainDone
  \/ AnswerStray \/ AnswerPart \/ AnswerFetch \/ WriteByte \/ BlobDone \/ Close

Next == Client \/ Serve \/ Notify

Spec == Init /\ [][Next]_vars

(* The session's thread goes on with what it has. *)
FairSpec == Spec /\ WF_vars(Serve)

-----------------------------------------------------------------------------
(* Properties. *)

LeadingBytes ==
  Cardinality({i \in DOMAIN input : \A j \in 1 .. i : input[j] = Byte})

(* The payload bytes the session is about to read as such. *)
Expected ==
  CASE pc = "taking" -> part.bytes - part.read
    [] pc = "draining" -> part.left
    [] OTHER -> 0

(* The session never takes a payload byte for a frame nor a frame for a    *)
(* payload byte, and never waits for a byte its client does not owe:       *)
(* wherever a part was refused, failed or cut, what it is about to skip is *)
(* exactly the payload that is left.                                       *)
Aligned ==
  pc \notin {"ending", "over"} =>
    IF closed THEN LeadingBytes <= Expected
                   /\ (LeadingBytes < Expected => LeadingBytes = Len(input))
    ELSE LeadingBytes = Expected

Unread ==
  Cardinality({i \in DOMAIN input :
    input[i].op \notin {"byte", "hello", "chunk", "garbage"} /\ input[i].req > 0})

(* Every request is answered once, in the order sent: while the session    *)
(* stands between two requests it has answered every one it has read.      *)
InOrder ==
  /\ reader.ordered
  /\ pc = "frames" /\ ~closed => reader.last + Unread = sent

(* Payloads are written atomically with their frame, so a payload never    *)
(* interleaves with another frame.                                         *)
PayloadWhole == reader.whole

(* A connection that closes with drafts open aborts them, wherever in a    *)
(* request it closes.                                                      *)
ClosedAborts == closed ~> pc = "over" /\ drafts = <<>>
=============================================================================
