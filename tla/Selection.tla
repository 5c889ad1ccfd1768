----------------------------- MODULE Selection -----------------------------
(***************************************************************************)
(* The X11 watch of daemon/src/capture/x11.rs: one thread that hears of    *)
(* each new owner of CLIPBOARD and pulls the copy out of it by             *)
(* conversions, each answered on the same property of the same window.     *)
(*                                                                         *)
(* A copy is a number; its content is a set of pieces, each of one copy,   *)
(* one target and one chunk, so that an entry shows where it came from.    *)
(* The names keep clear of module Native, whose theorems stand with these. *)
(***************************************************************************)
EXTENDS Integers, Sequences, FiniteSets

Seqs == INSTANCE SequencesExt

CONSTANTS
  Representations,  \* the recordable representations
  Forms,       \* how a copy may answer for one, see AllForms
  MaxCopies,   \* bound on the copies made
  Chunks,      \* the chunks of an incremental transfer
  MaxLosses,   \* bound on the connections that break
  Faults       \* what may go wrong, see FaultKinds

(* refuse  an owner refuses a conversion it offered                        *)
(* silent  an owner never answers, or stops in the middle of a transfer    *)
(* late    an owner answers after the daemon has stopped waiting           *)
(* rush    somebody copies while the last copy is still being read         *)
(* loss    the X connection breaks, and the server may be a new one        *)
FaultKinds == {"refuse", "silent", "late", "rush", "loss"}

(* How a copy answers for a representation: incrementally where it is big. *)
AllForms == {"absent", "whole", "empty", "incremental"}

ASSUME SelectionAssumption ==
  /\ MaxCopies \in Nat /\ MaxLosses \in Nat /\ Chunks \in Nat \ {0}
  /\ "TARGETS" \notin Representations
  /\ Forms \subseteq AllForms
  /\ Faults \subseteq FaultKinds

VARIABLES
  owner,       \* the copy that owns CLIPBOARD, 0 for none
  offers,      \* what each copy made so far offers
  asked,       \* the conversions the owners have not answered, in order
  transfers,   \* the incremental transfers under way
  property,    \* the property every answer is left on
  queue,       \* the events the server has sent to the daemon
  live,        \* the connection is
  stage,       \* where the watch is
  changed,     \* run()'s flag
  target,      \* what the last conversion asked for
  todo,        \* the representations still to be asked for
  bytes,       \* what an incremental transfer has brought
  collected,   \* what read_clipboard() has collected
  archived,    \* the entries handed to Recorder::record()
  excused,     \* the copies whose reading their owners or others disturbed
  muddled,     \* answers may come that nobody waits for any more
  losses

server == <<owner, offers, asked, transfers, property, queue>>
reading == <<changed, target, todo, bytes, collected>>
ghosts == <<archived, excused, muddled, losses>>
x11Vars == <<server, live, stage, reading, ghosts>>

Offer == [form : [Representations -> Forms], secret : BOOLEAN]
Targets == Representations \cup {"TARGETS"}
Pieces == [copy : 1 .. MaxCopies, target : Targets, chunk : 0 .. Chunks]

Piece(c, t, n) == [copy |-> c, target |-> t, chunk |-> n]
Offered(c) == {m \in Representations : offers[c].form[m] # "absent"}

NoProperty == [type |-> "none", pieces |-> {}]

(* top         run() looks at `changed`                                    *)
(* waiting     it is in wait_for_event()                                   *)
(* targets     convert() awaits the answer to TARGETS; takeTargets: it is  *)
(*             there to be read                                            *)
(* data        convert() awaits a representation; takeData, likewise       *)
(* increment   read_one() awaits a chunk; takeChunk, likewise              *)
(* next        between two representations                                 *)
(* down        run() has returned; watch() sleeps                          *)
Awaiting == {"targets", "data", "increment"}
Places == Awaiting \cup {"top", "waiting", "takeTargets", "takeData", "takeChunk",
                         "next", "down"}

X11TypeOK ==
  /\ owner \in 0 .. Len(offers) /\ offers \in Seq(Offer) /\ Len(offers) <= MaxCopies
  /\ \A i \in DOMAIN asked : asked[i].copy \in DOMAIN offers /\ asked[i].target \in Targets
  /\ property.type \in {"none", "atoms", "data", "INCR"} /\ property.pieces \subseteq Pieces
  /\ \A i \in DOMAIN queue : queue[i] \in {"owner", "new", "deleted", "answer", "refusal"}
  /\ live \in BOOLEAN /\ stage \in Places /\ changed \in BOOLEAN
  /\ (stage = "down" => ~live)
  /\ target \in Targets /\ todo \subseteq Representations
  /\ bytes \subseteq Pieces
  /\ DOMAIN collected \subseteq Representations \ todo
  /\ \A m \in DOMAIN collected : collected[m] \in (SUBSET Pieces) \ {{}}
  /\ losses \in 0 .. MaxLosses

X11Init ==
  /\ owner = 0 /\ offers = <<>> /\ asked = <<>> /\ transfers = {}
  /\ property = NoProperty /\ queue = <<>>
  /\ live = TRUE /\ stage = "top" /\ changed = TRUE
  /\ target = "TARGETS" /\ todo = {} /\ bytes = {} /\ collected = <<>>
  /\ archived = {} /\ excused = {} /\ muddled = FALSE /\ losses = 0

May(fault) == fault \in Faults
Go(place) == stage' = place

-----------------------------------------------------------------------------
(* The X server and the owners of the selection. *)

(* Nothing is being read, and everything asked for is answered.            *)
Resting ==
  /\ stage \in {"waiting", "down"}
  /\ queue = <<>> /\ asked = <<>> /\ transfers = {}

Copy ==
  /\ Len(offers) < MaxCopies
  /\ Resting \/ May("rush")
  /\ \E o \in Offer :
       /\ o.secret => \A m \in Representations : o.form[m] = "whole"
       /\ \E m \in Representations : o.form[m] # "absent"
       /\ offers' = Append(offers, o)
  /\ owner' = Len(offers')
  /\ queue' = IF live THEN Append(queue, "owner") ELSE queue
  /\ muddled' = ~Resting
  /\ excused' = IF Resting THEN excused ELSE excused \cup {owner, owner'}
  /\ UNCHANGED <<asked, transfers, property, live, stage, reading, archived, losses>>

(* An owner takes the conversions it is asked for in order.                *)
MayAnswer(i) == \A j \in 1 .. i - 1 : asked[j].copy # asked[i].copy

(* An owner writes the property and then the notification, with nothing    *)
(* between them.                                                           *)
Answer ==
  \E i \in DOMAIN asked :
    LET c == asked[i].copy
        t == asked[i].target
        form == IF t = "TARGETS" THEN "atoms" ELSE offers[c].form[t]
    IN /\ MayAnswer(i) /\ form # "absent"
       /\ asked' = Seqs!RemoveAt(asked, i)
       /\ property' =
            [type |-> CASE form = "atoms" -> "atoms" [] form = "incremental" -> "INCR"
                        [] OTHER -> "data",
             pieces |-> IF form \in {"atoms", "whole"} THEN {Piece(c, t, 0)} ELSE {}]
       /\ transfers' =
            transfers \cup IF form # "incremental" THEN {}
                           ELSE {[copy |-> c, target |-> t, next |-> 1, ready |-> FALSE]}
       /\ queue' = queue \o <<"new", "answer">>
       /\ UNCHANGED <<owner, offers, live, stage, reading, ghosts>>

Refuse ==
  \E i \in DOMAIN asked :
    LET absent == asked[i].target \notin Offered(asked[i].copy) \cup {"TARGETS"}
    IN /\ MayAnswer(i)
       /\ absent \/ May("refuse")
       /\ asked' = Seqs!RemoveAt(asked, i)
       /\ queue' = Append(queue, "refusal")
       /\ excused' = IF absent THEN excused ELSE excused \cup {asked[i].copy}
       /\ UNCHANGED <<owner, offers, transfers, property, live, stage, reading, archived, muddled, losses>>

(* The next chunk, appended once the last was deleted; the one after the   *)
(* last is of no length.                                                   *)
AppendChunk ==
  \E x \in transfers :
    /\ x.ready
    /\ property' = IF x.next > Chunks \/ property.type \notin {"none", "data"}
                   THEN [property EXCEPT !.type = IF @ = "none" THEN "data" ELSE @]
                   ELSE [type |-> "data",
                         pieces |-> property.pieces \cup {Piece(x.copy, x.target, x.next)}]
    /\ transfers' = (transfers \ {x}) \cup
         IF x.next > Chunks THEN {} ELSE {[x EXCEPT !.next = @ + 1, !.ready = FALSE]}
    /\ queue' = Append(queue, "new")
    /\ UNCHANGED <<owner, offers, asked, live, stage, reading, ghosts>>

(* An owner that hangs, or is gone. *)
Silence ==
  /\ May("silent")
  /\ \/ \E i \in DOMAIN asked :
          /\ asked' = Seqs!RemoveAt(asked, i)
          /\ excused' = excused \cup {asked[i].copy}
          /\ UNCHANGED transfers
     \/ \E x \in transfers :
          /\ transfers' = transfers \ {x}
          /\ excused' = excused \cup {x.copy}
          /\ UNCHANGED asked
  /\ UNCHANGED <<owner, offers, property, queue, live, stage, reading, archived, muddled,
                 losses>>

(* The connection breaks, and what was on its way with it; where the server *)
(* was replaced, so are its clients.                                       *)
Loss ==
  /\ May("loss") /\ live /\ losses < MaxLosses
  /\ losses' = losses + 1
  /\ live' = FALSE
  /\ owner' \in {owner, 0}
  /\ asked' = <<>> /\ transfers' = {} /\ property' = NoProperty /\ queue' = <<>>
  /\ UNCHANGED <<offers, stage, reading, archived, excused, muddled>>

-----------------------------------------------------------------------------
(* The watch: run(). *)

(* ConvertSelection, which the server itself refuses where nobody owns.    *)
Convert(t) ==
  /\ target' = t
  /\ IF owner # 0
     THEN asked' = Append(asked, [copy |-> owner, target |-> t]) /\ UNCHANGED queue
     ELSE queue' = Append(queue, "refusal") /\ UNCHANGED asked
  /\ UNCHANGED <<owner, offers, transfers, property>>

(* What a deletion of the property tells: the daemon, which watches its    *)
(* own window, and every owner that waits for it to append a chunk.        *)
Deleted ==
  /\ property' = NoProperty
  /\ transfers' = {[x EXCEPT !.ready = TRUE] : x \in transfers}
  /\ queue' = IF property.type = "none" THEN queue ELSE Append(queue, "deleted")
  /\ UNCHANGED <<owner, offers, asked>>

(* A look at `changed`, and only then a wait, whatever a read has left.    *)
LookAgain ==
  /\ stage = "top"
  /\ IF changed /\ live
     THEN changed' = FALSE /\ Convert("TARGETS") /\ Go("targets")
     ELSE changed' = FALSE /\ Go("waiting") /\ UNCHANGED <<server, target>>
  /\ UNCHANGED <<live, todo, bytes, collected, ghosts>>

WaitForEvent ==
  /\ stage = "waiting" /\ queue # <<>>
  /\ queue' = Tail(queue)
  /\ changed' = (changed \/ Head(queue) = "owner")
  /\ Go("top")
  /\ UNCHANGED <<owner, offers, asked, transfers, property, live, target, todo, bytes,
                 collected, ghosts>>

(* wait_for_event() fails, and run() with it. *)
Fail ==
  /\ stage = "waiting" /\ ~live
  /\ Go("down")
  /\ UNCHANGED <<server, live, reading, ghosts>>

(* Deviation: what is on the clipboard when the watch begins is not read.  *)
ReconnectUnread ==
  /\ stage = "down"
  /\ live' = TRUE /\ changed' = FALSE /\ muddled' = FALSE
  /\ Go("top")
  /\ UNCHANGED <<server, target, todo, bytes, collected, archived, excused, losses>>

Reconnect ==
  /\ stage = "down"
  /\ live' = TRUE /\ changed' = TRUE /\ muddled' = FALSE
  /\ Go("top")
  /\ UNCHANGED <<server, target, todo, bytes, collected, archived, excused, losses>>

-----------------------------------------------------------------------------
(* A read: read_clipboard(), read_targets(), read_one(), convert() and     *)
(* wait_event().                                                           *)

(* What is collected, and the content of the representation asked for.     *)
With(content) ==
  [m \in DOMAIN collected \cup {target} |->
     IF m \in DOMAIN collected THEN collected[m] ELSE content]

EndRead == Go("waiting") /\ todo' = {} /\ bytes' = {} /\ collected' = <<>>

(* A part that could not be had costs the entry that part; TARGETS, all.   *)
GiveUp ==
  IF stage \in {"targets", "takeTargets"} THEN EndRead
  ELSE Go("next") /\ bytes' = {} /\ UNCHANGED <<todo, collected>>

(* Where an event takes a wait. It does not say whom it is from, nor what  *)
(* it answers.                                                             *)
Reached(event) ==
  CASE event = "answer" /\ stage = "targets" -> "takeTargets"
    [] event = "answer" /\ stage = "data" -> "takeData"
    [] event = "new" /\ stage = "increment" -> "takeChunk"
    [] OTHER -> stage

PollEvent ==
  /\ stage \in Awaiting /\ ~changed
  /\ queue # <<>>
  /\ queue' = Tail(queue)
  /\ changed' = (Head(queue) = "owner")
  /\ IF Head(queue) = "refusal" /\ stage # "increment" THEN GiveUp
     ELSE Go(Reached(Head(queue))) /\ UNCHANGED <<todo, bytes, collected>>
  /\ UNCHANGED <<owner, offers, asked, transfers, property, live, target, ghosts>>

(* Deviation: what came of a transfer is kept when the rest does not.      *)
TimeoutKeeps ==
  /\ stage = "increment" /\ queue = <<>> /\ asked = <<>> /\ transfers = {}
  /\ Go("next") /\ bytes' = {}
  /\ collected' = IF bytes = {} THEN collected ELSE With(bytes)
  /\ UNCHANGED <<server, live, changed, target, todo, ghosts>>

(* Deviation: a transfer has no deadline.                                  *)
TimeoutConvertOnly ==
  /\ stage \in {"targets", "data"} /\ queue = <<>> /\ asked = <<>>
  /\ GiveUp
  /\ UNCHANGED <<server, live, changed, target, ghosts>>

(* The deadline passes, or the connection is found broken.                 *)
Timeout ==
  /\ stage \in Awaiting /\ ~changed
  /\ queue = <<>>
  /\ LET outstanding == asked # <<>> \/ transfers # {}
     IN /\ outstanding => May("late")
        /\ muddled' = (muddled \/ outstanding)
        /\ excused' = IF outstanding THEN excused \cup {owner} ELSE excused
  /\ GiveUp
  /\ UNCHANGED <<server, live, changed, target, archived, losses>>

(* The owner moved on: the read is dropped.                                *)
Abandon ==
  /\ stage \in Awaiting /\ changed
  /\ EndRead
  /\ UNCHANGED <<server, live, changed, target, ghosts>>

(* The offered names; one secret hint condemns them all.                   *)
TakeTargets ==
  /\ stage = "takeTargets"
  /\ IF live /\ property.type = "atoms"
     THEN LET c == (CHOOSE p \in property.pieces : TRUE).copy
          IN /\ Deleted
             /\ IF offers[c].secret THEN EndRead
                ELSE todo' = Offered(c) /\ Go("next") /\ UNCHANGED <<bytes, collected>>
     ELSE EndRead /\ UNCHANGED server
  /\ UNCHANGED <<live, changed, target, ghosts>>

Ask ==
  /\ stage = "next" /\ live
  /\ \E m \in todo : Convert(m) /\ todo' = todo \ {m}
  /\ Go("data")
  /\ UNCHANGED <<live, changed, bytes, collected, ghosts>>

(* Deviation: an empty representation is kept.                             *)
PushAll(content) == collected' = With(content)

(* An empty representation is passed over.                                 *)
Push(content) ==
  collected' = IF content = {} THEN collected ELSE With(content)

(* The content, or the marker of a transfer that the deletion starts.      *)
TakeData ==
  /\ stage = "takeData" /\ live
  /\ Deleted
  /\ IF property.type = "INCR"
     THEN Go("increment") /\ UNCHANGED collected
     ELSE Go("next") /\ Push(property.pieces)
  /\ UNCHANGED <<live, changed, target, todo, bytes, ghosts>>

TakeChunk ==
  /\ stage = "takeChunk" /\ live
  /\ Deleted
  /\ IF property.pieces = {}
     THEN Go("next") /\ Push(bytes) /\ bytes' = {}
     ELSE Go("increment") /\ bytes' = bytes \cup property.pieces /\ UNCHANGED collected
  /\ UNCHANGED <<live, changed, target, todo, ghosts>>

(* A call on a broken connection: the part is lost, the others go on.      *)
CallFails ==
  /\ ~live
  /\ \/ /\ stage \in {"takeData", "takeChunk"}
        /\ GiveUp
     \/ /\ stage = "next" /\ todo # {}
        /\ todo' = {} /\ UNCHANGED <<stage, bytes, collected>>
  /\ UNCHANGED <<server, live, changed, target, ghosts>>

(* The parts go to the recorder, which ignores an event without any.       *)
RecordParts ==
  /\ stage = "next" /\ todo = {}
  /\ archived' = archived \cup IF collected = <<>> THEN {}
                              ELSE {[parts |-> collected, muddled |-> muddled]}
  /\ EndRead
  /\ UNCHANGED <<server, live, changed, target, excused, muddled, losses>>

-----------------------------------------------------------------------------
Owners == Answer \/ Refuse \/ AppendChunk

Watch ==
  \/ LookAgain \/ WaitForEvent \/ Fail \/ Reconnect
  \/ PollEvent \/ Timeout \/ Abandon
  \/ TakeTargets \/ Ask \/ TakeData \/ TakeChunk \/ CallFails \/ RecordParts

X11Next == Copy \/ Owners \/ Silence \/ Loss \/ Watch

X11Spec == X11Init /\ [][X11Next]_x11Vars

(* The watch's thread goes on, deadlines pass, and an owner that does not  *)
(* fall silent answers.                                                    *)
X11FairSpec == X11Spec /\ WF_x11Vars(Watch) /\ WF_x11Vars(Owners)

-----------------------------------------------------------------------------
(* Properties. *)

(* What a copy holds for a representation. *)
Content(c, m) ==
  CASE offers[c].form[m] = "whole" -> {Piece(c, m, 0)}
    [] offers[c].form[m] = "incremental" -> {Piece(c, m, n) : n \in 1 .. Chunks}
    [] OTHER -> {}

OfOneCopy(content) == \E c \in DOMAIN offers :
  /\ ~offers[c].secret
  /\ \A m \in DOMAIN content : content[m] = Content(c, m)

(* An entry is one copy's: every representation in it is that copy's own,  *)
(* all of it and under its own name, and the copy was no secret.           *)
OneCopyEach == \A entry \in archived : OfOneCopy(entry.parts)

(* It is, at least, where no answer was left over that another conversion  *)
(* could take for its own: whatever hurried copies and late owners leave   *)
(* behind is gone before the next copy that is made at rest.               *)
OneCopyAtRest == \A entry \in archived : entry.muddled \/ OfOneCopy(entry.parts)

Entry(c) ==
  LET kept == {m \in Representations : Content(c, m) # {}}
  IN [m \in kept |-> Content(c, m)]

(* Whoever copies is read: a copy that stays on the clipboard is archived  *)
(* with every representation it has, also when the watch began after it    *)
(* was made; unless its owner failed or was late, or someone copied while  *)
(* it, or the copy before it, was being read.                              *)
CopiesCaught ==
  \A c \in 1 .. MaxCopies :
    owner = c ~> \/ owner # c \/ c \in excused
                \/ offers[c].secret \/ Entry(c) = <<>>
                \/ [parts |-> Entry(c), muddled |-> FALSE] \in archived

(* No owner stalls the watch: whatever it is asked, and however often the  *)
(* clipboard changes hands, it comes back to wait for the next copy.       *)
ComesBack == stage # "waiting" ~> stage = "waiting"
=============================================================================
