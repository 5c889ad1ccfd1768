---------------------------- MODULE SessionProofs ----------------------------
(***************************************************************************)
(* A session never takes a payload for a frame or a frame for a payload,   *)
(* answers its requests in order, and never writes into a payload, for any *)
(* number of drafts, parts, requests and bytes and any window.             *)
(*                                                                         *)
(* The invariant says of each place of the stream what follows it, and of  *)
(* each request what number it bears; a step takes the first token off the *)
(* stream or puts a frame with its payload behind it.                      *)
(***************************************************************************)
EXTENDS Session, FiniteSetTheorems, SequenceTheorems, TLAPS

(* The session reads and answers, or will. *)
Serving == pc \notin {"ending", "over"}

(* How many bytes of payload follow what stands at place i of the input;   *)
(* place 0 is what the session has read.                                   *)
Follows(i) ==
  IF i = 0 THEN Expected ELSE IF input[i].op \in {"part", "chunk"} THEN input[i].bytes ELSE 0

(* A frame is followed by its payload, as far as it was sent, and then by  *)
(* no byte; only a client that is gone has left a payload unfinished.      *)
FramedTo(i, end) ==
  /\ \A j \in 1 .. Len(input) : i < j /\ j <= end => input[j] = Byte
  /\ \A j \in 1 .. Len(input) : j = end + 1 => input[j] # Byte
  /\ ~closed => end <= Len(input)
Framed ==
  Serving =>
    \A i \in 0 .. Len(input) :
      i = 0 \/ input[i] # Byte => \A end \in {i + Follows(i)} : FramedTo(i, end)

(* The session is at a request whose answer is still to come. *)
Amid == pc \in {"taking", "draining", "chunks", "finished"} /\ ~part.stray

(* The number of the last request the session has read. *)
Base == IF Amid THEN part.req ELSE reader.last

IsRequest(t) == t.op \notin {"byte", "hello", "chunk", "garbage"} /\ t.req > 0
Pending == {i \in 1 .. Len(input) : IsRequest(input[i])}

(* The requests that are unread bear the numbers that come next, each one  *)
(* larger than those before it, up to the last one sent.                   *)
Numbered ==
  Serving =>
    /\ Base <= sent /\ nextDraft <= Base + 1
    /\ \A i, j \in Pending : i < j => input[i].req < input[j].req
    /\ \A i \in Pending : Base < input[i].req /\ input[i].req <= sent
    /\ \A i \in Pending, q \in Requests :
         Base < q /\ q < input[i].req => \E j \in Pending : j < i /\ input[j].req = q
    /\ ~closed => \A q \in Requests : Base < q /\ q <= sent => \E j \in Pending : input[j].req = q

(* What is read is the next to be answered, of a draft with room for it    *)
(* unless it has failed; the store takes no payload of what has.           *)
Answerable ==
  /\ Amid => part.req = reader.last + 1
  /\ part.stray => pc = "draining"
  /\ Amid /\ part.outcome \in {"pending", "recorded"} => Known(part.draft)
  /\ pc = "taking" => part.outcome = "pending"

(* The client waits for the bytes the session is about to write. *)
Owing ==
  /\ pc = "blob" => reader.owed = unwritten
  /\ Serving /\ pc # "blob" => reader.owed = 0
  /\ reader.ordered

Sound == Framed /\ Numbered /\ Answerable /\ Owing
IndInv == TypeOK /\ Sound

(* Nothing is left of a payload once the lock on the writer is given up.   *)
Whole == (pc # "blob" => reader.owed = 0) /\ reader.whole

-----------------------------------------------------------------------------
(* The stream. *)

(* The bounds are naturals. *)
LEMMA Bounds ==
  /\ MaxDrafts \in Nat /\ MaxParts \in Nat /\ MaxBytes \in Nat
  /\ MaxReqs \in Nat /\ MaxEvents \in Nat /\ MaxChunks \in Nat
BY SessionAssumption

(* The fields of each kind of token. *)
LEMMA Fields ==
  ASSUME NEW t \in Token
  PROVE  /\ t.op \in {"begin", "fetch", "part", "streamed", "commit", "abort"} =>
              t.req \in Requests /\ IsRequest(t)
         /\ t.op = "query" => t.req \in {0} \cup Requests
         /\ t.op \in {"part", "streamed", "commit", "abort"} => t.draft \in Drafts
         /\ t.op \in {"part", "chunk"} => t.bytes \in Lengths
         /\ t.op = "hello" => t.role \in Roles /\ t.good \in BOOLEAN
         /\ IsRequest(t) => t.req \in Requests
<1>1. Requests \subseteq Nat \ {0}
  BY Bounds DEF Requests
<1>2. \/ t.op \in {"byte", "garbage"}
      \/ t.op = "hello" /\ t.role \in Roles /\ t.good \in BOOLEAN
      \/ t.op \in {"begin", "fetch"} /\ t.req \in Requests
      \/ t.op = "query" /\ t.req \in {0} \cup Requests
      \/ t.op = "part" /\ t.req \in Requests /\ t.draft \in Drafts /\ t.bytes \in Lengths
      \/ t.op \in {"streamed", "commit", "abort"} /\ t.req \in Requests /\ t.draft \in Drafts
      \/ t.op = "chunk" /\ t.bytes \in Lengths
  BY DEF Token
<1>3. \A q \in Requests : q > 0
  BY <1>1
<1> QED BY <1>2, <1>3 DEF IsRequest

(* Taking the first token moves the others one place nearer. *)
LEMMA Shifted ==
  ASSUME input \in Seq(Token), input # << >>, input' = Tail(input)
  PROVE  /\ input' \in Seq(Token) /\ Len(input) \in Nat \ {0} /\ Len(input') = Len(input) - 1
         /\ Head(input) = input[1] /\ input[1] \in Token
         /\ \A i \in 1 .. Len(input') : i + 1 \in 1 .. Len(input) /\ input'[i] = input[i + 1]
OBVIOUS

(* A frame and its payload are put behind the rest. *)
Grown(f, n) ==
  /\ input' \in Seq(Token) /\ f \in Token /\ f # Byte /\ n \in Nat
  /\ n = IF f.op \in {"part", "chunk"} THEN f.bytes ELSE 0
  /\ Len(input') = Len(input) + 1 + n
  /\ \A i \in 1 .. Len(input) : input'[i] = input[i]
  /\ input'[Len(input) + 1] = f
  /\ \A i \in 1 .. Len(input') : i > Len(input) + 1 => input'[i] = Byte

(* What is sent of one frame without a payload. *)
LEMMA GrownByOne ==
  ASSUME TypeOK, NEW f \in Token, f.op \notin {"byte", "part", "chunk"}, Send(<<f>>)
  PROVE  Grown(f, 0)
<1>1. input \in Seq(Token) /\ input' = input \o <<f>> /\ f # Byte
  BY DEF TypeOK, Send, Byte
<1> HIDE DEF Byte
<1> QED BY <1>1 DEF Grown

(* What is sent of one frame and its payload. *)
LEMMA GrownByPayload ==
  ASSUME TypeOK, NEW n \in Lengths, NEW f \in Token, f.op \in {"part", "chunk"}, f.bytes = n,
         Send(<<f>> \o Bytes(n))
  PROVE  Grown(f, n)
<1>1. input \in Seq(Token) /\ f # Byte /\ n \in Nat /\ Byte \in Token
  BY Bounds DEF TypeOK, Byte, Lengths, Token
<1> DEFINE b == Bytes(n)
           s == <<f>> \o b
           L == Len(input)
<1>2. b \in Seq(Token) /\ Len(b) = n /\ \A i \in 1 .. n : b[i] = Byte
  <2> HIDE DEF Byte
  <2> QED BY <1>1 DEF Bytes
<1> HIDE DEF Byte, b
<1>3. /\ s \in Seq(Token) /\ Len(s) = n + 1 /\ s[1] = f
      /\ \A i \in 1 .. (n + 1) : i > 1 => s[i] = Byte
  <2>1. <<f>> \in Seq(Token) /\ Len(<<f>>) = 1 /\ <<f>>[1] = f
    OBVIOUS
  <2>2. /\ s \in Seq(Token) /\ Len(s) = 1 + n
        /\ \A i \in 1 .. (1 + n) : s[i] = IF i <= 1 THEN <<f>>[i] ELSE b[i - 1]
    BY <1>2, <2>1, ConcatProperties
  <2> HIDE DEF s
  <2>3. s[1] = f
    <3>1. 1 \in 1 .. (1 + n)
      BY <1>1
    <3> QED BY <2>1, <2>2, <3>1
  <2>4. ASSUME NEW i \in 1 .. (n + 1), i > 1 PROVE s[i] = Byte
    <3>1. i \in 1 .. (1 + n) /\ ~(i <= 1) /\ i - 1 \in 1 .. n
      BY <1>1, <2>4
    <3> QED BY <1>2, <2>2, <3>1
  <2>5. 1 + n = n + 1
    BY <1>1
  <2> QED BY <2>2, <2>3, <2>4, <2>5
<1> HIDE DEF s
<1>4. /\ input' \in Seq(Token) /\ Len(input') = L + (n + 1) /\ L \in Nat
      /\ \A i \in 1 .. (L + (n + 1)) : input'[i] = IF i <= L THEN input[i] ELSE s[i - L]
  <2>1. input' = input \o s
    BY DEF Send, s, b
  <2>2. Len(input) + Len(s) = L + (n + 1) /\ L \in Nat
    BY <1>1, <1>3
  <2>3. /\ input \o s \in Seq(Token) /\ Len(input \o s) = Len(input) + Len(s)
        /\ \A i \in 1 .. Len(input) + Len(s) :
             (input \o s)[i] = IF i <= Len(input) THEN input[i] ELSE s[i - Len(input)]
    <3> HIDE DEF L
    <3> QED BY <1>1, <1>3, ConcatProperties
  <2>4. /\ input' \in Seq(Token) /\ Len(input') = Len(input) + Len(s)
        /\ \A i \in 1 .. Len(input) + Len(s) :
             input'[i] = IF i <= Len(input) THEN input[i] ELSE s[i - Len(input)]
    <3> HIDE DEF L
    <3> QED BY <2>1, <2>3
  <2> QED BY <2>2, <2>4
<1> HIDE DEF L
<1>5. input'[L + 1] = f
  <2>1. L + 1 \in 1 .. (L + (n + 1)) /\ ~(L + 1 <= L) /\ (L + 1) - L = 1
    BY <1>1, <1>4
  <2> QED BY <1>3, <1>4, <2>1
<1>6. ASSUME NEW i \in 1 .. Len(input'), i > L + 1 PROVE input'[i] = Byte
  <2>1. i \in 1 .. (L + (n + 1)) /\ ~(i <= L) /\ i - L \in 1 .. (n + 1) /\ i - L > 1
    BY <1>1, <1>4, <1>6
  <2> QED BY <1>3, <1>4, <2>1
<1>7. \A i \in 1 .. L : input'[i] = input[i]
  BY <1>1, <1>4
<1>8. Len(input') = L + 1 + n
  BY <1>1, <1>4
<1> QED BY <1>1, <1>4, <1>5, <1>6, <1>7, <1>8 DEF Grown, L

-----------------------------------------------------------------------------
(* What follows a place of the stream. *)

(* The lengths of payloads. *)
LEMMA Payloads ==
  ASSUME TypeOK
  PROVE  /\ Expected \in Nat
         /\ \A i \in 0 .. Len(input) : Follows(i) \in Nat
         /\ Len(input) \in Nat
         /\ \A i \in 1 .. Len(input) : input[i] \in Token
         /\ part.req \in Nat /\ reader.last \in Nat /\ Base \in Nat /\ sent \in Nat
         /\ part.bytes \in Nat /\ part.read \in Nat /\ part.left \in Nat
         /\ Requests \subseteq Nat \ {0} /\ Lengths \subseteq Nat
<1>1. Lengths \subseteq Nat /\ Requests \subseteq Nat \ {0}
  BY Bounds DEF Lengths, Requests
<1>2. /\ part.bytes \in Nat /\ part.read \in Nat /\ part.left \in Nat
      /\ part.read <= part.bytes
  BY <1>1 DEF TypeOK, PartState
<1>3. Expected \in Nat
  BY <1>2 DEF Expected
<1>4. Len(input) \in Nat /\ \A i \in 1 .. Len(input) : input[i] \in Token
  BY DEF TypeOK
<1>5. \A i \in 0 .. Len(input) : Follows(i) \in Nat
  <2>1. ASSUME NEW i \in 0 .. Len(input), i # 0 PROVE Follows(i) \in Nat
    <3>1. i \in 1 .. Len(input)
      BY <1>4, <2>1
    <3>2. input[i].op \in {"part", "chunk"} => input[i].bytes \in Nat
      BY <1>1, <1>4, <3>1, Fields
    <3> QED BY <2>1, <3>2 DEF Follows
  <2> QED BY <1>3, <2>1 DEF Follows
<1>6. part.req \in Nat /\ reader.last \in Nat /\ sent \in Nat
  <2>1. part.req \in {0} \cup Requests
    BY DEF TypeOK, PartState
  <2>2. reader.last \in {0} \cup Requests
    BY DEF TypeOK
  <2>3. sent \in Nat
    BY Bounds DEF TypeOK
  <2>4. {0} \cup Requests \subseteq Nat
    BY <1>1
  <2> QED BY <2>1, <2>2, <2>3, <2>4
<1> QED BY <1>1, <1>2, <1>3, <1>4, <1>5, <1>6 DEF Base

(* Taking the first token: a frame becomes what was read, and a byte of    *)
(* what was read is one less.                                              *)
LEMMA FramedTail ==
  ASSUME TypeOK, Serving, Framed, input # << >>, input' = Tail(input), UNCHANGED closed,
         \/ input[1] # Byte /\ Expected' = Follows(1)
         \/ Expected > 0 /\ Expected' = Expected - 1
  PROVE  Framed'
<1> DEFINE n == Len(input)
           m == Len(input')
<1>1. /\ n \in Nat \ {0} /\ m = n - 1
      /\ \A i \in 1 .. m : i + 1 \in 1 .. n /\ input'[i] = input[i + 1]
  BY Shifted DEF TypeOK
<1>2. \A i \in 0 .. n : Follows(i) \in Nat
  BY Payloads
<1>3. \A i \in 0 .. n : \A end : (i = 0 \/ input[i] # Byte) /\ end = i + Follows(i) =>
        FramedTo(i, end)
  BY DEF Framed
<1>4. \A i \in 1 .. m : \A f : f = Follows(i)' => f = Follows(i + 1)
  BY <1>1 DEF Follows
<1> HIDE DEF n, m
<1>5. ASSUME NEW i \in 0 .. m, NEW o \in 0 .. n, NEW e \in Int,
             o <= i + 1, i = 0 \/ o = i + 1, FramedTo(o, e + 1)
      PROVE  FramedTo(i, e)'
  <2>1. ASSUME NEW j \in 1 .. m, i < j, j <= e PROVE input'[j] = Byte
    <3>1. j + 1 \in 1 .. n /\ input'[j] = input[j + 1]
      BY <1>1
    <3>2. o < j + 1 /\ j + 1 <= e + 1
      <4>1. n \in Nat /\ m \in Int
        BY <1>1
      <4> QED BY <1>5, <2>1, <4>1
    <3> QED BY <1>5, <3>1, <3>2 DEF FramedTo, n
  <2>2. ASSUME NEW j \in 1 .. m, j = e + 1 PROVE input'[j] # Byte
    <3>1. j + 1 \in 1 .. n /\ j + 1 = (e + 1) + 1 /\ input'[j] = input[j + 1]
      BY <1>1, <1>5, <2>2
    <3> QED BY <1>5, <3>1 DEF FramedTo, n
  <2>3. ASSUME ~closed' PROVE e <= m
    <3>1. e + 1 <= n
      BY <1>5, <2>3 DEF FramedTo, n
    <3> QED BY <1>1, <1>5, <3>1
  <2> QED BY <2>1, <2>2, <2>3 DEF FramedTo, m
<1>6. ASSUME NEW i \in 0 .. m, i = 0 \/ input'[i] # Byte, NEW end, end = (i + Follows(i))'
      PROVE  FramedTo(i, end)'
  <2>1. CASE i = 0 /\ input[1] # Byte /\ Expected' = Follows(1)
    <3>1. /\ 1 \in 0 .. n /\ Follows(1) \in Nat /\ end = Follows(1)
          /\ 0 \in 0 .. m /\ 1 <= 0 + 1 /\ 1 + Follows(1) = end + 1
      BY <1>1, <1>2, <1>6, <2>1 DEF Follows
    <3>2. FramedTo(1, end + 1)
      BY <1>3, <2>1, <3>1
    <3> QED BY <1>5, <2>1, <3>1, <3>2
  <2>2. CASE i = 0 /\ Expected > 0 /\ Expected' = Expected - 1
    <3>1. /\ 0 \in 0 .. n /\ Follows(0) = Expected /\ Expected \in Nat
          /\ end = Expected - 1 /\ 0 + Follows(0) = end + 1 /\ end \in Int
      BY <1>1, <1>2, <1>6, <2>2 DEF Follows
    <3>2. FramedTo(0, end + 1)
      BY <1>3, <3>1
    <3> QED BY <1>5, <2>2, <3>1, <3>2
  <2>3. CASE i # 0
    <3>1. i + 1 \in 0 .. n /\ i \in 1 .. m /\ input[i + 1] # Byte /\ Follows(i + 1) \in Nat
      <4>1. i \in 1 .. m /\ i + 1 \in 1 .. n /\ input'[i] = input[i + 1]
        <5>1. i \in 1 .. m
          BY <1>1, <2>3
        <5> QED BY <1>1, <5>1
      <4>2. i + 1 \in 0 .. n
        BY <1>1, <4>1
      <4> QED BY <1>2, <1>6, <2>3, <4>1, <4>2
    <3>2. end = i + Follows(i + 1)
      <4>1. Follows(i)' = Follows(i + 1)
        BY <1>4, <3>1
      <4> QED BY <1>6, <4>1
    <3>3. end \in Int /\ (i + 1) + Follows(i + 1) = end + 1
      BY <3>1, <3>2
    <3>4. FramedTo(i + 1, end + 1)
      BY <1>3, <3>1, <3>3
    <3> QED BY <1>5, <3>1, <3>3, <3>4
  <2> QED BY <2>1, <2>2, <2>3
<1> QED BY <1>6 DEF Framed, m

(* The stream and what is expected of it are as they were. *)
LEMMA FramedSame ==
  ASSUME Serving, Framed, UNCHANGED <<input, closed>>, Expected' = Expected
  PROVE  Framed'
<1>1. \A i \in 0 .. Len(input) : \A end : end = (i + Follows(i))' => end = i + Follows(i)
  BY DEF Follows
<1>2. \A i, end : FramedTo(i, end) => FramedTo(i, end)'
  BY DEF FramedTo
<1> QED BY <1>1, <1>2 DEF Framed

(* The stream has ended and nothing is expected of it. *)
LEMMA FramedEmpty ==
  ASSUME input' = << >>, closed' = TRUE, Expected' = 0
  PROVE  Framed'
<1>1. Len(input') = 0 /\ 0 .. Len(input') = {0}
  OBVIOUS
<1>2. \A i \in 1 .. Len(input') : FALSE
  BY <1>1
<1> QED BY <1>1, <1>2 DEF Framed, FramedTo

(* A frame and its payload are sent while the client is there. *)
LEMMA FramedGrown ==
  ASSUME TypeOK, Framed, ~closed, NEW f, NEW n, Grown(f, n), UNCHANGED <<pc, part, closed>>
  PROVE  Framed'
<1> DEFINE L == Len(input)
           M == Len(input')
<1>1. L \in Nat /\ M = L + 1 + n /\ n \in Nat /\ M \in Nat /\ 1 .. L \subseteq 1 .. M
  BY Payloads DEF Grown
<1>2. SUFFICES ASSUME Serving, NEW i \in 0 .. M, i = 0 \/ input'[i] # Byte,
                      NEW end, end = (i + Follows(i))'
               PROVE  FramedTo(i, end)'
  BY DEF Framed, Serving
<1>3. /\ \A j \in 1 .. L : input'[j] = input[j]
      /\ input'[L + 1] = f /\ f # Byte
      /\ \A j \in 1 .. M : j > L + 1 => input'[j] = Byte
  BY DEF Grown
<1>4. Expected' = Expected
  BY DEF Expected
<1>5. CASE i \in 0 .. L
  <2>1. end = i + Follows(i) /\ (i = 0 \/ input[i] # Byte) /\ Follows(i) \in Nat
    <3>1. CASE i = 0
      BY <1>2, <1>4, <1>5, <3>1, Payloads DEF Follows
    <3>2. CASE i # 0
      <4>1. i \in 1 .. L
        BY <1>1, <1>5, <3>2
      <4>2. input'[i] = input[i]
        BY <1>3, <4>1
      <4>3. Follows(i)' = Follows(i)
        BY <3>2, <4>2 DEF Follows
      <4> QED BY <1>2, <1>5, <3>2, <4>2, <4>3, Payloads
    <3> QED BY <3>1, <3>2
  <2>2. FramedTo(i, end)
    BY <1>2, <1>5, <2>1 DEF Framed
  <2>3. end <= L /\ end \in Nat
    BY <1>5, <2>1, <2>2 DEF FramedTo
  <2> HIDE DEF L, M
  <2>4. ASSUME NEW j \in 1 .. M, i < j, j <= end PROVE input'[j] = Byte
    <3>1. j \in 1 .. L
      BY <1>1, <2>3, <2>4
    <3> QED BY <1>3, <2>2, <2>4, <3>1 DEF FramedTo, L
  <2>5. ASSUME NEW j \in 1 .. M, j = end + 1 PROVE input'[j] # Byte
    <3>1. j \in 1 .. L \/ j = L + 1
      BY <1>1, <2>3, <2>5
    <3> QED BY <1>3, <2>2, <2>5, <3>1 DEF FramedTo, L
  <2>6. end <= M
    BY <1>1, <2>3
  <2> QED BY <2>4, <2>5, <2>6 DEF FramedTo, M
<1>6. CASE i = L + 1
  <2>1. end = M
    <3>1. i # 0 /\ input'[i] = f
      BY <1>1, <1>3, <1>6
    <3>2. Follows(i)' = n
      BY <3>1 DEF Follows, Grown
    <3> QED BY <1>1, <1>2, <1>6, <3>2
  <2> HIDE DEF L, M
  <2>2. \A j \in 1 .. M : i < j => j > L + 1
    BY <1>6
  <2>3. \A j \in 1 .. M : j # M + 1
    BY <1>1
  <2>4. M <= M
    BY <1>1
  <2> QED BY <1>3, <2>1, <2>2, <2>3, <2>4 DEF FramedTo, M
<1>7. CASE i > L + 1
  <2>1. i \in 1 .. M
    BY <1>1, <1>7
  <2>2. i # 0
    BY <1>1, <1>7
  <2> QED BY <1>2, <1>3, <1>7, <2>1, <2>2
<1>8. i \in 0 .. L \/ i = L + 1 \/ i > L + 1
  <2> HIDE DEF L, M
  <2> QED BY <1>1
<1> QED BY <1>5, <1>6, <1>7, <1>8

(* The stream is cut, and the client gone. *)
LEMMA FramedCut ==
  ASSUME TypeOK, Framed, NEW k \in 0 .. Len(input), input' = SubSeq(input, 1, k),
         closed' = TRUE, UNCHANGED <<pc, part>>
  PROVE  Framed' /\ input' \in Seq(Token) /\ Len(input') = k /\ k <= Len(input)
         /\ \A i \in 1 .. k : i \in 1 .. Len(input) /\ input'[i] = input[i]
<1>1. /\ input' \in Seq(Token) /\ Len(input') = k /\ k <= Len(input) /\ k \in Nat
      /\ \A i \in 1 .. k : i \in 1 .. Len(input) /\ input'[i] = input[i]
  BY DEF TypeOK
<1>2. SUFFICES ASSUME Serving, NEW i \in 0 .. k, i = 0 \/ input'[i] # Byte,
                      NEW end, end = (i + Follows(i))'
               PROVE  FramedTo(i, end)'
  BY <1>1 DEF Framed, Serving
<1>3. Expected' = Expected
  BY DEF Expected
<1>4. i \in 0 .. Len(input) /\ end = i + Follows(i) /\ (i = 0 \/ input[i] # Byte)
  <2>1. CASE i = 0
    BY <1>2, <1>3, <2>1, Payloads DEF Follows
  <2>2. CASE i # 0
    <3>1. i \in 1 .. k
      BY <1>1, <2>2
    <3>2. input'[i] = input[i] /\ i \in 0 .. Len(input)
      BY <1>1, <3>1
    <3>3. Follows(i)' = Follows(i)
      BY <2>2, <3>2 DEF Follows
    <3> QED BY <1>2, <2>2, <3>2, <3>3
  <2> QED BY <2>1, <2>2
<1>5. FramedTo(i, end)
  BY <1>2, <1>4 DEF Framed
<1> QED BY <1>1, <1>5 DEF FramedTo

-----------------------------------------------------------------------------
(* The numbers of the requests. *)

(* The numbers of pending requests are requests' numbers. *)
LEMMA PendingTyped ==
  ASSUME TypeOK, NEW i \in Pending
  PROVE  /\ i \in 1 .. Len(input) /\ i \in Nat /\ input[i] \in Token
         /\ IsRequest(input[i]) /\ input[i].req \in Requests /\ input[i].req \in Nat
<1>1. i \in 1 .. Len(input) /\ IsRequest(input[i])
  BY DEF Pending
<1>2. input[i] \in Token /\ Len(input) \in Nat /\ Requests \subseteq Nat
  BY <1>1, Payloads
<1>3. i \in Nat
  BY <1>1, <1>2
<1>4. input[i].req \in Requests
  BY <1>1, <1>2, Fields
<1> QED BY <1>1, <1>2, <1>3, <1>4

(* A request that comes first is the next one. *)
LEMMA NextRequest ==
  ASSUME TypeOK, Serving, Numbered, input # << >>, IsRequest(input[1])
  PROVE  input[1].req = Base + 1 /\ Base + 1 <= sent
<1>1. 1 \in Pending /\ Base \in Nat /\ sent \in Nat /\ sent <= MaxReqs /\ MaxReqs \in Nat
  <2>1. 1 \in 1 .. Len(input)
    BY DEF TypeOK
  <2> QED BY <2>1, Payloads, Bounds DEF Pending, TypeOK
<1> DEFINE q == input[1].req
<1>2. q \in Nat /\ Base < q /\ q <= sent
  BY <1>1, PendingTyped DEF Numbered
<1>3. ~(Base + 1 < q)
  <2>1. SUFFICES ASSUME Base + 1 < q PROVE FALSE
    OBVIOUS
  <2>2. Base + 1 \in Requests /\ Base < Base + 1
    BY <1>1, <1>2, <2>1 DEF Requests
  <2>3. \E j \in Pending : j < 1
    BY <1>1, <2>1, <2>2 DEF Numbered
  <2> QED BY <2>3, PendingTyped
<1> HIDE DEF q
<1>4. q = Base + 1
  BY <1>1, <1>2, <1>3
<1> QED BY <1>1, <1>2, <1>4 DEF q

(* Nothing that is said of the numbers has changed. *)
LEMMA NumberedSame ==
  ASSUME Serving, Numbered, UNCHANGED <<input, closed, sent>>,
         Base' = Base, nextDraft' <= Base + 1
  PROVE  Numbered'
<1>1. Pending' = Pending
  BY DEF Pending
<1> QED BY <1>1 DEF Numbered

(* The first token is taken, and is the request that was to come if it is  *)
(* one at all.                                                             *)
LEMMA NumberedTail ==
  ASSUME TypeOK, Serving, Numbered, input # << >>, input' = Tail(input),
         UNCHANGED <<closed, sent>>,
         Base' = IF IsRequest(input[1]) THEN Base + 1 ELSE Base,
         nextDraft' <= Base' + 1
  PROVE  Numbered'
<1> DEFINE n == Len(input)
           m == Len(input')
           b == Base
           c == Base'
<1>1. /\ n \in Nat \ {0} /\ m = n - 1
      /\ \A i \in 1 .. m : i + 1 \in 1 .. n /\ input'[i] = input[i + 1]
  BY Shifted DEF TypeOK
<1>2. b \in Nat /\ c \in Nat /\ b <= c /\ c <= sent /\ sent \in Nat
  <2>1. IsRequest(input[1]) => Base + 1 <= sent
    BY NextRequest
  <2>2. Base \in Nat /\ sent \in Nat /\ Base <= sent
    BY Payloads DEF Numbered
  <2> QED BY <2>1, <2>2
<1>3. \A i \in Pending' : i \in 1 .. m /\ i + 1 \in Pending /\ input'[i] = input[i + 1]
  BY <1>1 DEF Pending
<1> HIDE DEF n, m
<1>4. \A j \in Pending : j # 1 => j - 1 \in Pending' /\ input'[j - 1] = input[j]
  <2>1. ASSUME NEW j \in Pending, j # 1 PROVE j - 1 \in Pending' /\ input'[j - 1] = input[j]
    <3>1. j \in 1 .. n /\ IsRequest(input[j])
      BY DEF Pending, n
    <3>2. j - 1 \in 1 .. m /\ (j - 1) + 1 = j
      BY <1>1, <2>1, <3>1
    <3>3. input'[j - 1] = input[j]
      BY <1>1, <3>2
    <3> QED BY <3>1, <3>2, <3>3 DEF Pending, m
  <2> QED BY <2>1
<1>5. /\ \A j \in Pending : c < input[j].req => j # 1
      /\ \A j \in Pending : j # 1 => c < input[j].req
  <2>1. CASE IsRequest(input[1])
    <3>1. 1 \in Pending /\ input[1].req = c
      <4>1. 1 \in 1 .. n
        BY <1>1
      <4> QED BY <2>1, <4>1, NextRequest DEF Pending, n
    <3>2. \A j \in Pending : j # 1 => 1 < j
      BY PendingTyped
    <3>3. \A j \in Pending : j # 1 => input[1].req < input[j].req
      BY <3>1, <3>2 DEF Numbered
    <3> QED BY <1>2, <3>1, <3>3
  <2>2. CASE ~IsRequest(input[1])
    <3>1. 1 \notin Pending /\ c = b
      BY <2>2 DEF Pending
    <3> QED BY <3>1 DEF Numbered
  <2> QED BY <2>1, <2>2
<1>6. ASSUME NEW i \in Pending', NEW j \in Pending', i < j PROVE input'[i].req < input'[j].req
  <2>1. i + 1 < j + 1
    BY <1>3, <1>6
  <2> QED BY <1>3, <2>1 DEF Numbered
<1>7. ASSUME NEW i \in Pending' PROVE c < input'[i].req /\ input'[i].req <= sent'
  <2>1. i + 1 \in Pending /\ i + 1 # 1 /\ input'[i] = input[i + 1]
    <3>1. i \in 1 .. m /\ i + 1 \in Pending /\ input'[i] = input[i + 1]
      BY <1>3
    <3>2. i + 1 # 1
      BY <1>1, <3>1
    <3> QED BY <3>1, <3>2
  <2> QED BY <1>5, <2>1 DEF Numbered
<1>8. ASSUME NEW i \in Pending', NEW q \in Requests, c < q, q < input'[i].req
      PROVE  \E j \in Pending' : j < i /\ input'[j].req = q
  <2>1. i + 1 \in Pending /\ input'[i] = input[i + 1] /\ b < q
    <3>1. q \in Nat
      BY Payloads
    <3>2. b < q
      <4> HIDE DEF b, c
      <4> QED BY <1>2, <1>8, <3>1
    <3> QED BY <1>3, <3>2
  <2>2. PICK j \in Pending : j < i + 1 /\ input[j].req = q
    BY <1>8, <2>1 DEF Numbered
  <2>3. j # 1
    BY <1>5, <1>8, <2>2
  <2>4. j - 1 < i /\ j - 1 \in Pending' /\ input'[j - 1].req = q
    BY <1>3, <1>4, <2>2, <2>3, PendingTyped
  <2> QED BY <2>4
<1>9. ASSUME ~closed', NEW q \in Requests, c < q, q <= sent'
      PROVE  \E j \in Pending' : input'[j].req = q
  <2>1. b < q
    <3>1. q \in Nat
      BY Payloads
    <3> QED BY <1>2, <1>9, <3>1
  <2>2. PICK j \in Pending : input[j].req = q
    BY <1>9, <2>1 DEF Numbered
  <2>3. j # 1
    BY <1>5, <1>9, <2>2
  <2> QED BY <1>4, <2>2, <2>3
<1> HIDE DEF c
<1>10. c <= sent' /\ nextDraft' <= c + 1
  BY <1>2 DEF c
<1> QED BY <1>6, <1>7, <1>8, <1>9, <1>10 DEF Numbered, c

(* A frame is sent, with the number that comes next if it is a request.    *)
LEMMA NumberedGrown ==
  ASSUME TypeOK, Numbered, ~closed, NEW f, NEW n, Grown(f, n),
         UNCHANGED <<pc, part, reader, nextDraft, closed>>,
         sent' = IF IsRequest(f) THEN sent + 1 ELSE sent,
         IsRequest(f) => f.req = sent + 1
  PROVE  Numbered'
<1> DEFINE L == Len(input)
           k == L + 1
<1>1. /\ L \in Nat /\ Base \in Nat /\ sent \in Nat /\ Base' = Base /\ n \in Nat
      /\ Len(input') = L + 1 + n
      /\ sent' \in Nat /\ sent <= sent' /\ Requests \subseteq Nat
  BY Payloads DEF Grown, Base, Amid
<1>2. SUFFICES ASSUME Serving PROVE Numbered'
  BY DEF Numbered, Serving
<1>3. /\ \A i \in 1 .. L : input'[i] = input[i]
      /\ input'[k] = f
      /\ \A i \in 1 .. Len(input') : i > k => input'[i] = Byte
  BY DEF Grown
<1>4. \A i \in Pending : i \in Pending' /\ i < k /\ input'[i] = input[i]
  <2>1. ASSUME NEW i \in Pending PROVE i \in Pending' /\ i < k /\ input'[i] = input[i]
    <3>1. i \in 1 .. L /\ IsRequest(input[i])
      BY DEF Pending
    <3>2. i \in 1 .. Len(input') /\ i < k
      <4> HIDE DEF L
      <4> QED BY <1>1, <3>1
    <3> QED BY <1>3, <3>1, <3>2 DEF Pending
  <2> QED BY <2>1
<1>5. \A i \in Pending' : i \in Pending \/ (i = k /\ IsRequest(f))
  <2>1. ASSUME NEW i \in Pending' PROVE i \in Pending \/ (i = k /\ IsRequest(f))
    <3>1. i \in 1 .. Len(input') /\ IsRequest(input'[i])
      BY DEF Pending
    <3>2. i \in 1 .. L \/ i = k \/ i > k
      <4> HIDE DEF L
      <4> QED BY <1>1, <3>1
    <3>3. ~IsRequest(Byte)
      BY DEF IsRequest, Byte
    <3> QED BY <1>3, <3>1, <3>2, <3>3 DEF Pending
  <2> QED BY <2>1
<1>6. IsRequest(f) => k \in Pending' /\ input'[k].req = sent + 1
  <2>1. k \in 1 .. Len(input')
    <3> HIDE DEF L
    <3> QED BY <1>1
  <2> QED BY <1>3, <2>1 DEF Pending
<1>7. /\ Base <= sent /\ nextDraft <= Base + 1
      /\ \A i, j \in Pending : i < j => input[i].req < input[j].req
      /\ \A i \in Pending : Base < input[i].req /\ input[i].req <= sent /\ input[i].req \in Nat
      /\ \A i \in Pending, q \in Requests :
           Base < q /\ q < input[i].req => \E j \in Pending : j < i /\ input[j].req = q
      /\ \A q \in Requests : Base < q /\ q <= sent => \E j \in Pending : input[j].req = q
  BY <1>2, PendingTyped DEF Numbered
<1> HIDE DEF k
<1>8. ASSUME NEW i \in Pending', NEW j \in Pending', i < j PROVE input'[i].req < input'[j].req
  <2>1. CASE j \in Pending
    <3>1. i \in Pending
      <4>1. i # k
        BY <1>1, <1>4, <1>8, <2>1, PendingTyped DEF k
      <4> QED BY <1>5, <4>1
    <3> QED BY <1>4, <1>7, <1>8, <2>1, <3>1
  <2>2. CASE j = k /\ IsRequest(f)
    <3>1. i \in Pending
      <4>1. i # k
        BY <1>1, <1>8, <2>2 DEF k
      <4> QED BY <1>5, <4>1
    <3>2. input'[i].req <= sent /\ input'[i].req \in Nat
      BY <1>4, <1>7, <3>1
    <3> QED BY <1>1, <1>6, <2>2, <3>2
  <2> QED BY <1>5, <2>1, <2>2
<1>9. ASSUME NEW i \in Pending' PROVE Base < input'[i].req /\ input'[i].req <= sent'
  <2>1. CASE i \in Pending
    BY <1>1, <1>4, <1>7, <2>1
  <2>2. CASE i = k /\ IsRequest(f)
    BY <1>1, <1>6, <1>7, <2>2
  <2> QED BY <1>5, <2>1, <2>2
<1>10. ASSUME NEW i \in Pending', NEW q \in Requests, Base < q, q < input'[i].req
       PROVE  \E j \in Pending' : j < i /\ input'[j].req = q
  <2>1. CASE i \in Pending
    BY <1>4, <1>7, <1>10, <2>1
  <2>2. CASE i = k /\ IsRequest(f)
    <3>1. q <= sent
      BY <1>1, <1>6, <1>10, <2>2
    <3>2. PICK j \in Pending : input[j].req = q
      BY <1>7, <1>10, <3>1
    <3> QED BY <1>4, <2>2, <3>2
  <2> QED BY <1>5, <2>1, <2>2
<1>11. ASSUME NEW q \in Requests, Base < q, q <= sent'
       PROVE  \E j \in Pending' : input'[j].req = q
  <2>1. CASE q <= sent
    BY <1>4, <1>7, <1>11, <2>1
  <2>2. CASE ~(q <= sent)
    <3>1. q = sent + 1 /\ IsRequest(f)
      BY <1>1, <1>11, <2>2
    <3> QED BY <1>6, <3>1
  <2> QED BY <2>1, <2>2
<1>12. Base <= sent' /\ nextDraft' <= Base + 1
  BY <1>1, <1>7
<1> QED BY <1>1, <1>8, <1>9, <1>10, <1>11, <1>12 DEF Numbered

(* The stream is cut: what stays of it is numbered as it was. *)
LEMMA NumberedCut ==
  ASSUME TypeOK, Numbered, NEW k \in Nat, input' \in Seq(Token), Len(input') = k,
         \A i \in 1 .. k : i \in 1 .. Len(input) /\ input'[i] = input[i],
         closed' = TRUE, UNCHANGED <<pc, part, reader, nextDraft, sent>>
  PROVE  Numbered'
<1>1. Base' = Base /\ (Serving' => Serving)
  BY DEF Base, Amid, Serving
<1>2. \A i \in Pending' : i \in Pending /\ i \in 1 .. k /\ input'[i] = input[i]
  BY DEF Pending
<1>3. \A i \in Pending', j \in Pending : j < i => j \in Pending' /\ input'[j] = input[j]
  <2>1. ASSUME NEW i \in Pending', NEW j \in Pending, j < i
        PROVE  j \in Pending' /\ input'[j] = input[j]
    <3>1. j \in 1 .. k
      BY <1>2, <2>1, PendingTyped
    <3> QED BY <3>1 DEF Pending
  <2> QED BY <2>1
<1>4. SUFFICES ASSUME Serving PROVE Numbered'
  BY <1>1 DEF Numbered
<1>5. ASSUME NEW i \in Pending', NEW q \in Requests, Base < q, q < input'[i].req
      PROVE  \E j \in Pending' : j < i /\ input'[j].req = q
  <2>1. PICK j \in Pending : j < i /\ input[j].req = q
    BY <1>2, <1>4, <1>5 DEF Numbered
  <2> QED BY <1>3, <2>1
<1> QED BY <1>1, <1>2, <1>4, <1>5 DEF Numbered

-----------------------------------------------------------------------------
(* What the client makes of what is written. *)

Reader == [last : {0} \cup Requests, ordered : BOOLEAN, owed : Lengths, whole : BOOLEAN]

(* A frame written while no payload is owed is taken for a frame. *)
LEMMA FrameRead ==
  ASSUME TypeOK, reader.owed = 0, NEW token, token.req \in {0} \cup Requests,
         token.op = "blob" => token.bytes \in Lengths, Written(token)
  PROVE  /\ reader' \in Reader
         /\ reader'.last = IF token.req = 0 THEN reader.last ELSE token.req
         /\ reader'.owed = IF token.op = "blob" THEN token.bytes ELSE 0
         /\ reader'.whole = reader.whole
         /\ reader.ordered /\ token.req \in {0, reader.last + 1} => reader'.ordered
<1>1. reader \in Reader /\ 0 \in Lengths /\ Lengths \subseteq Nat
  BY Bounds DEF TypeOK, Reader, Lengths
<1> DEFINE owed == IF token.op = "blob" THEN token.bytes ELSE 0
           last == IF token.req = 0 THEN reader.last ELSE token.req
           ordered == reader.ordered /\ token.req \in {0, reader.last + 1}
<1>2. reader' = [reader EXCEPT !.owed = owed, !.last = last, !.ordered = ordered]
  BY <1>1 DEF Written
<1>3. owed \in Lengths /\ last \in {0} \cup Requests /\ ordered \in BOOLEAN
  BY <1>1 DEF Reader
<1>4. reader'.last = last /\ reader'.owed = owed /\ reader'.whole = reader.whole /\ reader'.ordered = ordered
  <2> HIDE DEF owed, last, ordered
  <2> QED BY <1>1, <1>2 DEF Reader
<1>5. reader' \in Reader
  <2> HIDE DEF owed, last, ordered
  <2> QED BY <1>1, <1>2, <1>3 DEF Reader
<1> QED BY <1>4, <1>5

(* A token written while a payload is owed is taken for a byte of it. *)
LEMMA ByteRead ==
  ASSUME TypeOK, reader.owed # 0, NEW token, Written(token)
  PROVE  /\ reader' \in Reader
         /\ reader'.last = reader.last /\ reader'.owed = reader.owed - 1
         /\ token = Byte => reader'.whole = reader.whole
         /\ reader'.ordered = reader.ordered
<1>1. reader \in Reader /\ reader.owed > 0 /\ reader.owed - 1 \in Lengths
  BY Bounds DEF TypeOK, Reader, Lengths
<1>2. reader' = [reader EXCEPT !.owed = reader.owed - 1, !.whole = reader.whole /\ token = Byte]
  BY <1>1 DEF Written
<1> DEFINE whole == reader.whole /\ token = Byte
<1>3. whole \in BOOLEAN /\ (token = Byte => whole = reader.whole)
  BY <1>1 DEF Reader
<1> HIDE DEF whole
<1>4. reader' = [reader EXCEPT !.owed = reader.owed - 1, !.whole = whole]
  BY <1>2 DEF whole
<1> QED BY <1>1, <1>3, <1>4 DEF Reader

(* An answer is taken for an answer, or ends the session. *)
LEMMA Replied ==
  ASSUME TypeOK, reader.owed = 0, NEW q \in {0} \cup Requests, Reply(q)
  PROVE  /\ reader' \in Reader
         /\ pc' \in {"frames", "ending"}
         /\ reader'.owed = 0 /\ reader'.whole = reader.whole
         /\ pc' = "frames" => reader'.last = IF q = 0 THEN reader.last ELSE q
         /\ reader.ordered /\ q \in {0, reader.last + 1} => reader'.ordered
<1>1. CASE Written(Answer(q)) /\ Go("frames")
  <2>1. Answer(q).req = q /\ Answer(q).op # "blob"
    BY DEF Answer
  <2> QED BY <1>1, <2>1, FrameRead DEF Go
<1>2. CASE UNCHANGED reader /\ Go("ending")
  BY <1>2 DEF TypeOK, Reader, Go
<1> QED BY <1>1, <1>2 DEF Reply

-----------------------------------------------------------------------------
(* The steps of the session keep what is said of the stream. *)

(* Once the session serves no more, little is asked of it. *)
LEMMA NotServing ==
  ASSUME pc' \in {"ending", "over"}, ~part'.stray, reader'.ordered
  PROVE  Sound'
BY DEF Sound, Framed, Numbered, Answerable, Owing, Serving, Amid

(* What is expected of the stream at each place. *)
LEMMA ExpectedAt ==
  /\ pc = "taking" => Expected = part.bytes - part.read
  /\ pc = "draining" => Expected = part.left
  /\ pc \notin {"taking", "draining"} => Expected = 0
BY DEF Expected

(* A frame without a payload is read and answered, with a payload or       *)
(* without one.                                                            *)
LEMMA Answered ==
  ASSUME TypeOK, Sound, NEW op, Take("frames", op),
         op \in {"begin", "commit", "abort", "query", "fetch"},
         UNCHANGED part, nextDraft' <= nextDraft + (IF op = "begin" THEN 1 ELSE 0),
         nextDraft' \in Nat, unwritten' \in Nat,
         pc' \in {"frames", "blob", "ending"}, reader'.ordered,
         pc' # "ending" =>
           reader'.last = IF Head(input).req = 0 THEN reader.last ELSE Head(input).req,
         pc' = "frames" => reader'.owed = 0, pc' = "blob" => reader'.owed = unwritten'
  PROVE  Sound'
<1>1. /\ pc = "frames" /\ input # << >> /\ input[1].op = op /\ Head(input) = input[1]
      /\ input' = Tail(input) /\ UNCHANGED <<closed, sent>> /\ input[1] \in Token
      /\ Serving /\ ~Amid /\ Base = reader.last /\ ~part.stray
  BY Shifted DEF Take, Has, client, TypeOK, Serving, Amid, Base, Sound, Answerable
<1>2. CASE pc' = "ending"
  BY <1>1, <1>2, NotServing
<1>3. CASE pc' # "ending"
  <2>1. Serving' /\ ~Amid' /\ Base' = reader'.last
    BY <1>3 DEF Serving, Amid, Base
  <2>2. input[1] # Byte /\ Follows(1) = 0
    BY <1>1 DEF Byte, Follows
  <2>3. Expected' = 0
    BY <1>3 DEF Expected
  <2>4. Framed'
    BY <1>1, <2>2, <2>3, FramedTail DEF Sound
  <2>5. Base' = IF IsRequest(input[1]) THEN Base + 1 ELSE Base
    <3>1. CASE IsRequest(input[1])
      <4>1. input[1].req = Base + 1 /\ input[1].req \in Nat \ {0}
        BY <1>1, <3>1, NextRequest, Fields, Payloads DEF Sound
      <4> QED BY <1>1, <1>3, <2>1, <3>1, <4>1
    <3>2. CASE ~IsRequest(input[1])
      <4>1. input[1].req = 0
        <5>1. op = "query"
          BY <1>1, <3>2, Fields
        <5>2. input[1].req \in {0} \cup Requests
          BY <1>1, <5>1, Fields
        <5>3. ~(input[1].req > 0)
          BY <1>1, <3>2 DEF IsRequest
        <5> QED BY <5>2, <5>3, Payloads
      <4> QED BY <1>1, <1>3, <2>1, <3>2, <4>1
    <3> QED BY <3>1, <3>2
  <2>6. nextDraft' <= Base' + 1
    <3>1. nextDraft <= Base + 1 /\ Base \in Nat /\ nextDraft \in Nat
      BY <1>1, Payloads, Bounds DEF Sound, Numbered, TypeOK
    <3>2. op = "begin" => IsRequest(input[1])
      BY <1>1, Fields
    <3> QED BY <2>5, <3>1, <3>2
  <2>7. Numbered'
    BY <1>1, <2>5, <2>6, NumberedTail DEF Sound
  <2>8. Answerable' /\ Owing'
    BY <1>1, <1>3, <2>1 DEF Answerable, Owing, Serving
  <2> QED BY <2>4, <2>7, <2>8 DEF Sound
<1> QED BY <1>2, <1>3

(* The client sends a frame that it may send. *)
LEMMA SentSound ==
  ASSUME TypeOK, Sound, ~closed, NEW f, NEW n, Grown(f, n),
         UNCHANGED <<state, pc, reader, unwritten, closed>>,
         sent' = IF IsRequest(f) THEN sent + 1 ELSE sent,
         IsRequest(f) => f.req = sent + 1
  PROVE  Sound'
<1>1. Framed'
  BY FramedGrown DEF Sound, state
<1>2. Numbered'
  BY NumberedGrown DEF Sound, state
<1>3. Answerable' /\ Owing'
  BY DEF Sound, Answerable, Owing, Amid, Known, Serving, state
<1> QED BY <1>1, <1>2, <1>3 DEF Sound

(* Every frame that a client sends is a token, and is sent whole. *)
LEMMA RequestsSent ==
  ASSUME TypeOK, SendRequest
  PROVE  \E f, n : Grown(f, n) /\ IsRequest(f) /\ f.req = sent + 1
<1> DEFINE q == sent + 1
           Sent == \E f, n : Grown(f, n) /\ IsRequest(f) /\ f.req = q
<1> SUFFICES Sent
  OBVIOUS
<1>1. q \in Requests
  BY Bounds DEF SendRequest, TypeOK, Requests
<1>2. ASSUME NEW f \in Token, f.op \in {"begin", "query", "fetch", "commit", "abort", "streamed"},
             f.req = q, Send(<<f>>)
      PROVE  Sent
  <2>1. Grown(f, 0)
    BY <1>2, GrownByOne
  <2>2. IsRequest(f)
    BY <1>1, <1>2, Payloads DEF IsRequest
  <2> QED BY <1>2, <2>1, <2>2
<1>3. ASSUME NEW f \in Token, NEW n \in Lengths, f.op = "part", f.bytes = n, f.req = q,
             Send(<<f>> \o Bytes(n))
      PROVE  Sent
  <2>1. Grown(f, n)
    BY <1>3, GrownByPayload
  <2>2. IsRequest(f)
    BY <1>1, <1>3, Payloads DEF IsRequest
  <2> QED BY <1>3, <2>1, <2>2
<1> HIDE DEF q
<1>4. /\ Begin(q) \in Token /\ Begin(q).op = "begin" /\ Begin(q).req = q
      /\ Query(q) \in Token /\ Query(q).op = "query" /\ Query(q).req = q
      /\ Fetch(q) \in Token /\ Fetch(q).op = "fetch" /\ Fetch(q).req = q
  BY <1>1 DEF Token, Begin, Query, Fetch
<1>5. ASSUME NEW d \in Drafts
      PROVE  /\ Commit(q, d) \in Token /\ Commit(q, d).op = "commit" /\ Commit(q, d).req = q
             /\ Abort(q, d) \in Token /\ Abort(q, d).op = "abort" /\ Abort(q, d).req = q
             /\ Streamed(q, d) \in Token /\ Streamed(q, d).op = "streamed" /\ Streamed(q, d).req = q
  BY <1>1 DEF Token, Commit, Abort, Streamed
<1>6. ASSUME NEW d \in Drafts, NEW n \in Lengths
      PROVE  /\ Part(q, d, n) \in Token /\ Part(q, d, n).op = "part" /\ Part(q, d, n).req = q
             /\ Part(q, d, n).bytes = n
  BY <1>1 DEF Token, Part
<1>7. \/ Send(<<Begin(q)>>) \/ Send(<<Query(q)>>) \/ Send(<<Fetch(q)>>)
      \/ \E d \in Drafts :
           \/ Send(<<Commit(q, d)>>) \/ Send(<<Abort(q, d)>>) \/ Send(<<Streamed(q, d)>>)
           \/ \E n \in Lengths : Send(<<Part(q, d, n)>> \o Bytes(n))
  BY DEF SendRequest, q
<1> HIDE DEF Sent
<1>8. CASE Send(<<Begin(q)>>) \/ Send(<<Query(q)>>) \/ Send(<<Fetch(q)>>)
  BY <1>2, <1>4, <1>8
<1>9. ASSUME NEW d \in Drafts,
             Send(<<Commit(q, d)>>) \/ Send(<<Abort(q, d)>>) \/ Send(<<Streamed(q, d)>>)
      PROVE  Sent
  BY <1>2, <1>5, <1>9
<1>10. ASSUME NEW d \in Drafts, NEW n \in Lengths, Send(<<Part(q, d, n)>> \o Bytes(n))
       PROVE  Sent
  BY <1>3, <1>6, <1>10
<1> QED BY <1>7, <1>8, <1>9, <1>10

(* What the client does beside requests bears no number. *)
LEMMA OthersSent ==
  ASSUME TypeOK, SendHello \/ SendChunk \/ SendGarbage
  PROVE  \E f, n : Grown(f, n) /\ ~IsRequest(f)
<1> DEFINE Sent == \E f, n : Grown(f, n) /\ ~IsRequest(f)
<1> SUFFICES Sent
  OBVIOUS
<1>1. ASSUME NEW f \in Token, f.op \notin {"byte", "part", "chunk"}, ~IsRequest(f), Send(<<f>>)
      PROVE  Sent
  BY <1>1, GrownByOne
<1>2. ASSUME NEW n \in Lengths, Send(<<Chunk(n)>> \o Bytes(n)) PROVE Sent
  <2>1. Chunk(n) \in Token /\ Chunk(n).op = "chunk" /\ Chunk(n).bytes = n /\ ~IsRequest(Chunk(n))
    BY DEF Token, Chunk, IsRequest
  <2> QED BY <1>2, <2>1, GrownByPayload
<1>3. ASSUME NEW r \in Roles, NEW good \in BOOLEAN
      PROVE  Hello(r, good) \in Token /\ Hello(r, good).op = "hello" /\ ~IsRequest(Hello(r, good))
  BY DEF Hello, Token, IsRequest
<1>4. /\ Query(0) \in Token /\ Query(0).op = "query" /\ ~IsRequest(Query(0))
      /\ Garbage \in Token /\ Garbage.op = "garbage" /\ ~IsRequest(Garbage)
      /\ "ui" \in Roles
  BY DEF Query, Garbage, Token, IsRequest, Roles
<1> HIDE DEF Sent
<1>5. CASE SendHello
  <2>1. (\E r \in Roles : Send(<<Hello(r, TRUE)>>)) \/ Send(<<Hello("ui", FALSE)>>) \/ Send(<<Query(0)>>)
    BY <1>5 DEF SendHello
  <2> QED BY <1>1, <1>3, <1>4, <2>1
<1>6. CASE SendChunk
  BY <1>2, <1>6 DEF SendChunk
<1>7. CASE SendGarbage
  BY <1>1, <1>4, <1>7 DEF SendGarbage
<1> QED BY <1>5, <1>6, <1>7

(* What is sent is sent by a client that is there. *)
LEMMA SendFrame ==
  ASSUME SendHello \/ SendRequest \/ SendChunk \/ SendGarbage
  PROVE  ~closed /\ UNCHANGED <<state, pc, reader, unwritten, events, closed>>
BY DEF SendHello, SendRequest, SendChunk, SendGarbage, Send

(* The client's steps keep what is said of the stream and of the state. *)
LEMMA ClientSound ==
  ASSUME IndInv, Client
  PROVE  IndInv'
<1>1. TypeOK /\ Sound
  BY DEF IndInv
<1>2. CASE SendHello \/ SendRequest \/ SendChunk \/ SendGarbage
  <2>1. ~closed /\ UNCHANGED <<state, pc, reader, unwritten, events, closed>>
    BY <1>2, SendFrame
  <2>2. /\ input' \in Seq(Token) => TypeOK'
        /\ SendRequest => sent' = sent + 1
        /\ SendHello \/ SendChunk \/ SendGarbage => sent' = sent
    <3>1. SendRequest => sent' = sent + 1 /\ sent' \in 0 .. MaxReqs /\ chunked' \in BOOLEAN /\ chunks' = chunks
      <4>1. sent \in 0 .. MaxReqs /\ chunked \in BOOLEAN
        BY <1>1 DEF TypeOK
      <4>2. SendRequest => sent < MaxReqs /\ sent' = sent + 1 /\ chunks' = chunks
        BY DEF SendRequest
      <4>3. SendRequest => chunked' = chunked \/ chunked' = TRUE
        BY Zenon DEF SendRequest
      <4>4. SendRequest => sent' \in 0 .. MaxReqs
        BY <4>1, <4>2, Bounds
      <4>5. SendRequest => chunked' \in BOOLEAN
        BY Zenon, <4>1, <4>3
      <4> QED BY <4>2, <4>4, <4>5
    <3>2. SendHello \/ SendGarbage => sent' = sent /\ chunked' = chunked /\ chunks' = chunks
      BY DEF SendHello, SendGarbage
    <3>3. SendChunk => sent' = sent /\ chunked' \in BOOLEAN /\ chunks' \in 0 .. MaxChunks
      <4>1. chunks \in 0 .. MaxChunks
        BY <1>1 DEF TypeOK
      <4> QED BY <4>1, Bounds DEF SendChunk
    <3>4. sent' \in 0 .. MaxReqs /\ chunked' \in BOOLEAN /\ chunks' \in 0 .. MaxChunks
      BY <1>1, <1>2, <3>1, <3>2, <3>3 DEF TypeOK
    <3> QED BY <1>1, <2>1, <3>1, <3>2, <3>3, <3>4 DEF TypeOK, state
  <2>3. CASE SendRequest
    <3>1. PICK f, n : Grown(f, n) /\ IsRequest(f) /\ f.req = sent + 1
      BY <1>1, <2>3, RequestsSent
    <3> QED BY <1>1, <2>1, <2>2, <2>3, <3>1, SentSound DEF IndInv, Grown
  <2>4. CASE SendHello \/ SendChunk \/ SendGarbage
    <3>1. PICK f, n : Grown(f, n) /\ ~IsRequest(f)
      BY <1>1, <2>4, OthersSent
    <3> QED BY <1>1, <2>1, <2>2, <2>4, <3>1, SentSound DEF IndInv, Grown
  <2> QED BY <1>2, <2>3, <2>4
<1>3. CASE Hangup
  <2>1. PICK k \in 0 .. Len(input) : input' = SubSeq(input, 1, k)
    BY <1>3 DEF Hangup
  <2>2. closed' = TRUE /\ UNCHANGED <<sent, chunked, chunks, state, pc, reader, unwritten, events>>
    BY <1>3 DEF Hangup
  <2>3. k \in Nat
    BY <1>1, Payloads
  <2>4. /\ Framed' /\ input' \in Seq(Token) /\ Len(input') = k
        /\ \A i \in 1 .. k : i \in 1 .. Len(input) /\ input'[i] = input[i]
    BY <1>1, <2>1, <2>2, FramedCut DEF Sound, state
  <2>5. Numbered'
    BY <1>1, <2>2, <2>3, <2>4, NumberedCut DEF Sound, state
  <2>6. Answerable' /\ Owing'
    BY <1>1, <2>2 DEF Sound, Answerable, Owing, Amid, Known, Serving, state
  <2>7. TypeOK'
    BY <1>1, <2>2, <2>4 DEF TypeOK, state
  <2> QED BY <2>4, <2>5, <2>6, <2>7 DEF IndInv, Sound
<1> QED BY <1>2, <1>3 DEF Client

-----------------------------------------------------------------------------
(* The steps of the session keep the invariant. *)

(* What is left of the state when a frame is read. *)
LEMMA TakeTyped ==
  ASSUME TypeOK, NEW place, NEW op, Take(place, op)
  PROVE  /\ pc = place /\ input # << >> /\ input' = Tail(input) /\ input' \in Seq(Token)
         /\ Head(input) = input[1] /\ input[1] \in Token /\ input[1].op = op
         /\ UNCHANGED <<closed, sent, chunked, chunks, events>>
<1>1. input # << >> /\ input' = Tail(input) /\ Head(input).op = op
  BY DEF Take, Has
<1> QED BY <1>1, Shifted DEF Take, client, TypeOK

(* The drafts are numbered by requests, and are not too many. *)
Drafted(d, next) ==
  /\ \E open \in SUBSET Requests : d \in [open -> 0 .. MaxParts]
  /\ Cardinality(DOMAIN d) <= MaxDrafts
  /\ next \in 1 .. MaxReqs + 1 /\ \A e \in DOMAIN d : e < next

(* A draft is opened under the number that comes next. *)
LEMMA DraftOpened ==
  ASSUME Drafted(drafts, nextDraft), nextDraft \in Requests,
         Cardinality(DOMAIN drafts) < MaxDrafts,
         NEW d, d = [e \in DOMAIN drafts \cup {nextDraft} |->
                       IF e = nextDraft THEN 0 ELSE drafts[e]]
  PROVE  Drafted(d, nextDraft + 1)
<1>1. PICK open \in SUBSET Requests : drafts \in [open -> 0 .. MaxParts]
  BY DEF Drafted
<1> DEFINE more == open \cup {nextDraft}
<1>2. DOMAIN drafts = open /\ DOMAIN d = more /\ more \in SUBSET Requests
  BY <1>1
<1>3. d \in [more -> 0 .. MaxParts]
  BY <1>1, <1>2, Bounds
<1>4. Cardinality(more) <= MaxDrafts
  <2>1. IsFiniteSet(Requests)
    BY Bounds, FS_Interval DEF Requests
  <2>2. IsFiniteSet(open) /\ nextDraft \notin open
    <3>1. ~(nextDraft < nextDraft)
      BY Bounds DEF Requests
    <3>2. nextDraft \notin open
      BY <1>2, <3>1 DEF Drafted
    <3>3. IsFiniteSet(open)
      BY <1>1, <2>1, FS_Subset
    <3> QED BY <3>2, <3>3
  <2>3. Cardinality(more) = Cardinality(open) + 1 /\ Cardinality(open) \in Nat
    BY <2>2, FS_AddElement, FS_CardinalityType
  <2> QED BY <1>2, <2>3, Bounds
<1>5. nextDraft + 1 \in 1 .. MaxReqs + 1 /\ \A e \in more : e < nextDraft + 1
  <2>1. nextDraft \in Nat /\ open \subseteq Nat /\ nextDraft <= MaxReqs /\ nextDraft >= 1
    BY <1>1, Bounds DEF Requests
  <2>2. \A e \in open : e < nextDraft
    BY <1>2 DEF Drafted
  <2> QED BY <2>1, <2>2, Bounds
<1> HIDE DEF more
<1> QED BY <1>2, <1>3, <1>4, <1>5 DEF Drafted

(* A draft is closed. *)
LEMMA DraftClosed ==
  ASSUME Drafted(drafts, nextDraft), NEW gone, NEW d,
         d = [e \in DOMAIN drafts \ gone |-> drafts[e]]
  PROVE  Drafted(d, nextDraft)
<1>1. PICK open \in SUBSET Requests : drafts \in [open -> 0 .. MaxParts]
  BY DEF Drafted
<1> DEFINE less == open \ gone
<1>2. DOMAIN drafts = open /\ DOMAIN d = less /\ less \in SUBSET Requests
  BY <1>1
<1>3. d \in [less -> 0 .. MaxParts]
  BY <1>1, <1>2
<1>4. Cardinality(less) <= MaxDrafts
  <2>1. IsFiniteSet(open)
    <3>1. IsFiniteSet(Requests)
      BY Bounds, FS_Interval DEF Requests
    <3> QED BY <1>1, <3>1, FS_Subset
  <2>2. Cardinality(less) <= Cardinality(open) /\ Cardinality(open) \in Nat /\ Cardinality(less) \in Nat
    BY <2>1, FS_Subset, FS_CardinalityType
  <2>3. Cardinality(open) <= MaxDrafts
    BY <1>2 DEF Drafted
  <2> QED BY <2>2, <2>3, Bounds
<1> QED BY <1>2, <1>3, <1>4 DEF Drafted

(* What the type invariant says of the drafts. *)
LEMMA DraftedTyped ==
  TypeOK => Drafted(drafts, nextDraft)
BY DEF TypeOK, Drafted

(* The frames without a payload, and the end of the stream. *)
LEMMA FramesSound ==
  ASSUME IndInv,
         Greet \/ BeginDraft \/ EndDraft \/ AnswerQuery \/ BadFrame \/ EndOfInput \/ Interrupted \/ Close
  PROVE  IndInv'
<1>1. TypeOK /\ Sound /\ reader.ordered /\ reader \in Reader /\ 0 \in {0} \cup Requests
      /\ nextDraft \in Nat /\ unwritten \in Nat
  BY Payloads, Bounds DEF IndInv, Sound, Owing, TypeOK, Reader
<1>2. CASE Greet
  <2>1. pc = "greeting" /\ reader.owed = 0 /\ ~part.stray /\ UNCHANGED <<part, drafts, nextDraft, unwritten>>
        /\ Serving /\ ~Amid
    BY <1>1, <1>2 DEF Greet, Sound, Owing, Serving, Answerable, Amid
  <2>2. /\ input # << >> /\ input' = Tail(input) /\ input' \in Seq(Token)
        /\ UNCHANGED <<closed, sent, chunked, chunks, events>>
    BY <1>1, <1>2, Shifted DEF Greet, Take, Has, client, TypeOK
  <2>3. /\ reader' \in Reader /\ reader'.ordered /\ reader'.owed = 0
        /\ pc' \in {"frames", "ending"} /\ role' \in Roles \cup {"none"}
        /\ pc' = "frames" => reader'.last = reader.last /\ input[1].op = "hello"
    <3>1. CASE Take("greeting", "hello")
      <4>1. Head(input) = input[1] /\ input[1] \in Token /\ input[1].op = "hello"
        BY <1>1, <3>1, TakeTyped
      <4>2. input[1].role \in Roles
        BY <4>1, Fields
      <4>3. CASE Reply(0) /\ role' = Head(input).role
        BY <1>1, <2>1, <4>1, <4>2, <4>3, Replied
      <4>4. CASE Written(Answer(0)) /\ Go("ending") /\ UNCHANGED role
        <5>1. Answer(0).req = 0 /\ Answer(0).op # "blob"
          BY DEF Answer
        <5> QED BY <1>1, <2>1, <4>4, <5>1, FrameRead DEF Go, TypeOK
      <4> QED BY <1>2, <3>1, <4>1, <4>3, <4>4 DEF Greet
    <3>2. CASE Head(input).op # "hello" /\ Go("ending") /\ UNCHANGED <<role, reader>>
      BY <1>1, <2>1, <3>2 DEF Go, TypeOK
    <3> QED BY <1>2, <3>1, <3>2 DEF Greet
  <2>4. TypeOK'
    BY <1>1, <2>1, <2>2, <2>3 DEF TypeOK, Reader, Places
  <2>5. Sound'
    <3>1. CASE pc' = "ending"
      BY <2>1, <2>3, <3>1, NotServing
    <3>2. CASE pc' = "frames"
      <4>1. Base' = Base /\ Expected' = 0 /\ Serving'
        BY <2>1, <2>3, <3>2 DEF Base, Amid, Expected, Serving
      <4>2. input[1] # Byte /\ Follows(1) = 0 /\ ~IsRequest(input[1])
        BY <2>3, <3>2 DEF Byte, Follows, IsRequest
      <4>3. nextDraft' <= Base' + 1
        BY <1>1, <2>1, <4>1 DEF Sound, Numbered
      <4>4. Framed'
        BY <1>1, <2>1, <2>2, <4>1, <4>2, FramedTail DEF Sound
      <4>5. Numbered'
        BY <1>1, <2>1, <2>2, <4>1, <4>2, <4>3, NumberedTail DEF Sound
      <4>6. Answerable' /\ Owing'
        BY <2>1, <2>3, <3>2 DEF Answerable, Owing, Amid
      <4> QED BY <4>4, <4>5, <4>6 DEF Sound
    <3> QED BY <2>3, <3>1, <3>2
  <2> QED BY <2>4, <2>5 DEF IndInv
<1>3. CASE BeginDraft
  <2>1. Take("frames", "begin") /\ Reply(Head(input).req) /\ UNCHANGED <<role, part, unwritten>>
    BY <1>3 DEF BeginDraft
  <2>2. /\ pc = "frames" /\ input # << >> /\ input' \in Seq(Token) /\ Head(input) = input[1]
        /\ input[1] \in Token /\ input[1].op = "begin"
        /\ UNCHANGED <<closed, sent, chunked, chunks, events>>
    BY <1>1, <2>1, TakeTyped
  <2>3. /\ input[1].req = Base + 1 /\ Base = reader.last /\ input[1].req \in Requests
        /\ reader.owed = 0 /\ Serving
    BY <1>1, <2>2, NextRequest, Fields DEF Sound, Serving, Owing, Base, Amid
  <2>4. nextDraft \in Requests
    <3>1. nextDraft <= Base + 1 /\ Base + 1 \in Requests /\ nextDraft >= 1
      BY <1>1, <2>3, Bounds DEF Sound, Numbered, TypeOK
    <3> QED BY <1>1, <3>1, Bounds DEF Requests
  <2>5. /\ Drafted(drafts', nextDraft')
        /\ nextDraft' \in Nat /\ nextDraft' <= nextDraft + 1
    <3>1. Drafted(drafts, nextDraft)
      BY <1>1, DraftedTyped
    <3>2. CASE Records /\ Cardinality(DOMAIN drafts) < MaxDrafts
      BY <1>1, <1>3, <2>4, <3>1, <3>2, DraftOpened DEF BeginDraft
    <3>3. CASE ~(Records /\ Cardinality(DOMAIN drafts) < MaxDrafts)
      BY <1>1, <1>3, <3>1, <3>3 DEF BeginDraft
    <3> QED BY <3>2, <3>3
  <2>6. /\ reader' \in Reader /\ pc' \in {"frames", "ending"} /\ reader'.owed = 0 /\ reader'.ordered
        /\ pc' = "frames" => reader'.last = IF Head(input).req = 0 THEN reader.last ELSE Head(input).req
    BY <1>1, <2>1, <2>2, <2>3, Replied
  <2>7. TypeOK'
    BY <1>1, <2>1, <2>2, <2>5, <2>6 DEF TypeOK, Reader, Places, Drafted
  <2>8. Sound'
    BY <1>1, <2>1, <2>5, <2>6, Answered
  <2> QED BY <2>7, <2>8 DEF IndInv
<1>4. CASE EndDraft \/ AnswerQuery
  <2>1. PICK op \in {"commit", "abort", "query"} : Take("frames", op)
    BY <1>4 DEF EndDraft, AnswerQuery
  <2>2. /\ pc = "frames" /\ input # << >> /\ input' \in Seq(Token) /\ Head(input) = input[1]
        /\ input[1] \in Token /\ input[1].op = op
        /\ UNCHANGED <<closed, sent, chunked, chunks, events>>
    BY <1>1, <2>1, TakeTyped
  <2>3. Reply(input[1].req) /\ UNCHANGED <<role, part, nextDraft, unwritten>>
    BY <1>4, <2>2 DEF EndDraft, AnswerQuery, state
  <2>4. /\ input[1].req \in {0, reader.last + 1} \cap ({0} \cup Requests)
        /\ reader.owed = 0 /\ Serving
    <3>1. Serving /\ reader.owed = 0 /\ Base = reader.last
      BY <1>1, <2>2 DEF Sound, Serving, Owing, Base, Amid
    <3>2. input[1].req \in {0} \cup Requests
      BY <2>2, Fields
    <3>3. CASE IsRequest(input[1])
      BY <1>1, <2>2, <3>1, <3>2, <3>3, NextRequest DEF Sound
    <3>4. CASE ~IsRequest(input[1])
      <4>1. ~(input[1].req > 0)
        BY <2>2, <3>4 DEF IsRequest
      <4> QED BY <3>1, <3>2, <4>1, <1>1, Payloads
    <3> QED BY <3>3, <3>4
  <2>5. Drafted(drafts', nextDraft')
    <3>1. Drafted(drafts, nextDraft)
      BY <1>1, DraftedTyped
    <3>2. CASE EndDraft
      BY <2>3, <3>1, <3>2, DraftClosed DEF EndDraft
    <3>3. CASE AnswerQuery
      BY <3>1, <3>3 DEF AnswerQuery, state
    <3> QED BY <1>4, <3>2, <3>3
  <2>6. /\ reader' \in Reader /\ pc' \in {"frames", "ending"} /\ reader'.owed = 0 /\ reader'.ordered
        /\ pc' = "frames" => reader'.last = IF Head(input).req = 0 THEN reader.last ELSE Head(input).req
    BY <1>1, <2>2, <2>3, <2>4, Replied
  <2>7. TypeOK'
    BY <1>1, <2>2, <2>3, <2>5, <2>6 DEF TypeOK, Reader, Places, Drafted
  <2>8. Sound'
    BY <1>1, <2>1, <2>3, <2>6, Answered
  <2> QED BY <2>7, <2>8 DEF IndInv
<1>5. CASE BadFrame
  <2>1. Take("frames", "garbage") /\ Go("ending") /\ UNCHANGED <<state, unwritten>>
    BY <1>5 DEF BadFrame
  <2>2. /\ pc = "frames" /\ input' \in Seq(Token) /\ UNCHANGED <<closed, sent, chunked, chunks, events>>
    BY <1>1, <2>1, TakeTyped
  <2>3. reader.owed = 0 /\ ~part.stray
    BY <1>1, <2>2 DEF Sound, Owing, Serving, Answerable
  <2>4. reader' \in Reader /\ reader'.ordered
    <3>1. Answer(0).req = 0 /\ Answer(0).op # "blob"
      BY DEF Answer
    <3> QED BY <1>1, <1>5, <2>3, <3>1, FrameRead DEF BadFrame
  <2>5. TypeOK'
    BY <1>1, <2>1, <2>2, <2>4 DEF TypeOK, Reader, Places, Go, state
  <2>6. Sound'
    BY <2>1, <2>3, <2>4, NotServing DEF Go, state
  <2> QED BY <2>5, <2>6 DEF IndInv
<1>6. CASE EndOfInput \/ Interrupted
  <2>1. /\ Go("ending") /\ UNCHANGED <<client, state, reader, unwritten, events>> /\ pc # "draining"
        /\ input' = input \/ (input # << >> /\ input' = Tail(input))
    BY <1>6 DEF EndOfInput, Interrupted
  <2>2. input' \in Seq(Token)
    BY <1>1, <2>1, Shifted DEF TypeOK
  <2>3. ~part.stray
    BY <1>1, <2>1 DEF Sound, Answerable
  <2>4. TypeOK'
    BY <1>1, <2>1, <2>2 DEF TypeOK, Places, Go, state, client
  <2>5. Sound'
    BY <1>1, <2>1, <2>3, NotServing DEF Go, state
  <2> QED BY <2>4, <2>5 DEF IndInv
<1>7. CASE Close
  <2>1. /\ pc' = "over" /\ drafts' = << >> /\ part' = NoPart
        /\ UNCHANGED <<input, client, role, nextDraft, reader, unwritten, events>>
    BY <1>7 DEF Close, Go
  <2>2. Drafted(drafts', nextDraft')
    <3>1. drafts' \in [{} -> 0 .. MaxParts] /\ DOMAIN drafts' = {} /\ {} \in SUBSET Requests
      BY <2>1
    <3>2. Cardinality({}) = 0
      BY FS_EmptySet
    <3>3. nextDraft \in 1 .. MaxReqs + 1 /\ 0 <= MaxDrafts
      BY <1>1, Bounds DEF TypeOK
    <3>4. Cardinality(DOMAIN drafts') <= MaxDrafts /\ \A e \in DOMAIN drafts' : e < nextDraft
      BY <3>1, <3>2, <3>3
    <3> QED BY <2>1, <3>1, <3>3, <3>4 DEF Drafted
  <2>3. NoPart \in PartState /\ NoPart.read <= NoPart.bytes /\ ~NoPart.stray
    BY Bounds DEF NoPart, PartState, Lengths, Outcomes
  <2>4. TypeOK'
    BY <1>1, <2>1, <2>2, <2>3 DEF TypeOK, Places, client, Drafted
  <2>5. Sound'
    BY <1>1, <2>1, <2>3, NotServing
  <2> QED BY <2>4, <2>5 DEF IndInv
<1> QED BY <1>2, <1>3, <1>4, <1>5, <1>6, <1>7

(* A part's frame is read: its payload is what is expected next. *)
LEMMA PartBegun ==
  ASSUME TypeOK, Sound, NEW op \in {"part", "streamed"}, Take("frames", op),
         pc' \in {"taking", "draining", "chunks"}, Expected' = Follows(1),
         part'.req = input[1].req, ~part'.stray, UNCHANGED <<drafts, nextDraft, reader>>,
         part'.outcome \in {"pending", "recorded"} => Known(part'.draft),
         pc' = "taking" => part'.outcome = "pending"
  PROVE  Sound'
<1>1. /\ pc = "frames" /\ input # << >> /\ input' = Tail(input) /\ input[1] \in Token
      /\ input[1].op = op /\ UNCHANGED <<closed, sent>>
  BY TakeTyped
<1>2. /\ Serving /\ Base = reader.last /\ reader.owed = 0 /\ reader.ordered
      /\ IsRequest(input[1]) /\ input[1] # Byte
  BY <1>1, Fields DEF Serving, Base, Amid, Sound, Owing, Byte
<1>3. input[1].req = Base + 1
  BY <1>1, <1>2, NextRequest DEF Sound
<1>4. Amid' /\ Base' = Base + 1 /\ Serving'
  BY <1>3 DEF Amid, Base, Serving
<1>5. nextDraft' <= Base' + 1
  BY <1>2, <1>4, Payloads, Bounds DEF Sound, Numbered, TypeOK
<1>6. Framed'
  BY <1>1, <1>2, FramedTail DEF Sound
<1>7. Numbered'
  BY <1>1, <1>2, <1>4, <1>5, NumberedTail DEF Sound
<1>8. Answerable' /\ Owing'
  BY <1>2, <1>3, <1>4 DEF Answerable, Owing, Known
<1> QED BY <1>6, <1>7, <1>8 DEF Sound

(* The step of a part that reads on: a chunk's frame, or a byte. *)
LEMMA PartAdvanced ==
  ASSUME TypeOK, Sound, Amid \/ part'.stray,
         input # << >>, input' = Tail(input), UNCHANGED <<closed, sent>>, ~IsRequest(input[1]),
         \/ input[1] # Byte /\ Expected' = Follows(1)
         \/ Expected > 0 /\ Expected' = Expected - 1,
         pc \in {"frames", "taking", "draining", "chunks"},
         pc' \in {"taking", "draining", "chunks", "finished"},
         part'.stray => pc' = "draining",
         UNCHANGED <<drafts, nextDraft, reader>>,
         part'.stray \/ (part'.req = part.req /\ part'.draft = part.draft),
         part'.stray => part.stray \/ pc = "frames",
         part'.outcome \in {"pending", "recorded"} /\ ~part'.stray => Known(part.draft),
         pc' = "taking" => part'.outcome = "pending"
  PROVE  Sound'
<1>1. Serving /\ Serving' /\ reader.owed = 0 /\ reader.ordered
  BY DEF Serving, Sound, Owing
<1>2. Base' = Base /\ (Amid' => ~part'.stray /\ Amid)
  BY DEF Base, Amid
<1>3. Framed'
  BY <1>1, FramedTail DEF Sound
<1>4. nextDraft' <= Base' + 1
  BY <1>1, <1>2 DEF Sound, Numbered
<1>5. Numbered'
  BY <1>1, <1>2, <1>4, NumberedTail DEF Sound
<1>6. Answerable'
  BY <1>2 DEF Sound, Answerable, Known
<1>7. Owing'
  BY <1>1 DEF Owing
<1> QED BY <1>3, <1>5, <1>6, <1>7 DEF Sound

(* The step of a part that reads nothing: the payload is known to be       *)
(* refused, or read to its end.                                            *)
LEMMA PartSettled ==
  ASSUME TypeOK, Sound, Amid, UNCHANGED <<closed, sent, drafts, nextDraft, reader, input>>,
         pc' \in {"draining", "chunks", "finished"}, ~part'.stray,
         part'.req = part.req, part'.draft = part.draft,
         Expected' = Expected \/ (input = << >> /\ closed /\ Expected' = 0),
         part'.outcome \in {"pending", "recorded"} => Known(part.draft)
  PROVE  Sound'
<1>1. Serving /\ Serving' /\ reader.owed = 0 /\ reader.ordered /\ closed \in BOOLEAN
  BY DEF Serving, Sound, Owing, Amid, TypeOK
<1>2. Amid' /\ Base' = Base
  BY DEF Base, Amid
<1>3. Framed'
  BY <1>1, FramedSame, FramedEmpty DEF Sound
<1>4. nextDraft' <= Base' + 1
  BY <1>1, <1>2 DEF Sound, Numbered
<1>5. Numbered'
  BY <1>1, <1>2, <1>4, NumberedSame DEF Sound
<1>6. Answerable'
  BY <1>2 DEF Sound, Answerable, Known
<1>7. Owing'
  BY <1>1 DEF Owing
<1> QED BY <1>3, <1>5, <1>6, <1>7 DEF Sound

(* The expected bytes come first. *)
LEMMA ByteFirst ==
  ASSUME TypeOK, Sound, Serving, Expected > 0, input # << >>
  PROVE  input[1] = Byte /\ ~IsRequest(input[1])
<1>1. Len(input) \in Nat \ {0} /\ Expected \in Nat /\ 0 \in 0 .. Len(input) /\ 1 \in 1 .. Len(input)
  BY Payloads DEF TypeOK
<1>2. \A end \in {0 + Follows(0)} : FramedTo(0, end)
  BY <1>1 DEF Sound, Framed
<1>3. 0 + Follows(0) = Expected
  BY <1>1 DEF Follows
<1>4. FramedTo(0, Expected)
  BY <1>2, <1>3
<1>5. 0 < 1 /\ 1 <= Expected
  BY <1>1
<1>6. input[1] = Byte
  BY <1>1, <1>4, <1>5 DEF FramedTo
<1> QED BY <1>6 DEF IsRequest, Byte

(* The frames that announce a payload. *)
LEMMA PartFramesSound ==
  ASSUME IndInv, PartFrame \/ StreamedFrame \/ ChunkFrame \/ StrayChunk
  PROVE  IndInv'
<1> DEFINE f == input[1]
<1>1. TypeOK /\ Sound /\ part \in PartState /\ 0 \in Lengths /\ Lengths \subseteq Nat
      /\ \A n \in Lengths : n >= 0 /\ n - 0 = n
  BY Bounds DEF IndInv, TypeOK, Lengths
<1>2. /\ UNCHANGED <<role, drafts, nextDraft, reader, unwritten>>
      /\ UNCHANGED <<closed, sent, chunked, chunks, events>>
      /\ input # << >> /\ input' = Tail(input) /\ input' \in Seq(Token) /\ Head(input) = f /\ f \in Token
  BY <1>1, TakeTyped DEF PartFrame, StreamedFrame, ChunkFrame, StrayChunk
<1>3. ASSUME part' \in PartState, part'.read <= part'.bytes, pc' \in Places, Sound' PROVE IndInv'
  BY <1>1, <1>2, <1>3 DEF IndInv, TypeOK
<1> HIDE DEF f
<1>4. CASE PartFrame
  <2>1. Take("frames", "part") /\ f.op = "part" /\ f.req \in Requests /\ f.draft \in Drafts /\ f.bytes \in Lengths
    BY <1>1, <1>2, <1>4, TakeTyped, Fields DEF PartFrame, f
  <2>2. /\ part' = [NoPart EXCEPT !.req = f.req, !.draft = f.draft, !.bytes = f.bytes,
                      !.left = IF Known(f.draft) THEN 0 ELSE f.bytes,
                      !.outcome = IF Known(f.draft) THEN "pending" ELSE "nodraft"]
        /\ pc' = IF Known(f.draft) THEN "taking" ELSE "draining"
    BY <1>2, <1>4 DEF PartFrame, Go
  <2> HIDE DEF Known
  <2>3. /\ part'.req = f.req /\ part'.draft = f.draft /\ ~part'.stray
        /\ part'.bytes = f.bytes /\ part'.read = 0
        /\ part'.left = (IF Known(f.draft) THEN 0 ELSE f.bytes)
        /\ part'.outcome = (IF Known(f.draft) THEN "pending" ELSE "nodraft")
    BY <2>2 DEF NoPart
  <2>4. part' \in PartState
    BY <1>1, <2>1, <2>2 DEF NoPart, PartState, Outcomes
  <2>5. Expected' = Follows(1)
    BY <1>1, <2>1, <2>2, <2>3 DEF Expected, Follows, f
  <2>6. Sound'
    BY <1>1, <1>2, <2>1, <2>2, <2>3, <2>5, PartBegun DEF f
  <2> QED BY <1>1, <1>3, <2>1, <2>2, <2>3, <2>4, <2>6 DEF Places
<1>5. CASE StreamedFrame
  <2>1. Take("frames", "streamed") /\ f.op = "streamed" /\ f.req \in Requests /\ f.draft \in Drafts
    BY <1>1, <1>2, <1>5, TakeTyped, Fields DEF StreamedFrame, f
  <2>2. PICK outcome \in {"pending", "failed", "nodraft"} :
          /\ part' = [NoPart EXCEPT !.req = f.req, !.draft = f.draft, !.chunked = TRUE, !.outcome = outcome]
          /\ outcome = "pending" => Known(f.draft)
    BY <1>2, <1>5 DEF StreamedFrame
  <2>3. pc' = "chunks"
    BY <1>5 DEF StreamedFrame, Go
  <2>4. /\ part'.req = f.req /\ part'.draft = f.draft /\ ~part'.stray
        /\ part'.bytes = 0 /\ part'.read = 0 /\ part'.outcome = outcome
    BY <2>2 DEF NoPart
  <2>5. part' \in PartState
    BY <1>1, <2>1, <2>2 DEF NoPart, PartState, Outcomes
  <2>6. Expected' = Follows(1)
    BY <2>1, <2>3 DEF Expected, Follows, f
  <2>7. Sound'
    BY <1>1, <1>2, <2>1, <2>2, <2>3, <2>4, <2>6, PartBegun DEF f
  <2> QED BY <1>1, <1>3, <2>3, <2>4, <2>5, <2>7 DEF Places
<1>6. CASE ChunkFrame
  <2>1. Take("chunks", "chunk") /\ f.op = "chunk" /\ f.bytes \in Lengths /\ pc = "chunks"
    BY <1>1, <1>2, <1>6, TakeTyped, Fields DEF ChunkFrame, f
  <2>2. /\ ~IsRequest(f) /\ f # Byte /\ ~part.stray /\ Amid /\ Follows(1) = f.bytes
        /\ part.outcome \in {"pending", "recorded"} => Known(part.draft)
    BY <1>1, <2>1 DEF IsRequest, Byte, Sound, Answerable, Amid, Follows, f
  <2>3. CASE /\ f.bytes > 0
             /\ part' = [part EXCEPT !.bytes = f.bytes, !.read = 0,
                           !.left = IF part.outcome = "pending" THEN 0 ELSE f.bytes]
             /\ pc' = IF part.outcome = "pending" THEN "taking" ELSE "draining"
    <3>1. /\ part'.req = part.req /\ part'.draft = part.draft /\ ~part'.stray /\ part'.outcome = part.outcome
          /\ part'.bytes = f.bytes /\ part'.read = 0
          /\ part'.left = IF part.outcome = "pending" THEN 0 ELSE f.bytes
      BY <1>1, <2>2, <2>3 DEF PartState
    <3>2. part' \in PartState
      BY <1>1, <2>1, <2>3 DEF PartState
    <3>3. Expected' = Follows(1)
      BY <1>1, <2>1, <2>2, <2>3, <3>1 DEF Expected
    <3>4. Sound'
      BY <1>1, <1>2, <2>1, <2>2, <2>3, <3>1, <3>3, PartAdvanced DEF f
    <3> QED BY <1>1, <1>3, <2>1, <2>3, <3>1, <3>2, <3>4 DEF Places
  <2>4. ASSUME f.bytes = 0, NEW outcome \in Outcomes, part' = [part EXCEPT !.outcome = outcome],
               outcome \in {"pending", "recorded"} => part.outcome \in {"pending", "recorded"},
               pc' = "finished"
        PROVE  IndInv'
    <3>1. /\ part'.req = part.req /\ part'.draft = part.draft /\ ~part'.stray /\ part'.outcome = outcome
          /\ part'.bytes = part.bytes /\ part'.read = part.read /\ part' \in PartState
      BY <1>1, <2>2, <2>4 DEF PartState
    <3>2. Expected' = Follows(1)
      BY <2>2, <2>4 DEF Expected
    <3>3. Sound'
      BY <1>1, <1>2, <2>1, <2>2, <2>4, <3>1, <3>2, PartAdvanced DEF f
    <3>4. part'.read <= part'.bytes
      BY <1>1, <3>1 DEF TypeOK
    <3> QED BY <1>3, <2>4, <3>1, <3>3, <3>4 DEF Places
  <2>5. \/ /\ f.bytes > 0
           /\ part' = [part EXCEPT !.bytes = f.bytes, !.read = 0,
                         !.left = IF part.outcome = "pending" THEN 0 ELSE f.bytes]
           /\ pc' = IF part.outcome = "pending" THEN "taking" ELSE "draining"
        \/ /\ f.bytes = 0
           /\ \E outcome \in IF part.outcome # "pending" THEN {part.outcome}
                               ELSE {"recorded"} \cup IF May("store") THEN {"failed"} ELSE {} :
                part' = [part EXCEPT !.outcome = outcome]
           /\ pc' = "finished"
    BY <1>2, <1>6 DEF ChunkFrame, Go
  <2>6. \A outcome \in IF part.outcome # "pending" THEN {part.outcome}
                        ELSE {"recorded"} \cup IF May("store") THEN {"failed"} ELSE {} :
          /\ outcome \in Outcomes
          /\ outcome \in {"pending", "recorded"} => part.outcome \in {"pending", "recorded"}
    BY <1>1 DEF PartState, Outcomes
  <2> QED BY <2>3, <2>4, <2>5, <2>6
<1>7. CASE StrayChunk
  <2>1. /\ Take("frames", "chunk") /\ f.op = "chunk" /\ f.bytes \in Lengths /\ pc = "frames"
        /\ part' = [NoPart EXCEPT !.stray = TRUE, !.left = f.bytes] /\ pc' = "draining"
    BY <1>1, <1>2, <1>7, TakeTyped, Fields DEF StrayChunk, Go, f
  <2>2. ~IsRequest(f) /\ f # Byte /\ Follows(1) = f.bytes
    BY <1>1, <2>1 DEF IsRequest, Byte, Follows, f
  <2>3. part'.stray /\ part'.left = f.bytes /\ part'.read = 0 /\ part'.bytes = 0 /\ part' \in PartState
    BY <1>1, <2>1 DEF NoPart, PartState, Outcomes
  <2>4. Expected' = Follows(1)
    BY <2>1, <2>2, <2>3 DEF Expected
  <2>5. Sound'
    BY <1>1, <1>2, <2>1, <2>2, <2>3, <2>4, PartAdvanced DEF f
  <2> QED BY <1>1, <1>3, <2>1, <2>3, <2>5 DEF Places
<1> QED BY <1>4, <1>5, <1>6, <1>7

(* The payload is read, refused or skipped, byte by byte. *)
LEMMA PayloadSound ==
  ASSUME IndInv, TakeByte \/ TakeFails \/ TakeDone \/ DrainByte \/ DrainDone
  PROVE  IndInv'
<1>1. /\ TypeOK /\ Sound /\ part \in PartState /\ part.read <= part.bytes
      /\ part.read \in Nat /\ part.bytes \in Nat /\ part.left \in Nat
      /\ Lengths \subseteq Nat /\ 0 \in Lengths
  BY Payloads, Bounds DEF IndInv, TypeOK, Lengths
<1>2. /\ UNCHANGED <<client, role, drafts, nextDraft, reader, unwritten, events>>
      /\ UNCHANGED <<closed, sent, chunked, chunks>>
      /\ pc \in {"taking", "draining"} /\ Serving
  BY DEF TakeByte, TakeFails, TakeDone, DrainByte, DrainDone, client, Serving
<1>3. ASSUME input' \in Seq(Token), part' \in PartState, part'.read <= part'.bytes,
             pc' \in Places, Sound'
      PROVE  IndInv'
  BY <1>1, <1>2, <1>3 DEF IndInv, TypeOK
<1>4. /\ Amid \/ part.stray
      /\ part.stray => pc = "draining"
      /\ Amid /\ part.outcome \in {"pending", "recorded"} => Known(part.draft)
      /\ pc = "taking" => part.outcome = "pending"
  BY <1>1, <1>2 DEF Amid, Sound, Answerable
<1>5. CASE TakeByte
  <2>1. /\ pc = "taking" /\ pc' = pc /\ part.read < part.bytes /\ input # << >> /\ input' = Tail(input)
        /\ part' = [part EXCEPT !.read = part.read + 1]
    BY <1>5 DEF TakeByte
  <2>2. /\ part'.req = part.req /\ part'.draft = part.draft /\ part'.stray = part.stray
        /\ part'.outcome = part.outcome /\ part'.bytes = part.bytes /\ part'.read = part.read + 1
    BY <1>1, <2>1 DEF PartState
  <2>3. part.read + 1 \in Lengths /\ part' \in PartState
    <3>1. part.read + 1 \in Lengths
      BY <1>1, <2>1, Bounds DEF PartState, Lengths
    <3> QED BY <1>1, <2>1, <3>1 DEF PartState
  <2>4. Expected > 0 /\ Expected' = Expected - 1
    <3>1. Expected = part.bytes - part.read /\ Expected' = part.bytes - (part.read + 1)
      BY <2>1, <2>2 DEF Expected
    <3> QED BY <1>1, <2>1, <3>1
  <2>5. ~IsRequest(input[1])
    BY <1>1, <1>2, <2>1, <2>4, ByteFirst
  <2>6. input' \in Seq(Token)
    BY <1>1, <2>1, Shifted DEF TypeOK
  <2>7. Sound'
    BY <1>1, <1>2, <1>4, <2>1, <2>2, <2>4, <2>5, PartAdvanced
  <2> QED BY <1>1, <1>3, <2>1, <2>2, <2>3, <2>6, <2>7 DEF Places
<1>6. CASE TakeFails
  <2>1. /\ pc = "taking" /\ pc' = "draining" /\ UNCHANGED input
        /\ part' = [part EXCEPT !.outcome = "failed", !.left = part.bytes - part.read]
    BY <1>6 DEF TakeFails, Go
  <2>2. /\ part'.req = part.req /\ part'.draft = part.draft /\ part'.stray = part.stray
        /\ part'.outcome = "failed" /\ part'.bytes = part.bytes /\ part'.read = part.read
        /\ part'.left = part.bytes - part.read
    BY <1>1, <2>1 DEF PartState
  <2>3. part' \in PartState
    <3>1. part.bytes - part.read \in Lengths
      BY <1>1, Bounds DEF PartState, Lengths
    <3> QED BY <1>1, <2>1, <3>1 DEF PartState, Outcomes
  <2>4. Expected' = Expected
    BY <2>1, <2>2 DEF Expected
  <2>5. Amid
    BY <1>4, <2>1
  <2>6. Sound'
    BY <1>1, <1>2, <2>1, <2>2, <2>4, <2>5, PartSettled DEF Amid
  <2> QED BY <1>1, <1>3, <2>1, <2>2, <2>3, <2>6 DEF Places, TypeOK
<1>7. CASE TakeDone
  <2>1. /\ pc = "taking" /\ part.read = part.bytes /\ UNCHANGED input
        /\ pc' = (IF part.chunked THEN "chunks" ELSE "finished")
        /\ part' = IF part.chunked THEN part ELSE [part EXCEPT !.outcome = "recorded"]
    BY <1>7 DEF TakeDone, Go
  <2>2. /\ part'.req = part.req /\ part'.draft = part.draft /\ part'.stray = part.stray
        /\ part'.bytes = part.bytes /\ part'.read = part.read /\ part' \in PartState
    BY <1>1, <2>1 DEF PartState, Outcomes
  <2>3. Expected' = Expected
    <3>1. Expected = part.bytes - part.read /\ Expected' = 0
      BY <2>1 DEF Expected
    <3> QED BY <1>1, <2>1, <3>1
  <2>4. Amid
    BY <1>4, <2>1
  <2>5. Known(part.draft)
    BY <1>1, <1>4, <2>1, <2>4 DEF Sound, Answerable
  <2>6. Sound'
    BY <1>1, <1>2, <2>1, <2>2, <2>3, <2>4, <2>5, PartSettled DEF Amid
  <2> QED BY <1>1, <1>3, <2>1, <2>2, <2>6 DEF Places, TypeOK
<1>8. CASE DrainByte
  <2>1. /\ pc = "draining" /\ pc' = pc /\ part.left > 0 /\ input # << >> /\ input' = Tail(input)
        /\ part' = [part EXCEPT !.left = part.left - 1]
    BY <1>8 DEF DrainByte
  <2>2. /\ part'.req = part.req /\ part'.draft = part.draft /\ part'.stray = part.stray
        /\ part'.outcome = part.outcome /\ part'.bytes = part.bytes /\ part'.read = part.read
        /\ part'.left = part.left - 1
    BY <1>1, <2>1 DEF PartState
  <2>3. part' \in PartState
    <3>1. part.left - 1 \in Lengths
      BY <1>1, <2>1, Bounds DEF PartState, Lengths
    <3> QED BY <1>1, <2>1, <3>1 DEF PartState
  <2>4. Expected > 0 /\ Expected' = Expected - 1
    BY <1>1, <2>1, <2>2 DEF Expected
  <2>5. ~IsRequest(input[1])
    BY <1>1, <1>2, <2>1, <2>4, ByteFirst
  <2>6. input' \in Seq(Token)
    BY <1>1, <2>1, Shifted DEF TypeOK
  <2>7. Sound'
    BY <1>1, <1>2, <1>4, <2>1, <2>2, <2>4, <2>5, PartAdvanced
  <2> QED BY <1>1, <1>3, <2>1, <2>2, <2>3, <2>6, <2>7 DEF Places, TypeOK
<1>9. CASE DrainDone
  <2>1. /\ pc = "draining" /\ ~part.stray /\ UNCHANGED input
        /\ pc' = (IF part.chunked THEN "chunks" ELSE "finished")
        /\ part' = [part EXCEPT !.left = 0]
        /\ part.left = 0 \/ (input = << >> /\ closed)
    BY <1>9 DEF DrainDone, Go, Drained, Ended
  <2>2. /\ part'.req = part.req /\ part'.draft = part.draft /\ part'.stray = part.stray
        /\ part'.outcome = part.outcome
        /\ part'.bytes = part.bytes /\ part'.read = part.read /\ part' \in PartState
    BY <1>1, <2>1 DEF PartState
  <2>3. Expected = part.left /\ Expected' = 0
    BY <2>1 DEF Expected
  <2>4. Amid
    BY <1>4, <2>1
  <2>5. Sound'
    BY <1>1, <1>2, <1>4, <2>1, <2>2, <2>3, <2>4, PartSettled DEF Amid
  <2> QED BY <1>1, <1>3, <2>1, <2>2, <2>5 DEF Places, TypeOK
<1> QED BY <1>5, <1>6, <1>7, <1>8, <1>9

(* A part is taken into a draft that has room for it. *)
LEMMA PartTaken ==
  ASSUME Drafted(drafts, nextDraft), NEW d, Known(d),
         NEW more, more = [drafts EXCEPT ![d] = @ + 1]
  PROVE  Drafted(more, nextDraft)
<1>1. PICK open \in SUBSET Requests : drafts \in [open -> 0 .. MaxParts]
  BY DEF Drafted
<1>2. d \in open /\ drafts[d] \in 0 .. MaxParts /\ drafts[d] < MaxParts
  BY <1>1 DEF Known
<1>3. drafts[d] + 1 \in 0 .. MaxParts
  BY <1>2, Bounds
<1>4. more \in [open -> 0 .. MaxParts] /\ DOMAIN more = DOMAIN drafts
  BY <1>1, <1>2, <1>3
<1> QED BY <1>4 DEF Drafted

(* A part is answered, and so is a chunk of none. *)
LEMMA PartAnswered ==
  ASSUME IndInv, AnswerPart \/ AnswerStray
  PROVE  IndInv'
<1>1. /\ TypeOK /\ Sound /\ 0 \in {0} \cup Requests /\ Requests \subseteq Nat \ {0}
      /\ part.req \in {0} \cup Requests /\ closed \in BOOLEAN
      /\ part.left \in Nat /\ reader.last \in Nat /\ nextDraft \in Nat
  BY Payloads, Bounds DEF IndInv, TypeOK, PartState
<1>2. /\ UNCHANGED <<input, closed, sent, chunked, chunks, role, nextDraft, unwritten, events>>
      /\ part' = NoPart /\ Serving
  BY DEF AnswerPart, AnswerStray, client, Serving
<1>3. reader.owed = 0 /\ reader.ordered
  BY <1>1, <1>2 DEF Sound, Owing, Serving, AnswerPart, AnswerStray
<1>4. NoPart \in PartState /\ NoPart.read <= NoPart.bytes /\ ~NoPart.stray
  BY Bounds DEF NoPart, PartState, Lengths, Outcomes
<1>5. ASSUME NEW q \in {0} \cup Requests, Reply(q), q \in {0, reader.last + 1},
             Base = (IF q = 0 THEN reader.last ELSE q),
             Drafted(drafts', nextDraft), Expected = 0 \/ (input = << >> /\ closed)
      PROVE  IndInv'
  <2>1. /\ reader' \in Reader /\ pc' \in {"frames", "ending"} /\ reader'.owed = 0 /\ reader'.ordered
        /\ pc' = "frames" => reader'.last = IF q = 0 THEN reader.last ELSE q
    BY <1>1, <1>3, <1>5, Replied
  <2>2. TypeOK'
    BY <1>1, <1>2, <1>4, <1>5, <2>1 DEF TypeOK, Reader, Places, Drafted
  <2>3. CASE pc' = "ending"
    <3>1. Sound'
      BY <1>2, <1>4, <2>1, <2>3, NotServing
    <3> QED BY <2>2, <3>1 DEF IndInv
  <2>4. CASE pc' = "frames"
    <3>1. Serving' /\ Base' = Base /\ Expected' = 0 /\ ~Amid'
      BY <1>5, <2>1, <2>4 DEF Serving, Base, Amid, Expected
    <3>2. Framed'
      BY <1>1, <1>2, <1>5, <3>1, FramedSame, FramedEmpty DEF Sound
    <3>3. Numbered'
      BY <1>1, <1>2, <3>1, NumberedSame DEF Sound, Numbered
    <3>4. Answerable' /\ Owing'
      BY <1>2, <1>4, <2>1, <2>4, <3>1 DEF Answerable, Owing
    <3> QED BY <2>2, <3>2, <3>3, <3>4 DEF IndInv, Sound
  <2> QED BY <2>1, <2>3, <2>4
<1>6. CASE AnswerPart
  <2>1. /\ pc = "finished" /\ Reply(part.req)
        /\ drafts' = IF part.outcome # "recorded" THEN drafts
                     ELSE [drafts EXCEPT ![part.draft] = @ + 1]
    BY <1>6 DEF AnswerPart, PartPushed
  <2>2. /\ Amid /\ Base = part.req /\ part.req = reader.last + 1
        /\ part.outcome = "recorded" => Known(part.draft)
    BY <1>1, <2>1 DEF Amid, Base, Sound, Answerable
  <2>3. part.req # 0
    BY <1>1, <2>2
  <2>4. Drafted(drafts', nextDraft)
    BY <1>1, <2>1, <2>2, DraftedTyped, PartTaken
  <2>5. Expected = 0
    BY <2>1 DEF Expected
  <2> QED BY <1>1, <1>5, <2>1, <2>2, <2>3, <2>4, <2>5
<1>7. CASE AnswerStray
  <2>1. pc = "draining" /\ Reply(0) /\ part.stray /\ UNCHANGED drafts
        /\ (part.left = 0 \/ (input = << >> /\ closed))
    BY <1>7 DEF AnswerStray, Drained, Ended
  <2>2. Base = reader.last /\ Expected = part.left
    BY <2>1 DEF Base, Amid, Expected
  <2>3. Drafted(drafts', nextDraft)
    BY <1>1, <2>1, DraftedTyped
  <2> QED BY <1>1, <1>5, <2>1, <2>2, <2>3
<1> QED BY <1>6, <1>7

(* A payload is fetched and written, and a broadcast beside it. *)
LEMMA WritesSound ==
  ASSUME IndInv, AnswerFetch \/ WriteByte \/ BlobDone \/ Notify
  PROVE  IndInv'
<1>1. /\ TypeOK /\ Sound /\ reader.ordered /\ reader \in Reader /\ 0 \in Lengths /\ Lengths \subseteq Nat
      /\ unwritten \in Lengths /\ nextDraft \in Nat /\ closed \in BOOLEAN
  BY Bounds DEF IndInv, Sound, Owing, TypeOK, Reader, Lengths
<1>2. CASE AnswerFetch
  <2>1. Take("frames", "fetch") /\ UNCHANGED state
    BY <1>2 DEF AnswerFetch
  <2>2. /\ pc = "frames" /\ input # << >> /\ input' \in Seq(Token) /\ Head(input) = input[1]
        /\ input[1] \in Token /\ input[1].op = "fetch"
        /\ UNCHANGED <<closed, sent, chunked, chunks, events>>
    BY <1>1, <2>1, TakeTyped
  <2>3. /\ input[1].req = reader.last + 1 /\ input[1].req \in Requests
        /\ reader.owed = 0
    BY <1>1, <2>2, NextRequest, Fields DEF Sound, Serving, Owing, Base, Amid
  <2>4. /\ reader' \in Reader /\ pc' \in {"frames", "blob", "ending"} /\ reader'.ordered
        /\ unwritten' \in Lengths
        /\ pc' # "ending" => reader'.last = IF Head(input).req = 0 THEN reader.last ELSE Head(input).req
        /\ pc' = "frames" => reader'.owed = 0
        /\ pc' = "blob" => reader'.owed = unwritten'
    <3>1. CASE Reply(input[1].req) /\ UNCHANGED unwritten
      BY <1>1, <2>2, <2>3, <3>1, Replied
    <3>2. ASSUME NEW n \in Lengths, Written([op |-> "blob", req |-> input[1].req, bytes |-> n]),
                 unwritten' = n, pc' = "blob"
          PROVE  /\ reader' \in Reader /\ reader'.ordered /\ reader'.owed = n
                 /\ reader'.last = IF input[1].req = 0 THEN reader.last ELSE input[1].req
      BY <1>1, <2>3, <3>2, FrameRead
    <3> QED BY <1>2, <2>2, <3>1, <3>2 DEF AnswerFetch, Go
  <2>5. TypeOK'
    BY <1>1, <2>1, <2>2, <2>4 DEF TypeOK, Reader, Places, state
  <2>6. /\ UNCHANGED part /\ nextDraft' \in Nat /\ unwritten' \in Nat
        /\ nextDraft' <= nextDraft + (IF "fetch" = "begin" THEN 1 ELSE 0)
    <3>1. UNCHANGED <<part, nextDraft>>
      BY <2>1 DEF state
    <3>2. unwritten' \in Nat
      BY <1>1, <2>4
    <3>3. nextDraft <= nextDraft + (IF "fetch" = "begin" THEN 1 ELSE 0)
      BY <1>1
    <3> QED BY <1>1, <3>1, <3>2, <3>3
  <2>7. Sound'
    BY <1>1, <2>1, <2>4, <2>6, Answered
  <2> QED BY <2>5, <2>7 DEF IndInv
<1>3. CASE WriteByte
  <2>1. /\ pc = "blob" /\ unwritten > 0 /\ Written(Byte) /\ unwritten' = unwritten - 1
        /\ UNCHANGED <<input, closed, sent, chunked, chunks, role, part, drafts, nextDraft, pc, events>>
    BY <1>3 DEF WriteByte, client, state
  <2>2. reader.owed = unwritten /\ reader.owed # 0
    BY <1>1, <2>1 DEF Sound, Owing
  <2>3. reader' \in Reader /\ reader'.owed = unwritten' /\ reader'.last = reader.last /\ reader'.ordered
    BY <1>1, <2>1, <2>2, ByteRead
  <2>4. unwritten' \in Lengths
    BY <1>1, <2>1, Bounds DEF Lengths
  <2>5. TypeOK'
    BY <1>1, <2>1, <2>3, <2>4 DEF TypeOK, Reader
  <2>6. Serving /\ Expected' = Expected /\ Base' = Base /\ ~Amid /\ ~Amid'
    BY <2>1, <2>3 DEF Serving, Expected, Base, Amid
  <2>7. Framed' /\ Numbered'
    BY <1>1, <2>1, <2>6, FramedSame, NumberedSame DEF Sound, Numbered
  <2>8. Answerable' /\ Owing'
    BY <1>1, <2>1, <2>3, <2>6 DEF Sound, Answerable, Owing
  <2> QED BY <2>5, <2>7, <2>8 DEF IndInv, Sound
<1>4. CASE BlobDone
  <2>1. /\ pc = "blob" /\ unwritten' = 0
        /\ UNCHANGED <<input, closed, sent, chunked, chunks, role, part, drafts, nextDraft, reader, events>>
        /\ (unwritten = 0 /\ pc' = "frames") \/ pc' = "ending"
    BY <1>4 DEF BlobDone, client, state, Go
  <2>2. TypeOK'
    BY <1>1, <2>1 DEF TypeOK, Places
  <2>3. ~part.stray /\ reader.owed = unwritten
    BY <1>1, <2>1 DEF Sound, Answerable, Owing
  <2>4. CASE pc' = "ending"
    <3>1. Sound'
      BY <1>1, <2>1, <2>3, <2>4, NotServing
    <3> QED BY <2>2, <3>1 DEF IndInv
  <2>5. CASE unwritten = 0 /\ pc' = "frames"
    <3>1. Serving /\ Expected' = Expected /\ Base' = Base /\ ~Amid'
      BY <2>1, <2>5 DEF Serving, Expected, Base, Amid
    <3>2. Framed' /\ Numbered'
      BY <1>1, <2>1, <3>1, FramedSame, NumberedSame DEF Sound, Numbered
    <3>3. Answerable' /\ Owing'
      BY <1>1, <2>1, <2>3, <2>5, <3>1 DEF Answerable, Owing
    <3> QED BY <2>2, <3>2, <3>3 DEF IndInv, Sound
  <2> QED BY <2>1, <2>4, <2>5
<1>5. CASE Notify
  <2>1. /\ pc \notin {"greeting", "blob", "over"} /\ Written(Event) /\ events < MaxEvents
        /\ events' = events + 1
        /\ UNCHANGED <<input, closed, sent, chunked, chunks, role, part, drafts, nextDraft, pc, unwritten>>
    BY <1>5 DEF Notify, client, state
  <2>2. events' \in 0 .. MaxEvents
    BY <1>1, <2>1, Bounds DEF TypeOK
  <2>3. Event.req = 0 /\ Event.op # "blob"
    BY DEF Event
  <2>4. /\ reader' \in Reader /\ reader'.ordered /\ reader'.last = reader.last
        /\ reader.owed = 0 => reader'.owed = 0
    BY <1>1, <2>1, <2>3, FrameRead, ByteRead
  <2>5. TypeOK'
    BY <1>1, <2>1, <2>2, <2>4 DEF TypeOK, Reader
  <2>6. Expected' = Expected /\ Base' = Base /\ (Amid' => Amid) /\ Serving' = Serving
    BY <2>1, <2>4 DEF Expected, Base, Amid, Serving
  <2>7. Serving => Framed' /\ Numbered'
    BY <1>1, <2>1, <2>6, FramedSame, NumberedSame DEF Sound, Numbered
  <2>8. ~Serving => Framed' /\ Numbered'
    BY <2>6 DEF Framed, Numbered
  <2>9. Answerable' /\ Owing'
    BY <1>1, <2>1, <2>4, <2>6 DEF Sound, Answerable, Owing, Known
  <2> QED BY <2>5, <2>7, <2>8, <2>9 DEF IndInv, Sound
<1> QED BY <1>2, <1>3, <1>4, <1>5

-----------------------------------------------------------------------------
(* The state and the stream. *)

(* A session that has heard nothing yet. *)
LEMMA InitSound ==
  Init => IndInv
<1> SUFFICES ASSUME Init PROVE IndInv
  OBVIOUS
<1>1. NoPart \in PartState /\ NoPart.read <= NoPart.bytes /\ ~NoPart.stray /\ 0 \in Lengths
  BY Bounds DEF NoPart, PartState, Lengths, Outcomes
<1>2. reader \in Reader /\ reader.last = 0 /\ reader.owed = 0 /\ reader.ordered
  BY <1>1 DEF Init, Reader
<1>3. /\ \E open \in SUBSET Requests : drafts \in [open -> 0 .. MaxParts]
      /\ Cardinality(DOMAIN drafts) <= MaxDrafts /\ \A d \in DOMAIN drafts : d < nextDraft
  <2>1. drafts \in [{} -> 0 .. MaxParts] /\ DOMAIN drafts = {} /\ {} \in SUBSET Requests
    BY DEF Init
  <2>2. Cardinality({}) = 0
    BY FS_EmptySet
  <2> QED BY <2>1, <2>2, Bounds
<1>4. input \in Seq(Token) /\ sent \in 0 .. MaxReqs /\ chunks \in 0 .. MaxChunks
      /\ events \in 0 .. MaxEvents /\ nextDraft \in 1 .. MaxReqs + 1
  BY Bounds DEF Init
<1>5. TypeOK
  BY <1>1, <1>2, <1>3, <1>4 DEF Init, TypeOK, Reader, Places
<1>6. Len(input) = 0 /\ 0 .. Len(input) = {0} /\ Pending = {} /\ Base = 0 /\ Expected = 0 /\ ~Amid
  BY <1>2 DEF Init, Pending, Base, Amid, Expected
<1>7. Framed
  <2>1. 0 + Follows(0) = 0 /\ \A i \in 1 .. Len(input) : FALSE
    BY <1>6 DEF Follows
  <2> QED BY <1>6, <2>1 DEF Framed, FramedTo
<1>8. Numbered
  <2>1. \A q \in Requests : ~(0 < q /\ q <= 0)
    BY Bounds DEF Requests
  <2> QED BY <1>6, <2>1 DEF Numbered, Init
<1>9. Answerable /\ Owing
  BY <1>1, <1>2, <1>6 DEF Answerable, Owing, Init
<1> QED BY <1>5, <1>7, <1>8, <1>9 DEF IndInv, Sound

(* Nothing changes. *)
LEMMA StutterSound ==
  ASSUME IndInv, UNCHANGED vars
  PROVE  IndInv'
<1>1. UNCHANGED <<input, closed, sent, chunked, chunks, role, part, drafts, nextDraft,
                  pc, reader, unwritten, events>>
  BY DEF vars, client, state
<1>2. TypeOK'
  BY <1>1 DEF IndInv, TypeOK
<1>3. Expected' = Expected /\ Base' = Base /\ (Serving' => Serving)
  BY <1>1 DEF Expected, Base, Amid, Serving
<1>4. Framed' /\ Numbered'
  <2>1. CASE Serving
    BY <1>1, <1>3, <2>1, FramedSame, NumberedSame DEF IndInv, Sound, Numbered
  <2>2. CASE ~Serving
    BY <1>3, <2>2 DEF Framed, Numbered
  <2> QED BY <2>1, <2>2
<1>5. Answerable' /\ Owing'
  BY <1>1 DEF IndInv, Sound, Answerable, Owing, Amid, Known, Serving
<1> QED BY <1>2, <1>4, <1>5 DEF IndInv, Sound

(* Every step keeps what is said of the stream. *)
LEMMA StepSound ==
  IndInv /\ [Next]_vars => IndInv'
BY ClientSound, FramesSound, PartFramesSound, PayloadSound, PartAnswered, WritesSound, StutterSound
   DEF Next, Serve

(* What is said of the stream is always so. *)
LEMMA AlwaysSound ==
  Spec => []IndInv
BY InitSound, StepSound, PTL DEF Spec

(* The session's state is as it is declared: the drafts are no more than   *)
(* may be open, each holds no more parts than a draft may, and the numbers *)
(* that are given to them never run past the requests (Session).           *)
THEOREM SessionTyped ==
  Spec => []TypeOK
<1>1. IndInv => TypeOK
  BY DEF IndInv
<1> QED BY <1>1, AlwaysSound, PTL

(* The bytes that lead the stream are those that are expected, or all that *)
(* there is of them.                                                       *)
LEMMA LeadingCounted ==
  ASSUME IndInv, Serving
  PROVE  /\ LeadingBytes \in Nat
         /\ LeadingBytes = IF Expected <= Len(input) THEN Expected ELSE Len(input)
         /\ ~closed => Expected <= Len(input)
<1> DEFINE n == Len(input)
           e == Expected
           m == IF e <= n THEN e ELSE n
           Leads == {i \in DOMAIN input : \A j \in 1 .. i : input[j] = Byte}
<1>1. TypeOK /\ n \in Nat /\ e \in Nat /\ DOMAIN input = 1 .. n
  BY Payloads DEF IndInv, TypeOK
<1>2. FramedTo(0, e)
  <2>1. 0 \in 0 .. n /\ 0 + Follows(0) = e
    BY <1>1 DEF Follows
  <2>2. \A end \in {0 + Follows(0)} : FramedTo(0, end)
    BY <2>1 DEF IndInv, Sound, Framed
  <2> QED BY <2>1, <2>2
<1>3. /\ \A j \in 1 .. n : 0 < j /\ j <= e => input[j] = Byte
      /\ \A j \in 1 .. n : j = e + 1 => input[j] # Byte
      /\ ~closed => e <= n
  BY <1>2 DEF FramedTo
<1> HIDE DEF n, e
<1>4. m \in Nat /\ m <= n /\ m <= e /\ (m # n => m = e)
  BY <1>1
<1>5. Leads = 1 .. m
  <2>1. ASSUME NEW i \in 1 .. n, \A j \in 1 .. i : input[j] = Byte PROVE i \in 1 .. m
    <3>1. SUFFICES ASSUME ~(i <= m) PROVE FALSE
      BY <1>1, <1>4
    <3>2. m = e /\ e + 1 \in 1 .. i /\ e + 1 \in 1 .. n
      BY <1>1, <1>4, <3>1
    <3> QED BY <1>3, <2>1, <3>2
  <2>2. ASSUME NEW i \in 1 .. m PROVE i \in 1 .. n /\ \A j \in 1 .. i : input[j] = Byte
    <3>1. i \in 1 .. n /\ \A j \in 1 .. i : j \in 1 .. n /\ 0 < j /\ j <= e
      BY <1>1, <1>4
    <3> QED BY <1>3, <3>1
  <2> HIDE DEF m
  <2> QED BY <1>1, <2>1, <2>2
<1>6. Cardinality(1 .. m) = m
  <2>1. Cardinality(1 .. m) = IF 1 > m THEN 0 ELSE m - 1 + 1
    BY <1>4, FS_Interval
  <2> QED BY <1>4, <2>1
<1>7. LeadingBytes = m
  BY <1>5, <1>6 DEF LeadingBytes
<1> QED BY <1>3, <1>4, <1>7 DEF n, e

(* The session never takes a payload byte for a frame nor a frame for a    *)
(* payload byte, whatever part was refused, failed or cut                  *)
(* (Session!Aligned).                                                      *)
THEOREM StreamAligned ==
  Spec => []Aligned
<1>1. IndInv => Aligned
  <2>1. SUFFICES ASSUME IndInv, Serving PROVE Aligned
    BY DEF Aligned, Serving
  <2>2. Expected \in Nat /\ Len(input) \in Nat
    BY <2>1, Payloads DEF IndInv
  <2> QED BY <2>1, <2>2, LeadingCounted DEF Aligned
<1> QED BY <1>1, AlwaysSound, PTL

(* Between two requests, as many requests are unread as were sent after    *)
(* the last one that was answered.                                         *)
LEMMA UnreadCounted ==
  ASSUME IndInv, pc = "frames", ~closed
  PROVE  reader.last + Unread = sent
<1> DEFINE Coming == reader.last + 1 .. sent
           f == [i \in Pending |-> input[i].req]
<1>1. TypeOK /\ Serving /\ Base = reader.last /\ Numbered
  BY DEF IndInv, Serving, Base, Amid, Sound
<1>2. /\ reader.last \in Nat /\ sent \in Nat /\ sent <= MaxReqs /\ MaxReqs \in Nat
      /\ Len(input) \in Nat /\ DOMAIN input = 1 .. Len(input) /\ reader.last <= sent
  BY <1>1, Payloads, Bounds DEF TypeOK, Numbered
<1>3. Unread = Cardinality(Pending)
  BY <1>2 DEF Unread, Pending, IsRequest
<1>4. IsFiniteSet(Pending)
  <2>1. IsFiniteSet(1 .. Len(input)) /\ Pending \in SUBSET (1 .. Len(input))
    BY <1>2, FS_Interval DEF Pending
  <2> QED BY <2>1, FS_Subset
<1>5. f \in Bijection(Pending, Coming)
  <2>1. \A i \in Pending : input[i].req \in Coming
    BY <1>1, <1>2, PendingTyped DEF Numbered
  <2>2. \A i, j \in Pending : input[i].req = input[j].req => i = j
    <3>1. ASSUME NEW i \in Pending, NEW j \in Pending, input[i].req = input[j].req PROVE i = j
      <4>1. i \in Nat /\ j \in Nat /\ input[i].req \in Nat
        BY <1>1, PendingTyped
      <4>2. ~(input[i].req < input[i].req)
        BY <4>1
      <4>3. ~(i < j) /\ ~(j < i)
        BY <1>1, <3>1, <4>2 DEF Numbered
      <4> QED BY <4>1, <4>3
    <3> QED BY <3>1
  <2>3. ASSUME NEW q \in Coming PROVE \E i \in Pending : input[i].req = q
    <3>1. q \in Requests /\ reader.last < q /\ q <= sent
      BY <1>2 DEF Requests
    <3> QED BY <1>1, <3>1 DEF Numbered
  <2> HIDE DEF Coming
  <2> QED BY <2>1, <2>2, <2>3 DEF Bijection, Injection, Surjection, IsInjective
<1>6. Cardinality(Coming) = Cardinality(Pending)
  <2>1. ExistsBijection(Pending, Coming)
    BY <1>5 DEF ExistsBijection
  <2> HIDE DEF Coming
  <2> QED BY <1>4, <2>1, FS_Bijection
<1>7. Cardinality(Coming) = IF reader.last + 1 > sent THEN 0 ELSE sent - (reader.last + 1) + 1
  <2>1. reader.last + 1 \in Int /\ sent \in Int
    BY <1>2
  <2> QED BY <2>1, FS_Interval
<1>8. Cardinality(Coming) = sent - reader.last
  <2> HIDE DEF Coming
  <2> QED BY <1>2, <1>7
<1> QED BY <1>2, <1>3, <1>6, <1>8

(* Every request is answered once, in the order sent                       *)
(* (Session!InOrder).                                                      *)
THEOREM AnswersInOrder ==
  Spec => []InOrder
<1>1. IndInv => InOrder
  BY UnreadCounted DEF IndInv, Sound, Owing, InOrder
<1> QED BY <1>1, AlwaysSound, PTL

-----------------------------------------------------------------------------
(* The payloads. *)

(* Without a failing write nothing comes between the bytes of a payload,   *)
(* and none of them is left when the lock is given up.                     *)
LEMMA WholeStep ==
  ASSUME "write" \notin Faults, IndInv, Whole, [Next]_vars
  PROVE  Whole'
<1>1. TypeOK /\ Sound /\ 0 \in {0} \cup Requests /\ ~May("write")
  BY DEF IndInv, Sound, May
<1>2. ASSUME UNCHANGED reader, pc = "blob" => pc' = "blob" PROVE Whole'
  BY <1>2 DEF Whole
<1>3. ASSUME NEW q \in {0} \cup Requests, Reply(q), pc # "blob" PROVE Whole'
  BY <1>1, <1>3, Replied DEF Whole
<1>4. ASSUME Written(Answer(0)), pc # "blob" PROVE Whole'
  <2>1. Answer(0).req = 0 /\ Answer(0).op # "blob"
    BY DEF Answer
  <2> QED BY <1>1, <1>4, <2>1, FrameRead DEF Whole
<1>5. CASE Client \/ UNCHANGED vars
  <2>1. UNCHANGED <<pc, reader>>
    BY <1>5, SendFrame DEF Client, Hangup, vars
  <2> QED BY <1>2, <2>1
<1>6. CASE \/ EndOfInput \/ PartFrame \/ StreamedFrame \/ ChunkFrame \/ Interrupted \/ StrayChunk
           \/ TakeByte \/ TakeFails \/ TakeDone \/ DrainByte \/ DrainDone \/ Close
  <2>1. UNCHANGED reader
    BY <1>6 DEF EndOfInput, PartFrame, StreamedFrame, ChunkFrame, Interrupted, StrayChunk,
                TakeByte, TakeFails, TakeDone, DrainByte, DrainDone, Close
  <2>2. pc # "blob"
    BY <1>6 DEF EndOfInput, PartFrame, StreamedFrame, ChunkFrame, Interrupted, StrayChunk,
                TakeByte, TakeFails, TakeDone, DrainByte, DrainDone, Close, Take
  <2> QED BY <1>2, <2>1, <2>2
<1>7. CASE Greet
  <2>1. pc = "greeting" /\ (Reply(0) \/ Written(Answer(0)) \/ UNCHANGED reader)
    BY <1>7 DEF Greet
  <2> QED BY <1>1, <1>2, <1>3, <1>4, <2>1
<1>8. CASE BeginDraft \/ EndDraft \/ AnswerQuery
  <2>1. PICK op \in {"begin", "commit", "abort", "query"} : Take("frames", op)
    BY <1>8 DEF BeginDraft, EndDraft, AnswerQuery
  <2>2. pc = "frames" /\ Head(input) \in Token /\ Head(input).op = op
    BY <1>1, <2>1, TakeTyped
  <2>3. Reply(Head(input).req)
    BY <1>8 DEF BeginDraft, EndDraft, AnswerQuery
  <2>4. Head(input).req \in {0} \cup Requests
    BY <2>2, Fields
  <2> QED BY <1>3, <2>2, <2>3, <2>4
<1>9. CASE BadFrame
  <2>1. pc = "frames" /\ (Written(Answer(0)) \/ UNCHANGED reader)
    BY <1>9 DEF BadFrame, Take
  <2> QED BY <1>2, <1>4, <2>1
<1>10. CASE AnswerStray \/ AnswerPart
  <2>1. pc # "blob" /\ (Reply(0) \/ Reply(part.req)) /\ part.req \in {0} \cup Requests
    BY <1>1, <1>10 DEF AnswerStray, AnswerPart, TypeOK, PartState
  <2> QED BY <1>1, <1>3, <2>1
<1>11. CASE AnswerFetch
  <2>1. Take("frames", "fetch")
    BY <1>11 DEF AnswerFetch
  <2>2. pc = "frames" /\ Head(input) \in Token /\ Head(input).op = "fetch"
    BY <1>1, <2>1, TakeTyped
  <2>3. Head(input).req \in {0} \cup Requests
    BY <2>2, Fields
  <2>4. ASSUME NEW n \in Lengths, pc' = "blob",
               Written([op |-> "blob", req |-> Head(input).req, bytes |-> n])
        PROVE  Whole'
    <3>1. reader.owed = 0 /\ reader.whole
      BY <2>2 DEF Whole
    <3> QED BY <1>1, <2>3, <2>4, <3>1, FrameRead DEF Whole
  <2> QED BY <1>3, <1>11, <2>2, <2>3, <2>4 DEF AnswerFetch, Go
<1>12. CASE WriteByte
  <2>1. pc = "blob" /\ pc' = "blob" /\ Written(Byte) /\ unwritten > 0
    BY <1>12 DEF WriteByte
  <2>2. reader.owed = unwritten /\ reader.owed # 0
    BY <1>1, <2>1 DEF Sound, Owing
  <2> QED BY <1>1, <2>1, <2>2, ByteRead DEF Whole
<1>13. CASE BlobDone
  <2>1. pc = "blob" /\ unwritten = 0 /\ UNCHANGED reader
    BY <1>1, <1>13 DEF BlobDone
  <2>2. reader.owed = 0
    BY <1>1, <2>1 DEF Sound, Owing
  <2> QED BY <2>1, <2>2 DEF Whole
<1>14. CASE Notify
  <2>1. pc # "blob" /\ pc' = pc /\ Written(Event)
    BY <1>14 DEF Notify
  <2>2. Event.req = 0 /\ Event.op # "blob"
    BY DEF Event
  <2> QED BY <1>1, <2>1, <2>2, FrameRead DEF Whole
<1> QED BY <1>5, <1>6, <1>7, <1>8, <1>9, <1>10, <1>11, <1>12, <1>13, <1>14 DEF Next, Serve

(* Where no write fails, a payload never interleaves with another frame,   *)
(* though answers and broadcasts are written by different threads          *)
(* (Session!PayloadWhole).                                                 *)
THEOREM PayloadsWhole ==
  ASSUME "write" \notin Faults
  PROVE  Spec => []PayloadWhole
<1>1. Init => Whole
  BY DEF Init, Whole
<1>2. IndInv /\ Whole /\ [Next]_vars => Whole'
  BY WholeStep
<1>3. Whole => PayloadWhole
  BY DEF Whole, PayloadWhole
<1> QED BY <1>1, <1>2, <1>3, AlwaysSound, PTL DEF Spec
=============================================================================
