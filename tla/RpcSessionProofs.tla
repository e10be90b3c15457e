-------------------------- MODULE RpcSessionProofs --------------------------
(***************************************************************************)
(* For every number of calls, every header, size of the buffer and way the *)
(* connection cuts up the replies: one thread at a time reads the replies  *)
(* to its own calls, whole and in order, and leaves nothing behind unless  *)
(* it is known to.                                                         *)
(*                                                                         *)
(* The invariant follows the one call that is made.  Its request is with   *)
(* the server, or the words it has received and the words that are still   *)
(* on the connection are, one behind the other, the reply: the whole of it *)
(* while the connection is open.  Between calls there is neither.  A call  *)
(* that gave up on the end of its reply, or was refused before the end had *)
(* come, leaves a connection on which the next header is not one.          *)
(***************************************************************************)
EXTENDS RpcSession, TLAPS, SequenceTheorems, WellFoundedInduction

\* The handlers run one at a time, as fuse_main runs them with -s.  Without
\* it the run rpc_threads shows a call that reads the reply to another.
OneThread == \E w \in Workers : Workers = {w}

Xids == {Xid[i] : i \in DOMAIN Xid}
Answers == {NoReply} \cup {<<form, size>> : form \in Replies, size \in Sizes}
Call == [phase : Phases, no : 0 .. MaxCalls, kind : Kinds, index : 0 .. XidPeriod - 1,
         form : Replies, size : Sizes, left : 0 .. MaxWords, missing : 0 .. MaxBuffer,
         parts : Nat, words : Seq(Words), answer : Answers]
Returns == {NoReply} \cup (Replies \X Seq(Words))

Types ==
    /\ counter \in 0 .. XidPeriod - 1 /\ made \in 0 .. MaxCalls /\ closed \in BOOLEAN
    /\ call \in [Workers -> Call]
    /\ \A w \in Workers : call[w].parts <= Len(Header[call[w].form])
    /\ requests \in SUBSET [no : 1 .. MaxCalls, kind : Kinds, xid : Xids]
    /\ stream \in Seq(Words)
    /\ returned \in [Workers -> Returns]
    /\ status \in {"ok", "behind", "mismatch", "derailed", "short", "lost"}

\* The reply to a call, word by word.
ReplyWords(form, size) == HeaderWords(form) + size
WordAt(c, form, size, i) ==
    IF i = 1 THEN [no |-> c.no, pos |-> 1, xid |-> Xid[c.index], form |-> form, size |-> size]
             ELSE [no |-> c.no, pos |-> i]

\* What call c has received and what is on the connection are the reply.
OnItsWay(c, form, size) ==
    /\ Len(c.words) + Len(stream) <= ReplyWords(form, size)
    /\ closed \/ Len(c.words) + Len(stream) = ReplyWords(form, size)
    /\ \A i \in 1 .. Len(c.words) : c.words[i] = WordAt(c, form, size, i)
    /\ \A i \in 1 .. Len(stream) : stream[i] = WordAt(c, form, size, Len(c.words) + i)

\* The server has the request of the call, or has answered it.
Asked(c) ==
    /\ \A r \in requests : /\ r = [no |-> c.no, kind |-> c.kind, xid |-> Xid[c.index]]
                           /\ c.phase = "sent" /\ c.answer = NoReply /\ ~closed
    /\ c.answer # NoReply => c.phase \in {"sent", "refill", "again"}
    /\ c.answer # NoReply /\ c.answer[1] \notin Refusals \cup {"read"} => c.answer[2] = 0
    /\ IF c.phase = "idle" THEN c.no = NoCall ELSE c.no \in 1 .. made

\* A call that has not received anything.
Fresh(c) == /\ c.words = <<>> /\ c.parts = 0 /\ c.left = 0 /\ c.missing = 0
            /\ c.form = "read" /\ c.size = 0
            /\ c.phase = "idle" => c = Idle

\* Behind what the program reads of a reply that is no refusal there are only
\* the data of a read.
Bare(c) == c.form \notin Refusals \cup {"read"} => c.size = 0

\* What the call has read of what it has received, and what is left of it.
InReply(c) ==
    /\ c.answer = <<c.form, c.size>> /\ OnItsWay(c, c.form, c.size)
    /\ c.words # <<>>
    /\ c.left = ReplyWords(c.form, c.size) - Len(c.words)
    /\ c.phase = "refill" => c.parts = PartsIn(c)

Exchange(c) ==
    \/ c.phase \in {"idle", "built"} /\ Fresh(c) /\ requests = {} /\ stream = <<>>
    \/ c.phase = "sent" /\ Fresh(c) /\ c.answer = NoReply
         /\ stream = <<>> /\ (closed \/ requests # {})
    \/ c.phase = "sent" /\ Fresh(c) /\ c.answer # NoReply /\ OnItsWay(c, c.answer[1], c.answer[2])
    \/ c.phase \in {"refill", "again"} /\ InReply(c)

\* A part of a reply is left on the connection, or it is closed.
LeftBehind(c) ==
    /\ c.phase \in {"idle", "built", "sent"} /\ Fresh(c)
    /\ IF stream = <<>> THEN closed ELSE stream[1].pos # 1

IInv ==
    /\ Types
    /\ status # "mismatch"
    /\ \A w \in Workers :
          /\ Asked(call[w])
          /\ status = "ok" => Exchange(call[w])
          /\ status = "behind" => LeftBehind(call[w])

-----------------------------------------------------------------------------
(* Operators *)

\* The library's Max of a bounded set of numbers is its largest element.
LEMMA MaxIn ==
    ASSUME NEW n \in Nat, NEW S \in SUBSET (0 .. n), S # {}
    PROVE  Max(S) \in S /\ \A y \in S : Max(S) >= y
<1>. DEFINE T == {n - x : x \in S}
<1>1. T \in SUBSET Nat /\ T # {}
  <2>1. \A x \in S : n - x \in Nat
    OBVIOUS
  <2>. QED  BY <2>1
<1>2. PICK t \in T : \A u \in T : ~(<<u, t>> \in OpToRel(<, Nat))
  BY <1>1, NatLessThanWellFounded, WFMin, Zenon
<1>3. PICK x \in S : t = n - x
  OBVIOUS
<1>4. ASSUME NEW y \in S
      PROVE  x >= y
  <2>1. ~(<<n - y, t>> \in {ss \in Nat \X Nat : ss[1] < ss[2]})
    BY <1>2 DEF OpToRel
  <2>2. ~(n - y < t)
    BY <2>1, <1>1
  <2>. QED  BY <2>2, <1>3
<1>. QED  BY <1>4 DEF Max

\* Replies are bounded by the longest header and the largest size.
LEMMA Bounds ==
    /\ Sizes \subseteq Nat /\ 0 \in Sizes /\ MaxWords \in Nat
    /\ \A form \in Replies :
          /\ Header[form] \in Seq([end : Nat \ {0}, ensured : BOOLEAN])
          /\ Len(Header[form]) \in Nat \ {0}
          /\ HeaderWords(form) \in Nat \ {0} /\ HeaderWords(form) <= MaxBuffer
          /\ \A size \in Sizes : HeaderWords(form) + size <= MaxWords
<1>1. \A form \in Replies :
          /\ Header[form] \in Seq([end : Nat \ {0}, ensured : BOOLEAN])
          /\ Len(Header[form]) \in Nat \ {0}
  BY RpcSessionAssumption
<1>2. \A form \in Replies : HeaderWords(form) \in Nat \ {0} /\ HeaderWords(form) <= MaxBuffer
  <2>. SUFFICES ASSUME NEW form \in Replies
                PROVE  HeaderWords(form) \in Nat \ {0} /\ HeaderWords(form) <= MaxBuffer
    OBVIOUS
  <2>1. Len(Header[form]) \in 1 .. Len(Header[form])
    BY <1>1
  <2>2. Header[form][Len(Header[form])] \in [end : Nat \ {0}, ensured : BOOLEAN]
    BY <1>1, <2>1, ElementOfSeq
  <2>3. HeaderWords(form) \in Nat \ {0}
    BY <2>2 DEF HeaderWords
  <2>4. MaxBuffer >= HeaderWords(form)
    BY RpcSessionAssumption
  <2>. QED  BY <2>3, <2>4, RpcSessionAssumption
<1>3. PICK most \in Nat : Sizes \subseteq 0 .. most
  BY RpcSessionAssumption
<1>4. Max(Sizes) \in Sizes /\ \A size \in Sizes : Max(Sizes) >= size
  BY <1>3, MaxIn, RpcSessionAssumption
<1>. DEFINE H == {HeaderWords(form) : form \in Replies}
<1>5. Max(H) \in H /\ \A h \in H : Max(H) >= h
  <2>1. H \in SUBSET (0 .. MaxBuffer) /\ H # {} /\ MaxBuffer \in Nat
    BY <1>2, RpcSessionAssumption
  <2>. HIDE DEF H
  <2>. QED  BY <2>1, MaxIn
<1>6. MaxWords = Max(Sizes) + Max(H)
  BY DEF MaxWords
<1>7. \A form \in Replies, size \in Sizes : HeaderWords(form) + size <= MaxWords
  <2>. SUFFICES ASSUME NEW form \in Replies, NEW size \in Sizes
                PROVE  HeaderWords(form) + size <= MaxWords
    OBVIOUS
  <2>1. Max(H) >= HeaderWords(form) /\ Max(Sizes) >= size
    BY <1>4, <1>5
  <2>2. Max(H) \in Nat /\ Max(Sizes) \in Nat /\ size \in Nat
    <3>1. Max(H) \in Nat
      BY <1>2, <1>5
    <3>2. \A x \in Sizes : x \in Nat
      BY <1>3
    <3>3. Max(Sizes) \in Nat /\ size \in Nat
      BY <1>4, <3>2
    <3>. QED  BY <3>1, <3>3
  <2>. QED  BY <2>1, <2>2, <1>2, <1>6
<1>. HIDE DEF H
<1>8. Max(H) \in Nat
  BY <1>2, <1>5 DEF H
<1>. QED  BY <1>1, <1>2, <1>3, <1>4, <1>6, <1>7, <1>8, RpcSessionAssumption

\* The words of a reply.
LEMMA ReplyIs ==
    ASSUME NEW r \in [no : 1 .. MaxCalls, kind : Kinds, xid : Xids], NEW form \in Replies,
           NEW size \in Sizes
    PROVE  /\ Reply(r, form, size) \in Seq(Words)
           /\ Len(Reply(r, form, size)) = HeaderWords(form) + size
           /\ \A i \in 1 .. HeaderWords(form) + size : Reply(r, form, size)[i] =
                 IF i = 1 THEN [no |-> r.no, pos |-> 1, xid |-> r.xid, form |-> form, size |-> size]
                          ELSE [no |-> r.no, pos |-> i]
<1>. DEFINE n    == HeaderWords(form) + size
            head == <<[no |-> r.no, pos |-> 1, xid |-> r.xid, form |-> form, size |-> size]>>
            m    == HeaderWords(form) + size - 1
            tail == [i \in 1 .. m |-> [no |-> r.no, pos |-> i + 1]]
<1>1. n \in Nat \ {0} /\ n <= MaxWords /\ MaxWords \in Nat /\ m = n - 1
  BY Bounds
<1>2. Reply(r, form, size) = head \o tail
  BY DEF Reply
<1>3. head \in Seq(Words)
  BY DEF Words, Xids
<1>4. tail \in Seq(Words) /\ Len(tail) = n - 1
  <2>1. \A i \in 1 .. m : tail[i] \in Words
    BY <1>1 DEF Words
  <2>. HIDE DEF tail
  <2>2. tail \in [1 .. m -> Words] /\ m \in Nat
    BY <2>1, <1>1 DEF tail
  <2>. QED  BY <1>1, <2>2
<1>. HIDE DEF n, m
<1>5. Len(head \o tail) = n /\ head \o tail \in Seq(Words)
  BY <1>1, <1>3, <1>4
<1>6. \A i \in 1 .. n : (head \o tail)[i] = IF i = 1 THEN head[1] ELSE tail[i - 1]
  BY <1>1, <1>3, <1>4
<1>7. \A i \in 1 .. n : i # 1 => tail[i - 1] = [no |-> r.no, pos |-> i]
  BY <1>1
<1>. QED  BY <1>2, <1>5, <1>6, <1>7 DEF n

\* PartsIn counts the parts of the header that were received: all of them if
\* and only if the header was.
LEMMA PartsInIs ==
    ASSUME NEW c, c.form \in Replies, c.words \in Seq(Words)
    PROVE  /\ PartsIn(c) \in 0 .. Len(Header[c.form])
           /\ PartsIn(c) = Len(Header[c.form]) <=> Len(c.words) >= HeaderWords(c.form)
           /\ PartsIn(c) # 0 => Header[c.form][PartsIn(c)].end <= Len(c.words)
<1>. DEFINE n == Len(Header[c.form])
            S == {0} \cup {p \in DOMAIN Header[c.form] : Header[c.form][p].end <= Len(c.words)}
<1>1. n \in Nat \ {0} /\ DOMAIN Header[c.form] = 1 .. n
  BY Bounds
<1>2. S \in SUBSET (0 .. n) /\ S # {}
  BY <1>1
<1>3. Max(S) \in S /\ \A y \in S : Max(S) >= y
  <2>. HIDE DEF S, n
  <2>. QED  BY <1>1, <1>2, MaxIn
<1>4. PartsIn(c) = Max(S)
  BY DEF PartsIn
<1>5. Len(c.words) \in Nat /\ HeaderWords(c.form) = Header[c.form][n].end
      /\ HeaderWords(c.form) \in Nat
  BY Bounds DEF HeaderWords
<1>6. n \in S <=> Len(c.words) >= HeaderWords(c.form)
  BY <1>1, <1>5
<1>. DEFINE m == PartsIn(c)
<1>7. m \in 0 .. n /\ (m # 0 => Header[c.form][m].end <= Len(c.words))
  BY <1>1, <1>3, <1>4
<1>8. m = n <=> n \in S
  <2>1. m \in S /\ \A y \in S : m >= y
    BY <1>3, <1>4
  <2>. HIDE DEF S, m
  <2>2. n \in S => m >= n
    BY <2>1
  <2>. QED  BY <1>1, <1>7, <2>1, <2>2
<1>. QED  BY <1>6, <1>7, <1>8

\* A record of a call that has received nothing is one of a call.
LEMMA IdleIsCall ==
    /\ Idle \in Call /\ Fresh(Idle)
    /\ Idle.phase = "idle" /\ Idle.answer = NoReply /\ Idle.no = NoCall
BY RpcSessionAssumption, Bounds DEF Idle, Call, Fresh, Phases, NoCall, Answers

\* With one thread, what holds of its call holds of every worker's.
LEMMA OfOneThread ==
    ASSUME NEW w \in Workers, Workers = {w}, Types', status' # "mismatch",
           Asked(call[w])', status' = "ok" => Exchange(call[w])',
           status' = "behind" => LeftBehind(call[w])'
    PROVE  IInv'
BY DEF IInv

-----------------------------------------------------------------------------
(* Reading a reply *)

\* A call that has received a part of its reply, or all of it.
Reads(c) ==
    /\ c \in Call /\ c.parts <= Len(Header[c.form])
    /\ c.answer = <<c.form, c.size>> /\ Bare(c)
    /\ c.no \in 1 .. made /\ requests = {} /\ stream \in Seq(Words)
    /\ c.words # <<>> /\ OnItsWay(c, c.form, c.size)
    /\ c.left = ReplyWords(c.form, c.size) - Len(c.words)

\* The call that was made goes on: only what it has received is another.
Same(c, d) == d.no = c.no /\ d.answer = c.answer

\* It waits for what a refill did not get.
Waits(w, c) == /\ call' = [call EXCEPT ![w] = [c EXCEPT !.phase = "again"]]
               /\ UNCHANGED <<returned, status>>

\* What a recv leads to: the call goes on with what it got, or the program ends.
GoesOn(w) == /\ status = "ok" /\ InCall(w)
             /\ \E c : Reads(c)' /\ Same(call[w], c) /\ (Continue(w, c) \/ Waits(w, c))
Stops == status' \in {"short", "lost", "derailed"} /\ UNCHANGED <<call, returned>>
Receives(w) == /\ UNCHANGED <<counter, made, requests, closed>> /\ stream' \in Seq(Words)
               /\ GoesOn(w) \/ Stops

\* Whatever a call does with what it has received of its reply.
LEMMA ContinueStep ==
    ASSUME Types, NEW w \in Workers, Workers = {w}, Asked(call[w]), status = "ok",
           NEW c, Reads(c)', UNCHANGED <<counter, made, closed>>,
           Continue(w, c)
    PROVE  IInv'
<1>0. /\ c \in Call /\ c.parts <= Len(Header[c.form])
      /\ c.answer = <<c.form, c.size>> /\ Bare(c)
      /\ c.no \in 1 .. made /\ requests' = {} /\ stream' \in Seq(Words)
      /\ c.words # <<>> /\ OnItsWay(c, c.form, c.size)'
      /\ c.left = ReplyWords(c.form, c.size) - Len(c.words)
  BY DEF Reads
<1>. DEFINE now == PartsIn(c)
            L   == Len(c.words)
            H   == HeaderWords(c.form)
<1>1. /\ c.form \in Replies /\ c.words \in Seq(Words) /\ L \in Nat \ {0}
      /\ H \in Nat \ {0} /\ c.size \in Nat /\ ReplyWords(c.form, c.size) = H + c.size
      /\ Len(stream') \in Nat
  <2>1. c.form \in Replies /\ c.words \in Seq(Words) /\ c.size \in Sizes
    BY <1>0 DEF Call
  <2>2. L \in Nat \ {0} /\ Len(stream') \in Nat
    BY <1>0, <2>1
  <2>. QED  BY <2>1, <2>2, Bounds DEF ReplyWords
<1>2. /\ now \in 0 .. Len(Header[c.form])
      /\ now = Len(Header[c.form]) <=> L >= H
  BY <1>1, PartsInIs
<1>3. /\ L + Len(stream') <= H + c.size
      /\ closed' \/ L + Len(stream') = H + c.size
  BY <1>0, <1>1 DEF OnItsWay
<1>4. /\ counter' \in 0 .. XidPeriod - 1 /\ made' \in 0 .. MaxCalls /\ closed' \in BOOLEAN
      /\ requests' = {} /\ made' = made
  BY <1>0 DEF Types
<1>5. DataIn(c) \in Seq(Words) /\ (L >= H => Len(DataIn(c)) = L - H)
  <2>1. H + 1 \in Int /\ L \in Int /\ H + 1 >= 1
    BY <1>1
  <2>2. CASE L >= H + 1
    BY <1>1, <2>1, <2>2, SubSeqProperties DEF DataIn
  <2>3. CASE L < H + 1
    <3>1. DataIn(c) = <<>>
      BY <1>1, <2>1, <2>3, SubSeqProperties DEF DataIn
    <3>. QED  BY <1>1, <2>3, <3>1
  <2>. QED  BY <1>1, <2>2, <2>3
<1>6. ASSUME Return(w, c), status' \in {"ok", "behind"}
      PROVE  /\ call'[w] = Idle /\ call' \in [Workers -> Call] /\ Types' /\ Asked(call[w])'
  <2>1. call'[w] = Idle /\ call' \in [Workers -> Call] /\ returned' \in [Workers -> Returns]
    <3>1. PICK x : x = <<c.form, IF c.form = "read" THEN DataIn(c) ELSE <<>> >>
      OBVIOUS
    <3>2. x \in Returns
      <4>1. PICK data \in Seq(Words) : x = <<c.form, data>>
        <5>1. <<>> \in Seq(Words) /\ DataIn(c) \in Seq(Words)
          BY <1>5
        <5>2. x = <<c.form, DataIn(c)>> \/ x = <<c.form, <<>> >>
          BY <3>1
        <5>. QED  BY <5>1, <5>2
      <4>. QED  BY <1>1, <4>1 DEF Returns
    <3>3. call' = [call EXCEPT ![w] = Idle] /\ returned' = [returned EXCEPT ![w] = x]
      BY <1>6, <3>1 DEF Return
    <3>. QED  BY <3>2, <3>3, IdleIsCall DEF Types
  <2>2. \A v \in Workers : call'[v].parts <= Len(Header[call'[v].form])
    BY <2>1, Bounds, RpcSessionAssumption DEF Idle
  <2>3. Asked(call[w])'
    BY <1>4, <2>1, IdleIsCall DEF Asked, Idle, NoReply
  <2>. QED  BY <1>0, <1>4, <1>6, <2>1, <2>2, <2>3 DEF Types
<1>11. ASSUME L < H + c.size, call'[w] = Idle
       PROVE  LeftBehind(call[w])'
  <2>1. CASE stream' = <<>>
    <3>1. closed'
      BY <1>1, <1>3, <1>11, <2>1
    <3>. QED  BY <1>11, <2>1, <3>1, IdleIsCall DEF LeftBehind
  <2>2. CASE stream' # <<>>
    <3>1. stream'[1] = WordAt(c, c.form, c.size, L + 1)
      <4>1. 1 \in 1 .. Len(stream')
        BY <1>1, <2>2
      <4>. QED  BY <1>0, <4>1 DEF OnItsWay
    <3>2. stream'[1].pos # 1
      BY <1>1, <3>1 DEF WordAt
    <3>. QED  BY <1>11, <2>2, <3>2, IdleIsCall DEF LeftBehind
  <2>. QED  BY <2>1, <2>2
<1>7. CASE /\ now = Len(Header[c.form]) /\ ReadAll(c) /\ Return(w, c)
           /\ status' = IF LeavesRest(c) THEN "behind" ELSE status
  <2>1. CASE ~LeavesRest(c)
    <3>1. L >= H + c.size
      <4>1. CASE c.form = "read"
        BY <1>1, <1>2, <1>5, <1>7, <4>1 DEF ReadAll
      <4>2. CASE c.form # "read" /\ c.form \in Refusals
        BY <1>0, <1>1, <2>1, <4>2 DEF LeavesRest
      <4>3. CASE c.form \notin Refusals \cup {"read"}
        BY <1>0, <1>1, <1>2, <1>7, <4>3 DEF Bare
      <4>. QED  BY <4>1, <4>2, <4>3
    <3>2. stream' = <<>>
      BY <1>1, <1>3, <3>1
    <3>3. Exchange(call[w])'
      BY <1>4, <1>6, <1>7, <2>1, <3>2, IdleIsCall DEF Exchange, Fresh
    <3>. QED  BY <1>6, <1>7, <2>1, <3>3, OfOneThread
  <2>2. CASE LeavesRest(c)
    <3>1. L < H + c.size
      BY <1>0, <1>1, <2>2 DEF LeavesRest
    <3>2. LeftBehind(call[w])'
      BY <1>6, <1>7, <1>11, <2>2, <3>1
    <3>. QED  BY <1>6, <1>7, <2>2, <3>2, OfOneThread
  <2>. QED  BY <2>1, <2>2
<1>8. CASE /\ ~(now = Len(Header[c.form]) /\ ReadAll(c))
           /\ call' = [call EXCEPT ![w] = [c EXCEPT !.phase = "refill", !.parts = now]]
           /\ UNCHANGED <<returned, status>>
  <2>. DEFINE d == [c EXCEPT !.phase = "refill", !.parts = now]
  <2>1. /\ d \in Call /\ d.form = c.form /\ d.words = c.words /\ d.size = c.size
        /\ d.phase = "refill" /\ d.parts = now /\ d.answer = c.answer /\ d.left = c.left
        /\ d.no = c.no /\ d.index = c.index
    <3>1. now \in Nat
      BY <1>1, <1>2, Bounds
    <3>. HIDE DEF now
    <3>. QED  BY <1>0, <3>1 DEF Call, Phases
  <2>. HIDE DEF d
  <2>2. call'[w] = d /\ call' \in [Workers -> Call]
    BY <1>8, <2>1 DEF Types, d
  <2>3. Types'
    BY <1>0, <1>2, <1>4, <1>8, <2>1, <2>2 DEF Types
  <2>4. Asked(d)'
    BY <1>0, <1>4, <2>1 DEF Asked, Bare
  <2>5. PartsIn(d) = now
    BY <2>1 DEF PartsIn
  <2>6. OnItsWay(d, d.form, d.size)'
    BY <1>0, <2>1 DEF OnItsWay, ReplyWords, WordAt
  <2>7. Exchange(d)'
    BY <1>0, <2>1, <2>5, <2>6 DEF Exchange, InReply, ReplyWords
  <2>. QED  BY <1>8, <2>2, <2>3, <2>4, <2>7, OfOneThread
<1>9. CASE /\ ~(now = Len(Header[c.form]) /\ ReadAll(c))
           /\ ~MayRefill(c, now) /\ Return(w, c) /\ status' = "behind"
  <2>1. L < H + c.size
    BY <1>1, <1>2, <1>9 DEF MayRefill
  <2>2. LeftBehind(call[w])'
    BY <1>6, <1>9, <1>11, <2>1
  <2>. QED  BY <1>6, <1>9, <2>2, OfOneThread
<1>10. CASE status' = "short" /\ UNCHANGED <<call, returned>>
  <2>1. Types'
    BY <1>0, <1>4, <1>10 DEF Types
  <2>2. Asked(call[w])'
    BY <1>4, <1>10 DEF Asked
  <2>. QED  BY <1>10, <2>1, <2>2, OfOneThread
<1>. QED  BY <1>7, <1>8, <1>9, <1>10, Zenon DEF Continue

\* What recv takes off the connection, and what it leaves.
LEMMA Cut ==
    ASSUME stream \in Seq(Words), NEW k \in 0 .. Len(stream)
    PROVE  /\ First(k) \in Seq(Words) /\ Len(First(k)) = k
           /\ Rest(k) \in Seq(Words) /\ Len(Rest(k)) = Len(stream) - k
           /\ \A i \in 1 .. k : First(k)[i] = stream[i]
           /\ \A i \in 1 .. Len(stream) - k : Rest(k)[i] = stream[k + i]
<1>1. Len(stream) \in Nat /\ k \in Nat /\ k <= Len(stream)
  OBVIOUS
<1>2. First(k) \in Seq(Words) /\ Len(First(k)) = k /\ \A i \in 1 .. k : First(k)[i] = stream[i]
  BY <1>1 DEF First
<1>3. Rest(k) \in Seq(Words) /\ Len(Rest(k)) = Len(stream) - k
      /\ \A i \in 1 .. Len(stream) - k : Rest(k)[i] = stream[k + i]
  BY <1>1 DEF Rest
<1>. QED  BY <1>2, <1>3

\* What is appended to a sequence stands behind it.
LEMMA Joined ==
    ASSUME NEW S, NEW s \in Seq(S), NEW t \in Seq(S)
    PROVE  /\ s \o t \in Seq(S) /\ Len(s \o t) = Len(s) + Len(t)
           /\ \A i \in 1 .. Len(s) : (s \o t)[i] = s[i]
           /\ \A i \in Len(s) + 1 .. Len(s) + Len(t) : (s \o t)[i] = t[i - Len(s)]
<1>1. PICK m, n \in Nat : m = Len(s) /\ n = Len(t)
  OBVIOUS
<1>2. /\ s \o t \in Seq(S) /\ Len(s \o t) = m + n
      /\ \A i \in 1 .. m + n : (s \o t)[i] = IF i <= m THEN s[i] ELSE t[i - m]
  BY <1>1, ConcatProperties
<1>3. \A i \in 1 .. m : i \in 1 .. m + n /\ i <= m
  OBVIOUS
<1>4. \A i \in m + 1 .. m + n : i \in 1 .. m + n /\ ~(i <= m)
  OBVIOUS
<1>. QED  BY <1>1, <1>2, <1>3, <1>4

\* The reply is still whole when a call has received some more of it.
LEMMA ReceiveMore ==
    ASSUME stream \in Seq(Words), NEW k \in 1 .. Len(stream),
           NEW form \in Replies, NEW size \in Sizes,
           NEW c, NEW d, c.words \in Seq(Words), d.no = c.no, d.index = c.index, d.words = c.words \o First(k),
           OnItsWay(c, form, size), stream' = Rest(k), closed' = closed
    PROVE  /\ OnItsWay(d, form, size)' /\ d.words \in Seq(Words) /\ d.words # <<>>
           /\ Len(d.words) = Len(c.words) + k /\ stream' \in Seq(Words)
<1>. DEFINE L == Len(c.words)
            n == Len(stream)
            R == ReplyWords(form, size)
<1>1. L \in Nat /\ n \in Nat /\ k \in Nat \ {0} /\ k <= n /\ R \in Nat
  <2>1. size \in Nat /\ HeaderWords(form) \in Nat
    BY Bounds
  <2>2. L \in Nat /\ n \in Nat
    OBVIOUS
  <2>. QED  BY <2>1, <2>2 DEF ReplyWords
<1>2. /\ First(k) \in Seq(Words) /\ Len(First(k)) = k
      /\ stream' \in Seq(Words) /\ Len(stream') = n - k
      /\ \A i \in 1 .. k : First(k)[i] = stream[i]
      /\ \A i \in 1 .. n - k : stream'[i] = stream[k + i]
  <2>1. k \in 0 .. Len(stream)
    BY <1>1
  <2>. QED  BY <2>1, Cut
<1>3. /\ d.words \in Seq(Words) /\ Len(d.words) = L + k
      /\ \A i \in 1 .. L : d.words[i] = c.words[i]
      /\ \A i \in L + 1 .. L + k : d.words[i] = First(k)[i - L]
  <2>1. PICK s, t \in Seq(Words) : s = c.words /\ t = First(k)
    BY <1>2
  <2>2. Len(s) = L /\ Len(t) = k
    BY <1>2, <2>1
  <2>3. s \o t \in Seq(Words) /\ Len(s \o t) = L + k
    <3>1. s \in Seq(Words) /\ t \in Seq(Words)
      BY <2>1
    <3>2. s \o t \in Seq(Words) /\ Len(s \o t) = Len(s) + Len(t)
      BY <3>1, Joined, Zenon
    <3>. QED  BY <2>2, <3>2, Zenon
  <2>4. \A i \in 1 .. L : (s \o t)[i] = s[i]
    BY <2>1, <2>2, Joined
  <2>5. \A i \in L + 1 .. L + k : (s \o t)[i] = t[i - L]
    BY <2>1, <2>2, Joined
  <2>6. d.words = s \o t
    BY <2>1
  <2>. QED  BY <2>1, <2>3, <2>4, <2>5, <2>6
<1>4. \A i : WordAt(d, form, size, i) = WordAt(c, form, size, i)
  BY DEF WordAt
<1>5. /\ L + n <= R /\ (closed \/ L + n = R)
      /\ \A i \in 1 .. L : c.words[i] = WordAt(c, form, size, i)
      /\ \A i \in 1 .. n : stream[i] = WordAt(c, form, size, L + i)
  BY DEF OnItsWay
<1>6. ASSUME NEW i \in 1 .. L + k
      PROVE  d.words[i] = WordAt(c, form, size, i)
  <2>1. CASE i \in 1 .. L
    BY <1>3, <1>5, <2>1
  <2>2. CASE i \notin 1 .. L
    <3>1. i - L \in 1 .. k /\ i - L \in 1 .. n /\ L + (i - L) = i
      <4>. HIDE DEF L, n
      <4>. QED  BY <1>1, <2>2
    <3>2. stream[i - L] = WordAt(c, form, size, L + (i - L))
      BY <1>5, <3>1
    <3>3. d.words[i] = First(k)[i - L] /\ First(k)[i - L] = stream[i - L]
      BY <1>1, <1>2, <1>3, <3>1
    <3>. QED  BY <3>1, <3>2, <3>3
  <2>. QED  BY <2>1, <2>2
<1>7. ASSUME NEW i \in 1 .. n - k
      PROVE  stream'[i] = WordAt(c, form, size, Len(d.words) + i)
  <2>1. k + i \in 1 .. n /\ L + (k + i) = Len(d.words) + i
    <3>. HIDE DEF L, n
    <3>. QED  BY <1>1, <1>3
  <2>. QED  BY <1>2, <1>5, <2>1
<1>9. /\ Len(d.words) + Len(stream') <= R
      /\ closed' \/ Len(d.words) + Len(stream') = R
  BY <1>1, <1>2, <1>3, <1>5
<1>10. OnItsWay(d, form, size)'
  BY <1>2, <1>3, <1>4, <1>6, <1>7, <1>9 DEF OnItsWay
<1>. QED  BY <1>1, <1>2, <1>3, <1>10

\* A call that is answered has no request with the server any more.
LEMMA AnsweredOnce ==
    ASSUME NEW c, Asked(c), c.answer # NoReply
    PROVE  requests = {}
BY DEF Asked

LEMMA RecvHeaderReceives ==
    ASSUME IInv, NEW w \in Workers, NEW k \in 1 .. Len(stream), RecvHeader(w, k)
    PROVE  Receives(w)
<1>1. Types /\ Asked(call[w]) /\ status # "mismatch" /\ stream \in Seq(Words)
  BY DEF IInv, Types
<1>2. PICK b \in Call : b = call[w]
  BY <1>1 DEF Types
<1>3. b.phase = "sent" /\ stream' = Rest(k) /\ UNCHANGED <<counter, made, requests, closed>>
  BY <1>2 DEF RecvHeader
<1>4. stream # <<>> /\ stream' \in Seq(Words)
  BY <1>1, <1>3, Cut
<1>5. ASSUME status = "behind"
      PROVE  Stops
  <2>1. stream[1].pos # 1
    BY <1>4, <1>5 DEF IInv, LeftBehind
  <2>. QED  BY <1>5, <2>1 DEF RecvHeader, HeaderMatches, Stops
<1>6. ASSUME status = "ok"
      PROVE  GoesOn(w)
  <2>1. Fresh(b) /\ b.answer # NoReply /\ OnItsWay(b, b.answer[1], b.answer[2])
    BY <1>2, <1>3, <1>4, <1>6 DEF IInv, Exchange
  <2>2. PICK form \in Replies, size \in Sizes :
           b.answer = <<form, size>> /\ form = b.answer[1] /\ size = b.answer[2]
    BY <2>1 DEF Call, Answers
  <2>3. b.words = <<>> /\ b.parts = 0 /\ OnItsWay(b, form, size)
    BY <2>1, <2>2 DEF Fresh
  <2>4. stream[1] = WordAt(b, form, size, 1)
    <3>1. 1 \in 1 .. Len(stream) /\ Len(b.words) = 0
      BY <1>1, <1>4, <2>3
    <3>. QED  BY <2>3, <3>1 DEF OnItsWay
  <2>5. stream[1].pos = 1 /\ stream[1].xid = Xid[b.index]
        /\ stream[1].form = form /\ stream[1].size = size
    BY <2>4 DEF WordAt
  <2>. DEFINE e == [call[w] EXCEPT !.form = stream[1].form, !.size = stream[1].size,
                                   !.words = First(k)]
              d == [e EXCEPT !.left = FragmentLeft(e)]
  <2>6. Continue(w, d)
    BY <1>2, <2>5 DEF RecvHeader, HeaderMatches
  <2>7. /\ First(k) \in Seq(Words) /\ Len(First(k)) = k /\ k \in Nat
        /\ b.words \o First(k) = First(k)
    BY <1>1, <2>3, Cut
  <2>8. /\ d.form = form /\ d.no = b.no /\ d.index = b.index /\ d.words = First(k)
        /\ d.size = size /\ d.parts = 0 /\ d.answer = <<form, size>>
        /\ d.left = HeaderWords(form) + size - k
    BY <1>2, <2>2, <2>3, <2>5, <2>7 DEF Call, FragmentLeft
  <2>9. /\ HeaderWords(form) \in Nat /\ HeaderWords(form) + size <= MaxWords /\ MaxWords \in Nat
        /\ size \in Nat /\ k <= HeaderWords(form) + size /\ Len(Header[form]) \in Nat
    <3>1. HeaderWords(form) \in Nat /\ HeaderWords(form) + size <= MaxWords /\ MaxWords \in Nat
          /\ size \in Nat /\ Len(Header[form]) \in Nat
      BY Bounds DEF Call
    <3>2. Len(b.words) = 0 /\ Len(b.words) + Len(stream) <= HeaderWords(form) + size
      BY <2>3 DEF OnItsWay, ReplyWords
    <3>. QED  BY <1>1, <2>7, <3>1, <3>2
  <2>10. d \in Call
    <3>1. HeaderWords(form) + size - k \in 0 .. MaxWords
      BY <2>7, <2>9
    <3>2. d = [b EXCEPT !.form = form, !.size = size, !.words = First(k),
                        !.left = HeaderWords(form) + size - k]
      BY <1>2, <2>5, <2>7 DEF Call, FragmentLeft
    <3>. HIDE DEF d
    <3>. QED  BY <2>7, <3>1, <3>2 DEF Call
  <2>. HIDE DEF d
  <2>11. PICK f \in Call : f = d
    BY <2>10
  <2>12. OnItsWay(f, form, size)' /\ f.words # <<>>
    <3>1. b.words \in Seq(Words)
      BY DEF Call
    <3>2. f.no = b.no /\ f.index = b.index /\ f.words = b.words \o First(k)
      BY <2>7, <2>8, <2>11
    <3>. QED  BY <1>1, <1>3, <2>3, <3>1, <3>2, ReceiveMore
  <2>13. f.left = ReplyWords(f.form, f.size) - Len(f.words) /\ f.parts <= Len(Header[f.form])
    BY <2>7, <2>8, <2>9, <2>11 DEF ReplyWords
  <2>14. requests = {} /\ f.no \in 1 .. made /\ Bare(f)
    <3>1. requests = {}
      BY <1>1, <1>2, <2>1, AnsweredOnce
    <3>2. b.no \in 1 .. made /\ (form \notin Refusals \cup {"read"} => size = 0)
      BY <1>1, <1>2, <1>3, <2>1, <2>2 DEF Asked
    <3>. QED  BY <2>8, <2>11, <3>1, <3>2 DEF Bare
  <2>15. f.answer = <<f.form, f.size>> /\ f.form = form /\ f.size = size
    BY <2>8, <2>11
  <2>16. Reads(f)'
    BY <1>3, <1>4, <2>11, <2>12, <2>13, <2>14, <2>15 DEF Reads
  <2>17. Same(call[w], f) /\ InCall(w)
    BY <1>2, <1>3, <2>2, <2>8, <2>11 DEF Same, InCall
  <2>. QED  BY <1>6, <2>6, <2>11, <2>16, <2>17 DEF GoesOn
<1>. QED  BY <1>3, <1>4, <1>5, <1>6 DEF RecvHeader, Running, Receives

\* A call in the middle of its reply, and that call when it has received more.
More(c, k, m) == [c EXCEPT !.left = @ - k, !.words = PutBehind(@, First(k)), !.missing = m]

LEMMA MoreOfReply ==
    ASSUME IInv, NEW w \in Workers, status = "ok", NEW b \in Call, b = call[w],
           b.phase \in {"refill", "again"}, NEW k \in 1 .. Len(stream), NEW m \in 0 .. MaxBuffer,
           stream' = Rest(k), UNCHANGED <<made, requests, closed>>,
           NEW d, d = More(b, k, m)
    PROVE  Reads(d)' /\ Same(call[w], d)
<1>1. Types /\ Asked(b) /\ InReply(b) /\ stream \in Seq(Words) /\ b.parts <= Len(Header[b.form])
  BY DEF IInv, Types, Exchange
<1>2. /\ b.form \in Replies /\ b.words \in Seq(Words) /\ b.size \in Sizes
      /\ b.answer = <<b.form, b.size>> /\ OnItsWay(b, b.form, b.size) /\ b.answer # NoReply
      /\ b.left = ReplyWords(b.form, b.size) - Len(b.words) /\ b.left \in 0 .. MaxWords
  BY <1>1 DEF Call, InReply, NoReply
<1>3. requests = {} /\ b.no \in 1 .. made /\ Bare(b)
  BY <1>1, <1>2, AnsweredOnce DEF Asked, Bare
<1>4. First(k) \in Seq(Words) /\ Len(First(k)) = k /\ b.words \o First(k) \in Seq(Words)
  <2>1. k \in 0 .. Len(stream)
    BY <1>1
  <2>. QED  BY <1>1, <1>2, <2>1, Cut
<1>5. Len(b.words) \in Nat /\ Len(stream) \in Nat /\ ReplyWords(b.form, b.size) \in Nat
      /\ MaxWords \in Nat /\ Len(b.words) + Len(stream) <= ReplyWords(b.form, b.size)
  <2>1. HeaderWords(b.form) \in Nat /\ b.size \in Nat /\ MaxWords \in Nat
    BY <1>2, Bounds
  <2>2. Len(b.words) \in Nat /\ Len(stream) \in Nat
    BY <1>1, <1>2
  <2>3. Len(b.words) + Len(stream) <= ReplyWords(b.form, b.size)
    BY <1>2 DEF OnItsWay
  <2>. QED  BY <2>1, <2>2, <2>3 DEF ReplyWords
<1>6. b.left - k \in 0 .. MaxWords
  <2>1. k \in Nat /\ k <= Len(stream) /\ b.left \in Nat /\ b.left <= MaxWords
    BY <1>2, <1>5
  <2>2. k <= b.left
    BY <1>2, <1>5, <2>1
  <2>. QED  BY <1>5, <2>1, <2>2
<1>7. d = [b EXCEPT !.left = b.left - k, !.words = b.words \o First(k), !.missing = m]
  BY DEF More, PutBehind, Call
<1>8. /\ d \in Call /\ d.form = b.form /\ d.no = b.no /\ d.index = b.index /\ d.size = b.size
      /\ d.parts = b.parts /\ d.answer = b.answer /\ d.words = b.words \o First(k)
      /\ d.left = b.left - k
  BY <1>4, <1>6, <1>7 DEF Call
<1>9. OnItsWay(d, d.form, d.size)' /\ d.words # <<>> /\ Len(d.words) = Len(b.words) + k
      /\ stream' \in Seq(Words)
  <2>1. OnItsWay(d, b.form, b.size)' /\ d.words # <<>> /\ Len(d.words) = Len(b.words) + k
        /\ stream' \in Seq(Words)
    <3>1. PICK form \in Replies, size \in Sizes : form = b.form /\ size = b.size
      BY <1>2
    <3>2. OnItsWay(b, form, size)
      BY <1>2, <3>1
    <3>3. /\ OnItsWay(d, form, size)' /\ d.words # <<>>
          /\ Len(d.words) = Len(b.words) + k /\ stream' \in Seq(Words)
      <4>1. b.words \in Seq(Words) /\ d.words = b.words \o First(k) /\ stream \in Seq(Words)
            /\ d.no = b.no /\ d.index = b.index /\ stream' = Rest(k) /\ closed' = closed
        BY <1>1, <1>2, <1>8
      <4>. QED  BY <3>2, <4>1, ReceiveMore
    <3>. QED  BY <3>1, <3>3
  <2>. QED  BY <1>8, <2>1
<1>10. d.left = ReplyWords(d.form, d.size) - Len(d.words)
  <2>1. ReplyWords(d.form, d.size) = ReplyWords(b.form, b.size)
    BY <1>8 DEF ReplyWords
  <2>2. d.left = ReplyWords(b.form, b.size) - Len(b.words) - k
    BY <1>2, <1>8
  <2>. QED  BY <1>5, <1>9, <2>1, <2>2
<1>. QED  BY <1>1, <1>2, <1>3, <1>8, <1>9, <1>10 DEF Reads, Same, Bare

\* In the middle of a reply the connection is in use and not behind.
LEMMA InReplyIsOk ==
    ASSUME IInv, NEW w \in Workers, Running, call[w].phase \in {"refill", "again"}
    PROVE  status = "ok"
BY DEF IInv, Running, LeftBehind

\* A buffer that is refilled has room for what is missing.
LEMMA UnreadFits ==
    ASSUME NEW b \in Call, b.parts = PartsIn(b)
    PROVE  Unread(b) \in 0 .. MaxBuffer
<1>1. b.form \in Replies /\ b.words \in Seq(Words)
  BY DEF Call
<1>2. /\ b.parts \in 0 .. Len(Header[b.form])
      /\ b.parts = Len(Header[b.form]) <=> Len(b.words) >= HeaderWords(b.form)
      /\ b.parts # 0 => Header[b.form][b.parts].end <= Len(b.words)
  BY <1>1, PartsInIs
<1>3. /\ Header[b.form] \in Seq([end : Nat \ {0}, ensured : BOOLEAN])
      /\ HeaderWords(b.form) \in Nat /\ HeaderWords(b.form) <= MaxBuffer
      /\ Len(b.words) \in Nat /\ MaxBuffer \in Nat
  <2>1. Len(b.words) \in Nat /\ MaxBuffer \in Nat
    BY <1>1, RpcSessionAssumption
  <2>. QED  BY <1>1, <2>1, Bounds
<1>4. CASE b.parts = Len(Header[b.form])
  BY <1>3, <1>4 DEF Unread
<1>5. CASE b.parts = 0 /\ b.parts # Len(Header[b.form])
  BY <1>2, <1>3, <1>5 DEF Unread
<1>6. CASE b.parts # 0 /\ b.parts # Len(Header[b.form])
  <2>1. Header[b.form][b.parts] \in [end : Nat \ {0}, ensured : BOOLEAN]
    <3>1. b.parts \in 1 .. Len(Header[b.form])
      BY <1>2, <1>3, <1>6
    <3>. QED  BY <1>3, <3>1, ElementOfSeq
  <2>2. Unread(b) = Len(b.words) - Header[b.form][b.parts].end
    BY <1>6 DEF Unread
  <2>3. PICK end \in Nat \ {0} : end = Header[b.form][b.parts].end
    BY <2>1
  <2>4. end <= Len(b.words) /\ Len(b.words) < HeaderWords(b.form)
    BY <1>2, <1>3, <1>6, <2>3
  <2>5. PICK n, h, m \in Nat : n = Len(b.words) /\ h = HeaderWords(b.form) /\ m = MaxBuffer
    BY <1>3
  <2>6. end <= n /\ n < h /\ h <= m
    BY <1>3, <2>4, <2>5
  <2>7. n - end \in 0 .. MaxBuffer
    <3>1. \A x, y, z, v \in Nat : x <= y /\ y < z /\ z <= v => y - x \in 0 .. v
      OBVIOUS
    <3>. QED  BY <2>3, <2>5, <2>6, <3>1
  <2>8. Unread(b) = n - end
    BY <2>2, <2>3, <2>5
  <2>. QED  BY <2>7, <2>8
<1>. QED  BY <1>4, <1>5, <1>6

LEMMA RefillReceives ==
    ASSUME IInv, NEW w \in Workers, NEW k \in 1 .. Len(stream), Refill(w, k)
    PROVE  Receives(w)
<1>1. Types /\ Asked(call[w]) /\ status = "ok" /\ call[w].phase = "refill"
      /\ stream' = Rest(k) /\ UNCHANGED <<counter, made, requests, closed>>
  BY InReplyIsOk DEF IInv, Refill
<1>2. PICK b \in Call : b = call[w]
  BY <1>1 DEF Types
<1>3. Unread(b) \in 0 .. MaxBuffer /\ MaxBuffer \in Nat
  BY <1>1, <1>2, UnreadFits, RpcSessionAssumption DEF IInv, Exchange, InReply
<1>4. k \in Nat /\ k + Unread(b) <= MaxBuffer /\ k <= Len(stream) /\ Len(stream) \in Nat
  BY <1>1, <1>2, <1>3 DEF Refill, Receivable, Lower, Types
<1>5. PICK left : left = b.left - k
  OBVIOUS
<1>6. b.left \in Nat /\ left \in Nat
  <2>1. InReply(b) /\ Len(b.words) + Len(stream) <= ReplyWords(b.form, b.size)
    BY <1>1, <1>2 DEF IInv, Exchange, InReply, OnItsWay
  <2>2. Len(b.words) \in Nat /\ ReplyWords(b.form, b.size) \in Nat /\ b.left \in Nat
    <3>1. b.form \in Replies /\ b.size \in Sizes /\ b.words \in Seq(Words) /\ b.left \in 0 .. MaxWords
      BY DEF Call
    <3>2. HeaderWords(b.form) \in Nat /\ b.size \in Nat /\ MaxWords \in Nat
      BY <3>1, Bounds
    <3>. QED  BY <3>1, <3>2 DEF ReplyWords
  <2>. QED  BY <1>4, <1>5, <2>1, <2>2 DEF InReply
<1>7. PICK m \in 0 .. MaxBuffer : m = Missing(Unread(b) + k, left)
  BY <1>3, <1>4, <1>6 DEF Missing, Lower
<1>8. PICK d : d = More(b, k, m)
  OBVIOUS
<1>9. Reads(d)' /\ Same(call[w], d)
  BY <1>1, <1>2, <1>7, <1>8, MoreOfReply
<1>10. d = [call[w] EXCEPT !.left = left, !.words = PutBehind(@, First(k)),
                           !.missing = Missing(Unread(call[w]) + k, left)]
  BY <1>2, <1>5, <1>7, <1>8 DEF Call, More
<1>11. Continue(w, d) \/ Waits(w, d)
  BY <1>2, <1>5, <1>10 DEF Refill, Waits
<1>. QED  BY <1>1, <1>9, <1>11 DEF Receives, GoesOn, InCall, Reads

LEMMA RecvAgainReceives ==
    ASSUME IInv, NEW w \in Workers, NEW k \in 1 .. Len(stream), RecvAgain(w, k)
    PROVE  Receives(w)
<1>1. Types /\ Asked(call[w]) /\ status = "ok" /\ call[w].phase = "again"
      /\ stream' = Rest(k) /\ UNCHANGED <<counter, made, requests, closed>>
  BY InReplyIsOk DEF IInv, RecvAgain
<1>2. PICK b \in Call : b = call[w]
  BY <1>1 DEF Types
<1>3. PICK d : d = More(b, k, 0)
  OBVIOUS
<1>4. 0 \in 0 .. MaxBuffer
  BY RpcSessionAssumption
<1>5. Reads(d)' /\ Same(call[w], d)
  BY <1>1, <1>2, <1>3, <1>4, MoreOfReply
<1>6. d = [call[w] EXCEPT !.left = @ - k, !.missing = 0, !.words = PutBehind(@, First(k))]
  BY <1>2, <1>3 DEF Call, More
<1>7. Continue(w, d)
  BY <1>6 DEF RecvAgain
<1>. QED  BY <1>1, <1>5, <1>7 DEF Receives, GoesOn, InCall, Reads

LEMMA RecvFailsReceives ==
    ASSUME IInv, NEW w \in Workers, RecvFails(w)
    PROVE  Receives(w)
<1>1. Types /\ Asked(call[w]) /\ closed /\ stream = <<>>
      /\ UNCHANGED <<counter, made, requests, stream, closed>>
  BY DEF IInv, RecvFails, AtEnd, socket
<1>2. CASE call[w].phase \in {"refill", "again"} /\ Continue(w, call[w])
  <2>1. PICK b \in Call : b = call[w]
    BY <1>1 DEF Types
  <2>2. status = "ok"
    BY <1>2, InReplyIsOk DEF RecvFails
  <2>3. InReply(b) /\ b.parts <= Len(Header[b.form])
    BY <1>1, <1>2, <2>1, <2>2 DEF IInv, Exchange, Types
  <2>4. requests = {} /\ b.no \in 1 .. made /\ Bare(b)
    <3>1. b.answer # NoReply
      BY <2>3 DEF InReply, NoReply
    <3>2. requests = {}
      BY <1>1, <2>1, <3>1, AnsweredOnce
    <3>. QED  BY <1>1, <1>2, <2>1, <2>3, <3>1, <3>2 DEF Asked, InReply, Bare
  <2>5. OnItsWay(b, b.form, b.size)' /\ stream' \in Seq(Words)
    BY <1>1, <2>3 DEF InReply, OnItsWay, Types
  <2>6. Reads(b)'
    BY <1>1, <2>3, <2>4, <2>5 DEF InReply, Reads
  <2>. QED  BY <1>1, <1>2, <2>1, <2>2, <2>5, <2>6 DEF Receives, GoesOn, InCall, Same
<1>3. CASE status' = "lost" /\ UNCHANGED <<call, returned>>
  BY <1>1, <1>3 DEF Receives, Stops, Types
<1>. QED  BY <1>2, <1>3 DEF RecvFails

\* Whatever is received, the invariant is kept.
LEMMA ReceivesStep ==
    ASSUME IInv, NEW w \in Workers, Workers = {w}, Receives(w)
    PROVE  IInv'
<1>1. Types /\ Asked(call[w]) /\ UNCHANGED <<counter, made, requests, closed>>
      /\ stream' \in Seq(Words)
  BY DEF IInv, Receives
<1>2. ASSUME NEW c, Reads(c)', Same(call[w], c), status = "ok", Continue(w, c)
      PROVE  IInv'
  BY <1>1, <1>2, ContinueStep
<1>3. ASSUME NEW c, Reads(c)', Same(call[w], c), status = "ok", Waits(w, c)
      PROVE  IInv'
  <2>1. /\ c \in Call /\ c.parts <= Len(Header[c.form])
        /\ c.answer = <<c.form, c.size>> /\ Bare(c)
        /\ c.no \in 1 .. made /\ requests' = {}
        /\ c.words # <<>> /\ OnItsWay(c, c.form, c.size)'
        /\ c.left = ReplyWords(c.form, c.size) - Len(c.words)
    BY <1>1, <1>3 DEF Reads
  <2>2. PICK d : d = [c EXCEPT !.phase = "again"]
    OBVIOUS
  <2>3. /\ d \in Call /\ d.phase = "again" /\ d.form = c.form /\ d.no = c.no /\ d.index = c.index
        /\ d.size = c.size /\ d.left = c.left /\ d.parts = c.parts /\ d.words = c.words
        /\ d.answer = c.answer
    BY <2>1, <2>2 DEF Call, Phases
  <2>4. call'[w] = d /\ call' \in [Workers -> Call]
    BY <1>1, <1>3, <2>2, <2>3 DEF Types, Waits
  <2>5. Types'
    BY <1>1, <1>3, <2>1, <2>3, <2>4 DEF Types, Waits
  <2>6. Asked(d)'
    BY <1>1, <2>1, <2>3 DEF Asked, Bare
  <2>7. Exchange(d)'
    BY <2>1, <2>3 DEF Exchange, InReply, OnItsWay, ReplyWords, WordAt
  <2>. QED  BY <1>3, <2>4, <2>5, <2>6, <2>7, OfOneThread DEF Waits
<1>4. ASSUME Stops
      PROVE  IInv'
  <2>1. Types' /\ Asked(call[w])'
    BY <1>1, <1>4 DEF Types, Asked, Stops
  <2>. QED  BY <1>4, <2>1, OfOneThread DEF Stops
<1>. QED  BY <1>2, <1>3, <1>4 DEF Receives, GoesOn

-----------------------------------------------------------------------------
(* The other steps *)

LEMMA InitCallStep ==
    ASSUME IInv, NEW w \in Workers, Workers = {w}, InitCall(w)
    PROVE  IInv'
<1>1. Types /\ Asked(call[w]) /\ status \in {"ok", "behind"} /\ made < MaxCalls
      /\ made' = made + 1 /\ UNCHANGED <<counter, requests, stream, closed, returned, status>>
  BY DEF IInv, InitCall, Running, socket
<1>2. PICK kind \in Kinds :
          call' = [call EXCEPT ![w] = [Idle EXCEPT !.phase = "built", !.no = made + 1,
                                                  !.kind = kind, !.index = counter]]
  BY DEF InitCall
<1>3. made + 1 \in 1 .. MaxCalls /\ made + 1 \in 1 .. made' /\ made' \in 0 .. MaxCalls
  BY <1>1, RpcSessionAssumption DEF Types
<1>4. PICK b : b = [Idle EXCEPT !.phase = "built", !.no = made + 1, !.kind = kind, !.index = counter]
  OBVIOUS
<1>5. /\ b \in Call /\ b.phase = "built" /\ b.no = made + 1 /\ b.answer = NoReply /\ b.parts = 0
      /\ Fresh(b)
  BY <1>1, <1>3, <1>4, IdleIsCall DEF Types, Idle, Call, Phases, Fresh
<1>6. call'[w] = b /\ call' \in [Workers -> Call]
  BY <1>1, <1>2, <1>4, <1>5 DEF Types
<1>7. Types'
  <2>1. call'[w].parts <= Len(Header[call'[w].form])
    BY <1>5, <1>6, Bounds DEF Call
  <2>. QED  BY <1>1, <1>3, <1>6, <2>1 DEF Types
<1>8. requests = {}
  BY <1>1 DEF Asked, InitCall
<1>9. Asked(b)'
  BY <1>1, <1>3, <1>5, <1>8 DEF Asked
<1>10. status = "ok" => Exchange(b)'
  BY <1>1, <1>5 DEF IInv, Exchange, InitCall
<1>11. status = "behind" => LeftBehind(b)'
  BY <1>1, <1>5 DEF IInv, LeftBehind
<1>. QED  BY <1>1, <1>6, <1>7, <1>9, <1>10, <1>11, OfOneThread

LEMMA SendStep ==
    ASSUME IInv, NEW w \in Workers, Workers = {w}, Send(w)
    PROVE  IInv'
<1>1. Types /\ Asked(call[w]) /\ status \in {"ok", "behind"} /\ call[w].phase = "built"
      /\ UNCHANGED <<made, stream, closed, returned>>
  BY DEF IInv, Send, Running
<1>2. PICK b \in Call : b = call[w]
  BY <1>1 DEF Types
<1>3. Fresh(b) /\ requests = {} /\ b.answer = NoReply /\ b.no \in 1 .. made
  BY <1>1, <1>2 DEF IInv, Exchange, LeftBehind, Asked
<1>. DEFINE d == [b EXCEPT !.phase = "sent"]
            r == [no |-> b.no, kind |-> b.kind, xid |-> Xid[b.index]]
<1>4. /\ d \in Call /\ d.phase = "sent" /\ d.kind = b.kind /\ d.no = b.no /\ d.index = b.index
      /\ d.form = b.form /\ d.answer = b.answer /\ d.parts = b.parts /\ Fresh(d)
  BY <1>3 DEF Call, Phases, Fresh
<1>5. r \in [no : 1 .. MaxCalls, kind : Kinds, xid : Xids]
  BY <1>1, <1>3, RpcSessionAssumption DEF Types, Call, Xids
<1>6. requests' = IF closed THEN {} ELSE {r}
  BY <1>2, <1>3 DEF Send
<1>. HIDE DEF d, r
<1>7. call'[w] = d /\ call' \in [Workers -> Call]
  BY <1>1, <1>2, <1>4 DEF Types, Send, d
<1>8. counter' \in 0 .. XidPeriod - 1
  <2>1. \A n \in Nat \ {0}, x \in Nat : (x + 1) % n \in 0 .. n - 1
    OBVIOUS
  <2>2. counter' = (b.index + 1) % XidPeriod /\ b.index \in Nat
    BY <1>2 DEF Send, Call
  <2>. QED  BY <2>1, <2>2, RpcSessionAssumption
<1>9. status' \in {status, "lost"}
  BY DEF Send
<1>10. Types'
  <2>1. call'[w].parts <= Len(Header[call'[w].form])
    BY <1>1, <1>2, <1>4, <1>7 DEF Types
  <2>2. requests' \in SUBSET [no : 1 .. MaxCalls, kind : Kinds, xid : Xids]
    BY <1>5, <1>6
  <2>. QED  BY <1>1, <1>7, <1>8, <1>9, <2>1, <2>2 DEF Types
<1>11. Asked(d)'
  BY <1>1, <1>3, <1>4, <1>6 DEF Asked, r
<1>12. status' = "ok" => Exchange(d)'
  <2>1. status' = "ok" => stream = <<>>
    BY <1>1, <1>2, <1>9 DEF IInv, Exchange
  <2>. QED  BY <1>1, <1>3, <1>4, <1>6, <2>1 DEF Exchange
<1>13. status' = "behind" => LeftBehind(d)'
  BY <1>1, <1>4, <1>9 DEF IInv, LeftBehind
<1>. QED  BY <1>1, <1>7, <1>9, <1>10, <1>11, <1>12, <1>13, OfOneThread

LEMMA ServeStep ==
    ASSUME IInv, NEW w \in Workers, Workers = {w}, NEW r \in requests, NEW form \in Replies,
           NEW size \in Sizes, Serve(r, form, size)
    PROVE  IInv'
<1>1. Types /\ Asked(call[w]) /\ status # "mismatch" /\ stream \in Seq(Words)
      /\ stream' = stream \o Reply(r, form, size) /\ requests' = requests \ {r}
      /\ UNCHANGED <<counter, made, closed, returned, status>>
  BY DEF IInv, Types, Serve
<1>2. PICK b \in Call : b = call[w]
  BY <1>1 DEF Types
<1>3. /\ \A q \in requests : q = [no |-> b.no, kind |-> b.kind, xid |-> Xid[b.index]]
      /\ b.phase = "sent" /\ b.answer = NoReply /\ ~closed /\ b.no \in 1 .. made
  BY <1>1, <1>2 DEF Asked
<1>4. /\ r.no = b.no /\ r.kind = b.kind /\ r.xid = Xid[b.index] /\ requests' = {}
  BY <1>1, <1>3
<1>5. /\ Reply(r, form, size) \in Seq(Words) /\ stream' \in Seq(Words)
      /\ Len(Reply(r, form, size)) = ReplyWords(form, size)
      /\ \A i \in 1 .. ReplyWords(form, size) : Reply(r, form, size)[i] = WordAt(b, form, size, i)
  <2>1. r \in [no : 1 .. MaxCalls, kind : Kinds, xid : Xids]
    BY <1>1 DEF Types
  <2>. QED  BY <1>1, <1>4, <2>1, ReplyIs DEF ReplyWords, WordAt
<1>. DEFINE d == [b EXCEPT !.answer = <<form, size>>]
<1>6. /\ d \in Call /\ d.phase = "sent" /\ d.kind = b.kind /\ d.no = b.no /\ d.index = b.index
      /\ d.answer = <<form, size>> /\ d.form = b.form /\ d.parts = b.parts
      /\ d.words = b.words /\ (Fresh(b) => Fresh(d))
  BY <1>3 DEF Call, Answers, Fresh
<1>. HIDE DEF d
<1>7. call'[w] = d /\ call' \in [Workers -> Call]
  BY <1>1, <1>2, <1>4, <1>6 DEF Types, Serve, d
<1>8. Types'
  <2>1. call'[w].parts <= Len(Header[call'[w].form])
    BY <1>1, <1>2, <1>6, <1>7 DEF Types
  <2>. QED  BY <1>1, <1>4, <1>5, <1>7, <2>1 DEF Types
<1>9. Asked(d)'
  BY <1>1, <1>3, <1>4, <1>6 DEF Asked, Serve
<1>10. ReplyWords(form, size) \in Nat \ {0} /\ Len(stream) \in Nat
  BY <1>1, Bounds DEF ReplyWords
<1>11. status = "ok" => Exchange(d)'
  <2>. SUFFICES ASSUME status = "ok"
                PROVE  Exchange(d)'
    OBVIOUS
  <2>1. Fresh(b) /\ stream = <<>>
    BY <1>2, <1>3 DEF IInv, Exchange
  <2>2. stream' = Reply(r, form, size) /\ d.words = <<>> /\ Fresh(d)
    BY <1>1, <1>5, <1>6, <2>1 DEF Fresh
  <2>3. OnItsWay(d, form, size)'
    <3>1. Len(d.words) = 0 /\ ReplyWords(form, size) = ReplyWords(form, size)
          /\ \A i : WordAt(d, form, size, i) = WordAt(b, form, size, i)
      BY <1>6, <2>2 DEF ReplyWords, WordAt
    <3>. QED  BY <1>5, <1>10, <2>2, <3>1 DEF OnItsWay
  <2>. QED  BY <1>6, <2>2, <2>3 DEF Exchange, NoReply
<1>12. status = "behind" => LeftBehind(d)'
  <2>. SUFFICES ASSUME status = "behind"
                PROVE  LeftBehind(d)'
    OBVIOUS
  <2>1. Fresh(b) /\ stream # <<>> /\ stream[1].pos # 1
    BY <1>2, <1>3 DEF IInv, LeftBehind
  <2>2. stream' # <<>> /\ stream'[1] = stream[1]
    BY <1>1, <1>5, <1>10, <2>1
  <2>. QED  BY <1>6, <2>1, <2>2 DEF LeftBehind
<1>. QED  BY <1>1, <1>7, <1>8, <1>9, <1>11, <1>12, OfOneThread

LEMMA CloseStep ==
    ASSUME IInv, NEW w \in Workers, Workers = {w}, NEW k \in 0 .. Len(stream), Close(k)
    PROVE  IInv'
<1>1. Types /\ Asked(call[w]) /\ status # "mismatch" /\ stream \in Seq(Words)
      /\ stream' = First(k) /\ requests' = {} /\ closed'
      /\ UNCHANGED <<counter, made, call, returned, status>>
  BY DEF IInv, Types, Close
<1>2. /\ stream' \in Seq(Words) /\ Len(stream') = k /\ Len(stream) \in Nat /\ k \in Nat
      /\ k <= Len(stream) /\ \A i \in 1 .. k : stream'[i] = stream[i]
  <2>1. Len(stream) \in Nat /\ k \in Nat /\ k <= Len(stream)
    BY <1>1
  <2>. QED  BY <1>1, <2>1, Cut
<1>3. Types' /\ Asked(call[w])'
  BY <1>1, <1>2 DEF Types, Asked
<1>4. PICK b \in Call : b = call[w] /\ b = call'[w]
  BY <1>1 DEF Types
<1>5. ASSUME NEW form \in Replies, NEW size \in Sizes, OnItsWay(b, form, size)
      PROVE  OnItsWay(b, form, size)'
  <2>1. Len(b.words) \in Nat /\ ReplyWords(form, size) \in Nat
    BY Bounds DEF Call, ReplyWords
  <2>2. /\ Len(b.words) + Len(stream) <= ReplyWords(form, size)
        /\ \A i \in 1 .. Len(b.words) : b.words[i] = WordAt(b, form, size, i)
        /\ \A i \in 1 .. Len(stream) : stream[i] = WordAt(b, form, size, Len(b.words) + i)
    BY <1>5 DEF OnItsWay
  <2>3. Len(b.words) + k <= ReplyWords(form, size)
    BY <1>2, <2>1, <2>2
  <2>4. \A i \in 1 .. k : i \in 1 .. Len(stream)
    BY <1>2
  <2>. QED  BY <1>1, <1>2, <2>2, <2>3, <2>4 DEF OnItsWay
<1>6. status = "ok" => Exchange(b)'
  <2>1. stream = <<>> => stream' = <<>>
    BY <1>2
  <2>2. b.answer # NoReply => b.answer[1] \in Replies /\ b.answer[2] \in Sizes
    BY DEF Call, Answers
  <2>3. b.form \in Replies /\ b.size \in Sizes
    BY DEF Call
  <2>. QED  BY <1>1, <1>4, <1>5, <2>1, <2>2, <2>3 DEF IInv, Exchange, InReply
<1>7. status = "behind" => LeftBehind(b)'
  <2>1. stream' # <<>> => stream # <<>> /\ stream'[1] = stream[1]
    BY <1>1, <1>2
  <2>. QED  BY <1>1, <1>4, <2>1 DEF IInv, LeftBehind
<1>. QED  BY <1>1, <1>3, <1>4, <1>6, <1>7, OfOneThread

LEMMA StepIInv ==
    ASSUME OneThread, IInv, [Next]_vars
    PROVE  IInv'
<1>1. PICK w \in Workers : Workers = {w}
  BY DEF OneThread
<1>2. ASSUME Server
      PROVE  IInv'
  BY <1>1, <1>2, ServeStep DEF Server
<1>3. ASSUME Failure
      PROVE  IInv'
  BY <1>1, <1>3, CloseStep, RecvFailsReceives, ReceivesStep DEF Failure
<1>4. ASSUME Work(w)
      PROVE  IInv'
  BY <1>1, <1>4, InitCallStep, SendStep, RecvHeaderReceives, RefillReceives,
     RecvAgainReceives, ReceivesStep DEF Work
<1>5. CASE UNCHANGED vars
  <2>1. UNCHANGED <<counter, made, call, requests, stream, closed, returned, status>>
    BY <1>5 DEF vars
  <2>. QED  BY <2>1 DEF IInv, Types, Asked, Exchange, InReply, OnItsWay, LeftBehind
<1>. QED  BY <1>1, <1>2, <1>3, <1>4, <1>5 DEF Next

LEMMA InitIInv ==
    ASSUME Init
    PROVE  IInv
<1>1. call \in [Workers -> Call] /\ \A w \in Workers : call[w] = Idle
  BY IdleIsCall DEF Init
<1>2. Types
  <2>1. \A w \in Workers : call[w].parts <= Len(Header[call[w].form])
    BY <1>1, IdleIsCall, Bounds DEF Call, Fresh
  <2>2. NoReply \in Returns /\ <<>> \in Seq(Words)
    BY DEF Returns
  <2>3. 0 \in 0 .. XidPeriod - 1 /\ 0 \in 0 .. MaxCalls
    BY RpcSessionAssumption
  <2>. QED  BY <1>1, <2>1, <2>2, <2>3 DEF Init, Types
<1>3. \A w \in Workers : Asked(call[w]) /\ Exchange(call[w])
  BY <1>1, IdleIsCall DEF Init, Asked, Exchange
<1>. QED  BY <1>2, <1>3 DEF Init, IInv

LEMMA Invariance == OneThread => (Spec => []IInv)
<1>. SUFFICES ASSUME OneThread
              PROVE  Spec => []IInv
  OBVIOUS
<1>. QED  BY InitIInv, StepIInv, PTL DEF Spec

-----------------------------------------------------------------------------
\* With one thread at a time everything is of its type, in particular what is
\* left of a fragment never wraps below 0 and what a refill asks for never
\* exceeds the buffer, whatever the connection does.
THEOREM TypeCorrect == OneThread => (Spec => []TypeOK)
<1>1. ASSUME IInv
      PROVE  TypeOK
  <2>1. Types /\ \A w \in Workers : Asked(call[w])
    BY <1>1 DEF IInv
  <2>2. ASSUME NEW w \in Workers
        PROVE  /\ call[w].phase \in Phases /\ call[w].no \in 0 .. made
               /\ call[w].kind \in Kinds /\ call[w].index \in 0 .. XidPeriod - 1
               /\ call[w].form \in Replies
               /\ call[w].size \in Sizes /\ call[w].left \in 0 .. MaxWords
               /\ call[w].missing \in 0 .. MaxBuffer
               /\ call[w].parts \in 0 .. Len(Header[call[w].form])
               /\ call[w].words \in Seq(Words) /\ returned[w] \in Returns
    <3>1. call[w] \in Call /\ returned[w] \in Returns /\ made \in Nat
          /\ call[w].parts <= Len(Header[call[w].form])
      BY <2>1, RpcSessionAssumption DEF Types
    <3>2. call[w].no \in 0 .. made
      BY <2>1, <3>1 DEF Asked, NoCall
    <3>. QED  BY <3>1, <3>2, Bounds DEF Call
  <2>. QED  BY <2>1, <2>2 DEF Types, TypeOK, Returns
<1>. QED  BY <1>1, Invariance, PTL

\* With one thread at a time no call reads the reply to another, although two
\* calls in a row may have the same xid: what is on the connection when a
\* header is received is the beginning of the call's own reply, or, once a call
\* has left the end of its reply there, a word that is no beginning of one.
THEOREM RepliesMatchAlways == OneThread => (Spec => []RepliesMatch)
<1>1. ASSUME IInv
      PROVE  RepliesMatch
  BY <1>1 DEF IInv, RepliesMatch
<1>. QED  BY <1>1, Invariance, PTL

\* With one thread at a time a call that returns has emptied the connection,
\* however its reply was cut up and whatever the buffer asked for, until one
\* has given up on the end of its reply or was refused before it had come.
THEOREM QuietAlways == OneThread => (Spec => []QuietBetweenCalls)
<1>. SUFFICES ASSUME OneThread
              PROVE  Spec => []QuietBetweenCalls
  OBVIOUS
<1>1. ASSUME IInv
      PROVE  QuietBetweenCalls
  <2>. SUFFICES ASSUME status = "ok", \A w \in Workers : call[w].phase \in {"idle", "built"}
                PROVE  requests = {} /\ stream = <<>>
    BY DEF QuietBetweenCalls
  <2>1. PICK w \in Workers : Workers = {w}
    BY DEF OneThread
  <2>2. call[w].phase \in {"idle", "built"} /\ Exchange(call[w])
    BY <1>1 DEF IInv
  <2>. QED  BY <2>2 DEF Exchange
<1>. QED  BY <1>1, Invariance, PTL

-----------------------------------------------------------------------------
(* The calls implement remote calls *)

\* The abstract state is that of the one call.
LEMMA Bars ==
    ASSUME NEW w, Workers = {w}
    PROVE  /\ callingBar = [v \in {w} |-> IF InCall(w) THEN call[w].no ELSE NoCall]
           /\ answeredBar = [v \in {w} |-> IF InCall(w) /\ call[w].answer # NoReply
                                THEN Said(call[w].no, call[w].answer[1], call[w].answer[2])
                                ELSE NoReply]
BY DEF callingBar, answeredBar

LEMMA SameBars ==
    ASSUME NEW w, Workers = {w}, InCall(w)' <=> InCall(w),
           InCall(w) => call'[w].no = call[w].no /\ call'[w].answer = call[w].answer
    PROVE  callingBar' = callingBar /\ answeredBar' = answeredBar
<1>1. Workers' = Workers
  OBVIOUS
<1>. QED  BY Bars, <1>1 DEF callingBar, answeredBar

\* The data of a read, as the server put them in.
Contents(c) == [i \in 1 .. c.size |-> [no |-> c.no, pos |-> HeaderWords(c.form) + i]]

\* A call that has read all of its reply returns the data the server put in it.
LEMMA DataIsWhole ==
    ASSUME NEW c \in Call, c.no \in Nat, c.form = "read", ReadAll(c), Len(c.words) >= HeaderWords(c.form),
           Len(c.words) <= ReplyWords(c.form, c.size),
           \A i \in 1 .. Len(c.words) : c.words[i] = WordAt(c, c.form, c.size, i)
    PROVE  DataIn(c) = Contents(c)
<1>. DEFINE L == Len(c.words)
            H == HeaderWords(c.form)
<1>1. c.form \in Replies /\ c.words \in Seq(Words) /\ c.size \in Sizes
  BY DEF Call
<1>2. L \in Nat /\ H \in Nat \ {0} /\ c.size \in Nat
  <2>1. L \in Nat
    BY <1>1
  <2>. QED  BY <1>1, <2>1, Bounds
<1>3. /\ DataIn(c) \in Seq(Words) /\ Len(DataIn(c)) = L - H
      /\ \A i \in 1 .. L - H : DataIn(c)[i] = c.words[H + i]
  <2>1. H + 1 \in Int /\ L \in Int /\ \A i \in H + 1 .. L : c.words[i] \in Words
    BY <1>1, <1>2
  <2>2. /\ DataIn(c) \in Seq(Words)
        /\ Len(DataIn(c)) = IF H + 1 <= L THEN L - (H + 1) + 1 ELSE 0
        /\ \A i \in 1 .. L - (H + 1) + 1 : DataIn(c)[i] = c.words[(H + 1) + i - 1]
    BY <2>1, SubSeqProperties DEF DataIn
  <2>3. L - (H + 1) + 1 = L - H /\ L >= H /\ \A i \in Nat : (H + 1) + i - 1 = H + i
    <3>1. L >= H
      OBVIOUS
    <3>. HIDE DEF L, H
    <3>. QED  BY <1>2, <3>1
  <2>. HIDE DEF L, H
  <2>4. Len(DataIn(c)) = L - H
    BY <1>2, <2>2, <2>3
  <2>5. ASSUME NEW i \in 1 .. L - H
        PROVE  DataIn(c)[i] = c.words[H + i]
    <3>1. i \in 1 .. L - (H + 1) + 1
      BY <2>3
    <3>2. (H + 1) + i - 1 = H + i
      BY <1>2
    <3>. QED  BY <2>2, <3>1, <3>2
  <2>. QED  BY <2>2, <2>4, <2>5
<1>4. L - H = c.size
  <2>1. L - H >= c.size
    BY <1>3 DEF ReadAll
  <2>2. L <= H + c.size
    BY DEF ReplyWords
  <2>. HIDE DEF L, H
  <2>. QED  BY <1>2, <2>1, <2>2
<1>5. ASSUME NEW i \in 1 .. c.size
      PROVE  DataIn(c)[i] = [no |-> c.no, pos |-> H + i]
  <2>1. H + i \in 1 .. L /\ H + i # 1
    <3>. HIDE DEF L, H
    <3>. QED  BY <1>2, <1>4
  <2>2. c.words[H + i] = WordAt(c, c.form, c.size, H + i)
    BY <2>1
  <2>. QED  BY <1>3, <1>4, <2>1, <2>2 DEF WordAt
<1>6. DataIn(c) = [i \in 1 .. c.size |-> DataIn(c)[i]]
  BY <1>3, <1>4
<1>. QED  BY <1>5, <1>6 DEF Contents

\* When a call goes on, the abstract call returns its answer or nothing happens.
LEMMA GoesOnImplements ==
    ASSUME IInv, NEW w \in Workers, Workers = {w}, Receives(w)
    PROVE  [Contract!Next]_(Contract!vars)
<1>1. Types /\ call \in [Workers -> Call]
  BY DEF IInv, Types
<1>2. ASSUME Stops
      PROVE  UNCHANGED Contract!vars
  BY <1>2, SameBars DEF Stops, InCall, Contract!vars
<1>3. ASSUME NEW c, Reads(c)', Same(call[w], c), InCall(w), Continue(w, c) \/ Waits(w, c)
      PROVE  [Contract!Next]_(Contract!vars)
  <2>. DEFINE b == call[w]
  <2>1. /\ c \in Call /\ c.answer = <<c.form, c.size>> /\ Bare(c)
        /\ OnItsWay(c, c.form, c.size)'
        /\ c.no = b.no /\ c.answer = b.answer
    BY <1>3 DEF Reads, Same
  <2>2. ASSUME NEW d, call' = [call EXCEPT ![w] = d], d.no = c.no,
               d.answer = c.answer, d.phase \in {"refill", "again"}, returned' = returned
        PROVE  UNCHANGED Contract!vars
    <3>1. call'[w] = d
      BY <1>1, <2>2
    <3>. QED  BY <1>3, <2>1, <2>2, <3>1, SameBars DEF InCall, Contract!vars
  <2>3. ASSUME Waits(w, c)
        PROVE  UNCHANGED Contract!vars
    <3>1. PICK d : d = [c EXCEPT !.phase = "again"]
      OBVIOUS
    <3>2. d.no = c.no /\ d.answer = c.answer /\ d.phase = "again"
      BY <2>1, <3>1 DEF Call
    <3>. QED  BY <2>2, <2>3, <3>1, <3>2 DEF Waits
  <2>4. ASSUME NEW now, call' = [call EXCEPT ![w] = [c EXCEPT !.phase = "refill", !.parts = now]],
               returned' = returned
        PROVE  UNCHANGED Contract!vars
    <3>1. PICK d : d = [c EXCEPT !.phase = "refill", !.parts = now]
      OBVIOUS
    <3>2. d.no = c.no /\ d.answer = c.answer /\ d.phase = "refill"
      BY <2>1, <3>1 DEF Call
    <3>. QED  BY <2>2, <2>4, <3>1, <3>2
  <2>5. ASSUME call' = call, returned' = returned
        PROVE  UNCHANGED Contract!vars
    BY <2>5, SameBars DEF InCall, Contract!vars
  <2>6. ASSUME Return(w, c), c.form = "read" => DataIn(c) = Contents(c)
        PROVE  Contract!Next
    <3>1. call'[w] = Idle /\ ~InCall(w)'
      BY <1>1, <2>6 DEF Return, InCall, Idle
    <3>2. answeredBar[w] = Said(c.no, c.form, c.size) /\ answeredBar[w] # NoReply
      <4>1. b.answer[1] = c.form /\ b.answer[2] = c.size /\ b.answer # NoReply
        BY <2>1 DEF NoReply
      <4>2. answeredBar[w] = Said(b.no, b.answer[1], b.answer[2])
        BY <1>3, <4>1, Bars
      <4>. QED  BY <2>1, <4>1, <4>2 DEF NoReply, Said
    <3>3. returned' = [returned EXCEPT ![w] = answeredBar[w]]
      BY <2>6, <3>2 DEF Return, Said, Contents
    <3>4. callingBar' = [callingBar EXCEPT ![w] = NoCall]
      BY <3>1, Bars DEF callingBar
    <3>5. answeredBar' = [answeredBar EXCEPT ![w] = NoReply]
      BY <3>1, Bars DEF answeredBar
    <3>6. Contract!Return(w)
      BY <3>2, <3>3, <3>4, <3>5 DEF Contract!Return
    <3>. QED  BY <3>6 DEF Contract!Next
  <2>7. CASE Continue(w, c)
    <3>. DEFINE now == PartsIn(c)
    <3>1. /\ now = Len(Header[c.form]) <=> Len(c.words) >= HeaderWords(c.form)
      BY <2>1, PartsInIs DEF Call
    <3>2. CASE now = Len(Header[c.form]) /\ ReadAll(c) /\ Return(w, c)
      <4>1. c.no \in Nat /\ c.words \in Seq(Words) /\ c.size \in Sizes /\ c.form \in Replies
        BY <2>1 DEF Call
      <4>2. Len(c.words) <= ReplyWords(c.form, c.size)
            /\ \A i \in 1 .. Len(c.words) : c.words[i] = WordAt(c, c.form, c.size, i)
        <5>1. Len(c.words) + Len(stream') <= ReplyWords(c.form, c.size)
              /\ \A i \in 1 .. Len(c.words) : c.words[i] = WordAt(c, c.form, c.size, i)
          BY <2>1 DEF OnItsWay
        <5>2. Len(c.words) \in Nat /\ Len(stream') \in Nat /\ ReplyWords(c.form, c.size) \in Nat
          <6>1. stream' \in Seq(Words) /\ HeaderWords(c.form) \in Nat /\ c.size \in Nat
            BY <1>3, <4>1, Bounds DEF Reads
          <6>. QED  BY <4>1, <6>1 DEF ReplyWords
        <5>. QED  BY <5>1, <5>2
      <4>. QED  BY <2>1, <2>6, <3>1, <3>2, <4>1, <4>2, DataIsWhole DEF Contents
    <3>3. CASE ~MayRefill(c, now) /\ EndsUnasserted(c, now) /\ Return(w, c)
      <4>1. c.form \in Replies /\ Len(Header[c.form]) \in Nat
        BY <2>1, Bounds DEF Call
      <4>2. now = Len(Header[c.form]) - 1 /\ Header[c.form][now + 1].ensured
        BY <3>3 DEF EndsUnasserted
      <4>3. now + 1 = Len(Header[c.form])
        BY <4>1, <4>2
      <4>4. c.form # "read"
        BY <4>2, <4>3, RpcSessionAssumption
      <4>. QED  BY <2>6, <3>3, <4>4
    <3>. QED  BY <2>4, <2>5, <2>7, <3>2, <3>3 DEF Continue
  <2>. QED  BY <1>3, <2>3, <2>7
<1>. QED  BY <1>2, <1>3 DEF Receives, GoesOn

\* With one thread at a time the calls implement remote calls: each returns the
\* server's answer to its own request, whole and in order, or does not return,
\* when the connection is closed or when the program ends.
THEOREM CallsImplement == OneThread => (Spec => Implements)
<1>. SUFFICES ASSUME OneThread
              PROVE  Spec => Implements
  OBVIOUS
<1>1. PICK w \in Workers : Workers = {w}
  BY DEF OneThread
<1>2. Init => Contract!Init
  <2>. SUFFICES ASSUME Init
                PROVE  Contract!Init
    OBVIOUS
  <2>1. call[w] = Idle /\ ~InCall(w)
    BY <1>1 DEF Init, InCall, Idle
  <2>. QED  BY <1>1, <2>1, Bars DEF Init, Contract!Init
<1>3. IInv /\ [Next]_vars => [Contract!Next]_(Contract!vars)
  <2>. SUFFICES ASSUME IInv, [Next]_vars
                PROVE  [Contract!Next]_(Contract!vars)
    OBVIOUS
  <2>0. call \in [Workers -> Call] /\ Asked(call[w])
    BY <1>1 DEF IInv, Types
  <2>1. CASE Work(w)
    <3>1. CASE InitCall(w)
      <4>1. PICK d : call' = [call EXCEPT ![w] = d] /\ d.phase = "built"
        <5>1. PICK kind \in Kinds :
                call' = [call EXCEPT ![w] = [Idle EXCEPT !.phase = "built", !.no = made + 1,
                                                        !.kind = kind, !.index = counter]]
          BY <3>1 DEF InitCall
        <5>2. [Idle EXCEPT !.phase = "built", !.no = made + 1,
                           !.kind = kind, !.index = counter].phase = "built"
          BY DEF Idle
        <5>. QED  BY <5>1, <5>2
      <4>2. call'[w] = d /\ ~InCall(w) /\ ~InCall(w)'
        BY <1>1, <2>0, <3>1, <4>1 DEF InCall, InitCall
      <4>. QED  BY <1>1, <3>1, <4>2, SameBars DEF InitCall, Contract!vars
    <3>2. CASE Send(w)
      <4>1. PICK b \in Call : b = call[w] /\ b.phase = "built"
        BY <2>0, <3>2 DEF Send
      <4>2. PICK d : d = [b EXCEPT !.phase = "sent"]
        OBVIOUS
      <4>3. d.phase = "sent" /\ d.no = b.no /\ d.answer = b.answer /\ b.answer = NoReply
            /\ b.no \in 1 .. made
        BY <2>0, <4>1, <4>2 DEF Call, Asked
      <4>4. call'[w] = d
        BY <2>0, <3>2, <4>1, <4>2 DEF Send
      <4>5. callingBar[w] = NoCall /\ callingBar' = [callingBar EXCEPT ![w] = b.no]
        BY <1>1, <4>1, <4>3, <4>4, Bars DEF InCall, callingBar
      <4>6. answeredBar' = answeredBar
        BY <1>1, <4>1, <4>3, <4>4, Bars DEF InCall, answeredBar
      <4>7. b.no \in 1 .. MaxCalls /\ b.no # NoCall
        BY <4>1, <4>3 DEF Call, NoCall
      <4>8. Contract!Invoke(w, b.no)
        BY <1>1, <3>2, <4>5, <4>6, <4>7 DEF Contract!Invoke, Send
      <4>. QED  BY <4>7, <4>8 DEF Contract!Next
    <3>3. CASE \E k \in 1 .. Len(stream) : RecvHeader(w, k) \/ Refill(w, k) \/ RecvAgain(w, k)
      BY <1>1, <3>3, RecvHeaderReceives, RefillReceives, RecvAgainReceives, GoesOnImplements
    <3>. QED  BY <2>1, <3>1, <3>2, <3>3 DEF Work
  <2>2. CASE Server
    <3>1. PICK r \in requests, form \in Replies, size \in Sizes : Serve(r, form, size)
      BY <2>2 DEF Server
    <3>2. PICK b \in Call : b = call[w] /\ b.phase = "sent" /\ b.answer = NoReply /\ b.no = r.no
      BY <2>0, <3>1 DEF Asked
    <3>3. PICK d : d = [b EXCEPT !.answer = <<form, size>>]
      OBVIOUS
    <3>4. d.phase = "sent" /\ d.no = b.no /\ d.answer = <<form, size>>
      BY <3>2, <3>3 DEF Call
    <3>5. call'[w] = d
      BY <3>1, <3>2, <3>3 DEF Serve
    <3>6. callingBar' = callingBar /\ callingBar[w] = b.no
      BY <1>1, <3>2, <3>4, <3>5, Bars DEF InCall, callingBar
    <3>7. d.answer[1] = form /\ d.answer[2] = size /\ d.answer # NoReply
      BY <3>4 DEF NoReply
    <3>8. answeredBar[w] = NoReply
          /\ answeredBar' = [answeredBar EXCEPT ![w] = Said(b.no, form, size)]
      BY <1>1, <3>2, <3>4, <3>5, <3>7, Bars DEF InCall, answeredBar
    <3>9. Said(b.no, form, size) \in AnswersTo(callingBar[w])
      BY <3>6 DEF AnswersTo, Call
    <3>10. b.no # NoCall
      BY <2>0, <3>2 DEF Asked, NoCall
    <3>11. Contract!Serve(w)
      BY <3>1, <3>6, <3>8, <3>9, <3>10 DEF Contract!Serve, Serve
    <3>. QED  BY <3>11 DEF Contract!Next
  <2>3. CASE Failure
    <3>1. CASE \E k \in 0 .. Len(stream) : Close(k)
      BY <1>1, <3>1, SameBars DEF Close, InCall, Contract!vars
    <3>2. CASE RecvFails(w)
      BY <1>1, <3>2, RecvFailsReceives, GoesOnImplements
    <3>. QED  BY <1>1, <2>3, <3>1, <3>2 DEF Failure
  <2>4. CASE UNCHANGED vars
    BY <1>1, <2>4, SameBars DEF vars, InCall, Contract!vars
  <2>. QED  BY <1>1, <2>1, <2>2, <2>3, <2>4 DEF Next
<1>. QED  BY <1>2, <1>3, Invariance, PTL DEF Spec, Implements, Contract!Spec
=============================================================================
