----------------------------- MODULE RpcSession -----------------------------
(***************************************************************************)
(* Remote calls on nfs_sock_fd: the threads FUSE runs the handlers on call *)
(* nfs_create, nfs_write and nfs_read, which build a call, send it, and    *)
(* read the reply through the buffer of an RPCDeserializer.                *)
(*                                                                         *)
(* The connection is a stream of 4-byte words.  A reply has one of the     *)
(* forms of its call: what was asked for, or a refusal.  It is a header,   *)
(* which holds all that the program reads part by part, and what is behind *)
(* it: the data of a read, or the attributes behind the error status of a  *)
(* refusal, at which nfs_read and nfs_write return.  Some parts are        *)
(* asserted to be in the buffer, for others EnsureSize refills the buffer  *)
(* once if they are not.  A word of a reply carries the call it answers,   *)
(* which the program cannot see, and its position.                         *)
(***************************************************************************)
EXTENDS Integers, Sequences, SequencesExt, FiniteSetsExt

CONSTANTS
    Workers,        \* the threads FUSE runs the handlers on
    XidPeriod,      \* sizeof(arr) in RandomXid, 20 in the code
    Xid,            \* Xid[i]: what RandomXid reads at index i.  Only the first
                    \* entries are in the array, the others are what follows it
    Forms,          \* Forms[kind]: the forms of replies to a call of that kind
    Header,         \* Header[form]: the parts of the header of such a reply, with
                    \* the word each ends at, and whether EnsureSize is called for it
    Refusals,       \* the forms behind whose header the program does not read
    MaxBuffer,      \* words in InlineStorage, 365 in the code
    Sizes,          \* bound: how many words there may be behind a header
    MaxCalls        \* bound: calls made

Kinds   == DOMAIN Forms
Replies == DOMAIN Header
HeaderWords(form) == Header[form][Len(Header[form])].end

ASSUME RpcSessionAssumption ==
    /\ XidPeriod \in Nat \ {0} /\ DOMAIN Xid = 0 .. XidPeriod - 1
    /\ \A form \in Replies :
          /\ Header[form] \in Seq([end : Nat \ {0}, ensured : BOOLEAN]) \ {<<>>}
          /\ ~Header[form][1].ensured
          /\ \A p \in 2 .. Len(Header[form]) : Header[form][p-1].end < Header[form][p].end
    /\ \A kind \in Kinds : Forms[kind] \in SUBSET Replies
    /\ Refusals \in SUBSET Replies
    \* nfs_read asserts that the length of the data is in the buffer.
    /\ "read" \in Kinds /\ "read" \in Replies \ Refusals
    /\ ~Header["read"][Len(Header["read"])].ensured
    /\ MaxBuffer \in Nat /\ \A form \in Replies : MaxBuffer >= HeaderWords(form)
    /\ 0 \in Sizes /\ \E most \in Sizes : most \in Nat /\ Sizes \subseteq 0 .. most
    /\ MaxCalls \in Nat

VARIABLES
    counter,        \* the static i of RandomXid
    made,           \* calls made; the last one's number
    call,           \* per worker, the call it is in and what it has read of it
    requests,       \* requests the server has not answered
    stream,         \* the words of replies that were not received
    closed,         \* the server has closed the connection
    returned,       \* <<form, data>>: what the last call of a worker returned
    status          \* "ok"; "behind", a call has left a part of its reply on
                    \* the connection; or why the program has ended: "mismatch"
                    \* of an xid, such a part taken for a header ("derailed"),
                    \* a part of a header too "short", or the connection "lost"

vars == <<counter, made, call, requests, stream, closed, returned, status>>
socket == <<requests, stream, closed>>

Running == status \in {"ok", "behind"}

NoCall == 0
NoReply == <<>>

\* A call: what it has received are words, of which the first parts of the
\* header are read, form and size are what the header says, and answer is what
\* the server has answered, for the properties.
Idle == [phase |-> "idle", no |-> NoCall, kind |-> "read", index |-> 0, form |-> "read",
         size |-> 0, left |-> 0, missing |-> 0, parts |-> 0, words |-> <<>>,
         answer |-> NoReply]

\* The words of a reply.  The first stands for the xid, the status, and how
\* much there is behind the header.
Reply(r, form, size) ==
    <<[no |-> r.no, pos |-> 1, xid |-> r.xid, form |-> form, size |-> size]>>
    \o [i \in 1 .. HeaderWords(form) + size - 1 |-> [no |-> r.no, pos |-> i + 1]]

Lower(a, b) == IF a < b THEN a ELSE b

\* recv waits for something to arrive and returns it, n words or fewer: how
\* many is up to the network.  A negative n is a huge unsigned one.
Receivable(n) == 1 .. IF n < 0 THEN Len(stream) ELSE Lower(n, Len(stream))
First(k) == SubSeq(stream, 1, k)
Rest(k)  == SubSeq(stream, k + 1, Len(stream))

\* recv returns 0 or -1, now and ever after.
AtEnd == closed /\ stream = <<>>

-----------------------------------------------------------------------------
Init ==
    /\ counter = 0 /\ made = 0
    /\ call = [w \in Workers |-> Idle]
    /\ requests = {} /\ stream = <<>> /\ closed = FALSE
    /\ returned = [w \in Workers |-> NoReply]
    /\ status = "ok"

\* RPCSerializer_InitCall.  RandomXid reads the counter; two threads may read
\* it before either has incremented it.
InitCall(w) ==
    /\ Running /\ call[w].phase = "idle"
    /\ made < MaxCalls
    /\ made' = made + 1
    /\ \E kind \in Kinds :
          call' = [call EXCEPT ![w] = [Idle EXCEPT !.phase = "built", !.no = made + 1,
                                                  !.kind = kind, !.index = counter]]
    /\ UNCHANGED <<counter, socket, returned, status>>

\* RPCSerializer_Send.  On a connection that is closed, SIGPIPE may end the
\* program.
Send(w) ==
    /\ Running /\ call[w].phase = "built"
    /\ counter' = (call[w].index + 1) % XidPeriod
    /\ requests' = IF closed THEN requests
                   ELSE requests \cup {[no |-> call[w].no, kind |-> call[w].kind,
                                        xid |-> Xid[call[w].index]]}
    /\ call' = [call EXCEPT ![w].phase = "sent"]
    /\ status' \in IF closed THEN {status, "lost"} ELSE {status}
    /\ UNCHANGED <<made, stream, closed, returned>>

\* The server answers requests in any order, or refuses what they ask for.
Serve(r, form, size) ==
    /\ r \in requests /\ form \in Forms[r.kind]
    /\ form \notin Refusals \cup {"read"} => size = 0
    /\ requests' = requests \ {r}
    /\ stream' = stream \o Reply(r, form, size)
    /\ call' = [w \in Workers |-> IF call[w].no = r.no
                                  THEN [call[w] EXCEPT !.answer = <<form, size>>]
                                  ELSE call[w]]
    /\ UNCHANGED <<counter, made, closed, returned, status>>

\* The server goes away: of what is on its way, some still arrives.
Close(k) ==
    /\ ~closed /\ closed' = TRUE
    /\ requests' = {}
    /\ stream' = First(k)
    /\ UNCHANGED <<counter, made, call, returned, status>>

-----------------------------------------------------------------------------
DataIn(c) == SubSeq(c.words, HeaderWords(c.form) + 1, Len(c.words))

\* Is all of the reply read that is read?  Behind the header that is the loop
\* over the buffer in nfs_read.
FirstIsAll(c) == TRUE                                   \* mutant of ReadAll
ReadAll(c) == c.form = "read" => Len(DataIn(c)) >= c.size

\* The parts of the header that the words received hold.
PartsIn(c) == Max({0} \cup {p \in DOMAIN Header[c.form] :
                               Header[c.form][p].end <= Len(c.words)})

\* The words of the buffer that are not read yet: none in the loop of
\* nfs_read, which has copied them.
Unread(c) == IF c.parts = Len(Header[c.form]) THEN 0
             ELSE Len(c.words) - (IF c.parts = 0 THEN 0 ELSE Header[c.form][c.parts].end)

Return(w, c) ==
    /\ call' = [call EXCEPT ![w] = Idle]
    /\ returned' = [returned EXCEPT ![w] =
                       <<c.form, IF c.form = "read" THEN DataIn(c) ELSE <<>> >>]

\* Does it refill the buffer now, having read the first parts of the header?
\* In the loop of nfs_read it does; for a part, when EnsureSize is called for
\* it and it has not refilled the buffer for it before.
MayRefill(c, parts) ==
    IF parts = Len(Header[c.form]) THEN TRUE
    ELSE parts > c.parts /\ Header[c.form][parts + 1].ensured

\* A part that is still too short is read beyond the end of the buffer, and
\* the assert of the next part fails.  None follows the last attributes of
\* nfs_create.
EndsUnasserted(c, parts) ==
    parts = Len(Header[c.form]) - 1 /\ Header[c.form][parts + 1].ensured

\* nfs_read and nfs_write return at an error status, whether the attributes
\* behind it have been received or not.
LeavesRest(c) == c.form \in Refusals /\ c.left > 0

\* What the worker does with call c when it has received something: it reads
\* all the parts of the header it has.
Continue(w, c) ==
    LET now  == PartsIn(c)
        done == now = Len(Header[c.form]) /\ ReadAll(c)
    IN  \/ /\ done
           /\ Return(w, c)
           /\ status' = IF LeavesRest(c) THEN "behind" ELSE status
        \/ /\ ~done /\ MayRefill(c, now)
           /\ call' = [call EXCEPT ![w] = [c EXCEPT !.phase = "refill", !.parts = now]]
           /\ UNCHANGED <<returned, status>>
        \/ /\ ~done /\ ~MayRefill(c, now) /\ EndsUnasserted(c, now)
           /\ Return(w, c)
           /\ status' = "behind"
        \/ /\ ~done /\ ~MayRefill(c, now) /\ ~EndsUnasserted(c, now)
           /\ status' = "short"
           /\ UNCHANGED <<call, returned>>

\* The size in the reply does not count the word it is in: FragmentSizeLeft
\* is what is left when that word and the others received are taken off.
LeftWithMark(c) == HeaderWords(c.form) + c.size - 1 - Len(c.words)  \* mutant of FragmentLeft
FragmentLeft(c) == HeaderWords(c.form) + c.size - Len(c.words)

\* RPCDeserializer_RecvHeader and the assert on the xid that follows it.
\* A word that is not the first of a reply is not taken for an xid.
HeaderMatches(w) == stream[1].pos = 1 /\ stream[1].xid = Xid[call[w].index]

RecvHeader(w, k) ==
    /\ Running /\ call[w].phase = "sent"
    /\ k \in Receivable(MaxBuffer)
    /\ IF HeaderMatches(w)
       THEN LET c == [call[w] EXCEPT !.form = stream[1].form, !.size = stream[1].size,
                                     !.words = First(k)]
            IN  Continue(w, [c EXCEPT !.left = FragmentLeft(c)])
       ELSE /\ status' = IF status = "ok" THEN "mismatch" ELSE "derailed"
            /\ UNCHANGED <<call, returned>>
    /\ stream' = Rest(k)
    /\ UNCHANGED <<counter, made, requests, closed>>

\* RPCDeserializer_RefillBuffer keeps the words of the buffer that are not
\* read: what it lacks after the first recv, up to the end of the reply, it
\* asks for once more.
MissingOfBuffer(n, left) == MaxBuffer - n               \* mutant of Missing
Missing(n, left) == Lower(MaxBuffer - n, left)

PutBefore(words, more) == more \o words                 \* mutant of PutBehind
PutBehind(words, more) == words \o more

Refill(w, k) ==
    /\ Running /\ call[w].phase = "refill"
    /\ k \in Receivable(MaxBuffer - Unread(call[w]))
    /\ LET left == call[w].left - k
           c    == [call[w] EXCEPT !.left = left, !.words = PutBehind(@, First(k)),
                                   !.missing = Missing(Unread(call[w]) + k, left)]
       IN  IF c.missing = 0 THEN Continue(w, c)
           ELSE /\ call' = [call EXCEPT ![w] = [c EXCEPT !.phase = "again"]]
                /\ UNCHANGED <<returned, status>>
    /\ stream' = Rest(k)
    /\ UNCHANGED <<counter, made, requests, closed>>

RecvAgain(w, k) ==
    /\ Running /\ call[w].phase = "again"
    /\ k \in Receivable(call[w].missing)
    /\ Continue(w, [call[w] EXCEPT !.left = @ - k, !.missing = 0, !.words = PutBehind(@, First(k))])
    /\ stream' = Rest(k)
    /\ UNCHANGED <<counter, made, requests, closed>>

\* recv returns 0 or -1.  With 0 nothing is added to the buffer, and the loop
\* of nfs_read turns for ever, which changes nothing.  With -1 an assert fails,
\* or it becomes the length of a copy.
RecvFails(w) ==
    /\ Running /\ AtEnd
    /\ \/ call[w].phase \in {"refill", "again"} /\ Continue(w, call[w])
       \/ /\ call[w].phase \in {"sent", "refill", "again"}
          /\ status' = "lost" /\ UNCHANGED <<call, returned>>
    /\ UNCHANGED <<counter, made, socket>>

Work(w) ==
    \/ InitCall(w) \/ Send(w)
    \/ \E k \in 1 .. Len(stream) : RecvHeader(w, k) \/ Refill(w, k) \/ RecvAgain(w, k)
Server  == \E r \in requests, form \in Replies, size \in Sizes : Serve(r, form, size)
Failure == (\E k \in 0 .. Len(stream) : Close(k)) \/ \E w \in Workers : RecvFails(w)

Next == Server \/ Failure \/ \E w \in Workers : Work(w)

Spec == Init /\ [][Next]_vars

\* A thread that can run is scheduled, the server answers, and what it sent
\* arrives: the connection is TCP.  Nothing is assumed of its being closed.
FairSpec == Spec /\ WF_vars(Server) /\ \A w \in Workers : WF_vars(Work(w))

-----------------------------------------------------------------------------
Phases == {"idle", "built", "sent", "refill", "again"}
MaxWords == Max(Sizes) + Max({HeaderWords(form) : form \in Replies})
Words == [no : 1 .. MaxCalls, pos : {1}, xid : {Xid[i] : i \in DOMAIN Xid},
          form : Replies, size : Sizes]
         \cup [no : 1 .. MaxCalls, pos : 2 .. MaxWords]

TypeOK ==
    /\ counter \in 0 .. XidPeriod - 1 /\ made \in 0 .. MaxCalls /\ closed \in BOOLEAN
    /\ \A w \in Workers :
          /\ call[w].phase \in Phases /\ call[w].no \in 0 .. made
          /\ call[w].kind \in Kinds /\ call[w].index \in 0 .. XidPeriod - 1
          /\ call[w].form \in Replies
          /\ call[w].size \in Sizes /\ call[w].left \in 0 .. MaxWords
          /\ call[w].missing \in 0 .. MaxBuffer
          /\ call[w].parts \in 0 .. Len(Header[call[w].form])
          /\ call[w].words \in Seq(Words)
          /\ returned[w] = NoReply \/ returned[w] \in Replies \X Seq(Words)
    /\ stream \in Seq(Words)
    /\ status \in {"ok", "behind", "mismatch", "derailed", "short", "lost"}

(***************************************************************************)
(* No thread reads a reply to another call: the xid asserted after every   *)
(* RecvHeader (nfs_common.inl:432, 517, 572) is that of the own call,      *)
(* "same xid as call" (notes.txt:29), unless one of two things has left    *)
(* the end of a reply on the connection: nfs_create gave up on its last    *)
(* attributes, or nfs_read or nfs_write returned at an error status that   *)
(* came without what is behind it (nfs_common.inl:527, 582).               *)
(***************************************************************************)
RepliesMatch == status # "mismatch"

(***************************************************************************)
(* A call leaves nothing behind on the connection, however its reply was   *)
(* cut up: when no thread is in a call, no reply and no part of one is on  *)
(* its way, unless nfs_create gave up on its last attributes, or nfs_read  *)
(* or nfs_write returned at an error status before the rest had arrived.   *)
(***************************************************************************)
QuietBetweenCalls ==
    (status = "ok" /\ \A w \in Workers : call[w].phase \in {"idle", "built"}) =>
        requests = {} /\ stream = <<>>

(***************************************************************************)
(* Every call returns, or ends the program, on a connection that stays up: *)
(* no recv waits for words that do not come, although the buffer asks for  *)
(* more than the reply holds.                                              *)
(***************************************************************************)
CallsReturn == \A w \in Workers :
    (call[w].phase # "idle") ~>
        (call[w].phase = "idle" \/ status \in {"short", "derailed"} \/ closed)

(***************************************************************************)
(* The calls implement remote calls that return the answer to their own    *)
(* request: whether it was refused, and if not, all the data the server    *)
(* put in it, in order.  A call begins when it is sent.  This holds        *)
(* however the header and the data are cut up, behind a refusal, and when  *)
(* the connection closes in the middle of a reply: then the call does not  *)
(* return.                                                                 *)
(***************************************************************************)
InCall(w) == call[w].phase \in {"sent", "refill", "again"}

callingBar == [w \in Workers |-> IF InCall(w) THEN call[w].no ELSE NoCall]

\* What the reply to a call says, with the data in order.
Said(no, form, size) ==
    <<form, IF form = "read" THEN [i \in 1 .. size |-> [no |-> no, pos |-> HeaderWords(form) + i]]
                             ELSE <<>> >>

answeredBar == [w \in Workers |->
    LET c == call[w]
    IN  IF InCall(w) /\ c.answer # NoReply THEN Said(c.no, c.answer[1], c.answer[2])
                                         ELSE NoReply]

AnswersTo(no) == {Said(no, form, size) : form \in Replies, size \in Sizes}

Contract == INSTANCE RemoteCall
              WITH Calls <- 1 .. MaxCalls, Answer <- AnswersTo, NoAnswer <- NoReply,
                   calling <- callingBar, answered <- answeredBar
Implements == Contract!Spec
=============================================================================
