-------------------------------- MODULE Wire --------------------------------
(***************************************************************************)
(* How a push worker reads what the server answers                         *)
(* (src/src/nextcloud/push.rs, push_protocol.rs).  The client speaks HTTP  *)
(* itself: it asks for the capabilities, then for a pre-auth token, then   *)
(* upgrades a third connection to a websocket and listens.  What the       *)
(* server sends arrives in pieces of any length; the client finds the end  *)
(* of the head, takes the body by its length, by chunks or up to the end   *)
(* of the connection, and hands the websocket what it read too much.       *)
(*                                                                         *)
(* A byte of the model is a token: what a line says, a line end's CR or    *)
(* LF, or a piece of a document.  Push has the channel around the worker,  *)
(* where all of this is one step; here there is one worker.                *)
(***************************************************************************)
EXTENDS Naturals, FiniteSets, Sequences, SequencesExt

CONSTANTS
    WireWorlds,     \* what a server answers to the three requests
    Hosts,          \* number of addresses the server's name resolves to
    ReadSize,       \* what one read takes at most (4096 bytes in the code)
    HeadLimit,      \* 128 KiB in the code
    MaxMischief     \* bound on what goes wrong in one life

ASSUME WireAssumption == {Hosts, ReadSize, HeadLimit, MaxMischief} \subseteq Nat

VARIABLES
    wire,       \* the connection: what has arrived and what is to come
    worker,     \* what the worker has learnt and told the main thread
    answering,  \* the server's answers
    mischief    \* what has gone wrong so far

wireVars == <<wire, worker, answering, mischief>>

-----------------------------------------------------------------------------
(* What a server sends.                                                    *)

Byte(kind, n) == [kind |-> kind, n |-> n]
Of(kind) == Byte(kind, 0)
CR == Of("cr")
LF == Of("lf")
LineEnd == <<CR, LF>>
Line(b) == <<b>> \o LineEnd
Lines(bs) == FlattenSeq([i \in DOMAIN bs |-> Line(bs[i])])

\* A chunk is its size in a line, its bytes and a line end.
Chunk(bs) == Line(Byte("size", Len(bs))) \o bs \o LineEnd

\* A document in two chunks, with a trailer after the last one.
Chunked(doc) ==
    Chunk(SubSeq(doc, 1, 2)) \o Chunk(SubSeq(doc, 3, Len(doc)))
        \o Line(Byte("size", 0)) \o Line(Of("trailer")) \o LineEnd

\* What follows the head, by the way the answer is framed.
Framed(answer) == IF answer.way = "chunks" THEN Chunked(answer.doc)
                  ELSE answer.doc \o answer.more

FramingLine(answer) ==
    CASE answer.way = "length" -> <<Byte("content-length", Len(answer.doc))>>
      [] answer.way = "chunks" -> <<Of("transfer-encoding")>>
      [] OTHER -> <<>>

HeadOf(answer) ==
    Lines(<<answer.status>> \o answer.headers \o FramingLine(answer)) \o LineEnd
Stream(answer) == HeadOf(answer) \o Framed(answer)

-----------------------------------------------------------------------------
(* What the client makes of it.                                            *)

\* find_subsequence: where the needle begins, 0 if it does not occur.
FindIn(bs, needle) ==
    LET At == {i \in 1..Len(bs) : IsPrefix(needle, SubSeq(bs, i, Len(bs)))}
    IN  IF At = {} THEN 0 ELSE CHOOSE i \in At : \A j \in At : i <= j

BlankLine == LineEnd \o LineEnd
First(bs, n) == SubSeq(bs, 1, n)
After(bs, n) == SubSeq(bs, n + 1, Len(bs))

\* parse_http_head: the status line, then every line with a colon in it.
NoHead == [status |-> 0, headers |-> <<>>]
ParsedHead(head) ==
    LET said == SelectSeq(head, LAMBDA b : b \notin {CR, LF})
    IN  [status |-> IF said[1].kind = "status" THEN said[1].n ELSE 0,
         headers |-> SelectSeq(Tail(said), LAMBDA b : b.kind # "no-colon")]

HeaderKinds(head) == {b.kind : b \in Range(head.headers)}

\* The first content-length there is, if it is a number; nothing otherwise.
Lengths(head) ==
    LET all == SelectSeq(head.headers,
                         LAMBDA b : b.kind \in {"content-length", "bad-length"})
    IN  IF all # <<>> /\ Head(all).kind = "content-length" THEN {Head(all).n} ELSE {}

\* verify_websocket_handshake: one token of Upgrade and the answer to the key.
TheKey == 1
Upgraded(head) ==
    /\ head.status = 101
    /\ HeaderKinds(head) \cap {"upgrade", "upgrade-among-others"} # {}
    /\ Byte("accept", TheKey) \in Range(head.headers)

Fine(status) == status \in 200..299

\* A JSON document of the model is a word in braces, with white space anywhere.
Words(doc) == SelectSeq(doc, LAMBDA b : b \notin {CR, LF})
IsJson(doc) == Len(Words(doc)) = 3 /\ Words(doc)[1] = Of("{") /\ Words(doc)[3] = Of("}")
Word(doc) == Words(doc)[2].kind

\* parse_push_capability and validate_push_transport: the URLs stand in an
\* object "endpoints" or in notify_push itself; a secure server may not send
\* its clients to an insecure socket.
Capability(doc, secure) ==
    CASE ~IsJson(doc) -> "discover_failed"
      [] IsJson(doc) /\ Word(doc) = "endpoints-is-a-list" -> "discover_failed"
      [] IsJson(doc) /\ Word(doc) \in {"no-push", "push-is-a-list", "empty-url"} -> "unsupported"
      [] IsJson(doc) /\ Word(doc) = "http" -> "discover_failed"
      [] IsJson(doc) /\ Word(doc) = "ws" /\ secure -> "discover_failed"
      [] OTHER -> "usable"

\* parse_pre_auth_token: the token of a JSON document, or the text as it is.
Token(doc) ==
    IF doc # <<>> /\ Head(doc) = Of("{")
    THEN IsJson(doc) /\ Word(doc) \in {"token", "ocs-token"}
    ELSE Words(doc) # <<>>

\* What a message of the socket makes of the worker's reports; a list of file
\* ids that is none counts as no list (issue #183).
Reports(message) ==
    CASE message.kind = "authenticated" -> <<Of("Authenticated")>>
      [] message.kind = "notify_file" -> <<Byte("FileNotification", 0)>>
      [] message.kind = "notify_file_id" -> <<Byte("FileNotification", message.n)>>
      [] message.kind = "notify_notification" -> <<Of("Notification")>>
      [] message.kind = "invalid-credentials" -> <<Of("AuthRequired")>>
      [] OTHER -> <<>>
ReportsOf(messages) == FlattenSeq([i \in DOMAIN messages |-> Reports(messages[i])])

-----------------------------------------------------------------------------
(* The three requests.                                                     *)

\* A fresh connection for every request; the server ends it after its answer,
\* as "Connection: close" asks, and leaves a websocket open.
Connection(step) ==
    [step |-> step, stage |-> "connect", host |-> 1, arriving |-> <<>>,
     ended |-> step # "socket", buffer |-> <<>>, head |-> NoHead, body |-> <<>>, left |-> 0]

WireInit ==
    /\ answering \in WireWorlds
    /\ wire = Connection("capabilities")
    /\ worker = [verdict |-> "none", token |-> FALSE, halted |-> FALSE, heard |-> <<>>]
    /\ mischief = {}

Answer == answering[wire.step]

Told(verdict) ==
    /\ worker' = [worker EXCEPT !.verdict = verdict]
    /\ wire' = [wire EXCEPT !.stage = "over"]

NextRequest(step) == wire' = Connection(step) /\ UNCHANGED worker

\* The worker does without a token that it could not get.
RequestLost ==
    IF wire.step = "pre_auth" THEN NextRequest("socket") ELSE Told("discover_failed")

Moves(connection) == wire' = connection /\ UNCHANGED worker

GoesWrong(kind) ==
    /\ kind \notin mischief /\ Cardinality(mischief) < MaxMischief
    /\ mischief' = mischief \cup {kind} /\ UNCHANGED answering

AllWell == UNCHANGED <<answering, mischief>>

\* connect_stream: one address after the other; the stop is looked at between
\* them.  A name without an address is as one whose addresses all refuse; a
\* handshake that fails is not tried with the next address.
HostRefuses ==
    /\ wire.stage = "connect" /\ ~worker.halted
    /\ IF wire.host < Hosts THEN Moves([wire EXCEPT !.host = @ + 1]) ELSE RequestLost
    /\ IF "unreachable" \in mischief THEN AllWell ELSE GoesWrong("unreachable")
HandshakeFails ==
    /\ wire.stage = "connect" /\ ~worker.halted /\ answering.secure
    /\ RequestLost /\ GoesWrong("handshake")
StreamOpen ==
    /\ wire.stage = "connect"
    /\ IF worker.halted THEN RequestLost
       ELSE Moves([wire EXCEPT !.stage = "head", !.arriving = Stream(Answer)])
    /\ AllWell

-----------------------------------------------------------------------------
(* Reading.                                                                *)

\* Whether the client reads on: take_line asks for one byte, whatever is there.
ToRead ==
    CASE wire.stage = "head" ->
             FindIn(wire.buffer, BlankLine) = 0 /\ Len(wire.buffer) <= HeadLimit
      [] wire.stage = "length" -> Len(wire.buffer) < wire.left
      [] wire.stage \in {"size", "trailers", "listen"} -> wire.buffer = <<>>
      [] wire.stage = "chunk" -> Len(wire.buffer) < wire.left + 2
      [] OTHER -> wire.stage = "rest"

Read(n) ==
    /\ ToRead /\ ~worker.halted /\ n <= Len(wire.arriving)
    /\ Moves([wire EXCEPT !.buffer = @ \o First(wire.arriving, n),
                          !.arriving = After(@, n)])
    /\ AllWell

\* A read of nothing is the end of the connection.
EndRead ==
    /\ ToRead /\ ~worker.halted /\ wire.ended /\ wire.arriving = <<>>
    /\ IF wire.stage = "rest" THEN Moves([wire EXCEPT !.stage = "read", !.body = wire.buffer])
       ELSE IF wire.stage = "listen" THEN Told("closed")
       ELSE RequestLost
    /\ AllWell

\* The read fails, or nothing came for the time of the heartbeat.
ReadBreaks ==
    /\ ToRead /\ ~worker.halted
    /\ IF wire.stage = "listen" THEN Told("closed") ELSE RequestLost
    /\ GoesWrong("reset")

\* read_retry looks at the stop before every read, the listening loop at every
\* turn.
StopSeen ==
    /\ worker.halted
    /\ \/ ToRead /\ wire.stage # "listen" /\ RequestLost
       \/ wire.stage = "listen" /\ Told("stopped")
    /\ AllWell

-----------------------------------------------------------------------------
(* Taking the answer apart.                                                *)

HeadRead ==
    LET blank == FindIn(wire.buffer, BlankLine)
        head == ParsedHead(First(wire.buffer, blank + 3))
        Goes(stage, left) ==
            Moves([wire EXCEPT !.stage = stage, !.head = head, !.left = left,
                               !.buffer = After(@, blank + 3)])
    IN  /\ wire.stage = "head" /\ blank # 0
        /\ \/ /\ \/ head.status = 0
                 \/ wire.step = "socket" /\ ~Upgraded(head)
              /\ RequestLost
           \/ wire.step = "socket" /\ Upgraded(head) /\ Goes("listen", 0)
           \/ /\ wire.step # "socket" /\ head.status # 0
              /\ \/ \E n \in Lengths(head) : Goes("length", n)
                 \/ /\ Lengths(head) = {}
                    /\ Goes(IF "transfer-encoding" \in HeaderKinds(head) THEN "size"
                                                                        ELSE "rest", 0)
        /\ AllWell

HeadTooLong ==
    /\ wire.stage = "head" /\ ~ToRead /\ FindIn(wire.buffer, BlankLine) = 0
    /\ RequestLost /\ AllWell

LengthRead ==
    /\ wire.stage = "length" /\ ~ToRead
    /\ Moves([wire EXCEPT !.stage = "read", !.body = First(wire.buffer, wire.left)])
    /\ AllWell

\* The credentials go out as soon as the socket is there.
SendFails == wire.stage = "listen" /\ worker.heard = <<>> /\ Told("discover_failed")
             /\ GoesWrong("unsent")

SizeRead ==
    LET end == FindIn(wire.buffer, LineEnd)
        line == First(wire.buffer, end - 1)
        rest == After(wire.buffer, end + 1)
    IN  /\ wire.stage = "size" /\ end # 0
        /\ IF end # 2 \/ line[1].kind # "size" THEN RequestLost
           ELSE Moves([wire EXCEPT !.stage = IF line[1].n = 0 THEN "trailers" ELSE "chunk",
                                   !.left = line[1].n, !.buffer = rest])
        /\ AllWell

\* What a chunk takes from the buffer: its bytes and a line end.
ChunkAndLineEnd(size) == size + 2

ChunkRead ==
    /\ wire.stage = "chunk" /\ ~ToRead
    /\ Moves([wire EXCEPT !.stage = "size", !.body = @ \o First(wire.buffer, wire.left),
                          !.buffer = After(@, ChunkAndLineEnd(wire.left))])
    /\ AllWell

TrailerRead ==
    LET end == FindIn(wire.buffer, LineEnd)
    IN  /\ wire.stage = "trailers" /\ end # 0
        /\ Moves([wire EXCEPT !.stage = IF end = 1 THEN "read" ELSE @,
                              !.buffer = After(@, end + 1)])
        /\ AllWell

-----------------------------------------------------------------------------
(* What the worker concludes.                                              *)

CapabilitiesTaken ==
    LET outcome == Capability(wire.body, answering.secure)
    IN  /\ wire.stage = "read" /\ wire.step = "capabilities"
        /\ \/ wire.head.status \in {401, 403} /\ Told("auth_required")
           \/ /\ wire.head.status \notin {401, 403}
              /\ \/ ~Fine(wire.head.status) /\ Told("discover_failed")
                 \/ Fine(wire.head.status) /\ outcome # "usable" /\ Told(outcome)
                 \/ /\ Fine(wire.head.status) /\ outcome = "usable"
                    /\ NextRequest(IF Word(wire.body) = "wss-preauth" /\ ~answering.forced
                                   THEN "pre_auth" ELSE "socket")
        /\ AllWell

TokenTaken ==
    /\ wire.stage = "read" /\ wire.step = "pre_auth"
    /\ worker' = [worker EXCEPT !.token = Fine(wire.head.status) /\ Token(wire.body)]
    /\ wire' = Connection("socket")
    /\ AllWell

MessageRead ==
    /\ wire.stage = "listen" /\ wire.buffer # <<>> /\ ~worker.halted
    /\ worker' = [worker EXCEPT !.heard = @ \o Reports(Head(wire.buffer))]
    /\ wire' = [wire EXCEPT !.buffer = Tail(@)]
    /\ AllWell

-----------------------------------------------------------------------------
(* What goes wrong around it.                                              *)

\* The server or the network ends the connection before its time.
ServerDrops ==
    /\ wire.stage \notin {"connect", "read", "over"}
    /\ wire.arriving # <<>> \/ ~wire.ended
    /\ Moves([wire EXCEPT !.arriving = <<>>, !.ended = TRUE])
    /\ GoesWrong("dropped")

\* disconnect, on the main thread.
StopWorker ==
    /\ wire.stage # "over"
    /\ worker' = [worker EXCEPT !.halted = TRUE] /\ UNCHANGED wire
    /\ GoesWrong("stopped")

WireRuns ==
    \/ StreamOpen \/ EndRead \/ StopSeen \/ HeadRead \/ HeadTooLong \/ LengthRead
    \/ SizeRead \/ ChunkRead \/ TrailerRead \/ CapabilitiesTaken \/ TokenTaken \/ MessageRead
    \/ \E n \in 1..ReadSize : Read(n)

WireNext ==
    \/ WireRuns
    \/ HostRefuses \/ HandshakeFails \/ ReadBreaks \/ SendFails \/ ServerDrops \/ StopWorker

WireSpec == WireInit /\ [][WireNext]_wireVars

-----------------------------------------------------------------------------
\* The answer is one the client can read and means yes.
InOrder(answer) == /\ answer.status.kind = "status" /\ Len(HeadOf(answer)) <= HeadLimit
                   /\ Fine(answer.status.n)
Usable ==
    /\ InOrder(answering.capabilities)
    /\ Capability(answering.capabilities.doc, answering.secure) = "usable"
    /\ Len(HeadOf(answering.socket)) <= HeadLimit
    /\ Upgraded(ParsedHead(HeadOf(answering.socket)))

\* However the stream is cut into reads: the body is the document the server
\* sent (or the beginning of it, if only the end of the connection ends it and
\* comes too soon), no message that came with the head is lost, and what the
\* worker tells the client follows from the answers or from something that went
\* wrong on the way.
AnswersAreWhole ==
    /\ wire.stage = "read" =>
           \/ wire.body = Answer.doc
           \/ "dropped" \in mischief /\ Answer.way = "close" /\ IsPrefix(wire.body, Answer.doc)
    /\ wire.stage = "listen" =>
           LET known == worker.heard \o ReportsOf(wire.buffer \o wire.arriving)
           IN  IF "dropped" \in mischief THEN IsPrefix(known, ReportsOf(Answer.doc))
                                         ELSE known = ReportsOf(Answer.doc)
    /\ worker.verdict = "discover_failed" => mischief # {} \/ ~Usable
    /\ worker.verdict = "auth_required" => answering.capabilities.status.n \in {401, 403}
    /\ worker.verdict = "unsupported" =>
           Capability(answering.capabilities.doc, answering.secure) = "unsupported"
    /\ worker.token => ~answering.forced /\ Token(answering.pre_auth.doc)

\* take_line asks for one byte when the line is not all there, and is content
\* with the one it has: it looks again and again and never reads, nor does it
\* look at the stop.
Spins ==
    /\ wire.stage \in {"size", "trailers"} /\ wire.buffer # <<>>
    /\ FindIn(wire.buffer, LineEnd) = 0
=============================================================================
