--------------------------- MODULE HttpConnection ---------------------------
(***************************************************************************)
(* HttpConnection (src/HttpConnection.cpp) on one TCP connection, with the  *)
(* routes of LogicSystem and what the handlers of Service do to the         *)
(* response.  The handlers' work on files is DataManager's.                 *)
(*                                                                          *)
(* Start posts an async_read; its completion runs HandleReq, which posts    *)
(* one async_write or more; the completion of a write posts the next read.  *)
(* Two threads run the completions, and nothing serialises those of one     *)
(* connection: only the number of posted operations keeps them apart.       *)
(***************************************************************************)
EXTENDS Integers, Sequences, SequencesExt

CONSTANTS
    Requests,     \* the kinds of request the client sends
    MaxRequests,  \* bound of the model: requests in a behaviour
    MaxReplies    \* bound of the model: replies of a history, parts of a body

(* The kinds of request: a target or method of its own outcome each. *)
Kinds == {"options", "put", "unknown", "test", "list", "upload", "badupload",
          "badname", "emptyupload", "failupload", "bigupload", "download", "nofile"}

ASSUME HttpAssumption ==
    /\ Requests \subseteq Kinds
    /\ MaxRequests \in Nat /\ MaxReplies \in Nat

VARIABLES
    client,    \* the client's side: "open", "half" (it will send no more), "closed"
    sent,      \* history: the requests it has sent
    wire,      \* the fragments of requests on their way to the server
    reads,     \* the posted async_reads, oldest first, and how far their
               \* parsers are: "fresh", "head", or "torn" (bytes were dropped)
    request,   \* _request: a kind, or "none" after its reset
    handling,  \* completed reads whose HandleReq has not run yet
    body,      \* _response.body(): the kinds of request that wrote to it
    writes,    \* the posted async_writes, oldest first, with their responses
    own,       \* history: how many responses handlers have written themselves
    got        \* history: the responses that the client has received

vars == <<client, sent, wire, reads, request, handling, body, writes, own, got>>

AppendUpTo(s, x) == IF Len(s) < MaxReplies THEN Append(s, x) ELSE s

Init ==
    /\ client = "open"
    /\ sent = <<>> /\ wire = <<>>
    /\ reads = <<"fresh">>
    /\ request = "none"
    /\ handling = 0
    /\ body = <<>>
    /\ writes = <<>>
    /\ own = 0
    /\ got = <<>>

-----------------------------------------------------------------------------
(* The client sends a request once the one before it has been answered.     *)

ClientSend(k) ==
    /\ client = "open"
    /\ Len(sent) < MaxRequests /\ Len(got) >= Len(sent)
    /\ sent' = Append(sent, k)
    /\ wire' = wire \o <<"head", k>>
    /\ UNCHANGED <<client, reads, request, handling, body, writes, own, got>>

ClientShutdown ==
    /\ client = "open"
    /\ client' = "half"
    /\ UNCHANGED <<sent, wire, reads, request, handling, body, writes, own, got>>

ClientClose ==
    /\ client # "closed"
    /\ client' = "closed" /\ wire' = <<>>
    /\ UNCHANGED <<sent, reads, request, handling, body, writes, own, got>>

-----------------------------------------------------------------------------
(* async_read *)

(* A fragment goes to the oldest read.  One that is not enough for the      *)
(* parser stays with it, and the read queues for more.                      *)
ReadHead ==
    /\ reads # <<>> /\ wire # <<>> /\ Head(wire) = "head"
    /\ wire' = Tail(wire)
    /\ reads' = Append(Tail(reads), IF Head(reads) = "fresh" THEN "head" ELSE "torn")
    /\ UNCHANGED <<client, sent, request, handling, body, writes, own, got>>

(* The rest of a request completes the read: with a request if its parser   *)
(* has seen the head and the body is within Beast's limit of 1 MB, else     *)
(* with an error, which leaves _request as it is.  The body of a too long   *)
(* request stays on the wire and fails the next reads as well, piece by     *)
(* piece.                                                                   *)
ReadRest ==
    /\ reads # <<>> /\ wire # <<>> /\ Head(wire) # "head"
    /\ request' = IF Head(reads) = "head" /\ Head(wire) # "bigupload"
                  THEN Head(wire) ELSE request
    /\ \/ wire' = Tail(wire)
       \/ Head(wire) = "bigupload" /\ wire' = wire
    /\ reads' = Tail(reads)
    /\ handling' = handling + 1
    /\ UNCHANGED <<client, sent, body, writes, own, got>>

(* End of stream, or a reset connection. *)
ReadEof ==
    /\ reads # <<>> /\ wire = <<>> /\ client # "open"
    /\ reads' = Tail(reads)
    /\ handling' = handling + 1
    /\ UNCHANGED <<client, sent, wire, request, body, writes, own, got>>

-----------------------------------------------------------------------------
(* HandleReq *)

(* What the handlers do with the response: the status they set, if any, and *)
(* whether they call WriteResponse themselves.                              *)
Handlers ==
    [test        |-> [status |-> "unset", writes |-> FALSE],
     list        |-> [status |-> "ok", writes |-> TRUE],
     upload      |-> [status |-> "ok", writes |-> TRUE],
     badupload   |-> [status |-> "bad_request", writes |-> FALSE],
     emptyupload |-> [status |-> "unset", writes |-> FALSE],
     failupload  |-> [status |-> "internal_server_error", writes |-> TRUE],
     download    |-> [status |-> "ok", writes |-> TRUE],
     nofile      |-> [status |-> "not_found", writes |-> TRUE]]

(* The requests that a route of LogicSystem takes to a handler. *)
Routed(k) == k \in DOMAIN Handlers

(* The requests that leave the body of the response alone. *)
Silent == {"options", "emptyupload"}

WriteResponse(k, s, b) == [to |-> k, status |-> s, body |-> b]

(* The status HandleReq sets: a request that reached a handler is "ok"       *)
(* whatever the handler set.                                                *)
FinalStatus(k) ==
    IF k = "options" \/ Routed(k) THEN "ok"
    ELSE IF k = "unknown" THEN "not_found" ELSE "method_not_allowed"

WritesItself(k) == Routed(k) /\ Handlers[k].writes

(* The response that a handler writes itself. *)
OwnResponse(k, b) ==
    IF WritesItself(k)
    THEN <<WriteResponse(k, Handlers[k].status, b)>> ELSE <<>>

(* Bugs: HandleReq writes the response twice; it sets no status.            *)
ResponsesTwice(k, b) ==
    LET last == WriteResponse(k, FinalStatus(k), b)
    IN OwnResponse(k, b) \o <<last, last>>
ResponsesUnset(k, b) ==
    LET s == IF Routed(k) THEN Handlers[k].status ELSE FinalStatus(k)
    IN OwnResponse(k, b) \o <<WriteResponse(k, s, b)>>

(* The handler's own response, and then HandleReq's. *)
Responses(k, b) ==
    OwnResponse(k, b) \o <<WriteResponse(k, FinalStatus(k), b)>>

(* The requests whose handler throws: an upload with a Filename header that *)
(* is not base64.                                                           *)
Throwing == {"badname"}

(* _request is what it is now, also if the read ended with an error; the    *)
(* error code is ignored.  No one clears the body.                          *)
HandleReq ==
    /\ handling > 0 /\ request \notin Throwing
    /\ handling' = handling - 1
    /\ body' = IF request \in Silent THEN body ELSE AppendUpTo(body, request)
    /\ writes' = writes \o Responses(request, body')
    /\ own' = own + Len(OwnResponse(request, body'))
    /\ UNCHANGED <<client, sent, wire, reads, request, got>>

(* The completion of the read catches the exception; nothing is written and *)
(* nothing is read after it.                                                *)
HandleThrow ==
    /\ handling > 0 /\ request \in Throwing
    /\ handling' = handling - 1
    /\ UNCHANGED <<client, sent, wire, reads, request, body, writes, own, got>>

-----------------------------------------------------------------------------
(* async_write *)

(* The completion resets _request and drops what _buffer holds: if that was *)
(* a part of a line, the read that waits for its rest cannot parse it.      *)
Dropped(rs) ==
    {qs \in [DOMAIN rs -> {"fresh", "head", "torn"}] :
        \A i \in DOMAIN rs : rs[i] # qs[i] => rs[i] = "head" /\ qs[i] = "torn"}

(* Bugs: the next read is posted only after an "ok"; two are posted.        *)
WriteDoneStops ==
    /\ writes # <<>>
    /\ got' = IF client = "closed" THEN got ELSE AppendUpTo(got, Head(writes))
    /\ request' = "none"
    /\ reads' = IF Head(writes).status = "ok" THEN Append(reads, "fresh") ELSE reads
    /\ writes' = Tail(writes)
    /\ UNCHANGED <<client, sent, wire, handling, body, own>>
WriteDoneTwice ==
    /\ writes # <<>>
    /\ got' = IF client = "closed" THEN got ELSE AppendUpTo(got, Head(writes))
    /\ request' = "none"
    /\ reads' = reads \o <<"fresh", "fresh">>
    /\ writes' = Tail(writes)
    /\ UNCHANGED <<client, sent, wire, handling, body, own>>

WriteDone ==
    /\ writes # <<>>
    /\ got' = IF client = "closed" THEN got ELSE AppendUpTo(got, Head(writes))
    /\ request' = "none"
    /\ \E rs \in Dropped(reads) : reads' = Append(rs, "fresh")
    /\ writes' = Tail(writes)
    /\ UNCHANGED <<client, sent, wire, handling, body, own>>

(* A bug: the connection reads on after a failed write. *)
WriteFailsGoesOn ==
    /\ writes # <<>> /\ client = "closed"
    /\ writes' = Tail(writes)
    /\ reads' = Append(reads, "fresh")
    /\ UNCHANGED <<client, sent, wire, request, handling, body, own, got>>

(* The peer has reset the connection: the operation ends, and with the last *)
(* one the connection.                                                      *)
WriteFails ==
    /\ writes # <<>> /\ client = "closed"
    /\ writes' = Tail(writes)
    /\ UNCHANGED <<client, sent, wire, reads, request, handling, body, own, got>>

Gone == reads = <<>> /\ writes = <<>> /\ handling = 0

Closed == Gone /\ UNCHANGED vars

Server ==
    \/ ReadHead \/ ReadRest \/ ReadEof
    \/ HandleReq \/ HandleThrow
    \/ WriteDone \/ WriteFails

Next ==
    \/ \E k \in Requests : ClientSend(k)
    \/ ClientShutdown
    \/ ClientClose
    \/ Server
    \/ Closed

Spec == Init /\ [][Next]_vars

(* The io_context runs what is ready.  A peer that has closed does answer   *)
(* with a reset in the end, however often a write went through before.      *)
Fairness == WF_vars(Server) /\ SF_vars(WriteFails)

FairSpec == Spec /\ Fairness

-----------------------------------------------------------------------------
(* Properties *)

Reply == [to : Kinds \cup {"none"}, status : {"ok", "bad_request", "not_found",
          "internal_server_error", "method_not_allowed"},
          body : Seq(Kinds \cup {"none"})]

(* Every variable has its type; nothing is on the wire of a client that has *)
(* closed.                                                                  *)
TypeOK ==
    /\ client \in {"open", "half", "closed"}
    /\ sent \in Seq(Requests)
    /\ wire \in Seq({"head"} \cup Requests)
    /\ client = "closed" => wire = <<>>
    /\ reads \in Seq({"fresh", "head", "torn"})
    /\ request \in Kinds \cup {"none"}
    /\ handling \in Nat /\ own \in Nat
    /\ body \in Seq(Kinds \cup {"none"})
    /\ writes \in Seq(Reply) /\ got \in Seq(Reply)

(* A connection starts with one operation; each response that a handler     *)
(* writes itself adds one for good, and nothing else does.  Until then its  *)
(* buffer, request and response are used by one thread at a time, although  *)
(* two run the completions.                                                 *)
OperationsCounted == Len(reads) + handling + Len(writes) <= 1 + own

(* HttpConnection.cpp:222, for a client that stays and sends nothing too    *)
(* long to be read: it gets no more responses than it has sent requests and *)
(* handlers have written themselves; and the n-th response answers the n-th *)
(* request, up to and with the first request whose handler writes itself.   *)
RepliesInTurn ==
    client = "open" /\ ~Contains(sent, "bigupload") =>
        /\ Len(got) <= Len(sent) + own
        /\ \A n \in DOMAIN got :
              (\A i \in DOMAIN sent : i < n => ~WritesItself(sent[i])) =>
                  n \in DOMAIN sent /\ got[n].to = sent[n]

(* Every request is answered, unless a handler throws or the client leaves. *)
Answered ==
    \A n \in 1 .. MaxRequests :
        (Len(sent) >= n) ~> (Len(got) >= n \/ client # "open"
                              \/ \E i \in DOMAIN sent : sent[i] \in Throwing)

(* A connection is released when its client has closed it, and when the     *)
(* handler of a request throws (HttpConnection.cpp:19) on a connection with *)
(* one operation: the client that waits for an answer finds it closed.      *)
Released ==
    (client = "closed" \/ (own = 0 /\ handling > 0 /\ request \in Throwing)) ~> Gone
=============================================================================
