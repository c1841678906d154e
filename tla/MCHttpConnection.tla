-------------------------- MODULE MCHttpConnection --------------------------
(* HttpConnection for TLC, and the statements that comments of the code and *)
(* the page the server delivers make about it.                              *)
EXTENDS HttpConnection

(* HttpConnection.cpp:222, the response to a POST, written once: one for    *)
(* each request.                                                            *)
OneReplyEach == client = "open" => Len(got) <= Len(sent)

(* HttpConnection.cpp:55, "reset the request and the buffer" before the     *)
(* next request is read: no request of a client that is there is lost.      *)
RequestIntact == client = "open" /\ handling > 0 => request # "none"

(* HttpConnection.cpp:53, "reset the state and wait for a new request": a   *)
(* response holds what was written for its own request.                     *)
FreshBody ==
    client = "open" =>
        \A n \in 1 .. Len(got) : \A i \in 1 .. Len(got[n].body) :
            got[n].body[i] = got[n].to

(* index.html:625: the page reports an upload as a success if the status of *)
(* the response says so, and as a failure otherwise.                        *)
FailureShown ==
    \A n \in 1 .. Len(got) :
        got[n].to \in {"badupload", "failupload"} => got[n].status # "ok"

(* index.html:476, "uploads of one file, 100 MB at most".                   *)
BigUploadServed ==
    \A n \in DOMAIN got \cap DOMAIN sent :
        sent[n] = "bigupload" => got[n].status = "ok"

(* HttpConnection.cpp:29, "close the connection if nothing happens for 5    *)
(* seconds, say": a client that has sent its last request is let go.        *)
IdleCloses == (client = "half") ~> (Gone \/ client = "closed")
=============================================================================
