----------------------------- MODULE FastDFSSwap -----------------------------
(***************************************************************************)
(* A program that makes the same calls on the real and on the mock client,  *)
(* as test.cpp:16 lets the developer choose between them.                   *)
(***************************************************************************)
EXTENDS FastDFSClient

VARIABLES
    mockOn, mockError, mockResult,
    fair       \* history: the last step was a call on a file that the
               \* program had uploaded and not deleted, of a client that was
               \* on, and the server did not refuse it

swapVars == <<vars, mockOn, mockError, mockResult, fair>>

Mock == INSTANCE MockFastDFSClient
        WITH on <- mockOn, error <- mockError, result <- mockResult

(* The mock has no fileExists; its getFileSize is for getFileInfo. *)
MockName(op) == IF op = "getFileInfo" THEN "getFileSize" ELSE op

Fair(c, op, known, usable) ==
    fair' = (on[c] /\ known /\ ~(library /\ usable /\ result'.reason = op))

SwapInit == Init /\ Mock!Init /\ fair = FALSE

Object(c) ==
    /\ \/ Construct(c)  /\ Mock!Construct(c)
       \/ Initialize(c) /\ Mock!Initialize(c)
       \/ Cleanup(c)    /\ Mock!Cleanup(c)
       \/ Destroy(c)    /\ Mock!Destroy(c)
    /\ fair' = FALSE

File(c, usable) ==
    \/ \E op \in Uploads :
          /\ Upload(c, op, usable) /\ Mock!Call(c, op, usable)
          /\ Fair(c, op, TRUE, usable)
    \/ \E id \in Ids :
          \/ /\ Delete(c, id) /\ Mock!Call(c, "deleteFile", TRUE)
             /\ Fair(c, "deleteFile", id \in stored, TRUE)
          \/ \E op \in Reads \ {"fileExists"} :
                /\ Read(c, op, id, usable) /\ Mock!Call(c, MockName(op), usable)
                /\ Fair(c, op, id \in stored, usable)

(* Both read the same configuration file. *)
Config == Reconfigure /\ UNCHANGED <<mockOn, mockError, mockResult, fair>>

SwapNext ==
    \/ Config
    \/ \E c \in Clients : Object(c) \/ \E usable \in BOOLEAN : File(c, usable)

SwapSpec == SwapInit /\ [][SwapNext]_swapVars

-----------------------------------------------------------------------------
(* Properties *)

Works(r) == r.reason = NoReason

(* MockFastDFSClient.h:12: the mock takes the place of the client.  It is   *)
(* on when the client is, and every call on a file that works with the      *)
(* client works with it.  The converse needs a client whose initialize has  *)
(* succeeded -- the mock takes any file that can be read for a              *)
(* configuration --, a program that asks only for files it has uploaded and *)
(* not deleted, and a server that refuses nothing.                          *)
MockAgrees ==
    /\ \A c \in Clients : on[c] => mockOn[c]
    /\ result.op \in Operations /\ Works(result) => Works(mockResult)
    /\ fair /\ Works(mockResult) => Works(result)
==============================================================================
