---------------------------- MODULE FastDFSClient ----------------------------
(***************************************************************************)
(* FastDFSClient (src/FastDFSClient.cpp): a wrapper of the FastDFS library. *)
(* initialized_ belongs to the object, the library behind it to the         *)
(* process: fdfs_client_destroy shuts it down for every object.  The file   *)
(* server is the library's: its answers are what the calls can meet.        *)
(***************************************************************************)
EXTENDS FiniteSets, Integers

CONSTANTS
    Clients,
    Faults,      \* the server may refuse a call
    MaxAlive,    \* objects alive at a time; the program has one
    MaxFiles,    \* a bound of the model: files uploaded in a behaviour
    NoReason

ASSUME ClientAssumption ==
    Faults \in BOOLEAN /\ MaxAlive \in Nat /\ MaxFiles \in Nat

VARIABLES
    configured,  \* the configuration file can be read now
    alive,       \* the objects between constructor and destructor
    on, error,   \* initialized_ and last_error_ of each
    library,     \* fdfs_client_init has been called, fdfs_client_destroy not
    stored,      \* the files of the server
    files,       \* history: files uploaded so far, which are 1 to files
    result       \* the last call: its object, operation and outcome

objectVars == <<alive, on, error>>
serverVars == <<stored, files>>
vars       == <<configured, objectVars, library, serverVars, result>>

Uploads     == {"uploadFile", "uploadBuffer"}
Reads       == {"downloadFile", "downloadToBuffer", "getFileInfo", "fileExists"}
Operations  == Uploads \cup Reads \cup {"deleteFile"}

ASSUME NoReasonIsNone == NoReason \notin {"off", "arguments", "initialize"} \cup Operations

(* File ids: those of the server's files, one of a file it does not have,   *)
(* and one without a group or a name.                                       *)
NoFile    == 0
Malformed == -1
Ids       == {Malformed, NoFile} \cup 1 .. MaxFiles

Init ==
    /\ configured \in BOOLEAN
    /\ alive = {}
    /\ on = [c \in Clients |-> FALSE] /\ error = [c \in Clients |-> NoReason]
    /\ library = FALSE
    /\ stored = {} /\ files = 0
    /\ result = [client |-> NoReason, op |-> NoReason, reason |-> NoReason]

(* The call returns true or an id; or it returns false or no id and leaves  *)
(* its reason in last_error_.                                               *)
Succeeds(c, op) ==
    /\ result' = [client |-> c, op |-> op, reason |-> NoReason]
    /\ UNCHANGED error

Fails(c, op, reason) ==
    /\ result' = [client |-> c, op |-> op, reason |-> reason]
    /\ error' = [error EXCEPT ![c] = reason]

Construct(c) ==
    /\ c \notin alive /\ Cardinality(alive) < MaxAlive
    /\ alive' = alive \cup {c}
    /\ on' = [on EXCEPT ![c] = FALSE] /\ error' = [error EXCEPT ![c] = NoReason]
    /\ UNCHANGED <<configured, library, serverVars, result>>

(* Of an object that is on, initialize does nothing.  fdfs_client_init      *)
(* fails without the file, and may fail with it, for what the file says.    *)
Initialize(c) ==
    /\ c \in alive
    /\ \/ on[c] /\ Succeeds(c, "initialize") /\ UNCHANGED <<on, library>>
       \/ /\ ~on[c] /\ configured
          /\ Succeeds(c, "initialize")
          /\ on' = [on EXCEPT ![c] = TRUE] /\ library' = TRUE
       \/ ~on[c] /\ Fails(c, "initialize", "initialize") /\ UNCHANGED <<on, library>>
    /\ UNCHANGED <<configured, alive, serverVars>>

(* A bug: the object stays on. *)
CleanupStaysOn(c) ==
    /\ c \in alive
    /\ library' = FALSE
    /\ UNCHANGED <<configured, objectVars, serverVars, result>>

Cleanup(c) ==
    /\ c \in alive
    /\ on' = [on EXCEPT ![c] = FALSE]
    /\ library' = (library /\ ~on[c])
    /\ UNCHANGED <<configured, alive, error, serverVars, result>>

(* The destructor cleans up. *)
Destroy(c) ==
    /\ c \in alive
    /\ alive' = alive \ {c}
    /\ on' = [on EXCEPT ![c] = FALSE]
    /\ library' = (library /\ ~on[c])
    /\ UNCHANGED <<configured, error, serverVars, result>>

(* Any call of the library may fail; it does without the library, and when  *)
(* the local file or buffer is not usable.                                  *)
Refused(usable) == Faults \/ ~library \/ ~usable

Upload(c, op, usable) ==
    /\ c \in alive /\ op \in Uploads
    /\ \/ ~on[c] /\ Fails(c, op, "off") /\ UNCHANGED serverVars
       \/ on[c] /\ Refused(usable) /\ Fails(c, op, op) /\ UNCHANGED serverVars
       \/ /\ on[c] /\ library /\ usable /\ files < MaxFiles
          /\ files' = files + 1 /\ stored' = stored \cup {files'}
          /\ Succeeds(c, op)
    /\ UNCHANGED <<configured, alive, on, library>>

(* A bug: the message of an id that cannot be split is forgotten. *)
ByIdSilent(c, op, id, usable) ==
    /\ c \in alive
    /\ \/ ~on[c] /\ Fails(c, op, "off")
       \/ on[c] /\ id = Malformed /\ UNCHANGED error
          /\ result' = [client |-> c, op |-> op, reason |-> "arguments"]
       \/ on[c] /\ id # Malformed /\ (Refused(usable) \/ id \notin stored) /\ Fails(c, op, op)
       \/ on[c] /\ library /\ usable /\ id \in stored /\ Succeeds(c, op)

(* A call with a file id, which parseFileId splits at its first '/'.        *)
ById(c, op, id, usable) ==
    /\ c \in alive
    /\ \/ ~on[c] /\ Fails(c, op, "off")
       \/ on[c] /\ id = Malformed /\ Fails(c, op, "arguments")
       \/ on[c] /\ id # Malformed /\ (Refused(usable) \/ id \notin stored) /\ Fails(c, op, op)
       \/ on[c] /\ library /\ usable /\ id \in stored /\ Succeeds(c, op)

(* fileExists is getFileInfo, its errors taken for the answer no; neither   *)
(* needs anything local.                                                    *)
Read(c, op, id, usable) ==
    /\ op \in Reads
    /\ op \in {"getFileInfo", "fileExists"} => usable
    /\ ById(c, IF op = "fileExists" THEN "getFileInfo" ELSE op, id, usable)
    /\ UNCHANGED <<configured, alive, on, library, serverVars>>

Delete(c, id) ==
    /\ ById(c, "deleteFile", id, TRUE)
    /\ stored' = IF result'.reason = NoReason THEN stored \ {id} ELSE stored
    /\ UNCHANGED <<configured, alive, on, library, files>>

(* The file comes and goes: somebody edits, moves or removes it. *)
Reconfigure ==
    /\ configured' = ~configured
    /\ UNCHANGED <<objectVars, library, serverVars, result>>

Next ==
    \/ Reconfigure
    \/ \E c \in Clients :
          \/ Construct(c) \/ Initialize(c) \/ Cleanup(c) \/ Destroy(c)
          \/ \E op \in Uploads, usable \in BOOLEAN : Upload(c, op, usable)
          \/ \E id \in Ids :
                \/ Delete(c, id)
                \/ \E op \in Reads, usable \in BOOLEAN : Read(c, op, id, usable)

Spec == Init /\ [][Next]_vars

-----------------------------------------------------------------------------
(* Properties *)

(* FastDFSClient.cpp:31: an object that is on has the library behind it --  *)
(* where one object lives at a time, as in main; the destructor of another  *)
(* would take the library away.                                             *)
LibraryReady == \A c \in Clients : on[c] => library

Api == INSTANCE ClientApi

(* A call that fails leaves its own reason for getLastError, whatever the   *)
(* calls before it left there; no call works on an object that is off.      *)
KeepsPromise == Api!Spec
==============================================================================
