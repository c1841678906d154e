--------------------------- MODULE FastDFSProofs ---------------------------
(***************************************************************************)
(* Of the program that calls the FastDFS client and its mock side by side,  *)
(* for any set of objects, any number of files and any faults: the client   *)
(* keeps the promise of ClientApi; and where one object lives at a time it  *)
(* always has the library behind it, and the mock agrees with it.           *)
(***************************************************************************)
EXTENDS FastDFSSwap, FiniteSetTheorems, TLAPS

(* main has one client object. *)
OneClient == MaxAlive = 1

(* Objects are on only while they live. *)
ClientTypes ==
    /\ configured \in BOOLEAN /\ library \in BOOLEAN
    /\ alive \subseteq Clients
    /\ on \in [Clients -> BOOLEAN]
    /\ \A c \in Clients : on[c] => c \in alive
    /\ files \in Nat /\ stored \subseteq Nat

(* An object that is on has no rival for the library but itself. *)
OneClientInv ==
    /\ IsFiniteSet(alive)
    /\ \A c, d \in alive : c = d
    /\ \A c \in Clients : on[c] => library

MockInv == mockOn \in [Clients -> BOOLEAN] /\ MockAgrees

SwapInv == ClientTypes /\ OneClientInv /\ MockInv

FileStep(c) == \E usable \in BOOLEAN : File(c, usable)

-----------------------------------------------------------------------------
(* The calls on files leave the objects as they are; each returns from an   *)
(* object that lives.                                                       *)
LEMMA FilesKeepObjects ==
    ASSUME NEW c \in Clients, FileStep(c)
    PROVE  /\ c \in alive
           /\ UNCHANGED <<configured, alive, on, library>>
           /\ (files \in Nat /\ stored \subseteq Nat)
                => (files' \in Nat /\ stored' \subseteq Nat)
<1> DEFINE Keeps ==
        /\ c \in alive
        /\ UNCHANGED <<configured, alive, on, library>>
        /\ (files \in Nat /\ stored \subseteq Nat)
             => (files' \in Nat /\ stored' \subseteq Nat)
<1>1. ASSUME NEW op \in Uploads, NEW usable, Upload(c, op, usable) PROVE Keeps
  <2>1. \/ UNCHANGED serverVars
        \/ files' = files + 1 /\ stored' = stored \cup {files'}
    BY <1>1 DEF Upload
  <2>2. QED BY <1>1, <2>1 DEF Upload, serverVars
<1>2. ASSUME NEW id, Delete(c, id) PROVE Keeps
  BY <1>2 DEF Delete, ById
<1>3. ASSUME NEW op, NEW id, NEW usable, Read(c, op, id, usable) PROVE Keeps
  BY <1>3 DEF Read, ById, serverVars
<1> HIDE DEF Keeps
<1>4. Keeps
  BY <1>1, <1>2, <1>3 DEF FileStep, File
<1>5. QED BY <1>4 DEF Keeps

LEMMA TypesInit == SwapInit => ClientTypes
<1>1. 0 \in Nat /\ {} \subseteq Nat
  OBVIOUS
<1>2. QED BY <1>1 DEF SwapInit, Init, ClientTypes

LEMMA TypesStep == ClientTypes /\ [SwapNext]_swapVars => ClientTypes'
<1> SUFFICES ASSUME ClientTypes, [SwapNext]_swapVars PROVE ClientTypes'
  OBVIOUS
<1>1. ASSUME NEW c \in Clients, Object(c) PROVE ClientTypes'
  BY <1>1 DEF Object, Construct, Initialize, Cleanup, Destroy, Succeeds, Fails,
              serverVars, ClientTypes
<1>2. ASSUME NEW c \in Clients, FileStep(c) PROVE ClientTypes'
  BY <1>2, FilesKeepObjects DEF ClientTypes
<1>3. CASE UNCHANGED swapVars
  BY <1>3 DEF swapVars, vars, objectVars, serverVars, ClientTypes
<1>4. CASE Config
  BY <1>4 DEF Config, Reconfigure, objectVars, serverVars, ClientTypes
<1>5. QED
  BY <1>1, <1>2, <1>3, <1>4 DEF SwapNext, FileStep

THEOREM ClientTypesCorrect == SwapSpec => []ClientTypes
BY TypesInit, TypesStep, PTL DEF SwapSpec

-----------------------------------------------------------------------------
(* Each step of the client is a step of the abstract client, or changes     *)
(* nothing that it knows of.                                                *)
LEMMA ObjectRefines ==
    ASSUME ClientTypes, NEW c \in Clients, Object(c)
    PROVE  Api!Next \/ UNCHANGED Api!vars
<1>1. CASE Construct(c)
  <2>1. ~on[c] /\ on' = on
    BY <1>1 DEF Construct, ClientTypes
  <2>2. Api!Construct(c)
    BY <1>1, <2>1 DEF Construct, Api!Construct
  <2>3. QED BY <2>2 DEF Api!Next
<1>2. CASE Initialize(c)
  <2>1. Api!Initialize(c)
    BY <1>2, NoReasonIsNone
    DEF Initialize, Succeeds, Fails, Api!Initialize, Api!Returned, ClientTypes
  <2>2. QED BY <2>1 DEF Api!Next
<1>3. CASE Cleanup(c)
  <2>1. Api!Cleanup(c)
    BY <1>3 DEF Cleanup, Api!Cleanup
  <2>2. QED BY <2>1 DEF Api!Next
<1>4. CASE Destroy(c)
  <2>1. Api!Cleanup(c)
    BY <1>4 DEF Destroy, Api!Cleanup
  <2>2. QED BY <2>1 DEF Api!Next
<1>5. QED BY <1>1, <1>2, <1>3, <1>4 DEF Object

(* A call with a file id. *)
LEMMA ByIdRefines ==
    ASSUME ClientTypes, NEW c \in Clients, NEW op \in Operations,
           NEW id, NEW usable, ById(c, op, id, usable), on' = on
    PROVE  Api!Call(c, op)
BY NoReasonIsNone DEF ById, Succeeds, Fails, Api!Call, Api!Returned, ClientTypes

LEMMA FileRefines ==
    ASSUME ClientTypes, NEW c \in Clients, FileStep(c)
    PROVE  Api!Next
<1>1. ASSUME NEW op \in Uploads, NEW usable, Upload(c, op, usable)
      PROVE  Api!Next
  <2>1. op \in Operations
    BY DEF Operations
  <2>2. Api!Call(c, op)
    BY <1>1, <2>1, NoReasonIsNone
    DEF Upload, Succeeds, Fails, Api!Call, Api!Returned, ClientTypes
  <2>3. QED BY <2>1, <2>2 DEF Api!Next
<1>2. ASSUME NEW id, Delete(c, id) PROVE Api!Next
  <2>1. "deleteFile" \in Operations
    BY DEF Operations
  <2>2. Api!Call(c, "deleteFile")
    BY <1>2, <2>1, ByIdRefines DEF Delete
  <2>3. QED BY <2>1, <2>2 DEF Api!Next
<1>3. ASSUME NEW op, NEW id, NEW usable, Read(c, op, id, usable)
      PROVE  Api!Next
  <2> DEFINE name == IF op = "fileExists" THEN "getFileInfo" ELSE op
  <2>1. name \in Operations
    BY <1>3 DEF Read, Reads, Operations
  <2>2. ById(c, name, id, usable) /\ on' = on
    BY <1>3 DEF Read
  <2> HIDE DEF name
  <2>3. Api!Call(c, name)
    BY <2>1, <2>2, ByIdRefines
  <2>4. QED BY <2>1, <2>3 DEF Api!Next
<1>4. QED BY <1>1, <1>2, <1>3 DEF FileStep, File

(* FastDFSClient.cpp: the client implements ClientApi: no call works before *)
(* initialize() or after cleanup(), and each failure leaves its own reason. *)
THEOREM ClientImplementsApi == SwapSpec => KeepsPromise
<1>1. SwapInit => Api!Init
  BY DEF SwapInit, Init, Api!Init
<1>2. ClientTypes /\ [SwapNext]_swapVars => [Api!Next]_(Api!vars)
  <2> SUFFICES ASSUME ClientTypes, [SwapNext]_swapVars
               PROVE  Api!Next \/ UNCHANGED Api!vars
    OBVIOUS
  <2>1. CASE UNCHANGED swapVars
    BY <2>1 DEF swapVars, vars, objectVars, Api!vars
  <2>2. CASE Config
    BY <2>2 DEF Config, Reconfigure, objectVars, Api!vars
  <2>3. ASSUME NEW c \in Clients, Object(c) \/ FileStep(c)
        PROVE  Api!Next \/ UNCHANGED Api!vars
    BY <2>3, ObjectRefines, FileRefines
  <2>4. QED BY <2>1, <2>2, <2>3 DEF SwapNext, FileStep
<1>3. QED
  BY <1>1, <1>2, ClientTypesCorrect, PTL DEF SwapSpec, KeepsPromise, Api!Spec

-----------------------------------------------------------------------------
LEMMA OneClientInit == SwapInit => OneClientInv /\ MockInv
<1> SUFFICES ASSUME SwapInit PROVE OneClientInv /\ MockInv
  OBVIOUS
<1>1. OneClientInv
  BY FS_EmptySet DEF SwapInit, Init, OneClientInv
<1>2. result.op \notin Operations /\ ~fair
  BY NoReasonIsNone DEF SwapInit, Init
<1>3. mockOn \in [Clients -> BOOLEAN] /\ mockOn = on
  BY DEF SwapInit, Init, Mock!Init
<1>4. QED BY <1>1, <1>2, <1>3 DEF MockInv, MockAgrees

(* Construction, initialisation and destruction of the only object.         *)
LEMMA OneClientObject ==
    ASSUME OneClient, SwapInv, NEW c \in Clients, Object(c)
    PROVE  OneClientInv'
<1> USE DEF SwapInv, ClientTypes, OneClientInv
<1>1. CASE Construct(c)
  <2>1. alive = {}
    <3>1. Cardinality(alive) \in Nat /\ Cardinality(alive) < 1
      BY <1>1, FS_CardinalityType DEF Construct, OneClient
    <3>2. QED BY <3>1, FS_EmptySet
  <2>2. alive' = {c} /\ IsFiniteSet(alive')
    <3>1. alive' = {c}
      BY <1>1, <2>1 DEF Construct
    <3>2. QED BY <3>1, FS_Singleton
  <2>3. \A d \in Clients : ~on[d]
    BY <2>1
  <2>4. QED
    BY <1>1, <2>2, <2>3 DEF Construct
<1>2. CASE Initialize(c)
  BY <1>2 DEF Initialize, Succeeds, Fails
<1>3. CASE Cleanup(c)
  BY <1>3 DEF Cleanup
<1>4. CASE Destroy(c)
  <2>1. alive' = {} /\ IsFiniteSet(alive')
    BY <1>4, FS_EmptySet DEF Destroy
  <2>2. QED
    BY <1>4, <2>1 DEF Destroy
<1>5. QED BY <1>1, <1>2, <1>3, <1>4 DEF Object

LEMMA OneClientFile ==
    ASSUME SwapInv, NEW c \in Clients, FileStep(c)
    PROVE  OneClientInv'
BY FilesKeepObjects DEF OneClientInv, SwapInv

(* The mock is initialised by a file that the client may find fault with,   *)
(* never the other way round.                                               *)
LEMMA MockObject ==
    ASSUME SwapInv, NEW c \in Clients, Object(c)
    PROVE  MockInv'
<1> USE DEF SwapInv, ClientTypes, MockInv, MockAgrees
<1>1. ~fair'
  BY DEF Object
<1>2. CASE Construct(c) /\ Mock!Construct(c)
  BY <1>1, <1>2 DEF Construct, Mock!Construct, Works
<1>3. CASE Initialize(c) /\ Mock!Initialize(c)
  <2>1. mockOn' \in [Clients -> BOOLEAN]
    BY <1>3 DEF Mock!Initialize
  <2>2. \A d \in Clients : on'[d] => mockOn'[d]
    BY <1>3 DEF Initialize, Mock!Initialize
  <2>3. result'.op \notin Operations
    BY <1>3, NoReasonIsNone DEF Initialize, Succeeds, Fails, Operations, Uploads, Reads
  <2>4. QED BY <1>1, <2>1, <2>2, <2>3
<1>4. CASE Cleanup(c) /\ Mock!Cleanup(c)
  BY <1>1, <1>4 DEF Cleanup, Mock!Cleanup, Works
<1>5. CASE Destroy(c) /\ Mock!Destroy(c)
  BY <1>1, <1>5 DEF Destroy, Mock!Destroy, Works
<1>6. QED BY <1>2, <1>3, <1>4, <1>5 DEF Object

(* A call that fails with the client though it is on, the file is there and *)
(* the server does not refuse, fails for a local file or buffer that is not *)
(* usable, and then with the mock as well.                                  *)
LEMMA SameOutcome ==
    ASSUME NEW real, NEW mocked, NEW op \in Operations,
           NEW isOn \in BOOLEAN, NEW mockIsOn \in BOOLEAN, NEW usable \in BOOLEAN,
           isOn => mockIsOn,
           ~isOn => real = "off",
           isOn /\ ~usable => real # NoReason,
           mocked = IF ~mockIsOn THEN "off" ELSE IF ~usable THEN "arguments" ELSE NoReason
    PROVE  /\ real = NoReason => mocked = NoReason
           /\ isOn /\ real \in {NoReason, op} /\ ~(usable /\ real = op) /\ mocked = NoReason
                => real = NoReason
<1>1. NoReason \notin {"off", "arguments", op}
  BY NoReasonIsNone
<1>2. CASE ~isOn BY <1>1, <1>2
<1>3. CASE isOn /\ ~usable BY <1>1, <1>3
<1>4. CASE isOn /\ usable BY <1>1, <1>4
<1>5. QED BY <1>2, <1>3, <1>4

(* A call that works with the client works with the mock, and a fair one    *)
(* that works with the mock works with the client.                          *)
LEMMA MockFile ==
    ASSUME SwapInv, NEW c \in Clients, FileStep(c)
    PROVE  MockInv'
<1>1. /\ on[c] \in BOOLEAN /\ mockOn[c] \in BOOLEAN
      /\ on[c] => library /\ mockOn[c]
      /\ mockOn \in [Clients -> BOOLEAN]
      /\ \A d \in Clients : on[d] => mockOn[d]
  BY DEF OneClientInv, SwapInv, ClientTypes, MockInv, MockAgrees
<1>3. ASSUME NEW op \in Operations, NEW mockOp, NEW known, NEW usable \in BOOLEAN,
             ~on[c] => result'.reason = "off",
             on[c] => result'.reason \in {NoReason, op} \/ ~known,
             on[c] /\ ~usable => result'.reason # NoReason,
             Mock!Call(c, mockOp, usable), Fair(c, op, known, usable), on' = on
      PROVE  MockInv'
  <2>1. mockOn' = mockOn
    BY <1>3 DEF Mock!Call
  <2>2. mockResult'.reason =
           IF ~mockOn[c] THEN "off" ELSE IF ~usable THEN "arguments" ELSE NoReason
    BY <1>3 DEF Mock!Call, Mock!Returns
  <2>3. /\ result'.reason = NoReason => mockResult'.reason = NoReason
        /\ on[c] /\ result'.reason \in {NoReason, op} /\ ~(usable /\ result'.reason = op)
             /\ mockResult'.reason = NoReason => result'.reason = NoReason
    BY <1>1, <1>3, <2>2, SameOutcome
  <2>4. fair' => /\ on[c] /\ result'.reason \in {NoReason, op}
                 /\ ~(usable /\ result'.reason = op)
    BY <1>1, <1>3 DEF Fair
  <2>5. QED BY <1>1, <1>3, <2>1, <2>3, <2>4 DEF MockInv, MockAgrees, Works
<1>4. ASSUME NEW op \in Uploads, NEW usable \in BOOLEAN,
             Upload(c, op, usable), Mock!Call(c, op, usable), Fair(c, op, TRUE, usable)
      PROVE  MockInv'
  <2>1. op \in Operations
    BY DEF Operations
  <2>2. /\ ~on[c] => result'.reason = "off"
        /\ on[c] => result'.reason \in {NoReason, op}
        /\ on[c] /\ ~usable => result'.reason # NoReason
    BY <1>4, <2>1, NoReasonIsNone DEF Upload, Succeeds, Fails
  <2>3. on' = on
    BY <1>4 DEF Upload
  <2>4. QED BY <1>3, <1>4, <2>1, <2>2, <2>3
<1>5. ASSUME NEW op \in Operations, NEW id \in Ids, NEW usable \in BOOLEAN,
             ById(c, op, id, usable)
      PROVE  /\ ~on[c] => result'.reason = "off"
             /\ on[c] => result'.reason \in {NoReason, op} \/ id \notin stored
             /\ on[c] /\ ~usable => result'.reason # NoReason
  <2>1. id = Malformed => id \notin stored
    BY DEF Malformed, SwapInv, ClientTypes
  <2>2. QED BY <1>5, <2>1, NoReasonIsNone DEF ById, Succeeds, Fails
<1>6. ASSUME NEW id \in Ids,
             Delete(c, id), Mock!Call(c, "deleteFile", TRUE),
             Fair(c, "deleteFile", id \in stored, TRUE)
      PROVE  MockInv'
  <2>1. "deleteFile" \in Operations
    BY DEF Operations
  <2>2. ById(c, "deleteFile", id, TRUE) /\ on' = on
    BY <1>6 DEF Delete
  <2>3. QED BY <1>3, <1>5, <1>6, <2>1, <2>2
<1>7. ASSUME NEW op \in Reads \ {"fileExists"}, NEW id \in Ids, NEW usable \in BOOLEAN,
             Read(c, op, id, usable), Mock!Call(c, MockName(op), usable),
             Fair(c, op, id \in stored, usable)
      PROVE  MockInv'
  <2>1. op \in Operations
    BY DEF Operations
  <2>2. ById(c, op, id, usable) /\ on' = on
    BY <1>7 DEF Read
  <2>3. QED BY <1>3, <1>5, <1>7, <2>1, <2>2
<1>8. QED
  BY <1>4, <1>6, <1>7 DEF FileStep, File

LEMMA SwapInvariant == ASSUME OneClient PROVE SwapSpec => []SwapInv
<1>1. SwapInit => SwapInv
  BY TypesInit, OneClientInit DEF SwapInv
<1>2. SwapInv /\ [SwapNext]_swapVars => SwapInv'
  <2> SUFFICES ASSUME SwapInv, [SwapNext]_swapVars PROVE SwapInv'
    OBVIOUS
  <2>1. ClientTypes'
    BY TypesStep DEF SwapInv
  <2>2. OneClientInv' /\ MockInv'
    <3>1. CASE UNCHANGED swapVars
      BY <3>1 DEF swapVars, vars, objectVars, SwapInv, OneClientInv, MockInv, MockAgrees, Works
    <3>2. CASE Config
      BY <3>2 DEF Config, Reconfigure, objectVars, SwapInv, OneClientInv, MockInv, MockAgrees, Works
    <3>3. ASSUME NEW c \in Clients, Object(c) \/ FileStep(c)
          PROVE  OneClientInv' /\ MockInv'
      BY <3>3, OneClientObject, OneClientFile, MockObject, MockFile
    <3>4. QED BY <3>1, <3>2, <3>3 DEF SwapNext, FileStep
  <2>3. QED BY <2>1, <2>2 DEF SwapInv
<1>3. QED BY <1>1, <1>2, PTL DEF SwapSpec

(* FastDFSClient.cpp:31: with one object at a time, as in main, no call     *)
(* reaches the library before it is set up or after it is shut down.        *)
THEOREM LibraryAlwaysReady == ASSUME OneClient PROVE SwapSpec => []LibraryReady
<1>1. SwapInv => LibraryReady
  BY DEF SwapInv, OneClientInv, LibraryReady
<1>2. QED BY <1>1, SwapInvariant, PTL

(* MockFastDFSClient.h:12: whatever works with the client works with the    *)
(* mock; and of a client that is on, a program that asks only for its own   *)
(* files sees the same calls succeed with either, the file of the           *)
(* configuration coming and going as it likes.                              *)
THEOREM MockStandsIn == ASSUME OneClient PROVE SwapSpec => []MockAgrees
<1>1. SwapInv => MockAgrees
  BY DEF SwapInv, MockInv
<1>2. QED BY <1>1, SwapInvariant, PTL
=============================================================================
