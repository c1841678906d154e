--------------------------- MODULE LogFlushProofs ---------------------------
(***************************************************************************)
(* Of the sinks of a logger, for any sinks, sizes, batches and faults, and  *)
(* any number of exits, deaths and restarts: no byte is lost on the way to  *)
(* the files, flush_log keeps its promise, the files hold their bytes in    *)
(* order and each once, what a process adds to a file of RollFileFlush is   *)
(* bounded, and every state is well typed.                                  *)
(***************************************************************************)
EXTENDS LogFlush, FiniteSetTheorems, TLAPS

(* What a sequence holds. *)
LEMMA HoldsConcat ==
    ASSUME NEW a \in Seq(Nat), NEW b \in Seq(Nat)
    PROVE  /\ a \o b \in Seq(Nat) /\ Len(a \o b) = Len(a) + Len(b)
           /\ ToSet(a \o b) = ToSet(a) \cup ToSet(b)
<1>1. a \o b \in Seq(Nat) /\ Len(a \o b) = Len(a) + Len(b)
  OBVIOUS
<1>2. ASSUME NEW i \in DOMAIN (a \o b) PROVE (a \o b)[i] \in ToSet(a) \cup ToSet(b)
  <2>1. CASE i <= Len(a)
    BY <1>2, <2>1 DEF ToSet
  <2>2. CASE i > Len(a)
    <3>1. (a \o b)[i] = b[i - Len(a)] /\ i - Len(a) \in DOMAIN b
      BY <1>2, <2>2
    <3>2. QED BY <3>1 DEF ToSet
  <2>3. QED BY <1>2, <2>1, <2>2
<1>3. ASSUME NEW i \in DOMAIN a PROVE a[i] \in ToSet(a \o b)
  <2>1. i \in DOMAIN (a \o b) /\ (a \o b)[i] = a[i]
    BY <1>3
  <2>2. QED BY <2>1 DEF ToSet
<1>4. ASSUME NEW i \in DOMAIN b PROVE b[i] \in ToSet(a \o b)
  <2>1. i + Len(a) \in DOMAIN (a \o b) /\ (a \o b)[i + Len(a)] = b[i]
    BY <1>4
  <2>2. QED BY <2>1 DEF ToSet
<1>5. ToSet(a \o b) \subseteq ToSet(a) \cup ToSet(b)
  BY <1>2 DEF ToSet
<1>6. ToSet(a) \subseteq ToSet(a \o b) /\ ToSet(b) \subseteq ToSet(a \o b)
  BY <1>3, <1>4 DEF ToSet
<1>7. QED BY <1>1, <1>5, <1>6

(* Nothing of a sequence that is cut in two gets lost. *)
LEMMA HoldsCut ==
    ASSUME NEW s \in Seq(Nat), NEW k \in 0 .. Len(s)
    PROVE  /\ SubSeq(s, 1, k) \in Seq(Nat) /\ SubSeq(s, k + 1, Len(s)) \in Seq(Nat)
           /\ Len(SubSeq(s, 1, k)) = k
           /\ ToSet(s) = ToSet(SubSeq(s, 1, k)) \cup ToSet(SubSeq(s, k + 1, Len(s)))
<1>1. /\ SubSeq(s, 1, k) \in Seq(Nat) /\ Len(SubSeq(s, 1, k)) = k
      /\ \A i \in 1 .. k : SubSeq(s, 1, k)[i] = s[i]
  OBVIOUS
<1>2. /\ SubSeq(s, k + 1, Len(s)) \in Seq(Nat)
      /\ Len(SubSeq(s, k + 1, Len(s))) = Len(s) - k
      /\ \A i \in 1 .. Len(s) - k : SubSeq(s, k + 1, Len(s))[i] = s[k + i]
  OBVIOUS
<1>3. ASSUME NEW i \in DOMAIN s
      PROVE  s[i] \in ToSet(SubSeq(s, 1, k)) \cup ToSet(SubSeq(s, k + 1, Len(s)))
  <2>1. CASE i <= k
    BY <1>1, <1>3, <2>1 DEF ToSet
  <2>2. CASE i > k
    <3>1. i - k \in 1 .. Len(s) - k /\ s[i] = SubSeq(s, k + 1, Len(s))[i - k]
      BY <1>2, <1>3, <2>2
    <3>2. QED BY <1>2, <3>1 DEF ToSet
  <2>3. QED BY <1>3, <2>1, <2>2
<1>4. ASSUME NEW i \in DOMAIN SubSeq(s, 1, k) PROVE SubSeq(s, 1, k)[i] \in ToSet(s)
  <2>1. i \in DOMAIN s /\ SubSeq(s, 1, k)[i] = s[i]
    BY <1>1, <1>4
  <2>2. QED BY <2>1 DEF ToSet
<1>5. ASSUME NEW i \in DOMAIN SubSeq(s, k + 1, Len(s))
      PROVE  SubSeq(s, k + 1, Len(s))[i] \in ToSet(s)
  <2>0. i \in 1 .. Len(s) - k
    BY <1>2, <1>5
  <2>a. Len(s) \in Nat /\ DOMAIN s = 1 .. Len(s)
    OBVIOUS
  <2>b. k + i \in 1 .. Len(s)
    BY <2>0, <2>a
  <2>1. k + i \in DOMAIN s /\ SubSeq(s, k + 1, Len(s))[i] = s[k + i]
    BY <1>2, <2>0, <2>a, <2>b
  <2>2. QED BY <2>1 DEF ToSet
<1>6. ToSet(s) \subseteq ToSet(SubSeq(s, 1, k)) \cup ToSet(SubSeq(s, k + 1, Len(s)))
  BY <1>3 DEF ToSet
<1>7. /\ ToSet(SubSeq(s, 1, k)) \subseteq ToSet(s)
      /\ ToSet(SubSeq(s, k + 1, Len(s))) \subseteq ToSet(s)
  BY <1>4, <1>5 DEF ToSet
<1>8. QED BY <1>1, <1>2, <1>6, <1>7

-----------------------------------------------------------------------------
Roll == "RollFileFlush"

FlushTypes ==
    /\ setting \in Settings /\ time \in DOMAIN Stamp
    /\ at \in 0 .. Len(Sinks)
    /\ stage \in {"init", "fwrite", "fflush", "fsync"} /\ (at = 0 => stage = "init")
    /\ given \in Nat /\ given <= MaxBytes /\ first \in 0 .. given
    /\ batch \in Seq(1 .. given) /\ Len(batch) <= given
    /\ kernel \in [Names -> Seq(Nat)] /\ synced \in [Names -> Nat]
    /\ \A f \in Names : synced[f] <= Len(kernel[f])
    /\ pending \in [SinkSet -> Seq(Nat)]
    /\ acked \in [SinkSet -> SUBSET (1 .. given)] /\ lost \in [SinkSet -> SUBSET Nat]
    /\ fs \in [SinkSet -> Names \cup {NoFile}]
    /\ \A s \in SinkSet :
          /\ fs[s] \in NamesOf(s) \cup {NoFile}
          /\ fs[s] = NoFile => pending[s] = <<>>
    /\ curSize \in Nat /\ cnt \in Nat \ {0}

(* The bytes of the batch that RollFileFlush has not been given yet.        *)
UnwrittenOf(sinks, a, g, b) ==
    IF \E i \in DOMAIN sinks :
          /\ sinks[i] = Roll /\ a # 0
          /\ a < i \/ (a = i /\ g \in {"init", "fwrite"})
    THEN Len(b) ELSE 0

Unwritten == UnwrittenOf(Sinks, at, stage, batch)

(* Each file of RollFileFlush but the last one is full, so that the names   *)
(* suffice for the bytes of a behaviour.                                    *)
Count ==
    proc = "up" /\ Roll \in SinkSet =>
        \/ fs[Roll] = NoFile /\ cnt = 1 /\ curSize = 0
        \/ fs[Roll] = NoFile /\ at # 0 /\ Sinks[at] = Roll /\ stage = "fwrite"
        \/ fs[Roll] # NoFile /\ cnt >= 2 /\ (cnt - 2) + curSize + Unwritten <= given

(* Where the bytes of sink s are. *)
InHand(s) == Stored(s) \cup ToSet(pending[s]) \cup lost[s]

(* What fwrite and fflush have done for the batch before the next stage.    *)
Progress ==
    proc = "up" /\ at # 0 /\ stage \in {"fflush", "fsync"} =>
        LET s == Sinks[at] IN
        /\ fs[s] # NoFile
        /\ stage = "fflush" =>
              ToSet(batch) \subseteq
                  lost[s] \cup ToSet(kernel[fs[s]]) \cup ToSet(pending[s])
        /\ stage = "fsync" =>
              flushLog = 2 /\ ToSet(batch) \subseteq lost[s] \cup ToSet(kernel[fs[s]])

KeptInv ==
    \A s \in SinkSet : \A b \in acked[s] : b > first =>
        /\ proc = "up" => b \in InHand(s)
        /\ proc = "exited" => b \in Stored(s) \cup lost[s]

PromiseInv ==
    \A s \in SinkSet :
        /\ flushLog = 1 /\ "power" \notin Faults =>
               acked[s] \subseteq Stored(s) \cup lost[s]
        /\ flushLog = 2 => acked[s] \subseteq Durable(s) \cup lost[s]

FlushInv == FlushTypes /\ Count /\ Progress /\ KeptInv /\ PromiseInv

-----------------------------------------------------------------------------
(* The sinks of a behaviour: one or both, each once. *)
LEMMA SinksShape ==
    ASSUME FlushTypes
    PROVE  /\ Sinks \in Seq({"FileFlush", Roll}) /\ Len(Sinks) \in Nat
           /\ \A i, j \in 1 .. Len(Sinks) : Sinks[i] = Sinks[j] => i = j
           /\ SinkSet \subseteq {"FileFlush", Roll}
           /\ \A i \in 1 .. Len(Sinks) : Sinks[i] \in SinkSet
           /\ \A s \in SinkSet : \E i \in 1 .. Len(Sinks) : Sinks[i] = s
<1>1. setting \in Settings
  BY DEF FlushTypes
<1>2. /\ Sinks \in Seq({"FileFlush", Roll})
      /\ \A i, j \in 1 .. Len(Sinks) : Sinks[i] = Sinks[j] => i = j
  BY <1>1, FlushAssumption DEF Sinks, Roll
<1>3. Len(Sinks) \in Nat /\ DOMAIN Sinks = 1 .. Len(Sinks)
  BY <1>2
<1>4. SinkSet = {Sinks[i] : i \in 1 .. Len(Sinks)}
  BY <1>3 DEF SinkSet, ToSet
<1>5. \A i \in 1 .. Len(Sinks) : Sinks[i] \in {"FileFlush", Roll}
  BY <1>2
<1>6. QED BY <1>2, <1>3, <1>4, <1>5

(* No file belongs to two sinks. *)
LEMMA NamesDisjoint ==
    /\ \A s \in {"FileFlush", Roll} : NamesOf(s) \subseteq Names
    /\ NamesOf("FileFlush") \cap NamesOf(Roll) = {}
BY DEF NamesOf, Names, LogName, RollNames, Roll

-----------------------------------------------------------------------------
(* Files only grow at their end, except when the power fails.               *)
Grow ==
    /\ UNCHANGED <<setting, synced>>
    /\ \A f \in Names : \E b \in Seq(Nat) : kernel'[f] = kernel[f] \o b
    /\ kernel' \in [Names -> Seq(Nat)]

LEMMA GrowKeeps ==
    ASSUME FlushTypes, Grow, NEW s \in SinkSet
    PROVE  /\ Stored(s) \subseteq Stored(s)'
           /\ Durable(s) \subseteq Durable(s)'
           /\ \A f \in Names : synced'[f] <= Len(kernel'[f])
           /\ \A f \in Names : ToSet(kernel[f]) \subseteq ToSet(kernel'[f])
<1>1. NamesOf(s)' = NamesOf(s) /\ NamesOf(s) \subseteq Names
  BY SinksShape, NamesDisjoint
  DEF Grow, NamesOf, RollNames, Stamps, Stamp
<1>2. ASSUME NEW f \in Names
      PROVE  /\ ToSet(kernel[f]) \subseteq ToSet(kernel'[f])
             /\ synced[f] <= Len(kernel'[f])
             /\ SubSeq(kernel'[f], 1, synced[f]) = SubSeq(kernel[f], 1, synced[f])
  <2>1. PICK b \in Seq(Nat) : kernel'[f] = kernel[f] \o b
    BY DEF Grow
  <2>2. kernel[f] \in Seq(Nat) /\ synced[f] \in Nat /\ synced[f] <= Len(kernel[f])
    BY DEF FlushTypes
  <2>3. SubSeq(kernel[f] \o b, 1, synced[f]) = SubSeq(kernel[f], 1, synced[f])
    BY <2>2
  <2>4. QED BY <2>1, <2>2, <2>3, HoldsConcat
<1>3. Stored(s) \subseteq Stored(s)'
  BY <1>1, <1>2 DEF Stored
<1>4. Durable(s) \subseteq Durable(s)'
  BY <1>1, <1>2 DEF Durable, Grow
<1>5. QED BY <1>2, <1>3, <1>4 DEF Grow

(* Nothing is written. *)
LEMMA GrowSame ==
    ASSUME FlushTypes, UNCHANGED <<setting, kernel, synced>>
    PROVE  Grow
<1>1. \A f \in Names : kernel[f] = kernel[f] \o <<>> /\ <<>> \in Seq(Nat)
  BY DEF FlushTypes
<1>2. QED BY <1>1 DEF Grow, FlushTypes

(* The file of a sink gets some bytes. *)
LEMMA ToFileGrows ==
    ASSUME FlushTypes, NEW s \in SinkSet, fs[s] # NoFile, NEW b \in Seq(Nat),
           ToFile(s, b), UNCHANGED <<setting, synced>>
    PROVE  /\ Grow
           /\ fs[s] \in NamesOf(s) /\ fs[s] \in Names
           /\ ToSet(kernel'[fs[s]]) = ToSet(kernel[fs[s]]) \cup ToSet(b)
           /\ ToSet(b) \subseteq Stored(s)'
<1>1. fs[s] \in NamesOf(s) /\ fs[s] \in Names
  BY SinksShape, NamesDisjoint DEF FlushTypes
<1>2. kernel'[fs[s]] = kernel[fs[s]] \o b /\ kernel[fs[s]] \in Seq(Nat)
  BY <1>1 DEF ToFile, FlushTypes
<1>3. ASSUME NEW f \in Names PROVE \E c \in Seq(Nat) : kernel'[f] = kernel[f] \o c
  <2>1. CASE f = fs[s] BY <1>2, <2>1
  <2>2. CASE f # fs[s]
    <3>1. kernel'[f] = kernel[f] \o <<>> /\ <<>> \in Seq(Nat)
      BY <1>1, <2>2 DEF ToFile, FlushTypes
    <3>2. QED BY <3>1
  <2>3. QED BY <2>1, <2>2
<1>4. kernel' \in [Names -> Seq(Nat)]
  BY <1>1, <1>2, HoldsConcat DEF ToFile, FlushTypes
<1>5. ToSet(kernel'[fs[s]]) = ToSet(kernel[fs[s]]) \cup ToSet(b)
  BY <1>2, HoldsConcat
<1>6. NamesOf(s)' = NamesOf(s)
  BY DEF NamesOf, RollNames, Stamps, Stamp
<1>7. ToSet(b) \subseteq Stored(s)'
  BY <1>1, <1>5, <1>6 DEF Stored
<1>8. QED BY <1>1, <1>3, <1>4, <1>5, <1>7 DEF Grow

-----------------------------------------------------------------------------
(* What every step of Flush of sink s does.  A step that returns leaves the *)
(* batch where flush_log wants it.                                          *)
Moves(s) ==
    /\ proc = "up"
    /\ UNCHANGED <<proc, env, given, first>>
    /\ kernel' \in [Names -> Seq(Nat)] /\ synced' \in [Names -> Nat]
    /\ \A f \in Names : synced'[f] <= Len(kernel'[f])
    /\ \A r \in SinkSet : Stored(r) \subseteq Stored(r)' /\ Durable(r) \subseteq Durable(r)'
    /\ pending' \in [SinkSet -> Seq(Nat)] /\ lost' \in [SinkSet -> SUBSET Nat]
    /\ \A r \in SinkSet \ {s} : pending'[r] = pending[r] /\ lost'[r] = lost[r]
    /\ lost[s] \subseteq lost'[s]
    /\ ToSet(pending[s]) \subseteq InHand(s)'
    /\ \/ UNCHANGED <<batch, at, acked>>
       \/ /\ Return(s)
          /\ ToSet(batch) \subseteq InHand(s)'
          /\ flushLog = 1 => ToSet(batch) \subseteq Stored(s)' \cup lost'[s]
          /\ flushLog = 2 => ToSet(batch) \subseteq Durable(s)' \cup lost'[s]

(* Such a step keeps what has been promised. *)
LEMMA MovesKeep ==
    ASSUME FlushInv, NEW s \in SinkSet, Moves(s)
    PROVE  KeptInv' /\ PromiseInv'
<1>1. SinkSet' = SinkSet /\ Faults' = Faults /\ flushLog' = flushLog
      /\ proc' = proc /\ first' = first
  BY DEF Moves, env, SinkSet, Sinks, Faults
<1>2. ASSUME NEW r \in SinkSet
      PROVE  /\ Stored(r) \subseteq Stored(r)' /\ Durable(r) \subseteq Durable(r)'
             /\ lost[r] \subseteq lost'[r] /\ InHand(r) \subseteq InHand(r)'
  <2>1. CASE r = s BY <2>1 DEF Moves, InHand
  <2>2. CASE r # s BY <2>2 DEF Moves, InHand
  <2>3. QED BY <2>1, <2>2
<1>3. ASSUME NEW r \in SinkSet
      PROVE  \/ acked'[r] = acked[r]
             \/ /\ acked'[r] = acked[r] \cup ToSet(batch)
                /\ ToSet(batch) \subseteq InHand(r)'
                /\ flushLog = 1 => ToSet(batch) \subseteq Stored(r)' \cup lost'[r]
                /\ flushLog = 2 => ToSet(batch) \subseteq Durable(r)' \cup lost'[r]
  <2>1. CASE UNCHANGED acked BY <2>1
  <2>2. CASE Return(s)
    <3>1. acked' = [acked EXCEPT ![s] = @ \cup ToSet(batch)] /\ DOMAIN acked = SinkSet
      BY <2>2 DEF Return, FlushInv, FlushTypes
    <3>2. CASE r # s BY <3>1, <3>2
    <3>3. CASE r = s
      <4>1. CASE UNCHANGED <<batch, at, acked>> BY <4>1
      <4>2. CASE ~UNCHANGED <<batch, at, acked>> BY <3>1, <3>3, <4>2 DEF Moves
      <4>3. QED BY <4>1, <4>2
    <3>4. QED BY <3>2, <3>3
  <2>3. QED BY <2>1, <2>2 DEF Moves
<1>4. KeptInv'
  BY <1>1, <1>2, <1>3 DEF FlushInv, KeptInv, Moves
<1>5. PromiseInv'
  BY <1>1, <1>2, <1>3 DEF FlushInv, PromiseInv
<1>6. QED BY <1>4, <1>5

(* The sink that RealFlush has reached. *)
LEMMA SinkReached ==
    ASSUME FlushTypes, NEW s, NEW g, In(s, g)
    PROVE  /\ s \in SinkSet /\ at \in 1 .. Len(Sinks) /\ Sinks[at] = s
           /\ proc = "up" /\ at # 0 /\ stage = g
BY SinksShape DEF In, FlushTypes

(* The types that a step of Flush could break. *)
LEMMA MovesTypes ==
    ASSUME FlushInv, NEW s \in SinkSet, Moves(s), at \in 1 .. Len(Sinks),
           stage' \in {"init", "fwrite", "fflush", "fsync"},
           curSize' \in Nat, cnt' \in Nat \ {0},
           fs' \in [SinkSet -> Names \cup {NoFile}],
           \A r \in SinkSet : /\ fs'[r] \in NamesOf(r) \cup {NoFile}
                              /\ fs'[r] = NoFile => pending'[r] = <<>>
    PROVE  FlushTypes'
<1>1. SinkSet' = SinkSet /\ Sinks' = Sinks /\ Stamp' = Stamp /\ Names' = Names
      /\ \A r : NamesOf(r)' = NamesOf(r)
  BY DEF Moves, env, SinkSet, Sinks, Stamp, Names, NamesOf, RollNames, Stamps
<1>2. ToSet(batch) \subseteq 1 .. given
  BY DEF FlushInv, FlushTypes, ToSet
<1>3. acked' \in [SinkSet -> SUBSET (1 .. given)]
  <2>1. acked \in [SinkSet -> SUBSET (1 .. given)]
    BY DEF FlushInv, FlushTypes
  <2>2. acked' = acked \/ acked' = [acked EXCEPT ![s] = @ \cup ToSet(batch)]
    BY DEF Moves, Return
  <2>3. QED BY <1>2, <2>1, <2>2
<1>4. /\ at' \in 0 .. Len(Sinks)
      /\ batch' \in Seq(1 .. given) /\ Len(batch') <= given
  <2>1. Len(Sinks) \in Nat /\ given \in Nat
    BY SinksShape DEF FlushInv, FlushTypes
  <2>2. CASE UNCHANGED <<batch, at, acked>>
    BY <2>2 DEF FlushInv, FlushTypes
  <2>3. CASE Return(s)
    <3>1. at' \in 0 .. Len(Sinks)
      BY <2>1, <2>3 DEF Return
    <3>2. batch' = batch \/ batch' = <<>>
      BY <2>3 DEF Return
    <3>3. <<>> \in Seq(1 .. given) /\ Len(<<>>) = 0
      OBVIOUS
    <3>4. batch \in Seq(1 .. given) /\ Len(batch) <= given
      BY DEF FlushInv, FlushTypes
    <3>5. batch' \in Seq(1 .. given) /\ Len(batch') <= given
      <4>1. CASE batch' = batch BY <3>4, <4>1
      <4>2. CASE batch' = <<>> BY <2>1, <3>3, <4>2
      <4>3. QED BY <3>2, <4>1, <4>2
    <3>6. QED BY <3>1, <3>5
  <2>4. QED BY <2>2, <2>3 DEF Moves
<1>5. at' = 0 => stage' = "init"
  BY DEF Moves, Return
<1>6. QED
  BY <1>1, <1>3, <1>4, <1>5 DEF Moves, env, FlushInv, FlushTypes

-----------------------------------------------------------------------------
(* Unwritten counts a batch until RollFileFlush has stored it. *)
LEMMA UnwrittenIs ==
    ASSUME NEW sinks, NEW i \in DOMAIN sinks, sinks[i] = Roll,
           \A j \in DOMAIN sinks : sinks[j] = Roll => j = i,
           NEW a, NEW g, NEW b
    PROVE  UnwrittenOf(sinks, a, g, b) =
              IF a # 0 /\ (a < i \/ (a = i /\ g \in {"init", "fwrite"}))
              THEN Len(b) ELSE 0
BY DEF UnwrittenOf

(* It is never more than the batch. *)
LEMMA UnwrittenNat == ASSUME FlushTypes PROVE Unwritten \in Nat /\ Unwritten <= Len(batch)
BY DEF Unwritten, UnwrittenOf, FlushTypes

(* A step that stays in Flush of sink s, or returns from it, leaves less to *)
(* write; one of RollFileFlush beyond fwrite leaves nothing.                *)
LEMMA UnwrittenFalls ==
    ASSUME FlushTypes, UNCHANGED setting, NEW s, NEW g, In(s, g),
           \/ /\ GoTo(stage') /\ stage' # "init"
              /\ g \in {"fflush", "fsync"} => stage' # "fwrite"
           \/ Return(s)
    PROVE  /\ Unwritten' \in Nat /\ Unwritten' <= Unwritten
           /\ s = Roll /\ stage' # "fwrite" => Unwritten' = 0
           /\ s = Roll /\ g \in {"init", "fwrite"} => Unwritten = Len(batch)
<1>1. /\ at \in 1 .. Len(Sinks) /\ Sinks[at] = s /\ stage = g
      /\ stage \in {"init", "fwrite", "fflush", "fsync"}
  BY SinkReached DEF FlushTypes
<1>2. /\ Len(Sinks) \in Nat /\ DOMAIN Sinks = 1 .. Len(Sinks)
      /\ \A j, k \in DOMAIN Sinks : Sinks[j] = Sinks[k] => j = k
  BY SinksShape
<1>3. Sinks' = Sinks /\ Len(batch) \in Nat
  BY DEF Sinks, FlushTypes
<1>4. CASE \A i \in DOMAIN Sinks : Sinks[i] # Roll
  <2>1. Unwritten = 0 /\ Unwritten' = 0
    BY <1>3, <1>4 DEF Unwritten, UnwrittenOf
  <2>2. s # Roll
    BY <1>1, <1>2, <1>4
  <2>3. QED BY <2>1, <2>2
<1>5. CASE \E i \in DOMAIN Sinks : Sinks[i] = Roll
  <2>1. PICK i \in DOMAIN Sinks : Sinks[i] = Roll
    BY <1>5
  <2>2. Unwritten = IF at # 0 /\ (at < i \/ (at = i /\ stage \in {"init", "fwrite"}))
                    THEN Len(batch) ELSE 0
    BY <1>2, <2>1, UnwrittenIs DEF Unwritten
  <2>3. Unwritten' = IF at' # 0 /\ (at' < i \/ (at' = i /\ stage' \in {"init", "fwrite"}))
                     THEN Len(batch') ELSE 0
    BY <1>2, <1>3, <2>1, UnwrittenIs DEF Unwritten
  <2>4. s = Roll <=> at = i
    BY <1>1, <1>2, <2>1
  <2>5. CASE GoTo(stage') /\ stage' # "init"
             /\ (g \in {"fflush", "fsync"} => stage' # "fwrite")
    <3>1. at' = at /\ batch' = batch
      BY <2>5 DEF GoTo
    <3>2. QED BY <1>1, <1>2, <1>3, <2>1, <2>2, <2>3, <2>4, <2>5, <3>1
  <2>6. CASE Return(s)
    <3>1. \/ at' = 0
          \/ at' = at + 1 /\ batch' = batch
      BY <2>6 DEF Return
    <3>2. QED BY <1>1, <1>2, <1>3, <2>1, <2>2, <2>3, <2>4, <3>1
  <2>7. QED BY <2>5, <2>6
<1>6. QED BY <1>4, <1>5

(* Arithmetic of Count: while a file lasts, when it rolls. *)
LEMMA CountBound ==
    ASSUME NEW c \in Nat, NEW a \in Nat, NEW u \in Nat, NEW m \in Nat,
           NEW b \in Nat, NEW v \in Nat, (c - 2) + a + u <= m, b + v <= a + u
    PROVE  (c - 2) + b + v <= m
OBVIOUS

LEMMA RollCount ==
    ASSUME NEW c \in Nat \ {0}, NEW a \in Nat, NEW u \in Nat, NEW v \in Nat, v <= u,
           NEW m \in Nat, NEW max \in Nat, m <= max,
           \/ c = 1 /\ u <= m
           \/ c >= 2 /\ a >= 1 /\ (c - 2) + a + u <= m
    PROVE  c \in 1 .. max + 1 /\ ((c + 1) - 2) + 0 + v <= m
OBVIOUS

LEMMA AddLess ==
    ASSUME NEW a \in Nat, NEW u \in Nat, NEW v \in Nat, v <= u
    PROVE  a + v <= a + u
OBVIOUS

(* The count goes on as long as the file stays. *)
LEMMA CountKept ==
    ASSUME FlushInv, UNCHANGED <<setting, given, fs, cnt>>, NEW s, NEW g, In(s, g),
           \/ /\ GoTo(stage') /\ stage' # "init"
              /\ g \in {"fflush", "fsync"} => stage' # "fwrite"
           \/ Return(s),
           s = Roll => fs[s] # NoFile,
           \/ curSize' = curSize
           \/ s = Roll /\ g = "fwrite" /\ stage' # "fwrite" /\ curSize' = curSize + Len(batch)
    PROVE  Count'
<1>1. /\ Unwritten' \in Nat /\ Unwritten' <= Unwritten
      /\ s = Roll /\ stage' # "fwrite" => Unwritten' = 0
      /\ s = Roll /\ g \in {"init", "fwrite"} => Unwritten = Len(batch)
  BY UnwrittenFalls DEF FlushInv
<1>2. Unwritten \in Nat /\ Len(batch) \in Nat
  BY UnwrittenNat DEF FlushInv, FlushTypes
<1>3. Sinks[at] = s /\ proc = "up"
  BY DEF In
<1>4. SinkSet' = SinkSet /\ curSize \in Nat /\ cnt \in Nat /\ given \in Nat
  BY DEF SinkSet, Sinks, FlushInv, FlushTypes
<1>5. SUFFICES ASSUME Roll \in SinkSet
               PROVE  \/ fs[Roll] = NoFile /\ cnt = 1 /\ curSize' = 0
                      \/ fs[Roll] # NoFile /\ cnt >= 2
                            /\ (cnt - 2) + curSize' + Unwritten' <= given
  BY <1>4 DEF Count
<1>6. CASE fs[Roll] = NoFile
  BY <1>3, <1>5, <1>6 DEF FlushInv, Count
<1>7. CASE fs[Roll] # NoFile
  <2>1. cnt >= 2 /\ (cnt - 2) + curSize + Unwritten <= given
    BY <1>3, <1>5, <1>7 DEF FlushInv, Count
  <2>2. curSize' \in Nat /\ curSize' + Unwritten' <= curSize + Unwritten
    <3>1. CASE curSize' = curSize
      <4>1. curSize + Unwritten' <= curSize + Unwritten
        BY <1>1, <1>2, <1>4, AddLess
      <4>2. QED BY <1>4, <3>1, <4>1
    <3>2. CASE s = Roll /\ g = "fwrite" /\ stage' # "fwrite" /\ curSize' = curSize + Len(batch)
      BY <1>1, <1>2, <1>4, <3>2
    <3>3. QED BY <3>1, <3>2
  <2>3. (cnt - 2) + curSize' + Unwritten' <= given
    BY <1>1, <1>2, <1>4, <2>1, <2>2, CountBound
  <2>4. QED BY <1>7, <2>1, <2>3
<1>8. QED BY <1>6, <1>7

(* Bytes go out up to the k-th of those a sink has. *)
LEMMA Output ==
    ASSUME FlushTypes, NEW s \in SinkSet, fs[s] # NoFile, UNCHANGED <<setting, synced>>,
           NEW all \in Seq(Nat), NEW k \in 0 .. Len(all), ToFile(s, SubSeq(all, 1, k))
    PROVE  LET rest == SubSeq(all, k + 1, Len(all)) IN
           /\ Grow
           /\ rest \in Seq(Nat) /\ (k = Len(all) => ToSet(rest) = {})
           /\ fs[s] \in NamesOf(s) /\ fs[s] \in Names
           /\ ToSet(kernel[fs[s]]) \subseteq ToSet(kernel'[fs[s]])
           /\ ToSet(all) \subseteq ToSet(kernel'[fs[s]]) \cup ToSet(rest)
           /\ ToSet(all) \subseteq Stored(s)' \cup ToSet(rest)
<1> DEFINE rest == SubSeq(all, k + 1, Len(all))
<1>1. /\ SubSeq(all, 1, k) \in Seq(Nat) /\ rest \in Seq(Nat)
      /\ ToSet(all) = ToSet(SubSeq(all, 1, k)) \cup ToSet(rest)
  BY HoldsCut
<1>2. /\ Grow /\ fs[s] \in NamesOf(s) /\ fs[s] \in Names
      /\ ToSet(kernel'[fs[s]]) = ToSet(kernel[fs[s]]) \cup ToSet(SubSeq(all, 1, k))
      /\ ToSet(SubSeq(all, 1, k)) \subseteq Stored(s)'
  BY <1>1, ToFileGrows
<1>3. ASSUME k = Len(all) PROVE ToSet(rest) = {}
  <2>1. DOMAIN rest = {}
    BY <1>3
  <2>2. QED BY <2>1 DEF ToSet
<1>4. QED BY <1>1, <1>2, <1>3

(* The bytes of a sink and of the batch together. *)
LEMMA Bytes ==
    ASSUME FlushTypes, NEW s \in SinkSet
    PROVE  /\ batch \in Seq(Nat) /\ pending[s] \in Seq(Nat)
           /\ pending[s] \o batch \in Seq(Nat)
           /\ ToSet(pending[s] \o batch) = ToSet(pending[s]) \cup ToSet(batch)
<1>1. given \in Nat /\ batch \in Seq(1 .. given) /\ pending[s] \in Seq(Nat)
  BY DEF FlushTypes
<1>2. batch \in Seq(Nat)
  BY <1>1
<1>3. QED BY <1>1, <1>2, HoldsConcat

-----------------------------------------------------------------------------
(* The steps of Flush: the file stays. *)
LEMMA KeepFileKeeps == ASSUME FlushInv, NEW s, KeepFile(s) PROVE FlushInv'
<1> USE DEF FlushInv
<1>1. /\ s \in SinkSet /\ at \in 1 .. Len(Sinks) /\ Sinks[at] = s
      /\ proc = "up" /\ at # 0 /\ In(s, "init")
  BY SinkReached DEF KeepFile
<1>2. /\ stage' = "fwrite" /\ GoTo(stage')
      /\ UNCHANGED <<proc, env, batch, at, acked, fs, pending, roll, files,
                     given, first, lost>>
  BY DEF KeepFile, GoTo
<1>3. Grow
  BY <1>2, GrowSame DEF env, files
<1>4. \A r \in SinkSet : Stored(r) \subseteq Stored(r)' /\ Durable(r) \subseteq Durable(r)'
  BY <1>3, GrowKeeps
<1>5. Moves(s)
  BY <1>1, <1>2, <1>4 DEF Moves, InHand, FlushTypes, files
<1>6. FlushTypes'
  BY <1>1, <1>2, <1>5, MovesTypes DEF FlushTypes, roll
<1>7. Count'
  <2>1. s = Roll => fs[s] # NoFile
    BY DEF KeepFile, NeedsRoll, Roll
  <2>2. UNCHANGED <<setting, given, fs, cnt>> /\ curSize' = curSize
    BY <1>2 DEF env, roll
  <2>3. QED BY <1>1, <1>2, <2>1, <2>2, CountKept
<1>8. Progress'
  BY <1>2 DEF Progress
<1>9. QED BY <1>1, <1>5, <1>6, <1>7, <1>8, MovesKeep

(* fwrite hands the batch over, or part of it stays in stdio. *)
LEMMA FwriteKeeps == ASSUME FlushInv, NEW s, Fwrite(s) PROVE FlushInv'
<1> USE DEF FlushInv
<1>1. /\ s \in SinkSet /\ at \in 1 .. Len(Sinks) /\ Sinks[at] = s
      /\ proc = "up" /\ at # 0 /\ In(s, "fwrite") /\ fs[s] # NoFile
  BY SinkReached DEF Fwrite
<1>2. UNCHANGED <<proc, env, fs, cnt, synced, given, first, lost>>
  BY DEF Fwrite
<1> DEFINE all == pending[s] \o batch
<1>3. PICK k \in 0 .. Len(all) :
         /\ ToFile(s, SubSeq(all, 1, k))
         /\ pending' = [pending EXCEPT ![s] = SubSeq(all, k + 1, Len(all))]
  BY DEF Fwrite
<1> DEFINE rest == SubSeq(all, k + 1, Len(all))
<1>4. all \in Seq(Nat) /\ ToSet(all) = ToSet(pending[s]) \cup ToSet(batch)
  BY <1>1, Bytes
<1> HIDE DEF all
<1>5. /\ Grow /\ rest \in Seq(Nat)
      /\ ToSet(all) \subseteq ToSet(kernel'[fs[s]]) \cup ToSet(rest)
      /\ ToSet(all) \subseteq Stored(s)' \cup ToSet(rest)
  BY <1>1, <1>2, <1>3, <1>4, Output DEF env
<1> HIDE DEF rest
<1>6. pending' = [pending EXCEPT ![s] = rest] /\ pending'[s] = rest
  BY <1>1, <1>3 DEF rest, FlushTypes
<1>7. \/ stage' = "fflush" /\ GoTo(stage') /\ flushLog \in {1, 2}
      \/ stage' = "init" /\ Return(s) /\ flushLog \notin {1, 2}
  BY DEF Fwrite, GoTo, Return
<1>8. \A r \in SinkSet : Stored(r) \subseteq Stored(r)' /\ Durable(r) \subseteq Durable(r)'
  BY <1>5, GrowKeeps
<1>9. ToSet(pending[s]) \subseteq InHand(s)' /\ ToSet(batch) \subseteq InHand(s)'
  BY <1>4, <1>5, <1>6 DEF InHand
<1>10. Moves(s)
  <2>1. /\ kernel' \in [Names -> Seq(Nat)] /\ synced' \in [Names -> Nat]
        /\ \A f \in Names : synced'[f] <= Len(kernel'[f])
    BY <1>1, <1>2, <1>5, GrowKeeps DEF Grow, FlushTypes
  <2>2. /\ pending' \in [SinkSet -> Seq(Nat)] /\ lost' \in [SinkSet -> SUBSET Nat]
        /\ \A r \in SinkSet \ {s} : pending'[r] = pending[r] /\ lost'[r] = lost[r]
        /\ lost[s] \subseteq lost'[s]
    BY <1>2, <1>5, <1>6 DEF FlushTypes
  <2>3. \/ UNCHANGED <<batch, at, acked>>
        \/ /\ Return(s)
           /\ ToSet(batch) \subseteq InHand(s)'
           /\ flushLog = 1 => ToSet(batch) \subseteq Stored(s)' \cup lost'[s]
           /\ flushLog = 2 => ToSet(batch) \subseteq Durable(s)' \cup lost'[s]
    BY <1>7, <1>9 DEF GoTo
  <2>4. QED BY <1>1, <1>2, <1>8, <1>9, <2>1, <2>2, <2>3 DEF Moves
<1>11. curSize' = IF s = Roll THEN curSize + Len(batch) ELSE curSize
  BY DEF Fwrite, Roll
<1>12. FlushTypes'
  <2>1. curSize' \in Nat /\ cnt' \in Nat \ {0}
    BY <1>2, <1>11 DEF FlushTypes
  <2>2. \A r \in SinkSet : /\ fs'[r] \in NamesOf(r) \cup {NoFile}
                           /\ fs'[r] = NoFile => pending'[r] = <<>>
    BY <1>1, <1>2, <1>6 DEF FlushTypes
  <2>3. fs' \in [SinkSet -> Names \cup {NoFile}]
    BY <1>2 DEF FlushTypes
  <2>4. QED BY <1>1, <1>7, <1>10, <2>1, <2>2, <2>3, MovesTypes
<1>13. Count'
  BY <1>1, <1>2, <1>7, <1>11, CountKept DEF env
<1>14. Progress'
  <2>1. CASE stage' = "init" BY <2>1 DEF Progress
  <2>2. CASE stage' = "fflush" /\ GoTo(stage')
    <3>1. at' = at /\ batch' = batch /\ Sinks' = Sinks
      BY <1>2, <2>2 DEF GoTo, env, Sinks
    <3>2. ToSet(batch) \subseteq lost'[s] \cup ToSet(kernel'[fs[s]]) \cup ToSet(pending'[s])
      BY <1>4, <1>5, <1>6
    <3>3. QED BY <1>1, <1>2, <2>2, <3>1, <3>2 DEF Progress
  <2>3. QED BY <1>7, <2>1, <2>2
<1>15. QED BY <1>1, <1>10, <1>12, <1>13, <1>14, MovesKeep

(* fflush empties stdio. *)
LEMMA FflushKeepsAll == ASSUME FlushInv, NEW s, Fflush(s) PROVE FlushInv'
<1> USE DEF FlushInv
<1>1. /\ s \in SinkSet /\ at \in 1 .. Len(Sinks) /\ Sinks[at] = s
      /\ proc = "up" /\ at # 0 /\ In(s, "fflush") /\ stage = "fflush"
  BY SinkReached DEF Fflush
<1>2. /\ UNCHANGED <<proc, env, fs, roll, synced, given, first, lost>>
      /\ ToFile(s, pending[s]) /\ pending' = [pending EXCEPT ![s] = <<>>]
  BY DEF Fflush
<1>3. fs[s] # NoFile /\ ToSet(batch) \subseteq
                            lost[s] \cup ToSet(kernel[fs[s]]) \cup ToSet(pending[s])
  BY <1>1 DEF Progress
<1>4. pending[s] \in Seq(Nat)
  BY <1>1, Bytes
<1>5. /\ Grow /\ fs[s] \in NamesOf(s) /\ fs[s] \in Names
      /\ ToSet(kernel'[fs[s]]) = ToSet(kernel[fs[s]]) \cup ToSet(pending[s])
  BY <1>1, <1>2, <1>3, <1>4, ToFileGrows DEF env
<1>6. NamesOf(s)' = NamesOf(s)
  BY <1>2 DEF env, NamesOf, RollNames, Stamps, Stamp
<1>7. /\ ToSet(pending[s]) \subseteq Stored(s)'
      /\ ToSet(batch) \subseteq lost'[s] \cup ToSet(kernel'[fs[s]])
      /\ ToSet(batch) \subseteq lost'[s] \cup Stored(s)'
  BY <1>2, <1>3, <1>5, <1>6 DEF Stored
<1>8. \/ stage' = "fsync" /\ GoTo(stage') /\ flushLog = 2
      \/ stage' = "init" /\ Return(s) /\ flushLog # 2
  BY DEF Fflush, GoTo, Return
<1>9. Moves(s)
  <2>1. /\ kernel' \in [Names -> Seq(Nat)] /\ synced' \in [Names -> Nat]
        /\ \A f \in Names : synced'[f] <= Len(kernel'[f])
    BY <1>1, <1>2, <1>5, GrowKeeps DEF Grow, FlushTypes
  <2>2. \A r \in SinkSet : Stored(r) \subseteq Stored(r)' /\ Durable(r) \subseteq Durable(r)'
    BY <1>5, GrowKeeps
  <2>3. /\ pending' \in [SinkSet -> Seq(Nat)] /\ lost' \in [SinkSet -> SUBSET Nat]
        /\ \A r \in SinkSet \ {s} : pending'[r] = pending[r] /\ lost'[r] = lost[r]
        /\ lost[s] \subseteq lost'[s]
    <3>1. <<>> \in Seq(Nat) /\ pending \in [SinkSet -> Seq(Nat)]
             /\ lost \in [SinkSet -> SUBSET Nat]
      BY DEF FlushTypes
    <3>2. QED BY <1>2, <3>1
  <2>4. ToSet(pending[s]) \subseteq InHand(s)' /\ ToSet(batch) \subseteq InHand(s)'
    BY <1>7 DEF InHand
  <2>5. \/ UNCHANGED <<batch, at, acked>>
        \/ /\ Return(s)
           /\ flushLog = 1 => ToSet(batch) \subseteq Stored(s)' \cup lost'[s]
           /\ flushLog = 2 => ToSet(batch) \subseteq Durable(s)' \cup lost'[s]
    BY <1>7, <1>8 DEF GoTo
  <2>6. QED BY <1>1, <1>2, <2>1, <2>2, <2>3, <2>4, <2>5 DEF Moves
<1>10. FlushTypes'
  <2>1. \A r \in SinkSet : /\ fs'[r] \in NamesOf(r) \cup {NoFile}
                           /\ fs'[r] = NoFile => pending'[r] = <<>>
    BY <1>1, <1>2, <1>3 DEF FlushTypes
  <2>2. curSize' \in Nat /\ cnt' \in Nat \ {0} /\ fs' \in [SinkSet -> Names \cup {NoFile}]
    BY <1>2 DEF FlushTypes, roll
  <2>3. QED BY <1>1, <1>8, <1>9, <2>1, <2>2, MovesTypes
<1>11. Count'
  BY <1>1, <1>2, <1>3, <1>8, CountKept DEF env, roll
<1>12. Progress'
  <2>1. CASE stage' = "init" BY <2>1 DEF Progress
  <2>2. CASE stage' = "fsync" /\ GoTo(stage') /\ flushLog = 2
    <3>1. at' = at /\ batch' = batch /\ Sinks' = Sinks /\ flushLog' = flushLog
      BY <1>2, <2>2 DEF GoTo, env, Sinks
    <3>2. QED BY <1>1, <1>2, <1>3, <1>7, <2>2, <3>1 DEF Progress
  <2>3. QED BY <1>8, <2>1, <2>2
<1>13. QED BY <1>1, <1>9, <1>10, <1>11, <1>12, MovesKeep

(* fsync puts the file on the disk. *)
LEMMA FsyncKeeps == ASSUME FlushInv, NEW s, Fsync(s) PROVE FlushInv'
<1> USE DEF FlushInv
<1>1. /\ s \in SinkSet /\ at \in 1 .. Len(Sinks) /\ Sinks[at] = s
      /\ proc = "up" /\ at # 0 /\ In(s, "fsync") /\ stage = "fsync"
  BY SinkReached DEF Fsync
<1>2. /\ UNCHANGED <<proc, env, fs, pending, roll, kernel, given, first, lost>>
      /\ synced' = [synced EXCEPT ![fs[s]] = Len(kernel[fs[s]])]
      /\ Return(s) /\ stage' = "init"
  BY DEF Fsync, Return
<1>3. /\ fs[s] # NoFile /\ flushLog = 2
      /\ ToSet(batch) \subseteq lost[s] \cup ToSet(kernel[fs[s]])
  BY <1>1 DEF Progress
<1>4. fs[s] \in NamesOf(s) /\ fs[s] \in Names /\ NamesOf(s) \subseteq Names
  BY <1>1, <1>3, SinksShape, NamesDisjoint DEF FlushTypes
<1>5. \A r : NamesOf(r)' = NamesOf(r)
  BY <1>2 DEF env, NamesOf, RollNames, Stamps, Stamp
<1>6. ASSUME NEW f \in Names
      PROVE  /\ synced'[f] \in Nat /\ synced'[f] <= Len(kernel[f])
             /\ ToSet(SubSeq(kernel[f], 1, synced[f]))
                    \subseteq ToSet(SubSeq(kernel[f], 1, synced'[f]))
  <2>1. kernel[f] \in Seq(Nat) /\ synced[f] \in 0 .. Len(kernel[f])
    BY DEF FlushTypes
  <2>2. CASE f = fs[s]
    <3>1. synced'[f] = Len(kernel[f])
      BY <1>2, <2>2 DEF FlushTypes
    <3>2. synced'[f] \in Nat /\ synced'[f] <= Len(kernel[f])
      BY <2>1, <3>1
    <3>3. SubSeq(kernel[f], 1, Len(kernel[f])) = kernel[f]
      BY <2>1
    <3>4. SubSeq(kernel[f], 1, synced'[f]) = kernel[f]
      BY <3>1, <3>3
    <3>5. ToSet(SubSeq(kernel[f], 1, synced[f])) \subseteq ToSet(kernel[f])
      BY <2>1, HoldsCut
    <3>6. QED BY <3>2, <3>4, <3>5
  <2>3. CASE f # fs[s]
    <3>1. synced'[f] = synced[f]
      BY <1>2, <2>3 DEF FlushTypes
    <3>2. QED BY <2>1, <3>1
  <2>4. QED BY <2>2, <2>3
<1>7. ToSet(batch) \subseteq lost[s] \cup Durable(s)'
  <2>1. kernel[fs[s]] \in Seq(Nat) /\ synced'[fs[s]] = Len(kernel[fs[s]])
    BY <1>2, <1>4 DEF FlushTypes
  <2>2. SubSeq(kernel[fs[s]], 1, synced'[fs[s]]) = kernel[fs[s]]
    BY <2>1
  <2>3. ToSet(kernel[fs[s]]) \subseteq Durable(s)'
    BY <1>2, <1>4, <1>5, <2>2 DEF Durable
  <2>4. QED BY <1>3, <2>3
<1>8. ASSUME NEW r \in SinkSet
      PROVE  Stored(r) \subseteq Stored(r)' /\ Durable(r) \subseteq Durable(r)'
  <2>1. NamesOf(r) \subseteq Names
    BY SinksShape, NamesDisjoint
  <2>2. QED BY <1>2, <1>5, <1>6, <2>1 DEF Stored, Durable
<1>9. Moves(s)
  <2>1. synced' \in [Names -> Nat] /\ \A f \in Names : synced'[f] <= Len(kernel'[f])
    BY <1>2, <1>6 DEF FlushTypes
  <2>2. ToSet(pending[s]) \subseteq InHand(s)' /\ ToSet(batch) \subseteq InHand(s)'
    <3>1. fs[s] \in NamesOf(s)' /\ kernel'[fs[s]] = kernel[fs[s]]
      BY <1>2, <1>4, <1>5
    <3>2. ToSet(kernel[fs[s]]) \subseteq Stored(s)'
      BY <3>1 DEF Stored
    <3>3. QED BY <1>2, <1>3, <3>2 DEF InHand
  <2>3. /\ kernel' \in [Names -> Seq(Nat)] /\ pending' \in [SinkSet -> Seq(Nat)]
        /\ lost' \in [SinkSet -> SUBSET Nat]
    BY <1>2 DEF FlushTypes
  <2>4. QED BY <1>1, <1>2, <1>3, <1>7, <1>8, <2>1, <2>2, <2>3 DEF Moves
<1>10. FlushTypes'
  <2>1. curSize' \in Nat /\ cnt' \in Nat \ {0} /\ fs' \in [SinkSet -> Names \cup {NoFile}]
    BY <1>2 DEF FlushTypes, roll
  <2>2. \A r \in SinkSet : /\ fs'[r] \in NamesOf(r) \cup {NoFile}
                           /\ fs'[r] = NoFile => pending'[r] = <<>>
    BY <1>2 DEF FlushTypes
  <2>3. QED BY <1>1, <1>2, <1>9, <2>1, <2>2, MovesTypes
<1>11. Count'
  BY <1>1, <1>2, <1>3, CountKept DEF env, roll
<1>12. Progress'
  BY <1>2 DEF Progress
<1>13. QED BY <1>1, <1>9, <1>10, <1>11, <1>12, MovesKeep

(* What a failed write drops is counted as lost. *)
LEMMA WriteFailsKeeps == ASSUME FlushInv, NEW s, WriteFails(s) PROVE FlushInv'
<1> USE DEF FlushInv
<1>1. PICK g \in {"fwrite", "fflush"} :
         /\ s \in SinkSet /\ at \in 1 .. Len(Sinks) /\ Sinks[at] = s
         /\ proc = "up" /\ at # 0 /\ In(s, g) /\ stage = g /\ fs[s] # NoFile
  BY SinkReached DEF WriteFails
<1>2. /\ UNCHANGED <<proc, env, fs, cnt, synced, given, first>>
      /\ pending' = [pending EXCEPT ![s] = <<>>]
  BY DEF WriteFails
<1> DEFINE all == IF stage = "fwrite" THEN pending[s] \o batch ELSE pending[s]
<1>3. PICK k \in 0 .. Len(all) - 1 : ToFile(s, SubSeq(all, 1, k)) /\ Drop(s, all, k)
  BY DEF WriteFails
<1>4. /\ all \in Seq(Nat) /\ ToSet(pending[s]) \subseteq ToSet(all)
      /\ g = "fwrite" => ToSet(batch) \subseteq ToSet(all)
      /\ g = "fflush" => all = pending[s]
  BY <1>1, Bytes
<1> HIDE DEF all
<1> DEFINE rest == SubSeq(all, k + 1, Len(all))
<1>5. k \in 0 .. Len(all)
  BY <1>3, <1>4
<1>6. /\ Grow /\ rest \in Seq(Nat)
      /\ ToSet(kernel[fs[s]]) \subseteq ToSet(kernel'[fs[s]])
      /\ ToSet(all) \subseteq ToSet(kernel'[fs[s]]) \cup ToSet(rest)
      /\ ToSet(all) \subseteq Stored(s)' \cup ToSet(rest)
      /\ fs[s] \in NamesOf(s)
  BY <1>1, <1>2, <1>3, <1>4, <1>5, Output DEF env
<1>7. lost' = [lost EXCEPT ![s] = @ \cup ToSet(rest)]
  BY <1>3 DEF Drop
<1> HIDE DEF rest
<1>8. lost'[s] = lost[s] \cup ToSet(rest) /\ pending'[s] = <<>>
  BY <1>1, <1>2, <1>7 DEF FlushTypes
<1>9. /\ ToSet(pending[s]) \subseteq Stored(s)' \cup lost'[s]
      /\ ToSet(batch) \subseteq lost'[s] \cup ToSet(kernel'[fs[s]])
  <2>1. CASE g = "fwrite" BY <1>4, <1>6, <1>8, <2>1
  <2>2. CASE g = "fflush"
    <3>1. ToSet(batch) \subseteq lost[s] \cup ToSet(kernel[fs[s]]) \cup ToSet(pending[s])
      BY <1>1, <2>2 DEF Progress
    <3>2. QED BY <1>4, <1>6, <1>8, <2>2, <3>1
  <2>3. QED BY <1>1, <2>1, <2>2
<1>10. ToSet(batch) \subseteq Stored(s)' \cup lost'[s]
  <2>1. NamesOf(s)' = NamesOf(s)
    BY <1>2 DEF env, NamesOf, RollNames, Stamps, Stamp
  <2>2. QED BY <1>6, <1>9, <2>1 DEF Stored
<1>11. \/ stage' = "fflush" /\ GoTo(stage') /\ g = "fwrite" /\ flushLog \in {1, 2}
       \/ stage' = "fsync" /\ GoTo(stage') /\ g = "fflush" /\ flushLog = 2
       \/ stage' = "init" /\ Return(s) /\ flushLog # 2
  BY <1>1 DEF WriteFails, GoTo, Return
<1>12. Moves(s)
  <2>1. /\ kernel' \in [Names -> Seq(Nat)] /\ synced' \in [Names -> Nat]
        /\ \A f \in Names : synced'[f] <= Len(kernel'[f])
    BY <1>1, <1>2, <1>6, GrowKeeps DEF Grow, FlushTypes
  <2>2. \A r \in SinkSet : Stored(r) \subseteq Stored(r)' /\ Durable(r) \subseteq Durable(r)'
    BY <1>6, GrowKeeps
  <2>3. ToSet(rest) \in SUBSET Nat
    BY <1>6 DEF ToSet
  <2>4. /\ pending' \in [SinkSet -> Seq(Nat)] /\ lost' \in [SinkSet -> SUBSET Nat]
        /\ \A r \in SinkSet \ {s} : pending'[r] = pending[r] /\ lost'[r] = lost[r]
        /\ lost[s] \subseteq lost'[s]
    <3>1. /\ <<>> \in Seq(Nat) /\ pending \in [SinkSet -> Seq(Nat)]
          /\ lost \in [SinkSet -> SUBSET Nat]
      BY DEF FlushTypes
    <3>2. QED BY <1>2, <1>7, <1>8, <2>3, <3>1
  <2>5. ToSet(pending[s]) \subseteq InHand(s)' /\ ToSet(batch) \subseteq InHand(s)'
    BY <1>9, <1>10 DEF InHand
  <2>6. \/ UNCHANGED <<batch, at, acked>>
        \/ /\ Return(s)
           /\ flushLog = 1 => ToSet(batch) \subseteq Stored(s)' \cup lost'[s]
           /\ flushLog = 2 => ToSet(batch) \subseteq Durable(s)' \cup lost'[s]
    BY <1>10, <1>11 DEF GoTo
  <2>7. QED BY <1>1, <1>2, <2>1, <2>2, <2>4, <2>5, <2>6 DEF Moves
<1>13. /\ curSize' = IF s = Roll /\ g = "fwrite" THEN curSize + Len(batch) ELSE curSize
       /\ curSize' \in Nat
  BY <1>1 DEF WriteFails, Roll, FlushTypes
<1>14. FlushTypes'
  <2>1. \A r \in SinkSet : /\ fs'[r] \in NamesOf(r) \cup {NoFile}
                           /\ fs'[r] = NoFile => pending'[r] = <<>>
    BY <1>1, <1>2 DEF FlushTypes
  <2>2. cnt' \in Nat \ {0} /\ fs' \in [SinkSet -> Names \cup {NoFile}]
    BY <1>2 DEF FlushTypes
  <2>3. QED BY <1>1, <1>11, <1>12, <1>13, <2>1, <2>2, MovesTypes
<1>15. Count'
  <2>1. \/ /\ GoTo(stage') /\ stage' # "init"
           /\ g \in {"fflush", "fsync"} => stage' # "fwrite"
        \/ Return(s)
    BY <1>11
  <2>2. stage' # "fwrite"
    BY <1>11
  <2>3. \/ curSize' = curSize
        \/ s = Roll /\ g = "fwrite" /\ stage' # "fwrite" /\ curSize' = curSize + Len(batch)
    BY <1>13, <2>2
  <2>4. QED BY <1>1, <1>2, <2>1, <2>3, CountKept DEF env
<1>16. Progress'
  <2>1. CASE stage' = "init" BY <2>1 DEF Progress
  <2>2. CASE GoTo(stage') /\ stage' # "init"
    <3>1. at' = at /\ batch' = batch /\ Sinks' = Sinks /\ flushLog' = flushLog
      BY <1>2, <2>2 DEF GoTo, env, Sinks
    <3>2. QED BY <1>1, <1>2, <1>9, <1>11, <2>2, <3>1 DEF Progress
  <2>3. QED BY <1>11, <2>1, <2>2
<1>17. QED BY <1>1, <1>12, <1>14, <1>15, <1>16, MovesKeep

(* A roll writes out the old file before it leaves it. *)
LEMMA RollFileKeeps == ASSUME FlushInv, NEW s, RollFile(s) PROVE FlushInv'
<1> USE DEF FlushInv
<1>1. /\ s \in SinkSet /\ at \in 1 .. Len(Sinks) /\ Sinks[at] = s
      /\ proc = "up" /\ at # 0 /\ In(s, "init") /\ stage = "init" /\ s = Roll
  BY SinkReached DEF RollFile, NeedsRoll, Roll
<1>2. /\ UNCHANGED <<proc, env, synced, given, first>>
      /\ pending' = [pending EXCEPT ![s] = <<>>]
      /\ cnt' = cnt + 1 /\ curSize' = 0
      /\ GoTo(stage') /\ stage' = "fwrite"
  BY DEF RollFile, GoTo
<1>3. pending[s] \in Seq(Nat)
  BY <1>1, Bytes
<1>4. PICK k \in 0 .. Len(pending[s]) :
         /\ IF fs[s] = NoFile THEN UNCHANGED kernel ELSE ToFile(s, SubSeq(pending[s], 1, k))
         /\ Drop(s, pending[s], k)
  BY DEF RollFile
<1> DEFINE rest == SubSeq(pending[s], k + 1, Len(pending[s]))
<1>5. /\ Grow /\ rest \in Seq(Nat)
      /\ ToSet(pending[s]) \subseteq Stored(s)' \cup ToSet(rest)
  <2>1. CASE fs[s] = NoFile
    <3>1. Grow
      BY <1>2, <1>4, <2>1, GrowSame DEF env
    <3>2. ToSet(pending[s]) = {}
      BY <1>1, <2>1 DEF FlushTypes, ToSet
    <3>3. QED BY <1>3, <1>4, <3>1, <3>2, HoldsCut
  <2>2. CASE fs[s] # NoFile
    BY <1>1, <1>2, <1>3, <1>4, <2>2, Output DEF env
  <2>3. QED BY <2>1, <2>2
<1>6. lost' = [lost EXCEPT ![s] = @ \cup ToSet(rest)]
  BY <1>4 DEF Drop
<1> HIDE DEF rest
<1>7. lost'[s] = lost[s] \cup ToSet(rest) /\ pending'[s] = <<>>
  BY <1>1, <1>2, <1>6 DEF FlushTypes
<1>8. Moves(s)
  <2>1. /\ kernel' \in [Names -> Seq(Nat)] /\ synced' \in [Names -> Nat]
        /\ \A f \in Names : synced'[f] <= Len(kernel'[f])
    BY <1>1, <1>2, <1>5, GrowKeeps DEF Grow, FlushTypes
  <2>2. \A r \in SinkSet : Stored(r) \subseteq Stored(r)' /\ Durable(r) \subseteq Durable(r)'
    BY <1>5, GrowKeeps
  <2>3. ToSet(rest) \in SUBSET Nat
    BY <1>5 DEF ToSet
  <2>4. /\ pending' \in [SinkSet -> Seq(Nat)] /\ lost' \in [SinkSet -> SUBSET Nat]
        /\ \A r \in SinkSet \ {s} : pending'[r] = pending[r] /\ lost'[r] = lost[r]
        /\ lost[s] \subseteq lost'[s]
    <3>1. /\ <<>> \in Seq(Nat) /\ pending \in [SinkSet -> Seq(Nat)]
          /\ lost \in [SinkSet -> SUBSET Nat]
      BY DEF FlushTypes
    <3>2. QED BY <1>2, <1>6, <1>7, <2>3, <3>1
  <2>5. ToSet(pending[s]) \subseteq InHand(s)'
    BY <1>5, <1>7 DEF InHand
  <2>6. QED BY <1>1, <1>2, <2>1, <2>2, <2>4, <2>5 DEF Moves, GoTo
<1>9. /\ Unwritten \in Nat /\ Unwritten' \in Nat /\ Unwritten' <= Unwritten
      /\ Unwritten <= Len(batch)
  BY <1>1, <1>2, UnwrittenFalls, UnwrittenNat DEF env
<1>10. /\ given \in Nat /\ given <= MaxBytes /\ MaxBytes \in Nat /\ MaxSize \in Nat \ {0}
       /\ Len(batch) \in Nat /\ Len(batch) <= given /\ cnt \in Nat \ {0} /\ curSize \in Nat
  BY FlushAssumption DEF FlushTypes
<1>11. /\ cnt \in 1 .. MaxBytes + 1
       /\ (cnt' - 2) + curSize' + Unwritten' <= given
  <2>1. \/ cnt = 1 /\ Unwritten <= given
        \/ cnt >= 2 /\ curSize >= 1 /\ (cnt - 2) + curSize + Unwritten <= given
    <3>1. CASE fs[s] = NoFile
      <4>1. cnt = 1
        BY <1>1, <3>1 DEF Count
      <4>2. Unwritten <= given
        BY <1>9, <1>10
      <4>3. QED BY <4>1, <4>2
    <3>2. CASE fs[s] # NoFile
      <4>1. cnt >= 2 /\ (cnt - 2) + curSize + Unwritten <= given
        BY <1>1, <3>2 DEF Count
      <4>2. curSize >= MaxSize
        BY <3>2 DEF RollFile, NeedsRoll
      <4>3. curSize >= 1
        BY <1>10, <4>2
      <4>4. QED BY <4>1, <4>3
    <3>3. QED BY <3>1, <3>2
  <2>2. cnt \in 1 .. MaxBytes + 1 /\ ((cnt + 1) - 2) + 0 + Unwritten' <= given
    BY <1>9, <1>10, <2>1, RollCount
  <2>3. QED BY <1>2, <2>2
<1>12. PICK new \in NamesOf(s) \cup {NoFile} : fs' = [fs EXCEPT ![s] = new]
  <2>1. CreateFilename \in NamesOf(s)
    BY <1>1, <1>11 DEF CreateFilename, NamesOf, RollNames, Stamps, Roll, FlushTypes
  <2>2. QED BY <2>1 DEF RollFile
<1>13. /\ new \in Names \cup {NoFile} /\ fs'[s] = new
       /\ fs' \in [SinkSet -> Names \cup {NoFile}]
  <2>1. new \in Names \cup {NoFile}
    BY <1>1, <1>12, NamesDisjoint
  <2>2. QED BY <1>1, <1>12, <2>1 DEF FlushTypes
<1>14. FlushTypes'
  <2>1. \A r \in SinkSet : /\ fs'[r] \in NamesOf(r) \cup {NoFile}
                           /\ fs'[r] = NoFile => pending'[r] = <<>>
    BY <1>1, <1>2, <1>12, <1>13 DEF FlushTypes
  <2>2. curSize' \in Nat /\ cnt' \in Nat \ {0}
    BY <1>2, <1>10
  <2>3. QED BY <1>1, <1>2, <1>8, <1>13, <2>1, <2>2, MovesTypes
<1>15. Count'
  <2>1. cnt' >= 2 /\ proc' = proc /\ given' = given /\ Sinks'[at'] = Roll /\ at' # 0
    BY <1>1, <1>2, <1>10 DEF GoTo, env, Sinks
  <2>2. QED BY <1>2, <1>11, <2>1 DEF Count
<1>16. Progress'
  BY <1>2 DEF Progress
<1>17. QED BY <1>1, <1>8, <1>14, <1>15, <1>16, MovesKeep

-----------------------------------------------------------------------------
(* The first state. *)
LEMMA FlushInit == Init => FlushInv
<1> SUFFICES ASSUME Init PROVE FlushInv
  OBVIOUS
<1>1. setting \in Settings /\ time = 1 /\ 1 \in DOMAIN Stamp
  BY FlushAssumption DEF Init, Stamp
<1>2. Len(Sinks) \in Nat
  BY <1>1, FlushAssumption DEF Sinks
<1>3. given = 0 /\ first = 0 /\ MaxBytes \in Nat /\ <<>> \in Seq(1 .. given) /\ Len(<<>>) = 0
      /\ <<>> \in Seq(Nat)
  BY FlushAssumption DEF Init
<1>4. \A f \in Names : kernel[f] = <<>> /\ synced[f] = 0
  BY DEF Init
<1>5. fs \in [SinkSet -> Names \cup {NoFile}]
      /\ \A s \in SinkSet : /\ fs[s] \in NamesOf(s) \cup {NoFile}
                            /\ pending[s] = <<>>
  BY DEF Init, Names, NamesOf
<1>6. FlushTypes
  BY <1>1, <1>2, <1>3, <1>4, <1>5 DEF Init, FlushTypes
<1>7. Count
  BY DEF Init, Count, Roll
<1>8. Progress /\ KeptInv /\ PromiseInv
  BY DEF Init, Progress, KeptInv, PromiseInv
<1>9. QED BY <1>6, <1>7, <1>8 DEF FlushInv

(* What the names, the bytes and the promise of a state depend on. *)
LEMMA SameFiles ==
    ASSUME UNCHANGED <<setting, kernel, synced, acked, lost, flushLog>>
    PROVE  /\ SinkSet' = SinkSet /\ Sinks' = Sinks /\ Stamp' = Stamp /\ Names' = Names
           /\ \A s : NamesOf(s)' = NamesOf(s) /\ Stored(s)' = Stored(s)
           /\ PromiseInv => PromiseInv'
<1>1. /\ SinkSet' = SinkSet /\ Sinks' = Sinks /\ Stamp' = Stamp /\ Names' = Names
      /\ Faults' = Faults /\ \A s : NamesOf(s)' = NamesOf(s)
  BY DEF SinkSet, Sinks, Stamp, Stamps, Names, NamesOf, RollNames, Faults
<1>2. \A s : Stored(s)' = Stored(s) /\ Durable(s)' = Durable(s)
  BY <1>1 DEF Stored, Durable
<1>3. QED BY <1>1, <1>2 DEF PromiseInv

(* The process dies. *)
LEMMA DeathKeeps ==
    ASSUME FlushInv, proc' = "died",
           UNCHANGED <<env, batch, at, stage, fs, pending, roll, files, hist>>
    PROVE  FlushInv'
<1>1. FlushTypes' /\ PromiseInv'
  BY SameFiles DEF env, roll, files, hist, FlushInv, FlushTypes
<1>2. Count' /\ Progress' /\ KeptInv'
  BY DEF Count, Progress, KeptInv
<1>3. QED BY <1>1, <1>2 DEF FlushInv

(* The clock. *)
LEMMA TickKeeps == ASSUME FlushInv, Tick PROVE FlushInv'
<1>1. UNCHANGED <<setting, flushLog, proc, batch, at, stage, fs, pending, curSize, cnt,
                  kernel, synced, given, first, acked, lost>>
      /\ time' \in DOMAIN Stamp
  BY DEF Tick, roll, files, hist
<1>2. FlushTypes' /\ PromiseInv'
  BY <1>1, SameFiles DEF FlushInv, FlushTypes
<1>3. Count'
  BY <1>1, SameFiles DEF Count, Unwritten, FlushInv
<1>4. Progress'
  BY <1>1, SameFiles DEF Progress, FlushInv
<1>5. KeptInv'
  BY <1>1, SameFiles DEF KeptInv, InHand, FlushInv
<1>6. QED BY <1>2, <1>3, <1>4, <1>5 DEF FlushInv

(* The same of the parameters, for the next state. *)
LEMMA UnwrittenBound ==
    ASSUME NEW sinks, NEW a, NEW g, NEW b, Len(b) \in Nat
    PROVE  /\ UnwrittenOf(sinks, a, g, b) \in Nat /\ UnwrittenOf(sinks, a, g, b) <= Len(b)
           /\ a = 0 => UnwrittenOf(sinks, a, g, b) = 0
BY DEF UnwrittenOf

(* Arithmetic of Count when a batch comes in. *)
LEMMA CountMore ==
    ASSUME NEW c \in Nat, NEW a \in Nat, NEW u \in Nat, NEW v \in Nat,
           NEW m \in Nat, NEW n \in Nat, (c - 2) + a + u <= m, u = 0, v <= n
    PROVE  (c - 2) + a + v <= m + n
OBVIOUS

(* A batch comes in. *)
LEMMA RealFlushKeeps == ASSUME FlushInv, NEW n \in BatchSizes, RealFlush(n) PROVE FlushInv'
<1>1. /\ n \in Nat /\ proc = "up" /\ at = 0 /\ at' = 1 /\ stage = "init"
      /\ batch' = [i \in 1 .. n |-> given + i] /\ given' = given + n
      /\ given + n <= MaxBytes
      /\ UNCHANGED <<proc, setting, time, flushLog, stage, fs, pending, curSize, cnt,
                     kernel, synced, first, acked, lost>>
  BY FlushAssumption DEF RealFlush, env, roll, files, FlushInv, FlushTypes
<1>2. given \in Nat /\ given' \in Nat /\ 1 .. given \subseteq 1 .. given'
      /\ first \in 0 .. given'
  BY <1>1 DEF FlushInv, FlushTypes
<1>3. batch' \in Seq(1 .. given') /\ Len(batch') = n /\ n <= given'
  <2>1. \A i \in 1 .. n : given + i \in 1 .. given'
    BY <1>1, <1>2
  <2>2. QED BY <1>1, <1>2, <2>1
<1>4. at' \in 0 .. Len(Sinks)
  <2>1. Sinks \in Seq({"FileFlush", "RollFileFlush"}) /\ Sinks # <<>>
    BY FlushAssumption DEF Sinks, FlushInv, FlushTypes
  <2>2. QED BY <1>1, <2>1
<1>5. acked \in [SinkSet -> SUBSET (1 .. given')]
  BY <1>2 DEF FlushInv, FlushTypes
<1>6. FlushTypes' /\ PromiseInv'
  <2>1. /\ SinkSet' = SinkSet /\ Sinks' = Sinks /\ Stamp' = Stamp /\ Names' = Names
        /\ \A s : NamesOf(s)' = NamesOf(s)
        /\ PromiseInv => PromiseInv'
    BY <1>1, SameFiles
  <2>2. PromiseInv'
    BY <2>1 DEF FlushInv
  <2>3. given' <= MaxBytes /\ Len(batch') <= given'
    BY <1>1, <1>3
  <2>4. setting' \in Settings /\ time' \in DOMAIN Stamp'
    BY <1>1, <2>1 DEF FlushInv, FlushTypes
  <2>5. QED BY <1>1, <1>2, <1>3, <1>4, <1>5, <2>1, <2>2, <2>3, <2>4 DEF FlushInv, FlushTypes
<1>7. Count'
  <2>1. Unwritten' \in Nat /\ Unwritten' <= n
    BY <1>1, <1>3, UnwrittenBound DEF Unwritten
  <2>2. Unwritten = 0
    BY <1>1, UnwrittenBound DEF Unwritten, FlushInv, FlushTypes
  <2>3. curSize \in Nat /\ cnt \in Nat /\ SinkSet' = SinkSet
    BY <1>1, SameFiles DEF FlushInv, FlushTypes
  <2>4. (cnt - 2) + curSize + Unwritten <= given
            => (cnt - 2) + curSize + Unwritten' <= given + n
    BY <1>1, <1>2, <2>1, <2>2, <2>3, CountMore
  <2>5. QED BY <1>1, <2>3, <2>4 DEF Count, FlushInv
<1>8. Progress'
  BY <1>1 DEF Progress
<1>9. KeptInv'
  BY <1>1, SameFiles DEF KeptInv, InHand, FlushInv
<1>10. QED BY <1>6, <1>7, <1>8, <1>9 DEF FlushInv

(* exit() writes the stdio buffers: each file has one owner. *)
LEMMA ExitKeeps == ASSUME FlushInv, Exit PROVE FlushInv'
<1> USE DEF FlushInv
<1>1. /\ proc = "up" /\ proc' = "exited" /\ pending' = [s \in SinkSet |-> <<>>]
      /\ UNCHANGED <<setting, time, flushLog, batch, at, stage, fs, curSize, cnt, synced,
                     given, first, acked, lost>>
  BY DEF Exit, env, roll, hist
<1> DEFINE Open(f) == \E s \in SinkSet : fs[s] = f
           Owner(f) == CHOOSE s \in SinkSet : fs[s] = f
<1>2. kernel' = [f \in Names |-> IF Open(f) THEN kernel[f] \o pending[Owner(f)]
                                           ELSE kernel[f]]
  BY DEF Exit
<1>3. \A f : Open(f) => Owner(f) \in SinkSet /\ fs[Owner(f)] = f
  OBVIOUS
<1> HIDE DEF Open, Owner
<1>4. ASSUME NEW f \in Names
      PROVE  \E b \in Seq(Nat) : kernel'[f] = kernel[f] \o b /\ kernel'[f] \in Seq(Nat)
  <2>1. kernel[f] \in Seq(Nat) /\ <<>> \in Seq(Nat)
    BY DEF FlushTypes
  <2>2. CASE Open(f)
    <3>1. pending[Owner(f)] \in Seq(Nat)
      BY <1>3, <2>2 DEF FlushTypes
    <3>2. QED BY <1>2, <2>1, <2>2, <3>1, HoldsConcat
  <2>3. CASE ~Open(f)
    <3>1. kernel'[f] = kernel[f] /\ kernel[f] = kernel[f] \o <<>>
      BY <1>2, <2>1, <2>3
    <3>2. QED BY <2>1, <3>1
  <2>4. QED BY <2>2, <2>3
<1>5. Grow
  BY <1>1, <1>2, <1>4 DEF Grow
<1>6. \A s \in SinkSet : Stored(s) \subseteq Stored(s)' /\ Durable(s) \subseteq Durable(s)'
  BY <1>5, GrowKeeps
<1>7. ASSUME NEW s \in SinkSet PROVE ToSet(pending[s]) \subseteq Stored(s)'
  <2>1. CASE fs[s] = NoFile
    BY <2>1 DEF FlushTypes, ToSet
  <2>2. CASE fs[s] # NoFile
    <3>1. fs[s] \in NamesOf(s) /\ fs[s] \in Names
      BY <2>2, SinksShape, NamesDisjoint DEF FlushTypes
    <3>2. Open(fs[s]) /\ Owner(fs[s]) \in SinkSet /\ fs[Owner(fs[s])] = fs[s]
      BY <1>3 DEF Open
    <3>3. fs[s] \in NamesOf(Owner(fs[s]))
      BY <2>2, <3>2 DEF FlushTypes
    <3>4. Owner(fs[s]) = s
      BY <3>1, <3>2, <3>3, SinksShape, NamesDisjoint
    <3>5. kernel'[fs[s]] = kernel[fs[s]] \o pending[s]
      BY <1>2, <3>1, <3>2, <3>4
    <3>6. ToSet(pending[s]) \subseteq ToSet(kernel'[fs[s]])
      BY <3>1, <3>5, HoldsConcat DEF FlushTypes
    <3>7. NamesOf(s)' = NamesOf(s)
      BY <1>1 DEF NamesOf, RollNames, Stamps, Stamp
    <3>8. QED BY <3>1, <3>6, <3>7 DEF Stored
  <2>3. QED BY <2>1, <2>2
<1>8. /\ SinkSet' = SinkSet /\ Sinks' = Sinks /\ Stamp' = Stamp /\ Names' = Names
      /\ Faults' = Faults /\ \A s : NamesOf(s)' = NamesOf(s)
  BY <1>1 DEF SinkSet, Sinks, Stamp, Stamps, Names, NamesOf, RollNames, Faults
<1>9. FlushTypes'
  <2>1. /\ kernel' \in [Names -> Seq(Nat)] /\ synced' \in [Names -> Nat]
        /\ \A f \in Names : synced'[f] <= Len(kernel'[f])
    BY <1>1, <1>5, GrowKeeps DEF Grow, FlushTypes
  <2>2. /\ pending' \in [SinkSet -> Seq(Nat)]
        /\ \A s \in SinkSet : pending'[s] = <<>>
    BY <1>1
  <2>3. QED BY <1>1, <1>8, <2>1, <2>2 DEF FlushTypes
<1>10. KeptInv'
  BY <1>1, <1>6, <1>7, <1>8 DEF KeptInv, InHand
<1>11. PromiseInv'
  BY <1>1, <1>6, <1>8 DEF PromiseInv
<1>12. Count' /\ Progress'
  BY <1>1 DEF Count, Progress
<1>13. QED BY <1>9, <1>10, <1>11, <1>12

(* What was synced stays. *)
LEMMA PowerFailsKeeps == ASSUME FlushInv, PowerFails PROVE FlushInv'
<1> USE DEF FlushInv
<1>1. /\ "power" \in Faults /\ proc' = "died"
      /\ UNCHANGED <<setting, time, flushLog, batch, at, stage, fs, pending, curSize, cnt,
                     given, first, acked, lost>>
      /\ synced' = [f \in Names |-> Len(kernel'[f])]
  BY DEF PowerFails, env, roll, hist
<1>2. /\ SinkSet' = SinkSet /\ Sinks' = Sinks /\ Stamp' = Stamp /\ Names' = Names
      /\ Faults' = Faults /\ \A s : NamesOf(s)' = NamesOf(s)
  BY <1>1 DEF SinkSet, Sinks, Stamp, Stamps, Names, NamesOf, RollNames, Faults
<1>3. PICK torn : kernel' = [f \in Names |-> IF f \in torn
                                              THEN SubSeq(kernel[f], 1, synced[f])
                                              ELSE kernel[f]]
  BY DEF PowerFails
<1>4. ASSUME NEW f \in Names
      PROVE  /\ kernel'[f] \in Seq(Nat) /\ synced'[f] = Len(kernel'[f])
             /\ SubSeq(kernel'[f], 1, synced'[f]) = kernel'[f]
             /\ ToSet(SubSeq(kernel[f], 1, synced[f])) \subseteq ToSet(kernel'[f])
  <2>1. kernel[f] \in Seq(Nat) /\ synced[f] \in 0 .. Len(kernel[f])
    BY DEF FlushTypes
  <2>2. /\ SubSeq(kernel[f], 1, synced[f]) \in Seq(Nat)
        /\ ToSet(SubSeq(kernel[f], 1, synced[f])) \subseteq ToSet(kernel[f])
    BY <2>1, HoldsCut
  <2>3. /\ kernel'[f] \in Seq(Nat)
        /\ ToSet(SubSeq(kernel[f], 1, synced[f])) \subseteq ToSet(kernel'[f])
    BY <1>3, <2>1, <2>2
  <2>4. synced'[f] = Len(kernel'[f])
    BY <1>1
  <2>5. SubSeq(kernel'[f], 1, Len(kernel'[f])) = kernel'[f]
    BY <2>3
  <2>6. QED BY <2>3, <2>4, <2>5
<1>5. FlushTypes'
  <2>1. /\ kernel' \in [Names -> Seq(Nat)] /\ synced' \in [Names -> Nat]
        /\ \A f \in Names : synced'[f] <= Len(kernel'[f])
    <3>1. \A f \in Names : kernel'[f] \in Seq(Nat) /\ Len(kernel'[f]) \in Nat
      BY <1>4
    <3>2. kernel' \in [Names -> Seq(Nat)]
      BY <1>3, <3>1
    <3>3. synced' \in [Names -> Nat]
      BY <1>1, <3>1
    <3>4. QED BY <1>4, <3>1, <3>2, <3>3
  <2>2. QED BY <1>1, <1>2, <2>1 DEF FlushTypes
<1>6. ASSUME NEW s \in SinkSet PROVE Durable(s) \subseteq Durable(s)'
  <2>1. NamesOf(s) \subseteq Names
    BY SinksShape, NamesDisjoint
  <2>2. \A f \in NamesOf(s) : ToSet(SubSeq(kernel[f], 1, synced[f]))
                                  \subseteq ToSet(SubSeq(kernel'[f], 1, synced'[f]))
    BY <1>4, <2>1
  <2>3. QED BY <1>2, <2>2 DEF Durable
<1>7. PromiseInv'
  BY <1>1, <1>2, <1>6 DEF PromiseInv
<1>8. Count' /\ Progress' /\ KeptInv'
  BY <1>1 DEF Count, Progress, KeptInv
<1>9. QED BY <1>5, <1>7, <1>8

(* A new process starts with nothing promised. *)
LEMMA RestartKeeps == ASSUME FlushInv, Restart PROVE FlushInv'
<1> USE DEF FlushInv
<1>1. PICK opened \in {LogName, NoFile} : Construct(opened)
  BY DEF Restart
<1>2. /\ first' = given /\ UNCHANGED <<setting, time, flushLog, kernel, synced, given,
                                        acked, lost>>
      /\ batch' = <<>> /\ at' = 0 /\ stage' = "init" /\ curSize' = 0 /\ cnt' = 1
      /\ fs' = [s \in SinkSet |-> IF s = "FileFlush" THEN opened ELSE NoFile]
      /\ pending' = [s \in SinkSet |-> <<>>]
  BY <1>1 DEF Restart, Construct, env, files
<1>3. /\ SinkSet' = SinkSet /\ Sinks' = Sinks /\ Stamp' = Stamp /\ Names' = Names
      /\ \A s : NamesOf(s)' = NamesOf(s)
      /\ PromiseInv'
  BY <1>2, SameFiles
<1>4. FlushTypes'
  <2>1. /\ fs' \in [SinkSet -> Names \cup {NoFile}]
        /\ \A s \in SinkSet : fs'[s] \in NamesOf(s) \cup {NoFile}
    BY <1>1, <1>2 DEF Names, NamesOf
  <2>2. given \in Nat /\ first' \in 0 .. given /\ Len(Sinks) \in Nat
    BY <1>2, SinksShape DEF FlushTypes
  <2>3. /\ batch' \in Seq(1 .. given) /\ Len(batch') <= given
        /\ pending' \in [SinkSet -> Seq(Nat)] /\ \A s \in SinkSet : pending'[s] = <<>>
    BY <1>2, <2>2
  <2>4. QED BY <1>2, <1>3, <2>1, <2>2, <2>3 DEF FlushTypes
<1>5. Count'
  BY <1>2, <1>3 DEF Count, Roll
<1>6. Progress'
  BY <1>2 DEF Progress
<1>7. KeptInv'
  <2>1. \A s \in SinkSet : \A b \in acked'[s] : ~(b > first')
    BY <1>2 DEF FlushTypes
  <2>2. QED BY <1>3, <2>1 DEF KeptInv
<1>8. QED BY <1>3, <1>4, <1>5, <1>6, <1>7

-----------------------------------------------------------------------------
(* The invariant of the sinks: where the bytes are, and what flush_log says. *)
THEOREM FlushInvariant == Spec => []FlushInv
<1>1. Init => FlushInv
  BY FlushInit
<1>2. FlushInv /\ [Next]_vars => FlushInv'
  <2> SUFFICES ASSUME FlushInv, [Next]_vars PROVE FlushInv'
    OBVIOUS
  <2>1. ASSUME NEW n \in BatchSizes, RealFlush(n) PROVE FlushInv'
    BY <2>1, RealFlushKeeps
  <2>2. ASSUME NEW s \in SinkSet, Flush(s) PROVE FlushInv'
    <3>1. CASE FwriteNull(s) BY <3>1, DeathKeeps DEF FwriteNull
    <3>2. QED BY <2>2, <3>1, KeepFileKeeps, RollFileKeeps, FwriteKeeps, FflushKeepsAll,
                 FsyncKeeps, WriteFailsKeeps DEF Flush
  <2>3. CASE Tick BY <2>3, TickKeeps
  <2>4. CASE Exit BY <2>4, ExitKeeps
  <2>5. CASE Crash BY <2>5, DeathKeeps DEF Crash
  <2>6. CASE PowerFails BY <2>6, PowerFailsKeeps
  <2>7. CASE Restart BY <2>7, RestartKeeps
  <2>8. CASE UNCHANGED vars
    <3>1. UNCHANGED <<setting, flushLog, time, proc, batch, at, stage, fs, pending,
                      curSize, cnt, kernel, synced, given, first, acked, lost>>
      BY <2>8 DEF vars, env, roll, files, hist
    <3>2. FlushTypes' /\ PromiseInv'
      BY <3>1, SameFiles DEF FlushInv, FlushTypes
    <3>3. Count'
      BY <3>1, SameFiles DEF Count, Unwritten, FlushInv
    <3>4. Progress' /\ KeptInv'
      BY <3>1, SameFiles DEF Progress, KeptInv, InHand, FlushInv
    <3>5. QED BY <3>2, <3>3, <3>4 DEF FlushInv
  <2>9. QED BY <2>1, <2>2, <2>3, <2>4, <2>5, <2>6, <2>7, <2>8 DEF Next
<1>3. QED BY <1>1, <1>2, PTL DEF Spec

(* AsyncLogger.h:153-162, LogFlush.h: no byte that Flush has returned for   *)
(* is lost while the process lives, or when it exits normally, save by a    *)
(* write that failed.                                                       *)
THEOREM BytesKept == Spec => []Kept
<1>1. FlushInv => Kept
  BY DEF FlushInv, KeptInv, InHand, Kept
<1>2. QED BY <1>1, FlushInvariant, PTL

(* log/Util.h:160: flush_log 1 outlives the process, flush_log 2 the machine. *)
THEOREM PromiseKept == Spec => []FlushPromise
<1>1. FlushInv => FlushPromise
  BY DEF FlushInv, PromiseInv, FlushPromise
<1>2. QED BY <1>1, FlushInvariant, PTL
-----------------------------------------------------------------------------
(* The order of the bytes *)

Sorted(q) == \A i, j \in 1 .. Len(q) : i < j => q[i] < q[j]

(* The batch is still to be handed to sink s.                               *)
Waits(s) ==
    \E i \in DOMAIN Sinks :
        /\ Sinks[i] = s /\ at # 0
        /\ at < i \/ (at = i /\ stage \in {"init", "fwrite"})

(* The last byte sink s has been given. *)
Seen(s) == IF Waits(s) THEN given - Len(batch) ELSE given

(* The files k of a sink and its stdio buffer p, after it was given the     *)
(* bytes 1..n: each is sorted, what is in stdio comes after what is in any  *)
(* file, and no byte is in two files.                                       *)
Neat(k, names, p, n) ==
    /\ Sorted(p) /\ \A y \in ToSet(p) : 1 <= y /\ y <= n
    /\ \A f \in names :
          /\ Sorted(k[f]) /\ Len(k[f]) + Len(p) <= n
          /\ \A x \in ToSet(k[f]) : 1 <= x /\ x <= n /\ \A y \in ToSet(p) : x < y
    /\ \A f, g \in names : f # g => ToSet(k[f]) \cap ToSet(k[g]) = {}

OrderInv ==
    /\ \A i \in 1 .. Len(batch) : batch[i] = (given - Len(batch)) + i
    /\ \A s \in SinkSet : Neat(kernel, NamesOf(s), pending[s], Seen(s))

(* Sorted sequences, one after the other and cut in two. *)
LEMMA SortedConcat ==
    ASSUME NEW a \in Seq(Nat), NEW b \in Seq(Nat), Sorted(a), Sorted(b),
           \A x \in ToSet(a), y \in ToSet(b) : x < y
    PROVE  Sorted(a \o b)
<1>1. /\ Len(a \o b) = Len(a) + Len(b) /\ Len(a) \in Nat /\ Len(b) \in Nat
      /\ \A i \in 1 .. Len(a) : (a \o b)[i] = a[i] /\ a[i] \in ToSet(a)
      /\ \A i \in 1 .. Len(b) : (a \o b)[Len(a) + i] = b[i] /\ b[i] \in ToSet(b)
  BY DEF ToSet
<1>2. SUFFICES ASSUME NEW i \in 1 .. Len(a \o b), NEW j \in 1 .. Len(a \o b), i < j
               PROVE  (a \o b)[i] < (a \o b)[j]
  BY DEF Sorted
<1>3. CASE j <= Len(a)
  BY <1>1, <1>2, <1>3 DEF Sorted
<1>4. CASE i > Len(a)
  <2>1. i - Len(a) \in 1 .. Len(b) /\ j - Len(a) \in 1 .. Len(b) /\ i - Len(a) < j - Len(a)
    BY <1>1, <1>2, <1>4
  <2>2. /\ (a \o b)[Len(a) + (i - Len(a))] = b[i - Len(a)]
        /\ (a \o b)[Len(a) + (j - Len(a))] = b[j - Len(a)]
    BY <1>1, <2>1
  <2>3. Len(a) + (i - Len(a)) = i /\ Len(a) + (j - Len(a)) = j
    BY <1>1, <1>2
  <2>4. b[i - Len(a)] < b[j - Len(a)]
    BY <2>1 DEF Sorted
  <2>5. QED BY <2>2, <2>3, <2>4
<1>5. CASE i <= Len(a) /\ j > Len(a)
  <2>1. i \in 1 .. Len(a) /\ j - Len(a) \in 1 .. Len(b) /\ Len(a) + (j - Len(a)) = j
    BY <1>1, <1>2, <1>5
  <2>2. (a \o b)[i] \in ToSet(a) /\ (a \o b)[j] \in ToSet(b)
    BY <1>1, <2>1
  <2>3. QED BY <2>2
<1>6. QED BY <1>1, <1>2, <1>3, <1>4, <1>5

LEMMA SortedCut ==
    ASSUME NEW s \in Seq(Nat), NEW k \in 0 .. Len(s), Sorted(s)
    PROVE  /\ Sorted(SubSeq(s, 1, k)) /\ Sorted(SubSeq(s, k + 1, Len(s)))
           /\ Len(SubSeq(s, k + 1, Len(s))) = Len(s) - k
           /\ \A x \in ToSet(SubSeq(s, 1, k)), y \in ToSet(SubSeq(s, k + 1, Len(s))) : x < y
<1>0. /\ SubSeq(s, k + 1, Len(s)) \in Seq(Nat)
      /\ Len(SubSeq(s, k + 1, Len(s))) = Len(s) - k
      /\ \A i \in 1 .. Len(s) - k : SubSeq(s, k + 1, Len(s))[i] = s[k + i]
  OBVIOUS
<1> DEFINE a == SubSeq(s, 1, k)
           b == SubSeq(s, k + 1, Len(s))
<1>1. /\ Len(s) \in Nat /\ k \in Nat /\ k <= Len(s)
      /\ a \in Seq(Nat) /\ Len(a) = k /\ \A i \in 1 .. k : a[i] = s[i]
  OBVIOUS
<1>2. b \in Seq(Nat) /\ Len(b) = Len(s) - k /\ \A i \in 1 .. Len(s) - k : b[i] = s[k + i]
  BY <1>0
<1> HIDE DEF a, b
<1>3. Sorted(a)
  <2> SUFFICES ASSUME NEW i \in 1 .. k, NEW j \in 1 .. k, i < j PROVE a[i] < a[j]
    BY <1>1 DEF Sorted
  <2>1. i \in 1 .. Len(s) /\ j \in 1 .. Len(s)
    BY <1>1
  <2>2. s[i] < s[j]
    BY <2>1 DEF Sorted
  <2>3. QED BY <1>1, <2>2
<1>4. Sorted(b)
  <2> SUFFICES ASSUME NEW i \in 1 .. Len(s) - k, NEW j \in 1 .. Len(s) - k, i < j
               PROVE  b[i] < b[j]
    BY <1>2 DEF Sorted
  <2>1. k + i \in 1 .. Len(s) /\ k + j \in 1 .. Len(s) /\ k + i < k + j
    BY <1>1
  <2>2. s[k + i] < s[k + j]
    BY <2>1 DEF Sorted
  <2>3. QED BY <1>2, <2>2
<1>5. ASSUME NEW i \in 1 .. Len(a), NEW j \in 1 .. Len(b) PROVE a[i] < b[j]
  <2>1. i \in 1 .. Len(s) /\ k + j \in 1 .. Len(s) /\ i < k + j
    BY <1>1, <1>2
  <2>2. a[i] = s[i] /\ b[j] = s[k + j]
    BY <1>1, <1>2
  <2>3. QED BY <2>1, <2>2 DEF Sorted
<1>6. DOMAIN a = 1 .. Len(a) /\ DOMAIN b = 1 .. Len(b)
  BY <1>1, <1>2
<1>7. \A x \in ToSet(a), y \in ToSet(b) : x < y
  BY <1>5, <1>6 DEF ToSet
<1>8. QED BY <1>2, <1>3, <1>4, <1>7 DEF a, b

-----------------------------------------------------------------------------
(* Arithmetic of the lengths. *)
LEMMA SumMoves ==
    ASSUME NEW a \in Nat, NEW b \in Nat, NEW c \in Nat, NEW n \in Nat, a + b <= n
    PROVE  /\ a + (b + c) <= n + c
           /\ c <= b => (a + c) + (b - c) <= n /\ a + (b - c) <= n
OBVIOUS

(* What keeps the files of a sink neat: nothing new; a batch that joins the *)
(* buffer; ... *)
LEMMA NeatSame ==
    ASSUME NEW k, NEW names, NEW p, NEW n \in Nat, NEW m \in Nat, n <= m,
           \A f \in names : k[f] \in Seq(Nat),
           p \in Seq(Nat), Neat(k, names, p, n)
    PROVE  Neat(k, names, p, m) /\ Neat(k, names, <<>>, m)
<1>1. /\ Len(p) \in Nat /\ \A f \in names : Len(k[f]) \in Nat
      /\ \A f \in names : \A x \in ToSet(k[f]) : x \in Nat
      /\ \A y \in ToSet(p) : y \in Nat
  BY DEF ToSet
<1>2. ToSet(<<>>) = {} /\ Sorted(<<>>) /\ Len(<<>>) = 0
  BY DEF ToSet, Sorted
<1>3. /\ \A f \in names : Len(k[f]) + Len(p) <= m /\ Len(k[f]) + 0 <= m
      /\ \A f \in names : \A x \in ToSet(k[f]) : x <= m
      /\ \A y \in ToSet(p) : y <= m
  <2>1. ASSUME NEW f \in names
        PROVE  Len(k[f]) + Len(p) <= m /\ Len(k[f]) + 0 <= m
    <3>1. Len(k[f]) + Len(p) <= n
      BY DEF Neat
    <3>2. QED BY <1>1, <3>1
  <2>2. ASSUME NEW x \in Nat, x <= n PROVE x <= m
    BY <2>2
  <2>3. /\ \A f \in names : \A x \in ToSet(k[f]) : x <= n
        /\ \A y \in ToSet(p) : y <= n
    BY DEF Neat
  <2>4. QED BY <1>1, <2>1, <2>2, <2>3
<1>4. QED BY <1>2, <1>3 DEF Neat

LEMMA NeatBatch ==
    ASSUME NEW k, NEW names, NEW p \in Seq(Nat), NEW n \in Nat, NEW b \in Seq(Nat),
           \A f \in names : k[f] \in Seq(Nat),
           Neat(k, names, p, n), \A i \in 1 .. Len(b) : b[i] = n + i
    PROVE  Neat(k, names, p \o b, n + Len(b))
<1>1. /\ Len(b) \in Nat /\ Len(p) \in Nat /\ DOMAIN b = 1 .. Len(b)
      /\ \A f \in names : Len(k[f]) \in Nat
      /\ \A f \in names : \A x \in ToSet(k[f]) : x \in Nat
      /\ \A y \in ToSet(p) : y \in Nat
  BY DEF ToSet
<1>2. \A y \in ToSet(b) : y \in Nat /\ n < y /\ y <= n + Len(b)
  BY <1>1 DEF ToSet
<1>3. Sorted(b)
  BY <1>1 DEF Sorted
<1>4. /\ p \o b \in Seq(Nat) /\ Len(p \o b) = Len(p) + Len(b)
      /\ ToSet(p \o b) = ToSet(p) \cup ToSet(b)
  BY HoldsConcat
<1>5. \A x \in ToSet(p) : 1 <= x /\ x <= n
  BY DEF Neat
<1>6. Sorted(p \o b)
  <2>1. \A x \in ToSet(p), y \in ToSet(b) : x < y
    BY <1>1, <1>2, <1>5
  <2>2. QED BY <1>3, <2>1, SortedConcat DEF Neat
<1>7. \A y \in ToSet(p \o b) : 1 <= y /\ y <= n + Len(b)
  BY <1>1, <1>2, <1>4, <1>5
<1>8. ASSUME NEW f \in names
      PROVE  /\ Len(k[f]) + Len(p \o b) <= n + Len(b)
             /\ \A x \in ToSet(k[f]) : /\ 1 <= x /\ x <= n + Len(b)
                                       /\ \A y \in ToSet(p \o b) : x < y
  <2>1. Len(k[f]) + Len(p) <= n
    BY DEF Neat
  <2>2. \A x \in ToSet(k[f]) : 1 <= x /\ x <= n /\ \A y \in ToSet(p) : x < y
    BY DEF Neat
  <2>3. Len(k[f]) + Len(p \o b) <= n + Len(b)
    <3>1. Len(k[f]) \in Nat /\ Len(p) \in Nat /\ Len(b) \in Nat
      BY <1>1
    <3>2. Len(k[f]) + (Len(p) + Len(b)) <= n + Len(b)
      BY <2>1, <3>1, SumMoves
    <3>3. QED BY <1>4, <3>2
  <2>4. ASSUME NEW x \in ToSet(k[f])
        PROVE  x <= n + Len(b) /\ \A y \in ToSet(p \o b) : x < y
    <3>0. x \in Nat
      BY <1>1
    <3>1. x \in Nat /\ x <= n
      BY <2>2, <3>0
    <3>2. \A y \in ToSet(b) : x < y
      BY <1>2, <3>1
    <3>3. QED BY <1>1, <1>4, <2>2, <3>1, <3>2
  <2>5. QED BY <2>2, <2>3, <2>4
<1>9. QED BY <1>6, <1>7, <1>8 DEF Neat

(* ... a part of the buffer that goes to the open file, while the rest is   *)
(* kept or dropped; ... *)
LEMMA NeatOutput ==
    ASSUME NEW k, NEW l, NEW names, NEW o \in names, NEW all \in Seq(Nat),
           \A f \in names : k[f] \in Seq(Nat),
           NEW n \in Nat, Neat(k, names, all, n), NEW c \in 0 .. Len(all),
           l[o] = k[o] \o SubSeq(all, 1, c), \A f \in names : f # o => l[f] = k[f]
    PROVE  /\ Neat(l, names, SubSeq(all, c + 1, Len(all)), n)
           /\ Neat(l, names, <<>>, n)
<1> DEFINE a == SubSeq(all, 1, c)
           r == SubSeq(all, c + 1, Len(all))
<1>1. /\ a \in Seq(Nat) /\ r \in Seq(Nat) /\ Len(a) = c /\ Len(r) = Len(all) - c
      /\ ToSet(all) = ToSet(a) \cup ToSet(r)
      /\ Sorted(a) /\ Sorted(r) /\ \A x \in ToSet(a), y \in ToSet(r) : x < y
  BY HoldsCut, SortedCut DEF Neat
<1>2. c \in Nat /\ Len(all) \in Nat /\ l[o] = k[o] \o a
  OBVIOUS
<1> HIDE DEF a, r
<1>3. /\ l[o] \in Seq(Nat) /\ Len(l[o]) = Len(k[o]) + c
      /\ ToSet(l[o]) = ToSet(k[o]) \cup ToSet(a)
  <2>1. k[o] \in Seq(Nat)
    OBVIOUS
  <2>2. QED BY <1>1, <1>2, <2>1, HoldsConcat
<1>4. \A f \in names : Len(k[f]) \in Nat
  OBVIOUS
<1>5. \A f \in names : /\ Sorted(k[f]) /\ Len(k[f]) + Len(all) <= n
                       /\ \A x \in ToSet(k[f]) : /\ 1 <= x /\ x <= n
                                                 /\ \A y \in ToSet(all) : x < y
  BY DEF Neat
<1>6. \A y \in ToSet(all) : 1 <= y /\ y <= n
  BY DEF Neat
<1>7. Sorted(l[o])
  BY <1>1, <1>2, <1>5, SortedConcat
<1>8. ASSUME NEW f \in names
      PROVE  /\ l[f] \in Seq(Nat) /\ Sorted(l[f]) /\ Len(l[f]) + Len(r) <= n
             /\ \A x \in ToSet(l[f]) : 1 <= x /\ x <= n /\ \A y \in ToSet(r) : x < y
  <2>1. CASE f = o
    <3>a. Len(k[o]) + Len(all) <= n
      BY DEF Neat
    <3>0. Len(k[o]) \in Nat /\ Len(k[o]) + Len(all) <= n
      BY <1>4, <3>a
    <3>1. Len(l[o]) + Len(r) <= n
      <4>1. c <= Len(all)
        BY <1>2
      <4>2. (Len(k[o]) + c) + (Len(all) - c) <= n
        BY <1>2, <3>0, <4>1, SumMoves
      <4>3. QED BY <1>1, <1>3, <4>2
    <3>2. QED BY <1>1, <1>3, <1>5, <1>6, <1>7, <2>1, <3>1
  <2>2. CASE f # o
    <3>1. l[f] = k[f]
      BY <2>2
    <3>2. Len(k[f]) + Len(r) <= n
      BY <1>1, <1>2, <1>4, <1>5
    <3>3. QED BY <1>1, <1>5, <3>1, <3>2
  <2>3. QED BY <2>1, <2>2
<1>9. ASSUME NEW f \in names, NEW g \in names, f # g
      PROVE  ToSet(l[f]) \cap ToSet(l[g]) = {}
  <2>1. ToSet(k[f]) \cap ToSet(k[g]) = {}
    BY <1>9 DEF Neat
  <2>2. ASSUME NEW h \in names PROVE ToSet(k[h]) \cap ToSet(a) = {}
    <3> SUFFICES ASSUME NEW x \in ToSet(k[h]), x \in ToSet(a) PROVE FALSE
      OBVIOUS
    <3>0. x \in ToSet(all)
      BY <1>1
    <3>a. x \in Nat
      BY <3>0 DEF ToSet
    <3>b. x < x
      BY <1>5, <3>0
    <3>1. x < x /\ x \in Nat
      BY <3>a, <3>b
    <3>2. QED BY <3>1
  <2>3. CASE f = o
    BY <1>3, <1>9, <2>1, <2>2, <2>3
  <2>4. CASE g = o
    BY <1>3, <1>9, <2>1, <2>2, <2>4
  <2>5. QED BY <2>1, <2>3, <2>4
<1>10. Neat(l, names, r, n)
  BY <1>1, <1>6, <1>8, <1>9 DEF Neat
<1>11. Neat(l, names, <<>>, n)
  <2>1. n <= n /\ \A f \in names : l[f] \in Seq(Nat)
    BY <1>8
  <2>2. QED BY <1>1, <1>10, <2>1, NeatSame
<1>12. QED BY <1>10, <1>11 DEF r

(* ... a power failure, which cuts files short. *)
LEMMA NeatTorn ==
    ASSUME NEW k, NEW l, NEW names, NEW p \in Seq(Nat), NEW n \in Nat,
           \A f \in names : k[f] \in Seq(Nat), Neat(k, names, p, n),
           \A f \in names : \E c \in 0 .. Len(k[f]) : l[f] = SubSeq(k[f], 1, c)
    PROVE  Neat(l, names, p, n)
<1>1. ASSUME NEW f \in names
      PROVE  /\ Sorted(l[f]) /\ Len(l[f]) + Len(p) <= n
             /\ ToSet(l[f]) \subseteq ToSet(k[f])
  <2>1. PICK c \in 0 .. Len(k[f]) : l[f] = SubSeq(k[f], 1, c)
    OBVIOUS
  <2>2. /\ k[f] \in Seq(Nat) /\ Sorted(k[f]) /\ Len(k[f]) + Len(p) <= n
    BY DEF Neat
  <2>3. /\ Sorted(l[f]) /\ Len(l[f]) = c /\ ToSet(l[f]) \subseteq ToSet(k[f])
    BY <2>1, <2>2, HoldsCut, SortedCut
  <2>4. Len(k[f]) \in Nat /\ Len(p) \in Nat /\ c \in Nat /\ c <= Len(k[f])
    BY <2>2
  <2>5. QED BY <2>2, <2>3, <2>4
<1>2. QED BY <1>1 DEF Neat

-----------------------------------------------------------------------------
(* What a sink has been given never shrinks. *)
LEMMA SeenBound ==
    ASSUME FlushTypes, NEW s
    PROVE  /\ Seen(s) \in Nat /\ Seen(s) <= given /\ given \in Nat
           /\ at = 0 => Seen(s) = given
<1>1. given \in Nat /\ Len(batch) \in Nat /\ Len(batch) <= given
  BY DEF FlushTypes
<1>2. given - Len(batch) \in Nat /\ given - Len(batch) <= given
  BY <1>1
<1>3. at = 0 => ~Waits(s)
  BY DEF Waits
<1>4. QED BY <1>1, <1>2, <1>3 DEF Seen

LEMMA SeenStep ==
    ASSUME FlushTypes, UNCHANGED <<setting, given>>, NEW s, NEW g, In(s, g),
           \/ /\ GoTo(stage') /\ stage' # "init"
              /\ g \in {"fflush", "fsync"} => stage' # "fwrite"
           \/ Return(s)
    PROVE  /\ \A r \in SinkSet : Seen(r)' \in Nat /\ Seen(r) <= Seen(r)'
           /\ g \in {"init", "fwrite"} => Seen(s) = given - Len(batch)
           /\ stage' # "fwrite" => Seen(s)' = given
           /\ g \in {"fflush", "fsync"} => Seen(s) = given
           /\ batch' \in {batch, <<>>}
<1>1. /\ at \in 1 .. Len(Sinks) /\ Sinks[at] = s /\ stage = g /\ at # 0
      /\ stage \in {"init", "fwrite", "fflush", "fsync"}
  BY SinkReached DEF FlushTypes
<1>2. /\ Len(Sinks) \in Nat /\ DOMAIN Sinks = 1 .. Len(Sinks)
      /\ \A j, k \in DOMAIN Sinks : Sinks[j] = Sinks[k] => j = k
  BY SinksShape
<1>3. Sinks' = Sinks
  BY DEF Sinks
<1>4. \/ /\ at' = at /\ batch' = batch /\ stage' # "init"
         /\ g \in {"fflush", "fsync"} => stage' # "fwrite"
      \/ at' = at + 1 /\ batch' = batch /\ stage' = "init"
      \/ at' = 0 /\ batch' = <<>>
  BY DEF GoTo, Return
<1>5. ASSUME NEW r, Waits(r)' PROVE Waits(r) /\ batch' = batch
  <2>1. PICK i \in DOMAIN Sinks :
           /\ Sinks[i] = r /\ at' # 0
           /\ at' < i \/ (at' = i /\ stage' \in {"init", "fwrite"})
    BY <1>3, <1>5 DEF Waits
  <2>2. batch' = batch /\ (at < i \/ (at = i /\ stage \in {"init", "fwrite"}))
    BY <1>1, <1>2, <1>4, <2>1
  <2>3. QED BY <1>1, <2>1, <2>2 DEF Waits
<1>6. Waits(s) <=> g \in {"init", "fwrite"}
  BY <1>1, <1>2 DEF Waits
<1>7. stage' # "fwrite" => ~Waits(s)'
  <2> SUFFICES ASSUME stage' # "fwrite", NEW i \in DOMAIN Sinks, Sinks[i] = s, at' # 0,
                      at' < i \/ (at' = i /\ stage' \in {"init", "fwrite"})
               PROVE  FALSE
    BY <1>3 DEF Waits
  <2>1. i = at
    BY <1>1, <1>2
  <2>2. QED BY <1>1, <1>2, <1>4, <2>1
<1>8. given \in Nat /\ Len(batch) \in Nat /\ given - Len(batch) \in Nat
      /\ given - Len(batch) <= given /\ given <= given
      /\ given - Len(batch) <= given - Len(batch)
  BY DEF FlushTypes
<1>9. ASSUME NEW r \in SinkSet PROVE Seen(r)' \in Nat /\ Seen(r) <= Seen(r)'
  <2>1. CASE Waits(r)'
    BY <1>5, <1>8, <2>1 DEF Seen
  <2>2. CASE ~Waits(r)'
    BY <1>8, <2>2 DEF Seen
  <2>3. QED BY <2>1, <2>2
<1>10. QED BY <1>4, <1>6, <1>7, <1>8, <1>9 DEF Seen

(* The steps that write nothing. *)
LEMMA OrderSame ==
    ASSUME FlushTypes, OrderInv, UNCHANGED <<setting, kernel>>,
           \A i \in 1 .. Len(batch') : batch'[i] = (given' - Len(batch')) + i,
           \A s \in SinkSet : /\ Seen(s)' \in Nat /\ Seen(s) <= Seen(s)'
                              /\ pending'[s] \in {pending[s], <<>>}
    PROVE  OrderInv'
<1>1. SinkSet' = SinkSet /\ \A s : NamesOf(s)' = NamesOf(s)
  BY DEF SinkSet, Sinks, NamesOf, RollNames, Stamps, Stamp
<1>2. ASSUME NEW s \in SinkSet
      PROVE  Neat(kernel, NamesOf(s), pending'[s], Seen(s)')
  <2>1. Neat(kernel, NamesOf(s), pending[s], Seen(s)) /\ pending[s] \in Seq(Nat)
    BY DEF OrderInv, FlushTypes
  <2>2. NamesOf(s) \subseteq Names
    BY SinksShape, NamesDisjoint
  <2>3. \A f \in NamesOf(s) : kernel[f] \in Seq(Nat)
    BY <2>2 DEF FlushTypes
  <2>4. Neat(kernel, NamesOf(s), pending[s], Seen(s)') /\ Neat(kernel, NamesOf(s), <<>>, Seen(s)')
    BY <2>1, <2>3, SeenBound, NeatSame
  <2>5. QED BY <2>4
<1>3. QED BY <1>1, <1>2 DEF OrderInv

LEMMA BatchStays ==
    ASSUME OrderInv, given' = given, batch' \in {batch, <<>>}
    PROVE  \A i \in 1 .. Len(batch') : batch'[i] = (given' - Len(batch')) + i
<1>1. CASE batch' = batch BY <1>1 DEF OrderInv
<1>2. CASE batch' = <<>> BY <1>2
<1>3. QED BY <1>1, <1>2

(* The steps that write: the bytes of the sink, or those and the batch, go  *)
(* to its file up to the c-th.                                              *)
LEMMA OrderOutput ==
    ASSUME FlushTypes, OrderInv, UNCHANGED <<setting, given>>, NEW s, NEW g, In(s, g),
           \/ /\ GoTo(stage') /\ stage' # "init"
              /\ g \in {"fflush", "fsync"} => stage' # "fwrite"
           \/ Return(s),
           NEW all,
           \/ all = pending[s]
           \/ g = "fwrite" /\ all = pending[s] \o batch /\ stage' # "fwrite",
           NEW c \in 0 .. Len(all), fs[s] # NoFile, ToFile(s, SubSeq(all, 1, c)),
           NEW rest, rest \in {<<>>, SubSeq(all, c + 1, Len(all))},
           pending' = [pending EXCEPT ![s] = rest]
    PROVE  OrderInv'
<1>1. /\ SinkSet' = SinkSet /\ \A r : NamesOf(r)' = NamesOf(r)
      /\ s \in SinkSet
  BY SinkReached DEF SinkSet, Sinks, NamesOf, RollNames, Stamps, Stamp
<1>2. /\ \A r \in SinkSet : Seen(r)' \in Nat /\ Seen(r) <= Seen(r)'
      /\ g \in {"init", "fwrite"} => Seen(s) = given - Len(batch)
      /\ stage' # "fwrite" => Seen(s)' = given
      /\ batch' \in {batch, <<>>}
  BY SeenStep
<1>3. \A r \in SinkSet : NamesOf(r) \subseteq Names /\ \A f \in NamesOf(r) : kernel[f] \in Seq(Nat)
  BY SinksShape, NamesDisjoint DEF FlushTypes
<1>4. /\ pending[s] \in Seq(Nat) /\ batch \in Seq(Nat) /\ pending[s] \o batch \in Seq(Nat)
      /\ fs[s] \in NamesOf(s)
  BY <1>1, Bytes DEF FlushTypes
<1>5. Neat(kernel, NamesOf(s), pending[s], Seen(s)) /\ Seen(s) \in Nat
  BY <1>1, SeenBound DEF OrderInv
<1>6. all \in Seq(Nat) /\ Neat(kernel, NamesOf(s), all, Seen(s)')
  <2>1. CASE all = pending[s]
    BY <1>1, <1>2, <1>3, <1>4, <1>5, <2>1, NeatSame
  <2>2. CASE g = "fwrite" /\ all = pending[s] \o batch /\ stage' # "fwrite"
    <3>1. \A i \in 1 .. Len(batch) : batch[i] = Seen(s) + i
      BY <1>2, <2>2 DEF OrderInv
    <3>2. Seen(s)' = Seen(s) + Len(batch)
      <4>1. given \in Nat /\ Len(batch) \in Nat
        BY DEF FlushTypes
      <4>2. QED BY <1>2, <2>2, <4>1
    <3>3. Neat(kernel, NamesOf(s), pending[s] \o batch, Seen(s) + Len(batch))
      BY <1>1, <1>3, <1>4, <1>5, <3>1, NeatBatch
    <3>4. QED BY <1>4, <2>2, <3>2, <3>3
  <2>3. QED BY <2>1, <2>2
<1>7. /\ kernel'[fs[s]] = kernel[fs[s]] \o SubSeq(all, 1, c)
      /\ \A f \in Names : f # fs[s] => kernel'[f] = kernel[f]
  BY <1>1, <1>3, <1>4 DEF ToFile, FlushTypes
<1>8. Neat(kernel', NamesOf(s), rest, Seen(s)')
  <2>1. \A f \in NamesOf(s) : f # fs[s] => kernel'[f] = kernel[f]
    BY <1>1, <1>3, <1>7
  <2>2. /\ Neat(kernel', NamesOf(s), SubSeq(all, c + 1, Len(all)), Seen(s)')
        /\ Neat(kernel', NamesOf(s), <<>>, Seen(s)')
    BY <1>1, <1>2, <1>3, <1>4, <1>6, <1>7, <2>1, NeatOutput
  <2>3. QED BY <2>2
<1>9. ASSUME NEW r \in SinkSet, r # s
      PROVE  Neat(kernel', NamesOf(r), pending[r], Seen(r)')
  <2>1. NamesOf(r) \cap NamesOf(s) = {}
    BY <1>1, <1>9, SinksShape, NamesDisjoint
  <2>2. \A f \in NamesOf(r) : kernel'[f] = kernel[f]
    BY <1>3, <1>4, <1>7, <1>9, <2>1
  <2>3. Neat(kernel, NamesOf(r), pending[r], Seen(r)) /\ Seen(r) \in Nat
        /\ pending[r] \in Seq(Nat)
    BY SeenBound DEF OrderInv, FlushTypes
  <2>4. Neat(kernel, NamesOf(r), pending[r], Seen(r)')
    BY <1>2, <1>3, <2>3, NeatSame
  <2>5. QED BY <2>2, <2>4 DEF Neat
<1>10. ASSUME NEW r \in SinkSet PROVE Neat(kernel', NamesOf(r), pending'[r], Seen(r)')
  <2>1. CASE r = s
    <3>1. pending'[s] = rest
      BY <1>1 DEF FlushTypes
    <3>2. QED BY <1>8, <2>1, <3>1
  <2>2. CASE r # s
    <3>1. pending'[r] = pending[r]
      BY <2>2 DEF FlushTypes
    <3>2. QED BY <1>9, <2>2, <3>1
  <2>3. QED BY <2>1, <2>2
<1>11. QED BY <1>1, <1>2, <1>10, BatchStays DEF OrderInv

LEMMA OrderFlush ==
    ASSUME FlushInv, OrderInv, NEW s \in SinkSet, Flush(s)
    PROVE  OrderInv'
<1>0. FlushTypes
  BY DEF FlushInv
<1>1. CASE KeepFile(s) \/ Fsync(s)
  <2>1. PICK g \in {"init", "fsync"} :
           /\ In(s, g) /\ UNCHANGED <<setting, given, kernel, pending>>
           /\ \/ /\ GoTo(stage') /\ stage' # "init"
                 /\ g \in {"fflush", "fsync"} => stage' # "fwrite"
              \/ Return(s)
    <3>1. CASE KeepFile(s)
      <4>1. /\ In(s, "init") /\ UNCHANGED <<setting, given, kernel, pending>>
            /\ GoTo(stage') /\ stage' = "fwrite"
        BY <3>1 DEF KeepFile, GoTo, env, files
      <4>2. QED BY <4>1
    <3>2. CASE Fsync(s)
      <4>1. /\ In(s, "fsync") /\ UNCHANGED <<setting, given, kernel, pending>>
            /\ Return(s)
        BY <3>2 DEF Fsync, env
      <4>2. QED BY <4>1
    <3>3. QED BY <1>1, <3>1, <3>2
  <2>2. /\ \A r \in SinkSet : Seen(r)' \in Nat /\ Seen(r) <= Seen(r)'
        /\ batch' \in {batch, <<>>}
    BY <1>0, <2>1, SeenStep
  <2>3. QED BY <1>0, <2>1, <2>2, BatchStays, OrderSame
<1>2. CASE RollFile(s)
  <2>1. /\ In(s, "init") /\ GoTo("fwrite") /\ UNCHANGED <<setting, given>>
        /\ pending' = [pending EXCEPT ![s] = <<>>]
        /\ GoTo(stage') /\ stage' = "fwrite"
    BY <1>2 DEF RollFile, env, GoTo
  <2>2. CASE fs[s] = NoFile
    <3>1. kernel' = kernel /\ \A r \in SinkSet : pending'[r] \in {pending[r], <<>>}
      BY <1>0, <1>2, <2>1, <2>2 DEF RollFile, FlushTypes
    <3>2. /\ \A r \in SinkSet : Seen(r)' \in Nat /\ Seen(r) <= Seen(r)'
          /\ batch' \in {batch, <<>>}
      BY <1>0, <2>1, SeenStep
    <3>3. QED BY <1>0, <2>1, <3>1, <3>2, BatchStays, OrderSame
  <2>3. CASE fs[s] # NoFile
    <3>1. PICK k \in 0 .. Len(pending[s]) : ToFile(s, SubSeq(pending[s], 1, k))
      BY <1>2, <2>3 DEF RollFile
    <3>2. QED BY <1>0, <2>1, <2>3, <3>1, OrderOutput
  <2>4. QED BY <2>2, <2>3
<1>3. CASE Fwrite(s)
  <2>1. /\ In(s, "fwrite") /\ fs[s] # NoFile /\ UNCHANGED <<setting, given>>
        /\ stage' # "fwrite"
        /\ (GoTo(stage') /\ stage' # "init") \/ Return(s)
    BY <1>3 DEF Fwrite, env, GoTo, Return
  <2> DEFINE all == pending[s] \o batch
  <2>2. PICK k \in 0 .. Len(all) :
           /\ ToFile(s, SubSeq(all, 1, k))
           /\ pending' = [pending EXCEPT ![s] = SubSeq(all, k + 1, Len(all))]
    BY <1>3 DEF Fwrite
  <2>3. all = pending[s] \o batch
    OBVIOUS
  <2> HIDE DEF all
  <2>4. QED BY <1>0, <2>1, <2>2, <2>3, OrderOutput
<1>4. CASE FwriteNull(s)
  <2>1. UNCHANGED <<setting, given, batch, at, stage, kernel, pending>>
    BY <1>4 DEF FwriteNull, env, files, hist
  <2>2. \A r \in SinkSet : Seen(r)' = Seen(r) /\ Seen(r) \in Nat
    BY <1>0, <2>1, SeenBound DEF Seen, Waits, Sinks
  <2>3. \A r \in SinkSet : Seen(r)' \in Nat /\ Seen(r) <= Seen(r)'
    BY <2>2
  <2>4. QED BY <1>0, <2>1, <2>3, BatchStays, OrderSame
<1>5. CASE Fflush(s)
  <2>1. /\ In(s, "fflush") /\ UNCHANGED <<setting, given>> /\ stage' # "fwrite"
        /\ (GoTo(stage') /\ stage' # "init") \/ Return(s)
        /\ ToFile(s, pending[s]) /\ pending' = [pending EXCEPT ![s] = <<>>]
    BY <1>5 DEF Fflush, env, GoTo, Return
  <2>2. fs[s] # NoFile
    BY <2>1 DEF FlushInv, Progress, In
  <2>3. /\ pending[s] \in Seq(Nat) /\ Len(pending[s]) \in 0 .. Len(pending[s])
        /\ SubSeq(pending[s], 1, Len(pending[s])) = pending[s]
    BY <1>0 DEF FlushTypes
  <2>4. QED BY <1>0, <2>1, <2>2, <2>3, OrderOutput
<1>6. CASE WriteFails(s)
  <2>1. PICK g \in {"fwrite", "fflush"} : In(s, g)
    BY <1>6 DEF WriteFails
  <2>2. /\ fs[s] # NoFile /\ UNCHANGED <<setting, given>> /\ stage = g
        /\ stage' # "fwrite"
        /\ (GoTo(stage') /\ stage' # "init") \/ Return(s)
        /\ pending' = [pending EXCEPT ![s] = <<>>]
    BY <1>6, <2>1 DEF WriteFails, env, GoTo, Return, In
  <2> DEFINE all == IF g = "fwrite" THEN pending[s] \o batch ELSE pending[s]
  <2>3. PICK k \in 0 .. Len(all) - 1 : ToFile(s, SubSeq(all, 1, k))
    BY <1>6, <2>2 DEF WriteFails
  <2>4. all = pending[s] \/ (g = "fwrite" /\ all = pending[s] \o batch /\ stage' # "fwrite")
    BY <2>2
  <2>5. all \in Seq(Nat)
    BY <1>0, Bytes
  <2> HIDE DEF all
  <2>6. k \in 0 .. Len(all)
    BY <2>5
  <2>7. QED BY <1>0, <2>1, <2>2, <2>3, <2>4, <2>6, OrderOutput
<1>7. QED BY <1>1, <1>2, <1>3, <1>4, <1>5, <1>6 DEF Flush

(* exit() writes the buffer of each sink to the file it has open.           *)
LEMMA ExitWrites ==
    ASSUME FlushTypes, Exit, NEW s \in SinkSet, NEW f \in NamesOf(s)
    PROVE  kernel'[f] = IF f = fs[s] /\ f # NoFile THEN kernel[f] \o pending[s] ELSE kernel[f]
<1> DEFINE Open(h) == \E r \in SinkSet : fs[r] = h
           Owner(h) == CHOOSE r \in SinkSet : fs[r] = h
<1>1. kernel' = [h \in Names |-> IF Open(h) THEN kernel[h] \o pending[Owner(h)]
                                           ELSE kernel[h]]
  BY DEF Exit
<1>2. \A h : Open(h) => Owner(h) \in SinkSet /\ fs[Owner(h)] = h
  OBVIOUS
<1>3. Open(fs[s])
  OBVIOUS
<1> HIDE DEF Open, Owner
<1>4. f \in Names /\ kernel[f] \in Seq(Nat)
  BY SinksShape, NamesDisjoint DEF FlushTypes
<1>5. CASE Open(f) /\ f = NoFile
  <2>1. pending[Owner(f)] = <<>>
    BY <1>2, <1>5 DEF FlushTypes
  <2>2. kernel[f] \o <<>> = kernel[f]
    BY <1>4
  <2>3. QED BY <1>1, <1>4, <1>5, <2>1, <2>2
<1>6. CASE Open(f) /\ f # NoFile
  <2>1. Owner(f) \in SinkSet /\ fs[Owner(f)] = f /\ f \in NamesOf(Owner(f))
    BY <1>2, <1>6 DEF FlushTypes
  <2>2. Owner(f) = s
    BY <2>1, SinksShape, NamesDisjoint
  <2>3. QED BY <1>1, <1>4, <1>6, <2>1, <2>2
<1>7. CASE ~Open(f)
  BY <1>1, <1>3, <1>4, <1>7
<1>8. QED BY <1>5, <1>6, <1>7

LEMMA OrderExit == ASSUME FlushInv, OrderInv, Exit PROVE OrderInv'
<1>1. /\ FlushTypes /\ at = 0
      /\ UNCHANGED <<setting, given, batch, at, stage>>
      /\ pending' = [s \in SinkSet |-> <<>>]
  BY DEF FlushInv, Exit, env, hist
<1>2. /\ SinkSet' = SinkSet /\ \A r : NamesOf(r)' = NamesOf(r) /\ Seen(r)' = Seen(r)
  BY <1>1 DEF SinkSet, Sinks, NamesOf, RollNames, Stamps, Stamp, Seen, Waits
<1>3. ASSUME NEW s \in SinkSet PROVE Neat(kernel', NamesOf(s), <<>>, Seen(s))
  <2>1. /\ Neat(kernel, NamesOf(s), pending[s], Seen(s)) /\ Seen(s) \in Nat /\ Seen(s) <= Seen(s)
        /\ pending[s] \in Seq(Nat)
    BY <1>1, SeenBound DEF OrderInv, FlushTypes
  <2>2. \A f \in NamesOf(s) : kernel[f] \in Seq(Nat)
    BY <1>1, SinksShape, NamesDisjoint DEF FlushTypes
  <2>3. CASE fs[s] = NoFile
    <3>1. \A f \in NamesOf(s) : kernel'[f] = kernel[f]
      BY <1>1, <2>3, ExitWrites
    <3>2. Neat(kernel, NamesOf(s), <<>>, Seen(s))
      BY <2>1, <2>2, NeatSame
    <3>3. QED BY <3>1, <3>2 DEF Neat
  <2>4. CASE fs[s] # NoFile
    <3>1. /\ fs[s] \in NamesOf(s) /\ kernel'[fs[s]] = kernel[fs[s]] \o pending[s]
          /\ \A f \in NamesOf(s) : f # fs[s] => kernel'[f] = kernel[f]
      BY <1>1, <2>4, ExitWrites DEF FlushTypes
    <3>2. /\ Len(pending[s]) \in 0 .. Len(pending[s])
          /\ SubSeq(pending[s], 1, Len(pending[s])) = pending[s]
      BY <2>1
    <3>3. QED BY <2>1, <2>2, <3>1, <3>2, NeatOutput
  <2>5. QED BY <2>3, <2>4
<1>4. QED BY <1>1, <1>2, <1>3 DEF OrderInv

LEMMA OrderRealFlush ==
    ASSUME FlushInv, OrderInv, NEW n \in BatchSizes, RealFlush(n)
    PROVE  OrderInv'
<1>1. /\ FlushTypes /\ at = 0 /\ UNCHANGED <<setting, kernel, pending>>
      /\ n \in Nat /\ given \in Nat /\ given' = given + n
      /\ batch' = [i \in 1 .. n |-> given + i]
  BY FlushAssumption DEF FlushInv, FlushTypes, RealFlush, env, files
<1>2. Len(batch') = n /\ given' - n = given /\ given <= given' /\ given' \in Nat
  BY <1>1
<1>3. \A i \in 1 .. Len(batch') : batch'[i] = (given' - Len(batch')) + i
  BY <1>1, <1>2
<1>4. \A s \in SinkSet : Seen(s) = given /\ Seen(s)' \in {given, given'}
  BY <1>1, <1>2, SeenBound DEF Seen
<1>5. \A s \in SinkSet : /\ Seen(s)' \in Nat /\ Seen(s) <= Seen(s)'
                         /\ pending'[s] \in {pending[s], <<>>}
  BY <1>1, <1>2, <1>4
<1>6. QED BY <1>1, <1>3, <1>5, OrderSame

LEMMA OrderPower == ASSUME FlushInv, OrderInv, PowerFails PROVE OrderInv'
<1>1. FlushTypes /\ UNCHANGED <<setting, given, batch, at, stage, pending>>
  BY DEF FlushInv, PowerFails, env, hist
<1>2. /\ SinkSet' = SinkSet /\ \A r : NamesOf(r)' = NamesOf(r) /\ Seen(r)' = Seen(r)
  BY <1>1 DEF SinkSet, Sinks, NamesOf, RollNames, Stamps, Stamp, Seen, Waits
<1>3. ASSUME NEW f \in Names
      PROVE  kernel[f] \in Seq(Nat) /\ \E c \in 0 .. Len(kernel[f]) : kernel'[f] = SubSeq(kernel[f], 1, c)
  <2>1. kernel[f] \in Seq(Nat) /\ synced[f] \in 0 .. Len(kernel[f])
    BY <1>1 DEF FlushTypes
  <2>2. SubSeq(kernel[f], 1, Len(kernel[f])) = kernel[f] /\ Len(kernel[f]) \in 0 .. Len(kernel[f])
    BY <2>1
  <2>3. kernel'[f] = kernel[f] \/ kernel'[f] = SubSeq(kernel[f], 1, synced[f])
    BY DEF PowerFails
  <2>4. QED BY <2>1, <2>2, <2>3
<1>4. ASSUME NEW s \in SinkSet PROVE Neat(kernel', NamesOf(s), pending[s], Seen(s))
  <2>1. /\ Neat(kernel, NamesOf(s), pending[s], Seen(s)) /\ Seen(s) \in Nat
        /\ pending[s] \in Seq(Nat) /\ NamesOf(s) \subseteq Names
    BY <1>1, SeenBound, SinksShape, NamesDisjoint DEF OrderInv, FlushTypes
  <2>2. QED BY <1>3, <2>1, NeatTorn
<1>5. QED BY <1>1, <1>2, <1>4 DEF OrderInv

LEMMA OrderOthers ==
    ASSUME FlushInv, OrderInv, Tick \/ Crash \/ Restart \/ UNCHANGED vars
    PROVE  OrderInv'
<1>0. FlushTypes
  BY DEF FlushInv
<1>1. CASE Restart
  <2>1. /\ UNCHANGED <<setting, given, kernel>> /\ batch' = <<>> /\ at' = 0
        /\ pending' = [s \in SinkSet |-> <<>>]
    BY <1>1 DEF Restart, Construct, env, files
  <2>2. \A s \in SinkSet : Seen(s)' = given /\ Seen(s) <= given /\ given \in Nat
    BY <1>0, <2>1, SeenBound DEF Seen, Waits
  <2>3. \A s \in SinkSet : /\ Seen(s)' \in Nat /\ Seen(s) <= Seen(s)'
                           /\ pending'[s] \in {pending[s], <<>>}
    BY <2>1, <2>2
  <2>4. QED BY <1>0, <2>1, <2>3, BatchStays, OrderSame
<1>2. CASE Tick \/ Crash \/ UNCHANGED vars
  <2>1. UNCHANGED <<setting, given, kernel, pending, batch, at, stage>>
    BY <1>2 DEF Tick, Crash, vars, env, files, hist
  <2>2. \A s \in SinkSet : Seen(s)' = Seen(s) /\ Seen(s) \in Nat
    BY <1>0, <2>1, SeenBound DEF Seen, Waits, Sinks
  <2>3. \A s \in SinkSet : /\ Seen(s)' \in Nat /\ Seen(s) <= Seen(s)'
                           /\ pending'[s] \in {pending[s], <<>>}
    BY <2>1, <2>2
  <2>4. QED BY <1>0, <2>1, <2>3, BatchStays, OrderSame
<1>3. QED BY <1>1, <1>2

LEMMA OrderInit == Init => OrderInv
<1> SUFFICES ASSUME Init PROVE OrderInv
  OBVIOUS
<1>1. FlushTypes /\ batch = <<>> /\ given = 0 /\ at = 0
  BY FlushInit DEF FlushInv, Init
<1>2. \A s \in SinkSet : Seen(s) = 0
  BY <1>1 DEF Seen, Waits
<1>3. ASSUME NEW s \in SinkSet PROVE Neat(kernel, NamesOf(s), <<>>, 0)
  <2>1. \A f \in NamesOf(s) : kernel[f] = <<>>
    BY <1>1, SinksShape, NamesDisjoint DEF Init
  <2>2. ToSet(<<>>) = {} /\ Sorted(<<>>) /\ Len(<<>>) = 0
    BY DEF ToSet, Sorted
  <2>3. QED BY <2>1, <2>2 DEF Neat
<1>4. QED BY <1>1, <1>2, <1>3 DEF OrderInv, Init

LEMMA OrderNext ==
    ASSUME FlushInv, OrderInv, [Next]_vars
    PROVE  OrderInv'
BY OrderFlush, OrderExit, OrderRealFlush, OrderPower, OrderOthers DEF Next

(* The invariant that the order rests on. *)
THEOREM OrderInvariant == Spec => []OrderInv
<1>1. Init => OrderInv
  BY OrderInit
<1>2. FlushInv /\ OrderInv /\ [Next]_vars => OrderInv'
  BY OrderNext
<1>3. QED BY <1>1, <1>2, FlushInvariant, PTL DEF Spec

(* LogFlush.h: the files of a sink hold the bytes in the order they were    *)
(* logged, none twice, for any number of rolls, failed writes, deaths and   *)
(* restarts, and when a new file gets the name of an old one.               *)
THEOREM BytesOrdered == Spec => []Ordered
<1>1. FlushInv /\ OrderInv => Ordered
  <2> SUFFICES ASSUME FlushInv, OrderInv, NEW s \in SinkSet,
                      NEW f \in NamesOf(s), NEW g \in NamesOf(s),
                      NEW i \in 1 .. Len(kernel[f]), NEW j \in 1 .. Len(kernel[g])
               PROVE  /\ kernel[f][i] = kernel[g][j] => f = g /\ i = j
                      /\ f = g /\ i < j => kernel[f][i] < kernel[g][j]
    BY DEF Ordered
  <2>1. f \in Names /\ g \in Names
    BY SinksShape, NamesDisjoint DEF FlushInv
  <2>2. /\ kernel[f] \in Seq(Nat) /\ kernel[g] \in Seq(Nat)
    BY <2>1 DEF FlushInv, FlushTypes
  <2>3. /\ Sorted(kernel[f])
        /\ f # g => ToSet(kernel[f]) \cap ToSet(kernel[g]) = {}
    BY DEF OrderInv, Neat
  <2>4. kernel[f][i] \in ToSet(kernel[f]) /\ kernel[g][j] \in ToSet(kernel[g])
    BY <2>2 DEF ToSet
  <2>5. CASE f = g
    <3>1. /\ i < j => kernel[f][i] < kernel[f][j]
          /\ j < i => kernel[f][j] < kernel[f][i]
      BY <2>3, <2>5 DEF Sorted
    <3>2. kernel[f][i] \in Nat /\ kernel[f][j] \in Nat /\ i \in Nat /\ j \in Nat
      BY <2>2, <2>5
    <3>3. QED BY <2>5, <3>1, <3>2
  <2>6. CASE f # g
    BY <2>3, <2>4, <2>6
  <2>7. QED BY <2>5, <2>6
<1>2. QED BY <1>1, FlushInvariant, OrderInvariant, PTL

-----------------------------------------------------------------------------
(* The size of the files *)

(* All but the last n of the bytes of file q, when p more are on their way  *)
(* to it, were given before byte b + 1.                                     *)
Older(q, p, n, b) == \A i \in 1 .. Len(q) : i + n <= Len(q) + p => q[i] <= b

(* What RollFileFlush has counted bounds what this process has added to the *)
(* open file; the files it has still to open are untouched.                 *)
SizeInv ==
    /\ Len(batch) <= MaxBatch
    /\ curSize < MaxSize + MaxBatch
    /\ In(Roll, "fwrite") => curSize < MaxSize
    /\ proc = "up" /\ Roll \in SinkSet =>
          /\ fs[Roll] # NoFile =>
                /\ fs[Roll][2] < cnt /\ Len(pending[Roll]) <= curSize
                /\ Older(kernel[fs[Roll]], Len(pending[Roll]), curSize, first)
          /\ \A f \in RollNames : f[2] >= cnt => Older(kernel[f], 0, 0, first)
    /\ \A f \in RollNames : Older(kernel[f], 0, MaxSize + MaxBatch - 1, first)

(* A sink that is not configured has empty files, and a write can only drop *)
(* bytes that were given.                                                   *)
ConfineInv ==
    /\ proc \in {"up", "exited", "died"}
    /\ flushLog \in FlushLogs
    /\ lost \in [SinkSet -> SUBSET (1 .. given)]
    /\ \A s \in {"FileFlush", Roll} \ SinkSet : \A f \in NamesOf(s) : kernel[f] = <<>>

(* The longest batch. *)
LEMMA MaxBatchIs == MaxBatch \in BatchSizes /\ MaxBatch \in Nat /\ \A m \in BatchSizes : m <= MaxBatch
BY FlushAssumption DEF MaxBatch

(* An upper bound on what this process has added may grow. *)
LEMMA OlderWeaker ==
    ASSUME NEW e, NEW q \in Seq(Nat), NEW p \in Nat, NEW n \in Nat, NEW m \in Nat, n <= m,
           Older(q, p, n, e)
    PROVE  Older(q, 0, m, e)
<1> SUFFICES ASSUME NEW i \in 1 .. Len(q), i + m <= Len(q) + 0 PROVE q[i] <= e
  BY DEF Older
<1>1. Len(q) \in Nat
  OBVIOUS
<1>2. i + n <= Len(q) + p
  BY <1>1
<1>3. QED BY <1>2 DEF Older

LEMMA FirstPart ==
    ASSUME NEW q \in Seq(Nat), NEW b \in Seq(Nat)
    PROVE  /\ q \o b \in Seq(Nat) /\ Len(q \o b) = Len(q) + Len(b)
           /\ \A i \in 1 .. Len(q) : (q \o b)[i] = q[i]
OBVIOUS

(* The bytes that go to the open file were counted on their way. *)
LEMMA OlderOutput ==
    ASSUME NEW e, NEW q \in Seq(Nat), NEW p \in Nat, NEW n \in Nat, p <= n,
           Older(q, p, n, e),
           NEW d \in Nat, NEW all \in Seq(Nat), Len(all) = p + d,
           NEW c \in 0 .. Len(all), NEW r \in Nat, r <= Len(all) - c
    PROVE  /\ Older(q \o SubSeq(all, 1, c), r, n + d, e)
           /\ r <= n + d
<1> DEFINE b == SubSeq(all, 1, c)
<1>1. /\ b \in Seq(Nat) /\ Len(b) = c
      /\ c \in Nat /\ Len(q) \in Nat
  OBVIOUS
<1> HIDE DEF b
<1>2. /\ Len(q \o b) = Len(q) + c
      /\ \A i \in 1 .. Len(q) : (q \o b)[i] = q[i]
  <2>1. /\ Len(q \o b) = Len(q) + Len(b)
        /\ \A i \in 1 .. Len(q) : (q \o b)[i] = q[i]
    BY <1>1, FirstPart
  <2>2. QED BY <1>1, <2>1
<1>3. ASSUME NEW i \in 1 .. Len(q) + c, i + (n + d) <= (Len(q) + c) + r
      PROVE  (q \o b)[i] <= e
  <2>1. i + n <= Len(q) + p
    BY <1>1, <1>3
  <2>2. i <= Len(q)
    BY <1>1, <2>1
  <2>3. q[i] <= e
    BY <1>1, <2>1, <2>2 DEF Older
  <2>4. QED BY <1>1, <1>2, <2>2, <2>3
<1>4. r <= n + d
  BY <1>1
<1>5. QED BY <1>2, <1>3, <1>4 DEF Older, b

LEMMA OlderCut ==
    ASSUME NEW e, NEW q \in Seq(Nat), NEW c \in 0 .. Len(q), NEW n \in Nat,
           Older(q, 0, n, e)
    PROVE  Older(SubSeq(q, 1, c), 0, n, e)
<1>1. /\ Len(SubSeq(q, 1, c)) = c /\ Len(q) \in Nat /\ c \in Nat /\ c <= Len(q)
      /\ \A i \in 1 .. c : SubSeq(q, 1, c)[i] = q[i]
  OBVIOUS
<1>2. ASSUME NEW i \in 1 .. c, i + n <= c + 0 PROVE q[i] <= e
  <2>1. i \in 1 .. Len(q) /\ i + n <= Len(q) + 0
    BY <1>1, <1>2
  <2>2. QED BY <2>1 DEF Older
<1>3. QED BY <1>1, <1>2 DEF Older

(* The files of the two sinks. *)
LEMMA RollFacts ==
    ASSUME FlushTypes
    PROVE  /\ NamesOf(Roll) = RollNames /\ RollNames \subseteq Names
           /\ NamesOf("FileFlush") \cap RollNames = {}
           /\ \A f \in RollNames : kernel[f] \in Seq(Nat) /\ Len(kernel[f]) \in Nat
           /\ Roll \in SinkSet => /\ fs[Roll] # NoFile => fs[Roll] \in RollNames
                                  /\ pending[Roll] \in Seq(Nat)
                                  /\ Len(pending[Roll]) \in Nat
           /\ curSize \in Nat /\ cnt \in Nat
<1>1. NamesOf(Roll) = RollNames /\ RollNames \subseteq Names
      /\ NamesOf("FileFlush") \cap RollNames = {}
  BY NamesDisjoint DEF NamesOf, Roll
<1>2. \A f \in RollNames : kernel[f] \in Seq(Nat) /\ Len(kernel[f]) \in Nat
  BY <1>1 DEF FlushTypes
<1>3. QED BY <1>1, <1>2 DEF FlushTypes

(* A step that leaves RollFileFlush and its files alone. *)
LEMMA SizeSame ==
    ASSUME FlushTypes, SizeInv, UNCHANGED <<setting, first, curSize, cnt>>,
           Len(batch') <= MaxBatch,
           proc' = "up" => /\ proc = "up"
                           /\ Roll \in SinkSet => fs'[Roll] = fs[Roll] /\ pending'[Roll] = pending[Roll],
           \A f \in RollNames : kernel'[f] = kernel[f],
           In(Roll, "fwrite")' => curSize < MaxSize
    PROVE  SizeInv'
<1>1. SinkSet' = SinkSet /\ RollNames' = RollNames
  BY DEF SinkSet, Sinks, RollNames, Stamps, Stamp
<1>2. Roll \in SinkSet => (fs[Roll] # NoFile => fs[Roll] \in RollNames)
  BY RollFacts
<1>3. MaxBatch' = MaxBatch
  BY DEF MaxBatch
<1>4. QED BY <1>1, <1>2, <1>3 DEF SizeInv

(* A step that writes to the open file of RollFileFlush. *)
LEMMA SizeOutput ==
    ASSUME FlushTypes, SizeInv, UNCHANGED <<setting, first, cnt, fs, proc>>, proc = "up",
           Roll \in SinkSet, fs[Roll] # NoFile,
           NEW all \in Seq(Nat), NEW d \in Nat, Len(all) = Len(pending[Roll]) + d,
           NEW c \in 0 .. Len(all), ToFile(Roll, SubSeq(all, 1, c)),
           pending'[Roll] \in {<<>>, SubSeq(all, c + 1, Len(all))},
           curSize' = curSize + d, curSize' < MaxSize + MaxBatch,
           Len(batch') <= MaxBatch, ~In(Roll, "fwrite")'
    PROVE  SizeInv'
<1> DEFINE o == fs[Roll]
           p == Len(pending[Roll])
<1>1. SinkSet' = SinkSet /\ RollNames' = RollNames /\ MaxBatch' = MaxBatch
  BY DEF SinkSet, Sinks, RollNames, Stamps, Stamp, MaxBatch
<1>2. /\ o \in RollNames /\ kernel[o] \in Seq(Nat) /\ p \in Nat /\ curSize \in Nat /\ cnt \in Nat
      /\ o[2] < cnt /\ p <= curSize /\ Older(kernel[o], p, curSize, first)
  BY RollFacts DEF SizeInv
<1>3. /\ kernel'[o] = kernel[o] \o SubSeq(all, 1, c)
      /\ \A f \in RollNames : f # o => kernel'[f] = kernel[f]
  BY <1>2, RollFacts DEF ToFile, FlushTypes
<1>4. /\ Len(pending'[Roll]) \in Nat /\ Len(pending'[Roll]) <= Len(all) - c
  <2>1. /\ Len(SubSeq(all, c + 1, Len(all))) = Len(all) - c /\ Len(<<>>) = 0
        /\ Len(all) - c \in Nat
    OBVIOUS
  <2>2. CASE pending'[Roll] = <<>>
    BY <2>1, <2>2
  <2>3. CASE pending'[Roll] = SubSeq(all, c + 1, Len(all))
    BY <2>1, <2>3
  <2>4. QED BY <2>2, <2>3
<1> HIDE DEF o, p
<1>5. Len(all) = p + d
  BY DEF p
<1>6. /\ Older(kernel'[o], Len(pending'[Roll]), curSize', first)
      /\ Len(pending'[Roll]) <= curSize'
  <2>1. /\ Older(kernel[o] \o SubSeq(all, 1, c), Len(pending'[Roll]), curSize + d, first)
        /\ Len(pending'[Roll]) <= curSize + d
    <3> DEFINE q == kernel[o]
               n == curSize
               r == Len(pending'[Roll])
    <3>1. /\ q \in Seq(Nat) /\ p \in Nat /\ n \in Nat /\ p <= n /\ Older(q, p, n, first)
          /\ r \in Nat /\ r <= Len(all) - c
      BY <1>2, <1>4
    <3> HIDE DEF q, n, r
    <3>2. Older(q \o SubSeq(all, 1, c), r, n + d, first) /\ r <= n + d
      BY <1>5, <3>1, OlderOutput
    <3>3. QED BY <3>2 DEF q, n, r
  <2>2. QED BY <1>3, <2>1
<1>7. kernel'[o] \in Seq(Nat)
  <2>1. SubSeq(all, 1, c) \in Seq(Nat)
    BY HoldsCut
  <2>2. QED BY <1>2, <1>3, <2>1, FirstPart
<1>8. /\ MaxSize + MaxBatch - 1 \in Nat /\ curSize' <= MaxSize + MaxBatch - 1 /\ curSize' \in Nat
  BY <1>2, MaxBatchIs, FlushAssumption
<1>9. Older(kernel'[o], 0, MaxSize + MaxBatch - 1, first)
  BY <1>4, <1>6, <1>7, <1>8, OlderWeaker
<1>10. \A f \in RollNames : Older(kernel'[f], 0, MaxSize + MaxBatch - 1, first)
  BY <1>3, <1>9 DEF SizeInv
<1>11. ASSUME NEW f \in RollNames, f[2] >= cnt PROVE Older(kernel'[f], 0, 0, first)
  <2>1. f # o
    BY <1>2, <1>11 DEF RollNames
  <2>2. QED BY <1>3, <1>11, <2>1 DEF SizeInv
<1>12. QED BY <1>1, <1>2, <1>6, <1>10, <1>11 DEF SizeInv, o

(* Flush of the other sink. *)
LEMMA SizeFileFlush ==
    ASSUME FlushInv, SizeInv, NEW s \in SinkSet, Flush(s), s # Roll
    PROVE  SizeInv'
<1>1. FlushTypes /\ s = "FileFlush"
  BY SinksShape DEF FlushInv
<1>2. ~NeedsRoll(s)
  BY <1>1 DEF NeedsRoll
<1>3. /\ UNCHANGED <<setting, first, cnt, fs, curSize>> /\ (proc' = "up" => proc = "up")
      /\ Roll \in SinkSet => pending'[Roll] = pending[Roll]
  BY <1>1, <1>2 DEF Flush, KeepFile, RollFile, Fwrite, FwriteNull, Fflush, Fsync, WriteFails,
                    env, roll, hist, Roll, FlushTypes
<1>4. \A f \in RollNames : kernel'[f] = kernel[f]
  <2>1. CASE fs[s] = NoFile
    <3>1. kernel' = kernel
      BY <1>2, <2>1 DEF Flush, KeepFile, RollFile, Fwrite, FwriteNull, Fflush, Fsync,
                        WriteFails, files, FlushInv, Progress, In
    <3>2. QED BY <3>1
  <2>2. CASE fs[s] # NoFile
    <3>1. fs[s] \notin RollNames
      BY <1>1, <2>2, RollFacts DEF FlushTypes
    <3>2. kernel' = kernel \/ \E b : ToFile(s, b)
      BY <1>2 DEF Flush, KeepFile, RollFile, Fwrite, FwriteNull, Fflush, Fsync, WriteFails, files
    <3>3. QED BY <1>1, <3>1, <3>2, RollFacts DEF ToFile, FlushTypes
  <2>3. QED BY <2>1, <2>2
<1>5. batch' \in {batch, <<>>} /\ ~In(Roll, "fwrite")'
  <2>1. CASE FwriteNull(s)
    BY <2>1 DEF FwriteNull, In
  <2>2. CASE ~FwriteNull(s)
    <3>1. (GoTo(stage') /\ Sinks[at] = s /\ Sinks' = Sinks) \/ Return(s)
      BY <1>2, <2>2 DEF Flush, KeepFile, RollFile, Fwrite, Fflush, Fsync, WriteFails, GoTo, In,
                        env, Sinks
    <3>2. QED BY <1>1, <3>1 DEF GoTo, Return, In, Roll
  <2>3. QED BY <2>1, <2>2
<1>6. Len(batch') <= MaxBatch
  BY <1>5, MaxBatchIs DEF SizeInv
<1>7. In(Roll, "fwrite")' => curSize < MaxSize
  BY <1>5
<1>8. QED BY <1>1, <1>3, <1>4, <1>6, <1>7, SizeSame

(* The open file is full, or there is none. *)
LEMMA SizeRollFile ==
    ASSUME FlushInv, FlushInv', SizeInv, Roll \in SinkSet, RollFile(Roll)
    PROVE  SizeInv'
<1>1. FlushTypes
  BY DEF FlushInv
<1>2. /\ UNCHANGED <<setting, first, batch, at, proc>> /\ proc = "up" /\ stage' = "fwrite"
      /\ pending' = [pending EXCEPT ![Roll] = <<>>] /\ pending'[Roll] = <<>>
      /\ cnt' = cnt + 1 /\ curSize' = 0
      /\ fs'[Roll] \in {CreateFilename, NoFile}
  BY <1>1 DEF RollFile, env, GoTo, In, FlushTypes
<1>3. /\ SinkSet' = SinkSet /\ RollNames' = RollNames /\ MaxBatch' = MaxBatch
      /\ NamesOf(Roll)' = RollNames
  BY <1>1, <1>2, RollFacts DEF SinkSet, Sinks, RollNames, Stamps, Stamp, MaxBatch, NamesOf
<1>4. fs'[Roll] # NoFile => fs'[Roll] \in RollNames /\ fs'[Roll][2] = cnt
  BY <1>2, <1>3 DEF FlushInv, FlushTypes, CreateFilename
<1>5. cnt \in Nat /\ 0 < MaxSize /\ 0 < MaxSize + MaxBatch /\ MaxSize + MaxBatch - 1 \in Nat
  BY <1>1, FlushAssumption, MaxBatchIs DEF FlushTypes
<1>6. ASSUME NEW f \in RollNames
      PROVE  /\ kernel'[f] \in Seq(Nat)
             /\ Older(kernel'[f], 0, MaxSize + MaxBatch - 1, first)
             /\ f[2] >= cnt => Older(kernel'[f], 0, 0, first)
  <2>1. /\ kernel[f] \in Seq(Nat) /\ Older(kernel[f], 0, MaxSize + MaxBatch - 1, first)
        /\ f[2] >= cnt => Older(kernel[f], 0, 0, first)
    BY <1>1, <1>2, RollFacts DEF SizeInv
  <2>2. CASE fs[Roll] = NoFile \/ f # fs[Roll]
    <3>1. kernel'[f] = kernel[f]
      BY <1>1, <2>2, RollFacts DEF RollFile, ToFile, FlushTypes
    <3>2. QED BY <2>1, <3>1
  <2>3. CASE fs[Roll] # NoFile /\ f = fs[Roll]
    <3> DEFINE p == pending[Roll]
    <3>1. p \in Seq(Nat) /\ Len(p) \in Nat /\ curSize \in Nat /\ Len(p) <= curSize
          /\ Len(p) = Len(p) + 0 /\ Older(kernel[f], Len(p), curSize, first)
          /\ f[2] < cnt
      BY <1>1, <1>2, <2>3, RollFacts DEF SizeInv
    <3>2. PICK k \in 0 .. Len(p) : kernel'[f] = kernel[f] \o SubSeq(p, 1, k)
      BY <1>1, <2>3, RollFacts DEF RollFile, ToFile, FlushTypes
    <3>3. kernel'[f] \in Seq(Nat)
      BY <2>1, <3>1, <3>2, HoldsCut, FirstPart
    <3> HIDE DEF p
    <3>4. 0 \in Nat /\ 0 <= Len(p) - k
      BY <3>1
    <3>5. Older(kernel'[f], 0, curSize + 0, first)
      BY <2>1, <3>1, <3>2, <3>4, OlderOutput
    <3>6. curSize + 0 \in Nat /\ curSize + 0 <= MaxSize + MaxBatch - 1
      BY <1>5, <3>1, FlushAssumption, MaxBatchIs DEF SizeInv
    <3>7. Older(kernel'[f], 0, MaxSize + MaxBatch - 1, first)
      BY <1>5, <3>3, <3>4, <3>5, <3>6, OlderWeaker
    <3>8. ~(f[2] >= cnt)
      BY <1>5, <2>3, <3>1 DEF RollNames
    <3>9. QED BY <3>3, <3>7, <3>8
  <2>4. QED BY <2>2, <2>3
<1>7. ASSUME fs'[Roll] # NoFile
      PROVE  fs'[Roll][2] < cnt' /\ Older(kernel'[fs'[Roll]], Len(pending'[Roll]), curSize', first)
  <2>1. Len(pending'[Roll]) = 0 /\ cnt >= cnt /\ cnt < cnt + 1
    BY <1>2, <1>5
  <2>2. Older(kernel'[fs'[Roll]], 0, 0, first)
    BY <1>4, <1>6, <1>7, <2>1
  <2>3. QED BY <1>2, <1>4, <1>7, <2>1, <2>2
<1>8. ASSUME NEW f \in RollNames, f[2] >= cnt' PROVE Older(kernel'[f], 0, 0, first)
  <2>1. f[2] >= cnt
    BY <1>2, <1>5, <1>8 DEF RollNames
  <2>2. QED BY <1>6, <2>1
<1>9. Len(pending'[Roll]) <= curSize' /\ curSize' < MaxSize + MaxBatch /\ curSize' < MaxSize
  BY <1>2, <1>5
<1>10. Len(batch') <= MaxBatch
  BY <1>2 DEF SizeInv
<1>11. QED BY <1>2, <1>3, <1>6, <1>7, <1>8, <1>9, <1>10 DEF SizeInv

(* The other steps of its Flush. *)
LEMMA SizeRollFlush ==
    ASSUME FlushInv, FlushInv', SizeInv, Roll \in SinkSet, Flush(Roll)
    PROVE  SizeInv'
<1>0. FlushTypes /\ curSize \in Nat
  BY DEF FlushInv, FlushTypes
<1>1. Len(<<>>) <= MaxBatch /\ Len(batch) <= MaxBatch /\ Len(batch) \in Nat
  BY <1>0, MaxBatchIs DEF SizeInv, FlushTypes
<1>2. CASE KeepFile(Roll)
  <2>1. /\ UNCHANGED <<setting, first, cnt, fs, curSize, pending, kernel, batch, proc>>
        /\ proc = "up" /\ curSize < MaxSize
    BY <1>0, <1>2, FlushAssumption DEF KeepFile, NeedsRoll, env, roll, files, GoTo, In, Roll
  <2>2. QED BY <1>0, <1>1, <2>1, SizeSame
<1>3. CASE RollFile(Roll)
  BY <1>3, SizeRollFile
<1>4. CASE FwriteNull(Roll)
  <2>1. /\ UNCHANGED <<setting, first, cnt, fs, curSize, pending, kernel, batch>>
        /\ proc' = "died"
    BY <1>4 DEF FwriteNull, env, roll, files, hist
  <2>2. QED BY <1>0, <1>1, <2>1, SizeSame DEF In
<1>5. CASE Fsync(Roll)
  <2>1. /\ UNCHANGED <<setting, first, cnt, fs, curSize, pending, kernel, proc>>
        /\ batch' \in {batch, <<>>} /\ proc = "up" /\ stage' = "init"
    BY <1>5 DEF Fsync, env, roll, Return, In
  <2>2. QED BY <1>0, <1>1, <2>1, SizeSame DEF In
<1>6. CASE Fwrite(Roll) \/ Fflush(Roll) \/ WriteFails(Roll)
  <2>1. /\ UNCHANGED <<setting, first, cnt, fs, proc>> /\ proc = "up"
        /\ batch' \in {batch, <<>>} /\ stage' # "fwrite"
        /\ fs[Roll] # NoFile
    BY <1>6 DEF Fwrite, Fflush, WriteFails, env, roll, GoTo, Return, In, FlushInv, Progress
  <2>2. pending[Roll] \in Seq(Nat) /\ batch \in Seq(Nat) /\ Len(pending[Roll]) \in Nat
        /\ pending[Roll] \o batch \in Seq(Nat)
        /\ Len(pending[Roll] \o batch) = Len(pending[Roll]) + Len(batch)
    BY <1>0, Bytes, FirstPart
  <2>3. ~In(Roll, "fwrite")' /\ Len(batch') <= MaxBatch
    BY <1>1, <2>1 DEF In
  <2>4. CASE stage = "fwrite"
    <3> DEFINE all == pending[Roll] \o batch
    <3>1. PICK c \in 0 .. Len(all) :
             /\ ToFile(Roll, SubSeq(all, 1, c))
             /\ \/ pending' = [pending EXCEPT ![Roll] = <<>>]
                \/ pending' = [pending EXCEPT ![Roll] = SubSeq(all, c + 1, Len(all))]
      <4>1. CASE Fwrite(Roll)
        BY <4>1 DEF Fwrite
      <4>2. CASE WriteFails(Roll)
        <5>1. PICK c \in 0 .. Len(all) - 1 : ToFile(Roll, SubSeq(all, 1, c))
          BY <2>4, <4>2 DEF WriteFails
        <5>2. c \in 0 .. Len(all)
          BY <2>2
        <5>3. QED BY <4>2, <5>1, <5>2 DEF WriteFails
      <4>3. CASE Fflush(Roll)
        BY <2>4, <4>3 DEF Fflush, In
      <4>4. QED BY <1>6, <4>1, <4>2, <4>3
    <3>2. curSize' = curSize + Len(batch) /\ curSize < MaxSize
      BY <1>6, <2>4 DEF Fwrite, Fflush, WriteFails, In, SizeInv, Roll
    <3>3. curSize' < MaxSize + MaxBatch
      BY <1>0, <1>1, <3>2, FlushAssumption, MaxBatchIs
    <3>4. all \in Seq(Nat) /\ Len(all) = Len(pending[Roll]) + Len(batch)
      BY <2>2
    <3> HIDE DEF all
    <3>5. pending'[Roll] \in {<<>>, SubSeq(all, c + 1, Len(all))}
      BY <1>0, <3>1 DEF FlushTypes
    <3>6. QED BY <1>0, <1>1, <2>1, <2>3, <3>1, <3>2, <3>3, <3>4, <3>5, SizeOutput
  <2>5. CASE stage # "fwrite"
    <3> DEFINE all == pending[Roll]
    <3>0. SubSeq(all, 1, Len(all)) = all /\ Len(all) \in 0 .. Len(all)
      BY <2>2
    <3>1. PICK c \in 0 .. Len(all) :
             ToFile(Roll, SubSeq(all, 1, c)) /\ pending' = [pending EXCEPT ![Roll] = <<>>]
      <4>1. CASE Fflush(Roll)
        BY <3>0, <4>1 DEF Fflush
      <4>2. CASE WriteFails(Roll)
        <5>1. PICK c \in 0 .. Len(all) - 1 : ToFile(Roll, SubSeq(all, 1, c))
          BY <2>5, <4>2 DEF WriteFails
        <5>2. c \in 0 .. Len(all)
          BY <2>2
        <5>3. QED BY <4>2, <5>1, <5>2 DEF WriteFails
      <4>3. CASE Fwrite(Roll)
        BY <2>5, <4>3 DEF Fwrite, In
      <4>4. QED BY <1>6, <4>1, <4>2, <4>3
    <3>2. curSize' = curSize + 0 /\ curSize' < MaxSize + MaxBatch
      BY <1>0, <1>6, <2>5 DEF Fwrite, Fflush, WriteFails, In, roll, SizeInv
    <3>3. all \in Seq(Nat) /\ Len(all) = Len(pending[Roll]) + 0
      BY <2>2
    <3> HIDE DEF all
    <3>5. pending'[Roll] \in {<<>>, SubSeq(all, c + 1, Len(all))}
      BY <1>0, <3>1 DEF FlushTypes
    <3>6. QED BY <1>0, <2>1, <2>3, <3>1, <3>2, <3>3, <3>5, SizeOutput
  <2>6. QED BY <2>4, <2>5
<1>7. QED BY <1>2, <1>3, <1>4, <1>5, <1>6 DEF Flush

LEMMA SizeExit == ASSUME FlushInv, SizeInv, Exit PROVE SizeInv'
<1>1. /\ FlushTypes /\ proc = "up" /\ proc' = "exited"
      /\ UNCHANGED <<setting, first, batch, curSize>>
  BY DEF FlushInv, Exit, env, roll, hist
<1>2. RollNames' = RollNames /\ MaxBatch' = MaxBatch
  BY <1>1 DEF RollNames, Stamps, Stamp, MaxBatch
<1>3. 0 < MaxSize + MaxBatch /\ MaxSize + MaxBatch - 1 \in Nat
  BY FlushAssumption, MaxBatchIs
<1>4. ASSUME NEW f \in RollNames PROVE Older(kernel'[f], 0, MaxSize + MaxBatch - 1, first)
  <2>1. kernel[f] \in Seq(Nat) /\ Older(kernel[f], 0, MaxSize + MaxBatch - 1, first)
        /\ f \in Names
    BY <1>1, RollFacts DEF SizeInv
  <2>2. CASE Roll \in SinkSet /\ f = fs[Roll] /\ f # NoFile
    <3> DEFINE p == pending[Roll]
    <3>1. p \in Seq(Nat) /\ Len(p) \in Nat /\ curSize \in Nat /\ Len(p) <= curSize
          /\ Len(p) = Len(p) + 0 /\ Older(kernel[f], Len(p), curSize, first)
      BY <1>1, <2>2, RollFacts DEF SizeInv
    <3>2. kernel'[f] = kernel[f] \o p
      BY <1>1, <2>2, RollFacts, ExitWrites
    <3>3. kernel'[f] \in Seq(Nat)
      BY <2>1, <3>1, <3>2, FirstPart
    <3>4. SubSeq(p, 1, Len(p)) = p /\ Len(p) \in 0 .. Len(p)
          /\ 0 \in Nat /\ 0 <= Len(p) - Len(p)
      BY <3>1
    <3> HIDE DEF p
    <3>5. Older(kernel'[f], 0, curSize + 0, first)
      BY <2>1, <3>1, <3>2, <3>4, OlderOutput
    <3>6. curSize + 0 \in Nat /\ curSize + 0 <= MaxSize + MaxBatch - 1
      BY <1>3, <3>1, FlushAssumption, MaxBatchIs DEF SizeInv
    <3>7. QED BY <1>3, <3>3, <3>4, <3>5, <3>6, OlderWeaker
  <2>3. CASE Roll \in SinkSet /\ ~(f = fs[Roll] /\ f # NoFile)
    <3>1. kernel'[f] = kernel[f]
      BY <1>1, <2>3, RollFacts, ExitWrites
    <3>2. QED BY <2>1, <3>1
  <2>4. CASE Roll \notin SinkSet
    <3>1. SinkSet \subseteq {"FileFlush"}
      BY <1>1, <2>4, SinksShape
    <3>2. ASSUME NEW s \in SinkSet, fs[s] = f
          PROVE  f = NoFile
      <4>1. f \in NamesOf("FileFlush") \cup {NoFile}
        BY <1>1, <3>1, <3>2 DEF FlushTypes
      <4>2. QED BY <1>1, <4>1, RollFacts
    <3>3. \A s \in SinkSet : fs[s] = f => pending[s] = <<>>
      BY <1>1, <3>2 DEF FlushTypes
    <3>4. kernel'[f] = kernel[f] \/ kernel'[f] = kernel[f] \o <<>>
      BY <2>1, <3>3 DEF Exit
    <3>5. kernel[f] \o <<>> = kernel[f]
      BY <2>1
    <3>6. QED BY <2>1, <3>4, <3>5
  <2>5. QED BY <2>2, <2>3, <2>4
<1>5. QED BY <1>1, <1>2, <1>4 DEF SizeInv, In

LEMMA SizePower == ASSUME FlushInv, SizeInv, PowerFails PROVE SizeInv'
<1>1. /\ FlushTypes /\ proc' = "died"
      /\ UNCHANGED <<setting, first, batch, curSize>>
  BY DEF FlushInv, PowerFails, env, roll, hist
<1>2. RollNames' = RollNames /\ MaxBatch' = MaxBatch
  BY <1>1 DEF RollNames, Stamps, Stamp, MaxBatch
<1>3. ASSUME NEW f \in RollNames PROVE Older(kernel'[f], 0, MaxSize + MaxBatch - 1, first)
  <2>1. /\ kernel[f] \in Seq(Nat) /\ Older(kernel[f], 0, MaxSize + MaxBatch - 1, first)
        /\ synced[f] \in 0 .. Len(kernel[f]) /\ MaxSize + MaxBatch - 1 \in Nat
        /\ f \in Names
    BY <1>1, RollFacts, FlushAssumption, MaxBatchIs DEF SizeInv, FlushTypes
  <2>2. kernel'[f] = kernel[f] \/ kernel'[f] = SubSeq(kernel[f], 1, synced[f])
    BY <2>1 DEF PowerFails
  <2>3. QED BY <2>1, <2>2, OlderCut
<1>4. QED BY <1>1, <1>2, <1>3 DEF SizeInv, In

(* A new process counts from zero: all that is there is older. *)
LEMMA SizeRestart == ASSUME FlushInv, OrderInv, ConfineInv, SizeInv, Restart PROVE SizeInv'
<1>1. PICK opened : Construct(opened)
  BY DEF Restart
<1>2. /\ FlushTypes /\ first' = given /\ UNCHANGED <<setting, kernel>>
      /\ batch' = <<>> /\ stage' = "init" /\ curSize' = 0 /\ cnt' = 1
      /\ fs' = [s \in SinkSet |-> IF s = "FileFlush" THEN opened ELSE NoFile]
  BY <1>1 DEF Restart, Construct, env, files, FlushInv
<1>3. RollNames' = RollNames /\ MaxBatch' = MaxBatch /\ SinkSet' = SinkSet
  BY <1>2 DEF RollNames, Stamps, Stamp, MaxBatch, SinkSet, Sinks
<1>4. Len(<<>>) <= MaxBatch /\ 0 < MaxSize + MaxBatch
  BY FlushAssumption, MaxBatchIs
<1>5. ASSUME NEW f \in RollNames, NEW n PROVE Older(kernel[f], 0, n, given)
  <2>1. CASE Roll \in SinkSet
    <3>1. \A x \in ToSet(kernel[f]) : x <= Seen(Roll)
      BY <1>2, <2>1, RollFacts DEF OrderInv, Neat
    <3>2. Seen(Roll) \in Nat /\ Seen(Roll) <= given /\ given \in Nat
      BY <1>2, SeenBound
    <3>3. kernel[f] \in Seq(Nat)
      BY <1>2, RollFacts
    <3>4. ASSUME NEW i \in 1 .. Len(kernel[f]) PROVE kernel[f][i] <= given
      <4>1. kernel[f][i] \in ToSet(kernel[f]) /\ kernel[f][i] \in Nat
        BY <3>3 DEF ToSet
      <4>2. QED BY <3>1, <3>2, <4>1
    <3>5. QED BY <3>4 DEF Older
  <2>2. CASE Roll \notin SinkSet
    <3>1. kernel[f] = <<>>
      BY <1>2, <2>2, RollFacts DEF ConfineInv
    <3>2. QED BY <3>1 DEF Older
  <2>3. QED BY <2>1, <2>2
<1>6. Roll \in SinkSet => fs'[Roll] = NoFile
  BY <1>2 DEF Roll
<1>7. QED BY <1>2, <1>3, <1>4, <1>5, <1>6 DEF SizeInv, In

LEMMA SizeNext ==
    ASSUME FlushInv, FlushInv', OrderInv, ConfineInv, SizeInv, [Next]_vars
    PROVE  SizeInv'
<1>0. FlushTypes
  BY DEF FlushInv
<1>1. ASSUME NEW n \in BatchSizes, RealFlush(n) PROVE SizeInv'
  <2>1. /\ UNCHANGED <<setting, first, cnt, fs, curSize, pending, kernel, proc>>
        /\ proc = "up" /\ stage' = "init"
    BY <1>0, <1>1 DEF RealFlush, env, roll, files, FlushTypes
  <2>2. Len(batch') = n
    BY <1>1, FlushAssumption DEF RealFlush
  <2>3. Len(batch') <= MaxBatch
    BY <2>2, MaxBatchIs
  <2>4. QED BY <1>0, <2>1, <2>3, SizeSame DEF In
<1>2. ASSUME NEW s \in SinkSet, Flush(s) PROVE SizeInv'
  BY <1>2, SizeFileFlush, SizeRollFlush
<1>3. CASE Tick \/ UNCHANGED vars
  <2>1. UNCHANGED <<setting, first, cnt, fs, curSize, pending, kernel, proc, batch, at, stage>>
    BY <1>3 DEF Tick, vars, env, roll, files, hist
  <2>2. In(Roll, "fwrite")' => curSize < MaxSize
    BY <2>1 DEF In, Sinks, SizeInv
  <2>3. Len(batch') <= MaxBatch /\ MaxBatch' = MaxBatch
    BY <2>1 DEF SizeInv, MaxBatch
  <2>4. SinkSet' = SinkSet /\ RollNames' = RollNames
    BY <2>1 DEF SinkSet, Sinks, RollNames, Stamps, Stamp
  <2>5. QED BY <2>1, <2>2, <2>3, <2>4 DEF SizeInv
<1>4. CASE Crash
  <2>1. /\ UNCHANGED <<setting, first, cnt, fs, curSize, pending, kernel, batch>>
        /\ proc' = "died"
    BY <1>4 DEF Crash, env, roll, files, hist
  <2>2. Len(batch') <= MaxBatch
    BY <2>1 DEF SizeInv
  <2>3. QED BY <1>0, <2>1, <2>2, SizeSame DEF In
<1>5. QED BY <1>1, <1>2, <1>3, <1>4, SizeExit, SizePower, SizeRestart DEF Next

LEMMA SizeInit == Init => SizeInv
<1> SUFFICES ASSUME Init PROVE SizeInv
  OBVIOUS
<1>1. FlushTypes /\ batch = <<>> /\ curSize = 0 /\ stage = "init" /\ setting \in Settings
  BY FlushInit DEF FlushInv, Init
<1>2. Len(<<>>) <= MaxBatch /\ 0 < MaxSize + MaxBatch
  BY FlushAssumption, MaxBatchIs
<1>3. \A f \in RollNames : kernel[f] = <<>>
  BY <1>1, RollFacts DEF Init
<1>4. \A n, b : Older(<<>>, 0, n, b)
  BY DEF Older
<1>5. Roll \in SinkSet => fs[Roll] = NoFile
  BY DEF Init, Roll
<1>6. QED BY <1>1, <1>2, <1>3, <1>4, <1>5 DEF SizeInv, In

(* The bytes on their way to a sink have been given. *)
LEMMA BytesGiven ==
    ASSUME FlushInv, OrderInv, NEW s \in SinkSet
    PROVE  /\ pending[s] \in Seq(Nat) /\ ToSet(pending[s]) \subseteq 1 .. given
           /\ pending[s] \o batch \in Seq(Nat) /\ ToSet(pending[s] \o batch) \subseteq 1 .. given
<1>1. pending[s] \in Seq(Nat) /\ batch \in Seq(1 .. given) /\ batch \in Seq(Nat) /\ given \in Nat
  BY Bytes DEF FlushInv, FlushTypes
<1>2. \A y \in ToSet(pending[s]) : y \in Nat /\ 1 <= y /\ y <= Seen(s)
  <2>1. \A y \in ToSet(pending[s]) : 1 <= y /\ y <= Seen(s)
    BY DEF OrderInv, Neat
  <2>2. \A y \in ToSet(pending[s]) : y \in Nat
    BY <1>1 DEF ToSet
  <2>3. QED BY <2>1, <2>2
<1>3. Seen(s) \in Nat /\ Seen(s) <= given
  BY SeenBound DEF FlushInv
<1>4. ToSet(pending[s]) \subseteq 1 .. given
  BY <1>1, <1>2, <1>3
<1>5. ToSet(batch) \subseteq 1 .. given
  BY <1>1 DEF ToSet
<1>6. QED BY <1>1, <1>4, <1>5, HoldsConcat

(* A failed write drops what was given.                                     *)
LEMMA DropsGiven ==
    ASSUME FlushInv, ConfineInv, UNCHANGED <<setting, given>>, NEW s \in SinkSet,
           NEW b \in Seq(Nat), ToSet(b) \subseteq 1 .. given, NEW k \in 0 .. Len(b), Drop(s, b, k)
    PROVE  lost' \in [SinkSet -> SUBSET (1 .. given)]
<1>1. ToSet(SubSeq(b, k + 1, Len(b))) \subseteq 1 .. given
  BY HoldsCut
<1>2. QED BY <1>1 DEF Drop, ConfineInv

LEMMA ConfineFlush ==
    ASSUME FlushInv, OrderInv, ConfineInv, NEW s \in SinkSet, Flush(s)
    PROVE  ConfineInv'
<1>1. FlushTypes /\ s \in {"FileFlush", Roll} /\ UNCHANGED <<setting, given, flushLog>>
      /\ proc' \in {proc, "died"}
  BY SinksShape DEF FlushInv, Flush, KeepFile, RollFile, Fwrite, FwriteNull, Fflush, Fsync,
                    WriteFails, env, hist
<1>2. SinkSet' = SinkSet /\ \A r : NamesOf(r)' = NamesOf(r)
  BY <1>1 DEF SinkSet, Sinks, NamesOf, RollNames, Stamps, Stamp
<1>3. lost' \in [SinkSet -> SUBSET (1 .. given)]
  <2>1. CASE RollFile(s)
    <3>1. PICK k \in 0 .. Len(pending[s]) : Drop(s, pending[s], k)
      BY <2>1 DEF RollFile
    <3>2. QED BY <1>1, <3>1, BytesGiven, DropsGiven
  <2>2. CASE WriteFails(s)
    <3> DEFINE all == IF stage = "fwrite" THEN pending[s] \o batch ELSE pending[s]
    <3>1. PICK k \in 0 .. Len(all) - 1 : Drop(s, all, k)
      BY <2>2 DEF WriteFails
    <3>2. all \in Seq(Nat) /\ ToSet(all) \subseteq 1 .. given
      BY BytesGiven
    <3> HIDE DEF all
    <3>3. k \in 0 .. Len(all)
      BY <3>1, <3>2
    <3>4. QED BY <1>1, <3>1, <3>2, <3>3, DropsGiven
  <2>3. CASE ~RollFile(s) /\ ~WriteFails(s)
    <3>1. lost' = lost
      BY <2>3 DEF Flush, KeepFile, Fwrite, FwriteNull, Fflush, Fsync, hist
    <3>2. QED BY <3>1 DEF ConfineInv
  <2>4. QED BY <2>1, <2>2, <2>3
<1>4. ASSUME NEW r \in {"FileFlush", Roll} \ SinkSet, NEW f \in NamesOf(r)
      PROVE  kernel'[f] = <<>>
  <2>1. f \in Names /\ f \notin NamesOf(s) /\ kernel[f] = <<>>
    BY <1>1, <1>4, NamesDisjoint DEF ConfineInv
  <2>2. kernel' = kernel \/ (fs[s] # NoFile /\ \E b : ToFile(s, b))
    BY DEF Flush, KeepFile, RollFile, Fwrite, FwriteNull, Fflush, Fsync, WriteFails, files,
           FlushInv, Progress, In
  <2>3. fs[s] # NoFile => f # fs[s]
    BY <1>1, <2>1 DEF FlushTypes
  <2>4. QED BY <1>1, <2>1, <2>2, <2>3 DEF ToFile, FlushTypes
<1>5. QED BY <1>1, <1>2, <1>3, <1>4 DEF ConfineInv

LEMMA ConfineNext ==
    ASSUME FlushInv, OrderInv, ConfineInv, [Next]_vars
    PROVE  ConfineInv'
<1>0. FlushTypes /\ given \in Nat
  BY DEF FlushInv, FlushTypes
<1> DEFINE Empty(k) == \A s \in {"FileFlush", Roll} \ SinkSet : \A f \in NamesOf(s) : k[f] = <<>>
<1>1. ASSUME UNCHANGED <<setting, flushLog, lost>>, given' \in Nat, given <= given', Empty(kernel'),
             proc' \in {proc, "up", "exited", "died"}
      PROVE  ConfineInv'
  <2>1. SinkSet' = SinkSet /\ \A r : NamesOf(r)' = NamesOf(r)
    BY <1>1 DEF SinkSet, Sinks, NamesOf, RollNames, Stamps, Stamp
  <2>2. lost \in [SinkSet -> SUBSET (1 .. given')]
    <3>1. 1 .. given \subseteq 1 .. given'
      BY <1>0, <1>1
    <3>2. lost \in [SinkSet -> SUBSET (1 .. given)]
      BY DEF ConfineInv
    <3>3. QED BY <3>1, <3>2
  <2>3. QED BY <1>1, <2>1, <2>2 DEF ConfineInv
<1>2. Empty(kernel)
  BY DEF ConfineInv
<1>3. ASSUME NEW n \in BatchSizes, RealFlush(n) PROVE ConfineInv'
  <2>1. given' \in Nat /\ given <= given'
    BY <1>0, <1>3, FlushAssumption DEF RealFlush
  <2>2. UNCHANGED <<setting, flushLog, lost, kernel, proc>>
    BY <1>3 DEF RealFlush, env, files
  <2>3. QED BY <1>1, <1>2, <2>1, <2>2
<1>4. CASE Tick \/ Crash \/ Restart \/ UNCHANGED vars
  <2>1. /\ UNCHANGED <<setting, flushLog, lost, kernel, given>>
        /\ proc' \in {proc, "up", "died"}
    BY <1>4 DEF Tick, Crash, Restart, Construct, vars, env, files, hist
  <2>2. QED BY <1>0, <1>1, <1>2, <2>1
<1>5. CASE Exit
  <2>1. UNCHANGED <<setting, flushLog, lost, given>> /\ proc' = "exited"
    BY <1>5 DEF Exit, env, hist
  <2>2. ASSUME NEW r \in {"FileFlush", Roll} \ SinkSet, NEW f \in NamesOf(r)
        PROVE  kernel'[f] = <<>>
    <3>1. f \in Names /\ kernel[f] = <<>>
      BY <1>2, NamesDisjoint
    <3>2. ASSUME NEW s \in SinkSet, fs[s] = f PROVE pending[s] = <<>>
      <4>1. s \in {"FileFlush", Roll} /\ s # r
        BY <1>0, SinksShape
      <4>2. f \notin NamesOf(s)
        BY <4>1, NamesDisjoint
      <4>3. QED BY <1>0, <3>2, <4>2 DEF FlushTypes
    <3>3. kernel'[f] = kernel[f] \/ kernel'[f] = kernel[f] \o <<>>
      BY <1>5, <3>1, <3>2 DEF Exit
    <3>4. QED BY <3>1, <3>3
  <2>3. QED BY <1>0, <1>1, <2>1, <2>2
<1>6. CASE PowerFails
  <2>1. UNCHANGED <<setting, flushLog, lost, given>> /\ proc' = "died"
    BY <1>6 DEF PowerFails, env, hist
  <2>2. ASSUME NEW r \in {"FileFlush", Roll} \ SinkSet, NEW f \in NamesOf(r)
        PROVE  kernel'[f] = <<>>
    <3>1. f \in Names /\ kernel[f] = <<>> /\ synced[f] \in Nat /\ synced[f] <= Len(kernel[f])
      BY <1>0, <1>2, NamesDisjoint DEF FlushTypes
    <3>2. ~(synced[f] < Len(kernel[f]))
      BY <3>1
    <3>3. QED BY <1>6, <3>1, <3>2 DEF PowerFails
  <2>3. QED BY <1>0, <1>1, <2>1, <2>2
<1> HIDE DEF Empty
<1>7. QED BY <1>3, <1>4, <1>5, <1>6, ConfineFlush DEF Next

(* The invariants the sizes rest on. *)
LEMMA ConfineInvariant == Spec => []ConfineInv
<1>1. Init => ConfineInv
  <2> SUFFICES ASSUME Init PROVE ConfineInv
    OBVIOUS
  <2>1. FlushTypes
    BY FlushInit DEF FlushInv
  <2>2. \A s \in {"FileFlush", Roll} : \A f \in NamesOf(s) : kernel[f] = <<>>
    BY NamesDisjoint DEF Init
  <2>3. QED BY <2>2 DEF Init, ConfineInv
<1>2. FlushInv /\ OrderInv /\ ConfineInv /\ [Next]_vars => ConfineInv'
  BY ConfineNext
<1>3. QED BY <1>1, <1>2, FlushInvariant, OrderInvariant, PTL DEF Spec

LEMMA SizeInvariant == Spec => []SizeInv
<1>1. Init => SizeInv
  BY SizeInit
<1>2. FlushInv /\ FlushInv' /\ OrderInv /\ ConfineInv /\ SizeInv /\ [Next]_vars => SizeInv'
  BY SizeNext
<1>3. QED BY <1>1, <1>2, FlushInvariant, OrderInvariant, ConfineInvariant, PTL DEF Spec

LEMMA SumBound ==
    ASSUME NEW a \in Nat, NEW b \in Nat, NEW n \in Nat, NEW m \in Nat, a + b <= n, n <= m
    PROVE  a <= m
OBVIOUS

(* Bytes up to n, n at most m, are bytes up to m. *)
LEMMA ByteSeq ==
    ASSUME NEW m \in Nat, NEW n \in Nat, n <= m, NEW q \in Seq(Nat),
           \A y \in ToSet(q) : 1 <= y /\ y <= n
    PROVE  q \in Seq(1 .. m)
<1>1. \A i \in 1 .. Len(q) : q[i] \in ToSet(q) /\ q[i] \in Nat
  BY DEF ToSet
<1>2. \A i \in 1 .. Len(q) : q[i] \in 1 .. m
  BY <1>1
<1>3. QED BY <1>2

(* Every variable of the sinks keeps its type, and cur_size_ stays below    *)
(* max_size_ plus one batch.                                                *)
THEOREM SinksTypeCorrect == Spec => []TypeOK
<1>1. ASSUME FlushInv, OrderInv, ConfineInv, SizeInv PROVE TypeOK
  <2>0. FlushTypes /\ MaxBytes \in Nat /\ given \in Nat /\ given <= MaxBytes
    BY <1>1, FlushAssumption DEF FlushInv, FlushTypes
  <2>1. ASSUME NEW s \in SinkSet
        PROVE  /\ pending[s] \in Seq(1 .. MaxBytes)
               /\ \A f \in NamesOf(s) : /\ kernel[f] \in Seq(1 .. MaxBytes)
                                        /\ Len(kernel[f]) <= MaxBytes
    <3>1. /\ Neat(kernel, NamesOf(s), pending[s], Seen(s)) /\ pending[s] \in Seq(Nat)
          /\ Seen(s) \in Nat /\ Seen(s) <= given
          /\ \A f \in NamesOf(s) : kernel[f] \in Seq(Nat)
      BY <1>1, <2>0, SeenBound, SinksShape, NamesDisjoint DEF OrderInv, FlushTypes
    <3>2. Seen(s) <= MaxBytes
      BY <2>0, <3>1
    <3>3. pending[s] \in Seq(1 .. MaxBytes)
      BY <2>0, <3>1, <3>2, ByteSeq DEF Neat
    <3>4. ASSUME NEW f \in NamesOf(s)
          PROVE  kernel[f] \in Seq(1 .. MaxBytes) /\ Len(kernel[f]) <= MaxBytes
      <4>1. /\ \A x \in ToSet(kernel[f]) : 1 <= x /\ x <= Seen(s)
            /\ Len(kernel[f]) + Len(pending[s]) <= Seen(s)
        BY <3>1 DEF Neat
      <4>2. Len(kernel[f]) \in Nat /\ Len(pending[s]) \in Nat
        BY <3>1
      <4>3. Len(kernel[f]) <= MaxBytes
        BY <2>0, <3>1, <3>2, <4>1, <4>2, SumBound
      <4>4. QED BY <2>0, <3>1, <3>2, <4>1, <4>3, ByteSeq
    <3>5. QED BY <3>3, <3>4
  <2>2. ASSUME NEW f \in Names
        PROVE  kernel[f] \in Seq(1 .. MaxBytes) /\ Len(kernel[f]) <= MaxBytes
    <3>1. PICK s \in {"FileFlush", Roll} : f \in NamesOf(s)
      BY DEF Names, NamesOf, Roll
    <3>2. CASE s \in SinkSet
      BY <2>1, <3>1, <3>2
    <3>3. CASE s \notin SinkSet
      <4>1. kernel[f] = <<>>
        BY <1>1, <3>1, <3>3 DEF ConfineInv
      <4>2. QED BY <2>0, <4>1
    <3>4. QED BY <3>2, <3>3
  <2>3. kernel \in [Names -> Seq(1 .. MaxBytes)] /\ pending \in [SinkSet -> Seq(1 .. MaxBytes)]
    BY <2>0, <2>1, <2>2 DEF FlushTypes
  <2>4. synced \in [Names -> 0 .. MaxBytes]
    <3>1. ASSUME NEW f \in Names PROVE synced[f] \in 0 .. MaxBytes
      <4>1. synced[f] \in Nat /\ synced[f] <= Len(kernel[f]) /\ Len(kernel[f]) \in Nat
        BY <2>0 DEF FlushTypes
      <4>2. QED BY <2>0, <2>2, <4>1
    <3>2. QED BY <2>0, <3>1 DEF FlushTypes
  <2>5. batch \in Seq(1 .. MaxBytes)
    <3>1. 1 .. given \subseteq 1 .. MaxBytes
      BY <2>0
    <3>2. QED BY <2>0, <3>1 DEF FlushTypes
  <2>6. curSize \in 0 .. MaxSize + MaxBatch - 1
    BY <1>1, <2>0, FlushAssumption, MaxBatchIs DEF SizeInv, FlushTypes
  <2>7. given \in 0 .. MaxBytes
    BY <2>0
  <2>8. proc \in {"up", "exited", "died"}
    BY <1>1 DEF ConfineInv
  <2>9. QED BY <1>1, <2>0, <2>3, <2>4, <2>5, <2>6, <2>7, <2>8 DEF TypeOK, FlushTypes, ConfineInv
<1>2. QED BY <1>1, FlushInvariant, OrderInvariant, ConfineInvariant, SizeInvariant, PTL

(* RollFileFlush: what one process adds to a file exceeds max_size_ by less *)
(* than the largest batch.                                                  *)
THEOREM RollBounded == Spec => []RollBound
<1>1. ASSUME FlushInv, SizeInv PROVE RollBound
  <2> SUFFICES ASSUME NEW f \in RollNames
               PROVE  Cardinality({i \in 1 .. Len(kernel[f]) : kernel[f][i] > first}) < MaxSize + MaxBatch
    BY DEF RollBound
  <2> DEFINE n == MaxSize + MaxBatch - 1
             len == Len(kernel[f])
             New == {i \in 1 .. len : kernel[f][i] > first}
  <2>1. /\ n \in Nat /\ n < MaxSize + MaxBatch /\ MaxSize + MaxBatch \in Nat
        /\ len \in Nat /\ kernel[f] \in Seq(Nat) /\ first \in Nat
        /\ Older(kernel[f], 0, n, first)
    BY <1>1, FlushAssumption, MaxBatchIs, RollFacts DEF SizeInv, FlushInv, FlushTypes
  <2>2. ASSUME NEW i \in New PROVE i \in (len - n) + 1 .. len
    <3>1. i \in 1 .. len /\ kernel[f][i] > first /\ kernel[f][i] \in Nat
      BY <2>1, <2>2
    <3>2. ~(i + n <= len + 0)
      BY <2>1, <3>1 DEF Older
    <3> HIDE DEF n, len
    <3>3. QED BY <2>1, <3>1, <3>2
  <2>3. New \subseteq (len - n) + 1 .. len
    BY <2>2
  <2>4. /\ IsFiniteSet((len - n) + 1 .. len)
        /\ Cardinality((len - n) + 1 .. len) = n
    <3> HIDE DEF n, len
    <3>1. (len - n) + 1 \in Int /\ len \in Int /\ (len - n) + 1 <= len + 1
          /\ len - ((len - n) + 1) + 1 = n /\ (~((len - n) + 1 <= len) => n = 0)
      BY <2>1
    <3>2. QED BY <3>1, FS_Interval
  <2>5. IsFiniteSet(New) /\ Cardinality(New) \in Nat /\ Cardinality(New) <= n
    <3> HIDE DEF New
    <3>1. QED BY <2>3, <2>4, FS_Subset, FS_CardinalityType
  <2>6. QED
    <3> HIDE DEF n, New
    <3>1. Cardinality(New) < MaxSize + MaxBatch
      BY <2>1, <2>5
    <3>2. QED BY <3>1 DEF New
<1>2. QED BY <1>1, FlushInvariant, SizeInvariant, PTL

=============================================================================
