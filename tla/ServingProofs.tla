--------------------------- MODULE ServingProofs ---------------------------
(***************************************************************************)
(* Theorems about what serves: the daemon's notifications (Notify, Dedup) and *)
(* the bridge that fetches its images on a remote host (X11Bridge).  The three *)
(* share no variable; each has its own specification, its own invariant and a *)
(* part of this module:                                                    *)
(*                                                                         *)
(*   - Notify, for any number of handlers and any capacities;               *)
(*   - Dedup, for any callers, keys, window and lag;                        *)
(*   - X11Bridge, for any windows, properties and requests and any number of  *)
(*     chunks.                                                             *)
(***************************************************************************)
EXTENDS Notify, Dedup, X11Bridge, FiniteSetTheorems, TLAPS

-----------------------------------------------------------------------------
(* Notify.                                                                 *)

Counting == {h \in Handlers : hpc[h] = "count"}

\* A critical notification that has been overtaken is still queued, and the
\* notifier will look at the critical channel alone before it receives again.
OvertakenThenFirst ==
    overtaken # 0 =>
        /\ overtaken = 1
        /\ criticalCh > 0
        /\ npc \in {"first", "deliver", "returned"}

NotifyInv == NotifyTypeOK /\ OvertakenThenFirst /\ ReceiptsAccounted

\* Some handlers are about to count a drop, and their number is a number.
LEMMA CountingFinite == IsFiniteSet(Counting) /\ Cardinality(Counting) \in Nat
<1>1. Counting \subseteq Handlers
  BY DEF Counting
<1>. QED  BY <1>1, NotifyAssumption, FS_Subset, FS_CardinalityType

\* The daemon starts with empty queues.
LEMMA NotifyInitInv == NotifyInit => NotifyInv
<1>. SUFFICES ASSUME NotifyInit PROVE NotifyInv
  OBVIOUS
<1>1. NotifyTypeOK
  BY NotifyAssumption DEF NotifyInit, NotifyTypeOK, Kind
<1>2. OvertakenThenFirst
  BY DEF NotifyInit, OvertakenThenFirst
<1>3. ReceiptsAccounted
  <2>1. Counting = {}
    BY DEF NotifyInit, Counting
  <2>. QED  BY <2>1, FS_EmptySet DEF NotifyInit, ReceiptsAccounted, Counting
<1>. QED  BY <1>1, <1>2, <1>3 DEF NotifyInv

\* A step that moves no handler to or from "count" leaves the number alone.
LEMMA SameCounting ==
    ASSUME \A h \in Handlers : hpc'[h] = "count" <=> hpc[h] = "count"
    PROVE  Cardinality({h \in Handlers : hpc'[h] = "count"}) = Cardinality(Counting)
<1>1. {h \in Handlers : hpc'[h] = "count"} = Counting
  BY DEF Counting
<1>. QED  BY <1>1

\* A handler between "idle" and its answer leaves the accounts alone.
LEMMA UncountedMoveInv ==
    ASSUME NotifyInv, NEW h \in Handlers, NEW to,
           hpc[h] # "count", to \in {"idle", "dedup", "send", "answer"},
           Move(h, to), UNCHANGED <<receiptCh, receiptDrops, wpc, owed>>
    PROVE  ReceiptsAccounted'
<1>1. \A g \in Handlers : hpc'[g] = "count" <=> hpc[g] = "count"
  BY DEF NotifyInv, NotifyTypeOK, Move
<1>. QED  BY <1>1, SameCounting DEF NotifyInv, ReceiptsAccounted, Counting

\* Requests up to the answer.
LEMMA QueueingInv ==
    ASSUME NotifyInv, NEW h \in Handlers,
           \/ \E k \in Kind : Arrive(h, k)
           \/ Deduplicate(h) \/ SendCritical(h) \/ SendOrdinary(h)
    PROVE  NotifyInv'
<1>1. CASE \E k \in Kind : Arrive(h, k)
  <2>1. NotifyTypeOK' /\ OvertakenThenFirst'
    BY <1>1 DEF NotifyInv, NotifyTypeOK, OvertakenThenFirst, Arrive, Move, queues, writing
  <2>2. ReceiptsAccounted'
    BY <1>1, UncountedMoveInv DEF Arrive, writing
  <2>. QED  BY <2>1, <2>2 DEF NotifyInv
<1>2. CASE Deduplicate(h)
  <2>1. NotifyTypeOK' /\ OvertakenThenFirst'
    BY <1>2 DEF NotifyInv, NotifyTypeOK, OvertakenThenFirst, Deduplicate, Move, queues, writing
  <2>2. ReceiptsAccounted'
    BY <1>2, UncountedMoveInv DEF Deduplicate, writing
  <2>. QED  BY <2>1, <2>2 DEF NotifyInv
<1>3. CASE SendCritical(h)
  <2>1. NotifyTypeOK' /\ OvertakenThenFirst'
    BY <1>3, NotifyAssumption
    DEF NotifyInv, NotifyTypeOK, OvertakenThenFirst, SendCritical, Move, writing
  <2>2. ReceiptsAccounted'
    BY <1>3, UncountedMoveInv DEF SendCritical, writing
  <2>. QED  BY <2>1, <2>2 DEF NotifyInv
<1>4. CASE SendOrdinary(h)
  <2>1. NotifyTypeOK' /\ OvertakenThenFirst'
    BY <1>4, NotifyAssumption
    DEF NotifyInv, NotifyTypeOK, OvertakenThenFirst, SendOrdinary, Move, writing
  <2>2. ReceiptsAccounted'
    BY <1>4, UncountedMoveInv DEF SendOrdinary, writing
  <2>. QED  BY <2>1, <2>2 DEF NotifyInv
<1>. QED  BY <1>1, <1>2, <1>3, <1>4

\* The answer, and the receipt it leaves.
LEMMA AnswerInv ==
    ASSUME NotifyInv, NEW h \in Handlers, Answer(h)
    PROVE  NotifyInv'
<1>1. NotifyTypeOK' /\ OvertakenThenFirst'
  BY NotifyAssumption DEF NotifyInv, NotifyTypeOK, OvertakenThenFirst, Answer, Move, queues
<1>2. ReceiptsAccounted'
  <2>1. CASE kind[h] = "transfer"
    BY <2>1, UncountedMoveInv DEF Answer
  <2>2. CASE kind[h] # "transfer" /\ receiptCh < ReceiptCap
    <3>1. \A g \in Handlers : hpc'[g] = "count" <=> hpc[g] = "count"
      BY <2>2, NotifyAssumption DEF NotifyInv, NotifyTypeOK, Answer, Move
    <3>2. /\ owed' = owed + 1 /\ receiptCh' = receiptCh + 1
          /\ UNCHANGED <<receiptDrops, wpc>>
      BY <2>2, NotifyAssumption DEF NotifyInv, NotifyTypeOK, Answer
    <3>3. Cardinality({g \in Handlers : hpc'[g] = "count"}) = Cardinality(Counting)
      BY <3>1, SameCounting
    <3>. QED  BY <3>2, <3>3, CountingFinite DEF NotifyInv, NotifyTypeOK, ReceiptsAccounted, Counting
  <2>3. CASE kind[h] # "transfer" /\ receiptCh = ReceiptCap
    <3>1. hpc[h] = "answer" /\ hpc' = [hpc EXCEPT ![h] = "count"]
      BY <2>3, NotifyAssumption DEF NotifyInv, NotifyTypeOK, Answer, Move
    <3>2. owed' = owed + 1 /\ UNCHANGED <<receiptCh, receiptDrops, wpc>>
      BY <2>3, NotifyAssumption DEF NotifyInv, NotifyTypeOK, Answer
    <3>3. {g \in Handlers : hpc'[g] = "count"} = Counting \cup {h} /\ h \notin Counting
      BY <3>1 DEF NotifyInv, NotifyTypeOK, Counting
    <3>4. Cardinality({g \in Handlers : hpc'[g] = "count"}) = Cardinality(Counting) + 1
      BY <3>3, CountingFinite, FS_AddElement
    <3>. QED  BY <3>2, <3>4, CountingFinite DEF NotifyInv, NotifyTypeOK, ReceiptsAccounted, Counting
  <2>. QED  BY <2>1, <2>2, <2>3, NotifyAssumption DEF NotifyInv, NotifyTypeOK, Answer
<1>. QED  BY <1>1, <1>2 DEF NotifyInv

\* A drop is counted: one handler fewer owes it, the counter says one more.
LEMMA CountDropInv ==
    ASSUME NotifyInv, NEW h \in Handlers, CountDrop(h)
    PROVE  NotifyInv'
<1>1. NotifyTypeOK' /\ OvertakenThenFirst'
  BY DEF NotifyInv, NotifyTypeOK, OvertakenThenFirst, CountDrop, Move, queues
<1>2. {g \in Handlers : hpc'[g] = "count"} = Counting \ {h} /\ h \in Counting
  BY DEF NotifyInv, NotifyTypeOK, CountDrop, Move, Counting
<1>3. Cardinality({g \in Handlers : hpc'[g] = "count"}) = Cardinality(Counting) - 1
  BY <1>2, CountingFinite, FS_RemoveElement
<1>4. ReceiptsAccounted'
  BY <1>3, CountingFinite DEF NotifyInv, NotifyTypeOK, CountDrop, ReceiptsAccounted, Counting
<1>. QED  BY <1>1, <1>4 DEF NotifyInv

\* The notifier, the only one that receives from the two channels.
LEMMA NotifierInv ==
    ASSUME NotifyInv, FirstSelect \/ SecondSelect \/ NotifierReturns \/ Delivers
    PROVE  NotifyInv'
<1>1. NotifyTypeOK'
  BY NotifyAssumption
  DEF NotifyInv, NotifyTypeOK, FirstSelect, SecondSelect, NotifierReturns, Delivers,
      ReceiveCritical, ReceiveOrdinary, queues, handling, writing
<1>2. OvertakenThenFirst'
  <2>1. CASE FirstSelect
    BY <2>1 DEF NotifyInv, NotifyTypeOK, OvertakenThenFirst, FirstSelect, ReceiveCritical, queues
  <2>2. CASE SecondSelect
    BY <2>2
    DEF NotifyInv, NotifyTypeOK, OvertakenThenFirst, SecondSelect, ReceiveCritical, ReceiveOrdinary
  <2>3. CASE NotifierReturns \/ Delivers
    BY <2>3 DEF NotifyInv, OvertakenThenFirst, NotifierReturns, Delivers, queues
  <2>. QED  BY <2>1, <2>2, <2>3
<1>3. ReceiptsAccounted'
  <2>1. UNCHANGED <<hpc, receiptCh, receiptDrops, wpc, owed>>
    BY DEF FirstSelect, SecondSelect, NotifierReturns, Delivers, handling, writing
  <2>. QED  BY <2>1 DEF NotifyInv, ReceiptsAccounted
<1>. QED  BY <1>1, <1>2, <1>3 DEF NotifyInv

\* The receipt writer: what it takes, it records or reports.
LEMMA WriterInv ==
    ASSUME NotifyInv, WriterReceives \/ WriterSwapsDrops \/ WriterRecords
    PROVE  NotifyInv'
<1>1. NotifyTypeOK' /\ OvertakenThenFirst'
  BY NotifyAssumption
  DEF NotifyInv, NotifyTypeOK, OvertakenThenFirst, WriterReceives, WriterSwapsDrops,
      WriterRecords, queues, handling
<1>2. UNCHANGED hpc
  BY DEF WriterReceives, WriterSwapsDrops, WriterRecords, handling
<1>3. ReceiptsAccounted'
  BY <1>2, CountingFinite
  DEF NotifyInv, NotifyTypeOK, ReceiptsAccounted, WriterReceives, WriterSwapsDrops,
      WriterRecords, Counting
<1>. QED  BY <1>1, <1>3 DEF NotifyInv

\* Every step keeps the invariant.
LEMMA NotifyNextInv == NotifyInv /\ [NotifyNext]_notifyVars => NotifyInv'
<1>. SUFFICES ASSUME NotifyInv, [NotifyNext]_notifyVars PROVE NotifyInv'
  OBVIOUS
<1>1. CASE UNCHANGED notifyVars
  BY <1>1
  DEF NotifyInv, NotifyTypeOK, OvertakenThenFirst, ReceiptsAccounted, notifyVars, handling,
      queues, writing
<1>. QED
  BY <1>1, QueueingInv, AnswerInv, CountDropInv, NotifierInv, WriterInv
  DEF NotifyNext, HandlerStep

\* The inductive invariant holds in every state of Notify.
THEOREM NotifyInvariance == NotifySpec => []NotifyInv
<1>. QED  BY NotifyInitInv, NotifyNextInv, PTL DEF NotifySpec

\* No channel ever holds more than its capacity.
THEOREM NotifyTypeCorrect == NotifySpec => []NotifyTypeOK
<1>1. NotifyInv => NotifyTypeOK
  BY DEF NotifyInv
<1>. QED  BY NotifyInvariance, <1>1, PTL

\* A queued critical notification is overtaken by at most one ordinary one.
THEOREM OvertakenOnceHolds == NotifySpec => []OvertakenOnce
<1>1. NotifyInv => OvertakenOnce
  BY DEF NotifyInv, NotifyTypeOK, OvertakenThenFirst, OvertakenOnce
<1>. QED  BY NotifyInvariance, <1>1, PTL

\* No acceptance is forgotten between the handlers and the receipt writer.
THEOREM ReceiptsAccountedHolds == NotifySpec => []ReceiptsAccounted
<1>1. NotifyInv => ReceiptsAccounted
  BY DEF NotifyInv
<1>. QED  BY NotifyInvariance, <1>1, PTL

-----------------------------------------------------------------------------
(* Dedup.                                                                  *)

\* RepeatsApart does not follow from the types: the entry that decides may be older than
\* the last notification let through (a late clock moved it back) or gone (another key's
\* call swept it).  Behind says by how much.

\* An entry lags at most MaxLag behind the last clock that was let through; one
\* that was swept had been let through almost a window before.
Behind ==
    \A k \in Keys :
        \/ allowed[k] = Never
        \/ seen[k] <= allowed[k] + MaxLag
        \/ seen[k] = Never /\ allowed[k] > Window - MaxLag

DedupInv == DedupTypeOK /\ Behind

\* Dedup starts with no entry and nothing let through.
LEMMA DedupInitInv == DedupInit => DedupInv
<1>1. SUFFICES ASSUME DedupInit PROVE DedupInv
  OBVIOUS
<1>2. DedupTypeOK
  BY <1>1, DedupAssumption DEF DedupInit, DedupTypeOK, Never, Old, Age
<1>3. Behind
  BY <1>1 DEF DedupInit, Behind
<1>. QED  BY <1>2, <1>3 DEF DedupInv

\* A call of AllowAt sweeps, enters its key and may let it through.
LEMMA AllowAtInv ==
    ASSUME DedupInv, NEW h \in Callers, AllowAt(h)
    PROVE  DedupInv'
<1>. DEFINE items == Swept(lag[h])
<1>1. /\ lag[h] \in 0 .. MaxLag /\ key[h] \in Keys
      /\ Old \in Nat /\ Never = Old /\ MaxLag \in Nat /\ Window \in Nat
      /\ MaxLag <= Old
  BY DedupAssumption DEF DedupInv, DedupTypeOK, Old, Never
<1>2. /\ items \in [Keys -> Age]
      /\ \A k \in Keys : items[k] = seen[k]
                            \/ (items[k] = Never /\ seen[k] - lag[h] > Window)
  BY <1>1 DEF DedupInv, DedupTypeOK, Swept, Expired, Age
<1>3. DedupTypeOK'
  <2>1. cpc' \in [Callers -> {"idle", "locking", "allowed", "suppressed"}]
    BY DEF DedupInv, DedupTypeOK, AllowAt
  <2>2. key' \in [Callers -> Keys] /\ lag' \in [Callers -> 0 .. MaxLag]
    BY <1>1 DEF DedupInv, DedupTypeOK, AllowAt
  <2>3. lag[h] \in Age
    BY <1>1 DEF Age
  <2>4. seen' \in [Keys -> Age] /\ allowed' \in [Keys -> Age]
    BY <1>2, <2>3 DEF DedupInv, DedupTypeOK, AllowAt
  <2>. QED  BY <2>1, <2>2, <2>4 DEF DedupTypeOK
<1>4. Behind'
  <2>. SUFFICES ASSUME NEW k \in Keys
                PROVE  \/ allowed'[k] = Never
                       \/ seen'[k] <= allowed'[k] + MaxLag
                       \/ seen'[k] = Never /\ allowed'[k] > Window - MaxLag
    BY DEF Behind
  <2>0. /\ seen[k] \in Nat /\ allowed[k] \in Nat /\ allowed'[k] \in Nat
        /\ seen \in [Keys -> Age] /\ allowed \in [Keys -> Age]
    BY <1>1, <1>3 DEF DedupInv, DedupTypeOK, Age
  <2>1. CASE k = key[h]
    <3>1. seen'[k] = lag[h]
      BY <2>1, <1>2 DEF AllowAt
    <3>. QED  BY <3>1, <2>0, <1>1
  <2>2. CASE k # key[h]
    <3>1. seen'[k] = items[k] /\ allowed'[k] = allowed[k]
      BY <2>2, <2>0, <1>2 DEF AllowAt
    <3>2. \/ allowed[k] = Never
          \/ seen[k] <= allowed[k] + MaxLag
          \/ seen[k] = Never /\ allowed[k] > Window - MaxLag
      BY DEF DedupInv, Behind
    <3>3. CASE items[k] = seen[k]
      BY <3>1, <3>2, <3>3
    <3>4. CASE items[k] = Never /\ seen[k] - lag[h] > Window
      <4>. HIDE DEF items
      <4>1. CASE seen[k] <= allowed[k] + MaxLag
        BY <4>1, <3>1, <3>4, <2>0, <1>1
      <4>. QED  BY <4>1, <3>1, <3>2, <3>4
    <3>. QED  BY <3>3, <3>4, <1>2
  <2>. QED  BY <2>1, <2>2
<1>. QED  BY <1>3, <1>4 DEF DedupInv

\* Time makes an entry and the notification it stands for older alike.
LEMMA TickInv ==
    ASSUME DedupInv, Tick
    PROVE  DedupInv'
<1>1. Old \in Nat /\ Never = Old /\ MaxLag \in Nat /\ Window \in Nat
      /\ Old = Window + MaxLag + 1
  BY DedupAssumption DEF Old, Never
<1>2. DedupTypeOK'
  <2>1. \A a \in Age : Older(a) \in Age
    BY <1>1 DEF Age, Older
  <2>2. lag' \in [Callers -> 0 .. MaxLag]
    BY <1>1 DEF DedupInv, DedupTypeOK, Tick
  <2>. QED  BY <2>1, <2>2 DEF DedupInv, DedupTypeOK, Tick
<1>3. Behind'
  <2>. SUFFICES ASSUME NEW k \in Keys
                PROVE  \/ allowed'[k] = Never
                       \/ seen'[k] <= allowed'[k] + MaxLag
                       \/ seen'[k] = Never /\ allowed'[k] > Window - MaxLag
    BY DEF Behind
  <2>1. seen[k] \in 0 .. Old /\ allowed[k] \in 0 .. Old
    BY DEF DedupInv, DedupTypeOK, Age
  <2>2. seen'[k] = Older(seen[k]) /\ allowed'[k] = Older(allowed[k])
    BY DEF Tick
  <2>3. \/ allowed[k] = Never
        \/ seen[k] <= allowed[k] + MaxLag
        \/ seen[k] = Never /\ allowed[k] > Window - MaxLag
    BY DEF DedupInv, Behind
  <2>. QED  BY <1>1, <2>1, <2>2, <2>3 DEF Older
<1>. QED  BY <1>2, <1>3 DEF DedupInv

\* The rest of a handler moves nothing that Behind speaks of.
LEMMA DedupNextInv == DedupInv /\ [DedupNext]_dedupVars => DedupInv'
<1>. SUFFICES ASSUME DedupInv, [DedupNext]_dedupVars PROVE DedupInv'
  OBVIOUS
<1>1. ASSUME NEW h \in Callers, NEW k \in Keys, ReadsClock(h, k) PROVE DedupInv'
  BY <1>1 DEF DedupInv, DedupTypeOK, Behind, ReadsClock
<1>2. ASSUME NEW h \in Callers, AllowAt(h) PROVE DedupInv'
  BY <1>2, AllowAtInv
<1>3. ASSUME NEW h \in Callers, Goes(h) PROVE DedupInv'
  BY <1>3 DEF DedupInv, DedupTypeOK, Behind, Goes
<1>4. CASE Tick
  BY <1>4, TickInv
<1>5. CASE UNCHANGED dedupVars
  BY <1>5 DEF DedupInv, DedupTypeOK, Behind, dedupVars
<1>. QED  BY <1>1, <1>2, <1>3, <1>4, <1>5 DEF DedupNext

\* The inductive invariant holds in every state of Dedup.
THEOREM DedupInvariance == DedupSpec => []DedupInv
<1>. QED  BY DedupInitInv, DedupNextInv, PTL DEF DedupSpec

\* Ages, clocks and entries keep their types.
THEOREM DedupTypeCorrect == DedupSpec => []DedupTypeOK
<1>1. DedupInv => DedupTypeOK
  BY DEF DedupInv
<1>. QED  BY DedupInvariance, <1>1, PTL

\* AllowAt never lets two notifications of a key through with clocks less than
\* Window - 2 * MaxLag apart, in whatever order handlers get the lock.
THEOREM RepeatsApartHolds == DedupSpec => RepeatsApart
<1>. DEFINE Apart ==
       \A h \in Callers :
          cpc[h] = "locking" /\ cpc'[h] = "allowed" =>
              allowed[key[h]] = Never
                  \/ allowed[key[h]] - lag[h] > Window - 2 * MaxLag
<1>1. DedupInv /\ [DedupNext]_dedupVars => Apart
  <2>. SUFFICES ASSUME DedupInv, [DedupNext]_dedupVars, NEW h \in Callers,
                       cpc[h] = "locking", cpc'[h] = "allowed"
                PROVE  allowed[key[h]] = Never
                          \/ allowed[key[h]] - lag[h] > Window - 2 * MaxLag
    OBVIOUS
  <2>1. cpc \in [Callers -> {"idle", "locking", "allowed", "suppressed"}]
    BY DEF DedupInv, DedupTypeOK
  <2>2. AllowAt(h)
    BY <2>1 DEF DedupNext, dedupVars, ReadsClock, AllowAt, Goes, Tick
  <2>3. Swept(lag[h])[key[h]] = Never
    BY <2>1, <2>2 DEF AllowAt
  <2>4. /\ key[h] \in Keys /\ lag[h] \in 0 .. MaxLag
        /\ seen[key[h]] \in 0 .. Old /\ allowed[key[h]] \in 0 .. Old
        /\ Old = Window + MaxLag + 1 /\ Never = Old
        /\ MaxLag \in Nat /\ Window \in Nat
    BY DedupAssumption DEF DedupInv, DedupTypeOK, Age, Old, Never
  <2>5. seen[key[h]] = Never \/ seen[key[h]] - lag[h] > Window
    BY <2>3, <2>4 DEF Swept, Expired
  <2>6. \/ allowed[key[h]] = Never
        \/ seen[key[h]] <= allowed[key[h]] + MaxLag
        \/ seen[key[h]] = Never /\ allowed[key[h]] > Window - MaxLag
    BY <2>4 DEF DedupInv, Behind
  <2>. QED  BY <2>4, <2>5, <2>6
<1>2. DedupInv /\ [DedupNext]_dedupVars => [Apart]_dedupVars
  BY <1>1
<1>. QED  BY DedupInvariance, <1>2, PTL DEF DedupSpec, RepeatsApart

-----------------------------------------------------------------------------
(* X11Bridge.                                                              *)

\* The bridge has asked the server for changes of the window of the transfer; after one
\* ends the request that takes this back is still to come.
MaskInv ==
    /\ pc \in {"type", "image", "unsubscribe"} => req \in Slots
    /\ pc \in {"image", "unsubscribe"} => active = NoSlot
    /\ pc = "exit" => mask = {}
    /\ pc = "unsubscribe" => mask = {WindowOf(req)} \cap open
    /\ pc \notin {"exit", "unsubscribe"} =>
          mask = IF active = NoSlot THEN {} ELSE {WindowOf(active)} \cap open

\* Is the event at that place about this slot?
At(i, type, s) ==
    i \in 1 .. Len(events) /\ events[i].type = type /\ events[i].slot = s

NoRequest(s) == \A i \in 1 .. Len(events) : ~At(i, "request", s)
NoDelete(s) == \A i \in 1 .. Len(events) : ~At(i, "delete", s)
Quiet(s) == NoRequest(s) /\ NoDelete(s)

\* At most one delete of the slot, and nothing of the slot behind a request of it.
Single(s) ==
    \A i, j \in 1 .. Len(events) : At(i, "delete", s) /\ At(j, "delete", s) => i = j
Last(s) ==
    \A i, j \in 1 .. Len(events) :
        At(i, "request", s) /\ i < j => ~At(j, "request", s) /\ ~At(j, "delete", s)

\* A requestor whose request is on its way waits, and has nothing else in the queue behind
\* it; nor has one whose request is being served.
PendingInv ==
    /\ \A s \in Slots : Alive(s) => Last(s) /\ (conv[s] = "asked" \/ NoRequest(s))
    /\ pc \in {"type", "image"} /\ Alive(req) => conv[req] = "asked" /\ Quiet(req)

\* The requestor of the transfer has yet to read the marker, or the chunk that was last
\* written, or has read it: then, and only then, a delete may be on its way, a single one.
TransferInv ==
    active # NoSlot =>
        /\ sent < End
        /\ Alive(active) =>
              \/ /\ conv[active] = "given" /\ prop[active] = Marker /\ sent = 0
                 /\ Quiet(active)
              \/ /\ conv[active] = "incr" /\ prop[active] = sent /\ sent > 0
                 /\ Quiet(active)
              \/ /\ conv[active] = "incr" /\ prop[active] = Nothing /\ got[active] = sent
                 /\ Single(active)

\* Who is in a transfer finds chunks only.
ChunkInv ==
    \A s \in Slots : conv[s] = "incr" =>
        prop[s] = Nothing \/ (prop[s] \in 1 .. End /\ got[s] = prop[s] - 1)

BridgeInv == BridgeTypeOK /\ MaskInv /\ PendingInv /\ TransferInv /\ ChunkInv

-----------------------------------------------------------------------------
(* Slots, numbers and the queue.                                           *)

LEMMA SlotFacts ==
  /\ NoSlot \notin Slots
  /\ \A r \in Requests : r[1] \in Slots /\ r[2] \in Target
  /\ \A s \in Slots : WindowOf(s) \in Windows
  BY BridgeAssumption DEF Slots, Windows

LEMMA Numbers ==
  /\ Chunks \in Nat /\ Chunks > 0
  /\ Nothing = 0 /\ End = Chunks + 1 /\ Marker = Chunks + 2 /\ Whole = Chunks + 3
  BY BridgeAssumption DEF Nothing, End, Marker, Whole

\* What is told of a slot names one.
LEMMA EventFacts ==
  ASSUME events \in Seq(Event), NEW i \in 1 .. Len(events)
  PROVE  /\ events[i] \in Event
         /\ events[i].type \in {"request", "delete", "clear"}
         /\ events[i].type # "clear" => events[i].slot \in Slots
         /\ events[i].type = "request" => events[i].target \in Target
  BY DEF Event

\* An event that is added stands behind all others.
LEMMA Appended ==
  ASSUME events \in Seq(Event), NEW e \in Event, events' = Append(events, e)
  PROVE  /\ events' \in Seq(Event) /\ Len(events') = Len(events) + 1
         /\ \A type, s, i \in 1 .. Len(events) : At(i, type, s)' <=> At(i, type, s)
         /\ \A type, s, last : last = Len(events) + 1 =>
                (At(last, type, s)' <=> e.type = type /\ e.slot = s)
<1>1. events' \in Seq(Event) /\ Len(events) \in Nat /\ Len(events') = Len(events) + 1
  OBVIOUS
<1>2. /\ \A i \in 1 .. Len(events) : events'[i] = events[i]
      /\ events'[Len(events) + 1] = e
  OBVIOUS
<1>3. \A type, s, i \in 1 .. Len(events) : At(i, type, s)' <=> At(i, type, s)
  BY <1>1, <1>2 DEF At
<1>4. \A type, s, last : last = Len(events) + 1 =>
          (At(last, type, s)' <=> e.type = type /\ e.slot = s)
  BY <1>1, <1>2 DEF At
<1>. QED  BY <1>1, <1>3, <1>4

\* An event that is taken was in front of all others.
LEMMA Taken ==
  ASSUME events \in Seq(Event), events # <<>>, events' = Tail(events)
  PROVE  /\ events' \in Seq(Event)
         /\ Len(events) \in Nat \ {0} /\ Len(events') = Len(events) - 1
         /\ Head(events) = events[1]
         /\ \A type, s, i : At(i, type, s)' <=> i \in 1 .. Len(events') /\ At(i + 1, type, s)
  BY DEF At

\* A property is deleted by whoever reads it, and the bridge is told if it looks.
LEMMA DeletesFacts ==
  ASSUME events \in Seq(Event), prop \in [Slots -> 0 .. Whole], NEW s \in Slots, Deletes(s)
  PROVE  /\ events' \in Seq(Event) /\ Len(events') \in {Len(events), Len(events) + 1}
         /\ prop' = [prop EXCEPT ![s] = 0] /\ prop' \in [Slots -> 0 .. Whole]
         /\ \A t \in Slots, i \in 1 .. Len(events') :
               /\ At(i, "request", t)' <=> At(i, "request", t)
               /\ At(i, "delete", t)' <=> \/ At(i, "delete", t)
                                         \/ /\ i = Len(events) + 1 /\ t = s
                                            /\ WindowOf(s) \in mask
<1>1. [type |-> "delete", slot |-> s] \in Event
  BY DEF Event
<1>2. prop' = [prop EXCEPT ![s] = 0] /\ prop' \in [Slots -> 0 .. Whole]
  BY Numbers DEF Deletes
<1>3. CASE events' = Append(events, [type |-> "delete", slot |-> s]) /\ WindowOf(s) \in mask
  <2>1. \A type, t, last : last = Len(events) + 1 =>
            (At(last, type, t)' <=> type = "delete" /\ t = s)
    BY <1>1, <1>3, Appended, SMTT(60)
  <2>2. \A type, t, last : last = Len(events) + 1 => ~At(last, type, t)
    BY DEF At
  <2>3. events' \in Seq(Event) /\ Len(events') = Len(events) + 1 /\ Len(events) \in Nat
    BY <1>1, <1>3, Appended
  <2>4. ASSUME NEW t \in Slots, NEW i \in 1 .. Len(events')
        PROVE  /\ At(i, "request", t)' <=> At(i, "request", t)
               /\ At(i, "delete", t)' <=> \/ At(i, "delete", t)
                                         \/ /\ i = Len(events) + 1 /\ t = s
                                            /\ WindowOf(s) \in mask
    <3>1. CASE i \in 1 .. Len(events)
      <4>1. i # Len(events) + 1 /\ i \in 1 .. Len(events')
        BY <2>3, <3>1
      <4>2. events'[i] = events[i]
        BY <1>3, <3>1
      <4>. QED  BY <3>1, <4>1, <4>2 DEF At
    <3>2. CASE i = Len(events) + 1
      BY <1>3, <2>1, <2>2, <3>2
    <3>3. i \in 1 .. Len(events) \/ i = Len(events) + 1
      BY <2>3
    <3>. QED  BY <3>1, <3>2, <3>3, Zenon
  <2>. QED  BY <1>2, <2>3, <2>4
<1>4. CASE events' = events /\ WindowOf(s) \notin mask
  <2>1. \A t \in Slots, i \in 1 .. Len(events') :
            /\ At(i, "request", t)' <=> At(i, "request", t)
            /\ At(i, "delete", t)' <=> At(i, "delete", t)
    BY <1>4 DEF At
  <2>2. Len(events) \in Nat
    OBVIOUS
  <2>. QED  BY <1>2, <1>4, <2>1, <2>2
<1>. QED  BY <1>3, <1>4 DEF Deletes

\* What the bridge gives is in its place, if the requestor is still there.
LEMMA GivesFacts ==
  ASSUME prop \in [Slots -> 0 .. Whole], conv \in [Slots -> {"idle", "asked", "given", "incr"}],
         NEW s \in Slots, NEW value \in 0 .. Whole, Gives(s, value)
  PROVE  /\ prop' \in [Slots -> 0 .. Whole]
         /\ conv' \in [Slots -> {"idle", "asked", "given", "incr"}]
         /\ \A t \in Slots : t # s \/ ~Alive(s) => prop'[t] = prop[t] /\ conv'[t] = conv[t]
         /\ Alive(s) => prop'[s] = value /\ conv'[s] = "given"
  BY DEF Gives

\* The request that is taken is of a slot.
LEMMA RequestFacts ==
  ASSUME events \in Seq(Event), Takes("request")
  PROVE  /\ Head(events).slot \in Slots /\ Head(events).target \in Target
         /\ pc = "loop" /\ events # <<>> /\ events' = Tail(events)
         /\ At(1, "request", Head(events).slot)
  BY Taken, EventFacts DEF Takes, At

-----------------------------------------------------------------------------
(* Types.                                                                  *)

\* BridgeTypeOK in three parts.
LoopOK ==
    /\ pc \in {"loop", "type", "image", "unsubscribe", "reclaim", "verify", "exit"}
    /\ req \in Slots \cup {NoSlot}
    /\ active \in Slots \cup {NoSlot}
    /\ sent \in 0 .. End
    /\ due \in BOOLEAN

QueueOK ==
    /\ mask \subseteq Windows
    /\ owner \in {"bridge", "other"}
    /\ events \in Seq(Event)

RequestorOK ==
    /\ open \subseteq Windows
    /\ prop \in [Slots -> 0 .. Whole]
    /\ conv \in [Slots -> {"idle", "asked", "given", "incr"}]
    /\ got \in [Slots -> 0 .. End]

LEMMA TypeParts == BridgeTypeOK <=> LoopOK /\ QueueOK /\ RequestorOK
  BY DEF BridgeTypeOK, LoopOK, QueueOK, RequestorOK

LEMMA LoopStep ==
  ASSUME LoopOK, QueueOK, MaskInv, TransferInv, [BridgeNext]_bridgeVars PROVE LoopOK'
<1>. USE DEF LoopOK
<1>1. CASE UNCHANGED bridge
  BY <1>1 DEF bridge
<1>2. ASSUME Clears, active \in Slots PROVE LoopOK'
  <2>1. 0 \in 0 .. End
    BY Numbers
  <2>2. due' \in BOOLEAN
    BY <1>2, Zenon DEF Clears
  <2>. QED  BY <1>2, <2>1, <2>2 DEF Clears
<1>3. CASE Expire
  BY <1>2, <1>3 DEF Expire, IncrExpired
<1>4. CASE WriteChunk
  <2>1. events # <<>> /\ Head(events).slot = active /\ Head(events).type = "delete"
    BY <1>4 DEF WriteChunk, Takes, IsProgress
  <2>2. active \in Slots
    BY <2>1, EventFacts DEF QueueOK
  <2>3. sent + 1 \in 0 .. End
    BY <2>2, SlotFacts, Numbers DEF TransferInv
  <2>4. \/ Clears
        \/ sent' = sent + 1 /\ due' = FALSE /\ UNCHANGED <<pc, req, active>>
    BY <1>4 DEF WriteChunk
  <2>. QED  BY <1>2, <2>2, <2>3, <2>4
<1>5. CASE BeginFetch
  BY <1>5, RequestFacts DEF BeginFetch, QueueOK
<1>6. CASE AnswerTargets \/ FetchFails \/ GiveDirectly \/ Unsubscribe
  BY <1>6 DEF AnswerTargets, FetchFails, GiveDirectly, Unsubscribe, Served
<1>7. CASE StartIncr
  <2>1. 0 \in 0 .. End
    BY Numbers
  <2>2. due' \in BOOLEAN
    BY <1>7, Zenon DEF StartIncr
  <2>. QED  BY <1>7, <2>1, <2>2 DEF StartIncr, Served
<1>8. CASE LoseOwnership \/ Reclaim \/ Verify \/ Cancel
  BY <1>8 DEF LoseOwnership, Reclaim, Verify, Cancel
<1>9. CASE TimePasses
  BY <1>9, Zenon DEF TimePasses
<1>10. CASE OtherTakes \/ RefuseRequest \/ AnswerTimestamp \/ IgnoreDelete \/ UNCHANGED bridgeVars
  BY <1>1, <1>10 DEF OtherTakes, RefuseRequest, AnswerTimestamp, IgnoreDelete, bridgeVars
<1>. QED  BY <1>1, <1>3, <1>4, <1>5, <1>6, <1>7, <1>8, <1>9, <1>10
          DEF BridgeNext, BridgeStep, ReadAnswer, ReadChunk, Ask, CloseWindow

LEMMA QueueStep ==
  ASSUME LoopOK, QueueOK, RequestorOK, MaskInv, [BridgeNext]_bridgeVars PROVE QueueOK'
<1>. USE DEF QueueOK
<1>1. CASE UNCHANGED <<mask, owner, events>>
  BY <1>1
<1>2. ASSUME UNCHANGED <<mask, owner>>, events # <<>>, events' = Tail(events) PROVE QueueOK'
  BY <1>2
<1>3. CASE RefuseRequest \/ AnswerTimestamp \/ BeginFetch \/ WriteChunk \/ IgnoreDelete
           \/ LoseOwnership
  BY <1>2, <1>3 DEF RefuseRequest, AnswerTimestamp, BeginFetch, WriteChunk, IgnoreDelete,
     LoseOwnership, Takes
<1>4. CASE StartIncr
  BY <1>4, SlotFacts DEF StartIncr, MaskInv
<1>5. CASE AnswerTargets \/ FetchFails \/ GiveDirectly \/ Expire \/ TimePasses
  BY <1>1, <1>5 DEF AnswerTargets, FetchFails, GiveDirectly, Expire, TimePasses, server
<1>6. CASE Unsubscribe \/ Reclaim \/ Verify \/ Cancel
  BY <1>6 DEF Unsubscribe, Reclaim, Verify, Cancel
<1>7. CASE OtherTakes
  <2>1. [type |-> "clear"] \in Event
    BY DEF Event
  <2>. QED  BY <1>7, <2>1 DEF OtherTakes
<1>8. ASSUME NEW s \in Slots, ReadAnswer(s) \/ ReadChunk(s) PROVE QueueOK'
  BY <1>8, DeletesFacts DEF ReadAnswer, ReadChunk, RequestorOK
<1>9. ASSUME NEW r \in Requests, Ask(r[1], r[2]) PROVE QueueOK'
  <2>1. [type |-> "request", slot |-> r[1], target |-> r[2]] \in Event
    BY SlotFacts DEF Event
  <2>. QED  BY <1>9, <2>1 DEF Ask
<1>10. ASSUME NEW w \in Windows, CloseWindow(w) PROVE QueueOK'
  BY <1>10 DEF CloseWindow
<1>. QED  BY <1>1, <1>3, <1>4, <1>5, <1>6, <1>7, <1>8, <1>9, <1>10
          DEF BridgeNext, BridgeStep, bridgeVars, server

LEMMA RequestorStep ==
  ASSUME LoopOK, QueueOK, RequestorOK, MaskInv, TransferInv, ChunkInv, [BridgeNext]_bridgeVars
  PROVE  RequestorOK'
<1>. USE DEF RequestorOK
<1>1. CASE UNCHANGED requestor
  BY <1>1 DEF requestor
<1>2. ASSUME NEW s \in Slots, Refuses(s), UNCHANGED <<open, prop, got>> PROVE RequestorOK'
  BY <1>2 DEF Refuses
<1>3. ASSUME NEW s \in Slots, NEW value \in 0 .. Whole, Gives(s, value), UNCHANGED <<open, got>>
      PROVE  RequestorOK'
  BY <1>3, GivesFacts
<1>4. Whole \in 0 .. Whole /\ Marker \in 0 .. Whole /\ 0 \in 0 .. Whole /\ 0 \in 0 .. End
  BY Numbers
<1>5. CASE RefuseRequest \/ AnswerTimestamp
  BY <1>2, <1>3, <1>4, <1>5, RequestFacts DEF RefuseRequest, AnswerTimestamp, QueueOK
<1>6. CASE AnswerTargets \/ FetchFails \/ GiveDirectly \/ StartIncr
  <2>1. req \in Slots
    BY <1>6 DEF AnswerTargets, FetchFails, GiveDirectly, StartIncr, MaskInv
  <2>. QED  BY <1>2, <1>3, <1>4, <1>6, <2>1 DEF AnswerTargets, FetchFails, GiveDirectly, StartIncr
<1>7. CASE WriteChunk
  <2>1. events # <<>> /\ Head(events).slot = active /\ Head(events).type = "delete"
    BY <1>7 DEF WriteChunk, Takes, IsProgress
  <2>2. active \in Slots
    BY <2>1, EventFacts DEF QueueOK
  <2>3. sent + 1 \in 0 .. Whole
    BY <2>2, SlotFacts, Numbers DEF TransferInv, LoopOK
  <2>. QED  BY <1>7, <2>2, <2>3 DEF WriteChunk
<1>8. ASSUME NEW s \in Slots, ReadAnswer(s) PROVE RequestorOK'
  BY <1>4, <1>8, DeletesFacts DEF ReadAnswer, QueueOK
<1>9. ASSUME NEW s \in Slots, ReadChunk(s) PROVE RequestorOK'
  <2>1. prop[s] \in 1 .. End /\ got[s] = prop[s] - 1
    BY <1>9 DEF ReadChunk, ChunkInv
  <2>2. (IF prop[s] = End THEN 0 ELSE got[s] + 1) \in 0 .. End
    BY <2>1, Numbers
  <2>3. got' \in [Slots -> 0 .. End]
    BY <1>9, <2>2 DEF ReadChunk
  <2>. QED  BY <1>9, <2>3, DeletesFacts DEF ReadChunk, QueueOK
<1>10. ASSUME NEW w \in Windows, CloseWindow(w) PROVE RequestorOK'
  BY <1>4, <1>10, Numbers DEF CloseWindow
<1>11. ASSUME NEW r \in Requests, Ask(r[1], r[2]) PROVE RequestorOK'
  BY <1>11 DEF Ask
<1>12. CASE BeginFetch \/ IgnoreDelete \/ Expire \/ Unsubscribe \/ LoseOwnership \/ Reclaim
            \/ Verify \/ Cancel \/ OtherTakes \/ TimePasses
  BY <1>1, <1>12 DEF BeginFetch, IgnoreDelete, Expire, Unsubscribe, LoseOwnership, Reclaim,
     Verify, Cancel, OtherTakes, TimePasses, requestor
<1>. QED  BY <1>1, <1>5, <1>6, <1>7, <1>8, <1>9, <1>10, <1>11, <1>12
          DEF BridgeNext, BridgeStep, bridgeVars

LEMMA TypeStep == ASSUME BridgeInv, [BridgeNext]_bridgeVars PROVE BridgeTypeOK'
<1>1. LoopOK' /\ QueueOK' /\ RequestorOK'
  BY TypeParts, LoopStep, QueueStep, RequestorStep DEF BridgeInv
<1>2. BridgeTypeOK' <=> LoopOK' /\ QueueOK' /\ RequestorOK'
  BY TypeParts, PTL
<1>. QED  BY <1>1, <1>2

-----------------------------------------------------------------------------
(* The event mask.                                                         *)

\* A delete that the bridge takes for its transfer's is of the slot of one.
LEMMA WriteChunkFacts ==
  ASSUME events \in Seq(Event), WriteChunk
  PROVE  /\ active \in Slots /\ active # NoSlot
         /\ pc = "loop" /\ events # <<>> /\ events' = Tail(events)
         /\ At(1, "delete", active)
         /\ \/ Clears
            \/ Alive(active) /\ sent' = sent + 1 /\ UNCHANGED <<pc, req, active>>
         /\ UNCHANGED <<mask, open, conv, got>>
<1>1. events # <<>> /\ Head(events).slot = active /\ Head(events).type = "delete"
  BY DEF WriteChunk, Takes, IsProgress
<1>2. active \in Slots
  BY <1>1, EventFacts
<1>3. At(1, "delete", active)
  BY <1>1 DEF At
<1>4. pc = "loop" /\ events' = Tail(events) /\ UNCHANGED <<mask, open, conv, got>>
  BY DEF WriteChunk, Takes
<1>5. \/ Clears
      \/ Alive(active) /\ sent' = sent + 1 /\ UNCHANGED <<pc, req, active>>
  BY DEF WriteChunk
<1>. QED  BY <1>1, <1>2, <1>3, <1>4, <1>5, SlotFacts

LEMMA MaskStep ==
  ASSUME LoopOK, QueueOK, MaskInv, [BridgeNext]_bridgeVars PROVE MaskInv'
<1>. USE DEF MaskInv
<1>1. CASE UNCHANGED <<pc, req, active, mask, open>>
  BY <1>1
<1>2. ASSUME pc = "loop", active \in Slots, active # NoSlot, Clears, UNCHANGED <<mask, open>>
      PROVE  MaskInv'
  BY <1>2 DEF Clears
<1>3. CASE WriteChunk
  <2>1. CASE Clears
    BY <1>2, <1>3, <2>1, WriteChunkFacts DEF QueueOK
  <2>2. CASE UNCHANGED <<pc, req, active>>
    BY <1>1, <1>3, <2>2, WriteChunkFacts DEF QueueOK
  <2>. QED  BY <1>3, <2>1, <2>2, WriteChunkFacts DEF QueueOK
<1>4. CASE Expire
  BY <1>2, <1>4 DEF Expire, IncrExpired, LoopOK, server, requestor
<1>5. CASE BeginFetch
  <2>1. /\ req' \in Slots /\ pc = "loop" /\ pc' \in {"type", "image"}
        /\ pc' = "image" => active = NoSlot
        /\ UNCHANGED <<active, mask, open>>
    BY <1>5, RequestFacts DEF BeginFetch, QueueOK, Busy, requestor
  <2>. QED  BY <2>1
<1>6. CASE AnswerTargets \/ FetchFails \/ GiveDirectly
  BY <1>6 DEF AnswerTargets, FetchFails, GiveDirectly, Served, server
<1>7. CASE StartIncr
  <2>1. req \in Slots /\ req # NoSlot /\ active = NoSlot /\ mask = {} /\ pc' = "loop"
    BY <1>7, SlotFacts DEF StartIncr, Served
  <2>. QED  BY <1>7, <2>1 DEF StartIncr, Alive
<1>8. CASE Unsubscribe
  BY <1>8 DEF Unsubscribe, Served, requestor
<1>9. CASE LoseOwnership
  BY <1>9 DEF LoseOwnership, Takes, requestor
<1>10. CASE Reclaim \/ Verify \/ Cancel
  BY <1>10 DEF Reclaim, Verify, Cancel, requestor
<1>11. ASSUME NEW w \in Windows, CloseWindow(w) PROVE MaskInv'
  BY <1>11 DEF CloseWindow, bridge
<1>12. CASE RefuseRequest \/ AnswerTimestamp \/ IgnoreDelete \/ OtherTakes \/ TimePasses
  BY <1>1, <1>12 DEF RefuseRequest, AnswerTimestamp, IgnoreDelete, OtherTakes, TimePasses,
     bridge, server, requestor
<1>13. CASE (\E s \in Slots : ReadAnswer(s) \/ ReadChunk(s))
            \/ (\E r \in Requests : Ask(r[1], r[2])) \/ UNCHANGED bridgeVars
  BY <1>1, <1>13 DEF ReadAnswer, ReadChunk, Ask, bridgeVars, bridge, server, requestor
<1>. QED  BY <1>3, <1>4, <1>5, <1>6, <1>7, <1>8, <1>9, <1>10, <1>11, <1>12, <1>13
          DEF BridgeNext, BridgeStep

-----------------------------------------------------------------------------
(* What a requestor in a transfer finds.                                   *)

LEMMA ChunkStep ==
  ASSUME LoopOK, QueueOK, RequestorOK, MaskInv, PendingInv, TransferInv, ChunkInv,
         [BridgeNext]_bridgeVars
  PROVE  ChunkInv'
<1>. USE DEF ChunkInv
<1>1. CASE UNCHANGED <<prop, conv, got>>
  BY <1>1
<1>2. ASSUME NEW s \in Slots, Refuses(s), UNCHANGED <<prop, got>> PROVE ChunkInv'
  BY <1>2 DEF Refuses, RequestorOK
<1>3. ASSUME NEW s \in Slots, NEW value \in 0 .. Whole, Gives(s, value), UNCHANGED got
      PROVE  ChunkInv'
  BY <1>3, GivesFacts DEF RequestorOK
<1>4. Whole \in 0 .. Whole /\ Marker \in 0 .. Whole
  BY Numbers
<1>5. CASE RefuseRequest \/ AnswerTimestamp
  BY <1>2, <1>3, <1>4, <1>5, RequestFacts DEF RefuseRequest, AnswerTimestamp, QueueOK
<1>6. CASE AnswerTargets \/ FetchFails \/ GiveDirectly \/ StartIncr
  <2>1. req \in Slots
    BY <1>6 DEF AnswerTargets, FetchFails, GiveDirectly, StartIncr, MaskInv
  <2>. QED  BY <1>2, <1>3, <1>4, <1>6, <2>1 DEF AnswerTargets, FetchFails, GiveDirectly, StartIncr
<1>7. CASE WriteChunk
  <2>1. active \in Slots /\ active # NoSlot /\ At(1, "delete", active)
           /\ UNCHANGED <<conv, got>> /\ 1 \in 1 .. Len(events)
    BY <1>7, WriteChunkFacts DEF QueueOK, At
  <2>2. CASE Alive(active)
    <3>1. prop' = [prop EXCEPT ![active] = sent + 1]
      BY <1>7, <2>2 DEF WriteChunk
    <3>2. ~Quiet(active)
      BY <2>1 DEF Quiet, NoDelete
    <3>3. conv[active] = "incr" /\ got[active] = sent /\ sent < End
      BY <2>1, <2>2, <3>2 DEF TransferInv
    <3>4. sent + 1 \in 1 .. End /\ (sent + 1) - 1 = sent
      BY <3>3, Numbers DEF LoopOK
    <3>. QED  BY <2>1, <3>1, <3>3, <3>4 DEF RequestorOK
  <2>3. CASE ~Alive(active)
    BY <1>1, <1>7, <2>1, <2>3 DEF WriteChunk
  <2>. QED  BY <2>2, <2>3
<1>8. ASSUME NEW s \in Slots, ReadAnswer(s) PROVE ChunkInv'
  BY <1>8, DeletesFacts, Numbers DEF ReadAnswer, QueueOK, RequestorOK
<1>9. ASSUME NEW s \in Slots, ReadChunk(s) PROVE ChunkInv'
  BY <1>9, DeletesFacts, Numbers DEF ReadChunk, QueueOK, RequestorOK
<1>10. ASSUME NEW w \in Windows, CloseWindow(w) PROVE ChunkInv'
  BY <1>10, Numbers DEF CloseWindow, RequestorOK
<1>11. ASSUME NEW r \in Requests, Ask(r[1], r[2]) PROVE ChunkInv'
  BY <1>11 DEF Ask, RequestorOK
<1>12. CASE BeginFetch \/ IgnoreDelete \/ Expire \/ Unsubscribe \/ LoseOwnership \/ Reclaim
            \/ Verify \/ Cancel \/ OtherTakes \/ TimePasses \/ UNCHANGED bridgeVars
  BY <1>1, <1>12 DEF BeginFetch, IgnoreDelete, Expire, Unsubscribe, LoseOwnership, Reclaim,
     Verify, Cancel, OtherTakes, TimePasses, requestor, bridgeVars
<1>. QED  BY <1>5, <1>6, <1>7, <1>8, <1>9, <1>10, <1>11, <1>12 DEF BridgeNext, BridgeStep

-----------------------------------------------------------------------------
(* What the queue holds of a slot.                                         *)

\* What a queue keeps that has nothing of the slot added.
Keeps(s) ==
    /\ NoRequest(s) => NoRequest(s)'
    /\ NoDelete(s) => NoDelete(s)'
    /\ Single(s) => Single(s)'
    /\ Last(s) => Last(s)'

LEMMA QueueTaken ==
  ASSUME events \in Seq(Event), NEW s, events # <<>>, events' = Tail(events)
  PROVE  Keeps(s)
<1>1. Len(events) \in Nat \ {0} /\ Len(events') = Len(events) - 1
  BY Taken
<1>2. \A i \in 1 .. Len(events') :
          /\ i + 1 \in 1 .. Len(events)
          /\ At(i, "request", s)' => At(i + 1, "request", s)
          /\ At(i, "delete", s)' => At(i + 1, "delete", s)
  BY <1>1, Taken
<1>3. NoRequest(s) => NoRequest(s)'
  BY <1>2 DEF NoRequest
<1>4. NoDelete(s) => NoDelete(s)'
  BY <1>2 DEF NoDelete
<1>5. ASSUME Single(s), NEW i \in 1 .. Len(events'), NEW j \in 1 .. Len(events'),
             At(i, "delete", s)', At(j, "delete", s)'
      PROVE  i = j
  <2>1. i + 1 = j + 1
    BY <1>2, <1>5 DEF Single
  <2>. QED  BY <1>1, <2>1
<1>6. ASSUME Last(s), NEW i \in 1 .. Len(events'), NEW j \in 1 .. Len(events'),
             At(i, "request", s)', i < j
      PROVE  ~At(j, "request", s)' /\ ~At(j, "delete", s)'
  <2>1. i + 1 < j + 1
    BY <1>1, <1>6
  <2>. QED  BY <1>2, <1>6, <2>1 DEF Last
<1>. QED  BY <1>3, <1>4, <1>5, <1>6 DEF Keeps, Single, Last

LEMMA QueueAdded ==
  ASSUME events \in Seq(Event), NEW s, NEW e \in Event, events' = Append(events, e),
         e.type = "clear" \/ e.slot # s
  PROVE  Keeps(s)
<1>1. Len(events) \in Nat /\ Len(events') = Len(events) + 1
  BY Appended
<1>2. \A i \in 1 .. Len(events') :
          /\ At(i, "request", s)' => i \in 1 .. Len(events) /\ At(i, "request", s)
          /\ At(i, "delete", s)' => i \in 1 .. Len(events) /\ At(i, "delete", s)
  BY <1>1 DEF At
<1>. QED  BY <1>2 DEF Keeps, NoRequest, NoDelete, Single, Last

LEMMA QueueSame == ASSUME NEW s, UNCHANGED events PROVE Keeps(s)
  BY DEF Keeps, NoRequest, NoDelete, Single, Last, At

\* A request or a delete of the slot is added, and no request of it is waiting.
LEMMA QueueOwn ==
  ASSUME events \in Seq(Event), NEW s \in Slots, NEW e \in Event, e.slot = s,
         e.type \in {"request", "delete"}, events' = Append(events, e), NoRequest(s)
  PROVE  /\ Last(s)'
         /\ e.type = "delete" => NoRequest(s)' /\ (NoDelete(s) => Single(s)')
<1>1. Len(events) \in Nat /\ Len(events') = Len(events) + 1
  BY Appended
<1>2. \A i \in 1 .. Len(events') :
          /\ At(i, "request", s)' => i = Len(events) + 1 /\ e.type = "request"
          /\ At(i, "delete", s)' => At(i, "delete", s) \/ i = Len(events) + 1
  BY <1>1 DEF At, NoRequest
<1>3. Last(s)'
  BY <1>1, <1>2 DEF Last
<1>4. ASSUME e.type = "delete" PROVE NoRequest(s)'
  BY <1>1, <1>2, <1>4 DEF NoRequest
<1>5. ASSUME NoDelete(s) PROVE Single(s)'
  <2>1. \A i \in 1 .. Len(events') : At(i, "delete", s)' => i = Len(events) + 1
    BY <1>1, <1>2, <1>5 DEF NoDelete, At
  <2>. QED  BY <2>1 DEF Single
<1>. QED  BY <1>3, <1>4, <1>5

\* What is in front of the queue leaves none of its kind, if it was the only one.
LEMMA QueueFront ==
  ASSUME events \in Seq(Event), NEW s \in Slots, events # <<>>, events' = Tail(events)
  PROVE  /\ At(1, "request", s) /\ Last(s) => Quiet(s)'
         /\ At(1, "delete", s) /\ Single(s) => NoDelete(s)'
<1>1. Len(events) \in Nat \ {0} /\ Len(events') = Len(events) - 1
  BY Taken
<1>2. \A i \in 1 .. Len(events') :
          /\ i + 1 \in 1 .. Len(events) /\ 1 \in 1 .. Len(events) /\ 1 < i + 1
          /\ At(i, "request", s)' => At(i + 1, "request", s)
          /\ At(i, "delete", s)' => At(i + 1, "delete", s)
  BY <1>1, Taken
<1>. QED  BY <1>2 DEF Last, Single, Quiet, NoRequest, NoDelete

\* Only the requestor of a slot adds to what the queue holds of it.
LEMMA QueueElse ==
  ASSUME events \in Seq(Event), NEW s \in Slots,
         \/ BridgeStep \/ Cancel \/ OtherTakes \/ TimePasses \/ UNCHANGED bridgeVars
         \/ \E t \in Slots \ {s} : Deletes(t)
         \/ \E r \in Requests : r[1] # s /\ Ask(r[1], r[2])
         \/ \E w \in Windows : CloseWindow(w)
  PROVE  Keeps(s)
<1>1. ASSUME NEW e \in Event, events' = Append(events, e), e.type = "clear" \/ e.slot # s
      PROVE  Keeps(s)
  BY <1>1, QueueAdded
<1>2. CASE OtherTakes
  <2>1. [type |-> "clear"] \in Event
    BY DEF Event
  <2>. QED  BY <1>1, <1>2, <2>1 DEF OtherTakes
<1>3. ASSUME NEW t \in Slots \ {s}, Deletes(t) PROVE Keeps(s)
  <2>1. [type |-> "delete", slot |-> t] \in Event
    BY DEF Event
  <2>. QED  BY <1>1, <1>3, <2>1, QueueSame DEF Deletes
<1>4. ASSUME NEW r \in Requests, r[1] # s, Ask(r[1], r[2]) PROVE Keeps(s)
  <2>1. [type |-> "request", slot |-> r[1], target |-> r[2]] \in Event
    BY SlotFacts DEF Event
  <2>. QED  BY <1>1, <1>4, <2>1 DEF Ask
<1>5. CASE RefuseRequest \/ AnswerTimestamp \/ BeginFetch \/ WriteChunk \/ IgnoreDelete
           \/ LoseOwnership
  BY <1>5, QueueTaken DEF RefuseRequest, AnswerTimestamp, BeginFetch, WriteChunk, IgnoreDelete,
     LoseOwnership, Takes
<1>6. CASE AnswerTargets \/ FetchFails \/ GiveDirectly \/ StartIncr \/ Expire \/ Unsubscribe
           \/ Reclaim \/ Verify \/ Cancel \/ TimePasses \/ UNCHANGED bridgeVars
  BY <1>6, QueueSame DEF AnswerTargets, FetchFails, GiveDirectly, StartIncr, Expire, Unsubscribe,
     Reclaim, Verify, Cancel, TimePasses, bridgeVars, server
<1>7. ASSUME NEW w \in Windows, CloseWindow(w) PROVE Keeps(s)
  BY <1>7, QueueSame DEF CloseWindow
<1>. QED  BY <1>2, <1>3, <1>4, <1>5, <1>6, <1>7 DEF BridgeStep

\* Who reads has no request in the queue, and adds a delete at most.
LEMMA QueueRead ==
  ASSUME events \in Seq(Event), NEW s \in Slots, Deletes(s), NoRequest(s)
  PROVE  Last(s)' /\ NoRequest(s)' /\ (NoDelete(s) => Single(s)')
<1>1. CASE UNCHANGED events
  <2>1. Keeps(s)
    BY <1>1, QueueSame
  <2>2. Last(s)
    BY DEF Last, NoRequest
  <2>3. NoDelete(s) => Single(s)
    BY DEF NoDelete, Single
  <2>. QED  BY <2>1, <2>2, <2>3 DEF Keeps
<1>2. CASE events' = Append(events, [type |-> "delete", slot |-> s])
  <2>1. [type |-> "delete", slot |-> s] \in Event
    BY DEF Event
  <2>. QED  BY <1>2, <2>1, QueueOwn
<1>. QED  BY <1>1, <1>2 DEF Deletes

-----------------------------------------------------------------------------
(* Requests on their way.                                                  *)

LEMMA PendingStep ==
  ASSUME BridgeTypeOK, MaskInv, PendingInv, [BridgeNext]_bridgeVars PROVE PendingInv'
<1>. DEFINE Waiting(s) == Alive(s) => Last(s) /\ (conv[s] = "asked" \/ NoRequest(s))
            Serving == pc \in {"type", "image"} /\ Alive(req)
                           => conv[req] = "asked" /\ Quiet(req)
<1>1. PendingInv <=> (\A s \in Slots : Waiting(s)) /\ Serving
  BY DEF PendingInv
<1>2. PendingInv' <=> (\A s \in Slots : Waiting(s)') /\ Serving'
  BY DEF PendingInv
<1>3. events \in Seq(Event) /\ prop \in [Slots -> 0 .. Whole]
         /\ conv \in [Slots -> {"idle", "asked", "given", "incr"}]
         /\ (pc \in {"type", "image"} => req \in Slots)
  BY DEF BridgeTypeOK, MaskInv
<1>4. ASSUME NEW s \in Slots, Keeps(s), Alive(s)' => Alive(s),
             conv'[s] = conv[s] \/ Quiet(s)'
      PROVE  Waiting(s)'
  BY <1>1, <1>4 DEF Keeps, Quiet
<1>5. ASSUME UNCHANGED <<pc, req>>,
             \A s \in Slots : pc \in {"type", "image"} /\ s = req /\ Alive(s)' =>
                 Alive(s) /\ Keeps(s) /\ conv'[s] = conv[s]
      PROVE  Serving'
  <2>1. ASSUME NEW s \in Slots, s = req, pc \in {"type", "image"}, Alive(s)'
        PROVE  conv'[s] = "asked" /\ Quiet(s)'
    BY <1>1, <1>5, <2>1 DEF Keeps, Quiet
  <2>. QED  BY <1>3, <1>5, <2>1
<1>6. ASSUME Takes("request"), NEW s \in Slots, s = Head(events).slot, Alive(s)
      PROVE  Quiet(s)'
  <2>1. At(1, "request", s) /\ events # <<>> /\ events' = Tail(events)
    BY <1>3, <1>6, RequestFacts
  <2>. QED  BY <1>1, <1>3, <1>6, <2>1, QueueFront
<1>7. ASSUME pc' \notin {"type", "image"} PROVE Serving'
  BY <1>7
<1>. HIDE DEF Waiting, Serving
<1>10. CASE RefuseRequest \/ AnswerTimestamp
  <2>1. PICK t \in Slots : /\ t = Head(events).slot
                           /\ Refuses(t) \/ Gives(t, Whole)
    BY <1>3, <1>10, RequestFacts DEF RefuseRequest, AnswerTimestamp
  <2>2. Takes("request") /\ UNCHANGED <<pc, req, open>> /\ pc = "loop"
    BY <1>10 DEF RefuseRequest, AnswerTimestamp, Takes, bridge
  <2>3. ASSUME NEW s \in Slots PROVE Waiting(s)'
    <3>1. Keeps(s)
      BY <1>3, <1>10, QueueElse DEF BridgeStep
    <3>2. Alive(s)' <=> Alive(s)
      BY <2>2 DEF Alive
    <3>3. CASE s # t \/ ~Alive(s)
      <4>1. conv'[s] = conv[s]
        BY <1>3, <2>1, <3>3 DEF Refuses, Gives
      <4>. QED  BY <1>4, <3>1, <3>2, <4>1
    <3>4. CASE s = t /\ Alive(s)
      <4>1. s = Head(events).slot /\ Alive(s)
        BY <2>1, <3>4
      <4>2. Quiet(s)'
        BY <1>6, <2>2, <4>1
      <4>. QED  BY <1>4, <3>1, <3>2, <4>2
    <3>. QED  BY <3>3, <3>4
  <2>. QED  BY <1>2, <1>7, <2>2, <2>3
<1>11. CASE BeginFetch
  <2>1. /\ UNCHANGED <<conv, open>> /\ Takes("request")
        /\ req' \in Slots /\ req' = Head(events).slot
    BY <1>3, <1>11, RequestFacts DEF BeginFetch, requestor
  <2>2. ASSUME NEW s \in Slots PROVE Keeps(s) /\ (Alive(s)' <=> Alive(s)) /\ conv'[s] = conv[s]
    BY <1>3, <1>11, <2>1, QueueElse DEF BridgeStep, Alive
  <2>3. ASSUME NEW s \in Slots, s = Head(events).slot, Alive(s)
        PROVE  conv[s] = "asked" /\ Quiet(s)'
    <3>1. At(1, "request", s) /\ 1 \in 1 .. Len(events)
      BY <1>3, <2>1, <2>3, RequestFacts DEF At
    <3>2. ~NoRequest(s)
      BY <3>1 DEF NoRequest
    <3>. QED  BY <1>1, <1>6, <2>1, <2>3, <3>2 DEF Waiting
  <2>4. ASSUME NEW s \in Slots, s = req', Alive(s)' PROVE conv'[s] = "asked" /\ Quiet(s)'
    BY <2>1, <2>2, <2>3, <2>4
  <2>5. Serving'
    BY <2>1, <2>4 DEF Serving
  <2>. QED  BY <1>2, <1>4, <2>2, <2>5
<1>12. CASE AnswerTargets \/ FetchFails \/ GiveDirectly \/ StartIncr
  <2>1. /\ pc \in {"type", "image"} /\ pc' = "loop" /\ UNCHANGED <<open, events>>
        /\ Refuses(req) \/ \E value \in {Whole, Marker} : Gives(req, value)
    BY <1>12 DEF AnswerTargets, FetchFails, GiveDirectly, StartIncr, Served, server
  <2>2. ASSUME NEW s \in Slots PROVE Waiting(s)'
    <3>1. Keeps(s) /\ (Alive(s)' <=> Alive(s))
      BY <2>1, QueueSame DEF Alive
    <3>2. CASE s # req \/ ~Alive(s)
      <4>1. conv'[s] = conv[s]
        BY <1>3, <2>1, <3>2 DEF Refuses, Gives
      <4>. QED  BY <1>4, <3>1, <4>1
    <3>3. CASE s = req /\ Alive(s)
      <4>1. Quiet(s)
        BY <1>1, <2>1, <3>3 DEF Serving
      <4>. QED  BY <1>4, <3>1, <4>1 DEF Keeps, Quiet
    <3>. QED  BY <3>2, <3>3
  <2>. QED  BY <1>2, <1>7, <2>1, <2>2
<1>13. CASE WriteChunk \/ IgnoreDelete \/ Expire \/ Unsubscribe \/ LoseOwnership \/ Reclaim
            \/ Verify \/ Cancel \/ OtherTakes \/ TimePasses \/ UNCHANGED bridgeVars
  <2>1. UNCHANGED <<conv, open>>
    BY <1>13 DEF WriteChunk, IgnoreDelete, Expire, Unsubscribe, LoseOwnership, Reclaim, Verify,
       Cancel, OtherTakes, TimePasses, requestor, bridgeVars
  <2>2. UNCHANGED <<pc, req>> \/ pc' \notin {"type", "image"}
    BY <1>13 DEF WriteChunk, Clears, IgnoreDelete, Expire, Unsubscribe, Served, LoseOwnership,
       Reclaim, Verify, Cancel, OtherTakes, TimePasses, bridge, bridgeVars
  <2>3. ASSUME NEW s \in Slots PROVE Keeps(s) /\ (Alive(s)' <=> Alive(s)) /\ conv'[s] = conv[s]
    BY <1>3, <1>13, <2>1, QueueElse DEF BridgeStep, Alive
  <2>. QED  BY <1>2, <1>4, <1>5, <1>7, <2>2, <2>3
<1>14. ASSUME NEW t \in Slots, ReadAnswer(t) \/ ReadChunk(t) PROVE PendingInv'
  <2>1. /\ Deletes(t) /\ conv[t] \in {"given", "incr"}
        /\ UNCHANGED <<pc, req, open>>
        /\ \A s \in Slots \ {t} : conv'[s] = conv[s]
    BY <1>3, <1>14 DEF ReadAnswer, ReadChunk, bridge
  <2>2. \A s \in Slots : Alive(s)' <=> Alive(s)
    BY <2>1 DEF Alive
  <2>3. ASSUME NEW s \in Slots, s # t PROVE Keeps(s) /\ conv'[s] = conv[s]
    BY <1>3, <2>1, <2>3, QueueElse
  <2>4. Waiting(t)'
    <3>1. Alive(t) => NoRequest(t)
      BY <1>1, <2>1 DEF Waiting
    <3>. QED  BY <1>3, <2>1, <2>2, <3>1, QueueRead DEF Waiting
  <2>5. Serving'
    <3>1. pc \in {"type", "image"} /\ Alive(t) => t # req
      BY <1>1, <2>1 DEF Serving
    <3>. QED  BY <1>5, <2>1, <2>2, <2>3, <3>1
  <2>. QED  BY <1>2, <1>4, <2>2, <2>3, <2>4, <2>5
<1>15. ASSUME NEW r \in Requests, Ask(r[1], r[2]) PROVE PendingInv'
  <2>1. PICK t \in Slots : t = r[1]
    BY SlotFacts
  <2>2. /\ Alive(t) /\ conv[t] = "idle" /\ conv' = [conv EXCEPT ![t] = "asked"]
        /\ UNCHANGED <<pc, req, open>>
        /\ events' = Append(events, [type |-> "request", slot |-> t, target |-> r[2]])
    BY <1>15, <2>1 DEF Ask, bridge
  <2>3. \A s \in Slots : Alive(s)' <=> Alive(s)
    BY <2>2 DEF Alive
  <2>4. ASSUME NEW s \in Slots, s # t PROVE Keeps(s) /\ conv'[s] = conv[s]
    BY <1>3, <1>15, <2>1, <2>2, <2>4, QueueElse
  <2>5. Waiting(t)'
    <3>1. NoRequest(t)
      BY <1>1, <2>2 DEF Waiting
    <3>2. [type |-> "request", slot |-> t, target |-> r[2]] \in Event
      BY SlotFacts DEF Event
    <3>3. Last(t)'
      BY <1>3, <2>2, <3>1, <3>2, QueueOwn
    <3>. QED  BY <1>3, <2>2, <3>3 DEF Waiting
  <2>6. Serving'
    <3>1. pc \in {"type", "image"} => t # req
      BY <1>1, <2>2 DEF Serving
    <3>. QED  BY <1>5, <2>2, <2>3, <2>4, <3>1
  <2>. QED  BY <1>2, <1>4, <2>3, <2>4, <2>5, <2>6
<1>16. ASSUME NEW w \in Windows, CloseWindow(w) PROVE PendingInv'
  <2>1. ASSUME NEW s \in Slots
        PROVE  Keeps(s) /\ (Alive(s)' => Alive(s) /\ conv'[s] = conv[s])
    BY <1>3, <1>16, QueueElse DEF CloseWindow, Alive
  <2>2. UNCHANGED <<pc, req>>
    BY <1>16 DEF CloseWindow, bridge
  <2>3. ASSUME NEW s \in Slots PROVE Waiting(s)'
    <3>1. CASE Alive(s)'
      BY <1>4, <2>1, <3>1
    <3>2. CASE ~Alive(s)'
      BY <3>2 DEF Waiting
    <3>. QED  BY <3>1, <3>2
  <2>. QED  BY <1>2, <1>5, <2>1, <2>2, <2>3
<1>. QED  BY <1>10, <1>11, <1>12, <1>13, <1>14, <1>15, <1>16 DEF BridgeNext, BridgeStep

-----------------------------------------------------------------------------
(* The transfer.                                                           *)

\* The requestor of a transfer has read what it was given, and owes a delete at most.
LEMMA TransferRead ==
  ASSUME BridgeTypeOK, PendingInv, TransferInv, ChunkInv, NEW a \in Slots, a = active,
         ReadAnswer(a) \/ ReadChunk(a)
  PROVE  TransferInv'
<1>1. active # NoSlot /\ active' = a /\ sent' = sent /\ (Alive(a)' <=> Alive(a))
  BY SlotFacts DEF ReadAnswer, ReadChunk, bridge, Alive
<1>2. Deletes(a) /\ conv[a] # "asked" /\ events \in Seq(Event)
         /\ conv \in [Slots -> {"idle", "asked", "given", "incr"}]
         /\ got \in [Slots -> 0 .. End] /\ prop \in [Slots -> 0 .. Whole] /\ sent \in 0 .. End
  BY DEF ReadAnswer, ReadChunk, BridgeTypeOK
<1>3. prop'[a] = Nothing
  BY <1>2 DEF Deletes
<1>4. sent < End
  BY <1>1 DEF TransferInv
<1>5. ASSUME Alive(a) PROVE conv'[a] = "incr" /\ got'[a] = sent /\ Single(a)'
  <2>1. NoRequest(a)
    BY <1>2, <1>5 DEF PendingInv
  <2>2. Quiet(a) => Single(a)'
    BY <1>2, <2>1, QueueRead DEF Quiet
  <2>3. \/ conv[a] = "given" /\ prop[a] = Marker /\ sent = 0 /\ Quiet(a)
        \/ conv[a] = "incr" /\ prop[a] = sent /\ sent > 0 /\ Quiet(a)
        \/ conv[a] = "incr" /\ prop[a] = Nothing
    BY <1>1, <1>5 DEF TransferInv
  <2>4. CASE ReadAnswer(a)
    BY <1>2, <2>2, <2>3, <2>4 DEF ReadAnswer
  <2>5. CASE ReadChunk(a)
    <3>1. prop[a] = sent /\ sent > 0 /\ Quiet(a) /\ conv[a] = "incr"
      BY <2>3, <2>5 DEF ReadChunk
    <3>2. got[a] = sent - 1 /\ prop[a] # End
      BY <1>2, <1>4, <3>1, Numbers, SMTT(60) DEF ChunkInv
    <3>3. got'[a] = got[a] + 1 /\ conv'[a] = "incr"
      BY <1>2, <2>5, <3>2 DEF ReadChunk
    <3>. QED  BY <1>2, <2>2, <3>1, <3>2, <3>3, Numbers
  <2>. QED  BY <2>4, <2>5
<1>. QED  BY <1>1, <1>3, <1>4, <1>5 DEF TransferInv

\* The next chunk is written once the last was read, and with the last one the end is told.
LEMMA TransferWrite ==
  ASSUME BridgeTypeOK, PendingInv, TransferInv, WriteChunk PROVE TransferInv'
<1>1. /\ active \in Slots /\ active # NoSlot /\ events # <<>> /\ events' = Tail(events)
      /\ At(1, "delete", active) /\ UNCHANGED <<open, conv>>
      /\ events \in Seq(Event) /\ prop \in [Slots -> 0 .. Whole] /\ sent \in 0 .. End
  BY WriteChunkFacts DEF BridgeTypeOK
<1>2. CASE Clears
  BY <1>2 DEF Clears, TransferInv
<1>3. CASE Alive(active) /\ ~Clears
  <2>1. /\ prop' = [prop EXCEPT ![active] = sent + 1] /\ ~IsComplete(sent + 1)
        /\ sent' = sent + 1 /\ active' = active
    BY <1>3 DEF WriteChunk
  <2>2. PICK a \in Slots : a = active
    BY <1>1
  <2>3. ~NoDelete(a)
    BY <1>1, <2>2 DEF NoDelete, At
  <2>4. conv[a] = "incr" /\ Single(a) /\ sent < End
    BY <1>1, <1>3, <2>2, <2>3 DEF TransferInv, Quiet
  <2>5. sent' < End /\ sent' > 0
    BY <1>1, <2>1, <2>4, Numbers DEF IsComplete
  <2>6. NoDelete(a)'
    BY <1>1, <2>2, <2>4, QueueFront
  <2>7. NoRequest(a)'
    <3>1. NoRequest(a)
      BY <1>3, <2>2, <2>4 DEF PendingInv
    <3>. QED  BY <1>1, <3>1, QueueTaken DEF Keeps
  <2>8. prop'[a] = sent' /\ conv'[a] = "incr" /\ active' = a
    BY <1>1, <2>1, <2>2, <2>4
  <2>. QED  BY <2>5, <2>6, <2>7, <2>8 DEF TransferInv, Quiet
<1>. QED  BY <1>1, <1>2, <1>3 DEF WriteChunk

LEMMA TransferStep ==
  ASSUME BridgeTypeOK, MaskInv, PendingInv, TransferInv, ChunkInv, [BridgeNext]_bridgeVars
  PROVE  TransferInv'
<1>1. /\ events \in Seq(Event) /\ prop \in [Slots -> 0 .. Whole]
      /\ conv \in [Slots -> {"idle", "asked", "given", "incr"}]
      /\ active \in Slots \cup {NoSlot}
      /\ pc \in {"type", "image"} => req \in Slots
  BY DEF BridgeTypeOK, MaskInv
<1>2. ASSUME active' = NoSlot PROVE TransferInv'
  BY <1>2 DEF TransferInv
<1>3. ASSUME UNCHANGED <<active, sent>>,
             \A a \in Slots : a = active /\ Alive(a)' =>
                 Alive(a) /\ Keeps(a) /\ prop'[a] = prop[a] /\ conv'[a] = conv[a]
                          /\ got'[a] = got[a]
      PROVE  TransferInv'
  <2>1. CASE active = NoSlot
    BY <1>2, <1>3, <2>1
  <2>2. ASSUME NEW a \in Slots, a = active, active # NoSlot PROVE TransferInv'
    <3>1. sent' < End /\ active' = a
      BY <1>3, <2>2 DEF TransferInv, End
    <3>2. ASSUME Alive(a)'
          PROVE  \/ /\ conv'[a] = "given" /\ prop'[a] = Marker /\ sent' = 0
                    /\ Quiet(a)'
                 \/ /\ conv'[a] = "incr" /\ prop'[a] = sent' /\ sent' > 0
                    /\ Quiet(a)'
                 \/ /\ conv'[a] = "incr" /\ prop'[a] = Nothing /\ got'[a] = sent'
                    /\ Single(a)'
      BY <1>3, <2>2, <3>2 DEF TransferInv, Keeps, Quiet
    <3>. QED  BY <3>1, <3>2 DEF TransferInv
  <2>. QED  BY <1>1, <2>1, <2>2
<1>4. CASE BeginFetch \/ IgnoreDelete \/ Unsubscribe \/ LoseOwnership \/ Reclaim \/ Verify
           \/ Cancel \/ OtherTakes \/ TimePasses \/ UNCHANGED bridgeVars
  <2>1. UNCHANGED <<active, sent, open, prop, conv, got>>
    BY <1>4 DEF BeginFetch, IgnoreDelete, Unsubscribe, LoseOwnership, Reclaim, Verify, Cancel,
       OtherTakes, TimePasses, bridgeVars, bridge, requestor
  <2>2. \A a \in Slots : Keeps(a) /\ (Alive(a)' <=> Alive(a))
    BY <1>1, <1>4, <2>1, QueueElse DEF BridgeStep, Alive
  <2>. QED  BY <1>3, <2>1, <2>2
<1>5. CASE RefuseRequest
  <2>1. PICK t \in Slots : t = Head(events).slot /\ Refuses(t) /\ At(1, "request", t)
    BY <1>1, <1>5, RequestFacts DEF RefuseRequest
  <2>2. UNCHANGED <<active, sent, open, prop, got>>
    BY <1>5 DEF RefuseRequest, bridge
  <2>3. ASSUME NEW a \in Slots, a = active, Alive(a)
        PROVE  t # a
    <3>1. active # NoSlot
      BY <2>3, SlotFacts
    <3>2. conv[a] # "asked"
      BY <2>3, <3>1 DEF TransferInv
    <3>3. NoRequest(a)
      BY <2>3, <3>2 DEF PendingInv
    <3>. QED  BY <2>1, <3>3 DEF NoRequest, At
  <2>4. ASSUME NEW a \in Slots
        PROVE  Keeps(a) /\ (Alive(a)' <=> Alive(a)) /\ (t # a => conv'[a] = conv[a])
    BY <1>1, <1>5, <2>1, <2>2, QueueElse DEF BridgeStep, Alive, Refuses
  <2>. QED  BY <1>3, <2>2, <2>3, <2>4
<1>6. CASE AnswerTimestamp \/ FetchFails \/ GiveDirectly
  <2>1. active = NoSlot /\ active' = active
    BY <1>6 DEF AnswerTimestamp, Busy, FetchFails, GiveDirectly, MaskInv, bridge
  <2>. QED  BY <1>2, <2>1
<1>7. CASE AnswerTargets
  <2>1. /\ pc = "type" /\ Gives(req, Whole) /\ req \in Slots
        /\ UNCHANGED <<active, sent, open, events, got>>
    BY <1>1, <1>7 DEF AnswerTargets, server
  <2>2. ASSUME NEW a \in Slots, a = active, Alive(a)
        PROVE  a # req
    <3>1. active # NoSlot
      BY <2>2, SlotFacts
    <3>2. conv[a] # "asked"
      BY <2>2, <3>1 DEF TransferInv
    <3>. QED  BY <2>1, <2>2, <3>2 DEF PendingInv
  <2>3. ASSUME NEW a \in Slots
        PROVE  /\ Keeps(a) /\ (Alive(a)' <=> Alive(a))
               /\ a # req => prop'[a] = prop[a] /\ conv'[a] = conv[a]
    BY <1>1, <2>1, QueueSame DEF Alive, Gives
  <2>. QED  BY <1>3, <2>1, <2>2, <2>3
<1>8. CASE StartIncr
  <2>1. /\ pc = "image" /\ Gives(req, Marker) /\ req \in Slots /\ active = NoSlot
        /\ UNCHANGED <<open, events>>
    BY <1>1, <1>8 DEF StartIncr, MaskInv
  <2>2. PICK a \in Slots : a = req
    BY <2>1
  <2>3. CASE ~Alive(req)
    BY <1>2, <1>8, <2>1, <2>3 DEF StartIncr
  <2>4. CASE Alive(req)
    <3>1. active' = a /\ sent' = 0 /\ Quiet(a) /\ Keeps(a)
      BY <1>8, <2>1, <2>2, <2>4, QueueSame DEF StartIncr, PendingInv
    <3>2. prop'[a] = Marker /\ conv'[a] = "given"
      BY <1>1, <2>1, <2>2, <2>4 DEF Gives
    <3>3. 0 < End
      BY Numbers
    <3>4. Quiet(a)'
      BY <3>1 DEF Keeps, Quiet
    <3>5. End' = End /\ Marker' = Marker
      BY DEF End, Marker
    <3>. QED  BY <3>1, <3>2, <3>3, <3>4, <3>5 DEF TransferInv
  <2>. QED  BY <2>3, <2>4
<1>9. CASE WriteChunk
  BY <1>9, TransferWrite
<1>10. CASE Expire
  BY <1>2, <1>10 DEF Expire, Clears
<1>11. ASSUME NEW t \in Slots, ReadAnswer(t) \/ ReadChunk(t) PROVE TransferInv'
  <2>1. CASE t = active
    BY <1>11, <2>1, TransferRead
  <2>2. CASE t # active
    <3>1. Deletes(t) /\ UNCHANGED <<active, sent, open>>
      BY <1>11 DEF ReadAnswer, ReadChunk, bridge
    <3>2. ASSUME NEW a \in Slots, a = active
          PROVE  Keeps(a) /\ (Alive(a)' <=> Alive(a)) /\ prop'[a] = prop[a]
                    /\ conv'[a] = conv[a] /\ got'[a] = got[a]
      <4>1. Keeps(a) /\ (Alive(a)' <=> Alive(a))
        BY <1>1, <2>2, <3>1, <3>2, QueueElse DEF Alive
      <4>2. prop'[a] = prop[a]
        BY <1>1, <2>2, <3>1, <3>2 DEF Deletes
      <4>3. conv'[a] = conv[a] /\ got'[a] = got[a]
        BY <1>11, <2>2, <3>2 DEF ReadAnswer, ReadChunk, BridgeTypeOK
      <4>. QED  BY <4>1, <4>2, <4>3
    <3>. QED  BY <1>3, <3>1, <3>2
  <2>. QED  BY <2>1, <2>2
<1>12. ASSUME NEW r \in Requests, Ask(r[1], r[2]) PROVE TransferInv'
  <2>1. PICK t \in Slots : t = r[1]
    BY SlotFacts
  <2>2. /\ Alive(t) /\ conv[t] = "idle" /\ conv' = [conv EXCEPT ![t] = "asked"]
        /\ UNCHANGED <<active, sent, open, prop, got>>
    BY <1>12, <2>1 DEF Ask, bridge
  <2>3. ASSUME NEW a \in Slots, a = active
        PROVE  Keeps(a) /\ (Alive(a)' <=> Alive(a)) /\ conv'[a] = conv[a]
    <3>1. a # t
      BY <2>2, <2>3, SlotFacts DEF TransferInv
    <3>. QED  BY <1>1, <1>12, <2>1, <2>2, <2>3, <3>1, QueueElse DEF Alive
  <2>. QED  BY <1>3, <2>2, <2>3
<1>13. ASSUME NEW w \in Windows, CloseWindow(w) PROVE TransferInv'
  <2>1. UNCHANGED <<active, sent>>
    BY <1>13 DEF CloseWindow, bridge
  <2>2. ASSUME NEW a \in Slots, Alive(a)'
        PROVE  Alive(a) /\ Keeps(a) /\ prop'[a] = prop[a] /\ conv'[a] = conv[a]
                  /\ got'[a] = got[a]
    BY <1>1, <1>13, <2>2, QueueElse DEF CloseWindow, Alive
  <2>. QED  BY <1>3, <2>1, <2>2
<1>. QED  BY <1>4, <1>5, <1>6, <1>7, <1>8, <1>9, <1>10, <1>11, <1>12, <1>13
          DEF BridgeNext, BridgeStep

-----------------------------------------------------------------------------
(* Theorems.                                                               *)

LEMMA BridgeInitInv == BridgeInit => BridgeInv
<1>. SUFFICES ASSUME BridgeInit PROVE BridgeInv
  OBVIOUS
<1>1. 0 \in 0 .. End /\ 0 \in 0 .. Whole
  BY Numbers
<1>2. BridgeTypeOK
  <2>1. LoopOK
    BY <1>1, Zenon DEF BridgeInit, LoopOK
  <2>2. QueueOK
    BY DEF BridgeInit, QueueOK
  <2>3. RequestorOK
    BY <1>1 DEF BridgeInit, RequestorOK, Nothing
  <2>. QED  BY <2>1, <2>2, <2>3, TypeParts
<1>3. Len(events) = 0 /\ active = NoSlot /\ pc = "loop"
  BY DEF BridgeInit
<1>4. \A s \in Slots : conv[s] = "idle" /\ NoRequest(s) /\ Last(s)
  BY <1>3 DEF BridgeInit, NoRequest, Last
<1>. QED  BY <1>2, <1>3, <1>4 DEF BridgeInv, MaskInv, PendingInv, TransferInv, ChunkInv, BridgeInit

LEMMA BridgeNextInv == ASSUME BridgeInv, [BridgeNext]_bridgeVars PROVE BridgeInv'
<1>1. BridgeTypeOK'
  BY TypeStep
<1>2. LoopOK /\ QueueOK /\ RequestorOK
  BY TypeParts DEF BridgeInv
<1>3. MaskInv'
  BY <1>2, MaskStep DEF BridgeInv
<1>4. PendingInv'
  BY PendingStep DEF BridgeInv
<1>5. TransferInv'
  BY TransferStep DEF BridgeInv
<1>6. ChunkInv'
  BY <1>2, ChunkStep DEF BridgeInv
<1>. QED  BY <1>1, <1>3, <1>4, <1>5, <1>6 DEF BridgeInv

\* The invariant holds in every state of the bridge, its server and its requestors, however
\* they interleave.
THEOREM BridgeInvariance == BridgeSpec => []BridgeInv
  BY BridgeInitInv, BridgeNextInv, PTL DEF BridgeSpec

\* Every variable keeps its type.
THEOREM BridgeTypeCorrect == BridgeSpec => []BridgeTypeOK
<1>1. BridgeInv => BridgeTypeOK
  BY DEF BridgeInv
<1>. QED  BY <1>1, BridgeInvariance, PTL

\* A requestor in a transfer finds the chunks in order, none skipped and none overwritten
\* before it was read: handleIncrChunk takes no delete but the one it waits for.
THEOREM FindsChunksInOrder == BridgeSpec => []ChunksInOrder
<1>1. BridgeInv => ChunksInOrder
  BY Numbers DEF BridgeInv, ChunkInv, ChunksInOrder
<1>. QED  BY <1>1, BridgeInvariance, PTL

\* Between two events property changes of the window of the transfer are selected, and of
\* no other: clearActiveIncr takes back what startIncr asked for, on every way out.
THEOREM MasksTransfer == BridgeSpec => []MaskIsOfTransfer
<1>1. BridgeInv => MaskIsOfTransfer
  BY DEF BridgeInv, MaskInv, MaskIsOfTransfer
<1>. QED  BY <1>1, BridgeInvariance, PTL
=============================================================================
