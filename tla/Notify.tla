-------------------------------- MODULE Notify --------------------------------
(***************************************************************************)
(* The daemon's notification pipeline (internal/daemon/server.go): request   *)
(* handlers that queue what Dedup lets through, one notifier goroutine that   *)
(* delivers it, one receipt writer.                                        *)
(*                                                                         *)
(* Notifications of one class are not told apart, so a channel is the number  *)
(* of them it holds.                                                       *)
(***************************************************************************)
EXTENDS Integers, FiniteSets

CONSTANTS
    Handlers,    \* request goroutines
    CriticalCap, \* cap(criticalCh)
    NotifyCap,   \* cap(notifyCh)
    ReceiptCap,  \* cap(receiptCh)
    MaxDrops     \* bound: receipts dropped and not yet reported, when one more
                 \* request that leaves a receipt arrives

ASSUME NotifyAssumption ==
    /\ {CriticalCap, NotifyCap, ReceiptCap} \subseteq Nat \ {0}
    /\ MaxDrops \in Nat
    /\ IsFiniteSet(Handlers)

VARIABLES
    hpc,          \* where each handler is
    kind,         \* the request each handler works on
    notifyCh,     \* len(Server.notifyCh)
    criticalCh,   \* len(Server.criticalCh)
    npc,          \* where RunNotifier is
    receiptCh,    \* len(Server.receiptCh)
    receiptDrops, \* Server.receiptDrops
    wpc,          \* where runReceiptWriter is
    overtaken,    \* ghost: ordinary receives in a row while a critical one waited
    owed          \* ghost: acceptances the writer has not recorded or reported

handling   == <<hpc, kind>>
queues     == <<notifyCh, criticalCh, overtaken>>
writing    == <<receiptCh, receiptDrops, wpc, owed>>
notifyVars == <<handling, queues, npc, writing>>

\* A critical and an ordinary notification over /notify, and an ordinary one
\* that an image transfer or a clipboard write raises.
Kind == {"critical", "notify", "transfer"}

NotifyTypeOK ==
    /\ hpc \in [Handlers -> {"idle", "dedup", "send", "answer", "count"}]
    /\ kind \in [Handlers -> Kind]
    /\ notifyCh \in 0 .. NotifyCap
    /\ criticalCh \in 0 .. CriticalCap
    /\ npc \in {"first", "second", "deliver", "returned"}
    /\ receiptCh \in 0 .. ReceiptCap
    /\ receiptDrops \in Nat
    /\ wpc \in {"range", "swap", "record"}
    /\ overtaken \in Nat
    /\ owed \in Int

Move(h, to) == hpc' = [hpc EXCEPT ![h] = to]

-----------------------------------------------------------------------------
(* A request.                                                              *)

\* Over /notify: one with a valid nonce and a body that parses.
Arrive(h, k) ==
    /\ hpc[h] = "idle"
    /\ k # "transfer" =>
          receiptDrops + Cardinality({i \in Handlers : hpc[i] # "idle"}) < MaxDrops
    /\ kind' = [kind EXCEPT ![h] = k]
    /\ Move(h, "dedup")
    /\ UNCHANGED <<queues, npc, writing>>

\* A critical notification is never suppressed; what becomes of any other is in
\* Dedup.
Deduplicate(h) ==
    /\ hpc[h] = "dedup"
    /\ Move(h, "send") \/ (kind[h] # "critical" /\ Move(h, "answer"))
    /\ UNCHANGED <<kind, queues, npc, writing>>

\* Mutant: a critical notification waits for room without a timer.
SendCriticalForever(h) ==
    /\ hpc[h] = "send" /\ kind[h] = "critical"
    /\ criticalCh < CriticalCap
    /\ criticalCh' = criticalCh + 1
    /\ Move(h, "answer")
    /\ UNCHANGED <<kind, notifyCh, overtaken, npc, writing>>

\* A critical notification waits for room until its timer drops it.
SendCritical(h) ==
    /\ hpc[h] = "send" /\ kind[h] = "critical"
    /\ criticalCh' = IF criticalCh < CriticalCap THEN criticalCh + 1 ELSE criticalCh
    /\ Move(h, "answer")
    /\ UNCHANGED <<kind, notifyCh, overtaken, npc, writing>>

\* Any other is dropped at once when there is none.
SendOrdinary(h) ==
    /\ hpc[h] = "send" /\ kind[h] # "critical"
    /\ notifyCh' = IF notifyCh < NotifyCap THEN notifyCh + 1 ELSE notifyCh
    /\ Move(h, "answer")
    /\ UNCHANGED <<kind, criticalCh, overtaken, npc, writing>>

\* 204.  For /notify, queueReceipt then hands over a receipt or finds no room;
\* a drop is counted a moment later, and neither waits for anything.
Answer(h) ==
    /\ hpc[h] = "answer"
    /\ \/ /\ kind[h] = "transfer"
          /\ Move(h, "idle")
          /\ UNCHANGED <<receiptCh, owed>>
       \/ /\ kind[h] # "transfer" /\ receiptCh < ReceiptCap
          /\ receiptCh' = receiptCh + 1
          /\ owed' = owed + 1
          /\ Move(h, "idle")
       \/ /\ kind[h] # "transfer" /\ receiptCh = ReceiptCap
          /\ owed' = owed + 1
          /\ Move(h, "count")
          /\ UNCHANGED receiptCh
    /\ UNCHANGED <<kind, queues, npc, receiptDrops, wpc>>

CountDrop(h) ==
    /\ hpc[h] = "count"
    /\ receiptDrops' = receiptDrops + 1
    /\ Move(h, "idle")
    /\ UNCHANGED <<kind, queues, npc, receiptCh, wpc, owed>>

HandlerStep(h) ==
    Deduplicate(h) \/ SendCritical(h) \/ SendOrdinary(h) \/ Answer(h) \/ CountDrop(h)

-----------------------------------------------------------------------------
(* RunNotifier.                                                            *)

ReceiveCritical ==
    /\ criticalCh > 0
    /\ criticalCh' = criticalCh - 1
    /\ overtaken' = 0
    /\ npc' = "deliver"
    /\ UNCHANGED notifyCh

ReceiveOrdinary ==
    /\ notifyCh > 0
    /\ notifyCh' = notifyCh - 1
    /\ overtaken' = IF criticalCh > 0 THEN overtaken + 1 ELSE 0
    /\ npc' = "deliver"
    /\ UNCHANGED criticalCh

\* Mutant: there is only the select over both channels.
FirstSelectSkipped ==
    /\ npc = "first"
    /\ npc' = "second"
    /\ UNCHANGED <<queues, handling, writing>>

\* The select that only looks at the critical channel.
FirstSelect ==
    /\ npc = "first"
    /\ \/ ReceiveCritical
       \/ criticalCh = 0 /\ npc' = "second" /\ UNCHANGED queues
    /\ UNCHANGED <<handling, writing>>

\* The select that waits for either and picks any that is ready.
SecondSelect ==
    /\ npc = "second"
    /\ ReceiveCritical \/ ReceiveOrdinary
    /\ UNCHANGED <<handling, writing>>

\* Either select may see the daemon's context end instead.
NotifierReturns ==
    /\ npc \in {"first", "second"}
    /\ npc' = "returned"
    /\ UNCHANGED <<queues, handling, writing>>

\* Delivered, failed on every adapter, or panicked: the loop goes on.
Delivers ==
    /\ npc = "deliver"
    /\ npc' = "first"
    /\ UNCHANGED <<queues, handling, writing>>

-----------------------------------------------------------------------------
(* runReceiptWriter.                                                       *)

WriterReceives ==
    /\ wpc = "range" /\ receiptCh > 0
    /\ receiptCh' = receiptCh - 1
    /\ wpc' = "swap"
    /\ UNCHANGED <<handling, queues, npc, receiptDrops, owed>>

\* Mutant: the drops are read, logged, and set to zero afterwards.
WriterLoadsThenStores ==
    /\ \/ /\ wpc = "swap"
          /\ owed' = owed - receiptDrops
          /\ wpc' = "record"
          /\ UNCHANGED receiptDrops
       \/ /\ wpc = "record" /\ receiptDrops > 0
          /\ receiptDrops' = 0
          /\ UNCHANGED <<wpc, owed>>
    /\ UNCHANGED <<handling, queues, npc, receiptCh>>

\* The drops so far are reported with the next receipt.
WriterSwapsDrops ==
    /\ wpc = "swap"
    /\ owed' = owed - receiptDrops
    /\ receiptDrops' = 0
    /\ wpc' = "record"
    /\ UNCHANGED <<handling, queues, npc, receiptCh>>

\* RecordReceipt, or the log line that says it failed.
WriterRecords ==
    /\ wpc = "record"
    /\ owed' = owed - 1
    /\ wpc' = "range"
    /\ UNCHANGED <<handling, queues, npc, receiptCh, receiptDrops>>

-----------------------------------------------------------------------------

NotifyInit ==
    /\ hpc = [h \in Handlers |-> "idle"]
    /\ kind = [h \in Handlers |-> "transfer"]
    /\ notifyCh = 0
    /\ criticalCh = 0
    /\ npc = "first"
    /\ receiptCh = 0
    /\ receiptDrops = 0
    /\ wpc = "range"
    /\ overtaken = 0
    /\ owed = 0

NotifyNext ==
    \/ \E h \in Handlers : HandlerStep(h) \/ \E k \in Kind : Arrive(h, k)
    \/ FirstSelect \/ SecondSelect \/ NotifierReturns \/ Delivers
    \/ WriterReceives \/ WriterSwapsDrops \/ WriterRecords

NotifySpec == NotifyInit /\ [][NotifyNext]_notifyVars

\* The runtime runs the handlers, whose only wait has a timer.  Nothing is
\* assumed of the notifier, whose adapters have no timeout of their own, nor of
\* the receipt writer, whose disk and log may stall.
NotifyFairSpec == NotifySpec /\ \A h \in Handlers : WF_notifyVars(HandlerStep(h))

-----------------------------------------------------------------------------
(* Properties.                                                             *)

\* A critical notification that is queued is overtaken by at most one ordinary
\* one: the one the notifier picked between its two selects.
OvertakenOnce == overtaken <= 1

\* Every accepted /notify request is recorded or reported as failed, on its way
\* to the store, counted as a drop or about to be: none is forgotten, in
\* whatever order handlers count and the writer takes the count.
ReceiptsAccounted ==
    owed = receiptCh + receiptDrops + Cardinality({h \in Handlers : hpc[h] = "count"})
               + (IF wpc = "range" THEN 0 ELSE 1)

\* A handler answers, even when the notifier hangs and every queue is full.
HandlersReturn == \A h \in Handlers : hpc[h] # "idle" ~> hpc[h] = "idle"
=============================================================================
