------------------------------ MODULE X11Bridge ------------------------------
(***************************************************************************)
(* The clipboard bridge on a remote host (internal/x11bridge): a client of an *)
(* X server that owns CLIPBOARD and answers conversion requests with the image *)
(* it fetches from the daemon, a large one in chunks (INCR).                *)
(*                                                                         *)
(* Bridge.Run is one goroutine; an action is one pass of its select, or the  *)
(* part of one up to a fetch or a request to the server that a requestor can  *)
(* come between.  Requestors follow the ICCCM: a window asks for one thing at *)
(* a time with each of its properties, reads and deletes what it is given,    *)
(* and gives up by closing the window.                                     *)
(***************************************************************************)
EXTENDS Integers, Sequences

CONSTANTS
    Requests, \* pairs of a slot, the window and property of a request, and a target
    Chunks    \* chunks of a large image

Target == {"TARGETS", "TIMESTAMP", "image/png", "other"}
Slots == {r[1] : r \in Requests}

\* No window is 0.
NoSlot == <<"none", "none">>

ASSUME BridgeAssumption ==
    /\ \A r \in Requests : r[1] # NoSlot /\ r[2] \in Target
    /\ Chunks \in Nat \ {0}

VARIABLES
    pc,      \* "loop", or what the pass of the loop is about to do
    req,     \* the slot of the request that is being served
    active,  \* activeIncr: its slot, or NoSlot
    sent,    \* activeIncr: how many chunks have been written, the end included
    due,     \* incrDeadline has passed
    mask,    \* windows on which the bridge selects property changes
    owner,   \* who owns CLIPBOARD: "bridge" or "other"
    events,  \* what the X server has for the bridge, in order
    open,    \* windows that exist
    prop,    \* the property of each slot
    conv,    \* what the requestor does with each slot
    got      \* chunks that the requestor has read

bridge     == <<pc, req, active, sent, due>>
server     == <<mask, owner, events>>
requestor  == <<open, prop, conv, got>>
bridgeVars == <<bridge, server, requestor>>

WindowOf(s) == s[1]
Windows == {WindowOf(s) : s \in Slots}

\* What a property holds: nothing, a chunk by its number, the empty chunk that
\* ends a transfer, the INCR marker, or an answer that is given at once.
Nothing == 0
End == Chunks + 1
Marker == Chunks + 2
Whole == Chunks + 3

Event ==
    [type : {"request"}, slot : Slots, target : Target]
        \cup [type : {"delete"}, slot : Slots] \cup [type : {"clear"}]

BridgeTypeOK ==
    /\ pc \in {"loop", "type", "image", "unsubscribe", "reclaim", "verify", "exit"}
    /\ req \in Slots \cup {NoSlot}
    /\ active \in Slots \cup {NoSlot}
    /\ sent \in 0 .. End
    /\ due \in BOOLEAN
    /\ mask \subseteq Windows
    /\ owner \in {"bridge", "other"}
    /\ events \in Seq(Event)
    /\ open \subseteq Windows
    /\ prop \in [Slots -> 0 .. Whole]
    /\ conv \in [Slots -> {"idle", "asked", "given", "incr"}]
    /\ got \in [Slots -> 0 .. End]

Alive(s) == WindowOf(s) \in open

-----------------------------------------------------------------------------
(* Requestors and the X server.                                            *)

\* Deleting a property tells whoever selected the changes of its window.
Deletes(s) ==
    /\ prop' = [prop EXCEPT ![s] = Nothing]
    /\ events' = IF WindowOf(s) \in mask
                 THEN Append(events, [type |-> "delete", slot |-> s]) ELSE events

Ask(s, t) ==
    /\ Alive(s) /\ conv[s] = "idle" /\ owner = "bridge" /\ pc # "exit"
    /\ conv' = [conv EXCEPT ![s] = "asked"]
    /\ events' = Append(events, [type |-> "request", slot |-> s, target |-> t])
    /\ UNCHANGED <<bridge, mask, owner, open, prop, got>>

\* What was given is read; a marker begins a transfer.
ReadAnswer(s) ==
    /\ conv[s] = "given"
    /\ Deletes(s)
    /\ conv' = [conv EXCEPT ![s] = IF prop[s] = Marker THEN "incr" ELSE "idle"]
    /\ got' = [got EXCEPT ![s] = 0]
    /\ UNCHANGED <<bridge, mask, owner, open>>

ReadChunk(s) ==
    /\ conv[s] = "incr" /\ prop[s] # Nothing
    /\ Deletes(s)
    /\ got' = [got EXCEPT ![s] = IF prop[s] = End THEN 0 ELSE @ + 1]
    /\ conv' = [conv EXCEPT ![s] = IF prop[s] = End THEN "idle" ELSE "incr"]
    /\ UNCHANGED <<bridge, mask, owner, open>>

CloseWindow(w) ==
    /\ w \in open
    /\ open' = open \ {w}
    /\ mask' = mask \ {w}
    /\ prop' = [s \in Slots |-> IF WindowOf(s) = w THEN Nothing ELSE prop[s]]
    /\ conv' = [s \in Slots |-> IF WindowOf(s) = w THEN "idle" ELSE conv[s]]
    /\ got' = [s \in Slots |-> IF WindowOf(s) = w THEN 0 ELSE got[s]]
    /\ UNCHANGED <<bridge, owner, events>>

\* Another client takes the selection.
OtherTakes ==
    /\ owner = "bridge" /\ pc # "exit"
    /\ owner' = "other"
    /\ events' = Append(events, [type |-> "clear"])
    /\ UNCHANGED <<bridge, mask, requestor>>

\* incrTimeout passes without a chunk.
TimePasses ==
    /\ active # NoSlot /\ ~due
    /\ due' = TRUE
    /\ UNCHANGED <<pc, req, active, sent, server, requestor>>

-----------------------------------------------------------------------------
(* The loop.                                                               *)

IncrExpired == active # NoSlot /\ due

\* An event is taken from the channel; the deadline is looked at first.
Takes(type) ==
    /\ pc = "loop"
    /\ events # <<>> /\ Head(events).type = type
    /\ type # "clear" => ~IncrExpired
    /\ events' = Tail(events)

\* sendSelectionNotify: None refuses the request.
Refuses(s) == conv' = IF Alive(s) THEN [conv EXCEPT ![s] = "idle"] ELSE conv

\* The property is written and the requestor told, if it is still there.
Gives(s, value) ==
    IF Alive(s)
    THEN prop' = [prop EXCEPT ![s] = value] /\ conv' = [conv EXCEPT ![s] = "given"]
    ELSE UNCHANGED <<prop, conv>>

\* While a transfer goes on only TARGETS is served.
Busy(target) == active # NoSlot /\ target # "TARGETS"

\* Mutant: a request during a transfer is dropped.
RefuseRequestSilently ==
    /\ Takes("request")
    /\ LET e == Head(events)
       IN  IF Busy(e.target) THEN UNCHANGED conv
           ELSE e.target = "other" /\ Refuses(e.slot)
    /\ UNCHANGED <<bridge, mask, owner, open, prop, got>>

RefuseRequest ==
    /\ Takes("request")
    /\ LET e == Head(events)
       IN  (Busy(e.target) \/ e.target = "other") /\ Refuses(e.slot)
    /\ UNCHANGED <<bridge, mask, owner, open, prop, got>>

AnswerTimestamp ==
    /\ Takes("request")
    /\ LET e == Head(events)
       IN  e.target = "TIMESTAMP" /\ ~Busy(e.target) /\ Gives(e.slot, Whole)
    /\ UNCHANGED <<bridge, mask, owner, open, got>>

\* TARGETS and image/png go on with a request to the daemon.
BeginFetch ==
    /\ Takes("request")
    /\ LET e == Head(events)
       IN  /\ e.target \in {"TARGETS", "image/png"} /\ ~Busy(e.target)
           /\ pc' = IF e.target = "TARGETS" THEN "type" ELSE "image"
           /\ req' = e.slot
    /\ UNCHANGED <<active, sent, due, mask, owner, requestor>>

Served == pc' = "loop" /\ req' = NoSlot

\* handleTargets, with or without image/png in the list.
AnswerTargets ==
    /\ pc = "type"
    /\ Gives(req, Whole)
    /\ Served
    /\ UNCHANGED <<active, sent, due, server, open, got>>

\* handleImage when there is none to be had.
FetchFails ==
    /\ pc = "image"
    /\ Refuses(req)
    /\ Served
    /\ UNCHANGED <<active, sent, due, server, open, prop, got>>

GiveDirectly ==
    /\ pc = "image"
    /\ Gives(req, Whole)
    /\ Served
    /\ UNCHANGED <<active, sent, due, server, open, got>>

\* startIncr: the marker, the event mask and the notification.
StartIncr ==
    /\ pc = "image"
    /\ Gives(req, Marker)
    /\ IF Alive(req)
       THEN /\ mask' = mask \cup {WindowOf(req)}
            /\ active' = req /\ sent' = 0 /\ due' = FALSE
       ELSE UNCHANGED <<mask, active, sent, due>>
    /\ Served
    /\ UNCHANGED <<owner, events, open, got>>

\* Mutant: any property of the window counts.
IsProgressOfWindow(s) == active # NoSlot /\ WindowOf(s) = WindowOf(active)

\* Is this delete the requestor's request for the next chunk?
IsProgress(s) == s = active

\* clearActiveIncr, up to the request that resets the event mask of `req'.
Clears ==
    /\ active' = NoSlot /\ sent' = 0 /\ due' = FALSE
    /\ pc' = "unsubscribe" /\ req' = active

IsComplete(n) == n = End

\* handleIncrChunk.
WriteChunk ==
    /\ Takes("delete")
    /\ IsProgress(Head(events).slot)
    /\ IF Alive(active)
       THEN /\ prop' = [prop EXCEPT ![active] = sent + 1]
            /\ IF IsComplete(sent + 1)
               THEN Clears
               ELSE sent' = sent + 1 /\ due' = FALSE /\ UNCHANGED <<pc, req, active>>
       ELSE Clears /\ UNCHANGED prop
    /\ UNCHANGED <<mask, owner, open, conv, got>>

IgnoreDelete ==
    /\ Takes("delete")
    /\ ~IsProgress(Head(events).slot)
    /\ UNCHANGED <<bridge, mask, owner, requestor>>

\* Mutant: the deadline is only looked at when an event comes.
ExpireOnEvent ==
    /\ pc = "loop" /\ IncrExpired
    /\ events # <<>> /\ Head(events).type # "clear"
    /\ Clears
    /\ UNCHANGED <<server, requestor>>

\* clearExpiredIncr, called by the ticker and before an event is handled.
Expire ==
    /\ pc = "loop" /\ IncrExpired
    /\ Clears
    /\ UNCHANGED <<server, requestor>>

\* Mutant: the mask stays.
UnsubscribeForgotten ==
    /\ pc = "unsubscribe"
    /\ Served
    /\ UNCHANGED <<active, sent, due, server, requestor>>

Unsubscribe ==
    /\ pc = "unsubscribe"
    /\ mask' = mask \ {WindowOf(req)}
    /\ Served
    /\ UNCHANGED <<active, sent, due, owner, events, requestor>>

LoseOwnership ==
    /\ Takes("clear")
    /\ pc' = "reclaim"
    /\ UNCHANGED <<req, active, sent, due, mask, owner, requestor>>

\* claimOwnership: take the selection, then ask who has it.
Reclaim ==
    /\ pc = "reclaim"
    /\ owner' = "bridge"
    /\ pc' = "verify"
    /\ UNCHANGED <<req, active, sent, due, mask, events, requestor>>

Verify ==
    /\ pc = "verify"
    /\ pc' = IF owner = "bridge" THEN "loop" ELSE "exit"
    /\ mask' = IF owner = "bridge" THEN mask ELSE {}
    /\ UNCHANGED <<req, active, sent, due, owner, events, requestor>>

\* The context ends; the X server forgets the client with the connection.
Cancel ==
    /\ pc = "loop"
    /\ pc' = "exit"
    /\ mask' = {}
    /\ owner' = "other"
    /\ UNCHANGED <<req, active, sent, due, events, requestor>>

BridgeStep ==
    \/ RefuseRequest \/ AnswerTimestamp \/ BeginFetch \/ AnswerTargets
    \/ FetchFails \/ GiveDirectly \/ StartIncr
    \/ WriteChunk \/ IgnoreDelete \/ Expire \/ Unsubscribe
    \/ LoseOwnership \/ Reclaim \/ Verify

BridgeInit ==
    /\ pc = "loop"
    /\ req = NoSlot
    /\ active = NoSlot
    /\ sent = 0
    /\ due = FALSE
    /\ mask = {}
    /\ owner = "bridge"
    /\ events = <<>>
    /\ open = Windows
    /\ prop = [s \in Slots |-> Nothing]
    /\ conv = [s \in Slots |-> "idle"]
    /\ got = [s \in Slots |-> 0]

BridgeNext ==
    \/ BridgeStep \/ Cancel \/ OtherTakes \/ TimePasses
    \/ \E s \in Slots : ReadAnswer(s) \/ ReadChunk(s)
    \/ \E r \in Requests : Ask(r[1], r[2])
    \/ \E w \in Windows : CloseWindow(w)

BridgeSpec == BridgeInit /\ [][BridgeNext]_bridgeVars

\* Fetches and requests to the server end, by their timeouts or with the
\* connection, and time passes.  The select picks any case that is ready, so that
\* the ticker's turn comes, however many events there are.  Nothing is assumed
\* of requestors.
BridgeFairSpec ==
    /\ BridgeSpec
    /\ WF_bridgeVars(BridgeStep) /\ SF_bridgeVars(Expire) /\ WF_bridgeVars(TimePasses)

-----------------------------------------------------------------------------
(* Properties.                                                             *)

\* A requestor in a transfer finds the chunks in order, none skipped and none
\* overwritten before it was read, and the end after the last one: a delete of
\* another property, or of a transfer before, is never taken for its own.
ChunksInOrder ==
    \A s \in Slots : conv[s] = "incr" /\ prop[s] # Nothing => got[s] = prop[s] - 1

\* Between two events the bridge selects property changes of exactly the window
\* of its transfer: none leaks, and no transfer waits for deletes it cannot see.
MaskIsOfTransfer ==
    pc = "loop" =>
        mask = IF active = NoSlot THEN {} ELSE {WindowOf(active)} \cap open

\* A transfer ends, whatever its requestor does, so that others are served.
TransfersEnd == active # NoSlot ~> active = NoSlot \/ pc = "exit"

\* Every request is answered while the bridge runs.
RequestsAnswered ==
    \A s \in Slots : conv[s] = "asked" ~> conv[s] # "asked" \/ pc = "exit"
=============================================================================
