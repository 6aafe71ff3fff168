------------------------------ MODULE Listener ------------------------------
(***************************************************************************)
(* PQListener (internal/db/listener.go): the health it reports for the     *)
(* LISTEN connection lib/pq keeps up, and the pump that hands              *)
(* notifications on.  lib/pq is external: it loses and restores the link,  *)
(* calls listenerEvent for each change in order, and marks every           *)
(* re-established connection with a nil notification.                      *)
(***************************************************************************)
EXTENDS Integers, Sequences

CONSTANTS
    MaxEvents,      \* bound: changes of the link
    MaxNotes,       \* bound: notifications sent by the server
    OutSize         \* capacity of PQListener.out

ListenerAssumption ==
    MaxEvents \in Nat /\ MaxNotes \in Nat /\ OutSize \in Nat \ {0}

VARIABLES
    link,       \* lib/pq: whether the connection is up
    listening,  \* lib/pq: whether every initial Listen has succeeded
    events,     \* lib/pq: link changes whose callback has not run yet
    changes,    \* how often the link changed
    channel,    \* lib/pq: its notification channel
    sent,       \* notifications the server has sent
    status,     \* PQListener.status, everReady, eventKnown, connected, subscribed, closed
    out,        \* PQListener.out
    read        \* what the hub has read: the numbers of notifications, 0 for Reconnected

pq == <<link, listening, events, changes, channel, sent>>
vars == <<link, listening, events, changes, channel, sent, status, out, read>>

Down == [ready |-> FALSE, reconnects |-> 0, everReady |-> FALSE, eventKnown |-> FALSE,
         connected |-> FALSE, subscribed |-> FALSE, closed |-> FALSE, pumping |-> FALSE]

-----------------------------------------------------------------------------
(* lib/pq. *)
LinkChanges ==
    /\ changes < MaxEvents /\ ~status.closed
    /\ changes' = changes + 1
    /\ \/ /\ link /\ link' = FALSE
          /\ events' = Append(events, "lost") /\ UNCHANGED channel
       \/ /\ ~link /\ UNCHANGED link
          /\ events' = Append(events, "failed") /\ UNCHANGED channel
       \/ /\ ~link /\ link' = TRUE
          /\ events' = Append(events, "connected")
          /\ channel' = IF listening THEN Append(channel, 0) ELSE channel
    /\ UNCHANGED <<listening, sent, status, out, read>>

Listened ==
    /\ link /\ ~listening
    /\ listening' = TRUE
    /\ UNCHANGED <<link, events, changes, channel, sent, status, out, read>>

(* A notification while the link is down is lost. *)
Send ==
    /\ sent < MaxNotes
    /\ sent' = sent + 1
    /\ channel' = IF link /\ listening THEN Append(channel, sent + 1) ELSE channel
    /\ UNCHANGED <<link, listening, events, changes, status, out, read>>

-----------------------------------------------------------------------------
Ready(s) ==
    [s EXCEPT !.ready = TRUE, !.everReady = TRUE,
              !.reconnects = IF ~s.ready /\ s.everReady THEN @ + 1 ELSE @]

(* Mutant: a successful Listen is taken for a live connection. *)
MarkSubscribedReady(s) == Ready([s EXCEPT !.subscribed = TRUE])

(* markSubscribed: a disconnect that raced the last subscription wins. *)
MarkSubscribed(s) ==
    LET t == [s EXCEPT !.subscribed = TRUE]
    IN  IF t.eventKnown /\ ~t.connected THEN t ELSE Ready(t)

MarkConnected(s) ==
    LET t == [s EXCEPT !.eventKnown = TRUE, !.connected = TRUE]
    IN  IF t.subscribed THEN Ready(t) ELSE t

MarkUnavailable(s) == [s EXCEPT !.eventKnown = TRUE, !.connected = FALSE, !.ready = FALSE]

(* newListener, once the last Listen has returned. *)
Subscribed ==
    /\ listening /\ ~status.subscribed /\ ~status.closed
    /\ status' = [MarkSubscribed(status) EXCEPT !.pumping = TRUE]
    /\ UNCHANGED <<pq, out, read>>

ListenerEvent ==
    /\ events # <<>>
    /\ events' = Tail(events)
    /\ status' = IF status.closed THEN status
                 ELSE IF Head(events) = "connected" THEN MarkConnected(status)
                 ELSE MarkUnavailable(status)
    /\ UNCHANGED <<link, listening, changes, channel, sent, out, read>>

Pump ==
    /\ status.pumping /\ channel # <<>> /\ Len(out) < OutSize
    /\ channel' = Tail(channel)
    /\ out' = Append(out, Head(channel))
    /\ UNCHANGED <<link, listening, events, changes, sent, status, read>>

Read ==
    /\ out # <<>>
    /\ out' = Tail(out)
    /\ read' = Append(read, Head(out))
    /\ UNCHANGED <<pq, status>>

Close ==
    /\ ~status.closed
    /\ status' = [status EXCEPT !.closed = TRUE, !.ready = FALSE, !.pumping = FALSE]
    /\ UNCHANGED <<pq, out, read>>

Init ==
    /\ link = FALSE /\ listening = FALSE /\ events = <<>> /\ changes = 0
    /\ channel = <<>> /\ sent = 0 /\ out = <<>> /\ read = <<>>
    /\ status = Down

Next == LinkChanges \/ Listened \/ Send \/ Subscribed \/ ListenerEvent \/ Pump \/ Read \/ Close

Spec == Init /\ [][Next]_vars

-----------------------------------------------------------------------------
(* Readiness is the truth about the link as soon as the callbacks have     *)
(* run, whatever order the first subscription and the events came in: a    *)
(* replica without a feed must leave the Service (markSubscribed).         *)
StatusHonest ==
    events = <<>> /\ status.subscribed /\ ~status.closed => (status.ready <=> link)

(* Nothing is lost unmarked: where two notifications the hub reads one     *)
(* after the other are not consecutive, a Reconnected stands between them. *)
GapsMarked ==
    \A i \in 1 .. Len(read) - 1 :
        read[i] # 0 /\ read[i + 1] # 0 => read[i + 1] = read[i] + 1

(* Both: what the hub is told of its feed is true. *)
ListenHonest == StatusHonest /\ GapsMarked
=============================================================================
