-------------------------------- MODULE Hub --------------------------------
(***************************************************************************)
(* The WebSocket hub, seen by one client: subscribing, the snapshot,       *)
(* replay from the outbox table, activation, the bounded buffer, and       *)
(* reconnecting with resume_after.  Clients share nothing but the hub's    *)
(* publisher, so one stands for all; its filter selects one analysis of    *)
(* one series.  An event is its cursor; a provisional one has cursor 0.    *)
(* The publisher is the outbox dispatcher as module Delivery shows it:     *)
(* rows in cursor order, a failed batch again from its start.              *)
(***************************************************************************)
EXTENDS Integers, FiniteSets, FiniteSetsExt, Sequences

CONSTANTS
  Cap,             \* buffer of a client, 2048 in the code
  PageSize,        \* rows per replay query, 5000 in the code
  BatchSize,       \* rows per dispatcher batch, 250 in the code
  MaxRows,         \* bound: outbox rows
  MaxProvisional,  \* bound: provisional events
  MaxFaults        \* bound: failed batches, lost connections, restarts

ASSUME HubAssumption ==
  /\ {Cap, PageSize, BatchSize} \subseteq Nat \ {0}
  /\ {MaxRows, MaxProvisional, MaxFaults} \subseteq Nat

VARIABLES
  rows,    \* the outbox: for each cursor, does the row match the filter?
  memory,  \* last matching row the lane's memory includes, or Unseeded
  disp,    \* dispatcher: rows up to mark are published_at, at..end are to come
  client,  \* the hubClient and the handler that serves it
  resume,  \* resume_after of the viewer's next subscription
  got,     \* cursors the viewer has received
  waived,  \* history: what a viewer without a cursor subscribed too late for
  spent    \* provisional events and faults so far

viewer == <<resume, got, waived>>
outbox == <<rows, memory>>
vars == <<outbox, disp, client, viewer, spent>>

Unseeded == -1

Wanted == {c \in DOMAIN rows : rows[c]}

Newest == Max(Wanted \cup {0})

\* The rows the hub has published so far, in this process or before it.
Offered == {c \in Wanted : c <= disp.mark \/ c < disp.at}

Spend(what, limit) ==
  /\ spent[what] < limit
  /\ spent' = [spent EXCEPT ![what] = @ + 1]

-----------------------------------------------------------------------------
(* hubClient and its handler.  phase is "gone", "greet" (subscribed, the   *)
(* snapshot comes next), "replay" (reading pages), "ready" (not yet        *)
(* activated) or "active".  snap is what the snapshot of a client without  *)
(* a cursor included.                                                      *)

NewClient(phase, after) ==
  [phase |-> phase, pending |-> <<>>, send |-> <<>>, lastCursor |-> 0,
   after |-> after, closed |-> FALSE, snap |-> Unseeded]

Gone == NewClient("gone", 0)

Newer(k, c) == IF c > k.lastCursor THEN c ELSE k.lastCursor

\* The client has no use for the event.
Ignored(k, c) ==
  \/ k.phase = "gone" \/ k.closed
  \/ c > 0 /\ (c \notin Wanted \/ c <= k.lastCursor)

\* Mutant: the boundary of pending is off by one.
PendingAlmostFull(k) == Len(k.pending) > Cap

PendingFull(k) == Len(k.pending) >= Cap

\* Mutant: nothing is kept aside before activation.
EnqueueActiveOnly(k, c) ==
  IF Ignored(k, c) \/ k.phase # "active" THEN k
  ELSE IF Len(k.send) >= Cap THEN [k EXCEPT !.closed = TRUE]
  ELSE [k EXCEPT !.send = Append(@, c), !.lastCursor = Newer(k, c)]

\* enqueue: kept aside before activation, sent after it; a full buffer closes
\* the client.
Enqueue(k, c) ==
  CASE Ignored(k, c) -> k
    [] ~Ignored(k, c) /\ k.phase # "active" ->
         IF PendingFull(k) THEN [k EXCEPT !.closed = TRUE]
                           ELSE [k EXCEPT !.pending = Append(@, c)]
    [] ~Ignored(k, c) /\ k.phase = "active" ->
         IF Len(k.send) >= Cap THEN [k EXCEPT !.closed = TRUE]
                               ELSE [k EXCEPT !.send = Append(@, c), !.lastCursor = Newer(k, c)]

\* Mutant: pending is sent as it arrived.
InArrivalOrder(q) == {q}

\* The comparison and the result of the sort: durable events by cursor, then
\* the provisional ones.
Less(c, d) == c # 0 /\ (d = 0 \/ c < d)

ByCursor(q) ==
  {r \in {[i \in DOMAIN q |-> q[p[i]]] : p \in Bijection(DOMAIN q, DOMAIN q)} :
     \A i, j \in DOMAIN q : i < j => ~Less(r[j], r[i])}

\* activate: of the sorted events q the replay has covered the first n, the
\* others are sent; the buffer is still empty.
Activated(k, q, n) ==
  LET due  == SubSeq(q, n + 1, Len(q))
      sent == SubSeq(due, 1, IF Len(due) < Cap THEN Len(due) ELSE Cap)
  IN  [k EXCEPT !.phase = "active", !.pending = <<>>, !.send = sent,
                !.lastCursor = Max(Range(sent) \cup {k.after}), !.closed = Len(due) > Cap]

-----------------------------------------------------------------------------
(* The outbox and its dispatcher.                                          *)

\* A lane commits a bar; that of the viewer's series has installed the one
\* before (applyClosed).
Commit ==
  /\ Len(rows) < MaxRows
  /\ \E matches \in BOOLEAN :
       /\ matches => memory = Newest
       /\ rows' = Append(rows, matches)
  /\ UNCHANGED <<memory, disp, client, viewer, spent>>

\* The end of applyClosed, or of the seed after a restart: the lane's memory,
\* which Lane.Snapshot reads, catches up with what it committed.
Install ==
  /\ memory # Newest
  /\ memory' = Newest
  /\ UNCHANGED <<rows, disp, client, viewer, spent>>

Load ==
  /\ disp.end = disp.mark
  /\ disp' = [disp EXCEPT !.at = disp.mark + 1,
                !.end = IF disp.mark + BatchSize < Len(rows) THEN disp.mark + BatchSize
                                                             ELSE Len(rows)]
  /\ UNCHANGED <<outbox, client, viewer, spent>>

\* Hub.Publish of the next row of the batch.
Publish ==
  /\ disp.end > disp.mark /\ disp.at <= disp.end
  /\ client' = Enqueue(client, disp.at)
  /\ disp' = [disp EXCEPT !.at = @ + 1]
  /\ UNCHANGED <<outbox, viewer, spent>>

\* MarkPublished.
Mark ==
  /\ disp.end > disp.mark /\ disp.at > disp.end
  /\ disp' = [disp EXCEPT !.mark = disp.end]
  /\ UNCHANGED <<outbox, client, viewer, spent>>

\* A later row of the batch, or MarkPublished, fails: nothing is marked.
FlushFails ==
  /\ disp.end > disp.mark
  /\ Spend("faults", MaxFaults)
  /\ disp' = [disp EXCEPT !.end = disp.mark]
  /\ UNCHANGED <<outbox, client, viewer>>

\* A lane publishes a provisional EMA event to the hub.
PublishProvisional ==
  /\ Spend("provisional", MaxProvisional)
  /\ client' = Enqueue(client, 0)
  /\ UNCHANGED <<outbox, disp, viewer>>

-----------------------------------------------------------------------------
(* Server.websocket and the viewer behind it.                              *)

\* The client is in the hub before anything is read for it; only one with a
\* cursor is replayed to.
Subscribe ==
  /\ client.phase = "gone"
  /\ client' = NewClient("greet", resume)
  /\ waived' = IF resume = 0 THEN Offered ELSE waived
  /\ UNCHANGED <<outbox, disp, resume, got, spent>>

\* Registry.Snapshots goes to the client, and the points of the history.
Greet ==
  /\ client.phase = "greet"
  /\ client' = IF resume > 0 THEN [client EXCEPT !.phase = "replay"]
                             ELSE [client EXCEPT !.phase = "ready", !.snap = memory]
  /\ UNCHANGED <<outbox, disp, viewer, spent>>

\* The viewer receives durable events, in cursor order, and keeps the last cursor.
Receive(new) ==
  /\ got' = got \cup new
  /\ resume' = IF new = {} THEN resume ELSE Max(new)
  /\ UNCHANGED waived

\* The first n rows of QueryEvents after the handler's cursor, matching or not.
Page(n) == (client.after + 1)..(client.after + n)

\* A page is as long as there are rows, up to its limit.
PageLen == IF Len(rows) - client.after < PageSize THEN Len(rows) - client.after ELSE PageSize

\* A page is written to the viewer; a short one ends the replay.
Replay ==
  /\ client.phase = "replay"
  /\ Receive(Page(PageLen) \cap Wanted)
  /\ client' = [client EXCEPT !.after = @ + PageLen,
                              !.phase = IF PageLen < PageSize THEN "ready" ELSE "replay"]
  /\ UNCHANGED <<outbox, disp, spent>>

\* A client closed meanwhile only waits for the writer to notice.
Activate ==
  /\ client.phase = "ready"
  /\ \/ client.closed /\ client' = [client EXCEPT !.phase = "active"]
     \/ /\ ~client.closed
        /\ \E q \in ByCursor(client.pending) : \E n \in 0..Len(q) :
             /\ \A i \in DOMAIN q : i <= n <=> q[i] # 0 /\ q[i] <= client.after
             /\ client' = Activated(client, q, n)
  /\ UNCHANGED <<outbox, disp, viewer, spent>>

\* Mutant: the end of the channel is not noticed.
WriteForever ==
  /\ client.phase = "active" /\ client.send # <<>>
  /\ Receive({Head(client.send)} \ {0})
  /\ client' = [client EXCEPT !.send = Tail(@)]
  /\ UNCHANGED <<outbox, disp, spent>>

\* writeClient: the next event, or the end of a closed and drained channel.
Write ==
  /\ client.phase = "active"
  /\ \/ /\ client.send # <<>>
        /\ Receive({Head(client.send)} \ {0})
        /\ client' = [client EXCEPT !.send = Tail(@)]
     \/ /\ client.send = <<>> /\ client.closed
        /\ client' = Gone
        /\ UNCHANGED viewer
  /\ UNCHANGED <<outbox, disp, spent>>

\* The connection breaks, possibly after part of a page has been received.
Disconnect ==
  /\ client.phase # "gone"
  /\ Spend("faults", MaxFaults)
  /\ client' = Gone
  /\ \E n \in 0..(IF client.phase = "replay" THEN PageLen ELSE 0) : Receive(Page(n) \cap Wanted)
  /\ UNCHANGED <<outbox, disp>>

\* The process restarts and flushes the outbox before it serves clients; the
\* lanes are seeded later.
Restart ==
  /\ Spend("faults", MaxFaults)
  /\ client' = Gone
  /\ memory' = Unseeded
  /\ disp' = [mark |-> Len(rows), at |-> Len(rows) + 1, end |-> Len(rows)]
  /\ UNCHANGED <<rows, viewer>>

Init ==
  /\ rows \in {<<>>, <<TRUE>>} /\ memory = Newest
  /\ disp = [mark |-> Len(rows), at |-> Len(rows) + 1, end |-> Len(rows)]
  /\ client = Gone
  /\ resume \in 0..Len(rows)
  /\ got = {} /\ waived = {c \in Wanted : c <= resume}
  /\ spent = [provisional |-> 0, faults |-> 0]

Dispatch == Load \/ Publish \/ Mark

Serve == Subscribe \/ Greet \/ Replay \/ Activate \/ Write

Next ==
  \/ Commit \/ Install \/ Dispatch \/ FlushFails \/ PublishProvisional
  \/ Serve \/ Disconnect \/ Restart

Spec == Init /\ [][Next]_vars

\* The dispatcher polls, the handler and the writer run, the viewer reads and
\* reconnects; nothing makes rows appear.
FairSpec == Spec /\ WF_vars(Dispatch) /\ WF_vars(Serve)

-----------------------------------------------------------------------------
(* Properties.                                                             *)

HubClient ==
  [phase : {"gone", "greet", "replay", "ready", "active"},
   pending : Seq(Wanted \cup {0}), send : Seq(Wanted \cup {0}),
   lastCursor : 0..Len(rows), after : 0..Len(rows), closed : BOOLEAN,
   snap : Wanted \cup {0, Unseeded}]

\* Every variable keeps its type; the buffers respect their capacity.
TypeOK ==
  /\ rows \in Seq(BOOLEAN) /\ memory \in Wanted \cup {0, Unseeded}
  /\ disp \in [mark : 0..Len(rows), at : 1..(Len(rows) + 1), end : 0..Len(rows)]
  /\ client \in HubClient
  /\ Len(client.pending) <= Cap /\ Len(client.send) <= Cap
  /\ resume \in Wanted \cup {0} /\ got \subseteq Wanted /\ waived \subseteq Wanted

F == INSTANCE Feed WITH log <- Wanted, pos <- resume, seen <- got, waived <- waived

\* What the viewer receives, over all its connections, is a step-by-step
\* implementation of the abstract feed: its position never moves back, and every
\* advance brings all events passed over (replay, enqueue, activate).
ImplementsFeed == F!Spec

\* Activation itself never closes a client: what may be kept aside fits into
\* the still empty buffer (the bound in enqueue).
ActivationFits ==
  [][client.phase = "ready" /\ client'.phase = "active" /\ ~client.closed
       => ~client'.closed]_vars

\* A viewer that keeps reconnecting ends up with every event due to it, however
\* small the buffer and whatever closed it (writeClient ends, Server.websocket
\* unsubscribes, the next subscription replays).
EventuallyReceived == <>[](Wanted \ waived \subseteq got)

\* A viewer that comes without a cursor has, in the snapshot or on its way, every
\* event published so far, but for the one its lane was still installing
\* when it subscribed: no wait before activation opens a larger hole
\* (websocket subscribes before it reads the snapshots).
SnapshotAndStreamMeet ==
  client.snap # Unseeded /\ ~client.closed =>
    LET held == got \cup Range(client.pending) \cup Range(client.send)
        hole == {c \in Offered \ held : c > client.snap}
    IN  \A c \in hole : \A d \in Wanted : d > client.snap => c <= d

-----------------------------------------------------------------------------
(* Inductive invariants (module HubProofs).                                *)

\* Nothing more comes from the replay: the hub alone serves the client.
OnHub == client.phase = "ready" \/ (client.phase = "greet" /\ resume = 0)

\* Before activation the viewer has everything up to the handler's cursor, and
\* what the hub offered after it was kept aside without a hole.
WaitingInv ==
  /\ client.phase \in {"greet", "replay", "ready"} =>
       /\ resume <= client.after /\ \A c \in Wanted : c <= client.after => c <= resume
       /\ client.send = <<>> /\ client.lastCursor = 0
  /\ OnHub /\ ~client.closed =>
       \A c \in Wanted \ waived :
         client.after < c /\ (c \in Offered \/ \E e \in Range(client.pending) : c < e) =>
           c \in Range(client.pending)

\* After it the buffer holds, in order, everything between the viewer's position
\* and lastCursor, and an open client has been given all that was offered.
ActiveInv ==
  client.phase = "active" =>
    /\ \A i \in DOMAIN client.send : client.send[i] > 0 =>
         /\ resume <= client.send[i] /\ client.send[i] <= client.lastCursor
         /\ client.send[i] = resume => resume \in got
         /\ \A j \in 1..i : client.send[j] <= client.send[i]
    /\ \A c \in Wanted \ waived :
         resume < c /\ c <= client.lastCursor => c \in Range(client.send)
    /\ ~client.closed =>
         resume <= client.lastCursor /\ \A c \in Offered \ waived : c <= client.lastCursor

\* The viewer has all it was promised up to its position.
FeedInv ==
  /\ WaitingInv /\ ActiveInv
  /\ \A c \in Wanted \ waived : c <= resume => c \in got

\* A lane installs a bar before it commits the next; what a viewer waived, its
\* snapshot includes, except the newest.
SnapshotInv ==
  /\ memory # Unseeded => \A c, d \in Wanted : memory < c /\ memory < d => c = d
  /\ client.snap # Unseeded =>
       /\ client.phase = "active" \/ (client.phase = "ready" /\ client.after = 0)
       /\ \A c \in waived : client.snap < c => \A d \in Wanted : client.snap < d => c <= d
  /\ client.phase = "greet" => client.after = resume

=============================================================================
