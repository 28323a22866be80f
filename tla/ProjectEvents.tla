--------------------------- MODULE ProjectEvents ---------------------------
(***************************************************************************)
(* How the pages that show a project hear of changes: server-sent events.  *)
(*                                                                         *)
(* A page holds a stream to one server, which keeps a bounded channel for  *)
(* it.  Comments and restored drafts are recorded in event_outbox within   *)
(* their transaction and announced, after the commit, to the streams of    *)
(* the server that handled them.  Moves of work items are published to the *)
(* broker instead, and announced by the server that consumes the message:  *)
(* all servers consume one queue.  Whatever the event says, the page only  *)
(* takes it as a reason to load again, unless it is loading.               *)
(*                                                                         *)
(* What it loads are the project with its modules, the members, and the    *)
(* notifications of its user: not the work items, their comments or the    *)
(* drafts.  So what a page shows of a change is the notification, if    *)
(* the change leaves one to the user of the page, as a comment does to     *)
(* those it mentions and a move to the watchers of the item.               *)
(***************************************************************************)
EXTENDS Naturals, FiniteSets, Sequences, SequencesExt

CONSTANTS Servers,
          Pages,          \* pages of other users that show the project
          Records,        \* comments and restored drafts, each with a row in event_outbox
          Moves,          \* moves of work items
          Nothing,        \* no server, no event
          Capacity,       \* room in the channel of a stream: 16
          PageSize,       \* events that a stream replays at most: 101
          MaxEventFaults  \* bound on crashes, closed channels and streams, failed requests

Changes == Records \cup Moves

ASSUME ChangesAssumption == Records \cap Moves = {} /\ Nothing \notin Changes \cup Servers
ASSUME BoundsAssumption == Capacity \in Nat \ {0} /\ PageSize \in Nat \ {0} /\ MaxEventFaults \in Nat

VARIABLES handler,    \* [Changes -> Handler]: the request that makes the change
          begun,      \* the records in the order in which their transactions began
          outbox,     \* the rows of event_outbox
          committed,  \* the changes that the database has
          notices,    \* [Pages -> SUBSET Changes]: the notifications of the user of a page
          queue,      \* the broker's queue flowak.sse.broadcast
          linked,     \* [Servers -> BOOLEAN]: the server's channel to the broker is open
          stream,     \* [Pages -> Stream]
          cursor,     \* [Pages -> Changes \cup {Nothing}]: the last event a page has got
          load,       \* [Pages -> PageLoad]: the load that a page waits for
          shown,      \* [Pages -> SUBSET Changes]: the notifications that a page shows
          owed,       \* [Pages -> SUBSET Changes]: those its stream has promised a page
          eventFaults

eventVars == <<handler, begun, outbox, committed, notices, queue, linked, stream, cursor, load, shown, owed, eventFaults>>
work == <<handler, begun, outbox, committed, notices, queue>>
page == <<load, shown, owed>>

-----------------------------------------------------------------------------
Handler == [at : {"idle", "begun", "committed", "done"}, server : Servers \cup {Nothing}]
Stream == [at : {"closed", "registered", "replayed", "open"}, server : Servers \cup {Nothing}, chan : Seq(Changes)]
Closed == [at |-> "closed", server |-> Nothing, chan |-> << >>]

\* asked: the notifications are not yet read.  rest: they have arrived or failed, but the
\* project or its members have not.
PageLoad == [at : {"none", "asked", "rest"}, got : {{}}] \cup [at : {"read"}, got : SUBSET Changes]
NoLoad == [at |-> "none", got |-> {}]

EventFault == eventFaults < MaxEventFaults /\ eventFaults' = eventFaults + 1

\* The pages have just been opened.
EventsInit ==
    /\ handler = [c \in Changes |-> [at |-> "idle", server |-> Nothing]]
    /\ begun = << >> /\ outbox = {} /\ committed = {} /\ queue = << >>
    /\ notices = [p \in Pages |-> {}]
    /\ linked = [s \in Servers |-> TRUE]
    /\ stream = [p \in Pages |-> Closed]
    /\ cursor = [p \in Pages |-> Nothing]
    /\ load = [p \in Pages |-> NoLoad]
    /\ shown = [p \in Pages |-> {}]
    /\ owed = [p \in Pages |-> {}]
    /\ eventFaults = 0

-----------------------------------------------------------------------------
(* Announcing a change to the streams of a server.                         *)

Listening(p, s) == stream[p].at # "closed" /\ stream[p].server = s

\* A channel that is full loses the event, and nobody is told.  Who has a notification of
\* the change is owed it.
EmitProjectEvent(s, c) ==
    /\ stream' = [p \in Pages |-> IF Listening(p, s) /\ Len(stream[p].chan) < Capacity
                                  THEN [stream[p] EXCEPT !.chan = Append(@, c)] ELSE stream[p]]
    /\ owed' = [p \in Pages |-> IF Listening(p, s) /\ c \in notices[p]
                                THEN (owed[p] \cup {c}) \ shown[p] ELSE owed[p]]

-----------------------------------------------------------------------------
(* The requests that make changes.                                         *)

\* created_at of the event will be the time at which its transaction began.
Begin(c, s) ==
    /\ handler[c].at = "idle"
    /\ handler' = [handler EXCEPT ![c] = [at |-> "begun", server |-> s]]
    /\ begun' = IF c \in Records THEN Append(begun, c) ELSE begun
    /\ UNCHANGED <<outbox, committed, notices, queue, linked, stream, cursor, page, eventFaults>>

\* The change, its event and its notifications are committed together.  A comment notifies
\* whom it mentions, a move the watchers of the item (but not when the insertion fails,
\* which is ignored), a restored draft nobody.
Commit(c) ==
    /\ handler[c].at = "begun"
    /\ committed' = committed \cup {c}
    /\ outbox' = IF c \in Records THEN outbox \cup {c} ELSE outbox
    /\ \E P \in SUBSET Pages :
           notices' = [p \in Pages |-> IF p \in P THEN notices[p] \cup {c} ELSE notices[p]]
    /\ handler' = [handler EXCEPT ![c].at = "committed"]
    /\ UNCHANGED <<begun, queue, linked, stream, cursor, page, eventFaults>>

Finish(c) == handler' = [handler EXCEPT ![c].at = "done"]

\* Mutation: the event is announced within the transaction.
AnnounceEarly(c) ==
    /\ c \in Records /\ handler[c].at = "begun"
    /\ EmitProjectEvent(handler[c].server, c)
    /\ UNCHANGED <<work, linked, cursor, load, shown, eventFaults>>

\* createComment, RestoreModuleBaselineHandler.
Announce(c) ==
    /\ c \in Records /\ handler[c].at = "committed"
    /\ Finish(c)
    /\ EmitProjectEvent(handler[c].server, c)
    /\ UNCHANGED <<begun, outbox, committed, notices, queue, linked, cursor, load, shown, eventFaults>>

\* TransitionWorkItem publishes the move after the repository has committed it.  It does
\* not when the item cannot be read again after the commit, and a channel that is closed
\* is an error that it ignores.
PublishWorkItemEvent(c) ==
    /\ c \in Moves /\ handler[c].at = "committed"
    /\ Finish(c)
    /\ \/ linked[handler[c].server] /\ queue' = Append(queue, c) /\ UNCHANGED eventFaults
       \/ ~linked[handler[c].server] /\ UNCHANGED <<queue, eventFaults>>
       \/ EventFault /\ UNCHANGED queue
    /\ UNCHANGED <<begun, outbox, committed, notices, linked, stream, cursor, page>>

\* ConsumeSSEBroadcast: any one of the servers announces the move to its own streams.
ConsumeSSEBroadcast(s) ==
    /\ linked[s] /\ queue # << >>
    /\ queue' = Tail(queue)
    /\ EmitProjectEvent(s, Head(queue))
    /\ UNCHANGED <<handler, begun, outbox, committed, notices, linked, cursor, load, shown, eventFaults>>

-----------------------------------------------------------------------------
(* The page.                                                               *)

\* The page is told of something.  It loads, but not while it is loading: what was committed
\* after the running load read the notifications stays unseen.
Invalidate(p) ==
    IF load[p].at = "none"
    THEN load' = [load EXCEPT ![p].at = "asked"] /\ UNCHANGED <<shown, owed>>
    ELSE /\ owed' = IF load[p].at = "asked" THEN owed ELSE [owed EXCEPT ![p] = @ \cap load[p].got]
         /\ UNCHANGED <<load, shown>>

\* The server reads the notifications of the user, the latest of them first.
ReadForPage(p) ==
    /\ load[p].at = "asked"
    /\ load' = [load EXCEPT ![p] = [at |-> "read", got |-> notices[p]]]
    /\ UNCHANGED <<work, linked, stream, cursor, shown, owed, eventFaults>>

\* loadNotifications has ended.
Show(p) ==
    /\ load[p].at = "read"
    /\ load' = [load EXCEPT ![p] = [at |-> "rest", got |-> {}]]
    /\ shown' = [shown EXCEPT ![p] = load[p].got]
    /\ owed' = [owed EXCEPT ![p] = @ \ load[p].got]
    /\ UNCHANGED <<work, linked, stream, cursor, eventFaults>>

\* loadNotifications has failed, and is not tried again.
PageLoadFails(p) ==
    /\ load[p].at \in {"asked", "read"} /\ EventFault
    /\ load' = [load EXCEPT ![p] = [at |-> "rest", got |-> {}]]
    /\ owed' = [owed EXCEPT ![p] = {}]
    /\ UNCHANGED <<work, linked, stream, cursor, shown>>

\* reloadActiveProject has ended as well, whether or not it failed.
EndLoad(p) ==
    /\ load[p].at = "rest"
    /\ load' = [load EXCEPT ![p] = NoLoad]
    /\ UNCHANGED <<work, linked, stream, cursor, shown, owed, eventFaults>>

-----------------------------------------------------------------------------
(* The stream.                                                             *)

\* ProjectEventsHandler registers the channel before it looks at the outbox.
Register(p, s) ==
    /\ stream[p].at = "closed"
    /\ stream' = [stream EXCEPT ![p] = [at |-> "registered", server |-> s, chan |-> << >>]]
    /\ owed' = [owed EXCEPT ![p] = notices[p] \ shown[p]]
    /\ UNCHANGED <<work, linked, cursor, load, shown, eventFaults>>

\* The places, in the order of created_at, of the events of the outbox that come after c,
\* and those of them that a replay sends.
After(c) == {j \in DOMAIN begun : begun[j] \in outbox /\ \E i \in 1 .. j - 1 : begun[i] = c}
Page(places) == {j \in places : Cardinality({k \in places : k < j}) < PageSize}

\* replayProjectEvents.  A cursor that is not in the outbox, as that of a move, makes the
\* server send "invalidate".  Events beyond the page are not sent, nor is the page told.
Replay(p) ==
    /\ stream[p].at = "registered"
    /\ stream' = [stream EXCEPT ![p].at = "replayed"]
    /\ \/ cursor[p] = Nothing /\ UNCHANGED <<cursor, page>>
       \/ cursor[p] \in Changes \ outbox /\ Invalidate(p) /\ UNCHANGED cursor
       \/ /\ cursor[p] \in outbox
          /\ LET sent == Page(After(cursor[p]))
             IN  \/ sent = {} /\ UNCHANGED <<cursor, page>>
                 \/ \E j \in sent : /\ \A k \in sent : k <= j
                                    /\ Invalidate(p)
                                    /\ cursor' = [cursor EXCEPT ![p] = begun[j]]
    /\ UNCHANGED <<work, linked, eventFaults>>

\* Mutation: the page takes "ready" as a sign of life and nothing else.
ReadyQuietly(p) ==
    /\ stream[p].at = "replayed"
    /\ stream' = [stream EXCEPT ![p].at = "open"]
    /\ UNCHANGED <<work, linked, cursor, page, eventFaults>>

\* "ready" makes the page load, whatever was replayed.
Ready(p) ==
    /\ stream[p].at = "replayed"
    /\ stream' = [stream EXCEPT ![p].at = "open"]
    /\ Invalidate(p)
    /\ UNCHANGED <<work, linked, cursor, eventFaults>>

\* writeSSEChange: the next event of the channel.
Deliver(p) ==
    /\ stream[p].at = "open" /\ stream[p].chan # << >>
    /\ stream' = [stream EXCEPT ![p].chan = Tail(@)]
    /\ cursor' = [cursor EXCEPT ![p] = Head(stream[p].chan)]
    /\ Invalidate(p)
    /\ UNCHANGED <<work, linked, eventFaults>>

-----------------------------------------------------------------------------
(* Failures.                                                               *)

Cut(P) == /\ stream' = [p \in Pages |-> IF p \in P THEN Closed ELSE stream[p]]
          /\ owed' = [p \in Pages |-> IF p \in P THEN {} ELSE owed[p]]

\* The browser connects again by itself, unless its access cookie has expired.
Disconnect(p) ==
    /\ stream[p].at # "closed" /\ EventFault
    /\ Cut({p})
    /\ UNCHANGED <<work, linked, cursor, load, shown>>

\* Transactions are rolled back, and events that were committed but not announced are
\* never announced.  The server starts again, and prunes the outbox of expired rows.
CrashAndRestart(s) ==
    /\ EventFault
    /\ Cut({p \in Pages : Listening(p, s)})
    /\ handler' = [c \in Changes |->
           IF handler[c].server = s /\ handler[c].at \in {"begun", "committed"}
           THEN [handler[c] EXCEPT !.at = "done"] ELSE handler[c]]
    /\ \E expired \in SUBSET outbox : outbox' = outbox \ expired
    /\ linked' = [linked EXCEPT ![s] = TRUE]
    /\ UNCHANGED <<begun, committed, notices, queue, cursor, load, shown>>

\* Neither the publisher nor the consumer opens another channel.
ChannelCloses(s) ==
    /\ linked[s] /\ EventFault
    /\ linked' = [linked EXCEPT ![s] = FALSE]
    /\ UNCHANGED <<work, stream, cursor, page>>

-----------------------------------------------------------------------------
ServeStream(p) == Replay(p) \/ Ready(p) \/ Deliver(p)
Reload(p) == ReadForPage(p) \/ Show(p) \/ EndLoad(p)

EventsNext ==
    \/ \E c \in Changes : Commit(c) \/ Announce(c) \/ PublishWorkItemEvent(c)
    \/ \E c \in Changes, s \in Servers : Begin(c, s)
    \/ \E s \in Servers : ConsumeSSEBroadcast(s) \/ CrashAndRestart(s) \/ ChannelCloses(s)
    \/ \E p \in Pages : ServeStream(p) \/ Reload(p) \/ PageLoadFails(p) \/ Disconnect(p)
    \/ \E p \in Pages, s \in Servers : Register(p, s)

\* Servers write what they have for a stream, and loads end.
EventsFairness == \A p \in Pages : WF_eventVars(ServeStream(p)) /\ WF_eventVars(Reload(p))

\* Besides, requests end and messages are consumed.
ServerFairness ==
    /\ \A c \in Changes : WF_eventVars(Commit(c)) /\ WF_eventVars(Announce(c) \/ PublishWorkItemEvent(c))
    /\ WF_eventVars(\E s \in Servers : ConsumeSSEBroadcast(s))

EventsSpec == EventsInit /\ [][EventsNext]_eventVars /\ EventsFairness /\ ServerFairness

-----------------------------------------------------------------------------
(* Properties.                                                             *)

EventsTypeOK ==
    /\ handler \in [Changes -> Handler]
    /\ begun \in Seq(Records) /\ outbox \subseteq ToSet(begun)
    /\ committed \subseteq Changes /\ outbox \subseteq committed
    /\ notices \in [Pages -> SUBSET committed]
    /\ queue \in Seq(Moves)
    /\ linked \in [Servers -> BOOLEAN]
    /\ stream \in [Pages -> Stream]
    /\ cursor \in [Pages -> Changes \cup {Nothing}]
    /\ load \in [Pages -> PageLoad]
    /\ shown \in [Pages -> SUBSET Changes]
    /\ owed \in [Pages -> SUBSET Changes]
    /\ eventFaults \in 0 .. MaxEventFaults

\* Nobody is told of a change that is not in the database: a page that loads because of an
\* event finds the notification there.
ToldAfterCommit ==
    /\ ToSet(queue) \subseteq committed
    /\ \A p \in Pages : ToSet(stream[p].chan) \subseteq committed

\* The notifications that were there before its stream was registered, and those of changes
\* that the server of the stream announces, a page shows in the end, even when the channel
\* was full and the event was dropped, when the replay left it out, or the event is not in
\* the outbox.  The page is owed nothing any more when the stream is cut, when a load
\* fails, or when it was told while a load ran that had already read the notifications.
OwedIsShown == \A p \in Pages, c \in Changes : c \in owed[p] ~> c \notin owed[p]

\* No wake-up is lost: the notification that a page still has to show is in the database,
\* and its stream has yet to tell it something or a load is under way that has it or will
\* have it.
OwedIsComing ==
    \A p \in Pages : \A c \in owed[p] :
        /\ c \in notices[p]
        /\ \/ stream[p].at \in {"registered", "replayed"}
           \/ stream[p].at = "open" /\ stream[p].chan # << >>
           \/ load[p].at = "asked"
           \/ load[p].at = "read" /\ c \in load[p].got

\* A page whose stream stays open shows every notification of its user in the end.
EveryPageCatchesUp ==
    \A p \in Pages, c \in Changes :
        c \in notices[p] /\ stream[p].at = "open" ~> c \in shown[p] \/ stream[p].at # "open"

=============================================================================
