---------------------------- MODULE DocumentEvents ----------------------------
(***************************************************************************)
(* The events of one document (app/ingest/events.py) and the streams that    *)
(* tell them to the operator's browser (app/api/sse.py).                    *)
(*                                                                          *)
(* emit numbers an event by UPDATE app.documents SET last_event_seq = ...    *)
(* RETURNING, so the transaction holds the lock of the document's row until  *)
(* it ends; the event row is seen by others after its commit.  A stream      *)
(* polls the rows above its cursor, at most Limit at a time, and sends them  *)
(* one by one; what is under way when the connection is lost is lost, and   *)
(* the browser connects again with the id of the last event it has got.     *)
(***************************************************************************)
EXTENDS Naturals, Sequences, SequencesExt

CONSTANTS
    Writers,    \* sessions whose transactions emit events
    Clients,    \* browsers that follow the document
    Types,      \* event types
    Limit,      \* rows of one replay
    Budgets     \* the bounds of the instances: events, lost connections (drops), and
                \* whether handlers emit events and browsers follow them
                \* (follow)

ASSUME LimitAssumption == Limit \in Nat \ {0}
ASSUME EventBoundsAssumption ==
    \A b \in Budgets : b.events \in Nat /\ b.drops \in Nat /\ b.follow \in BOOLEAN

VARIABLES
    lastSeq,  \* app.documents.last_event_seq, as committed
    events,   \* the committed rows of app.document_events
    open,     \* per session, the rows of its open transaction
    streams,  \* per client, its connection
    got,      \* per client, the events it has received
    drops,    \* bound: connections lost so far
    budget    \* the bounds of this behaviour

logVars == <<lastSeq, events, open>>
streamVars == <<streams, got, drops, budget>>

Event == [seq : Nat \ {0}, type : Types]

Closed == [up |-> FALSE, cursor |-> 0, rows |-> <<>>, wire |-> <<>>]

EventsInit ==
    /\ lastSeq = 0
    /\ events = {}
    /\ open = [w \in Writers |-> <<>>]
    /\ streams = [c \in Clients |-> Closed]
    /\ got = [c \in Clients |-> <<>>]
    /\ drops = 0
    /\ budget \in Budgets

-----------------------------------------------------------------------------
(* Emitting *)

\* No other transaction has updated the document's row.
RowFree(w) == \A v \in Writers \ {w} : open[v] = <<>>

RoomFor(n) == Cardinality(events) + n <= budget.events

\* Mutant: events are numbered by a database sequence, which takes no lock.
EmitFromSequence(w, type) ==
    /\ budget.follow
    /\ RoomFor(Cardinality(UNION {ToSet(open[v]) : v \in Writers}) + 1)
    /\ open' = [open EXCEPT ![w] =
          Append(@, [seq |-> Cardinality(events \cup UNION {ToSet(open[v]) : v \in Writers}) + 1,
                     type |-> type])]
    /\ UNCHANGED <<lastSeq, events>>

\* DocumentEventBus.emit, in the transaction of session w.
Emit(w, type) ==
    /\ budget.follow /\ RowFree(w)
    /\ RoomFor(Len(open[w]) + 1)
    /\ open' = [open EXCEPT ![w] =
          Append(@, [seq |-> lastSeq + Len(@) + 1, type |-> type])]
    /\ UNCHANGED <<lastSeq, events>>

Commit(w) ==
    /\ open[w] # <<>>
    /\ events' = events \cup ToSet(open[w])
    /\ lastSeq' = Last(open[w]).seq
    /\ open' = [open EXCEPT ![w] = <<>>]

Rollback(w) ==
    /\ open[w] # <<>>
    /\ open' = [open EXCEPT ![w] = <<>>]
    /\ UNCHANGED <<lastSeq, events>>

\* A transaction that has nothing to wait for between its emit and its commit.
Announce(type) ==
    /\ \A w \in Writers : open[w] = <<>>
    /\ RoomFor(1)
    /\ events' = events \cup {[seq |-> lastSeq + 1, type |-> type]}
    /\ lastSeq' = lastSeq + 1
    /\ UNCHANGED open

-----------------------------------------------------------------------------
(* Streaming *)

LastEventId(c) == IF got[c] = <<>> THEN 0 ELSE Last(got[c]).seq

\* Mutant: a stream goes on where the one before had stopped sending.
ConnectAtCursor(c) ==
    /\ budget.follow /\ ~streams[c].up
    /\ streams' = [streams EXCEPT ![c] = [Closed EXCEPT !.up = TRUE, !.cursor = streams[c].cursor]]
    /\ UNCHANGED <<got, drops, budget>>

\* GET /events with Last-Event-ID (parse_last_event_id: 0 without one).
Connect(c) ==
    /\ budget.follow /\ ~streams[c].up
    /\ streams' = [streams EXCEPT ![c] =
                      [Closed EXCEPT !.up = TRUE, !.cursor = LastEventId(c)]]
    /\ UNCHANGED <<got, drops, budget>>

\* ORDER BY seq, which is unique.  (The library's SetToSortSeq rests on SortSeq, of
\* which the proof system has no definition.)
BySeq(rows) ==
    CHOOSE s \in [1 .. Cardinality(rows) -> rows] :
        \A i, j \in DOMAIN s : i < j => s[i].seq < s[j].seq

\* DocumentEventBus.replay: WHERE seq > cursor ORDER BY seq LIMIT.
Replay(cursor) ==
    LET later == BySeq({e \in events : e.seq > cursor}) IN
    SubSeq(later, 1, IF Len(later) < Limit THEN Len(later) ELSE Limit)

\* One turn of the polling loop, or the replay before it.
Poll(c) ==
    /\ streams[c].up /\ streams[c].rows = <<>>
    /\ Replay(streams[c].cursor) # <<>>
    /\ streams' = [streams EXCEPT ![c].rows = Replay(streams[c].cursor)]
    /\ UNCHANGED <<got, drops, budget>>

\* The next row is yielded as a frame.
Yield(c) ==
    LET stream == streams[c]
        row == Head(stream.rows)
    IN  /\ stream.up /\ stream.rows # <<>>
        /\ streams' = [streams EXCEPT ![c] = [stream EXCEPT !.cursor = row.seq,
                                                            !.rows = Tail(stream.rows),
                                                            !.wire = Append(stream.wire, row)]]
        /\ UNCHANGED <<got, drops, budget>>

\* The browser gets a frame and remembers its id.
Receive(c) ==
    /\ streams[c].wire # <<>>
    /\ streams' = [streams EXCEPT ![c].wire = Tail(@)]
    /\ got' = [got EXCEPT ![c] = Append(@, Head(streams[c].wire))]
    /\ UNCHANGED <<drops, budget>>

\* max_seconds are over, a replay fails or the network does.
Drop(c) ==
    /\ streams[c].up
    /\ drops < budget.drops
    /\ drops' = drops + 1
    /\ streams' = [streams EXCEPT ![c] = [Closed EXCEPT !.cursor = streams[c].cursor]]
    /\ UNCHANGED <<got, budget>>

StreamStep ==
    \E c \in Clients : Connect(c) \/ Poll(c) \/ Yield(c) \/ Receive(c) \/ Drop(c)

-----------------------------------------------------------------------------
EventsTypeOK ==
    /\ lastSeq \in 0 .. budget.events
    /\ events \subseteq Event
    /\ open \in [Writers -> Seq(Event)]
    /\ \A c \in Clients :
          /\ streams[c].up \in BOOLEAN /\ streams[c].cursor \in 0 .. budget.events
          /\ streams[c].rows \in Seq(Event) /\ streams[c].wire \in Seq(Event)
    /\ got \in [Clients -> Seq(Event)]
    /\ budget \in Budgets
    /\ drops \in 0 .. budget.drops

\* A browser that connects again after every loss is told every event once, in
\* order: the cursor never passes over an event that commits later, and a
\* reconnection neither repeats nor skips one.
Feed == INSTANCE EventFeed WITH
            Subscribers <- Clients,
            feed <- BySeq(events),
            told <- got

FollowsFeed == Feed!Spec

\* Polling and sending go on, and a browser that lost its connection connects
\* again.
StreamFairness ==
    \A c \in Clients : WF_streamVars(Connect(c)) /\ WF_streamVars(Poll(c) \/ Yield(c))
                       /\ WF_streamVars(Receive(c))

\* Every event of the document reaches every browser that follows it in the end.
EveryEventArrives ==
    \A c \in Clients : \A n \in 1 .. Limit + 1 :
        (budget.follow /\ lastSeq >= n) ~> (Len(got[c]) >= n)

=============================================================================
