--------------------------- MODULE BlockEditsProofs ---------------------------
(***************************************************************************)
(* Proofs about BlockEdits, for every set of blocks, chunks, citations, jobs  *)
(* and workers, and any number of edits, events and faults, and about the     *)
(* DocumentEvents it extends, for every set of writers, clients and types,    *)
(* every page size and any number of events and lost connections.             *)
(*                                                                          *)
(* Events.  The streams implement EventFeed.                                  *)
(*                                                                          *)
(* Verdicts.  A verdict that is out of date is marked stale, or was written   *)
(* by a validator that an edit overtook.  To see that the second is the only  *)
(* way out, the invariant follows the text in the validator's hands as well   *)
(* as that of the verdict.                                                   *)
(***************************************************************************)
EXTENDS BlockEdits, JobTableProofs, Integers, FiniteSetTheorems, WellFoundedInduction

-----------------------------------------------------------------------------
(* Events: induction *)

\* Induction over the naturals, for a set of numbers.
LEMMA SetInduction ==
    ASSUME NEW S, 0 \in S, \A n \in Nat : n \in S => n + 1 \in S
    PROVE  Nat \subseteq S
<1> DEFINE T == Nat \ S
<1> SUFFICES ASSUME T # {} PROVE FALSE
  OBVIOUS
<1>1. PICK x \in T : \A y \in T : ~(<<y, x>> \in OpToRel(<, Nat))
  BY NatLessThanWellFounded, WFMin
<1>2. x \in Nat /\ x # 0 /\ x - 1 \in Nat /\ x - 1 < x
  OBVIOUS
<1>3. x - 1 \in S
  BY <1>1, <1>2 DEF OpToRel
<1> QED
  BY <1>2, <1>3

\* S has exactly one event for each number from lo + 1 to lo + n.
Numbered(S, lo, n) ==
    /\ S \subseteq Event
    /\ \A e \in S : e.seq \in lo + 1 .. lo + n
    /\ \A k \in 1 .. n : \E e \in S : e.seq = lo + k
    /\ \A d, e \in S : d.seq = e.seq => d = e

\* The rows of such a set, ordered by their number.
LEMMA BySeqNumbered ==
    ASSUME NEW S, NEW lo \in Nat, NEW n \in Nat, Numbered(S, lo, n)
    PROVE  /\ IsFiniteSet(S) /\ Cardinality(S) = n
           /\ BySeq(S) \in [1 .. n -> S]
           /\ \A k \in 1 .. n : BySeq(S)[k].seq = lo + k
<1>1. /\ S \subseteq Event
      /\ \A e \in S : e.seq \in lo + 1 .. lo + n
      /\ \A k \in 1 .. n : \E e \in S : e.seq = lo + k
      /\ \A d, e \in S : d.seq = e.seq => d = e
  BY DEF Numbered
<1> DEFINE F == [k \in 1 .. n |-> CHOOSE e \in S : e.seq = lo + k]
<1>2. F \in [1 .. n -> S] /\ \A k \in 1 .. n : F[k].seq = lo + k
  BY <1>1
<1>3. ExistsBijection(1 .. n, S)
  <2>1. \A i, j \in 1 .. n : F[i] = F[j] => i = j
    BY <1>2
  <2>2. \A e \in S : \E k \in 1 .. n : F[k] = e
    <3> SUFFICES ASSUME NEW e \in S PROVE \E k \in 1 .. n : F[k] = e
      OBVIOUS
    <3>1. e.seq - lo \in 1 .. n /\ lo + (e.seq - lo) = e.seq
      BY <1>1
    <3>2. F[e.seq - lo].seq = e.seq /\ F[e.seq - lo] \in S
      BY <1>2, <3>1
    <3> QED
      BY <1>1, <3>1, <3>2
  <2>3. F \in Bijection(1 .. n, S)
    BY <1>2, <2>1, <2>2 DEF Bijection, Injection, Surjection, IsInjective
  <2> QED
    BY <2>3 DEF ExistsBijection
<1>4. IsFiniteSet(S) /\ Cardinality(S) = n
  BY <1>3, FS_CountingElements, FS_NatBijection
<1> DEFINE s == BySeq(S)
<1>5. /\ s \in [1 .. n -> S]
      /\ \A i, j \in 1 .. n : i < j => s[i].seq < s[j].seq
  <2>1. \A i, j \in DOMAIN F : i < j => F[i].seq < F[j].seq
    BY <1>2
  <2> QED
    BY <1>2, <1>4, <2>1 DEF BySeq
<1>6. \A k \in 1 .. n : s[k].seq \in Int
  BY <1>1, <1>5 DEF Event
<1>7. \A k \in 1 .. n : s[k].seq >= lo + k
  <2> DEFINE P == {k \in Nat : k \in 1 .. n => s[k].seq >= lo + k}
  <2>1. 0 \in P
    OBVIOUS
  <2>2. ASSUME NEW k \in Nat, k \in P, k + 1 \in 1 .. n PROVE s[k + 1].seq >= lo + (k + 1)
    <3>1. CASE k = 0
      BY <1>1, <1>5, <2>2, <3>1
    <3>2. CASE k # 0
      <4>1. k \in 1 .. n /\ k < k + 1
        BY <2>2, <3>2
      <4>2. s[k].seq >= lo + k /\ s[k].seq < s[k + 1].seq
        BY <1>5, <2>2, <4>1
      <4> QED
        BY <1>6, <2>2, <4>1, <4>2
    <3> QED
      BY <3>1, <3>2
  <2>3. Nat \subseteq P
    <3> HIDE DEF s
    <3>1. ASSUME NEW k \in Nat, k \in P PROVE k + 1 \in P
      <4>1. k + 1 \in Nat
        OBVIOUS
      <4>2. k + 1 \in 1 .. n => s[k + 1].seq >= lo + (k + 1)
        BY <2>2, <3>1
      <4> QED
        BY <4>1, <4>2
    <3> HIDE DEF P
    <3> QED
      BY <2>1, <3>1, SetInduction
  <2> QED
    BY <2>3
<1>8. \A k \in 1 .. n : s[k].seq <= lo + k
  <2> DEFINE P == {j \in Nat : j < n => s[n - j].seq <= lo + (n - j)}
  <2>1. 0 \in P
    BY <1>1, <1>5
  <2>2. ASSUME NEW j \in Nat, j \in P, j + 1 < n
        PROVE s[n - (j + 1)].seq <= lo + (n - (j + 1))
    <3>1. n - j \in 1 .. n /\ n - (j + 1) \in 1 .. n /\ n - (j + 1) < n - j /\ j < n
      BY <2>2
    <3>2. s[n - j].seq <= lo + (n - j) /\ s[n - (j + 1)].seq < s[n - j].seq
      BY <1>5, <2>2, <3>1
    <3> QED
      BY <1>6, <3>1, <3>2
  <2>3. Nat \subseteq P
    <3> HIDE DEF s
    <3>1. \A j \in Nat : j \in P => j + 1 \in P
      BY <2>2
    <3> HIDE DEF P
    <3> QED
      BY <2>1, <3>1, SetInduction
  <2>4. \A k \in 1 .. n : n - k \in Nat /\ n - k < n /\ n - (n - k) = k
    OBVIOUS
  <2> QED
    <3> SUFFICES ASSUME NEW k \in 1 .. n PROVE s[k].seq <= lo + k
      OBVIOUS
    <3>1. n - k \in P
      BY <2>3, <2>4
    <3> QED
      BY <2>4, <3>1
<1> QED
  <2>1. \A k \in 1 .. n : s[k].seq = lo + k
    BY <1>6, <1>7, <1>8
  <2> QED
    BY <1>4, <1>5, <2>1

-----------------------------------------------------------------------------
(* The invariant *)

\* The committed events are numbered without a gap, and so are those of the one
\* transaction that holds the document's row, from there on.
LogInv ==
    /\ lastSeq \in Nat /\ lastSeq <= budget.events
    /\ Numbered(events, 0, lastSeq)
    /\ open \in [Writers -> Seq(Event)]
    /\ \A w \in Writers : \A i \in 1 .. Len(open[w]) : open[w][i].seq = lastSeq + i
    /\ \A w \in Writers : lastSeq + Len(open[w]) <= budget.events
    /\ \A v, w \in Writers : v # w => open[v] = <<>> \/ open[w] = <<>>

\* A sequence of the events that come after number lo.
Follows(s, lo) ==
    /\ s \in Seq(events)
    /\ \A i \in 1 .. Len(s) : s[i].seq = lo + i

Stream == [up : BOOLEAN, cursor : Nat, rows : Seq(Event), wire : Seq(Event)]

\* What a browser has, what is under way to it and what the stream is about to send
\* follow each other in the log.
ClientInv(c) ==
    /\ streams[c].cursor <= lastSeq
    /\ Follows(got[c], 0)
    /\ Follows(streams[c].wire, Len(got[c]))
    /\ Follows(streams[c].rows, streams[c].cursor)
    /\ IF streams[c].up THEN streams[c].cursor = Len(got[c]) + Len(streams[c].wire)
       ELSE streams[c].wire = <<>> /\ streams[c].rows = <<>>

StreamInv ==
    /\ streams \in [Clients -> Stream]
    /\ got \in [Clients -> Seq(Event)]
    /\ budget \in Budgets
    /\ drops \in 0 .. budget.drops
    /\ \A c \in Clients : ClientInv(c)

EventsInv == LogInv /\ StreamInv

\* The type invariant is part of it.
LEMMA EventsTyped == EventsInv => EventsTypeOK
<1> SUFFICES ASSUME EventsInv PROVE EventsTypeOK
  OBVIOUS
<1>1. budget \in Budgets /\ budget.events \in Nat
  BY EventBoundsAssumption DEF EventsInv, StreamInv
<1>2. \A c \in Clients : streams[c] \in Stream /\ streams[c].cursor <= lastSeq
  BY DEF EventsInv, StreamInv, ClientInv
<1> QED
  BY <1>1, <1>2 DEF EventsInv, StreamInv, LogInv, Numbered, EventsTypeOK, Stream

\* Nothing has been emitted, and nobody listens.
LEMMA InitEventsInv == EventsInit => EventsInv
<1> SUFFICES ASSUME EventsInit PROVE EventsInv
  OBVIOUS
<1>1. budget \in Budgets /\ budget.events \in Nat /\ budget.drops \in Nat
  BY EventBoundsAssumption DEF EventsInit
<1>2. LogInv
  BY <1>1 DEF EventsInit, LogInv, Numbered
<1>3. Closed \in Stream
  BY DEF Closed, Stream
<1>4. ASSUME NEW c \in Clients PROVE ClientInv(c)
  <2>1. streams[c] = Closed /\ got[c] = <<>> /\ lastSeq = 0
    BY DEF EventsInit
  <2>2. \A lo \in Nat : Follows(<<>>, lo)
    BY DEF Follows
  <2> QED
    BY <2>1, <2>2 DEF ClientInv, Closed
<1> QED
  BY <1>1, <1>2, <1>3, <1>4 DEF EventsInit, StreamInv, EventsInv

-----------------------------------------------------------------------------
(* The log *)

\* Events are at most as many as the number of the last one.
LEMMA RoomIsLastSeq ==
    ASSUME LogInv, NEW n \in Nat, RoomFor(n)
    PROVE  lastSeq + n <= budget.events
BY BySeqNumbered DEF LogInv, RoomFor

\* emit takes the next number, under the lock of the document's row.
LEMMA EmitLogInv ==
    ASSUME LogInv, NEW w \in Writers, NEW type \in Types, Emit(w, type), UNCHANGED budget
    PROVE  LogInv'
<1> DEFINE e == [seq |-> lastSeq + Len(open[w]) + 1, type |-> type]
<1>1. lastSeq \in Nat /\ open \in [Writers -> Seq(Event)] /\ open[w] \in Seq(Event)
  BY DEF LogInv
<1>2. e \in Event
  BY <1>1 DEF Event
<1>3. Append(open[w], e) \in Seq(Event) /\ Len(Append(open[w], e)) = Len(open[w]) + 1
  BY <1>1, <1>2
<1>4. open' = [open EXCEPT ![w] = Append(open[w], e)]
  BY DEF Emit
<1>5. lastSeq + (Len(open[w]) + 1) <= budget.events
  BY <1>1, RoomIsLastSeq DEF Emit
<1>6. \A i \in 1 .. Len(Append(open[w], e)) : Append(open[w], e)[i].seq = lastSeq + i
  <2> SUFFICES ASSUME NEW i \in 1 .. Len(open[w]) + 1
               PROVE  Append(open[w], e)[i].seq = lastSeq + i
    BY <1>3
  <2>1. CASE i = Len(open[w]) + 1
    <3>1. Append(open[w], e)[i] = e
      BY <1>1, <1>2, <2>1
    <3> QED
      BY <1>1, <2>1, <3>1
  <2>2. CASE i \in 1 .. Len(open[w])
    <3>1. Append(open[w], e)[i] = open[w][i]
      BY <1>1, <1>2, <2>2
    <3> QED
      BY <2>2, <3>1 DEF LogInv
  <2> QED
    BY <1>1, <2>1, <2>2
<1>7. \A v \in Writers \ {w} : open[v] = <<>>
  BY DEF Emit, RowFree
<1>8. UNCHANGED <<lastSeq, events>>
  BY DEF Emit
<1> HIDE DEF e
<1>9. open' \in [Writers -> Seq(Event)]
  BY <1>1, <1>3, <1>4
<1>10. \A v \in Writers : open'[v] = IF v = w THEN Append(open[w], e) ELSE open[v]
  BY <1>1, <1>4
<1>11. \A v \in Writers : \A i \in 1 .. Len(open'[v]) : open'[v][i].seq = lastSeq' + i
  <2>1. \A i \in 1 .. Len(open'[w]) : open'[w][i].seq = lastSeq' + i
    BY <1>6, <1>8, <1>10
  <2>2. ASSUME NEW v \in Writers, v # w
        PROVE  \A i \in 1 .. Len(open'[v]) : open'[v][i].seq = lastSeq' + i
    <3>1. open'[v] = open[v] /\ lastSeq' = lastSeq
      BY <1>8, <1>10, <2>2
    <3>2. \A i \in 1 .. Len(open[v]) : open[v][i].seq = lastSeq + i
      BY DEF LogInv
    <3> QED
      BY <3>1, <3>2
  <2> QED
    BY <2>1, <2>2
<1>12. \A v \in Writers : lastSeq' + Len(open'[v]) <= budget'.events
  BY <1>3, <1>5, <1>8, <1>10 DEF LogInv
<1>13. \A u, v \in Writers : u # v => open'[u] = <<>> \/ open'[v] = <<>>
  BY <1>7, <1>10
<1> QED
  BY <1>8, <1>9, <1>11, <1>12, <1>13 DEF LogInv, Numbered

\* A commit appends the transaction's events to the log.
LEMMA CommitLogInv ==
    ASSUME LogInv, NEW w \in Writers, Commit(w), UNCHANGED budget
    PROVE  LogInv' /\ lastSeq' > lastSeq /\ events \subseteq events'
<1> DEFINE n == Len(open[w])
<1>1. lastSeq \in Nat /\ open \in [Writers -> Seq(Event)] /\ open[w] \in Seq(Event)
  BY DEF LogInv
<1>2. n \in Nat \ {0}
  BY <1>1 DEF Commit
<1>3. \A i \in 1 .. n : open[w][i] \in Event /\ open[w][i].seq = lastSeq + i
  BY <1>1 DEF LogInv
<1>4. lastSeq' = lastSeq + n
  BY <1>1, <1>2, <1>3 DEF Commit, Last
<1>5. events' = events \cup {open[w][i] : i \in 1 .. n}
  BY <1>1 DEF Commit, ToSet
<1>6. Numbered(events', 0, lastSeq')
  <2>1. events' \subseteq Event
    BY <1>3, <1>5 DEF LogInv, Numbered
  <2>2. \A e \in events' : e.seq \in 1 .. lastSeq + n
    BY <1>1, <1>2, <1>3, <1>5 DEF LogInv, Numbered
  <2>3. \A k \in 1 .. lastSeq + n : \E e \in events' : e.seq = k
    <3> SUFFICES ASSUME NEW k \in 1 .. lastSeq + n PROVE \E e \in events' : e.seq = k
      OBVIOUS
    <3>1. CASE k <= lastSeq
      BY <1>1, <1>5, <3>1 DEF LogInv, Numbered
    <3>2. CASE k > lastSeq
      <4>1. k - lastSeq \in 1 .. n /\ lastSeq + (k - lastSeq) = k
        BY <1>1, <1>2, <3>2
      <4> QED
        BY <1>3, <1>5, <4>1
    <3> QED
      BY <1>1, <3>1, <3>2
  <2>4. \A d, e \in events' : d.seq = e.seq => d = e
    <3>1. \A d \in events : d.seq <= lastSeq
      BY <1>1 DEF LogInv, Numbered
    <3>2. \A i \in 1 .. n : open[w][i].seq > lastSeq
      BY <1>1, <1>3
    <3>3. \A d, e \in events : d.seq = e.seq => d = e
      BY DEF LogInv, Numbered
    <3>4. \A i, j \in 1 .. n : open[w][i].seq = open[w][j].seq => i = j
      BY <1>1, <1>3
    <3>5. \A d \in events : d.seq \in Nat
      BY DEF LogInv, Numbered, Event
    <3> QED
      BY <1>1, <1>3, <1>5, <3>1, <3>2, <3>3, <3>4, <3>5
  <2> QED
    BY <1>4, <2>1, <2>2, <2>3, <2>4 DEF Numbered
<1>7. \A v \in Writers : open'[v] = <<>>
  BY <1>1 DEF LogInv, Commit
<1>8. open' \in [Writers -> Seq(Event)]
  BY <1>1 DEF Commit
<1>9. lastSeq' <= budget.events
  BY <1>4 DEF LogInv
<1>10. LogInv'
  <2>1. lastSeq' \in Nat
    BY <1>1, <1>2, <1>4
  <2>2. \A v \in Writers : lastSeq' + Len(open'[v]) = lastSeq'
    BY <1>7, <2>1
  <2>3. \A v \in Writers : \A i \in 1 .. Len(open'[v]) : open'[v][i].seq = lastSeq' + i
    BY <1>7
  <2> QED
    BY <1>6, <1>7, <1>8, <1>9, <2>1, <2>2, <2>3 DEF LogInv
<1> QED
  BY <1>1, <1>2, <1>4, <1>5, <1>10

\* A rollback gives its numbers back.
LEMMA RollbackLogInv ==
    ASSUME LogInv, NEW w \in Writers, Rollback(w), UNCHANGED budget
    PROVE  LogInv'
<1>1. lastSeq \in Nat /\ open \in [Writers -> Seq(Event)]
  BY DEF LogInv
<1>2. open' = [open EXCEPT ![w] = <<>>] /\ UNCHANGED <<lastSeq, events>>
  BY DEF Rollback
<1>3. \A v \in Writers : open'[v] = IF v = w THEN <<>> ELSE open[v]
  BY <1>1, <1>2
<1>4. open' \in [Writers -> Seq(Event)]
  BY <1>1, <1>2
<1>5. \A v \in Writers : \A i \in 1 .. Len(open'[v]) : open'[v][i].seq = lastSeq' + i
  BY <1>1, <1>2, <1>3 DEF LogInv
<1>8. \A v \in Writers : lastSeq' + Len(open'[v]) <= budget'.events
  BY <1>1, <1>2, <1>3 DEF LogInv
<1>6. \A v, x \in Writers : v # x => open'[v] = <<>> \/ open'[x] = <<>>
  BY <1>3 DEF LogInv
<1>7. Numbered(events', 0, lastSeq') /\ lastSeq' <= budget'.events
  BY <1>2 DEF LogInv
<1> QED
  <2>1. lastSeq' \in Nat
    BY <1>1, <1>2
  <2> QED
    BY <2>1, <1>4, <1>5, <1>6, <1>7, <1>8 DEF LogInv

\* A transaction that emits one event and commits.
LEMMA AnnounceLogInv ==
    ASSUME LogInv, NEW type \in Types, Announce(type), UNCHANGED budget
    PROVE  LogInv' /\ lastSeq' > lastSeq /\ events \subseteq events'
<1> DEFINE e == [seq |-> lastSeq + 1, type |-> type]
<1>1. lastSeq \in Nat /\ lastSeq + 1 <= budget.events
  BY RoomIsLastSeq DEF LogInv, Announce
<1>2. e \in Event /\ e.seq = lastSeq + 1
  BY <1>1 DEF Event
<1>3. events' = events \cup {e} /\ lastSeq' = lastSeq + 1 /\ open' = open
  BY DEF Announce
<1>4. \A w \in Writers : open[w] = <<>>
  BY DEF Announce
<1> HIDE DEF e
<1>5. Numbered(events', 0, lastSeq')
  <2>1. \A k \in 1 .. lastSeq + 1 : k = lastSeq + 1 \/ k \in 1 .. lastSeq
    BY <1>1
  <2>2. \A d \in events : d.seq \in 1 .. lastSeq
    BY <1>1 DEF LogInv, Numbered
  <2> QED
    BY <1>1, <1>2, <1>3, <2>1, <2>2 DEF LogInv, Numbered
<1> QED
  BY <1>1, <1>3, <1>4, <1>5 DEF LogInv

-----------------------------------------------------------------------------
(* The streams *)

\* What is true of the streams stays true when events are added to the log.
LEMMA LogGrowsStreamInv ==
    ASSUME EventsInv, UNCHANGED streamVars, events \subseteq events',
           lastSeq' \in Nat, lastSeq <= lastSeq'
    PROVE  StreamInv'
<1>1. UNCHANGED <<streams, got, drops, budget>>
  BY DEF streamVars
<1>2. ASSUME NEW s, NEW lo, Follows(s, lo) PROVE Follows(s, lo)'
  BY <1>2 DEF Follows
<1>3. ASSUME NEW c \in Clients PROVE ClientInv(c)'
  <2>1. ClientInv(c) /\ lastSeq \in Nat /\ streams[c].cursor \in Nat
    BY DEF EventsInv, StreamInv, LogInv, Stream
  <2>2. streams'[c].cursor <= lastSeq'
    BY <1>1, <2>1 DEF ClientInv
  <2>3. Follows(got[c], 0)' /\ Follows(streams[c].wire, Len(got[c]))'
          /\ Follows(streams[c].rows, streams[c].cursor)'
    BY <1>1, <2>1 DEF ClientInv, Follows
  <2> QED
    BY <1>1, <2>1, <2>2, <2>3 DEF ClientInv
<1> QED
  BY <1>1, <1>3 DEF EventsInv, StreamInv

\* The rows of a replay follow its cursor.
LEMMA ReplayFollows ==
    ASSUME LogInv, NEW cursor \in Nat, cursor <= lastSeq
    PROVE  Replay(cursor) \in Seq(events) /\ Follows(Replay(cursor), cursor)
<1> DEFINE S == {e \in events : e.seq > cursor}
           n == lastSeq - cursor
           later == BySeq(S)
<1>1. lastSeq \in Nat /\ n \in Nat
  BY DEF LogInv
<1>2. Numbered(S, cursor, n)
  <2>1. S \subseteq Event /\ \A d, e \in S : d.seq = e.seq => d = e
    BY DEF LogInv, Numbered
  <2>2. \A e \in S : e.seq \in cursor + 1 .. cursor + n
    BY <1>1 DEF LogInv, Numbered
  <2>3. \A k \in 1 .. n : \E e \in S : e.seq = cursor + k
    <3> SUFFICES ASSUME NEW k \in 1 .. n PROVE \E e \in S : e.seq = cursor + k
      OBVIOUS
    <3>1. cursor + k \in 1 .. lastSeq /\ cursor + k > cursor
      BY <1>1
    <3> QED
      BY <3>1 DEF LogInv, Numbered
  <2> QED
    BY <2>1, <2>2, <2>3 DEF Numbered
<1>3. later \in [1 .. n -> S] /\ \A k \in 1 .. n : later[k].seq = cursor + k
  BY <1>1, <1>2, BySeqNumbered
<1> DEFINE m == IF Len(later) < Limit THEN Len(later) ELSE Limit
<1>4. later \in Seq(events) /\ Len(later) = n
  <2> HIDE DEF later, n
  <2>1. S \subseteq events
    OBVIOUS
  <2>2. later \in [1 .. n -> events]
    BY <1>3, <2>1
  <2> QED
    BY <1>1, <2>2
<1>5. m \in Nat /\ m <= n
  BY <1>1, <1>4, LimitAssumption
<1> HIDE DEF later
<1>6. SubSeq(later, 1, m) \in Seq(events) /\ Len(SubSeq(later, 1, m)) = m
  BY <1>1, <1>4, <1>5
<1>7. \A i \in 1 .. m : SubSeq(later, 1, m)[i] = later[i]
  BY <1>1, <1>4, <1>5
<1>8. Replay(cursor) = SubSeq(later, 1, m)
  BY DEF Replay, later
<1>9. \A i \in 1 .. m : SubSeq(later, 1, m)[i].seq = cursor + i
  BY <1>1, <1>3, <1>5, <1>7
<1> HIDE DEF m
<1> QED
  BY <1>6, <1>8, <1>9 DEF Follows

\* A step that rewrites the stream of one browser, and what it has got.
LEMMA OneStream ==
    ASSUME EventsInv, UNCHANGED logVars, NEW c \in Clients, NEW row \in Stream,
           NEW more \in Seq(Event),
           streams' = [streams EXCEPT ![c] = row], got' = [got EXCEPT ![c] = more],
           UNCHANGED budget, drops' \in 0 .. budget.drops, ClientInv(c)'
    PROVE  EventsInv'
<1>1. UNCHANGED <<lastSeq, events, open>>
  BY DEF logVars
<1>2. LogInv'
  BY <1>1 DEF EventsInv, LogInv, Numbered
<1>3. streams' \in [Clients -> Stream] /\ got' \in [Clients -> Seq(Event)]
  BY DEF EventsInv, StreamInv
<1>4. ASSUME NEW d \in Clients, d # c PROVE ClientInv(d)'
  <2>1. ClientInv(d) /\ streams'[d] = streams[d] /\ got'[d] = got[d]
    BY <1>4 DEF EventsInv, StreamInv
  <2>2. Follows(got[d], 0)' /\ Follows(streams[d].wire, Len(got[d]))'
    BY <1>1, <2>1 DEF ClientInv, Follows
  <2>3. Follows(streams[d].rows, streams[d].cursor)'
    BY <1>1, <2>1 DEF ClientInv, Follows
  <2> QED
    BY <1>1, <2>1, <2>2, <2>3 DEF ClientInv
<1> QED
  BY <1>2, <1>3, <1>4 DEF EventsInv, StreamInv

\* A sequence that follows lo, without its first event, follows lo + 1.
LEMMA TailFollows ==
    ASSUME NEW s, NEW lo \in Nat, Follows(s, lo), s # <<>>
    PROVE  /\ Head(s) \in events /\ Head(s).seq = lo + 1
           /\ Follows(Tail(s), lo + 1) /\ Len(Tail(s)) = Len(s) - 1
<1>1. s \in Seq(events) /\ \A i \in 1 .. Len(s) : s[i].seq = lo + i
  BY DEF Follows
<1>2. Head(s) = s[1] /\ 1 \in 1 .. Len(s) /\ Head(s) \in events
  BY <1>1
<1>3. Tail(s) \in Seq(events) /\ Len(Tail(s)) = Len(s) - 1
  BY <1>1
<1>4. \A i \in 1 .. Len(s) - 1 : Tail(s)[i] = s[i + 1] /\ i + 1 \in 1 .. Len(s)
  BY <1>1
<1>5. \A i \in 1 .. Len(Tail(s)) : Tail(s)[i].seq = (lo + 1) + i
  BY <1>1, <1>3, <1>4
<1> QED
  BY <1>1, <1>2, <1>3, <1>5 DEF Follows

\* The next event at the end.
LEMMA AppendFollows ==
    ASSUME NEW s, NEW lo \in Nat, Follows(s, lo), NEW e \in events, e.seq = lo + Len(s) + 1
    PROVE  Follows(Append(s, e), lo) /\ Len(Append(s, e)) = Len(s) + 1
<1>1. s \in Seq(events) /\ \A i \in 1 .. Len(s) : s[i].seq = lo + i
  BY DEF Follows
<1>2. Append(s, e) \in Seq(events) /\ Len(Append(s, e)) = Len(s) + 1
  BY <1>1
<1>3. ASSUME NEW i \in 1 .. Len(s) + 1 PROVE Append(s, e)[i].seq = lo + i
  <2>1. CASE i = Len(s) + 1
    BY <1>1, <2>1
  <2>2. CASE i \in 1 .. Len(s)
    BY <1>1, <2>2
  <2> QED
    BY <1>1, <2>1, <2>2
<1> QED
  BY <1>2, <1>3 DEF Follows

\* Nothing follows anything.
LEMMA EmptyFollows ==
    ASSUME NEW lo \in Nat
    PROVE  Follows(<<>>, lo)
BY DEF Follows

\* The record of a connection that has just been opened, or lost.
LEMMA ConnectionRow ==
    ASSUME NEW n \in Nat
    PROVE  /\ LET row == [Closed EXCEPT !.up = TRUE, !.cursor = n] IN
              /\ row \in Stream
              /\ row.up = TRUE /\ row.cursor = n /\ row.rows = <<>> /\ row.wire = <<>>
           /\ LET row == [Closed EXCEPT !.cursor = n] IN
              /\ row \in Stream
              /\ row.up = FALSE /\ row.cursor = n /\ row.rows = <<>> /\ row.wire = <<>>
<1>1. /\ Closed \in Stream
      /\ Closed.up = FALSE /\ Closed.rows = <<>> /\ Closed.wire = <<>>
  BY DEF Closed, Stream
<1> DEFINE r == [Closed EXCEPT !.up = TRUE]
<1>2. r \in Stream /\ r.up = TRUE /\ r.rows = <<>> /\ r.wire = <<>>
  BY <1>1 DEF Stream
<1>3. [Closed EXCEPT !.up = TRUE, !.cursor = n] = [r EXCEPT !.cursor = n]
  OBVIOUS
<1>4. LET row == [Closed EXCEPT !.cursor = n] IN
      /\ row \in Stream
      /\ row.up = FALSE /\ row.cursor = n /\ row.rows = <<>> /\ row.wire = <<>>
  BY <1>1 DEF Stream
<1> HIDE DEF r
<1>5. LET row == [r EXCEPT !.cursor = n] IN
      /\ row \in Stream
      /\ row.up = TRUE /\ row.cursor = n /\ row.rows = <<>> /\ row.wire = <<>>
  BY <1>2 DEF Stream
<1> QED
  BY <1>3, <1>4, <1>5

\* A row at hand goes on the wire.
Yielded(st, n, e) ==
    [st EXCEPT !.cursor = n, !.rows = Tail(st.rows), !.wire = Append(st.wire, e)]

\* The record of a stream that yields its next row.
LEMMA YieldRow ==
    ASSUME NEW st \in Stream, NEW n \in Nat, NEW e \in Event, st.rows # <<>>
    PROVE  /\ Yielded(st, n, e) \in Stream
           /\ Yielded(st, n, e).up = st.up
           /\ Yielded(st, n, e).cursor = n
           /\ Yielded(st, n, e).rows = Tail(st.rows)
           /\ Yielded(st, n, e).wire = Append(st.wire, e)
<1>1. st.rows \in Seq(Event) /\ st.wire \in Seq(Event)
  BY DEF Stream
<1>2. PICK t \in Seq(Event) : t = Tail(st.rows)
  <2>1. Tail(st.rows) \in Seq(Event)
    BY <1>1
  <2> QED
    BY <2>1
<1>3. PICK w \in Seq(Event) : w = Append(st.wire, e)
  <2>1. Append(st.wire, e) \in Seq(Event)
    BY <1>1
  <2> QED
    BY <2>1
<1> DEFINE r == [st EXCEPT !.cursor = n]
           s == [r EXCEPT !.rows = t]
<1>4. r \in Stream /\ r.up = st.up /\ r.cursor = n /\ r.rows = st.rows /\ r.wire = st.wire
  BY DEF Stream
<1> HIDE DEF r
<1>5. s \in Stream /\ s.up = st.up /\ s.cursor = n /\ s.rows = t /\ s.wire = st.wire
  BY <1>2, <1>4 DEF Stream
<1>6. [st EXCEPT !.cursor = n, !.rows = Tail(st.rows), !.wire = Append(st.wire, e)]
        = [s EXCEPT !.wire = w]
  BY <1>2, <1>3, <1>4, <1>5 DEF r
<1> HIDE DEF s
<1> DEFINE q == [s EXCEPT !.wire = w]
<1>7. /\ q \in Stream
      /\ q.up = st.up /\ q.cursor = n /\ q.rows = t /\ q.wire = w
  BY <1>3, <1>5 DEF Stream
<1>8. Yielded(st, n, e) = q
  BY <1>6 DEF Yielded
<1> HIDE DEF q
<1> QED
  BY <1>2, <1>3, <1>7, <1>8

\* Every step of a stream and of the browser at its end.
LEMMA StreamEventsInv ==
    ASSUME EventsInv, UNCHANGED logVars, StreamStep
    PROVE  EventsInv'
<1>1. PICK c \in Clients : Connect(c) \/ Poll(c) \/ Yield(c) \/ Receive(c) \/ Drop(c)
  BY DEF StreamStep
<1> DEFINE st == streams[c]
<1>2. /\ lastSeq \in Nat /\ events \subseteq Event
      /\ st \in Stream /\ got[c] \in Seq(Event)
      /\ streams \in [Clients -> Stream] /\ got \in [Clients -> Seq(Event)]
      /\ drops \in 0 .. budget.drops /\ budget \in Budgets
  BY DEF EventsInv, LogInv, StreamInv, Numbered
<1>3. /\ st.up \in BOOLEAN /\ st.cursor \in Nat
      /\ st.rows \in Seq(Event) /\ st.wire \in Seq(Event)
  BY <1>2 DEF Stream
<1>4. /\ st.cursor <= lastSeq
      /\ Follows(got[c], 0) /\ Follows(st.wire, Len(got[c])) /\ Follows(st.rows, st.cursor)
      /\ IF st.up THEN st.cursor = Len(got[c]) + Len(st.wire) ELSE st.wire = <<>> /\ st.rows = <<>>
  BY DEF EventsInv, StreamInv, ClientInv
<1>5. UNCHANGED <<lastSeq, events>> /\ Len(got[c]) \in Nat /\ Len(st.wire) \in Nat
  BY <1>2, <1>3 DEF logVars
<1>6. Seq(events) \subseteq Seq(Event)
  BY <1>2
<1>14. PICK g \in Nat, w \in Nat : g = Len(got[c]) /\ w = Len(st.wire)
  BY <1>5
\* A step that leaves the stream with the row and the browser with the events.
<1>7. ASSUME NEW row \in Stream, NEW more \in Seq(Event),
             streams' = [streams EXCEPT ![c] = row], got' = [got EXCEPT ![c] = more],
             UNCHANGED budget, drops' \in 0 .. budget.drops,
             row.cursor <= lastSeq,
             Follows(more, 0), Follows(row.wire, Len(more)), Follows(row.rows, row.cursor),
             IF row.up THEN row.cursor = Len(more) + Len(row.wire)
             ELSE row.wire = <<>> /\ row.rows = <<>>
      PROVE  EventsInv'
  <2>1. streams'[c] = row /\ got'[c] = more
    BY <1>2, <1>7
  <2>2. ClientInv(c)'
    BY <1>5, <1>7, <2>1 DEF ClientInv, Follows
  <2> QED
    BY <1>7, <2>2, OneStream
<1>8. got = [got EXCEPT ![c] = got[c]]
  BY <1>2
<1>9. CASE Connect(c)
  <2> DEFINE row == [Closed EXCEPT !.up = TRUE, !.cursor = LastEventId(c)]
  <2>1. LastEventId(c) = Len(got[c]) /\ LastEventId(c) <= lastSeq
    <3>1. CASE got[c] = <<>>
      BY <1>2, <3>1 DEF LastEventId
    <3>2. CASE got[c] # <<>>
      <4>1. Len(got[c]) \in 1 .. Len(got[c]) /\ Last(got[c]) = got[c][Len(got[c])]
        BY <1>2, <3>2 DEF Last
      <4>2. got[c] \in Seq(events) /\ got[c][Len(got[c])].seq = Len(got[c])
        BY <1>4, <1>5, <4>1 DEF Follows
      <4>3. got[c][Len(got[c])] \in events
        BY <4>1, <4>2
      <4>4. got[c][Len(got[c])].seq <= lastSeq
        BY <1>2, <4>3 DEF EventsInv, LogInv, Numbered
      <4> QED
        BY <3>2, <4>1, <4>2, <4>4 DEF LastEventId
    <3> QED
      BY <3>1, <3>2
  <2>2. /\ row \in Stream
        /\ row.up = TRUE /\ row.cursor = LastEventId(c) /\ row.rows = <<>> /\ row.wire = <<>>
    BY <1>5, <2>1, ConnectionRow
  <2>3. streams' = [streams EXCEPT ![c] = row] /\ UNCHANGED <<got, drops, budget>>
    BY <1>9 DEF Connect
  <2> HIDE DEF row
  <2>4. Follows(row.wire, Len(got[c])) /\ Follows(row.rows, row.cursor)
    BY <1>5, <2>1, <2>2, EmptyFollows
  <2>5. row.cursor = g + 0 /\ Len(row.wire) = 0
    BY <1>14, <2>1, <2>2
  <2> QED
    BY <1>2, <1>4, <1>7, <1>8, <1>14, <2>1, <2>2, <2>3, <2>4, <2>5
<1>10. CASE Poll(c)
  <2> DEFINE row == [st EXCEPT !.rows = Replay(st.cursor)]
  <2>1. Replay(st.cursor) \in Seq(events) /\ Follows(Replay(st.cursor), st.cursor)
    BY <1>3, <1>4, ReplayFollows DEF EventsInv
  <2>2. row \in Stream /\ row.cursor = st.cursor /\ row.wire = st.wire /\ row.up = st.up
          /\ row.rows = Replay(st.cursor)
    BY <1>2, <1>6, <2>1 DEF Stream
  <2>3. streams' = [streams EXCEPT ![c] = row]
    BY <1>2, <1>10 DEF Poll
  <2>4. UNCHANGED <<got, drops, budget>> /\ st.up
    BY <1>10 DEF Poll
  <2> HIDE DEF row
  <2> QED
    BY <1>2, <1>4, <1>7, <1>8, <2>1, <2>2, <2>3, <2>4
<1>11. CASE Yield(c)
  <2> DEFINE row == [st EXCEPT !.cursor = Head(st.rows).seq, !.rows = Tail(st.rows),
                               !.wire = Append(st.wire, Head(st.rows))]
  <2>1. st.up /\ st.rows # <<>> /\ UNCHANGED <<got, drops, budget>>
    BY <1>11 DEF Yield
  <2>2. /\ Head(st.rows) \in events /\ Head(st.rows).seq = st.cursor + 1
        /\ Follows(Tail(st.rows), st.cursor + 1)
    BY <1>3, <1>4, <2>1, TailFollows
  <2>3. /\ Follows(Append(st.wire, Head(st.rows)), Len(got[c]))
        /\ Len(Append(st.wire, Head(st.rows))) = Len(st.wire) + 1
    <3>1. Head(st.rows).seq = Len(got[c]) + Len(st.wire) + 1
      BY <1>4, <1>5, <2>1, <2>2
    <3> QED
      BY <1>4, <1>5, <2>2, <3>1, AppendFollows
  <2>4. Tail(st.rows) \in Seq(Event) /\ Append(st.wire, Head(st.rows)) \in Seq(Event)
    BY <1>6, <2>2, <2>3 DEF Follows
  <2>5. streams' = [streams EXCEPT ![c] = row]
    BY <1>11 DEF Yield
  <2>6. /\ row \in Stream
        /\ row.up = st.up /\ row.cursor = st.cursor + 1 /\ row.rows = Tail(st.rows)
        /\ row.wire = Append(st.wire, Head(st.rows))
    <3>1. Head(st.rows) \in Event /\ Head(st.rows).seq \in Nat
      BY <1>2, <2>2 DEF Event
    <3>2. st \in Stream /\ st.rows # <<>>
      BY <1>2, <2>1
    <3>3. row = Yielded(st, Head(st.rows).seq, Head(st.rows))
      BY Zenon DEF Yielded
    <3> HIDE DEF row, st
    <3> QED
      BY <2>2, <3>1, <3>2, <3>3, YieldRow
  <2>8. st.cursor + 1 <= lastSeq
    BY <1>2, <2>2 DEF EventsInv, LogInv, Numbered
  <2>9. st.cursor = g + w
    BY <1>4, <1>14, <2>1
  <2>10. st.cursor + 1 = g + (w + 1)
    BY <2>9
  <2> HIDE DEF row
  <2>11. row.cursor = Len(got[c]) + Len(row.wire)
    <3>1. row.cursor = g + (w + 1)
      BY <2>6, <2>10, Zenon
    <3>2. Len(row.wire) = w + 1
      BY <1>14, <2>3, <2>6, Zenon
    <3> QED
      BY <1>14, <3>1, <3>2, Zenon
  <2> QED
    BY <1>2, <1>4, <1>7, <1>8, <2>1, <2>2, <2>3, <2>5, <2>6, <2>8, <2>11
<1>12. CASE Receive(c)
  <2> DEFINE row == [st EXCEPT !.wire = Tail(st.wire)]
             more == Append(got[c], Head(st.wire))
  <2>1. st.wire # <<>> /\ st.up /\ UNCHANGED <<drops, budget>>
    BY <1>4, <1>12 DEF Receive
  <2>2. /\ Head(st.wire) \in events /\ Head(st.wire).seq = Len(got[c]) + 1
        /\ Follows(Tail(st.wire), Len(got[c]) + 1) /\ Len(Tail(st.wire)) = Len(st.wire) - 1
    BY <1>4, <1>5, <2>1, TailFollows
  <2>3. Follows(more, 0) /\ Len(more) = Len(got[c]) + 1
    BY <1>4, <1>5, <2>2, AppendFollows
  <2>4. more \in Seq(Event) /\ Tail(st.wire) \in Seq(Event)
    BY <1>6, <2>2, <2>3 DEF Follows
  <2>5. row \in Stream /\ row.up = st.up /\ row.cursor = st.cursor /\ row.rows = st.rows
          /\ row.wire = Tail(st.wire)
    BY <1>2, <2>4 DEF Stream
  <2>6. streams' = [streams EXCEPT ![c] = row]
    BY <1>2, <1>12 DEF Receive
  <2>7. got' = [got EXCEPT ![c] = more]
    BY <1>2, <1>12 DEF Receive
  <2>8. st.cursor = Len(more) + Len(Tail(st.wire))
    <3> HIDE DEF more, row
    <3>1. st.cursor = g + w
      BY <1>4, <1>14, <2>1
    <3>2. Len(Tail(st.wire)) = w - 1 /\ Len(more) = g + 1
      BY <1>14, <2>2, <2>3, Zenon
    <3>3. g + w = (g + 1) + (w - 1)
      OBVIOUS
    <3> QED
      BY <3>1, <3>2, <3>3, Zenon
  <2> HIDE DEF row, more
  <2> QED
    BY <1>2, <1>4, <1>7, <2>1, <2>2, <2>3, <2>4, <2>5, <2>6, <2>7, <2>8
<1>13. CASE Drop(c)
  <2> DEFINE row == [Closed EXCEPT !.cursor = st.cursor]
  <2>1. UNCHANGED <<got, budget>> /\ drops' \in 0 .. budget.drops
    BY <1>2, <1>13, EventBoundsAssumption DEF Drop
  <2>2. streams' = [streams EXCEPT ![c] = row]
    BY <1>13 DEF Drop
  <2>3. /\ row \in Stream
        /\ row.up = FALSE /\ row.cursor = st.cursor /\ row.rows = <<>> /\ row.wire = <<>>
    BY <1>3, ConnectionRow
  <2> HIDE DEF row
  <2>4. Follows(row.wire, Len(got[c])) /\ Follows(row.rows, row.cursor)
    BY <1>3, <1>5, <2>3, EmptyFollows
  <2> QED
    BY <1>2, <1>4, <1>7, <1>8, <2>1, <2>2, <2>3, <2>4
<1> QED
  BY <1>1, <1>9, <1>10, <1>11, <1>12, <1>13

-----------------------------------------------------------------------------
(* The streams implement EventFeed *)

\* The feed: event number k at place k.
LEMMA FeedOfLog ==
    ASSUME NEW S, NEW n \in Nat, Numbered(S, 0, n)
    PROVE  /\ BySeq(S) \in Seq(S) /\ Len(BySeq(S)) = n
           /\ \A e \in S : e.seq \in 1 .. n /\ BySeq(S)[e.seq] = e
<1>1. /\ \A e \in S : e.seq \in 1 .. n
      /\ \A d, e \in S : d.seq = e.seq => d = e
  BY DEF Numbered
<1>2. /\ BySeq(S) \in [1 .. n -> S]
      /\ \A k \in 1 .. n : BySeq(S)[k].seq = 0 + k
  BY BySeqNumbered
<1>3. BySeq(S) \in Seq(S) /\ Len(BySeq(S)) = n
  BY <1>2
<1>4. ASSUME NEW e \in S PROVE BySeq(S)[e.seq] = e
  <2>1. BySeq(S)[e.seq] \in S /\ BySeq(S)[e.seq].seq = e.seq
    BY <1>1, <1>2
  <2> QED
    BY <1>1, <2>1
<1> QED
  BY <1>1, <1>3, <1>4

\* Nothing is published, and nobody has been told anything.
LEMMA InitFeed == EventsInit => Feed!Init
<1> SUFFICES ASSUME EventsInit PROVE Feed!Init
  OBVIOUS
<1>1. LogInv /\ lastSeq = 0
  BY InitEventsInv DEF EventsInv, EventsInit
<1>2. BySeq(events) = <<>>
  BY <1>1, FeedOfLog DEF LogInv
<1> QED
  BY <1>2 DEF EventsInit, Feed!Init

\* A commit publishes: what was published keeps its place.
LEMMA LogGrowsPublishes ==
    ASSUME LogInv, LogInv', events \subseteq events', lastSeq' > lastSeq, UNCHANGED got
    PROVE  Feed!Publish
<1> DEFINE s == BySeq(events)
           t == BySeq(events')
<1>1. lastSeq \in Nat /\ lastSeq' \in Nat
  BY DEF LogInv
<1>2. s \in Seq(events) /\ Len(s) = lastSeq /\ \A e \in events : s[e.seq] = e
  BY FeedOfLog DEF LogInv
<1>3. t \in Seq(events') /\ Len(t) = lastSeq' /\ \A e \in events' : t[e.seq] = e
  <2>1. Numbered(events', 0, lastSeq')
    BY DEF LogInv
  <2> QED
    BY <1>1, <2>1, FeedOfLog
<1>4. \A k \in 1 .. lastSeq : \E e \in events : e.seq = k
  BY DEF LogInv, Numbered
<1> HIDE DEF s, t
<1>5. \A k \in 1 .. lastSeq : t[k] = s[k]
  <2> SUFFICES ASSUME NEW k \in 1 .. lastSeq PROVE t[k] = s[k]
    OBVIOUS
  <2>1. PICK e \in events : e.seq = k
    BY <1>4
  <2> QED
    BY <1>2, <1>3, <2>1
<1>6. SubSeq(t, 1, lastSeq) = s
  <2>1. SubSeq(t, 1, lastSeq) \in Seq(events') /\ Len(SubSeq(t, 1, lastSeq)) = lastSeq
    BY <1>1, <1>3
  <2>2. \A k \in 1 .. lastSeq : SubSeq(t, 1, lastSeq)[k] = t[k]
    BY <1>1, <1>3
  <2> QED
    BY <1>1, <1>2, <1>5, <2>1, <2>2
<1> QED
  BY <1>1, <1>2, <1>3, <1>6 DEF Feed!Publish, s, t

\* What a browser gets is the event that follows those it has.
LEMMA ReceiveTells ==
    ASSUME EventsInv, UNCHANGED logVars, NEW c \in Clients, Receive(c)
    PROVE  Feed!Tell(c)
<1> DEFINE e == Head(streams[c].wire)
           n == Len(got[c])
<1>1. /\ Numbered(events, 0, lastSeq) /\ lastSeq \in Nat /\ got \in [Clients -> Seq(Event)]
      /\ Follows(streams[c].wire, n) /\ n \in Nat
  <2>1. LogInv /\ got \in [Clients -> Seq(Event)] /\ ClientInv(c)
    BY DEF EventsInv, StreamInv
  <2>2. n \in Nat
    BY <2>1
  <2> QED
    BY <2>1, <2>2 DEF LogInv, ClientInv
<1>2. streams[c].wire # <<>> /\ got' = [got EXCEPT ![c] = Append(got[c], e)]
  BY DEF Receive
<1>3. e \in events /\ e.seq = n + 1
  BY <1>1, <1>2, TailFollows
<1>4. n + 1 <= lastSeq /\ BySeq(events)[n + 1] = e /\ Len(BySeq(events)) = lastSeq
  BY <1>1, <1>3, FeedOfLog
<1>5. UNCHANGED events
  BY DEF logVars
<1> QED
  BY <1>1, <1>2, <1>4, <1>5 DEF Feed!Tell

\* Every step of a stream tells a browser the next event, or is none of the feed's.
LEMMA StreamStepsFeed ==
    ASSUME EventsInv, UNCHANGED logVars, StreamStep
    PROVE  [Feed!Next]_(Feed!feedVars)
<1>1. PICK c \in Clients : Connect(c) \/ Poll(c) \/ Yield(c) \/ Receive(c) \/ Drop(c)
  BY DEF StreamStep
<1>2. CASE Receive(c)
  BY <1>2, ReceiveTells DEF Feed!Next
<1>3. CASE Connect(c) \/ Poll(c) \/ Yield(c) \/ Drop(c)
  BY <1>3 DEF Connect, Poll, Yield, Drop, logVars, Feed!feedVars
<1> QED
  BY <1>1, <1>2, <1>3

-----------------------------------------------------------------------------
(* Verdicts *)

ChunkTexts == UNION {[BlocksOf[c] -> Nat] : c \in Chunks}

\* The types that the argument needs.
CitesTyped ==
    /\ block \in [Blocks -> Nat]
    /\ \A c \in Chunks : chunk[c] \in [BlocksOf[c] -> Nat]
    /\ citation \in [Citations -> [status : Verdicts \cup {"absent", "stale"}, checked : ChunkTexts]]
    /\ reading \in [Citations -> ChunkTexts \cup {NotReading}]
    /\ edits \in Nat

\* A verdict, and a text a validator has read, is that of the chunk, or was overtaken.
VerdictsCurrent ==
    \A c \in Citations :
        citation[c].status \in Verdicts /\ citation[c].checked # chunk[ChunkOf[c]] => c \in overtaken

ReadingsCurrent ==
    \A c \in Citations :
        reading[c] # NotReading /\ reading[c] # chunk[ChunkOf[c]] => c \in overtaken

IInv == CitesTyped /\ VerdictsCurrent /\ ReadingsCurrent

-----------------------------------------------------------------------------
\* Texts begin as they were extracted, and nobody has read them.
LEMMA InitIInv == Init => IInv
<1> SUFFICES ASSUME Init PROVE IInv
  OBVIOUS
<1>1. \A c \in Chunks : NoText(c) \in [BlocksOf[c] -> Nat]
  BY DEF NoText
<1>2. \A c \in Citations : NoText(ChunkOf[c]) \in ChunkTexts
  BY <1>1, ChunkOfAssumption DEF ChunkTexts
<1>3. CitesTyped
  BY <1>1, <1>2 DEF Init, CitesTyped
<1>4. VerdictsCurrent
  BY DEF Init, VerdictsCurrent, Verdicts
<1>5. ReadingsCurrent
  BY DEF Init, ReadingsCurrent
<1> QED
  BY <1>3, <1>4, <1>5 DEF IInv

\* Steps that leave texts and citations alone.
LEMMA KeepsTexts ==
    ASSUME IInv, UNCHANGED <<block, chunk, citeVars>>, edits' \in Nat
    PROVE  IInv'
BY DEF IInv, CitesTyped, VerdictsCurrent, ReadingsCurrent, citeVars

\* An edit marks the citations of the chunks it changes, and those that are being
\* validated as overtaken, in one transaction.
LEMMA EditIInv ==
    ASSUME IInv, NEW b \in Blocks, EditBlock(b)
    PROVE  IInv'
<1>1. CitesTyped /\ VerdictsCurrent /\ ReadingsCurrent
  BY DEF IInv
<1>2. block' \in [Blocks -> Nat] /\ edits' \in Nat
  BY <1>1 DEF CitesTyped, EditBlock
<1>3. \A c \in Chunks : chunk'[c] \in [BlocksOf[c] -> Nat]
  <2> SUFFICES ASSUME NEW c \in Chunks PROVE chunk'[c] \in [BlocksOf[c] -> Nat]
    OBVIOUS
  <2>1. BlocksOf[c] \subseteq Blocks
    BY BlocksOfAssumption
  <2>2. chunk'[c] = IF c \in Affected(b) THEN [x \in BlocksOf[c] |-> block'[x]] ELSE chunk[c]
    BY DEF EditBlock, Joined
  <2> QED
    BY <1>1, <1>2, <2>1, <2>2 DEF CitesTyped
<1>4. \A c \in Citations :
         /\ citation'[c] = IF ChunkOf[c] \in Affected(b) THEN Staled(citation[c]) ELSE citation[c]
         /\ reading'[c] = reading[c]
         /\ c \in overtaken => c \in overtaken'
  BY DEF EditBlock
<1>5. \A c \in Citations : ChunkOf[c] \in Affected(b) => citation'[c].status \notin Verdicts
  BY <1>1, <1>4 DEF CitesTyped, Staled, Verdicts
<1>6. \A c \in Citations : ChunkOf[c] \notin Affected(b) => chunk'[ChunkOf[c]] = chunk[ChunkOf[c]]
  BY ChunkOfAssumption DEF EditBlock
<1>7. CitesTyped'
  <2>1. citation' \in [Citations -> [status : Verdicts \cup {"absent", "stale"}, checked : ChunkTexts]]
    BY <1>1 DEF CitesTyped, EditBlock, Staled
  <2>2. reading' \in [Citations -> ChunkTexts \cup {NotReading}]
    BY <1>1 DEF CitesTyped, EditBlock
  <2> QED
    BY <1>2, <1>3, <2>1, <2>2 DEF CitesTyped
<1>8. VerdictsCurrent'
  BY <1>1, <1>4, <1>5, <1>6 DEF VerdictsCurrent
<1>9. ReadingsCurrent'
  <2> SUFFICES ASSUME NEW c \in Citations, reading'[c] # NotReading,
                      reading'[c] # chunk'[ChunkOf[c]]
               PROVE  c \in overtaken'
    BY DEF ReadingsCurrent
  <2>1. CASE ChunkOf[c] \in Affected(b)
    BY <1>4, <2>1 DEF EditBlock
  <2>2. CASE ChunkOf[c] \notin Affected(b)
    BY <1>1, <1>4, <1>6, <2>2 DEF ReadingsCurrent
  <2> QED
    BY <2>1, <2>2
<1> QED
  BY <1>7, <1>8, <1>9 DEF IInv

\* What is read is the chunk's text.
LEMMA ReadIInv ==
    ASSUME IInv, NEW c \in Citations, Retrieve(c) \/ Revalidate(c)
    PROVE  IInv'
<1>1. CitesTyped /\ VerdictsCurrent /\ ReadingsCurrent
  BY DEF IInv
<1>2. chunk[ChunkOf[c]] \in ChunkTexts
  BY <1>1, ChunkOfAssumption DEF CitesTyped, ChunkTexts
<1>3. /\ reading' = [reading EXCEPT ![c] = chunk[ChunkOf[c]]]
      /\ UNCHANGED <<block, chunk, citation, edits>>
      /\ citation[c].status \notin Verdicts
      /\ \A d \in Citations : d # c /\ d \in overtaken => d \in overtaken'
  BY DEF Retrieve, Revalidate, textVars, editBounds, Verdicts
<1>4. CitesTyped'
  BY <1>1, <1>2, <1>3 DEF CitesTyped
<1>5. VerdictsCurrent'
  BY <1>1, <1>3 DEF VerdictsCurrent
<1>6. ReadingsCurrent'
  BY <1>1, <1>3 DEF ReadingsCurrent, CitesTyped
<1> QED
  BY <1>4, <1>5, <1>6 DEF IInv

\* The verdict is one on the text that was read.
LEMMA WriteIInv ==
    ASSUME IInv, NEW c \in Citations, WriteVerdict(c)
    PROVE  IInv'
<1>1. CitesTyped /\ VerdictsCurrent /\ ReadingsCurrent
  BY DEF IInv
<1>2. PICK v \in Verdicts : citation' = [citation EXCEPT ![c] = [status |-> v, checked |-> reading[c]]]
  BY DEF WriteVerdict
<1>3. /\ reading' = [reading EXCEPT ![c] = NotReading]
      /\ UNCHANGED <<block, chunk, overtaken, edits>>
      /\ reading[c] # NotReading
  BY DEF WriteVerdict, textVars, editBounds
<1>4. reading[c] \in ChunkTexts
  BY <1>1, <1>3 DEF CitesTyped
<1>5. CitesTyped'
  BY <1>1, <1>2, <1>3, <1>4 DEF CitesTyped
<1>6. VerdictsCurrent'
  BY <1>1, <1>2, <1>3 DEF VerdictsCurrent, ReadingsCurrent, CitesTyped
<1>7. ReadingsCurrent'
  BY <1>1, <1>3 DEF ReadingsCurrent, CitesTyped
<1> QED
  BY <1>5, <1>6, <1>7 DEF IInv

\* Every step.
LEMMA NextIInv == IInv /\ [Next]_vars => IInv'
<1> SUFFICES ASSUME IInv, [Next]_vars PROVE IInv'
  OBVIOUS
<1>1. edits \in Nat
  BY DEF IInv, CitesTyped
<1>2. ASSUME NEW b \in Blocks, EditBlock(b) PROVE IInv'
  BY <1>2, EditIInv
<1>3. ASSUME NEW c \in Citations, Retrieve(c) \/ Revalidate(c) PROVE IInv'
  BY <1>3, ReadIInv
<1>4. ASSUME NEW c \in Citations, WriteVerdict(c) PROVE IInv'
  BY <1>4, WriteIInv
<1>5. ASSUME NEW t \in tasks, ReembedStep(t) \/ ReembedFails(t) PROVE IInv'
  BY <1>1, <1>5, KeepsTexts
     DEF ReembedStep, ReembedSelect, ReembedBatch, ReembedDone, ReembedFails, Fault, textVars,
         editBounds
<1>6. CASE \/ LeaveReady
           \/ \E w \in Workers : Crash(w) \/ \E j \in JobIds : Claim(w, j)
           \/ \E j \in JobIds : Reclaim(j)
  BY <1>1, <1>6, KeepsTexts DEF LeaveReady, Crash, Claim, Reclaim, Fault, textVars, editBounds
<1>7. CASE OtherEvents \/ Streaming \/ UNCHANGED vars
  BY <1>1, <1>7, KeepsTexts DEF OtherEvents, Streaming, vars, textVars, editBounds
<1> QED
  BY <1>2, <1>3, <1>4, <1>5, <1>6, <1>7 DEF Next

-----------------------------------------------------------------------------
\* Every verdict, and every text in a validator's hands, is current or overtaken.
THEOREM InductiveInvariant == Spec => []IInv
<1>1. Init => IInv
  BY InitIInv
<1>2. IInv /\ [Next]_vars => IInv'
  BY NextIInv
<1> QED
  BY <1>1, <1>2, PTL DEF Spec

\* A verdict on a text that the chunk no longer has is not shown as current, unless the
\* edit overtook the validator that wrote it.
THEOREM OutdatedVerdicts == Spec => []OutdatedIsStale
<1>1. IInv => OutdatedIsStale
  BY DEF IInv, VerdictsCurrent, OutdatedIsStale
<1> QED
  BY <1>1, InductiveInvariant, PTL

-----------------------------------------------------------------------------
(* Types *)

TextOf(c) == [BlocksOf[c] -> Nat]

Task == [job : JobIds, n : Nat, worker : Workers, pc : {"start", "embed"},
         rows : SUBSET [id : Chunks, text : ChunkTexts]]

\* While the document is ready no row is deleted: a task's job names chunks.
JobsTyped ==
    /\ jobs \in Table
    /\ \A j \in JobIds : Exists(jobs[j]) => jobs[j].owner \in Owners
    /\ tasks \subseteq Task
    /\ \A t \in tasks : ready => Exists(jobs[t.job])
    /\ \A t \in tasks : \A row \in t.rows : row.text \in TextOf(row.id)

TextsTyped ==
    /\ ready \in BOOLEAN
    /\ vector \in [Chunks -> ChunkTexts \cup {NoVector}]
    /\ \A c \in Chunks : vector[c] \in TextOf(c) \cup {NoVector}
    /\ \A c \in Citations : /\ citation[c].checked \in TextOf(ChunkOf[c])
                            /\ reading[c] \in TextOf(ChunkOf[c]) \cup {NotReading}
    /\ overtaken \subseteq Citations

BoundsTyped == edits \in 0 .. budget.edits /\ faults \in 0 .. budget.faults

TInv == IInv /\ EventsInv /\ JobsTyped /\ TextsTyped /\ BoundsTyped

\* It implies the type invariant.
LEMMA TInvTypeOK == TInv => TypeOK
<1> SUFFICES ASSUME TInv PROVE TypeOK
  OBVIOUS
<1>1. EventsTypeOK
  BY EventsTyped DEF TInv
<1>2. /\ ready \in BOOLEAN /\ block \in [Blocks -> Nat] /\ overtaken \subseteq Citations
      /\ jobs \in Table
      /\ edits \in 0 .. budget.edits /\ faults \in 0 .. budget.faults
  BY DEF TInv, IInv, CitesTyped, JobsTyped, TextsTyped, BoundsTyped
<1>3. \A c \in Chunks : /\ chunk[c] \in [BlocksOf[c] -> Nat]
                        /\ vector[c] \in [BlocksOf[c] -> Nat] \cup {NoVector}
  BY DEF TInv, IInv, CitesTyped, TextsTyped, TextOf
<1>4. \A c \in Citations :
          /\ citation[c].status \in Verdicts \cup {"absent", "stale"}
          /\ citation[c].checked \in [BlocksOf[ChunkOf[c]] -> Nat]
          /\ reading[c] \in [BlocksOf[ChunkOf[c]] -> Nat] \cup {NotReading}
  BY DEF TInv, IInv, CitesTyped, TextsTyped, TextOf
<1>5. \A t \in tasks : /\ t.job \in JobIds /\ t.worker \in Workers
                       /\ t.pc \in {"start", "embed"} /\ t.n \in Nat
  BY DEF TInv, JobsTyped, Task
<1> QED
  BY <1>1, <1>2, <1>3, <1>4, <1>5 DEF TypeOK

\* The initial state.
LEMMA InitTInv == Init => TInv
<1> SUFFICES ASSUME Init PROVE TInv
  OBVIOUS
<1>1. IInv /\ EventsInv
  BY InitIInv, InitEventsInv DEF Init
<1>2. budget \in Budgets /\ budget.edits \in Nat /\ budget.faults \in Nat
  BY EditBoundsAssumption DEF Init, EventsInit
<1>3. JobsTyped
  <2>1. jobs = [j \in JobIds |-> Unused] /\ tasks = {}
    BY DEF Init, EmptyTable
  <2>2. ~Exists(Unused)
    BY DEF Unused, Exists
  <2> QED
    BY <2>1, <2>2, UnusedIsRow DEF JobsTyped, Table
<1>4. TextsTyped
  <2>1. \A c \in Chunks : NoText(c) \in TextOf(c) /\ NoText(c) \in ChunkTexts
    BY DEF NoText, TextOf, ChunkTexts
  <2> QED
    BY <2>1, ChunkOfAssumption DEF Init, TextsTyped
<1> QED
  BY <1>1, <1>2, <1>3, <1>4 DEF Init, BoundsTyped, TInv

\* An edit.
LEMMA EditTyped ==
    ASSUME TInv, NEW b \in Blocks, EditBlock(b)
    PROVE  JobsTyped' /\ TextsTyped'
<1>1. IInv /\ JobsTyped /\ TextsTyped /\ CitesTyped /\ CitesTyped'
  BY EditIInv DEF TInv, IInv
<1>2. Affected(b) \in Owners \cup {{}}
  BY ReembedAssumption DEF Affected
<1>3. JobsTyped'
  <2>1. \/ jobs' = jobs
        \/ \E j \in JobIds : /\ jobs' = [jobs EXCEPT ![j] = NewRow("reembed_chunks", Affected(b), NoKey)]
                             /\ Affected(b) \in Owners
    BY <1>2 DEF EditBlock, EnqueueReembed, Enqueued
  <2>2. UNCHANGED <<ready, tasks>>
    BY DEF EditBlock
  <2>3. CASE jobs' = jobs
    BY <1>1, <2>2, <2>3 DEF JobsTyped
  <2>4. ASSUME NEW j \in JobIds, Affected(b) \in Owners,
               jobs' = [jobs EXCEPT ![j] = NewRow("reembed_chunks", Affected(b), NoKey)]
        PROVE  JobsTyped'
    <3> DEFINE r == NewRow("reembed_chunks", Affected(b), NoKey)
    <3>1. r \in Row /\ Exists(r) /\ r.owner \in Owners
      BY <2>4, ReembedAssumption DEF NewRow, Row, Statuses, Exists
    <3> HIDE DEF r
    <3>2. jobs' \in Table /\ \A i \in JobIds : jobs'[i] = IF i = j THEN r ELSE jobs[i]
      BY <1>1, <2>4, <3>1 DEF JobsTyped, Table, r
    <3>3. \A i \in JobIds : Exists(jobs[i]) => Exists(jobs'[i])
      BY <3>1, <3>2
    <3>4. \A t \in tasks : t.job \in JobIds
      BY <1>1 DEF JobsTyped, Task
    <3> QED
      BY <1>1, <2>2, <3>1, <3>2, <3>3, <3>4 DEF JobsTyped
  <2> QED
    BY <2>1, <2>3, <2>4
<1>4. TextsTyped'
  <2>1. vector' = [c \in Chunks |-> IF c \in Affected(b) THEN NoVector ELSE vector[c]]
    BY DEF EditBlock
  <2>2. /\ vector' \in [Chunks -> ChunkTexts \cup {NoVector}]
        /\ \A c \in Chunks : vector'[c] \in TextOf(c) \cup {NoVector}
    BY <1>1, <2>1 DEF TextsTyped
  <2>3. \A c \in Citations : citation'[c].checked = citation[c].checked
    <3> SUFFICES ASSUME NEW c \in Citations PROVE citation'[c].checked = citation[c].checked
      OBVIOUS
    <3>1. citation[c] \in [status : Verdicts \cup {"absent", "stale"}, checked : ChunkTexts]
      BY <1>1 DEF CitesTyped
    <3>2. citation'[c] = citation[c] \/ citation'[c] = [citation[c] EXCEPT !.status = "stale"]
      BY DEF EditBlock, Staled
    <3> QED
      BY <3>1, <3>2
  <2>4. UNCHANGED <<ready, reading>> /\ overtaken' \subseteq Citations
    BY <1>1 DEF EditBlock, TextsTyped
  <2> QED
    BY <1>1, <2>2, <2>3, <2>4 DEF TextsTyped
<1> QED
  BY <1>3, <1>4

\* A statement that rewrites the row of one job keeps the table typed.
LEMMA OneRowTyped ==
    ASSUME JobsTyped, NEW j \in JobIds, NEW r \in Row, jobs' = [jobs EXCEPT ![j] = r],
           r.owner = jobs[j].owner, Exists(r) <=> Exists(jobs[j])
    PROVE  /\ jobs' \in Table
           /\ \A i \in JobIds : /\ Exists(jobs'[i]) <=> Exists(jobs[i])
                                /\ Exists(jobs'[i]) => jobs'[i].owner \in Owners
<1>1. jobs' \in Table /\ \A i \in JobIds : jobs'[i] = IF i = j THEN r ELSE jobs[i]
  BY DEF JobsTyped, Table
<1> QED
  BY <1>1 DEF JobsTyped

\* Each of them keeps the owner, and does not revive or delete a row.
LEMMA RowsKeepOwner ==
    ASSUME NEW r \in Row
    PROVE  /\ \A w \in Workers : Claimable(r) => /\ ClaimedRow(r, w).owner = r.owner
                                                 /\ Exists(ClaimedRow(r, w)) /\ Exists(r)
           /\ CompletedRow(r).owner = r.owner /\ (Exists(CompletedRow(r)) <=> Exists(r))
           /\ FailedRow(r, TRUE).owner = r.owner /\ (Exists(FailedRow(r, TRUE)) <=> Exists(r))
           /\ r.status = "running" =>
                 LET s == ReclaimedRow([r EXCEPT !.fresh = FALSE]) IN
                 s \in Row /\ s.owner = r.owner /\ Exists(s) /\ Exists(r)
<1>1. ASSUME NEW w \in Workers, Claimable(r)
      PROVE  ClaimedRow(r, w).owner = r.owner /\ Exists(ClaimedRow(r, w)) /\ Exists(r)
  <2> DEFINE r1 == [r EXCEPT !.status = "running"]
             r2 == [r1 EXCEPT !.attempts = r.attempts + 1]
             r3 == [r2 EXCEPT !.worker = w]
             r4 == [r3 EXCEPT !.fresh = TRUE]
  <2>1. r1 \in Row /\ r1.owner = r.owner /\ r1.status = "running"
    BY DEF Row, Statuses
  <2>2. r2 \in Row /\ r2.owner = r.owner /\ r2.status = "running"
    <3>1. r.attempts + 1 \in Nat
      BY DEF Row
    <3> QED
      BY <2>1, <3>1 DEF Row
  <2>3. r3 \in Row /\ r3.owner = r.owner /\ r3.status = "running"
    BY <2>2 DEF Row
  <2>4. r4.owner = r.owner /\ r4.status = "running"
    BY <2>3 DEF Row
  <2>5. ClaimedRow(r, w) = r4
    BY DEF ClaimedRow, Row
  <2> QED
    BY <1>1, <2>4, <2>5 DEF Exists, Claimable
<1>2. CompletedRow(r).owner = r.owner /\ (Exists(CompletedRow(r)) <=> Exists(r))
  BY DEF CompletedRow, Exists, Row
<1>3. FailedRow(r, TRUE).owner = r.owner /\ (Exists(FailedRow(r, TRUE)) <=> Exists(r))
  BY DEF FailedRow, FailStatus, Exists, Row
<1>4. ASSUME r.status = "running"
      PROVE  LET s == ReclaimedRow([r EXCEPT !.fresh = FALSE]) IN
             s \in Row /\ s.owner = r.owner /\ Exists(s) /\ Exists(r)
  <2> DEFINE q == [r EXCEPT !.fresh = FALSE]
  <2>1. q \in Row /\ q.owner = r.owner /\ q.status = "running" /\ q.fresh = FALSE
    BY <1>4 DEF Row
  <2> HIDE DEF q
  <2>2. ReclaimedRow(q) \in Row
    BY <2>1, RowStatements
  <2>3. ReclaimedRow(q).owner = q.owner /\ Exists(ReclaimedRow(q))
    BY <2>1 DEF ReclaimedRow, Stuck, Exists, Row
  <2> QED
    BY <1>4, <2>1, <2>2, <2>3 DEF Exists, q
<1> QED
  BY <1>1, <1>2, <1>3, <1>4

\* Steps of a worker and of its tasks.
LEMMA TaskTyped ==
    ASSUME TInv, NEW t \in tasks, ReembedStep(t) \/ ReembedFails(t)
    PROVE  JobsTyped' /\ TextsTyped'
<1>1. /\ JobsTyped /\ TextsTyped /\ CitesTyped
      /\ t \in Task /\ t.job \in JobIds /\ jobs[t.job] \in Row
  BY DEF TInv, IInv, JobsTyped, Task, Table
<1>2. UNCHANGED <<ready, chunk, citation, reading, overtaken>>
  BY DEF ReembedStep, ReembedSelect, ReembedBatch, ReembedDone, ReembedFails, textVars, citeVars
<1>3. ASSUME UNCHANGED vector PROVE TextsTyped'
  BY <1>1, <1>2, <1>3 DEF TextsTyped
<1>4. ASSUME NEW t2 \in Task, t2.job = t.job, \A row \in t2.rows : row.text \in TextOf(row.id),
             tasks' = (tasks \ {t}) \cup {t2}, UNCHANGED jobs
      PROVE  JobsTyped'
  BY <1>1, <1>2, <1>4 DEF JobsTyped
<1>5. ASSUME tasks' = tasks \ {t}, NEW r \in Row, r.owner = jobs[t.job].owner,
             Exists(r) <=> Exists(jobs[t.job]), jobs' = SetRow(t, r)
      PROVE  JobsTyped'
  <2>1. \/ jobs' = jobs
        \/ jobs' = [jobs EXCEPT ![t.job] = r]
    BY <1>5 DEF SetRow
  <2>2. /\ jobs' \in Table
        /\ \A i \in JobIds : /\ Exists(jobs'[i]) <=> Exists(jobs[i])
                             /\ Exists(jobs'[i]) => jobs'[i].owner \in Owners
    BY <1>1, <1>5, <2>1, OneRowTyped DEF JobsTyped
  <2>3. \A s \in tasks : s.job \in JobIds
    BY <1>1 DEF JobsTyped, Task
  <2> QED
    BY <1>1, <1>2, <1>5, <2>2, <2>3 DEF JobsTyped
<1>6. CASE ReembedSelect(t)
  <2> DEFINE rows == ChunkRows(jobs[t.job].owner)
             t2 == [t EXCEPT !.pc = "embed", !.rows = rows]
  <2>1. rows \subseteq [id : Chunks, text : ChunkTexts] /\ \A row \in rows : row.text \in TextOf(row.id)
    <3>1. ready => jobs[t.job].owner \subseteq Chunks
      BY <1>1, ReembedAssumption DEF JobsTyped
    <3>2. \A c \in Chunks : chunk[c] \in TextOf(c) /\ chunk[c] \in ChunkTexts
      BY <1>1 DEF CitesTyped, TextOf, ChunkTexts
    <3> QED
      BY <3>1, <3>2 DEF ChunkRows
  <2> HIDE DEF rows
  <2>2. t2 \in Task /\ t2.job = t.job /\ t2.rows = rows
    <3> DEFINE u == [t EXCEPT !.pc = "embed"]
    <3>1. u \in Task /\ u.job = t.job
      BY <1>1 DEF Task
    <3>2. t2 = [u EXCEPT !.rows = rows]
      OBVIOUS
    <3> HIDE DEF u
    <3> QED
      BY <2>1, <3>1, <3>2 DEF Task
  <2>3. tasks' = (tasks \ {t}) \cup {t2} /\ UNCHANGED <<jobs, vector>>
    BY <1>6 DEF ReembedSelect, textVars, rows
  <2> HIDE DEF t2
  <2> QED
    BY <1>3, <1>4, <2>1, <2>2, <2>3
<1>7. ASSUME NEW row \in t.rows, ReembedBatch(t, row) PROVE JobsTyped' /\ TextsTyped'
  <2>1. row.id \in Chunks /\ row.text \in TextOf(row.id) /\ row.text \in ChunkTexts
    BY <1>1, <1>7 DEF Task, JobsTyped
  <2>2. TextsTyped'
    <3>1. vector' = IF ready THEN [vector EXCEPT ![row.id] = row.text] ELSE vector
      BY <1>7 DEF ReembedBatch
    <3>2. /\ vector' \in [Chunks -> ChunkTexts \cup {NoVector}]
          /\ \A c \in Chunks : vector'[c] \in TextOf(c) \cup {NoVector}
      BY <1>1, <2>1, <3>1 DEF TextsTyped
    <3> QED
      BY <1>1, <1>2, <3>2 DEF TextsTyped
  <2> DEFINE t2 == [t EXCEPT !.rows = @ \ {row}]
  <2>3. t2 \in Task /\ t2.job = t.job /\ t2.rows \subseteq t.rows
    BY <1>1 DEF Task
  <2>4. tasks' = (tasks \ {t}) \cup {t2} /\ UNCHANGED jobs
    BY <1>7 DEF ReembedBatch
  <2>5. \A x \in t2.rows : x.text \in TextOf(x.id)
    BY <1>1, <2>3 DEF JobsTyped
  <2> HIDE DEF t2
  <2> QED
    BY <1>4, <2>2, <2>3, <2>4, <2>5
<1>8. CASE ReembedDone(t)
  BY <1>1, <1>3, <1>5, <1>8, RowsKeepOwner, RowStatements DEF ReembedDone, textVars
<1>9. CASE ReembedFails(t)
  BY <1>1, <1>3, <1>5, <1>9, RowsKeepOwner, RowStatements DEF ReembedFails, textVars
<1> QED
  BY <1>6, <1>7, <1>8, <1>9 DEF ReembedStep

\* Claims, crashes, lapsed leases, and the document's leaving ready.
LEMMA JobTyped ==
    ASSUME TInv,
           \/ LeaveReady
           \/ \E w \in Workers : Crash(w) \/ \E j \in JobIds : Claim(w, j)
           \/ \E j \in JobIds : Reclaim(j)
    PROVE  JobsTyped' /\ TextsTyped'
<1>1. JobsTyped /\ TextsTyped
  BY DEF TInv
<1>2. TextsTyped'
  BY <1>1 DEF LeaveReady, Crash, Claim, Reclaim, textVars, citeVars, TextsTyped
<1>3. ASSUME LeaveReady PROVE JobsTyped'
  <2>1. \A j \in JobIds : /\ jobs[j] \in Row /\ DeletedRow(jobs[j]) \in Row
                          /\ ~Exists(DeletedRow(jobs[j]))
    BY <1>1, RowStatements DEF JobsTyped, Table, DeletedRow, Exists, Row
  <2>2. /\ jobs' = [j \in JobIds |-> IF Exists(jobs[j]) THEN DeletedRow(jobs[j]) ELSE jobs[j]]
        /\ ready' = FALSE /\ UNCHANGED tasks
    BY <1>3 DEF LeaveReady
  <2> QED
    BY <1>1, <2>1, <2>2 DEF JobsTyped, Table
<1>4. ASSUME NEW w \in Workers, Crash(w) PROVE JobsTyped'
  BY <1>1, <1>4 DEF Crash, JobsTyped, textVars
<1>5. ASSUME NEW w \in Workers, NEW j \in JobIds, Claim(w, j) PROVE JobsTyped'
  <2> DEFINE r == ClaimedRow(jobs[j], w)
             t == [job |-> j, n |-> jobs[j].attempts + 1, worker |-> w, pc |-> "start", rows |-> {}]
  <2>1. jobs[j] \in Row /\ Claimable(jobs[j])
    BY <1>1, <1>5 DEF JobsTyped, Table, Claim
  <2>2. r \in Row /\ r.owner = jobs[j].owner /\ Exists(r) /\ Exists(jobs[j])
    BY <2>1, RowStatements, RowsKeepOwner
  <2>3. t \in Task /\ t.job = j /\ t.rows = {}
    <3>1. jobs[j].attempts + 1 \in Nat
      BY <2>1 DEF Row
    <3> QED
      BY <3>1 DEF Task
  <2>4. jobs' = [jobs EXCEPT ![j] = r] /\ tasks' = tasks \cup {t} /\ UNCHANGED ready
    BY <1>5 DEF Claim, textVars
  <2> HIDE DEF r, t
  <2>5. /\ jobs' \in Table
        /\ \A i \in JobIds : /\ Exists(jobs'[i]) <=> Exists(jobs[i])
                             /\ Exists(jobs'[i]) => jobs'[i].owner \in Owners
    BY <1>1, <2>2, <2>4, OneRowTyped
  <2>6. \A s \in tasks : s.job \in JobIds
    BY <1>1 DEF JobsTyped, Task
  <2> QED
    BY <1>1, <2>2, <2>3, <2>4, <2>5, <2>6 DEF JobsTyped
<1>6. ASSUME NEW j \in JobIds, Reclaim(j) PROVE JobsTyped'
  <2> DEFINE r == ReclaimedRow([jobs[j] EXCEPT !.fresh = FALSE])
  <2>1. jobs[j] \in Row /\ jobs[j].status = "running"
    BY <1>1, <1>6 DEF JobsTyped, Table, Reclaim
  <2>2. r \in Row /\ r.owner = jobs[j].owner /\ Exists(r) /\ Exists(jobs[j])
    BY <2>1, RowsKeepOwner
  <2>3. jobs' = [jobs EXCEPT ![j] = r] /\ UNCHANGED <<tasks, ready>>
    BY <1>6 DEF Reclaim, textVars
  <2> HIDE DEF r
  <2>4. /\ jobs' \in Table
        /\ \A i \in JobIds : /\ Exists(jobs'[i]) <=> Exists(jobs[i])
                             /\ Exists(jobs'[i]) => jobs'[i].owner \in Owners
    BY <1>1, <2>2, <2>3, OneRowTyped
  <2>5. \A s \in tasks : s.job \in JobIds
    BY <1>1 DEF JobsTyped, Task
  <2> QED
    BY <1>1, <2>3, <2>4, <2>5 DEF JobsTyped
<1> QED
  BY <1>2, <1>3, <1>4, <1>5, <1>6

\* Validators read the chunk's text, and write a verdict on what they have read.
LEMMA ValidatorTyped ==
    ASSUME TInv, NEW c \in Citations, Retrieve(c) \/ Revalidate(c) \/ WriteVerdict(c)
    PROVE  JobsTyped' /\ TextsTyped'
<1>1. /\ JobsTyped /\ TextsTyped /\ CitesTyped
      /\ citation \in [Citations -> [status : Verdicts \cup {"absent", "stale"}, checked : ChunkTexts]]
      /\ reading \in [Citations -> ChunkTexts \cup {NotReading}]
  BY DEF TInv, IInv, CitesTyped
<1>2. UNCHANGED <<jobs, tasks, ready, vector, chunk>>
  BY DEF Retrieve, Revalidate, WriteVerdict, textVars
<1>3. JobsTyped'
  BY <1>1, <1>2 DEF JobsTyped
<1>4. overtaken' \subseteq Citations
  BY <1>1 DEF Retrieve, Revalidate, WriteVerdict, TextsTyped
<1>5. CASE Retrieve(c) \/ Revalidate(c)
  <2>1. reading' = [reading EXCEPT ![c] = chunk[ChunkOf[c]]] /\ UNCHANGED citation
    BY <1>5 DEF Retrieve, Revalidate
  <2>2. chunk[ChunkOf[c]] \in TextOf(ChunkOf[c])
    BY <1>1, ChunkOfAssumption DEF CitesTyped, TextOf
  <2>3. \A d \in Citations : reading'[d] \in TextOf(ChunkOf[d]) \cup {NotReading}
    BY <1>1, <2>1, <2>2 DEF TextsTyped
  <2> QED
    BY <1>1, <1>2, <1>3, <1>4, <2>1, <2>3 DEF TextsTyped
<1>6. CASE WriteVerdict(c)
  <2>1. PICK v \in Verdicts : citation' = [citation EXCEPT ![c] = [status |-> v, checked |-> reading[c]]]
    BY <1>6 DEF WriteVerdict
  <2>2. reading' = [reading EXCEPT ![c] = NotReading] /\ reading[c] # NotReading
    BY <1>6 DEF WriteVerdict
  <2>3. reading[c] \in TextOf(ChunkOf[c])
    BY <1>1, <2>2 DEF TextsTyped
  <2>4. \A d \in Citations : citation'[d].checked \in TextOf(ChunkOf[d])
    <3> SUFFICES ASSUME NEW d \in Citations PROVE citation'[d].checked \in TextOf(ChunkOf[d])
      OBVIOUS
    <3>1. CASE d = c
      BY <1>1, <2>1, <2>3, <3>1
    <3>2. CASE d # c
      BY <1>1, <2>1, <3>2 DEF TextsTyped
    <3> QED
      BY <3>1, <3>2
  <2>5. \A d \in Citations : reading'[d] \in TextOf(ChunkOf[d]) \cup {NotReading}
    BY <1>1, <2>2 DEF TextsTyped
  <2> QED
    BY <1>1, <1>2, <1>3, <1>4, <2>4, <2>5 DEF TextsTyped
<1> QED
  BY <1>5, <1>6

\* The event log and the streams, at every step: an edit and a failed re-embedding
\* announce one event, the other sessions emit, commit and roll back.
LEMMA EventsStep ==
    ASSUME EventsInv, [Next]_vars
    PROVE  EventsInv' /\ [Feed!Next]_(Feed!feedVars)
<1>1. ASSUME UNCHANGED <<logVars, streamVars>> PROVE EventsInv' /\ [Feed!Next]_(Feed!feedVars)
  <2>1. UNCHANGED <<lastSeq, events, open, streams, got, drops, budget>>
    BY <1>1 DEF logVars, streamVars
  <2>2. LogInv'
    BY <2>1 DEF EventsInv, LogInv, Numbered
  <2>3. StreamInv'
    BY <1>1, <2>1, LogGrowsStreamInv DEF EventsInv, LogInv
  <2>4. UNCHANGED Feed!feedVars
    BY <2>1 DEF Feed!feedVars
  <2> QED
    BY <2>2, <2>3, <2>4 DEF EventsInv
<1>2. ASSUME LogInv', lastSeq' > lastSeq, events \subseteq events', UNCHANGED streamVars
      PROVE  EventsInv' /\ [Feed!Next]_(Feed!feedVars)
  <2>1. lastSeq \in Nat /\ lastSeq' \in Nat /\ LogInv /\ UNCHANGED got
    BY <1>2 DEF EventsInv, LogInv, streamVars
  <2>2. StreamInv'
    BY <1>2, <2>1, LogGrowsStreamInv
  <2>3. Feed!Publish
    BY <1>2, <2>1, LogGrowsPublishes
  <2> QED
    BY <1>2, <2>2, <2>3 DEF EventsInv, Feed!Next
<1>3. ASSUME LogInv', UNCHANGED <<lastSeq, events, streamVars>>
      PROVE  EventsInv' /\ [Feed!Next]_(Feed!feedVars)
  <2>1. StreamInv'
    BY <1>3, LogGrowsStreamInv DEF EventsInv, LogInv
  <2>2. UNCHANGED Feed!feedVars
    BY <1>3 DEF Feed!feedVars, streamVars
  <2> QED
    BY <1>3, <2>1, <2>2 DEF EventsInv
<1>4. ASSUME NEW type \in Types, Announce(type), UNCHANGED streamVars
      PROVE  EventsInv' /\ [Feed!Next]_(Feed!feedVars)
  BY <1>2, <1>4, AnnounceLogInv DEF EventsInv, streamVars
<1>5. CASE \E b \in Blocks : EditBlock(b)
  BY <1>4, <1>5, EditTypesAssumption DEF EditBlock
<1>6. CASE \E t \in tasks : ReembedFails(t)
  BY <1>4, <1>6, EditTypesAssumption DEF ReembedFails
<1>7. CASE OtherEvents
  <2>1. UNCHANGED streamVars
    BY <1>7 DEF OtherEvents
  <2>2. PICK w \in Writers : (\E type \in Types \ EditTypes : Emit(w, type)) \/ Commit(w) \/ Rollback(w)
    BY <1>7 DEF OtherEvents
  <2>3. CASE \E type \in Types \ EditTypes : Emit(w, type)
    BY <1>3, <2>1, <2>3, EmitLogInv DEF EventsInv, streamVars, Emit
  <2>4. CASE Commit(w)
    BY <1>2, <2>1, <2>4, CommitLogInv DEF EventsInv, streamVars
  <2>5. CASE Rollback(w)
    BY <1>3, <2>1, <2>5, RollbackLogInv DEF EventsInv, streamVars, Rollback
  <2> QED
    BY <2>2, <2>3, <2>4, <2>5
<1>8. CASE Streaming
  BY <1>8, StreamEventsInv, StreamStepsFeed DEF Streaming
<1>9. CASE \/ LeaveReady
           \/ \E w \in Workers : Crash(w) \/ \E j \in JobIds : Claim(w, j)
           \/ \E t \in tasks : ReembedStep(t)
           \/ \E j \in JobIds : Reclaim(j)
           \/ \E c \in Citations : Retrieve(c) \/ Revalidate(c) \/ WriteVerdict(c)
           \/ UNCHANGED vars
  BY <1>1, <1>9 DEF LeaveReady, Crash, Claim, ReembedStep, ReembedSelect, ReembedBatch,
                    ReembedDone, Reclaim, Retrieve, Revalidate, WriteVerdict, vars
<1> QED
  BY <1>5, <1>6, <1>7, <1>8, <1>9 DEF Next

\* The bounds are kept.
LEMMA BoundsStep ==
    ASSUME TInv, [Next]_vars
    PROVE  BoundsTyped'
<1>1. /\ budget \in Budgets /\ budget.edits \in Nat /\ budget.faults \in Nat
      /\ edits \in 0 .. budget.edits /\ faults \in 0 .. budget.faults
  BY EditBoundsAssumption DEF TInv, BoundsTyped, EventsInv, StreamInv
<1>2. UNCHANGED budget
  BY DEF Next, EditBlock, LeaveReady, Crash, Claim, ReembedStep, ReembedSelect, ReembedBatch,
         ReembedDone, ReembedFails, Reclaim, Retrieve, Revalidate, WriteVerdict, OtherEvents,
         Streaming, StreamStep, Connect, Poll, Yield, Receive, Drop, streamVars, vars
<1>3. \/ UNCHANGED <<edits, faults>>
      \/ edits < budget.edits /\ edits' = edits + 1 /\ UNCHANGED faults
      \/ Fault
  BY DEF Next, EditBlock, LeaveReady, Crash, Claim, ReembedStep, ReembedSelect, ReembedBatch,
         ReembedDone, ReembedFails, Reclaim, Retrieve, Revalidate, WriteVerdict, OtherEvents,
         Streaming, editBounds, vars
<1> QED
  BY <1>1, <1>2, <1>3 DEF Fault, BoundsTyped

\* Every step.
LEMMA NextTInv == TInv /\ [Next]_vars => TInv'
<1> SUFFICES ASSUME TInv, [Next]_vars PROVE TInv'
  OBVIOUS
<1>1. IInv' /\ EventsInv' /\ BoundsTyped'
  BY NextIInv, EventsStep, BoundsStep DEF TInv
<1>2. CASE \E b \in Blocks : EditBlock(b)
  BY <1>1, <1>2, EditTyped DEF TInv
<1>3. CASE \E t \in tasks : ReembedStep(t) \/ ReembedFails(t)
  BY <1>1, <1>3, TaskTyped DEF TInv
<1>4. CASE \/ LeaveReady
           \/ \E w \in Workers : Crash(w) \/ \E j \in JobIds : Claim(w, j)
           \/ \E j \in JobIds : Reclaim(j)
  BY <1>1, <1>4, JobTyped DEF TInv
<1>5. CASE \E c \in Citations : Retrieve(c) \/ Revalidate(c) \/ WriteVerdict(c)
  BY <1>1, <1>5, ValidatorTyped DEF TInv
<1>6. CASE OtherEvents \/ Streaming \/ UNCHANGED vars
  <2>1. UNCHANGED <<textVars, citeVars, jobs, tasks>>
    BY <1>6 DEF OtherEvents, Streaming, vars
  <2>2. JobsTyped' /\ TextsTyped'
    BY <2>1 DEF TInv, JobsTyped, TextsTyped, textVars, citeVars
  <2> QED
    BY <1>1, <2>2 DEF TInv
<1> QED
  BY <1>2, <1>3, <1>4, <1>5, <1>6 DEF Next

-----------------------------------------------------------------------------
\* The invariant of the whole: texts, jobs, the event log and the streams.
THEOREM EventsInvariant == Spec => []TInv
<1>1. Init => TInv
  BY InitTInv
<1>2. TInv /\ [Next]_vars => TInv'
  BY NextTInv
<1> QED
  BY <1>1, <1>2, PTL DEF Spec

\* Every text, vector and verdict is one of the chunk it belongs to, and the events are
\* within the bounds.
THEOREM TypeCorrect == Spec => []TypeOK
<1>1. TInv => TypeOK
  BY TInvTypeOK
<1> QED
  BY <1>1, EventsInvariant, PTL

\* The streams implement EventFeed: whatever commits, rolls back, is dropped and
\* connects again, every browser is told the events in order and each once.
THEOREM StreamsFollowFeed == Spec => FollowsFeed
<1>1. Init => Feed!Init
  BY InitFeed DEF Init
<1>2. TInv /\ [Next]_vars => [Feed!Next]_(Feed!feedVars)
  BY EventsStep DEF TInv
<1> QED
  BY <1>1, <1>2, EventsInvariant, PTL DEF Spec, FollowsFeed, Feed!Spec

=============================================================================
