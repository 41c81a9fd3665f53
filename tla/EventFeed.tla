------------------------------- MODULE EventFeed -------------------------------
(***************************************************************************)
(* What the event stream of a document promises its subscribers: there is    *)
(* one list of events, to which events are only added at the end, and every  *)
(* subscriber is told the list from its beginning, in order, each event     *)
(* once, over as many connections as it takes.                              *)
(***************************************************************************)
EXTENDS Naturals, Sequences

CONSTANT Subscribers

VARIABLES
    feed,   \* the events of the document
    told    \* per subscriber, the events it has been told

feedVars == <<feed, told>>

Init ==
    /\ feed = <<>>
    /\ told = [c \in Subscribers |-> <<>>]

\* A transaction publishes all its events at once.
Publish ==
    /\ Len(feed') > Len(feed)
    /\ SubSeq(feed', 1, Len(feed)) = feed
    /\ UNCHANGED told

Tell(c) ==
    /\ Len(told[c]) < Len(feed)
    /\ told' = [told EXCEPT ![c] = Append(@, feed[Len(@) + 1])]
    /\ UNCHANGED feed

Next == Publish \/ \E c \in Subscribers : Tell(c)

Spec == Init /\ [][Next]_feedVars

=============================================================================
