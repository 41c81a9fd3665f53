-------------------------------- MODULE Router --------------------------------
(***************************************************************************)
(* The language-model router of one process: generate (app/llm/router.py), its  *)
(* sliding hourly budget (app/llm/budget.py), the response cache               *)
(* (app/llm/cache.py) and the log of calls (app/llm/log_repo.py), from which   *)
(* the budget is read again at startup (app/llm/deps.py).                      *)
(*                                                                          *)
(* Requests run concurrently in one event loop and change hands where they      *)
(* await: the cache, the provider, the cache again.  Prompts are reduced to a    *)
(* name; the cache key is that name with the first provider of the tier.         *)
(* Costs are whole numbers.  A call takes so much less than an hour (timeout_s)   *)
(* that time passes only when no provider is at work.                            *)
(*                                                                          *)
(* pc of a request: lookup, try (the next provider), call, put (the answer is      *)
(* there, the cache is being written), and answered, blocked, failed, cancelled.   *)
(***************************************************************************)
EXTENDS Naturals, Sequences, FiniteSets, SequencesExt, FiniteSetsExt

CONSTANTS
    Requests,   \* numbered in the order in which they come
    Prompts,
    Tiers,      \* records of providers (in order), bypass_budget, attempts, and whether
                \* its callers use the cache
    Providers,
    Estimate,   \* per provider, the estimated cost of a call
    Worlds,     \* records: the active providers, and per provider the costs a call
                \* may have; the tiers that are asked; bounds on requests, hours,
                \* restarts and put failures
    HourlyUsd,  \* hourly_usd
    Hour        \* the length of the window

ASSUME TiersAssumption ==
    \A tier \in Tiers : /\ tier.providers \in Seq(Providers) /\ tier.providers # <<>>
                        /\ tier.bypass \in BOOLEAN /\ tier.attempts \in {1, 2}
                        /\ tier.cached \in BOOLEAN
ASSUME RequestsAssumption == Requests \subseteq Nat
ASSUME CostsAssumption ==
    /\ Estimate \in [Providers -> Nat] /\ HourlyUsd \in Nat /\ Hour \in Nat
    /\ \A w \in Worlds : /\ w.active \subseteq Providers /\ w.tiers \subseteq Tiers
                       /\ w.costs \in [Providers -> SUBSET Nat]
                       /\ {w.requests, w.hours, w.restarts, w.putFailures} \subseteq Nat

VARIABLES
    requests,
    events,   \* BudgetTracker._events
    cache,    \* llm_log.llm_cache, and who answered
    rows,     \* llm_log.llm_requests that carry a cost, being written or written
    now,
    booked,   \* auxiliary: what answers were exchanged for their reservations, and when
    kept,     \* auxiliary: reservations of calls that failed
    billed,   \* auxiliary: what providers have charged for calls with a reservation, and when
    unlogged, \* auxiliary: bills that get no row with a cost
    escaped,  \* auxiliary: bills that the budget does not count
    restarts, putFailures,
    world

budgetVars == <<events, booked, kept>>
billVars == <<billed, unlogged, escaped>>
boundVars == <<restarts, putFailures, world>>
vars == <<requests, budgetVars, cache, rows, now, billVars, boundVars>>

Tier == CHOOSE tier \in Tiers : TRUE

NoRequest == [pc |-> "idle", tier |-> Tier, prompt |-> CHOOSE k \in Prompts : TRUE, i |-> 1,
              attempt |-> 1, reserved |-> FALSE, cost |-> 0]

EndPcs == {"answered", "blocked", "failed", "cancelled"}

Event == [at : Nat, cost : Nat]

CacheKeys == Prompts \X Providers

TypeOK ==
    /\ \A r \in Requests :
          LET q == requests[r] IN
          /\ q.pc \in {"idle", "lookup", "try", "call", "put"} \cup EndPcs
          /\ q.tier \in Tiers /\ q.prompt \in Prompts
          /\ q.i \in 1 .. Len(q.tier.providers) + 1 /\ q.attempt \in 1 .. q.tier.attempts
          /\ q.reserved => q.pc = "call" /\ ~q.tier.bypass
    /\ events \in Seq(Event)
    /\ cache \subseteq CacheKeys \X Providers
    /\ \A row \in rows : row.at \in 0 .. now /\ row.cost \in Nat /\ row.written \in BOOLEAN
    /\ now \in 0 .. world.hours * Hour
    /\ unlogged \subseteq billed /\ escaped \subseteq billed
    /\ world \in Worlds

Init ==
    /\ requests = [r \in Requests |-> NoRequest]
    /\ events = <<>> /\ cache = {} /\ rows = {} /\ now = 0
    /\ booked = {} /\ kept = {} /\ billed = {} /\ unlogged = {} /\ escaped = {}
    /\ restarts = 0 /\ putFailures = 0
    /\ world \in Worlds

Goto(r, pc) == requests' = [requests EXCEPT ![r].pc = pc]

First(q) == q.tier.providers[1]
Current(q) == q.tier.providers[q.i]
Key(q) == <<q.prompt, First(q)>>

-----------------------------------------------------------------------------
(* BudgetTracker *)

Expired(e) == e.at + Hour < now

\* _prune stops at the first event that is young enough.
Pruned(es) ==
    IF \A i \in DOMAIN es : Expired(es[i]) THEN <<>>
    ELSE LET first == CHOOSE i \in DOMAIN es :
                          ~Expired(es[i]) /\ \A j \in 1 .. i - 1 : Expired(es[j])
         IN SubSeq(es, first, Len(es))

SumOfEvents(es) == SumFunction([i \in DOMAIN es |-> es[i].cost])

SpendOf(es) == SumOfEvents(Pruned(es))

Fits(estimate) == SpendOf(events) + estimate <= HourlyUsd

\* The most recent event of that amount goes, and the cost comes.
Replaced(es, estimate, cost) ==
    LET same == {i \in DOMAIN es : es[i].cost = estimate} IN
    Append(IF same = {} THEN es ELSE RemoveAt(es, Max(same)), [at |-> now, cost |-> cost])

-----------------------------------------------------------------------------
(* generate *)

\* A tier whose first provider is not active cannot name its cache key.
Asked(r, tier, prompt) ==
    /\ LET first == tier.providers[1] IN
       requests' = [requests EXCEPT ![r] =
           [NoRequest EXCEPT !.pc = IF first \in world.active THEN "lookup" ELSE "failed",
                             !.tier = tier, !.prompt = prompt]]
    /\ UNCHANGED <<budgetVars, cache, rows, now, billVars, boundVars>>

\* The next of the numbers that are left.
IsFree(r, numbers) == r \in numbers /\ \A q \in numbers : q <= r => (requests[q].pc = "idle") = (q = r)

Ask(r) ==
    /\ IsFree(r, {q \in Requests : q <= world.requests})
    /\ \E tier \in world.tiers, prompt \in Prompts : Asked(r, tier, prompt)

\* The cache in the database: get and put (an upsert).  Its entries are good for longer
\* than the hours that pass here.
Hit(q) == q.tier.cached /\ \E p \in Providers : <<Key(q), p>> \in cache

Put(q) == {c \in cache : c[1] # Key(q)} \cup {<<Key(q), Current(q)>>}

\* The row of a hit has no cost.
Lookup(r) ==
    /\ requests[r].pc = "lookup"
    /\ Goto(r, IF Hit(requests[r]) THEN "answered" ELSE "try")
    /\ UNCHANGED <<budgetVars, cache, rows, now, billVars, boundVars>>

Exhausted(r) ==
    /\ requests[r].pc = "try" /\ requests[r].i > Len(requests[r].tier.providers)
    /\ Goto(r, "failed")
    /\ UNCHANGED <<budgetVars, cache, rows, now, billVars, boundVars>>

NextProvider(r) ==
    requests' = [requests EXCEPT ![r].pc = "try", ![r].i = @ + 1, ![r].attempt = 1,
                                 ![r].reserved = FALSE]

IsNext(r) == requests[r].pc = "try" /\ requests[r].i <= Len(requests[r].tier.providers)

SkipInactive(r) ==
    /\ IsNext(r) /\ Current(requests[r]) \notin world.active
    /\ NextProvider(r)
    /\ UNCHANGED <<budgetVars, cache, rows, now, billVars, boundVars>>

Charged(r) ==
    /\ IsNext(r) /\ Current(requests[r]) \in world.active
    /\ ~requests[r].tier.bypass /\ Estimate[Current(requests[r])] > 0

CallFree(r) ==
    /\ IsNext(r) /\ Current(requests[r]) \in world.active /\ ~Charged(r)
    /\ Goto(r, "call")
    /\ UNCHANGED <<budgetVars, cache, rows, now, billVars, boundVars>>

\* Mutant: the check makes no reservation.
ReserveChecked(r) ==
    /\ Charged(r) /\ Fits(Estimate[Current(requests[r])])
    /\ events' = Pruned(events)
    /\ requests' = [requests EXCEPT ![r].pc = "call", ![r].reserved = TRUE]
    /\ UNCHANGED <<booked, kept, cache, rows, now, billVars, boundVars>>

\* check_and_reserve
Reserve(r) ==
    /\ Charged(r) /\ Fits(Estimate[Current(requests[r])])
    /\ events' = Append(Pruned(events), [at |-> now, cost |-> Estimate[Current(requests[r])]])
    /\ requests' = [requests EXCEPT ![r].pc = "call", ![r].reserved = TRUE]
    /\ UNCHANGED <<booked, kept, cache, rows, now, billVars, boundVars>>

\* BudgetExceededError: the providers after this one are not asked.
Blocked(r) ==
    /\ Charged(r) /\ ~Fits(Estimate[Current(requests[r])])
    /\ Goto(r, "blocked")
    /\ UNCHANGED <<budgetVars, cache, rows, now, billVars, boundVars>>

\* The provider charges a call with a reservation.
Bill(r, cost) ==
    [request |-> r, i |-> requests[r].i, attempt |-> requests[r].attempt, at |-> now, cost |-> cost]

BillsOf(r, cost) == IF requests[r].reserved /\ cost > 0 THEN {Bill(r, cost)} ELSE {}

\* Mutant: the reservation stays.
RespondAdds(r) ==
    /\ requests[r].pc = "call"
    /\ \E cost \in world.costs[Current(requests[r])] :
          /\ requests' = [requests EXCEPT ![r].pc = "put", ![r].reserved = FALSE, ![r].cost = cost]
          /\ billed' = billed \cup BillsOf(r, cost)
          /\ IF requests[r].reserved
             THEN /\ events' = Append(events, [at |-> now, cost |-> cost])
                  /\ booked' = booked \cup {[request |-> r, i |-> requests[r].i, at |-> now, cost |-> cost]}
             ELSE UNCHANGED <<events, booked>>
    /\ UNCHANGED <<kept, cache, rows, now, unlogged, escaped, boundVars>>

\* "response.cost_usd or estimate"
Amount(r, cost) == IF cost = 0 THEN Estimate[Current(requests[r])] ELSE cost

\* The provider answers: replace_reservation (its lock is never held across an await).
Respond(r) ==
    /\ requests[r].pc = "call"
    /\ \E cost \in world.costs[Current(requests[r])] :
          /\ requests' = [requests EXCEPT ![r].pc = "put", ![r].reserved = FALSE, ![r].cost = cost]
          /\ billed' = billed \cup BillsOf(r, cost)
          /\ IF requests[r].reserved
             THEN /\ events' = Replaced(events, Estimate[Current(requests[r])], Amount(r, cost))
                  /\ booked' = booked \cup {[request |-> r, i |-> requests[r].i, at |-> now,
                                             cost |-> Amount(r, cost)]}
             ELSE UNCHANGED <<events, booked>>
    /\ UNCHANGED <<kept, cache, rows, now, unlogged, escaped, boundVars>>

\* The cache is written, the row's task is created.
PutAndLog(r) ==
    /\ requests[r].pc = "put"
    /\ cache' = IF requests[r].tier.cached THEN Put(requests[r]) ELSE cache
    /\ rows' = IF requests[r].cost = 0 THEN rows
               ELSE rows \cup {[request |-> r, i |-> requests[r].i, at |-> now,
                                cost |-> requests[r].cost, written |-> FALSE]}
    /\ Goto(r, "answered")
    /\ UNCHANGED <<budgetVars, now, billVars, boundVars>>

\* The answer that is being put gets no row with a cost.
Unlogged(r) ==
    unlogged' = unlogged \cup {x \in billed : x.request = r /\ x.i = requests[r].i}

\* An error of the cache is taken for one of the provider: the answer is dropped, and
\* its row has no cost.
PutFails(r) ==
    /\ requests[r].pc = "put" /\ requests[r].tier.cached /\ putFailures < world.putFailures
    /\ putFailures' = putFailures + 1
    /\ Unlogged(r)
    /\ NextProvider(r)
    /\ UNCHANGED <<budgetVars, cache, rows, now, billed, escaped, restarts, world>>

\* The reservation of a call that fails is kept.
Keep(r) ==
    kept' = IF requests[r].reserved
            THEN kept \cup {[request |-> r, i |-> requests[r].i, at |-> now,
                             cost |-> Estimate[Current(requests[r])]]}
            ELSE kept

\* A call without a result may be charged nevertheless: an answer of the wrong shape is,
\* one that is not waited for may be.
Wasted(r) ==
    \E cost \in world.costs[Current(requests[r])] \cup {0} :
       /\ billed' = billed \cup BillsOf(r, cost)
       /\ unlogged' = unlogged \cup BillsOf(r, cost)

\* Mutant: the attempts start again after the last one.
SchemaRetryForever(r) ==
    /\ requests[r].pc = "call" /\ requests[r].tier.attempts = 2
    /\ requests' = [requests EXCEPT ![r].attempt = 3 - @]
    /\ UNCHANGED <<budgetVars, cache, rows, now, billVars, boundVars>>

\* SchemaViolation, which providers raise of an answer that is charged: once more with a
\* stricter prompt, if the tier retries, on the same reservation ...
SchemaRetry(r) ==
    /\ requests[r].pc = "call" /\ requests[r].attempt < requests[r].tier.attempts
    /\ requests' = [requests EXCEPT ![r].attempt = @ + 1]
    /\ \E cost \in world.costs[Current(requests[r])] :
          /\ billed' = billed \cup BillsOf(r, cost)
          /\ escaped' = escaped \cup BillsOf(r, cost)
    /\ UNCHANGED <<budgetVars, cache, rows, now, unlogged, boundVars>>

\* ... else, and for all other errors, the next provider.
ProviderFails(r) ==
    /\ requests[r].pc = "call"
    /\ NextProvider(r) /\ Keep(r) /\ Wasted(r)
    /\ UNCHANGED <<events, booked, cache, rows, now, escaped, boundVars>>

\* The task is cancelled while it waits for the provider ...
Cancelled(r) ==
    /\ requests[r].pc = "call"
    /\ requests' = [requests EXCEPT ![r].pc = "cancelled", ![r].reserved = FALSE]
    /\ Keep(r) /\ Wasted(r)
    /\ UNCHANGED <<events, booked, cache, rows, now, escaped, boundVars>>

\* ... or for the cache, with an answer that no row will tell of; the statement may have
\* been committed.
PutCancelled(r) ==
    /\ requests[r].pc = "put" /\ requests[r].tier.cached
    /\ Goto(r, "cancelled")
    /\ cache' \in {cache, Put(requests[r])}
    /\ Unlogged(r)
    /\ UNCHANGED <<budgetVars, rows, now, billed, escaped, boundVars>>

LogWritten ==
    /\ \E row \in rows : ~row.written /\ rows' = (rows \ {row}) \cup {[row EXCEPT !.written = TRUE]}
    /\ UNCHANGED <<requests, budgetVars, cache, now, billVars, boundVars>>

-----------------------------------------------------------------------------
(* Time and restarts *)

Tick ==
    /\ now < world.hours * Hour
    /\ \A r \in Requests : requests[r].pc \notin {"call", "put"}
    /\ \A row \in rows : row.written
    /\ now' = now + 1
    /\ UNCHANGED <<requests, budgetVars, cache, rows, billVars, boundVars>>

\* The rows that prime reads.
PrimeRows(s) == {row \in s : row.written /\ row.at + Hour >= now}

\* Bills whose row is not written when the process dies.
Unwritten ==
    {x \in billed : \/ requests[x.request].pc = "put" /\ requests[x.request].i = x.i
                    \/ \E row \in rows : ~row.written /\ row.request = x.request /\ row.i = x.i}

IsRowOf(row, x) == row.request = x.request /\ row.i = x.i /\ row.at = x.at /\ row.cost = x.cost

\* The process starts again: its requests are gone, and prime fills the deque from the
\* log, in the order in which the database returns the rows.  (What a call at work will
\* cost then escapes as well; it is not counted.)
Restart ==
    /\ restarts < world.restarts /\ restarts' = restarts + 1
    /\ requests' = [r \in Requests |-> IF requests[r].pc \in EndPcs \cup {"idle"} THEN requests[r]
                                       ELSE [NoRequest EXCEPT !.pc = "cancelled"]]
    /\ \E order \in SetToSeqs(PrimeRows(rows)) :
          events' = [i \in DOMAIN order |-> [at |-> order[i].at, cost |-> order[i].cost]]
    /\ rows' = {row \in rows : row.written}
    /\ kept' = {}
    /\ booked' = {x \in booked : \E row \in rows : row.written /\ IsRowOf(row, x)}
    /\ escaped' = escaped \cup unlogged \cup Unwritten
    /\ UNCHANGED <<billed, unlogged, cache, now, putFailures, world>>

-----------------------------------------------------------------------------
RequestStep(r) ==
    \/ Lookup(r) \/ Exhausted(r) \/ SkipInactive(r) \/ CallFree(r) \/ Reserve(r) \/ Blocked(r)
    \/ Respond(r) \/ PutAndLog(r) \/ PutFails(r) \/ SchemaRetry(r) \/ ProviderFails(r)
    \/ Cancelled(r) \/ PutCancelled(r)

Next ==
    \/ \E r \in Requests : Ask(r) \/ RequestStep(r)
    \/ LogWritten \/ Tick \/ Restart

Spec == Init /\ [][Next]_vars

\* The event loop runs, and providers answer or time out: some request goes on as long
\* as one can.  (Which one need not be fair: each has finitely many steps.)
Fairness == WF_vars(\E r \in Requests : RequestStep(r))

FairSpec == Spec /\ Fairness

-----------------------------------------------------------------------------
(* Properties *)

InWindow(s) == {x \in s : ~Expired(x)}
TotalCost(s) == SumFunction([x \in InWindow(s) |-> x.cost])

InFlight == {r \in Requests : requests[r].reserved}
Reservations == SumFunction([r \in InFlight |-> Estimate[Current(requests[r])]])

\* However requests overlap, and whichever event replace_reservation picks, the budget
\* counts each call with a reservation once: by its estimate until it answers, then by what
\* its last answer cost (an answer without a cost by its estimate), and by its estimate if
\* it fails.  (After a restart the deque may be out of order, and _prune keeps more than it
\* should.)
LedgerBalanced ==
    restarts = 0 => SpendOf(events) = Reservations + TotalCost(booked) + TotalCost(kept)

Cheap == \A p \in Providers : \A c \in world.costs[p] : c <= Estimate[p]

\* If no call costs more than its estimate, providers have charged no more than the budget
\* in the last hour, but for what escapes it: an answer of the wrong shape that is asked
\* for again, and after a restart what no row tells of.
SpendCapped == Cheap => TotalCost(billed \ escaped) <= HourlyUsd

\* "Sliding 1-hour USD budget. Protects against runaway hosted spend."
HourlySpendCapped == Cheap => TotalCost(billed) <= HourlyUsd

\* Every request is answered, refused, or fails: there are finitely many, so that in the
\* end none is at work.
RequestEnds == <>[](\A r \in Requests : requests[r].pc \in {"idle"} \cup EndPcs)

\* "skip providers whose creds/URL are missing so the router falls straight through to
\* the next entry in the tier": a request fails only after its tier was gone through.
FallsThrough ==
    \A r \in Requests :
        requests[r].pc = "failed" => requests[r].i > Len(requests[r].tier.providers)

=============================================================================
