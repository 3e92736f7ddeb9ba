------------------------- MODULE IceStormSubscriber -------------------------
(***************************************************************************)
(* One IceStorm subscriber (cpp/src/IceStorm/Subscriber.cpp): the queue    *)
(* that decouples the publishers of a topic from one remote subscriber.    *)
(* Publishers call queue(), AMI callbacks call response(), sent() and      *)
(* error(), the batch-flusher thread calls doFlush(), the topic calls      *)
(* reap() and resetIfReaped(), and the stopping service calls shutdown()   *)
(* and waits for the queue to drain.  Every method runs under _lock, so a  *)
(* method is one step; doFlush() releases the lock in the middle and is    *)
(* two.  Events are numbered in the order in which queue() accepted them.  *)
(***************************************************************************)
EXTENDS Integers, Sequences, FiniteSets

CONSTANTS
    Records,       \* the kinds of subscriber: [kind, maxOutstanding, retryCount, cost]
    MaxEvents,     \* bound of the model: events the publishers queue
    MaxBurst,      \* bound of the model: events of one queue() call
    MaxFinders     \* bound of the model: publishers between queue() and reap()

Kinds == {"twoway", "oneway", "batch", "link"}

\* Subscriber::create builds links with retryCount -1 and one outstanding
\* call, batches with one, and demands retryCount 0 of oneways and batches.
ASSUME RecordsAssumption ==
    \A r \in Records :
        /\ r \in [kind : Kinds, maxOutstanding : Nat \ {0}, retryCount : Nat \cup {-1},
                  cost : Nat]
        /\ r.kind \in {"oneway", "batch"} => r.retryCount = 0
        /\ r.kind \in {"link", "batch"} => r.maxOutstanding = 1

ASSUME BoundsAssumption ==
    MaxEvents \in Nat /\ MaxBurst \in Nat \ {0} /\ MaxFinders \in Nat \ {0}

VARIABLES
    rec,           \* the record this subscriber was created from
    state,         \* _state
    outstanding,   \* _outstanding
    events,        \* _events: event numbers, oldest first
    currentRetry,  \* _currentRetry
    discarding,    \* now < _next: still inside the discard interval
    waiter,        \* the thread in shutdown(): "none", "waiting", "notified", "done"
    calls,         \* AMI calls whose callback has not run: sequences of events
    flushing,      \* the events doFlush() took out of _events, before it sends them
    timer,         \* a FlushTimerTask is scheduled with the batch flusher
    finders,       \* publishers whose queue() returned false and who will call reap()
    request,       \* reap_async to the master: "none", "asked", "failed", "removed"
    published,     \* history: how many events queue() accepted
    delivered,     \* history: events the subscriber (a oneway: the transport) took
    lost,          \* history: events given up, because of an error or the link's cost
    assertFailed   \* an assert() of the code has failed: the program stops

queueVars == <<state, outstanding, events, currentRetry, discarding>>
sendVars  == <<calls, flushing, timer>>
history   == <<published, delivered, lost>>
reapVars  == <<finders, request>>
vars == <<rec, queueVars, waiter, sendVars, reapVars, history, assertFailed>>

States == {"Online", "Offline", "Error", "Reaped"}
Dead   == {"Error", "Reaped"}          \* _state >= SubscriberStateError
Shutdown == waiter # "none"            \* _shutdown
ToSet(s) == {s[i] : i \in DOMAIN s}
Suffix(s, n) == SubSeq(s, n + 1, Len(s))
Smaller(a, b) == IF a <= b THEN a ELSE b

Init ==
    /\ rec \in Records
    /\ state = "Online" /\ outstanding = 0 /\ events = <<>>
    /\ currentRetry = 0 /\ discarding = FALSE
    /\ waiter = "none"
    /\ calls = {} /\ flushing = <<>> /\ timer = FALSE
    /\ finders = 0 /\ request = "none"
    /\ published = 0 /\ delivered = {} /\ lost = {}
    /\ assertFailed = FALSE

\* The lock's notify(): the thread in shutdown(), if it waits, may look again.
Notify(when) ==
    waiter' = IF when /\ waiter = "waiting" THEN "notified" ELSE waiter

-----------------------------------------------------------------------------
(***************************************************************************)
(* flush(): each takes the counter, the queue and the calls as they are    *)
(* when it is called ("taken" are the events delivered so far), and sets   *)
(* what it leaves behind.  The catch branches are not modelled:            *)
(* begin_ice_invoke reports every failure through the callback, except     *)
(* that the communicator was destroyed, and by then nothing is left to     *)
(* flush (ShutdownDrains).                                                 *)
(***************************************************************************)

\* Not Online, or nothing to send.
FlushNothing(out, evs, pending, taken) ==
    /\ state' # "Online" \/ evs = <<>>
    /\ outstanding' = out /\ events' = evs /\ calls' = pending /\ delivered' = taken
    /\ UNCHANGED <<waiter, timer, lost>>

\* Mutants: the events sent stay in the queue, or the newest go first.
FlushTwowayKeeps(out, evs, pending, taken) ==
    LET n == Smaller(rec.maxOutstanding - out, Len(evs)) IN
    /\ outstanding' = out + n
    /\ events' = evs
    /\ calls' = pending \cup {<<evs[i]>> : i \in 1..n}
    /\ delivered' = taken
    /\ UNCHANGED <<waiter, timer, lost>>
FlushTwowayNewest(out, evs, pending, taken) ==
    LET n == Smaller(rec.maxOutstanding - out, Len(evs)) IN
    /\ outstanding' = out + n
    /\ events' = SubSeq(evs, 1, Len(evs) - n)
    /\ calls' = pending \cup {<<evs[i]>> : i \in (Len(evs) - n + 1)..Len(evs)}
    /\ delivered' = taken
    /\ UNCHANGED <<waiter, timer, lost>>

\* SubscriberTwoway::flush: one AMI call for each event, up to the maximum.
FlushTwoway(out, evs, pending, taken) ==
    LET n == Smaller(rec.maxOutstanding - out, Len(evs)) IN
    /\ outstanding' = out + n
    /\ events' = Suffix(evs, n)
    /\ calls' = pending \cup {<<evs[i]>> : i \in 1..n}
    /\ delivered' = taken
    /\ UNCHANGED <<waiter, timer, lost>>

\* SubscriberOneway::flush: an event that ice_invoke_async sends at once is
\* not outstanding, one that has to wait for the transport is (queued).
FlushOneway(out, evs, pending, taken) ==
    \E n \in 0..Len(evs) : \E queued \in SUBSET (1..n) :
        LET q == out + Cardinality(queued) IN
        /\ q <= rec.maxOutstanding
        /\ n = Len(evs) \/ q = rec.maxOutstanding
        /\ q = rec.maxOutstanding => n = 0 \/ n \in queued
        /\ outstanding' = q
        /\ events' = Suffix(evs, n)
        /\ calls' = pending \cup {<<evs[i]>> : i \in queued}
        /\ delivered' = taken \cup {evs[i] : i \in (1..n) \ queued}
        /\ Notify(n = Len(evs) /\ q = 0)
        /\ UNCHANGED <<timer, lost>>

\* Mutant: the scheduled flush is not counted as outstanding.
FlushBatchUncounted(out, evs, pending, taken) ==
    /\ timer' = (timer \/ out = 0)
    /\ outstanding' = out /\ events' = evs /\ calls' = pending /\ delivered' = taken
    /\ UNCHANGED <<waiter, lost>>

\* SubscriberBatch::flush: make sure that the flusher will run doFlush().
FlushBatch(out, evs, pending, taken) ==
    /\ outstanding' = IF out = 0 THEN 1 ELSE out
    /\ timer' = (timer \/ out = 0)
    /\ events' = evs /\ calls' = pending /\ delivered' = taken
    /\ UNCHANGED <<waiter, lost>>

\* SubscriberLink::flush: unless a forward() is outstanding, everything in
\* one call, without the events whose cost is above that of the link (any
\* event may be); a link of cost 0 takes every event.  "at" are the places
\* of the events that are kept.
FlushLink(out, evs, pending, taken) ==
    /\ IF out > 0
       THEN outstanding' = out /\ events' = evs /\ calls' = pending /\ lost' = lost
       ELSE \E k \in 0..Len(evs) : \E at \in [1..k -> 1..Len(evs)] :
              LET kept == [i \in 1..k |-> evs[at[i]]] IN
              /\ \A i, j \in 1..k : i < j => at[i] < at[j]
              /\ rec.cost = 0 => k = Len(evs)
              /\ events' = <<>>
              /\ outstanding' = IF k = 0 THEN 0 ELSE 1
              /\ calls' = IF k = 0 THEN pending ELSE pending \cup {kept}
              /\ lost' = lost \cup (ToSet(evs) \ ToSet(kept))
    /\ delivered' = taken
    /\ UNCHANGED <<waiter, timer>>

Flush(out, evs, pending, taken) ==
    \/ FlushNothing(out, evs, pending, taken)
    \/ /\ state' = "Online" /\ evs # <<>>
       /\ \/ rec.kind = "twoway" /\ FlushTwoway(out, evs, pending, taken)
          \/ rec.kind = "oneway" /\ FlushOneway(out, evs, pending, taken)
          \/ rec.kind = "batch"  /\ FlushBatch(out, evs, pending, taken)
          \/ rec.kind = "link"   /\ FlushLink(out, evs, pending, taken)

-----------------------------------------------------------------------------
(***************************************************************************)
(* queue(), from TopicImpl::publish or from the subscriber's own publisher *)
(***************************************************************************)

\* Accepted: Online, or Offline with the discard interval over, which makes
\* the subscriber Online again.  The adapters of the service are destroyed
\* before shutdown() is called, so no queue() comes after that.
Queue(n) ==
    /\ ~Shutdown
    /\ published + n <= MaxEvents
    /\ state = "Online" \/ (state = "Offline" /\ ~discarding)
    /\ state' = "Online"
    /\ published' = published + n
    /\ Flush(outstanding, events \o [i \in 1..n |-> published + i], calls, delivered)
    /\ UNCHANGED <<rec, currentRetry, discarding, flushing, reapVars, assertFailed>>

\* Mutant: queue() also returns false while the subscriber is Offline.
QueueRefused ==
    /\ ~Shutdown
    /\ state \in {"Error", "Offline"} /\ finders < MaxFinders
    /\ finders' = finders + 1
    /\ UNCHANGED <<rec, queueVars, waiter, sendVars, request, history, assertFailed>>

\* Refused: queue() returns false, and the publisher goes on to call reap().
QueueErrored ==
    /\ ~Shutdown
    /\ state = "Error" /\ finders < MaxFinders
    /\ finders' = finders + 1
    /\ UNCHANGED <<rec, queueVars, waiter, sendVars, request, history, assertFailed>>

\* The monotonic clock passes _next.
DiscardIntervalOver ==
    /\ state = "Offline" /\ discarding
    /\ discarding' = FALSE
    /\ UNCHANGED <<rec, state, outstanding, events, currentRetry, waiter, sendVars,
                   reapVars, history, assertFailed>>

-----------------------------------------------------------------------------
(***************************************************************************)
(* error() of a failed call.  "gone" are the events of the call, "hard" an *)
(* ObjectNotExistException or NotRegisteredException.                      *)
(***************************************************************************)

RetriesLeft == rec.retryCount = -1 \/ currentRetry < rec.retryCount
AwaitsRetry == state = "Offline" /\ discarding

\* A soft error while the subscriber already waits to retry.
ErrorIgnored(hard) ==
    /\ ~hard /\ AwaitsRetry
    /\ UNCHANGED <<state, events, currentRetry, discarding, assertFailed>>

\* Mutant: the queue is kept for the time after the discard interval.
ErrorRetryKeepsEvents(hard) ==
    /\ ~hard /\ ~AwaitsRetry /\ RetriesLeft
    /\ IF state \in Dead
       THEN /\ assertFailed' = TRUE
            /\ UNCHANGED <<state, events, currentRetry, discarding>>
       ELSE /\ state' = "Offline" /\ discarding' = TRUE
            /\ currentRetry' = currentRetry + 1
            /\ UNCHANGED <<events, assertFailed>>

\* A soft error within the retry limit; the code asserts _state < Error.
ErrorRetry(hard) ==
    /\ ~hard /\ ~AwaitsRetry /\ RetriesLeft
    /\ IF state \in Dead
       THEN /\ assertFailed' = TRUE
            /\ UNCHANGED <<state, events, currentRetry, discarding>>
       ELSE /\ state' = "Offline" /\ discarding' = TRUE
            /\ currentRetry' = currentRetry + 1
            /\ events' = <<>>
            /\ UNCHANGED assertFailed

\* Any other error ends the subscriber, unless it has ended already.
ErrorOut(hard) ==
    /\ hard \/ (~AwaitsRetry /\ ~RetriesLeft)
    /\ IF state \in Dead
       THEN UNCHANGED <<state, events>>
       ELSE state' = "Error" /\ events' = <<>>
    /\ UNCHANGED <<currentRetry, discarding, assertFailed>>

\* Mutant: error() does not notify.
ErrorSilent(hard, gone) ==
    /\ ErrorIgnored(hard) \/ ErrorRetry(hard) \/ ErrorOut(hard)
    /\ lost' = lost \cup ToSet(gone) \cup (ToSet(events) \ ToSet(events'))
    /\ UNCHANGED waiter
    /\ UNCHANGED <<rec, timer, reapVars, published, delivered>>

\* error(), but for the counting; it returns at once when it ignores.
Error(hard, gone) ==
    /\ \/ ErrorIgnored(hard) /\ UNCHANGED waiter
       \/ (ErrorRetry(hard) \/ ErrorOut(hard)) /\ Notify(events' = <<>>)
    /\ lost' = lost \cup ToSet(gone) \cup (ToSet(events) \ ToSet(events'))
    /\ UNCHANGED <<rec, timer, reapVars, published, delivered>>

\* Mutant: a failed call stays outstanding.
CallFailedUncounted(c, hard) ==
    /\ rec.kind # "batch"
    /\ calls' = calls \ {c}
    /\ Error(hard, c)
    /\ UNCHANGED <<outstanding, flushing>>

\* error(true): the callback of an AMI invocation; it counts one down.
CallFailed(c, hard) ==
    /\ rec.kind # "batch"
    /\ calls' = calls \ {c}
    /\ outstanding' = outstanding - 1
    /\ Error(hard, c)
    /\ UNCHANGED flushing

-----------------------------------------------------------------------------
(***************************************************************************)
(* The callbacks of calls that went well                                   *)
(***************************************************************************)

\* response(), for twoways and links.
Response(c) ==
    /\ rec.kind \in {"twoway", "link"}
    /\ UNCHANGED <<rec, state, discarding, flushing, reapVars, published, assertFailed>>
    /\ currentRetry' = 0
    /\ IF events = <<>> /\ outstanding = 1 /\ Shutdown
       THEN /\ outstanding' = 0 /\ calls' = calls \ {c}
            /\ delivered' = delivered \cup ToSet(c)
            /\ Notify(TRUE)
            /\ UNCHANGED <<events, timer, lost>>
       ELSE Flush(outstanding - 1, events, calls \ {c}, delivered \cup ToSet(c))

\* Mutant: the queue is not looked at again.
SentNoFlush(c) ==
    /\ rec.kind = "oneway"
    /\ outstanding' = outstanding - 1 /\ calls' = calls \ {c}
    /\ delivered' = delivered \cup ToSet(c)
    /\ Notify(outstanding = 1)
    /\ UNCHANGED <<rec, state, currentRetry, discarding, flushing, reapVars, published,
                   assertFailed, events, timer, lost>>

\* SubscriberOneway::sent(): flush again only when nothing is outstanding.
Sent(c) ==
    /\ rec.kind = "oneway"
    /\ UNCHANGED <<rec, state, currentRetry, discarding, flushing, reapVars, published,
                   assertFailed>>
    /\ IF outstanding = 1 /\ events # <<>>
       THEN Flush(0, events, calls \ {c}, delivered \cup ToSet(c))
       ELSE /\ outstanding' = outstanding - 1 /\ calls' = calls \ {c}
            /\ delivered' = delivered \cup ToSet(c)
            /\ Notify(outstanding = 1)
            /\ UNCHANGED <<events, timer, lost>>

-----------------------------------------------------------------------------
(***************************************************************************)
(* SubscriberBatch: the batch-flusher thread                               *)
(***************************************************************************)

\* doFlush() up to the end of its synchronized block, asserts included.
DoFlush ==
    /\ timer /\ flushing = <<>>
    /\ timer' = FALSE
    /\ outstanding' = outstanding - 1
    /\ Notify(TRUE)
    /\ flushing' = IF state = "Online" THEN events ELSE <<>>
    /\ events' = IF state = "Online" THEN <<>> ELSE events
    /\ assertFailed' = (outstanding # 1 \/ (state = "Online" /\ events = <<>>))
    /\ UNCHANGED <<rec, state, currentRetry, discarding, calls, reapVars, history>>

\* The rest of doFlush(), without the lock: the events are batched and the
\* batch is flushed asynchronously.
BatchFlush ==
    /\ flushing # <<>>
    /\ calls' = calls \cup {flushing}
    /\ flushing' = <<>>
    /\ UNCHANGED <<rec, queueVars, waiter, timer, reapVars, history, assertFailed>>

\* A batch invocation threw: error(false).
BatchThrew(hard) ==
    /\ flushing # <<>>
    /\ flushing' = <<>>
    /\ Error(hard, flushing)
    /\ UNCHANGED <<outstanding, calls>>

\* FlushBatchI::ice_exception: error(false), long after doFlush() returned.
BatchFailed(c, hard) ==
    /\ rec.kind = "batch"
    /\ calls' = calls \ {c}
    /\ Error(hard, c)
    /\ UNCHANGED <<outstanding, flushing>>

\* A batch that was sent has no callback.
BatchSent(c) ==
    /\ rec.kind = "batch"
    /\ calls' = calls \ {c}
    /\ delivered' = delivered \cup ToSet(c)
    /\ UNCHANGED <<rec, queueVars, waiter, flushing, timer, reapVars, published, lost,
                   assertFailed>>

-----------------------------------------------------------------------------
(***************************************************************************)
(* The end of a subscriber, and the end of the service                     *)
(***************************************************************************)

\* reap(): the publisher that moves the subscriber to Reaped reports it to
\* the master with reap_async; the others have nothing to do.
Reap ==
    /\ finders > 0
    /\ finders' = finders - 1
    /\ assertFailed' = (state \notin Dead)
    /\ state' = IF state = "Error" THEN "Reaped" ELSE state
    /\ request' = IF state = "Error" THEN "asked" ELSE request
    /\ UNCHANGED <<rec, outstanding, events, currentRetry, discarding, waiter, sendVars,
                   history>>

\* The master removed the subscriber, here and in every replica.
ReapDone ==
    /\ request = "asked"
    /\ request' = "removed"
    /\ UNCHANGED <<rec, queueVars, waiter, sendVars, finders, history, assertFailed>>

\* TopicInternal_reapI::ice_exception: the node recovers.
ReapFailed ==
    /\ request = "asked"
    /\ request' = "failed"
    /\ UNCHANGED <<rec, queueVars, waiter, sendVars, finders, history, assertFailed>>

\* Mutant: the reaped subscriber is not made errored again.
UpdateKeepsReaped ==
    /\ request \in {"asked", "failed"}
    /\ request' = IF request = "failed" THEN "none" ELSE request
    /\ UNCHANGED <<rec, queueVars, waiter, sendVars, finders, history, assertFailed>>

\* TopicImpl::update, when the node has joined a group again: the master
\* still has the subscriber, and resetIfReaped() makes it errored again.
Update ==
    /\ request \in {"asked", "failed"}
    /\ state' = IF state = "Reaped" THEN "Error" ELSE state
    /\ request' = IF request = "failed" THEN "none" ELSE request
    /\ UNCHANGED <<rec, outstanding, events, currentRetry, discarding, waiter, sendVars,
                   finders, history, assertFailed>>

\* Mutant: shutdown() takes the last outstanding call as done.
MustWaitOffByOne == outstanding > 1 /\ events # <<>>

MustWait == outstanding > 0 /\ events # <<>>

ShutdownEnter ==
    /\ waiter = "none" /\ finders = 0
    /\ waiter' = IF MustWait THEN "waiting" ELSE "done"
    /\ UNCHANGED <<rec, queueVars, sendVars, reapVars, history, assertFailed>>

ShutdownWake ==
    /\ waiter = "notified"
    /\ waiter' = IF MustWait THEN "waiting" ELSE "done"
    /\ UNCHANGED <<rec, queueVars, sendVars, reapVars, history, assertFailed>>

-----------------------------------------------------------------------------
Publisher == \E n \in 1..MaxBurst : Queue(n)

Callback ==
    \E c \in calls :
        \/ Response(c)
        \/ Sent(c)
        \/ BatchSent(c)
        \/ \E hard \in BOOLEAN : CallFailed(c, hard) \/ BatchFailed(c, hard)

Flusher == DoFlush \/ BatchFlush \/ \E hard \in BOOLEAN : BatchThrew(hard)

Topic == QueueErrored \/ Reap \/ ReapDone \/ ReapFailed \/ Update

Stopper == ShutdownEnter \/ ShutdownWake

Next ==
    /\ ~assertFailed
    /\ Publisher \/ DiscardIntervalOver \/ Callback \/ Flusher \/ Topic \/ Stopper

Spec == Init /\ [][Next]_vars

\* Every call ends: with a reply, or with an exception after its timeout.
\* The flusher and the woken thread get to run.
Fairness ==
    /\ WF_vars(~assertFailed /\ Callback)
    /\ WF_vars(~assertFailed /\ Flusher)
    /\ WF_vars(~assertFailed /\ ShutdownWake)

FairSpec == Spec /\ Fairness

-----------------------------------------------------------------------------
(***************************************************************************)
(* Properties                                                              *)
(***************************************************************************)

\* The values of the variables.
TypeOK ==
    /\ rec \in Records
    /\ state \in States
    /\ outstanding \in Nat
    /\ events \in Seq(Nat)
    /\ currentRetry \in Nat
    /\ discarding \in BOOLEAN
    /\ waiter \in {"none", "waiting", "notified", "done"}
    /\ calls \subseteq Seq(Nat)
    /\ flushing \in Seq(Nat)
    /\ timer \in BOOLEAN
    /\ finders \in 0..MaxFinders
    /\ request \in {"none", "asked", "failed", "removed"}
    /\ published \in 0..MaxEvents
    /\ delivered \subseteq Nat /\ lost \subseteq Nat
    /\ assertFailed \in BOOLEAN

\* _outstanding is the number of callbacks still to come (of a batch, the
\* scheduled flush) and never above the maximum: each path that starts a call
\* counts it, each callback counts it down once, in whatever order flush,
\* callbacks and errors run; an "ordered" subscriber has one call at a time.
OutstandingCounted ==
    /\ outstanding = IF rec.kind = "batch" THEN IF timer THEN 1 ELSE 0
                                           ELSE Cardinality(calls)
    /\ outstanding <= rec.maxOutstanding

\* No lost wakeup: events queued for an Online subscriber have a callback or
\* a timer coming that will look at the queue again.
NoStuckEvents == state = "Online" /\ events # <<>> => outstanding > 0

\* Events wait only while the subscriber is Online: whatever takes it off
\* line empties the queue, and nothing is queued before it is back.
QueueOnlyOnline == state # "Online" => events = <<>>

\* Every event queue() accepted is in one place only: queued, being flushed,
\* in a call, delivered, or lost.  None is forgotten and none is sent twice.
EventsConserved ==
    LET inFlight == UNION {ToSet(c) : c \in calls}
        places   == <<ToSet(events), ToSet(flushing), inFlight, delivered, lost>> IN
    /\ 1..published = UNION {places[i] : i \in 1..5}
    /\ \A i, j \in 1..5 : i # j => places[i] \cap places[j] = {}

\* A subscriber is Reaped only while someone will remove it or reset it: the
\* reap is at the master, or failed and the node will be updated.
ReapedIsReported == state = "Reaped" => request # "none"

\* When shutdown() has returned the queue is empty and stays empty, so no
\* callback sends after the service is destroyed.
ShutdownDrains == waiter = "done" => events = <<>>

\* The assert() statements of error(), doFlush() and reap() hold but one, of
\* error(), and that one fails for twoways only that retry and may have several
\* calls outstanding when one of them ends the subscriber.  (Those about the
\* counter, in response(), sent() and error(), are OutstandingCounted.)
OnlyRetryAssertFails ==
    assertFailed => /\ rec.kind = "twoway" /\ rec.maxOutstanding > 1
                    /\ RetriesLeft /\ state \in Dead

\* "ordered": a subscriber with one outstanding call confirms events in the
\* order in which they were published.
OrderedDelivery ==
    [][rec.kind \in {"twoway", "link"} /\ rec.maxOutstanding = 1 =>
         \A e \in delivered' \ delivered, f \in delivered : f < e]_vars

\* "This waits for the event queues to drain": shutdown() returns, because
\* some path notifies the waiting thread.
ShutdownReturns == waiter = "waiting" ~> waiter = "done"

\* It does so, unless the program has stopped, for every subscriber but a
\* link with a cost.
ShutdownReturnsUnlessCostly ==
    (waiter = "waiting" /\ rec.cost = 0) ~> (waiter = "done" \/ assertFailed)
=============================================================================
