------------------------------ MODULE EventBus ------------------------------
(***************************************************************************)
(* The publish/subscribe bus (src/event_bus.hpp), used by several threads  *)
(* and re-entered from its own handlers.                                   *)
(*                                                                         *)
(* Every method is one step under the bus's lock; publish and              *)
(* dispatch_pending copy what they will deliver in that step and then call *)
(* the handlers one by one with the lock released.  Each thread has a      *)
(* stack of such calls under way: a handler may use the bus in any way,    *)
(* which puts another call on top.                                         *)
(*                                                                         *)
(* Tokens and events are numbered in the order in which they are handed    *)
(* in, which is what next_token_, seq_ and eseq_ count.                    *)
(***************************************************************************)
EXTENDS SequencesExt, Bags, Integers

CONSTANTS
    Threads,
    Priorities,   \* a higher number goes first
    MaxTokens,    \* bound on the subscriptions
    MaxEvents,    \* bound on the events handed in
    MaxDepth      \* bound on the calls under way in one thread

ASSUME EventBusAssumption ==
    /\ Priorities \subseteq Nat /\ Priorities # {}
    /\ {MaxTokens, MaxEvents, MaxDepth} \subseteq Nat

VARIABLES
    subs,       \* subs_: [seq, prio], in the order of subscription
    pending,    \* pending_: [seq, prio], in the order of enqueueing
    nextToken,  \* next_token_
    events,     \* events handed in so far
    calls,      \* per thread, the stack of calls under way
    owed,       \* history: who was to get which event, by the copies taken
    got         \* history: the bag of deliveries

busVars == <<subs, pending, nextToken, events, calls, owed, got>>

BusInit ==
    /\ subs = <<>> /\ pending = <<>> /\ nextToken = 1 /\ events = 0
    /\ calls = [t \in Threads |-> <<>>]
    /\ owed = {} /\ got = EmptyBag

(* A thread uses the bus on its own account or from inside a handler.      *)
Free(t) ==
    calls[t] # <<>> => Len(calls[t]) < MaxDepth /\ Last(calls[t]).done # <<>>

(* The comparison of both sorts: priority first, then order of arrival.    *)
Before(a, b) == a.prio > b.prio \/ (a.prio = b.prio /\ a.seq < b.seq)

(* Mutant: the newest first among equals.                                  *)
OrderedNewestFirst(s) ==
    CHOOSE t \in SetToSeqs(Range(s)) : \A i, j \in DOMAIN t : i < j =>
        t[i].prio > t[j].prio \/ (t[i].prio = t[j].prio /\ t[i].seq > t[j].seq)

(* std::sort: as no two elements have the same seq, what it leaves is the  *)
(* one sequence of the same elements that is in order.                     *)
Ordered(s) ==
    CHOOSE t \in SetToSeqs(Range(s)) : \A i, j \in DOMAIN t : i < j => Before(t[i], t[j])

OrderedHandlers == Ordered(subs)

(* The deliveries of a batch: every event to every handler in turn.        *)
FanOut(batch) ==
    FlattenSeq([i \in DOMAIN batch |->
                  [j \in DOMAIN OrderedHandlers |-> <<batch[i], OrderedHandlers[j]>>]])

Begin(t, batch) ==
    /\ calls' = [calls EXCEPT ![t] = Append(@, [todo |-> FanOut(batch), done |-> <<>>,
                                                known |-> {b.seq : b \in Range(batch)}])]
    /\ owed' = owed \cup {<<b.seq, s.seq>> : b \in Range(batch), s \in Range(subs)}
-----------------------------------------------------------------------------
Subscribe(t, prio) ==
    /\ Free(t) /\ nextToken <= MaxTokens
    /\ subs' = Append(subs, [seq |-> nextToken, prio |-> prio])
    /\ nextToken' = nextToken + 1
    /\ UNCHANGED <<pending, events, calls, owed, got>>

(* An unknown token changes nothing.                                       *)
Unsubscribe(t, token) ==
    /\ Free(t)
    /\ \E i \in DOMAIN subs : subs[i].seq = token /\ subs' = RemoveAt(subs, i)
    /\ UNCHANGED <<pending, nextToken, events, calls, owed, got>>

PublishEvent(t) ==
    /\ Free(t) /\ events < MaxEvents
    /\ events' = events + 1
    /\ Begin(t, <<[seq |-> events + 1, prio |-> 0]>>)
    /\ UNCHANGED <<subs, pending, nextToken, got>>

Enqueue(t, prio) ==
    /\ Free(t) /\ events < MaxEvents
    /\ events' = events + 1
    /\ pending' = Append(pending, [seq |-> events + 1, prio |-> prio])
    /\ UNCHANGED <<subs, nextToken, calls, owed, got>>

(* Mutant: the queue is read in one locked section and emptied in another. *)
DispatchCopies(t) ==
    /\ Free(t) /\ pending # <<>>
    /\ Begin(t, Ordered(pending))
    /\ UNCHANGED <<subs, pending, nextToken, events, got>>

(* The whole queue is taken; with an empty one nothing happens.            *)
DispatchPending(t) ==
    /\ Free(t) /\ pending # <<>>
    /\ Begin(t, Ordered(pending))
    /\ pending' = <<>>
    /\ UNCHANGED <<subs, nextToken, events, got>>

Clear(t) ==
    /\ Free(t) /\ <<subs, pending>> # <<<<>>, <<>>>>
    /\ subs' = <<>> /\ pending' = <<>>
    /\ UNCHANGED <<nextToken, events, calls, owed, got>>

(* The handler called last returns, and the next one is called ...         *)
CallNext(t) ==
    /\ calls[t] # <<>>
    /\ LET top  == Last(calls[t])
           next == Head(top.todo)
       IN  /\ top.todo # <<>>
           /\ calls' = [calls EXCEPT ![t] = Front(@) \o
                         <<[top EXCEPT !.todo = Tail(@), !.done = Append(@, next)]>>]
           /\ got' = got (+) SetToBag({<<next[1].seq, next[2].seq>>})
    /\ UNCHANGED <<subs, pending, nextToken, events, owed>>

(* ... or publish or dispatch_pending returns.                             *)
Return(t) ==
    /\ calls[t] # <<>> /\ Last(calls[t]).todo = <<>>
    /\ calls' = [calls EXCEPT ![t] = Front(@)]
    /\ UNCHANGED <<subs, pending, nextToken, events, owed, got>>

BusNext ==
    \E t \in Threads :
        \/ PublishEvent(t) \/ DispatchPending(t) \/ Clear(t) \/ CallNext(t) \/ Return(t)
        \/ \E prio \in Priorities : Subscribe(t, prio) \/ Enqueue(t, prio)
        \/ \E token \in 1 .. MaxTokens : Unsubscribe(t, token)

BusSpec == BusInit /\ [][BusNext]_busVars
-----------------------------------------------------------------------------
UnderWay == UNION {Range(calls[t]) : t \in Threads}

InHand(event, token) ==
    \E call \in UnderWay : \E d \in Range(call.todo) : d[1].seq = event /\ d[2].seq = token

Deliveries(event, token) ==
    IF BagIn(<<event, token>>, got) THEN got[<<event, token>>] ELSE 0

(* Every event reaches each handler subscribed when the delivery began     *)
(* exactly once, and no other: also a handler removed meanwhile is called, *)
(* and one added meanwhile is not (event_bus.hpp 80-89).                   *)
OnceToEachSubscriber ==
    \A event \in 1 .. MaxEvents, token \in 1 .. MaxTokens :
        Deliveries(event, token) =
            IF <<event, token>> \in owed /\ ~ InHand(event, token) THEN 1 ELSE 0

(* Delivery c comes before delivery d.                                     *)
Precedes(c, d) ==
    LET e == c[1]  f == d[1]  g == c[2]  h == d[2]
    IN  \/ e.prio > f.prio
        \/ e.prio = f.prio /\ e.seq < f.seq
        \/ e = f /\ g.prio > h.prio
        \/ e = f /\ g.prio = h.prio /\ g.seq < h.seq

(* A dispatch delivers by priority of the events, then in the order they   *)
(* were enqueued, each by priority of the handlers, then in the order they *)
(* subscribed; and none that was enqueued after it began, so handlers that *)
(* feed the queue cannot keep it going (event_bus.hpp 98-106).             *)
OrderedAndBounded ==
    \A call \in UnderWay :
        /\ \A i, j \in DOMAIN call.done : i < j => Precedes(call.done[i], call.done[j])
        /\ \A d \in Range(call.done) : d[1].seq \in call.known

=============================================================================
