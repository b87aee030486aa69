------------------------------ MODULE EventBus ------------------------------
(* A channel of the event bus: subscriptions owned by handles, and publish,  *)
(* which calls the subscribers in turn.  A subscriber that is being called   *)
(* may use the channel itself: it may subscribe, drop or move handles, and   *)
(* publish.  The signal behind the channel is boost::signals2.               *)
EXTENDS Naturals, Sequences, SequencesExt, FiniteSets

CONSTANTS
    Handles,
    MaxSubscriptions, MaxEvents

VARIABLES
    slots,      \* the signal's connected slots, in order
    handle,     \* the slot each handle owns, 0 for none
    calls,      \* the publish calls in progress: [event, todo]
    log,        \* the calls made: <<slot, event>>
    made,       \* subscriptions made
    events,     \* events published
    due,        \* the slots that were connected at the publish of each event
    left        \* events whose publish was left by an exception

vars == <<slots, handle, calls, log, made, events, due, left>>

Init ==
    /\ slots = << >> /\ handle = [h \in Handles |-> 0] /\ calls = << >> /\ log = << >>
    /\ made = 0 /\ events = 0 /\ due = << >> /\ left = {}

(* Code that uses the channel runs when nothing is published, or within the  *)
(* subscriber that is being called                                           *)
Top == calls[Len(calls)]
Running == IF calls = << >> THEN TRUE ELSE Top.running

-----------------------------------------------------------------------------
Connected(s) == s \in Range(slots)
disconnect(s) == RemoveFirst(slots, s)

(* Handle::unsubscribe, also of ~Handle                                      *)
unsubscribe(h) ==
    /\ Running /\ handle[h] # 0
    /\ slots' = disconnect(handle[h]) /\ handle' = [handle EXCEPT ![h] = 0]
    /\ UNCHANGED <<calls, log, made, events, due, left>>

(* operator=(Handle &&): "Cancels existing connection"                       *)
replaced(h) == disconnect(handle[h])

(* Channel::subscribe, its result moved into the handle h                    *)
subscribe(h) ==
    /\ Running /\ made < MaxSubscriptions
    /\ made' = made + 1
    /\ slots' = Append(replaced(h), made') /\ handle' = [handle EXCEPT ![h] = made']
    /\ UNCHANGED <<calls, log, events, due, left>>

(* A handle is moved into another                                            *)
move(h, g) ==
    /\ Running /\ h # g /\ handle[g] # 0
    /\ slots' = replaced(h)
    /\ handle' = [handle EXCEPT ![h] = handle[g], ![g] = 0]
    /\ UNCHANGED <<calls, log, made, events, due, left>>

-----------------------------------------------------------------------------
hasSubscribers == slots # << >>

(* Channel::publish: the slots of this moment are called                     *)
publish ==
    /\ Running /\ events < MaxEvents
    /\ events' = events + 1 /\ due' = Append(due, slots)
    /\ calls' = IF hasSubscribers
                THEN Append(calls, [event |-> events', todo |-> slots, running |-> FALSE]) ELSE calls
    /\ UNCHANGED <<slots, handle, log, made, left>>

(* boost::signals2: a slot that was disconnected since is not called         *)
callable(s) == Connected(s)

Faulty_again(todo) == todo

(* ++first                                                                   *)
after(todo) == Tail(todo)

(* The dispatch policy goes to the next slot                                 *)
next ==
    /\ calls # << >> /\ ~Top.running /\ Top.todo # << >>
    /\ LET s == Head(Top.todo) IN
        /\ log' = IF callable(s) THEN Append(log, <<s, Top.event>>) ELSE log
        /\ calls' = [calls EXCEPT ![Len(calls)].todo = after(@),
                                  ![Len(calls)].running = callable(s)]
    /\ UNCHANGED <<slots, handle, made, events, due, left>>

(* The subscriber returns                                                    *)
return ==
    /\ calls # << >> /\ Top.running
    /\ calls' = [calls EXCEPT ![Len(calls)].running = FALSE]
    /\ UNCHANGED <<slots, handle, log, made, events, due, left>>

(* All slots were called                                                     *)
published ==
    /\ calls # << >> /\ ~Top.running /\ Top.todo = << >>
    /\ calls' = Front(calls)
    /\ UNCHANGED <<slots, handle, log, made, events, due, left>>

(* drop_exceptions with its handlers commented out: an exception leaves the  *)
(* publish call; the subscriber that made the call, if any, leaves it on     *)
throw ==
    /\ calls # << >> /\ Top.running
    /\ left' = left \cup {calls[i].event : i \in DOMAIN calls}
    /\ calls' = << >>
    /\ UNCHANGED <<slots, handle, log, made, events, due>>

Use == publish \/ (\E h \in Handles : unsubscribe(h) \/ subscribe(h) \/ \E g \in Handles : move(h, g))
Dispatch == next \/ return \/ published
Next == Use \/ Dispatch \/ throw

Spec == Init /\ [][Next]_vars
-----------------------------------------------------------------------------
(* A subscription lives as long as its handle: every connected slot is owned *)
(* by exactly one handle, over moves and assignments.                        *)
OwnedOnce ==
    /\ Cardinality({h \in Handles : handle[h] # 0}) = Len(slots)
    /\ \A h \in Handles : handle[h] # 0 => Connected(handle[h])

(* A subscriber is called at most once for an event, and only if it was      *)
(* subscribed when the event was published; none that was dropped since, by  *)
(* an earlier subscriber of the same event for one, is called.               *)
CallsOnce ==
    Len(log') > Len(log) =>
        LET c == Last(log') IN
        c \notin Range(log) /\ c[1] \in Range(due[c[2]]) /\ Connected(c[1])

(* When a publish has ended, all its subscribers that are still subscribed   *)
(* were called, unless an exception left it.                                 *)
Told ==
    \A e \in 1..events :
        e \notin {calls[i].event : i \in DOMAIN calls} \cup left =>
            \A s \in Range(due[e]) : Connected(s) => <<s, e>> \in Range(log)
=============================================================================
