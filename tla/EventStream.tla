------------------------------ MODULE EventStream ------------------------------
(***************************************************************************)
(* The EventManager for one execution: publishers (the background tasks    *)
(* and the requests that stop it) emit events, web sockets subscribe to    *)
(* them, get what is buffered and then what is emitted.                    *)
(*                                                                         *)
(* The critical sections of the manager's lock contain no await, so each   *)
(* is one step and nobody ever waits for the lock.  The sends that follow  *)
(* are awaited one by one, outside of it.  An event is its position in     *)
(* the order of publication.                                               *)
(***************************************************************************)
EXTENDS Naturals, Sequences, FiniteSets

CONSTANTS
    Sockets,    \* web sockets, each connects once
    Publishers, \* coroutines that emit events of the execution
    Capacity,   \* events a buffer keeps (200 in the code)
    MaxEvents   \* bound on the events of the workload

ASSUME CapacityAssumption == Capacity \in Nat \ {0}
ASSUME EventsAssumption   == MaxEvents \in Nat

VARIABLES
    published, \* events published so far: 1..published
    buffer,    \* _buffers[execution_id]
    conns,     \* _connections[execution_id]
    alive,     \* sockets whose client is still there
    replay,    \* per socket: buffered events that connect has still to send
    out,       \* per publisher: sends of its current publish, <<event, socket>>
    dead,      \* per publisher: sockets whose send failed
    last,      \* publishers whose current event is the last one of a run
    fresh,     \* sockets that have not connected yet
    got,       \* history, per socket: the events received, in order
    owed,      \* history, per socket: the events it has been promised
    joined,    \* history, per socket: events published before it connected
    author     \* history: the publisher of each event

manager == <<published, buffer, conns>>
sending == <<replay, out, dead, last>>
history == <<owed, joined, author>>
vars    == <<manager, alive, sending, fresh, got, history>>

Events == 1..published

TypeOK ==
    /\ published \in 0..MaxEvents
    /\ buffer \subseteq Events /\ Cardinality(buffer) <= Capacity
    /\ conns \subseteq Sockets /\ alive \subseteq Sockets
    /\ replay \in [Sockets -> SUBSET Events]
    /\ out \in [Publishers -> SUBSET (Events \X Sockets)]
    /\ dead \in [Publishers -> SUBSET Sockets]
    /\ last \subseteq Publishers
    /\ fresh \subseteq Sockets
    /\ got \in [Sockets -> Seq(Events)]
    /\ owed \in [Sockets -> SUBSET Events]
    /\ joined \in [Sockets -> 0..published]
    /\ author \in [Events -> Publishers]

Init ==
    /\ published = 0 /\ buffer = {}
    /\ conns = {} /\ alive = Sockets
    /\ replay = [w \in Sockets |-> {}]
    /\ out = [p \in Publishers |-> {}]
    /\ dead = [p \in Publishers |-> {}]
    /\ last = {} /\ fresh = Sockets
    /\ got = [w \in Sockets |-> <<>>]
    /\ owed = [w \in Sockets |-> {}]
    /\ joined = [w \in Sockets |-> 0]
    /\ author = [e \in {} |-> {}]

-----------------------------------------------------------------------------
\* connect, under the lock: registered and given the buffer in one step.
Connect(w) ==
    /\ w \in fresh
    /\ fresh' = fresh \ {w}
    /\ conns' = conns \cup {w}
    /\ replay' = [replay EXCEPT ![w] = buffer]
    /\ owed' = [owed EXCEPT ![w] = buffer]
    /\ joined' = [joined EXCEPT ![w] = published]
    /\ UNCHANGED <<published, buffer, alive, out, dead, last, got, author>>

Deliver(w, e) == got' = [got EXCEPT ![w] = Append(@, e)]

\* connect, after the lock: the buffered events are sent oldest first; a failed
\* send disconnects the socket.
Replay(w) ==
    /\ \E e \in replay[w] :
         /\ \A f \in replay[w] : e <= f
         /\ IF w \in alive
            THEN /\ Deliver(w, e)
                 /\ replay' = [replay EXCEPT ![w] = @ \ {e}]
                 /\ UNCHANGED conns
            ELSE /\ replay' = [replay EXCEPT ![w] = {}]
                 /\ conns' = conns \ {w}
                 /\ UNCHANGED got
    /\ UNCHANGED <<published, buffer, alive, out, dead, last, fresh, history>>

\* The client goes away.
Leave(w) ==
    /\ w \in alive /\ w \in conns
    /\ alive' = alive \ {w}
    /\ UNCHANGED <<manager, sending, fresh, got, history>>

\* Mutant: the endpoint returns without telling the manager.
DisconnectSilently(w) ==
    /\ w \in conns \ alive /\ replay[w] = {}
    /\ UNCHANGED vars

\* execution_stream is waiting for text and sees the disconnect.
Disconnect(w) ==
    /\ w \in conns \ alive /\ replay[w] = {}
    /\ conns' = conns \ {w}
    /\ UNCHANGED <<published, buffer, alive, sending, fresh, got, history>>

\* The newest Capacity of the events.
Newest(events) == {e \in events : Cardinality({f \in events : f > e}) < Capacity}

\* A coroutine awaits its emit: one event of a publisher at a time.
Idle(p) == out[p] = {} /\ dead[p] = {} /\ p \notin last

NewEvent(p) ==
    /\ published < MaxEvents
    /\ published' = published + 1
    /\ buffer' = Newest(buffer \cup {published'})
    /\ \E terminal \in BOOLEAN : last' = IF terminal THEN last \cup {p} ELSE last
    /\ owed' = [w \in Sockets |-> IF w \in conns THEN owed[w] \cup {published'} ELSE owed[w]]
    /\ author' = [e \in 1..published' |-> IF e = published' THEN p ELSE author[e]]

\* Mutant: a socket is registered when its replay is over.
PublishToReplayed(p) ==
    /\ Idle(p)
    /\ NewEvent(p)
    /\ out' = [out EXCEPT ![p] = {published'} \X {w \in conns : replay[w] = {}}]
    /\ UNCHANGED <<conns, alive, replay, dead, fresh, got, joined>>

\* publish, under the lock: into the buffer, and the sockets to send it to.
Publish(p) ==
    /\ Idle(p)
    /\ NewEvent(p)
    /\ out' = [out EXCEPT ![p] = {published'} \X conns]
    /\ UNCHANGED <<conns, alive, replay, dead, fresh, got, joined>>

\* Mutant: the exception of a failed send ends the publish.
SendOrGiveUp(p) ==
    /\ \E m \in out[p] :
         IF m[2] \in alive
         THEN Deliver(m[2], m[1]) /\ out' = [out EXCEPT ![p] = @ \ {m}]
         ELSE out' = [out EXCEPT ![p] = {}] /\ UNCHANGED got
    /\ UNCHANGED <<manager, alive, replay, dead, last, fresh, history>>

\* publish, after the lock: one send after the other.
Send(p) ==
    /\ \E m \in out[p] :
         /\ out' = [out EXCEPT ![p] = @ \ {m}]
         /\ IF m[2] \in alive
            THEN Deliver(m[2], m[1]) /\ UNCHANGED dead
            ELSE dead' = [dead EXCEPT ![p] = @ \cup {m[2]}] /\ UNCHANGED got
    /\ UNCHANGED <<manager, alive, replay, last, fresh, history>>

\* The dead sockets are dropped; clear_buffer follows the last event of a run.
Finish(p) ==
    /\ out[p] = {} /\ ~Idle(p)
    /\ conns' = conns \ dead[p]
    /\ dead' = [dead EXCEPT ![p] = {}]
    /\ buffer' = IF p \in last THEN {} ELSE buffer
    /\ last' = last \ {p}
    /\ UNCHANGED <<published, alive, replay, out, fresh, got, history>>

\* The publishing task is cancelled between two sends.
Cancel(p) ==
    /\ out[p] # {}
    /\ owed' = [w \in Sockets |-> owed[w] \ {m[1] : m \in {n \in out[p] : n[2] = w}}]
    /\ out' = [out EXCEPT ![p] = {}]
    /\ dead' = [dead EXCEPT ![p] = {}]
    /\ last' = last \ {p}
    /\ UNCHANGED <<manager, alive, replay, fresh, got, joined, author>>

Subscriber(w) == Connect(w) \/ Replay(w) \/ Leave(w) \/ Disconnect(w)
Publisher(p)  == Publish(p) \/ Send(p) \/ Finish(p) \/ Cancel(p)

Next ==
    \/ \E w \in Sockets : Subscriber(w)
    \/ \E p \in Publishers : Publisher(p)

Spec == Init /\ [][Next]_vars

\* What was begun is resumed by the event loop, and a send to a socket whose
\* client has gone fails; nobody has to connect, leave, publish or be cancelled.
Fairness ==
    /\ \A w \in Sockets : WF_vars(Replay(w)) /\ WF_vars(Disconnect(w))
    /\ \A p \in Publishers : WF_vars(Send(p)) /\ WF_vars(Finish(p))

FairSpec == Spec /\ Fairness

-----------------------------------------------------------------------------
(* Properties.                                                             *)

\* No event reaches a socket twice, although a socket that connects while an
\* event is being sent is served from two sides.
AtMostOnce ==
    \A w \in Sockets : \A i, j \in DOMAIN got[w] : got[w][i] = got[w][j] => i = j

\* A client that stays gets every event that was in the buffer when it
\* connected or was published since, unless its publisher was cancelled: when
\* nothing is under way any more, nothing is missing.
NothingMissed ==
    \A w \in alive : \A e \in owed[w] :
        \/ \E i \in DOMAIN got[w] : got[w][i] = e
        \/ e \in replay[w]
        \/ \E p \in Publishers : <<e, w>> \in out[p]

\* What one publisher emits while a socket is connected arrives in the order of
\* emission (the replay of older events may come in between).
PublisherOrder ==
    \A w \in Sockets : \A i, j \in DOMAIN got[w] :
        LET d == got[w][i]
            e == got[w][j]
        IN  i < j /\ d > joined[w] /\ e > joined[w] /\ author[d] = author[e] => d < e

\* The manager forgets the sockets of clients that left.
GoneAreForgotten == \A w \in Sockets : w \notin alive ~> w \notin conns

\* Every socket is served in the end.
Served ==
    \A w \in Sockets : \A e \in 1..MaxEvents :
        e \in owed[w] ~> \/ \E i \in DOMAIN got[w] : got[w][i] = e
                         \/ e \notin owed[w] \/ w \notin alive
=============================================================================
