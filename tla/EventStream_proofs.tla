-------------------------- MODULE EventStream_proofs --------------------------
(***************************************************************************)
(* Theorems about EventStream, for any sockets and publishers, any buffer  *)
(* and any number of events: type correctness, that no event reaches a     *)
(* socket twice, that each publisher's events arrive in order, and that    *)
(* nothing a client was promised is lost while it stays.                   *)
(***************************************************************************)
EXTENDS EventStream, SequenceTheorems, FiniteSetTheorems, WellFoundedInduction, TLAPS

-----------------------------------------------------------------------------
(* Lemmas about the data.                                                  *)

\* A nonempty set of natural numbers has a least element.
LEMMA Least ==
    ASSUME NEW S \in SUBSET Nat, S # {}
    PROVE  \E m \in S : \A n \in S : m <= n
  <1>1. PICK m \in S : \A n \in S : ~ (<<n, m>> \in OpToRel(<, Nat))
    BY NatLessThanWellFounded, WFMin
  <1>2. \A n \in S : ~(n < m)
    BY <1>1 DEF OpToRel
  <1> QED
    BY <1>2

\* The trimmed buffer holds no more than its capacity.
LEMMA NewestFits ==
    ASSUME NEW S \in SUBSET Nat, IsFiniteSet(S)
    PROVE  Newest(S) \subseteq S /\ Cardinality(Newest(S)) <= Capacity
  <1> DEFINE T == Newest(S)
  <1>1. T \subseteq S
    BY DEF Newest
  <1>2. IsFiniteSet(T) /\ Cardinality(T) \in Nat
    BY <1>1, FS_Subset, FS_CardinalityType
  <1>3. CASE T = {}
    BY <1>1, <1>3, FS_EmptySet, CapacityAssumption
  <1>4. CASE T # {}
    <2>1. PICK m \in T : \A n \in T : m <= n
      BY <1>1, <1>4, Least
    <2> DEFINE later == {f \in S : f > m}
    <2>2. IsFiniteSet(later) /\ Cardinality(later) \in Nat /\ Cardinality(later) < Capacity
      <3>1. Cardinality(later) < Capacity
        BY DEF Newest
      <3> QED
        BY <3>1, FS_Subset, FS_CardinalityType
    <2>3. T \ {m} \subseteq later
      <3>1. ASSUME NEW n \in T \ {m} PROVE n > m
        <4>1. n \in Nat /\ m \in Nat /\ m <= n /\ n # m
          BY <1>1, <2>1
        <4> QED
          BY <4>1
      <3> QED
        BY <1>1, <3>1
    <2>4. Cardinality(T \ {m}) = Cardinality(T) - 1
      BY <1>2, FS_RemoveElement
    <2>5. Cardinality(T \ {m}) <= Cardinality(later)
      BY <2>2, <2>3, FS_Subset
    <2> QED
      BY <1>1, <1>2, <2>2, <2>4, <2>5, CapacityAssumption
  <1> QED
    BY <1>3, <1>4

\* A socket's sequence of events stays one when more events are published.
LEMMA SeqGrows ==
    ASSUME NEW S, NEW T, S \subseteq T, NEW s \in Seq(S)
    PROVE  s \in Seq(T)
  BY SeqDef

-----------------------------------------------------------------------------
(* Type correctness.                                                       *)

LEMMA InitTypeOK == Init => TypeOK
  BY FS_EmptySet, CapacityAssumption, EventsAssumption DEF Init, TypeOK, Events

LEMMA DeliverType ==
    ASSUME TypeOK, NEW w \in Sockets, NEW e \in Events, Deliver(w, e)
    PROVE  got' \in [Sockets -> Seq(Events)]
  BY AppendProperties DEF TypeOK, Deliver

LEMMA PublishTypeOK ==
    ASSUME TypeOK, NEW p \in Publishers, Publish(p)
    PROVE  TypeOK'
  <1>1. published' = published + 1 /\ published' \in 0..MaxEvents /\ published \in Nat
    BY EventsAssumption DEF TypeOK, Publish, NewEvent
  <1>2. Events' = 1..published' /\ Events \subseteq Events' /\ published' \in Events'
    BY <1>1 DEF Events
  <1>3. buffer' \subseteq Events' /\ Cardinality(buffer') <= Capacity
    <2> DEFINE S == buffer \cup {published'}
    <2>1. S \in SUBSET Events'
      BY <1>2 DEF TypeOK
    <2>2. IsFiniteSet(Events') /\ Events' \subseteq Nat
      BY <1>1, <1>2, FS_Interval
    <2>4. IsFiniteSet(S) /\ S \in SUBSET Nat
      BY <2>1, <2>2, FS_Subset
    <2>3. buffer' = Newest(S)
      BY DEF Publish, NewEvent
    <2> HIDE DEF S
    <2>5. Newest(S) \subseteq S /\ Cardinality(Newest(S)) <= Capacity
      BY <2>4, NewestFits
    <2> QED
      BY <2>1, <2>3, <2>5
  <1>4. out' \in [Publishers -> SUBSET (Events' \X Sockets)]
    <2>1. {published'} \X conns \subseteq Events' \X Sockets
      BY <1>2 DEF TypeOK
    <2>2. \A q \in Publishers : out[q] \subseteq Events' \X Sockets
      <3>1. \A q \in Publishers : out[q] \subseteq Events \X Sockets
        BY DEF TypeOK
      <3>2. Events \X Sockets \subseteq Events' \X Sockets
        BY <1>2
      <3> QED
        BY <3>1, <3>2
    <2>3. out' = [out EXCEPT ![p] = {published'} \X conns]
      BY DEF Publish
    <2> QED
      BY <2>1, <2>2, <2>3 DEF TypeOK
  <1>5. got' \in [Sockets -> Seq(Events')]
    BY <1>2, SeqGrows DEF TypeOK, Publish
  <1>6. author' \in [Events' -> Publishers]
    BY <1>1, <1>2 DEF TypeOK, Publish, NewEvent, Events
  <1>7. owed' \in [Sockets -> SUBSET Events'] /\ replay' \in [Sockets -> SUBSET Events']
    BY <1>2 DEF TypeOK, Publish, NewEvent
  <1>8. joined' \in [Sockets -> 0..published'] /\ last' \subseteq Publishers
    BY <1>1 DEF TypeOK, Publish, NewEvent
  <1> QED
    BY <1>1, <1>3, <1>4, <1>5, <1>6, <1>7, <1>8 DEF TypeOK, Publish

LEMMA NextTypeOK == TypeOK /\ [Next]_vars => TypeOK'
  <1> SUFFICES ASSUME TypeOK, [Next]_vars PROVE TypeOK'
    OBVIOUS
  <1> USE DEF TypeOK, Events, manager, sending, history
  <1>1. CASE UNCHANGED vars
    BY <1>1 DEF vars
  <1>2. ASSUME NEW w \in Sockets, Subscriber(w) PROVE TypeOK'
    <2>1. CASE Connect(w)
      BY <2>1, EventsAssumption DEF Connect
    <2>2. CASE Replay(w)
      <3>1. PICK e \in replay[w] :
              \/ Deliver(w, e) /\ replay' = [replay EXCEPT ![w] = @ \ {e}] /\ UNCHANGED conns
              \/ replay' = [replay EXCEPT ![w] = {}] /\ conns' = conns \ {w} /\ UNCHANGED got
        BY <2>2 DEF Replay
      <3>2. got' \in [Sockets -> Seq(Events)]
        BY <3>1, DeliverType
      <3>3. replay' \in [Sockets -> SUBSET Events] /\ conns' \subseteq Sockets
        BY <3>1
      <3> QED
        BY <2>2, <3>2, <3>3 DEF Replay
    <2>3. CASE Leave(w)
      BY <2>3 DEF Leave
    <2>4. CASE Disconnect(w)
      BY <2>4 DEF Disconnect
    <2> QED
      BY <1>2, <2>1, <2>2, <2>3, <2>4 DEF Subscriber
  <1>3. ASSUME NEW p \in Publishers, Publisher(p) PROVE TypeOK'
    <2>1. CASE Publish(p)
      BY <2>1, PublishTypeOK
    <2>2. CASE Send(p)
      <3>1. PICK m \in out[p] :
              /\ out' = [out EXCEPT ![p] = @ \ {m}]
              /\ \/ Deliver(m[2], m[1]) /\ UNCHANGED dead
                 \/ dead' = [dead EXCEPT ![p] = @ \cup {m[2]}] /\ UNCHANGED got
        BY <2>2 DEF Send
      <3>2. m[1] \in Events /\ m[2] \in Sockets
        BY <3>1
      <3>3. got' \in [Sockets -> Seq(Events)]
        BY <3>1, <3>2, DeliverType
      <3>4. out' \in [Publishers -> SUBSET (Events \X Sockets)]
        <4> DEFINE Messages == Events \X Sockets
        <4>1. out \in [Publishers -> SUBSET Messages]
          OBVIOUS
        <4> HIDE DEF Messages
        <4>2. out' \in [Publishers -> SUBSET Messages]
          BY <3>1, <4>1
        <4> QED
          BY <4>2 DEF Messages
      <3>5. dead' \in [Publishers -> SUBSET Sockets]
        <4>1. \A v \in Sockets : [dead EXCEPT ![p] = @ \cup {v}] \in [Publishers -> SUBSET Sockets]
          OBVIOUS
        <4>2. UNCHANGED dead \/ \E v \in Sockets : dead' = [dead EXCEPT ![p] = @ \cup {v}]
          BY <3>1, <3>2
        <4>3. dead \in [Publishers -> SUBSET Sockets]
          OBVIOUS
        <4> HIDE DEF TypeOK
        <4>4. CASE UNCHANGED dead
          BY <4>3, <4>4
        <4>5. ASSUME NEW v \in Sockets, dead' = [dead EXCEPT ![p] = @ \cup {v}]
              PROVE  dead' \in [Publishers -> SUBSET Sockets]
          BY <4>1, <4>5
        <4> QED
          BY <4>2, <4>4, <4>5
      <3> QED
        BY <2>2, <3>3, <3>4, <3>5 DEF Send
    <2>3. CASE Finish(p)
      <3>1. buffer' \subseteq Events /\ Cardinality(buffer') <= Capacity
        <4>1. CASE buffer' = buffer
          BY <4>1
        <4>2. CASE buffer' = {}
          BY <4>2, FS_EmptySet, CapacityAssumption
        <4> QED
          BY <2>3, <4>1, <4>2 DEF Finish
      <3> QED
        BY <2>3, <3>1 DEF Finish
    <2>4. CASE Cancel(p)
      BY <2>4 DEF Cancel
    <2> QED
      BY <1>3, <2>1, <2>2, <2>3, <2>4 DEF Publisher
  <1> QED
    BY <1>1, <1>2, <1>3 DEF Next

\* Every variable keeps its type; above all, the buffer never holds more than
\* its capacity and only events that were published.
THEOREM TypeCorrect == Spec => []TypeOK
  BY InitTypeOK, NextTypeOK, PTL DEF Spec

-----------------------------------------------------------------------------
(* Delivery: what is still to be sent to a socket has not been received.   *)

\* A socket that has not connected has nothing to do with any event.
Untouched ==
    \A w \in fresh :
        /\ got[w] = <<>> /\ w \notin conns /\ replay[w] = {}
        /\ \A p \in Publishers, e \in Events : <<e, w>> \notin out[p]

\* The replay of a socket is older than its connection, and not received yet.
Buffered ==
    \A w \in Sockets : \A e \in replay[w] :
        e <= joined[w] /\ \A i \in DOMAIN got[w] : got[w][i] # e

\* What a publisher is sending is one event, its own, younger than the
\* connection and than all that the socket received of this publisher since.
InFlight ==
    \A p \in Publishers, e \in Events, w \in Sockets : <<e, w>> \in out[p] =>
        /\ author[e] = p /\ e > joined[w]
        /\ \A i \in DOMAIN got[w] :
              got[w][i] > joined[w] /\ author[got[w][i]] = p => got[w][i] < e

OneEvent ==
    \A p \in Publishers, d, e \in Events, v, w \in Sockets :
        <<d, v>> \in out[p] /\ <<e, w>> \in out[p] => d = e

StreamInv ==
    Untouched /\ Buffered /\ InFlight /\ OneEvent /\ AtMostOnce /\ PublisherOrder

\* Sends that are done or dropped leave the others as they were.
LEMMA FewerInFlight ==
    ASSUME InFlight, OneEvent, UNCHANGED <<published, got, joined, author>>,
           \A q \in Publishers : out'[q] \subseteq out[q]
    PROVE  InFlight' /\ OneEvent'
  <1>1. Events' = Events
    BY DEF Events
  <1>2. ASSUME NEW q \in Publishers, NEW e \in Events, NEW w \in Sockets, <<e, w>> \in out'[q]
        PROVE  <<e, w>> \in out[q]
    BY <1>2
  <1>3. InFlight'
    BY <1>1, <1>2 DEF InFlight
  <1>4. OneEvent'
    BY <1>1, <1>2 DEF OneEvent
  <1> QED
    BY <1>3, <1>4

\* The received events are events.
LEMMA Received ==
    ASSUME TypeOK, NEW w \in Sockets
    PROVE  /\ Len(got[w]) \in Nat /\ DOMAIN got[w] = 1..Len(got[w])
           /\ \A i \in DOMAIN got[w] : got[w][i] \in Events /\ got[w][i] \in Nat
  <1>1. got[w] \in Seq(Events) /\ Events \subseteq Nat
    BY DEF TypeOK, Events
  <1> QED
    BY <1>1, LenProperties, ElementOfSeq

\* A delivery puts one event at the end of one socket's sequence.
LEMMA Delivered ==
    ASSUME TypeOK, NEW w \in Sockets, NEW e \in Events, Deliver(w, e)
    PROVE  /\ \A v \in Sockets \ {w} : got'[v] = got[v]
           /\ DOMAIN got'[w] = DOMAIN got[w] \cup {Len(got[w]) + 1}
           /\ \A i \in DOMAIN got[w] : got'[w][i] = got[w][i]
           /\ got'[w][Len(got[w]) + 1] = e
  <1> DEFINE s == got[w]
  <1>1. s \in Seq(Events) /\ got'[w] = Append(s, e)
    BY DEF TypeOK, Deliver
  <1>2. /\ Append(s, e) \in Seq(Events) /\ Len(Append(s, e)) = Len(s) + 1
        /\ \A i \in 1..Len(s) : Append(s, e)[i] = s[i]
        /\ Append(s, e)[Len(s) + 1] = e
    BY <1>1, AppendProperties
  <1>3. /\ Len(s) \in Nat /\ DOMAIN s = 1..Len(s)
        /\ DOMAIN Append(s, e) = 1..(Len(s) + 1)
    BY <1>1, <1>2, LenProperties
  <1>4. \A v \in Sockets \ {w} : got'[v] = got[v]
    BY DEF TypeOK, Deliver
  <1> HIDE DEF s
  <1>5. 1..(Len(s) + 1) = 1..Len(s) \cup {Len(s) + 1}
    BY <1>3
  <1> QED
    BY <1>1, <1>2, <1>3, <1>4, <1>5 DEF s

\* Delivering an event that is new to its socket, and younger than what its
\* author sent there since the socket joined, keeps the two histories in order.
LEMMA DeliverInOrder ==
    ASSUME TypeOK, AtMostOnce, PublisherOrder,
           NEW w \in Sockets, NEW e \in Events, Deliver(w, e),
           UNCHANGED <<joined, author>>,
           \A i \in DOMAIN got[w] : got[w][i] # e,
           e > joined[w] => \A i \in DOMAIN got[w] :
               got[w][i] > joined[w] /\ author[got[w][i]] = author[e] => got[w][i] < e
    PROVE  AtMostOnce' /\ PublisherOrder'
  <1> DEFINE n == Len(got[w]) + 1
  <1>1. /\ \A v \in Sockets \ {w} : got'[v] = got[v]
        /\ DOMAIN got'[w] = DOMAIN got[w] \cup {n} /\ got'[w][n] = e
        /\ \A i \in DOMAIN got[w] : got'[w][i] = got[w][i]
    BY Delivered
  <1>2. n \in Nat /\ \A i \in DOMAIN got[w] : i \in Nat /\ i < n
    BY Received
  <1> HIDE DEF n
  <1>3. ASSUME NEW i \in DOMAIN got'[w], NEW j \in DOMAIN got'[w], got'[w][i] = got'[w][j]
        PROVE  i = j
    BY <1>1, <1>3 DEF AtMostOnce
  <1>4. ASSUME NEW i \in DOMAIN got'[w], NEW j \in DOMAIN got'[w], i < j,
               got'[w][i] > joined[w], got'[w][j] > joined[w],
               author[got'[w][i]] = author[got'[w][j]]
        PROVE  got'[w][i] < got'[w][j]
    <2>1. CASE i = n
      BY <1>1, <1>2, <1>4, <2>1
    <2>2. CASE i # n /\ j = n
      BY <1>1, <1>4, <2>2
    <2>3. CASE i # n /\ j # n
      BY <1>1, <1>4, <2>3 DEF PublisherOrder
    <2> QED
      BY <2>1, <2>2, <2>3
  <1> QED
    BY <1>1, <1>3, <1>4 DEF AtMostOnce, PublisherOrder

LEMMA ConnectInv ==
    ASSUME TypeOK, StreamInv, NEW w \in Sockets, Connect(w)
    PROVE  StreamInv'
  <1>1. /\ got[w] = <<>> /\ DOMAIN got[w] = {}
        /\ \A p \in Publishers, e \in Events : <<e, w>> \notin out[p]
    BY DEF StreamInv, Untouched, Connect
  <1>2. /\ \A v \in Sockets \ {w} : replay'[v] = replay[v] /\ joined'[v] = joined[v]
        /\ replay'[w] = buffer /\ joined'[w] = published
        /\ got' = got /\ out' = out /\ author' = author /\ Events' = Events
        /\ fresh' = fresh \ {w} /\ conns' = conns \cup {w}
    BY DEF Connect, TypeOK, Events
  <1>3. Untouched'
    BY <1>2 DEF StreamInv, Untouched, TypeOK
  <1>4. Buffered'
    <2>1. \A e \in buffer : e <= published
      BY DEF TypeOK, Events
    <2> QED
      BY <1>1, <1>2, <2>1 DEF StreamInv, Buffered
  <1>5. InFlight' /\ OneEvent'
    BY <1>1, <1>2 DEF StreamInv, InFlight, OneEvent
  <1>6. AtMostOnce' /\ PublisherOrder'
    BY <1>1, <1>2 DEF StreamInv, AtMostOnce, PublisherOrder
  <1> QED
    BY <1>3, <1>4, <1>5, <1>6 DEF StreamInv

LEMMA ReplayInv ==
    ASSUME TypeOK, StreamInv, NEW w \in Sockets, Replay(w)
    PROVE  StreamInv'
  <1>1. PICK e \in replay[w] :
          \/ Deliver(w, e) /\ replay' = [replay EXCEPT ![w] = @ \ {e}] /\ UNCHANGED conns
          \/ replay' = [replay EXCEPT ![w] = {}] /\ conns' = conns \ {w} /\ UNCHANGED got
    BY DEF Replay
  <1>2. /\ UNCHANGED <<out, fresh, joined, author, published>> /\ Events' = Events
        /\ e \in Events /\ w \notin fresh /\ e <= joined[w] /\ e \in Nat
        /\ conns' \subseteq conns /\ joined[w] \in Nat
    BY <1>1 DEF Replay, history, TypeOK, StreamInv, Untouched, Buffered, Events
  <1>3. CASE UNCHANGED got
    <2>1. \A v \in Sockets : replay'[v] \subseteq replay[v]
      BY <1>1, <1>3 DEF TypeOK
    <2>2. Untouched' /\ Buffered'
      BY <1>2, <1>3, <2>1 DEF StreamInv, Untouched, Buffered, TypeOK
    <2>3. InFlight' /\ OneEvent' /\ AtMostOnce' /\ PublisherOrder'
      BY <1>2, <1>3 DEF StreamInv, InFlight, OneEvent, AtMostOnce, PublisherOrder
    <2> QED
      BY <2>2, <2>3 DEF StreamInv
  <1>4. CASE Deliver(w, e) /\ replay' = [replay EXCEPT ![w] = @ \ {e}]
    <2>1. /\ \A v \in Sockets \ {w} : got'[v] = got[v] /\ replay'[v] = replay[v]
          /\ DOMAIN got'[w] = DOMAIN got[w] \cup {Len(got[w]) + 1}
          /\ \A i \in DOMAIN got[w] : got'[w][i] = got[w][i]
          /\ got'[w][Len(got[w]) + 1] = e /\ replay'[w] = replay[w] \ {e}
      BY <1>2, <1>4, Delivered DEF TypeOK
    <2>2. Untouched'
      BY <1>2, <2>1 DEF StreamInv, Untouched, TypeOK
    <2>3. Buffered'
      BY <1>2, <2>1 DEF StreamInv, Buffered
    <2>4. InFlight'
      <3>1. ASSUME NEW q \in Publishers, NEW d \in Events, NEW v \in Sockets,
                   <<d, v>> \in out[q], NEW i \in DOMAIN got'[v],
                   got'[v][i] > joined[v], author[got'[v][i]] = q
            PROVE  got'[v][i] < d
        <4>1. i \in DOMAIN got[v] /\ got'[v][i] = got[v][i]
          BY <1>2, <2>1, <3>1
        <4> QED
          BY <3>1, <4>1 DEF StreamInv, InFlight
      <3> QED
        BY <1>2, <3>1 DEF StreamInv, InFlight
    <2>5. OneEvent'
      <3>1. out' = out /\ Events' = Events
        BY <1>2
      <3>2. OneEvent
        BY DEF StreamInv
      <3> QED
        BY <3>1, <3>2 DEF OneEvent
    <2>6. AtMostOnce' /\ PublisherOrder'
      <3>1. ~(e > joined[w])
        BY <1>2
      <3> QED
        BY <1>1, <1>2, <1>4, <3>1, DeliverInOrder DEF StreamInv, Buffered
    <2> QED
      BY <2>2, <2>3, <2>4, <2>5, <2>6 DEF StreamInv
  <1> QED
    BY <1>1, <1>3, <1>4

LEMMA SendInv ==
    ASSUME TypeOK, StreamInv, NEW p \in Publishers, Send(p)
    PROVE  StreamInv'
  <1>1. PICK m \in out[p] :
          /\ out' = [out EXCEPT ![p] = @ \ {m}]
          /\ Deliver(m[2], m[1]) \/ UNCHANGED got
    BY DEF Send
  <1>2. PICK e \in Events, w \in Sockets : m = <<e, w>>
    BY <1>1 DEF TypeOK
  <1>3. /\ UNCHANGED <<replay, fresh, joined, author, published, conns>> /\ Events' = Events
    BY DEF Send, history, manager, Events
  <1>4. /\ \A q \in Publishers \ {p} : out'[q] = out[q]
        /\ out'[p] = out[p] \ {<<e, w>>} /\ <<e, w>> \in out[p]
        /\ Deliver(w, e) \/ UNCHANGED got
    BY <1>1, <1>2 DEF TypeOK
  <1>5. /\ \A q \in Publishers : out'[q] \subseteq out[q]
        /\ w \notin fresh
    BY <1>4 DEF StreamInv, Untouched
  <1>6. CASE UNCHANGED got
    <2>1. Untouched' /\ Buffered'
      BY <1>3, <1>5, <1>6 DEF StreamInv, Untouched, Buffered
    <2>2. AtMostOnce' /\ PublisherOrder'
      BY <1>3, <1>6 DEF StreamInv, AtMostOnce, PublisherOrder
    <2>3. InFlight' /\ OneEvent'
      BY <1>3, <1>5, <1>6, FewerInFlight DEF StreamInv
    <2> QED
      BY <2>1, <2>2, <2>3 DEF StreamInv
  <1>7. CASE Deliver(w, e)
    <2>1. /\ \A v \in Sockets \ {w} : got'[v] = got[v]
          /\ DOMAIN got'[w] = DOMAIN got[w] \cup {Len(got[w]) + 1}
          /\ \A i \in DOMAIN got[w] : got'[w][i] = got[w][i]
          /\ got'[w][Len(got[w]) + 1] = e
      BY <1>7, Delivered
    <2>2. /\ author[e] = p /\ e > joined[w]
          /\ \A i \in DOMAIN got[w] :
                got[w][i] > joined[w] /\ author[got[w][i]] = p => got[w][i] < e
      BY <1>4 DEF StreamInv, InFlight
    <2>3. e \in Nat /\ joined[w] \in Nat
      BY DEF TypeOK, Events
    <2>4. Untouched'
      <3>1. \A v \in fresh : v # w
        BY <1>5
      <3> QED
        BY <1>3, <1>5, <2>1, <3>1 DEF StreamInv, Untouched, TypeOK
    <2>5. Buffered'
      <3>1. \A d \in replay[w] : d # e
        BY <2>2, <2>3 DEF StreamInv, Buffered, TypeOK, Events
      <3> QED
        BY <1>3, <2>1, <3>1 DEF StreamInv, Buffered
    <2>6. InFlight'
      <3>1. ASSUME NEW q \in Publishers, NEW d \in Events, NEW v \in Sockets,
                   <<d, v>> \in out'[q]
            PROVE  <<d, v>> \in out[q] /\ ~(q = p /\ v = w)
        <4>1. <<d, v>> \in out[q]
          BY <1>5, <3>1
        <4>2. CASE q = p /\ v = w
          <5>1. d = e
            BY <1>4, <4>1, <4>2 DEF StreamInv, OneEvent
          <5>2. <<e, w>> \in out'[p]
            BY <3>1, <4>2, <5>1
          <5> QED
            BY <1>4, <5>2
        <4> QED
          BY <4>1, <4>2
      <3>2. ASSUME NEW q \in Publishers, NEW d \in Events, NEW v \in Sockets,
                   <<d, v>> \in out'[q], NEW i \in DOMAIN got'[v],
                   got'[v][i] > joined[v], author[got'[v][i]] = q
            PROVE  got'[v][i] < d
        <4>1. i \in DOMAIN got[v] /\ got'[v][i] = got[v][i]
          BY <2>1, <2>2, <3>1, <3>2
        <4> QED
          BY <3>1, <3>2, <4>1 DEF StreamInv, InFlight
      <3> QED
        BY <1>3, <3>1, <3>2 DEF StreamInv, InFlight
    <2>8. OneEvent'
      <3>1. ASSUME NEW q \in Publishers, NEW d \in Events, NEW v \in Sockets,
                   <<d, v>> \in out'[q]
            PROVE  <<d, v>> \in out[q]
        BY <1>5, <3>1
      <3> QED
        BY <1>3, <3>1 DEF StreamInv, OneEvent
    <2>7. AtMostOnce' /\ PublisherOrder'
      <3>1. \A i \in DOMAIN got[w] : got[w][i] # e
        BY <2>2, <2>3
      <3> QED
        BY <1>3, <1>7, <2>2, <3>1, DeliverInOrder DEF StreamInv
    <2> QED
      BY <2>4, <2>5, <2>6, <2>7, <2>8 DEF StreamInv
  <1> QED
    BY <1>4, <1>6, <1>7

LEMMA PublishInv ==
    ASSUME TypeOK, StreamInv, NEW p \in Publishers, Publish(p)
    PROVE  StreamInv'
  <1>1. /\ published' = published + 1 /\ published \in Nat
        /\ Events' = Events \cup {published'} /\ published' \notin Events
        /\ \A e \in Events : e \in Nat /\ e < published'
    BY EventsAssumption DEF TypeOK, Publish, NewEvent, Events
  <1>2. /\ UNCHANGED <<conns, replay, fresh, got, joined>>
        /\ \A q \in Publishers \ {p} : out'[q] = out[q]
        /\ out'[p] = {published'} \X conns
    BY DEF Publish, TypeOK
  <1>3. author'[published'] = p /\ \A e \in Events : author'[e] = author[e]
    BY <1>1 DEF Publish, NewEvent, Events
  <1>4. \A w \in Sockets : joined[w] \in Nat /\ joined[w] < published'
    BY <1>1 DEF TypeOK
  <1>5. \A w \in Sockets : \A i \in DOMAIN got[w] : got[w][i] \in Events
    BY Received
  <1>6. ASSUME NEW q \in Publishers, NEW e \in Events', NEW w \in Sockets,
               <<e, w>> \in out'[q]
        PROVE  \/ q # p /\ e \in Events /\ <<e, w>> \in out[q]
               \/ q = p /\ e = published' /\ w \in conns
    BY <1>2, <1>6 DEF TypeOK
  <1>7. Untouched'
    BY <1>2, <1>6 DEF StreamInv, Untouched, TypeOK
  <1>8. Buffered'
    BY <1>2 DEF StreamInv, Buffered
  <1>9. InFlight'
    <2>1. ASSUME NEW q \in Publishers, NEW e \in Events', NEW w \in Sockets,
                 <<e, w>> \in out'[q]
          PROVE  author'[e] = q /\ e > joined'[w]
      <3>1. CASE e \in Events /\ <<e, w>> \in out[q]
        BY <1>2, <1>3, <3>1 DEF StreamInv, InFlight
      <3>2. CASE q = p /\ e = published'
        BY <1>2, <1>3, <1>4, <3>2
      <3> QED
        BY <1>6, <2>1, <3>1, <3>2
    <2>2. ASSUME NEW q \in Publishers, NEW e \in Events', NEW w \in Sockets,
                 <<e, w>> \in out'[q], NEW i \in DOMAIN got'[w],
                 got'[w][i] > joined'[w], author'[got'[w][i]] = q
          PROVE  got'[w][i] < e
      <3>1. got'[w][i] = got[w][i] /\ got[w][i] \in Events /\ i \in DOMAIN got[w]
        BY <1>2, <1>5, <2>2
      <3>2. CASE e \in Events /\ <<e, w>> \in out[q]
        <4>1. author[got[w][i]] = q /\ got[w][i] > joined[w]
          BY <1>2, <1>3, <2>2, <3>1
        <4> QED
          BY <3>1, <3>2, <4>1 DEF StreamInv, InFlight
      <3>3. CASE e = published'
        BY <1>1, <3>1, <3>3
      <3> QED
        BY <1>6, <2>2, <3>2, <3>3
    <2> QED
      BY <2>1, <2>2 DEF InFlight
  <1>11. OneEvent'
    <2>1. ASSUME NEW q \in Publishers, NEW d \in Events', NEW e \in Events',
                 NEW v \in Sockets, NEW w \in Sockets,
                 <<d, v>> \in out'[q], <<e, w>> \in out'[q]
          PROVE  d = e
      <3>1. CASE q = p
        BY <1>6, <2>1, <3>1
      <3>2. CASE q # p
        BY <1>6, <2>1, <3>2 DEF StreamInv, OneEvent
      <3> QED
        BY <3>1, <3>2
    <2> QED
      BY <2>1 DEF OneEvent
  <1>10. AtMostOnce' /\ PublisherOrder'
    BY <1>2, <1>3, <1>5 DEF StreamInv, AtMostOnce, PublisherOrder
  <1> QED
    BY <1>7, <1>8, <1>9, <1>10, <1>11 DEF StreamInv

LEMMA NextStreamInv == TypeOK /\ StreamInv /\ [Next]_vars => StreamInv'
  <1> SUFFICES ASSUME TypeOK, StreamInv, [Next]_vars PROVE StreamInv'
    OBVIOUS
  <1>1. ASSUME UNCHANGED <<published, replay, fresh, got, joined, author>>,
               conns' \subseteq conns,
               \A q \in Publishers : out'[q] \subseteq out[q]
        PROVE  StreamInv'
    <2>1. Events' = Events
      BY <1>1 DEF Events
    <2>2. Untouched' /\ Buffered'
      BY <1>1, <2>1 DEF StreamInv, Untouched, Buffered
    <2>3. InFlight' /\ OneEvent'
      BY <1>1, FewerInFlight DEF StreamInv
    <2>4. AtMostOnce' /\ PublisherOrder'
      BY <1>1 DEF StreamInv, AtMostOnce, PublisherOrder
    <2> QED
      BY <2>2, <2>3, <2>4 DEF StreamInv
  <1>2. CASE UNCHANGED vars
    BY <1>1, <1>2 DEF vars, manager, sending, history
  <1>3. ASSUME NEW w \in Sockets, Leave(w) \/ Disconnect(w) PROVE StreamInv'
    BY <1>1, <1>3 DEF Leave, Disconnect, manager, sending, history
  <1>4. ASSUME NEW p \in Publishers, Finish(p) \/ Cancel(p) PROVE StreamInv'
    BY <1>1, <1>4 DEF Finish, Cancel, manager, history, TypeOK
  <1> QED
    BY <1>2, <1>3, <1>4, ConnectInv, ReplayInv, SendInv, PublishInv
    DEF Next, Subscriber, Publisher

\* Whatever the order of connections, publications, sends and cancellations: no
\* event reaches a socket twice.
THEOREM NothingTwice == Spec => []AtMostOnce
  <1>1. Init => TypeOK /\ StreamInv
    BY InitTypeOK DEF Init, StreamInv, Untouched, Buffered, InFlight, OneEvent,
       AtMostOnce, PublisherOrder, Events
  <1>2. (TypeOK /\ StreamInv) /\ [Next]_vars => (TypeOK /\ StreamInv)'
    BY NextTypeOK, NextStreamInv
  <1>3. StreamInv => AtMostOnce
    BY DEF StreamInv
  <1> QED
    BY <1>1, <1>2, <1>3, PTL DEF Spec

\* What a publisher emits while a socket is connected arrives in its order.
THEOREM InPublisherOrder == Spec => []PublisherOrder
  <1>1. Init => TypeOK /\ StreamInv
    BY InitTypeOK DEF Init, StreamInv, Untouched, Buffered, InFlight, OneEvent,
       AtMostOnce, PublisherOrder, Events
  <1>2. (TypeOK /\ StreamInv) /\ [Next]_vars => (TypeOK /\ StreamInv)'
    BY NextTypeOK, NextStreamInv
  <1>3. StreamInv => PublisherOrder
    BY DEF StreamInv
  <1> QED
    BY <1>1, <1>2, <1>3, PTL DEF Spec

-----------------------------------------------------------------------------
(* Completeness.                                                           *)

\* What a client has been sent, or is still to be sent.
Accounted(e, w) ==
    \/ \E i \in DOMAIN got[w] : got[w][i] = e
    \/ e \in replay[w]
    \/ \E p \in Publishers : <<e, w>> \in out[p]

LEMMA MissedStep == TypeOK /\ NothingMissed /\ [Next]_vars => NothingMissed'
  <1> SUFFICES ASSUME TypeOK, NothingMissed, [Next]_vars,
                      NEW w \in alive', NEW e \in owed'[w]
               PROVE  Accounted(e, w)'
    BY DEF NothingMissed, Accounted
  <1>1. w \in alive /\ w \in Sockets
    BY DEF TypeOK, Next, vars, Subscriber, Publisher, Connect, Replay, Leave, Disconnect,
       Publish, Send, Finish, Cancel
  <1>2. e \in owed[w] => Accounted(e, w)
    BY <1>1 DEF NothingMissed, Accounted
  <1>3. CASE UNCHANGED <<owed, got, replay, out>>
    BY <1>2, <1>3 DEF Accounted
  <1>4. ASSUME NEW v \in Sockets, Connect(v) PROVE Accounted(e, w)'
    <2>1. CASE v = w
      BY <1>1, <1>4, <2>1 DEF Connect, TypeOK, Accounted
    <2>2. CASE v # w
      BY <1>1, <1>2, <1>4, <2>2 DEF Connect, TypeOK, Accounted
    <2> QED
      BY <2>1, <2>2
  <1>5. ASSUME NEW v \in Sockets, Replay(v) PROVE Accounted(e, w)'
    <2>1. Accounted(e, w) /\ out' = out
      BY <1>2, <1>5 DEF Replay, history
    <2>2. PICK d \in replay[v] :
            \/ Deliver(v, d) /\ replay' = [replay EXCEPT ![v] = @ \ {d}]
            \/ v \notin alive /\ replay' = [replay EXCEPT ![v] = {}] /\ UNCHANGED got
      BY <1>5 DEF Replay
    <2>3. d \in Events
      BY <2>2 DEF TypeOK
    <2>4. CASE v # w
      <3>1. got'[w] = got[w] /\ replay'[w] = replay[w]
        BY <1>1, <2>2, <2>4 DEF Deliver, TypeOK
      <3> QED
        BY <2>1, <3>1 DEF Accounted
    <2>5. CASE v = w
      <3>1. Deliver(w, d) /\ replay'[w] = replay[w] \ {d}
        BY <1>1, <2>2, <2>5 DEF TypeOK
      <3>2. /\ DOMAIN got'[w] = DOMAIN got[w] \cup {Len(got[w]) + 1}
            /\ \A i \in DOMAIN got[w] : got'[w][i] = got[w][i]
            /\ got'[w][Len(got[w]) + 1] = d
        BY <1>1, <2>3, <3>1, Delivered
      <3> QED
        BY <2>1, <3>1, <3>2 DEF Accounted
    <2> QED
      BY <2>4, <2>5
  <1>6. ASSUME NEW p \in Publishers, Publish(p) PROVE Accounted(e, w)'
    <2>1. /\ \A q \in Publishers \ {p} : out'[q] = out[q]
          /\ out'[p] = {published'} \X conns /\ out[p] = {}
          /\ UNCHANGED <<got, replay>>
      BY <1>6 DEF Publish, Idle, TypeOK
    <2>2. e \in owed[w] \/ (e = published' /\ w \in conns)
      BY <1>1, <1>6 DEF Publish, NewEvent
    <2>3. CASE e \in owed[w]
      BY <1>2, <2>1, <2>3 DEF Accounted
    <2>4. CASE e = published' /\ w \in conns
      BY <2>1, <2>4 DEF Accounted
    <2> QED
      BY <2>2, <2>3, <2>4
  <1>7. ASSUME NEW p \in Publishers, Send(p) PROVE Accounted(e, w)'
    <2>1. Accounted(e, w) /\ replay' = replay
      BY <1>2, <1>7 DEF Send, history
    <2>2. PICK m \in out[p] :
            /\ out' = [out EXCEPT ![p] = @ \ {m}]
            /\ Deliver(m[2], m[1]) \/ (m[2] \notin alive /\ UNCHANGED got)
      BY <1>7 DEF Send
    <2>3. PICK d \in Events, v \in Sockets : m = <<d, v>>
      BY <2>2 DEF TypeOK
    <2>4. \A q \in Publishers : out[q] \subseteq out'[q] \cup {<<d, v>>}
      BY <2>2, <2>3 DEF TypeOK
    <2>5. CASE Deliver(v, d)
      <3>1. /\ \A u \in Sockets \ {v} : got'[u] = got[u]
            /\ DOMAIN got'[v] = DOMAIN got[v] \cup {Len(got[v]) + 1}
            /\ \A i \in DOMAIN got[v] : got'[v][i] = got[v][i]
            /\ got'[v][Len(got[v]) + 1] = d
        BY <2>5, Delivered
      <3>2. (\E i \in DOMAIN got[w] : got[w][i] = e) => \E i \in DOMAIN got'[w] : got'[w][i] = e
        BY <1>1, <3>1
      <3>3. ASSUME NEW q \in Publishers, <<e, w>> \in out[q]
            PROVE  <<e, w>> \in out'[q] \/ \E i \in DOMAIN got'[w] : got'[w][i] = e
        <4>1. CASE <<e, w>> = <<d, v>>
          BY <3>1, <4>1
        <4> QED
          BY <2>4, <3>3, <4>1
      <3> QED
        BY <2>1, <3>2, <3>3 DEF Accounted
    <2>6. CASE v \notin alive /\ UNCHANGED got
      BY <1>1, <2>1, <2>4, <2>6 DEF Accounted
    <2> QED
      BY <2>2, <2>3, <2>5, <2>6
  <1>8. ASSUME NEW p \in Publishers, Cancel(p) PROVE Accounted(e, w)'
    <2>1. /\ \A q \in Publishers \ {p} : out'[q] = out[q]
          /\ UNCHANGED <<got, replay>>
          /\ e \in owed[w] /\ <<e, w>> \notin out[p]
      <3>1. owed'[w] = owed[w] \ {m[1] : m \in {n \in out[p] : n[2] = w}}
        BY <1>1, <1>8 DEF Cancel
      <3>2. <<e, w>> \in out[p] => e \in {m[1] : m \in {n \in out[p] : n[2] = w}}
        OBVIOUS
      <3> QED
        BY <1>8, <3>1, <3>2 DEF Cancel, TypeOK
    <2> QED
      BY <1>2, <2>1 DEF Accounted
  <1>9. ASSUME NEW v \in Sockets, Leave(v) \/ Disconnect(v) PROVE Accounted(e, w)'
    BY <1>3, <1>9 DEF Leave, Disconnect, sending, history
  <1>10. ASSUME NEW p \in Publishers, Finish(p) PROVE Accounted(e, w)'
    BY <1>3, <1>10 DEF Finish, history
  <1>11. CASE UNCHANGED vars
    BY <1>3, <1>11 DEF vars, sending, history
  <1> QED
    BY <1>4, <1>5, <1>6, <1>7, <1>8, <1>9, <1>10, <1>11 DEF Next, Subscriber, Publisher

\* A client that stays gets all it was promised: every promised event was
\* received, or a replay or a publisher still has it.
THEOREM NothingLost == Spec => []NothingMissed
  <1>1. Init => TypeOK /\ NothingMissed
    BY InitTypeOK DEF Init, NothingMissed
  <1>2. (TypeOK /\ NothingMissed) /\ [Next]_vars => (TypeOK /\ NothingMissed)'
    BY NextTypeOK, MissedStep
  <1> QED
    BY <1>1, <1>2, PTL DEF Spec
=============================================================================
