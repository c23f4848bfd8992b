----------------------------- MODULE ScanEvents -----------------------------
(***************************************************************************)
(* The progress of the scans of one module as it is streamed to the page:  *)
(* ScanEventManager with its buffer and queues (knowledge_engine/          *)
(* events.py), the stream (api/v1/knowledge_engine.py scan_stream) and the *)
(* page that starts a scan and then reads the stream (ScanExploreStep.tsx).*)
(*                                                                         *)
(* Events are numbered as they are published.  publish and subscribe do    *)
(* not give way once they have the lock, so each of them is one step.      *)
(***************************************************************************)
EXTENDS Naturals, SequencesExt

CONSTANTS
  Streams,
  Scans,     \* bound: scans started
  PerScan,   \* bound: events of a scan, its end among them
  BufferMax, \* 100
  QueueMax   \* 200

ScanEventsAssumption ==
  /\ Scans \in Nat \ {0} /\ PerScan \in Nat \ {0}
  /\ BufferMax \in Nat \ {0} /\ QueueMax \in Nat /\ BufferMax <= QueueMax

VARIABLES
  published, \* events published
  ends,      \* those that end a scan
  scans,     \* scans started
  running,   \* one is under way
  buffer,    \* _buffers of the module; nothing clears it
  queue,     \* of each stream: its queue
  state,     \* of each stream: "new", "open", "over"
  got,       \* of each stream: the events it passed on (history)
  full       \* streams whose queue was full when an event came (history)

vars == <<published, ends, scans, running, buffer, queue, state, got, full>>

Init ==
  /\ published = 0 /\ ends = {} /\ scans = 0 /\ running = FALSE
  /\ buffer = <<>>
  /\ queue = [s \in Streams |-> <<>>] /\ state = [s \in Streams |-> "new"]
  /\ got = [s \in Streams |-> <<>>] /\ full = {}

StartScan ==
  /\ ~running /\ scans < Scans
  /\ running' = TRUE /\ scans' = scans + 1
  /\ UNCHANGED <<published, ends, buffer, queue, state, got, full>>

\* MUTANT: the newest events are the ones that do not fit
Oldest(b) == SubSeq(b, 1, IF Len(b) > BufferMax THEN BufferMax ELSE Len(b))
\* del buffer[:-100]
Newest(b) == SubSeq(b, IF Len(b) > BufferMax THEN Len(b) - BufferMax + 1 ELSE 1, Len(b))

\* publish: an event for which a queue has no room is lost to that stream.
Publish(end) ==
  LET e == published + 1
      fits == {s \in Streams : state[s] = "open" /\ Len(queue[s]) < QueueMax}
  IN /\ running /\ (end \/ published + 1 < scans * PerScan)
     /\ published' = e
     /\ ends' = IF end THEN ends \union {e} ELSE ends
     /\ running' = ~end
     /\ buffer' = Newest(Append(buffer, e))
     /\ queue' = [s \in Streams |-> IF s \in fits THEN Append(queue[s], e) ELSE queue[s]]
     /\ full' = full \union {s \in Streams : state[s] = "open" /\ s \notin fits}
     /\ UNCHANGED <<scans, state, got>>

\* subscribe: the queue is registered, and has what the buffer holds, of earlier scans too.
Subscribe(s) ==
  /\ state[s] = "new"
  /\ state' = [state EXCEPT ![s] = "open"]
  /\ queue' = [queue EXCEPT ![s] = buffer]
  /\ UNCHANGED <<published, ends, scans, running, buffer, got, full>>

\* The first event that ends a scan, any scan, ends the stream.
PassOn(s) ==
  /\ state[s] = "open" /\ queue[s] # <<>>
  /\ LET e == Head(queue[s])
     IN /\ got' = [got EXCEPT ![s] = Append(@, e)]
        /\ IF e \in ends
           THEN /\ state' = [state EXCEPT ![s] = "over"] /\ queue' = [queue EXCEPT ![s] = <<>>]
           ELSE /\ queue' = [queue EXCEPT ![s] = Tail(@)] /\ UNCHANGED state
  /\ UNCHANGED <<published, ends, scans, running, buffer, full>>

\* The page goes away: unsubscribe.
Leave(s) ==
  /\ state[s] = "open"
  /\ state' = [state EXCEPT ![s] = "over"] /\ queue' = [queue EXCEPT ![s] = <<>>]
  /\ UNCHANGED <<published, ends, scans, running, buffer, got, full>>

Next ==
  \/ StartScan
  \/ \E end \in BOOLEAN : Publish(end)
  \/ \E s \in Streams : Subscribe(s) \/ PassOn(s) \/ Leave(s)

Spec == Init /\ [][Next]_vars

-----------------------------------------------------------------------------
(* Properties *)

ScanEventsTypeOK ==
  /\ published \in Nat /\ ends \subseteq 1..published /\ scans \in 0..Scans /\ running \in BOOLEAN
  /\ buffer \in Seq(1..published) /\ Len(buffer) <= BufferMax
  /\ \A s \in Streams : queue[s] \in Seq(1..published) /\ Len(queue[s]) <= QueueMax
  /\ state \in [Streams -> {"new", "open", "over"}]
  /\ \A s \in Streams : got[s] \in Seq(1..published)
  /\ full \subseteq Streams

\* What a stream passes on and what waits for it follow one another without a gap and without a
\* repetition, across the replay of the buffer, up to the newest event; only a full queue loses one.
Gapless ==
  \A s \in Streams : s \notin full =>
    LET all == got[s] \o queue[s]
    IN /\ \A i \in 1..(Len(all) - 1) : all[i + 1] = all[i] + 1
       /\ state[s] = "open" /\ all # <<>> => Last(all) = published

=============================================================================
