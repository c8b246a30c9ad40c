----------------------------- MODULE Telemetry -----------------------------
(***************************************************************************)
(* The telemetry buffer of the control-plane client: report_detection,     *)
(* report_usage, _buffer_event, _flush_telemetry, _send_event_chunks and    *)
(* the flush of stop(), in src/src/aiproxyguard/control_plane.py.          *)
(*                                                                         *)
(* The lock is never held across an await and the critical sections and    *)
(* the finally block have none, so each of them is one step; the only      *)
(* awaits are the POSTs, and a step ends where the coroutine waits for     *)
(* one.  A flush runs in a reporter's task, in the heartbeat loop or in    *)
(* stop(), and stop() cancels only the heartbeat loop's.                   *)
(*                                                                         *)
(* An operator named Faulty... is a slip a change of the code could make;  *)
(* nothing here uses it (README.md).                                       *)
(***************************************************************************)
EXTENDS Integers, Sequences, SequencesExt, FiniteSetsExt, Selection

CONSTANTS
  Events,           \* events with distinct event_id
  UsageEvents,      \* those whose event_type is "usage"
  Threshold,        \* 50 in the code: a reporter flushes at this length
  Batch,            \* TELEMETRY_FLUSH_BATCH_SIZE
  BufferMax,        \* TELEMETRY_BUFFER_MAX
  Outages           \* whether the control plane may stop answering

\* The coroutine at its POST.
Flight == [owner : {"reporter", "heartbeat", "stop"},
           group : Seq(Events),   \* what is left of the group being sent
           later : Seq(Events)]   \* the groups after it

ASSUME TelemetryAssumption ==
  /\ UsageEvents \subseteq Events
  /\ Threshold \in Nat \ {0}
  /\ Batch \in Nat \ {0}
  /\ BufferMax \in Nat \ {0}
  /\ Outages \in BOOLEAN

VARIABLES
  buffer,    \* _telemetry_buffer
  flushing,  \* _flushing
  flights,   \* locals of every _flush_telemetry that is running
  phase,     \* of the client: running, stopping, stopped, exited
  beating,   \* the heartbeat loop has not ended
  cloud,     \* whether the control plane answers: "up" or "down"
  accepted,  \* history: the events in the order they were buffered
  acked,     \* history: events of the chunks answered 2xx
  lost       \* history: events given up

vars == <<buffer, flushing, flights, phase, beating, cloud, accepted, acked, lost>>

Init ==
  /\ buffer = <<>>
  /\ flushing = FALSE
  /\ flights = {}
  /\ phase = "running"
  /\ beating = TRUE
  /\ cloud = "up"
  /\ accepted = <<>>
  /\ acked = {}
  /\ lost = {}

----------------------------------------------------------------------------
(* Buffering.                                                              *)

Overflow(s) == IF Len(s) > BufferMax THEN Len(s) - BufferMax ELSE 0

\* del self._telemetry_buffer[:overflow]
Capped(s) == SubSeq(s, Overflow(s) + 1, Len(s))
Dropped(s) == ToSet(SubSeq(s, 1, Overflow(s)))

Detections == Events \ UsageEvents

FaultyNextGroup(f) == f

\* The groups of the code, the empty ones passed over.
NextGroup(f) == IF f.group = <<>> THEN [f EXCEPT !.group = f.later, !.later = <<>>] ELSE f

\* Swap the buffer out and post the first chunk.
TakeOff(owner, events) ==
  /\ buffer' = <<>>
  /\ flushing' = TRUE
  /\ flights' = flights \cup {NextGroup([owner |-> owner,
                                         group |-> Select(events, Detections),
                                         later |-> Select(events, UsageEvents)])}

FaultyReport(e) ==
  /\ phase # "exited"
  /\ e \notin ToSet(accepted)
  /\ accepted' = Append(accepted, e)
  /\ LET grown == Append(buffer, e)
     IN /\ lost' = lost \cup Dropped(grown)
        /\ IF Len(Capped(grown)) >= Threshold   \* no single-flight guard
           THEN TakeOff("reporter", Capped(grown))
           ELSE buffer' = Capped(grown) /\ UNCHANGED <<flushing, flights>>
  /\ UNCHANGED <<phase, beating, cloud, acked>>

\* report_detection or report_usage past their gates, and the flush they start.
Report(e) ==
  /\ phase # "exited"
  /\ e \notin ToSet(accepted)
  /\ accepted' = Append(accepted, e)
  /\ LET grown == Append(buffer, e)
     IN /\ lost' = lost \cup Dropped(grown)
        /\ IF Len(Capped(grown)) >= Threshold /\ ~flushing
           THEN TakeOff("reporter", Capped(grown))
           ELSE buffer' = Capped(grown) /\ UNCHANGED <<flushing, flights>>
  /\ UNCHANGED <<phase, beating, cloud, acked>>

\* A flush of this owner is running.
Flying(owner) == \E f \in flights : f.owner = owner

FaultyHeartbeatFlushes ==
  /\ phase = "running" /\ beating /\ ~Flying("heartbeat")
  /\ ~flushing /\ Len(buffer) >= Threshold
  /\ TakeOff("heartbeat", buffer)
  /\ UNCHANGED <<phase, beating, cloud, accepted, acked, lost>>

\* The flush of a heartbeat tick.
HeartbeatFlushes ==
  /\ phase = "running" /\ beating /\ ~Flying("heartbeat")
  /\ ~flushing /\ buffer # <<>>
  /\ TakeOff("heartbeat", buffer)
  /\ UNCHANGED <<phase, beating, cloud, accepted, acked, lost>>

----------------------------------------------------------------------------
(* The answer to a chunk.                                                  *)

Chunk(f) == SubSeq(f.group, 1, Min({Batch, Len(f.group)}))

\* The flight after its chunk was answered for good.
Shorter(f) == NextGroup([f EXCEPT !.group = SubSeq(@, Len(Chunk(f)) + 1, Len(@))])

FaultyUnsent(f) == f.later

\* What a transient failure keeps: the rest of the group, then the later ones.
Unsent(f) == f.group \o f.later

\* stop() goes on to close the client once its own flush has returned.
Returns(f) ==
  /\ flushing' = FALSE
  /\ flights' = flights \ {f}
  /\ phase' = IF f.owner = "stop" THEN "stopped" ELSE phase

FaultyLand(f, unsent) ==
  /\ buffer' = unsent \o buffer
  /\ lost' = lost
  /\ Returns(f)

FaultyOrder(f, unsent) ==
  LET back == buffer \o unsent
  IN /\ buffer' = Capped(back)
     /\ lost' = lost \cup Dropped(back)
     /\ Returns(f)

\* The finally block.
Land(f, unsent) ==
  LET back == unsent \o buffer
  IN /\ buffer' = Capped(back)
     /\ lost' = lost \cup Dropped(back)
     /\ Returns(f)

Continue(f) ==
  /\ buffer' = buffer
  /\ IF Shorter(f).group # <<>>
     THEN flights' = (flights \ {f}) \cup {Shorter(f)} /\ UNCHANGED <<flushing, phase>>
     ELSE Returns(f)

FaultyAcknowledged(f) ==
  /\ phase # "exited" /\ cloud = "up"
  /\ acked' = acked \cup ToSet(Chunk(f))
  /\ Land(f, Unsent(f))
  /\ UNCHANGED <<beating, cloud, accepted>>

\* 2xx
Acknowledged(f) ==
  /\ phase # "exited" /\ cloud = "up"
  /\ acked' = acked \cup ToSet(Chunk(f))
  /\ Continue(f)
  /\ UNCHANGED <<beating, cloud, accepted, lost>>

\* A 4xx other than 408 and 429: the chunk is dropped, the flush goes on.
Rejected(f) ==
  /\ phase # "exited" /\ cloud = "up"
  /\ lost' = lost \cup ToSet(Chunk(f))
  /\ Continue(f)
  /\ UNCHANGED <<beating, cloud, accepted, acked>>

\* 408, 429, 5xx or a network error.  The control plane may have received the
\* chunk although its answer did not arrive.
Fails(f) ==
  /\ phase # "exited" /\ cloud = "down"
  /\ Land(f, Unsent(f))
  /\ UNCHANGED <<beating, cloud, accepted, acked>>

\* What is in these flights.
Aboard(F) == UNION {ToSet(Unsent(f)) : f \in F}

\* Cancelled at the POST: the finally block with nothing to requeue.
Aborted(F) ==
  /\ lost' = lost \cup Aboard(F)
  /\ flushing' = IF F = {} THEN flushing ELSE FALSE
  /\ flights' = flights \ F

----------------------------------------------------------------------------
(* The end of the heartbeat loop, stop() and the end of the process.       *)

\* The key was revoked: the loop ends, reporters go on.
HeartbeatEnds ==
  /\ beating /\ phase = "running" /\ ~Flying("heartbeat")
  /\ beating' = FALSE
  /\ UNCHANGED <<buffer, flushing, flights, phase, cloud, accepted, acked, lost>>

\* stop() cancels the loop and waits for it.
StopCancels ==
  /\ phase = "running"
  /\ phase' = "stopping"
  /\ beating' = FALSE
  /\ Aborted({f \in flights : f.owner = "heartbeat"})
  /\ UNCHANGED <<buffer, cloud, accepted, acked>>

\* stop() flushes; with a flush in flight or an empty buffer it closes at once.
StopFlushes ==
  /\ phase = "stopping" /\ ~Flying("stop")
  /\ IF flushing \/ buffer = <<>>
     THEN phase' = "stopped" /\ UNCHANGED <<buffer, flushing, flights>>
     ELSE TakeOff("stop", buffer) /\ UNCHANGED phase
  /\ UNCHANGED <<beating, cloud, accepted, acked, lost>>

\* The event loop ends: the flushes in flight are cancelled, the buffer goes.
Exits ==
  /\ phase = "stopped"
  /\ phase' = "exited"
  /\ buffer' = <<>>
  /\ flushing' = FALSE
  /\ flights' = {}
  /\ lost' = lost \cup ToSet(buffer) \cup Aboard(flights)
  /\ UNCHANGED <<beating, cloud, accepted, acked>>

CloudChanges ==
  /\ Outages /\ phase # "exited"
  /\ cloud' = IF cloud = "up" THEN "down" ELSE "up"
  /\ UNCHANGED <<buffer, flushing, flights, phase, beating, accepted, acked, lost>>

----------------------------------------------------------------------------
Next ==
  \/ \E e \in Events : Report(e)
  \/ HeartbeatFlushes
  \/ \E f \in flights : Acknowledged(f) \/ Rejected(f) \/ Fails(f)
  \/ HeartbeatEnds \/ StopCancels \/ StopFlushes \/ Exits
  \/ CloudChanges

Spec == Init /\ [][Next]_vars

\* The POSTs end within the client's timeout of 30 seconds, and the heartbeat
\* loop sleeps, beats and flushes for as long as it lives.
FairSpec ==
  /\ Spec
  /\ WF_vars(\E f \in flights : Acknowledged(f) \/ Rejected(f) \/ Fails(f))
  /\ WF_vars(HeartbeatFlushes)

----------------------------------------------------------------------------
(* Properties.                                                             *)

\* The flush that is running; there is never another, see SingleFlight.
flight == CHOOSE f \in flights : TRUE

\* The events waiting, in the order in which they would be sent.
Line == IF flights = {} THEN buffer ELSE flight.group \o flight.later \o buffer

Held == ToSet(Line)

\* The type of every variable.
TypeOK ==
  /\ buffer \in Seq(Events)
  /\ flushing \in BOOLEAN
  /\ flights \in SUBSET Flight
  /\ \A f \in flights : f.group # <<>>
  /\ phase \in {"running", "stopping", "stopped", "exited"}
  /\ beating \in BOOLEAN
  /\ cloud \in {"up", "down"}
  /\ accepted \in Seq(Events)
  /\ acked \in SUBSET Events
  /\ lost \in SUBSET Events

\* The guard of single flight guards: of the reporters, the heartbeat loop and
\* stop(), no two ever run a flush at once, and the guard is "never left stuck True"
\* on any way out of one.
SingleFlight == IF flushing THEN \E f \in flights : flights = {f} ELSE flights = {}

\* Every event buffered is in one place: waiting once, or acknowledged, or
\* counted as given up.  None is duplicated by a requeue and none vanishes.
EveryEventInOnePlace ==
  /\ IsInjective(Line)
  /\ Held \cap (acked \cup lost) = {}
  /\ acked \cap lost = {}
  /\ ToSet(accepted) = Held \cup acked \cup lost

\* An unreachable control plane cannot grow the buffer past its maximum, the
\* requeue of a failed flush included.
BufferCapped == Len(buffer) <= BufferMax

SameKind(e, f) == e \in UsageEvents <=> f \in UsageEvents

\* Events of one kind are acknowledged in the order they were buffered, across
\* failed flushes, requeues and reports during a flush.
PerKindOrder ==
  \A j \in DOMAIN accepted : accepted[j] \in acked =>
    \A i \in 1 .. j - 1 : SameKind(accepted[i], accepted[j]) => accepted[i] \notin Held

\* The buffer implements the life of an event (TelemetryDelivery).
Delivery == INSTANCE TelemetryDelivery WITH
  status <- [e \in Events |-> IF e \in acked THEN "acked"
                              ELSE IF e \in lost THEN "lost"
                              ELSE IF e \in Held THEN "pending" ELSE "new"]
ImplementsDelivery == Delivery!Spec

\* Once the control plane answers for good and the heartbeat loop lives on, every
\* waiting event is acknowledged or rejected, however few are waiting.
EventuallySettled ==
  <>[](cloud = "up" /\ beating /\ phase = "running") =>
    \A e \in Events : e \in Held ~> e \notin Held
=============================================================================
