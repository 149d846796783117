--------------------------- MODULE ChannelReporter --------------------------
(***************************************************************************)
(* internal/progress: a reporter that sends events through a buffered      *)
(* channel.  Sending and closing hold the reporter's mutex, so each is one *)
(* step; a full channel drops the event.                                   *)
(***************************************************************************)
EXTENDS Naturals, Sequences

CONSTANTS
    Stage,          \* stage names
    BufferSize      \* capacity of the channel

ASSUME BufferAssumption == BufferSize \in Nat \ {0}

VARIABLES
    buffer,     \* events in the channel, oldest first
    closed,     \* the closed flag, set with close(r.events)
    panicked    \* has something been sent on the closed channel?

channel == <<buffer, closed, panicked>>

-----------------------------------------------------------------------------
(* Events, reduced to what the TUI looks at.                               *)

Ended == {"success", "failed", "skipped"}

StageStarted(s)         == [type |-> "StageStarted", stage |-> s]
StageCompleted(s, r)    == [type |-> "StageCompleted", stage |-> s, status |-> r]
FindingDiscovered       == [type |-> "FindingDiscovered"]
PipelineCompleted(err)  == [type |-> "PipelineCompleted", error |-> err]

Event == {StageStarted(s) : s \in Stage} \cup {FindingDiscovered}
         \cup {StageCompleted(s, r) : s \in Stage, r \in Ended}
         \cup {PipelineCompleted(err) : err \in BOOLEAN}

ChannelInit == buffer = <<>> /\ closed = FALSE /\ panicked = FALSE

\* Faulty: the closed flag is not looked at.
sendUnchecked(event) ==
    /\ buffer' = IF ~closed /\ Len(buffer) < BufferSize THEN Append(buffer, event) ELSE buffer
    /\ panicked' = (panicked \/ closed)
    /\ UNCHANGED closed

\* Faulty: a full channel blocks the sender.
sendBlocking(event) ==
    /\ closed \/ Len(buffer) < BufferSize
    /\ buffer' = IF closed THEN buffer ELSE Append(buffer, event)
    /\ UNCHANGED <<closed, panicked>>

\* Nothing after Close; the event is dropped when the channel is full.
send(event) ==
    /\ buffer' = IF ~closed /\ Len(buffer) < BufferSize THEN Append(buffer, event) ELSE buffer
    /\ UNCHANGED <<closed, panicked>>

\* The channel is closed once; what it holds can still be received.
Close ==
    /\ closed' = TRUE
    /\ UNCHANGED <<buffer, panicked>>
=============================================================================
