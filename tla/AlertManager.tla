---------------------------- MODULE AlertManager ----------------------------
(***************************************************************************)
(* internal/alerting: the Manager and the notifiers it holds.  One caller  *)
(* sends alerts, one after the other (SendBatch, Send) or one of them      *)
(* through SendAsync; others add, remove and close notifiers meanwhile.    *)
(* The list is guarded by an RWMutex; the calls of the notifiers are made  *)
(* outside of it, on a copy.                                               *)
(***************************************************************************)
EXTENDS Naturals, Sequences, FiniteSets, Notifiers

CONSTANTS
    Notifier,       \* notifiers, by name
    Slack,          \* those of Slack; the others are webhooks
    MaxNotifiers,   \* bound: length of the list
    MaxAlerts,      \* bound: alerts that are sent
    Manager         \* the name in the result that says there is no notifier

ASSUME NotifierAssumption == Manager \notin Notifier /\ IsFiniteSet(Notifier)
ASSUME SlackAssumption == Slack \subseteq Notifier
ASSUME BoundsAssumption == MaxNotifiers \in Nat /\ MaxAlerts \in Nat

VARIABLES
    notifiers,          \* m.notifiers
    made,               \* what the registry made of the configuration of each
    continueOnError,    \* m.config.ContinueOnError
    batch,              \* the caller: its place, its copy, the results of one Send
    async,              \* the goroutine of SendAsync: its place and its copy
    sender,             \* sender[i]: the goroutine for the i-th entry of the copy
    capacity,           \* of the result channel
    buffer,             \* results in the channel
    received,           \* results its reader has taken out
    reading             \* does somebody still receive from the channel?

config  == <<made, continueOnError>>
channel == <<capacity, buffer, received, reading>>
vars == <<notifiers, config, batch, async, sender, channel>>

-----------------------------------------------------------------------------
Result == [notifier : Notifier \cup {Manager}, success : BOOLEAN]

Kind(n) == IF n \in Slack THEN "slack" ELSE "webhook"

\* IsEnabled: settled when the notifier is made.
enabled == {n \in Notifier : made[n] = "enabled"}

\* The error of a notifier that was called.
Succeeds(n, answer) == SendError(Kind(n), n \in enabled, answer) = "none"

NoNotifiers == [notifier |-> Manager, success |-> FALSE]

Init ==
    /\ \E setting \in [Notifier -> Settings] :
          made = [n \in Notifier |-> Create(Kinds, Kind(n), setting[n])]
    /\ notifiers \in UNION {[1..k -> {n \in Notifier : made[n] # "error"}] : k \in 0..MaxNotifiers}
    /\ continueOnError \in BOOLEAN
    /\ batch = [pc |-> "next", alerts |-> MaxAlerts, copy |-> <<>>, next |-> 1, results |-> <<>>]
    /\ async = [pc |-> "idle", copy |-> <<>>]
    /\ sender = [i \in 1..MaxNotifiers |-> "none"]
    /\ capacity = 0 /\ buffer = <<>> /\ received = <<>>
    /\ reading = TRUE

-----------------------------------------------------------------------------
(* Changes of the list, each under the lock.                               *)

\* CreateNotifier adds one when it could be made.
AddNotifier(n) ==
    /\ made[n] # "error"
    /\ Len(notifiers) < MaxNotifiers
    /\ notifiers' = Append(notifiers, n)
    /\ UNCHANGED <<config, batch, async, sender, channel>>

\* The others are kept, in their order.
RemoveNotifier(n) ==
    /\ LET others == {i \in 1..Len(notifiers) : notifiers[i] # n} IN
       \E kept \in [1..Cardinality(others) -> others] :
          /\ \A j, k \in DOMAIN kept : j < k => kept[j] < kept[k]
          /\ notifiers' = [j \in DOMAIN kept |-> notifiers[kept[j]]]
    /\ UNCHANGED <<config, batch, async, sender, channel>>

Close ==
    /\ notifiers' = <<>>
    /\ UNCHANGED <<config, batch, async, sender, channel>>

-----------------------------------------------------------------------------
(* SendBatch calls Send for one alert after the other.                     *)

\* Send: copy the list under the lock; one result when it is empty, none for
\* an alert below the minimum severity (severe says which it is).
StartSend(severe) ==
    /\ batch.pc = "next" /\ batch.alerts > 0
    /\ batch' =
         IF notifiers = <<>>
         THEN [batch EXCEPT !.alerts = @ - 1, !.results = <<NoNotifiers>>]
         ELSE IF ~severe
         THEN [batch EXCEPT !.alerts = @ - 1, !.results = <<>>]
         ELSE [batch EXCEPT !.pc = "sending", !.copy = notifiers, !.next = 1, !.results = <<>>]
    /\ UNCHANGED <<notifiers, config, async, sender, channel>>

\* Faulty: the loop indexes the list of the manager.
SendNextLive(answer) ==
    /\ batch.pc = "sending" /\ batch.next <= Len(batch.copy)
    /\ batch.next <= Len(notifiers)
    /\ LET n == notifiers[batch.next]
           success == Succeeds(n, answer)
       IN  batch' =
             [batch EXCEPT
                !.results = IF n \in enabled
                            THEN Append(@, [notifier |-> n, success |-> success]) ELSE @,
                !.next = IF n \in enabled /\ ~success /\ ~continueOnError
                         THEN Len(batch.copy) + 1 ELSE @ + 1]
    /\ UNCHANGED <<notifiers, config, async, sender, channel>>

\* One turn of the loop: a disabled notifier is passed over; the first error
\* ends the loop unless the manager is to continue on errors.
SendNext(answer) ==
    /\ batch.pc = "sending" /\ batch.next <= Len(batch.copy)
    /\ LET n == batch.copy[batch.next]
           success == Succeeds(n, answer)
       IN  batch' =
             [batch EXCEPT
                !.results = IF n \in enabled
                            THEN Append(@, [notifier |-> n, success |-> success]) ELSE @,
                !.next = IF n \in enabled /\ ~success /\ ~continueOnError
                         THEN Len(batch.copy) + 1 ELSE @ + 1]
    /\ UNCHANGED <<notifiers, config, async, sender, channel>>

\* Send returns and SendBatch takes the next alert.
FinishSend ==
    /\ batch.pc = "sending" /\ batch.next > Len(batch.copy)
    /\ batch' = [batch EXCEPT !.pc = "next", !.alerts = @ - 1]
    /\ UNCHANGED <<notifiers, config, async, sender, channel>>

-----------------------------------------------------------------------------
(* SendAsync.                                                              *)

\* The channel gets room for one result per notifier: the length is read
\* without the lock, before the goroutine copies the list.
SendAsync ==
    /\ async.pc = "idle" /\ batch.pc = "next" /\ batch.alerts > 0
    /\ async' = [async EXCEPT !.pc = "copy"]
    /\ batch' = [batch EXCEPT !.alerts = @ - 1]
    /\ capacity' = Len(notifiers)
    /\ UNCHANGED <<notifiers, config, sender, buffer, received, reading>>

\* The goroutine copies the list under the lock and starts one goroutine for
\* each enabled notifier; without a notifier it has a result of its own, for
\* an alert below the minimum severity there is nothing to do.
CopyList(severe) ==
    /\ async.pc = "copy"
    /\ IF notifiers = <<>> \/ ~severe
       THEN /\ async' = [async EXCEPT !.pc = IF notifiers = <<>> THEN "none" ELSE "ended"]
            /\ UNCHANGED sender
       ELSE /\ async' = [pc |-> "sending", copy |-> notifiers]
            /\ sender' = [i \in 1..MaxNotifiers |->
                             IF i <= Len(notifiers) /\ notifiers[i] \in enabled
                             THEN "calling" ELSE "none"]
    /\ UNCHANGED <<notifiers, config, batch, channel>>

\* A send on the channel: into the buffer, or, without one, to a reader.
Put(result) ==
    \/ /\ Len(buffer) < capacity
       /\ buffer' = Append(buffer, result)
       /\ UNCHANGED <<capacity, received, reading>>
    \/ /\ capacity = 0 /\ reading
       /\ received' = Append(received, result)
       /\ UNCHANGED <<capacity, buffer, reading>>

\* Faulty: the result is meant for the buffer, and there is none.
ReportNoneBuffered ==
    /\ async.pc = "none"
    /\ Len(buffer) < capacity
    /\ buffer' = Append(buffer, NoNotifiers)
    /\ async' = [async EXCEPT !.pc = "ended"]
    /\ UNCHANGED <<notifiers, config, batch, sender, capacity, received, reading>>

\* There was no notifier to call.
ReportNone ==
    /\ async.pc = "none"
    /\ Put(NoNotifiers)
    /\ async' = [async EXCEPT !.pc = "ended"]
    /\ UNCHANGED <<notifiers, config, batch, sender>>

\* The notifier answered, with an error or without.
CallReturns(i, answer) ==
    /\ sender[i] = "calling"
    /\ sender' = [sender EXCEPT ![i] = IF Succeeds(async.copy[i], answer) THEN "succeeded" ELSE "failed"]
    /\ UNCHANGED <<notifiers, config, batch, async, channel>>

\* The goroutine puts its one result, then wg.Done.
PutResult(i) ==
    /\ sender[i] \in {"succeeded", "failed"}
    /\ Put([notifier |-> async.copy[i], success |-> sender[i] = "succeeded"])
    /\ sender' = [sender EXCEPT ![i] = "done"]
    /\ UNCHANGED <<notifiers, config, batch, async>>

\* Faulty: the goroutine does not wait for the others.
CloseChannelAtOnce ==
    /\ async.pc \in {"sending", "ended"}
    /\ async' = [async EXCEPT !.pc = "closed"]
    /\ UNCHANGED <<notifiers, config, batch, sender, channel>>

\* wg.Wait, then the deferred close.
CloseChannel ==
    /\ async.pc \in {"sending", "ended"}
    /\ \A i \in 1..MaxNotifiers : sender[i] \in {"none", "done"}
    /\ async' = [async EXCEPT !.pc = "closed"]
    /\ UNCHANGED <<notifiers, config, batch, sender, channel>>

Receive ==
    /\ reading /\ buffer # <<>>
    /\ received' = Append(received, Head(buffer))
    /\ buffer' = Tail(buffer)
    /\ UNCHANGED <<notifiers, config, batch, async, sender, capacity, reading>>

\* The caller of SendAsync loses interest.
StopReading ==
    /\ reading
    /\ reading' = FALSE
    /\ UNCHANGED <<notifiers, config, batch, async, sender, capacity, buffer, received>>

-----------------------------------------------------------------------------
Change == (\E n \in Notifier : AddNotifier(n) \/ RemoveNotifier(n)) \/ Close

SendBatch ==
    \/ \E severe \in BOOLEAN : StartSend(severe)
    \/ \E answer \in Answers : SendNext(answer)
    \/ FinishSend

Goroutine == (\E severe \in BOOLEAN : CopyList(severe)) \/ ReportNone \/ CloseChannel

Sender(i) == (\E answer \in Answers : CallReturns(i, answer)) \/ PutResult(i)

Next ==
    \/ Change \/ SendBatch
    \/ SendAsync \/ Goroutine
    \/ \E i \in 1..MaxNotifiers : Sender(i)
    \/ Receive \/ StopReading

\* Goroutines are scheduled and HTTP calls have timeouts.  A reader that has
\* not stopped receives what there is.
Fairness ==
    /\ WF_vars(Goroutine)
    /\ \A i \in 1..MaxNotifiers : WF_vars(Sender(i))
    /\ WF_vars(Receive)
    /\ WF_vars(SendBatch)

Spec == Init /\ [][Next]_vars /\ Fairness

-----------------------------------------------------------------------------
(* What must hold.                                                         *)

Lists == UNION {[1..n -> Notifier] : n \in 0..MaxNotifiers}

Senders == {i \in 1..MaxNotifiers : sender[i] \in {"calling", "succeeded", "failed"}}

\* Also the channel keeps within its capacity.
TypeOK ==
    /\ notifiers \in Lists
    /\ batch \in [pc : {"next", "sending"}, alerts : 0..MaxAlerts, copy : Lists,
                  next : 1..(MaxNotifiers + 1), results : Seq(Result)]
    /\ async \in [pc : {"idle", "copy", "none", "sending", "ended", "closed"}, copy : Lists]
    /\ sender \in [1..MaxNotifiers -> {"none", "calling", "succeeded", "failed", "done"}]
    /\ buffer \in Seq(Result) /\ received \in Seq(Result)
    /\ capacity \in 0..MaxNotifiers /\ Len(buffer) <= capacity

\* The results of Send are those of the enabled notifiers of its copy, in
\* order and without gaps, although the list changes during the calls; and a
\* manager that does not continue on errors has at most its last one failed.
SendFollowsCopy ==
    batch.pc = "sending" =>
        LET wanted == {i \in 1..Len(batch.copy) : batch.copy[i] \in enabled}
            place(i) == Cardinality({k \in wanted : k <= i})
            failed == {i \in 1..Len(batch.results) : ~batch.results[i].success}
        IN  /\ Len(batch.results) <= Cardinality(wanted)
            /\ \A i \in wanted : place(i) <= Len(batch.results) =>
                  batch.results[place(i)].notifier = batch.copy[i]
            /\ batch.next > Len(batch.copy) /\ (continueOnError \/ failed = {}) =>
                  Len(batch.results) = Cardinality(wanted)
            /\ ~continueOnError => failed \subseteq {Len(batch.results)}

\* When the channel is closed nobody is left to send on it, and its reader
\* has got, or still finds, one result for each enabled entry of the copy.
ClosedIsComplete ==
    async.pc = "closed" =>
        /\ Senders = {}
        /\ LET all == received \o buffer
           IN  \A n \in enabled :
                  Cardinality({i \in 1..Len(all) : all[i].notifier = n})
                    = Cardinality({i \in 1..Len(async.copy) : async.copy[i] = n})

\* The channel of SendAsync is closed, whatever is added or removed meanwhile
\* and whatever the services answer: always if its reader stays, and without
\* one if there was room for all that were called.
AsyncEnds ==
    /\ (async.pc # "idle") ~> (async.pc = "closed" \/ ~reading)
    /\ (async.pc = "sending" /\ Len(async.copy) <= capacity) ~> (async.pc = "closed")
=============================================================================
