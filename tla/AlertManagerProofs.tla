------------------------- MODULE AlertManagerProofs -------------------------
(***************************************************************************)
(* Theorems about AlertManager, for every set of notifiers, every length   *)
(* of the list and every number of alerts.                                 *)
(***************************************************************************)
EXTENDS AlertManager, FiniteSetTheorems, SequenceTheorems, TLAPS

-----------------------------------------------------------------------------
(* Lists of notifiers.                                                     *)

LEMMA ListFacts ==
    ASSUME NEW q \in Lists
    PROVE  /\ q \in Seq(Notifier) /\ Len(q) \in 0..MaxNotifiers
           /\ DOMAIN q = 1..Len(q) /\ \A i \in 1..Len(q) : q[i] \in Notifier
<1>1. PICK k \in 0..MaxNotifiers : q \in [1..k -> Notifier]
  BY DEF Lists
<1>2. k \in Nat
  BY <1>1, BoundsAssumption
<1>3. q \in Seq(Notifier) /\ Len(q) = k
  BY <1>1, <1>2, SeqDef, LenProperties
<1> QED
  BY <1>1, <1>3

LEMMA ShortList ==
    ASSUME NEW q \in Seq(Notifier), Len(q) <= MaxNotifiers
    PROVE  q \in Lists
<1>1. q \in [1..Len(q) -> Notifier] /\ Len(q) \in Nat
  BY LenProperties
<1>2. Len(q) \in 0..MaxNotifiers
  BY <1>1, BoundsAssumption
<1> QED
  BY <1>1, <1>2 DEF Lists

LEMMA EmptyList == <<>> \in Lists /\ Len(<<>>) = 0
<1>1. <<>> \in Seq(Notifier) /\ Len(<<>>) = 0
  BY EmptySeq
<1>2. 0 <= MaxNotifiers
  BY BoundsAssumption
<1> QED
  BY <1>1, <1>2, ShortList

LEMMA RemovedList ==
    ASSUME NEW q \in Lists, NEW n,
           NEW kept \in [1..Cardinality({i \in 1..Len(q) : q[i] # n}) -> {i \in 1..Len(q) : q[i] # n}]
    PROVE  [j \in DOMAIN kept |-> q[kept[j]]] \in Lists
<1> DEFINE others == {i \in 1..Len(q) : q[i] # n}
<1>1. Len(q) \in Nat /\ Len(q) <= MaxNotifiers
  BY ListFacts, BoundsAssumption
<1>2. IsFiniteSet(1..Len(q)) /\ Cardinality(1..Len(q)) = Len(q)
  BY <1>1, FS_Interval
<1>3. IsFiniteSet(others) /\ Cardinality(others) <= Len(q)
  BY <1>2, FS_Subset
<1>4. Cardinality(others) \in 0..MaxNotifiers
  BY <1>1, <1>3, FS_CardinalityType, BoundsAssumption
<1>5. [j \in DOMAIN kept |-> q[kept[j]]] \in [1..Cardinality(others) -> Notifier]
  BY ListFacts
<1> QED
  BY <1>4, <1>5 DEF Lists

-----------------------------------------------------------------------------
(* The parts of the state that each step leaves alone.                     *)

LEMMA TypeParts ==
    ASSUME TypeOK
    PROVE  /\ notifiers \in Lists /\ batch.copy \in Lists /\ async.copy \in Lists
           /\ batch.next \in 1..(MaxNotifiers + 1) /\ batch.results \in Seq(Result)
           /\ batch.alerts \in 0..MaxAlerts
           /\ buffer \in Seq(Result) /\ received \in Seq(Result)
           /\ capacity \in 0..MaxNotifiers /\ Len(buffer) <= capacity /\ Len(buffer) \in Nat
<1>1. buffer \in Seq(Result)
  BY DEF TypeOK
<1> QED
  BY <1>1, LenProperties DEF TypeOK

LEMMA NoNotifiersType == NoNotifiers \in Result /\ \A n \in Notifier : NoNotifiers.notifier # n
BY NotifierAssumption DEF NoNotifiers, Result

LEMMA PutFacts ==
    ASSUME TypeOK, NEW r \in Result, Put(r)
    PROVE  /\ buffer' \in Seq(Result) /\ received' \in Seq(Result)
           /\ capacity' = capacity /\ Len(buffer') <= capacity
           /\ received' \o buffer' = Append(received \o buffer, r)
           /\ reading' = reading
<1>1. /\ buffer \in Seq(Result) /\ received \in Seq(Result) /\ Len(buffer) \in Nat
      /\ Len(buffer) <= capacity /\ capacity \in Nat
  BY TypeParts, BoundsAssumption
<1>2. CASE Len(buffer) < capacity /\ buffer' = Append(buffer, r) /\ UNCHANGED <<capacity, received, reading>>
  <2>1. buffer' \in Seq(Result) /\ Len(buffer') = Len(buffer) + 1
    BY <1>1, <1>2, AppendProperties
  <2>2. <<r>> \in Seq(Result)
    OBVIOUS
  <2>3. buffer' = buffer \o <<r>> /\ received \o buffer \in Seq(Result)
    BY <1>1, <1>2, AppendIsConcat, ConcatProperties
  <2>4. received \o buffer' = (received \o buffer) \o <<r>>
    BY <1>1, <2>2, <2>3, ConcatAssociative
  <2> QED
    BY <1>1, <1>2, <2>1, <2>3, <2>4, AppendIsConcat, SMTT(30)
<1>3. CASE capacity = 0 /\ received' = Append(received, r) /\ UNCHANGED <<capacity, buffer, reading>>
  <2>1. buffer = <<>>
    BY <1>1, <1>3, EmptySeq
  <2>2. received' \in Seq(Result)
    BY <1>1, <1>3, AppendProperties
  <2>3. received \o buffer = received /\ received' \o buffer = received'
    BY <1>1, <2>1, <2>2, ConcatEmptySeq
  <2> QED
    BY <1>1, <1>3, <2>2, <2>3
<1> QED
  BY <1>2, <1>3 DEF Put

\* Nothing is lost between the buffer and the reader.
LEMMA ReceiveFacts ==
    ASSUME TypeOK, Receive
    PROVE  /\ buffer' \in Seq(Result) /\ received' \in Seq(Result) /\ Len(buffer') <= capacity
           /\ received' \o buffer' = received \o buffer
<1>1. /\ buffer \in Seq(Result) /\ received \in Seq(Result) /\ buffer # <<>>
      /\ received' = Append(received, Head(buffer)) /\ buffer' = Tail(buffer)
      /\ Len(buffer) <= capacity /\ capacity \in Nat /\ Len(received) \in Nat /\ Len(buffer) \in Nat
  BY TypeParts, BoundsAssumption, LenProperties DEF Receive
<1>2. /\ Head(buffer) \in Result /\ Tail(buffer) \in Seq(Result) /\ Len(Tail(buffer)) = Len(buffer) - 1
      /\ \A i \in 1..Len(Tail(buffer)) : Tail(buffer)[i] = buffer[i + 1]
  BY <1>1, HeadTailProperties
<1>3. /\ received' \in Seq(Result) /\ Len(received') = Len(received) + 1
      /\ \A i \in 1..Len(received) : received'[i] = received[i]
      /\ received'[Len(received) + 1] = Head(buffer)
  BY <1>1, <1>2, AppendProperties
<1>4. Head(buffer) = buffer[1]
  BY <1>1
<1> DEFINE s == received' \o buffer'
           t == received \o buffer
<1>5. /\ s \in Seq(Result) /\ Len(s) = Len(received) + Len(buffer)
      /\ \A i \in 1..(Len(received) + Len(buffer)) :
            s[i] = IF i <= Len(received) + 1 THEN received'[i] ELSE Tail(buffer)[i - (Len(received) + 1)]
  BY <1>1, <1>2, <1>3, ConcatProperties
<1>6. /\ t \in Seq(Result) /\ Len(t) = Len(received) + Len(buffer)
      /\ \A i \in 1..(Len(received) + Len(buffer)) :
            t[i] = IF i <= Len(received) THEN received[i] ELSE buffer[i - Len(received)]
  BY <1>1, ConcatProperties
<1> HIDE DEF s, t
<1>7. ASSUME NEW i \in 1..Len(s) PROVE s[i] = t[i]
  <2>1. CASE i <= Len(received)
    BY <1>1, <1>3, <1>5, <1>6, <2>1
  <2>2. CASE i = Len(received) + 1
    <3>1. s[i] = received'[Len(received) + 1]
      BY <1>5, <2>2
    <3>a. i \in 1..(Len(received) + Len(buffer)) /\ ~(i <= Len(received)) /\ i - Len(received) = 1
      BY <1>1, <1>5, <2>2
    <3>2. t[i] = buffer[i - Len(received)] /\ i - Len(received) = 1
      BY <1>6, <3>a
    <3> QED
      BY <1>3, <1>4, <3>1, <3>2
  <2>3. CASE i > Len(received) + 1
    <3>1. i - (Len(received) + 1) \in 1..Len(Tail(buffer))
      BY <1>1, <1>2, <1>5, <2>3
    <3>2. Tail(buffer)[i - (Len(received) + 1)] = buffer[(i - (Len(received) + 1)) + 1]
      BY <1>2, <3>1
    <3>3. (i - (Len(received) + 1)) + 1 = i - Len(received)
      BY <1>1, <1>5
    <3>4. s[i] = Tail(buffer)[i - (Len(received) + 1)] /\ t[i] = buffer[i - Len(received)]
      BY <1>1, <1>5, <1>6, <2>3
    <3> QED
      BY <3>2, <3>3, <3>4
  <2> QED
    BY <1>1, <1>5, <2>1, <2>2, <2>3
<1>8. s = t
  BY <1>5, <1>6, <1>7, SeqEqual
<1> QED
  BY <1>1, <1>2, <1>3, <1>8 DEF s, t

-----------------------------------------------------------------------------
(* Type correctness, with the facts on control that it needs: only a       *)
(* caller with an alert left is sending, the channel is not made before    *)
(* SendAsync, there is one goroutine for each enabled entry of the copy    *)
(* and none is left when the channel is closed.                            *)

Control ==
    /\ batch.pc = "sending" => batch.alerts > 0
    /\ async.pc = "idle" => capacity = 0
    /\ async.pc \in {"idle", "copy", "none"} => async.copy = <<>>
    /\ \A i \in 1..MaxNotifiers :
          sender[i] # "none" <=> i <= Len(async.copy) /\ async.copy[i] \in enabled
    /\ async.pc = "closed" => Senders = {}

LEMMA TypeKept ==
    ASSUME TypeOK, notifiers' \in Lists,
           batch' \in [pc : {"next", "sending"}, alerts : 0..MaxAlerts, copy : Lists,
                       next : 1..(MaxNotifiers + 1), results : Seq(Result)],
           async' \in [pc : {"idle", "copy", "none", "sending", "ended", "closed"}, copy : Lists],
           sender' \in [1..MaxNotifiers -> {"none", "calling", "succeeded", "failed", "done"}],
           buffer' \in Seq(Result), received' \in Seq(Result), capacity' \in 0..MaxNotifiers,
           Len(buffer') <= capacity'
    PROVE  TypeOK'
BY DEF TypeOK

LEMMA SendNextType ==
    ASSUME TypeOK, NEW answer, SendNext(answer)
    PROVE  batch' \in [pc : {"next", "sending"}, alerts : 0..MaxAlerts, copy : Lists,
                       next : 1..(MaxNotifiers + 1), results : Seq(Result)]
<1> DEFINE n == batch.copy[batch.next]
           success == Succeeds(n, answer)
           results == IF n \in enabled THEN Append(batch.results, [notifier |-> n, success |-> success])
                      ELSE batch.results
           next == IF n \in enabled /\ ~success /\ ~continueOnError
                   THEN Len(batch.copy) + 1 ELSE batch.next + 1
<1>1. batch' = [batch EXCEPT !.results = results, !.next = next]
  BY DEF SendNext
<1>2. /\ batch.copy \in Lists /\ Len(batch.copy) \in 0..MaxNotifiers /\ MaxNotifiers \in Nat
      /\ batch.next \in 1..(MaxNotifiers + 1) /\ batch.next <= Len(batch.copy)
      /\ \A i \in 1..Len(batch.copy) : batch.copy[i] \in Notifier
  BY TypeParts, ListFacts, BoundsAssumption DEF SendNext
<1>3. batch.next \in 1..Len(batch.copy)
  BY <1>2
<1>4. n \in Notifier /\ success \in BOOLEAN
  BY <1>2, <1>3 DEF Succeeds
<1>5. results \in Seq(Result)
  <2>1. [notifier |-> n, success |-> success] \in Result
    BY <1>4 DEF Result
  <2> HIDE DEF n, success
  <2> QED
    BY <2>1, TypeParts, AppendProperties
<1>6. next \in 1..(MaxNotifiers + 1)
  BY <1>2, <1>3
<1> HIDE DEF results, next
<1> QED
  BY <1>1, <1>5, <1>6 DEF TypeOK

LEMMA TypeNext == TypeOK /\ Control /\ [Next]_vars => TypeOK'
<1> SUFFICES ASSUME TypeOK, Control, [Next]_vars PROVE TypeOK'
  OBVIOUS
<1> USE TypeParts
<1>0. /\ batch \in [pc : {"next", "sending"}, alerts : 0..MaxAlerts, copy : Lists,
                    next : 1..(MaxNotifiers + 1), results : Seq(Result)]
      /\ async \in [pc : {"idle", "copy", "none", "sending", "ended", "closed"}, copy : Lists]
      /\ sender \in [1..MaxNotifiers -> {"none", "calling", "succeeded", "failed", "done"}]
      /\ MaxAlerts \in Nat /\ MaxNotifiers \in Nat
  BY BoundsAssumption DEF TypeOK
<1>1. ASSUME NEW n \in Notifier, AddNotifier(n) PROVE TypeOK'
  <2>1. notifiers \in Seq(Notifier) /\ Len(notifiers) \in Nat /\ Len(notifiers) < MaxNotifiers
    BY <1>0, <1>1, ListFacts DEF AddNotifier
  <2>2. notifiers' \in Seq(Notifier) /\ Len(notifiers') <= MaxNotifiers
    BY <1>0, <1>1, <2>1, AppendProperties DEF AddNotifier
  <2> QED
    BY <1>0, <1>1, <2>2, ShortList, TypeKept DEF AddNotifier, channel
<1>2. ASSUME NEW n \in Notifier, RemoveNotifier(n) PROVE TypeOK'
  <2>1. PICK kept \in [1..Cardinality({i \in 1..Len(notifiers) : notifiers[i] # n})
                         -> {i \in 1..Len(notifiers) : notifiers[i] # n}] :
           notifiers' = [j \in DOMAIN kept |-> notifiers[kept[j]]]
    BY <1>2 DEF RemoveNotifier
  <2>2. notifiers' \in Lists
    BY <2>1, RemovedList
  <2> QED
    BY <1>0, <1>2, <2>2, TypeKept DEF RemoveNotifier, channel
<1>3. CASE Close
  BY <1>0, <1>3, EmptyList, TypeKept DEF Close, channel
<1>4. ASSUME NEW severe \in BOOLEAN, StartSend(severe) PROVE TypeOK'
  <2>1. /\ <<NoNotifiers>> \in Seq(Result) /\ <<>> \in Seq(Result)
        /\ batch.alerts - 1 \in 0..MaxAlerts
    BY <1>0, <1>4, NoNotifiersType DEF StartSend
  <2>2. batch' \in [pc : {"next", "sending"}, alerts : 0..MaxAlerts, copy : Lists,
                    next : 1..(MaxNotifiers + 1), results : Seq(Result)]
    <3>1. 1 \in 1..(MaxNotifiers + 1)
      BY <1>0
    <3>2. CASE notifiers = <<>>
      BY <1>0, <1>4, <2>1, <3>2 DEF StartSend
    <3>3. CASE notifiers # <<>> /\ ~severe
      BY <1>0, <1>4, <2>1, <3>3 DEF StartSend
    <3>4. CASE notifiers # <<>> /\ severe
      BY <1>0, <1>4, <2>1, <3>1, <3>4 DEF StartSend
    <3> QED
      BY <3>2, <3>3, <3>4
  <2> QED
    BY <1>0, <1>4, <2>2, TypeKept DEF StartSend, channel
<1>5. ASSUME NEW answer \in Answers, SendNext(answer) PROVE TypeOK'
  BY <1>0, <1>5, SendNextType, TypeKept DEF SendNext, channel
<1>6. CASE FinishSend
  <2>1. batch.alerts - 1 \in 0..MaxAlerts
    BY <1>0, <1>6 DEF FinishSend, Control
  <2> QED
    BY <1>0, <1>6, <2>1, TypeKept DEF FinishSend, channel
<1>7. CASE SendAsync
  <2>1. batch.alerts - 1 \in 0..MaxAlerts
    BY <1>0, <1>7 DEF SendAsync
  <2>2. Len(notifiers) \in 0..MaxNotifiers /\ Len(buffer) <= Len(notifiers)
    BY <1>0, <1>7, ListFacts DEF SendAsync, Control
  <2> QED
    BY <1>0, <1>7, <2>1, <2>2, TypeKept DEF SendAsync
<1>8. ASSUME NEW severe \in BOOLEAN, CopyList(severe) PROVE TypeOK'
  BY <1>0, <1>8, TypeKept DEF CopyList, channel
<1>9. CASE ReportNone
  BY <1>0, <1>9, NoNotifiersType, PutFacts, TypeKept DEF ReportNone
<1>10. ASSUME NEW i \in 1..MaxNotifiers, NEW answer \in Answers, CallReturns(i, answer) PROVE TypeOK'
  BY <1>0, <1>10, TypeKept DEF CallReturns, channel
<1>11. CASE CloseChannel
  BY <1>0, <1>11, TypeKept DEF CloseChannel, channel
<1>12. CASE Receive
  BY <1>0, <1>12, ReceiveFacts, TypeKept DEF Receive
<1>13. CASE StopReading
  BY <1>0, <1>13, TypeKept DEF StopReading
<1>14. CASE UNCHANGED vars
  BY <1>0, <1>14, TypeKept DEF vars, channel
<1>15. ASSUME NEW i \in 1..MaxNotifiers, PutResult(i) PROVE TypeOK'
  <2>1. sender[i] # "none" /\ Put([notifier |-> async.copy[i], success |-> sender[i] = "succeeded"])
    BY <1>15 DEF PutResult
  <2>2. i \in 1..Len(async.copy)
    BY <1>0, <2>1, ListFacts DEF Control
  <2>3. [notifier |-> async.copy[i], success |-> sender[i] = "succeeded"] \in Result
    BY <2>2, ListFacts DEF Result
  <2>4. /\ buffer' \in Seq(Result) /\ received' \in Seq(Result)
        /\ capacity' = capacity /\ Len(buffer') <= capacity
    BY <2>1, <2>3, PutFacts
  <2> QED
    BY <1>0, <1>15, <2>4, TypeKept DEF PutResult
<1> QED
  BY <1>1, <1>2, <1>3, <1>4, <1>5, <1>6, <1>7, <1>8, <1>9, <1>10, <1>11, <1>12, <1>13, <1>14, <1>15
     DEF Next, Change, SendBatch, Goroutine, Sender


LEMMA ControlNext == TypeOK /\ Control /\ [Next]_vars => Control'
<1> SUFFICES ASSUME TypeOK, Control, [Next]_vars PROVE Control'
  OBVIOUS
<1>0. /\ sender \in [1..MaxNotifiers -> {"none", "calling", "succeeded", "failed", "done"}]
      /\ async \in [pc : {"idle", "copy", "none", "sending", "ended", "closed"}, copy : Lists]
      /\ batch \in [pc : {"next", "sending"}, alerts : 0..MaxAlerts, copy : Lists,
                    next : 1..(MaxNotifiers + 1), results : Seq(Result)]
      /\ MaxAlerts \in Nat /\ MaxNotifiers \in Nat
      /\ Len(<<>>) = 0 /\ \A i \in 1..MaxNotifiers : ~(i <= 0)
  BY BoundsAssumption DEF TypeOK
<1>1. CASE Change
  BY <1>1 DEF Change, AddNotifier, RemoveNotifier, Close, Control, config, channel, enabled, Senders
<1>2. ASSUME NEW severe \in BOOLEAN, StartSend(severe) PROVE Control'
  <2>1. batch'.pc = "sending" => batch'.alerts > 0
    BY <1>0, <1>2 DEF StartSend
  <2>2. UNCHANGED <<config, async, sender, capacity>>
    BY <1>2 DEF StartSend, channel
  <2> QED
    BY <2>1, <2>2 DEF Control, config, enabled, Senders
<1>3. ASSUME NEW answer \in Answers, SendNext(answer) PROVE Control'
  <2>1. batch'.pc = batch.pc /\ batch'.alerts = batch.alerts
    BY <1>0, <1>3 DEF SendNext
  <2>2. UNCHANGED <<config, async, sender, capacity>>
    BY <1>3 DEF SendNext, channel
  <2> QED
    BY <2>1, <2>2 DEF Control, config, enabled, Senders
<1>4. CASE FinishSend
  <2>1. batch'.pc = "next"
    BY <1>0, <1>4 DEF FinishSend
  <2>2. UNCHANGED <<config, async, sender, capacity>>
    BY <1>4 DEF FinishSend, channel
  <2> QED
    BY <2>1, <2>2 DEF Control, config, enabled, Senders
<1>5. CASE SendAsync
  <2>1. batch'.pc = "next" /\ async'.pc = "copy" /\ async'.copy = async.copy /\ async.copy = <<>>
    BY <1>0, <1>5 DEF SendAsync, Control
  <2>2. UNCHANGED <<config, sender>>
    BY <1>5 DEF SendAsync
  <2> QED
    BY <2>1, <2>2 DEF Control, config, enabled, Senders
<1>6. ASSUME NEW severe \in BOOLEAN, CopyList(severe) PROVE Control'
  <2>1. UNCHANGED <<config, batch, capacity>> /\ async.pc = "copy" /\ async.copy = <<>>
    BY <1>6 DEF CopyList, channel, Control
  <2>2. CASE notifiers = <<>> \/ ~severe
    <3>1. async'.pc \in {"none", "ended"} /\ async'.copy = <<>> /\ sender' = sender
      BY <1>0, <1>6, <2>1, <2>2 DEF CopyList
    <3> QED
      BY <2>1, <3>1 DEF Control, config, enabled, Senders
  <2>3. CASE ~(notifiers = <<>> \/ ~severe)
    <3>1. /\ async'.pc = "sending" /\ async'.copy = notifiers
          /\ sender' = [i \in 1..MaxNotifiers |->
                             IF i <= Len(notifiers) /\ notifiers[i] \in enabled
                             THEN "calling" ELSE "none"]
      BY <1>0, <1>6, <2>3 DEF CopyList
    <3>2. \A i \in 1..MaxNotifiers :
            sender'[i] # "none" <=> i <= Len(async'.copy) /\ async'.copy[i] \in enabled
      BY <3>1
    <3> QED
      BY <2>1, <3>1, <3>2 DEF Control, config, enabled
  <2> QED
    BY <2>2, <2>3
<1>7. CASE ReportNone
  <2>1. async'.pc = "ended" /\ async'.copy = async.copy /\ UNCHANGED <<config, batch, sender>>
    BY <1>0, <1>7 DEF ReportNone
  <2> QED
    BY <2>1 DEF Control, config, enabled, Senders
<1>8. ASSUME NEW i \in 1..MaxNotifiers, NEW answer \in Answers, CallReturns(i, answer) PROVE Control'
  <2>1. /\ sender[i] = "calling" /\ UNCHANGED <<config, batch, async, capacity>>
        /\ sender'[i] # "none" /\ \A j \in 1..MaxNotifiers : j # i => sender'[j] = sender[j]
    BY <1>0, <1>8 DEF CallReturns, channel
  <2>2. async.pc # "closed"
    BY <2>1 DEF Control, Senders
  <2>3. \A j \in 1..MaxNotifiers : sender'[j] # "none" <=> sender[j] # "none"
    BY <2>1
  <2> QED
    BY <2>1, <2>2, <2>3 DEF Control, config, enabled
<1>9. ASSUME NEW i \in 1..MaxNotifiers, PutResult(i) PROVE Control'
  <2>1. /\ sender[i] \in {"succeeded", "failed"} /\ UNCHANGED <<config, batch, async, capacity>>
        /\ sender'[i] = "done" /\ \A j \in 1..MaxNotifiers : j # i => sender'[j] = sender[j]
    BY <1>0, <1>9 DEF PutResult, Put
  <2>2. async.pc # "closed"
    BY <2>1 DEF Control, Senders
  <2>3. \A j \in 1..MaxNotifiers : sender'[j] # "none" <=> sender[j] # "none"
    BY <2>1
  <2> QED
    BY <2>1, <2>2, <2>3 DEF Control, config, enabled
<1>10. CASE CloseChannel
  <2>1. /\ async'.pc = "closed" /\ async'.copy = async.copy /\ UNCHANGED <<config, batch, sender, capacity>>
        /\ \A i \in 1..MaxNotifiers : sender[i] \in {"none", "done"}
    BY <1>0, <1>10 DEF CloseChannel, channel
  <2> QED
    BY <2>1 DEF Control, config, enabled, Senders
<1>11. CASE Receive \/ StopReading \/ UNCHANGED vars
  <2>1. UNCHANGED <<config, batch, async, sender, capacity>>
    BY <1>11 DEF Receive, StopReading, vars, channel
  <2> QED
    BY <2>1 DEF Control, config, enabled, Senders
<1> QED
  BY <1>1, <1>2, <1>3, <1>4, <1>5, <1>6, <1>7, <1>8, <1>9, <1>10, <1>11
     DEF Next, SendBatch, Goroutine, Sender

LEMMA TypeInit == Init => TypeOK /\ Control
<1> SUFFICES ASSUME Init PROVE TypeOK /\ Control
  OBVIOUS
<1>1. /\ batch = [pc |-> "next", alerts |-> MaxAlerts, copy |-> <<>>, next |-> 1, results |-> <<>>]
      /\ async = [pc |-> "idle", copy |-> <<>>]
      /\ sender = [i \in 1..MaxNotifiers |-> "none"]
      /\ capacity = 0 /\ buffer = <<>> /\ received = <<>>
  BY DEF Init
<1>2. MaxAlerts \in 0..MaxAlerts /\ 1 \in 1..(MaxNotifiers + 1) /\ 0 \in 0..MaxNotifiers /\ 0 <= 0
  BY BoundsAssumption
<1>3. <<>> \in Seq(Result) /\ <<>> \in Lists /\ Len(<<>>) = 0 /\ Len(<<>>) <= 0
  BY EmptyList, EmptySeq
<1>4. notifiers \in Lists
  <2>1. PICK k \in 0..MaxNotifiers : notifiers \in [1..k -> {n \in Notifier : made[n] # "error"}]
    BY DEF Init
  <2>2. notifiers \in [1..k -> Notifier]
    BY <2>1
  <2> QED
    BY <2>2 DEF Lists
<1>5. TypeOK
  BY <1>1, <1>2, <1>3, <1>4 DEF TypeOK
<1>6. \A i \in 1..MaxNotifiers : ~(i <= Len(async.copy))
  BY <1>1, <1>3
<1>7. Control
  BY <1>1, <1>6 DEF Control, Senders
<1> QED
  BY <1>5, <1>7

\* Type correctness for every choice of the constants; with it, the channel
\* of SendAsync never holds more results than the list had entries when the
\* channel was made (manager.go, SendAsync).
THEOREM TypeCorrect == Spec => []TypeOK
<1>1. TypeOK /\ Control /\ [Next]_vars => TypeOK' /\ Control'
  BY TypeNext, ControlNext
<1> QED
  BY <1>1, TypeInit, PTL DEF Spec

-----------------------------------------------------------------------------
(* The reader of SendAsync: each goroutine that is done has put exactly     *)
(* one result, in the name of its own notifier, and none was lost between   *)
(* the buffer and the reader.                                              *)

Of(q, n) == {k \in 1..Len(q) : q[k].notifier = n}

Done(n) == {i \in 1..Len(async.copy) : sender[i] = "done" /\ async.copy[i] = n}

CountInv == \A n \in Notifier : Cardinality(Of(received \o buffer, n)) = Cardinality(Done(n))

\* One result more counts for its notifier and for no other.
LEMMA OfAppend ==
    ASSUME NEW q \in Seq(Result), NEW r \in Result, NEW n
    PROVE  /\ Cardinality(Of(q, n)) \in Nat
           /\ r.notifier = n => Cardinality(Of(Append(q, r), n)) = Cardinality(Of(q, n)) + 1
           /\ r.notifier # n => Of(Append(q, r), n) = Of(q, n)
<1>1. /\ Len(q) \in Nat /\ Len(Append(q, r)) = Len(q) + 1
      /\ \A i \in 1..Len(q) : Append(q, r)[i] = q[i]
      /\ Append(q, r)[Len(q) + 1] = r
  BY AppendProperties, LenProperties
<1>2. IsFiniteSet(Of(q, n)) /\ Cardinality(Of(q, n)) \in Nat
  <2>1. IsFiniteSet(1..Len(q))
    BY <1>1, FS_Interval
  <2>2. IsFiniteSet(Of(q, n))
    BY <2>1, FS_Subset DEF Of
  <2> QED
    BY <2>2, FS_CardinalityType
<1>3. \A k : k \in 1..(Len(q) + 1) <=> k \in 1..Len(q) \/ k = Len(q) + 1
  BY <1>1
<1>4. CASE r.notifier = n
  <2>1. Of(Append(q, r), n) = Of(q, n) \cup {Len(q) + 1}
    BY <1>1, <1>3, <1>4 DEF Of
  <2>2. Len(q) + 1 \notin Of(q, n)
    BY <1>1 DEF Of
  <2>3. Cardinality(Of(q, n) \cup {Len(q) + 1}) = Cardinality(Of(q, n)) + 1
    BY <1>2, <2>2, FS_AddElement
  <2> QED
    BY <1>2, <1>4, <2>1, <2>3
<1>5. CASE r.notifier # n
  <2>1. Of(Append(q, r), n) = Of(q, n)
    BY <1>1, <1>3, <1>5 DEF Of
  <2> QED
    BY <1>2, <1>5, <2>1
<1> QED
  BY <1>4, <1>5

LEMMA DoneFinite ==
    ASSUME TypeOK, NEW n
    PROVE  IsFiniteSet(Done(n)) /\ Cardinality(Done(n)) \in Nat
<1>1. Len(async.copy) \in Nat
  BY TypeParts, ListFacts, BoundsAssumption
<1>2. IsFiniteSet(1..Len(async.copy))
  BY <1>1, FS_Interval
<1>3. IsFiniteSet(Done(n))
  BY <1>2, FS_Subset DEF Done
<1> QED
  BY <1>3, FS_CardinalityType

LEMMA CountKept ==
    ASSUME CountInv, \A n \in Notifier : Done(n)' = Done(n),
           \A n \in Notifier : Of(received \o buffer, n)' = Of(received \o buffer, n)
    PROVE  CountInv'
BY DEF CountInv

LEMMA CountPut ==
    ASSUME TypeOK, Control, CountInv, NEW i \in 1..MaxNotifiers, PutResult(i)
    PROVE  CountInv'
<1> DEFINE r == [notifier |-> async.copy[i], success |-> sender[i] = "succeeded"]
           all == received \o buffer
<1>0. sender \in [1..MaxNotifiers -> {"none", "calling", "succeeded", "failed", "done"}]
  BY DEF TypeOK
<1>1. /\ sender[i] \in {"succeeded", "failed"} /\ Put(r) /\ async' = async
      /\ sender'[i] = "done" /\ \A j \in 1..MaxNotifiers : j # i => sender'[j] = sender[j]
  BY <1>0 DEF PutResult
<1>2. /\ Len(async.copy) \in 0..MaxNotifiers /\ MaxNotifiers \in Nat
      /\ \A j \in 1..Len(async.copy) : async.copy[j] \in Notifier
  BY TypeParts, ListFacts, BoundsAssumption
<1>3. i \in 1..Len(async.copy)
  BY <1>1, <1>2 DEF Control
<1>4. r \in Result /\ r.notifier = async.copy[i]
  BY <1>2, <1>3 DEF Result
<1> HIDE DEF r
<1>5. received' \o buffer' = Append(all, r)
  BY <1>1, <1>4, PutFacts
<1>6. all \in Seq(Result)
  BY TypeParts, ConcatProperties
<1> HIDE DEF all
<1>7. ASSUME NEW n \in Notifier PROVE Cardinality(Of(received \o buffer, n))' = Cardinality(Done(n))'
  <2>0. /\ Of(received \o buffer, n)' = Of(Append(all, r), n)
        /\ Cardinality(Of(all, n)) = Cardinality(Done(n))
    BY <1>5 DEF CountInv, Of, all
  <2>1. CASE async.copy[i] = n
    <3>1. Done(n)' = Done(n) \cup {i} /\ i \notin Done(n)
      BY <1>1, <1>2, <1>3, <2>1 DEF Done
    <3>2. Cardinality(Done(n) \cup {i}) = Cardinality(Done(n)) + 1
      BY <3>1, DoneFinite, FS_AddElement
    <3>3. Cardinality(Of(Append(all, r), n)) = Cardinality(Of(all, n)) + 1
      BY <1>4, <1>6, <2>1, OfAppend
    <3> QED
      BY <2>0, <3>1, <3>2, <3>3
  <2>2. CASE async.copy[i] # n
    <3>1. Done(n)' = Done(n)
      BY <1>1, <1>2, <1>3, <2>2 DEF Done
    <3>2. Of(Append(all, r), n) = Of(all, n)
      BY <1>4, <1>6, <2>2, OfAppend
    <3> QED
      BY <2>0, <3>1, <3>2
  <2> QED
    BY <2>1, <2>2
<1> QED
  BY <1>7 DEF CountInv

LEMMA CountNext == TypeOK /\ Control /\ CountInv /\ [Next]_vars => CountInv'
<1> SUFFICES ASSUME TypeOK, Control, CountInv, [Next]_vars PROVE CountInv'
  OBVIOUS
<1>0. /\ sender \in [1..MaxNotifiers -> {"none", "calling", "succeeded", "failed", "done"}]
      /\ async \in [pc : {"idle", "copy", "none", "sending", "ended", "closed"}, copy : Lists]
      /\ Len(async.copy) \in 0..MaxNotifiers /\ MaxNotifiers \in Nat
  BY TypeParts, ListFacts, BoundsAssumption DEF TypeOK
<1>a. ASSUME async'.copy = async.copy, UNCHANGED <<sender, buffer, received>> PROVE CountInv'
  BY <1>a, CountKept DEF Done, Of
<1>1. CASE Change
  BY <1>1, <1>a DEF Change, AddNotifier, RemoveNotifier, Close, channel
<1>2. CASE SendBatch
  BY <1>2, <1>a DEF SendBatch, StartSend, SendNext, FinishSend, channel
<1>3. CASE SendAsync
  <2>1. async'.copy = async.copy
    BY <1>0, <1>3 DEF SendAsync
  <2> QED
    BY <1>3, <2>1, <1>a DEF SendAsync
<1>4. ASSUME NEW severe \in BOOLEAN, CopyList(severe) PROVE CountInv'
  <2>1. CASE notifiers = <<>> \/ ~severe
    <3>1. async'.copy = async.copy
      BY <1>0, <1>4, <2>1 DEF CopyList
    <3> QED
      BY <1>4, <2>1, <3>1, <1>a DEF CopyList, channel
  <2>2. CASE ~(notifiers = <<>> \/ ~severe)
    <3>1. /\ async'.copy = notifiers /\ async.copy = <<>> /\ Len(<<>>) = 0 /\ buffer' = buffer /\ received' = received
          /\ sender' = [j \in 1..MaxNotifiers |->
                             IF j <= Len(notifiers) /\ notifiers[j] \in enabled
                             THEN "calling" ELSE "none"]
      BY <1>0, <1>4, <2>2 DEF CopyList, Control, channel
    <3>2. notifiers \in Lists /\ Len(notifiers) \in 0..MaxNotifiers
      BY TypeParts, ListFacts
    <3>3. \A j \in 1..Len(notifiers) : j \in 1..MaxNotifiers
      BY <1>0, <3>2
    <3>4. \A j \in 1..MaxNotifiers : sender'[j] # "done"
      BY <3>1
    <3>5. \A n \in Notifier : Done(n)' = {} /\ Done(n) = {}
      BY <3>1, <3>3, <3>4 DEF Done
    <3> QED
      BY <3>1, <3>5, CountKept DEF Of
  <2> QED
    BY <2>1, <2>2
<1>5. CASE ReportNone
  <2>1. Put(NoNotifiers) /\ async'.copy = async.copy /\ sender' = sender
    BY <1>0, <1>5 DEF ReportNone
  <2>2. received' \o buffer' = Append(received \o buffer, NoNotifiers)
    BY <2>1, NoNotifiersType, PutFacts
  <2>3. received \o buffer \in Seq(Result)
    BY TypeParts, ConcatProperties
  <2>4. \A n \in Notifier : Of(Append(received \o buffer, NoNotifiers), n) = Of(received \o buffer, n)
    BY <2>3, NoNotifiersType, OfAppend
  <2>5. \A n \in Notifier : Of(received \o buffer, n)' = Of(received \o buffer, n)
    BY <2>2, <2>4 DEF Of
  <2>6. \A n \in Notifier : Done(n)' = Done(n)
    BY <2>1 DEF Done
  <2> QED
    BY <2>5, <2>6, CountKept
<1>6. ASSUME NEW i \in 1..MaxNotifiers, NEW answer \in Answers, CallReturns(i, answer) PROVE CountInv'
  <2>1. /\ sender[i] = "calling" /\ UNCHANGED <<async, buffer, received>>
        /\ sender'[i] # "done" /\ \A j \in 1..MaxNotifiers : j # i => sender'[j] = sender[j]
    BY <1>0, <1>6 DEF CallReturns, channel
  <2>2. \A j \in 1..Len(async.copy) : sender'[j] = "done" <=> sender[j] = "done"
    BY <1>0, <2>1
  <2>3. \A n \in Notifier : Done(n)' = Done(n)
    BY <2>1, <2>2 DEF Done
  <2> QED
    BY <2>1, <2>3, CountKept DEF Of
<1>7. ASSUME NEW i \in 1..MaxNotifiers, PutResult(i) PROVE CountInv'
  BY <1>7, CountPut
<1>8. CASE CloseChannel
  <2>1. async'.copy = async.copy
    BY <1>0, <1>8 DEF CloseChannel
  <2> QED
    BY <1>8, <2>1, <1>a DEF CloseChannel, channel
<1>9. CASE Receive
  <2>1. received' \o buffer' = received \o buffer /\ UNCHANGED <<async, sender>>
    BY <1>9, ReceiveFacts DEF Receive
  <2> QED
    BY <2>1, CountKept DEF Of, Done
<1>10. CASE StopReading \/ UNCHANGED vars
  BY <1>10, <1>a DEF StopReading, vars, channel
<1> QED
  BY <1>1, <1>2, <1>3, <1>4, <1>5, <1>6, <1>7, <1>8, <1>9, <1>10 DEF Next, Goroutine, Sender

LEMMA CountInit == Init => CountInv
<1> SUFFICES ASSUME Init PROVE CountInv
  OBVIOUS
<1>1. async.copy = <<>> /\ buffer = <<>> /\ received = <<>> /\ Len(<<>>) = 0
  BY DEF Init
<1>2. received \o buffer = <<>>
  BY <1>1, ConcatEmptySeq
<1>3. \A n \in Notifier : Done(n) = {} /\ Of(received \o buffer, n) = {}
  BY <1>1, <1>2 DEF Done, Of
<1> QED
  BY <1>3 DEF CountInv

\* A closed channel of SendAsync has no goroutine left that would send on it,
\* and carries one result for each enabled entry of the copied list, however
\* the list was changed and the results were taken meanwhile (manager.go,
\* SendAsync): for any number of notifiers, listed once or several times.
THEOREM AsyncComplete == Spec => []ClosedIsComplete
<1>1. TypeOK /\ Control /\ CountInv => ClosedIsComplete
  <2> SUFFICES ASSUME TypeOK, Control, CountInv, async.pc = "closed",
                      NEW n \in enabled
               PROVE  /\ Senders = {}
                      /\ Cardinality({i \in 1..Len(received \o buffer) : (received \o buffer)[i].notifier = n})
                            = Cardinality({i \in 1..Len(async.copy) : async.copy[i] = n})
    BY DEF ClosedIsComplete, Control
  <2>1. /\ Len(async.copy) \in 0..MaxNotifiers /\ MaxNotifiers \in Nat
        /\ sender \in [1..MaxNotifiers -> {"none", "calling", "succeeded", "failed", "done"}]
    BY TypeParts, ListFacts, BoundsAssumption DEF TypeOK
  <2>2. Senders = {} /\ n \in Notifier
    BY DEF Control, enabled
  <2>3. \A i \in 1..Len(async.copy) : async.copy[i] = n => sender[i] = "done"
    <3> SUFFICES ASSUME NEW i \in 1..Len(async.copy), async.copy[i] = n PROVE sender[i] = "done"
      OBVIOUS
    <3>1. i \in 1..MaxNotifiers /\ i <= Len(async.copy)
      BY <2>1
    <3>2. sender[i] # "none"
      BY <3>1 DEF Control
    <3> QED
      BY <2>1, <2>2, <3>1, <3>2 DEF Senders
  <2>4. Done(n) = {i \in 1..Len(async.copy) : async.copy[i] = n}
    BY <2>3 DEF Done
  <2> QED
    BY <2>2, <2>4 DEF CountInv, Of
<1>2. TypeOK /\ Control /\ CountInv /\ [Next]_vars => TypeOK' /\ Control' /\ CountInv'
  BY TypeNext, ControlNext, CountNext
<1> QED
  BY <1>1, <1>2, TypeInit, CountInit, PTL DEF Spec

-----------------------------------------------------------------------------
(* Send: the turns of the loop and the results so far.                     *)

Wanted == {i \in 1..Len(batch.copy) : batch.copy[i] \in enabled}

Place(i) == Cardinality({k \in Wanted : k <= i})

Before(i) == {k \in Wanted : k < i}

Failed == {i \in 1..Len(batch.results) : ~batch.results[i].success}

\* Every enabled entry that was reached has its result.
Running ==
    /\ Len(batch.results) = Cardinality(Before(batch.next))
    /\ continueOnError \/ Failed = {}

\* The last result is the one failure that ended the loop.
Stopped ==
    /\ batch.next = Len(batch.copy) + 1
    /\ ~continueOnError
    /\ Failed = {Len(batch.results)}
    /\ Len(batch.results) <= Cardinality(Wanted)

SendInv ==
    batch.pc = "sending" =>
        /\ \A i \in Wanted : Place(i) <= Len(batch.results) =>
              batch.results[Place(i)].notifier = batch.copy[i]
        /\ Running \/ Stopped

\* The places of the entries in W, in their order.
LEMMA Places ==
    ASSUME NEW W, IsFiniteSet(W), \A k \in W : k \in Nat
    PROVE  /\ Cardinality(W) \in Nat
           /\ \A i \in Nat : Cardinality({k \in W : k < i}) \in Nat
           /\ \A i \in W : Cardinality({k \in W : k <= i}) = Cardinality({k \in W : k < i}) + 1
           /\ \A i, j \in W : i < j => Cardinality({k \in W : k <= i}) < Cardinality({k \in W : k <= j})
           /\ \A i \in W : Cardinality({k \in W : k <= i}) <= Cardinality(W)
<1> DEFINE upto(i) == {k \in W : k <= i}
           before(i) == {k \in W : k < i}
<1>1. \A i : IsFiniteSet(before(i)) /\ Cardinality(before(i)) \in Nat
  <2> SUFFICES ASSUME NEW i PROVE IsFiniteSet(before(i)) /\ Cardinality(before(i)) \in Nat
    OBVIOUS
  <2>1. IsFiniteSet(before(i))
    BY FS_Subset
  <2> QED
    BY <2>1, FS_CardinalityType
<1>2. ASSUME NEW i \in W PROVE Cardinality(upto(i)) = Cardinality(before(i)) + 1
  <2>1. \A k \in W : k <= i <=> k < i \/ k = i
    OBVIOUS
  <2>2. upto(i) = before(i) \cup {i} /\ i \notin before(i)
    BY <2>1
  <2> HIDE DEF upto, before
  <2>3. Cardinality(before(i) \cup {i}) = Cardinality(before(i)) + 1
    BY <1>1, <2>2, FS_AddElement
  <2> QED
    BY <2>2, <2>3
<1>3. ASSUME NEW i \in W, NEW j \in W, i < j PROVE Cardinality(upto(i)) < Cardinality(upto(j))
  <2>1. upto(i) \subseteq before(j)
    <3>1. \A k \in W : k <= i => k < j
      BY <1>3
    <3> QED
      BY <3>1
  <2> HIDE DEF upto, before
  <2>2. IsFiniteSet(before(j)) /\ Cardinality(before(j)) \in Nat
    BY <1>1
  <2>3. IsFiniteSet(upto(i)) /\ Cardinality(upto(i)) <= Cardinality(before(j))
    BY <2>1, <2>2, FS_Subset
  <2>4. Cardinality(upto(i)) \in Nat
    BY <2>3, FS_CardinalityType
  <2>5. Cardinality(upto(j)) = Cardinality(before(j)) + 1
    BY <1>2
  <2> QED
    BY <2>2, <2>3, <2>4, <2>5
<1>4. ASSUME NEW i \in W PROVE Cardinality(upto(i)) <= Cardinality(W)
  <2>1. upto(i) \subseteq W
    OBVIOUS
  <2> HIDE DEF upto
  <2> QED
    BY <2>1, FS_Subset
<1>5. Cardinality(W) \in Nat
  BY FS_CardinalityType
<1> QED
  BY <1>1, <1>2, <1>3, <1>4, <1>5

LEMMA WantedFinite ==
    ASSUME TypeOK
    PROVE  /\ IsFiniteSet(Wanted)
           /\ \A k \in Wanted : k \in Nat /\ 1 <= k /\ k <= Len(batch.copy)
<1>1. Len(batch.copy) \in Nat
  BY TypeParts, ListFacts, BoundsAssumption
<1>2. IsFiniteSet(1..Len(batch.copy))
  BY <1>1, FS_Interval
<1>3. IsFiniteSet(Wanted)
  BY <1>2, FS_Subset DEF Wanted
<1> QED
  BY <1>1, <1>3 DEF Wanted

LEMMA SendKept ==
    ASSUME SendInv, UNCHANGED <<batch, config>>
    PROVE  SendInv'
<1>1. UNCHANGED <<batch, made, continueOnError>>
  BY DEF config
<1> QED
  BY <1>1 DEF SendInv, Running, Stopped, Failed, Before, Place, Wanted, enabled

LEMMA StartInv ==
    ASSUME TypeOK, SendInv, NEW severe \in BOOLEAN, StartSend(severe)
    PROVE  SendInv'
<1>0. batch \in [pc : {"next", "sending"}, alerts : 0..MaxAlerts, copy : Lists,
                 next : 1..(MaxNotifiers + 1), results : Seq(Result)]
  BY DEF TypeOK
<1>1. CASE notifiers = <<>> \/ ~severe
  <2>1. batch'.pc = "next"
    BY <1>0, <1>1 DEF StartSend
  <2> QED
    BY <2>1 DEF SendInv
<1>2. CASE ~(notifiers = <<>> \/ ~severe)
  <2>1. batch'.results = <<>> /\ batch'.next = 1 /\ batch'.copy = notifiers /\ Len(<<>>) = 0
    BY <1>0, <1>2 DEF StartSend
  <2>2. Len(notifiers) \in Nat
    BY TypeParts, ListFacts, BoundsAssumption
  <2>3. IsFiniteSet(1..Len(notifiers)) /\ Wanted' \subseteq 1..Len(notifiers)
    BY <2>1, <2>2, FS_Interval DEF Wanted
  <2>4. IsFiniteSet(Wanted') /\ \A k \in Wanted' : k \in Nat /\ ~(k < 1)
    <3>1. IsFiniteSet(Wanted')
      BY <2>3, FS_Subset
    <3> QED
      BY <2>2, <2>3, <3>1
  <2>5. {k \in Wanted' : k < 1} = {} /\ Failed' = {}
    BY <2>1, <2>4 DEF Failed
  <2>6. Running'
    BY <2>1, <2>5, FS_EmptySet DEF Running, Before
  <2>7. \A i \in Wanted' : ~(Cardinality({k \in Wanted' : k <= i}) <= 0)
    <3> SUFFICES ASSUME NEW i \in Wanted' PROVE ~(Cardinality({k \in Wanted' : k <= i}) <= 0)
      OBVIOUS
    <3>1. Cardinality({k \in Wanted' : k <= i}) = Cardinality({k \in Wanted' : k < i}) + 1
      BY <2>4, Places
    <3>2. Cardinality({k \in Wanted' : k < i}) \in Nat
      BY <2>4, Places
    <3> QED
      BY <3>1, <3>2
  <2> QED
    BY <2>1, <2>6, <2>7 DEF SendInv, Place
<1> QED
  BY <1>1, <1>2

LEMMA SendNextInv ==
    ASSUME TypeOK, SendInv, NEW answer \in Answers, SendNext(answer)
    PROVE  SendInv'
<1> DEFINE old == batch.results
<1>0. batch \in [pc : {"next", "sending"}, alerts : 0..MaxAlerts, copy : Lists,
                 next : 1..(MaxNotifiers + 1), results : Seq(Result)]
  BY DEF TypeOK
<1>1. PICK n : n = batch.copy[batch.next]
  OBVIOUS
<1>2. PICK success : success = Succeeds(n, answer)
  OBVIOUS
<1>3. /\ batch.pc = "sending" /\ batch.next <= Len(batch.copy)
      /\ batch'.copy = batch.copy /\ batch'.pc = "sending" /\ enabled' = enabled
      /\ continueOnError' = continueOnError
      /\ batch'.results = IF n \in enabled
                          THEN Append(old, [notifier |-> n, success |-> success]) ELSE old
      /\ batch'.next = IF n \in enabled /\ ~success /\ ~continueOnError
                       THEN Len(batch.copy) + 1 ELSE batch.next + 1
  BY <1>0, <1>1, <1>2 DEF SendNext, config, enabled
<1>4. /\ Len(batch.copy) \in Nat /\ batch.next \in 1..Len(batch.copy) /\ n \in Notifier /\ success \in BOOLEAN
  <2>1. Len(batch.copy) \in 0..MaxNotifiers /\ \A i \in 1..Len(batch.copy) : batch.copy[i] \in Notifier
    BY TypeParts, ListFacts
  <2>2. Len(batch.copy) \in Nat /\ batch.next \in 1..Len(batch.copy)
    BY <1>0, <1>3, <2>1, BoundsAssumption
  <2> QED
    BY <1>1, <1>2, <2>1, <2>2 DEF Succeeds
<1>5. /\ Running
      /\ \A i \in Wanted : Place(i) <= Len(old) => old[Place(i)].notifier = batch.copy[i]
  BY <1>3, <1>4 DEF SendInv, Stopped
<1>6. Wanted' = Wanted /\ \A i : Place(i)' = Place(i)
  <2>1. Wanted' = Wanted
    BY <1>3 DEF Wanted
  <2> QED
    BY <2>1 DEF Place
<1>7. IsFiniteSet(Wanted) /\ \A k \in Wanted : k \in Nat
  BY WantedFinite
<1>8. old \in Seq(Result) /\ Len(old) \in Nat /\ Len(old) = Cardinality(Before(batch.next))
  BY <1>0, <1>5, LenProperties DEF Running
<1>9. CASE n \notin enabled
  <2>1. batch'.results = old /\ batch'.next = batch.next + 1
    BY <1>3, <1>9
  <2>2. batch.next \notin Wanted
    BY <1>1, <1>9 DEF Wanted
  <2>3. {k \in Wanted : k < batch.next + 1} = Before(batch.next)
    <3>1. \A k \in Wanted : k < batch.next + 1 <=> k < batch.next
      BY <1>4, <1>7, <2>2
    <3> QED
      BY <3>1 DEF Before
  <2>4. Running'
    BY <1>3, <1>5, <1>6, <2>1, <2>3 DEF Running, Failed, Before
  <2> QED
    BY <1>3, <1>5, <1>6, <2>1, <2>4 DEF SendInv
<1>10. CASE n \in enabled
  <2>1. batch.next \in Wanted
    BY <1>1, <1>4, <1>10 DEF Wanted
  <2>2. PICK r : r = [notifier |-> n, success |-> success]
    OBVIOUS
  <2>3. r \in Result /\ r.notifier = n /\ r.success = success
    BY <1>4, <2>2 DEF Result
  <2>4. batch'.results = Append(old, r)
    BY <1>3, <1>10, <2>2
  <2>5. /\ Len(batch'.results) = Len(old) + 1
        /\ \A i \in 1..Len(old) : batch'.results[i] = old[i]
        /\ batch'.results[Len(old) + 1] = r
    BY <1>8, <2>3, <2>4, AppendProperties
  <2>6. Place(batch.next) = Len(old) + 1
    BY <1>7, <1>8, <2>1, Places DEF Place, Before
  <2>7. ASSUME NEW i \in Wanted, Place(i) <= Len(old) + 1
        PROVE  batch'.results[Place(i)].notifier = batch.copy[i]
    <3>1. Place(i) \in Nat /\ Place(i) >= 1
      <4>1. i \in Nat /\ Place(i) = Cardinality({k \in Wanted : k < i}) + 1
        BY <1>7, Places DEF Place
      <4>2. Cardinality({k \in Wanted : k < i}) \in Nat
        BY <1>7, <4>1, Places
      <4> QED
        BY <4>1, <4>2
    <3>2. CASE Place(i) <= Len(old)
      <4>1. Place(i) \in 1..Len(old)
        BY <1>8, <3>1, <3>2
      <4> QED
        BY <1>5, <2>5, <3>2, <4>1
    <3>3. CASE Place(i) = Len(old) + 1
      <4>1. \A j, k \in Wanted : j < k => Place(j) < Place(k)
        BY <1>7, Places DEF Place
      <4>2. ~(i < batch.next) /\ ~(batch.next < i)
        BY <1>8, <2>1, <2>6, <3>3, <4>1
      <4>3. i = batch.next
        BY <1>4, <1>7, <4>2
      <4> QED
        BY <1>1, <2>3, <2>5, <3>3, <4>3
    <3> QED
      BY <1>8, <2>7, <3>1, <3>2, <3>3
  <2>8. Failed' = IF success THEN Failed ELSE Failed \cup {Len(old) + 1}
    <3>1. \A i : i \in 1..(Len(old) + 1) <=> i \in 1..Len(old) \/ i = Len(old) + 1
      BY <1>8
    <3> QED
      BY <2>3, <2>5, <3>1 DEF Failed
  <2>9. CASE success \/ continueOnError
    <3>1. batch'.next = batch.next + 1
      BY <1>3, <1>4, <2>9
    <3>2. {k \in Wanted : k < batch.next + 1} = {k \in Wanted : k <= batch.next}
      <4>1. \A k \in Wanted : k < batch.next + 1 <=> k <= batch.next
        BY <1>4, <1>7
      <4> QED
        BY <4>1
    <3>3. Len(batch'.results) = Cardinality({k \in Wanted : k < batch.next + 1})
      BY <2>5, <2>6, <3>2 DEF Place
    <3>4. continueOnError \/ Failed' = {}
      BY <1>5, <2>8, <2>9 DEF Running
    <3>5. Running'
      BY <1>3, <1>6, <3>1, <3>3, <3>4 DEF Running, Before
    <3> QED
      BY <1>3, <1>6, <2>5, <2>7, <3>5 DEF SendInv
  <2>10. CASE ~success /\ ~continueOnError
    <3>1. batch'.next = Len(batch.copy) + 1
      BY <1>3, <1>10, <2>10
    <3>2. Failed' = {Len(batch'.results)}
      BY <1>5, <2>5, <2>8, <2>10 DEF Running
    <3>3. Len(batch'.results) <= Cardinality(Wanted)
      BY <1>7, <2>1, <2>5, <2>6, Places DEF Place
    <3>4. Stopped'
      BY <1>3, <1>6, <2>10, <3>1, <3>2, <3>3 DEF Stopped
    <3> QED
      BY <1>3, <1>6, <2>5, <2>7, <3>4 DEF SendInv
  <2> QED
    BY <1>4, <2>9, <2>10
<1> QED
  BY <1>9, <1>10

LEMMA SendInvNext == TypeOK /\ SendInv /\ [Next]_vars => SendInv'
<1> SUFFICES ASSUME TypeOK, SendInv, [Next]_vars PROVE SendInv'
  OBVIOUS
<1>0. batch \in [pc : {"next", "sending"}, alerts : 0..MaxAlerts, copy : Lists,
                 next : 1..(MaxNotifiers + 1), results : Seq(Result)]
  BY DEF TypeOK
<1>1. CASE Change \/ Goroutine \/ (\E i \in 1..MaxNotifiers : Sender(i)) \/ Receive \/ StopReading
  BY <1>1, SendKept
     DEF Change, AddNotifier, RemoveNotifier, Close, Goroutine, CopyList, ReportNone, CloseChannel,
         Sender, CallReturns, PutResult, Receive, StopReading
<1>2. CASE SendBatch
  <2>1. CASE FinishSend
    <3>1. batch'.pc = "next"
      BY <1>0, <2>1 DEF FinishSend
    <3> QED
      BY <3>1 DEF SendInv
  <2> QED
    BY <1>2, <2>1, StartInv, SendNextInv DEF SendBatch
<1>3. CASE SendAsync
  <2>1. batch'.pc = "next"
    BY <1>0, <1>3 DEF SendAsync
  <2> QED
    BY <2>1 DEF SendInv
<1>4. CASE UNCHANGED vars
  BY <1>4, SendKept DEF vars
<1> QED
  BY <1>1, <1>2, <1>3, <1>4 DEF Next

\* The results of Send are those of the enabled notifiers of its copy, in
\* order, without gaps and without repetitions, although notifiers are added,
\* removed and closed during the calls; and with continueOnError off nothing
\* is called after the first failure (manager.go, Send): for every list and
\* every number of alerts.
THEOREM SendInOrder == Spec => []SendFollowsCopy
<1>1. TypeOK /\ SendInv => SendFollowsCopy
  <2> SUFFICES ASSUME TypeOK, SendInv, batch.pc = "sending"
               PROVE  /\ Len(batch.results) <= Cardinality(Wanted)
                      /\ \A i \in Wanted : Place(i) <= Len(batch.results) =>
                            batch.results[Place(i)].notifier = batch.copy[i]
                      /\ batch.next > Len(batch.copy) /\ (continueOnError \/ Failed = {}) =>
                            Len(batch.results) = Cardinality(Wanted)
                      /\ ~continueOnError => Failed \subseteq {Len(batch.results)}
    BY DEF SendFollowsCopy, Wanted, Place, Failed
  <2>1. IsFiniteSet(Wanted) /\ \A k \in Wanted : k \in Nat /\ k <= Len(batch.copy)
    BY WantedFinite
  <2>2. Len(batch.copy) \in Nat /\ batch.next \in Nat
    BY TypeParts, ListFacts, BoundsAssumption
  <2>3. CASE Running
    <3>1. Before(batch.next) \subseteq Wanted
      BY DEF Before
    <3>2. Cardinality(Before(batch.next)) <= Cardinality(Wanted)
      BY <2>1, <3>1, FS_Subset
    <3>3. batch.next > Len(batch.copy) => Before(batch.next) = Wanted
      <4>1. batch.next > Len(batch.copy) => \A k \in Wanted : k < batch.next
        BY <2>1, <2>2
      <4> QED
        BY <4>1 DEF Before
    <3> QED
      BY <2>3, <3>2, <3>3 DEF Running, SendInv
  <2>4. CASE Stopped
    BY <2>4 DEF Stopped, SendInv
  <2> QED
    BY <2>3, <2>4 DEF SendInv
<1>2. TypeOK /\ Control /\ SendInv /\ [Next]_vars => TypeOK' /\ Control' /\ SendInv'
  BY TypeNext, ControlNext, SendInvNext
<1>3. Init => SendInv
  BY DEF Init, SendInv
<1> QED
  BY <1>1, <1>2, <1>3, TypeInit, PTL DEF Spec

=============================================================================
