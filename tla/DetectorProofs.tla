--------------------------- MODULE DetectorProofs ---------------------------
(***************************************************************************)
(* Theorems about Detector, for every project, every set of callers and    *)
(* workers and every limit.                                                *)
(***************************************************************************)
EXTENDS Detector, FiniteSetTheorems, SequenceTheorems, TLAPS

-----------------------------------------------------------------------------
(* The types, spelled out for the provers: what a step may change.         *)

\* Only the call of c is changed.
OnlyCall(c) ==
    /\ c \in Caller
    /\ call' \in [Caller -> CallType]
    /\ \A d \in Caller \ {c} : call'[d] = call[d]

SameFound(c) ==
    /\ call'[c].frameworks = call[c].frameworks /\ call'[c].models = call[c].models
    /\ call'[c].fresh = call[c].fresh /\ call'[c].stat = call[c].stat

SamePlace(c) == call'[c].pos = call[c].pos /\ call'[c].phase = call[c].phase

\* A walk that the context ended.
Abandoned(c) ==
    /\ SameFound(c) /\ SamePlace(c) /\ ctx[c] # "live"
    /\ call'[c].pc \in {"returned", "walked"}
    /\ call'[c].pc = "walked" => op[c] = "concurrent"

LEMMA ScenarioFacts ==
    ASSUME TypeOK
    PROVE  /\ Len(tree) \in Nat /\ Entry \subseteq Nat \ {0} /\ IsFiniteSet(Entry)
           /\ \A i \in Entry : /\ tree[i].kind \in Kind /\ tree[i].hits \subseteq Framework
                               /\ IsFiniteSet(tree[i].hits)
           /\ op \in [Caller -> {"none", "detect", "concurrent", "cached"}]
           /\ \A c, d \in Caller : op[c] = "concurrent" /\ op[d] = "concurrent" => c = d
<1>1. PICK s \in Scenarios : tree = s.tree /\ op = s.op
  BY DEF TypeOK
<1>2. /\ tree \in Seq([kind : Kind, hits : SUBSET Framework, depth : Nat, skipped : BOOLEAN])
      /\ op \in [Caller -> {"none", "detect", "concurrent", "cached"}]
      /\ \A c, d \in Caller : op[c] = "concurrent" /\ op[d] = "concurrent" => c = d
  BY <1>1, ScenariosAssumption
<1>3. Len(tree) \in Nat /\ Entry \subseteq Nat \ {0}
  BY <1>2 DEF Entry
<1>4. IsFiniteSet(Entry)
  BY <1>3, FS_Interval DEF Entry
<1>5. \A i \in Entry : tree[i] \in [kind : Kind, hits : SUBSET Framework, depth : Nat, skipped : BOOLEAN]
  BY <1>2, ElementOfSeq DEF Entry
<1>6. \A i \in Entry : tree[i].kind \in Kind /\ tree[i].hits \subseteq Framework
  BY <1>5
<1>7. \A i \in Entry : IsFiniteSet(tree[i].hits)
  BY <1>6, PoolAssumption, FS_Subset
<1> QED
  BY <1>2, <1>3, <1>4, <1>6, <1>7

LEMMA CallFields ==
    ASSUME NEW r \in CallType
    PROVE  /\ r.pc \in {"start", "walk", "visit", "stat", "store", "walked", "waiting", "returned"}
           /\ r.phase \in {"frameworks", "models"} /\ r.pos \in Entry \cup {0}
           /\ r.status \in {"none", "ok", "error"} /\ r.frameworks \subseteq Detection
           /\ r.models \subseteq Entry /\ r.errors \subseteq Entry \cup {0}
           /\ r.fresh \subseteq Detection /\ r.stat \in Nat
  BY DEF CallType

\* The walk of the actions: what is returned for c is its call afterwards.
LEMMA Returned ==
    ASSUME TypeOK, NEW c \in Caller, NEW r \in CallType, Return(c, r)
    PROVE  OnlyCall(c) /\ call'[c] = r
  BY DEF TypeOK, Return, OnlyCall

LEMMA AbortedFacts ==
    ASSUME TypeOK, NEW c \in Caller, ctx[c] # "live", Return(c, Aborted(c, call[c])), op[c] # "none"
    PROVE  OnlyCall(c) /\ Abandoned(c)
<1>1. call[c] \in CallType /\ op[c] \in {"none", "detect", "concurrent", "cached"}
  BY ScenarioFacts DEF TypeOK
<1>2. CASE op[c] = "detect"
  <2> DEFINE r == [call[c] EXCEPT !.pc = "returned", !.status = "error"]
  <2>1. r \in CallType /\ r.pc = "returned" /\ r.frameworks = call[c].frameworks
        /\ r.models = call[c].models /\ r.fresh = call[c].fresh /\ r.stat = call[c].stat
        /\ r.pos = call[c].pos /\ r.phase = call[c].phase
    BY <1>1 DEF CallType
  <2>2. Return(c, r)
    BY <1>2 DEF Aborted
  <2> HIDE DEF r
  <2>3. OnlyCall(c) /\ call'[c] = r
    BY <2>1, <2>2, Returned
  <2> QED
    BY <2>1, <2>3 DEF Abandoned, SameFound, SamePlace
<1>3. CASE op[c] # "detect"
  <2> DEFINE r == [call[c] EXCEPT !.pc = IF op[c] = "cached" THEN "returned" ELSE "walked",
                                  !.status = "ok",
                                  !.errors = IF ctx[c] = "deadline" THEN @ \cup {0} ELSE @]
  <2>1. r \in CallType /\ r.pc = (IF op[c] = "cached" THEN "returned" ELSE "walked")
        /\ r.frameworks = call[c].frameworks
        /\ r.models = call[c].models /\ r.fresh = call[c].fresh /\ r.stat = call[c].stat
        /\ r.pos = call[c].pos /\ r.phase = call[c].phase
    BY <1>1 DEF CallType
  <2>2. Return(c, r)
    BY <1>3 DEF Aborted
  <2> HIDE DEF r
  <2>3. OnlyCall(c) /\ call'[c] = r
    BY <2>1, <2>2, Returned
  <2> QED
    BY <1>1, <1>3, <2>1, <2>3 DEF Abandoned, SameFound, SamePlace
<1> QED
  BY <1>2, <1>3

-----------------------------------------------------------------------------
(* Who is where: the pool serves the one concurrent scan, once it started. *)

CallInv(c) ==
    /\ op[c] = "none" => call[c].pc = "start"
    /\ call[c].pc = "start" => call[c] = NewCall
    /\ call[c].pc \in {"visit", "stat", "store"} => call[c].pos \in Walk
    /\ call[c].pc \in {"stat", "store"} => op[c] = "cached"
    /\ call[c].pc \in {"walked", "waiting"} => op[c] = "concurrent"
    /\ call[c].phase = "models" => op[c] = "detect"
    /\ closed /\ op[c] = "concurrent" => call[c].pc \in {"waiting", "returned"}

Unused == tasks = <<>> /\ ~closed /\ \A w \in Worker : worker[w].pc = "idle"

ControlInv ==
    /\ \A c \in Caller : CallInv(c)
    /\ (\A c \in Caller : op[c] = "concurrent" => call[c].pc = "start") => Unused

LEMMA WalkFacts ==
    ASSUME TypeOK
    PROVE  Walk \subseteq Entry /\ IsFiniteSet(Walk)
<1>1. Walk \subseteq Entry
  BY DEF Walk
<1> QED
  BY <1>1, ScenarioFacts, FS_Subset

LEMMA DetectionsType ==
    ASSUME TypeOK, NEW i \in Entry, NEW T, T \subseteq tree[i].hits
    PROVE  Detections(i, T) \subseteq Detection
  BY ScenarioFacts DEF TypeOK, Detections, Detection

LEMMA TheConcurrentCall ==
    ASSUME TypeOK, NEW c \in Caller, op[c] = "concurrent"
    PROVE  ConcurrentCall = c
<1>1. ConcurrentCall \in Caller /\ op[ConcurrentCall] = "concurrent"
  BY DEF ConcurrentCall
<1> QED
  BY <1>1, ScenarioFacts

LEMMA PoolUsed ==
    ASSUME TypeOK, ControlInv, ~Unused
    PROVE  /\ ConcurrentCall \in Caller /\ op[ConcurrentCall] = "concurrent"
           /\ call[ConcurrentCall].pc # "start" /\ Shared \in CallType
<1>1. PICK c \in Caller : op[c] = "concurrent" /\ call[c].pc # "start"
  BY DEF ControlInv
<1>2. ConcurrentCall = c
  BY <1>1, TheConcurrentCall
<1> QED
  BY <1>1, <1>2 DEF Shared, TypeOK

LEMMA OnwardFields ==
    ASSUME NEW r \in CallType
    PROVE  /\ Onward(r) \in CallType /\ Onward(r).pc = "walk" /\ Onward(r).phase = r.phase
           /\ Onward(r).pos = r.pos /\ Onward(r).status = r.status
           /\ Onward(r).frameworks = r.frameworks /\ Onward(r).models = r.models
           /\ Onward(r).errors = r.errors /\ Onward(r).fresh = r.fresh /\ Onward(r).stat = r.stat
  BY DEF Onward, CallType

-----------------------------------------------------------------------------
(* What each action does.                                                  *)

LEMMA StartFacts ==
    ASSUME TypeOK, NEW c \in Caller, Start(c)
    PROVE  /\ op[c] # "none" /\ call[c].pc = "start"
           /\ OnlyCall(c) /\ SameFound(c) /\ SamePlace(c) /\ call'[c].errors = call[c].errors
           /\ \/ /\ call'[c].pc = "returned" /\ call'[c].status = "error"
                 /\ UNCHANGED <<filesScanned, worker>> /\ op[c] # "cached" /\ ctx[c] # "live"
              \/ /\ call'[c].pc = "walk" /\ call'[c].status = call[c].status
                 /\ filesScanned' = 0
                 /\ worker' = IF op[c] = "concurrent"
                              THEN [w \in Worker |-> [worker[w] EXCEPT !.pc = "ready"]] ELSE worker
           /\ UNCHANGED <<tree, op, ctx, modTime, cache, tasks, closed>>
<1>1. call[c] \in CallType
  BY DEF TypeOK
<1>2. UNCHANGED <<tree, op, ctx, modTime, cache, tasks, closed>> /\ op[c] # "none" /\ call[c].pc = "start"
  BY DEF Start, input
<1>3. CASE ctx[c] # "live" /\ op[c] # "cached"
  <2> DEFINE r == [call[c] EXCEPT !.pc = "returned", !.status = "error"]
  <2>1. r \in CallType /\ r.pc = "returned" /\ r.status = "error" /\ r.frameworks = call[c].frameworks
        /\ r.models = call[c].models /\ r.fresh = call[c].fresh /\ r.stat = call[c].stat
        /\ r.pos = call[c].pos /\ r.phase = call[c].phase /\ r.errors = call[c].errors
    BY <1>1 DEF CallType
  <2>2. Return(c, r) /\ UNCHANGED <<filesScanned, worker>>
    BY <1>3 DEF Start
  <2> HIDE DEF r
  <2>3. OnlyCall(c) /\ call'[c] = r
    BY <2>1, <2>2, Returned
  <2> QED
    BY <1>2, <1>3, <2>1, <2>2, <2>3 DEF SameFound, SamePlace
<1>4. CASE ~(ctx[c] # "live" /\ op[c] # "cached")
  <2> DEFINE r == [call[c] EXCEPT !.pc = "walk"]
  <2>1. r \in CallType /\ r.pc = "walk" /\ r.status = call[c].status /\ r.frameworks = call[c].frameworks
        /\ r.models = call[c].models /\ r.fresh = call[c].fresh /\ r.stat = call[c].stat
        /\ r.pos = call[c].pos /\ r.phase = call[c].phase /\ r.errors = call[c].errors
    BY <1>1 DEF CallType
  <2>2. /\ Return(c, r) /\ filesScanned' = 0
        /\ worker' = IF op[c] = "concurrent"
                     THEN [w \in Worker |-> [worker[w] EXCEPT !.pc = "ready"]] ELSE worker
    BY <1>4 DEF Start
  <2> HIDE DEF r
  <2>3. OnlyCall(c) /\ call'[c] = r
    BY <2>1, <2>2, Returned
  <2> QED
    BY <1>2, <2>1, <2>2, <2>3 DEF SameFound, SamePlace
<1> QED
  BY <1>3, <1>4

\* The walk of c is over: all entries are behind it, or the limit is reached.
Rest(c) == {i \in Walk : i > call[c].pos}

LEMMA WalkedFacts ==
    ASSUME TypeOK, NEW c \in Caller, Return(c, Walked(c, call[c])), op[c] # "none"
    PROVE  /\ OnlyCall(c) /\ SameFound(c) /\ call'[c].errors = call[c].errors
           /\ \/ /\ op[c] = "detect" /\ call[c].phase = "frameworks" /\ call'[c].phase = "models"
                 /\ call'[c].pos = 0 /\ call'[c].pc = call[c].pc /\ call'[c].status = call[c].status
              \/ /\ ~(op[c] = "detect" /\ call[c].phase = "frameworks")
                 /\ SamePlace(c) /\ call'[c].status = "ok"
                 /\ call'[c].pc = IF op[c] = "concurrent" THEN "walked" ELSE "returned"
<1>1. call[c] \in CallType
  BY DEF TypeOK
<1>2. CASE op[c] = "detect" /\ call[c].phase = "frameworks"
  <2> DEFINE r == [call[c] EXCEPT !.phase = "models", !.pos = 0]
  <2>1. r \in CallType /\ r.pc = call[c].pc /\ r.status = call[c].status /\ r.frameworks = call[c].frameworks
        /\ r.models = call[c].models /\ r.fresh = call[c].fresh /\ r.stat = call[c].stat
        /\ r.pos = 0 /\ r.phase = "models" /\ r.errors = call[c].errors
    BY <1>1 DEF CallType
  <2>2. Return(c, r)
    BY <1>2 DEF Walked
  <2> HIDE DEF r
  <2>3. OnlyCall(c) /\ call'[c] = r
    BY <2>1, <2>2, Returned
  <2> QED
    BY <1>2, <2>1, <2>3 DEF SameFound
<1>3. CASE ~(op[c] = "detect" /\ call[c].phase = "frameworks")
  <2> DEFINE r == [call[c] EXCEPT !.pc = IF op[c] = "concurrent" THEN "walked" ELSE "returned",
                                  !.status = "ok"]
  <2>1. r \in CallType /\ r.pc = (IF op[c] = "concurrent" THEN "walked" ELSE "returned")
        /\ r.status = "ok" /\ r.frameworks = call[c].frameworks
        /\ r.models = call[c].models /\ r.fresh = call[c].fresh /\ r.stat = call[c].stat
        /\ r.pos = call[c].pos /\ r.phase = call[c].phase /\ r.errors = call[c].errors
    BY <1>1 DEF CallType
  <2>2. Return(c, r)
    BY <1>3 DEF Walked
  <2> HIDE DEF r
  <2>3. OnlyCall(c) /\ call'[c] = r
    BY <2>1, <2>2, Returned
  <2> QED
    BY <1>3, <2>1, <2>3 DEF SameFound, SamePlace
<1> QED
  BY <1>2, <1>3

LEMMA NextEntryFacts ==
    ASSUME TypeOK, ControlInv, NEW c \in Caller, NextEntry(c)
    PROVE  /\ op[c] # "none" /\ call[c].pc = "walk"
           /\ OnlyCall(c) /\ SameFound(c)
           /\ \/ Abandoned(c)
              \/ /\ ctx[c] = "live" /\ (Rest(c) = {} \/ filesScanned >= MaxFilesToScan)
                 /\ op[c] = "detect" /\ call[c].phase = "frameworks" /\ call'[c].phase = "models"
                 /\ call'[c].pos = 0 /\ call'[c].pc = "walk" /\ call'[c].status = call[c].status
                 /\ call'[c].errors = call[c].errors
              \/ /\ ctx[c] = "live" /\ (Rest(c) = {} \/ filesScanned >= MaxFilesToScan)
                 /\ ~(op[c] = "detect" /\ call[c].phase = "frameworks")
                 /\ SamePlace(c) /\ call'[c].status = "ok" /\ call'[c].errors = call[c].errors
                 /\ call'[c].pc = IF op[c] = "concurrent" THEN "walked" ELSE "returned"
              \/ /\ ctx[c] = "live" /\ filesScanned < MaxFilesToScan
                 /\ call'[c].pc = "visit" /\ call'[c].phase = call[c].phase
                 /\ call'[c].status = call[c].status /\ call'[c].errors = call[c].errors
                 /\ call'[c].pos \in Rest(c) /\ \A j \in Rest(c) : call'[c].pos <= j
           /\ UNCHANGED <<tree, op, ctx, modTime, filesScanned, cache, tasks, closed, worker>>
<1>1. call[c] \in CallType /\ Walk \subseteq Entry
  BY WalkFacts DEF TypeOK
<1>2. UNCHANGED <<tree, op, ctx, modTime, filesScanned, cache, tasks, closed, worker>> /\ call[c].pc = "walk"
  BY DEF NextEntry, input, pool
<1>3. op[c] # "none"
  BY <1>2 DEF ControlInv, CallInv
<1>4. CASE ctx[c] # "live" /\ Return(c, Aborted(c, call[c]))
  <2>1. OnlyCall(c) /\ Abandoned(c)
    BY <1>3, <1>4, AbortedFacts
  <2> QED
    BY <1>2, <1>3, <2>1 DEF Abandoned
<1>5. CASE /\ ctx[c] = "live" /\ (Rest(c) = {} \/ filesScanned >= MaxFilesToScan)
           /\ Return(c, Walked(c, call[c]))
  BY <1>2, <1>3, <1>5, WalkedFacts
<1>6. CASE /\ ctx[c] = "live" /\ filesScanned < MaxFilesToScan
           /\ \E i \in Rest(c) : /\ \A j \in Rest(c) : i <= j
                                 /\ Return(c, [call[c] EXCEPT !.pc = "visit", !.pos = i])
  <2>1. PICK i \in Rest(c) : /\ \A j \in Rest(c) : i <= j
                             /\ Return(c, [call[c] EXCEPT !.pc = "visit", !.pos = i])
    BY <1>6
  <2> DEFINE r == [call[c] EXCEPT !.pc = "visit", !.pos = i]
  <2>2. r \in CallType /\ r.pc = "visit" /\ r.status = call[c].status /\ r.frameworks = call[c].frameworks
        /\ r.models = call[c].models /\ r.fresh = call[c].fresh /\ r.stat = call[c].stat
        /\ r.pos = i /\ r.phase = call[c].phase /\ r.errors = call[c].errors
    BY <1>1 DEF CallType, Rest
  <2> HIDE DEF r
  <2>3. OnlyCall(c) /\ call'[c] = r
    BY <2>1, <2>2, Returned DEF r
  <2> QED
    BY <1>2, <1>3, <1>6, <2>1, <2>2, <2>3 DEF SameFound
<1> QED
  BY <1>4, <1>5, <1>6 DEF NextEntry, Rest

LEMMA VisitAbortedFacts ==
    ASSUME TypeOK, ControlInv, NEW c \in Caller, VisitAborted(c)
    PROVE  /\ op[c] # "none" /\ call[c].pc = "visit" /\ Here(c) \in Walk
           /\ OnlyCall(c) /\ Abandoned(c)
           /\ Count(c)
           /\ UNCHANGED <<tree, op, ctx, modTime, cache, tasks, closed, worker>>
<1>1. /\ UNCHANGED <<tree, op, ctx, modTime, cache, tasks, closed, worker>> /\ call[c].pc = "visit"
      /\ ctx[c] # "live" /\ Return(c, Aborted(c, call[c])) /\ Count(c)
  BY DEF VisitAborted, input, pool
<1>2. op[c] # "none" /\ Here(c) \in Walk
  BY <1>1 DEF ControlInv, CallInv, Here
<1> QED
  BY <1>1, <1>2, AbortedFacts

\* A visit that goes on: the place stays, the call returns to the walk.
Proceeds(c) ==
    /\ OnlyCall(c) /\ SamePlace(c) /\ call'[c].pc = "walk"
    /\ call'[c].status = call[c].status

LEMMA VisitFrameworksFacts ==
    ASSUME TypeOK, ControlInv, NEW c \in Caller, VisitFrameworks(c)
    PROVE  /\ op[c] = "detect" /\ call[c].phase = "frameworks" /\ call[c].pc = "visit" /\ ctx[c] = "live"
           /\ Here(c) \in Walk /\ Proceeds(c) /\ Count(c)
           /\ call'[c].models = call[c].models /\ call'[c].fresh = call[c].fresh
           /\ \/ /\ tree[Here(c)].kind \notin Code
                 /\ call'[c].frameworks = call[c].frameworks /\ call'[c].errors = call[c].errors
              \/ /\ tree[Here(c)].kind \in Code
                 /\ call'[c].frameworks = call[c].frameworks
                 /\ call'[c].errors = call[c].errors \cup {Here(c)}
              \/ /\ tree[Here(c)].kind \in Code /\ call'[c].errors = call[c].errors
                 /\ \E T \in Admitted(tree[Here(c)].kind, tree[Here(c)].hits,
                                      Room(call[c].frameworks, MaxFrameworks)) :
                       /\ T \subseteq tree[Here(c)].hits
                       /\ call'[c].frameworks = call[c].frameworks \cup Detections(Here(c), T)
           /\ UNCHANGED <<tree, op, ctx, modTime, cache, tasks, closed, worker>>
<1> DEFINE i == Here(c)
<1>1. /\ UNCHANGED <<tree, op, ctx, modTime, cache, tasks, closed, worker>>
      /\ op[c] = "detect" /\ call[c].phase = "frameworks" /\ call[c].pc = "visit" /\ ctx[c] = "live"
      /\ Count(c)
  BY DEF VisitFrameworks, input, pool
<1>2. i \in Walk /\ i \in Entry /\ call[c] \in CallType
  BY <1>1, WalkFacts DEF ControlInv, CallInv, Here, TypeOK
<1>3. CASE tree[i].kind \notin Code /\ Return(c, Onward(call[c]))
  <2>1. OnlyCall(c) /\ call'[c] = Onward(call[c])
    BY <1>2, <1>3, OnwardFields, Returned
  <2> QED
    BY <1>1, <1>2, <1>3, <2>1, OnwardFields DEF Proceeds, SamePlace
<1>4. CASE tree[i].kind \in Code /\ Return(c, Onward([call[c] EXCEPT !.errors = @ \cup {i}]))
  <2> DEFINE r == [call[c] EXCEPT !.errors = @ \cup {i}]
  <2>1. r \in CallType /\ r.pc = call[c].pc /\ r.status = call[c].status /\ r.frameworks = call[c].frameworks
        /\ r.models = call[c].models /\ r.fresh = call[c].fresh /\ r.stat = call[c].stat
        /\ r.pos = call[c].pos /\ r.phase = call[c].phase /\ r.errors = call[c].errors \cup {i}
    BY <1>2 DEF CallType
  <2>2. Return(c, Onward(r))
    BY <1>4
  <2> HIDE DEF r
  <2>3. OnlyCall(c) /\ call'[c] = Onward(r)
    BY <2>1, <2>2, OnwardFields, Returned
  <2> QED
    BY <1>1, <1>2, <1>4, <2>1, <2>3, OnwardFields DEF Proceeds, SamePlace
<1>5. CASE /\ tree[i].kind \in Code
           /\ \E T \in Admitted(tree[i].kind, tree[i].hits, Room(call[c].frameworks, MaxFrameworks)) :
                 Return(c, Onward([call[c] EXCEPT !.frameworks = @ \cup Detections(i, T)]))
  <2>1. PICK T \in Admitted(tree[i].kind, tree[i].hits, Room(call[c].frameworks, MaxFrameworks)) :
               Return(c, Onward([call[c] EXCEPT !.frameworks = @ \cup Detections(i, T)]))
    BY <1>5
  <2>2. T \subseteq tree[i].hits
    BY <2>1 DEF Admitted, Subsets
  <2>3. Detections(i, T) \subseteq Detection
    BY <1>2, <2>2, DetectionsType
  <2> DEFINE r == [call[c] EXCEPT !.frameworks = @ \cup Detections(i, T)]
  <2>4. r \in CallType /\ r.pc = call[c].pc /\ r.status = call[c].status
        /\ r.frameworks = call[c].frameworks \cup Detections(i, T)
        /\ r.models = call[c].models /\ r.fresh = call[c].fresh /\ r.stat = call[c].stat
        /\ r.pos = call[c].pos /\ r.phase = call[c].phase /\ r.errors = call[c].errors
    BY <1>2, <2>3 DEF CallType
  <2>5. Return(c, Onward(r))
    BY <2>1
  <2> HIDE DEF r
  <2>6. OnlyCall(c) /\ call'[c] = Onward(r)
    BY <2>4, <2>5, OnwardFields, Returned
  <2> QED
    BY <1>1, <1>2, <1>5, <2>1, <2>2, <2>4, <2>6, OnwardFields DEF Proceeds, SamePlace
<1> QED
  BY <1>3, <1>4, <1>5 DEF VisitFrameworks

LEMMA VisitModelsFacts ==
    ASSUME TypeOK, ControlInv, NEW c \in Caller, VisitModels(c)
    PROVE  /\ op[c] = "detect" /\ call[c].phase = "models" /\ call[c].pc = "visit" /\ ctx[c] = "live"
           /\ Here(c) \in Walk /\ Proceeds(c) /\ Count(c)
           /\ call'[c].frameworks = call[c].frameworks /\ call'[c].fresh = call[c].fresh
           /\ call'[c].errors = call[c].errors
           /\ call'[c].models = IF \/ tree[Here(c)].kind = "saved"
                                   \/ /\ tree[Here(c)].kind = "model"
                                      /\ Cardinality(call[c].models) < MaxModels
                                THEN call[c].models \cup {Here(c)} ELSE call[c].models
           /\ UNCHANGED <<tree, op, ctx, modTime, cache, tasks, closed, worker>>
<1> DEFINE i == Here(c)
           add == \/ tree[i].kind = "saved"
                  \/ tree[i].kind = "model" /\ Cardinality(call[c].models) < MaxModels
           r == [call[c] EXCEPT !.models = IF add THEN @ \cup {i} ELSE @]
<1>1. /\ UNCHANGED <<tree, op, ctx, modTime, cache, tasks, closed, worker>>
      /\ op[c] = "detect" /\ call[c].phase = "models" /\ call[c].pc = "visit" /\ ctx[c] = "live"
      /\ Count(c) /\ Return(c, Onward(r))
  BY DEF VisitModels, input, pool
<1>2. i \in Walk /\ i \in Entry /\ call[c] \in CallType
  BY <1>1, WalkFacts DEF ControlInv, CallInv, Here, TypeOK
<1> HIDE DEF i, add
<1>3. r \in CallType /\ r.pc = call[c].pc /\ r.status = call[c].status /\ r.frameworks = call[c].frameworks
      /\ r.models = (IF add THEN call[c].models \cup {i} ELSE call[c].models)
      /\ r.fresh = call[c].fresh /\ r.stat = call[c].stat
      /\ r.pos = call[c].pos /\ r.phase = call[c].phase /\ r.errors = call[c].errors
  BY <1>2 DEF CallType
<1> HIDE DEF r
<1>4. OnlyCall(c) /\ call'[c] = Onward(r)
  BY <1>1, <1>3, OnwardFields, Returned
<1>5. call'[c].models = IF add THEN call[c].models \cup {i} ELSE call[c].models
  BY <1>3, <1>4, OnwardFields
<1>6. Proceeds(c) /\ call'[c].frameworks = call[c].frameworks /\ call'[c].fresh = call[c].fresh
      /\ call'[c].errors = call[c].errors
  BY <1>1, <1>3, <1>4, OnwardFields DEF Proceeds, SamePlace
<1> QED
  BY <1>1, <1>2, <1>5, <1>6 DEF i, add

LEMMA SendTaskFacts ==
    ASSUME TypeOK, ControlInv, NEW c \in Caller, SendTask(c)
    PROVE  /\ op[c] = "concurrent" /\ call[c].pc = "visit" /\ Here(c) \in Walk
           /\ Proceeds(c) /\ SameFound(c) /\ call'[c].errors = call[c].errors /\ Count(c)
           /\ tasks' = Append(tasks, Here(c))
           /\ UNCHANGED <<tree, op, ctx, modTime, cache, closed, worker>>
<1>1. /\ UNCHANGED <<tree, op, ctx, modTime, cache, closed, worker>>
      /\ op[c] = "concurrent" /\ call[c].pc = "visit" /\ Count(c)
      /\ tasks' = Append(tasks, Here(c)) /\ Return(c, Onward(call[c]))
  BY DEF SendTask, input
<1>2. Here(c) \in Walk /\ call[c] \in CallType
  BY <1>1 DEF ControlInv, CallInv, Here, TypeOK
<1>3. OnlyCall(c) /\ call'[c] = Onward(call[c])
  BY <1>1, <1>2, OnwardFields, Returned
<1> QED
  BY <1>1, <1>2, <1>3, OnwardFields DEF Proceeds, SamePlace, SameFound

LEMMA CloseTasksFacts ==
    ASSUME TypeOK, ControlInv, NEW c \in Caller, CloseTasks(c)
    PROVE  /\ op[c] = "concurrent" /\ call[c].pc = "walked"
           /\ OnlyCall(c) /\ SameFound(c) /\ SamePlace(c) /\ call'[c].errors = call[c].errors
           /\ call'[c].pc = "waiting" /\ call'[c].status = call[c].status
           /\ closed' = TRUE
           /\ UNCHANGED <<tree, op, ctx, modTime, filesScanned, cache, tasks, worker>>
<1> DEFINE r == [call[c] EXCEPT !.pc = "waiting"]
<1>1. /\ UNCHANGED <<tree, op, ctx, modTime, filesScanned, cache, tasks, worker>>
      /\ call[c].pc = "walked" /\ closed' = TRUE /\ Return(c, r)
  BY DEF CloseTasks, input
<1>2. op[c] = "concurrent" /\ call[c] \in CallType
  BY <1>1 DEF ControlInv, CallInv, TypeOK
<1>3. r \in CallType /\ r.pc = "waiting" /\ r.status = call[c].status /\ r.frameworks = call[c].frameworks
      /\ r.models = call[c].models /\ r.fresh = call[c].fresh /\ r.stat = call[c].stat
      /\ r.pos = call[c].pos /\ r.phase = call[c].phase /\ r.errors = call[c].errors
  BY <1>2 DEF CallType
<1> HIDE DEF r
<1>4. OnlyCall(c) /\ call'[c] = r
  BY <1>1, <1>3, Returned
<1> QED
  BY <1>1, <1>2, <1>3, <1>4 DEF SamePlace, SameFound

LEMMA JoinFacts ==
    ASSUME TypeOK, ControlInv, NEW c \in Caller, Join(c)
    PROVE  /\ op[c] = "concurrent" /\ call[c].pc = "waiting"
           /\ \A w \in Worker : worker[w].pc = "done"
           /\ OnlyCall(c) /\ SameFound(c) /\ SamePlace(c) /\ call'[c].errors = call[c].errors
           /\ call'[c].pc = "returned" /\ call'[c].status = call[c].status
           /\ UNCHANGED <<tree, op, ctx, modTime, filesScanned, cache, tasks, closed, worker>>
<1> DEFINE r == [call[c] EXCEPT !.pc = "returned"]
<1>1. /\ UNCHANGED <<tree, op, ctx, modTime, filesScanned, cache, tasks, closed, worker>>
      /\ call[c].pc = "waiting" /\ (\A w \in Worker : worker[w].pc = "done") /\ Return(c, r)
  BY DEF Join, input, pool
<1>2. op[c] = "concurrent" /\ call[c] \in CallType
  BY <1>1 DEF ControlInv, CallInv, TypeOK
<1>3. r \in CallType /\ r.pc = "returned" /\ r.status = call[c].status /\ r.frameworks = call[c].frameworks
      /\ r.models = call[c].models /\ r.fresh = call[c].fresh /\ r.stat = call[c].stat
      /\ r.pos = call[c].pos /\ r.phase = call[c].phase /\ r.errors = call[c].errors
  BY <1>2 DEF CallType
<1> HIDE DEF r
<1>4. OnlyCall(c) /\ call'[c] = r
  BY <1>1, <1>3, Returned
<1> QED
  BY <1>1, <1>2, <1>3, <1>4 DEF SamePlace, SameFound

\* What is kept of a file with these detections: all of them, or as many as
\* one file may have.
AsManyAsAllowed(T, i) == T \subseteq tree[i].hits /\ (T = tree[i].hits \/ Cardinality(T) = MaxFrameworks)

LEMMA VisitCachedFacts ==
    ASSUME TypeOK, ControlInv, NEW c \in Caller, VisitCached(c)
    PROVE  /\ op[c] = "cached" /\ call[c].pc = "visit" /\ ctx[c] = "live"
           /\ Here(c) \in Walk /\ Count(c)
           /\ OnlyCall(c) /\ SamePlace(c) /\ call'[c].status = call[c].status
           /\ \/ /\ Proceeds(c) /\ tree[Here(c)].kind = "model" /\ Cardinality(call[c].models) < MaxModels
                 /\ call'[c].models = call[c].models \cup {Here(c)}
                 /\ call'[c].frameworks = call[c].frameworks /\ call'[c].fresh = call[c].fresh
                 /\ call'[c].errors = call[c].errors
              \/ /\ Proceeds(c) /\ tree[Here(c)].kind \notin Code
                 /\ tree[Here(c)].kind = "model" => Cardinality(call[c].models) >= MaxModels
                 /\ SameFound(c) /\ call'[c].errors = call[c].errors
              \/ /\ Proceeds(c) /\ tree[Here(c)].kind \in Code /\ Cached(Here(c))
                 /\ call'[c].frameworks = call[c].frameworks \cup cache[Here(c)].frameworks
                 /\ call'[c].models = call[c].models /\ call'[c].fresh = call[c].fresh
                 /\ call'[c].errors = call[c].errors
              \/ /\ Proceeds(c) /\ tree[Here(c)].kind \in Code
                 /\ SameFound(c) /\ call'[c].errors = call[c].errors \cup {Here(c)}
              \/ /\ Proceeds(c) /\ tree[Here(c)].kind \in Code /\ AsManyAsAllowed({}, Here(c))
                 /\ SameFound(c) /\ call'[c].errors = call[c].errors
              \/ /\ call'[c].pc = "stat" /\ tree[Here(c)].kind \in Code
                 /\ \E T : /\ AsManyAsAllowed(T, Here(c))
                           /\ call'[c].fresh = Detections(Here(c), T)
                           /\ call'[c].frameworks = call[c].frameworks \cup Detections(Here(c), T)
                 /\ call'[c].models = call[c].models /\ call'[c].errors = call[c].errors
           /\ UNCHANGED <<tree, op, ctx, modTime, cache, tasks, closed, worker>>
<1> DEFINE i == Here(c)
           hits == {T \in SUBSET tree[i].hits : Cardinality(T) <= MaxFrameworks
                        /\ (Cardinality(T) = MaxFrameworks \/ T = tree[i].hits)}
           choice == IF tree[i].kind = "python" THEN hits ELSE {tree[i].hits}
<1>1. /\ UNCHANGED <<tree, op, ctx, modTime, cache, tasks, closed, worker>>
      /\ op[c] = "cached" /\ call[c].pc = "visit" /\ ctx[c] = "live" /\ Count(c)
  BY DEF VisitCached, input, pool
<1>2. i \in Walk /\ i \in Entry /\ call[c] \in CallType
  BY <1>1, WalkFacts DEF ControlInv, CallInv, Here, TypeOK
<1>3. CASE tree[i].kind = "model" /\ Cardinality(call[c].models) < MaxModels
           /\ Return(c, Onward([call[c] EXCEPT !.models = @ \cup {i}]))
  <2> DEFINE r == [call[c] EXCEPT !.models = @ \cup {i}]
  <2>1. r \in CallType /\ r.status = call[c].status /\ r.frameworks = call[c].frameworks
        /\ r.models = call[c].models \cup {i} /\ r.fresh = call[c].fresh /\ r.stat = call[c].stat
        /\ r.pos = call[c].pos /\ r.phase = call[c].phase /\ r.errors = call[c].errors
    BY <1>2 DEF CallType
  <2>2. Return(c, Onward(r))
    BY <1>3
  <2> HIDE DEF r
  <2>3. OnlyCall(c) /\ call'[c] = Onward(r)
    BY <2>1, <2>2, OnwardFields, Returned
  <2> QED
    BY <1>1, <1>2, <1>3, <2>1, <2>3, OnwardFields DEF Proceeds, SamePlace
<1>4. CASE tree[i].kind \notin Code /\ (tree[i].kind = "model" => Cardinality(call[c].models) >= MaxModels)
           /\ Return(c, Onward(call[c]))
  <2>1. OnlyCall(c) /\ call'[c] = Onward(call[c])
    BY <1>2, <1>4, OnwardFields, Returned
  <2> QED
    BY <1>1, <1>2, <1>4, <2>1, OnwardFields DEF Proceeds, SamePlace, SameFound
<1>5. CASE tree[i].kind \in Code /\ Cached(i)
           /\ Return(c, Onward([call[c] EXCEPT !.frameworks = @ \cup cache[i].frameworks]))
  <2>0. cache[i].frameworks \subseteq Detection
    <3>1. cache[i] \in [frameworks : SUBSET Detection, modTime : Nat]
      BY <1>5 DEF Cached, TypeOK
    <3> QED
      BY <3>1
  <2> DEFINE r == [call[c] EXCEPT !.frameworks = @ \cup cache[i].frameworks]
  <2>1. r \in CallType /\ r.status = call[c].status
        /\ r.frameworks = call[c].frameworks \cup cache[i].frameworks
        /\ r.models = call[c].models /\ r.fresh = call[c].fresh /\ r.stat = call[c].stat
        /\ r.pos = call[c].pos /\ r.phase = call[c].phase /\ r.errors = call[c].errors
    BY <1>2, <2>0 DEF CallType
  <2>2. Return(c, Onward(r))
    BY <1>5
  <2> HIDE DEF r
  <2>3. OnlyCall(c) /\ call'[c] = Onward(r)
    BY <2>1, <2>2, OnwardFields, Returned
  <2> QED
    BY <1>1, <1>2, <1>5, <2>1, <2>3, OnwardFields DEF Proceeds, SamePlace
<1>6. CASE tree[i].kind \in Code /\ Return(c, Onward([call[c] EXCEPT !.errors = @ \cup {i}]))
  <2> DEFINE r == [call[c] EXCEPT !.errors = @ \cup {i}]
  <2>1. r \in CallType /\ r.status = call[c].status /\ r.frameworks = call[c].frameworks
        /\ r.models = call[c].models /\ r.fresh = call[c].fresh /\ r.stat = call[c].stat
        /\ r.pos = call[c].pos /\ r.phase = call[c].phase /\ r.errors = call[c].errors \cup {i}
    BY <1>2 DEF CallType
  <2>2. Return(c, Onward(r))
    BY <1>6
  <2> HIDE DEF r
  <2>3. OnlyCall(c) /\ call'[c] = Onward(r)
    BY <2>1, <2>2, OnwardFields, Returned
  <2> QED
    BY <1>1, <1>2, <1>6, <2>1, <2>3, OnwardFields DEF Proceeds, SamePlace, SameFound
<1>7. \A T \in choice : AsManyAsAllowed(T, i)
  BY DEF AsManyAsAllowed
<1>8. CASE tree[i].kind \in Code /\ {} \in choice /\ Return(c, Onward(call[c]))
  <2>1. OnlyCall(c) /\ call'[c] = Onward(call[c])
    BY <1>2, <1>8, OnwardFields, Returned
  <2> HIDE DEF choice
  <2>2. AsManyAsAllowed({}, i)
    BY <1>7, <1>8
  <2> QED
    BY <1>1, <1>2, <1>8, <2>1, <2>2, OnwardFields DEF Proceeds, SamePlace, SameFound
<1>9. ASSUME tree[i].kind \in Code, NEW T \in choice,
             Return(c, [call[c] EXCEPT !.frameworks = @ \cup Detections(i, T),
                                       !.fresh = Detections(i, T), !.pc = "stat"])
      PROVE  /\ OnlyCall(c) /\ SamePlace(c) /\ call'[c].status = call[c].status /\ call'[c].pc = "stat"
             /\ call'[c].fresh = Detections(i, T)
             /\ call'[c].frameworks = call[c].frameworks \cup Detections(i, T)
             /\ call'[c].models = call[c].models /\ call'[c].errors = call[c].errors
  <2> HIDE DEF choice
  <2>1. AsManyAsAllowed(T, i)
    BY <1>7
  <2>2. Detections(i, T) \subseteq Detection
    BY <1>2, <2>1, DetectionsType DEF AsManyAsAllowed
  <2> DEFINE r == [call[c] EXCEPT !.frameworks = @ \cup Detections(i, T),
                                  !.fresh = Detections(i, T), !.pc = "stat"]
  <2>3. r \in CallType /\ r.pc = "stat" /\ r.status = call[c].status
        /\ r.frameworks = call[c].frameworks \cup Detections(i, T) /\ r.fresh = Detections(i, T)
        /\ r.models = call[c].models
        /\ r.pos = call[c].pos /\ r.phase = call[c].phase /\ r.errors = call[c].errors
    BY <1>2, <2>2 DEF CallType
  <2>4. Return(c, r)
    BY <1>9
  <2> HIDE DEF r
  <2>5. OnlyCall(c) /\ call'[c] = r
    BY <2>3, <2>4, Returned
  <2> QED
    BY <2>3, <2>5 DEF SamePlace
<1>10. CASE /\ tree[i].kind \in Code
            /\ \E T \in choice : Return(c, [call[c] EXCEPT !.frameworks = @ \cup Detections(i, T),
                                       !.fresh = Detections(i, T), !.pc = "stat"])
  <2> HIDE DEF choice, i
  <2> QED
    BY <1>1, <1>2, <1>7, <1>9, <1>10 DEF i
<1> QED
  BY <1>3, <1>4, <1>5, <1>6, <1>8, <1>10 DEF VisitCached

LEMMA StatFileFacts ==
    ASSUME TypeOK, ControlInv, NEW c \in Caller, StatFile(c)
    PROVE  /\ op[c] = "cached" /\ call[c].pc = "stat" /\ Here(c) \in Walk
           /\ OnlyCall(c) /\ SamePlace(c) /\ call'[c].status = call[c].status /\ call'[c].pc = "store"
           /\ call'[c].frameworks = call[c].frameworks /\ call'[c].models = call[c].models
           /\ call'[c].errors = call[c].errors /\ call'[c].fresh = call[c].fresh
           /\ UNCHANGED <<tree, op, ctx, modTime, filesScanned, cache, tasks, closed, worker>>
<1> DEFINE r == [call[c] EXCEPT !.pc = "store", !.stat = modTime[Here(c)]]
<1>1. /\ UNCHANGED <<tree, op, ctx, modTime, filesScanned, cache, tasks, closed, worker>>
      /\ call[c].pc = "stat" /\ Return(c, r)
  BY DEF StatFile, input, pool
<1>2. op[c] = "cached" /\ Here(c) \in Walk /\ call[c] \in CallType
  BY <1>1 DEF ControlInv, CallInv, TypeOK, Here
<1>3. modTime[Here(c)] \in Nat
  BY <1>2, WalkFacts DEF TypeOK
<1>4. r \in CallType /\ r.pc = "store" /\ r.status = call[c].status /\ r.frameworks = call[c].frameworks
      /\ r.models = call[c].models /\ r.fresh = call[c].fresh
      /\ r.pos = call[c].pos /\ r.phase = call[c].phase /\ r.errors = call[c].errors
  BY <1>2, <1>3 DEF CallType
<1> HIDE DEF r
<1>5. OnlyCall(c) /\ call'[c] = r
  BY <1>1, <1>4, Returned
<1> QED
  BY <1>1, <1>2, <1>4, <1>5 DEF SamePlace

\* The steps of SetCacheEntry before the entry is stored: the call stays where
\* it is, and at most one entry is deleted.
MakesRoom(c) == BeginCount(c) \/ RangeVisit(c) \/ EndCount(c) \/ DeleteOldest(c)

LEMMA MakesRoomFacts ==
    ASSUME TypeOK, ControlInv, NEW c \in Caller, MakesRoom(c)
    PROVE  /\ op[c] = "cached" /\ call[c].pc = "store"
           /\ OnlyCall(c) /\ SamePlace(c) /\ SameFound(c)
           /\ cache' = cache \/ \E old : cache' = [x \in DOMAIN cache \ {old} |-> cache[x]]
           /\ UNCHANGED <<tree, op, ctx, modTime, filesScanned, call, tasks, closed, worker>>
<1>1. /\ UNCHANGED <<tree, op, ctx, modTime, filesScanned, call, tasks, closed, worker>>
      /\ call[c].pc = "store"
      /\ cache' = cache \/ \E old : cache' = [x \in DOMAIN cache \ {old} |-> cache[x]]
  BY DEF MakesRoom, BeginCount, RangeVisit, EndCount, DeleteOldest, Storing, input, pool
<1>2. op[c] = "cached" /\ call \in [Caller -> CallType]
  BY <1>1 DEF ControlInv, CallInv, TypeOK
<1> QED
  BY <1>1, <1>2 DEF OnlyCall, SamePlace, SameFound

LEMMA StoreFacts ==
    ASSUME TypeOK, ControlInv, NEW c \in Caller, Store(c)
    PROVE  /\ op[c] = "cached" /\ call[c].pc = "store" /\ Here(c) \in Walk
           /\ Proceeds(c) /\ call'[c].fresh = {}
           /\ call'[c].frameworks = call[c].frameworks /\ call'[c].models = call[c].models
           /\ call'[c].errors = call[c].errors
           /\ cache' = [i \in DOMAIN cache \cup {Here(c)} |->
                            IF i = Here(c) THEN [frameworks |-> call[c].fresh, modTime |-> call[c].stat]
                            ELSE cache[i]]
           /\ UNCHANGED <<tree, op, ctx, modTime, filesScanned, tasks, closed, worker>>
<1> DEFINE r == [call[c] EXCEPT !.fresh = {}, !.stat = 0]
<1>1. /\ UNCHANGED <<tree, op, ctx, modTime, filesScanned, tasks, closed, worker>>
      /\ call[c].pc = "store" /\ Return(c, Onward(r))
      /\ cache' = [i \in DOMAIN cache \cup {Here(c)} |->
                      IF i = Here(c) THEN [frameworks |-> call[c].fresh, modTime |-> call[c].stat]
                      ELSE cache[i]]
  BY DEF Store, Storing, input, pool
<1>2. op[c] = "cached" /\ Here(c) \in Walk /\ call[c] \in CallType
  BY <1>1 DEF ControlInv, CallInv, TypeOK, Here
<1>3. r \in CallType /\ r.status = call[c].status /\ r.frameworks = call[c].frameworks
      /\ r.models = call[c].models /\ r.fresh = {}
      /\ r.pos = call[c].pos /\ r.phase = call[c].phase /\ r.errors = call[c].errors
  BY <1>2 DEF CallType
<1> HIDE DEF r
<1>4. OnlyCall(c) /\ call'[c] = Onward(r)
  BY <1>1, <1>3, OnwardFields, Returned
<1>5. Proceeds(c) /\ call'[c].fresh = {} /\ call'[c].frameworks = call[c].frameworks
      /\ call'[c].models = call[c].models /\ call'[c].errors = call[c].errors
  BY <1>1, <1>3, <1>4, OnwardFields DEF Proceeds, SamePlace
<1> QED
  BY <1>1, <1>2, <1>5

\* Only worker w changes.
OnlyWorker(w) ==
    /\ DOMAIN worker' = Worker
    /\ \A u \in Worker \ {w} : worker'[u] = worker[u]

WorkerIs(r, pc, i, todo) == r \in WorkerType(i) /\ r.pc = pc /\ r.entry = i /\ r.todo = todo

LEMMA WorkerFacts ==
    ASSUME TypeOK, NEW w \in Worker
    PROVE  /\ worker[w].entry \in Entry \cup {0} /\ worker[w] \in WorkerType(worker[w].entry)
           /\ worker[w].pc \in {"idle", "ready", "check", "add", "done"}
           /\ worker[w].todo \subseteq ToAdd(worker[w].entry)
<1>1. worker[w].entry \in Entry \cup {0} /\ worker[w] \in WorkerType(worker[w].entry)
  BY DEF TypeOK
<1> QED
  BY <1>1 DEF WorkerType

LEMMA WorkerUpdate ==
    ASSUME TypeOK, NEW w \in Worker, NEW r, worker' = [worker EXCEPT ![w] = r]
    PROVE  OnlyWorker(w) /\ worker'[w] = r
  BY DEF TypeOK, OnlyWorker

LEMMA HeadFacts ==
    ASSUME TypeOK, tasks # <<>>
    PROVE  Head(tasks) \in Entry /\ Tail(tasks) \in Seq(Entry)
<1>1. tasks \in Seq(Entry)
  BY DEF TypeOK
<1> QED
  BY <1>1

LEMMA ReceiveFacts ==
    ASSUME TypeOK, ControlInv, NEW w \in Worker, Receive(w)
    PROVE  /\ worker[w].pc = "ready"
           /\ ConcurrentCall \in Caller /\ op[ConcurrentCall] = "concurrent"
           /\ call[ConcurrentCall].pc # "start"
           /\ \/ /\ tasks = <<>> /\ closed /\ UNCHANGED <<tasks, call>>
                 /\ OnlyWorker(w) /\ WorkerIs(worker'[w], "done", worker[w].entry, worker[w].todo)
              \/ /\ tasks # <<>> /\ tasks' = Tail(tasks) /\ Head(tasks) \in Entry
                 /\ \/ /\ ctx[ConcurrentCall] # "live" /\ UNCHANGED call
                       /\ OnlyWorker(w) /\ WorkerIs(worker'[w], "done", worker[w].entry, worker[w].todo)
                    \/ /\ tree[Head(tasks)].kind \in {"saved", "model"} \cup Code
                       /\ ctx[ConcurrentCall] = "live" /\ UNCHANGED call
                       /\ OnlyWorker(w)
                       /\ WorkerIs(worker'[w], "check", Head(tasks),
                                   IF tree[Head(tasks)].kind \in Code
                                   THEN Detections(Head(tasks), tree[Head(tasks)].hits) ELSE {Head(tasks)})
                    \/ /\ tree[Head(tasks)].kind \in Code
                       /\ OnlyCall(ConcurrentCall) /\ SamePlace(ConcurrentCall) /\ SameFound(ConcurrentCall)
                       /\ call'[ConcurrentCall].pc = call[ConcurrentCall].pc
                       /\ call'[ConcurrentCall].status = call[ConcurrentCall].status
                       /\ call'[ConcurrentCall].errors = call[ConcurrentCall].errors \cup {Head(tasks)}
                       /\ UNCHANGED worker
                    \/ /\ tree[Head(tasks)].kind \notin {"saved", "model"} \cup Code
                       /\ UNCHANGED <<worker, call>>
           /\ UNCHANGED <<tree, op, ctx, modTime, filesScanned, cache, closed>>
<1> DEFINE C == ConcurrentCall
           i == Head(tasks)
<1>1. /\ UNCHANGED <<tree, op, ctx, modTime, filesScanned, cache, closed>> /\ worker[w].pc = "ready"
  BY DEF Receive, input
<1>2. C \in Caller /\ op[C] = "concurrent" /\ call[C].pc # "start" /\ Shared \in CallType /\ Shared = call[C]
  <2>1. ~Unused
    BY <1>1 DEF Unused
  <2> QED
    BY <2>1, PoolUsed DEF Shared
<1>3. worker[w].entry \in Entry \cup {0} /\ worker[w] \in WorkerType(worker[w].entry)
  BY WorkerFacts
<1>4. ASSUME worker' = [worker EXCEPT ![w].pc = "done"]
      PROVE  OnlyWorker(w) /\ WorkerIs(worker'[w], "done", worker[w].entry, worker[w].todo)
  <2> DEFINE r == [worker[w] EXCEPT !.pc = "done"]
  <2>1. WorkerIs(r, "done", worker[w].entry, worker[w].todo)
    BY <1>3 DEF WorkerIs, WorkerType
  <2>2. worker' = [worker EXCEPT ![w] = r]
    BY <1>4
  <2> HIDE DEF r
  <2> QED
    BY <2>1, <2>2, WorkerUpdate
<1>5. CASE tasks = <<>> /\ closed /\ worker' = [worker EXCEPT ![w].pc = "done"] /\ UNCHANGED <<tasks, call>>
  BY <1>1, <1>2, <1>4, <1>5
<1>6. CASE /\ tasks # <<>> /\ tasks' = Tail(tasks)
           /\ ctx[C] # "live" /\ worker' = [worker EXCEPT ![w].pc = "done"] /\ UNCHANGED call
  BY <1>1, <1>2, <1>4, <1>6, HeadFacts
<1>7. CASE /\ tasks # <<>> /\ tasks' = Tail(tasks)
           /\ ctx[C] = "live" /\ tree[i].kind \in {"saved", "model"} \cup Code
           /\ worker' = [worker EXCEPT ![w] = [pc |-> "check", entry |-> i,
                 todo |-> IF tree[i].kind \in Code THEN Detections(i, tree[i].hits) ELSE {i}]]
           /\ UNCHANGED call
  <2>1. i \in Entry
    BY <1>7, HeadFacts
  <2>2. Detections(i, tree[i].hits) \subseteq Detection
    BY <2>1, DetectionsType
  <2> DEFINE t == IF tree[i].kind \in Code THEN Detections(i, tree[i].hits) ELSE {i}
             r == [pc |-> "check", entry |-> i, todo |-> t]
  <2>3. t \subseteq ToAdd(i) /\ i # 0
    BY <2>1, <2>2, ScenarioFacts DEF ToAdd
  <2>4. OnlyWorker(w) /\ worker'[w] = r
    BY <1>7, WorkerUpdate
  <2> HIDE DEF t
  <2>5. WorkerIs(r, "check", i, t)
    BY <2>3 DEF WorkerIs, WorkerType
  <2> HIDE DEF r
  <2>6. WorkerIs(worker'[w], "check", i, t)
    BY <2>4, <2>5
  <2> QED
    BY <1>1, <1>2, <1>7, <2>1, <2>4, <2>6 DEF t
<1>8. CASE /\ tasks # <<>> /\ tasks' = Tail(tasks)
           /\ tree[i].kind \in Code /\ Return(C, [Shared EXCEPT !.errors = @ \cup {i}])
           /\ UNCHANGED worker
  <2>1. i \in Entry
    BY <1>8, HeadFacts
  <2> DEFINE r == [call[C] EXCEPT !.errors = @ \cup {i}]
  <2>2. r \in CallType /\ r.pc = call[C].pc /\ r.status = call[C].status
        /\ r.frameworks = call[C].frameworks /\ r.models = call[C].models /\ r.fresh = call[C].fresh
        /\ r.stat = call[C].stat
        /\ r.pos = call[C].pos /\ r.phase = call[C].phase /\ r.errors = call[C].errors \cup {i}
    BY <1>2, <2>1 DEF CallType
  <2>3. Return(C, r)
    BY <1>2, <1>8
  <2> HIDE DEF r
  <2>4. OnlyCall(C) /\ call'[C] = r
    BY <1>2, <2>2, <2>3, Returned
  <2> QED
    BY <1>1, <1>2, <1>8, <2>1, <2>2, <2>4 DEF SamePlace, SameFound
<1>9. CASE /\ tasks # <<>> /\ tasks' = Tail(tasks)
           /\ tree[i].kind \notin {"saved", "model"} \cup Code /\ UNCHANGED <<worker, call>>
  BY <1>1, <1>2, <1>9, HeadFacts
<1> QED
  BY <1>5, <1>6, <1>7, <1>8, <1>9 DEF Receive

LEMMA CheckLimitFacts ==
    ASSUME TypeOK, ControlInv, NEW w \in Worker, CheckLimit(w)
    PROVE  /\ worker[w].pc = "check"
           /\ ConcurrentCall \in Caller /\ op[ConcurrentCall] = "concurrent"
           /\ call[ConcurrentCall].pc # "start"
           /\ OnlyWorker(w)
           /\ \E todo : /\ WorkerIs(worker'[w], IF todo = {} THEN "ready" ELSE "add", worker[w].entry, todo)
                        /\ todo \subseteq worker[w].todo
                        /\ \/ /\ tree[worker[w].entry].kind = "notebook"
                              /\ todo \in Admitted("notebook", worker[w].todo,
                                                   Room(call[ConcurrentCall].frameworks, MaxFrameworks))
                           \/ /\ tree[worker[w].entry].kind = "python"
                              /\ todo = IF Room(call[ConcurrentCall].frameworks, MaxFrameworks) = 0
                                        THEN {} ELSE worker[w].todo
                           \/ /\ tree[worker[w].entry].kind \in {"saved", "model"}
                              /\ todo = IF Cardinality(call[ConcurrentCall].models) < MaxModels
                                        THEN worker[w].todo ELSE {}
           /\ UNCHANGED <<tree, op, ctx, modTime, filesScanned, cache, call, tasks, closed>>
<1> DEFINE C == ConcurrentCall
           kind == tree[worker[w].entry].kind
           room == Room(Shared.frameworks, MaxFrameworks)
           go(todo) == [worker[w] EXCEPT !.todo = todo, !.pc = IF todo = {} THEN "ready" ELSE "add"]
<1>1. /\ UNCHANGED <<tree, op, ctx, modTime, filesScanned, cache, call, tasks, closed>>
      /\ worker[w].pc = "check"
  BY DEF CheckLimit, input
<1>2. C \in Caller /\ op[C] = "concurrent" /\ call[C].pc # "start" /\ Shared = call[C]
  <2>1. ~Unused
    BY <1>1 DEF Unused
  <2> QED
    BY <2>1, PoolUsed DEF Shared
<1>3. worker[w].entry \in Entry \cup {0} /\ worker[w] \in WorkerType(worker[w].entry)
  BY WorkerFacts
<1>4. ASSUME NEW todo, todo \subseteq worker[w].todo, worker' = [worker EXCEPT ![w] = go(todo)]
      PROVE  /\ OnlyWorker(w)
             /\ WorkerIs(worker'[w], IF todo = {} THEN "ready" ELSE "add", worker[w].entry, todo)
  <2>1. WorkerIs(go(todo), IF todo = {} THEN "ready" ELSE "add", worker[w].entry, todo)
    BY <1>3, <1>4 DEF WorkerIs, WorkerType
  <2> HIDE DEF go
  <2> QED
    BY <1>4, <2>1, WorkerUpdate
<1>5. CASE /\ kind = "notebook"
           /\ \E todo \in Admitted(kind, worker[w].todo, room) : worker' = [worker EXCEPT ![w] = go(todo)]
  <2>1. PICK todo \in Admitted(kind, worker[w].todo, room) : worker' = [worker EXCEPT ![w] = go(todo)]
    BY <1>5
  <2>2. todo \subseteq worker[w].todo
    BY <1>5, <2>1 DEF Admitted, Subsets
  <2>3. /\ OnlyWorker(w)
        /\ WorkerIs(worker'[w], IF todo = {} THEN "ready" ELSE "add", worker[w].entry, todo)
    BY <1>4, <2>1, <2>2
  <2>4. todo \in Admitted("notebook", worker[w].todo, Room(call[C].frameworks, MaxFrameworks))
    BY <1>2, <1>5, <2>1
  <2> QED
    BY <1>1, <1>2, <1>5, <2>2, <2>3, <2>4
<1>6. CASE /\ kind = "python"
           /\ worker' = [worker EXCEPT ![w] = go(IF room = 0 THEN {} ELSE worker[w].todo)]
  <2> DEFINE todo == IF room = 0 THEN {} ELSE worker[w].todo
  <2>1. todo \subseteq worker[w].todo /\ worker' = [worker EXCEPT ![w] = go(todo)]
    BY <1>6
  <2>2. todo = IF Room(call[C].frameworks, MaxFrameworks) = 0 THEN {} ELSE worker[w].todo
    BY <1>2
  <2> HIDE DEF todo, go
  <2>3. /\ OnlyWorker(w)
        /\ WorkerIs(worker'[w], IF todo = {} THEN "ready" ELSE "add", worker[w].entry, todo)
    BY <1>4, <2>1
  <2> QED
    BY <1>1, <1>2, <1>6, <2>1, <2>2, <2>3
<1>7. CASE /\ kind \in {"saved", "model"}
           /\ worker' = [worker EXCEPT ![w] =
                            go(IF Cardinality(Shared.models) < MaxModels THEN worker[w].todo ELSE {})]
  <2> DEFINE todo == IF Cardinality(Shared.models) < MaxModels THEN worker[w].todo ELSE {}
  <2>1. todo \subseteq worker[w].todo /\ worker' = [worker EXCEPT ![w] = go(todo)]
    BY <1>7
  <2>2. todo = IF Cardinality(call[C].models) < MaxModels THEN worker[w].todo ELSE {}
    BY <1>2
  <2> HIDE DEF todo, go
  <2>3. /\ OnlyWorker(w)
        /\ WorkerIs(worker'[w], IF todo = {} THEN "ready" ELSE "add", worker[w].entry, todo)
    BY <1>4, <2>1
  <2> QED
    BY <1>1, <1>2, <1>7, <2>1, <2>2, <2>3
<1> QED
  BY <1>5, <1>6, <1>7 DEF CheckLimit

\* A worker with an entry has something to add of that entry.
Busy == {w \in Worker : worker[w].pc \in {"check", "add"}}

BusyInv ==
    \A w \in Busy :
        LET i == worker[w].entry IN
        /\ i \in Entry /\ tree[i].kind \in {"saved", "model"} \cup Code
        /\ IsFiniteSet(worker[w].todo)
        /\ tree[i].kind \notin Code => worker[w].todo = {i}
        /\ tree[i].kind \in Code =>
              \A d \in worker[w].todo : d.entry = i /\ d.framework \in tree[i].hits

LEMMA AddFacts ==
    ASSUME TypeOK, ControlInv, BusyInv, NEW w \in Worker, Add(w)
    PROVE  /\ worker[w].pc = "add"
           /\ ConcurrentCall \in Caller /\ op[ConcurrentCall] = "concurrent"
           /\ call[ConcurrentCall].pc # "start"
           /\ OnlyWorker(w) /\ OnlyCall(ConcurrentCall) /\ SamePlace(ConcurrentCall)
           /\ call'[ConcurrentCall].pc = call[ConcurrentCall].pc
           /\ call'[ConcurrentCall].status = call[ConcurrentCall].status
           /\ call'[ConcurrentCall].errors = call[ConcurrentCall].errors
           /\ call'[ConcurrentCall].fresh = call[ConcurrentCall].fresh
           /\ \E x \in worker[w].todo :
                 /\ WorkerIs(worker'[w],
                             IF worker[w].todo \ {x} = {} THEN "ready"
                             ELSE IF tree[worker[w].entry].kind = "python" THEN "check" ELSE "add",
                             worker[w].entry, worker[w].todo \ {x})
                 /\ \/ /\ tree[worker[w].entry].kind \in Code
                       /\ call'[ConcurrentCall].frameworks = call[ConcurrentCall].frameworks \cup {x}
                       /\ call'[ConcurrentCall].models = call[ConcurrentCall].models
                    \/ /\ tree[worker[w].entry].kind \notin Code
                       /\ call'[ConcurrentCall].frameworks = call[ConcurrentCall].frameworks
                       /\ call'[ConcurrentCall].models = call[ConcurrentCall].models \cup {x}
           /\ UNCHANGED <<tree, op, ctx, modTime, filesScanned, cache, tasks, closed>>
<1> DEFINE C == ConcurrentCall
           kind == tree[worker[w].entry].kind
           left(x) == worker[w].todo \ {x}
           pc(x) == IF left(x) = {} THEN "ready" ELSE IF kind = "python" THEN "check" ELSE "add"
<1>1. /\ UNCHANGED <<tree, op, ctx, modTime, filesScanned, cache, tasks, closed>>
      /\ worker[w].pc = "add"
  BY DEF Add, input
<1>2. PICK x \in worker[w].todo :
        /\ worker' = [worker EXCEPT ![w].todo = left(x), ![w].pc = pc(x)]
        /\ Return(C, IF kind \in Code THEN [Shared EXCEPT !.frameworks = @ \cup {x}]
                     ELSE [Shared EXCEPT !.models = @ \cup {x}])
  BY DEF Add
<1>3. C \in Caller /\ op[C] = "concurrent" /\ call[C].pc # "start" /\ Shared = call[C] /\ call[C] \in CallType
  <2>1. ~Unused
    BY <1>1 DEF Unused
  <2> QED
    BY <2>1, PoolUsed DEF Shared
<1>4. worker[w].entry \in Entry \cup {0} /\ worker[w] \in WorkerType(worker[w].entry)
  BY WorkerFacts
<1>5. worker[w].entry \in Entry /\ worker[w].entry # 0
  BY <1>1, ScenarioFacts DEF BusyInv, Busy
<1>6. x \in ToAdd(worker[w].entry)
  BY <1>2, WorkerFacts
<1>7. OnlyWorker(w) /\ WorkerIs(worker'[w], pc(x), worker[w].entry, left(x))
  <2>0. left(x) \subseteq worker[w].todo /\ pc(x) \in {"ready", "check", "add"}
    OBVIOUS
  <2> HIDE DEF left, pc
  <2>1. worker' = [worker EXCEPT ![w] = [worker[w] EXCEPT !.todo = left(x), !.pc = pc(x)]]
    BY <1>2 DEF TypeOK
  <2> DEFINE r == [worker[w] EXCEPT !.todo = left(x), !.pc = pc(x)]
  <2>2. WorkerIs(r, pc(x), worker[w].entry, left(x))
    BY <1>4, <2>0 DEF WorkerIs, WorkerType
  <2> HIDE DEF r
  <2>3. OnlyWorker(w) /\ worker'[w] = r
    BY <2>1, WorkerUpdate DEF r
  <2> QED
    BY <2>2, <2>3
<1>8. CASE kind \in Code
  <2>1. x \in Detection
    BY <1>5, <1>6, <1>8 DEF ToAdd
  <2> DEFINE r == [call[C] EXCEPT !.frameworks = @ \cup {x}]
  <2>2. r \in CallType /\ r.pc = call[C].pc /\ r.status = call[C].status
        /\ r.frameworks = call[C].frameworks \cup {x} /\ r.models = call[C].models /\ r.fresh = call[C].fresh
        /\ r.pos = call[C].pos /\ r.phase = call[C].phase /\ r.errors = call[C].errors
    BY <1>3, <2>1 DEF CallType
  <2>3. Return(C, r)
    BY <1>2, <1>3, <1>8
  <2> HIDE DEF r
  <2>4. OnlyCall(C) /\ call'[C] = r
    BY <1>3, <2>2, <2>3, Returned
  <2> QED
    BY <1>1, <1>2, <1>3, <1>7, <1>8, <2>2, <2>4 DEF SamePlace
<1>9. CASE kind \notin Code
  <2>1. x \in Entry
    BY <1>5, <1>6, <1>9 DEF ToAdd
  <2> DEFINE r == [call[C] EXCEPT !.models = @ \cup {x}]
  <2>2. r \in CallType /\ r.pc = call[C].pc /\ r.status = call[C].status
        /\ r.frameworks = call[C].frameworks /\ r.models = call[C].models \cup {x} /\ r.fresh = call[C].fresh
        /\ r.pos = call[C].pos /\ r.phase = call[C].phase /\ r.errors = call[C].errors
    BY <1>3, <2>1 DEF CallType
  <2>3. Return(C, r)
    BY <1>2, <1>3, <1>9
  <2> HIDE DEF r
  <2>4. OnlyCall(C) /\ call'[C] = r
    BY <1>3, <2>2, <2>3, Returned
  <2> QED
    BY <1>1, <1>2, <1>3, <1>7, <1>9, <2>2, <2>4 DEF SamePlace
<1> QED
  BY <1>8, <1>9

LEMMA CancelFacts ==
    ASSUME TypeOK, NEW c \in Caller, Cancel(c)
    PROVE  /\ ctx' \in [Caller -> {"live", "canceled", "deadline"}] /\ ctx'[c] # "live"
           /\ \A d \in Caller \ {c} : ctx'[d] = ctx[d]
           /\ op[c] # "none"
           /\ UNCHANGED <<tree, op, modTime, filesScanned, cache, call, tasks, closed, worker>>
<1>1. PICK why \in {"canceled", "deadline"} : ctx' = [ctx EXCEPT ![c] = why]
  BY DEF Cancel
<1>2. UNCHANGED <<tree, op, modTime, filesScanned, cache, call, tasks, closed, worker>> /\ op[c] # "none"
  BY DEF Cancel, input, pool
<1> QED
  BY <1>1, <1>2 DEF TypeOK

LEMMA EditFacts ==
    ASSUME TypeOK, NEW i \in Entry, Edit(i)
    PROVE  /\ modTime' \in [Entry -> Nat]
           /\ UNCHANGED <<tree, op, ctx, filesScanned, cache, call, tasks, closed, worker>>
<1>1. UNCHANGED <<tree, op, ctx, filesScanned, cache, call, tasks, closed, worker>>
  BY DEF Edit, input, pool
<1>2. PICK now \in 1..MaxEdits : modTime' = [modTime EXCEPT ![i] = now]
  BY DEF Edit
<1> QED
  BY <1>1, <1>2 DEF TypeOK

-----------------------------------------------------------------------------
(* Types and control, step by step.                                        *)

Core == TypeOK /\ ControlInv /\ BusyInv

CacheType(f) ==
    /\ DOMAIN f \subseteq Entry
    /\ \A i \in DOMAIN f : f[i] \in [frameworks : SUBSET Detection, modTime : Nat]

LEMMA SameProject ==
    ASSUME tree' = tree
    PROVE  /\ Entry' = Entry /\ Detection' = Detection /\ CallType' = CallType /\ Walk' = Walk
           /\ \A i : WorkerType(i)' = WorkerType(i)
<1>1. Entry' = Entry
  BY DEF Entry
<1>2. Detection' = Detection
  BY <1>1 DEF Detection
<1>3. CallType' = CallType
  BY <1>1, <1>2 DEF CallType
<1>4. Walk' = Walk
  BY <1>1 DEF Walk, Visited, Above
<1>5. \A i : ToAdd(i)' = ToAdd(i)
  BY <1>1, <1>2 DEF ToAdd
<1>6. \A i : WorkerType(i)' = WorkerType(i)
  BY <1>5 DEF WorkerType
<1> QED
  BY <1>1, <1>2, <1>3, <1>4, <1>6

WorkersType(f) ==
    /\ DOMAIN f = Worker
    /\ \A w \in Worker : f[w].entry \in Entry \cup {0} /\ f[w] \in WorkerType(f[w].entry)

LEMMA TypeKept ==
    ASSUME TypeOK, tree' = tree, op' = op,
           ctx' \in [Caller -> {"live", "canceled", "deadline"}], modTime' \in [Entry -> Nat],
           filesScanned' \in Nat, CacheType(cache'), EvictionType', call' \in [Caller -> CallType],
           tasks' \in Seq(Entry), closed' \in BOOLEAN, WorkersType(worker')
    PROVE  TypeOK'
<1>1. \E s \in Scenarios : tree' = s.tree /\ op' = s.op
  BY DEF TypeOK
<1>2. modTime' \in [Entry' -> Nat] /\ call' \in [Caller -> CallType'] /\ tasks' \in Seq(Entry')
  BY SameProject
<1>3. /\ DOMAIN cache' \subseteq Entry'
      /\ \A i \in DOMAIN cache' : cache'[i] \in [frameworks : SUBSET Detection', modTime : Nat]
  BY SameProject DEF CacheType
<1>4. /\ DOMAIN worker' = Worker
      /\ \A w \in Worker : /\ worker'[w].entry \in Entry' \cup {0}
                           /\ worker'[w] \in WorkerType(worker'[w].entry)
  BY SameProject DEF WorkersType
<1>5. \A w \in Worker : worker'[w] \in [pc : {"idle", "ready", "check", "add", "done"},
                                        entry : {worker'[w].entry}, todo : SUBSET ToAdd(worker[w].entry)']
  BY <1>4, SameProject DEF WorkerType, ToAdd
<1>6. \A w \in Worker : (worker[w] \in WorkerType(worker[w].entry))'
  BY <1>5 DEF WorkerType
<1> QED
  BY <1>1, <1>2, <1>3, <1>4, <1>6 DEF TypeOK

LEMMA TypeParts ==
    ASSUME TypeOK
    PROVE  /\ ctx \in [Caller -> {"live", "canceled", "deadline"}] /\ modTime \in [Entry -> Nat]
           /\ filesScanned \in Nat /\ CacheType(cache) /\ call \in [Caller -> CallType]
           /\ EvictionType
           /\ tasks \in Seq(Entry) /\ closed \in BOOLEAN /\ WorkersType(worker)
  BY DEF TypeOK, CacheType, WorkersType

\* Only SetCacheEntry changes what is known of it.
LEMMA EvictionSame ==
    ASSUME TypeOK, [Next]_vars, \A c \in Caller : ~MakesRoom(c) /\ ~Store(c)
    PROVE  UNCHANGED <<tree, eviction>>
<1>1. ASSUME NEW c \in Caller, CallStep(c) PROVE UNCHANGED <<tree, eviction>>
  BY <1>1 DEF CallStep, MakesRoom, Start, NextEntry, VisitAborted, VisitFrameworks, VisitModels,
              SendTask, CloseTasks, Join, VisitCached, StatFile, input
<1>2. ASSUME NEW c \in Caller, Cancel(c) PROVE UNCHANGED <<tree, eviction>>
  BY <1>2 DEF Cancel, input
<1>3. ASSUME NEW w \in Worker, WorkerStep(w) PROVE UNCHANGED <<tree, eviction>>
  BY <1>3 DEF WorkerStep, Receive, CheckLimit, Add, input
<1>4. ASSUME NEW i \in Entry, Edit(i) PROVE UNCHANGED <<tree, eviction>>
  BY <1>4 DEF Edit, input
<1>5. CASE UNCHANGED vars
  BY <1>5 DEF vars, input
<1> QED
  BY <1>1, <1>2, <1>3, <1>4, <1>5 DEF Next

LEMMA MakingFields ==
    ASSUME NEW r \in MakingType
    PROVE  /\ r.pc \in {"no", "count", "choose", "ready"} /\ r.due \subseteq Entry
           /\ r.seen \subseteq Entry /\ r.oldest \in Entry \cup {0} /\ r.time \in Nat
  BY DEF MakingType

\* Only c makes room, and others are disturbed.
OnlyMaking(c) ==
    /\ c \in Caller
    /\ making' \in [Caller -> MakingType]
    /\ \A d \in Caller \ {c} : making'[d] = making[d]

\* Others are where they were.
OthersStay(c) ==
    /\ c \in Caller
    /\ making' \in [Caller -> MakingType]
    /\ \A d \in Caller \ {c} : making'[d].pc = making[d].pc

LEMMA OnlyMakingStays == \A c : OnlyMaking(c) => OthersStay(c)
  BY DEF OnlyMaking, OthersStay

LEMMA MakingUpdate ==
    ASSUME TypeOK, NEW c \in Caller, NEW r \in MakingType, making' = [making EXCEPT ![c] = r]
    PROVE  OnlyMaking(c) /\ making'[c] = r
  BY DEF TypeOK, EvictionType, OnlyMaking

LEMMA MakingValues ==
    ASSUME TypeOK
    PROVE  /\ NotMaking \in MakingType /\ NotMaking.pc = "no"
           /\ \A pc \in {"count", "choose"} :
                 /\ Ranging(pc) \in MakingType /\ Ranging(pc).pc = pc /\ Ranging(pc).due = DOMAIN cache
                 /\ Ranging(pc).seen = {} /\ Ranging(pc).oldest = 0
           /\ LET ready == [NotMaking EXCEPT !.pc = "ready"] IN ready \in MakingType /\ ready.pc = "ready"
<1>1. DOMAIN cache \subseteq Entry
  BY DEF TypeOK
<1> QED
  BY <1>1 DEF NotMaking, Ranging, MakingType

LEMMA BeginCountFacts ==
    ASSUME TypeOK, NEW c \in Caller, BeginCount(c)
    PROVE  /\ OnlyMaking(c) /\ making[c].pc = "no" /\ making'[c] = Ranging("count")
           /\ UNCHANGED <<tree, cache, disturbed, overlaps>>
<1>1. /\ making[c].pc = "no" /\ making' = [making EXCEPT ![c] = Ranging("count")]
      /\ UNCHANGED <<tree, cache, disturbed, overlaps>>
  BY DEF BeginCount, Storing, input
<1> QED
  BY <1>1, MakingValues, MakingUpdate

LEMMA RangeVisitFacts ==
    ASSUME TypeOK, NEW c \in Caller, RangeVisit(c)
    PROVE  /\ OnlyMaking(c) /\ making[c].pc \in {"count", "choose"}
           /\ making'[c].pc = making[c].pc /\ making'[c].due = making[c].due
           /\ \E i \in DOMAIN cache : /\ making'[c].seen = making[c].seen \cup {i}
                                      /\ \/ making'[c].oldest = making[c].oldest
                                            /\ (making[c].pc = "choose" => making[c].oldest # 0)
                                         \/ making'[c].oldest = i
           /\ UNCHANGED <<tree, cache, disturbed, overlaps>>
<1>1. making[c].pc \in {"count", "choose"} /\ UNCHANGED <<tree, cache, disturbed, overlaps>>
  BY DEF RangeVisit, Storing, input
<1> DEFINE Older(i) == /\ making[c].pc = "choose"
                       /\ making[c].oldest = 0 \/ cache[i].modTime < making[c].time
           r(i) == [making[c] EXCEPT !.seen = @ \cup {i},
                                     !.oldest = IF Older(i) THEN i ELSE @,
                                     !.time = IF Older(i) THEN cache[i].modTime ELSE @]
<1>2. making \in [Caller -> MakingType] /\ making[c] \in MakingType
  BY DEF TypeOK, EvictionType
<1>3. PICK i \in DOMAIN cache \ making[c].seen : making' = [making EXCEPT ![c] = r(i)]
  BY <1>2 DEF RangeVisit
<1>4. i \in Entry /\ cache[i].modTime \in Nat
  <2>1. cache[i] \in [frameworks : SUBSET Detection, modTime : Nat] /\ i \in Entry
    BY DEF TypeOK
  <2> QED
    BY <2>1
<1>5. /\ r(i) \in MakingType /\ r(i).pc = making[c].pc /\ r(i).due = making[c].due
      /\ r(i).seen = making[c].seen \cup {i}
      /\ r(i).oldest = IF Older(i) THEN i ELSE making[c].oldest
  <2> DEFINE o == Older(i)
  <2> HIDE DEF o
  <2> QED
    BY <1>2, <1>4 DEF MakingType
<1>6. OnlyMaking(c) /\ making'[c] = r(i)
  <2> HIDE DEF r
  <2> QED
    BY <1>3, <1>5, MakingUpdate
<1>7. ~Older(i) /\ making[c].pc = "choose" => making[c].oldest # 0
  OBVIOUS
<1> HIDE DEF r, Older
<1> QED
  BY <1>1, <1>3, <1>5, <1>6, <1>7

LEMMA EndCountFacts ==
    ASSUME TypeOK, NEW c \in Caller, EndCount(c)
    PROVE  /\ OnlyMaking(c) /\ making[c].pc = "count" /\ RangeOver(c)
           /\ \/ /\ Cardinality(making[c].seen) >= MaxCacheEntries
                 /\ making'[c] = Ranging("choose")
              \/ /\ ~(Cardinality(making[c].seen) >= MaxCacheEntries)
                 /\ making'[c].pc = "ready"
           /\ UNCHANGED <<tree, cache, disturbed, overlaps>>
<1> DEFINE r == IF Cardinality(making[c].seen) >= MaxCacheEntries THEN Ranging("choose")
                ELSE [NotMaking EXCEPT !.pc = "ready"]
<1>1. /\ making[c].pc = "count" /\ RangeOver(c) /\ making' = [making EXCEPT ![c] = r]
      /\ UNCHANGED <<tree, cache, disturbed, overlaps>>
  BY DEF EndCount, Storing, input
<1>2. r \in MakingType
  BY MakingValues
<1>3. OnlyMaking(c) /\ making'[c] = r
  <2> HIDE DEF r
  <2> QED
    BY <1>1, <1>2, MakingUpdate
<1> QED
  BY <1>1, <1>3, MakingValues

LEMMA DeleteOldestFacts ==
    ASSUME TypeOK, NEW c \in Caller, DeleteOldest(c)
    PROVE  /\ OthersStay(c) /\ making[c].pc = "choose" /\ RangeOver(c) /\ making'[c].pc = "ready"
           /\ DOMAIN cache' = DOMAIN cache \ {making[c].oldest}
           /\ disturbed' = disturbed \cup OthersMaking(c)
           /\ UNCHANGED <<tree, overlaps>>
<1> DEFINE left(d) == [making[d] EXCEPT !.due = @ \ {making[c].oldest}]
           r(d) == IF d = c THEN [NotMaking EXCEPT !.pc = "ready"] ELSE left(d)
<1>1. /\ making[c].pc = "choose" /\ RangeOver(c) /\ making' = [d \in Caller |-> r(d)]
      /\ DOMAIN cache' = DOMAIN cache \ {making[c].oldest}
      /\ disturbed' = disturbed \cup OthersMaking(c)
      /\ UNCHANGED <<tree, overlaps>>
  BY DEF DeleteOldest, Storing, input
<1>2. \A d \in Caller : left(d) \in MakingType /\ left(d).pc = making[d].pc
  BY DEF TypeOK, EvictionType, MakingType
<1>3. \A d \in Caller : r(d) \in MakingType /\ (d # c => r(d).pc = making[d].pc)
  <2> HIDE DEF left
  <2> QED
    BY <1>2, MakingValues
<1>4. r(c).pc = "ready"
  BY MakingValues
<1> HIDE DEF r
<1> QED
  BY <1>1, <1>3, <1>4 DEF OthersStay

LEMMA StoreRoomFacts ==
    ASSUME TypeOK, NEW c \in Caller, Store(c)
    PROVE  /\ OnlyMaking(c) /\ making[c].pc = "ready" /\ making'[c].pc = "no"
           /\ DOMAIN cache' = DOMAIN cache \cup {Here(c)}
           /\ disturbed' = (disturbed \ {c}) \cup OthersMaking(c)
           /\ overlaps' = overlaps + (IF c \in disturbed THEN 1 ELSE 0)
           /\ UNCHANGED tree
<1>1. /\ making[c].pc = "ready" /\ making' = [making EXCEPT ![c] = NotMaking]
      /\ DOMAIN cache' = DOMAIN cache \cup {Here(c)}
      /\ disturbed' = (disturbed \ {c}) \cup OthersMaking(c)
      /\ overlaps' = overlaps + (IF c \in disturbed THEN 1 ELSE 0)
      /\ UNCHANGED tree
  BY DEF Store, Storing, input
<1> QED
  BY <1>1, MakingValues, MakingUpdate

LEMMA EvictionNext ==
    ASSUME TypeOK, [Next]_vars
    PROVE  EvictionType'
<1>0. EvictionType /\ disturbed \subseteq Caller /\ overlaps \in Nat
  BY DEF TypeOK, EvictionType
<1>a. ASSUME tree' = tree PROVE MakingType' = MakingType
  BY <1>a, SameProject DEF MakingType
<1>1. CASE \A c \in Caller : ~MakesRoom(c) /\ ~Store(c)
  BY <1>0, <1>1, <1>a, EvictionSame DEF EvictionType, eviction
<1>2. ASSUME NEW c \in Caller, MakesRoom(c) PROVE EvictionType'
  <2>1. /\ OthersStay(c) /\ tree' = tree /\ overlaps' = overlaps
        /\ disturbed' \in {disturbed, disturbed \cup OthersMaking(c)}
    BY <1>2, BeginCountFacts, RangeVisitFacts, EndCountFacts, DeleteOldestFacts, OnlyMakingStays
       DEF MakesRoom
  <2>2. disturbed' \subseteq Caller
    BY <1>0, <2>1 DEF OthersMaking
  <2> QED
    BY <1>0, <1>a, <2>1, <2>2 DEF EvictionType, OthersStay
<1>3. ASSUME NEW c \in Caller, Store(c) PROVE EvictionType'
  <2>1. /\ OnlyMaking(c) /\ tree' = tree /\ overlaps' = overlaps + (IF c \in disturbed THEN 1 ELSE 0)
        /\ disturbed' = (disturbed \ {c}) \cup OthersMaking(c)
    BY <1>3, StoreRoomFacts
  <2>2. disturbed' \subseteq Caller /\ overlaps' \in Nat
    BY <1>0, <2>1 DEF OthersMaking
  <2> QED
    BY <1>a, <2>1, <2>2 DEF EvictionType, OnlyMaking
<1> QED
  BY <1>1, <1>2, <1>3

LEMMA CountType ==
    ASSUME TypeOK, NEW c \in Caller, Count(c)
    PROVE  filesScanned' \in Nat
<1>1. filesScanned \in Nat
  BY DEF TypeOK
<1> QED
  BY <1>1 DEF Count

LEMMA WorkerTypeKept ==
    ASSUME TypeOK, NEW w \in Worker, OnlyWorker(w), NEW pc, NEW i \in Entry \cup {0}, NEW todo,
           WorkerIs(worker'[w], pc, i, todo)
    PROVE  WorkersType(worker')
<1>1. \A u \in Worker : worker[u].entry \in Entry \cup {0} /\ worker[u] \in WorkerType(worker[u].entry)
  BY DEF TypeOK
<1>2. worker'[w].entry \in Entry \cup {0} /\ worker'[w] \in WorkerType(worker'[w].entry)
  BY DEF WorkerIs
<1> QED
  BY <1>1, <1>2 DEF OnlyWorker, WorkersType

LEMMA CallTypeNext ==
    ASSUME Core, NEW c \in Caller, CallStep(c)
    PROVE  TypeOK'
<1> USE DEF Core
<1>0. /\ ctx \in [Caller -> {"live", "canceled", "deadline"}] /\ modTime \in [Entry -> Nat]
      /\ filesScanned \in Nat /\ CacheType(cache) /\ call \in [Caller -> CallType] /\ EvictionType'
      /\ tasks \in Seq(Entry) /\ closed \in BOOLEAN /\ WorkersType(worker)
  BY TypeParts, EvictionNext DEF Next
<1>1. CASE Start(c)
  <2>1. \/ filesScanned' = filesScanned /\ worker' = worker
        \/ /\ filesScanned' = 0
           /\ \/ worker' = worker
              \/ worker' = [w \in Worker |-> [worker[w] EXCEPT !.pc = "ready"]]
    BY <1>1, StartFacts
  <2>2. filesScanned' \in Nat
    BY <1>0, <2>1
  <2>3. WorkersType(worker')
    <3>1. \A w \in Worker : worker[w].entry \in Entry \cup {0} /\ worker[w] \in WorkerType(worker[w].entry)
      BY <1>0 DEF WorkersType
    <3>2. \A w \in Worker : LET r == [worker[w] EXCEPT !.pc = "ready"]
                            IN  r.entry = worker[w].entry /\ r \in WorkerType(worker[w].entry)
      BY <3>1 DEF WorkerType
    <3>3. WorkersType([w \in Worker |-> [worker[w] EXCEPT !.pc = "ready"]])
      BY <3>1, <3>2 DEF WorkersType
    <3> QED
      BY <1>0, <2>1, <3>3
  <2> QED
    BY <1>0, <1>1, <2>2, <2>3, StartFacts, TypeKept DEF OnlyCall
<1>2. CASE NextEntry(c)
  BY <1>0, <1>2, NextEntryFacts, TypeKept DEF OnlyCall
<1>3. CASE VisitAborted(c)
  BY <1>0, <1>3, VisitAbortedFacts, CountType, TypeKept DEF OnlyCall
<1>4. CASE VisitFrameworks(c)
  BY <1>0, <1>4, VisitFrameworksFacts, CountType, TypeKept DEF OnlyCall, Proceeds
<1>5. CASE VisitModels(c)
  BY <1>0, <1>5, VisitModelsFacts, CountType, TypeKept, ZenonT(30) DEF OnlyCall, Proceeds
<1>6. CASE SendTask(c)
  <2>0. tasks' = Append(tasks, Here(c)) /\ Here(c) \in Entry
    BY <1>6, SendTaskFacts, WalkFacts
  <2>1. tasks' \in Seq(Entry)
    BY <1>0, <2>0, AppendProperties
  <2> QED
    BY <1>0, <1>6, <2>1, SendTaskFacts, CountType, TypeKept DEF OnlyCall, Proceeds
<1>7. CASE CloseTasks(c)
  BY <1>0, <1>7, CloseTasksFacts, TypeKept DEF OnlyCall
<1>8. CASE Join(c)
  BY <1>0, <1>8, JoinFacts, TypeKept DEF OnlyCall
<1>9. CASE VisitCached(c)
  BY <1>0, <1>9, VisitCachedFacts, CountType, TypeKept DEF OnlyCall
<1>10. CASE StatFile(c)
  BY <1>0, <1>10, StatFileFacts, TypeKept DEF OnlyCall
<1>11. CASE Store(c)
  <2>1. [frameworks |-> call[c].fresh, modTime |-> call[c].stat] \in [frameworks : SUBSET Detection, modTime : Nat]
    BY <1>0, CallFields
  <2>2. Here(c) \in Entry
    BY <1>11, StoreFacts, WalkFacts
  <2> DEFINE new == [frameworks |-> call[c].fresh, modTime |-> call[c].stat]
             i == Here(c)
  <2>a. cache' = [j \in DOMAIN cache \cup {i} |-> IF j = i THEN new ELSE cache[j]]
    BY <1>11, StoreFacts
  <2>b. new \in [frameworks : SUBSET Detection, modTime : Nat] /\ i \in Entry
    BY <2>1, <2>2
  <2> HIDE DEF new, i
  <2>3. CacheType(cache')
    BY <1>0, <2>a, <2>b DEF CacheType
  <2> QED
    BY <1>0, <1>11, <2>3, StoreFacts, TypeKept DEF OnlyCall, Proceeds
<1>12. CASE MakesRoom(c)
  <2>0. cache' = cache \/ \E old : cache' = [x \in DOMAIN cache \ {old} |-> cache[x]]
    BY <1>12, MakesRoomFacts
  <2>1. CacheType(cache')
    BY <1>0, <2>0 DEF CacheType
  <2> QED
    BY <1>0, <1>12, <2>1, MakesRoomFacts, TypeKept
<1> QED
  BY <1>1, <1>2, <1>3, <1>4, <1>5, <1>6, <1>7, <1>8, <1>9, <1>10, <1>11, <1>12 DEF CallStep, MakesRoom

LEMMA WorkerTypeNext ==
    ASSUME Core, NEW w \in Worker, WorkerStep(w)
    PROVE  TypeOK'
<1> USE DEF Core
<1>0. /\ ctx \in [Caller -> {"live", "canceled", "deadline"}] /\ modTime \in [Entry -> Nat]
      /\ filesScanned \in Nat /\ CacheType(cache) /\ call \in [Caller -> CallType] /\ EvictionType'
      /\ tasks \in Seq(Entry) /\ closed \in BOOLEAN /\ WorkersType(worker)
      /\ worker[w].entry \in Entry \cup {0}
  BY TypeParts, WorkerFacts, EvictionNext DEF Next
<1>1. CASE Receive(w)
  <2>1. UNCHANGED <<tree, op, ctx, modTime, filesScanned, cache, closed>>
    BY <1>1, ReceiveFacts
  <2>2. tasks' \in Seq(Entry)
    BY <1>0, <1>1, ReceiveFacts, HeadFacts
  <2>3. call' \in [Caller -> CallType]
    BY <1>0, <1>1, ReceiveFacts DEF OnlyCall
  <2>4. WorkersType(worker')
    BY <1>0, <1>1, ReceiveFacts, WorkerTypeKept
  <2> QED
    BY <1>0, <2>1, <2>2, <2>3, <2>4, TypeKept
<1>2. CASE CheckLimit(w)
  <2>1. WorkersType(worker')
    BY <1>0, <1>2, CheckLimitFacts, WorkerTypeKept
  <2> QED
    BY <1>0, <1>2, <2>1, CheckLimitFacts, TypeKept
<1>3. CASE Add(w)
  <2>1. WorkersType(worker')
    BY <1>0, <1>3, AddFacts, WorkerTypeKept
  <2> QED
    BY <1>0, <1>3, <2>1, AddFacts, TypeKept DEF OnlyCall
<1> QED
  BY <1>1, <1>2, <1>3 DEF WorkerStep

LEMMA TypeNext == Core /\ [Next]_vars => TypeOK'
<1> SUFFICES ASSUME Core, [Next]_vars PROVE TypeOK'
  OBVIOUS
<1> USE DEF Core
<1>0. /\ ctx \in [Caller -> {"live", "canceled", "deadline"}] /\ modTime \in [Entry -> Nat]
      /\ filesScanned \in Nat /\ CacheType(cache) /\ call \in [Caller -> CallType] /\ EvictionType'
      /\ tasks \in Seq(Entry) /\ closed \in BOOLEAN /\ WorkersType(worker)
  BY TypeParts, EvictionNext DEF Next
<1>1. ASSUME NEW c \in Caller, Cancel(c) PROVE TypeOK'
  BY <1>0, <1>1, CancelFacts, TypeKept
<1>2. ASSUME NEW i \in Entry, Edit(i) PROVE TypeOK'
  BY <1>0, <1>2, EditFacts, TypeKept
<1>3. CASE UNCHANGED vars
  BY <1>0, <1>3, TypeKept DEF vars, input, pool
<1> QED
  BY <1>1, <1>2, <1>3, CallTypeNext, WorkerTypeNext DEF Next

LEMMA DetectionsCardinality ==
    ASSUME NEW i, NEW T, IsFiniteSet(T)
    PROVE  IsFiniteSet(Detections(i, T)) /\ Cardinality(Detections(i, T)) = Cardinality(T)
<1> DEFINE D == Detections(i, T)
           f == [x \in T |-> [entry |-> i, framework |-> x, content |-> modTime[i]]]
<1>1. f \in [T -> D]
  BY DEF Detections
<1>2. \A x, y \in T : f[x] = f[y] => x = y
  OBVIOUS
<1>3. \A d \in D : \E x \in T : f[x] = d
  BY DEF Detections
<1> HIDE DEF f
<1>4. f \in Bijection(T, D)
  BY <1>1, <1>2, <1>3 DEF Bijection, Injection, Surjection, IsInjective
<1> HIDE DEF D
<1>5. ExistsBijection(T, D)
  BY <1>4 DEF ExistsBijection
<1>6. IsFiniteSet(D) /\ Cardinality(D) = Cardinality(T)
  BY <1>5, FS_Bijection
<1> QED
  BY <1>6 DEF D

LEMMA InitCore == Init => Core
<1> SUFFICES ASSUME Init PROVE Core
  OBVIOUS
<1>1. PICK s \in Scenarios : tree = s.tree /\ op = s.op
  BY DEF Init
<1>2. Entry \in SUBSET Nat
  <2>1. tree \in Seq([kind : Kind, hits : SUBSET Framework, depth : Nat, skipped : BOOLEAN])
    BY <1>1, ScenariosAssumption
  <2> QED
    BY <2>1 DEF Entry
<1>3. NewCall \in CallType
  BY DEF NewCall, CallType
<1>4. [pc |-> "idle", entry |-> 0, todo |-> {}] \in WorkerType(0)
  BY DEF WorkerType
<1>5. TypeOK
  <2>1. DOMAIN cache = {} /\ tasks \in Seq(Entry)
    BY DEF Init
  <2>2. \A w \in Worker : worker[w].entry = 0 /\ worker[w] \in WorkerType(worker[w].entry)
    BY <1>4 DEF Init
  <2>3. /\ ctx \in [Caller -> {"live", "canceled", "deadline"}] /\ modTime \in [Entry -> Nat]
        /\ filesScanned \in Nat /\ call \in [Caller -> CallType] /\ closed \in BOOLEAN
        /\ DOMAIN worker = Worker
    BY <1>3 DEF Init
  <2>4. EvictionType
    BY DEF Init, EvictionType, NotMaking, MakingType
  <2> QED
    BY <1>1, <2>1, <2>2, <2>3, <2>4 DEF TypeOK
<1>6. \A c \in Caller : CallInv(c)
  BY DEF Init, CallInv, NewCall
<1>7. Unused
  BY DEF Init, Unused
<1>8. BusyInv
  BY DEF Init, BusyInv, Busy
<1> QED
  BY <1>5, <1>6, <1>7, <1>8 DEF Core, ControlInv

LEMMA ControlByCall ==
    ASSUME TypeOK, ControlInv, tree' = tree, op' = op, NEW c \in Caller, OnlyCall(c),
           call'[c].pc # "start", CallInv(c)',
           op[c] = "concurrent" \/ UNCHANGED <<tasks, closed, worker>>
    PROVE  ControlInv'
<1>1. \A d \in Caller : CallInv(d)'
  <2> SUFFICES ASSUME NEW d \in Caller, d # c PROVE CallInv(d)'
    OBVIOUS
  <2>1. CallInv(d) /\ call'[d] = call[d] /\ op'[d] = op[d] /\ Walk' = Walk
    BY SameProject DEF ControlInv, OnlyCall
  <2>2. op[d] = "concurrent" => closed' = closed
    BY ScenarioFacts
  <2> QED
    BY <2>1, <2>2 DEF CallInv, NewCall
<1>2. ASSUME \A d \in Caller : op[d] = "concurrent" => call'[d].pc = "start" PROVE Unused'
  <2>1. op[c] # "concurrent"
    BY <1>2
  <2>2. \A d \in Caller : op[d] = "concurrent" => call[d].pc = "start"
    BY <1>2, <2>1 DEF OnlyCall
  <2> QED
    BY <2>1, <2>2 DEF ControlInv, Unused
<1> QED
  BY <1>1, <1>2 DEF ControlInv

LEMMA CallControlNext ==
    ASSUME Core, NEW c \in Caller, CallStep(c)
    PROVE  ControlInv'
<1> USE DEF Core
<1>0. CallInv(c) /\ TypeOK' /\ op[c] \in {"none", "detect", "concurrent", "cached"}
  BY CallTypeNext, ScenarioFacts DEF ControlInv
<1>1. CASE Start(c)
  <2>1. CallInv(c)'
    BY <1>0, <1>1, StartFacts DEF CallInv, OnlyCall, SamePlace
  <2> QED
    BY <1>1, <2>1, StartFacts, ControlByCall
<1>2. CASE NextEntry(c)
  <2>1. call'[c].pc \in {"walk", "visit", "walked", "returned"} /\ ~(closed /\ op[c] = "concurrent")
    BY <1>0, <1>2, NextEntryFacts DEF CallInv, Abandoned
  <2>2. CallInv(c)'
    BY <1>0, <1>2, <2>1, NextEntryFacts, SameProject DEF CallInv, OnlyCall, SamePlace, Abandoned, Rest
  <2> QED
    BY <1>2, <2>1, <2>2, NextEntryFacts, ControlByCall
<1>3. CASE VisitAborted(c)
  <2>1. ~(closed /\ op[c] = "concurrent")
    BY <1>0, <1>3, VisitAbortedFacts DEF CallInv
  <2>2. CallInv(c)'
    BY <1>0, <1>3, <2>1, VisitAbortedFacts DEF CallInv, SamePlace, Abandoned
  <2> QED
    BY <1>3, <2>2, VisitAbortedFacts, ControlByCall DEF Abandoned
<1>4. CASE VisitFrameworks(c)
  <2>1. CallInv(c)'
    BY <1>0, <1>4, VisitFrameworksFacts DEF CallInv, SamePlace, Proceeds
  <2> QED
    BY <1>4, <2>1, VisitFrameworksFacts, ControlByCall DEF Proceeds
<1>5. CASE VisitModels(c)
  <2>1. CallInv(c)'
    BY <1>0, <1>5, VisitModelsFacts DEF CallInv, SamePlace, Proceeds
  <2> QED
    BY <1>5, <2>1, VisitModelsFacts, ControlByCall DEF Proceeds
<1>6. CASE SendTask(c)
  <2>1. ~closed
    BY <1>0, <1>6, SendTaskFacts DEF CallInv
  <2>2. CallInv(c)'
    BY <1>0, <1>6, <2>1, SendTaskFacts DEF CallInv, SamePlace, Proceeds
  <2> QED
    BY <1>6, <2>2, SendTaskFacts, ControlByCall DEF Proceeds
<1>7. CASE CloseTasks(c)
  <2>1. CallInv(c)'
    BY <1>0, <1>7, CloseTasksFacts DEF CallInv, SamePlace
  <2> QED
    BY <1>7, <2>1, CloseTasksFacts, ControlByCall
<1>8. CASE Join(c)
  <2>1. CallInv(c)'
    BY <1>0, <1>8, JoinFacts DEF CallInv, SamePlace
  <2> QED
    BY <1>8, <2>1, JoinFacts, ControlByCall
<1>9. CASE VisitCached(c)
  <2>1. call'[c].pc \in {"walk", "stat"}
    BY <1>9, VisitCachedFacts DEF Proceeds
  <2>2. call'[c].pos \in Walk' /\ SamePlace(c) /\ op' = op /\ op[c] = "cached"
    BY <1>9, VisitCachedFacts, SameProject DEF SamePlace, Here
  <2>3. CallInv(c)'
    BY <1>0, <2>1, <2>2 DEF CallInv, SamePlace
  <2> QED
    BY <1>9, <2>1, <2>3, VisitCachedFacts, ControlByCall
<1>10. CASE StatFile(c)
  <2>1. call'[c].pos \in Walk' /\ SamePlace(c) /\ op' = op /\ op[c] = "cached" /\ call'[c].pc = "store"
    BY <1>10, StatFileFacts, SameProject DEF SamePlace, Here
  <2>2. CallInv(c)'
    BY <1>0, <2>1 DEF CallInv, SamePlace
  <2> QED
    BY <1>10, <2>1, <2>2, StatFileFacts, ControlByCall
<1>11. CASE Store(c)
  <2>1. SamePlace(c) /\ op' = op /\ op[c] = "cached" /\ call'[c].pc = "walk"
    BY <1>11, StoreFacts DEF Proceeds
  <2>2. CallInv(c)'
    BY <1>0, <2>1 DEF CallInv, SamePlace
  <2> QED
    BY <1>11, <2>1, <2>2, StoreFacts, ControlByCall DEF Proceeds
<1>12. CASE MakesRoom(c)
  <2>1. CallInv(c)'
    BY <1>0, <1>12, MakesRoomFacts, SameProject DEF CallInv, NewCall
  <2> QED
    BY <1>12, <2>1, MakesRoomFacts, ControlByCall
<1> QED
  BY <1>1, <1>2, <1>3, <1>4, <1>5, <1>6, <1>7, <1>8, <1>9, <1>10, <1>11, <1>12 DEF CallStep, MakesRoom

LEMMA SharedControl ==
    ASSUME TypeOK, ControlInv, NEW c \in Caller, op[c] = "concurrent", call[c].pc # "start",
           tree' = tree, op' = op, closed' = closed,
           \/ call' = call
           \/ OnlyCall(c) /\ SamePlace(c) /\ call'[c].pc = call[c].pc
    PROVE  ControlInv'
<1>1. \A d \in Caller : CallInv(d) /\ CallInv(d)'
  <2> SUFFICES ASSUME NEW d \in Caller PROVE CallInv(d) /\ CallInv(d)'
    OBVIOUS
  <2>1. CallInv(d) /\ Walk' = Walk /\ op'[d] = op[d] /\ closed' = closed
    BY SameProject DEF ControlInv
  <2>2. CASE call'[d] = call[d]
    BY <2>1, <2>2 DEF CallInv, NewCall
  <2>3. CASE d = c /\ SamePlace(c) /\ call'[c].pc = call[c].pc
    BY <2>1, <2>3 DEF CallInv, SamePlace
  <2> QED
    BY <2>2, <2>3 DEF OnlyCall
<1>2. call'[c].pc # "start" /\ op'[c] = "concurrent"
  OBVIOUS
<1> QED
  BY <1>1, <1>2 DEF ControlInv

LEMMA ControlNext == Core /\ [Next]_vars => ControlInv'
<1> SUFFICES ASSUME Core, [Next]_vars PROVE ControlInv'
  OBVIOUS
<1> USE DEF Core
<1>1. ASSUME NEW w \in Worker, WorkerStep(w) PROVE ControlInv'
  <2>1. CASE Receive(w)
    BY <2>1, ReceiveFacts, SharedControl
  <2>2. CASE CheckLimit(w)
    BY <2>2, CheckLimitFacts, SharedControl
  <2>3. CASE Add(w)
    BY <2>3, AddFacts, SharedControl
  <2> QED
    BY <1>1, <2>1, <2>2, <2>3 DEF WorkerStep
<1>2. ASSUME UNCHANGED <<tree, op, call, tasks, closed, worker>> PROVE ControlInv'
  <2>1. Walk' = Walk
    BY <1>2, SameProject
  <2>2. \A c \in Caller : CallInv(c)'
    BY <1>2, <2>1 DEF ControlInv, CallInv, NewCall
  <2>3. Unused => Unused'
    BY <1>2 DEF Unused
  <2> QED
    BY <1>2, <2>2, <2>3 DEF ControlInv
<1>3. ASSUME NEW c \in Caller, Cancel(c) PROVE ControlInv'
  BY <1>2, <1>3, CancelFacts
<1>4. ASSUME NEW i \in Entry, Edit(i) PROVE ControlInv'
  BY <1>2, <1>4, EditFacts
<1>5. CASE UNCHANGED vars
  BY <1>2, <1>5 DEF vars, input, pool
<1> QED
  BY <1>1, <1>3, <1>4, <1>5, CallControlNext DEF Next

\* The walk leaves the workers alone, but for starting them.
LEMMA CallWorkers ==
    ASSUME Core, NEW c \in Caller, CallStep(c)
    PROVE  /\ UNCHANGED <<tree, op, ctx>>
           /\ \/ worker' = worker
              \/ /\ op[c] = "concurrent" /\ call[c].pc = "start" /\ call'[c].pc = "walk"
                 /\ \A w \in Worker : worker'[w].pc = "ready"
<1> USE DEF Core
<1>1. CASE Start(c)
  <2>1. /\ UNCHANGED <<tree, op, ctx>> /\ call[c].pc = "start"
        /\ \/ worker' = worker
           \/ op[c] = "concurrent" /\ call'[c].pc = "walk"
              /\ worker' = [w \in Worker |-> [worker[w] EXCEPT !.pc = "ready"]]
    BY <1>1, StartFacts
  <2>2. \A w \in Worker : [worker[w] EXCEPT !.pc = "ready"].pc = "ready"
    BY WorkerFacts DEF WorkerType
  <2> QED
    BY <2>1, <2>2
<1>2. CASE NextEntry(c)
  BY <1>2, NextEntryFacts
<1>3. CASE VisitAborted(c)
  BY <1>3, VisitAbortedFacts
<1>4. CASE VisitFrameworks(c)
  BY <1>4, VisitFrameworksFacts
<1>5. CASE VisitModels(c)
  BY <1>5, VisitModelsFacts
<1>6. CASE SendTask(c)
  BY <1>6, SendTaskFacts
<1>7. CASE CloseTasks(c)
  BY <1>7, CloseTasksFacts
<1>8. CASE Join(c)
  BY <1>8, JoinFacts
<1>9. CASE VisitCached(c)
  BY <1>9, VisitCachedFacts
<1>10. CASE StatFile(c)
  BY <1>10, StatFileFacts
<1>11. CASE Store(c)
  BY <1>11, StoreFacts
<1>12. CASE MakesRoom(c)
  BY <1>12, MakesRoomFacts
<1> QED
  BY <1>1, <1>2, <1>3, <1>4, <1>5, <1>6, <1>7, <1>8, <1>9, <1>10, <1>11, <1>12 DEF CallStep, MakesRoom

BusyWell(r) ==
    /\ r.entry \in Entry /\ tree[r.entry].kind \in {"saved", "model"} \cup Code
    /\ IsFiniteSet(r.todo)
    /\ tree[r.entry].kind \notin Code => r.todo = {r.entry}
    /\ tree[r.entry].kind \in Code =>
          \A d \in r.todo : d.entry = r.entry /\ d.framework \in tree[r.entry].hits

LEMMA BusyByWorker ==
    ASSUME TypeOK, BusyInv, tree' = tree, NEW w \in Worker, OnlyWorker(w),
           worker'[w].pc \in {"check", "add"} => BusyWell(worker'[w])
    PROVE  BusyInv'
<1>1. \A u \in Worker : worker'[u].pc \in {"check", "add"} => BusyWell(worker'[u])
  <2>1. \A u \in Worker : worker[u].pc \in {"check", "add"} => BusyWell(worker[u])
    BY DEF BusyInv, Busy, BusyWell
  <2> QED
    BY <2>1 DEF OnlyWorker
<1>2. Entry' = Entry
  BY SameProject
<1> QED
  BY <1>1, <1>2 DEF BusyInv, Busy, BusyWell

LEMMA BusySame ==
    ASSUME BusyInv, tree' = tree, worker' = worker \/ \A w \in Worker : worker'[w].pc = "ready"
    PROVE  BusyInv'
  BY SameProject DEF BusyInv, Busy

LEMMA BusyNext == Core /\ [Next]_vars => BusyInv'
<1> SUFFICES ASSUME Core, [Next]_vars PROVE BusyInv'
  OBVIOUS
<1> USE DEF Core
<1>1. ASSUME NEW w \in Worker, Receive(w) PROVE BusyInv'
  <2> DEFINE i == Head(tasks)
             t == IF tree[i].kind \in Code THEN Detections(i, tree[i].hits) ELSE {i}
  <2>1. CASE worker' = worker
    BY <1>1, <2>1, ReceiveFacts, BusySame
  <2>2. CASE OnlyWorker(w) /\ WorkerIs(worker'[w], "done", worker[w].entry, worker[w].todo)
    <3>1. worker'[w].pc = "done"
      BY <2>2 DEF WorkerIs
    <3> QED
      BY <1>1, <2>2, <3>1, ReceiveFacts, BusyByWorker
  <2>3. CASE /\ OnlyWorker(w) /\ i \in Entry /\ tree[i].kind \in {"saved", "model"} \cup Code
             /\ WorkerIs(worker'[w], "check", i, t)
    <3>1. worker'[w].entry = i /\ worker'[w].todo = t
      BY <2>3 DEF WorkerIs
    <3>2. IsFiniteSet(t)
      BY <2>3, ScenarioFacts, DetectionsCardinality, FS_Singleton
    <3>3. tree[i].kind \in Code => \A d \in t : d.entry = i /\ d.framework \in tree[i].hits
      BY DEF Detections
    <3>4. tree[i].kind \notin Code => t = {i}
      OBVIOUS
    <3> HIDE DEF t
    <3>5. BusyWell(worker'[w])
      BY <2>3, <3>1, <3>2, <3>3, <3>4 DEF BusyWell
    <3> QED
      BY <1>1, <2>3, <3>5, ReceiveFacts, BusyByWorker
  <2> QED
    BY <1>1, <2>1, <2>2, <2>3, ReceiveFacts
<1>2. ASSUME NEW w \in Worker, CheckLimit(w) PROVE BusyInv'
  <2>1. PICK todo : /\ WorkerIs(worker'[w], IF todo = {} THEN "ready" ELSE "add", worker[w].entry, todo)
                    /\ todo \subseteq worker[w].todo
    BY <1>2, CheckLimitFacts
  <2>2. BusyWell(worker[w])
    BY <1>2, CheckLimitFacts DEF BusyInv, Busy, BusyWell
  <2>3. worker'[w].pc \in {"check", "add"} => todo # {}
    BY <2>1 DEF WorkerIs
  <2>4. worker'[w].entry = worker[w].entry /\ worker'[w].todo = todo
    BY <2>1 DEF WorkerIs
  <2>5. IsFiniteSet(todo)
    BY <2>1, <2>2, FS_Subset DEF BusyWell
  <2>6. todo # {} => BusyWell(worker'[w])
    BY <2>1, <2>2, <2>4, <2>5 DEF BusyWell
  <2> QED
    BY <1>2, <2>3, <2>6, CheckLimitFacts, BusyByWorker
<1>3. ASSUME NEW w \in Worker, Add(w) PROVE BusyInv'
  <2>1. PICK x \in worker[w].todo :
              WorkerIs(worker'[w],
                       IF worker[w].todo \ {x} = {} THEN "ready"
                       ELSE IF tree[worker[w].entry].kind = "python" THEN "check" ELSE "add",
                       worker[w].entry, worker[w].todo \ {x})
    BY <1>3, AddFacts
  <2>2. BusyWell(worker[w])
    BY <1>3, AddFacts DEF BusyInv, Busy, BusyWell
  <2>3. worker'[w].pc \in {"check", "add"} => worker[w].todo \ {x} # {}
    BY <2>1 DEF WorkerIs
  <2>4. worker'[w].entry = worker[w].entry /\ worker'[w].todo = worker[w].todo \ {x}
    BY <2>1 DEF WorkerIs
  <2>5. IsFiniteSet(worker[w].todo \ {x})
    BY <2>2, FS_Difference DEF BusyWell
  <2>6. worker[w].todo \ {x} # {} => BusyWell(worker'[w])
    BY <2>1, <2>2, <2>4, <2>5 DEF BusyWell
  <2> QED
    BY <1>3, <2>3, <2>6, AddFacts, BusyByWorker
<1>4. ASSUME NEW c \in Caller, CallStep(c) PROVE BusyInv'
  BY <1>4, CallWorkers, BusySame
<1>5. ASSUME NEW c \in Caller, Cancel(c) PROVE BusyInv'
  BY <1>5, CancelFacts, BusySame
<1>6. ASSUME NEW i \in Entry, Edit(i) PROVE BusyInv'
  BY <1>6, EditFacts, BusySame
<1>7. CASE UNCHANGED vars
  BY <1>7, BusySame DEF vars, input, pool
<1> QED
  BY <1>1, <1>2, <1>3, <1>4, <1>5, <1>6, <1>7 DEF Next, WorkerStep

LEMMA CoreNext == Core /\ [Next]_vars => Core'
  BY TypeNext, ControlNext, BusyNext DEF Core

LEMMA CoreInvariant == Spec => []Core
  BY InitCore, CoreNext, PTL DEF Spec

\* Every variable of the detector keeps its type.
THEOREM TypeCorrect == Spec => []TypeOK
<1>1. Core => TypeOK
  BY DEF Core
<1> QED
  BY <1>1, CoreInvariant, PTL

-----------------------------------------------------------------------------
(* The cache.  A caller whom nobody disturbs knows it: its Range visits    *)
(* every entry, and what it stores fits into the room it has made.         *)

\* The cache as c left it, or found it.
RoomInv(c) ==
    /\ making[c].pc \in {"count", "choose"} =>
          making[c].due = DOMAIN cache /\ making[c].seen \subseteq DOMAIN cache
    /\ making[c].pc = "choose" =>
          /\ Cardinality(DOMAIN cache) >= MaxCacheEntries
          /\ making[c].oldest \in DOMAIN cache \/ making[c].seen = {}
          /\ making[c].oldest \in DOMAIN cache \/ making[c].oldest = 0
    /\ making[c].pc = "ready" => Cardinality(DOMAIN cache) + 1 <= MaxCacheEntries + overlaps

CacheInv ==
    /\ Cardinality(DOMAIN cache) <= MaxCacheEntries + overlaps
    /\ \A c \in Caller : /\ making[c].pc = "no" => c \notin disturbed
                         /\ c \notin disturbed => RoomInv(c)

LEMMA CacheFacts ==
    ASSUME TypeOK
    PROVE  /\ IsFiniteSet(DOMAIN cache) /\ Cardinality(DOMAIN cache) \in Nat
           /\ MaxCacheEntries \in Nat \ {0} /\ overlaps \in Nat
<1>1. IsFiniteSet(DOMAIN cache)
  BY ScenarioFacts, FS_Subset DEF TypeOK
<1> QED
  BY <1>1, FS_CardinalityType, LimitsAssumption DEF TypeOK, EvictionType

\* Workers touch neither the cache nor the place of a call.
LEMMA WorkerLeaves ==
    ASSUME Core, NEW w \in Worker, WorkerStep(w)
    PROVE  /\ UNCHANGED <<tree, op, ctx, modTime, filesScanned, cache, closed>>
           /\ ConcurrentCall \in Caller /\ op[ConcurrentCall] = "concurrent"
           /\ call[ConcurrentCall].pc # "start"
           /\ call' = call \/ OnlyCall(ConcurrentCall)
           /\ \A c \in Caller : /\ call'[c].pc = call[c].pc /\ call'[c].pos = call[c].pos
                                /\ call'[c].phase = call[c].phase /\ call'[c].status = call[c].status
                                /\ call'[c].fresh = call[c].fresh
<1> USE DEF Core
<1>1. CASE Receive(w)
  BY <1>1, ReceiveFacts DEF OnlyCall, SamePlace, SameFound
<1>2. CASE CheckLimit(w)
  BY <1>2, CheckLimitFacts
<1>3. CASE Add(w)
  BY <1>3, AddFacts DEF OnlyCall, SamePlace
<1> QED
  BY <1>1, <1>2, <1>3 DEF WorkerStep

\* Others make room as before, if the cache is what it was; if it is not, they
\* are disturbed.
LEMMA OthersRoom ==
    ASSUME CacheInv, NEW c, OnlyMaking(c), UNCHANGED <<cache, disturbed, overlaps>>,
           c \notin disturbed => RoomInv(c)', making'[c].pc # "no"
    PROVE  CacheInv'
<1>1. ASSUME NEW d \in Caller, d # c
      PROVE  /\ making'[d].pc = "no" => d \notin disturbed
             /\ d \notin disturbed => RoomInv(d)'
  <2>1. making'[d] = making[d]
    BY <1>1 DEF OnlyMaking
  <2> QED
    BY <2>1 DEF CacheInv, RoomInv
<1>2. \A d \in Caller : /\ making'[d].pc = "no" => d \notin disturbed'
                        /\ d \notin disturbed' => RoomInv(d)'
  BY <1>1
<1>3. Cardinality(DOMAIN cache') <= MaxCacheEntries + overlaps'
  BY DEF CacheInv
<1> QED
  BY <1>2, <1>3 DEF CacheInv

LEMMA OthersDisturbed ==
    ASSUME CacheInv, NEW c, OthersStay(c),
           disturbed' \in {disturbed \cup OthersMaking(c), (disturbed \ {c}) \cup OthersMaking(c)},
           c \notin disturbed' => RoomInv(c)', making'[c].pc = "no" => c \notin disturbed',
           Cardinality(DOMAIN cache') <= MaxCacheEntries + overlaps'
    PROVE  CacheInv'
<1>1. ASSUME NEW d \in Caller, d # c
      PROVE  /\ making'[d].pc = "no" => d \notin disturbed'
             /\ d \notin disturbed' => RoomInv(d)'
  <2>1. making'[d].pc = making[d].pc
    BY <1>1 DEF OthersStay
  <2>2. making[d].pc = "no" => d \notin disturbed'
    BY <1>1 DEF CacheInv, OthersMaking
  <2>3. d \notin disturbed' => making[d].pc = "no"
    BY <1>1 DEF OthersMaking
  <2> QED
    BY <2>1, <2>2, <2>3 DEF RoomInv
<1> QED
  BY <1>1 DEF CacheInv

LEMMA CacheNext == Core /\ CacheInv /\ [Next]_vars => CacheInv'
<1> SUFFICES ASSUME Core, CacheInv, [Next]_vars PROVE CacheInv'
  OBVIOUS
<1>0. TypeOK /\ TypeOK'
  BY TypeNext DEF Core
<1>1. ASSUME NEW c \in Caller, BeginCount(c) PROVE CacheInv'
  <2>1. /\ OnlyMaking(c) /\ making'[c] = Ranging("count") /\ UNCHANGED <<cache, disturbed, overlaps>>
    BY <1>0, <1>1, BeginCountFacts
  <2>2. making'[c].pc = "count" /\ making'[c].due = DOMAIN cache /\ making'[c].seen = {}
    BY <1>0, <2>1, MakingValues
  <2> QED
    BY <2>1, <2>2, OthersRoom DEF RoomInv
<1>2. ASSUME NEW c \in Caller, RangeVisit(c) PROVE CacheInv'
  <2>1. /\ OnlyMaking(c) /\ making[c].pc \in {"count", "choose"} /\ UNCHANGED <<cache, disturbed, overlaps>>
        /\ making'[c].pc = making[c].pc /\ making'[c].due = making[c].due
    BY <1>0, <1>2, RangeVisitFacts
  <2>2. PICK i \in DOMAIN cache : /\ making'[c].seen = making[c].seen \cup {i}
                                  /\ \/ making'[c].oldest = making[c].oldest
                                        /\ (making[c].pc = "choose" => making[c].oldest # 0)
                                     \/ making'[c].oldest = i
    BY <1>0, <1>2, RangeVisitFacts
  <2>3. c \notin disturbed => RoomInv(c)'
    BY <2>1, <2>2 DEF CacheInv, RoomInv
  <2> QED
    BY <2>1, <2>3, OthersRoom
<1>3. ASSUME NEW c \in Caller, EndCount(c) PROVE CacheInv'
  <2>1. /\ OnlyMaking(c) /\ making[c].pc = "count" /\ RangeOver(c) /\ UNCHANGED <<cache, disturbed, overlaps>>
        /\ \/ /\ Cardinality(making[c].seen) >= MaxCacheEntries
              /\ making'[c] = Ranging("choose")
           \/ ~(Cardinality(making[c].seen) >= MaxCacheEntries) /\ making'[c].pc = "ready"
    BY <1>0, <1>3, EndCountFacts
  <2>2. c \notin disturbed => making[c].seen = DOMAIN cache
    BY <2>1 DEF CacheInv, RoomInv, RangeOver
  <2>3. CASE Cardinality(making[c].seen) >= MaxCacheEntries /\ making'[c] = Ranging("choose")
    <3>1. /\ making'[c].pc = "choose" /\ making'[c].due = DOMAIN cache
          /\ making'[c].seen = {} /\ making'[c].oldest = 0
      BY <1>0, <2>3, MakingValues
    <3> QED
      BY <2>1, <2>2, <2>3, <3>1, OthersRoom DEF RoomInv
  <2>4. CASE ~(Cardinality(making[c].seen) >= MaxCacheEntries) /\ making'[c].pc = "ready"
    <3>1. c \notin disturbed => Cardinality(DOMAIN cache) + 1 <= MaxCacheEntries + overlaps
      BY <1>0, <2>2, <2>4, CacheFacts
    <3> QED
      BY <2>1, <2>4, <3>1, OthersRoom DEF RoomInv
  <2> QED
    BY <2>1, <2>3, <2>4
<1>4. ASSUME NEW c \in Caller, DeleteOldest(c) PROVE CacheInv'
  <2>1. /\ OthersStay(c) /\ making[c].pc = "choose" /\ RangeOver(c) /\ making'[c].pc = "ready"
        /\ DOMAIN cache' = DOMAIN cache \ {making[c].oldest} /\ overlaps' = overlaps
        /\ disturbed' = disturbed \cup OthersMaking(c)
    BY <1>0, <1>4, DeleteOldestFacts
  <2>2. ASSUME c \notin disturbed' PROVE Cardinality(DOMAIN cache') + 1 <= MaxCacheEntries + overlaps'
    <3>1. RoomInv(c)
      BY <2>1, <2>2 DEF CacheInv
    <3>2. making[c].seen = DOMAIN cache /\ Cardinality(DOMAIN cache) >= MaxCacheEntries
      BY <2>1, <3>1 DEF RoomInv, RangeOver
    <3>3. DOMAIN cache # {}
      BY <1>0, <3>2, CacheFacts, FS_EmptySet
    <3>4. making[c].oldest \in DOMAIN cache
      BY <2>1, <3>1, <3>2, <3>3 DEF RoomInv
    <3>5. Cardinality(DOMAIN cache') = Cardinality(DOMAIN cache) - 1
      <4>1. IsFiniteSet(DOMAIN cache) /\ DOMAIN cache' = DOMAIN cache \ {making[c].oldest}
        BY <1>0, <2>1, CacheFacts
      <4> QED
        BY ONLY <3>4, <4>1, FS_RemoveElement
    <3> QED
      BY <1>0, <2>1, <3>5, CacheFacts DEF CacheInv
  <2>3. Cardinality(DOMAIN cache') <= MaxCacheEntries + overlaps'
    <3>1. Cardinality(DOMAIN cache') <= Cardinality(DOMAIN cache)
      BY <1>0, <2>1, CacheFacts, FS_Subset
    <3>2. Cardinality(DOMAIN cache') \in Nat
      BY <1>0, <2>1, CacheFacts, FS_Subset, FS_CardinalityType
    <3> QED
      BY <1>0, <2>1, <3>1, <3>2, CacheFacts DEF CacheInv
  <2>4. c \notin disturbed' => RoomInv(c)'
    BY <2>1, <2>2 DEF RoomInv
  <2> QED
    BY <2>1, <2>3, <2>4, OthersDisturbed
<1>5. ASSUME NEW c \in Caller, Store(c) PROVE CacheInv'
  <2> DEFINE i == Here(c)
  <2>1. /\ OnlyMaking(c) /\ making[c].pc = "ready" /\ making'[c].pc = "no"
        /\ DOMAIN cache' = DOMAIN cache \cup {i}
        /\ disturbed' = (disturbed \ {c}) \cup OthersMaking(c)
        /\ overlaps' = overlaps + (IF c \in disturbed THEN 1 ELSE 0)
    BY <1>0, <1>5, StoreRoomFacts
  <2> HIDE DEF i
  <2>2. \/ Cardinality(DOMAIN cache') = Cardinality(DOMAIN cache)
        \/ Cardinality(DOMAIN cache') = Cardinality(DOMAIN cache) + 1
    BY <1>0, <2>1, CacheFacts, FS_AddElement
  <2>3. Cardinality(DOMAIN cache') <= MaxCacheEntries + overlaps'
    <3>1. CASE c \in disturbed
      BY <1>0, <2>1, <2>2, <3>1, CacheFacts DEF CacheInv
    <3>2. CASE c \notin disturbed
      <4>1. Cardinality(DOMAIN cache) + 1 <= MaxCacheEntries + overlaps
        BY <2>1, <3>2 DEF CacheInv, RoomInv
      <4> QED
        BY <1>0, <2>1, <2>2, <3>2, <4>1, CacheFacts
    <3> QED
      BY <3>1, <3>2
  <2>4. c \notin disturbed' /\ RoomInv(c)'
    BY <2>1 DEF OthersMaking, RoomInv
  <2> QED
    BY <2>1, <2>3, <2>4, OthersDisturbed, OnlyMakingStays
<1>6. ASSUME UNCHANGED <<cache, eviction>> PROVE CacheInv'
  BY <1>6 DEF eviction, CacheInv, RoomInv
<1>7. CASE \A c \in Caller : ~MakesRoom(c) /\ ~Store(c)
  <2>1. UNCHANGED eviction
    BY <1>0, <1>7, EvictionSame
  <2>2. ASSUME NEW c \in Caller, CallStep(c) PROVE cache' = cache
    BY <1>7, <2>2 DEF CallStep, MakesRoom, Start, NextEntry, VisitAborted, VisitFrameworks, VisitModels,
                      SendTask, CloseTasks, Join, VisitCached, StatFile
  <2>3. ASSUME NEW c \in Caller, Cancel(c) PROVE cache' = cache
    BY <2>3 DEF Cancel
  <2>4. ASSUME NEW w \in Worker, WorkerStep(w) PROVE cache' = cache
    BY <2>4, WorkerLeaves
  <2>5. ASSUME NEW j \in Entry, Edit(j) PROVE cache' = cache
    BY <2>5 DEF Edit
  <2>6. UNCHANGED vars => cache' = cache
    BY DEF vars
  <2>7. cache' = cache
    BY <2>2, <2>3, <2>4, <2>5, <2>6 DEF Next
  <2> QED
    BY <1>6, <2>1, <2>7
<1> QED
  BY <1>1, <1>2, <1>3, <1>4, <1>5, <1>7 DEF MakesRoom

\* However callers interleave, and however often files change, the cache grows
\* past its limit by no more than one entry for each one that was stored by a
\* caller whom another one had disturbed.
THEOREM CacheGrowthCounted == Spec => []CacheGrowsByOverlap
<1>1. Init => CacheInv
  <2> SUFFICES ASSUME Init PROVE CacheInv
    OBVIOUS
  <2>1. TypeOK
    BY InitCore DEF Core
  <2>2. DOMAIN cache = {} /\ overlaps = 0 /\ disturbed = {} /\ \A c \in Caller : making[c].pc = "no"
    BY DEF Init, NotMaking
  <2>3. Cardinality(DOMAIN cache) = 0
    BY <2>2, FS_EmptySet
  <2> QED
    BY <2>1, <2>2, <2>3, CacheFacts DEF CacheInv, RoomInv
<1>2. CacheInv => CacheGrowsByOverlap
  BY DEF CacheInv, CacheGrowsByOverlap
<1> QED
  BY <1>1, <1>2, CoreInvariant, CacheNext, PTL DEF Spec

-----------------------------------------------------------------------------
(* The limit on models.  A worker that has passed the check counts as a    *)
(* model: only one that finds the list below its limit passes.             *)

Adding == {w \in Worker : worker[w].pc = "add" /\ tree[worker[w].entry].kind \notin Code}

ModelFiles(c) == {i \in call[c].models : tree[i].kind = "model"}

ModelsInv ==
    \A c \in Caller :
        IF op[c] = "concurrent"
        THEN Cardinality(call[c].models) + Cardinality(Adding) <= MaxModels + Cardinality(Worker) - 1
        ELSE Cardinality(ModelFiles(c)) <= MaxModels

LEMMA ModelsFacts ==
    ASSUME Core
    PROVE  /\ IsFiniteSet(Adding) /\ Cardinality(Adding) \in Nat /\ Cardinality(Adding) <= Cardinality(Worker)
           /\ Cardinality(Worker) \in Nat \ {0} /\ MaxModels \in Nat \ {0}
           /\ \A c \in Caller : /\ call[c].models \subseteq Entry
                                /\ IsFiniteSet(call[c].models) /\ Cardinality(call[c].models) \in Nat
                                /\ IsFiniteSet(ModelFiles(c)) /\ Cardinality(ModelFiles(c)) \in Nat
                                /\ Cardinality(ModelFiles(c)) <= Cardinality(call[c].models)
<1>1. Adding \subseteq Worker /\ IsFiniteSet(Worker)
  BY PoolAssumption DEF Adding
<1>2. Cardinality(Worker) \in Nat /\ Cardinality(Worker) # 0
  BY PoolAssumption, FS_EmptySet, FS_CardinalityType
<1>3. \A c \in Caller : call[c].models \subseteq Entry
  BY CallFields DEF Core, TypeOK
<1>4. IsFiniteSet(Entry)
  BY ScenarioFacts DEF Core
<1>5. \A c \in Caller : /\ IsFiniteSet(call[c].models) /\ IsFiniteSet(ModelFiles(c))
                        /\ Cardinality(ModelFiles(c)) <= Cardinality(call[c].models)
  <2> SUFFICES ASSUME NEW c \in Caller
               PROVE  /\ IsFiniteSet(call[c].models) /\ IsFiniteSet(ModelFiles(c))
                      /\ Cardinality(ModelFiles(c)) <= Cardinality(call[c].models)
    OBVIOUS
  <2>1. IsFiniteSet(call[c].models)
    BY <1>3, <1>4, FS_Subset
  <2>2. ModelFiles(c) \subseteq call[c].models
    BY DEF ModelFiles
  <2> QED
    BY <2>1, <2>2, FS_Subset
<1> QED
  BY <1>1, <1>2, <1>3, <1>5, FS_Subset, FS_CardinalityType, LimitsAssumption

\* What a step of a caller adds to its models.
LEMMA CallModels ==
    ASSUME Core, NEW c \in Caller, CallStep(c)
    PROVE  /\ OnlyCall(c)
           /\ \/ call'[c].models = call[c].models
              \/ /\ op[c] # "concurrent"
                 /\ \E i \in Entry : /\ call'[c].models = call[c].models \cup {i}
                                     /\ \/ tree[i].kind = "saved"
                                        \/ Cardinality(call[c].models) < MaxModels
<1> USE DEF Core
<1>1. CASE Start(c)
  BY <1>1, StartFacts DEF SameFound
<1>2. CASE NextEntry(c)
  BY <1>2, NextEntryFacts DEF SameFound
<1>3. CASE VisitAborted(c)
  BY <1>3, VisitAbortedFacts DEF Abandoned, SameFound
<1>4. CASE VisitFrameworks(c)
  BY <1>4, VisitFrameworksFacts DEF Proceeds
<1>5. CASE VisitModels(c)
  BY <1>5, VisitModelsFacts, WalkFacts DEF Proceeds
<1>6. CASE SendTask(c)
  BY <1>6, SendTaskFacts DEF Proceeds, SameFound
<1>7. CASE CloseTasks(c)
  BY <1>7, CloseTasksFacts DEF SameFound
<1>8. CASE Join(c)
  BY <1>8, JoinFacts DEF SameFound
<1>9. CASE VisitCached(c)
  BY <1>9, VisitCachedFacts, WalkFacts DEF Proceeds, SameFound
<1>10. CASE StatFile(c)
  BY <1>10, StatFileFacts
<1>11. CASE Store(c)
  BY <1>11, StoreFacts DEF Proceeds
<1>12. CASE MakesRoom(c)
  BY <1>12, MakesRoomFacts
<1> QED
  BY <1>1, <1>2, <1>3, <1>4, <1>5, <1>6, <1>7, <1>8, <1>9, <1>10, <1>11, <1>12 DEF CallStep, MakesRoom

LEMMA ModelsSame ==
    ASSUME ModelsInv, UNCHANGED <<tree, op, worker>>, \A c \in Caller : call'[c].models = call[c].models
    PROVE  ModelsInv'
<1>1. Adding' = Adding
  BY DEF Adding
<1>2. \A c \in Caller : ModelFiles(c)' = ModelFiles(c)
  BY DEF ModelFiles
<1> QED
  BY <1>1, <1>2 DEF ModelsInv

LEMMA ModelsNext == Core /\ ModelsInv /\ [Next]_vars => ModelsInv'
<1> SUFFICES ASSUME Core, ModelsInv, [Next]_vars PROVE ModelsInv'
  OBVIOUS
<1>0. Cardinality(Adding') \in Nat /\ Cardinality(Adding') <= Cardinality(Worker)
  <2>1. Adding' \subseteq Worker /\ IsFiniteSet(Worker)
    BY PoolAssumption DEF Adding
  <2> QED
    BY <2>1, FS_Subset, FS_CardinalityType
<1>1. ASSUME NEW c \in Caller, CallStep(c) PROVE ModelsInv'
  <2>1. UNCHANGED <<tree, op>> /\ Cardinality(Adding') <= Cardinality(Adding)
    <3>1. CASE worker' = worker
      <4>1. Adding' = Adding /\ UNCHANGED <<tree, op>>
        BY <1>1, <3>1, CallWorkers DEF Adding
      <4> QED
        BY <4>1, ModelsFacts
    <3>2. CASE \A w \in Worker : worker'[w].pc = "ready"
      <4>1. Adding' = {} /\ UNCHANGED <<tree, op>>
        BY <1>1, <3>2, CallWorkers DEF Adding
      <4>2. Cardinality(Adding') = 0
        BY <4>1, FS_EmptySet
      <4> QED
        BY <4>1, <4>2, ModelsFacts
    <3> QED
      BY <1>1, <3>1, <3>2, CallWorkers
  <2>2. Cardinality(Adding') \in Nat
    BY <1>0
  <2> SUFFICES ASSUME NEW d \in Caller
               PROVE  IF op[d] = "concurrent"
                      THEN Cardinality(call'[d].models) + Cardinality(Adding')
                              <= MaxModels + Cardinality(Worker) - 1
                      ELSE Cardinality(ModelFiles(d)') <= MaxModels
    BY <2>1 DEF ModelsInv
  <2>3. CASE call'[d].models = call[d].models
    <3>1. ModelFiles(d)' = ModelFiles(d)
      BY <2>1, <2>3 DEF ModelFiles
    <3>2. op[d] = "concurrent" => Cardinality(call'[d].models) + Cardinality(Adding')
                                     <= MaxModels + Cardinality(Worker) - 1
      BY <2>1, <2>2, <2>3, ModelsFacts DEF ModelsInv
    <3> QED
      BY <3>1, <3>2 DEF ModelsInv
  <2>4. CASE call'[d].models # call[d].models
    <3>1. d = c /\ op[d] # "concurrent"
      BY <1>1, <2>4, CallModels DEF OnlyCall
    <3>2. PICK i \in Entry : /\ call'[d].models = call[d].models \cup {i}
                             /\ tree[i].kind = "saved" \/ Cardinality(call[d].models) < MaxModels
      BY <1>1, <2>4, <3>1, CallModels
    <3>3. CASE tree[i].kind # "model"
      <4>1. ModelFiles(d)' = ModelFiles(d)
        BY <2>1, <3>2, <3>3 DEF ModelFiles
      <4> QED
        BY <3>1, <4>1 DEF ModelsInv
    <3>4. CASE tree[i].kind = "model"
      <4>1. ModelFiles(d)' = ModelFiles(d) \cup {i}
        BY <2>1, <3>2, <3>4 DEF ModelFiles
      <4>a. IsFiniteSet(ModelFiles(d)) /\ Cardinality(ModelFiles(d)) \in Nat
        BY ModelsFacts
      <4>b. Cardinality(ModelFiles(d) \cup {i}) =
               IF i \in ModelFiles(d) THEN Cardinality(ModelFiles(d)) ELSE Cardinality(ModelFiles(d)) + 1
        BY <4>a, FS_AddElement
      <4>2. Cardinality(ModelFiles(d)') <= Cardinality(ModelFiles(d)) + 1
        BY <4>1, <4>a, <4>b
      <4>3. Cardinality(ModelFiles(d)) + 1 <= MaxModels
        BY <3>2, <3>4, ModelsFacts
      <4>4. Cardinality(ModelFiles(d)') \in Nat
        BY <4>1, ModelsFacts, FS_AddElement, FS_CardinalityType
      <4> QED
        BY <3>1, <4>2, <4>3, <4>4, ModelsFacts
    <3> QED
      BY <3>3, <3>4
  <2> QED
    BY <2>3, <2>4
<1>2. ASSUME NEW w \in Worker, Receive(w) PROVE ModelsInv'
  <2>1. UNCHANGED <<tree, op>> /\ \A c \in Caller : call'[c].models = call[c].models
    BY <1>2, ReceiveFacts DEF Core, OnlyCall, SameFound
  <2>2. worker[w].pc = "ready"
        /\ (worker' = worker \/ (OnlyWorker(w) /\ worker'[w].pc \in {"done", "check"}))
    BY <1>2, ReceiveFacts DEF Core, WorkerIs
  <2>3. Adding' = Adding
    BY <2>1, <2>2 DEF Adding, OnlyWorker
  <2>4. \A c \in Caller : ModelFiles(c)' = ModelFiles(c)
    BY <2>1 DEF ModelFiles
  <2> QED
    BY <2>1, <2>3, <2>4 DEF ModelsInv
<1>3. ASSUME NEW w \in Worker, CheckLimit(w) PROVE ModelsInv'
  <2>1. UNCHANGED <<tree, op, call>> /\ worker[w].pc = "check" /\ OnlyWorker(w)
        /\ worker'[w].entry = worker[w].entry
        /\ ConcurrentCall \in Caller /\ op[ConcurrentCall] = "concurrent"
    BY <1>3, CheckLimitFacts DEF Core, WorkerIs
  <2>2. \A c \in Caller : ModelFiles(c)' = ModelFiles(c)
    BY <2>1 DEF ModelFiles
  <2>3. CASE Adding' = Adding
    BY <2>1, <2>2, <2>3 DEF ModelsInv
  <2>4. CASE Adding' # Adding
    <3>1. worker'[w].pc = "add" /\ tree[worker[w].entry].kind \notin Code
      BY <2>1, <2>4 DEF Adding, OnlyWorker
    <3>2. Cardinality(call[ConcurrentCall].models) < MaxModels
      BY <1>3, <3>1, CheckLimitFacts DEF Core, WorkerIs, Code
    <3>3. Cardinality(Adding') <= Cardinality(Worker) /\ Cardinality(Adding') \in Nat
      BY <1>0
    <3>4. Cardinality(call[ConcurrentCall].models) + Cardinality(Adding')
            <= MaxModels + Cardinality(Worker) - 1
      BY <2>1, <3>2, <3>3, ModelsFacts
    <3>5. \A c \in Caller : op[c] = "concurrent" => c = ConcurrentCall
      BY TheConcurrentCall DEF Core
    <3> QED
      BY <2>1, <2>2, <3>4, <3>5 DEF ModelsInv
  <2> QED
    BY <2>3, <2>4
<1>4. ASSUME NEW w \in Worker, Add(w) PROVE ModelsInv'
  <2> DEFINE C == ConcurrentCall
  <2>1. /\ UNCHANGED <<tree, op>> /\ worker[w].pc = "add" /\ OnlyWorker(w) /\ OnlyCall(C)
        /\ C \in Caller /\ op[C] = "concurrent"
    BY <1>4, AddFacts DEF Core
  <2>2. \A c \in Caller : op[c] = "concurrent" <=> c = C
    BY <2>1, TheConcurrentCall DEF Core
  <2>3. \A c \in Caller \ {C} : ModelFiles(c)' = ModelFiles(c)
    BY <2>1 DEF ModelFiles, OnlyCall
  <2> SUFFICES Cardinality(call'[C].models) + Cardinality(Adding') <= MaxModels + Cardinality(Worker) - 1
    BY <2>1, <2>2, <2>3 DEF ModelsInv
  <2>4. Cardinality(call[C].models) + Cardinality(Adding) <= MaxModels + Cardinality(Worker) - 1
    BY <2>1 DEF ModelsInv
  <2>5. PICK x \in worker[w].todo :
              /\ WorkerIs(worker'[w],
                          IF worker[w].todo \ {x} = {} THEN "ready"
                          ELSE IF tree[worker[w].entry].kind = "python" THEN "check" ELSE "add",
                          worker[w].entry, worker[w].todo \ {x})
              /\ \/ /\ tree[worker[w].entry].kind \in Code
                    /\ call'[C].models = call[C].models
                 \/ /\ tree[worker[w].entry].kind \notin Code
                    /\ call'[C].models = call[C].models \cup {x}
    BY <1>4, AddFacts DEF Core
  <2>6. CASE tree[worker[w].entry].kind \in Code
    <3>1. Adding' = Adding
      BY <2>1, <2>5, <2>6 DEF Adding, OnlyWorker, WorkerIs
    <3> QED
      BY <2>4, <2>5, <2>6, <3>1
  <2>7. CASE tree[worker[w].entry].kind \notin Code
    <3>1. worker[w].todo = {worker[w].entry}
      BY <2>1, <2>7 DEF Core, BusyInv, Busy
    <3>2. worker'[w].pc = "ready"
      BY <2>5, <3>1 DEF WorkerIs
    <3>3. w \in Adding /\ Adding' = Adding \ {w}
      BY <2>1, <2>7, <3>2 DEF Adding, OnlyWorker
    <3>4. Cardinality(Adding') = Cardinality(Adding) - 1
      BY <3>3, ModelsFacts, FS_RemoveElement
    <3>5. call'[C].models = call[C].models \cup {x}
      BY <2>5, <2>7
    <3>a. IsFiniteSet(call[C].models)
      BY <2>1, ModelsFacts
    <3>b. Cardinality(call[C].models \cup {x}) =
             IF x \in call[C].models THEN Cardinality(call[C].models) ELSE Cardinality(call[C].models) + 1
      BY <3>a, FS_AddElement
    <3>6. \/ Cardinality(call'[C].models) = Cardinality(call[C].models)
          \/ Cardinality(call'[C].models) = Cardinality(call[C].models) + 1
      BY <3>5, <3>b
    <3> QED
      BY <2>1, <2>4, <3>4, <3>6, ModelsFacts
  <2> QED
    BY <2>6, <2>7
<1>5. ASSUME NEW c \in Caller, Cancel(c) PROVE ModelsInv'
  BY <1>5, CancelFacts, ModelsSame DEF Core
<1>6. ASSUME NEW i \in Entry, Edit(i) PROVE ModelsInv'
  BY <1>6, EditFacts, ModelsSame DEF Core
<1>7. CASE UNCHANGED vars
  BY <1>7, ModelsSame DEF vars, input, pool
<1> QED
  BY <1>1, <1>2, <1>3, <1>4, <1>5, <1>6, <1>7 DEF Next, WorkerStep

\* Check and use of the limit in two critical sections let through at most
\* one model for each worker but one; a scan on one goroutine keeps to it.
THEOREM ModelsStayBounded == Spec => []ModelsBounded
<1>1. Init => ModelsInv
  <2> SUFFICES ASSUME Init PROVE ModelsInv
    OBVIOUS
  <2>1. Core
    BY InitCore
  <2>2. \A c \in Caller : call[c].models = {} /\ ModelFiles(c) = {}
    BY DEF Init, NewCall, ModelFiles
  <2>3. Adding = {}
    BY DEF Init, Adding
  <2>4. Cardinality({}) = 0
    BY FS_EmptySet
  <2>5. 0 + 0 <= MaxModels + Cardinality(Worker) - 1 /\ 0 <= MaxModels
    BY <2>1, ModelsFacts
  <2> QED
    BY <2>2, <2>3, <2>4, <2>5 DEF ModelsInv
<1>2. Core /\ ModelsInv => ModelsBounded
  <2> SUFFICES ASSUME Core, ModelsInv, NEW c \in Caller
               PROVE  Cardinality({i \in call[c].models : op[c] = "concurrent" \/ tree[i].kind = "model"})
                        <= MaxModels + (IF op[c] = "concurrent" THEN Cardinality(Worker) - 1 ELSE 0)
    BY DEF ModelsBounded
  <2>1. CASE op[c] = "concurrent"
    <3>1. {i \in call[c].models : op[c] = "concurrent" \/ tree[i].kind = "model"} = call[c].models
      BY <2>1
    <3>2. Cardinality(call[c].models) <= MaxModels + (Cardinality(Worker) - 1)
      BY <2>1, ModelsFacts DEF ModelsInv
    <3> QED
      BY <2>1, <3>1, <3>2
  <2>2. CASE op[c] # "concurrent"
    <3>1. {i \in call[c].models : op[c] = "concurrent" \/ tree[i].kind = "model"} = ModelFiles(c)
      BY <2>2 DEF ModelFiles
    <3>2. Cardinality(ModelFiles(c)) <= MaxModels + 0
      BY <2>2, ModelsFacts DEF ModelsInv
    <3> QED
      BY <2>2, <3>1, <3>2
  <2> QED
    BY <2>1, <2>2
<1> QED
  BY <1>1, <1>2, CoreInvariant, ModelsNext, PTL DEF Spec

-----------------------------------------------------------------------------
(* What is known of an entry: all that its patterns match, or as much as   *)
(* the limit on detections lets in.                                        *)

Sound(D) == IsFiniteSet(D) /\ \A d \in D : d.framework \in tree[d.entry].hits

KnownIn(D, i) == Found(D, i) = tree[i].hits \/ Cardinality(D) >= MaxFrameworks

\* The detections of one file.
Whole(D, i) == Sound(D) /\ (\A d \in D : d.entry = i) /\ KnownIn(D, i)

LEMMA FoundMember ==
    ASSUME NEW D, NEW i, NEW f
    PROVE  f \in Found(D, i) <=> \E d \in D : d.entry = i /\ d.framework = f
  BY DEF Found

LEMMA FoundWithin ==
    ASSUME NEW D, Sound(D), NEW i
    PROVE  Found(D, i) \subseteq tree[i].hits
  BY FoundMember DEF Sound

LEMMA KnownGrows ==
    ASSUME NEW D, NEW E, D \subseteq E, Sound(E), NEW i, KnownIn(D, i)
    PROVE  KnownIn(E, i)
<1>1. CASE Found(D, i) = tree[i].hits
  <2>1. tree[i].hits \subseteq Found(E, i)
    BY <1>1, FoundMember
  <2> QED
    BY <2>1, FoundWithin DEF KnownIn
<1>2. CASE Cardinality(D) >= MaxFrameworks
  <2>1. IsFiniteSet(E) /\ IsFiniteSet(D)
    BY FS_Subset DEF Sound
  <2>2. Cardinality(D) <= Cardinality(E) /\ Cardinality(D) \in Nat /\ Cardinality(E) \in Nat
    BY <2>1, FS_Subset, FS_CardinalityType
  <2>3. MaxFrameworks \in Nat
    BY LimitsAssumption
  <2> QED
    BY <1>2, <2>2, <2>3 DEF KnownIn
<1> QED
  BY <1>1, <1>2 DEF KnownIn

LEMMA SoundUnion ==
    ASSUME NEW D, Sound(D), NEW E, Sound(E)
    PROVE  Sound(D \cup E)
  BY FS_Union DEF Sound

LEMMA DetectionsSound ==
    ASSUME NEW i, NEW T, T \subseteq tree[i].hits, IsFiniteSet(T)
    PROVE  Sound(Detections(i, T)) /\ Found(Detections(i, T), i) = T
           /\ \A d \in Detections(i, T) : d.entry = i
<1>1. \A d \in Detections(i, T) : d.entry = i /\ d.framework \in T
  BY DEF Detections
<1>2. IsFiniteSet(Detections(i, T))
  BY DetectionsCardinality
<1>3. \A f \in T : \E d \in Detections(i, T) : d.entry = i /\ d.framework = f
  <2> TAKE f \in T
  <2> DEFINE d == [entry |-> i, framework |-> f, content |-> modTime[i]]
  <2>1. d \in Detections(i, T)
    BY DEF Detections
  <2>2. d.entry = i /\ d.framework = f
    OBVIOUS
  <2> HIDE DEF d
  <2> QED
    BY <2>1, <2>2
<1>4. \A f : f \in Found(Detections(i, T), i) <=> f \in T
  BY <1>1, <1>3, FoundMember
<1> QED
  BY <1>1, <1>2, <1>4 DEF Sound

LEMMA AllowedKnown ==
    ASSUME Core, NEW i \in Entry, NEW T, AsManyAsAllowed(T, i)
    PROVE  Whole(Detections(i, T), i)
<1>1. T \subseteq tree[i].hits /\ IsFiniteSet(T)
  BY ScenarioFacts, FS_Subset DEF AsManyAsAllowed, Core
<1>2. Sound(Detections(i, T)) /\ Found(Detections(i, T), i) = T /\ \A d \in Detections(i, T) : d.entry = i
  BY <1>1, DetectionsSound
<1>3. Cardinality(Detections(i, T)) = Cardinality(T)
  BY <1>1, DetectionsCardinality
<1>4. MaxFrameworks \in Nat
  BY LimitsAssumption
<1>5. KnownIn(Detections(i, T), i)
  BY <1>2, <1>3, <1>4 DEF AsManyAsAllowed, KnownIn
<1> QED
  BY <1>2, <1>5 DEF Whole

StoreInv ==
    /\ \A c \in Caller : Sound(call[c].frameworks)
    /\ \A c \in Caller : call[c].pc \in {"stat", "store"} => Whole(call[c].fresh, call[c].pos)
    /\ \A i \in DOMAIN cache : Whole(cache[i].frameworks, i)

LEMMA SoundByCall ==
    ASSUME StoreInv, tree' = tree, NEW c \in Caller, OnlyCall(c), Sound(call'[c].frameworks),
           call'[c].pc \in {"stat", "store"} => Whole(call'[c].fresh, call'[c].pos),
           cache' = cache
    PROVE  StoreInv'
<1>1. \A d \in Caller : Sound(call'[d].frameworks)
  BY DEF StoreInv, OnlyCall
<1>2. \A d \in Caller : call'[d].pc \in {"stat", "store"} => Whole(call'[d].fresh, call'[d].pos)
  BY DEF StoreInv, OnlyCall
<1>3. \A i \in DOMAIN cache' : Whole(cache'[i].frameworks, i)
  BY DEF StoreInv
<1> QED
  BY <1>1, <1>2, <1>3 DEF StoreInv, Whole, Sound, KnownIn, Found

LEMMA SoundByCache ==
    ASSUME StoreInv, tree' = tree, \A c \in Caller : call'[c].frameworks = call[c].frameworks,
           \A c \in Caller : call'[c].pc \in {"stat", "store"} => Whole(call'[c].fresh, call'[c].pos),
           \A i \in DOMAIN cache' : Whole(cache'[i].frameworks, i)
    PROVE  StoreInv'
<1>1. \A d \in Caller : Sound(call'[d].frameworks)
  BY DEF StoreInv
<1> QED
  BY <1>1 DEF StoreInv, Whole, Sound, KnownIn, Found

LEMMA StoreNext == Core /\ StoreInv /\ [Next]_vars => StoreInv'
<1> SUFFICES ASSUME Core, StoreInv, [Next]_vars PROVE StoreInv'
  OBVIOUS
<1> USE DEF Core
<1>a. \A c \in Caller : Sound(call[c].frameworks)
  BY DEF StoreInv
<1>0. ASSUME NEW c \in Caller, OnlyCall(c), tree' = tree, cache' = cache,
             call'[c].frameworks = call[c].frameworks, call'[c].pc \notin {"stat", "store"}
      PROVE  StoreInv'
  BY <1>0, <1>a, SoundByCall
<1>1. ASSUME NEW c \in Caller, Start(c) PROVE StoreInv'
  BY <1>0, <1>1, StartFacts DEF SameFound
<1>2. ASSUME NEW c \in Caller, NextEntry(c) PROVE StoreInv'
  BY <1>0, <1>2, NextEntryFacts DEF SameFound, Abandoned
<1>3. ASSUME NEW c \in Caller, VisitAborted(c) PROVE StoreInv'
  BY <1>0, <1>3, VisitAbortedFacts DEF SameFound, Abandoned
<1>4. ASSUME NEW c \in Caller, VisitFrameworks(c) PROVE StoreInv'
  <2>1. OnlyCall(c) /\ tree' = tree /\ cache' = cache /\ call'[c].pc = "walk" /\ Here(c) \in Entry
    BY <1>4, VisitFrameworksFacts, WalkFacts DEF Proceeds
  <2>2. CASE call'[c].frameworks = call[c].frameworks
    BY <1>0, <2>1, <2>2
  <2>3. CASE \E T : /\ T \subseteq tree[Here(c)].hits
                    /\ call'[c].frameworks = call[c].frameworks \cup Detections(Here(c), T)
    <3>1. PICK T : /\ T \subseteq tree[Here(c)].hits
                   /\ call'[c].frameworks = call[c].frameworks \cup Detections(Here(c), T)
      BY <2>3
    <3>2. IsFiniteSet(T)
      BY <2>1, <3>1, ScenarioFacts, FS_Subset
    <3>3. Sound(call'[c].frameworks)
      BY <1>a, <3>1, <3>2, DetectionsSound, SoundUnion
    <3> QED
      BY <2>1, <3>3, SoundByCall
  <2> QED
    BY <1>4, <2>2, <2>3, VisitFrameworksFacts
<1>5. ASSUME NEW c \in Caller, VisitModels(c) PROVE StoreInv'
  BY <1>0, <1>5, VisitModelsFacts DEF Proceeds
<1>6. ASSUME NEW c \in Caller, SendTask(c) PROVE StoreInv'
  BY <1>0, <1>6, SendTaskFacts DEF Proceeds, SameFound
<1>7. ASSUME NEW c \in Caller, CloseTasks(c) PROVE StoreInv'
  BY <1>0, <1>7, CloseTasksFacts DEF SameFound
<1>8. ASSUME NEW c \in Caller, Join(c) PROVE StoreInv'
  BY <1>0, <1>8, JoinFacts DEF SameFound
<1>9. ASSUME NEW c \in Caller, VisitCached(c) PROVE StoreInv'
  <2> DEFINE i == Here(c)
  <2>1. /\ OnlyCall(c) /\ tree' = tree /\ cache' = cache /\ i \in Entry
        /\ \/ call'[c].pc = "walk" /\ call'[c].frameworks = call[c].frameworks
           \/ call'[c].pc = "walk" /\ Cached(i)
                /\ call'[c].frameworks = call[c].frameworks \cup cache[i].frameworks
           \/ /\ call'[c].pc = "stat" /\ SamePlace(c)
              /\ \E T : /\ AsManyAsAllowed(T, i)
                        /\ call'[c].fresh = Detections(i, T)
                        /\ call'[c].frameworks = call[c].frameworks \cup Detections(i, T)
    BY <1>9, VisitCachedFacts, WalkFacts DEF Proceeds, SameFound
  <2>2. CASE call'[c].pc = "walk" /\ call'[c].frameworks = call[c].frameworks
    BY <1>0, <2>1, <2>2
  <2>3. CASE call'[c].pc = "walk" /\ Cached(i)
               /\ call'[c].frameworks = call[c].frameworks \cup cache[i].frameworks
    <3>1. Sound(cache[i].frameworks)
      BY <2>3 DEF Cached, StoreInv, Whole
    <3>2. Sound(call'[c].frameworks)
      BY <1>a, <2>3, <3>1, SoundUnion
    <3> QED
      BY <2>1, <2>3, <3>2, SoundByCall
  <2>4. ASSUME call'[c].pc = "stat", SamePlace(c), NEW T, AsManyAsAllowed(T, i),
               call'[c].fresh = Detections(i, T),
               call'[c].frameworks = call[c].frameworks \cup Detections(i, T)
        PROVE  StoreInv'
    <3>1. Whole(Detections(i, T), i)
      BY <2>1, <2>4, AllowedKnown
    <3>2. Sound(call'[c].frameworks)
      BY <1>a, <2>4, <3>1, SoundUnion DEF Whole
    <3>3. Whole(call'[c].fresh, call'[c].pos)
      BY <2>4, <3>1 DEF SamePlace, Here
    <3> QED
      BY <2>1, <3>2, <3>3, SoundByCall
  <2> QED
    BY <2>1, <2>2, <2>3, <2>4
<1>10. ASSUME NEW c \in Caller, StatFile(c) PROVE StoreInv'
  <2>1. /\ OnlyCall(c) /\ tree' = tree /\ call[c].pc = "stat" /\ SamePlace(c)
        /\ call'[c].frameworks = call[c].frameworks /\ call'[c].fresh = call[c].fresh
        /\ cache' = cache
    BY <1>10, StatFileFacts
  <2>2. \A j \in DOMAIN cache' : Whole(cache'[j].frameworks, j)
    BY <2>1 DEF StoreInv
  <2>3. \A d \in Caller : call'[d].frameworks = call[d].frameworks
    BY <2>1 DEF OnlyCall
  <2>4. \A d \in Caller : call'[d].pc \in {"stat", "store"} => Whole(call'[d].fresh, call'[d].pos)
    BY <2>1 DEF OnlyCall, StoreInv, SamePlace
  <2> QED
    BY <2>1, <2>2, <2>3, <2>4, SoundByCache
<1>11. ASSUME NEW c \in Caller, Store(c) PROVE StoreInv'
  <2> DEFINE i == Here(c)
             new == [frameworks |-> call[c].fresh, modTime |-> call[c].stat]
  <2>1. /\ OnlyCall(c) /\ tree' = tree /\ call[c].pc = "store" /\ call'[c].pc = "walk"
        /\ call'[c].frameworks = call[c].frameworks
        /\ cache' = [j \in DOMAIN cache \cup {i} |-> IF j = i THEN new ELSE cache[j]]
    BY <1>11, StoreFacts DEF Proceeds
  <2>2. Whole(new.frameworks, i)
    BY <2>1 DEF StoreInv, Here
  <2> HIDE DEF i, new
  <2>3. \A j \in DOMAIN cache' : Whole(cache'[j].frameworks, j)
    BY <2>1, <2>2 DEF StoreInv
  <2>4. \A d \in Caller : call'[d].frameworks = call[d].frameworks
    BY <2>1 DEF OnlyCall
  <2>5. \A d \in Caller : call'[d].pc \in {"stat", "store"} => Whole(call'[d].fresh, call'[d].pos)
    BY <2>1 DEF OnlyCall, StoreInv
  <2> QED
    BY <2>1, <2>3, <2>4, <2>5, SoundByCache
<1>12. ASSUME tree' = tree, cache' = cache,
              \A c \in Caller : /\ call'[c].frameworks = call[c].frameworks /\ call'[c].fresh = call[c].fresh
                                /\ call'[c].pc = call[c].pc /\ call'[c].pos = call[c].pos
       PROVE  StoreInv'
  BY <1>12, SoundByCache DEF StoreInv
<1>13. ASSUME NEW w \in Worker, WorkerStep(w) PROVE StoreInv'
  <2>1. CASE \A c \in Caller : call'[c].frameworks = call[c].frameworks
    BY <1>12, <1>13, <2>1, WorkerLeaves
  <2>2. CASE ~\A c \in Caller : call'[c].frameworks = call[c].frameworks
    <3>1. Add(w)
      BY <1>13, <2>2, ReceiveFacts, CheckLimitFacts DEF WorkerStep, OnlyCall, SameFound
    <3> DEFINE C == ConcurrentCall
    <3>2. /\ OnlyCall(C) /\ C \in Caller /\ worker[w].pc = "add"
          /\ \E x \in worker[w].todo : \/ /\ tree[worker[w].entry].kind \in Code
                                          /\ call'[C].frameworks = call[C].frameworks \cup {x}
                                       \/ call'[C].frameworks = call[C].frameworks
      BY <3>1, AddFacts
    <3>3. PICK x \in worker[w].todo : /\ tree[worker[w].entry].kind \in Code
                                      /\ call'[C].frameworks = call[C].frameworks \cup {x}
      BY <2>2, <3>2 DEF OnlyCall
    <3>4. x.framework \in tree[x.entry].hits
      BY <3>2, <3>3 DEF BusyInv, Busy
    <3>5. Sound({x})
      BY <3>4, FS_Singleton DEF Sound
    <3>6. Sound(call'[C].frameworks)
      BY <1>a, <3>2, <3>3, <3>5, SoundUnion
    <3>7. call'[C].pc \notin {"stat", "store"}
      <4>1. op[C] = "concurrent" /\ call'[C].pc = call[C].pc
        BY <3>1, AddFacts
      <4> QED
        BY <3>2, <4>1 DEF ControlInv, CallInv
    <3>8. tree' = tree /\ cache' = cache
      BY <3>1, AddFacts
    <3> QED
      BY <3>2, <3>6, <3>7, <3>8, SoundByCall
  <2> QED
    BY <2>1, <2>2
<1>14. ASSUME NEW c \in Caller, Cancel(c) PROVE StoreInv'
  BY <1>12, <1>14, CancelFacts
<1>15. ASSUME NEW i \in Entry, Edit(i) PROVE StoreInv'
  BY <1>12, <1>15, EditFacts
<1>16. CASE UNCHANGED vars
  BY <1>12, <1>16 DEF vars, input
<1>17. ASSUME NEW c \in Caller, MakesRoom(c) PROVE StoreInv'
  <2>1. /\ UNCHANGED <<tree, call>>
        /\ cache' = cache \/ \E old : cache' = [x \in DOMAIN cache \ {old} |-> cache[x]]
    BY <1>17, MakesRoomFacts
  <2>2. \A j \in DOMAIN cache' : Whole(cache'[j].frameworks, j)
    BY <2>1 DEF StoreInv
  <2> QED
    BY <2>1, <2>2, SoundByCache DEF StoreInv
<1> QED
  BY <1>1, <1>2, <1>3, <1>4, <1>5, <1>6, <1>7, <1>8, <1>9, <1>10, <1>11, <1>13, <1>14, <1>15, <1>16,
     <1>17 DEF Next, CallStep, MakesRoom

-----------------------------------------------------------------------------
(* The place of the walk: the entries it has been through.                 *)

Seen(c) == {i \in Walk : i < call[c].pos \/ (i = call[c].pos /\ call[c].pc # "visit")}

SamePhase(c) == call'[c].phase = call[c].phase

LEMMA SeenSame ==
    ASSUME tree' = tree, NEW c \in Caller, call'[c].pos = call[c].pos,
           call'[c].pc = "visit" <=> call[c].pc = "visit"
    PROVE  Seen(c)' = Seen(c)
  BY SameProject DEF Seen

LEMMA UpToHere ==
    ASSUME NEW W, W \subseteq Nat, NEW p \in W
    PROVE  p \notin {i \in W : i < p} /\ {i \in W : i < p \/ i = p} = {i \in W : i < p} \cup {p}
<1>1. \A i \in W : i \in Nat
  OBVIOUS
<1>2. ~(p < p)
  BY <1>1
<1> QED
  BY <1>2

LEMMA UpToNext ==
    ASSUME NEW W, W \subseteq Nat, NEW p \in Nat, NEW q \in W, q > p, \A j \in W : j > p => q <= j
    PROVE  {i \in W : i < q} = {i \in W : i < p \/ i = p}
<1>1. \A i \in W : i < q <=> i < p \/ i = p
  <2> TAKE i \in W
  <2>1. i \in Nat /\ q \in Nat /\ (i > p => q <= i)
    OBVIOUS
  <2> QED
    BY <2>1
<1> QED
  BY <1>1

LEMMA SeenAfterVisit ==
    ASSUME tree' = tree, NEW c \in Caller, call[c].pos \in Walk,
           call[c].pc = "visit", call'[c].pc # "visit", call'[c].pos = call[c].pos
    PROVE  Here(c) \notin Seen(c) /\ Seen(c)' = Seen(c) \cup {Here(c)}
<1>1. Walk' = Walk /\ Walk \subseteq Nat
  BY SameProject DEF Walk, Entry
<1> DEFINE p == call[c].pos
<1>2. Seen(c) = {i \in Walk : i < p}
  BY <1>1 DEF Seen
<1>3. Seen(c)' = {i \in Walk : i < p \/ i = p}
  BY <1>1 DEF Seen
<1>4. p \in Walk /\ Here(c) = p
  BY DEF Here
<1> HIDE DEF p
<1> QED
  BY <1>1, <1>2, <1>3, <1>4, UpToHere

LEMMA SeenAtNext ==
    ASSUME Core, tree' = tree, NEW c \in Caller, call[c].pc # "visit", call'[c].pc = "visit",
           call'[c].pos \in Rest(c), \A j \in Rest(c) : call'[c].pos <= j
    PROVE  Seen(c)' = Seen(c)
<1>1. Walk' = Walk /\ Walk \subseteq Nat /\ call[c].pos \in Nat
  BY SameProject, ScenarioFacts, WalkFacts, CallFields DEF Core, TypeOK
<1> DEFINE p == call[c].pos
           q == call'[c].pos
<1>2. Seen(c) = {i \in Walk : i < p \/ i = p}
  BY DEF Seen
<1>3. Seen(c)' = {i \in Walk : i < q}
  BY <1>1 DEF Seen
<1>4. q \in Walk /\ q > p /\ p \in Nat /\ \A j \in Walk : j > p => q <= j
  BY <1>1 DEF Rest
<1> HIDE DEF p, q
<1>5. {i \in Walk : i < q} = {i \in Walk : i < p \/ i = p}
  BY <1>1, <1>4, UpToNext
<1> QED
  BY <1>2, <1>3, <1>5

LEMMA Progress ==
    ASSUME Core, NEW c \in Caller, CallStep(c)
    PROVE  /\ op[c] # "none" /\ OnlyCall(c) /\ UNCHANGED <<tree, op, ctx>>
           /\ \/ Seen(c)' = Seen(c) /\ SamePhase(c) /\ filesScanned' \in {0, filesScanned}
              \/ /\ op[c] = "detect" /\ call[c].phase = "frameworks" /\ call'[c].phase = "models"
                 /\ call[c].pc = "walk" /\ (Rest(c) = {} \/ filesScanned >= MaxFilesToScan)
                 /\ Seen(c)' = {} /\ filesScanned' = filesScanned
              \/ /\ call[c].pc = "visit" /\ Here(c) \in Walk \ Seen(c) /\ SamePhase(c)
                 /\ Seen(c)' = Seen(c) \cup {Here(c)} /\ Count(c)
<1> USE DEF Core
<1>0. ASSUME OnlyCall(c), tree' = tree, SamePlace(c), call[c].pc = "visit", call[c].pos \in Walk,
             call'[c].pc # "visit"
      PROVE  Here(c) \in Walk \ Seen(c) /\ SamePhase(c) /\ Seen(c)' = Seen(c) \cup {Here(c)}
  BY <1>0, SeenAfterVisit DEF SamePlace, SamePhase, Here
<1>1. CASE Start(c)
  <2>1. Seen(c)' = Seen(c)
    BY <1>1, StartFacts, SeenSame DEF SamePlace
  <2> QED
    BY <1>1, <2>1, StartFacts DEF SamePlace, SamePhase
<1>2. CASE NextEntry(c)
  <2>0. op[c] # "none" /\ OnlyCall(c) /\ UNCHANGED <<tree, op, ctx>> /\ call[c].pc = "walk" /\ filesScanned' = filesScanned
    BY <1>2, NextEntryFacts
  <2>1. CASE SamePlace(c) /\ call'[c].pc \in {"walked", "returned"}
    <3>1. Seen(c)' = Seen(c)
      BY <2>0, <2>1, SeenSame DEF SamePlace
    <3> QED
      BY <2>0, <2>1, <3>1 DEF SamePlace, SamePhase
  <2>2. CASE /\ op[c] = "detect" /\ call[c].phase = "frameworks" /\ call'[c].phase = "models"
             /\ Rest(c) = {} \/ filesScanned >= MaxFilesToScan
             /\ call'[c].pos = 0
    <3>1. Seen(c)' = {}
      <4>1. Walk' \subseteq Nat \ {0}
        BY <2>0, ScenarioFacts, WalkFacts, SameProject
      <4>2. \A i \in Walk' : ~(i < 0) /\ i # 0
        BY <4>1
      <4> QED
        BY <2>2, <4>2 DEF Seen
    <3> QED
      BY <2>0, <2>2, <3>1
  <2>3. CASE /\ call'[c].pc = "visit" /\ SamePhase(c)
             /\ call'[c].pos \in Rest(c) /\ \A j \in Rest(c) : call'[c].pos <= j
    <3>1. Seen(c)' = Seen(c)
      BY <2>0, <2>3, SeenAtNext
    <3> QED
      BY <2>0, <2>3, <3>1
  <2> QED
    BY <1>2, <2>1, <2>2, <2>3, NextEntryFacts DEF Abandoned, SamePhase
<1>3. CASE VisitAborted(c)
  BY <1>0, <1>3, VisitAbortedFacts DEF Abandoned, Here
<1>4. CASE VisitFrameworks(c)
  BY <1>0, <1>4, VisitFrameworksFacts DEF Proceeds, Here
<1>5. CASE VisitModels(c)
  BY <1>0, <1>5, VisitModelsFacts DEF Proceeds, Here
<1>6. CASE SendTask(c)
  BY <1>0, <1>6, SendTaskFacts DEF Proceeds, Here
<1>7. CASE CloseTasks(c)
  <2>1. Seen(c)' = Seen(c)
    BY <1>7, CloseTasksFacts, SeenSame DEF SamePlace
  <2> QED
    BY <1>7, <2>1, CloseTasksFacts DEF SamePlace, SamePhase
<1>8. CASE Join(c)
  <2>1. Seen(c)' = Seen(c)
    BY <1>8, JoinFacts, SeenSame DEF SamePlace
  <2> QED
    BY <1>8, <2>1, JoinFacts DEF SamePlace, SamePhase
<1>9. CASE VisitCached(c)
  <2>1. call'[c].pc \in {"walk", "stat"}
    BY <1>9, VisitCachedFacts DEF Proceeds
  <2> QED
    BY <1>0, <1>9, <2>1, VisitCachedFacts DEF Here
<1>10. CASE StatFile(c)
  <2>1. Seen(c)' = Seen(c)
    BY <1>10, StatFileFacts, SeenSame DEF SamePlace
  <2> QED
    BY <1>10, <2>1, StatFileFacts DEF SamePlace, SamePhase
<1>11. CASE Store(c)
  <2>1. Seen(c)' = Seen(c)
    BY <1>11, StoreFacts, SeenSame DEF SamePlace, Proceeds
  <2> QED
    BY <1>11, <2>1, StoreFacts DEF SamePlace, SamePhase, Proceeds
<1>12. CASE MakesRoom(c)
  <2>1. Seen(c)' = Seen(c)
    BY <1>12, MakesRoomFacts, SeenSame
  <2> QED
    BY <1>12, <2>1, MakesRoomFacts DEF SamePlace, SamePhase
<1> QED
  BY <1>1, <1>2, <1>3, <1>4, <1>5, <1>6, <1>7, <1>8, <1>9, <1>10, <1>11, <1>12 DEF CallStep, MakesRoom

-----------------------------------------------------------------------------
(* The file counter of a scan that has the detector to itself: every file  *)
(* is counted once for each of its walks.                                  *)

Lone(c) == \A other \in Caller \ {c} : op[other] = "none"

Files == {i \in Walk : IsFile(i)}
SeenFiles(c) == {i \in Seen(c) : IsFile(i)}
FirstWalk(c) == IF call[c].phase = "models" THEN Cardinality(Files) ELSE 0

CountInv == \A c \in Caller : Lone(c) => filesScanned <= Cardinality(SeenFiles(c)) + FirstWalk(c)

LEMMA FilesFacts ==
    ASSUME Core, NEW c \in Caller
    PROVE  /\ IsFiniteSet(SeenFiles(c)) /\ Cardinality(SeenFiles(c)) \in Nat
           /\ Cardinality(Files) \in Nat /\ Cardinality(SeenFiles(c)) <= Cardinality(Files)
           /\ filesScanned \in Nat
<1>1. Files \subseteq Walk /\ SeenFiles(c) \subseteq Files
  BY DEF Files, SeenFiles, Seen
<1>2. IsFiniteSet(Files)
  BY <1>1, WalkFacts, FS_Subset DEF Core
<1> QED
  BY <1>1, <1>2, FS_Subset, FS_CardinalityType DEF Core, TypeOK

\* Alone, a scan is the only one to step, and the pool is its own or unused.
LEMMA LoneSteps ==
    ASSUME Core, NEW c \in Caller, Lone(c)
    PROVE  /\ \A d \in Caller : CallStep(d) \/ Cancel(d) => d = c
           /\ \A w \in Worker : WorkerStep(w) => ConcurrentCall = c /\ op[c] = "concurrent"
<1>1. ASSUME NEW d \in Caller, CallStep(d) \/ Cancel(d) PROVE d = c
  BY <1>1, Progress, CancelFacts DEF Lone, Core
<1>2. ASSUME NEW w \in Worker, WorkerStep(w) PROVE ConcurrentCall = c /\ op[c] = "concurrent"
  BY <1>2, WorkerLeaves DEF Lone
<1> QED
  BY <1>1, <1>2

LEMMA CountNext == Core /\ CountInv /\ [Next]_vars => CountInv'
<1> SUFFICES ASSUME Core, CountInv, [Next]_vars, NEW c \in Caller, Lone(c)'
             PROVE  (filesScanned <= Cardinality(SeenFiles(c)) + FirstWalk(c))'
  BY DEF CountInv
<1>0. tree' = tree /\ op' = op
  <2>1. ASSUME NEW d \in Caller, CallStep(d) \/ Cancel(d) PROVE tree' = tree /\ op' = op
    BY <2>1, Progress, CancelFacts DEF Core
  <2>2. ASSUME NEW w \in Worker, WorkerStep(w) PROVE tree' = tree /\ op' = op
    BY <2>2, WorkerLeaves
  <2>3. ASSUME NEW i \in Entry, Edit(i) PROVE tree' = tree /\ op' = op
    BY <2>3, EditFacts DEF Core
  <2>4. CASE UNCHANGED vars
    BY <2>4 DEF vars, input
  <2> QED
    BY <2>1, <2>2, <2>3, <2>4 DEF Next
<1>1. Lone(c) /\ Files' = Files
  BY <1>0, SameProject DEF Lone, Files, IsFile
<1>2. filesScanned <= Cardinality(SeenFiles(c)) + FirstWalk(c)
  BY <1>1 DEF CountInv
<1>3. ASSUME Seen(c)' = Seen(c), SamePhase(c), filesScanned' \in {0, filesScanned}
      PROVE  (filesScanned <= Cardinality(SeenFiles(c)) + FirstWalk(c))'
  <2>1. SeenFiles(c)' = SeenFiles(c) /\ FirstWalk(c)' = FirstWalk(c)
    BY <1>0, <1>1, <1>3 DEF SeenFiles, IsFile, FirstWalk, SamePhase
  <2>2. FirstWalk(c) \in Nat
    BY FilesFacts DEF FirstWalk
  <2>3. 0 <= Cardinality(SeenFiles(c)) + FirstWalk(c)
    BY <2>2, FilesFacts
  <2> QED
    BY <1>2, <1>3, <2>1, <2>3
<1>4. ASSUME CallStep(c) PROVE (filesScanned <= Cardinality(SeenFiles(c)) + FirstWalk(c))'
  <2>1. CASE Seen(c)' = Seen(c) /\ SamePhase(c) /\ filesScanned' \in {0, filesScanned}
    BY <1>3, <2>1
  <2>2. CASE /\ call[c].phase = "frameworks" /\ call'[c].phase = "models"
             /\ Seen(c)' = {} /\ filesScanned' = filesScanned
    <3>1. FirstWalk(c) = 0 /\ FirstWalk(c)' = Cardinality(Files)
      BY <1>1, <2>2 DEF FirstWalk
    <3>2. SeenFiles(c)' = {} /\ Cardinality({}) = 0
      BY <2>2, FS_EmptySet DEF SeenFiles
    <3>3. filesScanned <= 0 + Cardinality(Files)
      BY <1>2, <3>1, FilesFacts
    <3> QED
      BY <2>2, <3>1, <3>2, <3>3
  <2>3. CASE /\ Here(c) \in Walk \ Seen(c) /\ SamePhase(c)
             /\ Seen(c)' = Seen(c) \cup {Here(c)} /\ Count(c)
    <3>1. FirstWalk(c)' = FirstWalk(c) /\ FirstWalk(c) \in Nat
      BY <1>1, <2>3, FilesFacts DEF FirstWalk, SamePhase
    <3>2. CASE IsFile(Here(c))
      <4>1. SeenFiles(c)' = SeenFiles(c) \cup {Here(c)} /\ Here(c) \notin SeenFiles(c)
        BY <1>0, <2>3, <3>2 DEF SeenFiles, IsFile
      <4>2. Cardinality(SeenFiles(c)') = Cardinality(SeenFiles(c)) + 1
        BY <4>1, FilesFacts, FS_AddElement
      <4>3. filesScanned' = filesScanned + 1
        BY <2>3, <3>2 DEF Count
      <4> QED
        BY <1>2, <3>1, <4>2, <4>3, FilesFacts
    <3>3. CASE ~IsFile(Here(c))
      <4>1. SeenFiles(c)' = SeenFiles(c)
        BY <1>0, <2>3, <3>3 DEF SeenFiles, IsFile
      <4>2. filesScanned' = filesScanned
        BY <2>3, <3>3, FilesFacts DEF Count
      <4> QED
        BY <1>2, <3>1, <4>1, <4>2
    <3> QED
      BY <3>2, <3>3
  <2> QED
    BY <1>4, <2>1, <2>2, <2>3, Progress
<1>5. ASSUME call'[c].pos = call[c].pos, call'[c].pc = call[c].pc, call'[c].phase = call[c].phase,
             filesScanned' = filesScanned
      PROVE  (filesScanned <= Cardinality(SeenFiles(c)) + FirstWalk(c))'
  BY <1>0, <1>3, <1>5, SeenSame DEF SamePhase
<1>6. ASSUME NEW w \in Worker, WorkerStep(w) PROVE (filesScanned <= Cardinality(SeenFiles(c)) + FirstWalk(c))'
  BY <1>5, <1>6, WorkerLeaves
<1>7. ASSUME Cancel(c) PROVE (filesScanned <= Cardinality(SeenFiles(c)) + FirstWalk(c))'
  BY <1>5, <1>7, CancelFacts DEF Core
<1>8. ASSUME NEW i \in Entry, Edit(i) PROVE (filesScanned <= Cardinality(SeenFiles(c)) + FirstWalk(c))'
  BY <1>5, <1>8, EditFacts DEF Core
<1>9. CASE UNCHANGED vars
  BY <1>5, <1>9 DEF vars
<1> QED
  BY <1>1, <1>4, <1>6, <1>7, <1>8, <1>9, LoneSteps DEF Next

-----------------------------------------------------------------------------
(* The task channel.                                                       *)

Elements(q) == {q[k] : k \in 1..Len(q)}
Distinct(q) == \A j, k \in 1..Len(q) : q[j] = q[k] => j = k

LEMMA TailElements ==
    ASSUME NEW S, NEW q \in Seq(S), q # <<>>
    PROVE  /\ Elements(q) = Elements(Tail(q)) \cup {Head(q)}
           /\ Distinct(q) => Distinct(Tail(q)) /\ Head(q) \notin Elements(Tail(q))
<1> DEFINE n == Len(q)
<1>1. /\ n \in Nat \ {0} /\ Head(q) = q[1] /\ Len(Tail(q)) = n - 1
      /\ \A k \in 1..(n - 1) : Tail(q)[k] = q[k + 1]
  BY HeadTailProperties, LenProperties, EmptySeq
<1> HIDE DEF n
<1>2. /\ \A k \in 1..(n - 1) : k + 1 \in 1..n /\ k + 1 # 1
      /\ \A k \in 1..n : k # 1 => k - 1 \in 1..(n - 1) /\ (k - 1) + 1 = k
      /\ 1 \in 1..n
  BY <1>1
<1>3. Elements(q) = Elements(Tail(q)) \cup {Head(q)}
  <2>1. \A k \in 1..n : q[k] \in Elements(Tail(q)) \cup {Head(q)}
    BY <1>1, <1>2 DEF Elements
  <2>2. \A k \in 1..(n - 1) : Tail(q)[k] \in Elements(q)
    BY <1>1, <1>2 DEF Elements, n
  <2>3. Head(q) \in Elements(q)
    BY <1>1, <1>2 DEF Elements, n
  <2>4. \A x \in Elements(q) : x \in Elements(Tail(q)) \cup {Head(q)}
    BY <2>1 DEF Elements, n
  <2>5. \A x \in Elements(Tail(q)) : x \in Elements(q)
    BY <1>1, <2>2 DEF Elements
  <2> QED
    BY <2>3, <2>4, <2>5
<1>4. ASSUME Distinct(q) PROVE Distinct(Tail(q)) /\ Head(q) \notin Elements(Tail(q))
  <2>1. \A j, k \in 1..n : q[j] = q[k] => j = k
    BY <1>4 DEF Distinct, n
  <2>2. Distinct(Tail(q))
    <3> SUFFICES ASSUME NEW j \in 1..(n - 1), NEW k \in 1..(n - 1), Tail(q)[j] = Tail(q)[k]
                 PROVE  j = k
      BY <1>1 DEF Distinct
    <3>1. j + 1 = k + 1
      BY <1>1, <1>2, <2>1
    <3> QED
      BY <3>1
  <2>3. \A k \in 1..(n - 1) : Tail(q)[k] # Head(q)
    BY <1>1, <1>2, <2>1
  <2> QED
    BY <1>1, <2>2, <2>3 DEF Elements
<1> QED
  BY <1>3, <1>4

LEMMA AppendElements ==
    ASSUME NEW S, NEW q \in Seq(S), NEW x \in S
    PROVE  /\ Elements(Append(q, x)) = Elements(q) \cup {x}
           /\ Distinct(q) /\ x \notin Elements(q) => Distinct(Append(q, x))
<1> DEFINE n == Len(q)
           line == Append(q, x)
<1>1. /\ n \in Nat /\ Len(line) = n + 1
      /\ \A k \in 1..n : line[k] = q[k]
      /\ line[n + 1] = x
  BY AppendProperties, LenProperties
<1> HIDE DEF n, line
<1>2. 1..(n + 1) = (1..n) \cup {n + 1}
  BY <1>1
<1>3. Elements(line) = Elements(q) \cup {x}
  <2>1. Elements(line) = {line[k] : k \in 1..n} \cup {x}
    BY <1>1, <1>2 DEF Elements
  <2>2. {line[k] : k \in 1..n} = {q[k] : k \in 1..n}
    BY <1>1
  <2> QED
    BY <2>1, <2>2 DEF Elements, n
<1>4. ASSUME Distinct(q), x \notin Elements(q) PROVE Distinct(line)
  <2>1. \A j, k \in 1..n : q[j] = q[k] => j = k
    BY <1>4 DEF Distinct, n
  <2>2. \A k \in 1..n : q[k] # x
    BY <1>4 DEF Elements, n
  <2> QED
    BY <1>1, <1>2, <2>1, <2>2 DEF Distinct
<1> QED
  BY <1>3, <1>4 DEF line

InHand == {worker[w].entry : w \in Busy}

\* Every entry of the walk is handed out at most once.
QueueInv ==
    \A c \in Caller : op[c] = "concurrent" =>
        /\ Distinct(tasks)
        /\ \A u, w \in Busy : worker[u].entry = worker[w].entry => u = w
        /\ Elements(tasks) \cap InHand = {}
        /\ Elements(tasks) \cup InHand \subseteq Seen(c)

\* Workers that are still at work are at the same entry.
SameHands ==
    \A w \in Worker : worker'[w].pc \in {"check", "add"} =>
                         worker[w].pc \in {"check", "add"} /\ worker'[w].entry = worker[w].entry

LEMMA FewerInHand ==
    ASSUME SameHands
    PROVE  /\ Busy' \subseteq Busy /\ InHand' \subseteq InHand
           /\ \A w \in Busy' : worker'[w].entry = worker[w].entry
  BY DEF SameHands, Busy, InHand

LEMMA QueueShrinks ==
    ASSUME QueueInv, op' = op, tasks' = tasks, SameHands,
           \A c \in Caller : op[c] = "concurrent" => Seen(c) \subseteq Seen(c)'
    PROVE  QueueInv'
<1> SUFFICES ASSUME NEW c \in Caller, op[c] = "concurrent"
             PROVE  /\ Distinct(tasks)
                    /\ \A u, w \in Busy' : worker'[u].entry = worker'[w].entry => u = w
                    /\ Elements(tasks) \cap InHand' = {}
                    /\ Elements(tasks) \cup InHand' \subseteq Seen(c)'
  BY DEF QueueInv, Elements, Distinct
<1>1. /\ Distinct(tasks)
      /\ \A u, w \in Busy : worker[u].entry = worker[w].entry => u = w
      /\ Elements(tasks) \cap InHand = {}
      /\ Elements(tasks) \cup InHand \subseteq Seen(c)
  BY DEF QueueInv
<1>2. Seen(c) \subseteq Seen(c)'
  OBVIOUS
<1> QED
  BY <1>1, <1>2, FewerInHand

\* Only SendTask puts something on the channel.
LEMMA CallTasks ==
    ASSUME Core, NEW c \in Caller, CallStep(c)
    PROVE  /\ tasks' = tasks \/ (SendTask(c) /\ op[c] = "concurrent")
           /\ SendTask(c) => worker' = worker
           /\ closed' = closed \/ (CloseTasks(c) /\ op[c] = "concurrent")
  BY StartFacts, NextEntryFacts, VisitAbortedFacts, VisitFrameworksFacts, VisitModelsFacts, SendTaskFacts,
     CloseTasksFacts, JoinFacts, VisitCachedFacts, StatFileFacts, MakesRoomFacts, StoreFacts
  DEF CallStep, MakesRoom, Core

\* The walk of the concurrent scan only goes forward.
LEMMA ConcurrentSeen ==
    ASSUME Core, [Next]_vars, NEW c \in Caller, op[c] = "concurrent"
    PROVE  Seen(c) \subseteq Seen(c)' /\ op' = op /\ tree' = tree
<1>1. ASSUME NEW d \in Caller, CallStep(d) PROVE Seen(c) \subseteq Seen(c)' /\ op' = op /\ tree' = tree
  <2>0. tree' = tree /\ op' = op
    BY <1>1, Progress
  <2>1. CASE d = c
    BY <1>1, <2>0, <2>1, Progress
  <2>2. CASE d # c
    <3>1. call'[c] = call[c]
      BY <1>1, <2>2, Progress DEF OnlyCall
    <3> QED
      BY <2>0, <3>1, SeenSame
  <2> QED
    BY <2>1, <2>2
<1>2. ASSUME UNCHANGED <<tree, op>>, call'[c].pos = call[c].pos, call'[c].pc = call[c].pc
      PROVE  Seen(c) \subseteq Seen(c)' /\ op' = op /\ tree' = tree
  BY <1>2, SeenSame
<1>3. ASSUME NEW w \in Worker, WorkerStep(w) PROVE Seen(c) \subseteq Seen(c)' /\ op' = op /\ tree' = tree
  BY <1>2, <1>3, WorkerLeaves
<1>4. ASSUME NEW d \in Caller, Cancel(d) PROVE Seen(c) \subseteq Seen(c)' /\ op' = op /\ tree' = tree
  BY <1>2, <1>4, CancelFacts DEF Core
<1>5. ASSUME NEW i \in Entry, Edit(i) PROVE Seen(c) \subseteq Seen(c)' /\ op' = op /\ tree' = tree
  BY <1>2, <1>5, EditFacts DEF Core
<1>6. CASE UNCHANGED vars
  BY <1>2, <1>6 DEF vars, input
<1> QED
  BY <1>1, <1>3, <1>4, <1>5, <1>6 DEF Next

\* A worker that takes a task, or one that goes on.
LEMMA ReceiveCases ==
    ASSUME Core, NEW w \in Worker, Receive(w)
    PROVE  /\ worker[w].pc = "ready"
           /\ \/ tasks' = tasks /\ SameHands
              \/ tasks # <<>> /\ tasks' = Tail(tasks) /\ SameHands
              \/ /\ tasks # <<>> /\ tasks' = Tail(tasks) /\ OnlyWorker(w)
                 /\ worker'[w].pc = "check" /\ worker'[w].entry = Head(tasks)
<1>1. worker[w].pc = "ready"
      /\ \/ tasks' = tasks /\ OnlyWorker(w) /\ WorkerIs(worker'[w], "done", worker[w].entry, worker[w].todo)
         \/ /\ tasks # <<>> /\ tasks' = Tail(tasks)
            /\ \/ worker' = worker
               \/ OnlyWorker(w) /\ WorkerIs(worker'[w], "done", worker[w].entry, worker[w].todo)
               \/ OnlyWorker(w) /\ \E todo : WorkerIs(worker'[w], "check", Head(tasks), todo)
  BY ReceiveFacts DEF Core
<1>2. ASSUME OnlyWorker(w), WorkerIs(worker'[w], "done", worker[w].entry, worker[w].todo) PROVE SameHands
  BY <1>2 DEF OnlyWorker, WorkerIs, SameHands
<1>3. ASSUME worker' = worker PROVE SameHands
  BY <1>3 DEF SameHands
<1> QED
  BY <1>1, <1>2, <1>3 DEF WorkerIs

LEMMA OtherHands ==
    ASSUME Core, NEW w \in Worker, CheckLimit(w) \/ Add(w)
    PROVE  tasks' = tasks /\ SameHands /\ OnlyWorker(w) /\ worker'[w].entry = worker[w].entry
           /\ worker[w].pc \in {"check", "add"}
<1>1. tasks' = tasks /\ OnlyWorker(w) /\ worker'[w].entry = worker[w].entry
      /\ worker[w].pc \in {"check", "add"}
  BY CheckLimitFacts, AddFacts DEF Core, WorkerIs
<1> QED
  BY <1>1 DEF OnlyWorker, SameHands

LEMMA QueueNext == Core /\ QueueInv /\ [Next]_vars => QueueInv'
<1> SUFFICES ASSUME Core, QueueInv, [Next]_vars PROVE QueueInv'
  OBVIOUS
<1>a. \A c \in Caller : op[c] = "concurrent" => Seen(c) \subseteq Seen(c)' /\ op' = op
  BY ConcurrentSeen
<1>b. ASSUME op' = op, tasks' = tasks, SameHands PROVE QueueInv'
  BY <1>a, <1>b, QueueShrinks
<1>c. ASSUME worker' = worker \/ \A w \in Worker : worker'[w].pc = "ready" PROVE SameHands
  BY <1>c DEF SameHands
<1>1. ASSUME NEW c \in Caller, CallStep(c), ~SendTask(c) PROVE QueueInv'
  BY <1>1, <1>b, <1>c, CallTasks, CallWorkers
<1>2. ASSUME NEW c \in Caller, SendTask(c) PROVE QueueInv'
  <2> DEFINE i == Here(c)
  <2>1. /\ op[c] = "concurrent" /\ op' = op /\ worker' = worker /\ tasks' = Append(tasks, i)
        /\ i \in Walk \ Seen(c) /\ Seen(c)' = Seen(c) \cup {i}
    <3>1. /\ op[c] = "concurrent" /\ op' = op /\ worker' = worker /\ tasks' = Append(tasks, i)
          /\ tree' = tree /\ i \in Walk /\ call[c].pc = "visit" /\ call'[c].pc = "walk"
          /\ call'[c].pos = call[c].pos
      BY <1>2, SendTaskFacts DEF Core, Proceeds, SamePlace
    <3>2. i \notin Seen(c) /\ Seen(c)' = Seen(c) \cup {i}
      BY <3>1, SeenAfterVisit DEF Here
    <3> QED
      BY <3>1, <3>2
  <2>2. /\ Distinct(tasks)
        /\ \A u, w \in Busy : worker[u].entry = worker[w].entry => u = w
        /\ Elements(tasks) \cap InHand = {}
        /\ Elements(tasks) \cup InHand \subseteq Seen(c)
    BY <2>1 DEF QueueInv
  <2>3. tasks \in Seq(Entry) /\ i \in Entry
    BY <2>1, WalkFacts DEF Core, TypeOK
  <2> HIDE DEF i
  <2>4. Elements(tasks') = Elements(tasks) \cup {i} /\ Distinct(tasks')
    BY <2>1, <2>2, <2>3, AppendElements
  <2>5. Busy' = Busy /\ InHand' = InHand
    BY <2>1 DEF Busy, InHand
  <2>6. \A d \in Caller : op[d] = "concurrent" => d = c
    BY <2>1, ScenarioFacts DEF Core
  <2>7. Elements(tasks)' = Elements(tasks') /\ Distinct(tasks)' = Distinct(tasks')
    BY DEF Elements, Distinct
  <2>8. \A u, w \in Busy' : worker'[u].entry = worker'[w].entry => u = w
    BY <2>1, <2>2, <2>5
  <2>9. Elements(tasks') \cap InHand' = {} /\ Elements(tasks') \cup InHand' \subseteq Seen(c)'
    BY <2>1, <2>2, <2>4, <2>5
  <2> QED
    BY <2>1, <2>4, <2>6, <2>7, <2>8, <2>9 DEF QueueInv
<1>3. ASSUME NEW w \in Worker, Receive(w) PROVE QueueInv'
  <2>0. op' = op
    BY <1>3, ReceiveFacts DEF Core
  <2>1. CASE tasks' = tasks /\ SameHands
    BY <1>b, <2>0, <2>1
  <2> SUFFICES ASSUME tasks # <<>>, tasks' = Tail(tasks),
                      SameHands \/ /\ OnlyWorker(w) /\ worker[w].pc = "ready"
                                   /\ worker'[w].pc = "check" /\ worker'[w].entry = Head(tasks),
                      NEW c \in Caller, op[c] = "concurrent"
               PROVE  /\ Distinct(tasks')
                      /\ \A u, v \in Busy' : worker'[u].entry = worker'[v].entry => u = v
                      /\ Elements(tasks') \cap InHand' = {}
                      /\ Elements(tasks') \cup InHand' \subseteq Seen(c)'
    <3>1. Elements(tasks)' = Elements(tasks') /\ Distinct(tasks)' = Distinct(tasks')
      BY DEF Elements, Distinct
    <3> QED
      BY <1>3, <2>0, <2>1, <3>1, ReceiveCases DEF QueueInv
  <2>2. /\ Distinct(tasks)
        /\ \A u, v \in Busy : worker[u].entry = worker[v].entry => u = v
        /\ Elements(tasks) \cap InHand = {}
        /\ Elements(tasks) \cup InHand \subseteq Seen(c)
    BY DEF QueueInv
  <2>3. tasks \in Seq(Entry)
    BY DEF Core, TypeOK
  <2>4. /\ Elements(tasks) = Elements(tasks') \cup {Head(tasks)}
        /\ Distinct(tasks') /\ Head(tasks) \notin Elements(tasks')
    BY <2>2, <2>3, TailElements
  <2>5. Seen(c) \subseteq Seen(c)'
    BY <1>a
  <2>6. CASE SameHands
    BY <2>2, <2>4, <2>5, <2>6, FewerInHand
  <2>7. CASE /\ OnlyWorker(w) /\ worker[w].pc = "ready"
             /\ worker'[w].pc = "check" /\ worker'[w].entry = Head(tasks)
    <3>1. Busy' = Busy \cup {w} /\ w \notin Busy
      BY <2>7 DEF OnlyWorker, Busy
    <3>2. \A u \in Busy : worker'[u].entry = worker[u].entry
      BY <2>7, <3>1 DEF OnlyWorker, Busy
    <3>3. InHand' = InHand \cup {Head(tasks)}
      BY <2>7, <3>1, <3>2 DEF InHand
    <3>4. \A u \in Busy : worker[u].entry # Head(tasks)
      BY <2>2, <2>4 DEF InHand
    <3>5. \A u, v \in Busy' : worker'[u].entry = worker'[v].entry => u = v
      BY <2>2, <2>7, <3>1, <3>2, <3>4
    <3> QED
      BY <2>2, <2>4, <2>5, <3>3, <3>5
  <2> QED
    BY <2>6, <2>7
<1>4. ASSUME NEW w \in Worker, CheckLimit(w) \/ Add(w) PROVE QueueInv'
  <2>1. op' = op
    BY <1>4, CheckLimitFacts, AddFacts DEF Core
  <2> QED
    BY <1>b, <1>4, <2>1, OtherHands
<1>5. ASSUME NEW d \in Caller, Cancel(d) PROVE QueueInv'
  BY <1>b, <1>c, <1>5, CancelFacts DEF Core
<1>6. ASSUME NEW i \in Entry, Edit(i) PROVE QueueInv'
  BY <1>b, <1>c, <1>6, EditFacts DEF Core
<1>7. CASE UNCHANGED vars
  BY <1>b, <1>c, <1>7 DEF vars, input, pool
<1>8. ASSUME NEW c \in Caller, CallStep(c) PROVE QueueInv'
  BY <1>1, <1>2, <1>8
<1> QED
  BY <1>3, <1>4, <1>5, <1>6, <1>7, <1>8 DEF Next, WorkerStep

-----------------------------------------------------------------------------
(* Nothing is detected in an entry before it is its turn, so that what is  *)
(* let in up to the limit on detections is new.                            *)

NotebookAtCheck(i) ==
    \E w \in Worker : worker[w].pc = "check" /\ worker[w].entry = i /\ tree[i].kind = "notebook"

OnceInv ==
    \A c \in Caller : \A d \in call[c].frameworks :
        /\ op[c] = "detect" /\ call[c].phase = "frameworks" => d.entry \in Seen(c)
        /\ op[c] = "concurrent" => /\ d.entry \in Seen(c) \ Elements(tasks)
                                   /\ ~NotebookAtCheck(d.entry)

\* Where a caller finds frameworks itself.
LEMMA CallFrameworks ==
    ASSUME Core, NEW c \in Caller, CallStep(c)
    PROVE  \/ call'[c].frameworks = call[c].frameworks
           \/ op[c] = "cached"
           \/ /\ op[c] = "detect" /\ call[c].pc = "visit" /\ Here(c) \in Walk
              /\ call'[c].pc = "walk" /\ SamePlace(c)
              /\ \E T : call'[c].frameworks = call[c].frameworks \cup Detections(Here(c), T)
<1> USE DEF Core
<1>1. CASE Start(c)
  BY <1>1, StartFacts DEF SameFound
<1>2. CASE NextEntry(c)
  BY <1>2, NextEntryFacts DEF SameFound
<1>3. CASE VisitAborted(c)
  BY <1>3, VisitAbortedFacts DEF Abandoned, SameFound
<1>4. CASE VisitFrameworks(c)
  BY <1>4, VisitFrameworksFacts DEF Proceeds
<1>5. CASE VisitModels(c)
  BY <1>5, VisitModelsFacts
<1>6. CASE SendTask(c)
  BY <1>6, SendTaskFacts DEF SameFound
<1>7. CASE CloseTasks(c)
  BY <1>7, CloseTasksFacts DEF SameFound
<1>8. CASE Join(c)
  BY <1>8, JoinFacts DEF SameFound
<1>9. CASE VisitCached(c)
  BY <1>9, VisitCachedFacts
<1>10. CASE StatFile(c)
  BY <1>10, StatFileFacts
<1>11. CASE Store(c)
  BY <1>11, StoreFacts
<1>12. CASE MakesRoom(c)
  BY <1>12, MakesRoomFacts
<1> QED
  BY <1>1, <1>2, <1>3, <1>4, <1>5, <1>6, <1>7, <1>8, <1>9, <1>10, <1>11, <1>12 DEF CallStep, MakesRoom

\* What holds of the calls that a step leaves alone.
LEMMA OnceKept ==
    ASSUME OnceInv, UNCHANGED <<tree, op>>, NEW c \in Caller, call'[c].frameworks = call[c].frameworks,
           \/ Seen(c) \subseteq Seen(c)' /\ call'[c].phase = call[c].phase
           \/ op[c] # "concurrent" /\ call'[c].phase = "models",
           op[c] = "concurrent" =>
              /\ Elements(tasks') \subseteq Elements(tasks)
              /\ \A w \in Worker : worker'[w].pc = "check" =>
                     worker[w].pc = "check" /\ worker'[w].entry = worker[w].entry
    PROVE  \A d \in call'[c].frameworks :
              /\ op[c] = "detect" /\ call'[c].phase = "frameworks" => d.entry \in Seen(c)'
              /\ op[c] = "concurrent" => /\ d.entry \in Seen(c)' \ Elements(tasks')
                                         /\ ~NotebookAtCheck(d.entry)'
<1> SUFFICES ASSUME NEW d \in call[c].frameworks
             PROVE  /\ op[c] = "detect" /\ call'[c].phase = "frameworks" => d.entry \in Seen(c)'
                    /\ op[c] = "concurrent" => /\ d.entry \in Seen(c)' \ Elements(tasks')
                                               /\ ~NotebookAtCheck(d.entry)'
  OBVIOUS
<1>1. /\ op[c] = "detect" /\ call[c].phase = "frameworks" => d.entry \in Seen(c)
      /\ op[c] = "concurrent" => d.entry \in Seen(c) \ Elements(tasks) /\ ~NotebookAtCheck(d.entry)
  BY DEF OnceInv
<1>2. op[c] = "concurrent" => ~NotebookAtCheck(d.entry)'
  BY <1>1 DEF NotebookAtCheck
<1> QED
  BY <1>1, <1>2

LEMMA OnceShape ==
    ASSUME op' = op,
           \A c \in Caller : \A d \in call'[c].frameworks :
              /\ op[c] = "detect" /\ call'[c].phase = "frameworks" => d.entry \in Seen(c)'
              /\ op[c] = "concurrent" => /\ d.entry \in Seen(c)' \ Elements(tasks')
                                         /\ ~NotebookAtCheck(d.entry)'
    PROVE  OnceInv'
<1>1. Elements(tasks)' = Elements(tasks')
  BY DEF Elements
<1> QED
  BY <1>1 DEF OnceInv, NotebookAtCheck

LEMMA OnceNext == Core /\ QueueInv /\ OnceInv /\ [Next]_vars => OnceInv'
<1> SUFFICES ASSUME Core, QueueInv, OnceInv, [Next]_vars PROVE OnceInv'
  OBVIOUS
<1>a. \A c \in Caller : op[c] = "concurrent" => Seen(c) \subseteq Seen(c)'
  BY ConcurrentSeen
<1> DEFINE Good(c) == \A d \in call'[c].frameworks :
              /\ op[c] = "detect" /\ call'[c].phase = "frameworks" => d.entry \in Seen(c)'
              /\ op[c] = "concurrent" => /\ d.entry \in Seen(c)' \ Elements(tasks')
                                         /\ ~NotebookAtCheck(d.entry)'
<1>b. op' = op /\ (\A c \in Caller : Good(c)) => OnceInv'
  BY OnceShape
<1>1. ASSUME NEW c \in Caller, CallStep(c) PROVE OnceInv'
  <2>0. UNCHANGED <<tree, op>> /\ OnlyCall(c)
    BY <1>1, Progress
  <2>1. ASSUME NEW e \in Caller, e # c PROVE Good(e)
    <3>1. call'[e] = call[e] /\ Seen(e)' = Seen(e)
      BY <2>0, <2>1, SeenSame DEF OnlyCall
    <3>2. op[e] = "concurrent" => /\ tasks' = tasks
                                  /\ worker' = worker \/ \A w \in Worker : worker'[w].pc = "ready"
      BY <1>1, <2>1, CallTasks, CallWorkers, ScenarioFacts DEF Core
    <3> QED
      BY <2>0, <3>1, <3>2, OnceKept
  <2>2. Good(c)
    <3>1. CASE SendTask(c)
      <4>1. /\ op[c] = "concurrent" /\ tasks' = Append(tasks, Here(c)) /\ worker' = worker
            /\ call'[c].frameworks = call[c].frameworks /\ Here(c) \in Walk \ Seen(c)
        <5>1. /\ op[c] = "concurrent" /\ tasks' = Append(tasks, Here(c)) /\ worker' = worker
              /\ call'[c].frameworks = call[c].frameworks /\ Here(c) \in Walk
              /\ call[c].pc = "visit" /\ call'[c].pc = "walk" /\ call'[c].pos = call[c].pos
          BY <3>1, SendTaskFacts DEF Core, SameFound, Proceeds, SamePlace
        <5> QED
          BY <2>0, <5>1, SeenAfterVisit DEF Here
      <4>2. tasks \in Seq(Entry) /\ Here(c) \in Entry
        BY <4>1, WalkFacts DEF Core, TypeOK
      <4>3. Elements(tasks') = Elements(tasks) \cup {Here(c)}
        BY <4>1, <4>2, AppendElements
      <4>4. SUFFICES ASSUME NEW d \in call[c].frameworks
                     PROVE  d.entry \in Seen(c)' \ Elements(tasks') /\ ~NotebookAtCheck(d.entry)'
        BY <4>1
      <4>5. d.entry \in Seen(c) \ Elements(tasks) /\ ~NotebookAtCheck(d.entry)
        BY <4>1 DEF OnceInv
      <4>6. ~NotebookAtCheck(d.entry)'
        BY <2>0, <4>1, <4>5 DEF NotebookAtCheck
      <4> QED
        BY <1>a, <4>1, <4>3, <4>5, <4>6
    <3>2. CASE call'[c].frameworks = call[c].frameworks /\ ~SendTask(c)
      <4>1. tasks' = tasks /\ (worker' = worker \/ \A w \in Worker : worker'[w].pc = "ready")
        BY <1>1, <3>2, CallTasks, CallWorkers
      <4>2. \/ Seen(c) \subseteq Seen(c)' /\ call'[c].phase = call[c].phase
            \/ op[c] # "concurrent" /\ call'[c].phase = "models"
        BY <1>1, Progress DEF SamePhase
      <4> QED
        BY <2>0, <3>2, <4>1, <4>2, OnceKept
    <3>3. CASE op[c] = "cached"
      BY <3>3
    <3>4. CASE /\ op[c] = "detect" /\ call[c].pc = "visit" /\ Here(c) \in Walk
               /\ call'[c].pc = "walk" /\ SamePlace(c)
               /\ \E T : call'[c].frameworks = call[c].frameworks \cup Detections(Here(c), T)
      <4>1. PICK T : call'[c].frameworks = call[c].frameworks \cup Detections(Here(c), T)
        BY <3>4
      <4>2. Seen(c)' = Seen(c) \cup {Here(c)} /\ call'[c].phase = call[c].phase
        BY <2>0, <3>4, SeenAfterVisit DEF Here, SamePlace
      <4>3. \A d \in Detections(Here(c), T) : d.entry = Here(c)
        BY DEF Detections
      <4> QED
        BY <3>4, <4>1, <4>2, <4>3 DEF OnceInv
    <3> QED
      BY <1>1, <3>1, <3>2, <3>3, <3>4, CallFrameworks
  <2> QED
    BY <1>b, <2>0, <2>1, <2>2
<1>2. ASSUME UNCHANGED <<tree, op>>, UNCHANGED <<call, tasks, worker>> PROVE OnceInv'
  <2>1. \A c \in Caller : Seen(c)' = Seen(c)
    BY <1>2, SeenSame
  <2> QED
    BY <1>b, <1>2, <2>1, OnceKept
<1>3. ASSUME NEW w \in Worker, WorkerStep(w) PROVE OnceInv'
  <2> DEFINE C == ConcurrentCall
  <2>0. /\ UNCHANGED <<tree, op>> /\ C \in Caller /\ op[C] = "concurrent"
        /\ \A c \in Caller : call'[c].phase = call[c].phase
        /\ \A c \in Caller : Seen(c)' = Seen(c)
        /\ \A c \in Caller : op[c] = "concurrent" => c = C
        /\ \A c \in Caller \ {C} : call'[c] = call[c]
    <3>1. /\ UNCHANGED <<tree, op>> /\ C \in Caller /\ op[C] = "concurrent"
          /\ call' = call \/ OnlyCall(C)
          /\ \A c \in Caller : call'[c].phase = call[c].phase
          /\ \A c \in Caller : call'[c].pc = call[c].pc /\ call'[c].pos = call[c].pos
      BY <1>3, WorkerLeaves
    <3>2. \A c \in Caller : Seen(c)' = Seen(c)
      BY <3>1, SeenSame
    <3> QED
      BY <3>1, <3>2, ScenarioFacts DEF Core, OnlyCall
  <2> HIDE DEF C
  <2>1. ASSUME NEW c \in Caller, op[c] # "concurrent" PROVE Good(c)
    <3>1. call'[c] = call[c]
      BY <2>0, <2>1
    <3> QED
      BY <2>0, <2>1, <3>1, OnceKept
  <2>2. /\ \A u, v \in Busy : worker[u].entry = worker[v].entry => u = v
        /\ Elements(tasks) \cap InHand = {}
        /\ Elements(tasks) \cup InHand \subseteq Seen(C)
        /\ tasks \in Seq(Entry)
    BY <2>0 DEF QueueInv, Core, TypeOK
  <2>3. \A d \in call[C].frameworks :
            d.entry \in Seen(C) \ Elements(tasks) /\ ~NotebookAtCheck(d.entry)
    BY <2>0 DEF OnceInv
  <2>a. (\A d \in call'[C].frameworks :
            d.entry \in Seen(C) \ Elements(tasks') /\ ~NotebookAtCheck(d.entry)') => OnceInv'
    BY <1>b, <2>0, <2>1
  <2>4. Elements(tasks)' = Elements(tasks') /\ (tasks # <<>> =>
            /\ Elements(Tail(tasks)) \subseteq Elements(tasks) /\ Head(tasks) \in Elements(tasks))
    <3>1. Elements(tasks)' = Elements(tasks')
      BY DEF Elements
    <3> QED
      BY <2>2, <3>1, TailElements
  <2>5. CASE Receive(w)
    <3>1. /\ call'[C].frameworks = call[C].frameworks
          /\ \/ tasks' = tasks /\ OnlyWorker(w) /\ worker'[w].pc = "done"
             \/ /\ tasks # <<>> /\ tasks' = Tail(tasks)
                /\ \/ worker' = worker
                   \/ OnlyWorker(w) /\ worker'[w].pc = "done"
                   \/ OnlyWorker(w) /\ worker'[w].entry = Head(tasks)
      BY <2>5, ReceiveFacts DEF Core, SameFound, WorkerIs, C
    <3>2. Elements(tasks') \subseteq Elements(tasks)
      BY <2>4, <3>1
    <3>3. \A u \in Worker : worker'[u].pc = "check" =>
             \/ worker[u].pc = "check" /\ worker'[u].entry = worker[u].entry
             \/ worker'[u].entry \in Elements(tasks)
      BY <2>4, <3>1 DEF OnlyWorker
    <3>4. \A d \in call[C].frameworks : ~NotebookAtCheck(d.entry)'
      BY <2>0, <2>3, <3>3 DEF NotebookAtCheck
    <3> QED
      BY <2>3, <2>a, <3>1, <3>2, <3>4
  <2>6. CASE CheckLimit(w)
    <3>1. call' = call /\ tasks' = tasks /\ OnlyWorker(w) /\ worker'[w].pc # "check"
      BY <2>6, CheckLimitFacts DEF Core, WorkerIs
    <3>2. \A d \in call[C].frameworks : ~NotebookAtCheck(d.entry)'
      BY <2>0, <2>3, <3>1 DEF NotebookAtCheck, OnlyWorker
    <3> QED
      BY <2>3, <2>a, <3>1, <3>2
  <2>7. CASE Add(w)
    <3>0. PICK i : i = worker[w].entry
      OBVIOUS
    <3>1. /\ worker[w].pc = "add" /\ tasks' = tasks /\ OnlyWorker(w) /\ worker'[w].entry = i
          /\ worker'[w].pc = "check" => tree[i].kind = "python"
          /\ \/ call'[C].frameworks = call[C].frameworks
             \/ /\ tree[i].kind \in Code
                /\ \E x \in worker[w].todo : call'[C].frameworks = call[C].frameworks \cup {x}
      BY <2>7, <3>0, AddFacts DEF Core, WorkerIs, C
    <3>2. w \in Busy /\ i \in InHand
      BY <3>0, <3>1 DEF Busy, InHand
    <3>3. i \in Seen(C) \ Elements(tasks) /\ (tree[i].kind \in Code => \A d \in worker[w].todo : d.entry = i)
      BY <2>2, <3>0, <3>2 DEF Core, BusyInv
    <3>4. \A u \in Worker \ {w} : worker'[u] = worker[u] /\ (worker[u].pc = "check" => worker[u].entry # i)
      BY <2>2, <3>0, <3>1, <3>2 DEF OnlyWorker, Busy
    <3>5. ~NotebookAtCheck(i)'
      BY <2>0, <3>1, <3>4 DEF NotebookAtCheck
    <3>6. \A d \in call[C].frameworks : ~NotebookAtCheck(d.entry)'
      BY <2>0, <2>3, <3>1, <3>4 DEF NotebookAtCheck
    <3> QED
      BY <2>3, <2>a, <3>1, <3>3, <3>5, <3>6
  <2> QED
    BY <1>3, <2>5, <2>6, <2>7 DEF WorkerStep
<1>4. ASSUME NEW d \in Caller, Cancel(d) PROVE OnceInv'
  BY <1>2, <1>4, CancelFacts DEF Core
<1>5. ASSUME NEW i \in Entry, Edit(i) PROVE OnceInv'
  BY <1>2, <1>5, EditFacts DEF Core
<1>6. CASE UNCHANGED vars
  BY <1>2, <1>6 DEF vars, input, pool
<1> QED
  BY <1>1, <1>3, <1>4, <1>5, <1>6 DEF Next

-----------------------------------------------------------------------------
(* The account of the walk: what it has been through and nobody has still  *)
(* in hand is in the result.                                               *)

Open(c) == IF op[c] = "concurrent" THEN Elements(tasks) \cup InHand ELSE {}

\* Detect looks for models on its second walk only.
FrameworksSeen(c) == IF call[c].phase = "models" THEN Walk ELSE Seen(c)
ModelsSeen(c) == IF op[c] = "detect" /\ call[c].phase = "frameworks" THEN {} ELSE Seen(c)

FrameworksKnown(c, i) == KnownIn(call[c].frameworks, i) \/ i \in call[c].errors
ModelKnown(c, i) == i \in call[c].models \/ Cardinality(call[c].models) >= MaxModels
IsModel(c, i) == tree[i].kind = "model" \/ (tree[i].kind = "saved" /\ op[c] # "cached")

\* What a worker has in hand is enough, together with what is there.
EnoughInHand(c) ==
    op[c] = "concurrent" => \A w \in Busy : tree[worker[w].entry].kind \in Code =>
        KnownIn(call[c].frameworks \cup worker[w].todo, worker[w].entry)

Accounted(c) ==
    /\ \A i \in FrameworksSeen(c) \ Open(c) : tree[i].kind \in Code => FrameworksKnown(c, i)
    /\ \A i \in ModelsSeen(c) \ Open(c) : IsModel(c, i) => ModelKnown(c, i)
    /\ EnoughInHand(c)

AccountInv == \A c \in Caller : ctx[c] = "live" /\ WithinLimit(c) => Accounted(c)

\* What is known stays known.
Grows(c) ==
    /\ call[c].frameworks \subseteq call'[c].frameworks
    /\ call[c].models \subseteq call'[c].models
    /\ call[c].errors \subseteq call'[c].errors

LEMMA StaysKnown ==
    ASSUME Core, Core', StoreInv', UNCHANGED <<tree, op>>, NEW c \in Caller, Grows(c), NEW i
    PROVE  /\ FrameworksKnown(c, i) => FrameworksKnown(c, i)'
           /\ ModelKnown(c, i) => ModelKnown(c, i)'
<1>1. Sound(call[c].frameworks)'
  BY DEF StoreInv
<1>2. Sound(call'[c].frameworks)
  BY <1>1 DEF Sound
<1>3. KnownIn(call[c].frameworks, i) => KnownIn(call'[c].frameworks, i)
  BY <1>2, KnownGrows DEF Grows
<1>a. KnownIn(call[c].frameworks, i)' <=> KnownIn(call'[c].frameworks, i)
  BY DEF KnownIn, Found
<1>4. FrameworksKnown(c, i) => FrameworksKnown(c, i)'
  BY <1>a, <1>3 DEF FrameworksKnown, Grows
<1>5. IsFiniteSet(call'[c].models) /\ MaxModels \in Nat
  <2>1. TypeOK'
    BY DEF Core
  <2>2. call' \in [Caller -> CallType]
    BY <2>1, SameProject DEF TypeOK
  <2>3. call'[c] \in CallType
    BY <2>2
  <2>4. call'[c].models \subseteq Entry /\ IsFiniteSet(Entry)
    BY <2>3, CallFields, ScenarioFacts DEF Core
  <2> QED
    BY <2>4, FS_Subset, LimitsAssumption
<1>6. Cardinality(call[c].models) \in Nat /\ Cardinality(call'[c].models) \in Nat
      /\ Cardinality(call[c].models) <= Cardinality(call'[c].models)
  BY <1>5, FS_Subset, FS_CardinalityType DEF Grows
<1>7. ModelKnown(c, i) => ModelKnown(c, i)'
  BY <1>5, <1>6 DEF ModelKnown, Grows
<1> QED
  BY <1>4, <1>7

\* A step keeps the account when it accounts for what is new in it.
LEMMA AccountKept ==
    ASSUME Core, Core', StoreInv', UNCHANGED <<tree, op>>, NEW c \in Caller, Grows(c), Accounted(c),
           \A i \in FrameworksSeen(c)' \ Open(c)' : tree[i].kind \in Code =>
               i \in FrameworksSeen(c) \ Open(c) \/ FrameworksKnown(c, i)',
           \A i \in ModelsSeen(c)' \ Open(c)' : IsModel(c, i) =>
               i \in ModelsSeen(c) \ Open(c) \/ ModelKnown(c, i)',
           EnoughInHand(c)'
    PROVE  Accounted(c)'
<1>1. \A i \in FrameworksSeen(c)' \ Open(c)' : tree[i].kind \in Code => FrameworksKnown(c, i)'
  BY StaysKnown DEF Accounted
<1>2. \A i \in ModelsSeen(c)' \ Open(c)' : IsModel(c, i) => ModelKnown(c, i)'
  BY StaysKnown DEF Accounted
<1>3. \A i : IsModel(c, i)' <=> IsModel(c, i)
  BY DEF IsModel
<1> QED
  BY <1>1, <1>2, <1>3 DEF Accounted

LEMMA AdmittedSize ==
    ASSUME NEW D, IsFiniteSet(D), NEW kind \in Code, NEW hits, IsFiniteSet(hits),
           NEW T \in Admitted(kind, hits, Room(D, MaxFrameworks))
    PROVE  /\ T \subseteq hits /\ IsFiniteSet(T)
           /\ T = hits \/ Cardinality(D) + Cardinality(T) >= MaxFrameworks
<1>1. Cardinality(D) \in Nat /\ Cardinality(hits) \in Nat /\ MaxFrameworks \in Nat
  BY FS_CardinalityType, LimitsAssumption
<1>2. Room(D, MaxFrameworks) \in Nat /\ Cardinality(D) + Room(D, MaxFrameworks) >= MaxFrameworks
  BY <1>1 DEF Room
<1>3. T = hits \/ T \in Subsets(hits, Cardinality(hits)) \/ T \in Subsets(hits, Room(D, MaxFrameworks))
  BY DEF Admitted
<1>4. T \subseteq hits /\ (T = hits \/ Cardinality(T) = Cardinality(hits) \/ Cardinality(T) = Room(D, MaxFrameworks))
  BY <1>3 DEF Subsets
<1>5. IsFiniteSet(T) /\ (Cardinality(T) = Cardinality(hits) => T = hits)
  BY <1>4, FS_Subset
<1> QED
  BY <1>2, <1>4, <1>5

LEMMA LargeUnion ==
    ASSUME NEW D, IsFiniteSet(D), NEW E, IsFiniteSet(E), D \cap E = {}
    PROVE  Cardinality(D \cup E) = Cardinality(D) + Cardinality(E)
<1>1. Cardinality(D \cap E) = 0
  BY FS_EmptySet
<1>2. Cardinality(D \cup E) = Cardinality(D) + Cardinality(E) - Cardinality(D \cap E)
  BY FS_Union
<1>3. Cardinality(D) \in Nat /\ Cardinality(E) \in Nat
  BY FS_CardinalityType
<1> QED
  BY <1>1, <1>2, <1>3

\* A walk that ends below the file limit has been through everything.
LEMMA WalkOver ==
    ASSUME Core, CountInv, NEW c \in Caller, WithinLimit(c), op[c] # "none", call[c].pc = "walk",
           Rest(c) = {} \/ filesScanned >= MaxFilesToScan
    PROVE  Seen(c) = Walk
<1>1. /\ Cardinality(SeenFiles(c)) \in Nat /\ Cardinality(Files) \in Nat
      /\ Cardinality(SeenFiles(c)) <= Cardinality(Files)
      /\ filesScanned \in Nat /\ MaxFilesToScan \in Nat
  BY FilesFacts, LimitsAssumption
<1>2. /\ Lone(c)
      /\ (IF op[c] = "detect" THEN 2 * Cardinality(Files) ELSE Cardinality(Files)) < MaxFilesToScan
  BY DEF WithinLimit, Lone, Files
<1>3. filesScanned <= Cardinality(SeenFiles(c)) + FirstWalk(c)
  BY <1>2 DEF CountInv
<1>4. FirstWalk(c) = 0 \/ (op[c] = "detect" /\ FirstWalk(c) = Cardinality(Files))
  BY DEF FirstWalk, Core, ControlInv, CallInv
<1>5. filesScanned < MaxFilesToScan
  BY <1>1, <1>2, <1>3, <1>4
<1>6. Rest(c) = {}
  BY <1>1, <1>5
<1>7. call[c].pos \in Nat /\ Walk \subseteq Nat
  <2>1. call[c] \in CallType
    BY DEF Core, TypeOK
  <2>2. call[c].pos \in Entry \cup {0}
    BY <2>1, CallFields
  <2> QED
    BY <2>2, WalkFacts, ScenarioFacts DEF Core
<1>8. ASSUME NEW i \in Walk PROVE i \in Seen(c)
  <2>1. ~(i > call[c].pos) /\ i \in Nat
    BY <1>6, <1>7 DEF Rest
  <2>2. i < call[c].pos \/ i = call[c].pos
    BY <1>7, <2>1
  <2> QED
    BY <2>2 DEF Seen
<1> QED
  BY <1>8 DEF Seen

LEMMA KnownThen ==
    ASSUME UNCHANGED tree, NEW c \in Caller, NEW i
    PROVE  /\ KnownIn(call'[c].frameworks, i) => FrameworksKnown(c, i)'
           /\ i \in call'[c].errors => FrameworksKnown(c, i)'
           /\ i \in call'[c].models => ModelKnown(c, i)'
           /\ Cardinality(call'[c].models) >= MaxModels => ModelKnown(c, i)'
BY DEF FrameworksKnown, KnownIn, Found, ModelKnown

\* What is admitted of a file's frameworks is enough.
LEMMA AdmittedKnown ==
    ASSUME Core, NEW D, Sound(D), NEW i \in Entry, tree[i].kind \in Code, \A d \in D : d.entry # i,
           NEW T \in Admitted(tree[i].kind, tree[i].hits, Room(D, MaxFrameworks))
    PROVE  KnownIn(D \cup Detections(i, T), i)
<1>1. IsFiniteSet(tree[i].hits) /\ IsFiniteSet(D)
  BY ScenarioFacts DEF Core, Sound
<1>2. /\ T \subseteq tree[i].hits /\ IsFiniteSet(T)
      /\ T = tree[i].hits \/ Cardinality(D) + Cardinality(T) >= MaxFrameworks
  BY <1>1, AdmittedSize
<1> DEFINE E == Detections(i, T)
<1>3. Sound(E) /\ Found(E, i) = T /\ \A d \in E : d.entry = i
  BY <1>2, DetectionsSound
<1>4. IsFiniteSet(E) /\ Cardinality(E) = Cardinality(T)
  BY <1>2, DetectionsCardinality
<1> HIDE DEF E
<1>5. CASE T = tree[i].hits
  <2>1. KnownIn(E, i)
    BY <1>3, <1>5 DEF KnownIn
  <2>2. Sound(D \cup E)
    BY <1>3, SoundUnion
  <2> QED
    BY <2>1, <2>2, KnownGrows DEF E
<1>6. CASE Cardinality(D) + Cardinality(T) >= MaxFrameworks
  <2>1. D \cap E = {}
    BY <1>3
  <2>2. Cardinality(D \cup E) >= MaxFrameworks
    BY <1>1, <1>4, <1>6, <2>1, LargeUnion
  <2> QED
    BY <2>2 DEF KnownIn, E
<1> QED
  BY <1>2, <1>5, <1>6

\* A visit on the caller's own goroutine accounts for the entry.
LEMMA VisitAccounts ==
    ASSUME Core, StoreInv, OnceInv, NEW c \in Caller, CallStep(c), ctx[c] = "live",
           op[c] # "concurrent", call[c].pc = "visit", NEW i, i = Here(c)
    PROVE  /\ call[c].phase = "frameworks" /\ tree[i].kind \in Code => FrameworksKnown(c, i)'
           /\ (op[c] = "detect" => call[c].phase = "models") /\ IsModel(c, i) => ModelKnown(c, i)'
<1>0. /\ UNCHANGED tree /\ i \in Walk /\ i \in Entry /\ Sound(call[c].frameworks) /\ MaxModels \in Nat
      /\ Cardinality(call[c].models) \in Nat
  BY Progress, ModelsFacts, WalkFacts, LimitsAssumption DEF Core, ControlInv, CallInv, StoreInv, Here
<1>1. CASE VisitFrameworks(c)
  <2>1. /\ op[c] = "detect" /\ call[c].phase = "frameworks"
        /\ \/ tree[i].kind \notin Code
           \/ i \in call'[c].errors
           \/ /\ tree[i].kind \in Code
              /\ \E T \in Admitted(tree[i].kind, tree[i].hits, Room(call[c].frameworks, MaxFrameworks)) :
                    call'[c].frameworks = call[c].frameworks \cup Detections(i, T)
    BY <1>1, VisitFrameworksFacts DEF Core
  <2>2. i \notin Seen(c)
    BY ONLY call[c].pc = "visit", i = Here(c), <1>0, WalkFacts, ScenarioFacts, Core DEF Seen, Here, Core
  <2>3. \A d \in call[c].frameworks : d.entry # i
    BY <2>1, <2>2 DEF OnceInv
  <2>4. CASE \E T \in Admitted(tree[i].kind, tree[i].hits, Room(call[c].frameworks, MaxFrameworks)) :
                    call'[c].frameworks = call[c].frameworks \cup Detections(i, T)
    <3>1. tree[i].kind \in Code => KnownIn(call'[c].frameworks, i)
      BY <1>0, <2>3, <2>4, AdmittedKnown
    <3> QED
      BY <1>0, <2>1, <3>1, KnownThen
  <2> QED
    BY <1>0, <2>1, <2>4, KnownThen
<1>2. CASE VisitModels(c)
  <2>1. /\ op[c] = "detect" /\ call[c].phase = "models"
        /\ call'[c].models = IF tree[i].kind = "saved" \/
                                (tree[i].kind = "model" /\ Cardinality(call[c].models) < MaxModels)
                             THEN call[c].models \cup {i} ELSE call[c].models
    BY <1>2, VisitModelsFacts DEF Core
  <2>2. IsModel(c, i) => i \in call'[c].models \/ Cardinality(call'[c].models) >= MaxModels
    BY <1>0, <2>1 DEF IsModel
  <2> QED
    BY <1>0, <2>1, <2>2, KnownThen
<1>3. CASE VisitCached(c)
  <2>1. /\ op[c] = "cached"
        /\ \/ tree[i].kind = "model" /\ i \in call'[c].models
           \/ /\ tree[i].kind \notin Code /\ call'[c].models = call[c].models
              /\ tree[i].kind = "model" => Cardinality(call[c].models) >= MaxModels
           \/ /\ tree[i].kind \in Code /\ Cached(i)
              /\ call'[c].frameworks = call[c].frameworks \cup cache[i].frameworks
           \/ tree[i].kind \in Code /\ i \in call'[c].errors
           \/ /\ tree[i].kind \in Code /\ AsManyAsAllowed({}, i)
              /\ call'[c].frameworks = call[c].frameworks
           \/ /\ tree[i].kind \in Code
              /\ \E T : /\ AsManyAsAllowed(T, i)
                        /\ call'[c].frameworks = call[c].frameworks \cup Detections(i, T)
    BY <1>3, VisitCachedFacts DEF Core, SameFound
  <2>2. tree[i].kind \in Code /\ ~(i \in call'[c].errors) =>
            \E E : Whole(E, i) /\ call'[c].frameworks = call[c].frameworks \cup E
    <3>1. ASSUME NEW T, AsManyAsAllowed(T, i) PROVE Whole(Detections(i, T), i)
      BY <1>0, <3>1, AllowedKnown
    <3>2. Detections(i, {}) = {}
      BY DEF Detections
    <3>3. Cached(i) => Whole(cache[i].frameworks, i)
      BY DEF Cached, StoreInv
    <3>4. AsManyAsAllowed({}, i) /\ call'[c].frameworks = call[c].frameworks =>
             Whole({}, i) /\ call'[c].frameworks = call[c].frameworks \cup {}
      BY <3>1, <3>2
    <3>5. "model" \notin Code
      BY DEF Code
    <3> QED
      BY <2>1, <3>1, <3>3, <3>4, <3>5
  <2>3. tree[i].kind \in Code /\ ~(i \in call'[c].errors) => KnownIn(call'[c].frameworks, i)
    <3>1. ASSUME NEW E, Whole(E, i) PROVE KnownIn(call[c].frameworks \cup E, i)
      BY <1>0, <3>1, SoundUnion, KnownGrows DEF Whole
    <3> QED
      BY <2>2, <3>1
  <2>4. IsModel(c, i) => i \in call'[c].models \/ Cardinality(call'[c].models) >= MaxModels
    BY <2>1 DEF IsModel, Code
  <2> QED
    BY <1>0, <2>3, <2>4, KnownThen
<1> QED
  BY <1>1, <1>2, <1>3 DEF CallStep, Start, NextEntry, VisitAborted, SendTask, CloseTasks, Join, StatFile,
                          BeginCount, RangeVisit, EndCount, DeleteOldest, Store, Storing

LEMMA CallGrows ==
    ASSUME Core, NEW c \in Caller, CallStep(c), ctx[c] = "live"
    PROVE  Grows(c)
<1> USE DEF Core, Grows
<1>1. CASE Start(c)
  BY <1>1, StartFacts DEF SameFound
<1>2. CASE NextEntry(c)
  BY <1>2, NextEntryFacts DEF SameFound, Abandoned
<1>3. CASE VisitAborted(c)
  BY <1>3, VisitAbortedFacts DEF Abandoned
<1>4. CASE VisitFrameworks(c)
  BY <1>4, VisitFrameworksFacts
<1>5. CASE VisitModels(c)
  BY <1>5, VisitModelsFacts
<1>6. CASE SendTask(c)
  BY <1>6, SendTaskFacts DEF SameFound
<1>7. CASE CloseTasks(c)
  BY <1>7, CloseTasksFacts DEF SameFound
<1>8. CASE Join(c)
  BY <1>8, JoinFacts DEF SameFound
<1>9. CASE VisitCached(c)
  BY <1>9, VisitCachedFacts DEF SameFound
<1>10. CASE StatFile(c)
  BY <1>10, StatFileFacts
<1>11. CASE Store(c)
  BY <1>11, StoreFacts
<1>12. CASE MakesRoom(c)
  BY <1>12, MakesRoomFacts
<1> QED
  BY <1>1, <1>2, <1>3, <1>4, <1>5, <1>6, <1>7, <1>8, <1>9, <1>10, <1>11, <1>12 DEF CallStep, MakesRoom

\* A caller that scans on its own goroutine.
LEMMA AccountAlone ==
    ASSUME Core, Core', StoreInv, StoreInv', CountInv, OnceInv, NEW c \in Caller, CallStep(c),
           op[c] # "concurrent", ctx[c] = "live", WithinLimit(c), Accounted(c)
    PROVE  Accounted(c)'
<1>1. /\ UNCHANGED <<tree, op>> /\ Grows(c) /\ Walk' = Walk
      /\ call[c].phase \in {"frameworks", "models"}
      /\ call[c].phase = "models" => op[c] = "detect"
  <2>1. call[c] \in CallType
    BY DEF Core, TypeOK
  <2> QED
    BY <2>1, Progress, CallGrows, SameProject, CallFields DEF Core, ControlInv, CallInv
<1>2. Open(c) = {} /\ Open(c)' = {} /\ EnoughInHand(c)'
  BY <1>1 DEF Open, EnoughInHand
<1>3. ASSUME FrameworksSeen(c)' = FrameworksSeen(c), ModelsSeen(c)' \subseteq ModelsSeen(c)
      PROVE  Accounted(c)'
  BY <1>1, <1>2, <1>3, AccountKept
<1>4. CASE Seen(c)' = Seen(c) /\ SamePhase(c)
  BY <1>1, <1>3, <1>4 DEF FrameworksSeen, ModelsSeen, SamePhase
<1>5. CASE /\ op[c] = "detect" /\ call[c].phase = "frameworks" /\ call'[c].phase = "models"
           /\ call[c].pc = "walk" /\ (Rest(c) = {} \/ filesScanned >= MaxFilesToScan)
           /\ Seen(c)' = {}
  <2>1. Seen(c) = Walk
    BY <1>5, WalkOver
  <2>2. FrameworksSeen(c)' = FrameworksSeen(c) /\ ModelsSeen(c)' = {}
    BY <1>1, <1>5, <2>1 DEF FrameworksSeen, ModelsSeen
  <2> QED
    BY <1>3, <2>2
<1>6. CASE call[c].pc = "visit" /\ SamePhase(c) /\ Seen(c)' = Seen(c) \cup {Here(c)}
  <2>0. PICK i : i = Here(c)
    OBVIOUS
  <2>1. /\ call[c].phase = "frameworks" /\ tree[i].kind \in Code => FrameworksKnown(c, i)'
        /\ (op[c] = "detect" => call[c].phase = "models") /\ IsModel(c, i) => ModelKnown(c, i)'
    BY <1>6, <2>0, VisitAccounts
  <2>2. /\ FrameworksSeen(c)' \subseteq FrameworksSeen(c) \cup (IF call[c].phase = "frameworks" THEN {i} ELSE {})
        /\ ModelsSeen(c)' \subseteq
              ModelsSeen(c) \cup (IF op[c] = "detect" => call[c].phase = "models" THEN {i} ELSE {})
    BY <1>1, <1>6, <2>0 DEF FrameworksSeen, ModelsSeen, SamePhase
  <2>3. \A j \in FrameworksSeen(c)' \ Open(c)' : tree[j].kind \in Code =>
            j \in FrameworksSeen(c) \ Open(c) \/ FrameworksKnown(c, j)'
    BY <1>2, <2>1, <2>2
  <2>4. \A j \in ModelsSeen(c)' \ Open(c)' : IsModel(c, j) =>
            j \in ModelsSeen(c) \ Open(c) \/ ModelKnown(c, j)'
    BY <1>2, <2>1, <2>2
  <2> QED
    BY <1>1, <1>2, <2>3, <2>4, AccountKept
<1> QED
  BY <1>4, <1>5, <1>6, Progress

\* The concurrent scan walks once.
LEMMA OneWalk ==
    ASSUME Core, NEW c \in Caller, op[c] = "concurrent"
    PROVE  call[c].phase = "frameworks" /\ FrameworksSeen(c) = Seen(c) /\ ModelsSeen(c) = Seen(c)
<1>1. call[c] \in CallType
  BY DEF Core, TypeOK
<1>2. call[c].phase = "frameworks"
  BY <1>1, CallFields DEF Core, ControlInv, CallInv
<1> QED
  BY <1>2 DEF FrameworksSeen, ModelsSeen

\* Its caller puts an entry on the channel when it has seen it.
LEMMA AccountSender ==
    ASSUME Core, Core', StoreInv', NEW c \in Caller, CallStep(c),
           op[c] = "concurrent", ctx[c] = "live", Accounted(c)
    PROVE  Accounted(c)'
<1>1. UNCHANGED <<tree, op>> /\ Grows(c)
  BY Progress, CallGrows
<1>2. /\ FrameworksSeen(c) = Seen(c) /\ ModelsSeen(c) = Seen(c)
      /\ FrameworksSeen(c)' = Seen(c)' /\ ModelsSeen(c)' = Seen(c)'
  <2>1. op'[c] = "concurrent"
    BY <1>1
  <2>2. call'[c].phase = "frameworks"
    <3>1. call'[c] \in CallType
      BY Progress DEF OnlyCall
    <3>2. CallInv(c)'
      BY DEF Core, ControlInv
    <3> QED
      BY <2>1, <3>1, <3>2, CallFields DEF CallInv
  <2>3. FrameworksSeen(c)' = Seen(c)' /\ ModelsSeen(c)' = Seen(c)'
    BY <2>1, <2>2 DEF FrameworksSeen, ModelsSeen
  <2> QED
    BY <2>3, OneWalk
<1>3. call'[c].frameworks = call[c].frameworks
  BY CallFrameworks
<1>4. ASSUME worker' = worker PROVE EnoughInHand(c)'
  BY <1>1, <1>3, <1>4 DEF EnoughInHand, Accounted, Busy, KnownIn, Found
<1>5. ASSUME Seen(c)' \ Open(c)' \subseteq Seen(c) \ Open(c), EnoughInHand(c)' PROVE Accounted(c)'
  BY <1>1, <1>2, <1>5, AccountKept
<1>6. CASE Start(c)
  <2>1. /\ Seen(c)' = Seen(c) /\ call[c] = NewCall
        /\ \A w \in Worker : worker'[w].pc = "ready"
    <3>1. /\ tree' = tree /\ call[c].pc = "start" /\ call'[c].pos = call[c].pos /\ call'[c].pc = "walk"
          /\ worker' = [w \in Worker |-> [worker[w] EXCEPT !.pc = "ready"]]
      BY <1>6, StartFacts DEF SamePlace, Core
    <3>2. Seen(c)' = Seen(c)
      BY <3>1, SeenSame
    <3>3. \A w \in Worker : worker'[w].pc = "ready"
      BY <3>1, WorkerFacts DEF WorkerType, Core
    <3> QED
      BY <3>1, <3>2, <3>3 DEF Core, ControlInv, CallInv
  <2>2. Seen(c) = {}
    <3>1. Walk \subseteq Nat \ {0}
      BY WalkFacts, ScenarioFacts DEF Core
    <3>2. call[c].pos = 0
      BY <2>1 DEF NewCall
    <3>3. ASSUME NEW i \in Walk PROVE ~(i < call[c].pos) /\ i # call[c].pos
      BY <3>1, <3>2
    <3> QED
      BY <3>3 DEF Seen
  <2>3. EnoughInHand(c)'
    BY <2>1 DEF EnoughInHand, Busy
  <2> QED
    BY <1>5, <2>1, <2>2, <2>3
<1>7. CASE SendTask(c)
  <2>0. PICK i : i = Here(c)
    OBVIOUS
  <2>1. /\ worker' = worker /\ tasks' = Append(tasks, i) /\ i \in Walk
        /\ call[c].pc = "visit" /\ call'[c].pc = "walk" /\ call'[c].pos = call[c].pos
    BY <1>7, <2>0, SendTaskFacts DEF Core, Proceeds, SamePlace
  <2>2. Seen(c)' = Seen(c) \cup {i}
    BY <1>1, <2>0, <2>1, SeenAfterVisit DEF Here
  <2>3. tasks \in Seq(Entry) /\ i \in Entry
    BY <2>1, WalkFacts DEF Core, TypeOK
  <2>4. Elements(tasks)' = Elements(tasks) \cup {i} /\ InHand' = InHand
    <3>1. Elements(tasks') = Elements(tasks) \cup {i}
      BY <2>1, <2>3, AppendElements
    <3>2. Elements(tasks)' = Elements(tasks')
      BY DEF Elements
    <3> QED
      BY <2>1, <3>1, <3>2 DEF InHand, Busy
  <2>5. Open(c)' = Open(c) \cup {i}
    BY <1>1, <2>4 DEF Open
  <2> QED
    BY <1>4, <1>5, <2>1, <2>2, <2>5
<1>8. CASE ~Start(c) /\ ~SendTask(c)
  <2>1. worker' = worker /\ tasks' = tasks
    BY <1>8, CallWorkers, CallTasks DEF CallStep, NextEntry, VisitAborted, VisitFrameworks, VisitModels,
                                        CloseTasks, Join, VisitCached, StatFile, BeginCount,
                                        RangeVisit, EndCount, DeleteOldest, Store, pool
  <2>2. Open(c)' = Open(c)
    BY <1>1, <2>1 DEF Open, Elements, InHand, Busy
  <2>3. Seen(c)' = Seen(c)
    <3>1. call[c].pc # "visit"
      BY <1>8 DEF CallStep, NextEntry, VisitAborted, VisitFrameworks, VisitModels,
                  CloseTasks, Join, VisitCached, StatFile, BeginCount, RangeVisit, EndCount,
                  DeleteOldest, Store, Storing
    <3> QED
      BY <3>1, Progress
  <2> QED
    BY <1>4, <1>5, <2>1, <2>2, <2>3
<1> QED
  BY <1>6, <1>7, <1>8

\* Only the hands of the worker that steps change.
LEMMA HandsAfter ==
    ASSUME NEW w \in Worker, OnlyWorker(w)
    PROVE  /\ \A i \in InHand : i \in InHand' \/ (w \in Busy /\ i = worker[w].entry)
           /\ w \in Busy' => worker'[w].entry \in InHand'
           /\ \A u \in Busy' \ {w} : u \in Busy /\ worker'[u] = worker[u]
<1>1. \A u \in Worker \ {w} : worker'[u] = worker[u]
  BY DEF OnlyWorker
<1> QED
  BY <1>1 DEF InHand, Busy

\* What the other workers have in hand stays enough.
LEMMA EnoughByWorker ==
    ASSUME Core, Core', StoreInv', UNCHANGED <<tree, op>>, NEW c \in Caller, Grows(c), EnoughInHand(c),
           op[c] = "concurrent", NEW w \in Worker, OnlyWorker(w),
           w \in Busy' /\ tree[worker'[w].entry].kind \in Code =>
               KnownIn(call'[c].frameworks \cup worker'[w].todo, worker'[w].entry)
    PROVE  EnoughInHand(c)'
<1>1. Sound(call'[c].frameworks)
  <2>1. Sound(call[c].frameworks)'
    BY DEF StoreInv
  <2> QED
    BY <2>1 DEF Sound
<1>2. ASSUME NEW u \in Busy' \ {w}, tree[worker'[u].entry].kind \in Code
      PROVE  KnownIn(call'[c].frameworks \cup worker'[u].todo, worker'[u].entry)
  <2>1. u \in Busy /\ worker'[u] = worker[u]
    BY <1>2, HandsAfter
  <2>2. KnownIn(call[c].frameworks \cup worker[u].todo, worker[u].entry)
    BY <1>2, <2>1 DEF EnoughInHand
  <2>3. Sound(worker[u].todo)
    BY <1>2, <2>1 DEF Core, BusyInv, Sound
  <2>4. Sound(call'[c].frameworks \cup worker[u].todo)
    BY <1>1, <2>3, SoundUnion
  <2>5. call[c].frameworks \cup worker[u].todo \subseteq call'[c].frameworks \cup worker[u].todo
    BY DEF Grows
  <2> QED
    BY <2>1, <2>2, <2>4, <2>5, KnownGrows
<1>3. \A u \in Busy' : tree[worker'[u].entry].kind \in Code =>
          KnownIn(call'[c].frameworks \cup worker'[u].todo, worker'[u].entry)
  BY <1>2
<1>4. \A D, i : KnownIn(D, i) <=> Found(D, i) = tree[i].hits \/ Cardinality(D) >= MaxFrameworks
  BY DEF KnownIn
<1>5. \A u \in Busy' : tree'[worker'[u].entry].kind \in Code =>
          \/ Found(call'[c].frameworks \cup worker'[u].todo, worker'[u].entry) = tree'[worker'[u].entry].hits
          \/ Cardinality(call'[c].frameworks \cup worker'[u].todo) >= MaxFrameworks
  BY <1>3, <1>4
<1> QED
  BY <1>5 DEF EnoughInHand, KnownIn, Found

\* The account after the step of a worker that was done with entry i, if any.
LEMMA AccountByWorker ==
    ASSUME Core, Core', StoreInv', NEW w \in Worker, WorkerStep(w), NEW c \in Caller, op[c] = "concurrent",
           Grows(c), Accounted(c), EnoughInHand(c)',
           NEW i, Open(c) \subseteq Open(c)' \cup {i},
           i \in Open(c) \ Open(c)' => /\ tree[i].kind \in Code => FrameworksKnown(c, i)'
                                       /\ IsModel(c, i) => ModelKnown(c, i)'
    PROVE  Accounted(c)'
<1>1. /\ UNCHANGED <<tree, op>> /\ call'[c].pos = call[c].pos /\ call'[c].pc = call[c].pc
      /\ call'[c].phase = call[c].phase
  BY WorkerLeaves
<1>2. Seen(c)' = Seen(c)
  BY <1>1, SeenSame
<1>3. /\ FrameworksSeen(c) = Seen(c) /\ ModelsSeen(c) = Seen(c)
      /\ FrameworksSeen(c)' = Seen(c) /\ ModelsSeen(c)' = Seen(c)
  BY <1>1, <1>2, OneWalk DEF FrameworksSeen, ModelsSeen
<1>4. \A j \in FrameworksSeen(c)' \ Open(c)' : tree[j].kind \in Code =>
          j \in FrameworksSeen(c) \ Open(c) \/ FrameworksKnown(c, j)'
  BY <1>3
<1>5. \A j \in ModelsSeen(c)' \ Open(c)' : IsModel(c, j) =>
          j \in ModelsSeen(c) \ Open(c) \/ ModelKnown(c, j)'
  BY <1>3
<1> QED
  BY <1>1, <1>4, <1>5, AccountKept

LEMMA AccountReceive ==
    ASSUME Core, Core', StoreInv, StoreInv', NEW w \in Worker, Receive(w), NEW c \in Caller,
           c = ConcurrentCall, op[c] = "concurrent", ctx[c] = "live", Accounted(c)
    PROVE  Accounted(c)'
<1>0. /\ UNCHANGED <<tree, op>> /\ w \notin Busy /\ WorkerStep(w) /\ tasks \in Seq(Entry)
      /\ Sound(call[c].frameworks)
  BY ReceiveFacts DEF Core, Busy, WorkerStep, TypeOK, StoreInv
<1>a. Elements(tasks)' = Elements(tasks')
  BY DEF Elements
<1>b. tasks # <<>> => Elements(tasks) = Elements(Tail(tasks)) \cup {Head(tasks)}
  BY <1>0, TailElements
<1>c. Open(c) = Elements(tasks) \cup InHand /\ Open(c)' = Elements(tasks') \cup InHand'
  BY <1>0, <1>a DEF Open
<1>d. ASSUME worker' = worker, call'[c].frameworks = call[c].frameworks PROVE EnoughInHand(c)' /\ InHand' = InHand
  BY <1>0, <1>d DEF EnoughInHand, Accounted, Busy, KnownIn, Found, InHand
<1>1. CASE tasks' = tasks /\ call' = call /\ OnlyWorker(w) /\ worker'[w].pc = "done"
  <2>1. w \notin Busy' /\ InHand \subseteq InHand'
    BY <1>0, <1>1, HandsAfter DEF Busy
  <2>2. Grows(c)
    BY <1>1 DEF Grows
  <2>3. EnoughInHand(c)'
    BY <1>0, <1>1, <2>1, <2>2, EnoughByWorker DEF Accounted
  <2>4. Open(c) \subseteq Open(c)'
    BY <1>1, <1>c, <2>1
  <2> QED
    BY <1>0, <2>2, <2>3, <2>4, AccountByWorker
<1> SUFFICES ASSUME tasks # <<>>, tasks' = Tail(tasks), Head(tasks) \in Entry, ~(ctx[c] # "live")
             PROVE  Accounted(c)'
  BY <1>1, ReceiveFacts DEF Core, WorkerIs
<1> DEFINE i == Head(tasks)
<1> HIDE DEF i
<1>2. CASE /\ tree[i].kind \in {"saved", "model"} \cup Code /\ call' = call /\ OnlyWorker(w)
           /\ worker'[w].pc = "check" /\ worker'[w].entry = i
           /\ worker'[w].todo = IF tree[i].kind \in Code THEN Detections(i, tree[i].hits) ELSE {i}
  <2>1. w \in Busy'
    BY <1>2 DEF Busy
  <2>2. InHand \cup {i} \subseteq InHand'
    BY <1>0, <1>2, <2>1, HandsAfter
  <2>3. Grows(c)
    BY <1>2 DEF Grows
  <2>4. tree[i].kind \in Code => KnownIn(call'[c].frameworks \cup worker'[w].todo, i)
    <3> SUFFICES ASSUME tree[i].kind \in Code
                 PROVE  KnownIn(call[c].frameworks \cup Detections(i, tree[i].hits), i)
      BY <1>2
    <3>1. IsFiniteSet(tree[i].hits)
      BY ScenarioFacts DEF Core, i
    <3>2. Sound(Detections(i, tree[i].hits)) /\ KnownIn(Detections(i, tree[i].hits), i)
      BY <3>1, DetectionsSound DEF KnownIn
    <3> QED
      BY <1>0, <3>2, SoundUnion, KnownGrows
  <2>5. EnoughInHand(c)'
    BY <1>0, <1>2, <2>3, <2>4, EnoughByWorker DEF Accounted
  <2>6. Open(c) \subseteq Open(c)' /\ i \in Open(c)'
    BY <1>b, <1>c, <2>2 DEF i
  <2> QED
    BY <1>0, <2>3, <2>5, <2>6, AccountByWorker
<1>3. CASE /\ tree[i].kind \in Code /\ OnlyCall(c) /\ SameFound(c) /\ worker' = worker
           /\ call'[c].errors = call[c].errors \cup {i}
  <2>1. Grows(c) /\ EnoughInHand(c)' /\ InHand' = InHand
    BY <1>3, <1>d DEF Grows, SameFound
  <2>2. Open(c) \subseteq Open(c)' \cup {i}
    BY <1>b, <1>c, <2>1 DEF i
  <2>3. PICK j : j = i
    OBVIOUS
  <2>4. FrameworksKnown(c, j)' /\ ~IsModel(c, j)
    BY <1>0, <1>3, <2>3, KnownThen DEF IsModel, Code
  <2> QED
    BY <1>0, <2>1, <2>2, <2>3, <2>4, AccountByWorker
<1>4. CASE tree[i].kind \notin {"saved", "model"} \cup Code /\ UNCHANGED <<worker, call>>
  <2>1. Grows(c) /\ EnoughInHand(c)' /\ InHand' = InHand
    BY <1>4, <1>d DEF Grows
  <2>2. Open(c) \subseteq Open(c)' \cup {i}
    BY <1>b, <1>c, <2>1 DEF i
  <2>3. PICK j : j = i
    OBVIOUS
  <2>4. tree[j].kind \notin Code /\ ~IsModel(c, j)
    BY <1>4, <2>3 DEF IsModel
  <2> QED
    BY <1>0, <2>1, <2>2, <2>3, <2>4, AccountByWorker
<1> QED
  BY <1>2, <1>3, <1>4, ReceiveFacts DEF Core, WorkerIs, i

LEMMA AccountCheck ==
    ASSUME Core, Core', StoreInv, StoreInv', OnceInv, NEW w \in Worker, CheckLimit(w), NEW c \in Caller,
           c = ConcurrentCall, op[c] = "concurrent", Accounted(c)
    PROVE  Accounted(c)'
<1> DEFINE D == call[c].frameworks
<1>0. PICK i : i = worker[w].entry
  OBVIOUS
<1>1. /\ UNCHANGED <<tree, op>> /\ call' = call /\ tasks' = tasks /\ worker[w].pc = "check"
      /\ OnlyWorker(w) /\ WorkerStep(w)
  BY CheckLimitFacts DEF Core, WorkerStep
<1>2. PICK todo : /\ worker'[w].pc = (IF todo = {} THEN "ready" ELSE "add")
                  /\ worker'[w].entry = i /\ worker'[w].todo = todo
                  /\ \/ /\ tree[i].kind = "notebook"
                        /\ todo \in Admitted("notebook", worker[w].todo, Room(D, MaxFrameworks))
                     \/ /\ tree[i].kind = "python"
                        /\ todo = IF Room(D, MaxFrameworks) = 0 THEN {} ELSE worker[w].todo
                     \/ /\ tree[i].kind \in {"saved", "model"}
                        /\ todo = IF Cardinality(call[c].models) < MaxModels THEN worker[w].todo ELSE {}
  BY <1>0, CheckLimitFacts DEF Core, WorkerIs
<1>3. /\ w \in Busy /\ IsFiniteSet(worker[w].todo)
      /\ tree[i].kind \notin Code => worker[w].todo = {i}
      /\ tree[i].kind \in Code => \A d \in worker[w].todo : d.entry = i
  BY <1>0, <1>1 DEF Busy, Core, BusyInv
<1>4. /\ Sound(D) /\ IsFiniteSet(D) /\ Cardinality(D) \in Nat /\ MaxFrameworks \in Nat /\ MaxModels \in Nat
      /\ Cardinality(call[c].models) \in Nat
  BY FS_CardinalityType, ModelsFacts, LimitsAssumption DEF StoreInv, Sound
<1>5. Open(c) \subseteq Open(c)' \cup {i} /\ (todo # {} => i \in Open(c)')
  <2>1. InHand \subseteq InHand' \cup {i} /\ (todo # {} => i \in InHand')
    BY <1>0, <1>1, <1>2, HandsAfter DEF Busy
  <2> QED
    BY <1>1, <2>1 DEF Open, Elements
<1>6. tree[i].kind \in Code => KnownIn(D \cup todo, i)
  <2>0. KnownIn(D \cup worker[w].todo, i) \/ tree[i].kind \notin Code
    BY <1>0, <1>3 DEF Accounted, EnoughInHand
  <2>1. CASE tree[i].kind = "notebook"
    <3>1. todo \in Admitted("notebook", worker[w].todo, Room(D, MaxFrameworks)) /\ "notebook" \in Code
      BY <1>2, <2>1 DEF Code
    <3>2. /\ todo \subseteq worker[w].todo /\ IsFiniteSet(todo)
          /\ todo = worker[w].todo \/ Cardinality(D) + Cardinality(todo) >= MaxFrameworks
      BY <1>3, <1>4, <3>1, AdmittedSize
    <3>3. D \cap todo = {}
      <4>1. NotebookAtCheck(i)
        BY <1>0, <1>1, <2>1 DEF NotebookAtCheck
      <4>2. \A d \in D : d.entry # i
        BY <4>1 DEF OnceInv
      <4> QED
        BY <1>3, <2>1, <3>2, <4>2 DEF Code
    <3>4. Cardinality(D \cup todo) = Cardinality(D) + Cardinality(todo)
      BY <1>4, <3>2, <3>3, LargeUnion
    <3> QED
      BY <2>0, <3>2, <3>4 DEF KnownIn
  <2>2. CASE tree[i].kind = "python"
    <3>1. Room(D, MaxFrameworks) = 0 => Cardinality(D) >= MaxFrameworks
      BY <1>4 DEF Room
    <3>2. CASE Room(D, MaxFrameworks) = 0
      <4>1. D \cup todo = D
        BY <1>2, <2>2, <3>2
      <4> QED
        BY <3>1, <3>2, <4>1 DEF KnownIn
    <3>3. CASE Room(D, MaxFrameworks) # 0
      BY <1>2, <2>0, <2>2, <3>3
    <3> QED
      BY <3>2, <3>3
  <2> QED
    BY <2>1, <2>2 DEF Code
<1>7. Grows(c)
  BY <1>1 DEF Grows
<1>8. EnoughInHand(c)'
  BY <1>1, <1>2, <1>6, <1>7, EnoughByWorker DEF Accounted
<1>9. todo = {} => /\ tree[i].kind \in Code => FrameworksKnown(c, i)'
                   /\ IsModel(c, i) => ModelKnown(c, i)'
  <2>1. todo = {} /\ tree[i].kind \in Code => FrameworksKnown(c, i)'
    <3>1. todo = {} => D \cup todo = D
      OBVIOUS
    <3> QED
      BY <1>1, <1>6, <3>1, KnownThen
  <2>2. todo = {} /\ IsModel(c, i) => Cardinality(call[c].models) >= MaxModels
    BY <1>2, <1>3, <1>4 DEF IsModel, Code
  <2> QED
    BY <1>1, <2>1, <2>2, KnownThen
<1> QED
  BY <1>1, <1>5, <1>7, <1>8, <1>9, AccountByWorker

LEMMA AccountAdd ==
    ASSUME Core, Core', StoreInv, StoreInv', NEW w \in Worker, Add(w), NEW c \in Caller,
           c = ConcurrentCall, op[c] = "concurrent", Accounted(c)
    PROVE  Accounted(c)'
<1> DEFINE D == call[c].frameworks
<1>0. PICK i : i = worker[w].entry
  OBVIOUS
<1>1. /\ UNCHANGED <<tree, op>> /\ OnlyCall(c) /\ tasks' = tasks /\ worker[w].pc = "add"
      /\ OnlyWorker(w) /\ WorkerStep(w) /\ call'[c].errors = call[c].errors
  BY AddFacts DEF Core, WorkerStep
<1>2. PICK x \in worker[w].todo :
          /\ worker'[w].pc = (IF worker[w].todo \ {x} = {} THEN "ready"
                              ELSE IF tree[i].kind = "python" THEN "check" ELSE "add")
          /\ worker'[w].entry = i /\ worker'[w].todo = worker[w].todo \ {x}
          /\ \/ /\ tree[i].kind \in Code /\ call'[c].frameworks = D \cup {x}
                /\ call'[c].models = call[c].models
             \/ /\ tree[i].kind \notin Code /\ call'[c].frameworks = D
                /\ call'[c].models = call[c].models \cup {x}
  BY <1>0, AddFacts DEF Core, WorkerIs
<1>3. w \in Busy /\ (tree[i].kind \notin Code => worker[w].todo = {i})
  BY <1>0, <1>1 DEF Busy, Core, BusyInv
<1>4. Open(c) \subseteq Open(c)' \cup {i} /\ (worker'[w].todo # {} => i \in Open(c)')
  <2>1. InHand \subseteq InHand' \cup {i} /\ (worker'[w].todo # {} => i \in InHand')
    BY <1>0, <1>1, <1>2, HandsAfter DEF Busy
  <2> QED
    BY <1>1, <2>1 DEF Open, Elements
<1>5. tree[i].kind \in Code => KnownIn(call'[c].frameworks \cup worker'[w].todo, i)
  <2>1. tree[i].kind \in Code => KnownIn(D \cup worker[w].todo, i)
    BY <1>0, <1>3 DEF Accounted, EnoughInHand
  <2>2. tree[i].kind \in Code => call'[c].frameworks \cup worker'[w].todo = D \cup worker[w].todo
    BY <1>2
  <2> QED
    BY <2>1, <2>2
<1>6. Grows(c)
  BY <1>1, <1>2 DEF Grows
<1>7. EnoughInHand(c)'
  BY <1>1, <1>2, <1>5, <1>6, EnoughByWorker DEF Accounted
<1>8. worker'[w].todo = {} => /\ tree[i].kind \in Code => FrameworksKnown(c, i)'
                              /\ IsModel(c, i) => ModelKnown(c, i)'
  <2>1. worker'[w].todo = {} /\ tree[i].kind \in Code => FrameworksKnown(c, i)'
    <3>1. worker'[w].todo = {} => call'[c].frameworks \cup worker'[w].todo = call'[c].frameworks
      OBVIOUS
    <3> QED
      BY <1>1, <1>5, <3>1, KnownThen
  <2>2. IsModel(c, i) => i \in call'[c].models
    BY <1>2, <1>3 DEF IsModel, Code
  <2> QED
    BY <1>1, <2>1, <2>2, KnownThen
<1> QED
  BY <1>1, <1>4, <1>6, <1>7, <1>8, AccountByWorker

LEMMA AccountSame ==
    ASSUME UNCHANGED <<tree, op, call, tasks, worker>>, NEW c \in Caller, Accounted(c)
    PROVE  Accounted(c)'
<1>1. Seen(c)' = Seen(c) /\ Walk' = Walk
  BY SeenSame, SameProject
<1>2. FrameworksSeen(c)' = FrameworksSeen(c) /\ ModelsSeen(c)' = ModelsSeen(c)
  BY <1>1 DEF FrameworksSeen, ModelsSeen
<1>3. Open(c)' = Open(c)
  BY DEF Open, Elements, InHand, Busy
<1>4. EnoughInHand(c)' <=> EnoughInHand(c)
  BY DEF EnoughInHand, Busy, KnownIn, Found
<1>5. \A i : (FrameworksKnown(c, i)' <=> FrameworksKnown(c, i)) /\ (ModelKnown(c, i)' <=> ModelKnown(c, i))
  BY DEF FrameworksKnown, ModelKnown, KnownIn, Found
<1>6. \A i : IsModel(c, i)' <=> IsModel(c, i)
  BY DEF IsModel
<1> QED
  BY <1>2, <1>3, <1>4, <1>5, <1>6 DEF Accounted

LEMMA AccountNext ==
    ASSUME Core, Core', StoreInv, StoreInv', CountInv, OnceInv, AccountInv, [Next]_vars
    PROVE  AccountInv'
<1> SUFFICES ASSUME NEW c \in Caller, ctx'[c] = "live", WithinLimit(c)'
             PROVE  Accounted(c)'
  BY DEF AccountInv
<1>0. /\ UNCHANGED <<tree, op>> /\ ctx[c] = "live"
  <2>1. ASSUME NEW d \in Caller, CallStep(d) PROVE UNCHANGED <<tree, op, ctx>>
    BY <2>1, Progress
  <2>2. ASSUME NEW d \in Caller, Cancel(d) PROVE UNCHANGED <<tree, op>> /\ ctx[c] = "live"
    BY <2>2, CancelFacts DEF Core
  <2>3. ASSUME NEW w \in Worker, WorkerStep(w) PROVE UNCHANGED <<tree, op, ctx>>
    BY <2>3, WorkerLeaves
  <2>4. ASSUME NEW i \in Entry, Edit(i) PROVE UNCHANGED <<tree, op, ctx>>
    BY <2>4, EditFacts DEF Core
  <2>5. CASE UNCHANGED vars
    BY <2>5 DEF vars, input
  <2> QED
    BY <2>1, <2>2, <2>3, <2>4, <2>5 DEF Next
<1>1. WithinLimit(c) /\ Lone(c)
  <2>1. Walk' = Walk
    BY <1>0, SameProject
  <2>2. {i \in Walk : IsFile(i)}' = {i \in Walk : IsFile(i)}
    BY <1>0, <2>1 DEF IsFile
  <2>3. WithinLimit(c)
    BY <1>0, <2>2 DEF WithinLimit
  <2> QED
    BY <2>3 DEF WithinLimit, Lone
<1>2. Accounted(c)
  BY <1>0, <1>1 DEF AccountInv
<1>3. ASSUME CallStep(c) PROVE Accounted(c)'
  BY <1>0, <1>1, <1>2, <1>3, AccountAlone, AccountSender
<1>4. ASSUME NEW w \in Worker, WorkerStep(w) PROVE Accounted(c)'
  <2>1. c = ConcurrentCall /\ op[c] = "concurrent"
    BY <1>1, <1>4, LoneSteps
  <2> QED
    BY <1>0, <1>2, <1>4, <2>1, AccountReceive, AccountCheck, AccountAdd DEF WorkerStep
<1>5. ASSUME UNCHANGED <<tree, op, call, tasks, worker>> PROVE Accounted(c)'
  BY <1>2, <1>5, AccountSame
<1>6. ASSUME NEW d \in Caller, Cancel(d) PROVE Accounted(c)'
  BY <1>5, <1>6, CancelFacts DEF Core
<1>7. ASSUME NEW i \in Entry, Edit(i) PROVE Accounted(c)'
  BY <1>5, <1>7, EditFacts DEF Core
<1>8. CASE UNCHANGED vars
  BY <1>5, <1>8 DEF vars, input, pool
<1> QED
  BY <1>1, <1>3, <1>4, <1>6, <1>7, <1>8, LoneSteps DEF Next

-----------------------------------------------------------------------------
(* The end of a scan.                                                      *)

EndInv ==
    \A c \in Caller :
        /\ call[c].pc \in {"start", "walk", "visit", "stat", "store"} => call[c].status = "none"
        /\ ctx[c] = "live" /\ call[c].status = "ok" /\ WithinLimit(c) =>
              Seen(c) = Walk /\ (op[c] = "detect" => call[c].phase = "models")

LEMMA WithinLimitSame ==
    ASSUME UNCHANGED <<tree, op>>, NEW c \in Caller
    PROVE  WithinLimit(c)' <=> WithinLimit(c)
<1>1. Walk' = Walk
  BY SameProject
<1>2. {i \in Walk : IsFile(i)}' = {i \in Walk : IsFile(i)}
  BY <1>1 DEF IsFile
<1> QED
  BY <1>2 DEF WithinLimit

\* A step of the call of c: it goes on, or it is over.
LEMMA CallEnds ==
    ASSUME Core, NEW c \in Caller, CallStep(c)
    PROVE  \/ /\ call'[c].status = call[c].status /\ call'[c].pc # "returned"
              /\ call[c].pc \in {"start", "walk", "visit", "stat", "store"}
           \/ call'[c].status = "error" /\ call'[c].pc = "returned" /\ ctx[c] # "live"
           \/ call'[c].pc \in {"returned", "walked"} /\ ctx[c] # "live"
           \/ /\ call'[c].status = "ok" /\ call[c].pc = "walk" /\ SamePlace(c)
              /\ ~(op[c] = "detect" /\ call[c].phase = "frameworks")
              /\ call'[c].pc = IF op[c] = "concurrent" THEN "walked" ELSE "returned"
              /\ Rest(c) = {} \/ filesScanned >= MaxFilesToScan
           \/ /\ call'[c].status = call[c].status /\ SamePlace(c) /\ op[c] = "concurrent"
              /\ \/ call[c].pc = "walked" /\ call'[c].pc = "waiting"
                 \/ call[c].pc = "waiting" /\ call'[c].pc = "returned" /\ Join(c)
<1> USE DEF Core
<1>1. CASE Start(c)
  BY <1>1, StartFacts
<1>2. CASE NextEntry(c)
  BY <1>2, NextEntryFacts DEF Abandoned
<1>3. CASE VisitAborted(c)
  BY <1>3, VisitAbortedFacts DEF Abandoned
<1>4. CASE VisitFrameworks(c)
  BY <1>4, VisitFrameworksFacts DEF Proceeds
<1>5. CASE VisitModels(c)
  BY <1>5, VisitModelsFacts DEF Proceeds
<1>6. CASE SendTask(c)
  BY <1>6, SendTaskFacts DEF Proceeds
<1>7. CASE CloseTasks(c)
  BY <1>7, CloseTasksFacts
<1>8. CASE Join(c)
  BY <1>8, JoinFacts
<1>9. CASE VisitCached(c)
  BY <1>9, VisitCachedFacts DEF Proceeds
<1>10. CASE StatFile(c)
  BY <1>10, StatFileFacts
<1>11. CASE Store(c)
  BY <1>11, StoreFacts DEF Proceeds
<1>12. CASE MakesRoom(c)
  BY <1>12, MakesRoomFacts
<1> QED
  BY <1>1, <1>2, <1>3, <1>4, <1>5, <1>6, <1>7, <1>8, <1>9, <1>10, <1>11, <1>12 DEF CallStep, MakesRoom

\* Where a call goes on to.
LEMMA CallGoesOn ==
    ASSUME Core, NEW c \in Caller, CallStep(c),
           call'[c].pc \in {"start", "walk", "visit", "stat", "store"}
    PROVE  call[c].pc \in {"start", "walk", "visit", "stat", "store"} /\ call'[c].status = call[c].status
BY CallEnds

LEMMA EndNext ==
    ASSUME Core, CountInv, EndInv, [Next]_vars
    PROVE  EndInv'
<1> DEFINE Ended(c) ==
        /\ call'[c].pc \in {"start", "walk", "visit", "stat", "store"} => call'[c].status = "none"
        /\ ctx'[c] = "live" /\ call'[c].status = "ok" /\ WithinLimit(c) =>
              Seen(c)' = Walk /\ (op[c] = "detect" => call'[c].phase = "models")
<1>a. UNCHANGED <<tree, op>> /\ (\A c \in Caller : Ended(c)) => EndInv'
  BY WithinLimitSame, SameProject DEF EndInv
<1>b. ASSUME UNCHANGED <<tree, op>>, NEW c \in Caller, ctx'[c] = "live" => ctx[c] = "live",
             call'[c].pc = call[c].pc, call'[c].pos = call[c].pos,
             call'[c].phase = call[c].phase, call'[c].status = call[c].status
      PROVE  Ended(c)
  <2>1. Seen(c)' = Seen(c)
    BY <1>b, SeenSame
  <2> QED
    BY <1>b, <2>1 DEF EndInv
<1>1. ASSUME NEW c \in Caller, CallStep(c) PROVE EndInv'
  <2>0. UNCHANGED <<tree, op, ctx>> /\ OnlyCall(c) /\ op[c] # "none"
    BY <1>1, Progress
  <2>1. ASSUME NEW d \in Caller, d # c PROVE Ended(d)
    BY <1>b, <2>0, <2>1 DEF OnlyCall
  <2>2. call'[c].pc \in {"start", "walk", "visit", "stat", "store"} => call'[c].status = "none"
    BY <1>1, CallGoesOn DEF EndInv
  <2>3. ASSUME ctx[c] = "live", call'[c].status = "ok", WithinLimit(c)
        PROVE  Seen(c)' = Walk /\ (op[c] = "detect" => call'[c].phase = "models")
    <3>1. CASE /\ call'[c].status = call[c].status
               /\ call[c].pc \in {"start", "walk", "visit", "stat", "store"}
      BY <2>3, <3>1 DEF EndInv
    <3>2. CASE /\ call'[c].status = "ok" /\ call[c].pc = "walk" /\ SamePlace(c)
               /\ ~(op[c] = "detect" /\ call[c].phase = "frameworks")
               /\ call'[c].pc \in {"walked", "returned"}
               /\ Rest(c) = {} \/ filesScanned >= MaxFilesToScan
      <4>1. Seen(c) = Walk
        BY <2>0, <2>3, <3>2, WalkOver
      <4>2. Seen(c)' = Seen(c)
        BY <2>0, <3>2, SeenSame DEF SamePlace
      <4>3. call[c] \in CallType
        BY DEF Core, TypeOK
      <4>4. op[c] = "detect" => call[c].phase = "models"
        BY <3>2, <4>3, CallFields
      <4> QED
        BY <3>2, <4>1, <4>2, <4>4 DEF SamePlace
    <3>3. CASE /\ call'[c].status = call[c].status /\ SamePlace(c)
               /\ call[c].pc \in {"walked", "waiting"} /\ call'[c].pc \in {"waiting", "returned"}
      <4>1. Seen(c)' = Seen(c)
        BY <2>0, <3>3, SeenSame DEF SamePlace
      <4> QED
        BY <2>3, <3>3, <4>1 DEF EndInv, SamePlace
    <3> QED
      BY <1>1, <2>3, <3>1, <3>2, <3>3, CallEnds
  <2>4. Ended(c)
    BY <2>0, <2>2, <2>3
  <2> QED
    BY <1>a, <2>0, <2>1, <2>4
<1>2. ASSUME NEW w \in Worker, WorkerStep(w) PROVE EndInv'
  <2>1. /\ UNCHANGED <<tree, op, ctx>>
        /\ \A c \in Caller : /\ call'[c].pc = call[c].pc /\ call'[c].pos = call[c].pos
                             /\ call'[c].phase = call[c].phase /\ call'[c].status = call[c].status
    BY <1>2, WorkerLeaves
  <2> QED
    BY <1>a, <1>b, <2>1
<1>3. ASSUME NEW d \in Caller, Cancel(d) PROVE EndInv'
  <2>1. UNCHANGED <<tree, op, call>> /\ \A c \in Caller : ctx'[c] = "live" => ctx[c] = "live"
    BY <1>3, CancelFacts DEF Core
  <2> QED
    BY <1>a, <1>b, <2>1
<1>4. ASSUME NEW i \in Entry, Edit(i) PROVE EndInv'
  <2>1. UNCHANGED <<tree, op, call, ctx>>
    BY <1>4, EditFacts DEF Core
  <2> QED
    BY <1>a, <1>b, <2>1
<1>5. CASE UNCHANGED vars
  <2>1. UNCHANGED <<tree, op, call, ctx>>
    BY <1>5 DEF vars, input
  <2> QED
    BY <1>a, <1>b, <2>1
<1> QED
  BY <1>1, <1>2, <1>3, <1>4, <1>5 DEF Next

\* A worker of an undisturbed scan leaves when the closed channel is empty,
\* and the scan waits for it.
DoneInv ==
    \A c \in Caller : ctx[c] = "live" /\ op[c] = "concurrent" =>
        /\ \A w \in Worker : worker[w].pc = "done" => closed /\ tasks = <<>>
        /\ call[c].pc = "returned" /\ call[c].status = "ok" => \A w \in Worker : worker[w].pc = "done"

LEMMA DoneNext ==
    ASSUME Core, DoneInv, [Next]_vars
    PROVE  DoneInv'
<1> DEFINE Done(c) == ctx'[c] = "live" /\ op[c] = "concurrent" =>
        /\ \A w \in Worker : worker'[w].pc = "done" => closed' /\ tasks' = <<>>
        /\ call'[c].pc = "returned" /\ call'[c].status = "ok" => \A w \in Worker : worker'[w].pc = "done"
<1>a. op' = op /\ (\A c \in Caller : Done(c)) => DoneInv'
  BY DEF DoneInv
<1>b. ASSUME NEW c \in Caller, ctx'[c] = "live" => ctx[c] = "live", UNCHANGED <<tasks, closed, worker>>,
             call'[c].pc = call[c].pc, call'[c].status = call[c].status
      PROVE  Done(c)
  BY <1>b DEF DoneInv
<1>1. ASSUME NEW c \in Caller, CallStep(c) PROVE DoneInv'
  <2>0. UNCHANGED <<op, ctx>> /\ OnlyCall(c)
    BY <1>1, Progress
  <2>1. ASSUME NEW d \in Caller, d # c PROVE Done(d)
    <3>1. call'[d] = call[d]
      BY <2>0, <2>1 DEF OnlyCall
    <3>2. op[d] = "concurrent" => UNCHANGED <<tasks, closed>>
          /\ (worker' = worker \/ \A w \in Worker : worker'[w].pc = "ready")
      BY <1>1, <2>1, CallTasks, CallWorkers, ScenarioFacts DEF Core
    <3>3. op[d] = "concurrent" => worker' = worker
      <4>1. op[d] = "concurrent" => op[c] # "concurrent"
        BY <2>1, ScenarioFacts DEF Core
      <4> QED
        BY <1>1, <4>1, CallWorkers
    <3> QED
      BY <1>b, <2>0, <3>1, <3>2, <3>3
  <2>2. Done(c)
    <3> SUFFICES ASSUME ctx[c] = "live", op[c] = "concurrent"
                 PROVE  /\ \A w \in Worker : worker'[w].pc = "done" => closed' /\ tasks' = <<>>
                        /\ call'[c].pc = "returned" /\ call'[c].status = "ok" =>
                              \A w \in Worker : worker'[w].pc = "done"
      BY <2>0
    <3>1. \A w \in Worker : worker[w].pc = "done" => closed /\ tasks = <<>>
      BY DEF DoneInv
    <3>2. SendTask(c) => ~closed
      BY SendTaskFacts DEF Core, ControlInv, CallInv
    <3>3. closed' = closed \/ closed' = TRUE
      BY <1>1, CallTasks, CloseTasksFacts DEF Core
    <3>4. worker' = worker \/ \A w \in Worker : worker'[w].pc = "ready"
      BY <1>1, CallWorkers
    <3>5. \A w \in Worker : worker'[w].pc = "done" => closed' /\ tasks' = <<>>
      BY <1>1, <3>1, <3>2, <3>3, <3>4, CallTasks
    <3>6. ASSUME call'[c].pc = "returned", call'[c].status = "ok"
          PROVE  \A w \in Worker : worker'[w].pc = "done"
      <4>1. Join(c)
        BY <1>1, <3>6, CallEnds
      <4> QED
        BY <4>1, JoinFacts DEF Core
    <3> QED
      BY <3>5, <3>6
  <2> QED
    BY <1>a, <2>0, <2>1, <2>2
<1>2. ASSUME NEW w \in Worker, WorkerStep(w) PROVE DoneInv'
  <2>0. /\ UNCHANGED <<op, ctx, closed>> /\ worker[w].pc \in {"ready", "check", "add"}
        /\ \A c \in Caller : call'[c].pc = call[c].pc /\ call'[c].status = call[c].status
    BY <1>2, WorkerLeaves, ReceiveFacts, CheckLimitFacts, AddFacts DEF WorkerStep, Core
  <2> SUFFICES ASSUME NEW c \in Caller, ctx[c] = "live", op[c] = "concurrent"
               PROVE  /\ \A u \in Worker : worker'[u].pc = "done" => closed /\ tasks' = <<>>
                      /\ ~(call[c].pc = "returned" /\ call[c].status = "ok")
    BY <1>a, <2>0
  <2>1. ~(call[c].pc = "returned" /\ call[c].status = "ok")
    BY <2>0 DEF DoneInv
  <2>2. \A u \in Worker : worker[u].pc = "done" => closed /\ tasks = <<>>
    BY DEF DoneInv
  <2>3. c = ConcurrentCall
    BY TheConcurrentCall DEF Core
  <2>4. \/ tasks' = tasks /\ closed /\ tasks = <<>>
        \/ /\ tasks' = tasks \/ tasks # <<>>
           /\ worker' = worker \/ (OnlyWorker(w) /\ worker'[w].pc # "done")
    BY <1>2, <2>3, ReceiveFacts, CheckLimitFacts, AddFacts DEF WorkerStep, Core, WorkerIs
  <2>5. \A u \in Worker : worker'[u].pc = "done" => closed /\ tasks' = <<>>
    BY <2>2, <2>4 DEF OnlyWorker
  <2> QED
    BY <2>1, <2>5
<1>3. ASSUME NEW d \in Caller, Cancel(d) PROVE DoneInv'
  <2>1. UNCHANGED <<op, call, tasks, closed, worker>> /\ \A c \in Caller : ctx'[c] = "live" => ctx[c] = "live"
    BY <1>3, CancelFacts DEF Core
  <2> QED
    BY <1>a, <1>b, <2>1
<1>4. ASSUME NEW i \in Entry, Edit(i) PROVE DoneInv'
  <2>1. UNCHANGED <<op, ctx, call, tasks, closed, worker>>
    BY <1>4, EditFacts DEF Core
  <2> QED
    BY <1>a, <1>b, <2>1
<1>5. CASE UNCHANGED vars
  <2>1. UNCHANGED <<op, ctx, call, tasks, closed, worker>>
    BY <1>5 DEF vars, input, pool
  <2> QED
    BY <1>a, <1>b, <2>1
<1> QED
  BY <1>1, <1>2, <1>3, <1>4, <1>5 DEF Next

-----------------------------------------------------------------------------
(* The result.                                                             *)

ScanInv == StoreInv /\ CountInv /\ QueueInv /\ OnceInv /\ AccountInv /\ EndInv /\ DoneInv

LEMMA ScanInit == Init => ScanInv
<1> SUFFICES ASSUME Init PROVE ScanInv
  OBVIOUS
<1>1. Core
  BY InitCore
<1>2. /\ \A c \in Caller : call[c] = NewCall
      /\ DOMAIN cache = {} /\ tasks = <<>> /\ filesScanned = 0
      /\ \A w \in Worker : worker[w].pc = "idle"
  BY DEF Init
<1>3. ASSUME NEW c \in Caller PROVE Seen(c) = {} /\ call[c].pos = 0
  <2>1. Walk \subseteq Nat \ {0} /\ call[c].pos = 0
    BY <1>1, <1>2, WalkFacts, ScenarioFacts DEF Core, NewCall
  <2>2. ASSUME NEW i \in Walk PROVE ~(i < call[c].pos) /\ i # call[c].pos
    BY <2>1
  <2> QED
    BY <2>1, <2>2 DEF Seen
<1>4. StoreInv
  <2>1. Sound({})
    BY FS_EmptySet DEF Sound
  <2>2. \A c \in Caller : call[c].frameworks = {} /\ call[c].pc = "start"
    BY <1>2 DEF NewCall
  <2> QED
    BY <1>2, <2>1, <2>2 DEF StoreInv
<1>5. CountInv
  <2> SUFFICES ASSUME NEW c \in Caller PROVE filesScanned <= Cardinality(SeenFiles(c)) + FirstWalk(c)
    BY DEF CountInv
  <2>1. FirstWalk(c) = 0
    BY <1>2 DEF FirstWalk, NewCall
  <2> QED
    BY <1>1, <1>2, <2>1, FilesFacts
<1>6. Elements(tasks) = {} /\ Distinct(tasks) /\ Busy = {} /\ InHand = {}
  BY <1>2 DEF Elements, Distinct, Busy, InHand
<1>7. QueueInv
  BY <1>6 DEF QueueInv
<1>8. OnceInv
  BY <1>2 DEF OnceInv, NewCall
<1>9. AccountInv
  <2>1. ASSUME NEW c \in Caller PROVE FrameworksSeen(c) = {} /\ ModelsSeen(c) = {}
    BY <1>2, <1>3, <2>1 DEF FrameworksSeen, ModelsSeen, NewCall
  <2> QED
    BY <1>6, <2>1 DEF AccountInv, Accounted, EnoughInHand
<1>10. EndInv
  BY <1>2 DEF EndInv, NewCall
<1>11. DoneInv
  BY <1>2 DEF DoneInv, NewCall
<1> QED
  BY <1>4, <1>5, <1>7, <1>8, <1>9, <1>10, <1>11 DEF ScanInv

LEMMA ScanInvariant == Spec => []ScanInv
<1>1. ScanInv <=> StoreInv /\ CountInv /\ QueueInv /\ OnceInv /\ AccountInv /\ EndInv /\ DoneInv
  BY DEF ScanInv
<1>2. Core /\ ScanInv /\ [Next]_vars => ScanInv'
  <2> SUFFICES ASSUME Core, ScanInv, [Next]_vars PROVE ScanInv'
    OBVIOUS
  <2>1. StoreInv /\ CountInv /\ QueueInv /\ OnceInv /\ AccountInv /\ EndInv /\ DoneInv
    BY DEF ScanInv
  <2>2. Core' /\ StoreInv'
    BY <2>1, CoreNext, StoreNext
  <2>3. CountInv' /\ QueueInv' /\ OnceInv'
    BY <2>1, CountNext, QueueNext, OnceNext
  <2>4. AccountInv' /\ EndInv' /\ DoneInv'
    BY <2>1, <2>2, AccountNext, EndNext, DoneNext
  <2> QED
    BY <2>2, <2>3, <2>4 DEF ScanInv
<1> QED
  BY <1>2, ScanInit, CoreInvariant, PTL DEF Spec

\* A scan that nobody interrupted and that stayed below the file limit has
\* everything of every entry it had to look at in its result, or says that it
\* has not: however the workers shared the entries, and whichever of them
\* found the limits reached.
THEOREM ScanComplete == Spec => []ResultComplete
<1>1. Core /\ ScanInv => ResultComplete
  <2> SUFFICES ASSUME Core, ScanInv, NEW c \in Caller, call[c].pc = "returned", call[c].status = "ok",
                      ctx[c] = "live", WithinLimit(c), NEW i \in Walk
               PROVE  /\ tree[i].kind \in Code =>
                            \/ Found(call[c].frameworks, i) = tree[i].hits \/ i \in call[c].errors
                            \/ Cardinality(call[c].frameworks) >= MaxFrameworks
                      /\ tree[i].kind = "model" \/ (tree[i].kind = "saved" /\ op[c] # "cached") =>
                            i \in call[c].models \/ Cardinality(call[c].models) >= MaxModels
    BY DEF ResultComplete
  <2>1. Seen(c) = Walk /\ (op[c] = "detect" => call[c].phase = "models")
    BY DEF ScanInv, EndInv
  <2>2. FrameworksSeen(c) = Walk /\ ModelsSeen(c) = Walk
    BY <2>1 DEF FrameworksSeen, ModelsSeen
  <2>3. Open(c) = {}
    <3>1. CASE op[c] = "concurrent"
      <4>1. (\A w \in Worker : worker[w].pc = "done") /\ tasks = <<>>
        BY <3>1, PoolAssumption DEF ScanInv, DoneInv
      <4> QED
        BY <4>1 DEF Open, Elements, InHand, Busy
    <3> QED
      BY <3>1 DEF Open
  <2>4. Accounted(c)
    BY DEF ScanInv, AccountInv
  <2> QED
    BY <2>2, <2>3, <2>4 DEF Accounted, FrameworksKnown, ModelKnown, IsModel, KnownIn
<1> QED
  BY <1>1, CoreInvariant, ScanInvariant, PTL
=============================================================================
