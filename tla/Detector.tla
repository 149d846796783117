------------------------------ MODULE Detector ------------------------------
(***************************************************************************)
(* internal/ml: the three scans of one Detector.  Detect walks the project *)
(* twice, for frameworks and for models; DetectConcurrent walks it once    *)
(* and hands the entries to workers; DetectWithCache keeps what it found   *)
(* in a file for as long as the file's modification time does not change.  *)
(* Callers share the file counter and the cache.  A file is what it holds: *)
(* a kind and the frameworks its patterns match.                           *)
(***************************************************************************)
EXTENDS Naturals, Sequences, FiniteSets

CONSTANTS
    Caller,             \* goroutines that call the detector
    Worker,             \* the worker pool of DetectConcurrent
    Framework,          \* what patterns detect; for a notebook "framework:cell"
    Scenarios,          \* projects, in the order of the walk, and who scans them how
    MaxFilesToScan, MaxDepth, MaxModels, MaxFrameworks, MaxCacheEntries,
    TaskBuffer,         \* capacity of taskChan
    MaxEdits            \* bound: modification times of edits during the scans

Dirs == {"dir", "saved"}
Code == {"python", "notebook"}
Kind == Dirs \cup Code \cup {"model", "other"}

ASSUME PoolAssumption == IsFiniteSet(Worker) /\ Worker # {} /\ IsFiniteSet(Caller) /\ IsFiniteSet(Framework)
ASSUME LimitsAssumption ==
    {MaxFilesToScan, MaxDepth, MaxModels, MaxFrameworks, MaxCacheEntries, TaskBuffer} \subseteq Nat \ {0}
\* The channel and the workers modelled are those of one DetectConcurrent.
ASSUME ScenariosAssumption ==
    \A s \in Scenarios :
        /\ s.tree \in Seq([kind : Kind, hits : SUBSET Framework, depth : Nat, skipped : BOOLEAN])
        /\ s.op \in [Caller -> {"none", "detect", "concurrent", "cached"}]
        /\ \A c, d \in Caller : s.op[c] = "concurrent" /\ s.op[d] = "concurrent" => c = d

VARIABLES
    tree,               \* the project: its entries, a directory before its contents
    op,                 \* op[c]: the scan of caller c
    ctx,                \* ctx[c]: "live", "canceled" or "deadline"
    modTime,            \* modTime[i]: modification time of entry i
    filesScanned,       \* d.filesScanned
    cache,              \* d.cache: entries by path
    making,             \* making[c]: how SetCacheEntry makes room for the entry of c
    disturbed,          \* history: callers in whose SetCacheEntry another one changed the cache
    overlaps,           \* history: how many entries were stored by a disturbed caller
    call,               \* call[c]: where the scan is and its result
    tasks, closed,      \* taskChan
    worker              \* worker[w]: a worker of DetectConcurrent

input == <<tree, op>>
pool  == <<tasks, closed, worker>>
eviction == <<making, disturbed, overlaps>>
vars  == <<input, ctx, modTime, filesScanned, cache, eviction, call, pool>>

-----------------------------------------------------------------------------
Entry == 1..Len(tree)
IsFile(i) == tree[i].kind \notin Dirs

\* walkRecursive: what is hidden, excluded or too large is passed over, with
\* everything below it, and so is what lies deeper than MaxDepth.
Above(j, i) ==
    tree[j].depth < tree[i].depth /\ \A k \in (j + 1)..i : tree[k].depth > tree[j].depth

Visited(i) ==
    /\ tree[i].depth <= MaxDepth /\ ~tree[i].skipped
    /\ \A j \in 1..(i - 1) : Above(j, i) => ~tree[j].skipped

Walk == {i \in Entry : Visited(i)}

\* A detection: the entry, what was detected and the content it was detected in.
Detections(i, hits) == {[entry |-> i, framework |-> f, content |-> modTime[i]] : f \in hits}

Subsets(S, n) == {T \in SUBSET S : Cardinality(T) = n}

NewCall == [pc |-> "start", phase |-> "frameworks", pos |-> 0, status |-> "none",
            frameworks |-> {}, models |-> {}, errors |-> {},
            fresh |-> {}, stat |-> 0]

\* Nothing visited and nothing found yet, in the Range of no entry.
NotMaking == [pc |-> "no", due |-> {}, seen |-> {}, oldest |-> 0, time |-> 0]

Init ==
    /\ \E s \in Scenarios : tree = s.tree /\ op = s.op
    /\ ctx = [c \in Caller |-> "live"]
    /\ modTime = [i \in Entry |-> 0]
    /\ filesScanned = 0
    /\ cache = <<>>
    /\ making = [c \in Caller |-> NotMaking] /\ disturbed = {} /\ overlaps = 0
    /\ call = [c \in Caller |-> NewCall]
    /\ tasks = <<>> /\ closed = FALSE
    /\ worker = [w \in Worker |-> [pc |-> "idle", entry |-> 0, todo |-> {}]]

-----------------------------------------------------------------------------
(* The walk.                                                               *)

Return(c, result) == call' = [call EXCEPT ![c] = result]

\* Faulty: after a failed walk the channel is not closed.
AbortedUnclosed(c, result) ==
    CASE op[c] = "detect" -> [result EXCEPT !.pc = "returned", !.status = "error"]
      [] OTHER -> [result EXCEPT
            !.pc = IF op[c] = "cached" THEN "returned" ELSE "waiting",
            !.status = "ok",
            !.errors = IF ctx[c] = "deadline" THEN @ \cup {0} ELSE @]

\* The error of a canceled context leaves Detect without a result; the two
\* others return what they have, and record only a deadline.
Aborted(c, result) ==
    CASE op[c] = "detect" -> [result EXCEPT !.pc = "returned", !.status = "error"]
      [] OTHER -> [result EXCEPT
            !.pc = IF op[c] = "cached" THEN "returned" ELSE "walked",
            !.status = "ok",
            !.errors = IF ctx[c] = "deadline" THEN @ \cup {0} ELSE @]

\* After the last entry Detect walks again for the models.
Walked(c, result) ==
    CASE op[c] = "detect" /\ result.phase = "frameworks" ->
            [result EXCEPT !.phase = "models", !.pos = 0]
      [] OTHER -> [result EXCEPT !.pc = IF op[c] = "concurrent" THEN "walked" ELSE "returned",
                                 !.status = "ok"]

\* Detect and DetectConcurrent look at the context first; all reset the
\* counter they share.  The workers are started before the walk.
Start(c) ==
    /\ op[c] # "none" /\ call[c].pc = "start"
    /\ IF ctx[c] # "live" /\ op[c] # "cached"
       THEN Return(c, [call[c] EXCEPT !.pc = "returned", !.status = "error"])
            /\ UNCHANGED <<filesScanned, worker>>
       ELSE /\ Return(c, [call[c] EXCEPT !.pc = "walk"])
            /\ filesScanned' = 0
            /\ worker' = IF op[c] = "concurrent"
                         THEN [w \in Worker |-> [worker[w] EXCEPT !.pc = "ready"]] ELSE worker
    /\ UNCHANGED <<input, ctx, modTime, cache, eviction, tasks, closed>>

\* Before each entry: the context, then the file counter, under its lock.
\* At the limit the walk ends on every level, without an error.
NextEntry(c) ==
    /\ call[c].pc = "walk"
    /\ LET rest == {i \in Walk : i > call[c].pos} IN
       \/ /\ ctx[c] # "live"
          /\ Return(c, Aborted(c, call[c]))
       \/ /\ ctx[c] = "live" /\ (rest = {} \/ filesScanned >= MaxFilesToScan)
          /\ Return(c, Walked(c, call[c]))
       \/ /\ ctx[c] = "live" /\ filesScanned < MaxFilesToScan
          /\ \E i \in rest : /\ \A j \in rest : i <= j
                             /\ Return(c, [call[c] EXCEPT !.pc = "visit", !.pos = i])
    /\ UNCHANGED <<input, ctx, modTime, filesScanned, cache, eviction, pool>>

Here(c) == call[c].pos

\* A file is counted, under the lock again, before the scan looks at it.
Count(c) == filesScanned' = filesScanned + (IF IsFile(Here(c)) THEN 1 ELSE 0)

Onward(result) == [result EXCEPT !.pc = "walk"]

\* Every callback gives up when the context is done.
VisitAborted(c) ==
    /\ call[c].pc = "visit" /\ ctx[c] # "live"
    /\ Count(c)
    /\ Return(c, Aborted(c, call[c]))
    /\ UNCHANGED <<input, ctx, modTime, cache, eviction, pool>>

-----------------------------------------------------------------------------
(* Detect.                                                                 *)

\* Python files are cut off at the limit, at random since the patterns are a
\* map; a notebook is cut off only while there is room at all.
Admitted(kind, hits, room) ==
    CASE kind = "python" -> Subsets(hits, IF Cardinality(hits) < room THEN Cardinality(hits) ELSE room)
      [] room > 0 /\ Cardinality(hits) > room -> Subsets(hits, room)
      [] OTHER -> {hits}

Room(found, limit) == IF Cardinality(found) < limit THEN limit - Cardinality(found) ELSE 0

\* scanForFrameworks: one entry; reading may fail or time out.
VisitFrameworks(c) ==
    /\ op[c] = "detect" /\ call[c].phase = "frameworks" /\ call[c].pc = "visit" /\ ctx[c] = "live"
    /\ Count(c)
    /\ LET i == Here(c) IN
       \/ /\ tree[i].kind \notin Code
          /\ Return(c, Onward(call[c]))
       \/ /\ tree[i].kind \in Code
          /\ Return(c, Onward([call[c] EXCEPT !.errors = @ \cup {i}]))
       \/ /\ tree[i].kind \in Code
          /\ \E hits \in Admitted(tree[i].kind, tree[i].hits, Room(call[c].frameworks, MaxFrameworks)) :
                Return(c, Onward([call[c] EXCEPT !.frameworks = @ \cup Detections(i, hits)]))
    /\ UNCHANGED <<input, ctx, modTime, cache, eviction, pool>>

\* scanForModels: a SavedModel directory is added without looking at the limit.
VisitModels(c) ==
    /\ op[c] = "detect" /\ call[c].phase = "models" /\ call[c].pc = "visit" /\ ctx[c] = "live"
    /\ Count(c)
    /\ LET i == Here(c)
           add == \/ tree[i].kind = "saved"
                  \/ tree[i].kind = "model" /\ Cardinality(call[c].models) < MaxModels
       IN  Return(c, Onward([call[c] EXCEPT !.models = IF add THEN @ \cup {i} ELSE @]))
    /\ UNCHANGED <<input, ctx, modTime, cache, eviction, pool>>

-----------------------------------------------------------------------------
(* DetectConcurrent.                                                       *)

\* The walk waits for room in the channel or for the context; when both are
\* there, the select takes either (VisitAborted is the other).
SendTask(c) ==
    /\ op[c] = "concurrent" /\ call[c].pc = "visit" /\ Len(tasks) < TaskBuffer
    /\ Count(c)
    /\ tasks' = Append(tasks, Here(c))
    /\ Return(c, Onward(call[c]))
    /\ UNCHANGED <<input, ctx, modTime, cache, eviction, closed, worker>>

CloseTasks(c) ==
    /\ call[c].pc = "walked"
    /\ closed' = TRUE
    /\ Return(c, [call[c] EXCEPT !.pc = "waiting"])
    /\ UNCHANGED <<input, ctx, modTime, filesScanned, cache, eviction, tasks, worker>>

\* Faulty: the workers are not waited for.
JoinEarly(c) ==
    /\ call[c].pc = "waiting"
    /\ Return(c, [call[c] EXCEPT !.pc = "returned"])
    /\ UNCHANGED <<input, ctx, modTime, filesScanned, cache, eviction, pool>>

\* wg.Wait, then the result, with a nil error whatever happened.
Join(c) ==
    /\ call[c].pc = "waiting"
    /\ \A w \in Worker : worker[w].pc = "done"
    /\ Return(c, [call[c] EXCEPT !.pc = "returned"])
    /\ UNCHANGED <<input, ctx, modTime, filesScanned, cache, eviction, pool>>

ConcurrentCall == CHOOSE c \in Caller : op[c] = "concurrent"
Shared == call[ConcurrentCall]

\* worker: the next task, unless the context is done or the channel is closed
\* and empty.  A file that cannot be read is an error in the result.
Receive(w) ==
    /\ worker[w].pc = "ready"
    /\ \/ /\ tasks = <<>> /\ closed
          /\ worker' = [worker EXCEPT ![w].pc = "done"]
          /\ UNCHANGED <<tasks, call>>
       \/ /\ tasks # <<>>
          /\ tasks' = Tail(tasks)
          /\ LET i == Head(tasks) IN
             \/ /\ ctx[ConcurrentCall] # "live"
                /\ worker' = [worker EXCEPT ![w].pc = "done"]
                /\ UNCHANGED call
             \/ /\ ctx[ConcurrentCall] = "live" /\ tree[i].kind \in {"saved", "model"} \cup Code
                /\ worker' = [worker EXCEPT ![w] = [pc |-> "check", entry |-> i,
                        todo |-> IF tree[i].kind \in Code THEN Detections(i, tree[i].hits) ELSE {i}]]
                /\ UNCHANGED call
             \/ /\ ctx[ConcurrentCall] = "live" /\ tree[i].kind \in Code
                /\ Return(ConcurrentCall, [Shared EXCEPT !.errors = @ \cup {i}])
                /\ UNCHANGED worker
             \/ /\ ctx[ConcurrentCall] = "live" /\ tree[i].kind \notin {"saved", "model"} \cup Code
                /\ UNCHANGED <<worker, call>>
    /\ UNCHANGED <<input, ctx, modTime, filesScanned, cache, eviction, closed>>

\* Faulty: no limit.
CheckLimitNever(w) ==
    /\ worker[w].pc = "check"
    /\ worker' = [worker EXCEPT ![w].pc = IF worker[w].todo = {} THEN "ready" ELSE "add"]
    /\ UNCHANGED <<input, ctx, modTime, filesScanned, cache, eviction, call, tasks, closed>>

\* The limit is read in a critical section of its own.  A notebook is cut off
\* here, once for all its detections; for a Python file it is read before each.
CheckLimit(w) ==
    /\ worker[w].pc = "check"
    /\ LET kind == tree[worker[w].entry].kind
           room == Room(Shared.frameworks, MaxFrameworks)
           go(todo) == [worker[w] EXCEPT !.todo = todo, !.pc = IF todo = {} THEN "ready" ELSE "add"]
       IN  \/ /\ kind = "notebook"
              /\ \E todo \in Admitted(kind, worker[w].todo, room) : worker' = [worker EXCEPT ![w] = go(todo)]
           \/ /\ kind = "python"
              /\ worker' = [worker EXCEPT ![w] = go(IF room = 0 THEN {} ELSE worker[w].todo)]
           \/ /\ kind \in {"saved", "model"}
              /\ worker' = [worker EXCEPT ![w] =
                    go(IF Cardinality(Shared.models) < MaxModels THEN worker[w].todo ELSE {})]
    /\ UNCHANGED <<input, ctx, modTime, filesScanned, cache, eviction, call, tasks, closed>>

\* addModel and addFramework, one at a time.
Add(w) ==
    /\ worker[w].pc = "add"
    /\ \E x \in worker[w].todo :
          LET kind == tree[worker[w].entry].kind
              left == worker[w].todo \ {x}
          IN  /\ worker' = [worker EXCEPT ![w].todo = left,
                    ![w].pc = IF left = {} THEN "ready" ELSE IF kind = "python" THEN "check" ELSE "add"]
              /\ Return(ConcurrentCall,
                    IF kind \in Code THEN [Shared EXCEPT !.frameworks = @ \cup {x}]
                    ELSE [Shared EXCEPT !.models = @ \cup {x}])
    /\ UNCHANGED <<input, ctx, modTime, filesScanned, cache, eviction, tasks, closed>>

-----------------------------------------------------------------------------
(* DetectWithCache.                                                        *)

Cached(i) == i \in DOMAIN cache /\ cache[i].modTime = modTime[i]

\* One entry.  A valid cache entry is taken as it is; otherwise the file is
\* read, and cut off at the limit of one file.  Models are found by their
\* extension, SavedModel directories are not.  The files stay where they are,
\* so that looking at one for its size or modification time succeeds.
VisitCached(c) ==
    /\ op[c] = "cached" /\ call[c].pc = "visit" /\ ctx[c] = "live"
    /\ Count(c)
    /\ LET i == Here(c)
           hits == {T \in SUBSET tree[i].hits : Cardinality(T) <= MaxFrameworks
                        /\ (Cardinality(T) = MaxFrameworks \/ T = tree[i].hits)}
       IN
       \/ /\ tree[i].kind = "model" /\ Cardinality(call[c].models) < MaxModels
          /\ Return(c, Onward([call[c] EXCEPT !.models = @ \cup {i}]))
       \/ /\ tree[i].kind \notin Code \* any other entry, or a model beyond the limit
          /\ tree[i].kind = "model" => Cardinality(call[c].models) >= MaxModels
          /\ Return(c, Onward(call[c]))
       \/ /\ tree[i].kind \in Code /\ Cached(i)
          /\ Return(c, Onward([call[c] EXCEPT !.frameworks = @ \cup cache[i].frameworks]))
       \/ /\ tree[i].kind \in Code /\ ~Cached(i)
          /\ Return(c, Onward([call[c] EXCEPT !.errors = @ \cup {i}]))
       \/ /\ tree[i].kind \in Code /\ ~Cached(i)
          /\ \E T \in IF tree[i].kind = "python" THEN hits ELSE {tree[i].hits} :
                Return(c, IF T = {} THEN Onward(call[c])
                          ELSE [call[c] EXCEPT !.frameworks = @ \cup Detections(i, T),
                                               !.fresh = Detections(i, T), !.pc = "stat"])
    /\ UNCHANGED <<input, ctx, modTime, cache, eviction, pool>>

\* After the file has been read it is looked at for its modification time,
\* and SetCacheEntry is called.
StatFile(c) ==
    /\ call[c].pc = "stat"
    /\ Return(c, [call[c] EXCEPT !.pc = "store", !.stat = modTime[Here(c)]])
    /\ UNCHANGED <<input, ctx, modTime, filesScanned, cache, eviction, pool>>

\* The cache is a sync.Map.  Its Range is no snapshot: it visits what is there
\* from the beginning to the end ("due"), and perhaps what is stored meanwhile.
Ranging(pc) == [NotMaking EXCEPT !.pc = pc, !.due = DOMAIN cache]
RangeOver(c) == making[c].due \subseteq making[c].seen

OthersMaking(c) == {d \in Caller \ {c} : making[d].pc # "no"}

\* How far c is in SetCacheEntry.
Storing(c, pc) == call[c].pc = "store" /\ making[c].pc = pc

\* CacheSize counts the entries.
BeginCount(c) ==
    /\ Storing(c, "no")
    /\ making' = [making EXCEPT ![c] = Ranging("count")]
    /\ UNCHANGED <<input, ctx, modTime, filesScanned, cache, disturbed, overlaps, call, pool>>

\* Either Range visits an entry; the one for the oldest keeps the first with
\* the least modification time.
RangeVisit(c) ==
    /\ Storing(c, "count") \/ Storing(c, "choose")
    /\ \E i \in DOMAIN cache \ making[c].seen :
          LET older == /\ making[c].pc = "choose"
                       /\ making[c].oldest = 0 \/ cache[i].modTime < making[c].time
          IN  making' = [making EXCEPT ![c].seen = @ \cup {i},
                                       ![c].oldest = IF older THEN i ELSE @,
                                       ![c].time = IF older THEN cache[i].modTime ELSE @]
    /\ UNCHANGED <<input, ctx, modTime, filesScanned, cache, disturbed, overlaps, call, pool>>

\* Faulty: one entry too late.
EndCountLate(c) ==
    /\ Storing(c, "count") /\ RangeOver(c)
    /\ making' = [making EXCEPT ![c] =
            IF Cardinality(making[c].seen) > MaxCacheEntries THEN Ranging("choose")
            ELSE [NotMaking EXCEPT !.pc = "ready"]]
    /\ UNCHANGED <<input, ctx, modTime, filesScanned, cache, disturbed, overlaps, call, pool>>

\* With room for one more, the entry is stored; otherwise the oldest is looked for.
EndCount(c) ==
    /\ Storing(c, "count") /\ RangeOver(c)
    /\ making' = [making EXCEPT ![c] =
            IF Cardinality(making[c].seen) >= MaxCacheEntries THEN Ranging("choose")
            ELSE [NotMaking EXCEPT !.pc = "ready"]]
    /\ UNCHANGED <<input, ctx, modTime, filesScanned, cache, disturbed, overlaps, call, pool>>

\* The oldest is deleted, if one was found and others have not done so already.
\* Others that are in a Range then need not visit it any more.
DeleteOldest(c) ==
    /\ Storing(c, "choose") /\ RangeOver(c)
    /\ LET gone == making[c].oldest IN
       /\ cache' = [i \in DOMAIN cache \ {gone} |-> cache[i]]
       /\ making' = [d \in Caller |-> IF d = c THEN [NotMaking EXCEPT !.pc = "ready"]
                                      ELSE [making[d] EXCEPT !.due = @ \ {gone}]]
    /\ disturbed' = disturbed \cup OthersMaking(c)
    /\ UNCHANGED <<input, ctx, modTime, filesScanned, overlaps, call, pool>>

Store(c) ==
    /\ Storing(c, "ready")
    /\ cache' = [i \in DOMAIN cache \cup {Here(c)} |->
                    IF i = Here(c) THEN [frameworks |-> call[c].fresh, modTime |-> call[c].stat]
                    ELSE cache[i]]
    /\ Return(c, Onward([call[c] EXCEPT !.fresh = {}, !.stat = 0]))
    /\ making' = [making EXCEPT ![c] = NotMaking]
    /\ disturbed' = (disturbed \ {c}) \cup OthersMaking(c)
    /\ overlaps' = overlaps + (IF c \in disturbed THEN 1 ELSE 0)
    /\ UNCHANGED <<input, ctx, modTime, filesScanned, pool>>

-----------------------------------------------------------------------------
(* The environment: callers cancel or run out of time, users edit files.   *)

Cancel(c) ==
    /\ ctx[c] = "live" /\ op[c] # "none" /\ call[c].pc # "returned"
    /\ \E why \in {"canceled", "deadline"} : ctx' = [ctx EXCEPT ![c] = why]
    /\ UNCHANGED <<input, modTime, filesScanned, cache, eviction, call, pool>>

\* An edit gives the file a modification time later than any before.
Edit(i) ==
    /\ \E c \in Caller : op[c] = "cached" /\ call[c].pc # "returned"
    /\ tree[i].kind = "python"
    /\ \E now \in 1..MaxEdits : /\ \A j \in Entry : modTime[j] < now
                               /\ modTime' = [modTime EXCEPT ![i] = now]
    /\ UNCHANGED <<input, ctx, filesScanned, cache, eviction, call, pool>>

CallStep(c) ==
    \/ Start(c) \/ NextEntry(c) \/ VisitAborted(c)
    \/ VisitFrameworks(c) \/ VisitModels(c)
    \/ SendTask(c) \/ CloseTasks(c) \/ Join(c)
    \/ VisitCached(c) \/ StatFile(c)
    \/ BeginCount(c) \/ RangeVisit(c) \/ EndCount(c) \/ DeleteOldest(c) \/ Store(c)

WorkerStep(w) == Receive(w) \/ CheckLimit(w) \/ Add(w)

Next ==
    \/ \E c \in Caller : CallStep(c) \/ Cancel(c)
    \/ \E w \in Worker : WorkerStep(w)
    \/ \E i \in Entry : Edit(i)

Spec == Init /\ [][Next]_vars

\* Goroutines run; nothing obliges a caller to cancel or a user to edit.
FairSpec ==
    /\ Spec
    /\ \A c \in Caller : WF_vars(CallStep(c))
    /\ \A w \in Worker : WF_vars(WorkerStep(w))

-----------------------------------------------------------------------------
(* What must hold.                                                         *)

\* Every variable has its type; a worker's entry tells what it has to add.
Detection == [entry : Entry, framework : Framework, content : Nat]

CallType ==
    [pc : {"start", "walk", "visit", "stat", "store", "walked", "waiting", "returned"},
     phase : {"frameworks", "models"}, pos : Entry \cup {0}, status : {"none", "ok", "error"},
     frameworks : SUBSET Detection, models : SUBSET Entry, errors : SUBSET (Entry \cup {0}),
     fresh : SUBSET Detection, stat : Nat]

MakingType ==
    [pc : {"no", "count", "choose", "ready"}, due : SUBSET Entry, seen : SUBSET Entry,
     oldest : Entry \cup {0}, time : Nat]

EvictionType == making \in [Caller -> MakingType] /\ disturbed \subseteq Caller /\ overlaps \in Nat

ToAdd(i) == IF i # 0 /\ tree[i].kind \in Code THEN Detection ELSE Entry

WorkerType(i) ==
    [pc : {"idle", "ready", "check", "add", "done"}, entry : {i}, todo : SUBSET ToAdd(i)]

TypeOK ==
    /\ \E s \in Scenarios : tree = s.tree /\ op = s.op
    /\ ctx \in [Caller -> {"live", "canceled", "deadline"}]
    /\ modTime \in [Entry -> Nat]
    /\ filesScanned \in Nat
    /\ DOMAIN cache \subseteq Entry
    /\ \A i \in DOMAIN cache : cache[i] \in [frameworks : SUBSET Detection, modTime : Nat]
    /\ EvictionType
    /\ call \in [Caller -> CallType]
    /\ tasks \in Seq(Entry) /\ closed \in BOOLEAN
    /\ DOMAIN worker = Worker
    /\ \A w \in Worker : worker[w].entry \in Entry \cup {0} /\ worker[w] \in WorkerType(worker[w].entry)

\* A scan that has the detector to itself, in a project below the file limit;
\* Detect counts every file twice.  (At the limit the walk ends with the last
\* file, and misses a SavedModel directory that comes after it.)
WithinLimit(c) ==
    LET files == Cardinality({i \in Walk : IsFile(i)})
    IN  /\ \A other \in Caller \ {c} : op[other] = "none"
        /\ (IF op[c] = "detect" THEN 2 * files ELSE files) < MaxFilesToScan

\* What was detected in an entry.
Found(detections, i) == {d.framework : d \in {e \in detections : e.entry = i}}

\* A scan that was not interrupted and stayed below the file limit accounts
\* for every entry of the walk, however the workers shared the entries: a
\* file's frameworks are all there, or the file is among the errors, or the
\* limit on detections was reached; and so it is for the models.  (Without
\* the limit on files the second walk of Detect may find no model at all.)
ResultComplete ==
    \A c \in Caller :
        call[c].pc = "returned" /\ call[c].status = "ok" /\ ctx[c] = "live" /\ WithinLimit(c) =>
        \A i \in Walk :
            /\ tree[i].kind \in Code =>
                  \/ Found(call[c].frameworks, i) = tree[i].hits \/ i \in call[c].errors
                  \/ Cardinality(call[c].frameworks) >= MaxFrameworks
            /\ tree[i].kind = "model" \/ (tree[i].kind = "saved" /\ op[c] # "cached") =>
                  i \in call[c].models \/ Cardinality(call[c].models) >= MaxModels

\* The limit on models is checked and used in two critical sections, so that
\* workers together pass it, but by no more than one model for each worker
\* but one; alone, a scan keeps it for model files.
ModelsBounded ==
    \A c \in Caller :
        Cardinality({i \in call[c].models : op[c] = "concurrent" \/ tree[i].kind = "model"})
            <= MaxModels + (IF op[c] = "concurrent" THEN Cardinality(Worker) - 1 ELSE 0)

\* Room in the cache is made before the entry is stored, and two callers may
\* make the same room and use it twice.  The cache then outgrows its limit,
\* for good, and not by a number that depends on the callers; but only by one
\* for each entry stored by a caller in whose SetCacheEntry another one deleted
\* or stored: callers that take turns keep the limit, whatever Range visits.
CacheGrowsByOverlap ==
    Cardinality(DOMAIN cache) <= MaxCacheEntries + overlaps

\* Every scan returns, and DetectConcurrent leaves no worker behind, also when
\* the workers have gone and tasks are left in a full channel.
CallsReturn ==
    \A c \in Caller :
        call[c].pc = "walk" ~>
            call[c].pc = "returned" /\ (op[c] = "concurrent" => \A w \in Worker : worker[w].pc = "done")

=============================================================================
