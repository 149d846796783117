----------------------------- MODULE MCDetector -----------------------------
(* Model checking of Detector: small projects, and who scans them how.     *)
EXTENDS Detector, TLC

CONSTANTS c1, c2

File(kind, hits, depth) == [kind |-> kind, hits |-> hits, depth |-> depth, skipped |-> FALSE]
Skipped(entry) == [entry EXCEPT !.skipped = TRUE]

\* Models to pass the limit.
ModelTree == <<File("saved", {}, 0), File("model", {}, 1), File("model", {}, 0)>>

\* Something of everything, and more frameworks than may be reported.
MixedTree == <<File("python", {"torch"}, 0), File("dir", {}, 0),
               File("notebook", {"torch", "keras"}, 1), File("model", {}, 0)>>

\* What the walk passes over, what lies too deep, what is of no interest.
DeepTree == <<Skipped(File("dir", {}, 0)), File("model", {}, 1), File("dir", {}, 0),
              File("dir", {}, 1), File("model", {}, 2), File("python", {}, 0), File("other", {}, 0)>>

\* Files for the cache, more than it has room for; for two callers, who may
\* make the same room twice, with one file that is edited.
CodeTree == <<File("python", {"torch"}, 0), File("python", {"keras"}, 0)>>
SharedTree == <<File("python", {"torch"}, 0), File("notebook", {"torch"}, 0)>>

Alone(how) == c1 :> how @@ c2 :> "none"
Both(how) == c1 :> how @@ c2 :> how

MCScenarios ==
    [tree : {ModelTree, MixedTree, DeepTree}, op : {Alone("concurrent"), Alone("detect"), Alone("cached")}]
    \cup [tree : {CodeTree}, op : {Alone("cached")}]
    \cup [tree : {SharedTree}, op : {Both("cached")}]
=============================================================================
