------------------------- MODULE ScanCommandsProofs -------------------------
(***************************************************************************)
(* Theorems about ScanCommands, for every project and every session of     *)
(* commands.                                                               *)
(***************************************************************************)
EXTENDS ScanCommands, FiniteSetTheorems, SequenceTheorems, WellFoundedInduction, TLAPS

-----------------------------------------------------------------------------
(* Induction over the natural numbers, and the sequences that Concat makes.*)

\* The order along which the naturals are well founded.
Below == {p \in Nat \X Nat : p[1] < p[2]}

\* Every nonempty set of naturals has a least element.
LEMMA Least ==
    ASSUME NEW T \in SUBSET Nat, T # {}
    PROVE  \E x \in T : \A y \in T : x <= y
<1>1. IsWellFoundedOn(Below, Nat)
  BY NatLessThanWellFounded DEF OpToRel, Below
<1>2. PICK x \in T : \A y \in T : <<y, x>> \notin Below
  BY <1>1, WFMin
<1>3. \A y \in T : ~(y < x)
  BY <1>2 DEF Below
<1> QED
  BY <1>3

\* A set with 0 and the successor of each member has all naturals.
LEMMA Induction ==
    ASSUME NEW S, 0 \in S, \A n \in Nat : n \in S => n + 1 \in S
    PROVE  Nat \subseteq S
<1> SUFFICES ASSUME NEW m \in Nat, m \notin S PROVE FALSE
  OBVIOUS
<1>1. PICK x \in Nat \ S : \A y \in Nat \ S : x <= y
  <2>1. Nat \ S \in SUBSET Nat /\ Nat \ S # {}
    OBVIOUS
  <2> QED
    BY <2>1, Least
<1>2. x # 0 /\ x - 1 \in Nat /\ x - 1 \in S
  BY <1>1
<1> QED
  BY <1>1, <1>2

\* What the recursion of Concat says of a function.
IsUpTo(g, f, n) == g = [i \in 0..n |-> IF i = 0 THEN <<>> ELSE g[i - 1] \o f[i]]

\* The recursive function in Concat is the one that satisfies its equation.
LEMMA ConcatIsChosen ==
    ASSUME NEW f, NEW n
    PROVE  Concat(f, n) = (CHOOSE g : IsUpTo(g, f, n))[n]
BY DEF Concat, IsUpTo

\* There is such a function,
LEMMA UpToExists ==
    ASSUME NEW f, NEW n \in Nat
    PROVE  \E g : IsUpTo(g, f, n)
<1> DEFINE S == {m \in Nat : \E g : IsUpTo(g, f, m)}
<1>1. 0 \in S
  <2>1. IsUpTo([i \in 0..0 |-> <<>>], f, 0)
    BY DEF IsUpTo
  <2> QED
    BY <2>1
<1>2. ASSUME NEW m \in Nat, m \in S PROVE m + 1 \in S
  <2>1. PICK g : IsUpTo(g, f, m)
    BY <1>2
  <2> DEFINE h == [i \in 0..(m + 1) |-> IF i = m + 1 THEN g[m] \o f[i] ELSE g[i]]
  <2>2. \A i \in 0..m : h[i] = g[i]
    OBVIOUS
  <2>3. \A i \in 0..m : g[i] = IF i = 0 THEN <<>> ELSE g[i - 1] \o f[i]
    BY <2>1 DEF IsUpTo
  <2>4. \A i \in 0..(m + 1) : h[i] = IF i = 0 THEN <<>> ELSE h[i - 1] \o f[i]
    <3> SUFFICES ASSUME NEW i \in 0..(m + 1)
                 PROVE  h[i] = IF i = 0 THEN <<>> ELSE h[i - 1] \o f[i]
      OBVIOUS
    <3>1. CASE i = m + 1
      <4>1. i - 1 = m /\ m \in 0..m /\ i # 0
        BY <3>1
      <4>2. h[i] = g[m] \o f[i]
        BY <3>1
      <4> HIDE DEF h
      <4> QED
        BY <4>1, <4>2, <2>2
    <3>2. CASE i # m + 1 /\ i # 0
      <4>1. i \in 0..m /\ i - 1 \in 0..m
        BY <3>2
      <4> HIDE DEF h
      <4> QED
        BY <4>1, <3>2, <2>2, <2>3
    <3>3. CASE i = 0
      BY <3>3, <2>2, <2>3
    <3> QED
      BY <3>1, <3>2, <3>3
  <2>5. h = [i \in 0..(m + 1) |-> h[i]]
    OBVIOUS
  <2>6. IsUpTo(h, f, m + 1)
    <3> HIDE DEF h
    <3> QED
      BY <2>4, <2>5 DEF IsUpTo
  <2> QED
    BY <2>6
<1>3. Nat \subseteq S
  <2> HIDE DEF S
  <2> QED
    BY <1>1, <1>2, Induction
<1> QED
  BY <1>3

\* and two of them agree where both are defined.
LEMMA UpToUnique ==
    ASSUME NEW f, NEW n \in Nat, NEW m \in 0..n, NEW g, NEW h, IsUpTo(g, f, m), IsUpTo(h, f, n)
    PROVE  g[m] = h[m]
<1> DEFINE S == {i \in Nat : i <= m => g[i] = h[i]}
<1>0. /\ \A i \in 0..m : g[i] = IF i = 0 THEN <<>> ELSE g[i - 1] \o f[i]
      /\ \A i \in 0..n : h[i] = IF i = 0 THEN <<>> ELSE h[i - 1] \o f[i]
  BY DEF IsUpTo
<1>1. 0 \in S
  BY <1>0
<1>2. ASSUME NEW i \in Nat, i \in S PROVE i + 1 \in S
  <2> SUFFICES ASSUME i + 1 <= m PROVE g[i + 1] = h[i + 1]
    OBVIOUS
  <2>1. g[i] = h[i] /\ (i + 1) - 1 = i /\ i + 1 \in 0..m /\ i + 1 \in 0..n /\ i + 1 # 0
    BY <1>2
  <2> QED
    BY <1>0, <2>1
<1>3. Nat \subseteq S
  <2> HIDE DEF S
  <2> QED
    BY <1>1, <1>2, Induction
<1> QED
  BY <1>3

\* The two equations that define it.
LEMMA ConcatUnfolds ==
    ASSUME NEW f
    PROVE  /\ Concat(f, 0) = <<>>
           /\ \A n \in Nat : Concat(f, n + 1) = Concat(f, n) \o f[n + 1]
<1> DEFINE up(n) == CHOOSE g : IsUpTo(g, f, n)
<1>1. \A n \in Nat : IsUpTo(up(n), f, n) /\ Concat(f, n) = up(n)[n]
  BY UpToExists, ConcatIsChosen
<1> HIDE DEF up
<1>2. up(0)[0] = <<>>
  <2>1. IsUpTo(up(0), f, 0)
    BY <1>1
  <2>2. up(0) = [i \in 0..0 |-> IF i = 0 THEN <<>> ELSE up(0)[i - 1] \o f[i]]
    BY <2>1 DEF IsUpTo
  <2>3. \A i \in 0..0 : up(0)[i] = IF i = 0 THEN <<>> ELSE up(0)[i - 1] \o f[i]
    BY <2>2
  <2> QED
    BY <2>3
<1>3. ASSUME NEW n \in Nat PROVE Concat(f, n + 1) = Concat(f, n) \o f[n + 1]
  <2>1. n + 1 \in Nat /\ n \in 0..(n + 1) /\ n + 1 \in 0..(n + 1) /\ (n + 1) - 1 = n /\ n + 1 # 0
    OBVIOUS
  <2>2. up(n + 1)[n + 1] = up(n + 1)[n] \o f[n + 1]
    BY <1>1, <2>1 DEF IsUpTo
  <2>3. up(n)[n] = up(n + 1)[n]
    BY <1>1, <2>1, UpToUnique
  <2> QED
    BY <1>1, <2>1, <2>2, <2>3
<1> QED
  BY <1>1, <1>2, <1>3

\* What is joined stays a sequence, and has the elements of its parts.
LEMMA ConcatIsSeq ==
    ASSUME NEW f, NEW S, NEW n \in Nat, \A i \in 1..n : f[i] \in Seq(S)
    PROVE  \A m \in 0..n : Concat(f, m) \in Seq(S)
<1> DEFINE T == {m \in Nat : m <= n => Concat(f, m) \in Seq(S)}
<1>1. 0 \in T
  <2>1. Concat(f, 0) = <<>>
    BY ConcatUnfolds
  <2> QED
    BY <2>1, EmptySeq
<1>2. ASSUME NEW m \in Nat, m \in T PROVE m + 1 \in T
  <2> SUFFICES ASSUME m + 1 <= n PROVE Concat(f, m + 1) \in Seq(S)
    OBVIOUS
  <2>1. Concat(f, m) \in Seq(S) /\ m + 1 \in 1..n
    BY <1>2
  <2>2. f[m + 1] \in Seq(S) /\ Concat(f, m + 1) = Concat(f, m) \o f[m + 1]
    BY <2>1, ConcatUnfolds
  <2> QED
    BY <2>1, <2>2, ConcatProperties
<1>3. Nat \subseteq T
  <2> HIDE DEF T
  <2> QED
    BY <1>1, <1>2, Induction
<1> QED
  BY <1>3

\* Concat looks only at the parts it joins.
LEMMA ConcatAgrees ==
    ASSUME NEW f, NEW g, NEW n \in Nat, \A i \in 1..n : f[i] = g[i]
    PROVE  \A m \in 0..n : Concat(f, m) = Concat(g, m)
<1> DEFINE T == {m \in Nat : m <= n => Concat(f, m) = Concat(g, m)}
<1>1. 0 \in T
  BY ConcatUnfolds
<1>2. ASSUME NEW m \in Nat, m \in T PROVE m + 1 \in T
  <2> SUFFICES ASSUME m + 1 <= n PROVE Concat(f, m + 1) = Concat(g, m + 1)
    OBVIOUS
  <2>1. Concat(f, m) = Concat(g, m) /\ m + 1 \in 1..n
    BY <1>2
  <2>2. f[m + 1] = g[m + 1]
    BY <2>1
  <2> QED
    BY <2>1, <2>2, ConcatUnfolds
<1>3. Nat \subseteq T
  <2> HIDE DEF T
  <2> QED
    BY <1>1, <1>2, Induction
<1> QED
  BY <1>3

\* The elements of a sequence.
Items(q) == {q[i] : i \in 1..Len(q)}

\* Two sequences joined have the elements of both.
LEMMA ItemsJoined ==
    ASSUME NEW S, NEW p \in Seq(S), NEW q \in Seq(S)
    PROVE  Items(p \o q) = Items(p) \cup Items(q)
<1> DEFINE r == p \o q
<1>1. /\ Len(p) \in Nat /\ Len(q) \in Nat /\ Len(r) = Len(p) + Len(q)
      /\ \A i \in 1..Len(p) : r[i] = p[i]
      /\ \A i \in 1..Len(q) : r[Len(p) + i] = q[i]
  BY ConcatProperties, LenProperties
<1> HIDE DEF r
<1>2. ASSUME NEW i \in 1..Len(r) PROVE r[i] \in Items(p) \cup Items(q)
  <2>1. CASE i <= Len(p)
    <3>1. i \in 1..Len(p)
      BY <1>1, <2>1
    <3> QED
      BY <1>1, <3>1 DEF Items
  <2>2. CASE i > Len(p)
    <3>1. i - Len(p) \in 1..Len(q) /\ Len(p) + (i - Len(p)) = i
      BY <1>1, <2>2
    <3>2. r[i] = q[i - Len(p)]
      BY <1>1, <3>1
    <3> QED
      BY <3>1, <3>2 DEF Items
  <2> QED
    BY <1>1, <2>1, <2>2
<1>3. ASSUME NEW i \in 1..Len(p) PROVE p[i] \in Items(r)
  <2>1. i \in 1..Len(r) /\ r[i] = p[i]
    BY <1>1
  <2> QED
    BY <2>1 DEF Items
<1>4. ASSUME NEW i \in 1..Len(q) PROVE q[i] \in Items(r)
  <2>1. Len(p) + i \in 1..Len(r) /\ r[Len(p) + i] = q[i]
    BY <1>1
  <2> QED
    BY <2>1 DEF Items
<1>5. \A x \in Items(r) : x \in Items(p) \cup Items(q)
  BY <1>2 DEF Items
<1>6. \A x \in Items(p) \cup Items(q) : x \in Items(r)
  BY <1>3, <1>4 DEF Items
<1> QED
  BY <1>5, <1>6 DEF r

\* What Concat joins has the elements of all parts.
LEMMA ConcatItems ==
    ASSUME NEW f, NEW S, NEW n \in Nat, \A i \in 1..n : f[i] \in Seq(S)
    PROVE  Items(Concat(f, n)) = UNION {Items(f[i]) : i \in 1..n}
<1> DEFINE T == {m \in Nat : m <= n => \A x : x \in Items(Concat(f, m)) <=> \E i \in 1..m : x \in Items(f[i])}
<1>1. 0 \in T
  <2>1. Concat(f, 0) = <<>>
    BY ConcatUnfolds
  <2>2. Items(Concat(f, 0)) = {}
    BY <2>1 DEF Items
  <2> QED
    BY <2>2
<1>2. ASSUME NEW m \in Nat, m \in T PROVE m + 1 \in T
  <2> SUFFICES ASSUME m + 1 <= n, NEW x
               PROVE  x \in Items(Concat(f, m + 1)) <=> \E i \in 1..(m + 1) : x \in Items(f[i])
    OBVIOUS
  <2>1. /\ x \in Items(Concat(f, m)) <=> \E i \in 1..m : x \in Items(f[i])
        /\ m + 1 \in 1..n /\ m \in 0..n
    BY <1>2
  <2>2. f[m + 1] \in Seq(S) /\ Concat(f, m) \in Seq(S) /\ Concat(f, m + 1) = Concat(f, m) \o f[m + 1]
    BY <2>1, ConcatUnfolds, ConcatIsSeq
  <2>3. Items(Concat(f, m + 1)) = Items(Concat(f, m)) \cup Items(f[m + 1])
    BY <2>2, ItemsJoined, ZenonT(40)
  <2>4. \A i : i \in 1..(m + 1) <=> i \in 1..m \/ i = m + 1
    OBVIOUS
  <2> QED
    BY <2>1, <2>3, <2>4
<1>3. Nat \subseteq T
  <2> HIDE DEF T
  <2> QED
    BY <1>1, <1>2, Induction
<1>4. \A x : x \in Items(Concat(f, n)) <=> \E i \in 1..n : x \in Items(f[i])
  BY <1>3
<1> QED
  BY <1>4

-----------------------------------------------------------------------------
(* Where scanners, job and main goroutine are.                             *)

ScanPlace == {"idle", "start", "run", "parse", "manifests", "query", "done", "sent"}

IsScan(r) ==
    /\ r = [pc |-> r.pc, status |-> r.status, findings |-> r.findings,
            manifest |-> r.manifest, deps |-> r.deps]
    /\ r.pc \in ScanPlace
    /\ r.pc \in {"done", "sent"} => r.status \in {"ok", "failed"}

Exit == [cmd : Command, code : {"ok", "found", "violation", "error"}]

PlaceType ==
    /\ scan = [s \in Scanner |-> scan[s]]
    /\ \A s \in Scanner : IsScan(scan[s])
    /\ reports \subseteq Scanner
    /\ script \in Seq(Command) /\ exits \in Seq(Exit)
    /\ main \in {"idle", "tui", "receive", "output"}
    /\ job \in {"idle", "scan", "collect", "generate", "stage", "read", "done"}

\* A report file is that of a scanner that is about to read it.
ReportInv == \A s \in Scanner : s \in reports => scan[s].pc = "parse"

\* Nothing works for a scanner that is quiet.
Quiet(s) == scan[s].pc \in {"idle", "done", "sent"}

\* The job is one of the command, and is done only when its scanners are.
JobInv ==
    main # "idle" =>
        /\ script # <<>>
        /\ \A s \in Scanner : scan[s].pc # "idle" => s \in Running(cmd)
        /\ job = "scan" => cmd.name = "scan"
        /\ job \in {"collect", "generate"} => cmd.name = "assess"
        /\ job = "stage" => cmd.name = "pipeline"
        /\ job = "read" => Running(cmd) = {}
        /\ job = "collect" => /\ \A s \in counted : scan[s].pc = "sent"
                              /\ closed => counted = QuickScan
        /\ job \in {"generate", "done"} => \A s \in Scanner : Quiet(s)

MainInv ==
    /\ main = "idle" => job \in {"idle", "done"} /\ \A s \in Scanner : Quiet(s)
    /\ main # "idle" => job # "idle"
    /\ main = "output" => job = "done" /\ cmd.name = "scan" /\ outcome = "ok"

\* Only scanners are counted.
CountedInv == counted \subseteq Scanner

\* What the command takes over from its scanner.
ScanResultInv ==
    main # "idle" /\ job = "done" /\ cmd.name = "scan" =>
        /\ scan[cmd.scanner].pc = "done"
        /\ outcome = scan[cmd.scanner].status
        /\ findings = scan[cmd.scanner].findings

IInv ==
    /\ PlaceType
    /\ ReportInv
    /\ JobInv /\ MainInv
    /\ CountedInv /\ ScanResultInv
    /\ ExitTellsScan


\* What the steps of the scanners leave alone.
other == <<script, main, tuiFailed, jobVars, output, exits>>

-----------------------------------------------------------------------------
(* The steps of a scanner.                                                 *)

\* The scan of s moves to another place, whatever else it changes.
MovesTo(s, pc) ==
    /\ scan' = [t \in Scanner |-> scan'[t]]
    /\ \A t \in Scanner \ {s} : scan'[t] = scan[t]
    /\ IsScan(scan'[s]) /\ scan'[s].pc = pc

\* Going on, and finishing, move one scan and keep the others.
LEMMA GotoMoves ==
    ASSUME PlaceType, NEW s \in Scanner, NEW pc \in ScanPlace \ {"done", "sent"}, Goto(s, pc)
    PROVE  MovesTo(s, pc) /\ scan'[s].findings = scan[s].findings
BY SMTT(30) DEF PlaceType, IsScan, Goto, MovesTo, ScanPlace

\* A finished scan has a status and its findings.
LEMMA FinishMoves ==
    ASSUME PlaceType, NEW s \in Scanner, NEW status \in {"ok", "failed"}, NEW found,
           Finish(s, status, found)
    PROVE  /\ MovesTo(s, "done") /\ reports' = reports \ {s}
           /\ scan'[s].status = status /\ scan'[s].findings = found
<1>1. /\ scan = [t \in Scanner |-> scan[t]]
      /\ scan[s] = [pc |-> scan[s].pc, status |-> scan[s].status, findings |-> scan[s].findings,
                    manifest |-> scan[s].manifest, deps |-> scan[s].deps]
  BY DEF PlaceType, IsScan
<1>2. /\ scan' = [scan EXCEPT ![s].pc = "done", ![s].status = status, ![s].findings = found]
      /\ reports' = reports \ {s}
  BY DEF Finish
<1>3. /\ scan' = [t \in Scanner |-> scan'[t]]
      /\ \A t \in Scanner \ {s} : scan'[t] = scan[t]
  BY <1>1, <1>2
<1>4. scan'[s] = [scan[s] EXCEPT !.pc = "done", !.status = status, !.findings = found]
  BY <1>1, <1>2
<1>5. scan'[s] = [pc |-> "done", status |-> status, findings |-> found,
                  manifest |-> scan[s].manifest, deps |-> scan[s].deps]
  BY <1>1, <1>4
<1> QED
  BY <1>2, <1>3, <1>5, ZenonT(40) DEF MovesTo, IsScan, ScanPlace

\* A step of scanner s: it was at work, and keeps a report only on its way to
\* reading it.
Works(s) ==
    /\ ~Quiet(s)
    /\ \E pc \in {"run", "parse", "manifests", "query", "done"} : MovesTo(s, pc)
    /\ reports' \subseteq reports \cup {s} /\ reports \ {s} \subseteq reports'
    /\ s \in reports' => scan'[s].pc = "parse"

\* What a step of a program scanner does to the places.
LEMMA ToolWorks ==
    ASSUME PlaceType, ReportInv, NEW s \in Scanner, StartTool(s) \/ RunTool(s) \/ ParseReport(s)
    PROVE  Works(s)
<1>1. CASE StartTool(s)
  <2>1. scan[s].pc = "start" /\ ((Goto(s, "run") /\ UNCHANGED reports) \/ Finish(s, "failed", <<>>))
    BY <1>1 DEF StartTool, Fail
  <2>2. s \notin reports /\ ~Quiet(s)
    BY <2>1 DEF ReportInv, Quiet
  <2>3. CASE Goto(s, "run") /\ UNCHANGED reports
    <3>1. MovesTo(s, "run")
      BY <2>3, GotoMoves DEF ScanPlace
    <3> QED
      BY <2>2, <2>3, <3>1 DEF Works
  <2>4. CASE Finish(s, "failed", <<>>)
    BY <2>2, <2>4, FinishMoves DEF Works
  <2> QED
    BY <2>1, <2>3, <2>4
<1>2. CASE RunTool(s)
  <2>1. /\ scan[s].pc = "run"
        /\ \/ Goto(s, "parse") /\ reports' \in {reports, reports \cup {s}}
           \/ Finish(s, "failed", <<>>)
    BY <1>2 DEF RunTool, Fail
  <2>2. s \notin reports /\ ~Quiet(s)
    BY <2>1 DEF ReportInv, Quiet
  <2>3. CASE Goto(s, "parse") /\ reports' \in {reports, reports \cup {s}}
    <3>1. MovesTo(s, "parse") /\ scan'[s].pc = "parse"
      BY <2>3, GotoMoves DEF ScanPlace, MovesTo
    <3> QED
      BY <2>2, <2>3, <3>1 DEF Works
  <2>4. CASE Finish(s, "failed", <<>>)
    BY <2>2, <2>4, FinishMoves DEF Works
  <2> QED
    BY <2>1, <2>3, <2>4
<1>3. CASE ParseReport(s)
  <2>1. scan[s].pc = "parse" /\ \E status \in {"ok", "failed"} : \E found : Finish(s, status, found)
    BY <1>3 DEF ParseReport, Fail
  <2>2. ~Quiet(s)
    BY <2>1 DEF Quiet
  <2> QED
    BY <2>1, <2>2, FinishMoves DEF Works
<1> QED
  BY <1>1, <1>2, <1>3


\* What a step of the OSV scanner does to the places.
LEMMA OsvWorks ==
    ASSUME PlaceType, ReportInv, StartOsv \/ ParseManifest \/ AskOsv \/ QueryBatch
    PROVE  Works("osv")
<1> DEFINE s == "osv"
<1> SUFFICES Works(s)
  OBVIOUS
<1>0. /\ s \in Scanner
      /\ scan = [t \in Scanner |-> scan[t]]
      /\ scan[s] = [pc |-> scan[s].pc, status |-> scan[s].status, findings |-> scan[s].findings,
                    manifest |-> scan[s].manifest, deps |-> scan[s].deps]
  BY DEF PlaceType, IsScan, Scanner
<1> HIDE DEF s
<1>a. /\ scan[s].pc \in {"start", "manifests", "query"}
      /\ s \notin reports /\ ~Quiet(s)
  <2>1. scan[s].pc \in {"start", "manifests", "query"}
    BY DEF StartOsv, ParseManifest, AskOsv, QueryBatch, s
  <2> QED
    BY <1>0, <2>1 DEF ReportInv, Quiet
<1>b. ASSUME NEW pc \in {"manifests", "query"}, Goto(s, pc), UNCHANGED reports PROVE Works(s)
  <2>1. MovesTo(s, pc)
    BY <1>0, <1>b, GotoMoves DEF ScanPlace
  <2> QED
    BY <1>a, <1>b, <2>1 DEF Works
<1>c. ASSUME NEW status \in {"ok", "failed"}, NEW found, Finish(s, status, found) PROVE Works(s)
  <2>1. MovesTo(s, "done") /\ reports' = reports \ {s}
    BY <1>0, <1>c, FinishMoves
  <2> QED
    BY <1>a, <2>1 DEF Works
<1>1. CASE StartOsv
  <2>1. (Goto(s, "manifests") /\ UNCHANGED reports) \/ Finish(s, "failed", <<>>)
    BY <1>1 DEF StartOsv, Fail, s
  <2> QED
    BY <2>1, <1>b, <1>c
<1>2. CASE ParseManifest
  <2>1. PICK deps, manifest :
           scan' = [scan EXCEPT ![s] = [scan[s] EXCEPT !.deps = deps, !.manifest = manifest]]
    <3>1. PICK more : scan' = [scan EXCEPT !["osv"].deps = @ \o more, !["osv"].manifest = @ + 1]
      BY <1>2 DEF ParseManifest
    <3>2. scan' = [scan EXCEPT ![s] = [scan[s] EXCEPT !.deps = scan[s].deps \o more,
                                                       !.manifest = scan[s].manifest + 1]]
      BY <1>0, <3>1 DEF s
    <3> QED
      BY <3>2, ZenonT(40)
  <2>2. scan[s].pc = "manifests" /\ UNCHANGED reports
    BY <1>2 DEF ParseManifest, s
  <2>3. scan'[s] = [pc |-> "manifests", status |-> scan[s].status, findings |-> scan[s].findings,
                    manifest |-> manifest, deps |-> deps]
    BY <1>0, <2>1, <2>2
  <2>4. scan' = [t \in Scanner |-> scan'[t]] /\ \A t \in Scanner \ {s} : scan'[t] = scan[t]
    BY <1>0, <2>1
  <2>5. MovesTo(s, "manifests")
    BY <2>3, <2>4 DEF MovesTo, IsScan, ScanPlace
  <2> QED
    BY <1>a, <2>2, <2>5 DEF Works
<1>3. CASE AskOsv
  <2>1. \/ Finish(s, "ok", <<>>) \/ Finish(s, "failed", <<>>)
        \/ Goto(s, "query") /\ UNCHANGED reports
    BY <1>3 DEF AskOsv, Fail, s
  <2> QED
    BY <2>1, <1>b, <1>c
<1>4. CASE QueryBatch
  <2>1. \/ \E status \in {"ok", "failed"} : \E found : Finish(s, status, found)
        \/ \E found, left : /\ scan' = [scan EXCEPT !["osv"].findings = found, !["osv"].deps = left]
                            /\ UNCHANGED reports
    <3> DEFINE osv == scan["osv"]
               last == IF Len(osv.deps) < BatchSize THEN Len(osv.deps) ELSE BatchSize
               batch == SubSeq(osv.deps, 1, last)
               answers == [d \in DOMAIN batch |-> batch[d].vulns]
               found == osv.findings \o OsvFindings(batch, Len(osv.findings), answers)
               left == SubSeq(osv.deps, last + 1, Len(osv.deps))
    <3>1. IF ctx = "done" \/ target.api # "ok" THEN Fail("osv")
          ELSE IF left = <<>> THEN Finish("osv", "ok", found)
          ELSE /\ scan' = [scan EXCEPT !["osv"].findings = found, !["osv"].deps = left]
               /\ UNCHANGED reports
      BY <1>4, Zenon DEF QueryBatch
    <3> HIDE DEF osv, last, batch, answers, found, left
    <3> QED
      BY <3>1 DEF Fail, s
  <2>2. CASE \E found, left : /\ scan' = [scan EXCEPT !["osv"].findings = found, !["osv"].deps = left]
                              /\ UNCHANGED reports
    <3>1. PICK found, left : scan' = [scan EXCEPT !["osv"].findings = found, !["osv"].deps = left]
      BY <2>2
    <3>2. scan[s].pc = "query" /\ UNCHANGED reports
      BY <1>4, <2>2 DEF QueryBatch, s
    <3>3. scan' = [scan EXCEPT ![s] = [scan[s] EXCEPT !.findings = found, !.deps = left]]
      BY <1>0, <3>1 DEF s
    <3>4. scan'[s] = [pc |-> "query", status |-> scan[s].status, findings |-> found,
                      manifest |-> scan[s].manifest, deps |-> left]
      BY <1>0, <3>2, <3>3
    <3>5. scan' = [t \in Scanner |-> scan'[t]] /\ \A t \in Scanner \ {s} : scan'[t] = scan[t]
      BY <1>0, <3>3
    <3>6. MovesTo(s, "query")
      BY <3>4, <3>5 DEF MovesTo, IsScan, ScanPlace
    <3> QED
      BY <1>a, <3>2, <3>6 DEF Works
  <2> QED
    BY <2>1, <2>2, <1>c
<1> QED
  BY <1>1, <1>2, <1>3, <1>4

\* What a step of any scanner does.
LEMMA StepWorks ==
    ASSUME PlaceType, ReportInv, NEW s \in Scanner, ScannerStep(s)
    PROVE  Works(s)
BY ToolWorks, OsvWorks DEF ScannerStep

\* The goroutine of assess only says that it has sent its answer.
LEMMA SendMoves ==
    ASSUME PlaceType, NEW s \in Scanner, SendResult(s)
    PROVE  MovesTo(s, "sent") /\ scan[s].pc = "done" /\ scan'[s].findings = scan[s].findings
<1>1. scan[s].pc = "done" /\ scan' = [scan EXCEPT ![s].pc = "sent"]
  BY DEF SendResult
<1>2. /\ scan = [t \in Scanner |-> scan[t]]
      /\ scan[s] = [pc |-> scan[s].pc, status |-> scan[s].status, findings |-> scan[s].findings,
                    manifest |-> scan[s].manifest, deps |-> scan[s].deps]
      /\ scan[s].status \in {"ok", "failed"}
  BY <1>1 DEF PlaceType, IsScan
<1>3. scan' = [t \in Scanner |-> scan'[t]] /\ \A t \in Scanner \ {s} : scan'[t] = scan[t]
  BY <1>1, <1>2
<1>4. scan'[s] = [pc |-> "sent", status |-> scan[s].status, findings |-> scan[s].findings,
                  manifest |-> scan[s].manifest, deps |-> scan[s].deps]
  BY <1>1, <1>2
<1> QED
  BY <1>1, <1>2, <1>3, <1>4 DEF MovesTo, IsScan, ScanPlace

-----------------------------------------------------------------------------
(* The invariant is kept.                                                  *)

\* The running command is a command, and runs its scanners.
LEMMA CommandFacts ==
    ASSUME script \in Seq(Command), script # <<>>
    PROVE  /\ cmd \in Command /\ Tail(script) \in Seq(Command)
           /\ cmd.name \in {"scan", "assess", "pipeline", "policy", "compliance", "validate"}
           /\ cmd.name = "scan" => cmd.scanner \in Scanner /\ Running(cmd) = {cmd.scanner}
           /\ cmd.name = "assess" => Running(cmd) = QuickScan
           /\ cmd.name = "pipeline" => Running(cmd) = cmd.scanners /\ cmd.scanners \subseteq Scanner
           /\ cmd.name \in {"policy", "compliance", "validate"} => Running(cmd) = {}
<1>1. Head(script) \in Command /\ Tail(script) \in Seq(Command)
  BY HeadTailProperties
<1>2. \A c \in Command :
        /\ c.name \in {"scan", "assess", "pipeline", "policy", "compliance", "validate"}
        /\ c.name = "scan" => c.scanner \in Scanner
        /\ c.name = "pipeline" => c.scanners \subseteq Scanner
  BY DEF Command
<1>3. \A c \in Command :
        /\ c.name = "scan" => Running(c) = {c.scanner}
        /\ c.name = "assess" => Running(c) = QuickScan
        /\ c.name = "pipeline" => Running(c) = c.scanners
        /\ c.name \in {"policy", "compliance", "validate"} => Running(c) = {}
  BY DEF Running
<1> QED
  BY <1>1, <1>2, <1>3 DEF cmd

\* A step of a scanner: the command goes on, and its job has not ended.
LEMMA WorksKeeps ==
    ASSUME IInv, NEW s \in Scanner, Works(s), UNCHANGED other
    PROVE  IInv'
<1>0. /\ UNCHANGED <<script, main, job, closed, counted, findings, outcome, exits>>
      /\ cmd' = cmd
  BY DEF other, jobVars, cmd
<1>1. PICK pc \in {"run", "parse", "manifests", "query", "done"} : MovesTo(s, pc)
  BY DEF Works
<1>2. ~Quiet(s) /\ main # "idle" /\ job \notin {"generate", "done"}
  BY DEF Works, IInv, MainInv, JobInv
<1>3. /\ scan' = [t \in Scanner |-> scan'[t]]
      /\ \A t \in Scanner \ {s} : scan'[t] = scan[t]
      /\ IsScan(scan'[s]) /\ scan'[s].pc = pc
  BY <1>1 DEF MovesTo
<1>4. /\ reports' \subseteq reports \cup {s}
      /\ s \in reports' => scan'[s].pc = "parse"
  BY DEF Works
<1>5. PlaceType'
  <2>1. \A t \in Scanner : IsScan(scan'[t])
    BY <1>3 DEF IInv, PlaceType
  <2>2. reports' \subseteq Scanner
    BY <1>4 DEF IInv, PlaceType
  <2> QED
    BY <1>0, <1>3, <2>1, <2>2 DEF IInv, PlaceType
<1>6. ReportInv'
  BY <1>3, <1>4 DEF IInv, ReportInv
<1>7. JobInv'
  <2>1. scan[s].pc \notin {"idle", "sent"}
    BY <1>2 DEF Quiet
  <2>2. \A t \in Scanner : scan'[t].pc # "idle" => t \in Running(cmd)
    BY <1>2, <1>3, <2>1 DEF IInv, JobInv
  <2>3. job = "collect" => \A t \in counted : scan'[t].pc = "sent"
    <3> SUFFICES ASSUME job = "collect", NEW t \in counted PROVE scan'[t].pc = "sent"
      OBVIOUS
    <3>1. scan[t].pc = "sent"
      BY <1>2 DEF IInv, JobInv
    <3>2. t \in Scanner
      BY DEF IInv, CountedInv
    <3> QED
      BY <1>3, <2>1, <3>1, <3>2
  <2> QED
    BY <1>0, <1>2, <2>2, <2>3 DEF IInv, JobInv
<1>8. MainInv' /\ ScanResultInv' /\ ExitTellsScan' /\ CountedInv'
  BY <1>0, <1>2 DEF IInv, MainInv, ScanResultInv, ExitTellsScan, CountedInv
<1> QED
  BY <1>5, <1>6, <1>7, <1>8 DEF IInv

\* A scanner of assess sends its answer, or is counted.
LEMMA SendKeeps ==
    ASSUME IInv, NEW s \in Scanner, SendResult(s)
    PROVE  IInv'
<1>0. /\ UNCHANGED <<reports, script, main, job, closed, counted, findings, outcome, exits>>
      /\ cmd' = cmd /\ main # "idle" /\ cmd.name = "assess"
  BY DEF SendResult, cmd
<1>1. /\ scan' = [t \in Scanner |-> scan'[t]]
      /\ \A t \in Scanner \ {s} : scan'[t] = scan[t]
      /\ IsScan(scan'[s]) /\ scan'[s].pc = "sent" /\ scan[s].pc = "done"
  BY SendMoves DEF IInv, MovesTo
<1>2. PlaceType'
  <2>1. \A t \in Scanner : IsScan(scan'[t])
    BY <1>1 DEF IInv, PlaceType
  <2> QED
    BY <1>0, <1>1, <2>1 DEF IInv, PlaceType
<1>3. ReportInv'
  BY <1>0, <1>1 DEF IInv, ReportInv
<1>4. JobInv'
  <2>1. \A t \in Scanner : scan'[t].pc # "idle" => t \in Running(cmd)
    BY <1>0, <1>1 DEF IInv, JobInv
  <2>2. job = "collect" => \A t \in counted : scan'[t].pc = "sent"
    BY <1>0, <1>1 DEF IInv, JobInv, CountedInv
  <2>3. job \in {"generate", "done"} => \A t \in Scanner : scan'[t].pc \in {"idle", "done", "sent"}
    BY <1>0, <1>1 DEF IInv, JobInv, Quiet
  <2> QED
    BY <1>0, <2>1, <2>2, <2>3 DEF IInv, JobInv, Quiet
<1>5. MainInv' /\ ScanResultInv' /\ ExitTellsScan' /\ CountedInv'
  BY <1>0 DEF IInv, MainInv, ScanResultInv, ExitTellsScan, CountedInv
<1> QED
  BY <1>2, <1>3, <1>4, <1>5 DEF IInv

\* A scanner is counted: only one that has sent its answer.
LEMMA CountKeeps ==
    ASSUME IInv, NEW s \in Scanner, CountDone(s)
    PROVE  IInv'
<1>0. /\ UNCHANGED <<scan, reports, script, main, job, closed, findings, outcome, exits>>
      /\ cmd' = cmd /\ main # "idle" /\ cmd.name = "assess"
      /\ scan[s].pc = "sent" /\ s \notin counted /\ counted' = counted \cup {s}
  BY DEF CountDone, cmd
<1>1. job = "collect" => ~closed
  <2>1. s \in QuickScan
    BY <1>0, CommandFacts DEF IInv, JobInv, PlaceType
  <2> QED
    BY <1>0, <2>1 DEF IInv, JobInv
<1>2. JobInv'
  <2>1. job = "collect" => \A t \in counted' : scan[t].pc = "sent"
    BY <1>0 DEF IInv, JobInv
  <2> QED
    BY <1>0, <1>1, <2>1 DEF IInv, JobInv, Quiet
<1>3. PlaceType' /\ ReportInv' /\ CountedInv'
  BY <1>0 DEF IInv, PlaceType, ReportInv, CountedInv
<1>4. MainInv' /\ ScanResultInv' /\ ExitTellsScan'
  BY <1>0 DEF IInv, MainInv, ScanResultInv, ExitTellsScan
<1> QED
  BY <1>2, <1>3, <1>4 DEF IInv

\* A step of the job: it goes on collecting, or generates, or ends once no
\* scanner works any more.
JobStep ==
    /\ UNCHANGED <<scan, reports, script, main, exits, counted>>
    /\ main # "idle"
    /\ \/ job = "collect" /\ job' = "collect" /\ (closed' => counted = QuickScan)
       \/ job = "collect" /\ job' = "generate" /\ \A s \in Scanner : Quiet(s)
       \/ /\ job # "done" /\ job' = "done" /\ \A s \in Scanner : Quiet(s)
          /\ cmd.name = "scan" => /\ scan[cmd.scanner].pc = "done"
                                  /\ outcome' = scan[cmd.scanner].status
                                  /\ findings' = scan[cmd.scanner].findings

\* Such a step keeps the invariant.
LEMMA JobKeeps ==
    ASSUME IInv, JobStep
    PROVE  IInv'
<1>0. UNCHANGED <<scan, reports, script, main, exits, counted>> /\ cmd' = cmd /\ main # "idle"
  BY DEF JobStep, cmd
<1>1. PlaceType' /\ ReportInv' /\ CountedInv' /\ ExitTellsScan'
  BY <1>0 DEF IInv, JobStep, PlaceType, ReportInv, CountedInv, ExitTellsScan
<1>2. JobInv'
  BY <1>0 DEF IInv, JobStep, JobInv, Quiet
<1>3. MainInv'
  BY <1>0 DEF IInv, JobStep, MainInv
<1>4. ScanResultInv'
  BY <1>0 DEF IInv, JobStep, ScanResultInv
<1> QED
  BY <1>1, <1>2, <1>3, <1>4 DEF IInv

\* Where a job is, its command is running.
LEMMA JobFacts ==
    ASSUME IInv, job \in {"scan", "collect", "generate", "stage", "read"}
    PROVE  /\ main # "idle" /\ script # <<>> /\ script \in Seq(Command)
           /\ job = "scan" => cmd.name = "scan"
           /\ job \in {"collect", "generate"} => cmd.name = "assess"
           /\ job = "stage" => cmd.name = "pipeline"
           /\ job = "read" => Running(cmd) = {} /\ cmd.name # "scan"
           /\ \A s \in Scanner : scan[s].pc # "idle" => s \in Running(cmd)
<1>1. main # "idle" /\ script # <<>> /\ script \in Seq(Command)
  BY DEF IInv, JobInv, MainInv, PlaceType
<1>2. cmd.name = "scan" => Running(cmd) # {}
  BY <1>1, CommandFacts
<1> QED
  BY <1>1, <1>2 DEF IInv, JobInv

\* Every action of the job is such a step.
LEMMA JobSteps ==
    ASSUME IInv, JobWorks
    PROVE  JobStep
<1>1. CASE ScanEnds
  <2>1. /\ job = "scan" /\ scan[cmd.scanner].pc = "done" /\ job' = "done"
        /\ outcome' = scan[cmd.scanner].status /\ findings' = scan[cmd.scanner].findings
        /\ UNCHANGED <<scan, reports, script, main, exits, counted>>
    BY <1>1 DEF ScanEnds, JobEnds
  <2>2. /\ main # "idle" /\ Running(cmd) = {cmd.scanner}
        /\ \A s \in Scanner : scan[s].pc # "idle" => s \in Running(cmd)
    BY <2>1, JobFacts, CommandFacts
  <2>3. \A s \in Scanner : Quiet(s)
    BY <2>1, <2>2 DEF Quiet
  <2> QED
    BY <2>1, <2>2, <2>3 DEF JobStep
<1>2. CASE CloseResults \/ Collect
  <2>1. /\ job = "collect" /\ job' = "collect"
        /\ (closed' = closed) \/ counted = QuickScan
        /\ UNCHANGED <<scan, reports, script, main, exits, counted>>
    BY <1>2 DEF CloseResults, Collect
  <2>2. main # "idle" /\ (closed => counted = QuickScan)
    BY <2>1, JobFacts DEF IInv, JobInv
  <2> QED
    BY <2>1, <2>2 DEF JobStep
<1>3. CASE CollectEnds
  <2>1. /\ job = "collect" /\ closed /\ job' \in {"generate", "done"}
        /\ UNCHANGED <<scan, reports, script, main, exits, counted>>
    BY <1>3 DEF CollectEnds, JobEnds
  <2>2. /\ main # "idle" /\ cmd.name = "assess" /\ Running(cmd) = QuickScan
        /\ \A s \in Scanner : scan[s].pc # "idle" => s \in Running(cmd)
    BY <2>1, JobFacts, CommandFacts
  <2>3. counted = QuickScan /\ \A s \in counted : scan[s].pc = "sent"
    BY <2>1, <2>2 DEF IInv, JobInv
  <2>4. \A s \in Scanner : Quiet(s)
    BY <2>2, <2>3 DEF Quiet
  <2> QED
    BY <2>1, <2>2, <2>4 DEF JobStep
<1>4. CASE Assess
  <2>1. /\ job = "generate" /\ job' = "done"
        /\ UNCHANGED <<scan, reports, script, main, exits, counted>>
    BY <1>4 DEF Assess, JobEnds
  <2>2. main # "idle" /\ cmd.name = "assess" /\ \A s \in Scanner : Quiet(s)
    BY <2>1, JobFacts DEF IInv, JobInv
  <2> QED
    BY <2>1, <2>2 DEF JobStep
<1>5. CASE RunStage
  <2>1. /\ job = "stage" /\ \A s \in cmd.scanners : scan[s].pc = "done"
        /\ UNCHANGED <<scan, reports, script, main, exits, counted>>
    BY <1>5 DEF RunStage
  <2>2. job' = "done"
    <3> DEFINE ok == {s \in cmd.scanners : scan[s].status = "ok"}
    <3>1. \/ job' = "done"
          \/ \E order \in Orders(ok) :
                LET input == Extracted(order)
                    result == StageResult(input)
                IN  JobEnds(IF result = "success" /\ ok = cmd.scanners THEN "ok" ELSE "failed")
      BY <1>5, Zenon DEF RunStage, JobEnds
    <3> QED
      BY <3>1 DEF JobEnds
  <2>3. /\ main # "idle" /\ cmd.name = "pipeline" /\ Running(cmd) = cmd.scanners
        /\ \A s \in Scanner : scan[s].pc # "idle" => s \in Running(cmd)
    BY <2>1, JobFacts, CommandFacts
  <2>4. \A s \in Scanner : Quiet(s)
    BY <2>1, <2>3 DEF Quiet
  <2> QED
    BY <2>1, <2>2, <2>3, <2>4 DEF JobStep
<1>6. CASE CheckPolicy \/ ReportCompliance \/ ValidatePolicies
  <2>1. job = "read" /\ UNCHANGED <<scan, reports, script, main, exits, counted>>
    BY <1>6 DEF CheckPolicy, ReportCompliance, ValidatePolicies
  <2>2. job' = "done"
    BY <1>6 DEF CheckPolicy, ReportCompliance, ValidatePolicies, JobEnds
  <2>3. /\ main # "idle" /\ cmd.name # "scan" /\ Running(cmd) = {}
        /\ \A s \in Scanner : scan[s].pc # "idle" => s \in Running(cmd)
    BY <2>1, JobFacts
  <2>4. \A s \in Scanner : Quiet(s)
    BY <2>3 DEF Quiet
  <2> QED
    BY <2>1, <2>2, <2>3, <2>4 DEF JobStep
<1> QED
  BY <1>1, <1>2, <1>3, <1>4, <1>5, <1>6 DEF JobWorks

-----------------------------------------------------------------------------
(* The steps of main.                                                      *)

\* A command starts: scanners and job are new.
LEMMA StartKeeps ==
    ASSUME IInv, StartCommand
    PROVE  IInv'
<1> DEFINE pc(s) == IF s \in Running(cmd) THEN "start" ELSE "idle"
<1>1. /\ main = "idle" /\ script # <<>>
      /\ scan' = [s \in Scanner |-> [NewScan EXCEPT !.pc = pc(s)]]
      /\ job' = CASE cmd.name = "scan" -> "scan"
                  [] cmd.name = "assess" -> "collect"
                  [] cmd.name = "pipeline" -> "stage"
                  [] OTHER -> "read"
      /\ closed' = FALSE /\ counted' = {}
      /\ main' \in {"tui", "receive"}
      /\ UNCHANGED <<reports, script, exits>> /\ cmd' = cmd
  BY DEF StartCommand, NewJob, cmd
<1>2. /\ script \in Seq(Command)
      /\ cmd.name \in {"scan", "assess", "pipeline", "policy", "compliance", "validate"}
      /\ cmd.name \in {"policy", "compliance", "validate"} => Running(cmd) = {}
      /\ \A s \in Scanner : Quiet(s)
  BY <1>1, CommandFacts DEF IInv, PlaceType, MainInv
<1> DEFINE At(place) == [pc |-> place, status |-> "none", findings |-> <<>>, manifest |-> 1, deps |-> <<>>]
<1>3. \A s \in Scanner : scan'[s] = At(pc(s))
  BY <1>1 DEF NewScan
<1>3a. /\ IsScan(At("start")) /\ IsScan(At("idle"))
      /\ At("start").pc = "start" /\ At("idle").pc = "idle"
  BY DEF IsScan, ScanPlace
<1> HIDE DEF At
<1>3b. \A s \in Scanner : \/ s \in Running(cmd) /\ scan'[s] = At("start")
                          \/ s \notin Running(cmd) /\ scan'[s] = At("idle")
  <2> SUFFICES ASSUME NEW s \in Scanner
               PROVE  \/ s \in Running(cmd) /\ scan'[s] = At("start")
                      \/ s \notin Running(cmd) /\ scan'[s] = At("idle")
    OBVIOUS
  <2>1. CASE s \in Running(cmd)
    BY <1>3, <2>1
  <2>2. CASE s \notin Running(cmd)
    BY <1>3, <2>2
  <2> QED
    BY <2>1, <2>2
<1>4. \A s \in Scanner : IsScan(scan'[s])
  BY <1>3a, <1>3b
<1>5. /\ job' \in {"scan", "collect", "stage", "read"}
      /\ job' = "scan" => cmd.name = "scan"
      /\ job' = "collect" => cmd.name = "assess"
      /\ job' = "stage" => cmd.name = "pipeline"
      /\ job' = "read" => Running(cmd) = {}
  BY <1>1, <1>2
<1>6. PlaceType'
  <2>1. scan' = [s \in Scanner |-> scan'[s]]
    BY <1>1
  <2> QED
    BY <1>1, <1>4, <1>5, <2>1 DEF IInv, PlaceType
<1>7. ReportInv'
  <2>1. \A s \in Scanner : s \notin reports
    BY <1>2 DEF IInv, ReportInv, Quiet
  <2> QED
    BY <1>1, <2>1 DEF ReportInv
<1>8. JobInv'
  <2>1. \A s \in Scanner : scan'[s].pc # "idle" => s \in Running(cmd)
    BY <1>3a, <1>3b
  <2> QED
    BY <1>1, <1>5, <2>1 DEF JobInv
<1>9. MainInv' /\ CountedInv' /\ ScanResultInv' /\ ExitTellsScan'
  BY <1>1, <1>5 DEF MainInv, CountedInv, ScanResultInv, ExitTellsScan
<1> QED
  BY <1>6, <1>7, <1>8, <1>9 DEF IInv

\* The command returns, its job done; the exit code of a scan must be right.
LEMMA ReturnKeeps ==
    ASSUME IInv, NEW code \in {"ok", "found", "violation", "error"}, Return(code),
           main # "idle", job = "done",
           UNCHANGED <<scan, reports, job, counted>>,
           cmd.name = "scan" /\ code # "error" =>
              /\ scan[cmd.scanner].status = "ok"
              /\ (code = "found") = (scan[cmd.scanner].findings # <<>>)
    PROVE  IInv'
<1>1. /\ main' = "idle" /\ script' = Tail(script)
      /\ exits' = Append(exits, [cmd |-> cmd, code |-> code])
      /\ script \in Seq(Command) /\ script # <<>> /\ exits \in Seq(Exit)
  BY DEF Return, IInv, JobInv, PlaceType
<1>2. cmd \in Command /\ Tail(script) \in Seq(Command)
  BY <1>1, CommandFacts
<1>3. [cmd |-> cmd, code |-> code] \in Exit
  BY <1>2 DEF Exit
<1>4. exits' \in Seq(Exit) /\ Len(exits') \in Nat /\ exits'[Len(exits')] = [cmd |-> cmd, code |-> code]
  BY <1>1, <1>3, AppendProperties, LenProperties
<1>5. PlaceType' /\ ReportInv' /\ CountedInv'
  BY <1>1, <1>2, <1>4 DEF IInv, PlaceType, ReportInv, CountedInv
<1>6. \A s \in Scanner : Quiet(s)
  BY DEF IInv, JobInv
<1>7. JobInv' /\ MainInv' /\ ScanResultInv'
  BY <1>1, <1>6 DEF JobInv, MainInv, ScanResultInv, Quiet
<1>8. ExitTellsScan'
  BY <1>4 DEF ExitTellsScan, Found
<1> QED
  BY <1>5, <1>7, <1>8 DEF IInv

\* Main takes the result: the exit code of a scan that is not written is an
\* error.
LEMMA ReceiveKeeps ==
    ASSUME IInv, Receive
    PROVE  IInv'
<1>1. /\ main = "receive" /\ job = "done"
      /\ UNCHANGED <<scan, reports, job, closed, counted, findings, outcome>>
  BY DEF Receive, jobVars
<1>2. \/ \E code \in {"ok", "violation", "error"} : Return(code) /\ (cmd.name = "scan" => code = "error")
      \/ /\ cmd.name = "scan" /\ outcome # "failed"
         /\ main' = "output" /\ UNCHANGED <<script, exits>>
  BY Zenon DEF Receive
<1>3. ASSUME NEW code \in {"ok", "violation", "error"}, Return(code), cmd.name = "scan" => code = "error"
      PROVE  IInv'
  BY <1>1, <1>3, ReturnKeeps
<1>4. CASE cmd.name = "scan" /\ outcome # "failed" /\ main' = "output" /\ UNCHANGED <<script, exits>>
  <2>1. script # <<>> /\ script \in Seq(Command) /\ cmd' = cmd
    BY <1>1, <1>4 DEF IInv, JobInv, PlaceType, cmd
  <2>2. outcome = "ok"
    <3>1. cmd.scanner \in Scanner
      BY <1>4, <2>1, CommandFacts
    <3>2. outcome = scan[cmd.scanner].status /\ scan[cmd.scanner].pc = "done"
      BY <1>1, <1>4 DEF IInv, ScanResultInv
    <3> QED
      BY <1>4, <3>1, <3>2 DEF IInv, PlaceType, IsScan
  <2>3. PlaceType' /\ ReportInv' /\ CountedInv'
    BY <1>1, <1>4 DEF IInv, PlaceType, ReportInv, CountedInv
  <2>4. JobInv' /\ MainInv' /\ ScanResultInv'
    BY <1>1, <1>4, <2>1, <2>2 DEF IInv, JobInv, MainInv, ScanResultInv, Quiet
  <2>5. ExitTellsScan'
    BY <1>4 DEF ExitTellsScan
  <2> QED
    BY <2>3, <2>4, <2>5 DEF IInv
<1> QED
  BY <1>2, <1>3, <1>4

\* A scan command writes its findings and exits with what they are.
LEMMA OutputKeeps ==
    ASSUME IInv, Output
    PROVE  IInv'
<1>1. /\ main = "output"
      /\ UNCHANGED <<scan, reports, job, counted>>
      /\ Return("error") \/ Return(IF findings # <<>> THEN "found" ELSE "ok")
  BY DEF Output, jobVars
<1>2. job = "done" /\ cmd.name = "scan" /\ outcome = "ok"
  BY <1>1 DEF IInv, MainInv
<1>3. scan[cmd.scanner].status = "ok" /\ findings = scan[cmd.scanner].findings
  BY <1>1, <1>2 DEF IInv, ScanResultInv
<1>4. PICK code \in {"ok", "found", "error"} :
         Return(code) /\ (code # "error" => (code = "found") = (findings # <<>>))
  <2>1. CASE Return("error")
    BY <2>1
  <2>2. CASE Return(IF findings # <<>> THEN "found" ELSE "ok") /\ findings # <<>>
    BY <2>2
  <2>3. CASE Return(IF findings # <<>> THEN "found" ELSE "ok") /\ findings = <<>>
    BY <2>3
  <2> QED
    BY <1>1, <2>1, <2>2, <2>3
<1> QED
  BY <1>1, <1>2, <1>3, <1>4, ReturnKeeps

-----------------------------------------------------------------------------
(* The theorems.                                                           *)

\* The inductive invariant holds at first and is kept by every step.
LEMMA InitHolds == Init => IInv
<1> SUFFICES ASSUME Init PROVE IInv
  OBVIOUS
<1>1. /\ script \in Seq(Command)
      /\ scan = [s \in Scanner |-> NewScan] /\ reports = {}
      /\ main = "idle" /\ job = "idle" /\ counted = {} /\ exits = <<>>
  BY ScenariosAssumption DEF Init
<1>2. \A s \in Scanner : scan[s] = [pc |-> "idle", status |-> "none", findings |-> <<>>,
                                    manifest |-> 1, deps |-> <<>>]
  BY <1>1 DEF NewScan
<1>3. PlaceType
  <2>1. \A s \in Scanner : IsScan(scan[s])
    BY <1>2 DEF IsScan, ScanPlace
  <2>2. scan = [s \in Scanner |-> scan[s]] /\ exits \in Seq(Exit)
    BY <1>1
  <2> QED
    BY <1>1, <2>1, <2>2 DEF PlaceType
<1>4. ReportInv /\ CountedInv /\ JobInv /\ ScanResultInv /\ ExitTellsScan
  BY <1>1 DEF ReportInv, CountedInv, JobInv, ScanResultInv, ExitTellsScan
<1>5. MainInv
  BY <1>1, <1>2 DEF MainInv, Quiet
<1> QED
  BY <1>3, <1>4, <1>5 DEF IInv

LEMMA NextHolds == IInv /\ [Next]_vars => IInv'
<1> SUFFICES ASSUME IInv, [Next]_vars PROVE IInv'
  OBVIOUS
<1>1. CASE MainWorks
  BY <1>1, StartKeeps, ReceiveKeeps, OutputKeeps DEF MainWorks
<1>2. CASE TuiEnds
  <2>1. /\ main = "tui" /\ main' = "receive"
        /\ UNCHANGED <<scan, reports, script, job, closed, counted, findings, outcome, exits>>
        /\ cmd' = cmd
    BY <1>2 DEF TuiEnds, jobVars, cmd
  <2>2. PlaceType' /\ ReportInv' /\ CountedInv'
    BY <2>1 DEF IInv, PlaceType, ReportInv, CountedInv
  <2>3. JobInv'
    BY <2>1 DEF IInv, JobInv, Quiet
  <2>4. MainInv' /\ ScanResultInv' /\ ExitTellsScan'
    BY <2>1 DEF IInv, MainInv, ScanResultInv, ExitTellsScan
  <2> QED
    BY <2>2, <2>3, <2>4 DEF IInv
<1>3. CASE JobWorks
  BY <1>3, JobSteps, JobKeeps
<1>4. ASSUME NEW s \in Scanner, ScannerWorks(s) PROVE IInv'
  <2>1. CASE ScannerStep(s) /\ UNCHANGED other
    <3>1. Works(s)
      BY <2>1, StepWorks DEF IInv
    <3> QED
      BY <2>1, <3>1, WorksKeeps
  <2>2. CASE SendResult(s)
    BY <2>2, SendKeeps
  <2>3. CASE CountDone(s)
    BY <2>3, CountKeeps
  <2> QED
    BY <1>4, <2>1, <2>2, <2>3 DEF ScannerWorks, other
<1>5. ASSUME UNCHANGED <<scan, reports, other>> PROVE IInv'
  <2>1. /\ UNCHANGED <<scan, reports, script, main, job, closed, counted, findings, outcome, exits>>
        /\ cmd' = cmd
    BY <1>5 DEF other, jobVars, cmd
  <2>2. PlaceType' /\ ReportInv' /\ CountedInv'
    BY <2>1 DEF IInv, PlaceType, ReportInv, CountedInv
  <2>3. JobInv'
    BY <2>1 DEF IInv, JobInv, Quiet
  <2>4. MainInv' /\ ScanResultInv'
    BY <2>1 DEF IInv, MainInv, ScanResultInv, Quiet
  <2>5. ExitTellsScan'
    BY <2>1 DEF IInv, ExitTellsScan, Found
  <2> QED
    BY <2>2, <2>3, <2>4, <2>5 DEF IInv
<1>6. CASE Timeout \/ SessionEnded \/ UNCHANGED vars
  BY <1>5, <1>6 DEF Timeout, ContextEnds, SessionEnded, vars, other
<1> QED
  BY <1>1, <1>2, <1>3, <1>4, <1>6 DEF Next

\* Wherever the scanners, the job and main are, the scans are well formed, the
\* commands and exit codes are the declared ones, and a job works only for the
\* command that is running.
THEOREM PlacesCorrect == Spec => [](PlaceType /\ JobInv)
<1>1. IInv => PlaceType /\ JobInv
  BY DEF IInv
<1> QED
  BY <1>1, InitHolds, NextHolds, PTL DEF Spec

\* However the scans of a command end - with a result, an error, a canceled or
\* expired context, or a terminal UI that was quit - the temporary directory
\* holds no report of a scanner when the command has returned.
THEOREM CleansUp == Spec => []NoReportLeftBehind
<1>1. IInv => NoReportLeftBehind
  <2> SUFFICES ASSUME IInv, main = "idle" PROVE reports = {}
    BY DEF NoReportLeftBehind
  <2>1. \A s \in Scanner : s \notin reports
    BY DEF IInv, MainInv, ReportInv, Quiet
  <2> QED
    BY <2>1 DEF IInv, PlaceType
<1> QED
  BY <1>1, InitHolds, NextHolds, PTL DEF Spec

\* A scan command that exits with success or with "found" has a scanner that
\* has succeeded, without or with findings, whatever was typed before it, with
\* or without the UI.
THEOREM ExitCorrect == Spec => []ExitTellsScan
<1>1. IInv => ExitTellsScan
  BY DEF IInv
<1> QED
  BY <1>1, InitHolds, NextHolds, PTL DEF Spec

-----------------------------------------------------------------------------
(* What a scan finds: everything in the report of its program, or in the   *)
(* answers to its batches of dependencies.                                 *)

\* The findings that scanners make.  Gitleaks takes the fingerprint for the id.
FindingId == (STRING \X Nat) \cup (Scanner \X Nat) \cup ({"osv"} \X (Nat \X Nat))
AnyFinding ==
    [id : FindingId, scanner : Scanner, rule : STRING, severity : {"critical", "high", "medium", "low", "info"},
     file : STRING, line : Nat, cwe : SUBSET Nat]

\* The findings of a program's report.  Those of Gitleaks name no CWE, those of
\* the others are told apart by their place in the report.
LEMMA ToolFindingsType ==
    ASSUME NEW s \in Tool, NEW answer \in Seq(ToolResult)
    PROVE  /\ ToolFindings(s, answer) \in Seq(AnyFinding)
           /\ Len(ToolFindings(s, answer)) = Len(answer)
           /\ DOMAIN ToolFindings(s, answer) = 1..Len(answer)
           /\ \A i \in 1..Len(answer) :
                 /\ ToolFindings(s, answer)[i].scanner = s
                 /\ IF s = "gitleaks" THEN ToolFindings(s, answer)[i].cwe = {}
                    ELSE ToolFindings(s, answer)[i].id = <<s, i>>
<1> DEFINE n == Len(answer)
           F == ToolFindings(s, answer)
<1>1. n \in Nat /\ DOMAIN answer = 1..n /\ \A i \in 1..n : answer[i] \in ToolResult
  BY LenProperties, ElementOfSeq
<1>2. \A r \in ToolResult : /\ r.rule \in STRING /\ r.file \in STRING /\ r.line \in Nat
                            /\ r.cwe \in SUBSET Nat /\ r.fingerprint \in STRING \X Nat
  BY DEF ToolResult
<1> HIDE DEF n
<1>3. F = [i \in 1..n |->
             IF s = "gitleaks"
             THEN [id |-> answer[i].fingerprint, scanner |-> s, rule |-> answer[i].rule, severity |-> "high",
                   file |-> answer[i].file, line |-> answer[i].line, cwe |-> {}]
             ELSE [id |-> <<s, i>>, scanner |-> s, rule |-> answer[i].rule,
                   severity |-> IF s = "semgrep" THEN SemgrepSeverity(answer[i].level)
                                ELSE TrivySeverity(answer[i].level),
                   file |-> answer[i].file, line |-> IF s = "trivy" THEN 1 ELSE answer[i].line,
                   cwe |-> answer[i].cwe]]
  <2>1. CASE s = "gitleaks"
    <3>1. F = [i \in 1..n |-> [Finding("gitleaks", i, answer[i], "high")
                                 EXCEPT !.id = answer[i].fingerprint, !.cwe = {}]]
      BY <1>1, <2>1 DEF ToolFindings, GitleaksFindings
    <3>2. \A i : [Finding("gitleaks", i, answer[i], "high") EXCEPT !.id = answer[i].fingerprint, !.cwe = {}]
                 = [id |-> answer[i].fingerprint, scanner |-> "gitleaks", rule |-> answer[i].rule,
                    severity |-> "high", file |-> answer[i].file, line |-> answer[i].line, cwe |-> {}]
      <4> TAKE i
      <4> DEFINE made == Finding("gitleaks", i, answer[i], "high")
      <4>1. made = [id |-> <<"gitleaks", i>>, scanner |-> "gitleaks", rule |-> answer[i].rule,
                    severity |-> "high", file |-> answer[i].file, line |-> answer[i].line,
                    cwe |-> answer[i].cwe]
        BY DEF Finding
      <4> HIDE DEF made
      <4>2. PICK leak : leak = [made EXCEPT !.id = answer[i].fingerprint, !.cwe = {}]
        OBVIOUS
      <4>3. leak = [id |-> answer[i].fingerprint, scanner |-> "gitleaks", rule |-> answer[i].rule,
                    severity |-> "high", file |-> answer[i].file, line |-> answer[i].line, cwe |-> {}]
        BY <4>1, <4>2
      <4> QED
        BY <4>2, <4>3 DEF made
    <3> HIDE DEF F
    <3> QED
      BY <2>1, <3>1, <3>2
  <2>2. CASE s = "semgrep"
    <3>1. F = [i \in 1..n |-> Finding(s, i, answer[i], SemgrepSeverity(answer[i].level))]
      BY <1>1, <2>2 DEF ToolFindings, SemgrepFindings
    <3> HIDE DEF F
    <3> QED
      BY <2>2, <3>1 DEF Finding
  <2>3. CASE s = "trivy"
    BY <1>1, <2>3 DEF ToolFindings, TrivyFindings, Finding
  <2> QED
    BY <2>1, <2>2, <2>3 DEF Tool
<1>4. \A level : /\ SemgrepSeverity(level) \in {"high", "medium", "low", "info"}
                 /\ TrivySeverity(level) \in {"critical", "high", "medium", "low", "info"}
  BY DEF SemgrepSeverity, TrivySeverity
<1> HIDE DEF F
<1>5. ASSUME NEW i \in 1..n
      PROVE  /\ F[i] \in AnyFinding /\ F[i].scanner = s
             /\ IF s = "gitleaks" THEN F[i].cwe = {} ELSE F[i].id = <<s, i>>
  <2>1. s \in Scanner /\ i \in Nat /\ answer[i] \in ToolResult
    BY <1>1 DEF Scanner
  <2>2. CASE s = "gitleaks"
    <3>1. F[i] = [id |-> answer[i].fingerprint, scanner |-> s, rule |-> answer[i].rule, severity |-> "high",
                  file |-> answer[i].file, line |-> answer[i].line, cwe |-> {}]
      BY <1>3, <2>2
    <3>2. answer[i].fingerprint \in FindingId
      BY <1>2, <2>1 DEF FindingId
    <3> QED
      BY <1>2, <2>1, <2>2, <3>1, <3>2 DEF AnyFinding
  <2>3. CASE s # "gitleaks"
    <3>1. PICK severity \in {"critical", "high", "medium", "low", "info"}, line \in Nat :
             F[i] = [id |-> <<s, i>>, scanner |-> s, rule |-> answer[i].rule, severity |-> severity,
                     file |-> answer[i].file, line |-> line, cwe |-> answer[i].cwe]
      <4>1. PICK severity \in {"critical", "high", "medium", "low", "info"} :
               severity = IF s = "semgrep" THEN SemgrepSeverity(answer[i].level)
                          ELSE TrivySeverity(answer[i].level)
        BY <1>4
      <4>2. PICK line \in Nat : line = IF s = "trivy" THEN 1 ELSE answer[i].line
        BY <1>2, <2>1
      <4> QED
        BY <1>3, <2>3, <4>1, <4>2
    <3>2. <<s, i>> \in FindingId
      BY <2>1 DEF FindingId
    <3> QED
      BY <1>2, <2>1, <2>3, <3>1, <3>2 DEF AnyFinding
  <2> QED
    BY <2>2, <2>3
<1>6. F = [i \in 1..n |-> F[i]]
  BY <1>3
<1>7. F \in Seq(AnyFinding) /\ Len(F) = n /\ DOMAIN F = 1..n
  BY <1>1, <1>5, <1>6
<1> QED
  BY <1>5, <1>7 DEF F, n

\* The findings of a batch: one for every vulnerability in an answer, and the
\* id tells the place of the finding among those of the scan.
LEMMA OsvFindingsType ==
    ASSUME NEW lines \in Seq(ManifestLine), NEW first \in Nat, NEW answers \in Seq(Seq(Vulnerability)),
           Len(answers) = Len(lines)
    PROVE  /\ OsvFindings(lines, first, answers) \in Seq(AnyFinding)
           /\ Len(OsvFindings(lines, first, answers)) = Len(Concat(answers, Len(lines)))
           /\ \A j \in 1..Len(OsvFindings(lines, first, answers)) :
                 /\ OsvFindings(lines, first, answers)[j].scanner = "osv"
                 /\ OsvFindings(lines, first, answers)[j].id = <<"osv", <<first, j>>>>
<1> DEFINE n == Len(lines)
           vulns == Concat(answers, n)
           dep(j) == CHOOSE d \in 1..n : Len(Concat(answers, d - 1)) < j /\ j <= Len(Concat(answers, d))
           F == OsvFindings(lines, first, answers)
<1>1. /\ n \in Nat /\ \A d \in 1..n : lines[d] \in ManifestLine /\ answers[d] \in Seq(Vulnerability)
      /\ Len(answers) = n
  BY LenProperties, ElementOfSeq
<1>2. \A m \in 0..n : Concat(answers, m) \in Seq(Vulnerability) /\ Len(Concat(answers, m)) \in Nat
  BY <1>1, ConcatIsSeq, LenProperties
<1>3. vulns \in Seq(Vulnerability) /\ Len(vulns) \in Nat /\ DOMAIN vulns = 1..Len(vulns)
      /\ \A j \in 1..Len(vulns) : vulns[j] \in Vulnerability
  <2>1. n \in 0..n
    BY <1>1
  <2>2. vulns \in Seq(Vulnerability)
    BY <1>2, <2>1
  <2> HIDE DEF vulns
  <2> QED
    BY <2>2, LenProperties, ElementOfSeq
<1>4. F = [j \in DOMAIN vulns |->
             Finding("osv", <<first, j>>, [rule |-> vulns[j].rule, file |-> lines[dep(j)].file,
                                           line |-> 0, cwe |-> vulns[j].cwe], OsvSeverity(vulns[j]))]
  BY <1>1 DEF OsvFindings
<1>5. ASSUME NEW j \in 1..Len(vulns) PROVE dep(j) \in 1..n
  <2> DEFINE T == {d \in 1..n : j <= Len(Concat(answers, d))}
  <2>1. T \in SUBSET Nat
    BY <1>1
  <2>2. n \in T
    <3>1. n # 0
      <4>1. Concat(answers, 0) = <<>>
        BY ConcatUnfolds
      <4> QED
        BY <1>3, <4>1
    <3> QED
      BY <1>1, <1>3, <3>1
  <2>3. PICK d \in T : \A e \in T : d <= e
    <3> HIDE DEF T
    <3> QED
      BY <2>1, <2>2, Least
  <2>4. d \in 1..n /\ j <= Len(Concat(answers, d))
    BY <2>3
  <2>5. Len(Concat(answers, d - 1)) < j
    <3>1. CASE d = 1
      <4>1. Concat(answers, 0) = <<>>
        BY ConcatUnfolds
      <4>2. d - 1 = 0
        BY <3>1
      <4> QED
        BY <1>3, <4>1, <4>2
    <3>2. CASE d # 1
      <4>1. d - 1 \in 1..n /\ d - 1 \in 0..n /\ ~(d <= d - 1)
        BY <1>1, <2>4, <3>2
      <4>2. ~(j <= Len(Concat(answers, d - 1)))
        BY <2>3, <4>1
      <4>3. Len(Concat(answers, d - 1)) \in Nat
        BY <1>2, <4>1
      <4> QED
        BY <1>3, <4>2, <4>3
    <3> QED
      BY <3>1, <3>2
  <2> QED
    BY <2>4, <2>5
<1> HIDE DEF vulns, dep, F
<1>6. \A v \in Vulnerability : /\ OsvSeverity(v) \in {"high", "medium", "info"}
                               /\ v.rule \in STRING /\ v.cwe \in SUBSET Nat
  BY DEF OsvSeverity, Vulnerability
<1>7. ASSUME NEW j \in 1..Len(vulns)
      PROVE  F[j] \in AnyFinding /\ F[j].scanner = "osv" /\ F[j].id = <<"osv", <<first, j>>>>
  <2>1. vulns[j] \in Vulnerability /\ lines[dep(j)].file \in STRING /\ j \in Nat
    BY <1>1, <1>3, <1>5 DEF ManifestLine
  <2>2. F[j] = Finding("osv", <<first, j>>, [rule |-> vulns[j].rule, file |-> lines[dep(j)].file,
                                             line |-> 0, cwe |-> vulns[j].cwe], OsvSeverity(vulns[j]))
    BY <1>3, <1>4
  <2>3. F[j] = [id |-> <<"osv", <<first, j>>>>, scanner |-> "osv", rule |-> vulns[j].rule,
                severity |-> OsvSeverity(vulns[j]), file |-> lines[dep(j)].file, line |-> 0,
                cwe |-> vulns[j].cwe]
    BY <2>2 DEF Finding
  <2>4. <<"osv", <<first, j>>>> \in FindingId
    BY <2>1 DEF FindingId
  <2>5. "osv" \in Scanner
    BY DEF Scanner
  <2> QED
    BY <1>6, <2>1, <2>3, <2>4, <2>5 DEF AnyFinding
<1>8. F = [j \in 1..Len(vulns) |-> F[j]]
  BY <1>3, <1>4
<1>9. F \in Seq(AnyFinding) /\ Len(F) = Len(vulns)
  BY <1>3, <1>7, <1>8
<1> QED
  BY <1>7, <1>9 DEF F, vulns, n

\* The dependencies of the manifests, and the vulnerabilities of each.
ManifestDeps(t) ==
    [m \in DOMAIN Manifest |->
        LET manifest == t.manifests[Manifest[m]]
        IN  IF manifest.readable THEN Dependencies(Manifest[m], manifest.lines) ELSE <<>>]
AllDeps(t) == Concat(ManifestDeps(t), Len(Manifest))
Vulns(t) == [d \in DOMAIN AllDeps(t) |-> AllDeps(t)[d].vulns]

TargetOk(t) ==
    /\ t.tool \in [Tool -> ToolRun]
    /\ t.manifests \in [{Manifest[i] : i \in DOMAIN Manifest} -> ManifestFile]

\* There are three manifests.
LEMMA ManifestFacts ==
    /\ Len(Manifest) = 3 /\ DOMAIN Manifest = 1..3
    /\ \A i \in 1..3 : Manifest[i] \in {"go.mod", "package.json", "requirements.txt"}
    /\ {Manifest[i] : i \in DOMAIN Manifest} = {"go.mod", "package.json", "requirements.txt"}
<1>1. /\ Len(Manifest) = 3 /\ DOMAIN Manifest = 1..3
      /\ Manifest[1] = "go.mod" /\ Manifest[2] = "package.json" /\ Manifest[3] = "requirements.txt"
  BY DEF Manifest
<1>2. \A i \in 1..3 : i = 1 \/ i = 2 \/ i = 3
  OBVIOUS
<1>3. \A i \in 1..3 : Manifest[i] \in {"go.mod", "package.json", "requirements.txt"}
  BY <1>1, <1>2
<1>4. 1 \in DOMAIN Manifest /\ 2 \in DOMAIN Manifest /\ 3 \in DOMAIN Manifest
  BY <1>1
<1> HIDE DEF Manifest
<1> QED
  BY <1>1, <1>3, <1>4

\* The lines of some kinds are lines.
LEMMA OfKindType ==
    ASSUME NEW lines \in Seq(ManifestLine), NEW kinds
    PROVE  OfKind(lines, kinds) \in Seq(ManifestLine)
<1> DEFINE n == Len(lines)
           f == [i \in DOMAIN lines |-> IF lines[i].kind \in kinds THEN <<lines[i]>> ELSE <<>>]
<1>1. n \in Nat /\ DOMAIN lines = 1..n /\ \A i \in 1..n : lines[i] \in ManifestLine
  BY LenProperties, ElementOfSeq
<1>2. ASSUME NEW i \in 1..n PROVE f[i] \in Seq(ManifestLine)
  <2>1. lines[i] \in ManifestLine /\ f[i] \in {<<lines[i]>>, <<>>}
    BY <1>1
  <2>2. <<lines[i]>> \in Seq(ManifestLine) /\ <<>> \in Seq(ManifestLine)
    BY <2>1
  <2> QED
    BY <2>1, <2>2
<1>3. OfKind(lines, kinds) = Concat(f, n)
  BY DEF OfKind
<1>4. n \in 0..n
  BY <1>1
<1> HIDE DEF f, n
<1> QED
  BY <1>1, <1>2, <1>3, <1>4, ConcatIsSeq

\* So are the dependencies of a manifest.
LEMMA DependenciesType ==
    ASSUME NEW name \in {"go.mod", "package.json", "requirements.txt"}, NEW lines \in Seq(ManifestLine)
    PROVE  Dependencies(name, lines) \in Seq(ManifestLine)
<1>1. CASE name = "go.mod"
  BY <1>1, OfKindType DEF Dependencies, GoModDependencies
<1>2. CASE name = "package.json"
  <2>1. PackageJSONDependencies(lines) \in {lines, <<>>}
    BY DEF PackageJSONDependencies
  <2> QED
    BY <1>2, <2>1, EmptySeq DEF Dependencies
<1>3. CASE name = "requirements.txt"
  BY <1>3, OfKindType DEF Dependencies, RequirementsDependencies
<1> QED
  BY <1>1, <1>2, <1>3

\* The dependencies of a project and their vulnerabilities are sequences.
LEMMA DepsFacts ==
    ASSUME NEW t, TargetOk(t)
    PROVE  /\ \A m \in 1..3 : ManifestDeps(t)[m] \in Seq(ManifestLine)
           /\ \A m \in 0..3 : Concat(ManifestDeps(t), m) \in Seq(ManifestLine)
           /\ AllDeps(t) = Concat(ManifestDeps(t), 3) /\ AllDeps(t) \in Seq(ManifestLine)
           /\ DOMAIN Vulns(t) = 1..Len(AllDeps(t))
           /\ \A d \in 1..Len(AllDeps(t)) : /\ Vulns(t)[d] = AllDeps(t)[d].vulns
                                            /\ Vulns(t)[d] \in Seq(Vulnerability)
<1>1. ASSUME NEW m \in 1..3 PROVE ManifestDeps(t)[m] \in Seq(ManifestLine)
  <2> DEFINE manifest == t.manifests[Manifest[m]]
  <2>1. manifest \in ManifestFile
    BY ManifestFacts DEF TargetOk
  <2>2. manifest.lines \in Seq(ManifestLine)
    BY <2>1 DEF ManifestFile
  <2>3. Dependencies(Manifest[m], manifest.lines) \in Seq(ManifestLine)
    BY <2>2, ManifestFacts, DependenciesType
  <2>4. ManifestDeps(t)[m] \in {Dependencies(Manifest[m], manifest.lines), <<>>}
    BY ManifestFacts DEF ManifestDeps
  <2> QED
    BY <2>3, <2>4, EmptySeq
<1>2. \A m \in 0..3 : Concat(ManifestDeps(t), m) \in Seq(ManifestLine)
  BY <1>1, ConcatIsSeq
<1>3. AllDeps(t) = Concat(ManifestDeps(t), 3) /\ AllDeps(t) \in Seq(ManifestLine)
  BY <1>2, ManifestFacts DEF AllDeps
<1>4. DOMAIN AllDeps(t) = 1..Len(AllDeps(t)) /\ \A d \in 1..Len(AllDeps(t)) : AllDeps(t)[d] \in ManifestLine
  BY <1>3, LenProperties, ElementOfSeq
<1>5. \A line \in ManifestLine : line.vulns \in Seq(Vulnerability)
  BY DEF ManifestLine
<1> QED
  BY <1>1, <1>2, <1>3, <1>4, <1>5 DEF Vulns

\* The n parts of g are those of f from k on.
Continues(S, f, g, k, n) ==
    /\ k \in Nat /\ n \in Nat
    /\ \A i \in 1..(k + n) : f[i] \in Seq(S)
    /\ \A i \in 1..n : g[i] = f[k + i]

\* The length of a Concat is that of its first parts and that of the rest.
LEMMA ConcatSplits ==
    ASSUME NEW S, NEW f, NEW g, NEW k, NEW n, Continues(S, f, g, k, n)
    PROVE  Len(Concat(f, k + n)) = Len(Concat(f, k)) + Len(Concat(g, n))
<1> k \in Nat /\ n \in Nat
  BY DEF Continues
<1> \A i \in 1..(k + n) : f[i] \in Seq(S)
  BY DEF Continues
<1> \A i \in 1..n : g[i] = f[k + i]
  BY DEF Continues
<1> DEFINE T == {m \in Nat : m <= n => Len(Concat(f, k + m)) = Len(Concat(f, k)) + Len(Concat(g, m))}
<1>0. \A m \in 0..(k + n) : Concat(f, m) \in Seq(S) /\ Len(Concat(f, m)) \in Nat
  <2>1. k + n \in Nat
    OBVIOUS
  <2> QED
    BY <2>1, ConcatIsSeq, LenProperties
<1>a. \A m \in 0..n : Concat(g, m) \in Seq(S) /\ Len(Concat(g, m)) \in Nat
  <2>1. \A i \in 1..n : g[i] \in Seq(S)
    <3> SUFFICES ASSUME NEW i \in 1..n PROVE g[i] \in Seq(S)
      OBVIOUS
    <3>1. k + i \in 1..(k + n)
      OBVIOUS
    <3> QED
      BY <3>1
  <2> QED
    BY <2>1, ConcatIsSeq, LenProperties
<1>1. 0 \in T
  <2>1. Concat(g, 0) = <<>> /\ k + 0 = k /\ Len(Concat(f, k)) \in Nat
    BY <1>0, ConcatUnfolds
  <2> QED
    BY <2>1
<1>2. ASSUME NEW m \in Nat, m \in T PROVE m + 1 \in T
  <2> SUFFICES ASSUME m + 1 <= n
               PROVE  Len(Concat(f, k + (m + 1))) = Len(Concat(f, k)) + Len(Concat(g, m + 1))
    OBVIOUS
  <2>1. /\ Len(Concat(f, k + m)) = Len(Concat(f, k)) + Len(Concat(g, m))
        /\ m + 1 \in 1..n /\ m \in 0..n /\ k + m \in 0..(k + n) /\ k \in 0..(k + n)
        /\ (k + m) + 1 \in 1..(k + n) /\ k + (m + 1) = (k + m) + 1 /\ k + m \in Nat
    BY <1>2
  <2>2. /\ Concat(f, (k + m) + 1) = Concat(f, k + m) \o f[(k + m) + 1]
        /\ Concat(g, m + 1) = Concat(g, m) \o g[m + 1]
    BY <2>1, ConcatUnfolds
  <2>3. g[m + 1] = f[(k + m) + 1] /\ f[(k + m) + 1] \in Seq(S)
    BY <2>1
  <2>4. Concat(f, k + m) \in Seq(S) /\ Concat(g, m) \in Seq(S) /\ Len(f[(k + m) + 1]) \in Nat
    BY <1>0, <1>a, <2>1, <2>3, LenProperties
  <2>5. Len(Concat(f, (k + m) + 1)) = Len(Concat(f, k + m)) + Len(f[(k + m) + 1])
    <3> DEFINE u == k + m
    <3>1. Concat(f, u + 1) = Concat(f, u) \o f[u + 1] /\ Concat(f, u) \in Seq(S) /\ f[u + 1] \in Seq(S)
      BY <2>2, <2>3, <2>4
    <3> HIDE DEF u
    <3>2. Len(Concat(f, u + 1)) = Len(Concat(f, u)) + Len(f[u + 1])
      BY <3>1, ConcatProperties
    <3> QED
      BY <3>2 DEF u
  <2>6. Len(Concat(g, m + 1)) = Len(Concat(g, m)) + Len(f[(k + m) + 1])
    BY <2>2, <2>3, <2>4, ConcatProperties
  <2>7. PICK a \in Nat, b \in Nat, c \in Nat :
           a = Len(Concat(f, k)) /\ b = Len(Concat(g, m)) /\ c = Len(f[(k + m) + 1])
    BY <1>0, <1>a, <2>1, <2>4
  <2>8. Len(Concat(f, (k + m) + 1)) = (a + b) + c /\ Len(Concat(g, m + 1)) = b + c
    BY <2>1, <2>5, <2>6, <2>7
  <2>9. (a + b) + c = a + (b + c)
    OBVIOUS
  <2> QED
    BY <2>1, <2>7, <2>8, <2>9
<1>3. Nat \subseteq T
  <2> HIDE DEF T
  <2> QED
    BY <1>1, <1>2, Induction
<1> QED
  BY <1>3

\* f has n parts, all of them sequences over S.
IsParts(S, f, n) == n \in Nat /\ DOMAIN f = 1..n /\ \A i \in 1..n : f[i] \in Seq(S)

\* There are as many places <<part, item>> as the joined sequence is long.
LEMMA ConcatCounts ==
    ASSUME NEW S, NEW f, NEW n, IsParts(S, f, n)
    PROVE  Len(Concat(f, n)) = Cardinality(UNION {{i} \X DOMAIN f[i] : i \in DOMAIN f})
<1> n \in Nat /\ DOMAIN f = 1..n /\ \A i \in 1..n : f[i] \in Seq(S)
  BY DEF IsParts
<1> DEFINE P(m) == {p \in (1..m) \X Nat : p[2] \in 1..Len(f[p[1]])}
           T == {m \in Nat : m <= n => IsFiniteSet(P(m)) /\ Cardinality(P(m)) = Len(Concat(f, m))}
<1>0. /\ \A i \in 1..n : Len(f[i]) \in Nat /\ DOMAIN f[i] = 1..Len(f[i])
      /\ \A m \in 0..n : Concat(f, m) \in Seq(S)
  BY LenProperties, ConcatIsSeq
<1>1. 0 \in T
  <2>1. P(0) = {}
    OBVIOUS
  <2>2. Concat(f, 0) = <<>>
    BY ConcatUnfolds
  <2> HIDE DEF P
  <2> QED
    BY <2>1, <2>2, FS_EmptySet
<1>2. ASSUME NEW m \in Nat, m \in T PROVE m + 1 \in T
  <2> SUFFICES ASSUME m + 1 <= n
               PROVE  IsFiniteSet(P(m + 1)) /\ Cardinality(P(m + 1)) = Len(Concat(f, m + 1))
    OBVIOUS
  <2> DEFINE d == m + 1
             L == Len(f[d])
             Q == {d} \X (1..L)
             g == [x \in 1..L |-> <<d, x>>]
  <2>1. /\ IsFiniteSet(P(m)) /\ Cardinality(P(m)) = Len(Concat(f, m))
        /\ d \in 1..n /\ m \in 0..n /\ L \in Nat
    BY <1>0, <1>2
  <2>2. Len(Concat(f, d)) = Len(Concat(f, m)) + L /\ Len(Concat(f, m)) \in Nat
    <3>1. Concat(f, d) = Concat(f, m) \o f[d]
      BY ConcatUnfolds
    <3> HIDE DEF d
    <3> QED
      BY <1>0, <2>1, <3>1, ConcatProperties, LenProperties
  <2>3. g \in Bijection(1..L, Q)
    <3>1. g \in [1..L -> Q]
      OBVIOUS
    <3>2. \A x, y \in 1..L : g[x] = g[y] => x = y
      OBVIOUS
    <3>3. \A q \in Q : \E x \in 1..L : g[x] = q
      OBVIOUS
    <3> HIDE DEF g, Q
    <3> QED
      BY <3>1, <3>2, <3>3 DEF Bijection, Injection, Surjection, IsInjective
  <2>4. IsFiniteSet(1..L) /\ Cardinality(1..L) = L
    <3> HIDE DEF L
    <3>1. L \in Nat
      BY <2>1
    <3>2. IsFiniteSet(1..L) /\ Cardinality(1..L) = IF 1 > L THEN 0 ELSE L - 1 + 1
      BY <3>1, FS_Interval
    <3> QED
      BY <3>1, <3>2
  <2>5. IsFiniteSet(Q) /\ Cardinality(Q) = L
    <3>1. ExistsBijection(1..L, Q)
      BY <2>3 DEF ExistsBijection
    <3> HIDE DEF Q, L
    <3> QED
      BY <2>4, <3>1, FS_Bijection
  <2>6. P(d) = P(m) \cup Q /\ P(m) \cap Q = {}
    <3>1. \A i : i \in 1..d <=> i \in 1..m \/ i = d
      OBVIOUS
    <3>2. d \notin 1..m /\ 1..L \subseteq Nat
      BY <2>1
    <3> HIDE DEF d
    <3>3. \A p : p \in P(d) <=> p \in P(m) \/ p \in Q
      BY <3>1, <3>2
    <3>4. \A p : p \in P(m) => p \notin Q
      BY <3>2
    <3> QED
      BY <3>3, <3>4
  <2> HIDE DEF P, Q, L, d
  <2>7. /\ IsFiniteSet(P(m) \cup Q)
        /\ Cardinality(P(m) \cup Q) = Cardinality(P(m)) + Cardinality(Q) - Cardinality({})
    BY <2>1, <2>5, <2>6, FS_Union, ZenonT(40)
  <2>8. Cardinality({}) = 0
    BY FS_EmptySet
  <2>9. IsFiniteSet(P(d)) /\ Cardinality(P(d)) = Len(Concat(f, d))
    BY <2>1, <2>2, <2>5, <2>6, <2>7, <2>8
  <2> QED
    BY <2>9 DEF d
<1>3. Nat \subseteq T
  <2> HIDE DEF T
  <2> QED
    BY <1>1, <1>2, Induction
<1>4. Cardinality(P(n)) = Len(Concat(f, n))
  <2> HIDE DEF P
  <2> QED
    BY <1>3
<1>5. P(n) = UNION {{i} \X DOMAIN f[i] : i \in DOMAIN f}
  <2>1. \A p : p \in P(n) <=> \E i \in 1..n : p \in {i} \X (1..Len(f[i]))
    BY <1>0
  <2> HIDE DEF P
  <2>2. \A p : p \in UNION {{i} \X DOMAIN f[i] : i \in DOMAIN f} <=> \E i \in 1..n : p \in {i} \X (1..Len(f[i]))
    BY <1>0
  <2> QED
    BY <2>1, <2>2
<1> QED
  BY <1>4, <1>5

\* The findings of the report of a program.
Reported(t, s) ==
    IF t.tool[s].report = "results" THEN ToolFindings(s, t.tool[s].results) ELSE <<>>

\* The scan r with program s: nothing is found before its report is read.
ToolOk(t, s, r) ==
    /\ r.pc \notin {"done", "sent"} => r.findings = <<>>
    /\ r.pc \in {"done", "sent"} /\ r.status = "failed" => r.findings = <<>>
    /\ r.pc \in {"done", "sent"} /\ r.status = "ok" =>
          t.tool[s].report \in {"empty", "results"} /\ r.findings = Reported(t, s)

\* What is left of a sequence after its first k.
Rest(left, all, k) == Len(left) = Len(all) - k /\ \A i \in 1..Len(left) : left[i] = all[k + i]

\* The id of a finding of OSV tells its place.
Placed(q) ==
    \A p \in 1..Len(q) :
        /\ q[p].scanner = "osv"
        /\ \E a, b \in Nat : q[p].id = <<"osv", <<a, b>>>> /\ a + b = p

\* The scan o with the OSV service: while the context lives, the dependencies of
\* all manifests are read, and the vulnerabilities of the first k are found.
OsvOk(t, c, o) ==
    /\ o.deps \in Seq(ManifestLine)
    /\ o.findings \in Seq(AnyFinding) /\ Placed(o.findings)
    /\ o.pc \in {"idle", "start", "manifests"} => o.findings = <<>>
    /\ o.pc \in {"idle", "start"} => o.deps = <<>> /\ o.manifest = 1
    /\ o.pc = "manifests" =>
          /\ o.manifest \in 1..4
          /\ c = "live" => o.deps = Concat(ManifestDeps(t), o.manifest - 1)
    /\ o.pc = "query" /\ c = "live" =>
          \E k \in 0..Len(AllDeps(t)) :
              Rest(o.deps, AllDeps(t), k) /\ Len(o.findings) = Len(Concat(Vulns(t), k))
    /\ o.pc \in {"done", "sent"} /\ o.status = "failed" => o.findings = <<>>
    /\ o.pc \in {"done", "sent"} /\ o.status = "ok" /\ c = "live" =>
          Len(o.findings) = Len(Concat(Vulns(t), Len(AllDeps(t))))

DataInv ==
    /\ ctx \in {"live", "done"}
    /\ TargetOk(target)
    /\ \A s \in Tool : ToolOk(target, s, scan[s])
    /\ OsvOk(target, ctx, scan["osv"])

\* A program's scan goes on.
LEMMA ToolData ==
    ASSUME IInv, DataInv, NEW s \in Tool, StartTool(s) \/ RunTool(s) \/ ParseReport(s)
    PROVE  DataInv'
<1>0. /\ target' = target /\ ctx' = ctx /\ s \in Scanner /\ s # "osv" /\ "osv" \in Scanner
      /\ scan[s].pc \in {"start", "run", "parse"} /\ ToolOk(target, s, scan[s]) /\ TargetOk(target)
      /\ PlaceType /\ ctx \in {"live", "done"}
  BY DEF StartTool, RunTool, ParseReport, Scanner, Tool, DataInv, IInv
<1>1. \/ \E pc \in {"run", "parse"} : Goto(s, pc)
      \/ Finish(s, "failed", <<>>)
      \/ target.tool[s].report \in {"empty", "results"} /\ Finish(s, "ok", Reported(target, s))
  <2>1. CASE StartTool(s)
    BY <2>1 DEF StartTool, Fail
  <2>2. CASE RunTool(s)
    BY <2>2 DEF RunTool, Fail
  <2>3. CASE ParseReport(s)
    <3>1. target.tool[s].report \in {"missing", "large", "malformed", "empty", "results"}
      BY <1>0 DEF TargetOk, ToolRun
    <3>2. CASE ctx = "done" \/ target.tool[s].report \in {"missing", "large", "malformed"}
      BY <2>3, <3>2 DEF ParseReport, Fail
    <3>3. CASE ctx # "done" /\ target.tool[s].report = "empty"
      BY <2>3, <3>3 DEF ParseReport, Reported
    <3>4. CASE ctx # "done" /\ target.tool[s].report = "results"
      BY <2>3, <3>4 DEF ParseReport, Reported
    <3> QED
      BY <3>1, <3>2, <3>3, <3>4
  <2> QED
    BY <2>1, <2>2, <2>3
<1>2. \E pc \in ScanPlace : MovesTo(s, pc)
  <2>1. ASSUME NEW pc \in {"run", "parse"}, Goto(s, pc) PROVE MovesTo(s, pc)
    BY <1>0, <2>1, GotoMoves DEF ScanPlace
  <2>2. ASSUME NEW status \in {"ok", "failed"}, NEW found, Finish(s, status, found) PROVE MovesTo(s, "done")
    BY <1>0, <2>2, FinishMoves
  <2> QED
    BY <1>1, <2>1, <2>2 DEF ScanPlace
<1>3. \A t \in Scanner \ {s} : scan'[t] = scan[t]
  BY <1>2 DEF MovesTo
<1>4. ToolOk(target, s, scan'[s])
  <2>1. CASE \E pc \in {"run", "parse"} : Goto(s, pc)
    <3>1. PICK pc \in {"run", "parse"} : Goto(s, pc)
      BY <2>1
    <3>2. scan'[s].pc = pc /\ scan'[s].findings = scan[s].findings
      BY <1>0, <3>1, GotoMoves DEF ScanPlace, MovesTo
    <3>3. scan[s].findings = <<>>
      BY <1>0 DEF ToolOk
    <3> QED
      BY <3>2, <3>3 DEF ToolOk
  <2>2. CASE Finish(s, "failed", <<>>)
    <3>1. scan'[s].pc = "done" /\ scan'[s].status = "failed" /\ scan'[s].findings = <<>>
      BY <1>0, <2>2, FinishMoves DEF MovesTo
    <3> QED
      BY <3>1 DEF ToolOk
  <2>3. CASE target.tool[s].report \in {"empty", "results"} /\ Finish(s, "ok", Reported(target, s))
    <3>1. scan'[s].pc = "done" /\ scan'[s].status = "ok" /\ scan'[s].findings = Reported(target, s)
      BY <1>0, <2>3, FinishMoves DEF MovesTo
    <3> QED
      BY <2>3, <3>1 DEF ToolOk
  <2> QED
    BY <1>1, <2>1, <2>2, <2>3
<1>5. \A t \in Tool : ToolOk(target, t, scan'[t])
  BY <1>3, <1>4 DEF DataInv, Scanner
<1>6. OsvOk(target, ctx, scan'["osv"])
  BY <1>0, <1>3 DEF DataInv
<1> QED
  BY <1>0, <1>5, <1>6 DEF DataInv

\* What the scanners have found are findings of their own.
LEMMA FindingsType ==
    ASSUME IInv, DataInv, NEW s \in Scanner
    PROVE  /\ scan[s].findings \in Seq(AnyFinding)
           /\ \A i \in 1..Len(scan[s].findings) : scan[s].findings[i].scanner = s
<1>1. CASE s = "osv"
  BY <1>1 DEF DataInv, OsvOk, Placed
<1>2. CASE s # "osv"
  <2>1. s \in Tool /\ TargetOk(target) /\ ToolOk(target, s, scan[s]) /\ IsScan(scan[s])
    BY <1>2 DEF Scanner, DataInv, IInv, PlaceType
  <2>2. target.tool[s].results \in Seq(ToolResult)
    BY <2>1 DEF TargetOk, ToolRun
  <2>3. CASE scan[s].findings = <<>>
    BY <2>3, EmptySeq
  <2>4. CASE scan[s].findings = ToolFindings(s, target.tool[s].results)
    BY <2>1, <2>2, <2>4, ToolFindingsType
  <2>5. scan[s].findings \in {<<>>, ToolFindings(s, target.tool[s].results)}
    <3>1. CASE scan[s].pc \notin {"done", "sent"}
      BY <2>1, <3>1 DEF ToolOk
    <3>2. CASE scan[s].pc \in {"done", "sent"} /\ scan[s].status = "failed"
      BY <2>1, <3>2 DEF ToolOk
    <3>3. CASE scan[s].pc \in {"done", "sent"} /\ scan[s].status = "ok"
      BY <2>1, <3>3 DEF ToolOk, Reported
    <3> QED
      BY <2>1, <3>1, <3>2, <3>3 DEF IsScan
  <2> QED
    BY <2>3, <2>4, <2>5
<1> QED
  BY <1>1, <1>2

\* A batch of the dependencies of scan o, what is found for it, and what is left.
LastOf(o) == IF Len(o.deps) < BatchSize THEN Len(o.deps) ELSE BatchSize
BatchOf(o) == SubSeq(o.deps, 1, LastOf(o))
AnswersOf(o) == [d \in DOMAIN BatchOf(o) |-> BatchOf(o)[d].vulns]
FoundBy(o) == o.findings \o OsvFindings(BatchOf(o), Len(o.findings), AnswersOf(o))
LeftBy(o) == SubSeq(o.deps, LastOf(o) + 1, Len(o.deps))

\* A batch and what is left are the dependencies, and what is found for a batch
\* is one finding for each vulnerability.
LEMMA BatchFacts ==
    ASSUME NEW o, o.deps \in Seq(ManifestLine), o.findings \in Seq(AnyFinding), Placed(o.findings)
    PROVE  /\ LastOf(o) \in 0..Len(o.deps)
           /\ LeftBy(o) \in Seq(ManifestLine) /\ Len(LeftBy(o)) = Len(o.deps) - LastOf(o)
           /\ \A i \in 1..Len(LeftBy(o)) : LeftBy(o)[i] = o.deps[LastOf(o) + i]
           /\ \A i \in 1..LastOf(o) : AnswersOf(o)[i] = o.deps[i].vulns
           /\ FoundBy(o) \in Seq(AnyFinding) /\ Placed(FoundBy(o))
           /\ Len(FoundBy(o)) = Len(o.findings) + Len(Concat(AnswersOf(o), LastOf(o)))
<1> DEFINE n == Len(o.deps)
           last == LastOf(o)
           new == OsvFindings(BatchOf(o), Len(o.findings), AnswersOf(o))
<1>1. n \in Nat /\ Len(o.findings) \in Nat /\ \A i \in 1..n : o.deps[i] \in ManifestLine
  BY LenProperties, ElementOfSeq
<1>2. last \in 0..n
  BY <1>1, BatchAssumption DEF LastOf
<1>3. /\ BatchOf(o) \in Seq(ManifestLine) /\ Len(BatchOf(o)) = last
      /\ \A i \in 1..last : BatchOf(o)[i] = o.deps[i]
  <2> HIDE DEF n, last
  <2>1. 1 \in Int /\ last \in Int /\ \A i \in 1..last : o.deps[i] \in ManifestLine
    BY <1>1, <1>2
  <2>2. /\ SubSeq(o.deps, 1, last) \in Seq(ManifestLine)
        /\ Len(SubSeq(o.deps, 1, last)) = IF 1 <= last THEN last - 1 + 1 ELSE 0
        /\ \A i \in 1..(last - 1 + 1) : SubSeq(o.deps, 1, last)[i] = o.deps[1 + i - 1]
    BY <2>1, SubSeqProperties
  <2>3. /\ Len(SubSeq(o.deps, 1, last)) = last
        /\ \A i \in 1..last : SubSeq(o.deps, 1, last)[i] = o.deps[i]
    BY <1>1, <1>2, <2>2
  <2> QED
    BY <2>2, <2>3 DEF BatchOf, last
<1>4. /\ LeftBy(o) \in Seq(ManifestLine) /\ Len(LeftBy(o)) = n - last
      /\ \A i \in 1..(n - last) : LeftBy(o)[i] = o.deps[last + i]
  <2> HIDE DEF n, last
  <2>1. last + 1 \in Int /\ n \in Int /\ \A i \in (last + 1)..n : o.deps[i] \in ManifestLine
    BY <1>1, <1>2
  <2>2. /\ SubSeq(o.deps, last + 1, n) \in Seq(ManifestLine)
        /\ Len(SubSeq(o.deps, last + 1, n)) = IF last + 1 <= n THEN n - (last + 1) + 1 ELSE 0
        /\ \A i \in 1..(n - (last + 1) + 1) : SubSeq(o.deps, last + 1, n)[i] = o.deps[(last + 1) + i - 1]
    BY <2>1, SubSeqProperties
  <2>3. /\ Len(SubSeq(o.deps, last + 1, n)) = n - last
        /\ \A i \in 1..(n - last) : SubSeq(o.deps, last + 1, n)[i] = o.deps[last + i]
    <3>1. \A i \in 1..(n - last) : i \in 1..(n - (last + 1) + 1) /\ (last + 1) + i - 1 = last + i
      BY <1>1, <1>2
    <3>2. (IF last + 1 <= n THEN n - (last + 1) + 1 ELSE 0) = n - last
      BY <1>1, <1>2
    <3> QED
      BY <2>2, <3>1, <3>2
  <2> QED
    BY <2>2, <2>3 DEF LeftBy, n, last
<1>5. /\ DOMAIN BatchOf(o) = 1..last /\ DOMAIN AnswersOf(o) = 1..last
      /\ \A i \in 1..last : AnswersOf(o)[i] = o.deps[i].vulns /\ AnswersOf(o)[i] \in Seq(Vulnerability)
  <2>1. DOMAIN BatchOf(o) = 1..last
    BY <1>3, LenProperties
  <2>2. \A line \in ManifestLine : line.vulns \in Seq(Vulnerability)
    BY DEF ManifestLine
  <2>3. \A i \in 1..last : o.deps[i] \in ManifestLine
    BY <1>1, <1>2
  <2> HIDE DEF n, last
  <2> QED
    BY <1>3, <2>1, <2>2, <2>3 DEF AnswersOf
<1>6. AnswersOf(o) \in Seq(Seq(Vulnerability)) /\ Len(AnswersOf(o)) = last
  <2>1. AnswersOf(o) = [i \in 1..last |-> AnswersOf(o)[i]]
    BY <1>5 DEF AnswersOf
  <2>2. last \in Nat
    BY <1>1, <1>2
  <2> HIDE DEF n, last
  <2> QED
    BY <1>5, <2>1, <2>2
<1>7. /\ new \in Seq(AnyFinding)
      /\ Len(new) = Len(Concat(AnswersOf(o), last))
      /\ \A j \in 1..Len(new) : new[j].scanner = "osv" /\ new[j].id = <<"osv", <<Len(o.findings), j>>>>
  <2> HIDE DEF n, last
  <2> QED
    BY <1>1, <1>3, <1>6, OsvFindingsType
<1> HIDE DEF n, last, new
<1>8. /\ FoundBy(o) \in Seq(AnyFinding) /\ Len(FoundBy(o)) = Len(o.findings) + Len(new)
      /\ \A p \in 1..(Len(o.findings) + Len(new)) :
            FoundBy(o)[p] = IF p <= Len(o.findings) THEN o.findings[p] ELSE new[p - Len(o.findings)]
  <2>1. FoundBy(o) = o.findings \o new
    BY DEF FoundBy, new
  <2>2. PICK old : old = o.findings
    OBVIOUS
  <2>3. old \in Seq(AnyFinding) /\ new \in Seq(AnyFinding)
    BY <1>7, <2>2
  <2>4. /\ old \o new \in Seq(AnyFinding) /\ Len(old \o new) = Len(old) + Len(new)
        /\ \A p \in 1..(Len(old) + Len(new)) :
              (old \o new)[p] = IF p <= Len(old) THEN old[p] ELSE new[p - Len(old)]
    BY <2>3, ConcatProperties
  <2> QED
    BY <2>1, <2>2, <2>4
<1>9. Placed(FoundBy(o))
  <2> SUFFICES ASSUME NEW p \in 1..Len(FoundBy(o))
               PROVE  /\ FoundBy(o)[p].scanner = "osv"
                      /\ \E a, b \in Nat : FoundBy(o)[p].id = <<"osv", <<a, b>>>> /\ a + b = p
    BY DEF Placed
  <2>1. Len(new) \in Nat
    BY <1>7, LenProperties
  <2>2. CASE p <= Len(o.findings)
    <3>1. p \in 1..Len(o.findings) /\ FoundBy(o)[p] = o.findings[p]
      BY <1>1, <1>8, <2>1, <2>2
    <3> QED
      BY <3>1 DEF Placed
  <2>3. CASE ~(p <= Len(o.findings))
    <3>1. PICK j \in 1..Len(new) : j = p - Len(o.findings)
      BY <1>1, <1>8, <2>1, <2>3
    <3>2. FoundBy(o)[p] = new[j] /\ j \in Nat /\ Len(o.findings) + j = p
      BY <1>1, <1>8, <2>1, <2>3, <3>1
    <3>3. new[j].scanner = "osv" /\ new[j].id = <<"osv", <<Len(o.findings), j>>>>
      BY <1>7
    <3> QED
      BY <1>1, <3>2, <3>3
  <2> QED
    BY <2>2, <2>3
<1> QED
  BY <1>2, <1>4, <1>5, <1>7, <1>8, <1>9 DEF n, last

\* The steps of the scan o with the OSV service, on its record.
LEMMA OsvStarts ==
    ASSUME NEW t, NEW c, NEW o, NEW p, TargetOk(t), OsvOk(t, c, o), o.pc = "start",
           p.pc = "manifests", p.deps = o.deps, p.findings = o.findings, p.manifest = o.manifest
    PROVE  OsvOk(t, c, p)
<1>1. Concat(ManifestDeps(t), 0) = <<>>
  BY ConcatUnfolds
<1>2. p.deps = <<>> /\ p.manifest = 1 /\ p.findings = <<>>
  BY DEF OsvOk
<1>3. 1 - 1 = 0
  OBVIOUS
<1> QED
  BY <1>1, <1>2, <1>3 DEF OsvOk

\* Reading a manifest adds its dependencies.
LEMMA OsvReads ==
    ASSUME NEW t, NEW c \in {"live", "done"}, NEW o, NEW p, TargetOk(t), OsvOk(t, c, o),
           o.pc = "manifests", o.manifest <= 3, NEW deps,
           deps = IF c = "done" THEN <<>> ELSE ManifestDeps(t)[o.manifest],
           p.pc = "manifests", p.deps = o.deps \o deps, p.findings = o.findings,
           p.manifest = o.manifest + 1
    PROVE  OsvOk(t, c, p)
<1>1. o.manifest \in 1..3 /\ o.deps \in Seq(ManifestLine)
  BY DEF OsvOk
<1>2. deps \in Seq(ManifestLine)
  BY <1>1, DepsFacts, EmptySeq
<1>3. p.deps \in Seq(ManifestLine)
  BY <1>1, <1>2, ConcatProperties
<1>4. c = "live" => p.deps = Concat(ManifestDeps(t), p.manifest - 1)
  <2> SUFFICES ASSUME c = "live" PROVE p.deps = Concat(ManifestDeps(t), p.manifest - 1)
    OBVIOUS
  <2>1. PICK m \in 0..2 : o.manifest = m + 1
    <3>1. o.manifest - 1 \in 0..2 /\ o.manifest = (o.manifest - 1) + 1
      BY <1>1
    <3> QED
      BY <3>1
  <2>2. o.deps = Concat(ManifestDeps(t), m)
    <3>1. (m + 1) - 1 = m
      OBVIOUS
    <3> QED
      BY <2>1, <3>1 DEF OsvOk
  <2>3. Concat(ManifestDeps(t), m + 1) = Concat(ManifestDeps(t), m) \o ManifestDeps(t)[m + 1]
    <3>1. PICK f : f = ManifestDeps(t)
      OBVIOUS
    <3>2. m \in Nat
      OBVIOUS
    <3> QED
      BY <3>1, <3>2, ConcatUnfolds
  <2>4. p.manifest - 1 = m + 1
    BY <2>1
  <2> QED
    BY <2>1, <2>2, <2>3, <2>4
<1>5. p.manifest \in 1..4
  BY <1>1
<1>6. p.findings = <<>> /\ p.findings \in Seq(AnyFinding) /\ Placed(p.findings)
  BY DEF OsvOk
<1> QED
  BY <1>3, <1>4, <1>5, <1>6 DEF OsvOk

\* All manifests are read: the OSV service is asked, unless there is nothing to
\* ask.
LEMMA OsvAsks ==
    ASSUME NEW t, NEW c, NEW o, NEW p, TargetOk(t), OsvOk(t, c, o), o.pc = "manifests", o.manifest > 3,
           p.deps = o.deps, p.findings = <<>>,
           p.pc = "query" \/ (p.pc = "done" /\ p.status = "ok" /\ o.deps = <<>>)
    PROVE  OsvOk(t, c, p)
<1>1. o.manifest = 4 /\ o.findings = <<>> /\ (c = "live" => o.deps = Concat(ManifestDeps(t), 4 - 1))
  BY DEF OsvOk
<1>2. /\ AllDeps(t) = Concat(ManifestDeps(t), 3) /\ AllDeps(t) \in Seq(ManifestLine)
      /\ Len(AllDeps(t)) \in Nat /\ 4 - 1 = 3
  BY DepsFacts, LenProperties
<1>3. Concat(Vulns(t), 0) = <<>> /\ Len(<<>>) = 0
  BY ConcatUnfolds
<1>4. c = "live" => o.deps = AllDeps(t)
  BY <1>1, <1>2
<1>5. Rest(AllDeps(t), AllDeps(t), 0) /\ 0 \in 0..Len(AllDeps(t))
  BY <1>2 DEF Rest
<1>6. p.findings \in Seq(AnyFinding) /\ Placed(p.findings)
  BY <1>1 DEF OsvOk
<1>7. CASE p.pc = "query"
  BY <1>1, <1>3, <1>4, <1>5, <1>6, <1>7 DEF OsvOk
<1>8. CASE p.pc = "done" /\ p.status = "ok" /\ o.deps = <<>>
  <2>1. c = "live" => Len(p.findings) = Len(Concat(Vulns(t), Len(AllDeps(t))))
    BY <1>3, <1>4, <1>8
  <2> QED
    BY <1>6, <1>8, <2>1 DEF OsvOk
<1> QED
  BY <1>7, <1>8

\* A batch is answered.
LEMMA OsvQueries ==
    ASSUME NEW t, NEW c, NEW o, NEW p, TargetOk(t), OsvOk(t, c, o), o.pc = "query",
           p.findings = FoundBy(o),
           \/ p.pc = "query" /\ p.deps = LeftBy(o)
           \/ p.pc = "done" /\ p.status = "ok" /\ p.deps = o.deps /\ LeftBy(o) = <<>>
    PROVE  OsvOk(t, c, p)
<1> DEFINE last == LastOf(o)
           all == AllDeps(t)
<1>1. /\ o.deps \in Seq(ManifestLine) /\ o.findings \in Seq(AnyFinding) /\ Placed(o.findings)
      /\ Len(o.deps) \in Nat /\ Len(o.findings) \in Nat
  BY LenProperties DEF OsvOk
<1>2. /\ last \in 0..Len(o.deps)
      /\ LeftBy(o) \in Seq(ManifestLine) /\ Len(LeftBy(o)) = Len(o.deps) - last
      /\ \A i \in 1..Len(LeftBy(o)) : LeftBy(o)[i] = o.deps[last + i]
      /\ \A i \in 1..last : AnswersOf(o)[i] = o.deps[i].vulns
      /\ FoundBy(o) \in Seq(AnyFinding) /\ Placed(FoundBy(o))
      /\ Len(FoundBy(o)) = Len(o.findings) + Len(Concat(AnswersOf(o), last))
  BY <1>1, BatchFacts
<1>3. /\ all \in Seq(ManifestLine) /\ Len(all) \in Nat
      /\ \A d \in 1..Len(all) : Vulns(t)[d] = all[d].vulns /\ Vulns(t)[d] \in Seq(Vulnerability)
  BY DepsFacts, LenProperties
<1> HIDE DEF last, all
<1>4. ASSUME c = "live"
      PROVE  \E k \in 0..Len(all) : /\ Rest(LeftBy(o), all, k)
                                    /\ Len(FoundBy(o)) = Len(Concat(Vulns(t), k))
  <2>1. PICK k \in 0..Len(all) : Rest(o.deps, all, k) /\ Len(o.findings) = Len(Concat(Vulns(t), k))
    BY <1>4 DEF OsvOk, all
  <2>2. /\ Len(o.deps) = Len(all) - k /\ \A i \in 1..Len(o.deps) : o.deps[i] = all[k + i]
        /\ k \in Nat /\ last \in Nat
    BY <1>1, <1>2, <1>3, <2>1 DEF Rest
  <2>3. k + last \in 0..Len(all)
    BY <1>1, <1>2, <1>3, <2>2
  <2>4. Rest(LeftBy(o), all, k + last)
    <3>1. Len(LeftBy(o)) = Len(all) - (k + last)
      BY <1>1, <1>2, <1>3, <2>2
    <3>2. ASSUME NEW i \in 1..Len(LeftBy(o)) PROVE LeftBy(o)[i] = all[(k + last) + i]
      <4>1. last + i \in 1..Len(o.deps) /\ k + (last + i) = (k + last) + i
        BY <1>1, <1>2, <2>2, SMTT(30)
      <4>2. LeftBy(o)[i] = o.deps[last + i] /\ o.deps[last + i] = all[k + (last + i)]
        BY <1>2, <2>2, <4>1
      <4> QED
        BY <4>1, <4>2
    <3> QED
      BY <3>1, <3>2 DEF Rest
  <2>5. Len(Concat(Vulns(t), k + last)) = Len(Concat(Vulns(t), k)) + Len(Concat(AnswersOf(o), last))
    <3>1. \A i \in 1..(k + last) : Vulns(t)[i] \in Seq(Vulnerability)
      BY <1>3, <2>3
    <3>2. ASSUME NEW i \in 1..last PROVE AnswersOf(o)[i] = Vulns(t)[k + i]
      <4>1. i \in 1..Len(o.deps) /\ k + i \in 1..Len(all)
        BY <1>1, <1>2, <1>3, <2>2
      <4>2. AnswersOf(o)[i] = o.deps[i].vulns /\ o.deps[i] = all[k + i]
        BY <1>2, <2>2, <4>1
      <4>3. Vulns(t)[k + i] = all[k + i].vulns
        BY <1>3, <4>1
      <4> QED
        BY <4>2, <4>3
    <3>3. PICK f, g : f = Vulns(t) /\ g = AnswersOf(o)
      OBVIOUS
    <3>4. /\ \A i \in 1..(k + last) : f[i] \in Seq(Vulnerability)
          /\ \A i \in 1..last : g[i] = f[k + i]
      BY <3>1, <3>2, <3>3
    <3>5. Len(Concat(f, k + last)) = Len(Concat(f, k)) + Len(Concat(g, last))
      <4>1. Continues(Vulnerability, f, g, k, last)
        BY <2>2, <3>4 DEF Continues
      <4> QED
        BY <4>1, ConcatSplits
    <3> QED
      BY <3>3, <3>5
  <2>6. Len(FoundBy(o)) = Len(Concat(Vulns(t), k + last))
    BY <1>2, <2>1, <2>5
  <2> QED
    BY <2>3, <2>4, <2>6
<1>5. CASE p.pc = "query" /\ p.deps = LeftBy(o)
  <2>1. c = "live" => \E k \in 0..Len(AllDeps(t)) :
                          /\ Rest(p.deps, AllDeps(t), k)
                          /\ Len(p.findings) = Len(Concat(Vulns(t), k))
    BY <1>4, <1>5 DEF all
  <2> QED
    BY <1>2, <1>5, <2>1 DEF OsvOk
<1>6. CASE p.pc = "done" /\ p.status = "ok" /\ p.deps = o.deps /\ LeftBy(o) = <<>>
  <2>1. c = "live" => Len(p.findings) = Len(Concat(Vulns(t), Len(AllDeps(t))))
    <3> SUFFICES ASSUME c = "live" PROVE Len(FoundBy(o)) = Len(Concat(Vulns(t), Len(all)))
      BY DEF all
    <3>1. PICK k \in 0..Len(all) : /\ Rest(LeftBy(o), all, k)
                                   /\ Len(FoundBy(o)) = Len(Concat(Vulns(t), k))
      BY <1>4
    <3>2. k = Len(all)
      <4>1. Len(LeftBy(o)) = Len(all) - k /\ Len(LeftBy(o)) = 0
        BY <1>6, <3>1 DEF Rest
      <4> QED
        BY <1>3, <4>1
    <3> QED
      BY <3>1, <3>2
  <2> QED
    BY <1>1, <1>2, <1>6, <2>1 DEF OsvOk
<1> QED
  BY <1>5, <1>6

\* Going on changes the place of a scan only, finishing leaves its
\* dependencies.
LEMMA GotoKeepsRest ==
    ASSUME PlaceType, NEW s \in Scanner, NEW pc, Goto(s, pc)
    PROVE  scan'[s] = [pc |-> pc, status |-> scan[s].status, findings |-> scan[s].findings,
                       manifest |-> scan[s].manifest, deps |-> scan[s].deps]
BY SMTT(30) DEF PlaceType, IsScan, Goto

LEMMA FinishKeepsDeps ==
    ASSUME PlaceType, NEW s \in Scanner, NEW status, NEW found, Finish(s, status, found)
    PROVE  scan'[s].deps = scan[s].deps
<1>1. scan[s] = [pc |-> scan[s].pc, status |-> scan[s].status, findings |-> scan[s].findings,
                 manifest |-> scan[s].manifest, deps |-> scan[s].deps]
      /\ scan = [t \in Scanner |-> scan[t]]
  BY DEF PlaceType, IsScan
<1>2. scan' = [scan EXCEPT ![s].pc = "done", ![s].status = status, ![s].findings = found]
  BY DEF Finish
<1>3. scan'[s] = [scan[s] EXCEPT !.pc = "done", !.status = status, !.findings = found]
  BY <1>1, <1>2
<1>4. scan'[s] = [pc |-> "done", status |-> status, findings |-> found,
                  manifest |-> scan[s].manifest, deps |-> scan[s].deps]
  BY <1>1, <1>3
<1> QED
  BY <1>4

\* A scan that fails has found nothing.
LEMMA OsvFails ==
    ASSUME NEW t, NEW c, NEW o, NEW p, o.deps \in Seq(ManifestLine),
           p.deps = o.deps, p.findings = <<>>, p.pc = "done", p.status = "failed"
    PROVE  OsvOk(t, c, p)
BY EmptySeq DEF OsvOk, Placed

\* What the steps of the scan with the OSV service do to its record.
LEMMA OsvMakes ==
    ASSUME IInv, DataInv, StartOsv \/ ParseManifest \/ AskOsv \/ QueryBatch
    PROVE  OsvOk(target, ctx, scan'["osv"])
<1> DEFINE s == "osv"
           o == scan[s]
           p == scan'[s]
<1> SUFFICES OsvOk(target, ctx, p)
  OBVIOUS
<1>0. /\ s \in Scanner /\ PlaceType /\ TargetOk(target) /\ OsvOk(target, ctx, o)
      /\ scan = [t \in Scanner |-> scan[t]]
      /\ o = [pc |-> o.pc, status |-> o.status, findings |-> o.findings,
              manifest |-> o.manifest, deps |-> o.deps]
      /\ ctx \in {"live", "done"} /\ o.deps \in Seq(ManifestLine)
  BY DEF IInv, DataInv, PlaceType, IsScan, Scanner, OsvOk
<1>a. ASSUME Finish(s, "failed", <<>>) PROVE OsvOk(target, ctx, p)
  <2>1. p.pc = "done" /\ p.status = "failed" /\ p.findings = <<>> /\ p.deps = o.deps
    <3> HIDE DEF s
    <3> QED
      BY <1>0, <1>a, FinishMoves, FinishKeepsDeps DEF MovesTo
  <2> HIDE DEF s, o, p
  <2> QED
    BY <1>0, <2>1, OsvFails
<1>b. ASSUME NEW pc \in {"manifests", "query"}, Goto(s, pc)
      PROVE  p.pc = pc /\ p.deps = o.deps /\ p.findings = o.findings /\ p.manifest = o.manifest
  <2>1. p = [pc |-> pc, status |-> o.status, findings |-> o.findings,
             manifest |-> o.manifest, deps |-> o.deps]
    <3> HIDE DEF s
    <3> QED
      BY <1>0, <1>b, GotoKeepsRest
  <2> HIDE DEF s, o, p
  <2> QED
    BY <2>1
<1>c. ASSUME NEW found, Finish(s, "ok", found)
      PROVE  p.pc = "done" /\ p.status = "ok" /\ p.deps = o.deps /\ p.findings = found
  <2> HIDE DEF s
  <2> QED
    BY <1>0, <1>c, FinishMoves, FinishKeepsDeps DEF MovesTo
<1>1. CASE StartOsv
  <2>1. o.pc = "start" /\ (Goto(s, "manifests") \/ Finish(s, "failed", <<>>))
    BY <1>1 DEF StartOsv, Fail
  <2> HIDE DEF s, o, p
  <2>2. CASE Goto(s, "manifests")
    BY <1>0, <1>b, <2>1, <2>2, OsvStarts
  <2> QED
    BY <1>a, <2>1, <2>2
<1>2. CASE ParseManifest
  <2> DEFINE more == IF ctx = "done" THEN <<>> ELSE ManifestDeps(target)[o.manifest]
  <2>1. o.pc = "manifests" /\ o.manifest <= 3
    BY <1>2, ManifestFacts DEF ParseManifest
  <2>2. o.manifest \in DOMAIN Manifest
    BY <1>0, <2>1, ManifestFacts DEF OsvOk
  <2>3. scan' = [scan EXCEPT !["osv"].deps = @ \o more, !["osv"].manifest = @ + 1]
    <3>1. scan' = [scan EXCEPT !["osv"].deps = @ \o (
              IF ctx = "done" \/ ~target.manifests[Manifest[o.manifest]].readable THEN <<>>
              ELSE Dependencies(Manifest[o.manifest], target.manifests[Manifest[o.manifest]].lines)),
                         !["osv"].manifest = @ + 1]
      BY <1>2 DEF ParseManifest
    <3>2. more = IF ctx = "done" \/ ~target.manifests[Manifest[o.manifest]].readable THEN <<>>
              ELSE Dependencies(Manifest[o.manifest], target.manifests[Manifest[o.manifest]].lines)
      BY <2>2 DEF ManifestDeps
    <3> HIDE DEF more
    <3> QED
      BY <3>1, <3>2, ZenonT(40)
  <2>4. PICK deps : deps = more
    OBVIOUS
  <2> HIDE DEF more
  <2>5. scan' = [scan EXCEPT ![s] = [o EXCEPT !.deps = o.deps \o deps, !.manifest = o.manifest + 1]]
    BY <1>0, <2>3, <2>4
  <2>6. p = [o EXCEPT !.deps = o.deps \o deps, !.manifest = o.manifest + 1]
    BY <1>0, <2>5
  <2> HIDE DEF s, o, p
  <2>7. p = [pc |-> o.pc, status |-> o.status, findings |-> o.findings,
             manifest |-> o.manifest + 1, deps |-> o.deps \o deps]
    BY <1>0, <2>6
  <2>8. /\ p.pc = "manifests" /\ p.deps = o.deps \o deps /\ p.findings = o.findings
        /\ p.manifest = o.manifest + 1
    BY <2>1, <2>7
  <2> QED
    BY <1>0, <2>1, <2>4, <2>8, OsvReads, ZenonT(40) DEF more
<1>3. CASE AskOsv
  <2>1. /\ o.pc = "manifests" /\ o.manifest > 3
        /\ \/ o.deps = <<>> /\ Finish(s, "ok", <<>>)
           \/ Finish(s, "failed", <<>>)
           \/ Goto(s, "query")
    BY <1>3, ManifestFacts DEF AskOsv, Fail
  <2>2. o.findings = <<>>
    BY <1>0, <2>1 DEF OsvOk
  <2> HIDE DEF s, o, p
  <2>3. CASE o.deps = <<>> /\ Finish(s, "ok", <<>>)
    BY <1>0, <1>c, <2>1, <2>3, OsvAsks
  <2>4. CASE Goto(s, "query")
    BY <1>0, <1>b, <2>1, <2>2, <2>4, OsvAsks
  <2> QED
    BY <1>a, <2>1, <2>3, <2>4
<1>4. CASE QueryBatch
  <2>1. /\ o.pc = "query"
        /\ IF ctx = "done" \/ target.api # "ok" THEN Fail(s)
           ELSE IF LeftBy(o) = <<>> THEN Finish(s, "ok", FoundBy(o))
           ELSE scan' = [scan EXCEPT ![s].findings = FoundBy(o), ![s].deps = LeftBy(o)]
    BY <1>4, Zenon DEF QueryBatch, LeftBy, FoundBy, AnswersOf, BatchOf, LastOf
  <2>2. CASE Fail(s)
    BY <1>a, <2>2 DEF Fail
  <2>3. CASE LeftBy(o) = <<>> /\ Finish(s, "ok", FoundBy(o))
    <3> HIDE DEF s, o, p
    <3> QED
      BY <1>0, <1>c, <2>1, <2>3, OsvQueries
  <2>4. CASE scan' = [scan EXCEPT ![s].findings = FoundBy(o), ![s].deps = LeftBy(o)]
    <3>1. PICK found, left : found = FoundBy(o) /\ left = LeftBy(o)
      OBVIOUS
    <3>2. scan' = [scan EXCEPT ![s] = [o EXCEPT !.findings = found, !.deps = left]]
      BY <1>0, <2>4, <3>1
    <3>3. p = [o EXCEPT !.findings = found, !.deps = left]
      BY <1>0, <3>2
    <3> HIDE DEF s, o, p
    <3>4. p = [pc |-> o.pc, status |-> o.status, findings |-> found,
               manifest |-> o.manifest, deps |-> left]
      BY <1>0, <3>3
    <3>5. p.pc = "query" /\ p.findings = FoundBy(o) /\ p.deps = LeftBy(o)
      BY <2>1, <3>1, <3>4
    <3> QED
      BY <1>0, <2>1, <3>5, OsvQueries
  <2> HIDE DEF s, o, p
  <2> QED
    BY <2>1, <2>2, <2>3, <2>4
<1> QED
  BY <1>1, <1>2, <1>3, <1>4

\* A step of the OSV scanner keeps what is said of the findings.
LEMMA OsvData ==
    ASSUME IInv, DataInv, StartOsv \/ ParseManifest \/ AskOsv \/ QueryBatch
    PROVE  DataInv'
<1>1. target' = target /\ ctx' = ctx
  BY DEF StartOsv, ParseManifest, AskOsv, QueryBatch
<1>2. \A s \in Tool : s \in Scanner /\ s # "osv"
  BY DEF Tool, Scanner
<1>3. \A s \in Tool : scan'[s] = scan[s]
  BY <1>2, OsvWorks DEF IInv, Works, MovesTo
<1>4. OsvOk(target, ctx, scan'["osv"])
  BY OsvMakes
<1> QED
  BY <1>1, <1>3, <1>4, SMTT(30) DEF DataInv

\* An answer is sent: what has been found stays.
LEMMA SentData ==
    ASSUME IInv, DataInv, NEW s \in Scanner, SendResult(s)
    PROVE  DataInv'
<1>1. target' = target /\ ctx' = ctx
  BY DEF SendResult
<1>2. /\ scan[s].pc = "done"
      /\ scan = [t \in Scanner |-> scan[t]]
      /\ scan[s] = [pc |-> scan[s].pc, status |-> scan[s].status, findings |-> scan[s].findings,
                    manifest |-> scan[s].manifest, deps |-> scan[s].deps]
      /\ scan' = [scan EXCEPT ![s].pc = "sent"]
  BY DEF SendResult, IInv, PlaceType, IsScan
<1>3. /\ scan'[s] = [pc |-> "sent", status |-> scan[s].status, findings |-> scan[s].findings,
                     manifest |-> scan[s].manifest, deps |-> scan[s].deps]
      /\ \A t \in Scanner \ {s} : scan'[t] = scan[t]
  BY <1>2
<1>4. /\ scan'[s].pc = "sent" /\ scan'[s].status = scan[s].status
      /\ scan'[s].findings = scan[s].findings /\ scan'[s].deps = scan[s].deps
  BY <1>3
<1>5. \A t \in Tool : t \in Scanner /\ t # "osv"
  BY DEF Tool, Scanner
<1>6. ASSUME NEW t \in Tool PROVE ToolOk(target, t, scan'[t])
  <2>1. CASE t = s
    BY <1>2, <1>4, <2>1 DEF DataInv, ToolOk
  <2>2. CASE t # s
    BY <1>3, <1>5, <2>2 DEF DataInv
  <2> QED
    BY <2>1, <2>2
<1>7. OsvOk(target, ctx, scan'["osv"])
  <2>0. OsvOk(target, ctx, scan["osv"]) /\ "osv" \in Scanner
    BY DEF DataInv, Scanner
  <2>1. CASE s = "osv"
    <3> DEFINE o == scan["osv"]
               p == scan'["osv"]
    <3>1. /\ o.pc = "done" /\ p.pc = "sent" /\ p.status = o.status
          /\ p.findings = o.findings /\ p.deps = o.deps
      BY <1>2, <1>4, <2>1
    <3>2. OsvOk(target, ctx, o)
      BY <2>0
    <3> HIDE DEF o, p
    <3>3. OsvOk(target, ctx, p)
      BY <3>1, <3>2 DEF OsvOk
    <3> QED
      BY <3>3 DEF p
  <2>2. CASE s # "osv"
    BY <1>3, <2>0, <2>2
  <2> QED
    BY <2>1, <2>2
<1> QED
  BY <1>1, <1>6, <1>7, Zenon DEF DataInv

\* Scanners that have not begun have found nothing.
LEMMA NewData ==
    ASSUME NEW r, NEW t, NEW c, r.pc \in {"idle", "start"}, r.findings = <<>>, r.deps = <<>>, r.manifest = 1
    PROVE  OsvOk(t, c, r) /\ \A s \in Tool : ToolOk(t, s, r)
<1>1. Placed(<<>>)
  BY DEF Placed
<1> QED
  BY <1>1, EmptySeq DEF OsvOk, ToolOk

\* What is said of the findings holds at first, when a command starts, and is
\* kept by every step.
LEMMA InitData == Init => DataInv
<1> SUFFICES ASSUME Init PROVE DataInv
  OBVIOUS
<1>1. ctx = "live" /\ TargetOk(target) /\ scan = [s \in Scanner |-> NewScan]
  BY ScenariosAssumption DEF Init, TargetOk
<1>2. \A s \in Scanner : OsvOk(target, ctx, scan[s]) /\ \A t \in Tool : ToolOk(target, t, scan[s])
  BY <1>1, NewData DEF NewScan
<1>3. "osv" \in Scanner /\ Tool \subseteq Scanner
  BY DEF Scanner
<1> QED
  BY <1>1, <1>2, <1>3 DEF DataInv

LEMMA StartData ==
    ASSUME IInv, DataInv, StartCommand
    PROVE  DataInv'
<1>1. /\ target' = target /\ ctx' = "live"
      /\ scan' = [s \in Scanner |-> [NewScan EXCEPT !.pc = IF s \in Running(cmd) THEN "start" ELSE "idle"]]
  BY DEF StartCommand
<1>2. ASSUME NEW s \in Scanner
      PROVE  /\ scan'[s].pc \in {"idle", "start"} /\ scan'[s].findings = <<>>
             /\ scan'[s].deps = <<>> /\ scan'[s].manifest = 1
  <2>1. PICK pc \in {"idle", "start"} : scan'[s] = [NewScan EXCEPT !.pc = pc]
    BY <1>1
  <2> QED
    BY <2>1 DEF NewScan
<1>3. ASSUME NEW s \in Scanner
      PROVE  OsvOk(target, "live", scan'[s]) /\ \A t \in Tool : ToolOk(target, t, scan'[s])
  <2>1. PICK r : r = scan'[s]
    OBVIOUS
  <2>2. r.pc \in {"idle", "start"} /\ r.findings = <<>> /\ r.deps = <<>> /\ r.manifest = 1
    BY <1>2, <2>1
  <2> QED
    BY <2>1, <2>2, NewData
<1>4. "osv" \in Scanner /\ Tool \subseteq Scanner
  BY DEF Scanner
<1> QED
  BY <1>1, <1>3, <1>4 DEF DataInv

LEMMA NextData == IInv /\ DataInv /\ [Next]_vars => DataInv'
<1> SUFFICES ASSUME IInv, DataInv, [Next]_vars PROVE DataInv'
  OBVIOUS
<1>0. ASSUME UNCHANGED <<target, scan>>, ctx' = ctx \/ ctx' = "done" PROVE DataInv'
  <2>1. OsvOk(target, ctx', scan["osv"])
    <3> DEFINE o == scan["osv"]
    <3>1. OsvOk(target, ctx, o)
      BY DEF DataInv
    <3> HIDE DEF o
    <3>2. OsvOk(target, ctx', o)
      BY <1>0, <3>1 DEF OsvOk
    <3> QED
      BY <3>2 DEF o
  <2>2. ctx' \in {"live", "done"}
    BY <1>0 DEF DataInv
  <2> QED
    BY <1>0, <2>1, <2>2, Zenon DEF DataInv
<1>1. CASE StartCommand
  BY <1>1, StartData
<1>2. ASSUME NEW s \in Scanner, ScannerStep(s) PROVE DataInv'
  <2>1. CASE StartTool(s) \/ RunTool(s) \/ ParseReport(s)
    <3>1. s \in Tool
      BY <2>1 DEF StartTool, RunTool, ParseReport
    <3> QED
      BY <2>1, <3>1, ToolData
  <2>2. CASE StartOsv \/ ParseManifest \/ AskOsv \/ QueryBatch
    BY <2>2, OsvData
  <2> QED
    BY <1>2, <2>1, <2>2 DEF ScannerStep
<1>3. ASSUME NEW s \in Scanner, SendResult(s) PROVE DataInv'
  BY <1>3, SentData
<1>4. ASSUME NEW s \in Scanner, CountDone(s) PROVE DataInv'
  <2>1. UNCHANGED <<target, ctx, scan>>
    BY <1>4 DEF CountDone
  <2> QED
    BY <1>0, <2>1
<1>5. CASE JobWorks
  <2>1. UNCHANGED <<target, ctx, scan>>
    BY <1>5 DEF JobWorks, ScanEnds, CloseResults, Collect, CollectEnds, Assess, RunStage, CheckPolicy,
                ReportCompliance, ValidatePolicies
  <2> QED
    BY <1>0, <2>1
<1>6. CASE Receive \/ Output \/ TuiEnds \/ Timeout \/ SessionEnded \/ UNCHANGED vars
  <2>1. UNCHANGED <<target, scan>> /\ (ctx' = ctx \/ ctx' = "done")
    BY <1>6 DEF Receive, Output, TuiEnds, Timeout, ContextEnds, SessionEnded, vars
  <2> QED
    BY <1>0, <2>1
<1> QED
  BY <1>1, <1>2, <1>3, <1>4, <1>5, <1>6 DEF Next, MainWorks, ScannerWorks

\* A scan that succeeds is complete: it has found what the report of its program
\* says, or every vulnerability of every dependency of the three manifests, in
\* batches of whatever size, unless its context ended.
THEOREM ScanComplete == Spec => []SuccessIsComplete
<1>1. IInv /\ DataInv => SuccessIsComplete
  <2> SUFFICES ASSUME IInv, DataInv, NEW s \in Scanner, scan[s].pc \in {"done", "sent"}, Found(s),
                      ~(s = "osv" /\ ctx = "done")
               PROVE  /\ Len(scan[s].findings) = Cardinality(Complete(s))
                      /\ s \in Tool => target.tool[s].report \in {"empty", "results"}
    BY DEF SuccessIsComplete
  <2>1. CASE s = "osv"
    <3> DEFINE deps == AllDeps(target)
               vulns == Vulns(target)
    <3>1. Len(scan[s].findings) = Len(Concat(vulns, Len(deps)))
      BY <2>1 DEF DataInv, OsvOk, Found
    <3>2. /\ deps \in Seq(ManifestLine) /\ Len(deps) \in Nat
          /\ DOMAIN vulns = 1..Len(deps) /\ DOMAIN deps = 1..Len(deps)
          /\ \A d \in 1..Len(deps) : vulns[d] = deps[d].vulns /\ vulns[d] \in Seq(Vulnerability)
      BY DepsFacts, LenProperties DEF DataInv
    <3>3. Complete(s) = UNION {{d} \X DOMAIN deps[d].vulns : d \in DOMAIN deps}
      BY <2>1 DEF Complete, AllDeps, ManifestDeps
    <3> HIDE DEF deps, vulns
    <3>4. Len(Concat(vulns, Len(deps))) = Cardinality(UNION {{d} \X DOMAIN vulns[d] : d \in DOMAIN vulns})
      <4>1. IsParts(Vulnerability, vulns, Len(deps))
        BY <3>2 DEF IsParts
      <4> QED
        BY <4>1, ConcatCounts
    <3>5. UNION {{d} \X DOMAIN vulns[d] : d \in DOMAIN vulns} = UNION {{d} \X DOMAIN deps[d].vulns : d \in DOMAIN deps}
      BY <3>2
    <3>6. s \notin Tool
      BY <2>1 DEF Tool
    <3> QED
      BY <3>1, <3>3, <3>4, <3>5, <3>6
  <2>2. CASE s # "osv"
    <3>1. s \in Tool /\ ToolOk(target, s, scan[s]) /\ target.tool[s].results \in Seq(ToolResult)
      BY <2>2 DEF Scanner, DataInv, TargetOk, ToolRun
    <3>2. target.tool[s].report \in {"empty", "results"} /\ scan[s].findings = Reported(target, s)
      BY <3>1 DEF ToolOk, Found
    <3>3. CASE target.tool[s].report = "results"
      <4> DEFINE all == target.tool[s].results
      <4>1. Len(scan[s].findings) = Len(all) /\ Complete(s) = 1..Len(all) /\ Len(all) \in Nat
        BY <2>2, <3>1, <3>2, <3>3, ToolFindingsType, LenProperties DEF Reported, Complete
      <4> HIDE DEF all
      <4>2. Cardinality(1..Len(all)) = IF 1 > Len(all) THEN 0 ELSE Len(all) - 1 + 1
        <5>1. PICK n \in Nat : n = Len(all)
          BY <4>1
        <5>2. Cardinality(1..n) = IF 1 > n THEN 0 ELSE n - 1 + 1
          BY FS_Interval
        <5> QED
          BY <5>1, <5>2
      <4> QED
        BY <3>2, <4>1, <4>2
    <3>4. CASE target.tool[s].report = "empty"
      <4>1. Len(scan[s].findings) = 0 /\ Complete(s) = {}
        BY <2>2, <3>2, <3>4 DEF Reported, Complete
      <4> QED
        BY <3>2, <4>1, FS_EmptySet
    <3> QED
      BY <3>2, <3>3, <3>4
  <2> QED
    BY <2>1, <2>2
<1> QED
  BY <1>1, InitHolds, NextHolds, InitData, NextData, PTL DEF Spec

-----------------------------------------------------------------------------
(* What assess hands on: the findings of the scanners that have answered.  *)

\* What each scanner that has answered contributes.
Answers == [i \in DOMAIN collected |->
                IF Found(collected[i]) THEN scan[collected[i]].findings ELSE <<>>]

Distinct(q) == \A i, j \in 1..Len(q) : q[i] = q[j] => i = j

\* The scanners that have sent their answer are those in the channel and those
\* taken from it, each once; the findings are those of the taken ones.
AnswersInv ==
    main # "idle" /\ cmd.name = "assess" =>
        /\ collected \in Seq(QuickScan) /\ results \in Seq(QuickScan)
        /\ Distinct(collected) /\ Distinct(results) /\ Items(collected) \cap Items(results) = {}
        /\ \A s \in QuickScan : scan[s].pc = "sent" <=> s \in Items(collected) \cup Items(results)
        /\ findings = Concat(Answers, Len(collected))
        /\ job \in {"generate", "done"} => Items(collected) = QuickScan
        /\ job = "generate" => \E s \in Scanner : Found(s)

\* The answers taken so far are sequences of findings, of scanners that have
\* sent them.
LEMMA AnswersFacts ==
    ASSUME IInv, DataInv, AnswersInv, main # "idle", cmd.name = "assess"
    PROVE  /\ Len(collected) \in Nat /\ DOMAIN Answers = 1..Len(collected)
           /\ \A i \in 1..Len(collected) :
                 /\ collected[i] \in QuickScan /\ collected[i] \in Scanner
                 /\ scan[collected[i]].pc = "sent"
                 /\ Answers[i] = IF Found(collected[i]) THEN scan[collected[i]].findings ELSE <<>>
                 /\ Answers[i] \in Seq(AnyFinding)
           /\ findings \in Seq(AnyFinding)
<1>1. /\ Len(collected) \in Nat /\ DOMAIN collected = 1..Len(collected)
      /\ \A i \in 1..Len(collected) : collected[i] \in QuickScan
      /\ findings = Concat(Answers, Len(collected))
  BY LenProperties, ElementOfSeq DEF AnswersInv
<1>2. DOMAIN Answers = 1..Len(collected)
  BY <1>1 DEF Answers
<1>3. ASSUME NEW i \in 1..Len(collected)
      PROVE  /\ collected[i] \in Scanner /\ scan[collected[i]].pc = "sent"
             /\ Answers[i] = IF Found(collected[i]) THEN scan[collected[i]].findings ELSE <<>>
             /\ Answers[i] \in Seq(AnyFinding)
  <2>1. collected[i] \in Scanner /\ collected[i] \in QuickScan
    BY <1>1, QuickScanAssumption
  <2>2. collected[i] \in Items(collected)
    BY DEF Items
  <2>3. scan[collected[i]].pc = "sent"
    BY <2>1, <2>2 DEF AnswersInv
  <2>4. Answers[i] = IF Found(collected[i]) THEN scan[collected[i]].findings ELSE <<>>
    BY <1>1 DEF Answers
  <2>5. scan[collected[i]].findings \in Seq(AnyFinding)
    BY <2>1, FindingsType
  <2> QED
    BY <2>1, <2>3, <2>4, <2>5, EmptySeq
<1>4. findings \in Seq(AnyFinding)
  <2>1. PICK n \in Nat : n = Len(collected)
    BY <1>1
  <2>2. n \in 0..n /\ \A i \in 1..n : Answers[i] \in Seq(AnyFinding)
    BY <1>3, <2>1
  <2>3. Concat(Answers, n) \in Seq(AnyFinding)
    BY <2>2, ConcatIsSeq
  <2> QED
    BY <1>1, <2>1, <2>3, SMTT(30)
<1> QED
  BY <1>1, <1>2, <1>3, <1>4

\* Scanners that have answered stay as they are.
LEMMA AnswersStay ==
    ASSUME IInv, DataInv, AnswersInv, main # "idle", cmd.name = "assess",
           UNCHANGED <<main, cmd, collected, results, findings>>,
           job' = job \/ (job' = "done" /\ job = "generate"),
           \A s \in Scanner : scan[s].pc = "sent" => scan'[s] = scan[s],
           \A s \in Scanner : scan'[s].pc = "sent" => scan[s].pc = "sent",
           job = "generate" => scan' = scan
    PROVE  AnswersInv'
<1>1. Answers' = Answers
  <2>1. \A i \in 1..Len(collected) : scan'[collected[i]] = scan[collected[i]]
    BY AnswersFacts
  <2>2. DOMAIN collected = 1..Len(collected)
    BY LenProperties DEF AnswersInv
  <2> QED
    BY <2>1, <2>2, Zenon DEF Answers, Found
<1>2. Items(collected)' = Items(collected) /\ Items(results)' = Items(results)
  BY DEF Items
<1>3. \A s \in QuickScan : scan'[s].pc = "sent" <=> s \in Items(collected) \cup Items(results)
  BY QuickScanAssumption DEF AnswersInv
<1>4. job' = "generate" => \E s \in Scanner : Found(s)'
  BY DEF AnswersInv, Found
<1>5. findings' = Concat(Answers, Len(collected))'
  BY <1>1 DEF AnswersInv
<1> QED
  BY <1>2, <1>3, <1>4, <1>5 DEF AnswersInv, Distinct

\* One more at the end of a sequence.
LEMMA OneMore ==
    ASSUME NEW S, NEW q \in Seq(S), NEW x \in S, x \notin Items(q), Distinct(q)
    PROVE  /\ Append(q, x) \in Seq(S) /\ Distinct(Append(q, x))
           /\ Items(Append(q, x)) = Items(q) \cup {x}
<1> DEFINE r == Append(q, x)
<1>1. /\ r \in Seq(S) /\ Len(q) \in Nat /\ Len(r) = Len(q) + 1
      /\ \A i \in 1..Len(q) : r[i] = q[i]
      /\ r[Len(q) + 1] = x
  BY AppendProperties, LenProperties
<1> HIDE DEF r
<1>2. \A i \in 1..Len(r) : (i \in 1..Len(q) /\ r[i] = q[i]) \/ (i = Len(q) + 1 /\ r[i] = x)
  BY <1>1
<1>3. \A i \in 1..Len(q) : q[i] # x
  BY DEF Items
<1>4. Distinct(r)
  BY <1>2, <1>3 DEF Distinct
<1>5. \A y \in Items(r) : y \in Items(q) \cup {x}
  BY <1>2 DEF Items
<1>6. \A i \in 1..Len(q) : q[i] \in Items(r)
  <2> SUFFICES ASSUME NEW i \in 1..Len(q) PROVE q[i] \in Items(r)
    OBVIOUS
  <2>1. i \in 1..Len(r) /\ r[i] = q[i]
    BY <1>1
  <2> QED
    BY <2>1 DEF Items
<1>7. x \in Items(r)
  <2>1. Len(q) + 1 \in 1..Len(r)
    BY <1>1
  <2> QED
    BY <1>1, <2>1 DEF Items
<1>8. \A y \in Items(q) \cup {x} : y \in Items(r)
  BY <1>6, <1>7 DEF Items
<1> QED
  BY <1>1, <1>4, <1>5, <1>8 DEF r

\* One less at its front.
LEMMA OneLess ==
    ASSUME NEW S, NEW q \in Seq(S), q # <<>>, Distinct(q)
    PROVE  /\ Head(q) \in S /\ Tail(q) \in Seq(S) /\ Distinct(Tail(q))
           /\ Items(q) = Items(Tail(q)) \cup {Head(q)} /\ Head(q) \notin Items(Tail(q))
<1> DEFINE r == Tail(q)
<1>1. /\ r \in Seq(S) /\ Len(r) = Len(q) - 1 /\ Len(q) \in Nat /\ Len(q) >= 1 /\ Head(q) \in S
      /\ \A i \in 1..Len(r) : r[i] = q[i + 1]
      /\ Head(q) = q[1]
  <2>1. r \in Seq(S) /\ Len(r) = Len(q) - 1 /\ Head(q) \in S /\ \A i \in 1..Len(r) : r[i] = q[i + 1]
    BY HeadTailProperties
  <2>2. Len(q) \in Nat /\ Len(q) >= 1
    BY EmptySeq, LenProperties
  <2> QED
    BY <2>1, <2>2
<1> HIDE DEF r
<1>2. \A i \in 1..Len(r) : i + 1 \in 1..Len(q) /\ i + 1 # 1 /\ r[i] = q[i + 1]
  BY <1>1
<1>3. Distinct(r)
  BY <1>1, <1>2 DEF Distinct
<1>4. 1 \in 1..Len(q)
  BY <1>1
<1>5. Head(q) \notin Items(r)
  BY <1>1, <1>2, <1>4 DEF Items, Distinct
<1>6. \A x \in Items(r) \cup {Head(q)} : x \in Items(q)
  BY <1>1, <1>2, <1>4 DEF Items
<1>7. ASSUME NEW i \in 1..Len(q) PROVE q[i] \in Items(r) \cup {Head(q)}
  <2>1. CASE i = 1
    BY <1>1, <2>1
  <2>2. CASE i # 1
    <3>1. i - 1 \in 1..Len(r) /\ (i - 1) + 1 = i
      BY <1>1, <2>2
    <3>2. r[i - 1] = q[i]
      BY <1>1, <3>1
    <3> QED
      BY <3>1, <3>2 DEF Items
  <2> QED
    BY <2>1, <2>2
<1>8. \A x \in Items(q) : x \in Items(r) \cup {Head(q)}
  BY <1>7 DEF Items
<1> QED
  BY <1>1, <1>3, <1>5, <1>6, <1>8 DEF r

\* A scanner sends its answer, once.
LEMMA SendAnswers ==
    ASSUME IInv, DataInv, AnswersInv, NEW s \in Scanner, SendResult(s)
    PROVE  AnswersInv'
<1>0. /\ main # "idle" /\ cmd.name = "assess" /\ scan[s].pc = "done"
      /\ UNCHANGED <<main, cmd, job, collected, findings>> /\ results' = Append(results, s)
      /\ script # <<>> /\ script \in Seq(Command)
  BY DEF SendResult, cmd, IInv, JobInv, PlaceType
<1>1. /\ \A t \in Scanner \ {s} : scan'[t] = scan[t]
      /\ scan'[s].pc = "sent"
  BY SendMoves DEF IInv, MovesTo
<1>2. s \in QuickScan /\ s \notin Items(collected) \cup Items(results)
  <2>1. s \in Running(cmd)
    BY <1>0 DEF IInv, JobInv
  <2>2. s \in QuickScan
    BY <1>0, <2>1, CommandFacts
  <2> QED
    BY <1>0, <2>2 DEF AnswersInv
<1>3. job \notin {"generate", "done"}
  BY <1>0, <1>2 DEF AnswersInv
<1>4. /\ results' \in Seq(QuickScan) /\ Distinct(results')
      /\ Items(results') = Items(results) \cup {s}
  <2>1. results \in Seq(QuickScan) /\ Distinct(results)
    BY <1>0 DEF AnswersInv
  <2> QED
    BY <1>0, <1>2, <2>1, OneMore
<1>5. Answers' = Answers
  <2>1. \A i \in 1..Len(collected) : scan[collected[i]].pc = "sent" /\ collected[i] \in Scanner
    BY <1>0, AnswersFacts
  <2>2. \A i \in 1..Len(collected) : scan'[collected[i]] = scan[collected[i]]
    BY <1>0, <1>1, <2>1
  <2>3. DOMAIN collected = 1..Len(collected)
    BY <1>0, LenProperties DEF AnswersInv
  <2> QED
    BY <1>0, <2>2, <2>3, Zenon DEF Answers, Found
<1>6. \A t \in QuickScan : scan'[t].pc = "sent" <=> t \in Items(collected) \cup Items(results')
  <2> SUFFICES ASSUME NEW t \in QuickScan
               PROVE  scan'[t].pc = "sent" <=> t \in Items(collected) \cup Items(results')
    OBVIOUS
  <2>1. t \in Scanner /\ (scan[t].pc = "sent" <=> t \in Items(collected) \cup Items(results))
    BY <1>0, QuickScanAssumption DEF AnswersInv
  <2> QED
    BY <1>1, <1>4, <2>1
<1>7. findings = Concat(Answers, Len(collected)) /\ collected \in Seq(QuickScan) /\ Distinct(collected)
      /\ Items(collected) \cap Items(results') = {}
  BY <1>0, <1>2, <1>4 DEF AnswersInv
<1>8. Items(collected)' = Items(collected) /\ Items(results)' = Items(results')
      /\ Concat(Answers, Len(collected))' = Concat(Answers, Len(collected))
      /\ Distinct(collected)' = Distinct(collected) /\ Distinct(results)' = Distinct(results')
  BY <1>0, <1>5, Zenon DEF Items, Distinct
<1> QED
  BY <1>0, <1>3, <1>4, <1>6, <1>7, <1>8 DEF AnswersInv

\* An answer is taken from the channel.
LEMMA CollectAnswers ==
    ASSUME IInv, DataInv, AnswersInv, Collect
    PROVE  AnswersInv'
<1> DEFINE s == Head(results)
           n == Len(collected)
<1>0. /\ job = "collect" /\ main # "idle" /\ cmd.name = "assess" /\ results # <<>>
      /\ UNCHANGED <<main, cmd, job, scan>>
      /\ collected' = Append(collected, s) /\ results' = Tail(results)
      /\ findings' = IF Found(s) THEN findings \o scan[s].findings ELSE findings
  <2>1. job = "collect"
    BY DEF Collect
  <2> QED
    BY <2>1, JobFacts DEF Collect, cmd, Found
<1>1. collected \in Seq(QuickScan) /\ results \in Seq(QuickScan) /\ Distinct(collected) /\ Distinct(results)
      /\ Items(collected) \cap Items(results) = {}
  BY <1>0 DEF AnswersInv
<1>2. /\ s \in QuickScan /\ results' \in Seq(QuickScan) /\ Distinct(results')
      /\ Items(results) = Items(results') \cup {s} /\ s \notin Items(results')
  BY <1>0, <1>1, OneLess
<1>3. s \notin Items(collected)
  BY <1>1, <1>2
<1> HIDE DEF s
<1>4. /\ collected' \in Seq(QuickScan) /\ Distinct(collected')
      /\ Items(collected') = Items(collected) \cup {s}
  BY <1>0, <1>1, <1>2, <1>3, OneMore
<1>5. /\ n \in Nat /\ Len(collected') = n + 1 /\ collected'[n + 1] = s
      /\ \A i \in 1..n : collected'[i] = collected[i]
      /\ DOMAIN collected' = 1..(n + 1)
  BY <1>0, <1>1, <1>2, <1>4, AppendProperties, LenProperties
<1>6. findings' = Concat(Answers', n + 1)
  <2>1. DOMAIN Answers' = 1..(n + 1)
    BY <1>5 DEF Answers
  <2>2. \A i \in 1..n : Answers'[i] = Answers[i]
    <3> SUFFICES ASSUME NEW i \in 1..n PROVE Answers'[i] = Answers[i]
      OBVIOUS
    <3>1. i \in 1..(n + 1)
      BY <1>5
    <3>2. Answers'[i] = IF Found(collected[i]) THEN scan[collected[i]].findings ELSE <<>>
      BY <1>0, <1>5, <3>1 DEF Answers, Found
    <3>3. Answers[i] = IF Found(collected[i]) THEN scan[collected[i]].findings ELSE <<>>
      BY <1>0, AnswersFacts
    <3> QED
      BY <3>2, <3>3
  <2>3. Answers'[n + 1] = IF Found(s) THEN scan[s].findings ELSE <<>>
    <3>1. n + 1 \in 1..(n + 1)
      BY <1>5
    <3> QED
      BY <1>0, <1>5, <3>1 DEF Answers, Found
  <2>4. Concat(Answers', n) = findings
    <3>1. PICK f, g : f = Answers' /\ g = Answers
      OBVIOUS
    <3>2. n \in 0..n /\ \A i \in 1..n : f[i] = g[i]
      BY <1>5, <2>2, <3>1
    <3>3. Concat(f, n) = Concat(g, n)
      BY <1>5, <3>2, ConcatAgrees
    <3>4. findings = Concat(Answers, n)
      BY <1>0 DEF AnswersInv
    <3> QED
      BY <3>1, <3>3, <3>4
  <2>5. Concat(Answers', n + 1) = findings \o Answers'[n + 1]
    <3>1. PICK f : f = Answers'
      OBVIOUS
    <3>2. Concat(f, n + 1) = Concat(f, n) \o f[n + 1]
      BY <1>5, ConcatUnfolds
    <3> QED
      BY <2>4, <3>1, <3>2
  <2>6. CASE Found(s)
    BY <1>0, <2>3, <2>5, <2>6
  <2>7. CASE ~Found(s)
    <3>1. findings \in Seq(AnyFinding)
      BY <1>0, AnswersFacts
    <3>2. findings \o <<>> = findings
      BY <3>1, ConcatEmptySeq
    <3> QED
      BY <1>0, <2>3, <2>5, <2>7, <3>2
  <2> QED
    BY <2>6, <2>7
<1>7. \A t \in QuickScan : scan[t].pc = "sent" <=> t \in Items(collected') \cup Items(results')
  <2>1. \A t \in QuickScan : scan[t].pc = "sent" <=> t \in Items(collected) \cup Items(results)
    BY <1>0 DEF AnswersInv
  <2> QED
    BY <1>2, <1>4, <2>1
<1>8. Items(collected') \cap Items(results') = {}
  BY <1>1, <1>2, <1>4
<1>9. Items(collected)' = Items(collected') /\ Items(results)' = Items(results')
      /\ Concat(Answers, Len(collected))' = Concat(Answers', n + 1)
      /\ Distinct(collected)' = Distinct(collected') /\ Distinct(results)' = Distinct(results')
  BY <1>5 DEF Items, Distinct
<1> QED
  BY <1>0, <1>2, <1>4, <1>6, <1>7, <1>8, <1>9 DEF AnswersInv

\* When all have answered, the answers enumerate the scanners.
LEMMA AllAnswered ==
    ASSUME NEW q \in Seq(QuickScan), Distinct(q), Items(q) = QuickScan
    PROVE  Cardinality(QuickScan) = Len(q) /\ Cardinality(1..Len(q)) = Len(q) /\ q \in Orders(QuickScan)
<1>1. PICK n \in Nat : n = Len(q)
  BY LenProperties
<1>2. q \in [1..n -> QuickScan]
  BY <1>1, LenProperties, ElementOfSeq
<1>3. IsFiniteSet(1..n) /\ Cardinality(1..n) = n
  <2>1. IsFiniteSet(1..n) /\ Cardinality(1..n) = IF 1 > n THEN 0 ELSE n - 1 + 1
    BY FS_Interval
  <2> QED
    BY <2>1
<1>4. q \in Bijection(1..n, QuickScan)
  <2>1. \A i, j \in 1..n : q[i] = q[j] => i = j
    BY <1>1 DEF Distinct
  <2>2. \A s \in QuickScan : \E i \in 1..n : q[i] = s
    BY <1>1 DEF Items
  <2> QED
    BY <1>2, <2>1, <2>2 DEF Bijection, Injection, Surjection, IsInjective
<1>5. Cardinality(QuickScan) = n
  <2>1. ExistsBijection(1..n, QuickScan)
    BY <1>4 DEF ExistsBijection
  <2> QED
    BY <1>3, <2>1, FS_Bijection
<1>6. q \in Orders(QuickScan)
  <2>1. \A s \in QuickScan : \E i \in DOMAIN q : q[i] = s
    BY <1>1, <1>2 DEF Items
  <2> QED
    BY <1>2, <1>5, <2>1 DEF Orders
<1> QED
  BY <1>1, <1>3, <1>5, <1>6

\* The channel is closed and empty: all scanners have answered.
LEMMA CollectEndsAnswers ==
    ASSUME IInv, DataInv, AnswersInv, CollectEnds
    PROVE  AnswersInv'
<1> DEFINE n == Len(collected)
           failures == {i \in DOMAIN collected : scan[collected[i]].status = "failed"}
<1>0. /\ job = "collect" /\ main # "idle" /\ cmd.name = "assess" /\ results = <<>> /\ closed
      /\ UNCHANGED <<main, cmd, scan, collected, results, findings>>
      /\ job' \in {"generate", "done"}
      /\ job' = "generate" => ~(findings = <<>> /\ Cardinality(failures) = Cardinality(QuickScan))
  <2>1. job = "collect"
    BY DEF CollectEnds
  <2> QED
    BY <2>1, JobFacts DEF CollectEnds, JobEnds, cmd
<1>1. collected \in Seq(QuickScan) /\ Distinct(collected) /\ findings = Concat(Answers, n)
  BY <1>0 DEF AnswersInv
<1>2. Items(collected) = QuickScan
  <2>1. \A s \in QuickScan : scan[s].pc = "sent"
    BY <1>0 DEF IInv, JobInv
  <2>2. Items(results) = {}
    BY <1>0 DEF Items
  <2>3. QuickScan \subseteq Items(collected)
    BY <1>0, <2>1, <2>2 DEF AnswersInv
  <2>4. Items(collected) \subseteq QuickScan
    BY <1>1, ElementOfSeq DEF Items
  <2> QED
    BY <2>3, <2>4
<1>3. ASSUME \A s \in Scanner : ~Found(s) PROVE findings = <<>> /\ Cardinality(failures) = Cardinality(QuickScan)
  <2>1. \A i \in 1..n : scan[collected[i]].status = "failed" /\ Answers[i] = <<>>
    <3> SUFFICES ASSUME NEW i \in 1..n PROVE scan[collected[i]].status = "failed" /\ Answers[i] = <<>>
      OBVIOUS
    <3>1. /\ collected[i] \in Scanner /\ scan[collected[i]].pc = "sent"
          /\ Answers[i] = IF Found(collected[i]) THEN scan[collected[i]].findings ELSE <<>>
      BY <1>0, AnswersFacts
    <3>2. scan[collected[i]].status \in {"ok", "failed"}
      BY <3>1 DEF IInv, PlaceType, IsScan
    <3> QED
      BY <1>3, <3>1, <3>2 DEF Found
  <2>2. n \in Nat /\ DOMAIN collected = 1..n
    BY <1>1, LenProperties
  <2>3. failures = 1..n
    BY <2>1, <2>2
  <2>4. Cardinality(failures) = Cardinality(QuickScan)
    BY <1>1, <1>2, <2>3, AllAnswered
  <2>5. Items(findings) = {}
    <3> HIDE DEF n
    <3>1. \A i \in 1..n : Answers[i] \in Seq(AnyFinding) /\ Items(Answers[i]) = {}
      <4>1. <<>> \in Seq(AnyFinding) /\ Items(<<>>) = {}
        BY EmptySeq DEF Items
      <4> QED
        BY <2>1, <4>1
    <3>2. Items(Concat(Answers, n)) = UNION {Items(Answers[i]) : i \in 1..n}
      BY <2>2, <3>1, ConcatItems
    <3> QED
      BY <1>1, <3>1, <3>2
  <2>6. findings = <<>>
    <3> SUFFICES ASSUME findings # <<>> PROVE FALSE
      OBVIOUS
    <3>1. findings \in Seq(AnyFinding)
      BY <1>0, AnswersFacts
    <3>2. 1 \in 1..Len(findings)
      BY <3>1, EmptySeq
    <3> QED
      BY <2>5, <3>2 DEF Items
  <2> QED
    BY <2>4, <2>6
<1>4. job' = "generate" => \E s \in Scanner : Found(s)
  BY <1>0, <1>3
<1>5. Answers' = Answers /\ Items(collected)' = Items(collected) /\ Items(results)' = Items(results)
      /\ \A s : Found(s)' = Found(s)
  BY <1>0 DEF Answers, Items, Found
<1> QED
  BY <1>0, <1>2, <1>4, <1>5 DEF AnswersInv, Distinct

\* What is said of the answers is kept by every step, and holds at first.
LEMMA NextAnswers == IInv /\ DataInv /\ AnswersInv /\ [Next]_vars => AnswersInv'
<1> SUFFICES ASSUME IInv, DataInv, AnswersInv, [Next]_vars PROVE AnswersInv'
  OBVIOUS
<1> SUFFICES ASSUME main' # "idle", cmd'.name = "assess" PROVE AnswersInv'
  BY DEF AnswersInv
<1>1. CASE StartCommand
  <2>1. /\ collected' = <<>> /\ results' = <<>> /\ findings' = <<>>
        /\ job' \notin {"generate", "done"}
        /\ scan' = [s \in Scanner |-> [NewScan EXCEPT !.pc = IF s \in Running(cmd) THEN "start" ELSE "idle"]]
    <3>1. job' = CASE cmd.name = "scan" -> "scan"
                   [] cmd.name = "assess" -> "collect"
                   [] cmd.name = "pipeline" -> "stage"
                   [] OTHER -> "read"
      BY <1>1 DEF StartCommand, NewJob
    <3>2. job' \notin {"generate", "done"}
      BY <3>1
    <3> QED
      BY <1>1, <3>2 DEF StartCommand, NewJob
  <2>2. \A s \in QuickScan : scan'[s].pc # "sent"
    <3> SUFFICES ASSUME NEW s \in QuickScan PROVE scan'[s].pc # "sent"
      OBVIOUS
    <3>1. PICK pc \in {"idle", "start"} : scan'[s] = [NewScan EXCEPT !.pc = pc]
      BY <2>1, QuickScanAssumption
    <3> QED
      BY <3>1 DEF NewScan
  <2>3. Items(<<>>) = {} /\ Distinct(<<>>) /\ <<>> \in Seq(QuickScan) /\ Len(<<>>) = 0
    BY EmptySeq DEF Items, Distinct
  <2>4. Concat(Answers', 0) = <<>>
    BY ConcatUnfolds
  <2>5. /\ Items(collected)' = {} /\ Items(results)' = {} /\ Distinct(collected)' /\ Distinct(results)'
        /\ Concat(Answers, Len(collected))' = <<>>
    BY <2>1, <2>3, <2>4
  <2> QED
    BY <2>1, <2>2, <2>3, <2>5 DEF AnswersInv
<1>2. ASSUME NEW s \in Scanner, ScannerStep(s), UNCHANGED other PROVE AnswersInv'
  <2>1. UNCHANGED <<main, cmd, job, collected, results, findings>>
    BY <1>2 DEF other, jobVars, cmd
  <2>2. Works(s)
    BY <1>2, StepWorks DEF IInv
  <2>3. /\ ~Quiet(s) /\ \A t \in Scanner \ {s} : scan'[t] = scan[t]
        /\ scan'[s].pc # "sent" /\ scan[s].pc # "sent"
    BY <2>2 DEF Works, MovesTo, Quiet
  <2>4. job # "generate"
    BY <2>1, <2>3 DEF IInv, JobInv
  <2> QED
    BY <2>1, <2>3, <2>4, AnswersStay
<1>3. ASSUME NEW s \in Scanner, SendResult(s) PROVE AnswersInv'
  BY <1>3, SendAnswers
<1>4. CASE Collect
  BY <1>4, CollectAnswers
<1>5. CASE CollectEnds
  BY <1>5, CollectEndsAnswers
<1>6. ASSUME UNCHANGED <<scan, main, cmd, collected, results, findings>>,
             job' = job \/ (job' = "done" /\ job = "generate")
      PROVE  AnswersInv'
  BY <1>6, AnswersStay
<1>7. CASE \E s \in Scanner : CountDone(s)
  BY <1>6, <1>7 DEF CountDone, cmd
<1>8. CASE CloseResults
  BY <1>6, <1>8 DEF CloseResults, cmd
<1>9. CASE Assess
  BY <1>6, <1>9 DEF Assess, JobEnds, cmd
<1>10. CASE TuiEnds
  <2>1. UNCHANGED <<scan, cmd, job, collected, results, findings>> /\ main # "idle"
    BY <1>10 DEF TuiEnds, jobVars, cmd
  <2>2. Answers' = Answers /\ Items(collected)' = Items(collected) /\ Items(results)' = Items(results)
        /\ \A s : Found(s)' = Found(s)
    BY <2>1 DEF Answers, Items, Found
  <2> QED
    BY <2>1, <2>2 DEF AnswersInv, Distinct
<1>11. CASE Timeout \/ SessionEnded \/ UNCHANGED vars
  BY <1>6, <1>11 DEF Timeout, ContextEnds, SessionEnded, vars, jobVars, cmd
<1>12. CASE ScanEnds \/ RunStage \/ CheckPolicy \/ ReportCompliance \/ ValidatePolicies
  <2>1. /\ job \in {"scan", "stage", "read"} /\ cmd' = cmd
    BY <1>12 DEF ScanEnds, RunStage, CheckPolicy, ReportCompliance, ValidatePolicies, cmd
  <2>2. cmd.name # "assess"
    <3>1. cmd.name = "assess" => Running(cmd) = QuickScan
      BY <2>1, JobFacts, CommandFacts
    <3> QED
      BY <2>1, <3>1, JobFacts, QuickScanAssumption
  <2> QED
    BY <2>1, <2>2
<1>13. CASE Receive \/ Output
  <2>1. main' = "idle" \/ (main' = "output" /\ cmd.name = "scan" /\ cmd' = cmd)
    BY <1>13, Zenon DEF Receive, Output, Return, cmd
  <2> QED
    BY <2>1
<1> QED
  BY <1>1, <1>2, <1>3, <1>4, <1>5, <1>7, <1>8, <1>9, <1>10, <1>11, <1>12, <1>13, Zenon
     DEF Next, MainWorks, JobWorks, ScannerWorks, other

LEMMA InitAnswers == Init => AnswersInv
BY DEF Init, AnswersInv

\* However the scanners of assess answer and in whatever order, the findings of
\* those that have not failed are handed on, each scanner's once and nothing
\* else, and the assessment is given up only if all have failed.
THEOREM AssessLosesNothing == Spec => []NothingLost
<1>1. IInv /\ DataInv /\ AnswersInv => NothingLost
  <2> SUFFICES ASSUME IInv, DataInv, AnswersInv,
                      main # "idle", cmd.name = "assess", job \in {"generate", "done"}
               PROVE  NothingLost
    BY DEF NothingLost
  <2>1. collected \in Seq(QuickScan) /\ Distinct(collected) /\ Items(collected) = QuickScan
    BY DEF AnswersInv
  <2>2. collected \in Orders(QuickScan)
    BY <2>1, AllAnswered
  <2>3. findings = Concat([i \in DOMAIN collected |->
              IF Found(collected[i]) THEN scan[collected[i]].findings ELSE <<>>], Len(collected))
    BY DEF AnswersInv, Answers
  <2>4. job = "generate" => \E s \in Scanner : Found(s)
    BY DEF AnswersInv
  <2> QED
    BY <2>2, <2>3, <2>4 DEF NothingLost
<1> QED
  BY <1>1, InitHolds, NextHolds, InitData, NextData, InitAnswers, NextAnswers, PTL DEF Spec

-----------------------------------------------------------------------------
(* The gates: a policy stage, and a policy check of a saved scan.          *)

\* Counting by severity finds something exactly if something is there.
LEMMA CountPositive ==
    ASSUME NEW q \in Seq(AnyFinding), NEW severities
    PROVE  /\ CountSeverity(q, severities) \in Nat
           /\ CountSeverity(q, severities) > 0 <=> \E f \in Items(q) : f.severity \in severities
<1> DEFINE there == {i \in DOMAIN q : q[i].severity \in severities}
<1>1. PICK n \in Nat : n = Len(q) /\ DOMAIN q = 1..n
  BY LenProperties
<1>2. IsFiniteSet(1..n)
  BY FS_Interval
<1>3. IsFiniteSet(there)
  <2>1. there \subseteq 1..n
    BY <1>1
  <2> HIDE DEF there
  <2> QED
    BY <1>2, <2>1, FS_Subset
<1> DEFINE some == \E f \in Items(q) : f.severity \in severities
<1>4. there # {} <=> some
  BY <1>1 DEF Items
<1>5. CountSeverity(q, severities) = Cardinality(there)
  BY DEF CountSeverity
<1> HIDE DEF there
<1>6. Cardinality(there) \in Nat /\ (Cardinality(there) = 0 <=> there = {})
  BY <1>3, FS_CardinalityType, FS_EmptySet
<1> HIDE DEF some
<1>7. Cardinality(there) > 0 <=> some
  BY <1>4, <1>6
<1> QED
  BY <1>5, <1>6, <1>7 DEF some

\* There are finitely many scanners.
LEMMA ScannersFinite == IsFiniteSet(Scanner)
<1>1. IsFiniteSet({}) /\ IsFiniteSet({} \cup {"osv"})
  BY FS_EmptySet, FS_AddElement
<1>2. IsFiniteSet({} \cup {"osv"} \cup {"trivy"})
  BY <1>1, FS_AddElement
<1>3. IsFiniteSet({} \cup {"osv"} \cup {"trivy"} \cup {"semgrep"})
  BY <1>2, FS_AddElement
<1>4. IsFiniteSet({} \cup {"osv"} \cup {"trivy"} \cup {"semgrep"} \cup {"gitleaks"})
  BY <1>3, FS_AddElement
<1>5. Scanner = {} \cup {"osv"} \cup {"trivy"} \cup {"semgrep"} \cup {"gitleaks"}
  BY DEF Scanner, Tool
<1> QED
  BY <1>4, <1>5

\* What the stages hand on has the findings of all of them.
LEMMA ExtractedItems ==
    ASSUME IInv, DataInv, NEW ok \in SUBSET Scanner, NEW order \in Orders(ok)
    PROVE  /\ Extracted(order) \in Seq(AnyFinding)
           /\ \A s \in ok : \A i \in DOMAIN scan[s].findings : scan[s].findings[i] \in Items(Extracted(order))
<1> DEFINE parts == [i \in DOMAIN order |-> scan[order[i]].findings]
<1>1. PICK n \in Nat : n = Cardinality(ok)
  <2>1. IsFiniteSet(ok)
    BY ScannersFinite, FS_Subset
  <2> QED
    BY <2>1, FS_CardinalityType
<1>2. /\ order \in Seq(ok) /\ Len(order) = n /\ DOMAIN order = 1..n
      /\ \A i \in 1..n : order[i] \in ok
      /\ \A s \in ok : \E i \in 1..n : order[i] = s
  <2>1. order \in [1..n -> ok] /\ \A s \in ok : \E i \in DOMAIN order : order[i] = s
    BY <1>1 DEF Orders
  <2> QED
    BY <2>1
<1>3. \A i \in 1..n : parts[i] = scan[order[i]].findings /\ parts[i] \in Seq(AnyFinding)
  BY <1>2, FindingsType
<1>4. Extracted(order) = Concat(parts, n)
  BY <1>2 DEF Extracted
<1> HIDE DEF parts
<1>5. Items(Concat(parts, n)) = UNION {Items(parts[i]) : i \in 1..n}
  BY <1>3, ConcatItems
<1>6. Concat(parts, n) \in Seq(AnyFinding)
  <2>1. n \in 0..n
    OBVIOUS
  <2> QED
    BY <1>3, <2>1, ConcatIsSeq
<1>7. ASSUME NEW s \in ok, NEW j \in DOMAIN scan[s].findings
      PROVE  scan[s].findings[j] \in UNION {Items(parts[i]) : i \in 1..n}
  <2>1. PICK i \in 1..n : order[i] = s
    BY <1>2
  <2>2. parts[i] = scan[s].findings /\ DOMAIN parts[i] = 1..Len(parts[i])
    BY <1>3, <2>1, LenProperties
  <2>3. scan[s].findings[j] \in Items(parts[i])
    BY <2>2 DEF Items
  <2> QED
    BY <2>3
<1> QED
  BY <1>4, <1>5, <1>6, <1>7

\* The stage that depends on the scan stages judges what they have found.
LEMMA StageTells ==
    ASSUME IInv, DataInv, RunStage
    PROVE  StageTellsScans'
<1> DEFINE ok == {s \in cmd.scanners : scan[s].status = "ok"}
<1>0. /\ job = "stage" /\ main # "idle" /\ cmd.name = "pipeline"
      /\ UNCHANGED <<scan, cmd>>
      /\ cmd.scanners \subseteq Scanner
      /\ \A s \in Scanner : scan[s].pc # "idle" => s \in cmd.scanners
  <2>1. job = "stage"
    BY DEF RunStage
  <2>2. /\ main # "idle" /\ script # <<>> /\ script \in Seq(Command) /\ cmd.name = "pipeline"
        /\ \A s \in Scanner : scan[s].pc # "idle" => s \in Running(cmd)
    BY <2>1, JobFacts
  <2> QED
    BY <2>1, <2>2, CommandFacts DEF RunStage, cmd
<1> SUFFICES ASSUME outcome' = "ok"
             PROVE  /\ \A s \in cmd.scanners : Found(s)
                    /\ cmd.stage = "policy" =>
                          \A s \in Scanner : \A i \in DOMAIN scan[s].findings :
                              scan[s].findings[i].severity \notin Threshold(cmd.failOn)
  BY <1>0 DEF StageTellsScans, Found
<1>1. PICK order \in Orders(ok) : StageResult(Extracted(order)) = "success" /\ ok = cmd.scanners
  <2>1. \/ outcome' = "failed"
        \/ \E order \in Orders(ok) :
              outcome' = IF StageResult(Extracted(order)) = "success" /\ ok = cmd.scanners THEN "ok" ELSE "failed"
    BY Zenon DEF RunStage, JobEnds
  <2> QED
    BY <2>1
<1>2. \A s \in cmd.scanners : Found(s)
  BY <1>1 DEF Found
<1>3. ASSUME cmd.stage = "policy", NEW s \in Scanner, NEW i \in DOMAIN scan[s].findings
      PROVE  scan[s].findings[i].severity \notin Threshold(cmd.failOn)
  <2>1. CASE s \in cmd.scanners
    <3> DEFINE input == Extracted(order)
    <3>1. input \in Seq(AnyFinding) /\ scan[s].findings[i] \in Items(input)
      BY <1>0, <1>1, <1>3, <2>1, ExtractedItems
    <3> HIDE DEF input
    <3>2. PolicyStage(target.policies, cmd.failOn, input) = "success"
      BY <1>1, <1>3 DEF StageResult, input
    <3>3. ~(CountSeverity(input, Threshold(cmd.failOn)) > 0)
      BY <3>2 DEF PolicyStage, checkThreshold
    <3> QED
      BY <3>1, <3>3, CountPositive
  <2>2. CASE s \notin cmd.scanners
    <3>1. scan[s].pc = "idle"
      BY <1>0, <2>2
    <3>2. scan[s].findings = <<>>
      <4>1. CASE s = "osv"
        BY <3>1, <4>1 DEF DataInv, OsvOk
      <4>2. CASE s # "osv"
        BY <3>1, <4>2 DEF DataInv, ToolOk, Scanner
      <4> QED
        BY <4>1, <4>2
    <3> QED
      BY <1>3, <3>2
  <2> QED
    BY <2>1, <2>2
<1> QED
  BY <1>2, <1>3

\* Nothing else changes its verdict while the command runs.
LEMMA NextStage == IInv /\ DataInv /\ StageTellsScans /\ [Next]_vars => StageTellsScans'
<1> SUFFICES ASSUME IInv, DataInv, StageTellsScans, [Next]_vars, main' # "idle", cmd'.name = "pipeline",
                    job' = "done"
             PROVE  StageTellsScans'
  BY DEF StageTellsScans
<1>1. CASE RunStage
  BY <1>1, StageTells
<1>2. ASSUME main # "idle", UNCHANGED <<scan, cmd, job, outcome>> PROVE StageTellsScans'
  BY <1>2 DEF StageTellsScans, Found
<1>3. CASE StartCommand
  <2>1. job' = CASE cmd.name = "scan" -> "scan"
                 [] cmd.name = "assess" -> "collect"
                 [] cmd.name = "pipeline" -> "stage"
                 [] OTHER -> "read"
    BY <1>3 DEF StartCommand, NewJob
  <2>2. job' # "done"
    BY <2>1
  <2> QED
    BY <2>2
<1>4. ASSUME NEW s \in Scanner, ScannerStep(s), UNCHANGED other PROVE FALSE
  <2>1. Works(s) /\ job' = job
    BY <1>4, StepWorks DEF IInv, other, jobVars
  <2>2. ~Quiet(s)
    BY <2>1 DEF Works
  <2> QED
    BY <2>1, <2>2 DEF IInv, JobInv, MainInv
<1>5. ASSUME NEW s \in Scanner, SendResult(s) \/ CountDone(s) PROVE FALSE
  BY <1>5 DEF SendResult, CountDone, cmd
<1>6. CASE ScanEnds \/ CloseResults \/ Collect \/ CollectEnds \/ Assess \/ CheckPolicy \/ ReportCompliance
           \/ ValidatePolicies
  <2>1. job \in {"scan", "collect", "generate", "read"} /\ cmd' = cmd
    BY <1>6 DEF ScanEnds, CloseResults, Collect, CollectEnds, Assess, CheckPolicy, ReportCompliance,
                ValidatePolicies, cmd
  <2>2. job = "read"
    BY <2>1, JobFacts
  <2>3. cmd.name \in {"policy", "compliance", "validate"}
    BY <1>6, <2>2 DEF ScanEnds, CloseResults, Collect, CollectEnds, Assess, CheckPolicy, ReportCompliance,
                ValidatePolicies
  <2> QED
    BY <2>1, <2>3
<1>7. CASE Receive \/ Output
  <2>1. main' = "idle" \/ (main' = "output" /\ cmd.name = "scan" /\ cmd' = cmd)
    BY <1>7, Zenon DEF Receive, Output, Return, cmd
  <2> QED
    BY <2>1
<1>8. CASE TuiEnds \/ Timeout \/ SessionEnded \/ UNCHANGED vars
  <2>1. UNCHANGED <<scan, cmd, job, outcome>>
    BY <1>8 DEF TuiEnds, Timeout, ContextEnds, SessionEnded, vars, jobVars, cmd
  <2>2. main # "idle"
    BY <1>8 DEF TuiEnds, Timeout, SessionEnded, vars
  <2> QED
    BY <1>2, <2>1, <2>2
<1> QED
  BY <1>1, <1>3, <1>4, <1>5, <1>6, <1>7, <1>8, Zenon DEF Next, MainWorks, JobWorks, ScannerWorks, other

\* A decision lets the check pass.
Passes(value) == parseDecision(value).allow /\ ~parseDecision(value).deny

\* The decisions of the policies.
LEMMA Decisions ==
    /\ Passes([kind |-> "undefined"])
    /\ Passes(DefaultDecision) /\ Passes(Warn)
    /\ \A by : ~Passes(Block(by))
    /\ \A v \in BOOLEAN : Passes([kind |-> "bool", value |-> v]) <=> v
    /\ \A d \in BOOLEAN : Passes(Object([deny |-> d])) <=> ~d
<1>1. Passes([kind |-> "undefined"])
  BY DEF Passes, parseDecision
<1>2. Passes(DefaultDecision) /\ Passes(Warn)
  BY DEF Passes, parseDecision, DefaultDecision, Warn, Object
<1>3. \A by : ~Passes(Block(by))
  BY DEF Passes, parseDecision, Block, Object
<1>4. \A v \in BOOLEAN : Passes([kind |-> "bool", value |-> v]) <=> v
  BY DEF Passes, parseDecision
<1>5. \A d \in BOOLEAN : Passes(Object([deny |-> d])) <=> ~d
  BY DEF Passes, parseDecision, Object
<1> QED
  BY <1>1, <1>2, <1>3, <1>4, <1>5

\* The check of a list of findings passes exactly if they break no rule of the
\* policy.
LEMMA Verdict ==
    ASSUME NEW c \in Command, c.name = "policy", NEW q \in Seq(AnyFinding)
    PROVE  Check(Chosen(c.policy, c.strict), q).passed <=> ~Denies(c, Items(q))
<1> DEFINE policy == Chosen(c.policy, c.strict)
           value == RegoValue(policy, q)
           severe == \E f \in Items(q) : f.severity \in Severe
<1>1. c.policy \in Seq(PolicyFile) /\ c.strict \in BOOLEAN
  BY DEF Command
<1>2. Check(policy, q).passed <=> Passes(value)
  BY DEF Check, evaluatePolicy, Passes
<1>3. Severe = {"critical", "high"}
  BY DEF Severe
<1>4. /\ CountSeverity(q, Severe) > 0 <=> severe
      /\ CountSeverity(q, {"critical"}) > 0 <=> \E f \in Items(q) : f.severity = "critical"
      /\ CountSeverity(q, {"high"}) > 0 <=> \E f \in Items(q) : f.severity = "high"
  <2>1. \A severities : CountSeverity(q, severities) > 0 <=> \E f \in Items(q) : f.severity \in severities
    BY CountPositive
  <2>2. /\ CountSeverity(q, {"critical"}) > 0 <=> \E f \in Items(q) : f.severity \in {"critical"}
        /\ CountSeverity(q, {"high"}) > 0 <=> \E f \in Items(q) : f.severity \in {"high"}
    BY <2>1
  <2> QED
    BY <2>1, <2>2
<1>5. DOMAIN q = 1..Len(q) /\ (q = <<>> <=> Items(q) = {})
  <2>1. DOMAIN q = 1..Len(q)
    BY LenProperties
  <2>2. q # <<>> => 1 \in 1..Len(q)
    BY EmptySeq
  <2>3. q = <<>> => Items(q) = {}
    BY DEF Items
  <2> QED
    BY <2>1, <2>2, <2>3 DEF Items
<1>6. (\E i \in DOMAIN q : q[i].scanner = "gitleaks") <=> (\E f \in Items(q) : f.scanner = "gitleaks")
  BY <1>5 DEF Items
<1> HIDE DEF severe
<1>a. BlockHighAndCritical(q) = (IF severe THEN Block("high_critical_findings") ELSE DefaultDecision)
  BY <1>4 DEF BlockHighAndCritical
<1>b. Passes(BlockHighAndCritical(q)) <=> ~severe
  BY <1>a, Decisions
<1>c. Passes(StrictSecurity(q)) <=> ~severe
  <2>1. StrictSecurity(q) \in {Block("critical"), Block("high"), Warn, DefaultDecision}
        /\ (StrictSecurity(q) \in {Block("critical"), Block("high")} \/ ~severe)
    <3>1. severe => (\E f \in Items(q) : f.severity = "critical") \/ (\E f \in Items(q) : f.severity = "high")
      BY <1>3 DEF severe
    <3> QED
      BY <1>4, <3>1 DEF StrictSecurity
  <2>2. severe => StrictSecurity(q) \in {Block("critical"), Block("high")}
    BY <2>1
  <2>3. ~severe => StrictSecurity(q) \in {Warn, DefaultDecision}
    <3>1. ~severe => ~(\E f \in Items(q) : f.severity = "critical") /\ ~(\E f \in Items(q) : f.severity = "high")
      BY <1>3 DEF severe
    <3> QED
      BY <1>4, <3>1 DEF StrictSecurity
  <2> QED
    BY <2>2, <2>3, Decisions
<1>7. CASE c.policy = <<>>
  <2>1. policy \in {DefaultPolicy("strict_security"), DefaultPolicy("block_high_critical")}
    BY <1>1, <1>7 DEF Chosen
  <2>2. policy.package = "devsec" /\ policy.rule \in {"strict_security", "block_high_critical"}
    BY <2>1 DEF DefaultPolicy
  <2>3. value \in {StrictSecurity(q), BlockHighAndCritical(q)}
    BY <2>2 DEF RegoValue
  <2>4. Denies(c, Items(q)) <=> severe
    BY <1>7 DEF Denies, severe
  <2> QED
    BY <1>2, <1>b, <1>c, <2>3, <2>4
<1>8. CASE c.policy # <<>>
  <2>1. policy = c.policy[1]
    BY <1>8 DEF Chosen
  <2>2. policy \in PolicyFile
    <3>1. 1 \in 1..Len(c.policy)
      BY <1>1, <1>8, EmptySeq
    <3> QED
      BY <1>1, <2>1, <3>1, ElementOfSeq
  <2>3. policy.rule \in {"none", "block_critical", "block_high_critical", "strict_security", "warn_secrets",
                         "clean", "no secrets"}
    BY <2>2 DEF PolicyFile
  <2> HIDE DEF policy
  <2>4. ASSUME policy.package # "devsec" PROVE Passes(value) <=> ~Denies(c, Items(q))
    <3>1. value = [kind |-> "undefined"]
      BY <2>4 DEF RegoValue
    <3>2. ~Denies(c, Items(q))
      BY <1>8, <2>1, <2>4 DEF Denies
    <3> QED
      BY <3>1, <3>2, Decisions
  <2>5. ASSUME policy.package = "devsec", policy.rule = "none" PROVE Passes(value) <=> ~Denies(c, Items(q))
    <3>1. value = [kind |-> "undefined"]
      BY <2>5 DEF RegoValue
    <3>2. ~Denies(c, Items(q))
      BY <1>8, <2>1, <2>5 DEF Denies
    <3> QED
      BY <3>1, <3>2, Decisions
  <2>6. ASSUME policy.package = "devsec", policy.rule = "block_critical" PROVE Passes(value) <=> ~Denies(c, Items(q))
    <3>1. value = BlockCritical(q)
      BY <2>6 DEF RegoValue
    <3>2. Denies(c, Items(q)) <=> \E f \in Items(q) : f.severity = "critical"
      BY <1>8, <2>1, <2>6 DEF Denies
    <3> QED
      BY <1>4, <3>1, <3>2, Decisions DEF BlockCritical
  <2>7. ASSUME policy.package = "devsec", policy.rule = "block_high_critical"
        PROVE  Passes(value) <=> ~Denies(c, Items(q))
    <3>1. value = BlockHighAndCritical(q)
      BY <2>7 DEF RegoValue
    <3>2. Denies(c, Items(q)) <=> severe
      BY <1>8, <2>1, <2>7 DEF Denies, severe
    <3> QED
      BY <1>b, <3>1, <3>2
  <2>8. ASSUME policy.package = "devsec", policy.rule = "strict_security"
        PROVE  Passes(value) <=> ~Denies(c, Items(q))
    <3>1. value = StrictSecurity(q)
      BY <2>8 DEF RegoValue
    <3>2. Denies(c, Items(q)) <=> severe
      BY <1>8, <2>1, <2>8 DEF Denies, severe
    <3> QED
      BY <1>c, <3>1, <3>2
  <2>9. ASSUME policy.package = "devsec", policy.rule = "warn_secrets"
        PROVE  Passes(value) <=> ~Denies(c, Items(q))
    <3>1. value \in {Warn, DefaultDecision}
      BY <2>9 DEF RegoValue, WarnSecrets
    <3>2. ~Denies(c, Items(q))
      BY <1>8, <2>1, <2>9 DEF Denies
    <3> QED
      BY <3>1, <3>2, Decisions
  <2>10. ASSUME policy.package = "devsec", policy.rule = "clean" PROVE Passes(value) <=> ~Denies(c, Items(q))
    <3>1. value = [kind |-> "bool", value |-> q = <<>>]
      BY <2>10 DEF RegoValue
    <3>2. Denies(c, Items(q)) <=> Items(q) # {}
      BY <1>8, <2>1, <2>10 DEF Denies
    <3>3. PICK v \in BOOLEAN : v = (q = <<>>)
      OBVIOUS
    <3>4. Passes(value) <=> v
      BY <3>1, <3>3, Decisions
    <3> QED
      BY <1>5, <3>2, <3>3, <3>4
  <2>11. ASSUME policy.package = "devsec", policy.rule = "no secrets" PROVE Passes(value) <=> ~Denies(c, Items(q))
    <3>1. value = Object([deny |-> \E i \in DOMAIN q : q[i].scanner = "gitleaks"])
      BY <2>11 DEF RegoValue
    <3>2. Denies(c, Items(q)) <=> \E f \in Items(q) : f.scanner = "gitleaks"
      BY <1>8, <2>1, <2>11 DEF Denies
    <3>3. PICK d \in BOOLEAN : d = (\E i \in DOMAIN q : q[i].scanner = "gitleaks")
      OBVIOUS
    <3>4. Passes(value) <=> ~d
      BY <3>1, <3>3, Decisions
    <3> QED
      BY <1>6, <3>2, <3>3, <3>4
  <2> HIDE DEF value
  <2> QED
    BY <1>2, <2>3, <2>4, <2>5, <2>6, <2>7, <2>8, <2>9, <2>10, <2>11 DEF policy
<1> QED
  BY <1>7, <1>8

\* A scan has left its findings in the output file.
Kept(e) ==
    e.cmd.name = "scan" /\ e.cmd.format = "json" /\ e.cmd.scanner \in Tool /\ e.code \in {"ok", "found"}

SavedAs(file, found) ==
    file.kind = "findings" /\ file.findings \in Seq(AnyFinding) /\ Items(file.findings) = found

\* After such a scan, and while the policies are checked, the output file has
\* its findings; and the check decides on them.
SavedInv ==
    (Len(exits) = 1 /\ Kept(exits[1])) =>
        /\ (main = "idle" \/ cmd.name = "policy") => SavedAs(output, InReport(exits[1].cmd.scanner))
        /\ (main # "idle" /\ cmd.name = "policy" /\ job = "done" /\ outcome # "failed") =>
              (report[1].passed <=> ~Denies(cmd, InReport(exits[1].cmd.scanner)))

GateInv == SavedInv /\ CheckTellsScan

\* The findings of a scan that has succeeded are those of the report.
LEMMA FoundInReport ==
    ASSUME IInv, DataInv, NEW s \in Tool, scan[s].pc = "done", scan[s].status = "ok"
    PROVE  /\ scan[s].findings \in Seq(AnyFinding)
           /\ Items(scan[s].findings) = InReport(s)
<1>1. /\ scan[s].findings = Reported(target, s) /\ target.tool[s].results \in Seq(ToolResult)
      /\ s \in Scanner
  BY DEF DataInv, ToolOk, TargetOk, ToolRun, Scanner
<1>2. scan[s].findings \in Seq(AnyFinding)
  BY <1>1, FindingsType
<1>3. CASE target.tool[s].report = "results"
  <2> DEFINE all == ToolFindings(s, target.tool[s].results)
  <2>1. DOMAIN all = 1..Len(all)
    BY <1>1, ToolFindingsType
  <2>2. InReport(s) = {all[i] : i \in DOMAIN all} /\ scan[s].findings = all
    BY <1>1, <1>3 DEF InReport, Reported
  <2> HIDE DEF all
  <2> QED
    BY <1>2, <2>1, <2>2 DEF Items
<1>4. CASE target.tool[s].report # "results"
  BY <1>1, <1>2, <1>4 DEF InReport, Reported, Items
<1> QED
  BY <1>2, <1>3, <1>4

\* Steps that leave the files and the exit codes alone.
LEMMA GateStays ==
    ASSUME GateInv, UNCHANGED <<target, cmd, exits, output>>,
           main' # "idle" => main # "idle" \/ job' # "done",
           main' = "idle" => main = "idle",
           job' = "done" => UNCHANGED <<job, outcome, report>>
    PROVE  GateInv'
<1>1. \A s : InReport(s)' = InReport(s)
  BY DEF InReport
<1>2. InReport(exits[1].cmd.scanner)' = InReport(exits[1].cmd.scanner)
  BY DEF InReport
<1>3. CheckTellsScan'
  <2>1. Denies(exits[2].cmd, InReport(exits[1].cmd.scanner))' = Denies(exits[2].cmd, InReport(exits[1].cmd.scanner))
    BY <1>2
  <2> QED
    BY <2>1, Zenon DEF GateInv, CheckTellsScan
<1>4. SavedInv'
  <2>1. main' = "idle" \/ cmd'.name = "policy" => main = "idle" \/ cmd.name = "policy"
    OBVIOUS
  <2>2. SavedAs(output, InReport(exits[1].cmd.scanner))' = SavedAs(output, InReport(exits[1].cmd.scanner))
    BY <1>2 DEF SavedAs
  <2>3. main' # "idle" /\ job' = "done" => main # "idle" /\ job = "done" /\ UNCHANGED <<outcome, report>>
    OBVIOUS
  <2>4. Denies(cmd, InReport(exits[1].cmd.scanner))' = Denies(cmd, InReport(exits[1].cmd.scanner))
    BY <1>2
  <2> QED
    BY <2>1, <2>2, <2>3, <2>4 DEF GateInv, SavedInv, Kept
<1> QED
  BY <1>3, <1>4 DEF GateInv

\* Denies is a truth value.
LEMMA DeniesIsBoolean == \A c, found : Denies(c, found) \in BOOLEAN
BY DEF Denies

\* The policy check reads the saved findings.
LEMMA CheckGates ==
    ASSUME IInv, GateInv, CheckPolicy
    PROVE  GateInv'
<1> DEFINE wanted == InReport(exits[1].cmd.scanner)
           verdict == Check(Chosen(cmd.policy, cmd.strict), output.findings)
<1>0. /\ main # "idle" /\ UNCHANGED <<target, main, cmd, exits, output>> /\ job' = "done"
      /\ cmd.name = "policy" /\ cmd \in Command
  <2>1. job = "read"
    BY DEF CheckPolicy
  <2> QED
    BY <2>1, JobFacts, CommandFacts DEF CheckPolicy, JobEnds, cmd
<1>1. InReport(exits[1].cmd.scanner)' = wanted
  BY <1>0 DEF InReport
<1>2. CheckTellsScan'
  <2>1. Denies(exits[2].cmd, InReport(exits[1].cmd.scanner))' = Denies(exits[2].cmd, wanted)
    BY <1>0, <1>1
  <2> QED
    BY <1>0, <2>1, Zenon DEF GateInv, CheckTellsScan
<1>3. ASSUME Len(exits) = 1, Kept(exits[1])
      PROVE  /\ SavedAs(output, wanted)
             /\ outcome' # "failed" => (report'[1].passed <=> ~Denies(cmd, wanted))
  <2>1. SavedAs(output, wanted)
    BY <1>0, <1>3 DEF GateInv, SavedInv
  <2>2. outcome' = "failed" \/ report' = <<GenerateReport(output.findings, verdict)>>
    BY DEF CheckPolicy, JobEnds
  <2>3. verdict.passed <=> ~Denies(cmd, wanted)
    BY <1>0, <2>1, Verdict DEF SavedAs
  <2> HIDE DEF verdict, wanted
  <2>4. GenerateReport(output.findings, verdict).passed = verdict.passed
    BY DEF GenerateReport
  <2>5. outcome' # "failed" => report'[1] = GenerateReport(output.findings, verdict)
    BY <2>2
  <2> QED
    BY <2>1, <2>3, <2>4, <2>5
<1>4. SavedInv'
  <2>1. SavedAs(output, InReport(exits[1].cmd.scanner))' = SavedAs(output, wanted)
    BY <1>0, <1>1 DEF SavedAs
  <2>2. Denies(cmd, InReport(exits[1].cmd.scanner))' = Denies(cmd, wanted)
    BY <1>0, <1>1
  <2> QED
    BY <1>0, <1>3, <2>1, <2>2 DEF SavedInv, Kept
<1> QED
  BY <1>2, <1>4 DEF GateInv

\* A command returns: the first exit code is new, or the second, or neither.
LEMMA ReturnGates ==
    ASSUME IInv, GateInv, NEW code, Return(code), target' = target, main # "idle",
           Kept([cmd |-> cmd, code |-> code]) => SavedAs(output', InReport(cmd.scanner)),
           Len(exits) = 1 /\ Kept(exits[1]) /\ cmd.name = "policy" /\ code # "error" =>
              (code = "violation") = Denies(cmd, InReport(exits[1].cmd.scanner))
    PROVE  GateInv'
<1> DEFINE e == [cmd |-> cmd, code |-> code]
<1>1. /\ main' = "idle" /\ exits' = Append(exits, e) /\ exits \in Seq(Exit) /\ Len(exits) \in Nat
  BY LenProperties DEF Return, IInv, PlaceType
<1>2. /\ Len(exits') = Len(exits) + 1 /\ exits'[Len(exits) + 1] = e
      /\ \A i \in 1..Len(exits) : exits'[i] = exits[i]
  BY <1>1, SMTT(30)
<1>3. \A s : InReport(s)' = InReport(s)
  BY DEF InReport
<1>4. e.cmd = cmd /\ e.code = code
  OBVIOUS
<1> HIDE DEF e
<1>5. SavedInv'
  <2>1. Len(exits') = 1 => exits'[1] = e
    BY <1>1, <1>2
  <2>2. Len(exits') = 1 => InReport(exits[1].cmd.scanner)' = InReport(cmd.scanner)
    <3> SUFFICES ASSUME Len(exits') = 1 PROVE InReport(exits[1].cmd.scanner)' = InReport(cmd.scanner)
      OBVIOUS
    <3>1. exits'[1].cmd.scanner = cmd.scanner
      BY <1>4, <2>1
    <3>2. InReport(exits'[1].cmd.scanner) = InReport(cmd.scanner)
      BY <3>1
    <3>3. InReport(exits[1].cmd.scanner)' = InReport(exits'[1].cmd.scanner)
      BY DEF InReport
    <3> QED
      BY <3>2, <3>3
  <2>3. Len(exits') = 1 /\ Kept(exits'[1]) => SavedAs(output, InReport(exits[1].cmd.scanner))'
    BY <2>1, <2>2 DEF SavedAs, e
  <2> QED
    BY <1>1, <2>3 DEF SavedInv, Kept
<1>6. CheckTellsScan'
  <2> SUFFICES ASSUME Len(exits') = 2, Kept(exits'[1]), exits'[2].cmd.name = "policy", exits'[2].code # "error"
               PROVE  (exits'[2].code = "violation") = Denies(exits[2].cmd, InReport(exits[1].cmd.scanner))'
    BY Zenon DEF CheckTellsScan, Kept
  <2>1. Len(exits) = 1 /\ exits'[1] = exits[1] /\ exits'[2] = e
    <3>1. Len(exits) = 1
      <4>1. PICK n, m : n = Len(exits) /\ m = Len(exits')
        OBVIOUS
      <4>2. n \in Nat /\ m = n + 1 /\ m = 2
        <5>1. n \in Nat
          BY <1>1, <4>1
        <5>2. m = n + 1
          BY <1>2, <4>1
        <5>3. m = 2
          BY <4>1
        <5> QED
          BY <5>1, <5>2, <5>3
      <4>3. n = 1
        BY <4>2
      <4> QED
        BY <4>1, <4>3
    <3>2. 1 \in 1..Len(exits) /\ Len(exits) + 1 = 2
      BY <3>1
    <3> QED
      BY <1>2, <3>1, <3>2
  <2>2. Denies(exits[2].cmd, InReport(exits[1].cmd.scanner))' = Denies(cmd, InReport(exits[1].cmd.scanner))
    <3>1. InReport(exits[1].cmd.scanner)' = InReport(exits[1].cmd.scanner)
      BY <2>1 DEF InReport
    <3> QED
      BY <1>4, <2>1, <3>1
  <2> QED
    BY <1>4, <2>1, <2>2
<1> QED
  BY <1>5, <1>6 DEF GateInv

\* Its exit code is the verdict.
LEMMA ReceiveGates ==
    ASSUME IInv, GateInv, Receive
    PROVE  GateInv'
<1>0. /\ main = "receive" /\ job = "done" /\ UNCHANGED <<target, output, job, outcome, report>>
  BY DEF Receive, jobVars
<1>1. CASE Return("error")
  BY <1>0, <1>1, ReturnGates DEF Kept
<1>2. CASE cmd.name = "scan" /\ main' = "output" /\ UNCHANGED <<script, exits>>
  <2>1. cmd' = cmd
    BY <1>2 DEF cmd
  <2> QED
    BY <1>0, <1>2, <2>1, GateStays
<1>3. CASE cmd.name = "policy" /\ outcome # "failed" /\ Return(IF report[1].passed THEN "ok" ELSE "violation")
  <2>1. PICK code \in {"ok", "violation"} : Return(code) /\ (code = "violation" <=> ~report[1].passed)
    <3>1. CASE report[1].passed
      BY <1>3, <3>1
    <3>2. CASE ~report[1].passed
      BY <1>3, <3>2
    <3> QED
      BY <3>1, <3>2
  <2>2. ASSUME Len(exits) = 1, Kept(exits[1])
        PROVE  (code = "violation") = Denies(cmd, InReport(exits[1].cmd.scanner))
    <3>1. report[1].passed <=> ~Denies(cmd, InReport(exits[1].cmd.scanner))
      BY <1>0, <1>3, <2>2 DEF GateInv, SavedInv
    <3>2. Denies(cmd, InReport(exits[1].cmd.scanner)) \in BOOLEAN
      BY DeniesIsBoolean
    <3> QED
      BY <2>1, <3>1, <3>2
  <2>3. ~Kept([cmd |-> cmd, code |-> code])
    BY <1>3 DEF Kept
  <2> QED
    BY <1>0, <2>1, <2>2, <2>3, ReturnGates
<1>4. CASE cmd.name \notin {"scan", "policy"} /\ Return("ok")
  BY <1>0, <1>4, ReturnGates DEF Kept
<1>5. \/ Return("error")
      \/ cmd.name = "scan" /\ main' = "output" /\ UNCHANGED <<script, exits>>
      \/ /\ cmd.name = "policy" /\ outcome # "failed"
         /\ Return(IF report[1].passed THEN "ok" ELSE "violation")
      \/ cmd.name \notin {"scan", "policy"} /\ Return("ok")
  BY Zenon DEF Receive
<1> QED
  BY <1>1, <1>2, <1>3, <1>4, <1>5

\* A scan saves its findings.
LEMMA OutputGates ==
    ASSUME IInv, DataInv, GateInv, Output
    PROVE  GateInv'
<1>0. main = "output" /\ target' = target /\ cmd.name = "scan" /\ job = "done" /\ outcome = "ok"
  BY DEF Output, IInv, MainInv
<1>1. CASE Return("error")
  BY <1>0, <1>1, ReturnGates DEF Kept
<1>2. CASE /\ Return(IF findings # <<>> THEN "found" ELSE "ok")
           /\ cmd.format = "json" => output' = File("findings", findings)
  <2>1. PICK code \in {"ok", "found"} : Return(code)
    BY <1>2
  <2>2. ASSUME cmd.format = "json", cmd.scanner \in Tool
        PROVE  SavedAs(output', InReport(cmd.scanner))
    <3>1. findings = scan[cmd.scanner].findings /\ scan[cmd.scanner].pc = "done" /\ scan[cmd.scanner].status = "ok"
      BY <1>0 DEF IInv, ScanResultInv
    <3>2. findings \in Seq(AnyFinding) /\ Items(findings) = InReport(cmd.scanner)
      BY <2>2, <3>1, FoundInReport
    <3>3. output'.kind = "findings" /\ output'.findings = findings
      BY <1>2, <2>2 DEF File
    <3> QED
      BY <3>2, <3>3 DEF SavedAs
  <2>3. Kept([cmd |-> cmd, code |-> code]) => SavedAs(output', InReport(cmd.scanner))
    BY <2>2 DEF Kept
  <2> QED
    BY <1>0, <2>1, <2>3, ReturnGates
<1> QED
  <2>1. \/ Return("error")
        \/ /\ Return(IF findings # <<>> THEN "found" ELSE "ok")
           /\ cmd.format = "json" => output' = File("findings", findings)
    BY DEF Output
  <2> QED
    BY <1>1, <1>2, <2>1

\* While another command runs, what is kept of the output file is not claimed.
LEMMA OtherGates ==
    ASSUME GateInv, UNCHANGED <<target, cmd, exits>>, main' # "idle", cmd.name # "policy"
    PROVE  GateInv'
<1>1. InReport(exits[1].cmd.scanner)' = InReport(exits[1].cmd.scanner)
  BY DEF InReport
<1>2. CheckTellsScan'
  <2>1. Denies(exits[2].cmd, InReport(exits[1].cmd.scanner))' = Denies(exits[2].cmd, InReport(exits[1].cmd.scanner))
    BY <1>1
  <2> QED
    BY <2>1, Zenon DEF GateInv, CheckTellsScan
<1> QED
  BY <1>2 DEF GateInv, SavedInv

\* What is said of the saved findings is kept by every step, and holds at
\* first.
LEMMA NextGates == IInv /\ DataInv /\ GateInv /\ [Next]_vars => GateInv'
<1> SUFFICES ASSUME IInv, DataInv, GateInv, [Next]_vars PROVE GateInv'
  OBVIOUS
<1>1. CASE StartCommand
  <2>1. job' = CASE cmd.name = "scan" -> "scan"
                 [] cmd.name = "assess" -> "collect"
                 [] cmd.name = "pipeline" -> "stage"
                 [] OTHER -> "read"
    BY <1>1 DEF StartCommand, NewJob
  <2>2. job' # "done"
    BY <2>1
  <2>3. UNCHANGED <<target, cmd, exits, output>> /\ main = "idle"
    BY <1>1 DEF StartCommand, cmd
  <2> QED
    BY <2>2, <2>3, GateStays
<1>2. CASE Receive
  BY <1>2, ReceiveGates
<1>3. CASE Output
  BY <1>3, OutputGates
<1>4. CASE TuiEnds
  <2>1. UNCHANGED <<target, cmd, exits, output, job, outcome, report>> /\ main = "tui" /\ main' = "receive"
    BY <1>4 DEF TuiEnds, jobVars, cmd
  <2> QED
    BY <2>1, GateStays
<1>5. ASSUME UNCHANGED <<target, cmd, main, exits, output, job, outcome, report>> PROVE GateInv'
  BY <1>5, GateStays
<1>6. ASSUME NEW s \in Scanner, ScannerWorks(s) PROVE GateInv'
  <2>1. UNCHANGED <<target, script, main, exits, output, job, outcome, report>>
    <3>1. CASE ScannerStep(s) /\ UNCHANGED other
      BY <3>1 DEF ScannerStep, StartTool, RunTool, ParseReport, StartOsv, ParseManifest, AskOsv, QueryBatch,
                  other, jobVars
    <3>2. CASE SendResult(s) \/ CountDone(s)
      BY <3>2 DEF SendResult, CountDone
    <3> QED
      BY <1>6, <3>1, <3>2, SMTT(30) DEF ScannerWorks, other
  <2> QED
    BY <1>5, <2>1 DEF cmd
<1>7. CASE CheckPolicy
  BY <1>7, CheckGates
<1>8. CASE JobWorks /\ ~CheckPolicy
  <2>1. UNCHANGED <<target, script, main, exits>>
    BY <1>8 DEF JobWorks, ScanEnds, CloseResults, Collect, CollectEnds, Assess, RunStage, ReportCompliance,
                ValidatePolicies
  <2>2. job \in {"scan", "collect", "generate", "stage"} \/ cmd.name \in {"compliance", "validate"}
    BY <1>8 DEF JobWorks, ScanEnds, CloseResults, Collect, CollectEnds, Assess, RunStage, ReportCompliance,
                ValidatePolicies
  <2>3. job \in {"scan", "collect", "generate", "stage", "read"}
    BY <1>8 DEF JobWorks, ScanEnds, CloseResults, Collect, CollectEnds, Assess, RunStage, ReportCompliance,
                ValidatePolicies
  <2>4. cmd.name # "policy" /\ main # "idle"
    BY <2>2, <2>3, JobFacts
  <2> QED
    BY <2>1, <2>4, OtherGates DEF cmd
<1>9. CASE Timeout \/ SessionEnded \/ UNCHANGED vars
  BY <1>5, <1>9 DEF Timeout, ContextEnds, SessionEnded, vars, jobVars, cmd
<1> QED
  BY <1>1, <1>2, <1>3, <1>4, <1>6, <1>7, <1>8, <1>9 DEF Next, MainWorks

LEMMA InitGates == Init => GateInv /\ StageTellsScans
<1>1. Init => exits = <<>> /\ main = "idle"
  BY DEF Init
<1> QED
  BY <1>1 DEF GateInv, SavedInv, CheckTellsScan, StageTellsScans

\* The gates tell the scans.  A policy check passes exactly if what the scan
\* before it has found breaks no rule of the policy; the policy stage of a
\* pipeline passes only if no scan stage has found anything from the threshold
\* up; and a pipeline with a failed scan is no success.
THEOREM GatesCorrect == Spec => []GateTellsScan
<1>1. GateInv /\ StageTellsScans => GateTellsScan
  BY DEF GateInv, GateTellsScan
<1> QED
  BY <1>1, InitHolds, NextHolds, InitData, NextData, InitGates, NextGates, NextStage, PTL DEF Spec

-----------------------------------------------------------------------------
(* The controls that findings concern.                                     *)

\* Only findings that name a CWE concern a control.
LEMMA ConcernsNeedsCwe ==
    ASSUME NEW x, NEW f, NEW control, Concerns(x, f, control)
    PROVE  x.cwe # {}
<1> SUFFICES ASSUME x.cwe = {} PROVE FALSE
  OBVIOUS
<1>1. mapCWEsToControls({}) = {}
  BY DEF mapCWEsToControls
<1>2. Enrich(x).controls = mapCWEsToControls(x.cwe)
  BY DEF Enrich
<1> QED
  BY <1>1, <1>2 DEF Concerns

\* Such findings are told apart by their ids.
TellApart(S) == \A x, y \in S : x.id = y.id /\ x.cwe # {} /\ y.cwe # {} => x = y

\* The assessment of a control tells the findings that concern it, though of
\* findings with one id only the first is looked at.
LEMMA Assessed ==
    ASSUME NEW q \in Seq(AnyFinding), TellApart(Items(q)), NEW f, NEW control, NEW concerned,
           \A x : x \in concerned <=> x \in Items(q) /\ Concerns(x, f, control)
    PROVE  LET a == assessControl(f, control, q)
           IN  /\ a.id = control.id
               /\ a.status \in {"compliant", "non_compliant", "partial"}
               /\ a.status = "compliant" <=> concerned = {}
               /\ a.status = "non_compliant" <=> \E x \in concerned : x.severity \in Severe
               /\ determineSeverity(a) = "low" <=> ~\E x \in concerned : x.severity \in Severe
<1> DEFINE matched == {i \in DOMAIN q :
                          /\ Concerns(q[i], f, control)
                          /\ \A j \in 1..(i - 1) : q[j].id = q[i].id => ~Concerns(q[j], f, control)}
           severities == {q[i].severity : i \in matched}
           a == assessControl(f, control, q)
<1>1. /\ a.id = control.id /\ a.severities = severities
      /\ a.status = IF matched = {} THEN "compliant"
                    ELSE IF severities \cap {"critical", "high"} # {} THEN "non_compliant" ELSE "partial"
  BY DEF assessControl
<1>2. PICK n \in Nat : DOMAIN q = 1..n /\ n = Len(q)
  BY LenProperties
<1>3. ASSUME NEW i \in matched PROVE q[i] \in concerned
  BY <1>2, <1>3 DEF Items
<1>4. ASSUME NEW x \in concerned PROVE \E i \in matched : q[i] = x
  <2> DEFINE T == {i \in 1..n : q[i] = x \/ (q[i].id = x.id /\ Concerns(q[i], f, control))}
  <2>1. T \in SUBSET Nat /\ T # {} /\ x \in Items(q) /\ Concerns(x, f, control)
    BY <1>2, <1>4 DEF Items
  <2>2. PICK i \in T : \A j \in T : i <= j
    <3> HIDE DEF T
    <3> QED
      BY <2>1, Least
  <2>3. q[i] \in Items(q) /\ i \in 1..n
    BY <1>2, <2>2 DEF Items
  <2>4. Concerns(q[i], f, control) /\ q[i].id = x.id
    BY <2>1, <2>2
  <2>5. q[i].cwe # {} /\ x.cwe # {}
    BY <2>1, <2>4, ConcernsNeedsCwe
  <2>6. q[i] = x
    BY <2>1, <2>3, <2>4, <2>5 DEF TellApart
  <2>7. ASSUME NEW j \in 1..(i - 1), q[j].id = q[i].id, Concerns(q[j], f, control) PROVE FALSE
    <3>1. j \in 1..n /\ ~(i <= j)
      BY <2>3
    <3>2. j \in T
      BY <2>4, <2>7, <3>1
    <3> QED
      BY <2>2, <3>1, <3>2
  <2>8. i \in matched
    BY <1>2, <2>3, <2>4, <2>7
  <2> QED
    BY <2>6, <2>8
<1> HIDE DEF matched, a
<1>5. matched = {} <=> concerned = {}
  BY <1>3, <1>4
<1>6. severities \cap {"critical", "high"} # {} <=> \E x \in concerned : x.severity \in Severe
  <2>1. Severe = {"critical", "high"}
    BY DEF Severe
  <2>2. ASSUME NEW i \in matched, q[i].severity \in Severe PROVE \E x \in concerned : x.severity \in Severe
    BY <1>3, <2>2
  <2>3. ASSUME NEW x \in concerned, x.severity \in Severe PROVE \E i \in matched : q[i].severity \in Severe
    BY <1>4, <2>3
  <2>4. severities \cap {"critical", "high"} # {} <=> \E i \in matched : q[i].severity \in Severe
    BY <2>1
  <2> QED
    BY <2>2, <2>3, <2>4
<1>7. determineSeverity(a) = "low" <=> severities \cap {"critical", "high"} = {}
  <2>1. determineSeverity(a) = IF "critical" \in severities THEN "critical"
                               ELSE IF "high" \in severities THEN "high" ELSE "low"
    BY <1>1 DEF determineSeverity
  <2> HIDE DEF severities
  <2> QED
    BY <2>1
<1> HIDE DEF severities
<1>8. (\E x \in concerned : x.severity \in Severe) => concerned # {}
  OBVIOUS
<1>9. /\ a.status \in {"compliant", "non_compliant", "partial"}
      /\ a.status = "compliant" <=> matched = {}
      /\ a.status = "non_compliant" <=> matched # {} /\ severities \cap {"critical", "high"} # {}
  BY <1>1
<1> QED
  BY <1>1, <1>5, <1>6, <1>7, <1>8, <1>9 DEF a

\* The ids of the scanners' findings tell them apart.
LEMMA IdsTell ==
    ASSUME IInv, DataInv, NEW s \in Scanner, NEW t \in Scanner,
           NEW x \in Items(scan[s].findings), NEW y \in Items(scan[t].findings),
           x.id = y.id, x.cwe # {}, y.cwe # {}
    PROVE  x = y
<1>1. PICK i \in 1..Len(scan[s].findings), j \in 1..Len(scan[t].findings) :
         x = scan[s].findings[i] /\ y = scan[t].findings[j]
  BY DEF Items
<1>2. ASSUME NEW u \in Scanner, u # "osv", NEW k \in 1..Len(scan[u].findings), scan[u].findings[k].cwe # {}
      PROVE  scan[u].findings[k].id = <<u, k>> /\ u # "gitleaks"
  <2>1. u \in Tool /\ ToolOk(target, u, scan[u]) /\ IsScan(scan[u])
    BY <1>2 DEF Scanner, DataInv, IInv, PlaceType
  <2>2. target.tool[u].results \in Seq(ToolResult)
    BY <2>1 DEF DataInv, TargetOk, ToolRun
  <2>3. scan[u].findings # <<>>
    BY <1>2
  <2>4. scan[u].findings = ToolFindings(u, target.tool[u].results)
    <3>1. scan[u].pc \in {"done", "sent"} /\ scan[u].status # "failed"
      BY <2>1, <2>3 DEF ToolOk
    <3>2. scan[u].findings = Reported(target, u)
      BY <2>1, <3>1 DEF ToolOk, IsScan
    <3> QED
      BY <2>3, <3>2 DEF Reported
  <2>5. k \in 1..Len(target.tool[u].results)
    BY <2>1, <2>2, <2>4, ToolFindingsType
  <2>6. /\ u = "gitleaks" => scan[u].findings[k].cwe = {}
        /\ u # "gitleaks" => scan[u].findings[k].id = <<u, k>>
    BY <2>1, <2>2, <2>4, <2>5, ToolFindingsType
  <2> QED
    BY <1>2, <2>6
<1>3. ASSUME NEW k \in 1..Len(scan["osv"].findings)
      PROVE  \E a, b \in Nat : scan["osv"].findings[k].id = <<"osv", <<a, b>>>> /\ a + b = k
  BY DEF DataInv, OsvOk, Placed
<1>4. CASE s # "osv" /\ t # "osv"
  <2>1. x.id = <<s, i>> /\ y.id = <<t, j>>
    BY <1>1, <1>2, <1>4
  <2> QED
    BY <1>1, <2>1
<1>5. CASE s = "osv" /\ t = "osv"
  <2>1. PICK a, b \in Nat : x.id = <<"osv", <<a, b>>>> /\ a + b = i
    BY <1>1, <1>3, <1>5
  <2>2. PICK c, d \in Nat : y.id = <<"osv", <<c, d>>>> /\ c + d = j
    BY <1>1, <1>3, <1>5
  <2>3. <<"osv", <<a, b>>>> = <<"osv", <<c, d>>>>
    BY <2>1, <2>2
  <2>4. <<a, b>> = <<c, d>>
    BY <2>3
  <2>5. a = c /\ b = d
    BY <2>4
  <2>6. i = j
    BY <2>1, <2>2, <2>5
  <2> QED
    BY <1>1, <1>5, <2>6
<1>6. CASE s = "osv" /\ t # "osv"
  <2>1. PICK a, b \in Nat : x.id = <<"osv", <<a, b>>>>
    BY <1>1, <1>3, <1>6
  <2>2. y.id = <<t, j>>
    BY <1>1, <1>2, <1>6
  <2>3. <<"osv", <<a, b>>>> = <<t, j>>
    BY <2>1, <2>2
  <2>4. t = "osv"
    BY <2>3
  <2> QED
    BY <1>6, <2>4
<1>7. CASE s # "osv" /\ t = "osv"
  <2>1. PICK a, b \in Nat : y.id = <<"osv", <<a, b>>>>
    BY <1>1, <1>3, <1>7
  <2>2. x.id = <<s, i>>
    BY <1>1, <1>2, <1>7
  <2>3. <<"osv", <<a, b>>>> = <<s, i>>
    BY <2>1, <2>2
  <2>4. s = "osv"
    BY <2>3
  <2> QED
    BY <1>7, <2>4
<1> QED
  BY <1>4, <1>5, <1>6, <1>7

\* A gap is one of a control that is not compliant.
LEMMA GapsOf ==
    ASSUME NEW A, NEW g
    PROVE  g \in Analyze(A) <=>
               \E f \in DOMAIN A : \E c \in DOMAIN A[f] :
                   /\ A[f][c].status \in {"non_compliant", "partial"}
                   /\ g = [framework |-> f, control |-> A[f][c].id,
                           severity |-> determineSeverity(A[f][c]), findings |-> A[f][c].findings]
<1> DEFINE gap(f, c) == [framework |-> f, control |-> A[f][c].id,
                         severity |-> determineSeverity(A[f][c]), findings |-> A[f][c].findings]
           missed(f) == {c \in DOMAIN A[f] : A[f][c].status \in {"non_compliant", "partial"}}
           gaps(f) == {gap(f, c) : c \in missed(f)}
<1>1. Analyze(A) = UNION {gaps(f) : f \in DOMAIN A}
  BY DEF Analyze
<1>2. \A f : g \in gaps(f) <=> \E c \in missed(f) : g = gap(f, c)
  BY Zenon
<1>3. \A f : \A c : c \in missed(f) <=> c \in DOMAIN A[f] /\ A[f][c].status \in {"non_compliant", "partial"}
  BY Zenon
<1> HIDE DEF gaps, missed
<1>4. g \in Analyze(A) <=> \E f \in DOMAIN A : g \in gaps(f)
  BY <1>1
<1> QED
  BY <1>2, <1>3, <1>4, Zenon

\* The assessment a of a control, and its gaps, tell the findings that concern it.
Tells(a, gaps, concerned) ==
    /\ (a.status = "compliant") = (concerned = {})
    /\ (a.status = "non_compliant") = (\E d \in concerned : d.severity \in Severe)
    /\ (gaps = {}) = (concerned = {})
    /\ \A g \in gaps : (g.severity = "low") = (a.status = "partial")

GapsIn(r, f, id) == {g \in r.gaps : g.framework = f /\ g.control = id}

\* The report on one control.
LEMMA ControlReported ==
    ASSUME NEW q \in Seq(AnyFinding), TellApart(Items(q)),
           NEW frameworks \in SUBSET SupportedFrameworks, NEW r, r = Generate(q, frameworks, TRUE),
           NEW f \in DOMAIN r.assessments, NEW c \in DOMAIN r.assessments[f], NEW concerned,
           \A x : x \in concerned <=> x \in Items(q) /\ Concerns(x, f, Controls[f][c])
    PROVE  Tells(r.assessments[f][c], GapsIn(r, f, r.assessments[f][c].id), concerned)
<1> DEFINE A == r.assessments
           a == A[f][c]
           gaps == GapsIn(r, f, a.id)
           severe == \E d \in concerned : d.severity \in Severe
           gap(d) == [framework |-> f, control |-> A[f][d].id,
                      severity |-> determineSeverity(A[f][d]), findings |-> A[f][d].findings]
<1>1. A = MapToControls(q, frameworks) /\ r.gaps = Analyze(A)
  BY DEF Generate
<1>2. /\ f \in SupportedFrameworks
      /\ A[f] = [d \in DOMAIN Controls[f] |-> assessControl(f, Controls[f][d], q)]
  <2>1. q # <<>>
    BY <1>1 DEF MapToControls
  <2> DEFINE row(g) == [d \in DOMAIN Controls[g] |-> assessControl(g, Controls[g][d], q)]
  <2>2. A = [g \in IF frameworks = {} THEN SupportedFrameworks ELSE frameworks |-> row(g)]
    BY <1>1, <2>1 DEF MapToControls
  <2>3. f \in DOMAIN A
    OBVIOUS
  <2> HIDE DEF A, row
  <2>4. f \in SupportedFrameworks /\ A[f] = row(f)
    BY <2>2, <2>3
  <2> QED
    BY <2>4 DEF row
<1>3. DOMAIN A[f] = DOMAIN Controls[f] /\ a = assessControl(f, Controls[f][c], q)
      /\ \A d \in DOMAIN A[f] : A[f][d].id = Controls[f][d].id
  <2>1. DOMAIN A[f] = DOMAIN Controls[f] /\ \A d \in DOMAIN A[f] : A[f][d] = assessControl(f, Controls[f][d], q)
    BY <1>2
  <2>2. \A d : assessControl(f, Controls[f][d], q).id = Controls[f][d].id
    BY DEF assessControl
  <2> QED
    BY <2>1, <2>2
<1>4. /\ a.status \in {"compliant", "non_compliant", "partial"}
      /\ a.status = "compliant" <=> concerned = {}
      /\ a.status = "non_compliant" <=> severe
      /\ determineSeverity(a) = "low" <=> ~severe
  <2>1. PICK control : control = Controls[f][c]
    OBVIOUS
  <2>2. LET b == assessControl(f, control, q)
        IN  /\ b.status \in {"compliant", "non_compliant", "partial"}
            /\ b.status = "compliant" <=> concerned = {}
            /\ b.status = "non_compliant" <=> \E x \in concerned : x.severity \in Severe
            /\ determineSeverity(b) = "low" <=> ~\E x \in concerned : x.severity \in Severe
    BY <2>1, Assessed
  <2> QED
    BY <1>3, <2>1, <2>2
<1>5. severe => concerned # {}
  OBVIOUS
<1>6. \A g : g \in r.gaps /\ g.framework = f <=>
         \E d \in DOMAIN A[f] : A[f][d].status \in {"non_compliant", "partial"} /\ g = gap(d)
  <2>1. ASSUME NEW g, g \in r.gaps, g.framework = f
        PROVE  \E d \in DOMAIN A[f] : A[f][d].status \in {"non_compliant", "partial"} /\ g = gap(d)
    <3>1. PICK h \in DOMAIN A : \E d \in DOMAIN A[h] :
            /\ A[h][d].status \in {"non_compliant", "partial"}
            /\ g = [framework |-> h, control |-> A[h][d].id,
                    severity |-> determineSeverity(A[h][d]), findings |-> A[h][d].findings]
      <4>1. g \in Analyze(A)
        BY <1>1, <2>1
      <4> HIDE DEF A
      <4> QED
        BY <4>1, GapsOf
    <3>2. h = f
      BY <2>1, <3>1
    <3> QED
      BY <3>1, <3>2, Zenon
  <2>2. ASSUME NEW d \in DOMAIN A[f], A[f][d].status \in {"non_compliant", "partial"}
        PROVE  gap(d) \in r.gaps /\ gap(d).framework = f
    <3>1. gap(d) \in Analyze(A)
      BY <2>2, GapsOf
    <3> QED
      BY <1>1, <3>1
  <2> QED
    BY <2>1, <2>2, ZenonT(40)
<1>7. \A g : g \in gaps <=> a.status \in {"non_compliant", "partial"} /\ g = gap(c)
  <2>1. ASSUME NEW g \in gaps PROVE a.status \in {"non_compliant", "partial"} /\ g = gap(c)
    <3>1. PICK d \in DOMAIN A[f] : A[f][d].status \in {"non_compliant", "partial"} /\ g = gap(d)
      BY <1>6, <2>1 DEF GapsIn
    <3>2. A[f][d].id = a.id
      BY <2>1, <3>1 DEF GapsIn
    <3>3. Controls[f][d].id = Controls[f][c].id
      BY <1>3, <3>2
    <3>4. d = c
      BY <1>2, <1>3, <3>3, ControlsAssumption
    <3> QED
      BY <3>1, <3>4
  <2>2. gap(c).control = a.id
    OBVIOUS
  <2>3. a.status \in {"non_compliant", "partial"} => gap(c) \in gaps
    BY <1>6, <2>2 DEF GapsIn
  <2> QED
    BY <2>1, <2>3
<1>8. gap(c).severity = determineSeverity(a)
  OBVIOUS
<1> HIDE DEF severe, gap, gaps, a
<1>9. (a.status = "compliant") = (concerned = {}) /\ (a.status = "non_compliant") = severe
  <2>1. severe \in BOOLEAN
    BY DEF severe
  <2> QED
    BY <1>4, <2>1
<1>10. (gaps = {}) = (concerned = {})
  BY <1>4, <1>7
<1>11. \A g \in gaps : (g.severity = "low") = (a.status = "partial")
  BY <1>4, <1>5, <1>7, <1>8
<1> QED
  BY <1>9, <1>10, <1>11, Zenon DEF Tells, severe, gaps, a

\* What the scanners that have not failed have found.
FoundItems == UNION {Items(scan[s].findings) : s \in {t \in Scanner : Found(t)}}

\* What is handed on to the assessment.
LEMMA HandedOn ==
    ASSUME IInv, DataInv, AnswersInv, main # "idle", cmd.name = "assess", job \in {"generate", "done"}
    PROVE  findings \in Seq(AnyFinding) /\ Items(findings) = FoundItems /\ TellApart(Items(findings))
<1>1. PICK n \in Nat : n = Len(collected)
  BY AnswersFacts
<1>2. /\ \A i \in 1..n : /\ collected[i] \in Scanner /\ Answers[i] \in Seq(AnyFinding)
                         /\ Answers[i] = IF Found(collected[i]) THEN scan[collected[i]].findings ELSE <<>>
      /\ findings \in Seq(AnyFinding) /\ findings = Concat(Answers, n)
      /\ Items(collected) = QuickScan
  BY <1>1, AnswersFacts DEF AnswersInv
<1>3. Items(findings) = UNION {Items(Answers[i]) : i \in 1..n}
  BY <1>2, ConcatItems
<1>4. \A x \in Items(findings) : x \in FoundItems
  <2> SUFFICES ASSUME NEW x \in Items(findings) PROVE x \in FoundItems
    OBVIOUS
  <2>1. PICK i \in 1..n : x \in Items(Answers[i])
    BY <1>3
  <2>2. Items(<<>>) = {}
    BY DEF Items
  <2>3. Found(collected[i]) /\ x \in Items(scan[collected[i]].findings) /\ collected[i] \in Scanner
    BY <1>2, <2>1, <2>2
  <2> QED
    BY <2>3 DEF FoundItems
<1>5. ASSUME NEW s \in Scanner, Found(s), NEW x \in Items(scan[s].findings) PROVE x \in Items(findings)
  <2>1. s \in QuickScan
    <3> SUFFICES ASSUME s \notin QuickScan PROVE FALSE
      OBVIOUS
    <3>1. Running(cmd) = QuickScan
      BY CommandFacts DEF IInv, PlaceType, JobInv
    <3>2. scan[s].pc = "idle"
      BY <3>1 DEF IInv, JobInv
    <3>3. scan[s].findings = <<>>
      <4>1. CASE s = "osv"
        BY <3>2, <4>1 DEF DataInv, OsvOk
      <4>2. CASE s # "osv"
        BY <3>2, <4>2 DEF DataInv, ToolOk, Scanner
      <4> QED
        BY <4>1, <4>2
    <3> QED
      BY <1>5, <3>3 DEF Items
  <2>2. PICK i \in 1..n : collected[i] = s
    BY <1>1, <1>2, <2>1 DEF Items
  <2>3. x \in Items(Answers[i])
    BY <1>2, <1>5, <2>2
  <2> QED
    BY <1>3, <2>3
<1>6. Items(findings) = FoundItems
  <2>1. \A x \in FoundItems : x \in Items(findings)
    BY <1>5 DEF FoundItems
  <2> QED
    BY <1>4, <2>1
<1>7. TellApart(FoundItems)
  BY IdsTell DEF TellApart, FoundItems
<1> QED
  BY <1>2, <1>6, <1>7

\* What assess reports.
AssessInv ==
    main # "idle" /\ cmd.name = "assess" /\ job = "done" /\ outcome = "ok" =>
        report = <<Generate(findings, parseFrameworks(cmd.frameworks), TRUE)>>

\* The report of the assessment stays until the command returns.
LEMMA NextAssess == IInv /\ DataInv /\ AssessInv /\ [Next]_vars => AssessInv'
<1> SUFFICES ASSUME IInv, DataInv, AssessInv, [Next]_vars, main' # "idle", cmd'.name = "assess",
                    job' = "done", outcome' = "ok"
             PROVE  report' = <<Generate(findings', parseFrameworks(cmd'.frameworks), TRUE)>>
  BY DEF AssessInv
<1>1. CASE Assess
  BY <1>1 DEF Assess, JobEnds, cmd
<1>2. ASSUME main # "idle", UNCHANGED <<cmd, job, findings, outcome, report>>
      PROVE  report' = <<Generate(findings', parseFrameworks(cmd'.frameworks), TRUE)>>
  BY <1>2 DEF AssessInv
<1>3. CASE StartCommand
  <2>1. job' = CASE cmd.name = "scan" -> "scan"
                 [] cmd.name = "assess" -> "collect"
                 [] cmd.name = "pipeline" -> "stage"
                 [] OTHER -> "read"
    BY <1>3 DEF StartCommand, NewJob
  <2>2. job' # "done"
    BY <2>1
  <2> QED
    BY <2>2
<1>4. CASE \E s \in Scanner : ScannerStep(s) /\ UNCHANGED other
  <2>1. PICK s \in Scanner : ScannerStep(s) /\ UNCHANGED other
    BY <1>4
  <2>2. Works(s) /\ job' = job
    BY <2>1, StepWorks DEF IInv, other, jobVars
  <2>3. ~Quiet(s)
    BY <2>2 DEF Works
  <2> QED
    BY <2>2, <2>3 DEF IInv, JobInv, MainInv
<1>5. CASE \E s \in Scanner : SendResult(s) \/ CountDone(s)
  <2>1. main # "idle" /\ UNCHANGED <<cmd, job, findings, outcome, report>>
    BY <1>5 DEF SendResult, CountDone, cmd
  <2> QED
    BY <1>2, <2>1
<1>6. CASE CloseResults \/ Collect \/ CollectEnds
  BY <1>6 DEF CloseResults, Collect, CollectEnds, JobEnds
<1>7. CASE ScanEnds \/ RunStage \/ CheckPolicy \/ ReportCompliance \/ ValidatePolicies
  <2>1. /\ job \in {"scan", "stage", "read"} /\ cmd' = cmd
    BY <1>7 DEF ScanEnds, RunStage, CheckPolicy, ReportCompliance, ValidatePolicies, cmd
  <2>2. cmd.name # "assess"
    <3>1. cmd.name = "assess" => Running(cmd) = QuickScan
      BY <2>1, JobFacts, CommandFacts
    <3> QED
      BY <2>1, <3>1, JobFacts, QuickScanAssumption
  <2> QED
    BY <2>1, <2>2
<1>8. CASE Receive \/ Output
  <2>1. main' = "idle" \/ (main' = "output" /\ cmd.name = "scan" /\ cmd' = cmd)
    BY <1>8, Zenon DEF Receive, Output, Return, cmd
  <2> QED
    BY <2>1
<1>9. CASE TuiEnds \/ Timeout \/ SessionEnded \/ UNCHANGED vars
  <2>1. UNCHANGED <<cmd, job, findings, outcome, report>>
    BY <1>9 DEF TuiEnds, Timeout, SessionEnded, vars, jobVars, cmd
  <2>2. main # "idle"
    BY <1>9 DEF TuiEnds, Timeout, SessionEnded, vars
  <2> QED
    BY <1>2, <2>1, <2>2
<1> QED
  BY <1>1, <1>3, <1>4, <1>5, <1>6, <1>7, <1>8, <1>9, Zenon
     DEF Next, MainWorks, JobWorks, ScannerWorks, other

\* However many scanners find something that concerns a control, in whatever
\* order they answer and with whatever ids, the assessment of the control tells
\* the worst of it, and the control has a gap exactly if there is any.
THEOREM ControlsCorrect == Spec => []ControlsTellFindings
<1>1. IInv /\ DataInv /\ AnswersInv /\ AssessInv => ControlsTellFindings
  <2> SUFFICES ASSUME IInv, DataInv, AnswersInv, AssessInv,
                      main # "idle", cmd.name = "assess", job = "done", outcome = "ok"
               PROVE  ControlsTellFindings
    BY DEF ControlsTellFindings
  <2> DEFINE concern(f, control) ==
                UNION {{scan[s].findings[i] : i \in {j \in DOMAIN scan[s].findings :
                            Concerns(scan[s].findings[j], f, control)}} : s \in {t \in Scanner : Found(t)}}
             frameworks == parseFrameworks(cmd.frameworks)
  <2>1. PICK r : r = Generate(findings, frameworks, TRUE)
    OBVIOUS
  <2>2. report[1] = r
    <3>1. report = <<r>>
      BY <2>1, Zenon DEF AssessInv
    <3> QED
      BY <3>1
  <2>3. findings \in Seq(AnyFinding) /\ Items(findings) = FoundItems /\ TellApart(Items(findings))
    BY HandedOn
  <2>4. frameworks \in SUBSET SupportedFrameworks
    BY DEF parseFrameworks
  <2> HIDE DEF frameworks
  <2>5. ASSUME NEW f, NEW control
        PROVE  \A x : x \in concern(f, control) <=> x \in Items(findings) /\ Concerns(x, f, control)
    <3>1. \A s \in Scanner : DOMAIN scan[s].findings = 1..Len(scan[s].findings)
      BY FindingsType, LenProperties
    <3> DEFINE of(s) == {scan[s].findings[i] : i \in {j \in DOMAIN scan[s].findings :
                            Concerns(scan[s].findings[j], f, control)}}
               F == {t \in Scanner : Found(t)}
    <3>2. concern(f, control) = UNION {of(s) : s \in F}
      OBVIOUS
    <3>3. \A s, x : x \in of(s) <=>
             \E i \in DOMAIN scan[s].findings : x = scan[s].findings[i] /\ Concerns(x, f, control)
      OBVIOUS
    <3>4. \A s \in Scanner : \A x : x \in of(s) <=> x \in Items(scan[s].findings) /\ Concerns(x, f, control)
      BY <3>1, <3>3, Zenon DEF Items
    <3> HIDE DEF concern, of
    <3>5. \A x : x \in concern(f, control) <=> \E s \in F : x \in of(s)
      BY <3>2
    <3>6. \A x : x \in FoundItems <=> \E s \in F : x \in Items(scan[s].findings)
      BY DEF FoundItems
    <3>7. \A s \in F : s \in Scanner
      OBVIOUS
    <3> HIDE DEF F
    <3> QED
      BY <2>3, <3>4, <3>5, <3>6, <3>7
  <2> HIDE DEF concern
  <2>6. ASSUME NEW f \in DOMAIN r.assessments, NEW c \in DOMAIN r.assessments[f]
        PROVE  Tells(r.assessments[f][c], GapsIn(r, f, r.assessments[f][c].id), concern(f, Controls[f][c]))
    <3>1. PICK concerned : concerned = concern(f, Controls[f][c])
      OBVIOUS
    <3>2. \A x : x \in concerned <=> x \in Items(findings) /\ Concerns(x, f, Controls[f][c])
      BY <2>5, <3>1
    <3>3. Tells(r.assessments[f][c], GapsIn(r, f, r.assessments[f][c].id), concerned)
      BY <2>1, <2>3, <2>4, <3>2, ControlReported, Zenon
    <3> QED
      BY <3>1, <3>3, Zenon
  <2>7. (\A f \in DOMAIN report[1].assessments : \A c \in DOMAIN report[1].assessments[f] :
            Tells(report[1].assessments[f][c], GapsIn(report[1], f, report[1].assessments[f][c].id),
                  concern(f, Controls[f][c])))
          => ControlsTellFindings
    BY Zenon DEF ControlsTellFindings, Tells, GapsIn, concern
  <2> QED
    BY <2>2, <2>6, <2>7
<1>2. Init => AssessInv
  BY DEF Init, AssessInv
<1> QED
  BY <1>1, <1>2, InitHolds, NextHolds, InitData, NextData, InitAnswers, NextAnswers, NextAssess, PTL DEF Spec
=============================================================================
