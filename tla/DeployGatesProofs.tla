-------------------------- MODULE DeployGatesProofs -------------------------
(***************************************************************************)
(* Theorems about DeployGates, for every set of callers that deploy one    *)
(* release at a time and every number of high findings the gate allows;    *)
(* and about Rollout, the check of a deployment call by call, for every    *)
(* number of replicas and of pods a rollout may have in addition, and      *)
(* however the pods change.                                                *)
(***************************************************************************)
EXTENDS DeployGates, Rollout, SequenceTheorems, TLAPS

-----------------------------------------------------------------------------
(* The inductive invariant.  What a result says of Helm is not inductive:  *)
(* it rests on where Deploy is, and on the revisions the deployment has    *)
(* written by then, whatever the others have written between them.         *)

\* The revisions a deployment has written, and those of them that Helm deployed.
Own(d) == {r \in RevisionNumbers : history[r].by = d}
Deployed(d) == {r \in Own(d) : history[r].status = "deployed"}

\* The places after the pre-check and before the return.
Changing == {"upgrade", "health", "readiness", "rollback"}

HistoryType == history \in Seq([status : {"deployed", "failed"},
                                by : Deployer \cup {Operator}, back : Nat])

\* Where Deploy is, and what it has written, decided and reported by then.
ProgressInv(d) ==
    /\ pc[d] \in {"start", "precheck", "upgrade"} => Own(d) = {}
    /\ pc[d] \in Changing => cleared[d] /\ ~dryRun
    /\ pc[d] \in {"health", "readiness"} => \E r \in Deployed(d) : history[r].back = 0
    /\ pc[d] = "rollback" => prev[d] > 0 /\ report[d].status \in {"failed", "post_check_failed"}
    /\ pc[d] # "returned" =>
          /\ \A r \in Own(d) : history[r].back = 0
          /\ ~report[d].rolledBack
          /\ report[d].status \notin {"rolled_back", "pre_check_failed"}

\* The two gates decide once each.
DecisionInv(d) ==
    /\ pc[d] \in {"start", "precheck", "upgrade", "health"} => decisions[d] = <<>>
    /\ pc[d] = "readiness" => Len(decisions[d]) = 1

\* What the result says of Helm, and of the rollback handler.
ReportInv(d) ==
    /\ dryRun \/ ~cleared[d] \/ report[d].status = "pre_check_failed" => Own(d) = {}
    /\ pc[d] = "returned" =>
          /\ report[d].status = "success" /\ ~dryRun => \E r \in Deployed(d) : history[r].back = 0
          /\ report[d].rolledBack <=> \E r \in Deployed(d) : history[r].back > 0
          /\ report[d].rolledBack <=> report[d].status = "rolled_back"
          /\ opts[d].auto /\ prev[d] > 0
             /\ report[d].status \in {"failed", "post_check_failed", "rolled_back"} => attempted[d]

\* The known previous revision is older than all the deployment has written,
\* and it is the one a revision of the deployment goes back to.
PreviousInv(d) ==
    \A r \in Own(d) : prev[d] < r /\ history[r].back \in {0, prev[d]}

DeployerInv(d) == ProgressInv(d) /\ DecisionInv(d) /\ ReportInv(d) /\ PreviousInv(d)

IInv ==
    /\ TypeOK
    /\ HistoryType
    /\ dryRun \in BOOLEAN /\ opts \in [Deployer -> [post : BOOLEAN, auto : BOOLEAN]]
    /\ \A d \in Deployer : DeployerInv(d)

-----------------------------------------------------------------------------
(* The history only grows, one revision at a time.                         *)

RevisionSet == [status : {"deployed", "failed"}, by : Deployer \cup {Operator}, back : Nat]

\* What one more revision does to the history and to what each caller wrote.
LEMMA OneMoreRevision ==
    ASSUME HistoryType,
           NEW status \in {"deployed", "failed"},
           NEW by \in Deployer \cup {Operator},
           NEW back \in Nat,
           history' = Append(history, Revision(status, by, back))
    PROVE  /\ HistoryType'
           /\ Len(history) \in Nat /\ Len(history') = Len(history) + 1
           /\ RevisionNumbers' = RevisionNumbers \cup {Len(history) + 1}
           /\ \A r \in RevisionNumbers : history'[r] = history[r]
           /\ history'[Len(history) + 1] = Revision(status, by, back)
           /\ \A d : Own(d)' = IF d = by THEN Own(d) \cup {Len(history) + 1} ELSE Own(d)
           /\ \A d : Deployed(d)' = IF d = by /\ status = "deployed"
                                    THEN Deployed(d) \cup {Len(history) + 1} ELSE Deployed(d)
<1> DEFINE rec == Revision(status, by, back)
           n == Len(history) + 1
<1>1. rec \in RevisionSet /\ history \in Seq(RevisionSet)
  BY DEF Revision, RevisionSet, HistoryType
<1>2. rec.status = status /\ rec.by = by /\ rec.back = back
  BY DEF Revision
<1> HIDE DEF rec
<1>3. /\ history' \in Seq(RevisionSet)
      /\ Len(history) \in Nat /\ Len(history') = n
      /\ \A r \in 1..Len(history) : history'[r] = history[r]
      /\ history'[n] = rec
  BY <1>1, AppendProperties, LenProperties DEF rec
<1>4. HistoryType'
  BY <1>3 DEF HistoryType, RevisionSet
<1>5. RevisionNumbers' = RevisionNumbers \cup {n}
  BY <1>3 DEF RevisionNumbers
<1>6. ASSUME NEW d
      PROVE  Own(d)' = IF d = by THEN Own(d) \cup {n} ELSE Own(d)
  BY <1>2, <1>3, <1>5 DEF Own, RevisionNumbers
<1>7. ASSUME NEW d
      PROVE  Deployed(d)' = IF d = by /\ status = "deployed" THEN Deployed(d) \cup {n} ELSE Deployed(d)
  BY <1>2, <1>3, <1>5, <1>6 DEF Deployed, Own, RevisionNumbers
<1> QED
  BY <1>3, <1>4, <1>5, <1>6, <1>7 DEF rec, RevisionNumbers

\* What a call of Helm may do.
LEMMA HelmWrites ==
    ASSUME HistoryType, NEW by \in Deployer \cup {Operator}, NEW revision \in Nat,
           NEW succeeds \in BOOLEAN
    PROVE  /\ HelmUpgrade(by, succeeds) =>
                \/ ~succeeds /\ UNCHANGED history
                \/ history' = Append(history, Revision(IF succeeds THEN "deployed" ELSE "failed", by, 0))
           /\ HelmRollback(by, revision, succeeds) =>
                \/ ~succeeds /\ UNCHANGED history
                \/ /\ revision \in RevisionNumbers
                   /\ history' = Append(history, Revision(IF succeeds THEN "deployed" ELSE "failed", by, revision))
BY DEF HelmUpgrade, HelmRollback, HelmSucceeds, HelmFails

\* A pre-check that passes had nothing against deploying.
LEMMA PassedIsCleared ==
    ASSUME NEW clear \in BOOLEAN, PreCheckEnds("passed", clear)
    PROVE  clear
<1> SUFFICES ASSUME NEW f \in Findings, NEW answer \in PolicyAnswers,
                    PreCheckRun(f, answer) = "passed"
             PROVE  Cleared(f, answer)
  BY DEF PreCheckEnds
<1>1. f.critical \in 0..1 /\ f.high \in Nat
  BY MaxHighAssumption DEF Findings
<1>2. ~NoFindings(f) /\ SeverityGate(f) = "passed"
  BY DEF PreCheckRun, SeverityGate
<1>3. f.critical = 0 /\ f.high \in 0..MaxHigh
  BY <1>1, <1>2, MaxHighAssumption DEF SeverityGate, maxCritical
<1>4. answer \in {"no engine", "allow"}
  BY DEF PreCheckRun, PolicyGate, PolicyAnswers
<1> QED
  BY <1>2, <1>3, <1>4 DEF Cleared

-----------------------------------------------------------------------------
(* The invariant is inductive.                                             *)

LEMMA InitInv == Init => IInv
<1> SUFFICES ASSUME Init PROVE IInv
  OBVIOUS
<1>1. history = <<>> \/ history = <<Revision("deployed", Operator, 0)>>
  BY DEF Init
<1>2. HistoryType /\ Len(history) \in Nat
  <2>1. Revision("deployed", Operator, 0) \in RevisionSet
    BY DEF Revision, RevisionSet
  <2> DEFINE first == Revision("deployed", Operator, 0)
  <2> HIDE DEF first
  <2>2. <<first>> \in Seq(RevisionSet)
    BY <2>1 DEF first
  <2>3. history \in Seq(RevisionSet)
    BY <1>1, <2>2, EmptySeq DEF first
  <2> QED
    BY <2>3, LenProperties DEF HistoryType, RevisionSet
<1>3. \A r \in RevisionNumbers :
         history[r].by = Operator /\ history[r].status = "deployed" /\ history[r].back = 0
  BY <1>1 DEF RevisionNumbers, Revision
<1>4. \A d \in Deployer : Own(d) = {} /\ Deployed(d) = {}
  BY <1>3, DeployerAssumption DEF Own, Deployed
<1>5. TypeOK
  <2>1. \A r \in RevisionNumbers : r \in Nat \ {0}
    BY <1>2 DEF RevisionNumbers
  <2> QED
    BY <1>2, <1>3, <2>1 DEF Init, TypeOK, DeployPC, DeployStatus
<1>6. \A d \in Deployer : DeployerInv(d)
  BY <1>4 DEF Init, DeployerInv, ProgressInv, DecisionInv, ReportInv, PreviousInv, Changing
<1> QED
  BY <1>2, <1>5, <1>6 DEF Init, IInv

\* A step that leaves a deployment alone and writes nothing of its keeps what
\* is known of it.
LEMMA OtherDeployment ==
    ASSUME IInv, NEW d \in Deployer,
           UNCHANGED config, UNCHANGED <<pc[d], cleared[d], prev[d], decisions[d], attempted[d], report[d]>>,
           \/ UNCHANGED history
           \/ \E status \in {"deployed", "failed"}, by \in (Deployer \cup {Operator}) \ {d}, back \in Nat :
                 history' = Append(history, Revision(status, by, back))
    PROVE  DeployerInv(d)'
<1>1. /\ Own(d)' = Own(d) /\ Deployed(d)' = Deployed(d)
      /\ \A r \in Own(d) : history'[r] = history[r]
  <2>1. CASE UNCHANGED history
    BY <2>1 DEF Own, Deployed, RevisionNumbers
  <2>2. ASSUME NEW status \in {"deployed", "failed"}, NEW by \in (Deployer \cup {Operator}) \ {d}, NEW back \in Nat,
               history' = Append(history, Revision(status, by, back))
        PROVE  /\ Own(d)' = Own(d) /\ Deployed(d)' = Deployed(d)
               /\ \A r \in Own(d) : history'[r] = history[r]
    <3>1. HistoryType /\ by \in Deployer \cup {Operator} /\ d # by
      BY DEF IInv
    <3>2. /\ Own(d)' = Own(d) /\ Deployed(d)' = Deployed(d)
          /\ \A r \in RevisionNumbers : history'[r] = history[r]
      BY <2>2, <3>1, OneMoreRevision
    <3> QED
      BY <3>2 DEF Own
  <2> QED
    BY <2>1, <2>2
<1>2. Deployed(d) \subseteq Own(d)
  BY DEF Deployed
<1> QED
  BY <1>1, <1>2 DEF IInv, DeployerInv, ProgressInv, DecisionInv, ReportInv, PreviousInv, config

\* A step of one deployment keeps the invariant if it keeps it for that
\* deployment and has the types right.
LEMMA OneDeployment ==
    ASSUME IInv, NEW d \in Deployer, UNCHANGED <<config, op>>,
           pc' \in [Deployer -> DeployPC], cleared' \in [Deployer -> BOOLEAN],
           prev' \in [Deployer -> 0..Len(history)], attempted' \in [Deployer -> BOOLEAN],
           report' \in [Deployer -> [status : DeployStatus, rolledBack : BOOLEAN]],
           decisions' \in [Deployer -> Seq(BOOLEAN)], Len(decisions'[d]) <= 2,
           \A e \in Deployer \ {d} :
              UNCHANGED <<pc[e], cleared[e], prev[e], decisions[e], attempted[e], report[e]>>,
           \/ UNCHANGED history
           \/ \E status \in {"deployed", "failed"}, back \in 0..Len(history) :
                 history' = Append(history, Revision(status, d, back)),
           DeployerInv(d)'
    PROVE  IInv'
<1>1. d \in Deployer \cup {Operator} /\ HistoryType /\ Len(history) \in Nat
  BY LenProperties DEF IInv, HistoryType
<1>2. /\ HistoryType' /\ Len(history') \in Nat /\ Len(history') >= Len(history)
      /\ \A r \in RevisionNumbers' :
            /\ history'[r].status \in {"deployed", "failed"}
            /\ history'[r].by \in Deployer \cup {Operator}
            /\ history'[r].back \in 0..(r - 1)
  <2>1. CASE UNCHANGED history
    BY <1>1, <2>1 DEF IInv, TypeOK, HistoryType, RevisionNumbers
  <2>2. ASSUME NEW status \in {"deployed", "failed"}, NEW back \in 0..Len(history),
               history' = Append(history, Revision(status, d, back))
        PROVE  <1>2
    <3>1. /\ HistoryType' /\ Len(history') = Len(history) + 1
          /\ RevisionNumbers' = RevisionNumbers \cup {Len(history) + 1}
          /\ \A r \in RevisionNumbers : history'[r] = history[r]
          /\ history'[Len(history) + 1] = Revision(status, d, back)
      <4>1. back \in Nat
        BY <1>1
      <4> QED
        BY <1>1, <2>2, <4>1, OneMoreRevision
    <3>2. ASSUME NEW r \in RevisionNumbers
          PROVE  /\ history[r].status \in {"deployed", "failed"}
                 /\ history[r].by \in Deployer \cup {Operator}
                 /\ history[r].back \in 0..(r - 1)
      BY DEF IInv, TypeOK
    <3>3. /\ Revision(status, d, back).status = status
          /\ Revision(status, d, back).by = d
          /\ Revision(status, d, back).back = back
      BY DEF Revision
    <3>4. back \in 0..((Len(history) + 1) - 1)
      BY <1>1
    <3>5. ASSUME NEW r \in RevisionNumbers'
          PROVE  /\ history'[r].status \in {"deployed", "failed"}
                 /\ history'[r].by \in Deployer \cup {Operator}
                 /\ history'[r].back \in 0..(r - 1)
      <4>1. CASE r \in RevisionNumbers
        BY <3>1, <3>2, <4>1
      <4>2. CASE r = Len(history) + 1
        BY <3>1, <3>3, <3>4, <4>2
      <4> QED
        BY <3>1, <4>1, <4>2
    <3>6. Len(history') \in Nat /\ Len(history') >= Len(history)
      BY <1>1, <3>1
    <3> QED
      BY <3>1, <3>5, <3>6
  <2> QED
    BY <2>1, <2>2
<1>3. TypeOK'
  <2>1. \A e \in Deployer : Len(decisions'[e]) <= 2
    BY DEF IInv, TypeOK
  <2>2. prev' \in [Deployer -> 0..Len(history')]
    BY <1>1, <1>2
  <2>3. op' \in [pc : {"idle", "found", "done"}, target : 0..Len(history')]
    BY <1>1, <1>2 DEF IInv, TypeOK
  <2> QED
    BY <1>2, <2>1, <2>2, <2>3 DEF TypeOK
<1>4. \A e \in Deployer : DeployerInv(e)'
  <2> SUFFICES ASSUME NEW e \in Deployer, e # d PROVE DeployerInv(e)'
    OBVIOUS
  <2>1. d \in (Deployer \cup {Operator}) \ {e} /\ 0..Len(history) \subseteq Nat
    BY <1>1
  <2>2. \/ UNCHANGED history
        \/ \E status \in {"deployed", "failed"}, by \in (Deployer \cup {Operator}) \ {e}, back \in Nat :
              history' = Append(history, Revision(status, by, back))
    BY <2>1
  <2> QED
    BY <2>2, OtherDeployment
<1> QED
  BY <1>2, <1>3, <1>4 DEF IInv, config

\* Updates of one deployment's part keep the types and the others' parts.
LEMMA UpdateTypes ==
    ASSUME TypeOK, NEW d \in Deployer,
           \E to \in DeployPC : pc' = [pc EXCEPT ![d] = to],
           \/ UNCHANGED report
           \/ \E status \in DeployStatus : report' = [report EXCEPT ![d].status = status]
           \/ \E result \in [status : DeployStatus, rolledBack : BOOLEAN] :
                 report' = [report EXCEPT ![d] = result],
           \/ UNCHANGED cleared
           \/ \E value \in BOOLEAN : cleared' = [cleared EXCEPT ![d] = value],
           \/ UNCHANGED attempted
           \/ \E value \in BOOLEAN : attempted' = [attempted EXCEPT ![d] = value],
           \/ UNCHANGED decisions
           \/ \E value \in BOOLEAN : decisions' = [decisions EXCEPT ![d] = Append(@, value)]
    PROVE  /\ pc' \in [Deployer -> DeployPC]
           /\ cleared' \in [Deployer -> BOOLEAN]
           /\ attempted' \in [Deployer -> BOOLEAN]
           /\ decisions' \in [Deployer -> Seq(BOOLEAN)]
           /\ report' \in [Deployer -> [status : DeployStatus, rolledBack : BOOLEAN]]
           /\ \A e \in Deployer \ {d} :
                 UNCHANGED <<pc[e], cleared[e], decisions[e], attempted[e], report[e]>>
<1>1. /\ pc \in [Deployer -> DeployPC]
      /\ report \in [Deployer -> [status : DeployStatus, rolledBack : BOOLEAN]]
      /\ cleared \in [Deployer -> BOOLEAN] /\ attempted \in [Deployer -> BOOLEAN]
      /\ decisions \in [Deployer -> Seq(BOOLEAN)]
  BY DEF TypeOK
<1>2. pc' \in [Deployer -> DeployPC] /\ \A e \in Deployer \ {d} : pc'[e] = pc[e]
  BY <1>1
<1>3. /\ report' \in [Deployer -> [status : DeployStatus, rolledBack : BOOLEAN]]
      /\ \A e \in Deployer \ {d} : report'[e] = report[e]
  <2>1. CASE UNCHANGED report
    BY <1>1, <2>1
  <2>2. ASSUME NEW status \in DeployStatus, report' = [report EXCEPT ![d].status = status]
        PROVE  /\ report' \in [Deployer -> [status : DeployStatus, rolledBack : BOOLEAN]]
               /\ \A e \in Deployer \ {d} : report'[e] = report[e]
    <3>1. report[d] \in [status : DeployStatus, rolledBack : BOOLEAN]
      BY <1>1
    <3>2. [report[d] EXCEPT !.status = status] \in [status : DeployStatus, rolledBack : BOOLEAN]
      BY <3>1
    <3> QED
      BY <1>1, <2>2, <3>2
  <2>3. ASSUME NEW result \in [status : DeployStatus, rolledBack : BOOLEAN],
               report' = [report EXCEPT ![d] = result]
        PROVE  /\ report' \in [Deployer -> [status : DeployStatus, rolledBack : BOOLEAN]]
               /\ \A e \in Deployer \ {d} : report'[e] = report[e]
    BY <1>1, <2>3
  <2> QED
    BY <2>1, <2>2, <2>3
<1>4. cleared' \in [Deployer -> BOOLEAN] /\ \A e \in Deployer \ {d} : cleared'[e] = cleared[e]
  BY <1>1
<1>5. attempted' \in [Deployer -> BOOLEAN] /\ \A e \in Deployer \ {d} : attempted'[e] = attempted[e]
  BY <1>1
<1>6. decisions' \in [Deployer -> Seq(BOOLEAN)] /\ \A e \in Deployer \ {d} : decisions'[e] = decisions[e]
  <2>1. \A value \in BOOLEAN : Append(decisions[d], value) \in Seq(BOOLEAN)
    BY <1>1, AppendProperties
  <2> QED
    BY <1>1, <2>1, ZenonT(30)
<1> QED
  BY <1>2, <1>3, <1>4, <1>5, <1>6

\* A step of Deploy has its types and leaves the other deployments alone.
LEMMA DeployFrame ==
    ASSUME IInv, NEW d \in Deployer, Deploy(d)
    PROVE  /\ UNCHANGED <<config, op>>
           /\ pc' \in [Deployer -> DeployPC]
           /\ cleared' \in [Deployer -> BOOLEAN]
           /\ prev' \in [Deployer -> 0..Len(history)]
           /\ attempted' \in [Deployer -> BOOLEAN]
           /\ decisions' \in [Deployer -> Seq(BOOLEAN)]
           /\ report' \in [Deployer -> [status : DeployStatus, rolledBack : BOOLEAN]]
           /\ \A e \in Deployer \ {d} :
                 UNCHANGED <<pc[e], cleared[e], prev[e], decisions[e], attempted[e], report[e]>>
<1> USE DEF DeployPC, DeployStatus, Goto, ReturnStatus, OnFailure
<1>1. /\ TypeOK
      /\ Len(history) \in Nat
      /\ pc \in [Deployer -> DeployPC]
      /\ cleared \in [Deployer -> BOOLEAN]
      /\ prev \in [Deployer -> 0..Len(history)]
      /\ attempted \in [Deployer -> BOOLEAN]
      /\ report \in [Deployer -> [status : DeployStatus, rolledBack : BOOLEAN]]
      /\ decisions \in [Deployer -> Seq(BOOLEAN)]
  BY LenProperties DEF IInv, HistoryType, TypeOK
<1>2. CASE ReadRevision(d)
  BY <1>1, <1>2 DEF ReadRevision, CurrentRevision
<1>3. CASE PreCheck(d)
  <2>1. \E to \in DeployPC : pc' = [pc EXCEPT ![d] = to]
    BY <1>3 DEF PreCheck
  <2>2. \/ UNCHANGED report
        \/ \E status \in DeployStatus : report' = [report EXCEPT ![d].status = status]
        \/ \E result \in [status : DeployStatus, rolledBack : BOOLEAN] :
              report' = [report EXCEPT ![d] = result]
    BY <1>3 DEF PreCheck
  <2>3. UNCHANGED <<config, op, prev, decisions, attempted>>
    BY <1>3 DEF PreCheck
  <2>4. \E value \in BOOLEAN : cleared' = [cleared EXCEPT ![d] = value]
    BY <1>3 DEF PreCheck
  <2> QED
    BY <1>1, <2>1, <2>2, <2>3, <2>4, UpdateTypes
<1>4. CASE Upgrade(d)
  <2>1. \E to \in DeployPC : pc' = [pc EXCEPT ![d] = to]
    BY <1>4 DEF Upgrade
  <2>2. \/ UNCHANGED report
        \/ \E status \in DeployStatus : report' = [report EXCEPT ![d].status = status]
        \/ \E result \in [status : DeployStatus, rolledBack : BOOLEAN] :
              report' = [report EXCEPT ![d] = result]
    BY <1>4 DEF Upgrade
  <2>3. UNCHANGED <<config, op, cleared, prev, decisions, attempted>>
    BY <1>4 DEF Upgrade
  <2> QED
    BY <1>1, <2>1, <2>2, <2>3, UpdateTypes
<1>5. CASE HealthGate(d)
  <2>1. \E to \in DeployPC : pc' = [pc EXCEPT ![d] = to]
    BY <1>5 DEF HealthGate
  <2>2. \/ UNCHANGED report
        \/ \E status \in DeployStatus : report' = [report EXCEPT ![d].status = status]
        \/ \E result \in [status : DeployStatus, rolledBack : BOOLEAN] :
              report' = [report EXCEPT ![d] = result]
    BY <1>5 DEF HealthGate
  <2>3. UNCHANGED <<config, op, cleared, prev, attempted>>
    BY <1>5 DEF HealthGate
  <2>4. \E value \in BOOLEAN : UNCHANGED decisions \/ decisions' = [decisions EXCEPT ![d] = Append(@, value)]
    BY <1>5 DEF HealthGate, Decide
  <2> QED
    BY <1>1, <2>1, <2>2, <2>3, <2>4, UpdateTypes
<1>6. CASE ReadinessGate(d)
  <2>1. \E to \in DeployPC : pc' = [pc EXCEPT ![d] = to]
    BY <1>6 DEF ReadinessGate
  <2>2. \/ UNCHANGED report
        \/ \E status \in DeployStatus : report' = [report EXCEPT ![d].status = status]
        \/ \E result \in [status : DeployStatus, rolledBack : BOOLEAN] :
              report' = [report EXCEPT ![d] = result]
    BY <1>6 DEF ReadinessGate
  <2>3. UNCHANGED <<config, op, cleared, prev, attempted>>
    BY <1>6 DEF ReadinessGate
  <2>4. \E value \in BOOLEAN : UNCHANGED decisions \/ decisions' = [decisions EXCEPT ![d] = Append(@, value)]
    BY <1>6 DEF ReadinessGate, Decide
  <2> QED
    BY <1>1, <2>1, <2>2, <2>3, <2>4, UpdateTypes
<1>7. CASE AutoRollback(d)
  <2>1. \E to \in DeployPC : pc' = [pc EXCEPT ![d] = to]
    BY <1>7 DEF AutoRollback
  <2>2. \/ UNCHANGED report
        \/ \E status \in DeployStatus : report' = [report EXCEPT ![d].status = status]
        \/ \E result \in [status : DeployStatus, rolledBack : BOOLEAN] :
              report' = [report EXCEPT ![d] = result]
    BY <1>7 DEF AutoRollback
  <2>3. UNCHANGED <<config, op, cleared, prev, decisions>>
    BY <1>7 DEF AutoRollback
  <2>4. \E value \in BOOLEAN : attempted' = [attempted EXCEPT ![d] = value]
    BY <1>7 DEF AutoRollback
  <2> QED
    BY <1>1, <2>1, <2>2, <2>3, <2>4, UpdateTypes
<1> QED
  BY <1>2, <1>3, <1>4, <1>5, <1>6, <1>7 DEF Deploy

\* What the invariant says of a deployment whose part has its types.
LEMMA DeployerFacts ==
    ASSUME IInv, NEW d \in Deployer
    PROVE  /\ ProgressInv(d) /\ DecisionInv(d) /\ ReportInv(d) /\ PreviousInv(d)
           /\ pc[d] \in DeployPC /\ cleared[d] \in BOOLEAN /\ prev[d] \in 0..Len(history)
           /\ attempted[d] \in BOOLEAN /\ decisions[d] \in Seq(BOOLEAN)
           /\ report[d] \in [status : DeployStatus, rolledBack : BOOLEAN]
           /\ pc \in [Deployer -> DeployPC] /\ cleared \in [Deployer -> BOOLEAN]
           /\ prev \in [Deployer -> 0..Len(history)] /\ attempted \in [Deployer -> BOOLEAN]
           /\ decisions \in [Deployer -> Seq(BOOLEAN)]
           /\ report \in [Deployer -> [status : DeployStatus, rolledBack : BOOLEAN]]
           /\ dryRun \in BOOLEAN /\ opts[d].auto \in BOOLEAN /\ opts[d].post \in BOOLEAN
           /\ HistoryType /\ Len(history) \in Nat
           /\ Deployed(d) \subseteq Own(d)
           /\ \A r \in Own(d) : r \in 1..Len(history) /\ history[r].back \in Nat
<1>1. \A r \in Own(d) : r \in 1..Len(history) /\ history[r].back \in Nat
  <2>1. Len(history) \in Nat
    BY LenProperties DEF IInv, HistoryType
  <2>2. \A r \in RevisionNumbers : history[r].back \in 0..(r - 1)
    BY DEF IInv, TypeOK
  <2> QED
    BY <2>1, <2>2 DEF Own, RevisionNumbers
<1>2. /\ pc \in [Deployer -> DeployPC] /\ cleared \in [Deployer -> BOOLEAN]
      /\ prev \in [Deployer -> 0..Len(history)] /\ attempted \in [Deployer -> BOOLEAN]
      /\ decisions \in [Deployer -> Seq(BOOLEAN)]
      /\ report \in [Deployer -> [status : DeployStatus, rolledBack : BOOLEAN]]
  BY DEF IInv, TypeOK
<1>3. /\ pc[d] \in DeployPC /\ cleared[d] \in BOOLEAN /\ prev[d] \in 0..Len(history)
      /\ attempted[d] \in BOOLEAN /\ decisions[d] \in Seq(BOOLEAN)
      /\ report[d] \in [status : DeployStatus, rolledBack : BOOLEAN]
  BY <1>2
<1>4. dryRun \in BOOLEAN /\ opts[d].auto \in BOOLEAN /\ opts[d].post \in BOOLEAN
  BY DEF IInv
<1>5. HistoryType /\ Len(history) \in Nat
  BY LenProperties DEF IInv, HistoryType
<1>6. ProgressInv(d) /\ DecisionInv(d) /\ ReportInv(d) /\ PreviousInv(d) /\ Deployed(d) \subseteq Own(d)
  BY DEF IInv, DeployerInv, Deployed
<1> QED
  BY <1>1, <1>2, <1>3, <1>4, <1>5, <1>6

\* A step of a deployment that writes no revision keeps what it has written.
LEMMA SameOwn ==
    ASSUME NEW d, UNCHANGED history
    PROVE  Own(d)' = Own(d) /\ Deployed(d)' = Deployed(d)
BY DEF Own, Deployed, RevisionNumbers

LEMMA ReadRevisionInv ==
    ASSUME IInv, NEW d \in Deployer, ReadRevision(d)
    PROVE  DeployerInv(d)'
<1> USE DeployerFacts DEF ReadRevision, CurrentRevision, Goto, config
<1>1. Own(d)' = {} /\ Deployed(d)' = {} /\ UNCHANGED history
  BY SameOwn DEF ProgressInv
<1>2. pc[d] = "start" /\ pc'[d] = "precheck"
  OBVIOUS
<1>3. ProgressInv(d)'
  BY <1>1, <1>2 DEF ProgressInv, Changing
<1>4. DecisionInv(d)' /\ ReportInv(d)' /\ PreviousInv(d)'
  BY <1>1, <1>2 DEF DecisionInv, ReportInv, PreviousInv
<1> QED
  BY <1>3, <1>4 DEF DeployerInv

LEMMA PreCheckInv ==
    ASSUME IInv, NEW d \in Deployer, PreCheck(d)
    PROVE  DeployerInv(d)'
<1> USE DeployerFacts DEF Goto, ReturnStatus, config
<1>1. Own(d)' = {} /\ Deployed(d)' = {} /\ UNCHANGED <<history, config, decisions, prev, attempted>>
  BY SameOwn DEF PreCheck, ProgressInv
<1>2. PICK end \in {"passed", "failed", "error"}, clear \in BOOLEAN :
         /\ PreCheckEnds(end, clear)
         /\ cleared' = [cleared EXCEPT ![d] = clear]
         /\ IF end # "passed"
            THEN ReturnStatus(d, "precheck", "pre_check_failed")
            ELSE IF dryRun
            THEN ReturnStatus(d, "precheck", "success")
            ELSE Goto(d, "precheck", "upgrade") /\ UNCHANGED report
  BY DEF PreCheck
<1>3. end = "passed" => clear
  BY <1>2, PassedIsCleared
<1>4. pc[d] = "precheck" /\ cleared'[d] = clear
  BY <1>2
<1>5. \/ pc'[d] = "returned" /\ report'[d].status = "pre_check_failed"
      \/ pc'[d] = "returned" /\ report'[d].status = "success" /\ clear /\ dryRun
      \/ pc'[d] = "upgrade" /\ report'[d] = report[d] /\ clear /\ ~dryRun
  <2>1. CASE end # "passed"
    BY <1>2, <2>1
  <2>2. CASE end = "passed" /\ dryRun
    BY <1>2, <1>3, <2>2
  <2>3. CASE end = "passed" /\ ~dryRun
    BY <1>2, <1>3, <2>3
  <2> QED
    BY <2>1, <2>2, <2>3
<1>6. report'[d].rolledBack = report[d].rolledBack
  <2>1. UNCHANGED report \/ \E status \in DeployStatus : report' = [report EXCEPT ![d].status = status]
    BY <1>2 DEF DeployStatus
  <2> QED
    BY <2>1, ZenonT(30)
<1>7. ProgressInv(d)'
  BY <1>1, <1>4, <1>5, <1>6 DEF ProgressInv, Changing
<1>8. DecisionInv(d)' /\ ReportInv(d)' /\ PreviousInv(d)'
  BY <1>1, <1>4, <1>5, <1>6 DEF ProgressInv, DecisionInv, ReportInv, PreviousInv
<1> QED
  BY <1>7, <1>8 DEF DeployerInv

\* How a failure path of Deploy ends.
LEMMA FailureFacts ==
    ASSUME IInv, NEW d \in Deployer, NEW from \in DeployPC,
           NEW status \in {"failed", "post_check_failed"}, OnFailure(d, from, status)
    PROVE  /\ report'[d].status = status /\ report'[d].rolledBack = report[d].rolledBack
           /\ \/ pc'[d] = "rollback" /\ opts[d].auto /\ prev[d] > 0
              \/ pc'[d] = "returned" /\ ~(opts[d].auto /\ prev[d] > 0)
<1> USE DeployerFacts
<1>1. report' = [report EXCEPT ![d].status = status]
  BY DEF OnFailure
<1>2. report'[d].status = status /\ report'[d].rolledBack = report[d].rolledBack
  BY <1>1
<1>3. CASE opts[d].auto /\ prev[d] > 0
  BY <1>2, <1>3 DEF OnFailure, Goto
<1>4. CASE ~(opts[d].auto /\ prev[d] > 0)
  BY <1>2, <1>4 DEF OnFailure, Goto
<1> QED
  BY <1>3, <1>4

\* What the deployment itself has written after one more revision.
LEMMA OwnRevision ==
    ASSUME IInv, NEW d \in Deployer, NEW status \in {"deployed", "failed"}, NEW back \in Nat,
           history' = Append(history, Revision(status, d, back))
    PROVE  /\ Own(d)' = Own(d) \cup {Len(history) + 1}
           /\ Deployed(d)' = IF status = "deployed" THEN Deployed(d) \cup {Len(history) + 1} ELSE Deployed(d)
           /\ history'[Len(history) + 1].back = back
           /\ \A r \in Own(d) : history'[r] = history[r]
<1>1. d \in Deployer \cup {Operator} /\ HistoryType
  BY DEF IInv
<1>2. /\ \A r \in RevisionNumbers : history'[r] = history[r]
      /\ history'[Len(history) + 1] = Revision(status, d, back)
      /\ Own(d)' = Own(d) \cup {Len(history) + 1}
      /\ Deployed(d)' = IF status = "deployed" THEN Deployed(d) \cup {Len(history) + 1} ELSE Deployed(d)
  BY <1>1, OneMoreRevision
<1>3. Revision(status, d, back).back = back
  BY DEF Revision
<1>4. Own(d) \subseteq RevisionNumbers
  BY DEF Own
<1> QED
  BY <1>2, <1>3, <1>4

LEMMA UpgradeInv ==
    ASSUME IInv, NEW d \in Deployer, Upgrade(d)
    PROVE  DeployerInv(d)'
<1> USE DeployerFacts DEF Goto, ReturnStatus
<1>1. /\ pc[d] = "upgrade" /\ cleared'[d] /\ ~dryRun /\ Own(d) = {} /\ Deployed(d) = {}
      /\ UNCHANGED <<dryRun, opts, prev, cleared, decisions, attempted>>
      /\ decisions'[d] = <<>>
  BY DEF Upgrade, OnFailure, ProgressInv, Changing, DecisionInv, config
<1>2. CASE HelmUpgrade(d, TRUE)
           /\ IF opts[d].post /\ kube
              THEN Goto(d, "upgrade", "health") /\ UNCHANGED report
              ELSE ReturnStatus(d, "upgrade", "success")
  <2>1. history' = Append(history, Revision("deployed", d, 0))
    BY <1>2 DEF HelmUpgrade, HelmSucceeds
  <2>2. /\ Own(d)' = {Len(history) + 1} /\ Deployed(d)' = {Len(history) + 1}
        /\ history'[Len(history) + 1].back = 0
    BY <1>1, <2>1, OwnRevision
  <2>3. /\ report'[d].rolledBack = report[d].rolledBack
        /\ \/ pc'[d] = "health" /\ report'[d].status = report[d].status
           \/ pc'[d] = "returned" /\ report'[d].status = "success"
    <3>1. CASE opts[d].post /\ kube
      BY <1>2, <3>1
    <3>2. CASE ~(opts[d].post /\ kube)
      <4>1. report' = [report EXCEPT ![d].status = "success"] /\ pc'[d] = "returned"
        BY <1>2, <3>2
      <4> QED
        BY <4>1
    <3> QED
      BY <3>1, <3>2
  <2>4. ProgressInv(d)'
    BY <1>1, <2>2, <2>3 DEF ProgressInv, Changing
  <2>5. DecisionInv(d)' /\ PreviousInv(d)'
    BY <1>1, <2>2, <2>3 DEF DecisionInv, PreviousInv
  <2>6. ReportInv(d)'
    BY <1>1, <2>2, <2>3 DEF ProgressInv, ReportInv
  <2> QED
    BY <2>4, <2>5, <2>6 DEF DeployerInv
<1>3. CASE HelmUpgrade(d, FALSE) /\ OnFailure(d, "upgrade", "failed")
  <2>1. /\ report'[d].status = "failed" /\ report'[d].rolledBack = report[d].rolledBack
        /\ \/ pc'[d] = "rollback" /\ opts[d].auto /\ prev[d] > 0
           \/ pc'[d] = "returned" /\ ~(opts[d].auto /\ prev[d] > 0)
    BY <1>3, FailureFacts DEF DeployPC
  <2>2. /\ Deployed(d)' = {}
        /\ Own(d)' = {} \/ Own(d)' = {Len(history) + 1}
        /\ \A r \in Own(d)' : history'[r].back = 0
    <3>1. CASE UNCHANGED history
      BY <1>1, <3>1, SameOwn
    <3>2. CASE history' = Append(history, Revision("failed", d, 0))
      <4>1. /\ Own(d)' = Own(d) \cup {Len(history) + 1} /\ Deployed(d)' = Deployed(d)
            /\ history'[Len(history) + 1].back = 0
        BY <3>2, OwnRevision
      <4> QED
        BY <1>1, <4>1
    <3> QED
      BY <1>3, <3>1, <3>2 DEF HelmUpgrade, HelmFails
  <2>3. ProgressInv(d)'
    BY <1>1, <2>1, <2>2 DEF ProgressInv, Changing
  <2>4. DecisionInv(d)' /\ PreviousInv(d)'
    BY <1>1, <2>1, <2>2 DEF DecisionInv, PreviousInv
  <2>5. ReportInv(d)'
    BY <1>1, <2>1, <2>2 DEF ProgressInv, ReportInv
  <2> QED
    BY <2>3, <2>4, <2>5 DEF DeployerInv
<1> QED
  BY <1>2, <1>3 DEF Upgrade

LEMMA HealthGateInv ==
    ASSUME IInv, NEW d \in Deployer, HealthGate(d)
    PROVE  DeployerInv(d)'
<1> USE DeployerFacts DEF Goto
<1>1. /\ pc[d] = "health" /\ cleared[d] /\ ~dryRun
      /\ \E r \in Deployed(d) : history[r].back = 0
      /\ Own(d)' = Own(d) /\ Deployed(d)' = Deployed(d) /\ decisions[d] = <<>>
      /\ UNCHANGED <<dryRun, opts, history, prev, cleared, attempted>>
  BY SameOwn DEF HealthGate, OnFailure, ProgressInv, Changing, DecisionInv, config
<1>2. ASSUME NEW passed \in BOOLEAN, Decide(d, passed), Goto(d, "health", "readiness"), UNCHANGED report
      PROVE  DeployerInv(d)'
  <2>1. pc'[d] = "readiness" /\ report'[d] = report[d]
    BY <1>2
  <2>2. decisions'[d] = Append(<<>>, passed)
    BY <1>1, <1>2 DEF Decide
  <2>3. Len(decisions'[d]) = 1
    BY <2>2
  <2>4. ProgressInv(d)' /\ DecisionInv(d)'
    BY <1>1, <2>1, <2>3 DEF ProgressInv, Changing, DecisionInv
  <2>5. ReportInv(d)' /\ PreviousInv(d)'
    BY <1>1, <2>1 DEF ReportInv, PreviousInv
  <2> QED
    BY <2>4, <2>5 DEF DeployerInv
<1>3. CASE OnFailure(d, "health", "post_check_failed") /\ UNCHANGED decisions
  <2>1. /\ report'[d].status = "post_check_failed" /\ report'[d].rolledBack = report[d].rolledBack
        /\ \/ pc'[d] = "rollback" /\ opts[d].auto /\ prev[d] > 0
           \/ pc'[d] = "returned" /\ ~(opts[d].auto /\ prev[d] > 0)
    BY <1>3, FailureFacts DEF DeployPC
  <2>2. ProgressInv(d)' /\ DecisionInv(d)'
    BY <1>1, <2>1 DEF ProgressInv, Changing, DecisionInv
  <2>3. ReportInv(d)' /\ PreviousInv(d)'
    BY <1>1, <2>1 DEF ProgressInv, ReportInv, PreviousInv
  <2> QED
    BY <2>2, <2>3 DEF DeployerInv
<1> QED
  BY <1>2, <1>3 DEF HealthGate

LEMMA ReadinessGateInv ==
    ASSUME IInv, NEW d \in Deployer, ReadinessGate(d)
    PROVE  DeployerInv(d)'
<1> USE DeployerFacts DEF Goto
<1>1. /\ pc[d] = "readiness" /\ cleared[d] /\ ~dryRun
      /\ \E r \in Deployed(d) : history[r].back = 0
      /\ Own(d)' = Own(d) /\ Deployed(d)' = Deployed(d)
      /\ UNCHANGED <<dryRun, opts, history, prev, cleared, attempted>>
  BY SameOwn DEF ReadinessGate, ReturnStatus, OnFailure, ProgressInv, Changing, config
<1>2. CASE ReturnStatus(d, "readiness", "success")
  <2>1. report' = [report EXCEPT ![d].status = "success"] /\ pc'[d] = "returned"
    BY <1>2 DEF ReturnStatus
  <2>2. report'[d].status = "success" /\ report'[d].rolledBack = report[d].rolledBack
    BY <2>1
  <2>3. ProgressInv(d)' /\ DecisionInv(d)'
    BY <1>1, <2>1 DEF ProgressInv, Changing, DecisionInv
  <2>4. ReportInv(d)' /\ PreviousInv(d)'
    BY <1>1, <2>1, <2>2 DEF ProgressInv, ReportInv, PreviousInv
  <2> QED
    BY <2>3, <2>4 DEF DeployerInv
<1>3. CASE OnFailure(d, "readiness", "post_check_failed")
  <2>1. /\ report'[d].status = "post_check_failed" /\ report'[d].rolledBack = report[d].rolledBack
        /\ \/ pc'[d] = "rollback" /\ opts[d].auto /\ prev[d] > 0
           \/ pc'[d] = "returned" /\ ~(opts[d].auto /\ prev[d] > 0)
    BY <1>3, FailureFacts DEF DeployPC
  <2>2. ProgressInv(d)' /\ DecisionInv(d)'
    BY <1>1, <2>1 DEF ProgressInv, Changing, DecisionInv
  <2>3. ReportInv(d)' /\ PreviousInv(d)'
    BY <1>1, <2>1 DEF ProgressInv, ReportInv, PreviousInv
  <2> QED
    BY <2>2, <2>3 DEF DeployerInv
<1> QED
  BY <1>2, <1>3 DEF ReadinessGate

LEMMA AutoRollbackInv ==
    ASSUME IInv, NEW d \in Deployer, AutoRollback(d)
    PROVE  DeployerInv(d)'
<1> USE DeployerFacts DEF Goto
<1>1. /\ pc[d] = "rollback" /\ pc'[d] = "returned" /\ cleared[d] /\ ~dryRun /\ attempted'[d]
      /\ prev[d] > 0 /\ report[d].status \in {"failed", "post_check_failed"} /\ ~report[d].rolledBack
      /\ UNCHANGED <<dryRun, opts, prev, cleared, decisions>>
      /\ \A r \in Own(d) : history[r].back = 0 /\ prev[d] < r
  BY DEF AutoRollback, ProgressInv, PreviousInv, Changing, config
<1>2. CASE /\ HelmRollback(d, prev[d], TRUE)
           /\ report' = [report EXCEPT ![d] = [status |-> "rolled_back", rolledBack |-> TRUE]]
  <2>1. history' = Append(history, Revision("deployed", d, prev[d]))
    BY <1>2 DEF HelmRollback, HelmSucceeds
  <2>2. /\ Own(d)' = Own(d) \cup {Len(history) + 1}
        /\ Deployed(d)' = Deployed(d) \cup {Len(history) + 1}
        /\ history'[Len(history) + 1].back = prev[d]
        /\ \A r \in Own(d) : history'[r] = history[r]
    BY <2>1, OwnRevision
  <2>3. report'[d].status = "rolled_back" /\ report'[d].rolledBack
    BY <1>2
  <2>4. ProgressInv(d)' /\ DecisionInv(d)'
    BY <1>1 DEF ProgressInv, Changing, DecisionInv
  <2>5. ReportInv(d)'
    BY <1>1, <2>2, <2>3 DEF ReportInv
  <2>6. PreviousInv(d)'
    BY <1>1, <2>2 DEF PreviousInv
  <2> QED
    BY <2>4, <2>5, <2>6 DEF DeployerInv
<1>3. CASE HelmRollback(d, prev[d], FALSE) /\ UNCHANGED report
  <2>1. /\ Deployed(d)' = Deployed(d)
        /\ \A r \in Own(d) : history'[r] = history[r]
        /\ \A r \in Own(d)' : r \in Own(d) \/ (r = Len(history) + 1 /\ history'[r].back = prev[d])
    <3>1. CASE UNCHANGED history
      BY <3>1, SameOwn
    <3>2. CASE history' = Append(history, Revision("failed", d, prev[d]))
      <4>1. /\ Own(d)' = Own(d) \cup {Len(history) + 1} /\ Deployed(d)' = Deployed(d)
            /\ history'[Len(history) + 1].back = prev[d]
            /\ \A r \in Own(d) : history'[r] = history[r]
        BY <3>2, OwnRevision
      <4> QED
        BY <4>1
    <3> QED
      BY <1>3, <3>1, <3>2 DEF HelmRollback, HelmFails
  <2>2. ProgressInv(d)' /\ DecisionInv(d)'
    BY <1>1 DEF ProgressInv, Changing, DecisionInv
  <2>3. ReportInv(d)'
    <3>1. report'[d] = report[d] /\ \A r \in Deployed(d)' : history'[r].back = 0
      <4>1. report' = report
        BY <1>3
      <4>2. \A r \in Deployed(d)' : r \in Own(d) /\ history'[r] = history[r] /\ history[r].back = 0
        BY <1>1, <2>1
      <4> QED
        BY <4>1, <4>2
    <3> QED
      BY <1>1, <3>1 DEF ReportInv
  <2>4. PreviousInv(d)'
    <3>1. prev'[d] = prev[d] /\ prev[d] \in 0..Len(history) /\ Len(history) \in Nat
      BY <1>1
    <3>2. \A r \in Own(d)' : prev[d] < r /\ history'[r].back \in {0, prev[d]}
      <4> SUFFICES ASSUME NEW r \in Own(d)' PROVE prev[d] < r /\ history'[r].back \in {0, prev[d]}
        OBVIOUS
      <4>1. CASE r \in Own(d)
        BY <1>1, <2>1, <4>1
      <4>2. CASE r = Len(history) + 1 /\ history'[r].back = prev[d]
        BY <3>1, <4>2
      <4> QED
        BY <2>1, <4>1, <4>2
    <3> QED
      BY <3>1, <3>2 DEF PreviousInv
  <2> QED
    BY <2>2, <2>3, <2>4 DEF DeployerInv
<1> QED
  BY <1>2, <1>3 DEF AutoRollback

\* What a step of Deploy adds to the history.
LEMMA DeployWrites ==
    ASSUME IInv, NEW d \in Deployer, Deploy(d)
    PROVE  \/ UNCHANGED history
           \/ \E status \in {"deployed", "failed"}, back \in 0..Len(history) :
                 history' = Append(history, Revision(status, d, back))
<1> USE DEF HelmSucceeds, HelmFails
<1>1. prev[d] \in 0..Len(history) /\ 0 \in 0..Len(history)
  BY DeployerFacts
<1>2. CASE Upgrade(d)
  BY <1>1, <1>2 DEF Upgrade, HelmUpgrade
<1>3. CASE AutoRollback(d)
  BY <1>1, <1>3 DEF AutoRollback, HelmRollback
<1> QED
  BY <1>2, <1>3 DEF Deploy, ReadRevision, PreCheck, HealthGate, ReadinessGate

\* The gates decide twice at most.
LEMMA DeployDecides ==
    ASSUME IInv, NEW d \in Deployer, Deploy(d)
    PROVE  Len(decisions'[d]) <= 2
<1>1. decisions \in [Deployer -> Seq(BOOLEAN)] /\ Len(decisions[d]) <= 2
  BY DEF IInv, TypeOK
<1>2. ASSUME NEW passed \in BOOLEAN, Decide(d, passed), Len(decisions[d]) <= 1
      PROVE  Len(decisions'[d]) <= 2
  <2>1. decisions'[d] = Append(decisions[d], passed)
    BY <1>1, <1>2 DEF Decide
  <2>2. Len(decisions[d]) \in Nat /\ Len(Append(decisions[d], passed)) = Len(decisions[d]) + 1
    BY <1>1, AppendProperties, LenProperties
  <2> QED
    BY <1>2, <2>1, <2>2
<1>3. DecisionInv(d)
  BY DeployerFacts
<1>4. CASE HealthGate(d)
  BY <1>1, <1>2, <1>3, <1>4 DEF HealthGate, DecisionInv, Goto
<1>5. CASE ReadinessGate(d)
  <2>1. pc[d] = "readiness"
    BY <1>5 DEF ReadinessGate, ReturnStatus, OnFailure, Goto
  <2>2. Len(decisions[d]) <= 1
    <3>1. Len(decisions[d]) = 1
      BY <1>3, <2>1, Zenon DEF DecisionInv
    <3> QED
      BY <3>1
  <2>3. UNCHANGED decisions \/ \E passed \in BOOLEAN : Decide(d, passed)
    BY <1>5 DEF ReadinessGate
  <2> QED
    BY <1>1, <1>2, <2>2, <2>3
<1> QED
  BY <1>1, <1>4, <1>5 DEF Deploy, ReadRevision, PreCheck, Upgrade, AutoRollback

\* Every step of Deploy keeps the invariant.
LEMMA DeployKeepsInv ==
    ASSUME IInv, NEW d \in Deployer, Deploy(d)
    PROVE  IInv'
<1>1. DeployerInv(d)'
  BY ReadRevisionInv, PreCheckInv, UpgradeInv, HealthGateInv, ReadinessGateInv, AutoRollbackInv
     DEF Deploy
<1> QED
  BY <1>1, DeployFrame, DeployWrites, DeployDecides, OneDeployment

\* So does the operator, whose revisions are of no deployment.
LEMMA OperatorKeepsInv ==
    ASSUME IInv, FindPrevious \/ OperatorRollback
    PROVE  IInv'
<1>1. UNCHANGED <<config, deploy>>
  BY DEF FindPrevious, OperatorRollback
<1>2. /\ HistoryType /\ Len(history) \in Nat /\ TypeOK
      /\ op \in [pc : {"idle", "found", "done"}, target : 0..Len(history)]
  BY LenProperties DEF IInv, HistoryType, TypeOK
<1>3. CASE UNCHANGED history
  <2>1. \A d \in Deployer : DeployerInv(d)'
    BY <1>1, <1>3, OtherDeployment DEF deploy
  <2>2. op' \in [pc : {"idle", "found", "done"}, target : 0..Len(history)]
    BY <1>2 DEF FindPrevious, OperatorRollback, CurrentRevision
  <2> QED
    BY <1>1, <1>2, <1>3, <2>1, <2>2 DEF IInv, TypeOK, HistoryType, RevisionNumbers, deploy, config
<1>4. ASSUME NEW status \in {"deployed", "failed"}, NEW back \in 0..Len(history),
             history' = Append(history, Revision(status, Operator, back))
      PROVE  IInv'
  <2>1. back \in Nat /\ Operator \in Deployer \cup {Operator}
    BY <1>2
  <2>2. \A d \in Deployer : DeployerInv(d)'
    BY <1>1, <1>4, <2>1, OtherDeployment, DeployerAssumption DEF deploy
  <2>3. /\ HistoryType' /\ Len(history') = Len(history) + 1
        /\ RevisionNumbers' = RevisionNumbers \cup {Len(history) + 1}
        /\ \A r \in RevisionNumbers : history'[r] = history[r]
        /\ history'[Len(history) + 1] = Revision(status, Operator, back)
    BY <1>2, <1>4, <2>1, OneMoreRevision
  <2>4. \A r \in RevisionNumbers' :
           /\ history'[r].status \in {"deployed", "failed"}
           /\ history'[r].by \in Deployer \cup {Operator}
           /\ history'[r].back \in 0..(r - 1)
    <3>1. \A r \in RevisionNumbers :
             /\ history[r].status \in {"deployed", "failed"}
             /\ history[r].by \in Deployer \cup {Operator}
             /\ history[r].back \in 0..(r - 1)
      BY <1>2 DEF TypeOK
    <3>2. /\ Revision(status, Operator, back).status = status
          /\ Revision(status, Operator, back).by = Operator
          /\ Revision(status, Operator, back).back = back
      BY DEF Revision
    <3>3. back \in 0..((Len(history) + 1) - 1)
      BY <1>2
    <3> QED
      BY <2>3, <3>1, <3>2, <3>3
  <2>5. op' \in [pc : {"idle", "found", "done"}, target : 0..Len(history')]
    BY <1>2, <2>3 DEF FindPrevious, OperatorRollback, CurrentRevision
  <2>6. prev' \in [Deployer -> 0..Len(history')]
    BY <1>1, <1>2, <2>3 DEF TypeOK, deploy
  <2>7. TypeOK'
    BY <1>1, <1>2, <2>4, <2>5, <2>6 DEF TypeOK, deploy
  <2> QED
    BY <1>1, <2>2, <2>3, <2>7 DEF IInv, config
<1> QED
  BY <1>2, <1>3, <1>4 DEF FindPrevious, OperatorRollback, RollBackTo, HelmRollback,
     HelmSucceeds, HelmFails, RevisionNumbers

-----------------------------------------------------------------------------
(* The theorems.                                                           *)

\* The inductive invariant holds in every reachable state, whatever the
\* deployments and the operator do between each other's calls.
THEOREM Invariant == Spec => []IInv
<1>1. IInv /\ [Next]_vars => IInv'
  <2> SUFFICES ASSUME IInv, [Next]_vars PROVE IInv'
    OBVIOUS
  <2>1. CASE UNCHANGED vars
    <3>1. TypeOK' /\ HistoryType' /\ UNCHANGED <<dryRun, opts>>
      BY <2>1 DEF vars, config, deploy, IInv, TypeOK, HistoryType, RevisionNumbers
    <3>2. \A d \in Deployer : DeployerInv(d)'
      BY <2>1, OtherDeployment DEF vars, config, deploy
    <3> QED
      BY <3>1, <3>2 DEF IInv
  <2> QED
    BY <2>1, DeployKeepsInv, OperatorKeepsInv DEF Next
<1> QED
  BY <1>1, InitInv, PTL DEF Spec

\* Deploy and Rollback never leave the types of their variables: no revision
\* goes back to one that is not older, and no known revision is unknown to Helm.
THEOREM TypeCorrect == Spec => []TypeOK
<1>1. IInv => TypeOK
  BY DEF IInv
<1> QED
  BY <1>1, Invariant, PTL

\* Whoever else deploys or rolls back meanwhile, the result of Deploy says of
\* Helm what happened.
THEOREM DeployReportTellsHelm == Spec => []ReportTellsHelm
<1>1. IInv => ReportTellsHelm
  BY DEF IInv, DeployerInv, ReportInv, ReportTellsHelm, Own, Deployed
<1> QED
  BY <1>1, Invariant, PTL

\* An automatic rollback never restores a revision its own deployment wrote.
THEOREM RollbackRestoresOlder == Spec => []RestoresOlderRevision
<1>1. ASSUME IInv PROVE RestoresOlderRevision
  <2> SUFFICES ASSUME NEW r \in RevisionNumbers, history[r].by \in Deployer, history[r].back > 0
               PROVE  /\ history[history[r].back].by # history[r].by
                      /\ \A own \in RevisionNumbers :
                            history[own].by = history[r].by => history[r].back < own
    BY DEF RestoresOlderRevision
  <2> DEFINE d == history[r].by
  <2>1. PreviousInv(d) /\ r \in Own(d) /\ Len(history) \in Nat
    BY <1>1, DeployerFacts DEF Own
  <2>2. history[r].back = prev[d]
    BY <2>1 DEF PreviousInv
  <2>3. \A own \in RevisionNumbers : history[own].by = d => prev[d] < own
    BY <2>1 DEF PreviousInv, Own
  <2>4. prev[d] \in RevisionNumbers
    BY <1>1, <2>1, <2>2, DeployerFacts DEF RevisionNumbers
  <2> QED
    BY <2>2, <2>3, <2>4 DEF RevisionNumbers
<1> QED
  BY <1>1, Invariant, PTL

\* A deployment that failed with automatic rollback on does not return without
\* having called the rollback handler.
THEOREM FailureCallsRollback == Spec => []FailureTriesRollback
<1>1. IInv => FailureTriesRollback
  BY DEF IInv, DeployerInv, ReportInv, FailureTriesRollback
<1> QED
  BY <1>1, Invariant, PTL

-----------------------------------------------------------------------------
(* The inductive invariant of a check.  GatesTellCluster speaks of one     *)
(* that has passed; what makes it so is what each decision rested on when  *)
(* it was made, one gate at a time, and the wait of a combined gate before *)
(* its second half.                                                        *)

GateKinds == {"health", "readiness", "combined"}

\* The cluster and the gates have their types; a pod is never counted twice.
RolloutTypeOK ==
    /\ exists \in BOOLEAN /\ canceled \in BOOLEAN /\ waited \in BOOLEAN
    /\ pods \in PodCounts
    /\ published \in {StatusOf(p) : p \in PodCounts}
    /\ gates \in Seq(GateKinds)
    /\ check \in [pc : {"next", "health", "wait", "returned"}, gate : 1..(Len(gates) + 1),
                  decisions : Seq(BOOLEAN), outcome : {"none", "passed", "failed", "error"}]

\* Which gate is at hand, and that the ones before it have decided.
PositionInv ==
    /\ Len(check.decisions) = check.gate - 1
    /\ check.pc \in {"health", "wait"} => check.gate <= Len(gates)
    /\ check.pc = "health" => gates[check.gate] \in {"health", "combined"}
    /\ check.pc = "wait" => gates[check.gate] \in {"readiness", "combined"}
    /\ check.pc # "returned" => check.outcome = "none"
    /\ check.outcome = "passed" => check.gate = Len(gates) + 1 /\ AllPassed(check.decisions)

\* What has been seen when a gate has decided, and when the first half of a
\* combined gate has.
EvidenceInv ==
    /\ \A i \in 1..Len(check.decisions) :
          /\ check.decisions[i] /\ gates[i] \in {"health", "combined"} => "healthy" \in seen
          /\ check.decisions[i] /\ gates[i] \in {"readiness", "combined"} => exists /\ "ready" \in seen
          /\ ~check.decisions[i] /\ gates[i] = "health" => "unhealthy" \in seen
    /\ check.pc = "health" /\ gates[check.gate] = "combined" /\ waited => exists /\ "ready" \in seen

\* What is so has been seen.
SeenInv == Facts \subseteq seen

CheckInv ==
    /\ RolloutTypeOK
    /\ PositionInv
    /\ EvidenceInv
    /\ SeenInv

-----------------------------------------------------------------------------
(* The invariant is inductive.                                             *)

\* The parts of the check, and of a sequence of decisions with one more.
LEMMA CheckFacts ==
    ASSUME RolloutTypeOK
    PROVE  /\ Len(gates) \in Nat /\ \A i \in 1..Len(gates) : gates[i] \in GateKinds
           /\ check.pc \in {"next", "health", "wait", "returned"}
           /\ check.gate \in 1..(Len(gates) + 1)
           /\ check.decisions \in Seq(BOOLEAN) /\ Len(check.decisions) \in Nat
           /\ check.outcome \in {"none", "passed", "failed", "error"}
           /\ \A passed \in BOOLEAN :
                 /\ Append(check.decisions, passed) \in Seq(BOOLEAN)
                 /\ Len(Append(check.decisions, passed)) = Len(check.decisions) + 1
                 /\ \A i \in 1..Len(check.decisions) :
                       Append(check.decisions, passed)[i] = check.decisions[i]
                 /\ Append(check.decisions, passed)[Len(check.decisions) + 1] = passed
<1>1. gates \in Seq(GateKinds)
  BY DEF RolloutTypeOK
<1>2. Len(gates) \in Nat /\ \A i \in 1..Len(gates) : gates[i] \in GateKinds
  BY <1>1, LenProperties, ElementOfSeq
<1>3. /\ check.pc \in {"next", "health", "wait", "returned"}
      /\ check.gate \in 1..(Len(gates) + 1)
      /\ check.decisions \in Seq(BOOLEAN)
      /\ check.outcome \in {"none", "passed", "failed", "error"}
  BY DEF RolloutTypeOK
<1>4. Len(check.decisions) \in Nat
  BY <1>3, LenProperties
<1>5. ASSUME NEW passed \in BOOLEAN
      PROVE  /\ Append(check.decisions, passed) \in Seq(BOOLEAN)
             /\ Len(Append(check.decisions, passed)) = Len(check.decisions) + 1
             /\ \A i \in 1..Len(check.decisions) :
                   Append(check.decisions, passed)[i] = check.decisions[i]
             /\ Append(check.decisions, passed)[Len(check.decisions) + 1] = passed
  BY <1>3, AppendProperties
<1> QED
  BY <1>2, <1>3, <1>4, <1>5

LEMMA RolloutInitInv == RolloutInit => CheckInv
<1> SUFFICES ASSUME RolloutInit PROVE CheckInv
  OBVIOUS
<1>1. gates \in Seq(GateKinds)
  <2>1. <<>> \in Seq(GateKinds)
    BY EmptySeq
  <2>2. \A g, h \in GateKinds : <<g>> \in Seq(GateKinds) /\ <<g, h>> \in Seq(GateKinds)
    OBVIOUS
  <2>3. {"health", "readiness", "combined"} \subseteq GateKinds
    BY DEF GateKinds
  <2>4. gates \in GateLists
    BY DEF RolloutInit
  <2> QED
    BY <2>1, <2>2, <2>3, <2>4 DEF GateLists
<1>2. Len(gates) \in Nat
  BY <1>1, LenProperties
<1>3. check.decisions = <<>> /\ Len(check.decisions) = 0 /\ check.gate = 1 /\ check.pc = "next"
      /\ check.outcome = "none"
  BY DEF RolloutInit
<1>4. RolloutTypeOK
  <2>1. published \in {StatusOf(p) : p \in PodCounts} /\ pods \in PodCounts /\ exists \in BOOLEAN
    BY DEF RolloutInit, ClusterInit
  <2>2. check \in [pc : {"next", "health", "wait", "returned"}, gate : 1..(Len(gates) + 1),
                   decisions : Seq(BOOLEAN), outcome : {"none", "passed", "failed", "error"}]
    BY <1>2, EmptySeq DEF RolloutInit
  <2> QED
    BY <1>1, <2>1, <2>2 DEF RolloutInit, RolloutTypeOK
<1>5. PositionInv
  BY <1>3 DEF PositionInv
<1>6. EvidenceInv /\ SeenInv
  BY <1>3 DEF RolloutInit, EvidenceInv, SeenInv
<1> QED
  BY <1>4, <1>5, <1>6 DEF CheckInv

\* What a gate decides is remembered with what has been seen.
LEMMA DecisionKeepsInv ==
    ASSUME CheckInv, NEW passed \in BOOLEAN, check.gate <= Len(gates), check.outcome = "none",
           DecideGate(passed), waited' \in BOOLEAN,
           UNCHANGED <<exists, pods, published, gates, canceled, seen>>,
           passed /\ gates[check.gate] \in {"health", "combined"} => "healthy" \in seen,
           passed /\ gates[check.gate] \in {"readiness", "combined"} => exists /\ "ready" \in seen,
           ~passed /\ gates[check.gate] = "health" => "unhealthy" \in seen
    PROVE  CheckInv'
<1> USE CheckFacts
<1>1. RolloutTypeOK /\ PositionInv /\ EvidenceInv /\ SeenInv
  BY DEF CheckInv
<1>2. /\ check'.pc = "next" /\ check'.gate = check.gate + 1
      /\ check'.decisions = Append(check.decisions, passed) /\ check'.outcome = "none"
  BY <1>1 DEF DecideGate, RolloutTypeOK
<1>3. RolloutTypeOK'
  <2>1. check.gate + 1 \in 1..(Len(gates) + 1) /\ Append(check.decisions, passed) \in Seq(BOOLEAN)
    BY <1>1
  <2>2. check' = [pc |-> "next", gate |-> check.gate + 1,
                  decisions |-> Append(check.decisions, passed), outcome |-> check.outcome]
    BY <1>1 DEF DecideGate, RolloutTypeOK
  <2> QED
    BY <1>1, <2>1, <2>2 DEF RolloutTypeOK
<1>4. PositionInv'
  BY <1>1, <1>2 DEF PositionInv
<1>5. EvidenceInv'
  <2>1. Len(check.decisions) = check.gate - 1
    BY <1>1 DEF PositionInv
  <2>2. \A i \in 1..Len(check'.decisions) :
           \/ i \in 1..Len(check.decisions) /\ check'.decisions[i] = check.decisions[i]
           \/ i = check.gate /\ check'.decisions[i] = passed
    BY <1>1, <1>2, <2>1
  <2> QED
    BY <1>1, <1>2, <2>2 DEF EvidenceInv
<1>6. SeenInv'
  BY <1>1 DEF SeenInv, Facts, CheckPodHealth, Total
<1> QED
  BY <1>3, <1>4, <1>5, <1>6 DEF CheckInv

\* The loop: the next gate, the result, or the canceled context.
LEMMA NextGateKeepsInv ==
    ASSUME CheckInv, NextGate
    PROVE  CheckInv'
<1> USE CheckFacts
<1>1. /\ RolloutTypeOK /\ PositionInv /\ EvidenceInv /\ SeenInv /\ check.pc = "next"
      /\ UNCHANGED <<exists, pods, published, gates, canceled, waited, seen>>
  BY DEF CheckInv, NextGate, cluster
<1>2. check'.gate = check.gate /\ check'.decisions = check.decisions
  BY <1>1 DEF NextGate, RolloutTypeOK
<1>3. \/ check'.pc = "returned" /\ check'.outcome \in {"failed", "error"}
      \/ /\ check'.pc = "returned" /\ check'.outcome = "passed"
         /\ check.gate = Len(gates) + 1 /\ AllPassed(check.decisions)
      \/ /\ check'.pc = Calls(gates[check.gate]) /\ check'.outcome = "none"
         /\ check.gate <= Len(gates)
  BY <1>1 DEF NextGate, RolloutTypeOK, PositionInv
<1>4. check.gate <= Len(gates) => gates[check.gate] \in GateKinds
  BY <1>1
<1>5. RolloutTypeOK'
  BY <1>1, <1>3, <1>4 DEF RolloutTypeOK, NextGate, Calls, GateKinds
<1>6. PositionInv'
  BY <1>1, <1>2, <1>3, <1>4 DEF PositionInv, Calls, GateKinds
<1>7. EvidenceInv'
  BY <1>1, <1>2, <1>3 DEF EvidenceInv, Calls
<1>8. SeenInv'
  BY <1>1 DEF SeenInv, Facts, CheckPodHealth, Total
<1> QED
  BY <1>5, <1>6, <1>7, <1>8 DEF CheckInv

\* The end of the whole check, with the error of a call.
LEMMA ErrorKeepsInv ==
    ASSUME CheckInv, check' = [check EXCEPT !.pc = "returned", !.outcome = "error"],
           UNCHANGED <<exists, pods, published, gates, canceled, waited, seen>>
    PROVE  CheckInv'
<1> USE CheckFacts
<1>1. RolloutTypeOK /\ PositionInv /\ EvidenceInv /\ SeenInv
  BY DEF CheckInv
<1>2. /\ check'.pc = "returned" /\ check'.outcome = "error"
      /\ check'.gate = check.gate /\ check'.decisions = check.decisions
  BY <1>1 DEF RolloutTypeOK
<1>3. RolloutTypeOK'
  BY <1>1 DEF RolloutTypeOK
<1>4. PositionInv' /\ EvidenceInv'
  BY <1>1, <1>2 DEF PositionInv, EvidenceInv
<1>5. SeenInv'
  BY <1>1 DEF SeenInv, Facts, CheckPodHealth, Total
<1> QED
  BY <1>3, <1>4, <1>5 DEF CheckInv

\* The health gate and the second half of a combined one.
LEMMA CheckHealthKeepsInv ==
    ASSUME CheckInv, CheckHealth
    PROVE  CheckInv'
<1> USE CheckFacts
<1>1. /\ RolloutTypeOK /\ PositionInv /\ EvidenceInv /\ SeenInv /\ check.pc = "health"
      /\ UNCHANGED <<exists, pods, published, gates, canceled, waited, seen>>
      /\ waited \in BOOLEAN
  BY DEF CheckInv, CheckHealth, cluster, RolloutTypeOK
<1>2. check.gate <= Len(gates) /\ check.outcome = "none" /\ gates[check.gate] \in {"health", "combined"}
  BY <1>1 DEF PositionInv
<1> DEFINE healthy == HealthDecision(CheckPodHealth)
           passed == IF gates[check.gate] = "combined" THEN waited /\ healthy ELSE healthy
<1>3. CASE DecideGate(passed)
  <2>1. healthy \in BOOLEAN
    BY DEF HealthDecision
  <2>2. (healthy => "healthy" \in seen) /\ (~healthy => "unhealthy" \in seen)
    BY <1>1 DEF SeenInv, Facts
  <2>3. waited /\ gates[check.gate] = "combined" => exists /\ "ready" \in seen
    BY <1>1 DEF EvidenceInv
  <2> HIDE DEF healthy
  <2>4. passed \in BOOLEAN
    BY <1>1, <2>1
  <2> QED
    BY <1>1, <1>2, <1>3, <2>2, <2>3, <2>4, DecisionKeepsInv
<1>4. CASE check' = [check EXCEPT !.pc = "returned", !.outcome = "error"]
  BY <1>1, <1>4, ErrorKeepsInv
<1> QED
  BY <1>3, <1>4 DEF CheckHealth

\* The end of a wait, which has seen the replicas ready if it says so.
LEMMA WaitKeepsInv ==
    ASSUME CheckInv, check.pc = "wait", NEW ready \in BOOLEAN, WaitOver(ready),
           ready => exists /\ "ready" \in seen,
           UNCHANGED <<exists, pods, published, gates, canceled, seen>>
    PROVE  CheckInv'
<1> USE CheckFacts
<1>1. /\ RolloutTypeOK /\ PositionInv /\ EvidenceInv /\ SeenInv /\ waited \in BOOLEAN
      /\ check.gate <= Len(gates) /\ check.outcome = "none"
      /\ gates[check.gate] \in {"readiness", "combined"}
  BY DEF CheckInv, RolloutTypeOK, PositionInv
<1>2. CASE gates[check.gate] = "combined"
  <2>1. waited' = ready /\ check' = [check EXCEPT !.pc = "health"]
    BY <1>2 DEF WaitOver
  <2>2. /\ check'.pc = "health" /\ check'.gate = check.gate
        /\ check'.decisions = check.decisions /\ check'.outcome = check.outcome
    BY <1>1, <2>1 DEF RolloutTypeOK
  <2>3. RolloutTypeOK'
    BY <1>1, <2>1 DEF RolloutTypeOK
  <2>4. PositionInv' /\ EvidenceInv'
    BY <1>1, <1>2, <2>1, <2>2 DEF PositionInv, EvidenceInv
  <2>5. SeenInv'
    BY <1>1 DEF SeenInv, Facts, CheckPodHealth, Total
  <2> QED
    BY <2>3, <2>4, <2>5 DEF CheckInv
<1>3. CASE gates[check.gate] # "combined"
  <2>1. DecideGate(ready) /\ waited' \in BOOLEAN /\ gates[check.gate] = "readiness"
    BY <1>1, <1>3 DEF WaitOver
  <2> QED
    BY <1>1, <2>1, DecisionKeepsInv
<1> QED
  BY <1>2, <1>3

\* The pods change, and what is so then has been seen.
LEMMA ClusterKeepsInv ==
    ASSUME CheckInv, ClusterStep
    PROVE  CheckInv'
<1>1. /\ RolloutTypeOK /\ PositionInv /\ EvidenceInv
      /\ seen' = seen \cup Facts' /\ UNCHANGED <<exists, gates, check, waited, canceled>>
  BY DEF CheckInv, ClusterStep, PodsChange, StatusPublished, runner
<1>2. pods' \in PodCounts
  <2>1. /\ pods \in PodCounts /\ pods.ready \in Nat /\ pods.starting \in Nat
        /\ pods.ready + pods.starting <= Replicas + Surge
        /\ pods = [ready |-> pods.ready, starting |-> pods.starting]
    BY <1>1, ReplicasAssumption DEF RolloutTypeOK, PodCounts
  <2>2. \A p \in [ready : Nat, starting : Nat] :
           p.ready + p.starting <= Replicas + Surge => p \in PodCounts
    BY ReplicasAssumption DEF PodCounts
  <2>3. CASE PodsChange
    <3>1. \/ UNCHANGED pods
          \/ Total < Replicas + Surge /\ pods' = [ready |-> pods.ready, starting |-> pods.starting + 1]
          \/ pods.starting > 0 /\ pods' = [ready |-> pods.ready + 1, starting |-> pods.starting - 1]
          \/ pods.starting > 0 /\ pods' = [ready |-> pods.ready, starting |-> pods.starting - 1]
          \/ pods.ready > 0 /\ pods' = [ready |-> pods.ready - 1, starting |-> pods.starting + 1]
          \/ pods.ready > 0 /\ pods' = [ready |-> pods.ready - 1, starting |-> pods.starting]
      BY <2>1, <2>3 DEF PodsChange
    <3> QED
      BY <2>1, <2>2, <3>1, ReplicasAssumption DEF Total
  <2>4. CASE StatusPublished
    BY <2>1, <2>4 DEF StatusPublished
  <2> QED
    BY <2>3, <2>4 DEF ClusterStep
<1>3. published' \in {StatusOf(p) : p \in PodCounts}
  BY <1>1 DEF ClusterStep, PodsChange, StatusPublished, RolloutTypeOK
<1>4. RolloutTypeOK'
  BY <1>1, <1>2, <1>3 DEF RolloutTypeOK
<1>5. PositionInv' /\ EvidenceInv' /\ SeenInv'
  BY <1>1 DEF PositionInv, EvidenceInv, SeenInv
<1> QED
  BY <1>4, <1>5 DEF CheckInv

LEMMA StepKeepsInv == CheckInv /\ [RolloutNext]_rollout => CheckInv'
<1> SUFFICES ASSUME CheckInv, [RolloutNext]_rollout PROVE CheckInv'
  OBVIOUS
<1>1. CASE ClusterStep
  BY <1>1, ClusterKeepsInv
<1>2. CASE CancelCheck
  BY <1>2 DEF CancelCheck, cluster, runner, CheckInv, RolloutTypeOK, PositionInv, EvidenceInv,
     SeenInv, Facts, CheckPodHealth, Total
<1>3. CASE NextGate
  BY <1>3, NextGateKeepsInv
<1>4. CASE CheckHealth
  BY <1>4, CheckHealthKeepsInv
<1>5. CASE PollReady
  <2>1. "ready" \in Facts
    BY <1>5 DEF PollReady, Ready, Facts
  <2>2. "ready" \in seen
    BY <2>1 DEF CheckInv, SeenInv
  <2> QED
    BY <1>5, <2>2, WaitKeepsInv DEF PollReady, cluster
<1>6. CASE WaitTimesOut
  BY <1>6, WaitKeepsInv DEF WaitTimesOut, cluster
<1>7. CASE UNCHANGED rollout
  BY <1>7 DEF rollout, cluster, CheckInv, RolloutTypeOK, PositionInv, EvidenceInv,
     SeenInv, Facts, CheckPodHealth, Total
<1> QED
  BY <1>1, <1>2, <1>3, <1>4, <1>5, <1>6, <1>7 DEF RolloutNext, PostCheckRun

-----------------------------------------------------------------------------
(* The theorems.                                                           *)

\* The inductive invariant holds however the pods change between the calls.
THEOREM CheckInvariant == RolloutSpec => []CheckInv
BY RolloutInitInv, StepKeepsInv, PTL DEF RolloutSpec

\* A check that passes has seen what its gates ask for, and a health gate that
\* failed has seen too few healthy pods: no failed answer is lost to a later
\* one, and no error or timeout is taken for an answer.
THEOREM PassedGatesSawIt == RolloutSpec => []GatesTellCluster
<1>1. ASSUME CheckInv PROVE GatesTellCluster
  <2>1. RolloutTypeOK /\ PositionInv /\ EvidenceInv
    BY <1>1 DEF CheckInv
  <2>2. Len(gates) \in Nat /\ check.gate \in 1..(Len(gates) + 1)
    BY <2>1, CheckFacts
  <2>3. check.outcome = "passed" =>
           /\ Len(check.decisions) = Len(gates)
           /\ \A i \in 1..Len(gates) : check.decisions[i]
    BY <2>1, <2>2 DEF PositionInv, AllPassed
  <2> QED
    BY <2>1, <2>3 DEF EvidenceInv, GatesTellCluster
<1> QED
  BY <1>1, CheckInvariant, PTL
=============================================================================
