-------------------------- MODULE DeploymentProofs --------------------------
(***************************************************************************)
(* The safety of the public deployment, for any commits and models, any    *)
(* number of runs and of faults.                                           *)
(*                                                                         *)
(* The argument: only one workflow runs at a time, so that what a step     *)
(* finds is what the steps before it left (ApiInv, RollbackInv), but for   *)
(* the viewer, which goes on by itself and reads only the binding and the  *)
(* checkout.                                                               *)
(***************************************************************************)
EXTENDS Deployment, SequenceTheorems, TLAPS

-----------------------------------------------------------------------------
(* The runs: which step can be the next, and which checkouts are named.    *)
RunInv ==
    /\ \/ run = NoRun
       \/ run.kind = "api" /\ run.step \in ApiSteps
       \/ run.kind = "ask" /\ run.step \in AskSteps \cup RollbackSteps
    /\ run # NoRun => run.rev # 0 /\ runs > 0 /\ run.before < runs
    /\ checkout <= runs
    /\ \A a \in Runs : a > runs => backup[a] = 0

Api(steps) == run.kind = "api" /\ run.step \in steps
Ask(steps) == run.kind = "ask" /\ run.step \in steps

(* What the steps of deploy.py have done so far.                           *)
CheckedOut == Api(ApiSteps \ {"remove", "clone"}) => HeadOf(checkout) = run.rev
ProxyClosed == Api({"project", "commit", "read-back", "truncate", "bind", "publish", "recreate",
                    "wait", "open"}) => ~proxy
ProjectMade == Api({"commit", "read-back", "truncate", "bind"}) => run.project # 0
ProjectWhole == Api({"truncate", "bind"}) => projects[run.project].whole
StatusPublished == Api({"recreate", "wait", "open", "verify"}) =>
                       binding = status /\ RevisionOf(status) = run.rev
ViewerTold == Api({"wait", "open", "verify"}) => viewer.app = run.rev
ViewerReads == Api({"wait", "open"}) =>
                   (viewer.place \in {"built", "ready"} => viewer.project = status)
ProxyOpened == Api({"verify"}) => proxy /\ opened_by = "api"

(* Whatever is bound or published was read back whole.                     *)
BoundWhole ==
    /\ binding # 0 => projects[binding].whole
    /\ status # 0 => projects[status].whole

(* The backup of an Ask run is the checkout it found; from its rollback on *)
(* it exists, and is not what the rollback throws away.                    *)
BackupIsBefore ==
    /\ Ask(AskSteps \cup RollbackSteps) /\ backup[runs] # 0 =>
           backup[runs] = run.before /\ checkout \in {0, runs}
    /\ Ask({"mark", "set-aside"}) => backup[runs] = 0 /\ checkout = run.before
BackupStands ==
    Ask({"remove-viewer", "discard", "restore"}) => backup[runs] # 0 /\ HeadOf(run.before) # 0
BackupRestored ==
    Ask({"bring-up", "reopen-rolled-back", "forget"}) =>
        checkout = run.before /\ HeadOf(checkout) # 0
ViewerRestored ==
    Ask({"reopen-rolled-back", "forget"}) => viewer.app = HeadOf(checkout)

ApiInv == /\ CheckedOut /\ ProxyClosed /\ ProjectMade /\ ProjectWhole /\ StatusPublished
          /\ ViewerTold /\ ViewerReads /\ ProxyOpened
RollbackInv == BackupIsBefore /\ BackupStands /\ BackupRestored /\ ViewerRestored

DeploymentInv == TypeOK /\ RunInv /\ ApiInv /\ BoundWhole /\ OpenMeansPublished /\ RollbackInv

-----------------------------------------------------------------------------
(* Which actions change what.                                              *)

HostChanges == RemoveCheckout \/ CloneCheckout \/ MarkActivation \/ SetAside \/ Promote
               \/ RemoveBackup \/ RemoveMarker \/ DiscardCheckout \/ RestoreBackup \/ ForgetMarker
ServedChanges == CreateProject \/ CommitElements \/ TruncateBinding \/ WriteBinding \/ WriteStatus
PublicChanges == StopPublicProxy \/ OpenProxy \/ ReopenProxy \/ ReopenRolledBack
ViewerChanges == RecreateAskViewer \/ UpViewer \/ RemoveViewer \/ BringViewerUp
                 \/ ViewerStep \/ ViewerRestarts

(* Every action changes the host, what is served, the proxy, or the viewer, *)
(* or none of them.                                                         *)
LEMMA Frames ==
    ASSUME [Next]_vars
    PROVE  /\ HostChanges \/ UNCHANGED host
           /\ ServedChanges \/ UNCHANGED served
           /\ PublicChanges \/ UNCHANGED public
           /\ ViewerChanges \/ UNCHANGED viewer
<1> USE DEF HostChanges, ServedChanges, PublicChanges, ViewerChanges
<1>1. ASSUME NEW r \in Revisions, StartApi(r) \/ StartAsk(r)
      PROVE  UNCHANGED <<host, served, public, viewer>>
  BY <1>1 DEF StartApi, StartAsk, Start
<1>2. CASE ApiStep
  BY <1>2 DEF ApiStep, RemoveCheckout, CloneCheckout, ValidateAndBuild, StopPublicProxy,
              CreateProject, CommitElements, ReadBack, TruncateBinding, WriteBinding, WriteStatus,
              RecreateAskViewer, WaitForAskViewer, OpenProxy, VerifyPublicApi, host, served, public
<1>3. CASE MarkActivation \/ SetAside \/ Promote \/ UpViewer \/ PollWarmup
           \/ ReopenProxy \/ VerifyPublicAsk \/ RemoveBackup \/ RemoveMarker
  BY <1>3 DEF MarkActivation, SetAside, Promote, UpViewer, PollWarmup, ReopenProxy,
              VerifyPublicAsk, RemoveBackup, RemoveMarker, host, served, public
<1>4. CASE Rollback
  BY <1>4 DEF Rollback, RefuseRollback, BeginRollback, RemoveViewer, DiscardCheckout, RestoreBackup,
              BringViewerUp, ReopenRolledBack, ForgetMarker, host, served, public
<1>5. CASE StepFails \/ CutOff \/ UNCHANGED vars
  BY <1>5 DEF StepFails, CutOff, vars, host, served, public
<1>6. CASE ViewerStep \/ ViewerRestarts
  BY <1>6 DEF ViewerStep, Entrypoint, BuildRuntime, LoadCorpus, ViewerRestarts
<1> QED
  BY <1>1, <1>2, <1>3, <1>4, <1>5, <1>6 DEF Next, AskStep

-----------------------------------------------------------------------------
(* Types.                                                                  *)

(* A run is the record of its parts.                                       *)
LEMMA RunRecord ==
    ASSUME TypeOK
    PROVE  run = [kind |-> run.kind, step |-> run.step, rev |-> run.rev,
                  project |-> run.project, before |-> run.before]
<1>1. run \in [kind : {"none", "api", "ask"},
               step : {"none"} \cup ApiSteps \cup AskSteps \cup RollbackSteps,
               rev : Revisions \cup {0}, project : 0 .. Len(projects), before : Runs \cup {0}]
  BY DEF TypeOK
<1> QED
  BY <1>1

LEMMA RunTyped ==
    ASSUME TypeOK, RunInv, run # NoRun
    PROVE  runs \in Runs /\ run.rev \in Revisions
<1>1. runs \in 0 .. MaxRuns /\ runs > 0
  <2>1. runs \in 0 .. MaxRuns
    BY DEF TypeOK
  <2>2. runs > 0
    BY DEF RunInv
  <2> QED
    BY <2>1, <2>2
<1>2. run.rev \in Revisions \cup {0} /\ run.rev # 0
  BY DEF TypeOK, RunInv
<1> QED
  BY <1>1, <1>2, DeploymentAssumption DEF Runs

LEMMA AtRun ==
    ASSUME NEW k, NEW s, At(k, s), k # "none"
    PROVE  run # NoRun
BY DEF At, NoRun

LEMMA HostTypeStep ==
    ASSUME TypeOK, RunInv, [Next]_vars
    PROVE  /\ dirs' \in [Runs -> Revisions \cup {0}]
           /\ checkout' \in Runs \cup {0}
           /\ backup' \in [Runs -> Runs \cup {0}]
           /\ marked' \subseteq Runs
           /\ ask_env' \in BOOLEAN
<1>1. /\ dirs \in [Runs -> Revisions \cup {0}] /\ checkout \in Runs \cup {0}
      /\ backup \in [Runs -> Runs \cup {0}] /\ marked \subseteq Runs /\ ask_env \in BOOLEAN
  BY DEF TypeOK
<1>2. CASE UNCHANGED host
  BY <1>1, <1>2 DEF host
<1>3. CASE CloneCheckout \/ MarkActivation \/ Promote
  <2>1. runs \in Runs /\ run.rev \in Revisions
    BY <1>3, AtRun, RunTyped DEF CloneCheckout, MarkActivation, Promote
  <2> QED
    BY <1>1, <1>3, <2>1 DEF CloneCheckout, MarkActivation, Promote
<1>4. CASE RemoveCheckout \/ DiscardCheckout
  BY <1>1, <1>4 DEF RemoveCheckout, DiscardCheckout
<1>5. CASE SetAside \/ RestoreBackup
  <2>1. runs \in Runs
    BY <1>5, AtRun, RunTyped DEF SetAside, RestoreBackup
  <2> QED
    BY <1>1, <1>5, <2>1 DEF SetAside, RestoreBackup
<1>6. CASE RemoveBackup \/ RemoveMarker \/ ForgetMarker
  BY <1>1, <1>6 DEF RemoveBackup, RemoveMarker, ForgetMarker
<1> QED
  BY <1>2, <1>3, <1>4, <1>5, <1>6, Frames DEF HostChanges

LEMMA ServedTypeStep ==
    ASSUME TypeOK, RunInv, ProjectMade, [Next]_vars
    PROVE  /\ projects' \in Seq([rev : Revisions, whole : BOOLEAN])
           /\ Len(projects') >= Len(projects)
           /\ binding' \in 0 .. Len(projects') /\ status' \in 0 .. Len(projects')
<1>1. /\ projects \in Seq([rev : Revisions, whole : BOOLEAN])
      /\ binding \in 0 .. Len(projects) /\ status \in 0 .. Len(projects)
      /\ run.project \in 0 .. Len(projects)
  BY DEF TypeOK
<1>2. Len(projects) \in Nat
  BY <1>1, LenProperties
<1>3. CASE UNCHANGED served
  BY <1>1, <1>2, <1>3 DEF served
<1>4. CASE CreateProject
  <2>1. [rev |-> run.rev, whole |-> FALSE] \in [rev : Revisions, whole : BOOLEAN]
    BY <1>4, AtRun, RunTyped DEF CreateProject
  <2> QED
    BY <1>1, <1>2, <1>4, <2>1, AppendProperties DEF CreateProject
<1>5. CASE CommitElements
  <2>1. run.project \in 1 .. Len(projects) /\ binding' = binding /\ status' = status
    <3>1. run.project # 0
      BY <1>5 DEF CommitElements, ProjectMade, Api, At
    <3> QED
      BY <1>1, <1>2, <1>5, <3>1 DEF CommitElements
  <2>2. \/ projects' = projects
        \/ projects' = [projects EXCEPT ![run.project] = [projects[run.project] EXCEPT !.whole = TRUE]]
    <3>1. \/ projects' = projects
          \/ projects' = [projects EXCEPT ![run.project].whole = TRUE]
      BY <1>5 DEF CommitElements
    <3> QED
      BY <3>1, Zenon
  <2>3. [projects[run.project] EXCEPT !.whole = TRUE] \in [rev : Revisions, whole : BOOLEAN]
    <3>1. projects[run.project] \in [rev : Revisions, whole : BOOLEAN]
      BY <1>1, <2>1, ElementOfSeq
    <3> QED
      BY <3>1
  <2>4. projects' \in Seq([rev : Revisions, whole : BOOLEAN]) /\ Len(projects') = Len(projects)
    BY <1>1, <2>1, <2>2, <2>3, ExceptSeq
  <2> QED
    BY <1>1, <1>2, <2>1, <2>4
<1>6. CASE TruncateBinding \/ WriteBinding \/ WriteStatus
  BY <1>1, <1>2, <1>6 DEF TruncateBinding, WriteBinding, WriteStatus
<1> QED
  BY <1>3, <1>4, <1>5, <1>6, Frames DEF ServedChanges

-----------------------------------------------------------------------------
(* The deployment.                                                         *)

LEMMA ProjectMadeStep ==
    ASSUME TypeOK, RunInv, ProjectMade, [Next]_vars
    PROVE  ProjectMade'
<1> USE RunRecord DEF ProjectMade, Api, At, End, Goto, NoRun, served
<1>1. ASSUME NEW r \in Revisions, StartApi(r) \/ StartAsk(r) PROVE ProjectMade'
  BY <1>1 DEF StartApi, StartAsk, Start
<1>2. CASE CreateProject
  BY <1>2 DEF CreateProject, TypeOK
<1>3. CASE RemoveCheckout \/ CloneCheckout \/ ValidateAndBuild \/ StopPublicProxy
           \/ CommitElements \/ ReadBack \/ TruncateBinding
           \/ WriteBinding \/ WriteStatus \/ RecreateAskViewer \/ WaitForAskViewer
           \/ OpenProxy \/ VerifyPublicApi
  BY <1>3 DEF RemoveCheckout, CloneCheckout, ValidateAndBuild, StopPublicProxy,
              CommitElements, ReadBack, TruncateBinding, WriteBinding, WriteStatus,
              RecreateAskViewer, WaitForAskViewer, OpenProxy, VerifyPublicApi
<1>4. CASE AskStep
  BY <1>4 DEF AskStep, MarkActivation, SetAside, Promote, UpViewer, PollWarmup, ReopenProxy,
              VerifyPublicAsk, RemoveBackup, RemoveMarker,
              Rollback, RefuseRollback, BeginRollback, RemoveViewer, DiscardCheckout, RestoreBackup,
              BringViewerUp, ReopenRolledBack, ForgetMarker
<1>5. CASE StepFails \/ CutOff \/ UNCHANGED vars
  BY <1>5 DEF StepFails, CutOff, vars
<1>6. CASE ViewerStep \/ ViewerRestarts
  BY <1>6 DEF ViewerStep, Entrypoint, BuildRuntime, LoadCorpus, ViewerRestarts, ci
<1> QED
  BY <1>1, <1>2, <1>3, <1>4, <1>5, <1>6 DEF Next, ApiStep
-----------------------------------------------------------------------------
(* The runs.                                                               *)

(* A step leaves the run alone, starts one, ends it, or takes it on.       *)
LEMMA RunGoesOn ==
    ASSUME TypeOK, [Next]_vars
    PROVE  \/ UNCHANGED <<run, runs>>
           \/ /\ runs < MaxRuns /\ runs' = runs + 1 /\ UNCHANGED host
              /\ \E r \in Revisions :
                    \/ run' = [kind |-> "api", step |-> "remove", rev |-> r, project |-> 0,
                               before |-> checkout]
                    \/ run' = [kind |-> "ask", step |-> "mark", rev |-> r, project |-> 0,
                               before |-> checkout]
           \/ run' = NoRun /\ runs' = runs
           \/ /\ runs' = runs /\ run # NoRun
              /\ run' = [kind |-> run.kind, step |-> run'.step, rev |-> run.rev,
                         project |-> run'.project, before |-> run.before]
              /\ run'.project = run.project \/ CreateProject
              /\ \/ run'.kind = "api" /\ run'.step \in ApiSteps
                 \/ run'.kind = "ask" /\ run'.step \in AskSteps \cup RollbackSteps
<1> USE RunRecord DEF At, End, Goto, NoRun, ApiSteps, AskSteps, RollbackSteps
<1>1. ASSUME NEW r \in Revisions, StartApi(r) \/ StartAsk(r)
      PROVE  /\ runs < MaxRuns /\ runs' = runs + 1 /\ UNCHANGED host
             /\ \/ run' = [kind |-> "api", step |-> "remove", rev |-> r, project |-> 0,
                           before |-> checkout]
                \/ run' = [kind |-> "ask", step |-> "mark", rev |-> r, project |-> 0,
                           before |-> checkout]
  BY <1>1 DEF StartApi, StartAsk, Start
<1>2. CASE RemoveCheckout \/ CloneCheckout \/ ValidateAndBuild \/ StopPublicProxy
           \/ CommitElements \/ ReadBack
  BY <1>2 DEF RemoveCheckout, CloneCheckout, ValidateAndBuild, StopPublicProxy,
              CommitElements, ReadBack
<1>8. CASE CreateProject
  <2>1. /\ At("api", "project") /\ UNCHANGED runs
        /\ run' = [run EXCEPT !.step = "commit", !.project = Len(projects) + 1]
    BY <1>8 DEF CreateProject
  <2>2. run' = [kind |-> run.kind, step |-> "commit", rev |-> run.rev,
                project |-> Len(projects) + 1, before |-> run.before]
    BY <2>1
  <2>3. run # NoRun /\ run'.kind = "api" /\ run'.step \in ApiSteps
    BY <2>1, <2>2
  <2>4. run' = [kind |-> run.kind, step |-> run'.step, rev |-> run.rev,
                project |-> run'.project, before |-> run.before]
    BY <2>2
  <2> HIDE DEF At, End, Goto, NoRun, ApiSteps, AskSteps, RollbackSteps
  <2> QED
    BY <1>8, <2>1, <2>3, <2>4
<1>3. CASE TruncateBinding \/ WriteBinding \/ WriteStatus \/ RecreateAskViewer \/ WaitForAskViewer
           \/ OpenProxy \/ VerifyPublicApi
  BY <1>3 DEF TruncateBinding, WriteBinding, WriteStatus, RecreateAskViewer, WaitForAskViewer,
              OpenProxy, VerifyPublicApi
<1>4. CASE MarkActivation \/ SetAside \/ Promote \/ UpViewer \/ PollWarmup
           \/ ReopenProxy \/ VerifyPublicAsk \/ RemoveBackup \/ RemoveMarker
  BY <1>4 DEF MarkActivation, SetAside, Promote, UpViewer, PollWarmup, ReopenProxy,
              VerifyPublicAsk, RemoveBackup, RemoveMarker
<1>5. CASE Rollback
  BY <1>5 DEF Rollback, RefuseRollback, BeginRollback, RemoveViewer, DiscardCheckout,
              RestoreBackup, BringViewerUp, ReopenRolledBack, ForgetMarker
<1>6. CASE StepFails \/ CutOff \/ UNCHANGED vars
  BY <1>6 DEF StepFails, CutOff, vars
<1>7. CASE ViewerStep \/ ViewerRestarts
  BY <1>7 DEF ViewerStep, Entrypoint, BuildRuntime, LoadCorpus, ViewerRestarts, ci
<1> QED
  BY <1>1, <1>2, <1>3, <1>4, <1>5, <1>6, <1>7, <1>8, Zenon DEF Next, ApiStep, AskStep

LEMMA RunInvStep ==
    ASSUME TypeOK, RunInv, BackupIsBefore, [Next]_vars
    PROVE  RunInv'
<1>0. /\ runs \in Nat /\ checkout \in Nat /\ run.before \in Nat /\ runs' \in Nat
      /\ backup \in [Runs -> Runs \cup {0}] /\ \A a \in Runs : a \in Nat
  <2>1. /\ runs \in 0 .. MaxRuns /\ checkout \in Runs \cup {0} /\ run.before \in Runs \cup {0}
        /\ backup \in [Runs -> Runs \cup {0}]
    BY DEF TypeOK
  <2> QED
    BY <2>1, RunGoesOn, DeploymentAssumption DEF Runs
<1>1. runs <= runs'
  BY <1>0, RunGoesOn
<1>2. /\ \/ run' = NoRun
         \/ run'.kind = "api" /\ run'.step \in ApiSteps
         \/ run'.kind = "ask" /\ run'.step \in AskSteps \cup RollbackSteps
      /\ run' # NoRun => run'.rev # 0 /\ runs' > 0 /\ run'.before < runs'
  <2>1. CASE \E r \in Revisions :
                \/ run' = [kind |-> "api", step |-> "remove", rev |-> r, project |-> 0,
                           before |-> checkout]
                \/ run' = [kind |-> "ask", step |-> "mark", rev |-> r, project |-> 0,
                           before |-> checkout]
    <3>1. CASE runs' = runs + 1
      <4>1. checkout <= runs
        BY DEF RunInv
      <4>2. \A r \in Revisions : r # 0
        BY DeploymentAssumption
      <4> QED
        BY <1>0, <2>1, <3>1, <4>1, <4>2 DEF ApiSteps, AskSteps
    <3> QED
      BY <2>1, <3>1, RunGoesOn DEF RunInv
  <2> QED
    BY <2>1, RunGoesOn DEF RunInv
<1>3. checkout' <= runs' /\ \A a \in Runs : a > runs' => backup'[a] = 0
  <2>0. checkout <= runs /\ (\A a \in Runs : a > runs => backup[a] = 0)
        /\ (run # NoRun => run.before < runs)
    BY DEF RunInv
  <2>1. CASE UNCHANGED <<checkout, backup>>
    BY <1>0, <1>1, <2>0, <2>1
  <2>2. CASE RemoveCheckout \/ CloneCheckout \/ Promote \/ DiscardCheckout
    BY <1>0, <1>1, <2>0, <2>2 DEF RemoveCheckout, CloneCheckout, Promote, DiscardCheckout
  <2>3. CASE SetAside \/ RemoveBackup
    BY <1>0, <1>1, <2>0, <2>3 DEF SetAside, RemoveBackup
  <2>4. CASE RestoreBackup
    <3>1. run # NoRun /\ (backup[runs] # 0 => backup[runs] = run.before)
      BY <2>4, AtRun DEF RestoreBackup, BackupIsBefore, Ask, At, RollbackSteps
    <3> QED
      BY <1>0, <1>1, <2>0, <2>4, <3>1 DEF RestoreBackup
  <2> QED
    BY <2>1, <2>2, <2>3, <2>4, Frames
       DEF HostChanges, MarkActivation, RemoveMarker, ForgetMarker, host
<1> QED
  BY <1>2, <1>3 DEF RunInv

LEMMA RunTypeStep ==
    ASSUME TypeOK, RunInv, ProjectMade, [Next]_vars
    PROVE  /\ run' \in [kind : {"none", "api", "ask"},
                        step : {"none"} \cup ApiSteps \cup AskSteps \cup RollbackSteps,
                        rev : Revisions \cup {0}, project : 0 .. Len(projects'),
                        before : Runs \cup {0}]
           /\ runs' \in 0 .. MaxRuns
<1>0. /\ runs \in 0 .. MaxRuns /\ MaxRuns \in Nat /\ checkout \in Runs \cup {0}
      /\ run \in [kind : {"none", "api", "ask"},
                  step : {"none"} \cup ApiSteps \cup AskSteps \cup RollbackSteps,
                  rev : Revisions \cup {0}, project : 0 .. Len(projects), before : Runs \cup {0}]
  BY DeploymentAssumption DEF TypeOK
<1>1. Len(projects') >= Len(projects) /\ Len(projects) \in Nat /\ Len(projects') \in Nat
  <2>1. projects \in Seq([rev : Revisions, whole : BOOLEAN])
        /\ projects' \in Seq([rev : Revisions, whole : BOOLEAN])
    BY ServedTypeStep DEF TypeOK
  <2> QED
    BY <2>1, ServedTypeStep, LenProperties
<1>2. run.project \in 0 .. Len(projects') /\ 0 \in 0 .. Len(projects')
  BY <1>0, <1>1
<1>3. CASE UNCHANGED <<run, runs>>
  BY <1>0, <1>2, <1>3
<1>4. CASE runs < MaxRuns /\ runs' = runs + 1
           /\ \E r \in Revisions :
                \/ run' = [kind |-> "api", step |-> "remove", rev |-> r, project |-> 0,
                           before |-> checkout]
                \/ run' = [kind |-> "ask", step |-> "mark", rev |-> r, project |-> 0,
                           before |-> checkout]
  BY <1>0, <1>2, <1>4 DEF ApiSteps, AskSteps
<1>5. CASE run' = NoRun /\ runs' = runs
  BY <1>0, <1>2, <1>5 DEF NoRun
<1>6. CASE /\ runs' = runs /\ run # NoRun
           /\ run' = [kind |-> run.kind, step |-> run'.step, rev |-> run.rev,
                      project |-> run'.project, before |-> run.before]
           /\ run'.project = run.project \/ CreateProject
           /\ \/ run'.kind = "api" /\ run'.step \in ApiSteps
              \/ run'.kind = "ask" /\ run'.step \in AskSteps \cup RollbackSteps
  <2>1. run'.project \in 0 .. Len(projects')
    <3>1. CASE CreateProject
      <4>1. Len(projects') = Len(projects) + 1
        BY <3>1, AtRun, RunTyped, AppendProperties DEF CreateProject, TypeOK
      <4>2. run'.project = Len(projects) + 1
        BY <3>1, <1>0 DEF CreateProject
      <4> QED
        BY <1>1, <4>1, <4>2
    <3> QED
      BY <1>2, <1>6, <3>1
  <2> QED
    BY <1>0, <1>6, <2>1
<1> QED
  BY <1>3, <1>4, <1>5, <1>6, RunGoesOn

LEMMA ViewerTypeStep ==
    ASSUME TypeOK, RunInv, ProjectMade, [Next]_vars
    PROVE  viewer' \in [place : Places, app : Revisions \cup {0}, mount : Runs \cup {0},
                        expected : Revisions \cup {0}, project : 0 .. Len(projects')]
<1>0. /\ viewer \in [place : Places, app : Revisions \cup {0}, mount : Runs \cup {0},
                     expected : Revisions \cup {0}, project : 0 .. Len(projects)]
      /\ checkout \in Runs \cup {0} /\ dirs \in [Runs -> Revisions \cup {0}]
      /\ run.rev \in Revisions \cup {0} /\ binding \in 0 .. Len(projects)
      /\ projects \in Seq([rev : Revisions, whole : BOOLEAN])
  BY DEF TypeOK
<1>1. Len(projects') >= Len(projects) /\ Len(projects) \in Nat /\ Len(projects') \in Nat
  BY <1>0, ServedTypeStep, LenProperties
<1>2. \A p \in 0 .. Len(projects) : p \in 0 .. Len(projects')
  BY <1>1
<1>3. viewer \in [place : Places, app : Revisions \cup {0}, mount : Runs \cup {0},
                  expected : Revisions \cup {0}, project : 0 .. Len(projects')]
  BY <1>0, <1>2
<1>4. \A rev \in Revisions \cup {0} :
          Started(checkout, rev) \in [place : Places, app : Revisions \cup {0}, mount : Runs \cup {0},
                                      expected : Revisions \cup {0}, project : 0 .. Len(projects')]
  BY <1>0, <1>1 DEF Started, Places
<1>5. CASE RecreateAskViewer \/ UpViewer \/ BringViewerUp \/ ViewerRestarts
  <2>1. HeadOf(checkout) \in Revisions \cup {0}
    BY <1>0 DEF HeadOf
  <2>2. viewer.app \in Revisions \cup {0}
    BY <1>0
  <2> QED
    BY <1>0, <1>3, <1>4, <1>5, <2>1, <2>2 DEF RecreateAskViewer, UpViewer, BringViewerUp, ViewerRestarts, Up
<1>6. CASE RemoveViewer
  <2>1. NoViewer \in [place : Places, app : Revisions \cup {0}, mount : Runs \cup {0},
                      expected : Revisions \cup {0}, project : 0 .. Len(projects')]
    BY <1>1 DEF NoViewer, Places
  <2> QED
    BY <1>3, <1>6, <2>1 DEF RemoveViewer
<1>7. CASE Entrypoint
  <2>1. RevisionOf(binding) \in Revisions \cup {0}
    <3>1. CASE binding # 0
      <4>1. binding \in 1 .. Len(projects)
        BY <1>0, <1>1, <3>1
      <4>2. projects[binding] \in [rev : Revisions, whole : BOOLEAN]
        BY <1>0, <4>1, ElementOfSeq
      <4> QED
        BY <3>1, <4>2 DEF RevisionOf
    <3> QED
      BY <3>1 DEF RevisionOf
  <2> QED
    BY <1>3, <1>7, <2>1 DEF Entrypoint, Places
<1>8. CASE BuildRuntime \/ LoadCorpus
  BY <1>0, <1>2, <1>3, <1>8 DEF BuildRuntime, LoadCorpus, Places
<1> QED
  BY <1>3, <1>5, <1>6, <1>7, <1>8, Frames DEF ViewerChanges, ViewerStep

LEMMA OtherTypeStep ==
    ASSUME TypeOK, [Next]_vars
    PROVE  /\ proxy' \in BOOLEAN /\ opened_by' \in {"none", "api", "ask", "rollback"}
           /\ verdict' \in {"none", "green", "red", "rolled-back"}
           /\ faults' \in 0 .. MaxFaults
<1>0. /\ proxy \in BOOLEAN /\ opened_by \in {"none", "api", "ask", "rollback"}
      /\ verdict \in {"none", "green", "red", "rolled-back"} /\ faults \in 0 .. MaxFaults
      /\ MaxFaults \in Nat
  BY DeploymentAssumption DEF TypeOK
<1>1. proxy' \in BOOLEAN /\ opened_by' \in {"none", "api", "ask", "rollback"}
  BY <1>0, Frames DEF public, PublicChanges, StopPublicProxy, OpenProxy, ReopenProxy, ReopenRolledBack
<1>2. verdict' \in {"none", "green", "red", "rolled-back"} /\ faults' \in 0 .. MaxFaults
  <2> USE <1>0 DEF End, Fault, ci
  <2>1. ASSUME NEW r \in Revisions, StartApi(r) \/ StartAsk(r)
        PROVE  verdict' \in {"none", "green", "red", "rolled-back"} /\ faults' \in 0 .. MaxFaults
    BY <2>1 DEF StartApi, StartAsk, Start
  <2>2. CASE ApiStep
    BY <2>2 DEF ApiStep, RemoveCheckout, CloneCheckout, ValidateAndBuild, StopPublicProxy,
                CreateProject, CommitElements, ReadBack, TruncateBinding, WriteBinding, WriteStatus,
                RecreateAskViewer, WaitForAskViewer, OpenProxy, VerifyPublicApi
  <2>3. CASE AskStep
    BY <2>3 DEF AskStep, MarkActivation, SetAside, Promote, UpViewer, PollWarmup, ReopenProxy,
                VerifyPublicAsk, RemoveBackup, RemoveMarker, Rollback, RefuseRollback, BeginRollback,
                RemoveViewer, DiscardCheckout, RestoreBackup, BringViewerUp, ReopenRolledBack,
                ForgetMarker
  <2>4. CASE StepFails \/ CutOff \/ UNCHANGED vars
    BY <2>4 DEF StepFails, CutOff, vars
  <2>5. CASE ViewerStep \/ ViewerRestarts
    BY <2>5 DEF ViewerStep, Entrypoint, BuildRuntime, LoadCorpus, ViewerRestarts
  <2> QED
    BY <2>1, <2>2, <2>3, <2>4, <2>5 DEF Next
<1> QED
  BY <1>1, <1>2

LEMMA TypeStep ==
    ASSUME TypeOK, RunInv, ProjectMade, [Next]_vars
    PROVE  TypeOK'
BY HostTypeStep, ServedTypeStep, RunTypeStep, ViewerTypeStep, OtherTypeStep, Zenon DEF TypeOK

-----------------------------------------------------------------------------
(* What deploy.py has done so far.                                         *)

(* An API run leaves the host alone once it has cloned its revision.       *)
LEMMA CheckedOutStep ==
    ASSUME TypeOK, RunInv, CheckedOut, [Next]_vars
    PROVE  CheckedOut'
<1> USE RunRecord DEF CheckedOut, Api, HeadOf, At, End, Goto, NoRun, host, ApiSteps
<1>0. runs \in Nat /\ dirs \in [Runs -> Revisions \cup {0}]
  BY DeploymentAssumption DEF TypeOK
<1>1. ASSUME NEW r \in Revisions, StartApi(r) \/ StartAsk(r) PROVE CheckedOut'
  BY <1>1 DEF StartApi, StartAsk, Start
<1>2. CASE CloneCheckout
  <2>1. runs \in Runs /\ runs # 0
    BY <1>2, AtRun, RunTyped DEF CloneCheckout, RunInv
  <2> QED
    BY <1>0, <1>2, <2>1 DEF CloneCheckout
<1>3. CASE RemoveCheckout \/ ValidateAndBuild \/ StopPublicProxy
           \/ CommitElements \/ ReadBack \/ TruncateBinding
  BY <1>3 DEF RemoveCheckout, ValidateAndBuild, StopPublicProxy,
              CommitElements, ReadBack, TruncateBinding
<1>4. CASE CreateProject
  BY <1>4 DEF CreateProject
<1>5. CASE WriteBinding \/ WriteStatus \/ RecreateAskViewer \/ WaitForAskViewer
           \/ OpenProxy \/ VerifyPublicApi
  BY <1>5 DEF WriteBinding, WriteStatus, RecreateAskViewer, WaitForAskViewer,
              OpenProxy, VerifyPublicApi
<1>6. CASE AskStep
  BY <1>6 DEF AskStep, MarkActivation, SetAside, Promote, UpViewer, PollWarmup, ReopenProxy,
              VerifyPublicAsk, RemoveBackup, RemoveMarker,
              Rollback, RefuseRollback, BeginRollback, RemoveViewer, DiscardCheckout, RestoreBackup,
              BringViewerUp, ReopenRolledBack, ForgetMarker
<1>7. CASE StepFails \/ CutOff \/ UNCHANGED vars
  BY <1>7 DEF StepFails, CutOff, vars
<1>8. CASE ViewerStep \/ ViewerRestarts
  BY <1>8 DEF ViewerStep, Entrypoint, BuildRuntime, LoadCorpus, ViewerRestarts, ci
<1> QED
  BY <1>1, <1>2, <1>3, <1>4, <1>5, <1>6, <1>7, <1>8 DEF Next, ApiStep

(* What a step is that leaves an API run in progress: its start, a step of *)
(* deploy.py, or a step of the viewer.                                     *)
LEMMA ApiGoesOn ==
    ASSUME TypeOK, [Next]_vars, Api(ApiSteps)'
    PROVE  \/ run'.step = "remove"
           \/ ApiStep /\ run.kind = "api" /\ ~VerifyPublicApi
           \/ /\ UNCHANGED <<run, host, served, public>>
              /\ UNCHANGED viewer \/ ViewerStep \/ ViewerRestarts
<1> USE RunRecord DEF Api, At, End, Goto, NoRun
<1>1. ASSUME NEW r \in Revisions, StartApi(r) \/ StartAsk(r) PROVE run'.step = "remove"
  BY <1>1 DEF StartApi, StartAsk, Start
<1>2. CASE ApiStep
  <2>1. run.kind = "api"
    BY <1>2 DEF ApiStep, RemoveCheckout, CloneCheckout, ValidateAndBuild, StopPublicProxy,
                CreateProject, CommitElements, ReadBack, TruncateBinding, WriteBinding, WriteStatus,
                RecreateAskViewer, WaitForAskViewer, OpenProxy, VerifyPublicApi
  <2>2. ~VerifyPublicApi
    BY DEF VerifyPublicApi
  <2> QED
    BY <1>2, <2>1, <2>2
<1>3. ~(MarkActivation \/ SetAside \/ Promote \/ UpViewer \/ PollWarmup \/ ReopenProxy)
  BY DEF MarkActivation, SetAside, Promote, UpViewer, PollWarmup, ReopenProxy
<1>4. ~(VerifyPublicAsk \/ RemoveBackup \/ RemoveMarker \/ RefuseRollback \/ BeginRollback
        \/ RemoveViewer)
  BY DEF VerifyPublicAsk, RemoveBackup, RemoveMarker, RefuseRollback, BeginRollback, RemoveViewer
<1>5. ~(DiscardCheckout \/ RestoreBackup \/ BringViewerUp \/ ReopenRolledBack \/ ForgetMarker)
  BY DEF DiscardCheckout, RestoreBackup, BringViewerUp, ReopenRolledBack, ForgetMarker
<1>6. ~StepFails /\ ~CutOff
  BY DEF StepFails, CutOff
<1>7. CASE UNCHANGED vars
  BY <1>7 DEF vars, host, served, public
<1>8. CASE ViewerStep \/ ViewerRestarts
  BY <1>8 DEF ViewerStep, Entrypoint, BuildRuntime, LoadCorpus, ViewerRestarts, ci
<1> QED
  BY <1>1, <1>2, <1>3, <1>4, <1>5, <1>6, <1>7, <1>8, Zenon DEF Next, AskStep, Rollback

(* Likewise of an Ask run, whose failed step sends it to its rollback.     *)
LEMMA AskGoesOn ==
    ASSUME TypeOK, RunInv, [Next]_vars, Ask(AskSteps \cup RollbackSteps)'
    PROVE  \/ /\ run'.step = "mark" /\ run'.before = checkout
              /\ runs < MaxRuns /\ runs' = runs + 1 /\ UNCHANGED host
           \/ /\ AskStep
              /\ Ask(AskSteps \cup RollbackSteps) /\ runs' = runs
              /\ run'.rev = run.rev /\ run'.before = run.before
           \/ /\ Ask(AskSteps \cup RollbackSteps)
              /\ UNCHANGED <<runs, host, served, public, viewer>>
              /\ run'.step = "roll-back" /\ run'.before = run.before
           \/ /\ UNCHANGED <<run, runs, host, served, public>>
              /\ UNCHANGED viewer \/ ViewerStep \/ ViewerRestarts
<1> USE RunRecord DEF Ask, At, End, Goto, NoRun, AskSteps, RollbackSteps
<1>1. ASSUME NEW r \in Revisions, StartApi(r) \/ StartAsk(r)
      PROVE  /\ run'.step = "mark" /\ run'.before = checkout
             /\ runs < MaxRuns /\ runs' = runs + 1 /\ UNCHANGED host
  BY <1>1 DEF StartApi, StartAsk, Start
<1>2. ~(RemoveCheckout \/ CloneCheckout \/ ValidateAndBuild \/ StopPublicProxy \/ CommitElements
        \/ ReadBack \/ TruncateBinding)
  BY DEF RemoveCheckout, CloneCheckout, ValidateAndBuild, StopPublicProxy, CommitElements,
         ReadBack, TruncateBinding
<1>3. ~(WriteBinding \/ WriteStatus \/ RecreateAskViewer \/ WaitForAskViewer \/ OpenProxy
        \/ VerifyPublicApi)
  BY DEF WriteBinding, WriteStatus, RecreateAskViewer, WaitForAskViewer, OpenProxy, VerifyPublicApi
<1>4. ~CreateProject
  BY DEF CreateProject
<1>5. CASE AskStep
  <2>1. CASE MarkActivation \/ SetAside \/ Promote \/ UpViewer \/ PollWarmup \/ ReopenProxy
    BY <1>5, <2>1 DEF MarkActivation, SetAside, Promote, UpViewer, PollWarmup, ReopenProxy
  <2>2. CASE VerifyPublicAsk \/ RemoveBackup \/ RemoveMarker \/ RefuseRollback \/ BeginRollback
             \/ RemoveViewer
    BY <1>5, <2>2
       DEF VerifyPublicAsk, RemoveBackup, RemoveMarker, RefuseRollback, BeginRollback, RemoveViewer
  <2>3. CASE DiscardCheckout \/ RestoreBackup \/ BringViewerUp \/ ReopenRolledBack \/ ForgetMarker
    BY <1>5, <2>3
       DEF DiscardCheckout, RestoreBackup, BringViewerUp, ReopenRolledBack, ForgetMarker
  <2> QED
    BY <1>5, <2>1, <2>2, <2>3, Zenon DEF AskStep, Rollback
<1>6. CASE StepFails
  <2>1. run.kind = "ask" /\ run # NoRun
    BY <1>6 DEF StepFails
  <2>2. run.step \in AskSteps \cup RollbackSteps
    BY <2>1 DEF RunInv
  <2> QED
    BY <1>6, <2>1, <2>2 DEF StepFails
<1>7. ~CutOff
  BY DEF CutOff
<1>8. CASE UNCHANGED vars
  BY <1>8 DEF vars, host, served, public
<1>9. CASE ViewerStep \/ ViewerRestarts
  BY <1>9 DEF ViewerStep, Entrypoint, BuildRuntime, LoadCorpus, ViewerRestarts, ci
<1> QED
  BY <1>1, <1>2, <1>3, <1>4, <1>5, <1>6, <1>7, <1>8, <1>9, Zenon DEF Next, ApiStep

(* Of itself the viewer keeps the revision it was told, and reads its      *)
(* project from the binding.                                               *)
LEMMA ViewerGoesOn ==
    ASSUME TypeOK, ViewerStep \/ ViewerRestarts
    PROVE  /\ viewer'.app = viewer.app
           /\ viewer'.place \in {"built", "ready"} =>
                 \/ viewer.place \in {"built", "ready"} /\ viewer'.project = viewer.project
                 \/ viewer'.project = binding
<1>1. viewer \in [place : Places, app : Revisions \cup {0}, mount : Runs \cup {0},
                  expected : Revisions \cup {0}, project : 0 .. Len(projects)]
  BY DEF TypeOK
<1>2. CASE Entrypoint
  <2>1. \/ viewer' = [viewer EXCEPT !.place = "up", !.expected = RevisionOf(binding)]
        \/ viewer' = [viewer EXCEPT !.place = "refused"]
    BY <1>2 DEF Entrypoint
  <2> QED
    BY <1>1, <2>1
<1>3. CASE BuildRuntime
  <2>1. \/ viewer' = [viewer EXCEPT !.place = "built", !.project = binding]
        \/ viewer' = [viewer EXCEPT !.place = "invalid"]
    BY <1>3 DEF BuildRuntime
  <2> QED
    BY <1>1, <2>1
<1>4. CASE LoadCorpus
  BY <1>1, <1>4 DEF LoadCorpus
<1>5. CASE ViewerRestarts
  BY <1>5 DEF ViewerRestarts, Started
<1> QED
  BY <1>2, <1>3, <1>4, <1>5 DEF ViewerStep

LEMMA ApiInvStep ==
    ASSUME TypeOK, RunInv, ApiInv, [Next]_vars
    PROVE  ApiInv'
<1> USE RunRecord DEF ApiInv, Api, At, End, Goto, NoRun, ApiSteps
<1>1. CheckedOut'
  BY CheckedOutStep
<1>2. ASSUME ~Api(ApiSteps)' PROVE ApiInv'
  BY <1>1, <1>2 DEF ProxyClosed, ProjectMade, ProjectWhole, StatusPublished, ViewerTold, ViewerReads,
              ProxyOpened
<1>3. CASE run'.step = "remove"
  BY <1>1, <1>3 DEF ProxyClosed, ProjectMade, ProjectWhole, StatusPublished, ViewerTold, ViewerReads,
              ProxyOpened
<1>4. CASE /\ UNCHANGED <<run, host, served, public>>
           /\ UNCHANGED viewer \/ ViewerStep \/ ViewerRestarts
  <2>1. (ProxyClosed /\ ProjectMade /\ ProjectWhole /\ StatusPublished /\ ProxyOpened)'
    BY <1>4 DEF ProxyClosed, ProjectMade, ProjectWhole, StatusPublished, ProxyOpened, RevisionOf,
                served, public
  <2>2. viewer'.app = viewer.app
        /\ (viewer'.place \in {"built", "ready"} =>
                \/ viewer.place \in {"built", "ready"} /\ viewer'.project = viewer.project
                \/ viewer'.project = binding)
    <3>1. CASE ViewerStep \/ ViewerRestarts
      BY <3>1, ViewerGoesOn
    <3> QED
      BY <1>4, <3>1
  <2>3. (ViewerTold /\ ViewerReads)'
    BY <1>4, <2>2 DEF StatusPublished, ViewerTold, ViewerReads, served
  <2> QED
    BY <1>1, <2>1, <2>3
<1>5. CASE ApiStep /\ ~VerifyPublicApi
  <2>1. ProxyClosed' /\ ProjectMade'
    <3>1. CASE RemoveCheckout \/ CloneCheckout \/ ValidateAndBuild \/ StopPublicProxy
               \/ CommitElements \/ ReadBack \/ TruncateBinding
      BY <3>1 DEF RemoveCheckout, CloneCheckout, ValidateAndBuild, StopPublicProxy, CommitElements,
                  ReadBack, TruncateBinding, ProxyClosed, ProjectMade, public
    <3>2. CASE CreateProject
      <4>1. Len(projects) \in Nat
        BY LenProperties DEF TypeOK
      <4> QED
        BY <3>2, <4>1 DEF CreateProject, ProxyClosed, ProjectMade, public
    <3>3. CASE WriteBinding \/ WriteStatus \/ RecreateAskViewer \/ WaitForAskViewer \/ OpenProxy
      BY <3>3 DEF WriteBinding, WriteStatus, RecreateAskViewer, WaitForAskViewer, OpenProxy,
                  ProxyClosed, ProjectMade, public
    <3> QED
      BY <1>5, <3>1, <3>2, <3>3 DEF ApiStep
  <2>2. ProjectWhole' /\ ProxyOpened'
    <3>1. CASE RemoveCheckout \/ CloneCheckout \/ ValidateAndBuild \/ StopPublicProxy
               \/ CommitElements \/ ReadBack \/ TruncateBinding
      BY <3>1 DEF RemoveCheckout, CloneCheckout, ValidateAndBuild, StopPublicProxy, CommitElements,
                  ReadBack, TruncateBinding, ProjectWhole, ProxyOpened, served
    <3>2. CASE CreateProject
      BY <3>2 DEF CreateProject, ProjectWhole, ProxyOpened
    <3>3. CASE WriteBinding \/ WriteStatus \/ RecreateAskViewer \/ WaitForAskViewer \/ OpenProxy
      BY <3>3 DEF WriteBinding, WriteStatus, RecreateAskViewer, WaitForAskViewer, OpenProxy,
                  ProjectWhole, ProxyOpened
    <3> QED
      BY <1>5, <3>1, <3>2, <3>3 DEF ApiStep
  <2>3. StatusPublished' /\ ViewerTold' /\ ViewerReads'
    <3> USE DEF StatusPublished, ViewerTold, ViewerReads, RevisionOf
    <3>1. CASE RemoveCheckout \/ CloneCheckout \/ ValidateAndBuild \/ StopPublicProxy
               \/ CommitElements \/ ReadBack \/ TruncateBinding
      BY <3>1 DEF RemoveCheckout, CloneCheckout, ValidateAndBuild, StopPublicProxy, CommitElements,
                  ReadBack, TruncateBinding
    <3>2. CASE CreateProject
      BY <3>2 DEF CreateProject
    <3>3. CASE WriteBinding \/ WriteStatus
      BY <3>3 DEF WriteBinding, WriteStatus
    <3>4. CASE RecreateAskViewer
      BY <3>4 DEF RecreateAskViewer, Started, served
    <3>5. CASE WaitForAskViewer \/ OpenProxy
      BY <3>5 DEF WaitForAskViewer, OpenProxy, served
    <3> QED
      BY <1>5, <3>1, <3>2, <3>3, <3>4, <3>5 DEF ApiStep
  <2> QED
    BY <1>1, <2>1, <2>2, <2>3
<1> QED
  BY <1>2, <1>3, <1>4, <1>5, ApiGoesOn, Zenon

(* Nothing is bound before its read-back, and a project stays whole.       *)
LEMMA BoundWholeStep ==
    ASSUME TypeOK, RunInv, ApiInv, BoundWhole, [Next]_vars
    PROVE  BoundWhole'
<1>1. /\ projects \in Seq([rev : Revisions, whole : BOOLEAN])
      /\ binding \in 0 .. Len(projects) /\ status \in 0 .. Len(projects)
      /\ run.project \in 0 .. Len(projects)
  BY DEF TypeOK
<1>2. Len(projects) \in Nat
  BY <1>1, LenProperties
<1>3. CASE UNCHANGED served
  BY <1>3 DEF BoundWhole, served
<1>4. CASE CreateProject
  <2>1. [rev |-> run.rev, whole |-> FALSE] \in [rev : Revisions, whole : BOOLEAN]
    BY <1>4, AtRun, RunTyped DEF CreateProject
  <2>2. \A p \in 1 .. Len(projects) : projects'[p] = projects[p]
    BY <1>1, <1>4, <2>1, AppendProperties DEF CreateProject
  <2> QED
    BY <1>1, <1>2, <1>4, <2>2 DEF CreateProject, BoundWhole
<1>5. CASE CommitElements
  <2>1. binding' = binding /\ status' = status
        /\ \/ projects' = projects
           \/ projects' = [projects EXCEPT ![run.project].whole = TRUE]
    BY <1>5 DEF CommitElements
  <2>2. \A p \in 1 .. Len(projects) : projects[p].whole => projects'[p].whole
    <3>1. CASE projects' = [projects EXCEPT ![run.project].whole = TRUE]
      <4>0. projects' = [projects EXCEPT ![run.project] = [projects[run.project] EXCEPT !.whole = TRUE]]
        BY <3>1, Zenon
      <4>1. \A p \in 1 .. Len(projects) :
                projects'[p] = IF p = run.project THEN [projects[p] EXCEPT !.whole = TRUE] ELSE projects[p]
        <5>1. DOMAIN projects = 1 .. Len(projects)
          BY <1>1, LenProperties
        <5> QED
          BY <4>0, <5>1
      <4>2. \A p \in 1 .. Len(projects) : projects[p] \in [rev : Revisions, whole : BOOLEAN]
        BY <1>1, ElementOfSeq
      <4> QED
        BY <4>1, <4>2
    <3> QED
      BY <2>1, <3>1
  <2> QED
    BY <1>1, <1>2, <2>1, <2>2 DEF BoundWhole
<1>6. CASE TruncateBinding \/ WriteStatus
  BY <1>6 DEF TruncateBinding, WriteStatus, BoundWhole
<1>7. CASE WriteBinding
  BY <1>7 DEF WriteBinding, BoundWhole, ApiInv, ProjectWhole, Api, At
<1> QED
  BY <1>3, <1>4, <1>5, <1>6, <1>7, Frames DEF ServedChanges

LEMMA OpenStep ==
    ASSUME TypeOK, RunInv, ApiInv, BoundWhole, OpenMeansPublished, [Next]_vars
    PROVE  OpenMeansPublished'
<1>1. (status # 0 => projects[status].whole)'
  BY BoundWholeStep DEF BoundWhole
<1>2. SUFFICES ASSUME (proxy /\ opened_by = "api")'
               PROVE  (binding = status /\ (viewer.place \in {"built", "ready"} => viewer.project = status))'
  BY <1>1, Zenon DEF OpenMeansPublished
<1>3. CASE OpenProxy
  <2>1. Api({"open"})
    BY <1>3 DEF OpenProxy, Api, At
  <2>2. binding = status /\ (viewer.place \in {"built", "ready"} => viewer.project = status)
    BY <2>1 DEF ApiInv, StatusPublished, ViewerReads, Api
  <2> QED
    BY <1>3, <2>2 DEF OpenProxy, served
<1>4. CASE UNCHANGED public
  <2>1. proxy /\ opened_by = "api"
    BY <1>2, <1>4 DEF public
  <2>2. binding = status /\ (viewer.place \in {"built", "ready"} => viewer.project = status)
    BY <2>1 DEF OpenMeansPublished
  <2>3. UNCHANGED served
    BY <2>1, Frames DEF ServedChanges, CreateProject, CommitElements, TruncateBinding, WriteBinding,
                        WriteStatus, ApiInv, ProxyClosed, Api, At
  <2>4. viewer'.place \in {"built", "ready"} =>
            \/ viewer.place \in {"built", "ready"} /\ viewer'.project = viewer.project
            \/ viewer'.project = binding
    <3>1. CASE ViewerStep \/ ViewerRestarts
      BY <3>1, ViewerGoesOn
    <3>2. CASE RecreateAskViewer \/ UpViewer \/ RemoveViewer \/ BringViewerUp
      BY <3>2 DEF RecreateAskViewer, UpViewer, RemoveViewer, BringViewerUp, Up, NoViewer, Started
    <3> QED
      BY <3>1, <3>2, Frames DEF ViewerChanges
  <2> QED
    BY <2>2, <2>3, <2>4 DEF served
<1>5. CASE StopPublicProxy \/ ReopenProxy \/ ReopenRolledBack
  BY <1>2, <1>5 DEF StopPublicProxy, ReopenProxy, ReopenRolledBack
<1> QED
  BY <1>3, <1>4, <1>5, Frames DEF PublicChanges

-----------------------------------------------------------------------------
(* The rollback.                                                           *)

LEMMA BackupIsBeforeStep ==
    ASSUME TypeOK, RunInv, BackupIsBefore, [Next]_vars
    PROVE  BackupIsBefore'
<1>0. /\ runs \in Nat /\ backup \in [Runs -> Runs \cup {0}]
      /\ (runs < MaxRuns => runs + 1 \in Runs) /\ \A a \in Runs : a > runs => backup[a] = 0
      /\ (run # NoRun => runs \in Runs)
  <2>1. runs \in 0 .. MaxRuns /\ backup \in [Runs -> Runs \cup {0}]
    BY DEF TypeOK
  <2> QED
    BY <2>1, RunTyped, DeploymentAssumption DEF RunInv, Runs
<1>1. ASSUME ~Ask(AskSteps \cup RollbackSteps)' PROVE BackupIsBefore'
  BY <1>1 DEF BackupIsBefore, Ask, AskSteps, RollbackSteps
<1>2. CASE /\ run'.step = "mark" /\ run'.before = checkout
           /\ runs < MaxRuns /\ runs' = runs + 1 /\ UNCHANGED host
  <2>1. backup'[runs'] = 0 /\ checkout' = run'.before
    BY <1>0, <1>2 DEF host
  <2> QED
    BY <2>1 DEF BackupIsBefore
<1>3. CASE /\ Ask(AskSteps \cup RollbackSteps)
           /\ UNCHANGED <<runs, host, served, public, viewer>>
           /\ run'.step = "roll-back" /\ run'.before = run.before
  BY <1>3 DEF BackupIsBefore, Ask, host
<1>4. CASE /\ UNCHANGED <<run, runs, host, served, public>>
           /\ UNCHANGED viewer \/ ViewerStep \/ ViewerRestarts
  BY <1>4 DEF BackupIsBefore, Ask, host
<1>5. CASE /\ AskStep
           /\ Ask(AskSteps \cup RollbackSteps) /\ runs' = runs
           /\ run'.rev = run.rev /\ run'.before = run.before
  <2>0. run # NoRun /\ runs \in Runs
    BY <1>0, <1>5 DEF Ask, NoRun
  <2>1. CASE MarkActivation
    BY <1>5, <2>1 DEF BackupIsBefore, MarkActivation, Ask, At
  <2>2. CASE SetAside
    <3>1. run'.step = "promote"
      BY <2>2, RunRecord DEF SetAside, Goto
    <3>2. checkout = run.before /\ checkout' = 0 /\ backup'[runs] = checkout
      BY <1>0, <2>0, <2>2 DEF BackupIsBefore, SetAside, Ask, At
    <3> QED
      BY <1>5, <3>1, <3>2 DEF BackupIsBefore, Ask
  <2>3. CASE Promote
    <3>1. run'.step = "up"
      BY <2>3, RunRecord DEF Promote, Goto
    <3> QED
      BY <1>5, <2>3, <3>1 DEF BackupIsBefore, Promote, Ask
  <2>4. CASE RemoveBackup \/ RestoreBackup
    <3>1. run'.step \in {"unmark", "bring-up"}
      BY <2>4, RunRecord DEF RemoveBackup, RestoreBackup, Goto
    <3>2. backup'[runs] = 0
      BY <1>0, <2>0, <2>4 DEF RemoveBackup, RestoreBackup
    <3> QED
      BY <1>5, <3>1, <3>2 DEF BackupIsBefore, Ask
  <2>5. CASE DiscardCheckout
    <3>1. run'.step = "restore"
      BY <2>5, RunRecord DEF DiscardCheckout, Goto
    <3> QED
      BY <1>5, <2>5, <3>1 DEF BackupIsBefore, DiscardCheckout, Ask
  <2>6. CASE UpViewer \/ PollWarmup \/ ReopenProxy \/ VerifyPublicAsk \/ BeginRollback
             \/ RemoveViewer \/ BringViewerUp \/ ReopenRolledBack
    <3>1. run'.step \notin {"mark", "set-aside"}
      BY <2>6, RunRecord DEF UpViewer, PollWarmup, ReopenProxy, VerifyPublicAsk, BeginRollback,
                             RemoveViewer, BringViewerUp, ReopenRolledBack, Goto
    <3>2. UNCHANGED host
      BY <2>6 DEF UpViewer, PollWarmup, ReopenProxy, VerifyPublicAsk, BeginRollback,
                  RemoveViewer, BringViewerUp, ReopenRolledBack
    <3> QED
      BY <1>5, <3>1, <3>2 DEF BackupIsBefore, Ask, host
  <2>7. CASE RemoveMarker \/ RefuseRollback \/ ForgetMarker
    BY <1>1, <2>7 DEF RemoveMarker, RefuseRollback, ForgetMarker, End, NoRun, Ask
  <2> QED
    BY <1>5, <2>1, <2>2, <2>3, <2>4, <2>5, <2>6, <2>7, Zenon DEF AskStep, Rollback
<1> QED
  BY <1>1, <1>2, <1>3, <1>4, <1>5, AskGoesOn, Zenon

LEMMA BackupStandsStep ==
    ASSUME TypeOK, RunInv, BackupIsBefore, BackupStands, [Next]_vars
    PROVE  BackupStands'
<1> USE RunRecord DEF BackupStands, Ask, HeadOf
<1>0. /\ runs \in Nat /\ backup \in [Runs -> Runs \cup {0}] /\ dirs \in [Runs -> Revisions \cup {0}]
      /\ run.before \in Runs \cup {0} /\ (run # NoRun => run.before < runs)
  BY DeploymentAssumption DEF TypeOK, RunInv
<1>1. ASSUME ~Ask(AskSteps \cup RollbackSteps)' PROVE BackupStands'
  BY <1>1 DEF RollbackSteps
<1>2. CASE run'.step \in {"mark", "roll-back"}
  BY <1>2
<1>4. CASE /\ UNCHANGED <<run, runs, host, served, public>>
           /\ UNCHANGED viewer \/ ViewerStep \/ ViewerRestarts
  BY <1>4 DEF host
<1>5. CASE /\ AskStep
           /\ Ask(AskSteps \cup RollbackSteps) /\ runs' = runs
           /\ run'.rev = run.rev /\ run'.before = run.before
  <2>1. CASE BeginRollback
    <3>1. backup[runs] # 0 /\ HeadOf(backup[runs]) # 0 /\ backup[runs] = run.before
      BY <2>1 DEF BeginRollback, Owned, BackupIsBefore, At, RollbackSteps
    <3> QED
      BY <1>5, <2>1, <3>1 DEF BeginRollback, host
  <2>2. CASE RemoveViewer
    BY <1>5, <2>2 DEF RemoveViewer, At, host
  <2>3. CASE DiscardCheckout
    <3>1. backup[runs] # 0 /\ HeadOf(run.before) # 0 /\ run # NoRun
      BY <2>3 DEF DiscardCheckout, At, NoRun
    <3>2. checkout \in {0, runs}
      BY <2>3, <3>1 DEF DiscardCheckout, BackupIsBefore, At, RollbackSteps
    <3>3. run.before \in Runs => dirs'[run.before] = dirs[run.before]
      BY <1>0, <2>3, <3>1, <3>2 DEF DiscardCheckout
    <3>4. run.before = 0 \/ run.before \in Runs
      BY <1>0
    <3> QED
      BY <1>5, <2>3, <3>1, <3>3, <3>4 DEF DiscardCheckout
  <2>4. CASE MarkActivation \/ SetAside \/ Promote \/ UpViewer \/ PollWarmup \/ ReopenProxy
             \/ VerifyPublicAsk \/ RemoveBackup
    BY <2>4 DEF MarkActivation, SetAside, Promote, UpViewer, PollWarmup, ReopenProxy,
                VerifyPublicAsk, RemoveBackup, Goto
  <2>5. CASE RestoreBackup \/ BringViewerUp \/ ReopenRolledBack
    BY <2>5 DEF RestoreBackup, BringViewerUp, ReopenRolledBack, Goto
  <2>6. CASE RemoveMarker \/ RefuseRollback \/ ForgetMarker
    BY <2>6 DEF RemoveMarker, RefuseRollback, ForgetMarker, End, NoRun
  <2> QED
    BY <1>5, <2>1, <2>2, <2>3, <2>4, <2>5, <2>6, Zenon DEF AskStep, Rollback
<1> QED
  BY <1>1, <1>2, <1>4, <1>5, AskGoesOn

LEMMA RestoredStep ==
    ASSUME TypeOK, RunInv, RollbackInv, [Next]_vars
    PROVE  BackupRestored' /\ ViewerRestored'
<1> USE RunRecord DEF BackupRestored, ViewerRestored, Ask, HeadOf
<1>0. runs \in Runs \/ runs = 0
  BY DeploymentAssumption DEF TypeOK, Runs
<1>1. ASSUME ~Ask(AskSteps \cup RollbackSteps)' PROVE BackupRestored' /\ ViewerRestored'
  BY <1>1 DEF RollbackSteps
<1>2. CASE run'.step \in {"mark", "roll-back"}
  BY <1>2
<1>4. CASE /\ UNCHANGED <<run, runs, host, served, public>>
           /\ UNCHANGED viewer \/ ViewerStep \/ ViewerRestarts
  <2>1. viewer'.app = viewer.app
    BY <1>4, ViewerGoesOn
  <2> QED
    BY <1>4, <2>1 DEF host, RollbackInv
<1>5. CASE /\ AskStep
           /\ Ask(AskSteps \cup RollbackSteps) /\ runs' = runs
           /\ run'.rev = run.rev /\ run'.before = run.before
  <2>1. CASE RestoreBackup
    <3>1. backup[runs] # 0 /\ HeadOf(run.before) # 0 /\ backup[runs] = run.before
      BY <2>1 DEF RestoreBackup, RollbackInv, BackupStands, BackupIsBefore, At, RollbackSteps
    <3>2. run'.step = "bring-up"
      BY <2>1 DEF RestoreBackup, Goto
    <3> QED
      BY <1>5, <2>1, <3>1, <3>2 DEF RestoreBackup
  <2>2. CASE BringViewerUp
    BY <1>5, <2>2 DEF BringViewerUp, Up, Started, At, host, RollbackInv
  <2>3. CASE ReopenRolledBack
    BY <1>5, <2>3 DEF ReopenRolledBack, At, host, RollbackInv
  <2>4. CASE MarkActivation \/ SetAside \/ Promote \/ UpViewer \/ PollWarmup \/ ReopenProxy
             \/ VerifyPublicAsk \/ RemoveBackup
    BY <2>4 DEF MarkActivation, SetAside, Promote, UpViewer, PollWarmup, ReopenProxy,
                VerifyPublicAsk, RemoveBackup, Goto
  <2>5. CASE BeginRollback \/ RemoveViewer \/ DiscardCheckout
    BY <2>5 DEF BeginRollback, RemoveViewer, DiscardCheckout, Goto
  <2>6. CASE RemoveMarker \/ RefuseRollback \/ ForgetMarker
    BY <2>6 DEF RemoveMarker, RefuseRollback, ForgetMarker, End, NoRun
  <2> QED
    BY <1>5, <2>1, <2>2, <2>3, <2>4, <2>5, <2>6, Zenon DEF AskStep, Rollback
<1> QED
  BY <1>1, <1>2, <1>4, <1>5, AskGoesOn

-----------------------------------------------------------------------------
(* The theorems.                                                           *)

LEMMA DeploymentInit == Init => DeploymentInv
<1> SUFFICES ASSUME Init PROVE DeploymentInv
  OBVIOUS
<1>1. /\ \A p \in 0 .. Len(<< >>) : p = 0
      /\ << >> \in Seq([rev : Revisions, whole : BOOLEAN]) /\ 0 \in 0 .. Len(<< >>)
  OBVIOUS
<1>2. TypeOK
  <2>1. /\ projects = << >> /\ Len(projects) = 0 /\ 0 \in 0 .. MaxRuns /\ 0 \in 0 .. MaxFaults
    BY DeploymentAssumption DEF Init
  <2>2. /\ viewer = NoViewer /\ run = NoRun
        /\ NoViewer \in [place : Places, app : Revisions \cup {0}, mount : Runs \cup {0},
                         expected : Revisions \cup {0}, project : 0 .. Len(projects)]
        /\ NoRun \in [kind : {"none", "api", "ask"},
                      step : {"none"} \cup ApiSteps \cup AskSteps \cup RollbackSteps,
                      rev : Revisions \cup {0}, project : 0 .. Len(projects), before : Runs \cup {0}]
    BY <2>1 DEF Init, NoRun, NoViewer, Places
  <2> QED
    BY <1>1, <2>1, <2>2 DEF TypeOK, Init
<1>3. RunInv
  BY <1>2, DeploymentAssumption DEF RunInv, Init, NoRun, TypeOK, Runs
<1>4. ApiInv /\ RollbackInv
  BY DEF Init, NoRun, Api, Ask, ApiInv, CheckedOut, ProxyClosed, ProjectMade, ProjectWhole,
         StatusPublished, ViewerTold, ViewerReads, ProxyOpened,
         RollbackInv, BackupIsBefore, BackupStands, BackupRestored, ViewerRestored
<1>5. BoundWhole /\ OpenMeansPublished
  BY DEF Init, BoundWhole, OpenMeansPublished
<1> QED
  BY <1>2, <1>3, <1>4, <1>5 DEF DeploymentInv

LEMMA DeploymentStep == DeploymentInv /\ [Next]_vars => DeploymentInv'
<1> SUFFICES ASSUME DeploymentInv, [Next]_vars PROVE DeploymentInv'
  OBVIOUS
<1>1. /\ TypeOK /\ RunInv /\ ApiInv /\ BoundWhole /\ OpenMeansPublished /\ RollbackInv
      /\ ProjectMade /\ BackupIsBefore /\ BackupStands
  BY DEF DeploymentInv, ApiInv, RollbackInv
<1>2. RollbackInv'
  BY <1>1, BackupIsBeforeStep, BackupStandsStep, RestoredStep, Zenon DEF RollbackInv
<1> QED
  BY <1>1, <1>2, TypeStep, RunInvStep, ApiInvStep, BoundWholeStep, OpenStep, Zenon DEF DeploymentInv

LEMMA DeploymentInvariant == Spec => []DeploymentInv
<1> QED
  BY DeploymentInit, DeploymentStep, PTL DEF Spec

(* Every variable has its type: no step names a checkout or a project that *)
(* was never made, whatever is cut off or fails (the host of the two       *)
(* workflows and deploy.py).                                               *)
THEOREM DeploymentTypeCorrect == Spec => []TypeOK
<1>1. DeploymentInv => TypeOK
  BY DEF DeploymentInv
<1> QED
  BY <1>1, DeploymentInvariant, PTL

(* While the proxy is open as deploy.py opened it, the status document     *)
(* names a project that was read back whole, the binding is that of the    *)
(* document, and a viewer with its runtime answers from it, across any     *)
(* crash of a run and any restart of the viewer.                           *)
THEOREM OpenMeansPublishedCorrect == Spec => []OpenMeansPublished
<1>1. DeploymentInv => OpenMeansPublished
  BY DEF DeploymentInv
<1> QED
  BY <1>1, DeploymentInvariant, PTL

(* What the public verifier of deploy.py compares is enough: a deploy that *)
(* ends green serves its own revision, in the checkout, the status         *)
(* document, the binding and the viewer.                                   *)
THEOREM GreenDeployCorrect == Spec => GreenDeployServesItsRevision
<1>1. ASSUME DeploymentInv, [Next]_vars
      PROVE  (verdict # "green" /\ verdict' = "green" /\ run.kind = "api") =>
                /\ proxy /\ binding = status /\ RevisionOf(status) = run.rev
                /\ viewer.app = run.rev /\ viewer.project = status
                /\ HeadOf(checkout) = run.rev
  <2> SUFFICES ASSUME verdict # "green", verdict' = "green", run.kind = "api"
               PROVE  /\ proxy /\ binding = status /\ RevisionOf(status) = run.rev
                      /\ viewer.app = run.rev /\ viewer.project = status
                      /\ HeadOf(checkout) = run.rev
    OBVIOUS
  <2>1. VerifyPublicApi
    <3>1. ASSUME NEW r \in Revisions PROVE ~(StartApi(r) \/ StartAsk(r))
      BY DEF StartApi, StartAsk, Start
    <3>2. ~(RemoveCheckout \/ CloneCheckout \/ ValidateAndBuild \/ StopPublicProxy \/ CreateProject
            \/ CommitElements \/ ReadBack)
      BY DEF RemoveCheckout, CloneCheckout, ValidateAndBuild, StopPublicProxy, CreateProject,
             CommitElements, ReadBack
    <3>3. ~(TruncateBinding \/ WriteBinding \/ WriteStatus \/ RecreateAskViewer \/ WaitForAskViewer
            \/ OpenProxy)
      BY DEF TruncateBinding, WriteBinding, WriteStatus, RecreateAskViewer, WaitForAskViewer, OpenProxy
    <3>4. ~AskStep
      BY DEF AskStep, MarkActivation, SetAside, Promote, UpViewer, PollWarmup, ReopenProxy,
             VerifyPublicAsk, RemoveBackup, RemoveMarker, Rollback, RefuseRollback, BeginRollback,
             RemoveViewer, DiscardCheckout, RestoreBackup, BringViewerUp, ReopenRolledBack,
             ForgetMarker, At
    <3>5. ~StepFails /\ ~CutOff /\ ~UNCHANGED vars
      BY DEF StepFails, CutOff, End, vars
    <3>6. ~ViewerStep /\ ~ViewerRestarts
      BY DEF ViewerStep, Entrypoint, BuildRuntime, LoadCorpus, ViewerRestarts, ci
    <3> QED
      BY <1>1, <3>1, <3>2, <3>3, <3>4, <3>5, <3>6, Zenon DEF Next, ApiStep
  <2>2. Api({"verify"}) /\ status # 0 /\ viewer.place = "ready"
    BY <2>1 DEF VerifyPublicApi, ServesTheDeployment, Api, At
  <2>3. proxy /\ opened_by = "api"
    BY <1>1, <2>2 DEF DeploymentInv, ApiInv, ProxyOpened
  <2>4. binding = status /\ RevisionOf(status) = run.rev /\ viewer.app = run.rev
        /\ HeadOf(checkout) = run.rev
    BY <1>1, <2>2 DEF DeploymentInv, ApiInv, StatusPublished, ViewerTold, CheckedOut, Api, ApiSteps
  <2>5. viewer.project = status
    BY <1>1, <2>2, <2>3 DEF DeploymentInv, OpenMeansPublished
  <2> QED
    BY <2>3, <2>4, <2>5
<1> QED
  BY <1>1, DeploymentInvariant, PTL DEF Spec, GreenDeployServesItsRevision

(* A rollback that reports success put back the checkout the run found,    *)
(* which still is there, and a viewer that was told its revision.          *)
THEOREM RollbackCorrect == Spec => RolledBackIsRestored
<1>1. ASSUME DeploymentInv, [Next]_vars
      PROVE  (verdict # "rolled-back" /\ verdict' = "rolled-back") =>
                /\ checkout = run.before /\ HeadOf(checkout) # 0
                /\ viewer.app = HeadOf(checkout)
  <2> SUFFICES ASSUME verdict # "rolled-back", verdict' = "rolled-back"
               PROVE  /\ checkout = run.before /\ HeadOf(checkout) # 0
                      /\ viewer.app = HeadOf(checkout)
    OBVIOUS
  <2>1. ForgetMarker
    <3>1. ASSUME NEW r \in Revisions PROVE ~(StartApi(r) \/ StartAsk(r))
      BY DEF StartApi, StartAsk, Start
    <3>2. ~(RemoveCheckout \/ CloneCheckout \/ ValidateAndBuild \/ StopPublicProxy \/ CreateProject
            \/ CommitElements \/ ReadBack)
      BY DEF RemoveCheckout, CloneCheckout, ValidateAndBuild, StopPublicProxy, CreateProject,
             CommitElements, ReadBack
    <3>3. ~(TruncateBinding \/ WriteBinding \/ WriteStatus \/ RecreateAskViewer \/ WaitForAskViewer
            \/ OpenProxy \/ VerifyPublicApi)
      BY DEF TruncateBinding, WriteBinding, WriteStatus, RecreateAskViewer, WaitForAskViewer, OpenProxy,
             VerifyPublicApi, End
    <3>4. ~(MarkActivation \/ SetAside \/ Promote \/ UpViewer \/ PollWarmup \/ ReopenProxy
            \/ VerifyPublicAsk \/ RemoveBackup \/ RemoveMarker)
      BY DEF MarkActivation, SetAside, Promote, UpViewer, PollWarmup, ReopenProxy,
             VerifyPublicAsk, RemoveBackup, RemoveMarker, End
    <3>5. ~(RefuseRollback \/ BeginRollback \/ RemoveViewer \/ DiscardCheckout \/ RestoreBackup
            \/ BringViewerUp \/ ReopenRolledBack)
      BY DEF RefuseRollback, BeginRollback, RemoveViewer, DiscardCheckout, RestoreBackup,
             BringViewerUp, ReopenRolledBack, End
    <3>6. ~StepFails /\ ~CutOff /\ ~UNCHANGED vars
      BY DEF StepFails, CutOff, End, vars
    <3>7. ~ViewerStep /\ ~ViewerRestarts
      BY DEF ViewerStep, Entrypoint, BuildRuntime, LoadCorpus, ViewerRestarts, ci
    <3> QED
      BY <1>1, <3>1, <3>2, <3>3, <3>4, <3>5, <3>6, <3>7, Zenon DEF Next, ApiStep, AskStep, Rollback
  <2>2. Ask({"forget"})
    BY <2>1 DEF ForgetMarker, Ask, At
  <2> QED
    BY <1>1, <2>2 DEF DeploymentInv, RollbackInv, BackupRestored, ViewerRestored, Ask
<1> QED
  BY <1>1, DeploymentInvariant, PTL DEF Spec, RolledBackIsRestored

=============================================================================
