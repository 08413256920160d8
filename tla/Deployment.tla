----------------------------- MODULE Deployment -----------------------------
(***************************************************************************)
(* The public deployment: one host, two workflows.                         *)
(*                                                                         *)
(* The API workflow clones a revision, and deploy.py closes the public     *)
(* proxy, imports the validated export, publishes the status document,     *)
(* recreates the Ask viewer and opens the proxy.  The Ask workflow         *)
(* replaces the checkout and the viewer only, and rolls back what it did.  *)
(* Both can fail or be cut off before any step; the viewer can restart     *)
(* at any time.  Docker, GitHub and the API server are external.           *)
(***************************************************************************)
EXTENDS Naturals, Sequences

CONSTANTS
    Revisions,   \* the commits of main, numbered in its history
    Model,       \* Model[r]: the governed model text of revision r
    MaxRuns,     \* bound: runs of a workflow
    MaxFaults    \* bound: steps that fail, runs cut off, viewer exits

ASSUME DeploymentAssumption ==
    /\ Revisions \subseteq Nat \ {0}
    /\ MaxRuns \in Nat
    /\ MaxFaults \in Nat

VARIABLES
    dirs,      \* dirs[a]: the revision in the checkout that run a made, 0: gone
    checkout,  \* the run whose checkout is at /srv/de4sdv/DE4SDV, 0: none
    backup,    \* backup[a]: the checkout that Ask run a set aside, 0: none
    marked,    \* the Ask runs whose activation marker exists
    ask_env,   \* ask-viewer.env exists
    projects,  \* the projects of the API repository
    binding,   \* the project of the revision binding, 0: none is readable
    status,    \* the project of deployment-status.json, 0: none
    proxy,     \* Caddy is up
    opened_by, \* the workflow that started Caddy last
    viewer,    \* the ask-viewer container
    run,       \* the workflow run in progress; before: the checkout it found
    runs,      \* runs so far
    verdict,   \* how the last run ended
    faults     \* faults so far

host == <<dirs, checkout, backup, marked, ask_env>>
served == <<projects, binding, status>>
public == <<proxy, opened_by>>
ci == <<run, runs, verdict>>
vars == <<dirs, checkout, backup, marked, ask_env, projects, binding, status,
          proxy, opened_by, viewer, run, runs, verdict, faults>>

Runs == 1 .. MaxRuns

ApiSteps == {"remove", "clone", "build", "stop", "project", "commit", "read-back",
             "truncate", "bind", "publish", "recreate", "wait", "open", "verify"}
AskSteps == {"mark", "set-aside", "promote", "up", "poll", "reopen", "verify",
             "clean-up", "unmark"}
RollbackSteps == {"roll-back", "remove-viewer", "discard", "restore", "bring-up",
                  "reopen-rolled-back", "forget"}

Places == {"gone", "starting", "refused", "up", "built", "ready", "invalid", "error"}

NoRun == [kind |-> "none", step |-> "none", rev |-> 0, project |-> 0, before |-> 0]
NoViewer == [place |-> "gone", app |-> 0, mount |-> 0, expected |-> 0, project |-> 0]

Started(a, rev) == [place |-> "starting", app |-> rev, mount |-> a,
                    expected |-> 0, project |-> 0]

(* git rev-parse HEAD in the checkout of run a, 0 when there is none. *)
HeadOf(a) == IF a = 0 THEN 0 ELSE dirs[a]
(* Compose recreates a container only when its image or environment changed. *)
Up(rev) ==
    \/ viewer' = Started(checkout, rev)
    \/ viewer.place # "gone" /\ viewer.app = rev /\ UNCHANGED viewer

(* The commit a project was imported from. *)
RevisionOf(p) == IF p = 0 THEN 0 ELSE projects[p].rev

Init ==
    /\ dirs = [a \in Runs |-> 0]
    /\ checkout = 0
    /\ backup = [a \in Runs |-> 0]
    /\ marked = {}
    /\ ask_env = FALSE
    /\ projects = << >>
    /\ binding = 0
    /\ status = 0
    /\ proxy = FALSE
    /\ opened_by = "none"
    /\ viewer = NoViewer
    /\ run = NoRun
    /\ runs = 0
    /\ verdict = "none"
    /\ faults = 0

-----------------------------------------------------------------------------
(* The runs.  Both workflows are in one concurrency group: one at a time.  *)

Start(kind, first, r) ==
    /\ run = NoRun
    /\ runs < MaxRuns
    /\ runs' = runs + 1
    /\ run' = [kind |-> kind, step |-> first, rev |-> r, project |-> 0,
               before |-> checkout]
    /\ verdict' = "none"
    /\ UNCHANGED <<host, served, public, viewer, faults>>

StartApi(r) == Start("api", "remove", r)
StartAsk(r) == Start("ask", "mark", r)

At(kind, step) == run.kind = kind /\ run.step = step
Goto(step) == run' = [run EXCEPT !.step = step]
End(how) == run' = NoRun /\ verdict' = how

Fault == faults < MaxFaults /\ faults' = faults + 1

-----------------------------------------------------------------------------
(* The API workflow and deploy.py.                                         *)

RemoveCheckout ==
    /\ At("api", "remove")
    /\ dirs' = IF checkout = 0 THEN dirs ELSE [dirs EXCEPT ![checkout] = 0]
    /\ checkout' = 0
    /\ Goto("clone")
    /\ UNCHANGED <<backup, marked, ask_env, served, public, viewer, runs, verdict, faults>>

CloneCheckout ==
    /\ At("api", "clone")
    /\ dirs' = [dirs EXCEPT ![runs] = run.rev]
    /\ checkout' = runs
    /\ Goto("build")
    /\ UNCHANGED <<backup, marked, ask_env, served, public, viewer, runs, verdict, faults>>

(* validate_bundle, validate_repo_head and the image: nothing changes yet. *)
ValidateAndBuild ==
    /\ At("api", "build")
    /\ HeadOf(checkout) = run.rev
    /\ Goto("stop")
    /\ UNCHANGED <<host, served, public, viewer, runs, verdict, faults>>

\* Mutant: the import runs behind an open proxy.
StopNothing ==
    /\ At("api", "stop")
    /\ Goto("project")
    /\ UNCHANGED <<host, served, public, viewer, runs, verdict, faults>>

StopPublicProxy ==
    /\ At("api", "stop")
    /\ proxy' = FALSE
    /\ Goto("project")
    /\ UNCHANGED <<host, served, opened_by, viewer, runs, verdict, faults>>

CreateProject ==
    /\ At("api", "project")
    /\ projects' = Append(projects, [rev |-> run.rev, whole |-> FALSE])
    /\ run' = [run EXCEPT !.step = "commit", !.project = Len(projects) + 1]
    /\ UNCHANGED <<host, binding, status, public, viewer, runs, verdict, faults>>

(* What the repository keeps of a commit can differ from what was sent. *)
CommitElements ==
    /\ At("api", "commit")
    /\ \/ projects' = [projects EXCEPT ![run.project].whole = TRUE] /\ UNCHANGED faults
       \/ Fault /\ UNCHANGED projects
    /\ Goto("read-back")
    /\ UNCHANGED <<host, binding, status, public, viewer, runs, verdict>>

\* Mutant: the repository is trusted to keep what was sent.
ReadBackNothing ==
    /\ At("api", "read-back")
    /\ Goto("truncate")
    /\ UNCHANGED <<host, served, public, viewer, runs, verdict, faults>>

(* The full-payload read-back, and the checks of run_import before it writes. *)
ReadBack ==
    /\ At("api", "read-back")
    /\ projects[run.project].whole
    /\ Goto("truncate")
    /\ UNCHANGED <<host, served, public, viewer, runs, verdict, faults>>

ReadBackDiffers == At("api", "read-back") /\ ~projects[run.project].whole

(* _write_json truncates the binding the viewer has mounted, then writes it. *)
TruncateBinding ==
    /\ At("api", "truncate")
    /\ binding' = 0
    /\ Goto("bind")
    /\ UNCHANGED <<host, projects, status, public, viewer, runs, verdict, faults>>

WriteBinding ==
    /\ At("api", "bind")
    /\ binding' = run.project
    /\ Goto("publish")
    /\ UNCHANGED <<host, projects, status, public, viewer, runs, verdict, faults>>

WriteStatus ==
    /\ At("api", "publish")
    /\ RevisionOf(binding) = run.rev
    /\ status' = binding
    /\ Goto("recreate")
    /\ UNCHANGED <<host, projects, binding, public, viewer, runs, verdict, faults>>

\* Mutant: "up" without --force-recreate.
RecreateWhenChanged ==
    /\ At("api", "recreate")
    /\ ask_env
    /\ Up(run.rev)
    /\ Goto("wait")
    /\ UNCHANGED <<host, served, public, runs, verdict, faults>>

(* Compose refuses an env_file that does not exist. *)
RecreateAskViewer ==
    /\ At("api", "recreate")
    /\ ask_env
    /\ viewer' = Started(checkout, run.rev)
    /\ Goto("wait")
    /\ UNCHANGED <<host, served, public, runs, verdict, faults>>

EnvFileMissing == At("api", "recreate") /\ ~ask_env

Healthy == viewer.place \in {"up", "built", "ready", "invalid", "error"}

WaitForAskViewer ==
    /\ At("api", "wait")
    /\ Healthy
    /\ Goto("open")
    /\ UNCHANGED <<host, served, public, viewer, runs, verdict, faults>>

NeverHealthy == At("api", "wait") /\ viewer.place = "refused"

OpenProxy ==
    /\ At("api", "open")
    /\ proxy' = TRUE
    /\ opened_by' = "api"
    /\ Goto("verify")
    /\ UNCHANGED <<host, served, viewer, runs, verdict, faults>>

-----------------------------------------------------------------------------
(* The verifiers: what they read is public.                                *)

ServesTheDeployment ==
    /\ proxy
    /\ status # 0
    /\ viewer.place = "ready"
    /\ Model[RevisionOf(viewer.project)] = Model[RevisionOf(status)]

VerifyPublicApi ==
    /\ At("api", "verify")
    /\ ServesTheDeployment
    /\ End("green")
    /\ UNCHANGED <<host, served, public, viewer, runs, faults>>

AskServesTheRun ==
    /\ ServesTheDeployment
    /\ viewer.app = run.rev
    /\ RevisionOf(viewer.project) = RevisionOf(status)

VerifyPublicAsk ==
    /\ At("ask", "verify")
    /\ AskServesTheRun
    /\ Goto("clean-up")
    /\ UNCHANGED <<host, served, public, viewer, runs, verdict, faults>>

SemanticsFailed == viewer.place \in {"refused", "invalid", "error"}

(* The verifier of the API polls the viewer, that of Ask looks once.       *)
VerificationFails ==
    \/ At("api", "verify") /\ (SemanticsFailed \/ (viewer.place = "ready" /\ ~ServesTheDeployment))
    \/ At("ask", "verify") /\ ~AskServesTheRun

-----------------------------------------------------------------------------
(* The Ask workflow.                                                       *)

MarkActivation ==
    /\ At("ask", "mark")
    /\ dirs' = [dirs EXCEPT ![runs] = run.rev]
    /\ marked' = marked \cup {runs}
    /\ ask_env' = TRUE
    /\ Goto("set-aside")
    /\ UNCHANGED <<checkout, backup, served, public, viewer, runs, verdict, faults>>

SetAside ==
    /\ At("ask", "set-aside")
    /\ checkout # 0
    /\ backup' = [backup EXCEPT ![runs] = checkout]
    /\ checkout' = 0
    /\ Goto("promote")
    /\ UNCHANGED <<dirs, marked, ask_env, served, public, viewer, runs, verdict, faults>>

NothingToSetAside == At("ask", "set-aside") /\ checkout = 0

Promote ==
    /\ At("ask", "promote")
    /\ checkout' = runs
    /\ Goto("up")
    /\ UNCHANGED <<dirs, backup, marked, ask_env, served, public, viewer, runs, verdict, faults>>

UpViewer ==
    /\ At("ask", "up")
    /\ Up(run.rev)
    /\ Goto("poll")
    /\ UNCHANGED <<host, served, public, runs, verdict, faults>>

PollWarmup ==
    /\ At("ask", "poll")
    /\ viewer.place = "ready"
    /\ Goto("reopen")
    /\ UNCHANGED <<host, served, public, viewer, runs, verdict, faults>>

WarmupFails == At("ask", "poll") /\ SemanticsFailed

ReopenProxy ==
    /\ At("ask", "reopen")
    /\ proxy' = TRUE
    /\ opened_by' = "ask"
    /\ Goto("verify")
    /\ UNCHANGED <<host, served, viewer, runs, verdict, faults>>

RemoveBackup ==
    /\ At("ask", "clean-up")
    /\ dirs' = [dirs EXCEPT ![backup[runs]] = 0]
    /\ backup' = [backup EXCEPT ![runs] = 0]
    /\ Goto("unmark")
    /\ UNCHANGED <<checkout, marked, ask_env, served, public, viewer, runs, verdict, faults>>

RemoveMarker ==
    /\ At("ask", "unmark")
    /\ marked' = marked \ {runs}
    /\ End("green")
    /\ UNCHANGED <<dirs, checkout, backup, ask_env, served, public, viewer, runs, faults>>

-----------------------------------------------------------------------------
(* The rollback of the Ask workflow.                                       *)

Owned == backup[runs] # 0 /\ HeadOf(backup[runs]) # 0 /\ runs \in marked

(* Nothing of this run to undo, or a checkout that is not of this run. *)
RefuseRollback ==
    /\ At("ask", "roll-back")
    /\ ~Owned \/ (checkout # 0 /\ HeadOf(checkout) # run.rev)
    /\ End("red")
    /\ UNCHANGED <<host, served, public, viewer, runs, faults>>

BeginRollback ==
    /\ At("ask", "roll-back")
    /\ Owned
    /\ checkout # 0 => HeadOf(checkout) = run.rev
    /\ Goto("remove-viewer")
    /\ UNCHANGED <<host, served, public, viewer, runs, verdict, faults>>

(* "|| true": without the compose file of a checkout it removes nothing. *)
RemoveViewer ==
    /\ At("ask", "remove-viewer")
    /\ viewer' = IF checkout = 0 THEN viewer ELSE NoViewer
    /\ Goto("discard")
    /\ UNCHANGED <<host, served, public, runs, verdict, faults>>

DiscardCheckout ==
    /\ At("ask", "discard")
    /\ dirs' = IF checkout = 0 THEN dirs ELSE [dirs EXCEPT ![checkout] = 0]
    /\ checkout' = 0
    /\ Goto("restore")
    /\ UNCHANGED <<backup, marked, ask_env, served, public, viewer, runs, verdict, faults>>

RestoreBackup ==
    /\ At("ask", "restore")
    /\ checkout' = backup[runs]
    /\ backup' = [backup EXCEPT ![runs] = 0]
    /\ Goto("bring-up")
    /\ UNCHANGED <<dirs, marked, ask_env, served, public, viewer, runs, verdict, faults>>

\* Mutant: the viewer is told the revision that was rolled back.
BringViewerUpAsDeployed ==
    /\ At("ask", "bring-up")
    /\ Up(run.rev)
    /\ Goto("reopen-rolled-back")
    /\ UNCHANGED <<host, served, public, runs, verdict, faults>>

BringViewerUp ==
    /\ At("ask", "bring-up")
    /\ Up(HeadOf(checkout))
    /\ Goto("reopen-rolled-back")
    /\ UNCHANGED <<host, served, public, runs, verdict, faults>>

ReopenRolledBack ==
    /\ At("ask", "reopen-rolled-back")
    /\ proxy' = TRUE
    /\ opened_by' = "rollback"
    /\ Goto("forget")
    /\ UNCHANGED <<host, served, viewer, runs, verdict, faults>>

ForgetMarker ==
    /\ At("ask", "forget")
    /\ marked' = marked \ {runs}
    /\ End("rolled-back")
    /\ UNCHANGED <<dirs, checkout, backup, ask_env, served, public, viewer, runs, faults>>

Rollback == RefuseRollback \/ BeginRollback \/ RemoveViewer \/ DiscardCheckout
            \/ RestoreBackup \/ BringViewerUp \/ ReopenRolledBack \/ ForgetMarker

-----------------------------------------------------------------------------
(* Failures.                                                               *)

Refused == \/ ReadBackDiffers \/ EnvFileMissing \/ NeverHealthy
           \/ NothingToSetAside \/ WarmupFails \/ VerificationFails

(* A failed step ends an API run, and sends an Ask run to its rollback, the *)
(* removal of the backup after the verification included.                   *)
StepFails ==
    /\ run # NoRun
    /\ run.step \notin RollbackSteps
    /\ IF Refused THEN UNCHANGED faults ELSE Fault
    /\ IF run.kind = "ask"
       THEN Goto("roll-back") /\ UNCHANGED verdict
       ELSE End("red")
    /\ UNCHANGED <<host, served, public, viewer, runs>>

(* A run cut off (a cancelled job, a lost connection) leaves all as it is. *)
CutOff ==
    /\ run # NoRun
    /\ Fault
    /\ End("red")
    /\ UNCHANGED <<host, served, public, viewer, runs>>

-----------------------------------------------------------------------------
(* The viewer container.                                                   *)

Compatible(m, a) == m # 0 /\ a # 0 /\ m <= a /\ Model[m] = Model[a]

(* validate_runtime_contract: it reads the binding and the mounted checkout. *)
Entrypoint ==
    /\ viewer.place = "starting"
    /\ viewer' = IF /\ HeadOf(viewer.mount) = viewer.app
                    /\ Compatible(RevisionOf(binding), viewer.app)
                 THEN [viewer EXCEPT !.place = "up", !.expected = RevisionOf(binding)]
                 ELSE [viewer EXCEPT !.place = "refused"]
    /\ UNCHANGED <<host, served, public, ci, faults>>

(* verify_startup reads both again, in the process the entry point became. *)
BuildRuntime ==
    /\ viewer.place = "up"
    /\ viewer' = IF /\ HeadOf(viewer.mount) = viewer.app
                    /\ RevisionOf(binding) = viewer.expected
                    /\ Compatible(viewer.expected, viewer.app)
                 THEN [viewer EXCEPT !.place = "built", !.project = binding]
                 ELSE [viewer EXCEPT !.place = "invalid"]
    /\ UNCHANGED <<host, served, public, ci, faults>>

(* The corpus is adopted only when it is the export the binding records. *)
LoadCorpus ==
    /\ viewer.place = "built"
    /\ \/ /\ projects[viewer.project].whole
          /\ viewer' = [viewer EXCEPT !.place = "ready"]
          /\ UNCHANGED faults
       \/ viewer' = [viewer EXCEPT !.place = "error"] /\ Fault
    /\ UNCHANGED <<host, served, public, ci>>

(* Docker restarts it ("unless-stopped"), with the checkout of that moment. *)
ViewerRestarts ==
    /\ viewer.place \notin {"gone", "starting"}
    /\ viewer' = Started(checkout, viewer.app)
    /\ IF viewer.place = "refused" THEN UNCHANGED faults ELSE Fault
    /\ UNCHANGED <<host, served, public, ci>>

-----------------------------------------------------------------------------
ApiStep == RemoveCheckout \/ CloneCheckout \/ ValidateAndBuild \/ StopPublicProxy
           \/ CreateProject \/ CommitElements \/ ReadBack \/ TruncateBinding
           \/ WriteBinding \/ WriteStatus \/ RecreateAskViewer \/ WaitForAskViewer
           \/ OpenProxy \/ VerifyPublicApi
AskStep == MarkActivation \/ SetAside \/ Promote \/ UpViewer \/ PollWarmup
           \/ ReopenProxy \/ VerifyPublicAsk \/ RemoveBackup \/ RemoveMarker \/ Rollback
ViewerStep == Entrypoint \/ BuildRuntime \/ LoadCorpus

Next ==
    \/ \E r \in Revisions : StartApi(r) \/ StartAsk(r)
    \/ ApiStep \/ AskStep \/ StepFails \/ CutOff
    \/ ViewerStep \/ ViewerRestarts

Spec == Init /\ [][Next]_vars

(* A run goes on or fails, and the viewer's start goes on or is refused. *)
FairSpec == Spec /\ WF_vars(ApiStep \/ AskStep \/ StepFails) /\ WF_vars(ViewerStep)

-----------------------------------------------------------------------------
(* Properties.                                                             *)

(* Every variable has its type; every project named exists.                *)
TypeOK ==
    /\ dirs \in [Runs -> Revisions \cup {0}]
    /\ checkout \in Runs \cup {0}
    /\ backup \in [Runs -> Runs \cup {0}]
    /\ marked \subseteq Runs
    /\ ask_env \in BOOLEAN
    /\ projects \in Seq([rev : Revisions, whole : BOOLEAN])
    /\ binding \in 0 .. Len(projects)
    /\ status \in 0 .. Len(projects)
    /\ proxy \in BOOLEAN
    /\ opened_by \in {"none", "api", "ask", "rollback"}
    /\ viewer \in [place : Places, app : Revisions \cup {0}, mount : Runs \cup {0},
                   expected : Revisions \cup {0}, project : 0 .. Len(projects)]
    /\ run \in [kind : {"none", "api", "ask"},
                step : {"none"} \cup ApiSteps \cup AskSteps \cup RollbackSteps,
                rev : Revisions \cup {0}, project : 0 .. Len(projects),
                before : Runs \cup {0}]
    /\ runs \in 0 .. MaxRuns
    /\ verdict \in {"none", "green", "red", "rolled-back"}
    /\ faults \in 0 .. MaxFaults

(* The status document names a project whose read-back was the export, so  *)
(* that the public is never told to read a partial import; and while the   *)
(* proxy is open as deploy.py opened it, the binding on the host is that   *)
(* of the status document, and a viewer that has its runtime answers from  *)
(* that project: what restarts in between reads the same.                  *)
OpenMeansPublished ==
    /\ status # 0 => projects[status].whole
    /\ proxy /\ opened_by = "api" =>
           /\ binding = status
           /\ viewer.place \in {"built", "ready"} => viewer.project = status

(* A deploy that ends green serves its own revision everywhere.  The       *)
(* verifier compares less: the model served, not the project or the        *)
(* application.                                                            *)
GreenDeployServesItsRevision ==
    [][(verdict # "green" /\ verdict' = "green" /\ run.kind = "api") =>
         /\ proxy /\ binding = status /\ RevisionOf(status) = run.rev
         /\ viewer.app = run.rev /\ viewer.project = status
         /\ HeadOf(checkout) = run.rev]_vars

(* A rollback that ends well leaves the checkout the run found, and a      *)
(* viewer that was told its revision.                                      *)
RolledBackIsRestored ==
    [][(verdict # "rolled-back" /\ verdict' = "rolled-back") =>
         /\ checkout = run.before /\ HeadOf(checkout) # 0
         /\ viewer.app = HeadOf(checkout)]_vars

(* After any failures, a deploy that meets none of its own ends green: no  *)
(* checkout, project, binding or viewer left behind stands in its way.     *)
(* (A host that was never given ask-viewer.env is the exception.)          *)
RedeployRecovers ==
    (run.kind = "api" /\ run.step = "remove" /\ ask_env /\ faults = MaxFaults)
        ~> (verdict = "green")

=============================================================================
