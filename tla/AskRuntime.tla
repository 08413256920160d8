----------------------------- MODULE AskRuntime -----------------------------
(***************************************************************************)
(* The semantic runtime of the model viewer: built once, warmed up in the  *)
(* background from a snapshot on disk or from the deployed API, and used   *)
(* by the question threads without waiting for it.                         *)
(*                                                                         *)
(* A corpus is the validated export the deployment binding records, or     *)
(* some other one.  A snapshot is two files, the corpus and the digest of  *)
(* it, that a crash may leave from different writes; it outlives the       *)
(* process.                                                                *)
(***************************************************************************)
EXTENDS Integers, FiniteSets

CONSTANTS
    Asks,        \* the question threads
    MaxAsks,     \* bound: questions
    MaxChanges,  \* bound: changes of the mounts and of the API
    MaxRestarts  \* bound: ends of the process

ASSUME AskAssumption ==
    /\ IsFiniteSet(Asks) /\ "warm-up" \notin Asks
    /\ MaxAsks \in Nat /\ MaxChanges \in Nat /\ MaxRestarts \in Nat

Corpora == {"none", "export", "other"}
Threads == Asks \cup {"warm-up"}

(* A thread builds at most one service in a life of the process, and the   *)
(* services of a life are numbered.                                        *)
NoService == 0
Services == 1 .. Cardinality(Threads)

VARIABLES
    startable, \* whether the startup check would pass now
    api,       \* what the deployed API serves as the bound revision
    snapshot,  \* the snapshot's corpus, and whether its digest fits it
    status,    \* _WARM_STATE["status"]
    runtime,   \* _SEMANTIC_RUNTIME
    failed,    \* _SEMANTIC_ERROR is set
    built,     \* the services built in this life of the process
    service,   \* service[i]: its _element_cache and _served_model_check
    thread,    \* thread[t]: where it is, its service, and its answer's label
    bounds     \* the bounded counts

vars == <<startable, api, snapshot, status, runtime, failed, built, service, thread, bounds>>
outside == <<startable, api>>
process == <<status, runtime, failed, built, service>>

Empty == [cache |-> "none", check |-> "pending"]
Idle == [at |-> "idle", service |-> NoService, label |-> "none"]

(* main starts the warm-up before the first question can come.             *)
StartProcess ==
    /\ status' = "warming"
    /\ runtime' = NoService
    /\ failed' = FALSE
    /\ built' = 0
    /\ service' = [i \in Services |-> Empty]
    /\ thread' = [t \in Threads |-> IF t = "warm-up" THEN [Idle EXCEPT !.at = "enter"] ELSE Idle]

Init ==
    /\ startable \in BOOLEAN
    /\ api \in {"none", "export", "other"}
    /\ snapshot \in {[corpus |-> c, fits |-> c # "none"] : c \in Corpora}
    /\ status = "warming"
    /\ runtime = NoService
    /\ failed = FALSE
    /\ built = 0
    /\ service = [i \in Services |-> Empty]
    /\ thread = [t \in Threads |-> IF t = "warm-up" THEN [Idle EXCEPT !.at = "enter"] ELSE Idle]
    /\ bounds = [asks |-> 0, changes |-> 0, restarts |-> 0]

-----------------------------------------------------------------------------
Goes(t, from, to) == thread[t].at = from /\ thread' = [thread EXCEPT ![t].at = to]

(* A question is answered with the label of what served it.                *)
Answers(t, label) == thread' = [thread EXCEPT ![t].at = "idle", ![t].label = label]

(* An exception: the warm-up ends in error, a question goes to the regex.  *)
Raises(t) ==
    IF t = "warm-up"
    THEN status' = "error" /\ thread' = [thread EXCEPT ![t].at = "idle"]
    ELSE UNCHANGED status /\ Answers(t, "regex:fallback")

(* _runtime: a thread that finds no service builds one; what it returns is *)
(* the service that is the process's by then.                              *)
EnterRuntime(t) ==
    /\ thread[t].at = "enter"
    /\ IF runtime # NoService
       THEN /\ thread' = [thread EXCEPT ![t].at = "have", ![t].service = runtime]
            /\ UNCHANGED status
       ELSE IF failed
       THEN Raises(t)
       ELSE Goes(t, "enter", "build") /\ UNCHANGED status
    /\ UNCHANGED <<outside, snapshot, runtime, failed, built, service, bounds>>

BuildRuntime(t) ==
    /\ Goes(t, "build", "return")
    /\ startable
    /\ built' = built + 1
    /\ runtime' = built'
    /\ UNCHANGED <<outside, snapshot, status, failed, service, bounds>>

StartupRefused(t) ==
    /\ thread[t].at = "build"
    /\ ~startable
    /\ failed' = TRUE
    /\ Raises(t)
    /\ UNCHANGED <<outside, snapshot, runtime, built, service, bounds>>

ReturnRuntime(t) ==
    /\ thread[t].at = "return"
    /\ thread' = [thread EXCEPT ![t].at = "have", ![t].service = runtime]
    /\ UNCHANGED <<outside, snapshot, process, bounds>>

RuntimeStep(t) == EnterRuntime(t) \/ BuildRuntime(t) \/ StartupRefused(t) \/ ReturnRuntime(t)

-----------------------------------------------------------------------------
(* The warm-up: _load_elements_with_snapshot.                              *)

Mine == thread["warm-up"].service

\* Mutant: any corpus is adopted.
AnyCorpus(corpus) == corpus # "none"

(* The corpus the binding records, by its digest and its size.             *)
corpus_matches(corpus) == corpus = "export"

Adopt(corpus) == service' = [service EXCEPT ![Mine] = [cache |-> corpus, check |-> "passed"]]

\* Mutant: a damaged snapshot is an error.
RefuseDamagedSnapshot ==
    /\ thread["warm-up"].at = "have"
    /\ IF service[Mine].cache = "none" /\ snapshot.corpus # "none" /\ ~snapshot.fits
       THEN UNCHANGED service /\ Raises("warm-up")
       ELSE IF service[Mine].cache = "none" /\ corpus_matches(snapshot.corpus)
       THEN Adopt(snapshot.corpus) /\ Goes("warm-up", "have", "done") /\ UNCHANGED status
       ELSE UNCHANGED <<service, status>> /\ Goes("warm-up", "have", "network")
    /\ UNCHANGED <<outside, snapshot, runtime, failed, built, bounds>>

(* Any doubt about the snapshot is a miss.                                 *)
LoadSnapshot ==
    /\ thread["warm-up"].at = "have"
    /\ IF service[Mine].cache # "none"
       THEN UNCHANGED service /\ Goes("warm-up", "have", "done")
       ELSE IF snapshot.fits /\ corpus_matches(snapshot.corpus)
       THEN Adopt(snapshot.corpus) /\ Goes("warm-up", "have", "done")
       ELSE UNCHANGED service /\ Goes("warm-up", "have", "network")
    /\ UNCHANGED <<outside, snapshot, status, runtime, failed, built, bounds>>

LoadFromApi ==
    /\ Goes("warm-up", "network", "write-digest")
    /\ corpus_matches(api)
    /\ Adopt(api)
    /\ UNCHANGED <<outside, snapshot, status, runtime, failed, built, bounds>>

\* Mutant: the failure of the load is not told.
ApiFailsSilently ==
    /\ Goes("warm-up", "network", "done")
    /\ ~corpus_matches(api)
    /\ UNCHANGED <<outside, snapshot, process, bounds>>

(* Another corpus is refused, and remembered as refused; no answer is only *)
(* an error.                                                               *)
ApiFails ==
    /\ thread["warm-up"].at = "network"
    /\ ~corpus_matches(api)
    /\ service' = IF api = "none" THEN service ELSE [service EXCEPT ![Mine].check = "failed"]
    /\ Raises("warm-up")
    /\ UNCHANGED <<outside, snapshot, runtime, failed, built, bounds>>

(* The digest of the new corpus is written while the old one is in place.  *)
WriteDigest ==
    /\ Goes("warm-up", "write-digest", "replace")
    /\ snapshot' = [snapshot EXCEPT !.fits = FALSE]
    /\ UNCHANGED <<outside, process, bounds>>

ReplaceSnapshot ==
    /\ Goes("warm-up", "replace", "done")
    /\ snapshot' = [corpus |-> "export", fits |-> TRUE]
    /\ UNCHANGED <<outside, process, bounds>>

(* A write that fails is let go.                                           *)
WriteFails ==
    /\ thread["warm-up"].at \in {"write-digest", "replace"}
    /\ thread' = [thread EXCEPT !["warm-up"].at = "done"]
    /\ UNCHANGED <<outside, snapshot, process, bounds>>

WarmupDone ==
    /\ Goes("warm-up", "done", "idle")
    /\ status' = "ready"
    /\ UNCHANGED <<outside, snapshot, runtime, failed, built, service, bounds>>

ApiStep == LoadFromApi \/ ApiFails
OwnStep == RuntimeStep("warm-up") \/ LoadSnapshot \/ WriteDigest \/ ReplaceSnapshot
           \/ WriteFails \/ WarmupDone

-----------------------------------------------------------------------------
(* A question: build_method_context_api.                                   *)

Ask(t) ==
    /\ thread[t].at = "idle"
    /\ bounds.asks < MaxAsks
    /\ bounds' = [bounds EXCEPT !.asks = @ + 1]
    /\ IF status = "error" THEN Answers(t, "regex:warmup-failed")
                           ELSE thread' = [thread EXCEPT ![t].at = "enter", ![t].label = "none"]
    /\ UNCHANGED <<outside, snapshot, process>>

\* Mutant: a question waits for the warm-up.
AwaitCorpus(t) ==
    /\ thread[t].at = "have"
    /\ service[thread[t].service].cache # "none"
    /\ Answers(t, "api")
    /\ UNCHANGED <<outside, snapshot, process, bounds>>

UseCorpus(t) ==
    /\ thread[t].at = "have"
    /\ IF service[thread[t].service].cache # "none"
       THEN Answers(t, "api")
       ELSE Goes(t, "have", "cold")
    /\ UNCHANGED <<outside, snapshot, process, bounds>>

(* The status is read after the cache, and may have changed.  start_warmup *)
(* does nothing here: the process started one.                             *)
AnswerCold(t) ==
    /\ thread[t].at = "cold"
    /\ Answers(t, IF status = "warming" THEN "regex:warming" ELSE "regex:warmup-failed")
    /\ UNCHANGED <<outside, snapshot, process, bounds>>

AskStep(t) == RuntimeStep(t) \/ UseCorpus(t) \/ AnswerCold(t)

-----------------------------------------------------------------------------
Changes ==
    /\ bounds.changes < MaxChanges
    /\ bounds' = [bounds EXCEPT !.changes = @ + 1]
    /\ startable' \in BOOLEAN
    /\ api' \in Corpora
    /\ UNCHANGED <<snapshot, process, thread>>

Restart ==
    /\ bounds.restarts < MaxRestarts
    /\ bounds' = [bounds EXCEPT !.restarts = @ + 1]
    /\ StartProcess
    /\ UNCHANGED <<outside, snapshot>>

Next ==
    \/ OwnStep
    \/ ApiStep
    \/ \E t \in Asks : Ask(t) \/ AskStep(t)
    \/ Changes
    \/ Restart

Spec == Init /\ [][Next]_vars

(* The threads run; the API may keep the warm-up waiting for ever.         *)
FairSpec == Spec /\ WF_vars(OwnStep) /\ \A t \in Asks : WF_vars(AskStep(t))

-----------------------------------------------------------------------------
(* Properties.                                                             *)

Places == {"idle", "enter", "build", "return", "have", "network", "write-digest", "replace",
           "done", "cold"}
Labels == {"none", "api", "regex:fallback", "regex:warming", "regex:warmup-failed"}

(* The state has its shape: a thread that has a service has one that was   *)
(* built in this life of the process.                                      *)
TypeOK ==
    /\ startable \in BOOLEAN
    /\ api \in Corpora
    /\ snapshot \in [corpus : Corpora, fits : BOOLEAN]
    /\ status \in {"warming", "ready", "error"}
    /\ failed \in BOOLEAN
    /\ built \in {0} \cup Services
    /\ runtime \in 0 .. built
    /\ service \in [Services -> [cache : Corpora, check : {"pending", "passed", "failed"}]]
    /\ thread \in [Threads -> [at : Places, service : 0 .. built, label : Labels]]

(* An answer labelled "api" rests on the export that the binding records   *)
(* and on a service that passed its check of it, whatever lies on the disk *)
(* and whatever the API serves; and "ready" is said only when the service  *)
(* that the warm-up loads holds that export.                               *)
OnlyTheExportAnswers ==
    /\ \A t \in Asks : thread[t].label = "api" =>
           service[thread[t].service] = [cache |-> "export", check |-> "passed"]
    /\ status = "ready" => service[Mine].cache = "export"

(* A question is answered even if the warm-up waits for the API for ever.  *)
EveryAskIsAnswered ==
    \A t \in Asks : (thread[t].at # "idle") ~> (thread[t].at = "idle")

(* A restart recovers: a process that starts where the check passes and    *)
(* the export is to be had, and goes on to be, is ready in the end,        *)
(* whatever the process before it left on the disk.                        *)
RestartRecovers ==
    WF_vars(ApiStep) =>
        []((thread["warm-up"].at = "enter" /\ runtime = NoService /\ ~failed /\ [](startable /\ api = "export"))
               => <>(status = "ready"))

(* What start-up promises, "build the semantic runtime once per process",  *)
(* and what the warm-up is for: the service that was warmed up is the one  *)
(* that answers.                                                           *)
WarmedServiceIsTheOneServed == status = "ready" => service[runtime].cache # "none"
=============================================================================
