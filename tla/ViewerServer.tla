---------------------------- MODULE ViewerServer ----------------------------
(***************************************************************************)
(* The model viewer's server: one thread for each request, and what the    *)
(* threads share.                                                          *)
(*                                                                         *)
(* A page request brings its site up to date before it serves it; a        *)
(* question about an element is grounded in a parsed tree; a question to   *)
(* the guide is answered from an index of the checkout.  The sites, the    *)
(* index and the materialized trees are files and outlive the process, the *)
(* parsed trees do not.  The checkout and the branches move by themselves. *)
(*                                                                         *)
(* A text is named by how often its tree had moved when it was read, and   *)
(* so is a time.  The server sees a move of the checkout only by the time  *)
(* of its newest file: a deletion, a rename or a change that keeps its     *)
(* time moves the tree and does not show; and HEAD moves or does not.      *)
(***************************************************************************)
EXTENDS Integers, FiniteSets

CONSTANTS
    Threads,      \* the request threads
    Slots,        \* NOUS_MAX_CONCURRENT_REQUESTS
    MaxMoves,     \* bound: moves of each tree
    MaxRequests,  \* bound: requests
    MaxRestarts   \* bound: ends of the process

ASSUME ServerAssumption ==
    /\ IsFiniteSet(Threads) /\ Slots \in Nat \ {0}
    /\ MaxMoves \in Nat /\ MaxRequests \in Nat /\ MaxRestarts \in Nat

Sites == {"work", "ref"}
Nothing == -1
Texts == {Nothing} \cup 0 .. MaxMoves

VARIABLES
    version,   \* version[s]: the moves of the checkout ("work") or a branch
    newest,    \* the newest time of a model file of the checkout
    head,      \* the move of the checkout with which HEAD last moved
    hidden,    \* history: the last move that the newest time does not show
    site,      \* site[s]: the generated pages on disk
    tree,      \* the branch materialized for grounding, Nothing: not yet
    guide,     \* the guide's index file
    grounding, \* ask_index: the parsed trees, in memory
    held,      \* held[l]: the threads inside lock l
    free,      \* the free slots of ask_slots
    req,       \* req[t]: the request of thread t
    requests,  \* requests so far
    restarts   \* restarts so far

trees == <<version, newest, head, hidden>>
files == <<site, tree, guide>>
bounds == <<requests, restarts>>
viewerVars == <<trees, site, tree, guide, grounding, held, free, req, requests, restarts>>

Locks == Sites \cup {"ask", "guide"}

PageSteps == {"check", "want-site", "recheck", "load", "write-index", "write-pages", "serve"}
QuestionSteps == {"want-grounding", "look-up", "parse", "remember", "resolve", "model"}
GuideSteps == {"want-guide", "is-current", "name-head", "read-files", "record-head",
               "name-built-head", "search", "answer"}

Idle == [step |-> "idle", site |-> "work", began |-> 0, text |-> Nothing,
         named |-> Nothing, current |-> FALSE]
NoSite == [index |-> Nothing, stamp |-> Nothing, pages |-> Nothing]
NoIndex == [text |-> Nothing, sha |-> Nothing]
NoParse == [text |-> Nothing, time |-> Nothing, until |-> Nothing]

ViewerInit ==
    /\ version = [s \in Sites |-> 0]
    /\ newest = 0 /\ head = 0 /\ hidden = 0
    /\ site = [s \in Sites |-> IF s = "work" THEN [index |-> 0, stamp |-> 0, pages |-> 0]
                               ELSE NoSite]
    /\ tree = Nothing
    /\ guide = NoIndex
    /\ grounding = [s \in Sites |-> NoParse]
    /\ held = [l \in Locks |-> {}]
    /\ free = Slots
    /\ req = [t \in Threads |-> Idle]
    /\ requests = 0
    /\ restarts = 0

-----------------------------------------------------------------------------
Step(t, from, to) == req[t].step = from /\ req' = [req EXCEPT ![t].step = to]
Done(t) == req' = [req EXCEPT ![t] = Idle]

Begin(t, first, s) ==
    /\ req[t] = Idle
    /\ requests < MaxRequests
    /\ requests' = requests + 1
    /\ req' = [req EXCEPT ![t] = [Idle EXCEPT !.step = first, !.site = s,
                                              !.began = version[s]]]
    /\ UNCHANGED <<trees, files, grounding, held, free, restarts>>

\* Mutant: every request makes its own lock.
TakeOwnLock(t, l) == held' = [held EXCEPT ![l] = @ \cup {t}]

Acquire(t, l) == held[l] = {} /\ held' = [held EXCEPT ![l] = {t}]
Release(t, l) == held' = [held EXCEPT ![l] = @ \ {t}]

Mine(t) == req[t].site
Now(t) == version[Mine(t)]

-----------------------------------------------------------------------------
(* Pages: ensure_worktree_current and ensure_built.                        *)

\* Mutant: the site only has to exist.
OnlyMissing(s) == site[s].index = Nothing

(* The checkout's site is stale when a model file is newer than its index. *)
(* A site of a branch is stale only when it is missing (or the tool's own  *)
(* code changed, which it does not here).                                  *)
Stale(s) == site[s].index = Nothing \/ (s = "work" /\ newest > site[s].stamp)

CheckSite(t) ==
    /\ req[t].step = "check"
    /\ req' = [req EXCEPT ![t].step = IF Stale(Mine(t)) THEN "want-site" ELSE "serve",
                          ![t].current = ~Stale(Mine(t))]
    /\ UNCHANGED <<trees, files, grounding, held, free, bounds>>

LockSite(t) ==
    /\ Step(t, "want-site", "recheck")
    /\ Acquire(t, Mine(t))
    /\ UNCHANGED <<trees, files, grounding, free, bounds>>

\* Mutant: whoever waited for the lock builds.
RebuildAnyway(t) ==
    /\ Step(t, "recheck", "load")
    /\ UNCHANGED <<trees, files, grounding, held, free, bounds>>

RecheckSite(t) ==
    /\ req[t].step = "recheck"
    /\ IF Stale(Mine(t))
       THEN req' = [req EXCEPT ![t].step = "load"] /\ UNCHANGED held
       ELSE req' = [req EXCEPT ![t].step = "serve", ![t].current = TRUE] /\ Release(t, Mine(t))
    /\ UNCHANGED <<trees, files, grounding, free, bounds>>

LoadSite(t) ==
    /\ req[t].step = "load"
    /\ req' = [req EXCEPT ![t].step = "write-index", ![t].text = Now(t)]
    /\ UNCHANGED <<trees, files, grounding, held, free, bounds>>

(* The index page, whose time is that of the site, is written first.       *)
WriteIndex(t) ==
    /\ Step(t, "write-index", "write-pages")
    /\ site' = [site EXCEPT ![Mine(t)].index = req[t].text, ![Mine(t)].stamp = Now(t)]
    /\ UNCHANGED <<trees, tree, guide, grounding, held, free, bounds>>

WritePages(t) ==
    /\ req[t].step = "write-pages"
    /\ site' = [site EXCEPT ![Mine(t)].pages = req[t].text]
    /\ req' = [req EXCEPT ![t].step = "serve", ![t].current = TRUE]
    /\ Release(t, Mine(t))
    /\ UNCHANGED <<trees, tree, guide, grounding, free, bounds>>

(* An exception ends the build, and FALSE is returned.                     *)
BuildFails(t) ==
    /\ req[t].step \in {"load", "write-index", "write-pages"}
    /\ req' = [req EXCEPT ![t].step = "serve"]
    /\ Release(t, Mine(t))
    /\ UNCHANGED <<trees, files, grounding, free, bounds>>

(* do_GET serves the working tree whatever was returned, a branch only if  *)
(* it was built.                                                           *)
Serve(t) ==
    /\ req[t].step = "serve"
    /\ Done(t)
    /\ UNCHANGED <<trees, files, grounding, held, free, bounds>>

PageStep(t) == CheckSite(t) \/ LockSite(t) \/ RecheckSite(t) \/ LoadSite(t)
               \/ WriteIndex(t) \/ WritePages(t) \/ BuildFails(t) \/ Serve(t)

-----------------------------------------------------------------------------
(* Questions about an element: ask_grounding and _handle_ask.              *)

LockGrounding(t) ==
    /\ Step(t, "want-grounding", "look-up")
    /\ Acquire(t, "ask")
    /\ UNCHANGED <<trees, files, grounding, free, bounds>>

\* Mutant: a parsed tree is kept for the life of the process.
AnyParse(s) == grounding[s].text # Nothing

Parsed(s) ==
    /\ grounding[s].text # Nothing
    /\ IF s = "work" THEN grounding[s].time = newest ELSE site[s].index # Nothing

LookUpGrounding(t) ==
    /\ req[t].step = "look-up"
    /\ IF Parsed(Mine(t))
       THEN /\ req' = [req EXCEPT ![t].step = "resolve", ![t].text = grounding[Mine(t)].text,
                                  ![t].named = grounding[Mine(t)].until]
            /\ Release(t, "ask")
       ELSE req' = [req EXCEPT ![t].step = "parse"] /\ UNCHANGED held
    /\ UNCHANGED <<trees, files, grounding, free, bounds>>

(* A branch is parsed from its materialization, made by the first question. *)
ParseTree(t) ==
    /\ req[t].step = "parse"
    /\ tree' = IF Mine(t) = "ref" /\ tree = Nothing THEN Now(t) ELSE tree
    /\ req' = [req EXCEPT ![t].step = "remember",
                          ![t].text = IF Mine(t) = "ref" THEN tree' ELSE Now(t)]
    /\ UNCHANGED <<trees, site, guide, grounding, held, free, bounds>>

(* The newest time is taken after the parse (a branch has none).           *)
RememberParse(t) ==
    /\ req[t].step = "remember"
    /\ req' = [req EXCEPT ![t].step = "resolve", ![t].named = Now(t)]
    /\ grounding' = [grounding EXCEPT ![Mine(t)] =
                        [text |-> req[t].text, until |-> Now(t),
                         time |-> IF Mine(t) = "work" THEN newest ELSE 0]]
    /\ Release(t, "ask")
    /\ UNCHANGED <<trees, files, free, bounds>>

\* Mutant: an error of the parser leaves the lock taken.
ParseFailsInside(t) ==
    /\ req[t].step = "parse"
    /\ Done(t)
    /\ UNCHANGED <<trees, files, grounding, held, free, bounds>>

(* load_model raises: the thread ends without an answer.                   *)
ParseFails(t) ==
    /\ req[t].step = "parse"
    /\ Done(t)
    /\ Release(t, "ask")
    /\ UNCHANGED <<trees, files, grounding, free, bounds>>

(* An unknown element, an empty question, or no key: nothing is asked.     *)
RefuseQuestion(t) ==
    /\ req[t].step \in {"resolve", "wants-a-slot"}
    /\ Done(t)
    /\ UNCHANGED <<trees, files, grounding, held, free, bounds>>

TakeSlot(t, from, to) ==
    /\ free > 0
    /\ free' = free - 1
    /\ Step(t, from, to)
    /\ UNCHANGED <<trees, files, grounding, held, bounds>>

Busy(t, from) ==
    /\ req[t].step = from
    /\ free = 0
    /\ Done(t)
    /\ UNCHANGED <<trees, files, grounding, held, free, bounds>>

ReturnSlot(t) == free' = free + 1 /\ Done(t)

(* The answer, or the error of the call: both give the slot back.          *)
AnswerQuestion(t) ==
    /\ req[t].step = "model"
    /\ ReturnSlot(t)
    /\ UNCHANGED <<trees, files, grounding, held, bounds>>

QuestionStep(t) == LockGrounding(t) \/ LookUpGrounding(t) \/ ParseTree(t) \/ RememberParse(t)
              \/ ParseFails(t) \/ RefuseQuestion(t) \/ TakeSlot(t, "resolve", "model")
              \/ Busy(t, "resolve") \/ AnswerQuestion(t)

-----------------------------------------------------------------------------
(* Questions to the guide: _handle_repo_chat and guide_retrieval.          *)

LockGuide(t) ==
    /\ Step(t, "want-guide", "is-current")
    /\ Acquire(t, "guide")
    /\ UNCHANGED <<trees, files, grounding, free, bounds>>

\* Mutant: an index that exists is current.
IndexExists == guide.text # Nothing

index_is_current == guide.text # Nothing /\ guide.sha = head

CheckGuide(t) ==
    /\ Step(t, "is-current", IF index_is_current THEN "name-head" ELSE "read-files")
    /\ UNCHANGED <<trees, files, grounding, held, free, bounds>>

(* The revision that the answer will cite; the lock is left here.          *)
NameHead(t) ==
    /\ req[t].step \in {"name-head", "name-built-head"}
    /\ req' = [req EXCEPT ![t].step = "search", ![t].named = head]
    /\ Release(t, "guide")
    /\ UNCHANGED <<trees, files, grounding, free, bounds>>

ReadFiles(t) ==
    /\ req[t].step = "read-files"
    /\ req' = [req EXCEPT ![t].step = "record-head", ![t].text = version["work"]]
    /\ UNCHANGED <<trees, files, grounding, held, free, bounds>>

(* HEAD is asked after the files were read, and the index replaced at once. *)
RecordHead(t) ==
    /\ Step(t, "record-head", "name-built-head")
    /\ guide' = [text |-> req[t].text, sha |-> head]
    /\ UNCHANGED <<trees, site, tree, grounding, held, free, bounds>>

\* Mutant: the error of a failed index build keeps the slot.
KeepSlotOnIndexError(t) ==
    /\ req[t].step \in {"read-files", "record-head"}
    /\ Done(t)
    /\ Release(t, "guide")
    /\ UNCHANGED <<trees, files, grounding, free, bounds>>

IndexFails(t) ==
    /\ req[t].step \in {"read-files", "record-head"}
    /\ ReturnSlot(t)
    /\ Release(t, "guide")
    /\ UNCHANGED <<trees, files, grounding, bounds>>

(* The search opens the file again, outside the lock.                      *)
SearchIndex(t) ==
    /\ req[t].step = "search"
    /\ req' = [req EXCEPT ![t].step = "answer", ![t].text = guide.text]
    /\ UNCHANGED <<trees, files, grounding, held, free, bounds>>

FindNothing(t) ==
    /\ req[t].step = "search"
    /\ ReturnSlot(t)
    /\ UNCHANGED <<trees, files, grounding, held, bounds>>

AnswerFromGuide(t) ==
    /\ req[t].step = "answer"
    /\ ReturnSlot(t)
    /\ UNCHANGED <<trees, files, grounding, held, bounds>>

GuideStep(t) == TakeSlot(t, "wants-a-slot", "want-guide") \/ Busy(t, "wants-a-slot")
                \/ LockGuide(t) \/ CheckGuide(t) \/ NameHead(t) \/ ReadFiles(t)
                \/ RecordHead(t) \/ IndexFails(t) \/ SearchIndex(t) \/ FindNothing(t)
                \/ AnswerFromGuide(t)

-----------------------------------------------------------------------------
(* The outside: the trees move, and the process ends and starts again.     *)

(* A file written now is the newest; the newest of what a deletion, a      *)
(* rename or a kept time leaves may be of any earlier move.                *)
TreeMoves(s) ==
    /\ version[s] < MaxMoves
    /\ version' = [version EXCEPT ![s] = @ + 1]
    /\ IF s = "work"
       THEN /\ newest' \in 0 .. version'[s]
            /\ head' \in {head, version'[s]}
            /\ hidden' = IF newest' = version'[s] THEN hidden ELSE version'[s]
       ELSE UNCHANGED <<newest, head, hidden>>
    /\ UNCHANGED <<files, grounding, held, free, req, bounds>>

Restart ==
    /\ restarts < MaxRestarts
    /\ restarts' = restarts + 1
    /\ grounding' = [s \in Sites |-> NoParse]
    /\ held' = [l \in Locks |-> {}]
    /\ free' = Slots
    /\ req' = [t \in Threads |-> Idle]
    /\ UNCHANGED <<trees, files, requests>>

HandleStep(t) == PageStep(t) \/ QuestionStep(t) \/ GuideStep(t)

ViewerNext ==
    \/ \E t \in Threads, s \in Sites : Begin(t, "check", s) \/ Begin(t, "want-grounding", s)
    \/ \E t \in Threads : Begin(t, "wants-a-slot", "work")
    \/ \E t \in Threads : HandleStep(t)
    \/ \E s \in Sites : TreeMoves(s)
    \/ Restart

ViewerSpec == ViewerInit /\ [][ViewerNext]_viewerVars

(* A thread that can go on does; a lock goes to whoever waits for it.      *)
FairViewerSpec == ViewerSpec /\ \A t \in Threads : SF_viewerVars(HandleStep(t))

-----------------------------------------------------------------------------
(* Properties.                                                             *)

Steps == {"idle", "wants-a-slot"} \cup PageSteps \cup QuestionSteps \cup GuideSteps

ViewerTypeOK ==
    /\ version \in [Sites -> 0 .. MaxMoves]
    /\ {newest, head, hidden} \subseteq 0 .. MaxMoves
    /\ site \in [Sites -> [index : Texts, stamp : Texts, pages : Texts]]
    /\ tree \in Texts
    /\ guide \in [text : Texts, sha : Texts]
    /\ grounding \in [Sites -> [text : Texts, time : Texts, until : Texts]]
    /\ held \in [Locks -> SUBSET Threads]
    /\ free \in 0 .. Slots
    /\ req \in [Threads -> [step : Steps, site : Sites, began : 0 .. MaxMoves,
                            text : Texts, named : Texts, current : BOOLEAN]]
    /\ requests \in 0 .. MaxRequests
    /\ restarts \in 0 .. MaxRestarts

HoldsSlot(t) == req[t].step \in {"model"} \cup GuideSteps

Builds(t, s) == req[t].site = s /\ req[t].step \in {"load", "write-index", "write-pages"}

NeedsBuild(s) ==
    site[s].index = Nothing \/ (s = "work" /\ site[s].stamp < version[s])

(* Every way out of a question gives its slot back, errors of the index,   *)
(* of the search and of the model included; no two threads write one site; *)
(* and who waited for a build of its site does not build it once more.     *)
SlotsAndSitesAreGuarded ==
    /\ free = Slots - Cardinality({t \in Threads : HoldsSlot(t)})
    /\ \A s \in Sites : \A t, u \in Threads : (Builds(t, s) /\ Builds(u, s)) => t = u
    /\ \A t \in Threads : req[t].step = "load" => NeedsBuild(Mine(t))

Whole(s) == site[s].pages = site[s].index /\ site[s].stamp = site[s].index

(* What ensure_worktree_current's TRUE says: the site was written since    *)
(* the request began to be asked for, unless a move was hidden since it    *)
(* was written; and so were its pages, unless a build failed or is under   *)
(* way or the tree moved while it was read.                                *)
TrueMeansWrittenSince ==
    \A t \in Threads :
        (req[t].step = "serve" /\ req[t].current /\ Mine(t) = "work"
            /\ hidden <= site["work"].stamp) =>
            /\ site["work"].stamp >= req[t].began
            /\ Whole("work") => site["work"].pages >= req[t].began

(* The tree an answer is grounded in: its parse ended no earlier than the  *)
(* last move before the question, unless a move was hidden since; and if   *)
(* the tree stood still for the parse, its text is no older either.  The   *)
(* guide answers from a text of the revision that it cites, as long as     *)
(* HEAD did not move since the question and did not for the index build.   *)
AnswersAreGrounded ==
    \A t \in Threads :
        /\ (req[t].step = "resolve" /\ Mine(t) = "work" /\ hidden <= req[t].named) =>
              /\ req[t].named >= req[t].began
              /\ req[t].text = req[t].named => req[t].text >= req[t].began
        /\ (req[t].step = "answer" /\ head <= req[t].began /\ guide.sha <= guide.text) =>
              req[t].named <= req[t].text

(* "Returns True when the served site is current (after any rebuild)".     *)
TrueMeansCurrent ==
    \A t \in Threads :
        (req[t].step = "serve" /\ req[t].current /\ Mine(t) = "work") =>
            site["work"].pages >= req[t].began

(* Every request comes to its end: no lock and no slot is waited for       *)
(* without end.                                                            *)
EveryRequestEnds == \A t \in Threads : (req[t].step # "idle") ~> (req[t].step = "idle")
=============================================================================
