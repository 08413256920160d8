-------------------------- MODULE AskRuntimeProofs --------------------------
EXTENDS AskRuntime, FiniteSetTheorems, TLAPS

(* The threads that build a service, which no other thread will take.      *)
Builders == {t \in Threads : thread[t].at = "build"}

(* A service is named only when it was built, and there is one for each    *)
(* thread that builds one.                                                 *)
ServicesInv ==
    /\ runtime = NoService <=> built = 0
    /\ built + Cardinality(Builders) <= Cardinality(Threads)
    /\ \A t \in Threads :
          /\ thread[t].at = "return" => runtime # NoService
          /\ thread[t].at \in {"have", "network", "write-digest", "replace", "done"} =>
                 thread[t].service # NoService

(* A service holds no corpus or the export that it passed the check of.    *)
CachesInv ==
    \A i \in Services : service[i].cache # "none" => service[i] = [cache |-> "export", check |-> "passed"]

(* The warm-up loads a service that holds nothing, and says "ready" of one *)
(* that holds the export; it runs once.                                    *)
WarmupInv ==
    /\ thread["warm-up"].at = "network" => service[Mine].cache = "none"
    /\ thread["warm-up"].at \in {"write-digest", "replace", "done"} => service[Mine].cache = "export"
    /\ status = "ready" => /\ thread["warm-up"].at = "idle"
                           /\ Mine # NoService /\ service[Mine].cache = "export"

(* A question keeps the service and the label of its answer until the next. *)
LabelsInv ==
    \A t \in Asks : thread[t].label = "api" =>
        /\ thread[t].at = "idle"
        /\ thread[t].service # NoService /\ service[thread[t].service].cache = "export"

AskInv == TypeOK /\ ServicesInv /\ CachesInv /\ WarmupInv /\ LabelsInv

Moved(t, at, of, label) ==
    thread' = [thread EXCEPT ![t] = [at |-> at, service |-> of, label |-> label]]

-----------------------------------------------------------------------------
LEMMA ThreadsFinite ==
    /\ IsFiniteSet(Threads) /\ Cardinality(Threads) \in Nat
    /\ "warm-up" \in Threads /\ Asks \subseteq Threads
<1>1. IsFiniteSet({"warm-up"})
  BY FS_Singleton
<1>2. IsFiniteSet(Threads)
  BY <1>1, FS_Union, AskAssumption DEF Threads
<1> QED
  BY <1>2, FS_CardinalityType DEF Threads

(* What each way of writing a thread writes.                               *)
LEMMA ThreadMoves ==
    ASSUME TypeOK, NEW t \in Threads, NEW a, NEW s, NEW l
    PROVE  /\ thread' = [thread EXCEPT ![t].at = a] => Moved(t, a, thread[t].service, thread[t].label)
           /\ thread' = [thread EXCEPT ![t].at = a, ![t].service = s] => Moved(t, a, s, thread[t].label)
           /\ thread' = [thread EXCEPT ![t].at = a, ![t].label = l] => Moved(t, a, thread[t].service, l)
<1> USE DEF Places, Labels
<1>1. thread \in [Threads -> [at : Places, service : 0 .. built, label : Labels]]
  BY DEF TypeOK
<1>2. /\ [thread[t] EXCEPT !.at = a]
            = [at |-> a, service |-> thread[t].service, label |-> thread[t].label]
      /\ [thread[t] EXCEPT !.at = a, !.service = s]
            = [at |-> a, service |-> s, label |-> thread[t].label]
      /\ [thread[t] EXCEPT !.at = a, !.label = l]
            = [at |-> a, service |-> thread[t].service, label |-> l]
  <2>1. thread[t] \in [at : Places, service : 0 .. built, label : Labels]
    BY <1>1
  <2>2. thread[t] = [at |-> thread[t].at, service |-> thread[t].service, label |-> thread[t].label]
    BY <2>1
  <2>3. ASSUME NEW q, q = [thread[t] EXCEPT !.at = a]
        PROVE  q = [at |-> a, service |-> thread[t].service, label |-> thread[t].label]
    BY <2>2, <2>3, Zenon
  <2>4. ASSUME NEW q, q = [thread[t] EXCEPT !.at = a, !.service = s]
        PROVE  q = [at |-> a, service |-> s, label |-> thread[t].label]
    BY <2>2, <2>4, Zenon
  <2>5. ASSUME NEW q, q = [thread[t] EXCEPT !.at = a, !.label = l]
        PROVE  q = [at |-> a, service |-> thread[t].service, label |-> l]
    BY <2>2, <2>5, Zenon
  <2> QED
    BY <2>3, <2>4, <2>5, Zenon
<1>3. /\ [thread EXCEPT ![t].at = a] = [thread EXCEPT ![t] = [thread[t] EXCEPT !.at = a]]
      /\ [thread EXCEPT ![t].at = a, ![t].service = s]
            = [thread EXCEPT ![t] = [thread[t] EXCEPT !.at = a, !.service = s]]
      /\ [thread EXCEPT ![t].at = a, ![t].label = l]
            = [thread EXCEPT ![t] = [thread[t] EXCEPT !.at = a, !.label = l]]
  BY Zenon
<1> QED
  BY <1>2, <1>3, Zenon DEF Moved

(* What a step of a thread does to it.                                     *)
LEMMA StepsMove ==
    ASSUME TypeOK, NEW t \in Threads
    PROVE  /\ \A from, to \in Places : Goes(t, from, to) =>
                  thread[t].at = from /\ Moved(t, to, thread[t].service, thread[t].label)
           /\ \A label \in Labels : Answers(t, label) => Moved(t, "idle", thread[t].service, label)
           /\ Raises(t) =>
                 /\ status' = status \/ (t = "warm-up" /\ status' = "error")
                 /\ t = "warm-up" => status' = "error"
                 /\ \E label \in {thread[t].label, "regex:fallback"} :
                        /\ Moved(t, "idle", thread[t].service, label)
                        /\ t # "warm-up" => label = "regex:fallback"
           /\ EnterRuntime(t) =>
                 /\ thread[t].at = "enter"
                 /\ \/ runtime # NoService /\ UNCHANGED status /\ Moved(t, "have", runtime, thread[t].label)
                    \/ runtime = NoService /\ Raises(t)
                    \/ /\ runtime = NoService /\ UNCHANGED status
                       /\ Moved(t, "build", thread[t].service, thread[t].label)
           /\ ReturnRuntime(t) => Moved(t, "have", runtime, thread[t].label)
<1> USE DEF Places, Labels
<1>0. runtime \in Int
  BY DEF TypeOK
<1>1. \A from, to \in Places : Goes(t, from, to) =>
          thread[t].at = from /\ Moved(t, to, thread[t].service, thread[t].label)
  BY <1>0, ThreadMoves DEF Goes
<1>2. \A label \in Labels : Answers(t, label) => Moved(t, "idle", thread[t].service, label)
  BY <1>0, ThreadMoves DEF Answers
<1>3. Raises(t) =>
         /\ status' = status \/ (t = "warm-up" /\ status' = "error")
         /\ t = "warm-up" => status' = "error"
         /\ \E label \in {thread[t].label, "regex:fallback"} :
                /\ Moved(t, "idle", thread[t].service, label)
                /\ t # "warm-up" => label = "regex:fallback"
  <2>1. CASE t = "warm-up"
    <3>1. thread' = [thread EXCEPT ![t].at = "idle"] => Moved(t, "idle", thread[t].service, thread[t].label)
      BY <1>0, ThreadMoves
    <3> QED
      BY <2>1, <3>1 DEF Raises
  <2>2. CASE t # "warm-up"
    <3>1. Answers(t, "regex:fallback") => Moved(t, "idle", thread[t].service, "regex:fallback")
      BY <1>2
    <3> QED
      BY <2>2, <3>1, Zenon DEF Raises
  <2> QED
    BY <2>1, <2>2
<1>4. EnterRuntime(t) =>
         /\ thread[t].at = "enter"
         /\ \/ runtime # NoService /\ UNCHANGED status /\ Moved(t, "have", runtime, thread[t].label)
            \/ runtime = NoService /\ Raises(t)
            \/ /\ runtime = NoService /\ UNCHANGED status
               /\ Moved(t, "build", thread[t].service, thread[t].label)
  <2>1. thread' = [thread EXCEPT ![t].at = "have", ![t].service = runtime] =>
            Moved(t, "have", runtime, thread[t].label)
    BY <1>0, ThreadMoves
  <2> QED
    BY <1>1, <2>1 DEF EnterRuntime
<1>5. ReturnRuntime(t) => Moved(t, "have", runtime, thread[t].label)
  <2>1. thread' = [thread EXCEPT ![t].at = "have", ![t].service = runtime] =>
            Moved(t, "have", runtime, thread[t].label)
    BY <1>0, ThreadMoves
  <2> QED
    BY <2>1 DEF ReturnRuntime
<1> QED
  BY <1>1, <1>2, <1>3, <1>4, <1>5, Zenon

(* A thread that is written leaves the others alone.                       *)
LEMMA OthersStay ==
    ASSUME TypeOK, NEW t \in Threads, NEW a, NEW s, NEW l, Moved(t, a, s, l)
    PROVE  /\ thread'[t].at = a /\ thread'[t].service = s /\ thread'[t].label = l
           /\ \A u \in Threads \ {t} : thread'[u] = thread[u]
BY DEF Moved, TypeOK

LEMMA ThreadTyped ==
    ASSUME TypeOK, NEW t \in Threads, NEW a \in Places, NEW s \in 0 .. built', NEW l \in Labels,
           Moved(t, a, s, l), built' \in Nat, built' >= built
    PROVE  thread' \in [Threads -> [at : Places, service : 0 .. built', label : Labels]]
<1>1. built \in Nat /\ thread \in [Threads -> [at : Places, service : 0 .. built, label : Labels]]
  BY ThreadsFinite DEF TypeOK, Services
<1>2. [at : Places, service : 0 .. built, label : Labels]
          \subseteq [at : Places, service : 0 .. built', label : Labels]
  <2>1. 0 .. built \subseteq 0 .. built'
    BY <1>1
  <2> QED
    BY <2>1
<1>3. thread \in [Threads -> [at : Places, service : 0 .. built', label : Labels]]
  BY <1>1, <1>2
<1>4. [at |-> a, service |-> s, label |-> l] \in [at : Places, service : 0 .. built', label : Labels]
  OBVIOUS
<1> QED
  BY <1>3, <1>4 DEF Moved

(* A thread that does not start to build keeps the count.                  *)
LEMMA ServicesKept ==
    ASSUME TypeOK, ServicesInv, NEW t \in Threads, NEW a, NEW s, NEW l, Moved(t, a, s, l),
           a # "build", UNCHANGED <<runtime, built>>,
           a = "return" => runtime # NoService,
           a \in {"have", "network", "write-digest", "replace", "done"} => s # NoService
    PROVE  ServicesInv'
<1>1. Builders' \subseteq Builders
  BY OthersStay DEF Builders
<1>2. IsFiniteSet(Builders) /\ Builders \subseteq Threads
  BY ThreadsFinite, FS_Subset DEF Builders
<1>3. Cardinality(Builders') <= Cardinality(Builders) /\ Cardinality(Builders) \in Nat
      /\ Cardinality(Builders') \in Nat
  BY <1>1, <1>2, FS_Subset, FS_CardinalityType
<1>4. built \in Nat /\ Cardinality(Threads) \in Nat
  BY ThreadsFinite DEF TypeOK, Services
<1>5. built' + Cardinality(Builders') <= Cardinality(Threads)
  BY <1>3, <1>4 DEF ServicesInv
<1>6. \A u \in Threads :
          /\ thread'[u].at = "return" => runtime' # NoService
          /\ thread'[u].at \in {"have", "network", "write-digest", "replace", "done"} =>
                 thread'[u].service # NoService
  BY OthersStay DEF ServicesInv
<1> QED
  BY <1>5, <1>6 DEF ServicesInv

(* A thread can build a service as long as there is one left.              *)
LEMMA ServiceLeft ==
    ASSUME TypeOK, ServicesInv, NEW t \in Threads, thread[t].at = "build"
    PROVE  /\ built + 1 \in Services /\ built \in Nat
           /\ \A a, s, l : Moved(t, a, s, l) /\ a # "build" =>
                  built + 1 + Cardinality(Builders') <= Cardinality(Threads)
<1>1. IsFiniteSet(Builders) /\ t \in Builders /\ Cardinality(Builders) \in Nat
  BY ThreadsFinite, FS_Subset, FS_CardinalityType DEF Builders
<1>2. Cardinality(Builders \ {t}) = Cardinality(Builders) - 1 /\ Cardinality(Builders \ {t}) \in Nat
  BY <1>1, FS_RemoveElement, FS_CardinalityType, FS_Subset
<1>3. built \in Nat /\ Cardinality(Threads) \in Nat /\ built + Cardinality(Builders) <= Cardinality(Threads)
  BY ThreadsFinite DEF TypeOK, Services, ServicesInv
<1>4. ASSUME NEW a, NEW s, NEW l, Moved(t, a, s, l), a # "build"
      PROVE  built + 1 + Cardinality(Builders') <= Cardinality(Threads)
  <2>1. Builders' = Builders \ {t}
    BY <1>4, OthersStay DEF Builders
  <2> QED
    BY <1>1, <1>2, <1>3, <2>1
<1>5. built + 1 \in Services
  BY <1>1, <1>2, <1>3 DEF Services
<1> QED
  BY <1>3, <1>4, <1>5

(* The warm-up's service is one of this life of the process.               *)
LEMMA MineBuilt ==
    ASSUME TypeOK, ServicesInv, NEW t \in Threads,
           thread[t].at \in {"have", "network", "write-digest", "replace", "done"}
    PROVE  thread[t].service \in Services
<1>1. thread[t].service \in 0 .. built /\ built \in {0} \cup Services
  BY DEF TypeOK
<1>2. thread[t].service # 0
  BY DEF ServicesInv, NoService
<1> QED
  BY <1>1, <1>2, ThreadsFinite DEF Services

-----------------------------------------------------------------------------
(* A step changes the outside, ends the process, or is one of a thread.    *)
LEMMA Steps ==
    ASSUME [Next]_vars
    PROVE  \/ UNCHANGED vars \/ Changes \/ Restart
           \/ \E t \in Threads : EnterRuntime(t) \/ BuildRuntime(t) \/ StartupRefused(t) \/ ReturnRuntime(t)
           \/ LoadSnapshot \/ LoadFromApi \/ ApiFails
           \/ WriteDigest \/ ReplaceSnapshot \/ WriteFails \/ WarmupDone
           \/ \E t \in Asks : Ask(t) \/ UseCorpus(t) \/ AnswerCold(t)
BY ThreadsFinite, Zenon DEF Next, OwnStep, ApiStep, AskStep, RuntimeStep

LEMMA AskInit == Init => AskInv
<1> SUFFICES ASSUME Init PROVE AskInv
  OBVIOUS
<1>1. /\ built = 0 /\ runtime = 0 /\ status = "warming"
      /\ \A t \in Threads : /\ thread[t].at \in {"idle", "enter"}
                            /\ thread[t].service = 0 /\ thread[t].label = "none"
  BY DEF Init, Idle, NoService
<1>2. TypeOK
  <2>1. thread \in [Threads -> [at : Places, service : 0 .. built, label : Labels]]
    BY DEF Init, Idle, NoService, Places, Labels
  <2> QED
    <3>1. snapshot \in [corpus : Corpora, fits : BOOLEAN]
      <4>1. PICK c \in Corpora : snapshot = [corpus |-> c, fits |-> c # "none"]
        BY DEF Init
      <4> QED
        BY <4>1
    <3>2. service \in [Services -> [cache : Corpora, check : {"pending", "passed", "failed"}]]
      BY DEF Init, Empty, Corpora
    <3>3. built \in {0} \cup Services /\ runtime \in 0 .. built
          /\ status \in {"warming", "ready", "error"}
      BY <1>1
    <3>4. startable \in BOOLEAN /\ api \in Corpora /\ failed \in BOOLEAN
      BY DEF Init, Corpora
    <3> QED
      BY <2>1, <3>1, <3>2, <3>3, <3>4, Zenon DEF TypeOK
<1>3. ServicesInv
  <2>1. Builders = {}
    BY <1>1 DEF Builders
  <2> QED
    BY <1>1, <2>1, FS_EmptySet, ThreadsFinite DEF ServicesInv, NoService
<1>4. CachesInv /\ WarmupInv /\ LabelsInv
  BY <1>1, ThreadsFinite DEF CachesInv, WarmupInv, LabelsInv, Init, Empty, Mine
<1> QED
  BY <1>2, <1>3, <1>4 DEF AskInv

(* A new process has nothing built.                                        *)
LEMMA RestartKeeps ==
    ASSUME AskInv, Restart
    PROVE  AskInv'
<1>1. /\ built' = 0 /\ runtime' = 0 /\ status' = "warming" /\ failed' = FALSE
      /\ \A t \in Threads : /\ thread'[t].at \in {"idle", "enter"}
                            /\ thread'[t].service = 0 /\ thread'[t].label = "none"
  BY DEF Restart, StartProcess, Idle, NoService
<1>2. TypeOK'
  <2>1. thread' \in [Threads -> [at : Places, service : 0 .. built', label : Labels]]
    BY <1>1 DEF Restart, StartProcess, Idle, NoService, Places, Labels
  <2>2. service' \in [Services -> [cache : Corpora, check : {"pending", "passed", "failed"}]]
    BY DEF Restart, StartProcess, Empty, Corpora
  <2> QED
    <3>1. built' \in {0} \cup Services /\ runtime' \in 0 .. built'
          /\ status' \in {"warming", "ready", "error"}
      BY <1>1
    <3>3. failed' \in BOOLEAN
      BY <1>1, Zenon
    <3>2. startable' \in BOOLEAN /\ api' \in Corpora /\ snapshot' \in [corpus : Corpora, fits : BOOLEAN]
      BY DEF AskInv, TypeOK, Restart, outside
    <3> QED
      BY <2>1, <2>2, <3>1, <3>2, <3>3, Zenon DEF TypeOK
<1>3. ServicesInv'
  <2>1. Builders' = {}
    BY <1>1 DEF Builders
  <2> QED
    BY <1>1, <2>1, FS_EmptySet, ThreadsFinite DEF ServicesInv, NoService
<1>4. CachesInv' /\ WarmupInv' /\ LabelsInv'
  BY <1>1, ThreadsFinite DEF CachesInv, WarmupInv, LabelsInv, Restart, StartProcess, Empty, Mine
<1> QED
  BY <1>2, <1>3, <1>4 DEF AskInv

(* No thread is at work on a service that the warm-up does not load.       *)
LEMMA EnterKeeps ==
    ASSUME AskInv, NEW t \in Threads, EnterRuntime(t) \/ ReturnRuntime(t)
    PROVE  AskInv'
<1>0. TypeOK /\ ServicesInv /\ CachesInv /\ WarmupInv /\ LabelsInv
  BY DEF AskInv
<1>1. UNCHANGED <<outside, snapshot, runtime, failed, built, service>>
      /\ (thread[t].at = "enter" \/ (thread[t].at = "return" /\ UNCHANGED status))
  BY DEF EnterRuntime, ReturnRuntime, process
<1>2. PICK a, s, l :
         /\ Moved(t, a, s, l) /\ a \in {"have", "build", "idle"}
         /\ a = "have" => s = runtime /\ s # NoService /\ UNCHANGED status
         /\ a = "build" => runtime = NoService /\ UNCHANGED status
         /\ a # "have" => s = thread[t].service
         /\ l \in {thread[t].label, "regex:fallback"}
         /\ status' = status \/ (t = "warm-up" /\ status' = "error")
  <2>1. CASE ReturnRuntime(t)
    BY <1>0, <2>1, StepsMove DEF ReturnRuntime, ServicesInv, process
  <2>2. CASE EnterRuntime(t) /\ runtime = NoService /\ Raises(t)
    BY <1>0, <2>2, StepsMove
  <2>3. CASE EnterRuntime(t) /\ ~Raises(t)
    BY <1>0, <2>3, StepsMove
  <2> QED
    BY <1>0, <2>1, <2>2, <2>3, StepsMove
<1>3. thread'[t].at = a /\ thread'[t].service = s /\ thread'[t].label = l
      /\ \A u \in Threads \ {t} : thread'[u] = thread[u]
  BY <1>0, <1>2, OthersStay
<1>4. TypeOK'
  <2>1. s \in 0 .. built' /\ l \in Labels /\ built' = built /\ built \in Nat /\ a \in Places
    <3>1. /\ built \in Nat /\ runtime \in 0 .. built
          /\ thread[t].service \in 0 .. built /\ thread[t].label \in Labels
      BY <1>0, ThreadsFinite DEF TypeOK, Services
    <3>2. s \in 0 .. built /\ built' = built
      BY <1>1, <1>2, <3>1
    <3>3. l \in Labels /\ a \in Places
      BY <1>2, <3>1 DEF Labels, Places
    <3> QED
      BY <3>1, <3>2, <3>3
  <2>2. thread' \in [Threads -> [at : Places, service : 0 .. built', label : Labels]]
    BY <1>0, <1>2, <2>1, ThreadTyped
  <2> QED
    BY <1>0, <1>1, <1>2, <2>2 DEF TypeOK, outside
<1>5. ServicesInv'
  <2>1. CASE a # "build"
    BY <1>0, <1>1, <1>2, <2>1, ServicesKept
  <2>2. CASE a = "build"
    <3>1. built = 0 /\ built' = 0
      BY <1>0, <1>1, <1>2, <2>2 DEF ServicesInv
    <3>2. Builders' \subseteq Threads
      BY DEF Builders
    <3>3. 0 + Cardinality(Builders') <= Cardinality(Threads)
      BY <3>2, ThreadsFinite, FS_Subset, FS_CardinalityType
    <3>4. \A u \in Threads :
          /\ thread'[u].at = "return" => runtime # NoService
          /\ thread'[u].at \in {"have", "network", "write-digest", "replace", "done"} =>
                 thread'[u].service # NoService
      BY <1>0, <1>3, <2>2 DEF ServicesInv
    <3> QED
      BY <1>0, <1>1, <3>1, <3>3, <3>4 DEF ServicesInv
  <2> QED
    BY <2>1, <2>2
<1>6. CachesInv'
  BY <1>0, <1>1 DEF CachesInv
<1>7. WarmupInv'
  <2>1. CASE t = "warm-up"
    BY <1>0, <1>1, <1>2, <1>3, <2>1 DEF WarmupInv, Mine
  <2>2. CASE t # "warm-up"
    BY <1>0, <1>1, <1>2, <1>3, <2>2, ThreadsFinite DEF WarmupInv, Mine
  <2> QED
    BY <2>1, <2>2
<1>8. LabelsInv'
  BY <1>0, <1>1, <1>2, <1>3, ThreadsFinite DEF LabelsInv
<1> QED
  BY <1>4, <1>5, <1>6, <1>7, <1>8 DEF AskInv

LEMMA BuildKeeps ==
    ASSUME AskInv, NEW t \in Threads, BuildRuntime(t)
    PROVE  AskInv'
<1>0. TypeOK /\ ServicesInv /\ CachesInv /\ WarmupInv /\ LabelsInv
  BY DEF AskInv
<1>1. /\ UNCHANGED <<outside, snapshot, status, failed, service>>
      /\ thread[t].at = "build" /\ built' = built + 1 /\ runtime' = built + 1
      /\ Moved(t, "return", thread[t].service, thread[t].label)
  BY <1>0, StepsMove DEF BuildRuntime, Places
<1>2. /\ built + 1 \in Services /\ built \in Nat
      /\ built + 1 + Cardinality(Builders') <= Cardinality(Threads)
  BY <1>0, <1>1, ServiceLeft
<1>3. thread'[t].at = "return" /\ thread'[t].service = thread[t].service
      /\ thread'[t].label = thread[t].label /\ \A u \in Threads \ {t} : thread'[u] = thread[u]
  BY <1>0, <1>1, OthersStay
<1>4. TypeOK'
  <2>1. thread[t].service \in 0 .. built /\ thread[t].label \in Labels
    BY <1>0 DEF TypeOK
  <2>2. thread[t].service \in 0 .. built' /\ "return" \in Places /\ built' \in Nat /\ built' >= built
    BY <1>1, <1>2, <2>1 DEF Places
  <2>3. thread' \in [Threads -> [at : Places, service : 0 .. built', label : Labels]]
    BY <1>0, <1>1, <2>1, <2>2, ThreadTyped
  <2>4. built' \in {0} \cup Services /\ runtime' \in 0 .. built'
    BY <1>1, <1>2
  <2> QED
    BY <1>0, <1>1, <2>3, <2>4 DEF TypeOK, outside
<1>5. ServicesInv'
  <2>1. runtime' # NoService /\ built' # 0
    BY <1>1, <1>2 DEF NoService
  <2>2. \A u \in Threads :
          thread'[u].at \in {"have", "network", "write-digest", "replace", "done"} =>
              thread'[u].service # NoService
    BY <1>0, <1>3 DEF ServicesInv
  <2> QED
    BY <1>1, <1>2, <2>1, <2>2 DEF ServicesInv
<1>6. CachesInv'
  BY <1>0, <1>1 DEF CachesInv
<1>7. WarmupInv'
  <2>1. CASE t = "warm-up"
    BY <1>0, <1>1, <1>3, <2>1 DEF WarmupInv, Mine
  <2>2. CASE t # "warm-up"
    BY <1>0, <1>1, <1>3, <2>2, ThreadsFinite DEF WarmupInv, Mine
  <2> QED
    BY <2>1, <2>2
<1>8. LabelsInv'
  BY <1>0, <1>1, <1>3, ThreadsFinite DEF LabelsInv
<1> QED
  BY <1>4, <1>5, <1>6, <1>7, <1>8 DEF AskInv

LEMMA RefusedKeeps ==
    ASSUME AskInv, NEW t \in Threads, StartupRefused(t)
    PROVE  AskInv'
<1>0. TypeOK /\ ServicesInv /\ CachesInv /\ WarmupInv /\ LabelsInv
  BY DEF AskInv
<1>1. UNCHANGED <<outside, snapshot, runtime, built, service>> /\ thread[t].at = "build" /\ failed' = TRUE
  BY DEF StartupRefused
<1>2. PICK l \in {thread[t].label, "regex:fallback"} :
         /\ Moved(t, "idle", thread[t].service, l)
         /\ t # "warm-up" => l = "regex:fallback"
         /\ status' = status \/ (t = "warm-up" /\ status' = "error")
         /\ t = "warm-up" => status' = "error"
  BY <1>0, StepsMove DEF StartupRefused
<1>3. thread'[t].at = "idle" /\ thread'[t].service = thread[t].service
      /\ thread'[t].label = l /\ \A u \in Threads \ {t} : thread'[u] = thread[u]
  BY <1>0, <1>2, OthersStay
<1>4. TypeOK'
  <2>1. thread[t].service \in 0 .. built' /\ l \in Labels /\ "idle" \in Places /\ built' \in Nat
        /\ built' >= built
    BY <1>0, <1>1, <1>2, ThreadsFinite DEF TypeOK, Services, Labels, Places
  <2>2. thread' \in [Threads -> [at : Places, service : 0 .. built', label : Labels]]
    BY <1>0, <1>2, <2>1, ThreadTyped
  <2> QED
    BY <1>0, <1>1, <1>2, <2>2 DEF TypeOK, outside
<1>5. ServicesInv'
  BY <1>0, <1>1, <1>2, ServicesKept
<1>6. CachesInv'
  BY <1>0, <1>1 DEF CachesInv
<1>7. WarmupInv'
  <2>1. CASE t = "warm-up"
    BY <1>0, <1>1, <1>2, <1>3, <2>1 DEF WarmupInv, Mine
  <2>2. CASE t # "warm-up"
    BY <1>0, <1>1, <1>2, <1>3, <2>2, ThreadsFinite DEF WarmupInv, Mine
  <2> QED
    BY <2>1, <2>2
<1>8. LabelsInv'
  BY <1>0, <1>1, <1>2, <1>3, ThreadsFinite DEF LabelsInv
<1> QED
  BY <1>4, <1>5, <1>6, <1>7, <1>8 DEF AskInv

(* What a step of the warm-up proper does: it goes on, and changes at most *)
(* its service, to the export or to a refusal.                             *)
LEMMA WarmupMoves ==
    ASSUME AskInv,
           LoadSnapshot \/ LoadFromApi \/ ApiFails \/ WriteDigest \/ ReplaceSnapshot
              \/ WriteFails \/ WarmupDone
    PROVE  /\ UNCHANGED <<outside, runtime, failed, built>>
           /\ thread["warm-up"].at \in {"have", "network", "write-digest", "replace", "done"}
           /\ snapshot' \in [corpus : Corpora, fits : BOOLEAN]
           /\ \E a \in {"network", "write-digest", "replace", "done", "idle"} :
                 /\ Moved("warm-up", a, Mine, thread["warm-up"].label)
                 /\ \/ service' = service
                    \/ service' = [service EXCEPT ![Mine] = [cache |-> "export", check |-> "passed"]]
                    \/ /\ service[Mine].cache = "none"
                       /\ service' = [service EXCEPT ![Mine] = [cache |-> "none", check |-> "failed"]]
                 /\ a = "network" => service'[Mine].cache = "none"
                 /\ a \in {"write-digest", "replace", "done"} => service'[Mine].cache = "export"
                 /\ \/ status' = status /\ a # "idle"
                    \/ status' = "error" /\ a = "idle"
                    \/ status' = "ready" /\ a = "idle" /\ service'[Mine].cache = "export"
<1>0. TypeOK /\ ServicesInv /\ CachesInv /\ WarmupInv /\ "warm-up" \in Threads
  BY ThreadsFinite DEF AskInv
<1>1. \A from, to \in Places : Goes("warm-up", from, to) =>
          thread["warm-up"].at = from /\ Moved("warm-up", to, Mine, thread["warm-up"].label)
  BY <1>0, StepsMove DEF Mine
<1>2. snapshot \in [corpus : Corpora, fits : BOOLEAN]
      /\ service \in [Services -> [cache : Corpora, check : {"pending", "passed", "failed"}]]
  BY <1>0 DEF TypeOK
<1>3. thread["warm-up"].at \in {"have", "network", "write-digest", "replace", "done"} => Mine \in Services
  BY <1>0, MineBuilt DEF Mine
<1>4. CASE LoadSnapshot
  <2>1. Mine \in Services /\ service[Mine].cache \in {"none", "export"}
    <3>1. Mine \in Services
      BY <1>3, <1>4 DEF LoadSnapshot
    <3> QED
      BY <1>0, <3>1 DEF CachesInv
  <2>2. CASE service[Mine].cache # "none"
    BY <1>1, <1>2, <1>4, <2>1, <2>2 DEF LoadSnapshot, Places
  <2>3. CASE service[Mine].cache = "none" /\ snapshot.fits /\ corpus_matches(snapshot.corpus)
    BY <1>1, <1>2, <1>4, <2>1, <2>3 DEF LoadSnapshot, Adopt, corpus_matches, Places
  <2>4. CASE service[Mine].cache = "none" /\ ~(snapshot.fits /\ corpus_matches(snapshot.corpus))
    BY <1>1, <1>2, <1>4, <2>1, <2>4 DEF LoadSnapshot, Places
  <2> QED
    BY <2>2, <2>3, <2>4
<1>5. CASE LoadFromApi
  <2>1. Goes("warm-up", "network", "write-digest") /\ UNCHANGED <<outside, snapshot, status, runtime, failed, built>>
        /\ service' = [service EXCEPT ![Mine] = [cache |-> "export", check |-> "passed"]]
    BY <1>5 DEF LoadFromApi, Adopt, corpus_matches
  <2>2. thread["warm-up"].at = "network" /\ Moved("warm-up", "write-digest", Mine, thread["warm-up"].label)
    BY <1>1, <2>1 DEF Places
  <2>3. service'[Mine].cache = "export"
    BY <1>2, <1>3, <2>1, <2>2
  <2> QED
    BY <1>2, <2>1, <2>2, <2>3
<1>6. CASE ApiFails
  <2>1. thread["warm-up"].at = "network" /\ UNCHANGED <<outside, snapshot, runtime, failed, built>>
        /\ status' = "error"
        /\ (service' = service \/ service' = [service EXCEPT ![Mine].check = "failed"])
        /\ Moved("warm-up", "idle", Mine, thread["warm-up"].label)
    <3>1. thread' = [thread EXCEPT !["warm-up"].at = "idle"] =>
              Moved("warm-up", "idle", thread["warm-up"].service, thread["warm-up"].label)
      BY <1>0, ThreadMoves DEF Places
    <3> QED
      BY <1>6, <3>1 DEF ApiFails, Raises, Mine
  <2>2. Mine \in Services /\ service[Mine].cache = "none"
    BY <1>0, <1>3, <2>1 DEF WarmupInv
  <2>3. [service[Mine] EXCEPT !.check = "failed"] = [cache |-> "none", check |-> "failed"]
    <3>1. service[Mine] \in [cache : Corpora, check : {"pending", "passed", "failed"}]
      BY <1>2, <2>2
    <3> QED
      BY <2>2, <3>1
  <2>4. [service EXCEPT ![Mine].check = "failed"]
            = [service EXCEPT ![Mine] = [service[Mine] EXCEPT !.check = "failed"]]
    BY Zenon
  <2> QED
    BY <1>2, <2>1, <2>2, <2>3, <2>4
<1>7. CASE WriteDigest \/ ReplaceSnapshot
  <2>1. \/ Goes("warm-up", "write-digest", "replace")
        \/ Goes("warm-up", "replace", "done")
    BY <1>7 DEF WriteDigest, ReplaceSnapshot
  <2>2. UNCHANGED <<outside, process>> /\ snapshot' \in [corpus : Corpora, fits : BOOLEAN]
    <3>1. CASE WriteDigest
      <4>1. snapshot' = [snapshot EXCEPT !.fits = FALSE] /\ UNCHANGED <<outside, process>>
        BY <3>1 DEF WriteDigest
      <4> QED
        BY <1>2, <4>1
    <3>2. CASE ReplaceSnapshot
      BY <3>2 DEF ReplaceSnapshot, Corpora
    <3> QED
      BY <1>7, <3>1, <3>2
  <2>3. thread["warm-up"].at \in {"write-digest", "replace"} => service[Mine].cache = "export"
    BY <1>0 DEF WarmupInv
  <2> QED
    BY <1>1, <2>1, <2>2, <2>3 DEF Places, process
<1>8. CASE WriteFails
  <2>1. thread["warm-up"].at \in {"write-digest", "replace"} /\ UNCHANGED <<outside, snapshot, process>>
        /\ Moved("warm-up", "done", Mine, thread["warm-up"].label)
    <3>1. thread' = [thread EXCEPT !["warm-up"].at = "done"] =>
              Moved("warm-up", "done", thread["warm-up"].service, thread["warm-up"].label)
      BY <1>0, ThreadMoves DEF Places
    <3> QED
      BY <1>8, <3>1 DEF WriteFails, Mine
  <2>2. service[Mine].cache = "export"
    BY <1>0, <2>1 DEF WarmupInv
  <2> QED
    BY <1>2, <2>1, <2>2 DEF process
<1>9. CASE WarmupDone
  <2>1. Goes("warm-up", "done", "idle") /\ status' = "ready"
        /\ UNCHANGED <<outside, snapshot, runtime, failed, built, service>>
    BY <1>9 DEF WarmupDone
  <2>2. thread["warm-up"].at = "done" /\ Moved("warm-up", "idle", Mine, thread["warm-up"].label)
    BY <1>1, <2>1 DEF Places
  <2>3. service[Mine].cache = "export"
    BY <1>0, <2>2 DEF WarmupInv
  <2> QED
    BY <1>2, <2>1, <2>2, <2>3
<1> QED
  BY <1>4, <1>5, <1>6, <1>7, <1>8, <1>9

LEMMA WarmupKeeps ==
    ASSUME AskInv,
           LoadSnapshot \/ LoadFromApi \/ ApiFails \/ WriteDigest \/ ReplaceSnapshot
              \/ WriteFails \/ WarmupDone
    PROVE  AskInv'
<1>0. TypeOK /\ ServicesInv /\ CachesInv /\ WarmupInv /\ LabelsInv /\ "warm-up" \in Threads
  BY ThreadsFinite DEF AskInv
<1>1. /\ UNCHANGED <<outside, runtime, failed, built>>
      /\ thread["warm-up"].at \in {"have", "network", "write-digest", "replace", "done"}
      /\ snapshot' \in [corpus : Corpora, fits : BOOLEAN]
  BY WarmupMoves
<1>2. PICK a \in {"network", "write-digest", "replace", "done", "idle"} :
         /\ Moved("warm-up", a, Mine, thread["warm-up"].label)
         /\ \/ service' = service
            \/ service' = [service EXCEPT ![Mine] = [cache |-> "export", check |-> "passed"]]
            \/ /\ service[Mine].cache = "none"
               /\ service' = [service EXCEPT ![Mine] = [cache |-> "none", check |-> "failed"]]
         /\ a = "network" => service'[Mine].cache = "none"
         /\ a \in {"write-digest", "replace", "done"} => service'[Mine].cache = "export"
         /\ \/ status' = status /\ a # "idle"
            \/ status' = "error" /\ a = "idle"
            \/ status' = "ready" /\ a = "idle" /\ service'[Mine].cache = "export"
  BY WarmupMoves, Zenon
<1>3. /\ thread'["warm-up"].at = a /\ thread'["warm-up"].service = Mine
      /\ thread'["warm-up"].label = thread["warm-up"].label
      /\ \A u \in Threads \ {"warm-up"} : thread'[u] = thread[u]
  BY <1>0, <1>2, OthersStay
<1>4. Mine \in Services /\ Mine # NoService /\ Mine' = Mine
  BY <1>0, <1>1, <1>3, MineBuilt DEF Mine, ServicesInv
<1>5. service \in [Services -> [cache : Corpora, check : {"pending", "passed", "failed"}]]
  BY <1>0 DEF TypeOK
<1>6. TypeOK'
  <2>1. /\ Mine \in 0 .. built' /\ thread["warm-up"].label \in Labels /\ a \in Places
        /\ built' \in Nat /\ built' >= built
    BY <1>0, <1>1, ThreadsFinite DEF TypeOK, Services, Places, Mine
  <2>2. thread' \in [Threads -> [at : Places, service : 0 .. built', label : Labels]]
    BY <1>0, <1>2, <2>1, ThreadTyped
  <2>3. service' \in [Services -> [cache : Corpora, check : {"pending", "passed", "failed"}]]
    BY <1>2, <1>4, <1>5 DEF Corpora
  <2>4. status' \in {"warming", "ready", "error"}
    BY <1>0, <1>2 DEF TypeOK
  <2>5. /\ startable' \in BOOLEAN /\ api' \in Corpora /\ failed' \in BOOLEAN
        /\ built' \in {0} \cup Services /\ runtime' \in 0 .. built'
    BY <1>0, <1>1 DEF TypeOK, outside
  <2> QED
    BY <1>1, <2>2, <2>3, <2>4, <2>5, Zenon DEF TypeOK
<1>7. ServicesInv'
  BY <1>0, <1>1, <1>2, <1>4, ServicesKept
<1>8. CachesInv'
  BY <1>0, <1>2, <1>4, <1>5 DEF CachesInv
<1>9. WarmupInv'
  <2>1. thread["warm-up"].at # "idle" /\ status # "ready"
    BY <1>0, <1>1 DEF WarmupInv
  <2> QED
    BY <1>2, <1>3, <1>4, <2>1 DEF WarmupInv
<1>10. LabelsInv'
  <2>1. \A i \in Services : service[i].cache = "export" => service'[i].cache = "export"
    BY <1>2, <1>4, <1>5
  <2>2. ASSUME NEW t \in Asks, thread[t].service # NoService PROVE thread[t].service \in Services
    <3>1. thread[t].service \in 0 .. built /\ built \in {0} \cup Services
      BY <1>0, ThreadsFinite DEF TypeOK
    <3> QED
      BY <2>2, <3>1, ThreadsFinite DEF Services, NoService
  <2>3. \A t \in Asks : thread'[t] = thread[t]
    BY <1>3, ThreadsFinite, AskAssumption
  <2> QED
    BY <1>0, <2>1, <2>2, <2>3 DEF LabelsInv
<1> QED
  BY <1>6, <1>7, <1>8, <1>9, <1>10 DEF AskInv

(* A question is labelled "api" only by what its service holds then.       *)
LEMMA QuestionKeeps ==
    ASSUME AskInv, NEW t \in Asks, Ask(t) \/ UseCorpus(t) \/ AnswerCold(t)
    PROVE  AskInv'
<1>0. /\ TypeOK /\ ServicesInv /\ CachesInv /\ WarmupInv /\ LabelsInv
      /\ t \in Threads /\ "warm-up" \in Threads /\ t # "warm-up"
  BY ThreadsFinite, AskAssumption DEF AskInv
<1>1. UNCHANGED <<outside, snapshot, process>>
  BY DEF Ask, UseCorpus, AnswerCold
<1>2. PICK a \in {"idle", "enter", "cold"}, l \in Labels :
         /\ Moved(t, a, thread[t].service, l)
         /\ l = "api" => /\ a = "idle" /\ thread[t].at = "have"
                         /\ service[thread[t].service].cache # "none"
  <2>1. CASE Ask(t)
    <3>1. CASE Answers(t, "regex:warmup-failed")
      BY <1>0, <3>1, StepsMove DEF Labels
    <3>2. CASE thread' = [thread EXCEPT ![t].at = "enter", ![t].label = "none"]
      <4>1. Moved(t, "enter", thread[t].service, "none")
        BY <1>0, <3>2, ThreadMoves
      <4> QED
        BY <4>1 DEF Labels
    <3> QED
      BY <2>1, <3>1, <3>2 DEF Ask
  <2>2. CASE UseCorpus(t)
    <3>1. thread[t].at = "have"
      BY <2>2 DEF UseCorpus
    <3>2. \/ Answers(t, "api") /\ service[thread[t].service].cache # "none"
          \/ Goes(t, "have", "cold")
      BY <2>2, Zenon DEF UseCorpus
    <3>3. thread[t].label \in Labels /\ thread[t].label # "api"
      BY <1>0, <3>1 DEF LabelsInv, TypeOK
    <3>4. CASE Answers(t, "api") /\ service[thread[t].service].cache # "none"
      BY <1>0, <3>1, <3>4, StepsMove DEF Labels
    <3>5. CASE Goes(t, "have", "cold")
      <4>1. Moved(t, "cold", thread[t].service, thread[t].label)
        BY <1>0, <3>5, StepsMove DEF Places
      <4> QED
        BY <3>3, <4>1
    <3> QED
      BY <3>2, <3>4, <3>5
  <2>3. CASE AnswerCold(t)
    <3>1. Answers(t, "regex:warming") \/ Answers(t, "regex:warmup-failed")
      BY <2>3, Zenon DEF AnswerCold
    <3> QED
      BY <1>0, <3>1, StepsMove DEF Labels
  <2> QED
    BY <2>1, <2>2, <2>3
<1>3. /\ thread'[t].at = a /\ thread'[t].service = thread[t].service /\ thread'[t].label = l
      /\ \A u \in Threads \ {t} : thread'[u] = thread[u]
  BY <1>0, <1>2, OthersStay
<1>4. TypeOK'
  <2>1. thread[t].service \in 0 .. built' /\ a \in Places /\ built' \in Nat /\ built' >= built
    BY <1>0, <1>1, ThreadsFinite DEF TypeOK, Services, Places, process
  <2>2. thread' \in [Threads -> [at : Places, service : 0 .. built', label : Labels]]
    BY <1>0, <1>2, <2>1, ThreadTyped
  <2> QED
    BY <1>0, <1>1, <2>2 DEF TypeOK, outside, process
<1>5. ServicesInv'
  BY <1>0, <1>1, <1>2, ServicesKept DEF process
<1>6. CachesInv'
  BY <1>0, <1>1 DEF CachesInv, process
<1>7. WarmupInv'
  BY <1>0, <1>1, <1>3 DEF WarmupInv, Mine, process
<1>8. LabelsInv'
  <2>1. ASSUME l = "api"
        PROVE  a = "idle" /\ thread[t].service # NoService /\ service[thread[t].service].cache = "export"
    <3>1. thread[t].service \in Services /\ thread[t].service # NoService
      BY <1>0, <1>2, <2>1, MineBuilt DEF ServicesInv
    <3> QED
      BY <1>0, <1>2, <2>1, <3>1 DEF CachesInv
  <2> QED
    BY <1>0, <1>1, <1>3, <2>1, ThreadsFinite DEF LabelsInv, process
<1> QED
  BY <1>4, <1>5, <1>6, <1>7, <1>8 DEF AskInv

LEMMA OutsideKeeps ==
    ASSUME AskInv, Changes \/ UNCHANGED vars
    PROVE  AskInv'
<1>0. TypeOK /\ ServicesInv /\ CachesInv /\ WarmupInv /\ LabelsInv
  BY DEF AskInv
<1>1. UNCHANGED <<snapshot, process, thread>> /\ (startable' \in BOOLEAN \/ startable' = startable)
      /\ (api' \in Corpora \/ api' = api)
  BY DEF Changes, vars, process
<1>2. TypeOK'
  BY <1>0, <1>1 DEF TypeOK, process
<1>3. ServicesInv' /\ CachesInv' /\ WarmupInv' /\ LabelsInv'
  BY <1>0, <1>1 DEF ServicesInv, CachesInv, WarmupInv, LabelsInv, Builders, Mine, process
<1> QED
  BY <1>2, <1>3 DEF AskInv

LEMMA AskInvariant == Spec => []AskInv
<1>1. AskInv /\ [Next]_vars => AskInv'
  BY Steps, OutsideKeeps, RestartKeeps, EnterKeeps, BuildKeeps, RefusedKeeps, WarmupKeeps,
     QuestionKeeps, Zenon
<1> QED
  BY <1>1, AskInit, PTL DEF Spec

(* A thread that has a service has one that was built in this life of the  *)
(* process, and no more services are built than there are threads.         *)
THEOREM AskRuntimeTypeCorrect == Spec => []TypeOK
<1>1. AskInv => TypeOK
  BY DEF AskInv
<1> QED
  BY <1>1, AskInvariant, PTL

(* An answer is labelled "api" only from the export that the binding       *)
(* records, and "ready" is said of a service that holds it, for any number *)
(* of questions, of changes outside and of restarts.                       *)
THEOREM OnlyTheExportAnswersCorrect == Spec => []OnlyTheExportAnswers
<1>1. ASSUME AskInv PROVE OnlyTheExportAnswers
  <2>1. ASSUME NEW t \in Asks, thread[t].label = "api"
        PROVE  service[thread[t].service] = [cache |-> "export", check |-> "passed"]
    <3>1. thread[t].service # 0 /\ service[thread[t].service].cache = "export"
      BY <1>1, <2>1 DEF AskInv, LabelsInv, NoService
    <3>2. thread[t].service \in 0 .. built /\ built \in {0} \cup Services
      BY <1>1, ThreadsFinite DEF AskInv, TypeOK
    <3>3. thread[t].service \in Services
      BY <3>1, <3>2, ThreadsFinite DEF Services
    <3> QED
      BY <1>1, <3>1, <3>3 DEF AskInv, CachesInv
  <2> QED
    BY <1>1, <2>1 DEF OnlyTheExportAnswers, AskInv, WarmupInv
<1> QED
  BY <1>1, AskInvariant, PTL
====
