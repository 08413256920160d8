------------------------- MODULE ViewerServerProofs -------------------------
EXTENDS ViewerServer, FiniteSetTheorems, TLAPS

Request == [step : Steps, site : Sites, began : 0 .. MaxMoves, text : Texts, named : Texts,
            current : BOOLEAN]

(* The lock that a request is inside of.                                   *)
SiteSteps == {"recheck", "load", "write-index", "write-pages"}
ParseSteps == {"look-up", "parse", "remember"}
IndexSteps == {"is-current", "name-head", "read-files", "record-head", "name-built-head"}
LockOf(r) ==
    IF r.step \in SiteSteps THEN r.site
    ELSE IF r.step \in ParseSteps THEN "ask"
    ELSE IF r.step \in IndexSteps THEN "guide" ELSE "none"

Slotted(r) == r.step \in {"model"} \cup GuideSteps
Holders == {t \in Threads : Slotted(req[t])}

SlotInv == free \in Nat /\ free + Cardinality(Holders) = Slots

LockInv ==
    /\ \A l \in Locks : held[l] = {t \in Threads : LockOf(req[t]) = l}
    /\ \A t, u \in Threads : LockOf(req[t]) = LockOf(req[u]) /\ LockOf(req[t]) \in Locks => t = u

(* The last move of the checkout either shows or is hidden.                *)
TreesInv ==
    /\ newest <= version["work"] /\ head <= version["work"] /\ hidden <= version["work"]
    /\ newest = version["work"] \/ hidden = version["work"]

(* The index page of the working tree bears a time that has been, and the  *)
(* remembered parse one that is no later than its end.                     *)
StampInv == site["work"].stamp <= version["work"]
GroundInv ==
    grounding["work"].text # Nothing =>
        grounding["work"].time <= grounding["work"].until /\ grounding["work"].until <= version["work"]

(* What a request has found, as long as it matters: in a tree that has     *)
(* moved ver times, the last hidden move being hid and that of HEAD hd,    *)
(* with the site and the guide as they are.                                *)
Building(r) == r.step \in {"want-site", "recheck", "load", "write-index", "write-pages"}
Found(r, ver, hid, hd, stamp, g) ==
    /\ r.began <= ver[r.site]
    /\ Building(r) => r.current = FALSE
    /\ r.site = "work" /\ (r.step = "write-pages" \/ (r.step = "serve" /\ r.current))
       => hid > stamp \/ stamp >= r.began
    /\ r.step = "resolve" /\ r.site = "work" => hid > r.named \/ r.named >= r.began
    /\ r.step \in GuideSteps \cup {"wants-a-slot"} => r.site = "work"
    /\ r.step = "record-head" => r.text # Nothing
    /\ hd <= r.began =>
           /\ r.step \in {"name-head", "name-built-head", "search", "answer"} => g.sha = hd
           /\ r.step \in {"search", "answer"} => r.named = hd
           /\ r.step = "answer" => r.text = g.text

RequestsInv ==
    \A t \in Threads : Found(req[t], version, hidden, head, site["work"].stamp, guide)

(* Who builds has found, inside the lock, that its site needs it.          *)
LoadInv == \A t \in Threads : req[t].step = "load" => NeedsBuild(req[t].site)

(* As long as HEAD stands still the index is built once.                   *)
Rebuilds(r) == r.step \in {"read-files", "record-head"}
Searches(r) == r.step \in {"search", "answer"} /\ head <= r.began
GuideInv ==
    /\ guide.text = Nothing => guide.sha = Nothing
    /\ \A t, u \in Threads : Searches(req[t]) => ~Rebuilds(req[u])

ServerInv ==
    /\ ViewerTypeOK /\ SlotInv /\ LockInv /\ TreesInv /\ StampInv /\ GroundInv
    /\ RequestsInv /\ LoadInv /\ GuideInv

New(r, st, x, h, c) ==
    [step |-> st, site |-> r.site, began |-> r.began, text |-> x, named |-> h, current |-> c]

Becomes(t, q) == req' = [req EXCEPT ![t] = q]

(* What each way of writing a request writes.                              *)
LEMMA Writes ==
    ASSUME ViewerTypeOK, NEW t \in Threads, NEW a, NEW x, NEW h, NEW c
    PROVE  /\ req' = [req EXCEPT ![t].step = a]
              => Becomes(t, New(req[t], a, req[t].text, req[t].named, req[t].current))
           /\ req' = [req EXCEPT ![t].step = a, ![t].current = c]
              => Becomes(t, New(req[t], a, req[t].text, req[t].named, c))
           /\ req' = [req EXCEPT ![t].step = a, ![t].text = x]
              => Becomes(t, New(req[t], a, x, req[t].named, req[t].current))
           /\ req' = [req EXCEPT ![t].step = a, ![t].named = h]
              => Becomes(t, New(req[t], a, req[t].text, h, req[t].current))
           /\ req' = [req EXCEPT ![t].step = a, ![t].text = x, ![t].named = h]
              => Becomes(t, New(req[t], a, x, h, req[t].current))
<1>1. req[t] = [step |-> req[t].step, site |-> req[t].site, began |-> req[t].began,
                text |-> req[t].text, named |-> req[t].named, current |-> req[t].current]
  <2>1. req[t] \in Request
    BY DEF ViewerTypeOK, Request
  <2> QED
    BY <2>1 DEF Request
<1>2. ASSUME NEW q, q = [req[t] EXCEPT !.step = a]
      PROVE  q = New(req[t], a, req[t].text, req[t].named, req[t].current)
  BY <1>1, <1>2, Zenon DEF New
<1>3. ASSUME NEW q, q = [req[t] EXCEPT !.step = a, !.current = c]
      PROVE  q = New(req[t], a, req[t].text, req[t].named, c)
  BY <1>1, <1>3, Zenon DEF New
<1>4. ASSUME NEW q, q = [req[t] EXCEPT !.step = a, !.text = x]
      PROVE  q = New(req[t], a, x, req[t].named, req[t].current)
  BY <1>1, <1>4, Zenon DEF New
<1>5. ASSUME NEW q, q = [req[t] EXCEPT !.step = a, !.named = h]
      PROVE  q = New(req[t], a, req[t].text, h, req[t].current)
  BY <1>1, <1>5, Zenon DEF New
<1>6. ASSUME NEW q, q = [req[t] EXCEPT !.step = a, !.text = x, !.named = h]
      PROVE  q = New(req[t], a, x, h, req[t].current)
  BY <1>1, <1>6, Zenon DEF New
<1>7. /\ [req EXCEPT ![t].step = a]
            = [req EXCEPT ![t] = [req[t] EXCEPT !.step = a]]
      /\ [req EXCEPT ![t].step = a, ![t].current = c]
            = [req EXCEPT ![t] = [req[t] EXCEPT !.step = a, !.current = c]]
      /\ [req EXCEPT ![t].step = a, ![t].text = x]
            = [req EXCEPT ![t] = [req[t] EXCEPT !.step = a, !.text = x]]
      /\ [req EXCEPT ![t].step = a, ![t].named = h]
            = [req EXCEPT ![t] = [req[t] EXCEPT !.step = a, !.named = h]]
      /\ [req EXCEPT ![t].step = a, ![t].text = x, ![t].named = h]
            = [req EXCEPT ![t] = [req[t] EXCEPT !.step = a, !.text = x, !.named = h]]
  BY Zenon
<1> QED
  BY <1>2, <1>3, <1>4, <1>5, <1>6, <1>7, Zenon DEF Becomes

LEMMA NewFields ==
    ASSUME NEW r, NEW st, NEW x, NEW h, NEW c
    PROVE  /\ New(r, st, x, h, c).step = st /\ New(r, st, x, h, c).site = r.site
           /\ New(r, st, x, h, c).began = r.began /\ New(r, st, x, h, c).text = x
           /\ New(r, st, x, h, c).named = h /\ New(r, st, x, h, c).current = c
  BY DEF New

(* A request that is written leaves the others alone.                      *)
LEMMA OthersStay ==
    ASSUME req \in [Threads -> Request], NEW t \in Threads, NEW q \in Request, Becomes(t, q)
    PROVE  /\ req' \in [Threads -> Request]
           /\ req'[t] = q /\ \A u \in Threads \ {t} : req'[u] = req[u]
  BY DEF Becomes

-----------------------------------------------------------------------------
(* Slots.                                                                  *)

LEMMA HoldersFinite ==
    ASSUME ServerAssumption
    PROVE  /\ IsFiniteSet(Holders) /\ Cardinality(Holders) \in Nat
  BY FS_Subset, FS_CardinalityType DEF ServerAssumption, Holders

LEMMA SlotsKept ==
    ASSUME ServerAssumption, SlotInv, req \in [Threads -> Request], NEW t \in Threads,
           NEW q \in Request, Becomes(t, q), (Slotted(q) <=> Slotted(req[t])), free' = free
    PROVE  SlotInv'
<1>1. req'[t] = q /\ \A u \in Threads \ {t} : req'[u] = req[u]
  BY OthersStay
<1>2. Holders' = Holders
  BY <1>1 DEF Holders, Slotted
<1> QED
  BY <1>2 DEF SlotInv

LEMMA SlotTaken ==
    ASSUME ServerAssumption, SlotInv, req \in [Threads -> Request], NEW t \in Threads,
           NEW q \in Request, Becomes(t, q), Slotted(q), ~Slotted(req[t]), free > 0,
           free' = free - 1
    PROVE  SlotInv'
<1>1. req'[t] = q /\ \A u \in Threads \ {t} : req'[u] = req[u]
  BY OthersStay
<1>2. Holders' = Holders \cup {t} /\ t \notin Holders
  BY <1>1 DEF Holders, Slotted
<1>3. Cardinality(Holders') = Cardinality(Holders) + 1 /\ Cardinality(Holders) \in Nat
  BY <1>2, HoldersFinite, FS_AddElement
<1> QED
  BY <1>3 DEF SlotInv

LEMMA SlotReturned ==
    ASSUME ServerAssumption, SlotInv, req \in [Threads -> Request], NEW t \in Threads,
           NEW q \in Request, Becomes(t, q), ~Slotted(q), Slotted(req[t]), free' = free + 1
    PROVE  SlotInv'
<1>1. req'[t] = q /\ \A u \in Threads \ {t} : req'[u] = req[u]
  BY OthersStay
<1>2. Holders' = Holders \ {t} /\ t \in Holders
  BY <1>1 DEF Holders, Slotted
<1>3. Cardinality(Holders') = Cardinality(Holders) - 1 /\ Cardinality(Holders) \in Nat
  BY <1>2, HoldersFinite, FS_RemoveElement
<1> QED
  BY <1>3 DEF SlotInv

-----------------------------------------------------------------------------
(* Locks.                                                                  *)

LEMMA LocksKept ==
    ASSUME LockInv, req \in [Threads -> Request], NEW t \in Threads, NEW q \in Request,
           Becomes(t, q), LockOf(q) = LockOf(req[t]), held' = held
    PROVE  LockInv'
<1>1. req'[t] = q /\ \A u \in Threads \ {t} : req'[u] = req[u]
  BY OthersStay
<1>2. \A u \in Threads : LockOf(req'[u]) = LockOf(req[u])
  BY <1>1
<1>3. \A l \in Locks : held'[l] = {u \in Threads : LockOf(req'[u]) = l}
  BY <1>2 DEF LockInv
<1>4. \A u, w \in Threads : LockOf(req'[u]) = LockOf(req'[w]) /\ LockOf(req'[u]) \in Locks => u = w
  BY <1>2 DEF LockInv
<1> QED
  BY <1>3, <1>4 DEF LockInv, LockOf

LEMMA LockTaken ==
    ASSUME LockInv, req \in [Threads -> Request], held \in [Locks -> SUBSET Threads],
           NEW t \in Threads, NEW q \in Request, NEW l \in Locks,
           Becomes(t, q), LockOf(req[t]) = "none", LockOf(q) = l, Acquire(t, l)
    PROVE  LockInv' /\ held' \in [Locks -> SUBSET Threads]
<1>1. req'[t] = q /\ \A u \in Threads \ {t} : req'[u] = req[u]
  BY OthersStay
<1>2. held[l] = {} /\ held' = [held EXCEPT ![l] = {t}]
  BY DEF Acquire
<1>3. "none" \notin Locks
  BY DEF Locks, Sites
<1>4. \A u \in Threads : LockOf(req[u]) # l
  BY <1>2 DEF LockInv
<1>5. ASSUME NEW m \in Locks
      PROVE  held'[m] = {u \in Threads : LockOf(req'[u]) = m}
  BY <1>1, <1>2, <1>3, <1>4 DEF LockInv
<1>6. ASSUME NEW u \in Threads, NEW w \in Threads, LockOf(req'[u]) = LockOf(req'[w]),
             LockOf(req'[u]) \in Locks
      PROVE  u = w
  BY <1>1, <1>4, <1>6 DEF LockInv
<1>7. held' \in [Locks -> SUBSET Threads]
  BY <1>2
<1> QED
  BY <1>5, <1>6, <1>7 DEF LockInv, LockOf

LEMMA LockReleased ==
    ASSUME LockInv, req \in [Threads -> Request], held \in [Locks -> SUBSET Threads],
           NEW t \in Threads, NEW q \in Request, NEW l \in Locks,
           Becomes(t, q), LockOf(req[t]) = l, LockOf(q) = "none", Release(t, l)
    PROVE  LockInv' /\ held' \in [Locks -> SUBSET Threads]
<1>1. req'[t] = q /\ \A u \in Threads \ {t} : req'[u] = req[u]
  BY OthersStay
<1>2. held' = [held EXCEPT ![l] = held[l] \ {t}]
  BY DEF Release
<1>3. "none" \notin Locks
  BY DEF Locks, Sites
<1>5. ASSUME NEW m \in Locks
      PROVE  held'[m] = {u \in Threads : LockOf(req'[u]) = m}
  <2>1. held[m] = {u \in Threads : LockOf(req[u]) = m}
    BY DEF LockInv
  <2>2. CASE m = l
    BY <1>1, <1>2, <1>3, <2>1, <2>2
  <2>3. CASE m # l
    BY <1>1, <1>2, <1>3, <2>1, <2>3
  <2> QED
    BY <2>2, <2>3
<1>6. ASSUME NEW u \in Threads, NEW w \in Threads, LockOf(req'[u]) = LockOf(req'[w]),
             LockOf(req'[u]) \in Locks
      PROVE  u = w
  BY <1>1, <1>3, <1>6 DEF LockInv
<1>7. held' \in [Locks -> SUBSET Threads]
  BY <1>2
<1> QED
  BY <1>5, <1>6, <1>7 DEF LockInv, LockOf

-----------------------------------------------------------------------------
(* A step of one request.                                                  *)

SlotEffect(t, q) ==
    \/ (Slotted(q) <=> Slotted(req[t])) /\ free' = free
    \/ Slotted(q) /\ ~Slotted(req[t]) /\ free > 0 /\ free' = free - 1
    \/ ~Slotted(q) /\ Slotted(req[t]) /\ free' = free + 1

LockEffect(t, q) ==
    \/ LockOf(q) = LockOf(req[t]) /\ held' = held
    \/ LockOf(req[t]) = "none" /\ LockOf(q) \in Locks /\ Acquire(t, LockOf(q))
    \/ LockOf(req[t]) \in Locks /\ LockOf(q) = "none" /\ Release(t, LockOf(req[t]))

LEMMA Known ==
    ASSUME ServerAssumption, ServerInv, NEW t \in Threads
    PROVE  /\ req \in [Threads -> Request] /\ req[t] \in Request
           /\ req[t].step \in Steps /\ req[t].site \in Sites /\ req[t].began \in Nat
           /\ req[t].text \in Texts /\ req[t].named \in Texts /\ req[t].current \in BOOLEAN
           /\ \A s \in Sites : version[s] \in Texts /\ version[s] \in Nat
           /\ site["work"].stamp \in Int /\ site["work"].stamp <= version["work"]
           /\ MaxMoves \in Nat
           /\ newest \in Nat /\ head \in Nat /\ hidden \in Nat /\ head \in Texts /\ newest \in Texts
           /\ newest <= version["work"] /\ head <= version["work"] /\ hidden <= version["work"]
           /\ newest = version["work"] \/ hidden = version["work"]
           /\ Found(req[t], version, hidden, head, site["work"].stamp, guide)
<1>1. req \in [Threads -> Request]
  BY DEF ServerInv, ViewerTypeOK, Request
<1>2. req[t] \in Request
  BY <1>1
<1>3. MaxMoves \in Nat
  BY DEF ServerAssumption
<1>4. /\ req[t].step \in Steps /\ req[t].site \in Sites /\ req[t].began \in Nat
      /\ req[t].text \in Texts /\ req[t].named \in Texts /\ req[t].current \in BOOLEAN
  BY <1>2, <1>3 DEF Request
<1>5. version \in [Sites -> 0 .. MaxMoves] /\ \A s \in Sites : site[s].stamp \in Texts
  BY DEF ServerInv, ViewerTypeOK
<1>6. \A s \in Sites : version[s] \in Texts /\ version[s] \in Nat
  BY <1>3, <1>5 DEF Texts
<1>7. site["work"].stamp \in Int
  BY <1>3, <1>5 DEF Texts, Nothing, Sites
<1>8. newest \in Nat /\ head \in Nat /\ hidden \in Nat /\ head \in Texts /\ newest \in Texts
  BY <1>3 DEF ServerInv, ViewerTypeOK, Texts
<1> QED
  BY <1>1, <1>2, <1>3, <1>4, <1>6, <1>7, <1>8 DEF ServerInv, RequestsInv, StampInv, TreesInv

LEMMA RequestStep ==
    ASSUME ServerAssumption, ServerInv, NEW t \in Threads, NEW q \in Request, Becomes(t, q),
           UNCHANGED <<trees, guide>>,
           site' \in [Sites -> [index : Texts, stamp : Texts, pages : Texts]], tree' \in Texts,
           grounding' \in [Sites -> [text : Texts, time : Texts, until : Texts]],
           requests' \in 0 .. MaxRequests, restarts' \in 0 .. MaxRestarts,
           SlotEffect(t, q), LockEffect(t, q),
           site'["work"].stamp \in {site["work"].stamp, version["work"]},
           Found(q, version, hidden, head, site'["work"].stamp, guide),
           Searches(q) => Searches(req[t]) \/ LockOf(req[t]) = "guide",
           Rebuilds(q) => Rebuilds(req[t]) \/ guide.sha # head,
           GroundInv',
           \A s \in Sites : site'[s] # site[s] => LockOf(req[t]) = s,
           q.step = "load" => site' = site /\ NeedsBuild(q.site)
    PROVE  ServerInv'
<1>1. ViewerTypeOK /\ SlotInv /\ LockInv /\ StampInv /\ RequestsInv /\ LoadInv /\ GuideInv
  BY DEF ServerInv
<1>u. version' = version /\ newest' = newest /\ head' = head /\ hidden' = hidden /\ guide' = guide
  BY DEF trees
<1>2. req \in [Threads -> Request] /\ held \in [Locks -> SUBSET Threads]
  BY <1>1 DEF ViewerTypeOK, Request
<1>3. req' \in [Threads -> Request] /\ req'[t] = q /\ \A u \in Threads \ {t} : req'[u] = req[u]
  BY <1>2, OthersStay
<1>4. SlotInv'
  BY <1>1, <1>2, SlotsKept, SlotTaken, SlotReturned DEF SlotEffect
<1>5. LockInv' /\ held' \in [Locks -> SUBSET Threads]
  BY <1>1, <1>2, LocksKept, LockTaken, LockReleased DEF LockEffect
<1>6. free' \in 0 .. Slots
  <2>1. free' \in Nat /\ free' + Cardinality(Holders') = Slots
    BY <1>4 DEF SlotInv
  <2>2. Cardinality(Holders') \in Nat
    <3>1. Holders' \subseteq Threads
      BY DEF Holders
    <3> QED
      BY <3>1, FS_Subset, FS_CardinalityType DEF ServerAssumption
  <2> QED
    BY <2>1, <2>2
<1>7. ViewerTypeOK'
  BY <1>1, <1>u, <1>3, <1>5, <1>6 DEF ViewerTypeOK, Request
<1>8. StampInv' /\ TreesInv'
  BY <1>u, Known DEF StampInv, TreesInv, ServerInv
<1>9. RequestsInv'
  <2>1. \A u \in Threads \ {t} : Found(req[u], version, hidden, head, site'["work"].stamp, guide)
    <3>1. SUFFICES ASSUME NEW u \in Threads \ {t}
                   PROVE  Found(req[u], version, hidden, head, site'["work"].stamp, guide)
      OBVIOUS
    <3>2. Found(req[u], version, hidden, head, site["work"].stamp, guide) /\ req[u].began \in Nat
          /\ site["work"].stamp \in Int /\ hidden \in Nat
      BY Known
    <3>3. site'["work"].stamp \in Int
      <4>1. site'["work"].stamp \in Texts /\ MaxMoves \in Nat
        BY DEF Sites, ServerAssumption
      <4> QED
        BY <4>1 DEF Texts, Nothing
    <3>4. /\ req[u].site = "work" => req[u].began <= version["work"]
          /\ version["work"] \in Nat
      BY <3>2, Known DEF Found, Sites
    <3>5. req[u].site = "work" /\ (hidden > site["work"].stamp \/ site["work"].stamp >= req[u].began)
            => hidden > site'["work"].stamp \/ site'["work"].stamp >= req[u].began
      BY <3>2, <3>3, <3>4
    <3> QED
      BY <3>2, <3>5 DEF Found
  <2>2. \A u \in Threads : Found(req'[u], version', hidden', head', site'["work"].stamp, guide')
    BY <1>3, <1>u, <2>1
  <2> QED
    BY <2>2 DEF RequestsInv, Found, Building
<1>10. GuideInv'
  <2>1. \A u \in Threads \ {t} : LockOf(req[t]) = "guide" => ~Rebuilds(req[u])
    <3>1. SUFFICES ASSUME NEW u \in Threads \ {t}, LockOf(req[t]) = "guide", Rebuilds(req[u])
                   PROVE  FALSE
      OBVIOUS
    <3>2. LockOf(req[u]) = "guide"
      BY <3>1 DEF Rebuilds, LockOf, SiteSteps, ParseSteps, IndexSteps
    <3> QED
      BY <1>1, <3>1, <3>2 DEF LockInv, Locks
  <2>2. \A u \in Threads : Searches(req[u]) => guide.sha = head
    BY <1>1 DEF RequestsInv, Found, Searches
  <2>3. Searches(q) => ~Rebuilds(q)
    BY DEF Searches, Rebuilds
  <2>4. \A u, w \in Threads : Searches(req'[u]) => ~Rebuilds(req'[w])
    BY <1>1, <1>3, <2>1, <2>2, <2>3 DEF GuideInv
  <2>5. \A u, w \in Threads : Searches(req[u])' => ~Rebuilds(req[w])'
    BY <1>u, <2>4 DEF Searches, Rebuilds
  <2> QED
    BY <1>1, <1>u, <2>5 DEF GuideInv
<1>11. LoadInv'
  <2>1. ASSUME NEW u \in Threads \ {t}, req[u].step = "load"
        PROVE  NeedsBuild(req[u].site)'
    <3>1. req[u].site \in Sites /\ NeedsBuild(req[u].site)
      BY <1>1, <2>1, Known DEF LoadInv
    <3>2. LockOf(req[u]) = req[u].site /\ req[u].site \in Locks
      BY <2>1, <3>1 DEF LockOf, SiteSteps, Locks
    <3>3. LockOf(req[t]) # req[u].site
      BY <1>1, <3>2 DEF LockInv
    <3>4. site'[req[u].site] = site[req[u].site] /\ req'[u] = req[u]
      BY <1>3, <3>1, <3>3
    <3> QED
      BY <1>u, <3>1, <3>4 DEF NeedsBuild
  <2>2. ASSUME q.step = "load"
        PROVE  NeedsBuild(q.site)'
    BY <1>u, <2>2 DEF NeedsBuild
  <2> QED
    BY <1>3, <2>1, <2>2 DEF LoadInv, NeedsBuild
<1> QED
  BY <1>4, <1>5, <1>7, <1>8, <1>9, <1>10, <1>11 DEF ServerInv

(* A step that writes the request, and neither the files nor the trees.    *)
LEMMA OwnStep ==
    ASSUME ServerAssumption, ServerInv, NEW t \in Threads, NEW q \in Request, Becomes(t, q),
           UNCHANGED <<trees, files, grounding, bounds>>,
           SlotEffect(t, q), LockEffect(t, q),
           Found(q, version, hidden, head, site["work"].stamp, guide),
           Searches(q) => Searches(req[t]) \/ LockOf(req[t]) = "guide",
           Rebuilds(q) => Rebuilds(req[t]) \/ guide.sha # head,
           q.step = "load" => NeedsBuild(q.site)
    PROVE  ServerInv'
<1>1. UNCHANGED <<trees, guide>> /\ version' = version /\ site' = site /\ tree' = tree /\ grounding' = grounding
      /\ requests' = requests /\ restarts' = restarts
  BY DEF files, bounds, trees
<1>2. site' \in [Sites -> [index : Texts, stamp : Texts, pages : Texts]] /\ tree' \in Texts
      /\ grounding' \in [Sites -> [text : Texts, time : Texts, until : Texts]]
      /\ requests' \in 0 .. MaxRequests /\ restarts' \in 0 .. MaxRestarts
  BY <1>1 DEF ServerInv, ViewerTypeOK
<1>3. site'["work"].stamp \in {site["work"].stamp, version["work"]}
  BY <1>1, Known
<1>4. GroundInv'
  BY <1>1 DEF ServerInv, GroundInv
<1> QED
  BY <1>1, <1>2, <1>3, <1>4, RequestStep

(* The request of a thread that has ended.                                 *)
LEMMA IdleFound ==
    ASSUME ServerAssumption, ServerInv, NEW t \in Threads
    PROVE  /\ Idle \in Request /\ LockOf(Idle) = "none" /\ ~Slotted(Idle)
           /\ Found(Idle, version, hidden, head, site["work"].stamp, guide)
           /\ ~Searches(Idle) /\ ~Rebuilds(Idle) /\ Idle.step # "load"
<1>1. Idle.step = "idle" /\ Idle.site = "work" /\ Idle.began = 0
  BY DEF Idle
<1>2. version["work"] \in Nat /\ MaxMoves \in Nat
  BY Known DEF Sites
<1>3. Idle \in Request
  BY <1>2 DEF Idle, Request, Steps, Sites, Texts
<1>4. LockOf(Idle) = "none" /\ ~Slotted(Idle) /\ ~Searches(Idle) /\ ~Rebuilds(Idle)
      /\ Idle.step # "load"
  BY <1>1 DEF LockOf, SiteSteps, ParseSteps, IndexSteps, Slotted, GuideSteps, Searches, Rebuilds
<1>5. Found(Idle, version, hidden, head, site["work"].stamp, guide)
  BY <1>1, <1>2 DEF Found, Building, GuideSteps
<1> QED
  BY <1>3, <1>4, <1>5

LEMMA EndStep ==
    ASSUME ServerAssumption, ServerInv, NEW t \in Threads, Done(t),
           UNCHANGED <<trees, files, grounding, bounds>>,
           \/ ~Slotted(req[t]) /\ free' = free
           \/ Slotted(req[t]) /\ free' = free + 1,
           \/ LockOf(req[t]) = "none" /\ held' = held
           \/ LockOf(req[t]) \in Locks /\ Release(t, LockOf(req[t]))
    PROVE  ServerInv'
<1>1. Becomes(t, Idle)
  BY DEF Done, Becomes
<1>2. SlotEffect(t, Idle) /\ LockEffect(t, Idle)
  BY IdleFound DEF SlotEffect, LockEffect
<1> QED
  BY <1>1, <1>2, IdleFound, OwnStep

(* Where the steps are.                                                    *)
LEMMA Places ==
    ASSUME NEW r
    PROVE  /\ r.step \in {"check", "want-site", "serve", "want-grounding", "resolve", "wants-a-slot"}
              => LockOf(r) = "none" /\ ~Slotted(r)
           /\ r.step \in SiteSteps => LockOf(r) = r.site /\ ~Slotted(r)
           /\ r.step \in ParseSteps => LockOf(r) = "ask" /\ ~Slotted(r)
           /\ r.step \in {"model", "want-guide", "search", "answer"}
              => LockOf(r) = "none" /\ Slotted(r)
           /\ r.step \in IndexSteps => LockOf(r) = "guide" /\ Slotted(r)
  BY DEF LockOf, SiteSteps, ParseSteps, IndexSteps, Slotted, GuideSteps

LEMMA EndsKeep ==
    ASSUME ServerAssumption, ServerInv, NEW t \in Threads,
           \/ Serve(t) \/ ParseFails(t) \/ RefuseQuestion(t)
           \/ Busy(t, "resolve") \/ Busy(t, "wants-a-slot")
           \/ AnswerQuestion(t) \/ IndexFails(t) \/ FindNothing(t) \/ AnswerFromGuide(t)
    PROVE  ServerInv'
<1>1. "ask" \in Locks /\ "guide" \in Locks
  BY DEF Locks
<1>2. CASE Serve(t) \/ RefuseQuestion(t) \/ Busy(t, "resolve") \/ Busy(t, "wants-a-slot")
  <2>1. /\ req[t].step \in {"serve", "resolve", "wants-a-slot"} /\ Done(t)
        /\ UNCHANGED <<trees, files, grounding, held, free, bounds>>
    BY <1>2 DEF Serve, RefuseQuestion, Busy
  <2> QED
    BY <2>1, Places, EndStep
<1>3. CASE ParseFails(t)
  <2>1. /\ req[t].step \in ParseSteps /\ Done(t) /\ Release(t, "ask")
        /\ UNCHANGED <<trees, files, grounding, free, bounds>>
    BY <1>3 DEF ParseFails, ParseSteps
  <2> QED
    BY <1>1, <2>1, Places, EndStep
<1>4. CASE AnswerQuestion(t) \/ FindNothing(t) \/ AnswerFromGuide(t)
  <2>1. /\ req[t].step \in {"model", "search", "answer"} /\ Done(t) /\ free' = free + 1
        /\ UNCHANGED <<trees, files, grounding, held, bounds>>
    BY <1>4 DEF AnswerQuestion, FindNothing, AnswerFromGuide, ReturnSlot
  <2> QED
    BY <2>1, Places, EndStep
<1>5. CASE IndexFails(t)
  <2>1. /\ req[t].step \in IndexSteps /\ Done(t) /\ free' = free + 1 /\ Release(t, "guide")
        /\ UNCHANGED <<trees, files, grounding, bounds>>
    BY <1>5 DEF IndexFails, IndexSteps, ReturnSlot
  <2> QED
    BY <1>1, <2>1, Places, EndStep
<1> QED
  BY <1>2, <1>3, <1>4, <1>5

LEMMA BeginKeeps ==
    ASSUME ServerAssumption, ServerInv, NEW t \in Threads, NEW s \in Sites,
           NEW first \in {"check", "want-grounding", "wants-a-slot"}, Begin(t, first, s),
           first = "wants-a-slot" => s = "work"
    PROVE  ServerInv'
<1> DEFINE q == [Idle EXCEPT !.step = first, !.site = s, !.began = version[s]]
           p == [step |-> first, site |-> s, began |-> version[s], text |-> Nothing,
                 named |-> Nothing, current |-> FALSE]
<1>1. q = p
  <2>1. ASSUME NEW x, x = q
        PROVE  x = p
    BY <2>1, Zenon DEF Idle
  <2> HIDE DEF q
  <2> QED
    BY <2>1
<1>2. Becomes(t, p)
  <2>1. Becomes(t, q)
    BY DEF Begin, Becomes
  <2> HIDE DEF q, p
  <2> QED
    BY <1>1, <2>1
<1>3. req[t] = Idle /\ LockOf(req[t]) = "none" /\ ~Slotted(req[t])
  BY IdleFound DEF Begin
<1>4. version[s] \in 0 .. MaxMoves /\ version[s] \in Nat /\ version["work"] \in Nat
  BY DEF ServerInv, ViewerTypeOK, Sites, ServerAssumption
<1>5. p \in Request /\ p.step = first /\ p.site = s /\ p.began = version[s]
  BY <1>4 DEF Request, Steps, PageSteps, QuestionSteps, Texts
<1> HIDE DEF p
<1>6. LockOf(p) = "none" /\ ~Slotted(p)
  BY <1>5, Places
<1>7. Found(p, version, hidden, head, site["work"].stamp, guide)
  BY <1>4, <1>5 DEF Found, Building, GuideSteps
<1>8. ~Searches(p) /\ ~Rebuilds(p) /\ p.step # "load"
  BY <1>5 DEF Searches, Rebuilds
<1>9. /\ UNCHANGED <<trees, guide>> /\ site' = site /\ tree' = tree /\ grounding' = grounding
      /\ version' = version
      /\ restarts' = restarts /\ requests' \in 0 .. MaxRequests /\ held' = held /\ free' = free
  BY DEF Begin, files, trees, ServerInv, ViewerTypeOK, ServerAssumption
<1>13. GroundInv'
  BY <1>9 DEF ServerInv, GroundInv
<1>10. site' \in [Sites -> [index : Texts, stamp : Texts, pages : Texts]] /\ tree' \in Texts
       /\ grounding' \in [Sites -> [text : Texts, time : Texts, until : Texts]]
       /\ requests' \in 0 .. MaxRequests /\ restarts' \in 0 .. MaxRestarts
  BY <1>9 DEF ServerInv, ViewerTypeOK
<1>11. site'["work"].stamp \in {site["work"].stamp, version["work"]}
  BY <1>9, Known
<1>12. SlotEffect(t, p) /\ LockEffect(t, p)
  BY <1>3, <1>6, <1>9 DEF SlotEffect, LockEffect
<1> QED
  BY <1>2, <1>5, <1>7, <1>8, <1>9, <1>10, <1>11, <1>12, <1>13, RequestStep

-----------------------------------------------------------------------------
(* Pages.                                                                  *)

LEMMA CheckSiteKeeps ==
    ASSUME ServerAssumption, ServerInv, NEW t \in Threads, CheckSite(t)
    PROVE  ServerInv'
<1> DEFINE to == IF Stale(Mine(t)) THEN "want-site" ELSE "serve"
           ok == ~Stale(Mine(t))
           q  == New(req[t], to, req[t].text, req[t].named, ok)
<1>1. ViewerTypeOK
  BY DEF ServerInv
<1>2. req[t].step = "check" /\ UNCHANGED <<trees, files, grounding, held, free, bounds>>
  BY DEF CheckSite
<1>3. Becomes(t, q)
  BY <1>1, Writes DEF CheckSite
<1>4. /\ q.step = to /\ q.site = req[t].site /\ q.began = req[t].began
      /\ q.text = req[t].text /\ q.named = req[t].named /\ q.current = ok
  BY NewFields
<1>5. to \in {"want-site", "serve"} /\ ok \in BOOLEAN /\ (to = "want-site" => ok = FALSE)
      /\ (ok /\ req[t].site = "work" => newest <= site["work"].stamp)
  <2>1. newest \in Int /\ site["work"].stamp \in Int
    BY Known
  <2> QED
    BY <2>1 DEF Stale, Mine
<1>6. q \in Request
  BY <1>5, Known DEF New, Request, Steps, PageSteps
<1> HIDE DEF q, to, ok
<1>7. Found(q, version, hidden, head, site["work"].stamp, guide)
  <2>1. /\ req[t].began <= version[req[t].site] /\ req[t].began \in Nat
        /\ version["work"] \in Nat /\ site["work"].stamp \in Int
        /\ hidden \in Nat
        /\ (newest = version["work"] \/ hidden = version["work"])
    BY Known DEF Found, Sites
  <2> QED
    BY <1>4, <1>5, <2>1 DEF Found, Building, GuideSteps
<1>8. SlotEffect(t, q) /\ LockEffect(t, q)
  BY <1>2, <1>4, <1>5, Places DEF SlotEffect, LockEffect
<1>9. ~Searches(q) /\ ~Rebuilds(q) /\ q.step # "load"
  BY <1>4, <1>5 DEF Searches, Rebuilds
<1> QED
  BY <1>2, <1>3, <1>6, <1>7, <1>8, <1>9, OwnStep

LEMMA LockSiteKeeps ==
    ASSUME ServerAssumption, ServerInv, NEW t \in Threads, LockSite(t)
    PROVE  ServerInv'
<1> DEFINE q == New(req[t], "recheck", req[t].text, req[t].named, req[t].current)
<1>1. ViewerTypeOK
  BY DEF ServerInv
<1>2. /\ req[t].step = "want-site" /\ Acquire(t, req[t].site)
      /\ UNCHANGED <<trees, files, grounding, free, bounds>>
  BY DEF LockSite, Step, Mine
<1>3. Becomes(t, q)
  BY <1>1, Writes DEF LockSite, Step
<1>4. /\ q.step = "recheck" /\ q.site = req[t].site /\ q.began = req[t].began
      /\ q.text = req[t].text /\ q.named = req[t].named /\ q.current = req[t].current
  BY NewFields
<1>6. q \in Request
  BY Known DEF New, Request, Steps, PageSteps
<1> HIDE DEF q
<1>7. Found(q, version, hidden, head, site["work"].stamp, guide)
  BY <1>2, <1>4, Known DEF Found, Building, GuideSteps
<1>8. SlotEffect(t, q) /\ LockEffect(t, q)
  <2>1. req[t].site \in Locks
    BY Known DEF Locks
  <2> QED
    BY <1>2, <1>4, <2>1, Places DEF SlotEffect, LockEffect, SiteSteps
<1>9. ~Searches(q) /\ ~Rebuilds(q) /\ q.step # "load"
  BY <1>4 DEF Searches, Rebuilds
<1> QED
  BY <1>2, <1>3, <1>6, <1>7, <1>8, <1>9, OwnStep

LEMMA RecheckSiteKeeps ==
    ASSUME ServerAssumption, ServerInv, NEW t \in Threads, RecheckSite(t)
    PROVE  ServerInv'
<1>1. ViewerTypeOK /\ req[t].site \in Locks /\ req[t].site \in Sites
  BY Known DEF ServerInv, Locks
<1>2. req[t].step = "recheck" /\ UNCHANGED <<trees, files, grounding, free, bounds>>
  BY DEF RecheckSite
<1>a. CASE Stale(Mine(t))
  <2> DEFINE q == New(req[t], "load", req[t].text, req[t].named, req[t].current)
  <2>1. Becomes(t, q) /\ held' = held
    BY <1>1, <1>a, Writes DEF RecheckSite
  <2>2. /\ q.step = "load" /\ q.site = req[t].site /\ q.began = req[t].began
        /\ q.text = req[t].text /\ q.named = req[t].named /\ q.current = req[t].current
    BY NewFields
  <2>3. q \in Request
    BY Known DEF New, Request, Steps, PageSteps
  <2> HIDE DEF q
  <2>4. Found(q, version, hidden, head, site["work"].stamp, guide)
    BY <1>2, <2>2, Known DEF Found, Building, GuideSteps
  <2>5. SlotEffect(t, q) /\ LockEffect(t, q)
    BY <1>2, <2>1, <2>2, Places DEF SlotEffect, LockEffect, SiteSteps
  <2>6. ~Searches(q) /\ ~Rebuilds(q) /\ NeedsBuild(q.site)
    <3>1. /\ site["work"].stamp \in Int /\ newest \in Nat /\ version["work"] \in Nat
          /\ newest <= version["work"]
      BY Known DEF Sites
    <3>2. NeedsBuild(q.site)
      <4>1. CASE q.site = "work"
        BY <1>a, <2>2, <3>1, <4>1 DEF Stale, NeedsBuild, Mine
      <4>2. CASE q.site = "ref"
        BY <1>a, <2>2, <4>2 DEF Stale, NeedsBuild, Mine
      <4> QED
        BY <1>1, <2>2, <4>1, <4>2 DEF Sites
    <3> QED
      BY <2>2, <3>2 DEF Searches, Rebuilds
  <2> QED
    BY <1>2, <2>1, <2>3, <2>4, <2>5, <2>6, OwnStep
<1>b. CASE ~Stale(Mine(t))
  <2> DEFINE q == New(req[t], "serve", req[t].text, req[t].named, TRUE)
  <2>1. Becomes(t, q) /\ Release(t, req[t].site)
    BY <1>1, <1>b, Writes DEF RecheckSite, Mine
  <2>2. /\ q.step = "serve" /\ q.site = req[t].site /\ q.began = req[t].began
        /\ q.text = req[t].text /\ q.named = req[t].named /\ q.current = TRUE
    BY DEF New
  <2>3. q \in Request
    BY Known DEF New, Request, Steps, PageSteps
  <2> HIDE DEF q
  <2>4. Found(q, version, hidden, head, site["work"].stamp, guide)
    <3>1. /\ req[t].began <= version[req[t].site] /\ req[t].began \in Nat
          /\ version["work"] \in Nat /\ site["work"].stamp \in Int /\ newest \in Nat
          /\ hidden \in Nat
          /\ (newest = version["work"] \/ hidden = version["work"])
      BY Known DEF Found, Sites
    <3>2. req[t].site = "work" => newest <= site["work"].stamp
      BY <1>b, <3>1 DEF Stale, Mine
    <3> QED
      BY <2>2, <3>1, <3>2 DEF Found, Building, GuideSteps
  <2>5. SlotEffect(t, q) /\ LockEffect(t, q)
    BY <1>1, <1>2, <2>1, <2>2, Places DEF SlotEffect, LockEffect, SiteSteps
  <2>6. ~Searches(q) /\ ~Rebuilds(q) /\ q.step # "load"
    BY <2>2 DEF Searches, Rebuilds
  <2> QED
    BY <1>2, <2>1, <2>3, <2>4, <2>5, <2>6, OwnStep
<1> QED
  BY <1>a, <1>b

LEMMA LoadSiteKeeps ==
    ASSUME ServerAssumption, ServerInv, NEW t \in Threads, LoadSite(t)
    PROVE  ServerInv'
<1> DEFINE q == New(req[t], "write-index", Now(t), req[t].named, req[t].current)
<1>1. ViewerTypeOK /\ Now(t) \in Texts
  BY Known DEF ServerInv, Now, Mine
<1>2. req[t].step = "load" /\ UNCHANGED <<trees, files, grounding, held, free, bounds>>
  BY DEF LoadSite
<1>3. Becomes(t, q)
  BY <1>1, Writes DEF LoadSite
<1>4. /\ q.step = "write-index" /\ q.site = req[t].site /\ q.began = req[t].began
      /\ q.named = req[t].named /\ q.current = req[t].current
  BY NewFields
<1>6. q \in Request
  BY <1>1, Known DEF New, Request, Steps, PageSteps
<1> HIDE DEF q
<1>7. Found(q, version, hidden, head, site["work"].stamp, guide)
  BY <1>2, <1>4, Known DEF Found, Building, GuideSteps
<1>8. SlotEffect(t, q) /\ LockEffect(t, q)
  BY <1>2, <1>4, Places DEF SlotEffect, LockEffect, SiteSteps
<1>9. ~Searches(q) /\ ~Rebuilds(q) /\ q.step # "load"
  BY <1>4 DEF Searches, Rebuilds
<1> QED
  BY <1>2, <1>3, <1>6, <1>7, <1>8, <1>9, OwnStep

LEMMA BuildFailsKeeps ==
    ASSUME ServerAssumption, ServerInv, NEW t \in Threads, BuildFails(t)
    PROVE  ServerInv'
<1> DEFINE q == New(req[t], "serve", req[t].text, req[t].named, req[t].current)
<1>1. ViewerTypeOK /\ req[t].site \in Locks
  BY Known DEF ServerInv, Locks
<1>2. /\ req[t].step \in {"load", "write-index", "write-pages"} /\ Release(t, req[t].site)
      /\ UNCHANGED <<trees, files, grounding, free, bounds>>
  BY DEF BuildFails, Mine
<1>3. Becomes(t, q)
  BY <1>1, Writes DEF BuildFails
<1>4. /\ q.step = "serve" /\ q.site = req[t].site /\ q.began = req[t].began
      /\ q.text = req[t].text /\ q.named = req[t].named /\ q.current = req[t].current
  BY NewFields
<1>6. q \in Request
  BY Known DEF New, Request, Steps, PageSteps
<1> HIDE DEF q
<1>7. Found(q, version, hidden, head, site["work"].stamp, guide)
  <2>1. Found(req[t], version, hidden, head, site["work"].stamp, guide)
    BY Known
  <2>2. q.current = FALSE
    BY <1>2, <1>4, <2>1 DEF Found, Building
  <2> QED
    BY <1>4, <2>1, <2>2 DEF Found, Building, GuideSteps
<1>8. SlotEffect(t, q) /\ LockEffect(t, q)
  BY <1>1, <1>2, <1>4, Places DEF SlotEffect, LockEffect, SiteSteps
<1>9. ~Searches(q) /\ ~Rebuilds(q) /\ q.step # "load"
  BY <1>4 DEF Searches, Rebuilds
<1> QED
  BY <1>2, <1>3, <1>6, <1>7, <1>8, <1>9, OwnStep

(* What the two writes of a build leave.                                   *)
LEMMA SiteWrites ==
    ASSUME site \in [Sites -> [index : Texts, stamp : Texts, pages : Texts]], NEW s \in Sites,
           NEW x \in Texts, NEW y \in Texts
    PROVE  /\ site' = [site EXCEPT ![s].index = x, ![s].stamp = y] =>
                  /\ site' \in [Sites -> [index : Texts, stamp : Texts, pages : Texts]]
                  /\ site'["work"].stamp = IF s = "work" THEN y ELSE site["work"].stamp
                  /\ \A z \in Sites : site'[z] # site[z] => z = s
           /\ site' = [site EXCEPT ![s].pages = x] =>
                  /\ site' \in [Sites -> [index : Texts, stamp : Texts, pages : Texts]]
                  /\ site'["work"].stamp = site["work"].stamp
                  /\ \A z \in Sites : site'[z] # site[z] => z = s
<1> DEFINE a == [index |-> x, stamp |-> y, pages |-> site[s].pages]
           b == [index |-> site[s].index, stamp |-> site[s].stamp, pages |-> x]
<1>1. site[s] \in [index : Texts, stamp : Texts, pages : Texts] /\ "work" \in Sites
  BY DEF Sites
<1>2. site[s] = [index |-> site[s].index, stamp |-> site[s].stamp, pages |-> site[s].pages]
  BY <1>1
<1>3. ASSUME NEW q, q = [site[s] EXCEPT !.index = x, !.stamp = y]
      PROVE  q = a
  BY <1>2, <1>3, Zenon
<1>4. ASSUME NEW q, q = [site[s] EXCEPT !.pages = x]
      PROVE  q = b
  BY <1>2, <1>4, Zenon
<1>5. /\ [site EXCEPT ![s].index = x, ![s].stamp = y]
            = [site EXCEPT ![s] = [site[s] EXCEPT !.index = x, !.stamp = y]]
      /\ [site EXCEPT ![s].pages = x] = [site EXCEPT ![s] = [site[s] EXCEPT !.pages = x]]
  BY Zenon
<1>6. /\ a \in [index : Texts, stamp : Texts, pages : Texts] /\ a.stamp = y
      /\ b \in [index : Texts, stamp : Texts, pages : Texts] /\ b.stamp = site[s].stamp
  BY <1>1
<1> HIDE DEF a, b
<1>7. site' = [site EXCEPT ![s].index = x, ![s].stamp = y] => site' = [site EXCEPT ![s] = a]
  BY <1>3, <1>5, Zenon
<1>8. site' = [site EXCEPT ![s].pages = x] => site' = [site EXCEPT ![s] = b]
  BY <1>4, <1>5, Zenon
<1>9. site' = [site EXCEPT ![s] = a] =>
          /\ site' \in [Sites -> [index : Texts, stamp : Texts, pages : Texts]]
          /\ site'["work"].stamp = IF s = "work" THEN y ELSE site["work"].stamp
          /\ \A z \in Sites : site'[z] # site[z] => z = s
  BY <1>1, <1>6
<1>10. site' = [site EXCEPT ![s] = b] =>
          /\ site' \in [Sites -> [index : Texts, stamp : Texts, pages : Texts]]
          /\ site'["work"].stamp = site["work"].stamp
          /\ \A z \in Sites : site'[z] # site[z] => z = s
  BY <1>1, <1>6
<1> QED
  BY <1>7, <1>8, <1>9, <1>10, Zenon

LEMMA WriteIndexKeeps ==
    ASSUME ServerAssumption, ServerInv, NEW t \in Threads, WriteIndex(t)
    PROVE  ServerInv'
<1> DEFINE q == New(req[t], "write-pages", req[t].text, req[t].named, req[t].current)
<1>1. /\ ViewerTypeOK /\ Now(t) \in Texts /\ req[t].text \in Texts /\ Mine(t) \in Sites
      /\ site \in [Sites -> [index : Texts, stamp : Texts, pages : Texts]]
  BY Known DEF ServerInv, ViewerTypeOK, Now, Mine
<1>2. /\ req[t].step = "write-index"
      /\ site' = [site EXCEPT ![Mine(t)].index = req[t].text, ![Mine(t)].stamp = Now(t)]
      /\ UNCHANGED <<trees, tree, guide, grounding, held, free, bounds>>
  BY DEF WriteIndex, Step
<1>3. Becomes(t, q)
  BY <1>1, Writes DEF WriteIndex, Step
<1>4. /\ q.step = "write-pages" /\ q.site = req[t].site /\ q.began = req[t].began
      /\ q.text = req[t].text /\ q.named = req[t].named /\ q.current = req[t].current
  BY NewFields
<1>5. /\ site' \in [Sites -> [index : Texts, stamp : Texts, pages : Texts]]
      /\ site'["work"].stamp = IF req[t].site = "work" THEN version["work"] ELSE site["work"].stamp
      /\ \A z \in Sites : site'[z] # site[z] => z = req[t].site
  <2>1. /\ site' \in [Sites -> [index : Texts, stamp : Texts, pages : Texts]]
        /\ site'["work"].stamp = IF Mine(t) = "work" THEN Now(t) ELSE site["work"].stamp
        /\ \A z \in Sites : site'[z] # site[z] => z = Mine(t)
    BY <1>1, <1>2, SiteWrites
  <2> QED
    BY <2>1 DEF Now, Mine
<1>6. q \in Request
  BY Known DEF New, Request, Steps, PageSteps
<1> HIDE DEF q
<1>k. /\ req[t].began <= version[req[t].site] /\ req[t].began \in Nat
      /\ version["work"] \in Nat /\ site["work"].stamp \in Int
      /\ site["work"].stamp <= version["work"] /\ req[t].current = FALSE
  BY <1>2, Known DEF Found, Sites, Building
<1>7. Found(q, version, hidden, head, site'["work"].stamp, guide)
  BY <1>4, <1>5, <1>k DEF Found, Building, GuideSteps
<1>8. SlotEffect(t, q) /\ LockEffect(t, q)
  BY <1>2, <1>4, Places DEF SlotEffect, LockEffect, SiteSteps
<1>9. ~Searches(q) /\ ~Rebuilds(q) /\ q.step # "load"
  BY <1>4 DEF Searches, Rebuilds
<1>10. /\ tree' \in Texts /\ grounding' \in [Sites -> [text : Texts, time : Texts, until : Texts]]
       /\ requests' \in 0 .. MaxRequests /\ restarts' \in 0 .. MaxRestarts
  BY <1>2 DEF ServerInv, ViewerTypeOK, bounds
<1>11. site'["work"].stamp \in {site["work"].stamp, version["work"]}
  BY <1>5, <1>k
<1>12. \A z \in Sites : site'[z] # site[z] => LockOf(req[t]) = z
  BY <1>2, <1>5, Places DEF SiteSteps
<1>13. GroundInv'
  BY <1>2 DEF ServerInv, GroundInv, trees
<1> QED
  BY <1>2, <1>3, <1>5, <1>6, <1>7, <1>8, <1>9, <1>10, <1>11, <1>12, <1>13, RequestStep

LEMMA WritePagesKeeps ==
    ASSUME ServerAssumption, ServerInv, NEW t \in Threads, WritePages(t)
    PROVE  ServerInv'
<1> DEFINE q == New(req[t], "serve", req[t].text, req[t].named, TRUE)
<1>1. /\ ViewerTypeOK /\ req[t].text \in Texts /\ Mine(t) \in Sites /\ Mine(t) = req[t].site
      /\ site \in [Sites -> [index : Texts, stamp : Texts, pages : Texts]]
  BY Known DEF ServerInv, ViewerTypeOK, Mine
<1>2. /\ req[t].step = "write-pages" /\ Release(t, req[t].site)
      /\ site' = [site EXCEPT ![Mine(t)].pages = req[t].text]
      /\ UNCHANGED <<trees, tree, guide, grounding, free, bounds>>
  BY DEF WritePages, Mine
<1>3. Becomes(t, q)
  BY <1>1, Writes DEF WritePages
<1>4. /\ q.step = "serve" /\ q.site = req[t].site /\ q.began = req[t].began
      /\ q.text = req[t].text /\ q.named = req[t].named /\ q.current = TRUE
  BY DEF New
<1>5. /\ site' \in [Sites -> [index : Texts, stamp : Texts, pages : Texts]]
      /\ site'["work"].stamp = site["work"].stamp
      /\ \A z \in Sites : site'[z] # site[z] => z = req[t].site
  <2>1. /\ site' \in [Sites -> [index : Texts, stamp : Texts, pages : Texts]]
        /\ site'["work"].stamp = site["work"].stamp
        /\ \A z \in Sites : site'[z] # site[z] => z = Mine(t)
    BY <1>1, <1>2, SiteWrites
  <2> QED
    BY <1>1, <2>1
<1>6. q \in Request
  BY Known DEF New, Request, Steps, PageSteps
<1> HIDE DEF q
<1>7. Found(q, version, hidden, head, site'["work"].stamp, guide)
  BY <1>2, <1>4, <1>5, Known DEF Found, Building, GuideSteps
<1>8. SlotEffect(t, q) /\ LockEffect(t, q)
  <2>1. req[t].site \in Locks
    BY <1>1 DEF Locks
  <2> QED
    BY <1>2, <1>4, <2>1, Places DEF SlotEffect, LockEffect, SiteSteps
<1>9. ~Searches(q) /\ ~Rebuilds(q) /\ q.step # "load"
  BY <1>4 DEF Searches, Rebuilds
<1>10. /\ tree' \in Texts /\ grounding' \in [Sites -> [text : Texts, time : Texts, until : Texts]]
       /\ requests' \in 0 .. MaxRequests /\ restarts' \in 0 .. MaxRestarts
  BY <1>2 DEF ServerInv, ViewerTypeOK, bounds
<1>11. site'["work"].stamp \in {site["work"].stamp, version["work"]}
  BY <1>5, Known
<1>12. \A z \in Sites : site'[z] # site[z] => LockOf(req[t]) = z
  BY <1>2, <1>5, Places DEF SiteSteps
<1>13. GroundInv'
  BY <1>2 DEF ServerInv, GroundInv, trees
<1> QED
  BY <1>2, <1>3, <1>5, <1>6, <1>7, <1>8, <1>9, <1>10, <1>11, <1>12, <1>13, RequestStep

-----------------------------------------------------------------------------
(* Questions about an element.                                             *)

LEMMA LockGroundingKeeps ==
    ASSUME ServerAssumption, ServerInv, NEW t \in Threads, LockGrounding(t)
    PROVE  ServerInv'
<1> DEFINE q == New(req[t], "look-up", req[t].text, req[t].named, req[t].current)
<1>1. ViewerTypeOK /\ "ask" \in Locks
  BY Known DEF ServerInv, Locks, Now, Mine
<1>2. /\ req[t].step = "want-grounding" /\ Acquire(t, "ask")
      /\ UNCHANGED <<trees, files, grounding, free, bounds>>
  BY DEF LockGrounding, Step
<1>3. Becomes(t, q)
  BY <1>1, Writes DEF LockGrounding, Step
<1>4. /\ q.step = "look-up" /\ q.site = req[t].site /\ q.began = req[t].began
      /\ q.text = req[t].text /\ q.named = req[t].named /\ q.current = req[t].current
  BY NewFields
<1>6. q \in Request
  BY <1>1, Known DEF New, Request, Steps, PageSteps, QuestionSteps, GuideSteps
<1> HIDE DEF q
<1>7. Found(q, version, hidden, head, site["work"].stamp, guide)
  BY <1>2, <1>4, Known DEF Found, Building, GuideSteps
<1>8. SlotEffect(t, q) /\ LockEffect(t, q)
  BY <1>1, <1>2, <1>4, Places DEF SlotEffect, LockEffect, ParseSteps
<1>9. ~Searches(q) /\ ~Rebuilds(q) /\ q.step # "load"
  BY <1>4 DEF Searches, Rebuilds
<1> QED
  BY <1>2, <1>3, <1>6, <1>7, <1>8, <1>9, OwnStep

LEMMA LookUpGroundingKeeps ==
    ASSUME ServerAssumption, ServerInv, NEW t \in Threads, LookUpGrounding(t)
    PROVE  ServerInv'
<1>1. ViewerTypeOK /\ "ask" \in Locks /\ req[t].site \in Sites
  BY Known DEF ServerInv, Locks
<1>2. req[t].step = "look-up" /\ UNCHANGED <<trees, files, grounding, free, bounds>>
  BY DEF LookUpGrounding
<1>a. CASE ~Parsed(Mine(t))
  <2> DEFINE q == New(req[t], "parse", req[t].text, req[t].named, req[t].current)
  <2>1. Becomes(t, q) /\ held' = held
    BY <1>1, <1>a, Writes DEF LookUpGrounding
  <2>2. /\ q.step = "parse" /\ q.site = req[t].site /\ q.began = req[t].began
        /\ q.text = req[t].text /\ q.named = req[t].named /\ q.current = req[t].current
    BY NewFields
  <2>3. q \in Request
    BY Known DEF New, Request, Steps, QuestionSteps
  <2> HIDE DEF q
  <2>4. Found(q, version, hidden, head, site["work"].stamp, guide)
    BY <1>2, <2>2, Known DEF Found, Building, GuideSteps
  <2>5. SlotEffect(t, q) /\ LockEffect(t, q)
    BY <1>2, <2>1, <2>2, Places DEF SlotEffect, LockEffect, ParseSteps
  <2>6. ~Searches(q) /\ ~Rebuilds(q) /\ q.step # "load"
    BY <2>2 DEF Searches, Rebuilds
  <2> QED
    BY <1>2, <2>1, <2>3, <2>4, <2>5, <2>6, OwnStep
<1>b. CASE Parsed(Mine(t))
  <2> DEFINE g == grounding[Mine(t)]
             q == New(req[t], "resolve", g.text, g.until, req[t].current)
  <2>0. g.text \in Texts /\ g.time \in Texts /\ g.until \in Texts
    BY <1>1 DEF ViewerTypeOK, Mine
  <2>1. Becomes(t, q) /\ Release(t, "ask")
    BY <1>1, <1>b, Writes DEF LookUpGrounding
  <2>2. /\ q.step = "resolve" /\ q.site = req[t].site /\ q.began = req[t].began
        /\ q.named = g.until /\ q.current = req[t].current
    BY NewFields
  <2>3. q \in Request
    BY <2>0, Known DEF New, Request, Steps, QuestionSteps
  <2>4. req[t].site = "work" =>
            g.time = newest /\ g.time <= g.until /\ g.until <= version["work"]
    BY <1>b DEF Parsed, Mine, ServerInv, GroundInv
  <2> HIDE DEF q, g
  <2>5. Found(q, version, hidden, head, site["work"].stamp, guide)
    <3>1. /\ req[t].began <= version[req[t].site] /\ req[t].began \in Nat
          /\ version["work"] \in Nat /\ newest \in Nat /\ hidden \in Nat
          /\ newest = version["work"] \/ hidden = version["work"]
      BY Known DEF Found, Sites
    <3>2. g.time \in Int /\ g.until \in Int
      BY <2>0, Known DEF Texts, Nothing
    <3>3. req[t].site = "work" => hidden > g.until \/ g.until >= req[t].began
      BY <2>4, <3>1, <3>2
    <3> QED
      BY <1>2, <2>2, <3>1, <3>3 DEF Found, Building, GuideSteps
  <2>6. SlotEffect(t, q) /\ LockEffect(t, q)
    BY <1>1, <1>2, <2>1, <2>2, Places DEF SlotEffect, LockEffect, ParseSteps
  <2>7. ~Searches(q) /\ ~Rebuilds(q) /\ q.step # "load"
    BY <2>2 DEF Searches, Rebuilds
  <2> QED
    BY <1>2, <2>1, <2>3, <2>5, <2>6, <2>7, OwnStep
<1> QED
  BY <1>a, <1>b

LEMMA ParseTreeKeeps ==
    ASSUME ServerAssumption, ServerInv, NEW t \in Threads, ParseTree(t)
    PROVE  ServerInv'
<1> DEFINE mat == IF Mine(t) = "ref" /\ tree = Nothing THEN Now(t) ELSE tree
           x == IF Mine(t) = "ref" THEN mat ELSE Now(t)
           q == New(req[t], "remember", x, req[t].named, req[t].current)
<1>1. ViewerTypeOK /\ x \in Texts /\ mat \in Texts
  BY Known DEF ServerInv, Now, Mine, ViewerTypeOK
<1>2. /\ req[t].step = "parse" /\ tree' = mat
      /\ UNCHANGED <<trees, site, guide, grounding, held, free, bounds>>
  BY DEF ParseTree
<1>3. Becomes(t, q)
  <2>1. req' = [req EXCEPT ![t].step = "remember", ![t].text = x]
    BY <1>2, Zenon DEF ParseTree
  <2> HIDE DEF x
  <2> QED
    BY <1>1, <2>1, Writes
<1>4. /\ q.step = "remember" /\ q.site = req[t].site /\ q.began = req[t].began
      /\ q.named = req[t].named /\ q.current = req[t].current
  BY NewFields
<1>6. q \in Request
  BY <1>1, Known DEF New, Request, Steps, QuestionSteps
<1> HIDE DEF q, x, mat
<1>7. Found(q, version, hidden, head, site'["work"].stamp, guide)
  BY <1>2, <1>4, Known DEF Found, Building, GuideSteps
<1>8. SlotEffect(t, q) /\ LockEffect(t, q)
  BY <1>2, <1>4, Places DEF SlotEffect, LockEffect, ParseSteps
<1>9. ~Searches(q) /\ ~Rebuilds(q) /\ q.step # "load"
  BY <1>4 DEF Searches, Rebuilds
<1>10. /\ tree' \in Texts /\ grounding' \in [Sites -> [text : Texts, time : Texts, until : Texts]]
       /\ site' \in [Sites -> [index : Texts, stamp : Texts, pages : Texts]]
       /\ requests' \in 0 .. MaxRequests /\ restarts' \in 0 .. MaxRestarts
  BY <1>1, <1>2 DEF ViewerTypeOK, bounds
<1>11. site'["work"].stamp \in {site["work"].stamp, version["work"]}
  BY <1>2, Known
<1>12. GroundInv' /\ site' = site
  BY <1>2 DEF ServerInv, GroundInv, trees
<1> QED
  BY <1>2, <1>3, <1>6, <1>7, <1>8, <1>9, <1>10, <1>11, <1>12, RequestStep

LEMMA RememberParseKeeps ==
    ASSUME ServerAssumption, ServerInv, NEW t \in Threads, RememberParse(t)
    PROVE  ServerInv'
<1> DEFINE q == New(req[t], "resolve", req[t].text, Now(t), req[t].current)
<1>1. /\ ViewerTypeOK /\ Now(t) \in Texts /\ req[t].text \in Texts /\ Mine(t) \in Sites
      /\ "ask" \in Locks
  BY Known DEF ServerInv, Now, Mine, Locks
<1>2. /\ req[t].step = "remember" /\ Release(t, "ask")
      /\ grounding' = [grounding EXCEPT ![Mine(t)] =
                          [text |-> req[t].text, until |-> Now(t),
                           time |-> IF Mine(t) = "work" THEN newest ELSE 0]]
      /\ UNCHANGED <<trees, files, free, bounds>>
  BY DEF RememberParse
<1>3. Becomes(t, q)
  BY <1>1, Writes DEF RememberParse
<1>4. /\ q.step = "resolve" /\ q.site = req[t].site /\ q.began = req[t].began
      /\ q.text = req[t].text /\ q.named = Now(t) /\ q.current = req[t].current
  BY NewFields
<1>6. q \in Request
  BY <1>1, Known DEF New, Request, Steps, QuestionSteps
<1> HIDE DEF q
<1>7. Found(q, version, hidden, head, site["work"].stamp, guide)
  <2>1. /\ req[t].began <= version[req[t].site] /\ req[t].began \in Nat
        /\ version["work"] \in Nat
    BY Known DEF Found, Sites
  <2> QED
    BY <1>2, <1>4, <2>1 DEF Found, Building, GuideSteps, Now, Mine
<1>8. SlotEffect(t, q) /\ LockEffect(t, q)
  BY <1>1, <1>2, <1>4, Places DEF SlotEffect, LockEffect, ParseSteps
<1>9. ~Searches(q) /\ ~Rebuilds(q) /\ q.step # "load"
  BY <1>4 DEF Searches, Rebuilds
<1>10. /\ tree' \in Texts /\ site' = site /\ guide' = guide
       /\ site' \in [Sites -> [index : Texts, stamp : Texts, pages : Texts]]
       /\ requests' \in 0 .. MaxRequests /\ restarts' \in 0 .. MaxRestarts
  BY <1>1, <1>2 DEF ViewerTypeOK, bounds, files
<1>11. grounding' \in [Sites -> [text : Texts, time : Texts, until : Texts]]
  <2>1. 0 \in Texts /\ newest \in Texts
    BY Known DEF Texts
  <2> QED
    BY <1>1, <1>2, <2>1 DEF ViewerTypeOK
<1>13. GroundInv'
  <2>1. newest <= version["work"] /\ version["work"] \in Nat /\ version' = version
    BY <1>2, Known DEF trees, Sites
  <2>2. CASE Mine(t) = "work"
    <3>1. grounding'["work"] = [text |-> req[t].text, until |-> version["work"], time |-> newest]
      BY <1>1, <1>2, <2>2 DEF ViewerTypeOK, Now
    <3>2. grounding'["work"].time = newest /\ grounding'["work"].until = version["work"]
      BY <3>1
    <3> QED
      BY <2>1, <3>2 DEF GroundInv
  <2>3. CASE Mine(t) # "work"
    <3>1. grounding'["work"] = grounding["work"]
      BY <1>2, <2>3 DEF Sites
    <3> QED
      BY <2>1, <3>1 DEF ServerInv, GroundInv
  <2> QED
    BY <2>2, <2>3
<1>12. site'["work"].stamp \in {site["work"].stamp, version["work"]}
  BY <1>10, Known
<1> QED
  BY <1>2, <1>3, <1>6, <1>7, <1>8, <1>9, <1>10, <1>11, <1>12, <1>13, RequestStep

LEMMA TakeSlotKeeps ==
    ASSUME ServerAssumption, ServerInv, NEW t \in Threads,
           NEW from, NEW to, TakeSlot(t, from, to),
           \/ from = "resolve" /\ to = "model"
           \/ from = "wants-a-slot" /\ to = "want-guide"
    PROVE  ServerInv'
<1> DEFINE q == New(req[t], to, req[t].text, req[t].named, req[t].current)
<1>1. ViewerTypeOK
  BY DEF ServerInv
<1>2. /\ req[t].step = from /\ free > 0 /\ free' = free - 1
      /\ UNCHANGED <<trees, files, grounding, held, bounds>>
  BY DEF TakeSlot, Step
<1>3. Becomes(t, q)
  BY <1>1, Writes DEF TakeSlot, Step
<1>4. /\ q.step = to /\ q.site = req[t].site /\ q.began = req[t].began
      /\ q.text = req[t].text /\ q.named = req[t].named /\ q.current = req[t].current
  BY NewFields
<1>6. q \in Request
  BY Known DEF New, Request, Steps, QuestionSteps, GuideSteps
<1> HIDE DEF q
<1>7. Found(q, version, hidden, head, site["work"].stamp, guide)
  BY <1>2, <1>4, Known DEF Found, Building, GuideSteps
<1>8. SlotEffect(t, q) /\ LockEffect(t, q)
  BY <1>2, <1>4, Places DEF SlotEffect, LockEffect
<1>9. ~Searches(q) /\ ~Rebuilds(q) /\ q.step # "load"
  BY <1>4 DEF Searches, Rebuilds
<1> QED
  BY <1>2, <1>3, <1>6, <1>7, <1>8, <1>9, OwnStep

-----------------------------------------------------------------------------
(* Questions to the guide.                                                 *)

LEMMA LockGuideKeeps ==
    ASSUME ServerAssumption, ServerInv, NEW t \in Threads, LockGuide(t)
    PROVE  ServerInv'
<1> DEFINE q == New(req[t], "is-current", req[t].text, req[t].named, req[t].current)
<1>1. ViewerTypeOK /\ "guide" \in Locks
  BY Known DEF ServerInv, Locks, Now, Mine
<1>2. /\ req[t].step = "want-guide" /\ Acquire(t, "guide")
      /\ UNCHANGED <<trees, files, grounding, free, bounds>>
  BY DEF LockGuide, Step
<1>3. Becomes(t, q)
  BY <1>1, Writes DEF LockGuide, Step
<1>4. /\ q.step = "is-current" /\ q.site = req[t].site /\ q.began = req[t].began
      /\ q.text = req[t].text /\ q.named = req[t].named /\ q.current = req[t].current
  BY NewFields
<1>6. q \in Request
  BY <1>1, Known DEF New, Request, Steps, PageSteps, QuestionSteps, GuideSteps
<1> HIDE DEF q
<1>7. Found(q, version, hidden, head, site["work"].stamp, guide)
  BY <1>2, <1>4, Known DEF Found, Building, GuideSteps
<1>8. SlotEffect(t, q) /\ LockEffect(t, q)
  BY <1>1, <1>2, <1>4, Places DEF SlotEffect, LockEffect, IndexSteps
<1>9. ~Searches(q) /\ ~Rebuilds(q) /\ q.step # "load"
  BY <1>4 DEF Searches, Rebuilds
<1> QED
  BY <1>2, <1>3, <1>6, <1>7, <1>8, <1>9, OwnStep

LEMMA CheckGuideKeeps ==
    ASSUME ServerAssumption, ServerInv, NEW t \in Threads, CheckGuide(t)
    PROVE  ServerInv'
<1> DEFINE to == IF index_is_current THEN "name-head" ELSE "read-files"
           q == New(req[t], to, req[t].text, req[t].named, req[t].current)
<1>1. ViewerTypeOK /\ GuideInv
  BY DEF ServerInv
<1>2. /\ req[t].step = "is-current" /\ UNCHANGED <<trees, files, grounding, held, free, bounds>>
  BY DEF CheckGuide, Step
<1>3. Becomes(t, q)
  BY <1>1, Writes DEF CheckGuide, Step
<1>4. /\ q.step = to /\ q.site = req[t].site /\ q.began = req[t].began
      /\ q.text = req[t].text /\ q.named = req[t].named /\ q.current = req[t].current
  BY NewFields
<1>5. /\ to \in {"name-head", "read-files"}
      /\ to = "name-head" => guide.sha = head
      /\ to = "read-files" => guide.sha # head
  <2>1. head \in Nat
    BY Known
  <2> QED
    BY <1>1, <2>1 DEF index_is_current, GuideInv, Nothing
<1>6. q \in Request
  BY <1>5, Known DEF New, Request, Steps, GuideSteps
<1> HIDE DEF q, to
<1>7. Found(q, version, hidden, head, site["work"].stamp, guide)
  BY <1>2, <1>4, <1>5, Known DEF Found, Building, GuideSteps
<1>8. SlotEffect(t, q) /\ LockEffect(t, q)
  BY <1>2, <1>4, <1>5, Places DEF SlotEffect, LockEffect, IndexSteps
<1>9. ~Searches(q) /\ (Rebuilds(q) => guide.sha # head) /\ q.step # "load"
  BY <1>4, <1>5 DEF Searches, Rebuilds
<1> QED
  BY <1>2, <1>3, <1>6, <1>7, <1>8, <1>9, OwnStep

LEMMA NameHeadKeeps ==
    ASSUME ServerAssumption, ServerInv, NEW t \in Threads, NameHead(t)
    PROVE  ServerInv'
<1> DEFINE q == New(req[t], "search", req[t].text, head, req[t].current)
<1>1. ViewerTypeOK /\ "guide" \in Locks /\ head \in Texts
  BY Known DEF ServerInv, Locks, Sites
<1>2. /\ req[t].step \in {"name-head", "name-built-head"} /\ Release(t, "guide")
      /\ UNCHANGED <<trees, files, grounding, free, bounds>>
  BY DEF NameHead
<1>3. Becomes(t, q)
  BY <1>1, Writes DEF NameHead
<1>4. /\ q.step = "search" /\ q.site = req[t].site /\ q.began = req[t].began
      /\ q.text = req[t].text /\ q.named = head /\ q.current = req[t].current
  BY NewFields
<1>6. q \in Request
  BY <1>1, Known DEF New, Request, Steps, PageSteps, QuestionSteps, GuideSteps
<1> HIDE DEF q
<1>7. Found(q, version, hidden, head, site["work"].stamp, guide)
  BY <1>2, <1>4, Known DEF Found, Building, GuideSteps
<1>8. SlotEffect(t, q) /\ LockEffect(t, q)
  BY <1>1, <1>2, <1>4, Places DEF SlotEffect, LockEffect, IndexSteps
<1>9. LockOf(req[t]) = "guide" /\ ~Rebuilds(q) /\ q.step # "load"
  BY <1>2, <1>4, Places DEF IndexSteps, Rebuilds
<1> QED
  BY <1>2, <1>3, <1>6, <1>7, <1>8, <1>9, OwnStep

LEMMA ReadFilesKeeps ==
    ASSUME ServerAssumption, ServerInv, NEW t \in Threads, ReadFiles(t)
    PROVE  ServerInv'
<1> DEFINE q == New(req[t], "record-head", version["work"], req[t].named, req[t].current)
<1>1. ViewerTypeOK /\ version["work"] \in Texts
  BY Known DEF ServerInv, Sites
<1>2. /\ req[t].step = "read-files"
      /\ UNCHANGED <<trees, files, grounding, held, free, bounds>>
  BY DEF ReadFiles
<1>3. Becomes(t, q)
  BY <1>1, Writes DEF ReadFiles
<1>4. /\ q.step = "record-head" /\ q.site = req[t].site /\ q.began = req[t].began
      /\ q.text = version["work"] /\ q.named = req[t].named /\ q.current = req[t].current
  BY NewFields
<1>6. q \in Request
  BY <1>1, Known DEF New, Request, Steps, PageSteps, QuestionSteps, GuideSteps
<1> HIDE DEF q
<1>7. Found(q, version, hidden, head, site["work"].stamp, guide)
  <2>1. version["work"] # Nothing
    BY Known DEF Sites, Nothing
  <2> QED
    BY <1>2, <1>4, <2>1, Known DEF Found, Building, GuideSteps
<1>8. SlotEffect(t, q) /\ LockEffect(t, q)
  BY <1>1, <1>2, <1>4, Places DEF SlotEffect, LockEffect, IndexSteps
<1>9. ~Searches(q) /\ Rebuilds(req[t]) /\ q.step # "load"
  BY <1>2, <1>4 DEF Searches, Rebuilds
<1> QED
  BY <1>2, <1>3, <1>6, <1>7, <1>8, <1>9, OwnStep

LEMMA SearchIndexKeeps ==
    ASSUME ServerAssumption, ServerInv, NEW t \in Threads, SearchIndex(t)
    PROVE  ServerInv'
<1> DEFINE q == New(req[t], "answer", guide.text, req[t].named, req[t].current)
<1>1. ViewerTypeOK /\ guide.text \in Texts
  BY DEF ServerInv, ViewerTypeOK
<1>2. /\ req[t].step = "search"
      /\ UNCHANGED <<trees, files, grounding, held, free, bounds>>
  BY DEF SearchIndex
<1>3. Becomes(t, q)
  BY <1>1, Writes DEF SearchIndex
<1>4. /\ q.step = "answer" /\ q.site = req[t].site /\ q.began = req[t].began
      /\ q.text = guide.text /\ q.named = req[t].named /\ q.current = req[t].current
  BY NewFields
<1>6. q \in Request
  BY <1>1, Known DEF New, Request, Steps, PageSteps, QuestionSteps, GuideSteps
<1> HIDE DEF q
<1>7. Found(q, version, hidden, head, site["work"].stamp, guide)
  BY <1>2, <1>4, Known DEF Found, Building, GuideSteps
<1>8. SlotEffect(t, q) /\ LockEffect(t, q)
  BY <1>1, <1>2, <1>4, Places DEF SlotEffect, LockEffect
<1>9. (Searches(q) => Searches(req[t])) /\ ~Rebuilds(q) /\ q.step # "load"
  BY <1>2, <1>4 DEF Searches, Rebuilds
<1> QED
  BY <1>2, <1>3, <1>6, <1>7, <1>8, <1>9, OwnStep

LEMMA RecordHeadKeeps ==
    ASSUME ServerAssumption, ServerInv, NEW t \in Threads, RecordHead(t)
    PROVE  ServerInv'
<1> DEFINE q == New(req[t], "name-built-head", req[t].text, req[t].named, req[t].current)
           g == [text |-> req[t].text, sha |-> head]
<1>1. ViewerTypeOK /\ SlotInv /\ LockInv /\ StampInv /\ RequestsInv /\ LoadInv /\ GuideInv
  BY DEF ServerInv
<1>2. /\ req[t].step = "record-head" /\ guide' = g
      /\ version' = version /\ newest' = newest /\ head' = head /\ hidden' = hidden
      /\ site' = site /\ tree' = tree /\ grounding' = grounding
      /\ held' = held /\ free' = free /\ requests' = requests /\ restarts' = restarts
  BY DEF RecordHead, Step, bounds, trees
<1>3. Becomes(t, q)
  BY <1>1, Writes DEF RecordHead, Step
<1>4. /\ q.step = "name-built-head" /\ q.site = req[t].site /\ q.began = req[t].began
      /\ q.text = req[t].text /\ q.named = req[t].named /\ q.current = req[t].current
  BY NewFields
<1>5. /\ req \in [Threads -> Request] /\ req[t].text \in Texts /\ head \in Texts
      /\ Found(req[t], version, hidden, head, site["work"].stamp, guide)
  BY Known DEF Sites
<1>6. q \in Request
  BY Known DEF New, Request, Steps, GuideSteps
<1>7. g.text = req[t].text /\ g.sha = head /\ g \in [text : Texts, sha : Texts]
      /\ req[t].text # Nothing
  BY <1>2, <1>5 DEF Found
<1> HIDE DEF q, g
<1>8. req' \in [Threads -> Request] /\ req'[t] = q /\ \A u \in Threads \ {t} : req'[u] = req[u]
  BY <1>3, <1>5, <1>6, OthersStay
<1>9. SlotInv'
  <2>1. Slotted(q) <=> Slotted(req[t])
    BY <1>2, <1>4 DEF Slotted, GuideSteps
  <2> QED
    BY <1>1, <1>2, <1>3, <1>5, <1>6, <2>1, SlotsKept
<1>10. LockInv'
  <2>1. LockOf(q) = LockOf(req[t])
    BY <1>2, <1>4, Places DEF IndexSteps
  <2> QED
    BY <1>1, <1>2, <1>3, <1>5, <1>6, <2>1, LocksKept
<1>11. ViewerTypeOK'
  BY <1>1, <1>2, <1>7, <1>8 DEF ViewerTypeOK, Request
<1>12. \A u \in Threads : ~Searches(req[u])
  BY <1>1, <1>2 DEF GuideInv, Rebuilds
<1>13. RequestsInv'
  <2>1. Found(q, version, hidden, head, site["work"].stamp, g)
    BY <1>2, <1>4, <1>5, <1>7 DEF Found, Building, GuideSteps
  <2>2. ASSUME NEW u \in Threads \ {t}
        PROVE  Found(req[u], version, hidden, head, site["work"].stamp, g)
    <3>1. Found(req[u], version, hidden, head, site["work"].stamp, guide)
      BY Known
    <3>2. req[u].step \notin {"name-head", "name-built-head"}
      <4>1. LockOf(req[t]) = "guide"
        BY <1>2, Places DEF IndexSteps
      <4>2. req[u].step \in {"name-head", "name-built-head"} => LockOf(req[u]) = "guide"
        BY Places DEF IndexSteps
      <4> QED
        BY <1>1, <4>1, <4>2 DEF LockInv, Locks
    <3>3. ~(req[u].step \in {"search", "answer"} /\ head <= req[u].began)
      BY <1>12 DEF Searches
    <3> QED
      BY <3>1, <3>2, <3>3 DEF Found
  <2>3. \A u \in Threads : Found(req'[u], version', hidden', head', site'["work"].stamp, guide')
    BY <1>2, <1>8, <2>1, <2>2
  <2> QED
    BY <2>3 DEF RequestsInv, Found, Building
<1>14. GuideInv'
  <2>1. \A u \in Threads : Searches(req[u])' => u = t
    BY <1>2, <1>8, <1>12 DEF Searches
  <2>2. ~Searches(req[t])'
    BY <1>4, <1>8 DEF Searches
  <2> QED
    BY <1>2, <1>7, <2>1, <2>2 DEF GuideInv
<1>15. StampInv' /\ TreesInv' /\ GroundInv'
  BY <1>2 DEF StampInv, TreesInv, GroundInv, ServerInv
<1>16. LoadInv'
  BY <1>1, <1>2, <1>4, <1>8 DEF LoadInv, NeedsBuild
<1> QED
  BY <1>9, <1>10, <1>11, <1>13, <1>14, <1>15, <1>16 DEF ServerInv

-----------------------------------------------------------------------------
(* The outside.                                                            *)

(* What a move of one tree leaves of what shows of it.                     *)
LEMMA MovesShow ==
    ASSUME ServerAssumption, ServerInv, NEW s \in Sites, TreeMoves(s)
    PROVE  /\ version' \in [Sites -> 0 .. MaxMoves]
           /\ \A x \in Sites : version[x] \in Nat /\ version'[x] \in Nat /\ version[x] <= version'[x]
           /\ {newest', head', hidden'} \subseteq 0 .. MaxMoves /\ TreesInv'
           /\ hidden \in Nat /\ hidden <= hidden'
           /\ head' = head \/ head' > version["work"]
<1>1. version \in [Sites -> 0 .. MaxMoves] /\ MaxMoves \in Nat /\ "work" \in Sites
  BY DEF ServerInv, ViewerTypeOK, ServerAssumption, Sites
<1>2. version[s] < MaxMoves /\ version' = [version EXCEPT ![s] = version[s] + 1]
  BY DEF TreeMoves
<1>3. /\ version' \in [Sites -> 0 .. MaxMoves]
      /\ \A x \in Sites : version[x] \in Nat /\ version'[x] \in Nat /\ version[x] <= version'[x]
  BY <1>1, <1>2
<1>4. /\ newest \in Nat /\ head \in Nat /\ hidden \in Nat
      /\ newest <= version["work"] /\ head <= version["work"] /\ hidden <= version["work"]
      /\ newest = version["work"] \/ hidden = version["work"]
  BY <1>1 DEF ServerInv, ViewerTypeOK, TreesInv
<1>5. CASE s = "work"
  <2>1. version'["work"] = version["work"] + 1 /\ version'["work"] <= MaxMoves
    BY <1>1, <1>2, <1>5
  <2>2. /\ newest' \in 0 .. version'["work"] /\ head' \in {head, version'["work"]}
        /\ hidden' = IF newest' = version'["work"] THEN hidden ELSE version'["work"]
    BY <1>5 DEF TreeMoves
  <2> QED
    BY <1>1, <1>3, <1>4, <2>1, <2>2 DEF TreesInv
<1>6. CASE s # "work"
  <2>1. newest' = newest /\ head' = head /\ hidden' = hidden
    BY <1>6 DEF TreeMoves
  <2>2. version'["work"] = version["work"] /\ version["work"] <= MaxMoves
    BY <1>1, <1>2, <1>6
  <2> QED
    BY <1>1, <1>3, <1>4, <2>1, <2>2 DEF TreesInv
<1> QED
  BY <1>5, <1>6

LEMMA TreeMovesKeeps ==
    ASSUME ServerAssumption, ServerInv, NEW s \in Sites, TreeMoves(s)
    PROVE  ServerInv'
<1>1. /\ ViewerTypeOK /\ SlotInv /\ LockInv /\ StampInv /\ GroundInv
      /\ RequestsInv /\ LoadInv /\ GuideInv
  BY DEF ServerInv
<1>2. /\ site' = site /\ tree' = tree /\ guide' = guide /\ grounding' = grounding
      /\ held' = held /\ free' = free /\ req' = req
      /\ requests' = requests /\ restarts' = restarts
  BY DEF TreeMoves, files, bounds
<1>3. "work" \in Sites /\ MaxMoves \in Nat /\ site["work"].stamp \in Int
      /\ site["ref"].stamp \in Int
  BY <1>1 DEF ViewerTypeOK, ServerAssumption, Sites, Texts, Nothing
<1>4. /\ \A x \in Sites : version[x] \in Nat /\ version'[x] \in Nat /\ version[x] <= version'[x]
      /\ hidden \in Nat /\ hidden <= hidden' /\ hidden' \in Nat
      /\ head' = head \/ head' > version["work"]
      /\ head' \in Nat /\ TreesInv'
  BY <1>3, MovesShow
<1>5. ViewerTypeOK'
  BY <1>1, <1>2, MovesShow DEF ViewerTypeOK
<1>6. SlotInv' /\ LockInv'
  BY <1>1, <1>2 DEF SlotInv, Holders, Slotted, LockInv, LockOf
<1>7. StampInv'
  BY <1>1, <1>2, <1>3, <1>4 DEF StampInv
<1>8. GroundInv'
  <2>1. grounding["work"].until \in Int
    BY <1>1, <1>3 DEF ViewerTypeOK, Texts, Nothing
  <2> QED
    BY <1>1, <1>2, <1>3, <1>4, <2>1 DEF GroundInv
<1>9. \A u \in Threads :
          /\ Found(req[u], version, hidden, head, site["work"].stamp, guide)
          /\ req[u].began \in Nat /\ req[u].site \in Sites /\ req[u].named \in Int
  BY <1>3, Known DEF Texts, Nothing
<1>10. ASSUME NEW u \in Threads, req[u].step \in GuideSteps, head' <= req[u].began
       PROVE  head' = head
  <2>1. req[u].site = "work" /\ req[u].began <= version["work"]
    BY <1>9, <1>10 DEF Found
  <2> QED
    BY <1>3, <1>4, <1>9, <1>10, <2>1
<1>11. RequestsInv'
  <2>1. ASSUME NEW u \in Threads
        PROVE  Found(req[u], version', hidden', head', site["work"].stamp, guide)
    <3>1. req[u].began <= version'[req[u].site]
      <4>1. req[u].began <= version[req[u].site]
        BY <1>9 DEF Found
      <4> QED
        BY <1>4, <1>9, <4>1
    <3>2. /\ hidden > site["work"].stamp \/ site["work"].stamp >= req[u].began
             => hidden' > site["work"].stamp \/ site["work"].stamp >= req[u].began
          /\ hidden > req[u].named \/ req[u].named >= req[u].began
             => hidden' > req[u].named \/ req[u].named >= req[u].began
      BY <1>3, <1>4, <1>9
    <3>3. CASE req[u].step \in GuideSteps /\ head' <= req[u].began
      BY <1>9, <1>10, <3>1, <3>2, <3>3 DEF Found
    <3>4. CASE req[u].step \in GuideSteps /\ ~(head' <= req[u].began)
      BY <1>9, <3>1, <3>2, <3>4 DEF Found
    <3>5. CASE req[u].step \notin GuideSteps
      BY <1>9, <3>1, <3>2, <3>5 DEF Found, GuideSteps
    <3> QED
      BY <3>3, <3>4, <3>5
  <2>2. \A u \in Threads :
            Found(req'[u], version', hidden', head', site'["work"].stamp, guide')
    BY <1>2, <2>1
  <2> QED
    BY <2>2 DEF RequestsInv, Found, Building
<1>12. GuideInv'
  <2>1. \A u \in Threads : Searches(req[u])' => Searches(req[u])
    BY <1>2, <1>10 DEF Searches, GuideSteps
  <2>2. \A u \in Threads : Rebuilds(req[u])' => Rebuilds(req[u])
    BY <1>2 DEF Rebuilds
  <2> QED
    BY <1>1, <1>2, <2>1, <2>2 DEF GuideInv
<1>13. LoadInv'
  <2>1. ASSUME NEW x \in Sites, NeedsBuild(x)
        PROVE  site'[x].index = Nothing \/ (x = "work" /\ site'[x].stamp < version'[x])
    <3>1. CASE x = "work"
      BY <1>2, <1>3, <1>4, <2>1, <3>1 DEF NeedsBuild
    <3>2. CASE x = "ref"
      BY <1>2, <2>1, <3>2 DEF NeedsBuild
    <3> QED
      BY <3>1, <3>2 DEF Sites
  <2>2. ASSUME NEW u \in Threads, req[u].step = "load"
        PROVE  req[u].site \in Sites /\ NeedsBuild(req[u].site)
    BY <1>1, <1>9, <2>2 DEF LoadInv
  <2> QED
    BY <1>2, <2>1, <2>2 DEF LoadInv, NeedsBuild
<1> QED
  BY <1>4, <1>5, <1>6, <1>7, <1>8, <1>11, <1>12, <1>13 DEF ServerInv

LEMMA AllIdle ==
    ASSUME ServerAssumption, NEW t \in Threads
    PROVE  /\ Idle \in Request /\ LockOf(Idle) = "none" /\ ~Slotted(Idle)
           /\ Idle.step = "idle" /\ Idle.site = "work" /\ Idle.began = 0
<1>1. Idle.step = "idle" /\ Idle.site = "work" /\ Idle.began = 0
  BY DEF Idle
<1>2. Idle \in Request
  BY DEF Idle, Request, Steps, Sites, Texts, ServerAssumption
<1> QED
  BY <1>1, <1>2 DEF LockOf, SiteSteps, ParseSteps, IndexSteps, Slotted, GuideSteps

(* Every thread is new: no lock is held, and every slot is free.           *)
LEMMA NewProcess ==
    ASSUME ServerAssumption, req = [t \in Threads |-> Idle], held = [l \in Locks |-> {}],
           free = Slots
    PROVE  /\ req \in [Threads -> Request] /\ held \in [Locks -> SUBSET Threads]
           /\ free \in 0 .. Slots /\ SlotInv /\ LockInv
<1>1. \A t \in Threads : req[t] = Idle /\ LockOf(req[t]) = "none" /\ ~Slotted(req[t])
                         /\ Idle \in Request
  BY AllIdle
<1>2. "none" \notin Locks
  BY DEF Locks, Sites
<1>3. Holders = {}
  BY <1>1 DEF Holders
<1>4. SlotInv
  BY <1>3, FS_EmptySet DEF SlotInv, ServerAssumption
<1>5. LockInv
  BY <1>1, <1>2 DEF LockInv
<1> QED
  BY <1>1, <1>4, <1>5 DEF ServerAssumption

LEMMA RestartKeeps ==
    ASSUME ServerAssumption, ServerInv, Restart
    PROVE  ServerInv'
<1>1. ViewerTypeOK /\ StampInv /\ TreesInv /\ GuideInv
  BY DEF ServerInv
<1>2. /\ version' = version /\ newest' = newest /\ head' = head /\ hidden' = hidden
      /\ site' = site /\ tree' = tree /\ guide' = guide
      /\ grounding' = [s \in Sites |-> NoParse]
      /\ held' = [l \in Locks |-> {}] /\ free' = Slots /\ req' = [t \in Threads |-> Idle]
      /\ requests' = requests /\ restarts < MaxRestarts /\ restarts' = restarts + 1
  BY DEF Restart, files, trees
<1>3. /\ req' \in [Threads -> Request] /\ held' \in [Locks -> SUBSET Threads]
      /\ free' \in 0 .. Slots
  <2>1. \A t \in Threads : Idle \in Request
    BY AllIdle
  <2> QED
    BY <1>2, <2>1 DEF ServerAssumption
<1>4. \A t \in Threads : req'[t] = Idle /\ LockOf(Idle) = "none" /\ ~Slotted(Idle)
                         /\ Found(Idle, version, hidden, head, site["work"].stamp, guide)
                         /\ Idle.step = "idle"
  BY <1>2, AllIdle, IdleFound
<1>5. SlotInv'
  <2>1. Holders' = {}
    BY <1>4 DEF Holders, Slotted
  <2> QED
    BY <1>2, <2>1, FS_EmptySet DEF SlotInv, ServerAssumption
<1>6. LockInv'
  <2>1. "none" \notin Locks
    BY DEF Locks, Sites
  <2>2. \A t \in Threads : LockOf(req'[t]) = "none"
    BY <1>4
  <2>3. \A l \in Locks : held'[l] = {t \in Threads : LockOf(req'[t]) = l}
    BY <1>2, <2>1, <2>2
  <2>4. \A t, u \in Threads : LockOf(req'[t]) = LockOf(req'[u]) /\ LockOf(req'[t]) \in Locks => t = u
    BY <2>1, <2>2
  <2> QED
    BY <2>3, <2>4 DEF LockInv, LockOf
<1>7. ViewerTypeOK'
  <2>1. grounding' \in [Sites -> [text : Texts, time : Texts, until : Texts]]
    BY <1>2 DEF NoParse, Texts
  <2>2. restarts' \in 0 .. MaxRestarts
    BY <1>1, <1>2 DEF ViewerTypeOK, ServerAssumption
  <2> QED
    BY <1>1, <1>2, <1>3, <2>1, <2>2 DEF ViewerTypeOK, Request
<1>8. RequestsInv'
  <2>1. \A u \in Threads : Found(req'[u], version', hidden', head', site'["work"].stamp, guide')
    BY <1>2, <1>4
  <2> QED
    BY <2>1 DEF RequestsInv, Found, Building
<1>9. GuideInv'
  <2>1. \A u \in Threads : ~Searches(req[u])'
    BY <1>4 DEF Searches
  <2> QED
    BY <1>1, <1>2, <2>1 DEF GuideInv
<1>10. StampInv' /\ TreesInv'
  BY <1>1, <1>2 DEF StampInv, TreesInv
<1>11. GroundInv'
  BY <1>2 DEF GroundInv, NoParse, Sites
<1>12. LoadInv'
  BY <1>4 DEF LoadInv
<1> QED
  BY <1>5, <1>6, <1>7, <1>8, <1>9, <1>10, <1>11, <1>12 DEF ServerInv

LEMMA InvInit ==
    ASSUME ServerAssumption, ViewerInit
    PROVE  ServerInv
<1>1. SlotInv /\ LockInv /\ req \in [Threads -> Request] /\ held \in [Locks -> SUBSET Threads]
      /\ free \in 0 .. Slots
  BY NewProcess DEF ViewerInit
<1>2. "work" \in Sites /\ version["work"] = 0 /\ site["work"].stamp = 0
      /\ \A s \in Sites : version[s] = 0
  BY DEF ViewerInit, Sites
<1>3. ViewerTypeOK
  <2>1. 0 \in Texts /\ Nothing \in Texts /\ 0 \in 0 .. MaxMoves /\ 0 \in 0 .. MaxRequests
        /\ 0 \in 0 .. MaxRestarts
    BY DEF Texts, ServerAssumption
  <2>2. site \in [Sites -> [index : Texts, stamp : Texts, pages : Texts]]
    BY <2>1 DEF ViewerInit, NoSite
  <2>3. grounding \in [Sites -> [text : Texts, time : Texts, until : Texts]] /\ guide \in [text : Texts, sha : Texts]
    BY <2>1 DEF ViewerInit, NoParse, NoIndex
  <2>4. version \in [Sites -> 0 .. MaxMoves] /\ {newest, head, hidden} \subseteq 0 .. MaxMoves
        /\ tree \in Texts
        /\ requests \in 0 .. MaxRequests /\ restarts \in 0 .. MaxRestarts
    BY <2>1 DEF ViewerInit
  <2> QED
    BY <1>1, <2>2, <2>3, <2>4 DEF ViewerTypeOK, Request
<1>4. \A t \in Threads : req[t] = Idle /\ Idle.step = "idle" /\ Idle.site = "work" /\ Idle.began = 0
  BY AllIdle DEF ViewerInit
<1>5. RequestsInv
  BY <1>2, <1>4 DEF RequestsInv, Found, Building, GuideSteps
<1>6. GuideInv
  BY <1>4 DEF GuideInv, Searches, ViewerInit, NoIndex
<1>7. TreesInv /\ GroundInv /\ LoadInv
  BY <1>2, <1>4 DEF TreesInv, GroundInv, LoadInv, ViewerInit, NoParse
<1> QED
  BY <1>1, <1>2, <1>3, <1>5, <1>6, <1>7 DEF ServerInv, StampInv

LEMMA NextKeeps ==
    ASSUME ServerAssumption, ServerInv, ViewerNext
    PROVE  ServerInv'
<1>1. "work" \in Sites
  BY DEF Sites
<1>2. CASE \E t \in Threads, s \in Sites : Begin(t, "check", s) \/ Begin(t, "want-grounding", s)
  BY <1>2, BeginKeeps
<1>3. CASE \E t \in Threads : Begin(t, "wants-a-slot", "work")
  BY <1>1, <1>3, BeginKeeps
<1>4. CASE \E t \in Threads : HandleStep(t)
  <2>1. PICK t \in Threads : PageStep(t) \/ QuestionStep(t) \/ GuideStep(t)
    BY <1>4 DEF HandleStep
  <2>2. CASE PageStep(t)
    BY <2>2, CheckSiteKeeps, LockSiteKeeps, RecheckSiteKeeps, LoadSiteKeeps, WriteIndexKeeps,
       WritePagesKeeps, BuildFailsKeeps, EndsKeep DEF PageStep
  <2>3. CASE QuestionStep(t)
    BY <2>3, LockGroundingKeeps, LookUpGroundingKeeps, ParseTreeKeeps, RememberParseKeeps,
       TakeSlotKeeps, EndsKeep DEF QuestionStep
  <2>4. CASE GuideStep(t)
    BY <2>4, TakeSlotKeeps, LockGuideKeeps, CheckGuideKeeps, NameHeadKeeps, ReadFilesKeeps,
       RecordHeadKeeps, SearchIndexKeeps, EndsKeep DEF GuideStep
  <2> QED
    BY <2>1, <2>2, <2>3, <2>4
<1>5. CASE \E s \in Sites : TreeMoves(s)
  BY <1>5, TreeMovesKeeps
<1>6. CASE Restart
  BY <1>6, RestartKeeps
<1> QED
  BY <1>2, <1>3, <1>4, <1>5, <1>6 DEF ViewerNext

LEMMA StutterKeeps ==
    ASSUME ServerInv, UNCHANGED viewerVars
    PROVE  ServerInv'
<1>1. /\ version' = version /\ newest' = newest /\ head' = head /\ hidden' = hidden
      /\ site' = site /\ tree' = tree /\ guide' = guide /\ grounding' = grounding
      /\ held' = held /\ free' = free /\ req' = req
      /\ requests' = requests /\ restarts' = restarts
  BY DEF viewerVars, trees
<1> QED
  BY <1>1 DEF ServerInv, ViewerTypeOK, SlotInv, Holders, Slotted, LockInv, LockOf, TreesInv,
              StampInv, GroundInv, RequestsInv, Found, Building, LoadInv, NeedsBuild,
              GuideInv, Searches, Rebuilds

LEMMA InvHolds ==
    ASSUME ServerAssumption
    PROVE  ViewerSpec => []ServerInv
<1>1. ViewerInit => ServerInv
  BY InvInit
<1>2. ServerInv /\ [ViewerNext]_viewerVars => ServerInv'
  BY NextKeeps, StutterKeeps
<1> QED
  BY <1>1, <1>2, PTL DEF ViewerSpec

-----------------------------------------------------------------------------
(* The variables have their types.                                         *)
THEOREM ServerTypeCorrect ==
    ASSUME ServerAssumption
    PROVE  ViewerSpec => []ViewerTypeOK
<1>1. ServerInv => ViewerTypeOK
  BY DEF ServerInv
<1> QED
  BY <1>1, InvHolds, PTL

(* Whatever the threads, the trees and the restarts of the process do, a   *)
(* slot of ask_slots is either free or held by a question that will give   *)
(* it back; a site is written by one thread at a time, and only by one     *)
(* that found, inside its lock, that it needs it.                          *)
THEOREM SlotsAndSitesAreGuardedCorrect ==
    ASSUME ServerAssumption
    PROVE  ViewerSpec => []SlotsAndSitesAreGuarded
<1>1. ASSUME ServerInv
      PROVE  SlotsAndSitesAreGuarded
  <2>1. free \in Nat /\ free + Cardinality(Holders) = Slots
    BY <1>1 DEF ServerInv, SlotInv
  <2>2. Holders = {t \in Threads : HoldsSlot(t)}
    BY DEF Holders, Slotted, HoldsSlot
  <2>3. free = Slots - Cardinality({t \in Threads : HoldsSlot(t)})
    BY <2>1, <2>2, HoldersFinite
  <2>4. \A s \in Sites : \A t \in Threads : Builds(t, s) => LockOf(req[t]) = s /\ s \in Locks
    BY DEF Builds, LockOf, SiteSteps, Locks
  <2>5. \A t, u \in Threads : LockOf(req[t]) = LockOf(req[u]) /\ LockOf(req[t]) \in Locks => t = u
    BY <1>1 DEF ServerInv, LockInv
  <2>6. \A t \in Threads : req[t].step = "load" => NeedsBuild(Mine(t))
    BY <1>1 DEF ServerInv, LoadInv, Mine
  <2> QED
    BY <2>3, <2>4, <2>5, <2>6 DEF SlotsAndSitesAreGuarded
<1> QED
  BY <1>1, InvHolds, PTL

(* ensure_worktree_current returns TRUE only of a site whose index page    *)
(* was written no earlier than the last move before the request, or after  *)
(* which a move was hidden from the times of the files; and of a site in   *)
(* one piece its pages are no older either.                                *)
THEOREM TrueMeansWrittenSinceCorrect ==
    ASSUME ServerAssumption
    PROVE  ViewerSpec => []TrueMeansWrittenSince
<1>1. ASSUME ServerInv
      PROVE  TrueMeansWrittenSince
  <2>1. SUFFICES ASSUME NEW t \in Threads, req[t].step = "serve", req[t].current,
                        Mine(t) = "work", hidden <= site["work"].stamp
                 PROVE  /\ site["work"].stamp >= req[t].began
                        /\ Whole("work") => site["work"].pages >= req[t].began
    BY DEF TrueMeansWrittenSince
  <2>2. hidden > site["work"].stamp \/ site["work"].stamp >= req[t].began
    BY <1>1, <2>1, Known DEF Found, Mine
  <2>3. site["work"].stamp >= req[t].began
    BY <1>1, <2>1, <2>2, Known
  <2>4. Whole("work") => site["work"].pages = site["work"].stamp
    BY DEF Whole
  <2> QED
    BY <2>3, <2>4
<1> QED
  BY <1>1, InvHolds, PTL

(* A question is grounded in a parse that ended no earlier than the last   *)
(* move before it, or after which a move was hidden; one that saw a single *)
(* tree has a text that is no older.  The guide answers from a text of the *)
(* revision it cites, if HEAD stood still since the question and for the   *)
(* build of the index.                                                     *)
THEOREM AnswersAreGroundedCorrect ==
    ASSUME ServerAssumption
    PROVE  ViewerSpec => []AnswersAreGrounded
<1>1. ASSUME ServerInv
      PROVE  AnswersAreGrounded
  <2>1. SUFFICES ASSUME NEW t \in Threads
                 PROVE  /\ (req[t].step = "resolve" /\ Mine(t) = "work"
                             /\ hidden <= req[t].named) =>
                               /\ req[t].named >= req[t].began
                               /\ req[t].text = req[t].named => req[t].text >= req[t].began
                        /\ (req[t].step = "answer" /\ head <= req[t].began
                             /\ guide.sha <= guide.text) => req[t].named <= req[t].text
    BY DEF AnswersAreGrounded
  <2>2. /\ Found(req[t], version, hidden, head, site["work"].stamp, guide)
        /\ req[t].named \in Int /\ hidden \in Nat
    BY <1>1, Known DEF Texts, Nothing
  <2>3. ASSUME req[t].step = "resolve", Mine(t) = "work", hidden <= req[t].named
        PROVE  /\ req[t].named >= req[t].began
               /\ req[t].text = req[t].named => req[t].text >= req[t].began
    <3>1. hidden > req[t].named \/ req[t].named >= req[t].began
      BY <2>2, <2>3 DEF Found, Mine
    <3> QED
      BY <2>2, <2>3, <3>1
  <2>4. ASSUME req[t].step = "answer", head <= req[t].began, guide.sha <= guide.text
        PROVE  req[t].named <= req[t].text
    BY <2>2, <2>4 DEF Found
  <2> QED
    BY <2>3, <2>4
<1> QED
  BY <1>1, InvHolds, PTL
=============================================================================
