--------------------- MODULE FeatureConfigurationProofs ---------------------
(***************************************************************************)
(* What the decision of a feature configuration promises, for every tree   *)
(* and every configuration of it.                                          *)
(*                                                                         *)
(* A selection is decided in document order, so what the loop says of a    *)
(* feature depends on features it has passed and is never undone: that is  *)
(* LoopInv, which carries the comparison with every consistent selection   *)
(* along.  CheckInv records what an empty set of reasons means after each  *)
(* check; EveryVariationResolves and AdmittedIsOneAlternative follow.      *)
(***************************************************************************)
EXTENDS FeatureConfiguration, FiniteSetTheorems, TLAPS

After == {"groups", "selection", "derivation", "admission", "decided"}

(* The features of a tree and its sets of members are finite.              *)
LEMMA TreeFacts ==
  ASSUME TypeOK
  PROVE  /\ IsTree(model)
         /\ model.size \in Nat
         /\ Features = 1..model.size
         /\ \A f \in Features : model.owner[f] \in {0} \cup Features /\ model.owner[f] < f
         /\ \A g : IsFiniteSet(Chosen(g)) /\ Cardinality(Chosen(g)) \in Nat
<1>1. IsTree(model)
  BY ModelsAreTrees DEF TypeOK
<1>2. model.size \in Nat /\ Features = 1..model.size
  BY <1>1 DEF IsTree, Features, FeaturesOf
<1>3. \A f \in Features : model.owner[f] \in {0} \cup Features /\ model.owner[f] < f
  BY <1>1 DEF IsTree, Features, FeaturesOf
<1>4. ASSUME NEW g PROVE IsFiniteSet(Chosen(g)) /\ Cardinality(Chosen(g)) \in Nat
  <2>1. Chosen(g) \in SUBSET (1..model.size)
    BY <1>2 DEF Chosen, MembersOf, FeaturesOf
  <2>2. IsFiniteSet(1..model.size)
    BY <1>2, FS_Interval
  <2>3. IsFiniteSet(Chosen(g))
    BY <2>1, <2>2, FS_Subset
  <2> QED
    BY <2>3, FS_CardinalityType
<1> QED
  BY <1>1, <1>2, <1>3, <1>4

-----------------------------------------------------------------------------
(* Every variable keeps its type; the selection loop has passed what it    *)
(* selects.                                                                *)
THEOREM TypeCorrect == Spec => []TypeOK
<1>1. Init => TypeOK
  <2> SUFFICES ASSUME Init PROVE TypeOK
    OBVIOUS
  <2>1. model \in Models /\ step \in Steps /\ admitted \in BOOLEAN
    BY DEF Init, Steps
  <2>2. DOMAIN settings = {} /\ settings \in [{} -> Stated]
    BY DEF Init
  <2>3. IsTree(model)
    BY <2>1, ModelsAreTrees
  <2>4. model.size \in Nat
    BY <2>3 DEF IsTree
  <2>5. next \in 1..(model.size + 1) /\ selected \subseteq 1..(next - 1)
    BY <2>4 DEF Init
  <2> QED
    BY <2>1, <2>2, <2>5 DEF TypeOK, Entered
<1>2. TypeOK /\ [Next]_vars => TypeOK'
  <2> SUFFICES ASSUME TypeOK, [Next]_vars PROVE TypeOK'
    OBVIOUS
  <2>0. model.size \in Nat
    BY TreeFacts
  <2>1. CASE ReadConfiguration
    <3>1. PICK set \in SUBSET Features : settings' \in [set -> Stated]
      BY <2>1 DEF ReadConfiguration
    <3>2. DOMAIN settings' = set
      BY <3>1
    <3>3. /\ model' = model /\ next' = next /\ selected' = selected
          /\ admitted' = admitted /\ step' = "features"
      BY <2>1 DEF ReadConfiguration
    <3>4. Features' = Features
      BY <3>3 DEF Features
    <3> QED
      BY <3>1, <3>2, <3>3, <3>4 DEF TypeOK, Steps, Entered
  <2>2. CASE DecideFeature
    <3>1. /\ model' = model /\ settings' = settings /\ step' = step /\ admitted' = admitted
          /\ next \in Features /\ next' = next + 1
          /\ selected' \subseteq selected \cup {next}
      BY <2>2 DEF DecideFeature
    <3>2. next \in 1..model.size
      BY <3>1, TreeFacts
    <3>3. next' \in 1..(model.size + 1)
      BY <3>1, <3>2, <2>0
    <3>4. selected' \subseteq 1..(next' - 1)
      BY <3>1, <3>2, <2>0 DEF TypeOK
    <3>5. Features' = Features
      BY <3>1 DEF Features
    <3> QED
      BY <3>1, <3>3, <3>4, <3>5 DEF TypeOK, Entered
  <2>3. CASE Admit
    <3>1. admitted' \in BOOLEAN /\ step' \in Steps
      BY <2>3 DEF Admit, Steps
    <3>2. UNCHANGED <<model, settings, next, selected>>
      BY <2>3 DEF Admit
    <3> QED
      BY <3>1, <3>2 DEF TypeOK, Entered, Features
  <2>4. CASE ReadTree \/ RefuseTree \/ RefuseConfiguration \/ RefuseEntry \/ EndSelection
             \/ CheckGroups \/ RefuseListing \/ CheckSelection \/ Derive \/ UNCHANGED vars
    <3>1. UNCHANGED <<model, settings, next, selected, admitted>> /\ (step' \in Steps \/ step' = step)
      BY <2>4 DEF ReadTree, RefuseTree, RefuseConfiguration, RefuseEntry, EndSelection, CheckGroups,
                  RefuseListing, CheckSelection, Derive, Refuse, Steps, vars
    <3> QED
      BY <3>1 DEF TypeOK, Entered, Features
  <2> QED
    BY <2>1, <2>2, <2>3, <2>4 DEF Next
<1> QED
  BY <1>1, <1>2, PTL DEF Spec

-----------------------------------------------------------------------------
(* The selection loop.                                                     *)

Before == {"tree", "configuration"}
Looping == {"features"} \cup After

PassedAreDecided == \A f \in 1..(next - 1) : f \in selected <=> On(f)
BelowEveryConsistent == \A set \in SUBSET Features : Consistent(set) => selected \subseteq set
ConflictsAreReasons ==
  /\ \A f \in Entered : f < next => \A code \in EntryCodes(f) : Reason(code, "loop", f) \in reasons
  /\ \A r \in LoopReasons : \E f \in Entered : f < next /\ EntryCodes(f) # {}

LoopInv ==
  /\ step \in Before => next = 1 /\ selected = {} /\ reasons = {}
  /\ step \in Looping => /\ Nested(Entered)
                         /\ PassedAreDecided
                         /\ BelowEveryConsistent
                         /\ ConflictsAreReasons
  /\ step \in After => next = model.size + 1

(* Deciding a feature leaves what was decided of the ones before it.       *)
LEMMA DecidedStaysDecided ==
  ASSUME TypeOK, DecideFeature, NEW f \in 1..next
  PROVE  /\ ParentOn(f)' <=> ParentOn(f)
         /\ On(f)' <=> On(f)
         /\ EntryCodes(f)' = EntryCodes(f)
<1>1. /\ model' = model /\ settings' = settings /\ next \in Features
      /\ selected' \subseteq selected \cup {next} /\ selected \subseteq selected'
  BY DEF DecideFeature
<1>2. /\ model.size \in Nat /\ Features = 1..model.size
      /\ \A g \in Features : model.owner[g] \in {0} \cup Features /\ model.owner[g] < g
  BY TreeFacts
<1>3. f \in Features
  BY <1>1, <1>2
<1>4. model.owner[f] # next
  <2>1. model.owner[f] < f /\ f <= next /\ model.owner[f] \in Int /\ next \in Int /\ f \in Int
    BY <1>1, <1>2, <1>3
  <2> QED
    BY <2>1
<1>5. ParentOn(f)' <=> ParentOn(f)
  BY <1>1, <1>4 DEF ParentOn
<1>6. EntryOn(f)' = EntryOn(f) /\ Mandatory(f)' = Mandatory(f) /\ Entered' = Entered
  BY <1>1 DEF EntryOn, Mandatory, Entered
<1>7. On(f)' <=> On(f)
  BY <1>5, <1>6 DEF On
<1>8. EntryCodes(f)' = EntryCodes(f)
  BY <1>1, <1>5, <1>6 DEF EntryCodes
<1> QED
  BY <1>5, <1>7, <1>8

(* What the other steps of a configuration leave of the loop's result.     *)
LEMMA LoopIsOver ==
  ASSUME TypeOK, LoopInv, UNCHANGED <<model, settings, next, selected>>,
         LoopReasons' = LoopReasons, step \in Looping, step' \in Looping \cup {"refused"},
         step' \in After => next = model.size + 1
  PROVE  LoopInv'
<1>1. /\ Entered' = Entered /\ Features' = Features
      /\ \A f : /\ On(f)' = On(f)
               /\ EntryCodes(f)' = EntryCodes(f)
      /\ \A set : Consistent(set)' = Consistent(set)
  BY DEF Entered, Features, On, ParentOn, EntryOn, Mandatory, EntryCodes, Consistent
<1>2. Nested(Entered)'
  BY <1>1 DEF LoopInv, Nested
<1>3. PassedAreDecided'
  BY <1>1 DEF LoopInv, PassedAreDecided
<1>4. BelowEveryConsistent'
  BY <1>1 DEF LoopInv, BelowEveryConsistent
<1>5. ConflictsAreReasons'
  <2>1. ConflictsAreReasons
    BY DEF LoopInv
  <2>2. ASSUME NEW f \in Entered, f < next, NEW code \in EntryCodes(f)
        PROVE  Reason(code, "loop", f) \in reasons'
    <3>1. Reason(code, "loop", f) \in LoopReasons
      BY <2>1, <2>2 DEF ConflictsAreReasons, LoopReasons, Reason
    <3> QED
      BY <3>1 DEF LoopReasons
  <2> QED
    BY <1>1, <2>1, <2>2 DEF ConflictsAreReasons
<1> QED
  BY <1>2, <1>3, <1>4, <1>5 DEF LoopInv, Before, Looping, After

LEMMA LoopInvHolds == Spec => []LoopInv
<1>1. Init => LoopInv
  BY DEF Init, LoopInv, Before, Looping, After
<1>2. TypeOK /\ LoopInv /\ [Next]_vars => LoopInv'
  <2> SUFFICES ASSUME TypeOK, LoopInv, [Next]_vars PROVE LoopInv'
    OBVIOUS
  <2>0. /\ model.size \in Nat /\ Features = 1..model.size
        /\ \A g \in Features : model.owner[g] \in {0} \cup Features /\ model.owner[g] < g
    BY TreeFacts
  <2>1. CASE ReadTree
    BY <2>1 DEF ReadTree, LoopInv, Before, Looping, After
  <2>2. CASE RefuseTree \/ RefuseConfiguration \/ RefuseEntry \/ RefuseListing
    BY <2>2 DEF RefuseTree, RefuseConfiguration, RefuseEntry, RefuseListing, Refuse, LoopInv, Before,
                Looping, After
  <2>3. CASE ReadConfiguration
    <3>1. PICK set \in SUBSET Features : Nested(set) /\ settings' \in [set -> Stated]
      BY <2>3 DEF ReadConfiguration
    <3>2. model' = model /\ next' = 1 /\ selected' = {} /\ step' = "features"
      BY <2>3 DEF ReadConfiguration, LoopInv, Before
    <3>3. Nested(Entered)'
      BY <3>1, <3>2 DEF Nested, Entered
    <3>4. LoopReasons' = {}
      <4>1. PICK strays \in SUBSET StrayCodes : reasons' = {Reason(code, "entry", 0) : code \in strays}
        BY <2>3 DEF ReadConfiguration
      <4> QED
        BY <4>1 DEF LoopReasons, Reason
    <3>5. ~ \E f \in Entered' : f < 1
      <4>1. Entered' = set
        BY <3>1 DEF Entered
      <4>2. \A f \in 1..model.size : ~(f < 1)
        BY <2>0
      <4> QED
        BY <4>1, <4>2, <2>0
    <3>6. PassedAreDecided' /\ BelowEveryConsistent'
      BY <3>2 DEF PassedAreDecided, BelowEveryConsistent
    <3>7. ConflictsAreReasons'
      BY <3>2, <3>4, <3>5 DEF ConflictsAreReasons
    <3> QED
      BY <3>2, <3>3, <3>6, <3>7 DEF LoopInv, Before, After
  <2>4. CASE DecideFeature
    <3>1. /\ step = "features" /\ step' = step /\ model' = model /\ settings' = settings
          /\ next \in Features /\ next' = next + 1
          /\ selected' = IF On(next) THEN selected \cup {next} ELSE selected
          /\ reasons' = reasons \cup EntryReasons(next)
      BY <2>4 DEF DecideFeature
    <3>2. /\ Nested(Entered) /\ PassedAreDecided /\ BelowEveryConsistent /\ ConflictsAreReasons
      BY <3>1 DEF LoopInv, Looping
    <3>3. /\ Entered' = Entered /\ Features' = Features
          /\ \A set : Consistent(set)' = Consistent(set)
      BY <3>1 DEF Entered, Features, Consistent, EntryOn, Mandatory
    <3>4. next \in Nat /\ next \notin selected
      BY <3>1, <2>0 DEF TypeOK
    <3>5. PassedAreDecided'
      <4> SUFFICES ASSUME NEW f \in 1..next PROVE f \in selected' <=> On(f)'
        BY <3>1, <3>4 DEF PassedAreDecided
      <4>1. On(f)' <=> On(f)
        BY <2>4, DecidedStaysDecided
      <4>2. CASE f = next
        BY <4>1, <4>2, <3>1, <3>4
      <4>3. CASE f # next
        <5>1. f \in 1..(next - 1)
          BY <4>3, <3>4
        <5>2. f \in selected <=> On(f)
          BY <5>1, <3>2 DEF PassedAreDecided
        <5> QED
          BY <5>2, <4>1, <4>3, <3>1
      <4> QED
        BY <4>2, <4>3
    <3>6. BelowEveryConsistent'
      <4> SUFFICES ASSUME NEW set \in SUBSET Features, Consistent(set), On(next)
                   PROVE  next \in set
        BY <3>1, <3>2, <3>3 DEF BelowEveryConsistent
      <4>1. selected \subseteq set
        BY <3>2 DEF BelowEveryConsistent
      <4>2. CASE next \in Entered
        BY <4>2 DEF On, Consistent
      <4>3. CASE next \notin Entered
        <5>1. ParentOn(next) /\ Mandatory(next)
          BY <4>3 DEF On
        <5>2. model.owner[next] \in set \cup {0}
          BY <5>1, <4>1 DEF ParentOn
        <5> QED
          BY <5>1, <5>2, <3>1 DEF Consistent
      <4> QED
        BY <4>2, <4>3
    <3>7. ConflictsAreReasons'
      <4>1. ASSUME NEW f \in Entered, f < next + 1, NEW code \in EntryCodes(f)'
            PROVE  Reason(code, "loop", f) \in reasons'
        <5>1. f \in 1..next
          <6>1. f \in Features
            BY DEF TypeOK
          <6> QED
            BY <6>1, <4>1, <2>0, <3>4
        <5>2. code \in EntryCodes(f)
          BY <5>1, <2>4, DecidedStaysDecided
        <5>3. CASE f = next
          BY <5>2, <5>3, <3>1 DEF EntryReasons
        <5>4. CASE f # next
          <6>1. f < next
            BY <5>1, <5>4, <3>4
          <6> QED
            BY <6>1, <5>2, <3>1, <3>2 DEF ConflictsAreReasons
        <5> QED
          BY <5>3, <5>4
      <4>2. ASSUME NEW r \in LoopReasons'
            PROVE  \E f \in Entered : f < next + 1 /\ EntryCodes(f)' # {}
        <5>1. CASE r \in reasons
          <6>1. r \in LoopReasons
            BY <5>1 DEF LoopReasons
          <6>2. PICK f \in Entered : f < next /\ EntryCodes(f) # {}
            BY <6>1, <3>2 DEF ConflictsAreReasons
          <6>3. f \in 1..next /\ f < next + 1
            <7>1. f \in Features
              BY DEF TypeOK
            <7> QED
              BY <7>1, <6>2, <2>0, <3>4
          <6> QED
            BY <6>2, <6>3, <2>4, DecidedStaysDecided
        <5>2. CASE r \in EntryReasons(next)
          <6>1. next \in Entered /\ EntryCodes(next) # {}
            BY <5>2 DEF EntryReasons
          <6>2. next \in 1..next /\ next < next + 1
            BY <3>4, <3>1, <2>0
          <6> QED
            BY <6>1, <6>2, <2>4, DecidedStaysDecided
        <5> QED
          BY <5>1, <5>2, <3>1 DEF LoopReasons
      <4> QED
        BY <4>1, <4>2, <3>1, <3>3 DEF ConflictsAreReasons
    <3>8. Nested(Entered)'
      BY <3>1, <3>2, <3>3 DEF Nested
    <3> QED
      BY <3>1, <3>5, <3>6, <3>7, <3>8 DEF LoopInv, Before, Looping, After
  <2>5. CASE EndSelection
    <3>1. UNCHANGED <<model, settings, next, selected, reasons>> /\ step = "features" /\ step' = "groups"
          /\ next \notin Features
      BY <2>5 DEF EndSelection
    <3>2. next = model.size + 1
      BY <3>1, <2>0 DEF TypeOK
    <3>3. LoopReasons' = LoopReasons
      BY <3>1 DEF LoopReasons
    <3> QED
      BY <3>1, <3>2, <3>3, LoopIsOver DEF Looping, After
  <2>6. CASE CheckGroups
    <3>1. LoopReasons' = LoopReasons
      BY <2>6 DEF CheckGroups, LoopReasons, Reason
    <3> QED
      BY <2>6, <3>1, LoopIsOver DEF CheckGroups, Looping, After, LoopInv
  <2>7. CASE CheckSelection
    <3>1. LoopReasons' = LoopReasons
      BY <2>7 DEF CheckSelection, LoopReasons, Reason
    <3> QED
      BY <2>7, <3>1, LoopIsOver DEF CheckSelection, Looping, After, LoopInv
  <2>8. CASE Derive
    <3>1. LoopReasons' = LoopReasons
      BY <2>8 DEF Derive, LoopReasons, Reason
    <3> QED
      BY <2>8, <3>1, LoopIsOver DEF Derive, Looping, After, LoopInv
  <2>9. CASE Admit
    <3>1. LoopReasons' = LoopReasons
      BY <2>9 DEF Admit, LoopReasons
    <3> QED
      BY <2>9, <3>1, LoopIsOver DEF Admit, Looping, After, LoopInv
  <2>10. CASE UNCHANGED vars
    <3>1. UNCHANGED <<model, step, settings, next, selected, reasons>> /\ LoopReasons' = LoopReasons
      BY <2>10 DEF vars, LoopReasons
    <3>2. CASE step \in Looping
      BY <3>1, <3>2, LoopIsOver DEF LoopInv
    <3>3. CASE step \notin Looping
      BY <3>1, <3>3 DEF LoopInv, Looping, After, Before
    <3> QED
      BY <3>2, <3>3
  <2> QED
    BY <2>1, <2>2, <2>3, <2>4, <2>5, <2>6, <2>7, <2>8, <2>9, <2>10 DEF Next
<1> QED
  BY <1>1, <1>2, TypeCorrect, PTL DEF Spec

(* The loop selects the least selection consistent with the entries, and   *)
(* gives a reason exactly where there is none.                             *)
THEOREM SelectionCorrect == Spec => []SelectionIsLeast
<1>1. TypeOK /\ LoopInv => SelectionIsLeast
  <2> SUFFICES ASSUME TypeOK, LoopInv, step \in After
               PROVE  /\ LoopReasons = {} => Consistent(selected)
                      /\ \A set \in SUBSET Features : Consistent(set) => selected \subseteq set
                      /\ LoopReasons # {} => \A set \in SUBSET Features : ~Consistent(set)
    BY DEF SelectionIsLeast, After
  <2>0. /\ model.size \in Nat /\ Features = 1..model.size
        /\ \A g \in Features : model.owner[g] \in {0} \cup Features /\ model.owner[g] < g
    BY TreeFacts
  <2>1. /\ Nested(Entered) /\ PassedAreDecided /\ BelowEveryConsistent /\ ConflictsAreReasons
        /\ next = model.size + 1 /\ Entered \subseteq Features
    BY DEF LoopInv, Looping, TypeOK
  <2>2. \A f \in Features : f \in selected <=> On(f)
    BY <2>0, <2>1 DEF PassedAreDecided
  <2>3. \A f \in Entered : f < next
    BY <2>0, <2>1
  <2>4. ASSUME LoopReasons = {} PROVE Consistent(selected)
    <3>1. \A f \in Entered : EntryCodes(f) = {}
      <4> SUFFICES ASSUME NEW f \in Entered, NEW code \in EntryCodes(f) PROVE FALSE
        OBVIOUS
      <4>1. Reason(code, "loop", f) \in LoopReasons
        BY <2>1, <2>3 DEF ConflictsAreReasons, LoopReasons, Reason
      <4> QED
        BY <4>1, <2>4
    <3>2. \A f \in Entered : /\ EntryOn(f) => ParentOn(f)
                             /\ Mandatory(f) /\ ParentOn(f) => EntryOn(f)
                             /\ EntryOn(f) => model.bounds[f].upper # 0
      BY <3>1 DEF EntryCodes
    <3>3. \A f \in selected : f \in Features
      BY <2>0, <2>1 DEF TypeOK
    <3>4. \A f \in Entered : f \in selected <=> EntryOn(f)
      BY <2>1, <2>2 DEF On
    <3>5. \A f \in selected : model.owner[f] \in selected \cup {0}
      BY <2>2, <3>2, <3>3 DEF On, ParentOn
    <3>6. \A f \in Features : model.owner[f] \in selected \cup {0} /\ Mandatory(f) => f \in selected
      BY <2>2, <3>2 DEF On, ParentOn
    <3> QED
      BY <3>2, <3>4, <3>5, <3>6 DEF Consistent
  <2>5. ASSUME LoopReasons # {}, NEW set \in SUBSET Features, Consistent(set) PROVE FALSE
    <3>1. PICK f \in Entered : EntryCodes(f) # {}
      BY <2>1, <2>5 DEF ConflictsAreReasons
    <3>2. selected \subseteq set
      BY <2>1, <2>5 DEF BelowEveryConsistent
    <3>3. CASE EntryOn(f) /\ ~ParentOn(f)
      <4>1. model.owner[f] \in Entered /\ model.owner[f] \notin selected
        BY <3>3, <2>1 DEF Nested, ParentOn
      <4>2. ~EntryOn(model.owner[f])
        BY <4>1, <2>1, <2>2 DEF On
      <4>3. f \in set /\ model.owner[f] # 0
        BY <3>3, <2>5 DEF Consistent, ParentOn
      <4>4. model.owner[f] \in set
        BY <4>3, <2>5 DEF Consistent
      <4> QED
        BY <4>1, <4>2, <4>4, <2>5 DEF Consistent
    <3>4. CASE ~EntryOn(f) /\ Mandatory(f) /\ ParentOn(f)
      <4>1. model.owner[f] \in set \cup {0} /\ f \in Features
        BY <3>4, <3>2, <2>1 DEF ParentOn
      <4> QED
        BY <4>1, <3>4, <2>5 DEF Consistent
    <3>5. CASE EntryOn(f) /\ model.bounds[f].upper = 0
      BY <3>5, <2>5 DEF Consistent
    <3> QED
      BY <3>1, <3>3, <3>4, <3>5 DEF EntryCodes
  <2> QED
    BY <2>1, <2>4, <2>5 DEF BelowEveryConsistent
<1> QED
  BY <1>1, TypeCorrect, LoopInvHolds, PTL

-----------------------------------------------------------------------------
(* What the checks leave: an empty set of reasons after each of them.      *)

DerivationCodes == {"derivation-no-rule", "derivation-ambiguous"}
Sound ==
  /\ \A g \in Groups : GroupIsWithin(g)
  /\ \A c \in model.constraints : ~Rejects(c)
  /\ Intact(model)
Unresolved == {Reason(MatchCode(d), "derivation", d.variation) : d \in model.derivations \ Resolved}

CheckInv ==
  /\ step \notin {"tree", "refused"} => WellShaped(model)
  /\ step \in {"selection", "derivation"} /\ reasons = {} => \A g \in Groups : GroupIsWithin(g)
  /\ step = "derivation" /\ reasons = {} => Sound
  /\ step \notin {"admission", "decided"} => \A r \in reasons : r.code \notin DerivationCodes
  /\ step \in {"admission", "decided"} =>
       \/ /\ reasons # {}
          /\ \A r \in reasons : r.code \notin DerivationCodes
       \/ /\ Sound
          /\ reasons = Unresolved
          /\ reasons = {} => derived = BoundVariants \cup DerivedVariants

(* The reasons found before derivation have codes of their own.            *)
LEMMA CodesBeforeDerivation ==
  ASSUME TypeOK,
         ReadConfiguration \/ DecideFeature \/ CheckGroups \/ CheckSelection,
         \A r \in reasons : r.code \notin DerivationCodes
  PROVE  \A r \in reasons' : r.code \notin DerivationCodes
<1>1. CASE ReadConfiguration
  <2>1. PICK strays \in SUBSET StrayCodes : reasons' = {Reason(code, "entry", 0) : code \in strays}
    BY <1>1 DEF ReadConfiguration
  <2>2. \A code \in StrayCodes : code \notin DerivationCodes
    BY StrayCodesAreCodes DEF DerivationCodes
  <2> QED
    BY <2>1, <2>2 DEF Reason
<1>2. CASE DecideFeature
  <2>1. \A code \in EntryCodes(next) : code \notin DerivationCodes
    BY DEF EntryCodes, DerivationCodes
  <2>2. \A r \in EntryReasons(next) : r.code \notin DerivationCodes
    BY <2>1 DEF EntryReasons, Reason
  <2> QED
    BY <1>2, <2>2 DEF DecideFeature
<1>3. CASE CheckGroups
  <2>1. \A g : GroupCode(g) \notin DerivationCodes
    BY DEF GroupCode, DerivationCodes
  <2> QED
    BY <1>3, <2>1 DEF CheckGroups, Reason
<1>4. CASE CheckSelection
  <2>1. /\ \A c : ConstraintCode(c) \notin DerivationCodes
        /\ "binding-time" \notin DerivationCodes /\ "model-integrity" \notin DerivationCodes
    BY DEF ConstraintCode, DerivationCodes
  <2> QED
    BY <1>4, <2>1 DEF CheckSelection, Reason
<1> QED
  BY <1>1, <1>2, <1>3, <1>4

(* The operators that speak of the selection change with it alone.         *)
LEMMA SameSelection ==
  ASSUME UNCHANGED <<model, settings, selected>>
  PROVE  /\ Groups' = Groups
         /\ \A g : GroupIsWithin(g)' = GroupIsWithin(g)
         /\ Sound' = Sound
         /\ Unresolved' = Unresolved
         /\ BoundVariants' = BoundVariants /\ DerivedVariants' = DerivedVariants
         /\ WellShaped(model)' = WellShaped(model)
<1>1. Groups' = Groups /\ Intact(model)' = Intact(model) /\ WellShaped(model)' = WellShaped(model)
  BY DEF Groups
<1>2. \A g : GroupIsWithin(g)' = GroupIsWithin(g)
  BY DEF GroupIsWithin, BoundsOn, Chosen, Entered
<1>3. \A c : Rejects(c)' = Rejects(c)
  BY DEF Rejects
<1>4. Sound' = Sound
  BY <1>1, <1>2, <1>3 DEF Sound
<1>5. Resolved' = Resolved /\ \A d : Matches(d)' = Matches(d) /\ MatchCode(d)' = MatchCode(d)
  BY DEF Resolved, Matches, MatchCode
<1>6. Unresolved' = Unresolved
  BY <1>5 DEF Unresolved
<1>7. BoundVariants' = BoundVariants /\ DerivedVariants' = DerivedVariants
  BY <1>5 DEF BoundVariants, DerivedVariants
<1> QED
  BY <1>1, <1>2, <1>4, <1>6, <1>7

LEMMA CheckInvHolds == Spec => []CheckInv
<1>1. Init => CheckInv
  BY DEF Init, CheckInv
<1>2. TypeOK /\ CheckInv /\ [Next]_vars => CheckInv'
  <2> SUFFICES ASSUME TypeOK, CheckInv, [Next]_vars PROVE CheckInv'
    OBVIOUS
  <2>1. CASE ReadTree
    BY <2>1 DEF ReadTree, CheckInv
  <2>2. CASE RefuseTree \/ RefuseConfiguration \/ RefuseEntry \/ RefuseListing
    <3>1. step' = "refused" /\ reasons' = reasons /\ step \notin {"admission", "decided"}
      BY <2>2 DEF RefuseTree, RefuseConfiguration, RefuseEntry, RefuseListing, Refuse
    <3> QED
      BY <3>1 DEF CheckInv
  <2>3. CASE ReadConfiguration
    <3>1. /\ step = "configuration" /\ step' = "features" /\ model' = model
      BY <2>3 DEF ReadConfiguration
    <3>2. \A r \in reasons' : r.code \notin DerivationCodes
      BY <2>3, <3>1, CodesBeforeDerivation DEF CheckInv
    <3> QED
      BY <3>1, <3>2 DEF CheckInv
  <2>4. CASE DecideFeature
    <3>1. /\ step = "features" /\ step' = step /\ model' = model
      BY <2>4 DEF DecideFeature
    <3>2. \A r \in reasons' : r.code \notin DerivationCodes
      BY <2>4, <3>1, CodesBeforeDerivation DEF CheckInv
    <3> QED
      BY <3>1, <3>2 DEF CheckInv
  <2>5. CASE EndSelection
    BY <2>5 DEF EndSelection, CheckInv
  <2>6. CASE CheckGroups
    <3>1. /\ step = "groups" /\ step' = "selection" /\ UNCHANGED <<model, settings, selected>>
      BY <2>6 DEF CheckGroups
    <3>2. \A r \in reasons' : r.code \notin DerivationCodes
      BY <2>6, <3>1, CodesBeforeDerivation DEF CheckInv
    <3>3. reasons' = {} => \A g \in Groups : GroupIsWithin(g)
      BY <2>6 DEF CheckGroups
    <3> QED
      BY <3>1, <3>2, <3>3, SameSelection DEF CheckInv
  <2>7. CASE CheckSelection
    <3>1. /\ step = "selection" /\ step' = "derivation" /\ UNCHANGED <<model, settings, selected>>
          /\ reasons \subseteq reasons'
      BY <2>7 DEF CheckSelection
    <3>2. \A r \in reasons' : r.code \notin DerivationCodes
      BY <2>7, <3>1, CodesBeforeDerivation DEF CheckInv
    <3>3. ASSUME reasons' = {} PROVE Sound
      <4>1. \A g \in Groups : GroupIsWithin(g)
        BY <3>1, <3>3 DEF CheckInv
      <4>2. Intact(model) /\ {c \in model.constraints : Rejects(c)} = {}
        BY <2>7, <3>3 DEF CheckSelection
      <4> QED
        BY <4>1, <4>2 DEF Sound
    <3>4. Sound' = Sound /\ WellShaped(model)' = WellShaped(model)
          /\ Groups' = Groups /\ \A g : GroupIsWithin(g)' = GroupIsWithin(g)
      BY <3>1, SameSelection
    <3>5. reasons' = {} => \A g \in Groups : GroupIsWithin(g)
      BY <3>3 DEF Sound
    <3>6. WellShaped(model)'
      BY <3>1, <3>4 DEF CheckInv
    <3> QED
      BY <3>1, <3>2, <3>3, <3>4, <3>5, <3>6 DEF CheckInv
  <2>8. CASE Derive
    <3>1. /\ step = "derivation" /\ step' = "admission" /\ UNCHANGED <<model, settings, selected>>
      BY <2>8 DEF Derive
    <3>2. /\ Sound' = Sound /\ WellShaped(model)' = WellShaped(model) /\ Unresolved' = Unresolved
          /\ BoundVariants' = BoundVariants /\ DerivedVariants' = DerivedVariants
      BY <3>1, SameSelection
    <3>3. CASE reasons # {}
      <4>1. reasons' = reasons
        BY <2>8, <3>3 DEF Derive
      <4> QED
        BY <3>1, <3>2, <3>3, <4>1 DEF CheckInv
    <3>4. CASE reasons = {}
      <4>1. Sound
        BY <3>1, <3>4 DEF CheckInv
      <4>2. reasons' = Unresolved /\ (reasons' = {} => derived' = BoundVariants \cup DerivedVariants)
        BY <2>8, <3>4 DEF Derive, Unresolved
      <4> QED
        BY <3>1, <3>2, <4>1, <4>2 DEF CheckInv
    <3> QED
      BY <3>3, <3>4
  <2>9. CASE Admit
    <3>1. /\ step = "admission" /\ step' = "decided"
          /\ UNCHANGED <<model, settings, selected, reasons, derived>>
      BY <2>9 DEF Admit
    <3> QED
      BY <3>1, SameSelection DEF CheckInv
  <2>10. CASE UNCHANGED vars
    <3>1. UNCHANGED <<model, settings, selected, reasons, derived, step>>
      BY <2>10 DEF vars
    <3> QED
      BY <3>1, SameSelection DEF CheckInv
  <2> QED
    BY <2>1, <2>2, <2>3, <2>4, <2>5, <2>6, <2>7, <2>8, <2>9, <2>10 DEF Next
<1> QED
  BY <1>1, <1>2, TypeCorrect, PTL DEF Spec

-----------------------------------------------------------------------------
(* Derivation is total and unambiguous.                                    *)

(* A selected exactly-one group has one selected member.                   *)
LEMMA OneChoice ==
  ASSUME TypeOK, NEW g \in Groups, GroupIsWithin(g), g \in selected, model.bounds[g] = ExactlyOne
  PROVE  \E f : Chosen(g) = {f}
<1>1. IsFiniteSet(Chosen(g)) /\ Cardinality(Chosen(g)) \in Nat
  BY TreeFacts
<1>2. Within(Cardinality(Chosen(g)), ExactlyOne)
  BY DEF GroupIsWithin, BoundsOn
<1>3. Cardinality(Chosen(g)) = 1
  BY <1>1, <1>2 DEF Within, ExactlyOne, Multiplicity, Many
<1> QED
  BY <1>1, <1>3, FS_Singleton

(* A selected member has its group selected.                               *)
LEMMA GroupOfChoice ==
  ASSUME NEW g \in Groups, GroupIsWithin(g), Chosen(g) # {}
  PROVE  g \in selected
BY DEF GroupIsWithin

(* A set of two elements, as a pair.                                       *)
LEMMA TwoElements ==
  ASSUME NEW S, IsFiniteSet(S), Cardinality(S) = 2
  PROVE  \E x, y : x # y /\ S = {x, y}
<1>1. S # {}
  BY FS_EmptySet
<1>2. PICK x \in S : TRUE
  BY <1>1
<1>3. IsFiniteSet(S \ {x}) /\ Cardinality(S \ {x}) = 1
  BY <1>2, FS_RemoveElement
<1>4. PICK y : S \ {x} = {y}
  BY <1>3, FS_Singleton
<1>5. x # y /\ S = {x, y}
  BY <1>2, <1>4
<1> QED
  BY <1>5

(* In a sound tree, with a selection that passed the checks, the two       *)
(* selected alternatives have a rule, and no other rule matches.           *)
LEMMA OneRuleMatches ==
  ASSUME TypeOK, Sound, NEW d \in model.derivations, d.sources \subseteq selected
  PROVE  \E r \in d.rules : Matches(d) = {r}
<1>0. /\ IsTree(model) /\ Features = 1..model.size /\ model.size \in Nat
      /\ IsFiniteSet(d.rules) /\ d.sources \subseteq Features /\ IsFiniteSet(model.constraints)
      /\ \A r \in d.rules : r.premises \subseteq Features
  BY TreeFacts DEF IsTree, Features
<1>1. PremisesAreAlternatives(model, d) /\ RulesAgree(model, d)
  BY DEF Sound, Intact
<1>2. IsFiniteSet(d.sources)
  <2>1. IsFiniteSet(1..model.size) /\ d.sources \in SUBSET (1..model.size)
    BY <1>0, FS_Interval
  <2> QED
    BY <2>1, FS_Subset
<1>3. PICK g, h : g # h /\ d.sources = {g, h}
  BY <1>1, <1>2, TwoElements DEF RulesAgree
<1>4. /\ g \in Groups /\ g \in selected /\ model.bounds[g] = ExactlyOne /\ GroupIsWithin(g)
      /\ h \in Groups /\ h \in selected /\ model.bounds[h] = ExactlyOne /\ GroupIsWithin(h)
  BY <1>0, <1>1, <1>3 DEF RulesAgree, PremisesAreAlternatives, Sound, Groups, GroupsOf, Features
<1>5. PICK f : Chosen(g) = {f}
  BY <1>4, OneChoice
<1>6. PICK k : Chosen(h) = {k}
  BY <1>4, OneChoice
<1>7. /\ f \in MembersOf(model, g) /\ f \in selected /\ k \in MembersOf(model, h) /\ k \in selected
  BY <1>5, <1>6 DEF Chosen
<1>8. ExclusionsOf(model, f, k) = {}
  <2> SUFFICES ASSUME NEW c \in model.constraints, PairExcluded(model, c, f, k) PROVE FALSE
    BY DEF ExclusionsOf
  <2>1. c.kind = "xor" /\ c.owner \in selected /\ c.b \cap selected # {}
    BY <1>7 DEF PairExcluded
  <2>2. Rejects(c)
    BY <2>1 DEF Rejects
  <2> QED
    BY <2>2 DEF Sound
<1>9. Cardinality(RulesOf(d, f, k)) + Cardinality(ExclusionsOf(model, f, k)) = 1
  BY <1>1, <1>3, <1>7 DEF RulesAgree
<1>10. IsFiniteSet(RulesOf(d, f, k))
  <2>1. RulesOf(d, f, k) \in SUBSET d.rules
    BY DEF RulesOf
  <2> QED
    BY <2>1, <1>0, FS_Subset
<1>11. Cardinality(RulesOf(d, f, k)) = 1
  <2>1. Cardinality(ExclusionsOf(model, f, k)) = 0
    BY <1>8, FS_EmptySet
  <2>2. Cardinality(RulesOf(d, f, k)) \in Nat
    BY <1>10, FS_CardinalityType
  <2> QED
    BY <2>1, <2>2, <1>9
<1>12. PICK r : RulesOf(d, f, k) = {r}
  BY <1>10, <1>11, FS_Singleton
<1>13. r \in d.rules /\ r \in Matches(d)
  BY <1>7, <1>12 DEF RulesOf, Matches
<1>14. ASSUME NEW t \in Matches(d) PROVE t = r
  <2>1. t \in d.rules /\ t.premises \subseteq selected /\ t.premises \subseteq Features
    BY <1>0 DEF Matches
  <2>2. {model.group[p] : p \in t.premises} = {g, h}
    BY <1>1, <1>3, <2>1 DEF RulesAgree
  <2>3. ASSUME NEW p \in t.premises PROVE p = f \/ p = k
    <3>1. model.group[p] = g \/ model.group[p] = h
      BY <2>2
    <3>2. p \in Chosen(g) \/ p \in Chosen(h)
      BY <3>1, <2>1 DEF Chosen, MembersOf, Features
    <3> QED
      BY <3>2, <1>5, <1>6
  <2>4. model.group[f] = g /\ model.group[k] = h
    BY <1>7 DEF MembersOf
  <2>5. f \in t.premises
    <3>1. PICK p \in t.premises : model.group[p] = g
      BY <2>2
    <3> QED
      BY <3>1, <2>3, <2>4, <1>3
  <2>6. k \in t.premises
    <3>1. PICK p \in t.premises : model.group[p] = h
      BY <2>2
    <3> QED
      BY <3>1, <2>3, <2>4, <1>3
  <2>7. t.premises = {f, k}
    BY <2>3, <2>5, <2>6
  <2>8. t \in RulesOf(d, f, k)
    BY <2>1, <2>7 DEF RulesOf
  <2> QED
    BY <2>8, <1>12
<1>15. Matches(d) = {r}
  BY <1>13, <1>14
<1> QED
  BY <1>13, <1>15

(* A rule that matches has its sources selected.                           *)
LEMMA MatchesOnlySelectedSources ==
  ASSUME TypeOK, Sound, NEW d \in model.derivations, Matches(d) # {}
  PROVE  d.sources \subseteq selected
<1>1. PICK t \in d.rules : t.premises \subseteq selected
  BY DEF Matches
<1>2. PremisesAreAlternatives(model, d) /\ RulesAgree(model, d)
  BY DEF Sound, Intact
<1>3. ASSUME NEW g \in d.sources PROVE g \in selected
  <2>1. PICK p \in t.premises : model.group[p] = g
    BY <1>1, <1>2 DEF RulesAgree
  <2>2. p \in Features /\ g \in Features
    BY <1>1, TreeFacts DEF IsTree, Features
  <2>3. p \in Chosen(g) /\ g \in Groups
    BY <2>1, <2>2, <1>1, <1>2 DEF Chosen, MembersOf, Features, Groups, GroupsOf, PremisesAreAlternatives
  <2>4. GroupIsWithin(g)
    BY <2>3 DEF Sound
  <2> QED
    BY <2>3, <2>4, GroupOfChoice
<1> QED
  BY <1>3

(* A derivation is resolved exactly when its sources are selected, and     *)
(* otherwise no rule matches.                                              *)
LEMMA ResolvedOrOff ==
  ASSUME TypeOK, Sound, NEW d \in model.derivations
  PROVE  /\ d \in Resolved => \E r \in d.rules : Matches(d) = {r}
         /\ d \notin Resolved => MatchCode(d) = "derivation-no-rule" /\ ~(d.sources \subseteq selected)
<1>1. CASE d.sources \subseteq selected
  <2>1. PICK r \in d.rules : Matches(d) = {r}
    BY <1>1, OneRuleMatches
  <2>2. d \in Resolved
    BY <2>1, FS_Singleton DEF Resolved
  <2> QED
    BY <2>1, <2>2
<1>2. CASE ~(d.sources \subseteq selected)
  <2>1. Matches(d) = {}
    BY <1>2, MatchesOnlySelectedSources
  <2>2. d \notin Resolved
    BY <2>1, FS_EmptySet DEF Resolved
  <2> QED
    BY <2>1, <2>2, <1>2 DEF MatchCode
<1> QED
  BY <1>1, <1>2

(* A derived variation gets the one variant of its matching rule.          *)
LEMMA DerivedVariationResolves ==
  ASSUME TypeOK, Sound, WellShaped(model), Unresolved = {},
         derived = BoundVariants \cup DerivedVariants, NEW d \in model.derivations
  PROVE  Cardinality(VariantsFor(d.variation)) = 1
<1>1. d \in Resolved
  BY DEF Unresolved
<1>2. PICK r \in d.rules : Matches(d) = {r}
  BY <1>1, ResolvedOrOff
<1>3. \A e \in model.derivations : e.variation = d.variation => e = d
  BY DEF WellShaped, DependenciesAreWellShaped
<1>4. \A b \in model.bindings : b.variation # d.variation
  BY DEF Sound, Intact, BindingsAreOneToOne, BoundVariations, DerivedVariations
<1>5. VariantsFor(d.variation) = {<<d.variation, r.result>>}
  <2>1. <<d.variation, r.result>> \in DerivedVariants
    BY <1>1, <1>2 DEF DerivedVariants
  <2>2. ASSUME NEW pair \in derived, pair[1] = d.variation PROVE pair = <<d.variation, r.result>>
    <3>1. pair \notin BoundVariants
      BY <2>2, <1>4 DEF BoundVariants
    <3>2. pair \in DerivedVariants
      BY <3>1
    <3>3. PICK e \in Resolved : \E t \in Matches(e) : pair = <<e.variation, t.result>>
      BY <3>2 DEF DerivedVariants
    <3>4. e \in model.derivations /\ e.variation = d.variation
      BY <3>3, <2>2 DEF Resolved
    <3> QED
      BY <3>3, <3>4, <1>2, <1>3
  <2> QED
    BY <2>1, <2>2 DEF VariantsFor
<1> QED
  BY <1>5, FS_Singleton

(* A bound variation gets the variant of the selected member, if any.      *)
LEMMA BoundVariationResolves ==
  ASSUME TypeOK, Sound, derived = BoundVariants \cup DerivedVariants,
         NEW v \in BoundVariations(model), NEW g \in BoundGroup(model, v)
  PROVE  Cardinality(VariantsFor(v)) = (IF g \in selected THEN 1 ELSE 0)
<1>1. PICK h \in Groups : /\ BoundGroup(model, v) = {h}
                         /\ model.bounds[h] = ExactlyOne
                         /\ {b.feature : b \in BindingsOf(model, v)} = MembersOf(model, h)
  BY DEF Sound, Intact, BindingsAreOneToOne, Groups
<1>2. h = g /\ GroupIsWithin(g)
  BY <1>1 DEF Sound
<1>3. \A pair \in DerivedVariants : pair[1] # v
  <2>1. \A d \in model.derivations : d.variation # v
    BY DEF Sound, Intact, BindingsAreOneToOne, DerivedVariations
  <2> QED
    BY <2>1 DEF DerivedVariants, Resolved
<1>4. VariantsFor(v) = {<<b.variation, b.variant>> : b \in {c \in BindingsOf(model, v) : c.feature \in selected}}
  BY <1>3 DEF VariantsFor, BoundVariants, BindingsOf
<1>5. CASE g \in selected
  <2>1. PICK f : Chosen(g) = {f}
    BY <1>1, <1>2, <1>5, OneChoice
  <2>2. f \in MembersOf(model, g) /\ f \in selected
    BY <2>1 DEF Chosen
  <2>3. PICK b \in BindingsOf(model, v) : b.feature = f
    BY <1>1, <1>2, <2>2
  <2>4. \A c \in BindingsOf(model, v) : c.feature \in selected => c = b
    <3> SUFFICES ASSUME NEW c \in BindingsOf(model, v), c.feature \in selected PROVE c = b
      OBVIOUS
    <3>1. c.feature \in Chosen(g)
      BY <1>1, <1>2 DEF Chosen
    <3>2. c.feature = b.feature
      BY <3>1, <2>1, <2>3
    <3> QED
      BY <3>2 DEF Sound, Intact, BindingsAreOneToOne
  <2>5. VariantsFor(v) = {<<b.variation, b.variant>>}
    BY <1>4, <2>2, <2>3, <2>4
  <2> QED
    BY <2>5, <1>5, FS_Singleton
<1>6. CASE g \notin selected
  <2>1. Chosen(g) = {}
    BY <1>2, <1>6 DEF GroupIsWithin
  <2>2. \A c \in BindingsOf(model, v) : c.feature \notin selected
    BY <1>1, <1>2, <2>1 DEF Chosen
  <2>3. VariantsFor(v) = {}
    BY <1>4, <2>2
  <2> QED
    BY <2>3, <1>6, FS_EmptySet
<1> QED
  BY <1>5, <1>6

(* A valid configuration resolves its variations; no two rules match.      *)
THEOREM VariationsResolve == Spec => []EveryVariationResolves
<1>1. TypeOK /\ CheckInv => EveryVariationResolves
  <2> SUFFICES ASSUME TypeOK, CheckInv PROVE EveryVariationResolves
    OBVIOUS
  <2>1. CASE \A r \in reasons : r.code \notin DerivationCodes
    <3>1. \A d : Reason("derivation-no-rule", "derivation", d.variation) \notin reasons
      BY <2>1 DEF Reason, DerivationCodes
    <3>2. \A r \in reasons : r.code # "derivation-ambiguous"
      BY <2>1 DEF DerivationCodes
    <3>3. ASSUME Valid
          PROVE  Sound /\ Unresolved = {} /\ WellShaped(model) /\ derived = BoundVariants \cup DerivedVariants
      BY <3>3 DEF Valid, CheckInv
    <3> QED
      BY <3>1, <3>2, <3>3, DerivedVariationResolves, BoundVariationResolves DEF EveryVariationResolves
  <2>2. CASE ~ \A r \in reasons : r.code \notin DerivationCodes
    <3>1. Sound /\ reasons = Unresolved /\ reasons # {} /\ WellShaped(model)
      BY <2>2 DEF CheckInv
    <3>2. \A d \in model.derivations \ Resolved :
            MatchCode(d) = "derivation-no-rule" /\ ~(d.sources \subseteq selected)
      BY <3>1, ResolvedOrOff
    <3>3. \A r \in reasons : r.code # "derivation-ambiguous"
      BY <3>1, <3>2 DEF Unresolved, Reason
    <3>4. ASSUME NEW d \in model.derivations,
                 Reason("derivation-no-rule", "derivation", d.variation) \in reasons
          PROVE  ~(d.sources \subseteq selected)
      <4>1. PICK e \in model.derivations \ Resolved :
              Reason("derivation-no-rule", "derivation", d.variation)
                = Reason(MatchCode(e), "derivation", e.variation)
        BY <3>1, <3>4 DEF Unresolved
      <4>2. e.variation = d.variation
        BY <4>1 DEF Reason
      <4>3. e = d
        BY <4>2, <3>1 DEF WellShaped, DependenciesAreWellShaped
      <4> QED
        BY <4>3, <3>2
    <3>5. ~Valid
      BY <3>1 DEF Valid
    <3> QED
      BY <3>3, <3>4, <3>5 DEF EveryVariationResolves
  <2> QED
    BY <2>1, <2>2
<1> QED
  BY <1>1, TypeCorrect, CheckInvHolds, PTL

-----------------------------------------------------------------------------
(* Admission.                                                              *)

AdmissionInv ==
  admitted =>
    /\ step = "decided" /\ reasons = {}
    /\ \A f \in Considered : ~Blocked(f)
    /\ Cardinality(Realized) = 1
    /\ \A a \in Realized : RealizesEverywhere(a)

LEMMA AdmissionInvHolds == Spec => []AdmissionInv
<1>1. Init => AdmissionInv
  BY DEF Init, AdmissionInv
<1>2. AdmissionInv /\ [Next]_vars => AdmissionInv'
  <2> SUFFICES ASSUME AdmissionInv, [Next]_vars PROVE AdmissionInv'
    OBVIOUS
  <2>1. ASSUME UNCHANGED <<model, selected>>
        PROVE  /\ Considered' = Considered /\ Realized' = Realized
               /\ \A f : Blocked(f)' = Blocked(f)
               /\ \A a : RealizesEverywhere(a)' = RealizesEverywhere(a)
    BY <2>1 DEF Considered, Realized, Blocked, RealizesEverywhere, Realizing, Corresponds,
                CorrespondencesOf, Groups
  <2>2. CASE Admit
    <3>1. UNCHANGED <<model, selected, reasons>> /\ step' = "decided"
      BY <2>2 DEF Admit
    <3>2. admitted' => /\ reasons = {}
                       /\ \A f \in Considered : ~Blocked(f)
                       /\ Cardinality(Realized) = 1
                       /\ \A a \in Realized : RealizesEverywhere(a)
      BY <2>2 DEF Admit
    <3> QED
      BY <2>1, <3>1, <3>2 DEF AdmissionInv
  <2>3. CASE UNCHANGED vars
    <3>1. UNCHANGED <<model, selected, reasons, step, admitted>>
      BY <2>3 DEF vars
    <3> QED
      BY <2>1, <3>1 DEF AdmissionInv
  <2>4. CASE ReadTree \/ RefuseTree \/ ReadConfiguration \/ RefuseConfiguration \/ DecideFeature
             \/ RefuseEntry \/ EndSelection \/ CheckGroups \/ RefuseListing \/ CheckSelection \/ Derive
    <3>1. step # "decided" /\ admitted' = admitted
      BY <2>4 DEF ReadTree, RefuseTree, ReadConfiguration, RefuseConfiguration, DecideFeature, RefuseEntry,
                  EndSelection, CheckGroups, RefuseListing, CheckSelection, Derive, Refuse
    <3> QED
      BY <3>1 DEF AdmissionInv
  <2> QED
    BY <2>2, <2>3, <2>4 DEF Next
<1> QED
  BY <1>1, <1>2, PTL DEF Spec

(* What is admitted is the whole of one alternative and nothing beside it. *)
THEOREM AdmissionCorrect == Spec => []AdmittedIsOneAlternative
<1>1. TypeOK /\ CheckInv /\ AdmissionInv => AdmittedIsOneAlternative
  <2> SUFFICES ASSUME TypeOK, CheckInv, AdmissionInv, admitted PROVE AdmittedIsOneAlternative
    BY DEF AdmittedIsOneAlternative
  <2>1. Valid
    BY DEF AdmissionInv, Valid
  <2>2. Sound
    BY DEF AdmissionInv, CheckInv
  <2>3. IsFiniteSet(model.alternatives)
        /\ \A c \in model.correspondences : c.kind = "admitted-alternative" => c.name \in model.alternatives
    BY TreeFacts DEF IsTree
  <2>4. IsFiniteSet(Realized)
    <3>1. Realized \in SUBSET model.alternatives
      BY DEF Realized
    <3> QED
      BY <3>1, <2>3, FS_Subset
  <2>5. PICK a : Realized = {a}
    BY <2>4, FS_Singleton DEF AdmissionInv
  <2>6. a \in model.alternatives /\ RealizesEverywhere(a)
    BY <2>5 DEF AdmissionInv, Realized
  <2>7. ASSUME NEW f \in selected \cap Carriers(model)
        PROVE  \/ Corresponds(f, "admitted-alternative", a)
               \/ \E c \in CorrespondencesOf(f) : c.kind = "common"
    <3>1. f \in Considered /\ ~Blocked(f)
      BY DEF AdmissionInv, Considered
    <3>2. PICK c \in CorrespondencesOf(f) : c.kind \in Admissible
      BY <3>1 DEF Blocked
    <3>3. CASE c.kind = "admitted-alternative"
      <4>1. c.name \in Realized
        BY <3>1, <3>3, <2>3 DEF Realized, Corresponds, CorrespondencesOf
      <4> QED
        BY <4>1, <3>3, <2>5 DEF Corresponds
    <3> QED
      BY <3>2, <3>3 DEF Admissible
  <2>8. ASSUME NEW f \in selected \cap Carriers(model), NEW b \in model.alternatives \ {a}
        PROVE  ~Corresponds(f, "admitted-alternative", b)
    <3>1. f \in Considered
      BY DEF Considered
    <3>2. b \notin Realized
      BY <2>5
    <3> QED
      BY <3>1, <3>2 DEF Realized
  <2>9. ASSUME NEW g \in Groups, Realizing(g, a) # {}
        PROVE  /\ g \in selected
               /\ model.bounds[g] = ExactlyOne => Chosen(g) \subseteq Realizing(g, a)
    <3>1. PICK f \in Realizing(g, a) : f \in selected
      BY <2>6, <2>9 DEF RealizesEverywhere
    <3>2. f \in Chosen(g)
      BY <3>1 DEF Chosen, Realizing
    <3>3. GroupIsWithin(g)
      BY <2>2 DEF Sound
    <3>4. g \in selected
      BY <3>2, <3>3, GroupOfChoice
    <3>5. model.bounds[g] = ExactlyOne => \E k : Chosen(g) = {k}
      BY <3>3, <3>4, OneChoice
    <3> QED
      BY <3>1, <3>2, <3>4, <3>5
  <2> QED
    BY <2>1, <2>6, <2>7, <2>8, <2>9 DEF AdmittedIsOneAlternative
<1> QED
  BY <1>1, TypeCorrect, CheckInvHolds, AdmissionInvHolds, PTL

=============================================================================
