------------------------ MODULE FeatureConfiguration ------------------------
(***************************************************************************)
(* How the feature configurations of the product line are decided          *)
(* (de4sdv/semantic/pleml_configuration.py): a feature tree is read and    *)
(* checked once, then a configuration of it is read, its selection is      *)
(* computed feature by feature in document order, the selection is checked *)
(* against groups, binding times and constraints, its variants are derived *)
(* and the governed scope admits it or not.  One behaviour decides one     *)
(* configuration of one tree.                                              *)
(*                                                                         *)
(* A feature is its position in document order, so that an owner precedes  *)
(* what it owns; 0 is the tree.  The element graph, names, texts and the   *)
(* wording of reasons are left out: a tree is a record, an entry of the    *)
(* configuration is a feature with the multiplicity it states.             *)
(***************************************************************************)
EXTENDS Integers, FiniteSets

CONSTANTS
  Models,      \* the feature trees, see IsTree
  Stated,      \* the multiplicities an entry of a configuration may state
  StrayCodes   \* the codes of the entries that are no feature of the tree

VARIABLES
  model,      \* the tree the configuration is typed by
  step,       \* what evaluate() does next
  settings,   \* the entries: feature -> stated multiplicity
  next,       \* the feature the selection loop looks at
  selected,   \* the features selected so far
  reasons,    \* why the configuration is rejected
  derived,    \* the variants derived from it
  admitted    \* what the governed scope says of it

vars == <<model, step, settings, next, selected, reasons, derived, admitted>>

-----------------------------------------------------------------------------
(* Multiplicities.  Many is the unbounded upper limit. *)

Many == -1
Multiplicity(l, u) == [lower |-> l, upper |-> u]
ExactlyOne == Multiplicity(1, 1)
Optional == Multiplicity(0, 1)
None == Multiplicity(0, 0)
Multiplicities == [lower : Nat, upper : Nat \cup {Many}]

Within(count, bound) ==
  /\ bound.lower <= count
  /\ bound.upper = Many \/ count <= bound.upper

-----------------------------------------------------------------------------
(* Feature trees.                                                          *)

FeaturesOf(m) == 1..m.size
MembersOf(m, g) == {f \in FeaturesOf(m) : m.group[f] = g}
IsGroup(m, f) == MembersOf(m, f) # {}
GroupsOf(m) == {g \in FeaturesOf(m) : IsGroup(m, g)}
IsGrouping(m, f) ==
  /\ ~IsGroup(m, f)
  /\ m.group[f] = 0
  /\ \E g \in FeaturesOf(m) : m.owner[g] = f
\* Choices and leaves: what admission is about.
Carriers(m) == {f \in FeaturesOf(m) : ~IsGroup(m, f) /\ ~IsGrouping(m, f)}

Kinds == {"requires", "xor", "implies"}

(* The records the walk over the document yields.  A derivation holds its  *)
(* derived variation, its source groups and its rules; a rule its premises *)
(* and the variant it yields.  "texts" is whether the names and texts that *)
(* the integrity check reads are in order, "projection" whose asset        *)
(* definition the variations sit in.                                       *)
IsTree(m) ==
  /\ m.size \in Nat
  /\ m.owner \in [FeaturesOf(m) -> {0} \cup FeaturesOf(m)]
  /\ \A f \in FeaturesOf(m) : m.owner[f] < f
  /\ m.bounds \in [FeaturesOf(m) -> Multiplicities]
  /\ m.group \in [FeaturesOf(m) -> {0} \cup FeaturesOf(m)]
  /\ m.time \in [FeaturesOf(m) -> {"Development", "later", "unassigned"}]
  /\ IsFiniteSet(m.constraints)
  /\ \A c \in m.constraints : c.kind \in Kinds /\ c.a \subseteq FeaturesOf(m)
                              /\ c.b \subseteq FeaturesOf(m)
  /\ \A d \in m.derivations : d.sources \subseteq FeaturesOf(m)
  /\ \A d \in m.derivations : IsFiniteSet(d.rules)
  /\ \A d \in m.derivations : \A r \in d.rules : r.premises \subseteq FeaturesOf(m)
  /\ \A b \in m.bindings : b.feature \in FeaturesOf(m)
  /\ m.projection \in {"none", "owner", "other"}
  /\ m.texts \in BOOLEAN
  /\ m.scoped \in BOOLEAN
  /\ IsFiniteSet(m.alternatives)
  /\ \A c \in m.correspondences :
       c.kind = "admitted-alternative" => c.name \in m.alternatives

ASSUME ModelsAreTrees == \A m \in Models : IsTree(m)
ASSUME StatedAreMultiplicities == Stated \subseteq Multiplicities
ASSUME StrayCodesAreCodes ==
  StrayCodes \subseteq {"derived-variant-not-selectable", "not-a-feature",
                        "unknown-feature", "configuration-metadata"}

(* What the evaluator refuses to read, as no feature tree. *)
GroupsAreWellShaped(m) ==
  \A f \in FeaturesOf(m) : m.group[f] # 0 =>
    /\ m.owner[m.group[f]] = m.owner[f]
    /\ m.bounds[f] = Optional
    /\ ~IsGroup(m, f)

ConstraintsAreWellShaped(m) ==
  \A c \in m.constraints : c.kind \in {"requires", "xor"} =>
    /\ c.owner # 0
    /\ c.a = {c.owner}
    /\ c.b # {}

DependenciesAreWellShaped(m) ==
  /\ \A d, e \in m.derivations : d.variation = e.variation => d = e
  /\ \A d \in m.derivations : \A r \in d.rules :
       r.result \in m.variants[d.variation]
  /\ \A b \in m.bindings : b.variant \in m.variants[b.variation]

CorrespondencesAreWellShaped(m) ==
  \A c \in m.correspondences : c.client # 0 => ~IsGrouping(m, c.client)

WellShaped(m) ==
  /\ GroupsAreWellShaped(m)
  /\ ConstraintsAreWellShaped(m)
  /\ DependenciesAreWellShaped(m)
  /\ m.scoped => CorrespondencesAreWellShaped(m)

-----------------------------------------------------------------------------
(* The integrity of a tree: what has to hold of its rules and bindings for *)
(* any configuration of it to be valid.                                    *)

PairExcluded(m, c, f, g) ==
  c.kind = "xor" /\ ((c.owner = f /\ g \in c.b) \/ (c.owner = g /\ f \in c.b))
ExclusionsOf(m, f, g) == {c \in m.constraints : PairExcluded(m, c, f, g)}
RulesOf(d, f, g) == {r \in d.rules : r.premises = {f, g}}

\* An exclusion between the two sources of one derivation.
IsPairExclusion(m, c) ==
  /\ c.kind = "xor"
  /\ \E d \in m.derivations : \E g, h \in d.sources :
       /\ g # h /\ d.sources = {g, h}
       /\ m.group[c.owner] = g
       /\ \A f \in c.b : m.group[f] = h

PremisesAreAlternatives(m, d) ==
  /\ \A g \in d.sources : IsGroup(m, g)
  /\ \A r \in d.rules : \A f \in r.premises : m.group[f] \in d.sources
  /\ \A r \in d.rules : \A f, g \in r.premises :
       m.group[f] = m.group[g] => f = g

\* Mutant: a pair needs no more than one rule or exclusion.
RulesAgreeAtMost(m, d) ==
  /\ Cardinality(d.sources) = 2
  /\ \A g \in d.sources : m.bounds[g] = ExactlyOne
  /\ \A r \in d.rules : {m.group[f] : f \in r.premises} = d.sources
  /\ \A g, h \in d.sources : g # h =>
       \A f \in MembersOf(m, g), k \in MembersOf(m, h) :
         Cardinality(RulesOf(d, f, k)) + Cardinality(ExclusionsOf(m, f, k)) <= 1

\* One rule or one exclusion for each pair of alternatives of the two sources.
RulesAgree(m, d) ==
  /\ Cardinality(d.sources) = 2
  /\ \A g \in d.sources : m.bounds[g] = ExactlyOne
  /\ \A r \in d.rules : {m.group[f] : f \in r.premises} = d.sources
  /\ \A r, t \in d.rules : r.premises = t.premises => r = t
  /\ \A g, h \in d.sources : g # h =>
       \A f \in MembersOf(m, g), k \in MembersOf(m, h) :
         Cardinality(RulesOf(d, f, k)) + Cardinality(ExclusionsOf(m, f, k)) = 1

DerivedVariations(m) == {d.variation : d \in m.derivations}
BindingsOf(m, v) == {b \in m.bindings : b.variation = v}
BoundVariations(m) == {b.variation : b \in m.bindings}
BoundGroup(m, v) == {m.group[b.feature] : b \in BindingsOf(m, v)}

\* Mutant: the group of a bound variation may admit several members.
BindingsIntoAnyGroup(m) ==
  /\ BoundVariations(m) \cap DerivedVariations(m) = {}
  /\ \A v \in BoundVariations(m) :
       /\ {b.variant : b \in BindingsOf(m, v)} = m.variants[v]
       /\ \A b, c \in BindingsOf(m, v) :
            b.variant = c.variant \/ b.feature = c.feature => b = c
       /\ \E g \in GroupsOf(m) :
            /\ BoundGroup(m, v) = {g}
            /\ {b.feature : b \in BindingsOf(m, v)} = MembersOf(m, g)

\* Each variant of a bound variation is bound to a member of its own of one
\* exactly-one group, and each member of the group to a variant.
BindingsAreOneToOne(m) ==
  /\ BoundVariations(m) \cap DerivedVariations(m) = {}
  /\ \A v \in BoundVariations(m) :
       /\ {b.variant : b \in BindingsOf(m, v)} = m.variants[v]
       /\ \A b, c \in BindingsOf(m, v) :
            b.variant = c.variant \/ b.feature = c.feature => b = c
       /\ \E g \in GroupsOf(m) :
            /\ BoundGroup(m, v) = {g}
            /\ m.bounds[g] = ExactlyOne
            /\ {b.feature : b \in BindingsOf(m, v)} = MembersOf(m, g)
  /\ \A v, w \in BoundVariations(m) : BoundGroup(m, v) = BoundGroup(m, w) => v = w

ResolvingFeatures(m) ==
  {b.feature : b \in m.bindings} \cup {m.group[b.feature] : b \in m.bindings}
  \cup UNION {d.sources \cup UNION {r.premises : r \in d.rules} : d \in m.derivations}

ResolvesInDevelopment(m) ==
  \A f \in ResolvingFeatures(m) \ {0} : m.time[f] = "Development"

Projected(m) ==
  /\ m.bindings # {} \/ m.derivations # {} => m.projection # "none"
  /\ m.projection # "other"

Intact(m) ==
  /\ \A d \in m.derivations : PremisesAreAlternatives(m, d) /\ RulesAgree(m, d)
  /\ BindingsAreOneToOne(m)
  /\ ResolvesInDevelopment(m)
  /\ Projected(m)
  /\ m.texts

-----------------------------------------------------------------------------
(* Reading the tree and the configuration.                                 *)

Features == FeaturesOf(model)
Groups == GroupsOf(model)

\* A reason for rejecting: its code, what found it and the feature, constraint
\* or derived variation it is about (0 for none).
Reason(code, by, of) == [code |-> code, by |-> by, of |-> of]

Init ==
  /\ model \in Models
  /\ step = "tree"
  /\ settings = [f \in {} |-> None]
  /\ next = 1
  /\ selected = {}
  /\ reasons = {}
  /\ derived = {}
  /\ admitted = FALSE

Refuse ==
  /\ step' = "refused"
  /\ UNCHANGED <<model, settings, next, selected, reasons, derived, admitted>>

\* _FeatureModel.__init__
ReadTree ==
  /\ step = "tree"
  /\ WellShaped(model)
  /\ step' = "configuration"
  /\ UNCHANGED <<model, settings, next, selected, reasons, derived, admitted>>

RefuseTree == step = "tree" /\ ~WellShaped(model) /\ Refuse

\* An entry stands inside the entry of its feature's owner, so a configuration
\* that sets a feature sets its owner.
Nested(set) == \A f \in set : model.owner[f] \in set \cup {0}

\* _Configuration._read: the entries that redefine a feature of the tree at
\* this place, and the others, which each give a reason.
ReadConfiguration ==
  /\ step = "configuration"
  /\ \E set \in SUBSET Features :
       /\ Nested(set)
       /\ settings' \in [set -> Stated]
  /\ \E strays \in SUBSET StrayCodes :
       reasons' = {Reason(code, "entry", 0) : code \in strays}
  /\ step' = "features"
  /\ UNCHANGED <<model, next, selected, derived, admitted>>

\* An entry of another shape: set twice, without a multiplicity, of a foreign
\* type, with a value that lists no feature.
RefuseConfiguration == step = "configuration" /\ Refuse

-----------------------------------------------------------------------------
(* The selection loop of _Configuration.decide.                            *)

Entered == DOMAIN settings
ParentOn(f) == model.owner[f] = 0 \/ model.owner[f] \in selected
Mandatory(f) == model.bounds[f].lower >= 1
EntryOn(f) == settings[f] # None

\* Mutant: what is mandatory is implied below an owner that is off.
OnWhateverTheOwner(f) == IF f \in Entered THEN EntryOn(f) ELSE Mandatory(f)

\* Without an entry a feature is implied, omitted or, under an owner that is
\* off, absent.
On(f) == IF f \in Entered THEN EntryOn(f) ELSE ParentOn(f) /\ Mandatory(f)

\* An entry of a group is [0] or at least [1..], any other entry [0] or [1].
Settable(f) ==
  settings[f] = None \/ IF IsGroup(model, f) THEN settings[f].lower >= 1
                                             ELSE settings[f] = ExactlyOne

EntryCodes(f) ==
  {code \in {"orphan-selection", "lower-bound", "upper-bound"} :
     \/ code = "orphan-selection" /\ EntryOn(f) /\ ~ParentOn(f)
     \/ code = "lower-bound" /\ ~EntryOn(f) /\ Mandatory(f) /\ ParentOn(f)
     \/ code = "upper-bound" /\ EntryOn(f) /\ model.bounds[f].upper = 0}
EntryReasons(f) ==
  {Reason(code, "loop", f) : code \in IF f \in Entered THEN EntryCodes(f) ELSE {}}

DecideFeature ==
  /\ step = "features"
  /\ next \in Features
  /\ next \in Entered => Settable(next)
  /\ selected' = IF On(next) THEN selected \cup {next} ELSE selected
  /\ reasons' = reasons \cup EntryReasons(next)
  /\ next' = next + 1
  /\ UNCHANGED <<model, step, settings, derived, admitted>>

RefuseEntry ==
  /\ step = "features"
  /\ next \in Entered
  /\ ~Settable(next)
  /\ Refuse

EndSelection ==
  /\ step = "features"
  /\ next \notin Features
  /\ step' = "groups"
  /\ UNCHANGED <<model, settings, next, selected, reasons, derived, admitted>>

-----------------------------------------------------------------------------
(* The checks of the selection.                                            *)

Chosen(g) == MembersOf(model, g) \cap selected

\* The bound of the tree, and that of the entry when there is one.
BoundsOn(g) == {model.bounds[g]} \cup (IF g \in Entered THEN {settings[g]} ELSE {})
GroupIsWithin(g) ==
  IF g \in selected THEN \A bound \in BoundsOn(g) : Within(Cardinality(Chosen(g)), bound)
                    ELSE Chosen(g) = {}
\* The first bound that fails names the reason.
GroupCode(g) ==
  LET failing == IF Within(Cardinality(Chosen(g)), model.bounds[g])
                 THEN settings[g] ELSE model.bounds[g]
  IN IF g \in selected /\ Cardinality(Chosen(g)) < failing.lower
     THEN "lower-bound" ELSE "upper-bound"

CheckGroups ==
  /\ step = "groups"
  /\ reasons' = reasons \cup
       {Reason(GroupCode(g), "group", g) : g \in {h \in Groups : ~GroupIsWithin(h)}}
  /\ step' = "selection"
  /\ UNCHANGED <<model, settings, next, selected, derived, admitted>>

\* The entry of a group may list members; a list of others than the selected
\* ones is refused.  What is listed is left open.
RefuseListing ==
  /\ step = "groups"
  /\ Groups \cap Entered # {}
  /\ Refuse

Rejects(c) ==
  CASE c.kind = "requires" -> c.owner \in selected /\ ~(c.b \subseteq selected)
    [] c.kind = "xor"      -> c.owner \in selected /\ c.b \cap selected # {}
    [] c.kind = "implies"  -> c.a \subseteq selected /\ ~(c.b \subseteq selected)

ConstraintCode(c) == IF IsPairExclusion(model, c) THEN "pair-exclusion" ELSE "constraint"

\* Binding times, constraints and the integrity of the tree.
CheckSelection ==
  /\ step = "selection"
  /\ reasons' = reasons
       \cup {Reason("binding-time", "selection", f) : f \in {g \in selected : model.time[g] = "later"}}
       \cup {Reason(ConstraintCode(c), "selection", c.id) : c \in {e \in model.constraints : Rejects(e)}}
       \cup (IF Intact(model) THEN {} ELSE {Reason("model-integrity", "selection", 0)})
  /\ step' = "derivation"
  /\ UNCHANGED <<model, settings, next, selected, derived, admitted>>

-----------------------------------------------------------------------------
(* Derivation.  A variant is a pair of its variation and its name.         *)

BoundVariants == {<<b.variation, b.variant>> : b \in {c \in model.bindings : c.feature \in selected}}
Matches(d) == {r \in d.rules : r.premises \subseteq selected}
Resolved == {d \in model.derivations : Cardinality(Matches(d)) = 1}
DerivedVariants == UNION {{<<d.variation, r.result>> : r \in Matches(d)} : d \in Resolved}
MatchCode(d) == IF Matches(d) = {} THEN "derivation-no-rule" ELSE "derivation-ambiguous"

Derive ==
  /\ step = "derivation"
  /\ IF reasons # {} THEN UNCHANGED <<reasons, derived>>
     ELSE /\ reasons' = {Reason(MatchCode(d), "derivation", d.variation) :
                          d \in model.derivations \ Resolved}
          /\ derived' = IF reasons' = {} THEN BoundVariants \cup DerivedVariants ELSE {}
  /\ step' = "admission"
  /\ UNCHANGED <<model, settings, next, selected, admitted>>

-----------------------------------------------------------------------------
(* Admission by the governed scope.  A correspondence ties a choice, a     *)
(* leaf, a group or the whole tree (client 0) to an element of the scope.  *)

Admissible == {"admitted-alternative", "common"}
CorrespondencesOf(f) == {c \in model.correspondences : c.client = f}
Corresponds(f, kind, name) ==
  \E c \in CorrespondencesOf(f) : c.kind = kind /\ c.name = name

\* What the scope looks at: the selected choices and leaves, and the family.
Considered ==
  (selected \cap Carriers(model)) \cup {0 : c \in CorrespondencesOf(0)}
Blocked(f) == \A c \in CorrespondencesOf(f) : c.kind \notin Admissible
Realized == {a \in model.alternatives : \E f \in Considered : Corresponds(f, "admitted-alternative", a)}

\* The members of a group that realize an alternative.
Realizing(g, a) == {f \in MembersOf(model, g) : Corresponds(f, "admitted-alternative", a)}
\* Mutant: one choice is enough to realize an alternative.
RealizesSomewhere(a) ==
  \E f \in Carriers(model) :
    Corresponds(f, "admitted-alternative", a) /\ f \in selected
RealizesEverywhere(a) ==
  /\ \A g \in Groups : Realizing(g, a) # {} => Realizing(g, a) \cap selected # {}
  /\ \A f \in Carriers(model) :
       model.group[f] = 0 /\ Corresponds(f, "admitted-alternative", a) => f \in selected

\* A choice of common content gives way to the realized alternative's own
\* choice in the same group.
Displaced(f) ==
  /\ Cardinality(Realized) = 1
  /\ model.group[f] # 0
  /\ \E a \in Realized : Realizing(model.group[f], a) \cap selected # {}
RepresentsCommon(name) ==
  \A f \in Carriers(model) : Corresponds(f, "common", name) => f \in selected \/ Displaced(f)

\* Mutant: the scope alone admits, valid or not.
AdmitInvalid ==
  /\ step = "admission"
  /\ admitted' = /\ model.scoped
                 /\ \A f \in Considered : ~Blocked(f)
                 /\ Cardinality(Realized) = 1
                 /\ \A a \in Realized : RealizesEverywhere(a)
                 /\ \A name \in model.common : RepresentsCommon(name)
  /\ step' = "decided"
  /\ UNCHANGED <<model, settings, next, selected, reasons, derived>>

Admit ==
  /\ step = "admission"
  /\ admitted' = /\ model.scoped
                 /\ reasons = {}
                 /\ \A f \in Considered : ~Blocked(f)
                 /\ Cardinality(Realized) = 1
                 /\ \A a \in Realized : RealizesEverywhere(a)
                 /\ \A name \in model.common : RepresentsCommon(name)
  /\ step' = "decided"
  /\ UNCHANGED <<model, settings, next, selected, reasons, derived>>

Next ==
  \/ ReadTree \/ RefuseTree
  \/ ReadConfiguration \/ RefuseConfiguration
  \/ DecideFeature \/ RefuseEntry \/ EndSelection
  \/ CheckGroups \/ RefuseListing
  \/ CheckSelection \/ Derive \/ Admit

Spec == Init /\ [][Next]_vars

-----------------------------------------------------------------------------
(* Properties                                                              *)

Steps == {"tree", "configuration", "features", "groups", "selection",
          "derivation", "admission", "decided", "refused"}

\* The types of the variables: what is selected is a feature the loop has
\* passed, and nothing is derived or admitted before its step.
TypeOK ==
  /\ model \in Models
  /\ step \in Steps
  /\ Entered \subseteq Features /\ settings \in [Entered -> Stated]
  /\ next \in 1..(model.size + 1)
  /\ selected \subseteq 1..(next - 1)
  /\ admitted \in BOOLEAN

\* A selection that says what the entries say, selects the owner of what it
\* selects and every mandatory feature of a selected owner, and selects
\* nothing the tree rules out.
Consistent(set) ==
  /\ \A f \in Entered : f \in set <=> EntryOn(f)
  /\ \A f \in set : model.owner[f] \in set \cup {0}
  /\ \A f \in Features : model.owner[f] \in set \cup {0} /\ Mandatory(f) => f \in set
  /\ \A f \in Entered : EntryOn(f) => model.bounds[f].upper # 0

LoopReasons == {r \in reasons : r.by = "loop"}

\* The single pass over the features in document order finds the least
\* selection consistent with the entries, and rejects exactly the
\* configurations that have none: a feature that is selected although its
\* owner is looked at, decided and left off, or a mandatory one missed below
\* an implied owner, would show here
\* (pleml-configuration-evaluation.md:18-20, Nested features).
SelectionIsLeast ==
  step \in {"groups", "selection", "derivation", "admission", "decided"} =>
    /\ LoopReasons = {} => /\ Consistent(selected)
                           /\ \A set \in SUBSET Features : Consistent(set) => selected \subseteq set
    /\ LoopReasons # {} => \A set \in SUBSET Features : ~Consistent(set)

Valid == step \in {"admission", "decided"} /\ reasons = {}

\* A valid configuration resolves its variations: each derived variation to
\* exactly one variant, from the rule of the two alternatives selected, each
\* bound variation to exactly one when its group is selected and to none
\* otherwise.  Two rules never match, so "derivation-ambiguous" is never
\* given, and no rule matches only where a source is not selected
\* (pleml-configuration-evaluation.md:37-40).
VariantsFor(v) == {pair \in derived : pair[1] = v}
EveryVariationResolves ==
  /\ \A r \in reasons : r.code # "derivation-ambiguous"
  /\ \A d \in model.derivations :
       Reason("derivation-no-rule", "derivation", d.variation) \in reasons =>
         ~(d.sources \subseteq selected)
  /\ Valid =>
       /\ \A d \in model.derivations : Cardinality(VariantsFor(d.variation)) = 1
       /\ \A v \in BoundVariations(model) : \A g \in BoundGroup(model, v) :
            Cardinality(VariantsFor(v)) = (IF g \in selected THEN 1 ELSE 0)

\* An admitted configuration is the whole of one admitted alternative: it is
\* valid, every choice and leaf it selects belongs to that alternative or to
\* common content and to no other alternative, and in every exactly-one group
\* where the alternative has a choice, that choice is the one selected
\* (pleml-configuration-evaluation.md:90-107).
AdmittedIsOneAlternative ==
  admitted =>
    /\ Valid
    /\ \E a \in model.alternatives :
         /\ \A f \in selected \cap Carriers(model) :
              \/ Corresponds(f, "admitted-alternative", a)
              \/ \E c \in CorrespondencesOf(f) : c.kind = "common"
         /\ \A f \in selected \cap Carriers(model), b \in model.alternatives \ {a} :
              ~Corresponds(f, "admitted-alternative", b)
         /\ \A g \in Groups : Realizing(g, a) # {} =>
              /\ g \in selected
              /\ model.bounds[g] = ExactlyOne => Chosen(g) \subseteq Realizing(g, a)

=============================================================================
