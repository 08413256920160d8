----------------------- MODULE MCFeatureConfiguration -----------------------
(* Small feature trees for FeatureConfiguration: a platform with two       *)
(* exactly-one groups, a derived variation over both and a variation bound *)
(* to one of them; the same platform below an optional feature; a tree of  *)
(* nested, optional, late and constrained features; and platforms that     *)
(* each fail one check of the integrity of a tree.                         *)
EXTENDS FeatureConfiguration

MCStated == {None, ExactlyOne, Multiplicity(1, 2)}

Rule(f, g, name) == [id |-> name, premises |-> {f, g}, result |-> name]
Binding(name, f) == [id |-> name, variation |-> "kernel", variant |-> name, feature |-> f]
Link(f, kind, name) == [client |-> f, kind |-> kind, name |-> name]
Exclusion(f, set, name) == [id |-> name, kind |-> "xor", owner |-> f, a |-> {f}, b |-> set]

(* Groups o+1 = {o+2, o+3} and o+4 = {o+5, o+6}; o+2 with o+6 is excluded. *)
(* The alternative "standalone" is o+5 on the common kernel o+2, "aaos" is *)
(* o+3 with o+6, where the common kernel gives way.                        *)
PlatformAt(o, size, owner, bounds, group) ==
  [size |-> size, owner |-> owner, bounds |-> bounds, group |-> group,
   time |-> [f \in 1..size |-> "Development"],
   constraints |-> {Exclusion(o + 2, {o + 6}, "noAaos")},
   derivations |-> {[variation |-> "adapter", sources |-> {o + 1, o + 4},
                     rules |-> {Rule(o + 2, o + 5, "plain"), Rule(o + 3, o + 5, "mixed"),
                                Rule(o + 3, o + 6, "hosted")}]},
   bindings |-> {Binding("linux", o + 2), Binding("qnx", o + 3)},
   variants |-> [v \in {"adapter", "kernel"} |->
                   IF v = "adapter" THEN {"plain", "mixed", "hosted"} ELSE {"linux", "qnx"}],
   projection |-> "owner", texts |-> TRUE, scoped |-> TRUE,
   correspondences |-> {Link(o + 1, "reference-only", "kernels"),
                        Link(o + 2, "common", "linux"),
                        Link(o + 5, "admitted-alternative", "standalone"),
                        Link(o + 3, "admitted-alternative", "aaos"),
                        Link(o + 6, "admitted-alternative", "aaos")},
   alternatives |-> {"standalone", "aaos"}, common |-> {"linux"}]

Platform ==
  PlatformAt(0, 6, <<0, 0, 0, 0, 0, 0>>,
             <<ExactlyOne, Optional, Optional, ExactlyOne, Optional, Optional>>,
             <<0, 1, 1, 0, 4, 4>>)

OptionalPlatform ==
  PlatformAt(1, 7, <<0, 1, 1, 1, 1, 1, 1>>,
             <<Optional, ExactlyOne, Optional, Optional, ExactlyOne, Optional, Optional>>,
             <<0, 0, 2, 2, 0, 5, 5>>)

(* 1 owns the group 2 = {3, 4}; 3 owns the mandatory 5; 6 binds later; 7   *)
(* admits no selection.                                                    *)
Capabilities ==
  [size |-> 7, owner |-> <<0, 1, 1, 1, 3, 0, 0>>,
   bounds |-> <<Optional, Multiplicity(1, Many), Optional, Optional, ExactlyOne, Optional, None>>,
   group |-> <<0, 0, 2, 2, 0, 0, 0>>,
   time |-> [f \in 1..7 |-> IF f = 6 THEN "later" ELSE "Development"],
   constraints |-> {[id |-> "lane", kind |-> "requires", owner |-> 4, a |-> {4}, b |-> {5}],
                    Exclusion(5, {6}, "noLate"),
                    [id |-> "both", kind |-> "implies", owner |-> 0, a |-> {3, 4}, b |-> {6}]},
   derivations |-> {}, bindings |-> {}, variants |-> [v \in {} |-> {}],
   projection |-> "none", texts |-> TRUE, scoped |-> TRUE,
   correspondences |-> {Link(0, "common", "family"), Link(3, "admitted-alternative", "assist"),
                        Link(4, "deferred", "later"), Link(5, "common", "core")},
   alternatives |-> {"assist"}, common |-> {"core", "family"}]

DerivationOf(sources, rules) ==
  {[variation |-> "adapter", sources |-> sources, rules |-> rules]}
SoundRules == {Rule(2, 5, "plain"), Rule(3, 5, "mixed"), Rule(3, 6, "hosted")}

(* Without the exclusion: every pair has a rule. *)
OpenPlatform ==
  [Platform EXCEPT !.constraints = {},
     !.derivations = DerivationOf({1, 4}, SoundRules \cup {[Rule(2, 6, "late") EXCEPT !.result = "plain"]})]

FaultyPlatforms == {
  \* a pair with neither a rule nor an exclusion, and one with both
  [Platform EXCEPT !.constraints = {}],
  [Platform EXCEPT !.derivations =
     DerivationOf({1, 4}, SoundRules \cup {[Rule(2, 5, "again") EXCEPT !.result = "mixed"]})],
  \* a premise that is no alternative of a source
  [Platform EXCEPT !.derivations =
     DerivationOf({1, 4}, SoundRules \cup {[Rule(2, 5, "wide") EXCEPT !.premises = {2}]})],
  \* a source that admits two alternatives
  [Platform EXCEPT !.bounds[4] = Multiplicity(1, 2)],
  \* a bound group that admits two alternatives or none, and is bound to part of a variation
  [Platform EXCEPT !.bounds[1] = Multiplicity(1, 2), !.derivations = {}],
  [Platform EXCEPT !.bindings = {Binding("linux", 2)}],
  [Platform EXCEPT !.bindings = {Binding("linux", 2), Binding("qnx", 5)}],
  \* a derived variation that is bound as well
  [Platform EXCEPT !.bindings =
     {[Binding("linux", 2) EXCEPT !.variation = "adapter", !.variant = "plain"]}],
  \* no admission authority
  [Platform EXCEPT !.scoped = FALSE],
  \* a mandatory member of a group, which is refused
  [Platform EXCEPT !.bounds[2] = ExactlyOne]}

MCModels == {Platform, OptionalPlatform, OpenPlatform, Capabilities} \cup FaultyPlatforms
MCStrayCodes == {"unknown-feature"}

=============================================================================
