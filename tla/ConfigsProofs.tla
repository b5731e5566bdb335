----------------------------- MODULE ConfigsProofs -----------------------------
(***************************************************************************)
(* Proofs about Configs and Validations for every set of subscriptions,    *)
(* node names and countries: what a configuration refers to is in it, no   *)
(* group leads back to itself or nowhere without a reason, a               *)
(* configuration of a profile that is being deleted is complete, and a     *)
(* validation reports valid what is served and what does not change.       *)
(***************************************************************************)
EXTENDS Validations, TLAPS

-----------------------------------------------------------------------------
(* The names of the groups that are built from the nodes.                  *)

\* The groups of every configuration.
FixedNames == Services \cup {"Select", "Manual", "Bilibili", "Bahamut", "Weibo", "TruthSocial", "SogouInput",
                             "Final", "Auto", "Fallback", "AdBlock"}

LEMMA GroupNamed ==
    ASSUME NEW groups, NEW name, NEW refs, NEW filter,
           Group(name, refs) \in groups \/ IncludeAll(name, refs, filter) \in groups
    PROVE  name \in GroupNames(groups)
<1>1. Group(name, refs).name = name /\ IncludeAll(name, refs, filter).name = name
  BY DEF Group, IncludeAll
<1> QED BY <1>1 DEF GroupNames

LEMMA FixedNamesBuilt ==
    ASSUME NEW f, NEW nodes, NEW s \in FixedNames
    PROVE  PG(s) \in GroupNames(BuildProxyGroups(f, nodes))
<1> DEFINE groups == FixedGroups(f, nodes)
<1>1. PG(s) \in GroupNames(groups)
  <2>1. CASE s \in Services
    <3>1. Group(PG(s), DefaultProxies(f, nodes)) \in groups
      BY <2>1 DEF FixedGroups
    <3> QED BY <3>1, GroupNamed
  <2>2. CASE s = "Select"
    <3>1. Group(PG("Select"), DefaultSelector(f, nodes)) \in groups
      BY DEF FixedGroups
    <3> QED BY <3>1, GroupNamed, <2>2
  <2>3. CASE s = "Manual"
    <3>1. IncludeAll(PG("Manual"), {}, Names) \in groups
      BY DEF FixedGroups
    <3> QED BY <3>1, GroupNamed, <2>3
  <2>4. CASE s = "Bilibili"
    <3>1. Group(PG("Bilibili"), BilibiliProxies(f, nodes)) \in groups
      BY DEF FixedGroups
    <3> QED BY <3>1, GroupNamed, <2>4
  <2>5. CASE s = "Bahamut"
    <3>1. Group(PG("Bahamut"), BahamutProxies(f, nodes)) \in groups
      BY DEF FixedGroups
    <3> QED BY <3>1, GroupNamed, <2>5
  <2>6. CASE s = "Weibo"
    <3>1. IncludeAll(PG("Weibo"), DefaultProxies(f, nodes), Names) \in groups
      BY DEF FixedGroups
    <3> QED BY <3>1, GroupNamed, <2>6
  <2>7. CASE s = "TruthSocial"
    <3>1. Group(PG("TruthSocial"), TruthSocialProxies(f, nodes)) \in groups
      BY DEF FixedGroups
    <3> QED BY <3>1, GroupNamed, <2>7
  <2>8. CASE s = "SogouInput"
    <3>1. Group(PG("SogouInput"), {DIRECT, REJECT}) \in groups
      BY DEF FixedGroups
    <3> QED BY <3>1, GroupNamed, <2>8
  <2>9. CASE s = "Final"
    <3>1. Group(PG("Final"), {PG("Select"), DIRECT}) \in groups
      BY DEF FixedGroups
    <3> QED BY <3>1, GroupNamed, <2>9
  <2>10. CASE s = "Auto"
    <3>1. Group(PG("Auto"), DefaultFallback(f, nodes)) \in groups
      BY DEF FixedGroups
    <3> QED BY <3>1, GroupNamed, <2>10
  <2>11. CASE s = "Fallback"
    <3>1. Group(PG("Fallback"), DefaultFallback(f, nodes)) \in groups
      BY DEF FixedGroups
    <3> QED BY <3>1, GroupNamed, <2>11
  <2>12. CASE s = "AdBlock"
    <3>1. Group(PG("AdBlock"), Builtins) \in groups
      BY DEF FixedGroups
    <3> QED BY <3>1, GroupNamed, <2>12
  <2> QED BY <2>1, <2>2, <2>3, <2>4, <2>5, <2>6, <2>7, <2>8, <2>9, <2>10, <2>11, <2>12 DEF FixedNames
<1>2. groups \subseteq BuildProxyGroups(f, nodes)
  BY DEF BuildProxyGroups
<1> QED BY <1>1, <1>2 DEF GroupNames

\* The landing group is built when it is offered, the low-cost group too, and
\* so is the group of each country that is listed.
LEMMA CommonPartBuilt ==
    ASSUME NEW f, NEW nodes
    PROVE  CommonPart(f, nodes) \subseteq GroupNames(BuildProxyGroups(f, nodes))
<1>1. LandingPart(f) \subseteq GroupNames(BuildProxyGroups(f, nodes))
  <2>1. SUFFICES ASSUME f.landing
                 PROVE  PG("Landing") \in GroupNames(BuildProxyGroups(f, nodes))
    BY DEF LandingPart
  <2> DEFINE g == NodeGroup(PG("Landing"), f, {n \in nodes : n[2] \in LandingNames}, LandingNames)
  <2>2. g \in BuildProxyGroups(f, nodes)
    BY <2>1 DEF LandingGroups, BuildProxyGroups
  <2>3. g.name = PG("Landing")
    BY DEF NodeGroup, Group, IncludeAll
  <2> QED BY <2>2, <2>3 DEF GroupNames
<1>2. CountryGroupNames(f, nodes) \subseteq GroupNames(BuildProxyGroups(f, nodes))
  <2>1. SUFFICES ASSUME NEW c \in FilteredCountries(f, nodes)
                 PROVE  CountryGroup(c) \in GroupNames(BuildProxyGroups(f, nodes))
    BY DEF CountryGroupNames
  <2> DEFINE g == NodeGroup(CountryGroup(c), f, NodesIn(nodes, c), CountryFilter(f, c))
  <2>2. g \in BuildProxyGroups(f, nodes)
    BY DEF BuildCountryGroups, BuildProxyGroups
  <2>3. g.name = CountryGroup(c)
    BY DEF NodeGroup, Group, IncludeAll
  <2> QED BY <2>2, <2>3 DEF GroupNames
<1>3. LowCostPart(f, nodes) \subseteq GroupNames(BuildProxyGroups(f, nodes))
  <2>1. SUFFICES ASSUME HasLowCost(f, nodes)
                 PROVE  PG("LowCost") \in GroupNames(BuildProxyGroups(f, nodes))
    BY DEF LowCostPart
  <2> DEFINE g == NodeGroup(PG("LowCost"), f, {n \in nodes : n[2] \in LowCostNames}, LowCostNames)
  <2>2. g \in BuildProxyGroups(f, nodes)
    BY <2>1 DEF LowCostGroups, BuildProxyGroups
  <2>3. g.name = PG("LowCost")
    BY DEF NodeGroup, Group, IncludeAll
  <2> QED BY <2>2, <2>3 DEF GroupNames
<1> QED BY <1>1, <1>2, <1>3 DEF CommonPart

-----------------------------------------------------------------------------
(* Whatever a built group lists is built with it.                          *)

\* The default lists name builtins, groups of every configuration and the
\* common part.
LEMMA ListsResolve ==
    ASSUME NEW f, NEW nodes
    PROVE  LET known == Builtins \cup GroupNames(BuildProxyGroups(f, nodes)) IN
           /\ DefaultSelector(f, nodes) \subseteq known
           /\ DefaultProxies(f, nodes) \subseteq known
           /\ DefaultFallback(f, nodes) \subseteq known
           /\ BilibiliProxies(f, nodes) \subseteq known
           /\ BahamutProxies(f, nodes) \subseteq known
           /\ TruthSocialProxies(f, nodes) \subseteq known
<1> DEFINE known == Builtins \cup GroupNames(BuildProxyGroups(f, nodes))
<1>1. /\ PG("Select") \in known /\ PG("Manual") \in known
      /\ PG("Auto") \in known /\ PG("Fallback") \in known
  <2>1. {"Select", "Manual", "Auto", "Fallback"} \subseteq FixedNames
    BY DEF FixedNames
  <2> QED BY <2>1, FixedNamesBuilt
<1>2. DIRECT \in known
  BY DEF Builtins
<1>3. CommonPart(f, nodes) \subseteq known
  BY CommonPartBuilt
<1>4. DefaultSelector(f, nodes) \subseteq known
  BY <1>1, <1>2, <1>3 DEF DefaultSelector
<1>5. DefaultProxies(f, nodes) \subseteq known
  BY <1>1, <1>2, <1>3 DEF DefaultProxies
<1>6. DefaultFallback(f, nodes) \subseteq known
  BY <1>3 DEF DefaultFallback, CommonPart
<1>7. ASSUME NEW c, NEW countries, Has(f, nodes, countries), c \in countries
      PROVE  CountryGroup(c) \in known
  BY <1>3, <1>7 DEF Has, CommonPart, CountryGroupNames
<1>8. BilibiliProxies(f, nodes) \subseteq known
  BY <1>2, <1>5, <1>7 DEF BilibiliProxies
<1>9. BahamutProxies(f, nodes) \subseteq known
  BY <1>1, <1>2, <1>5, <1>7 DEF BahamutProxies
<1>10. TruthSocialProxies(f, nodes) \subseteq known
  BY <1>1, <1>5, <1>7 DEF TruthSocialProxies
<1> HIDE DEF known
<1>11. /\ DefaultSelector(f, nodes) \subseteq known
       /\ DefaultProxies(f, nodes) \subseteq known
       /\ DefaultFallback(f, nodes) \subseteq known
       /\ BilibiliProxies(f, nodes) \subseteq known
       /\ BahamutProxies(f, nodes) \subseteq known
       /\ TruthSocialProxies(f, nodes) \subseteq known
  BY <1>4, <1>5, <1>6, <1>8, <1>9, <1>10
<1> QED BY <1>11 DEF known

NamesOf(nodes) == {n[2] : n \in nodes}

LEMMA BuiltGroupsResolve ==
    ASSUME NEW f, NEW nodes, NEW g \in BuildProxyGroups(f, nodes)
    PROVE  g.refs \subseteq Known(BuildProxyGroups(f, nodes), NamesOf(nodes))
<1> DEFINE known == Known(BuildProxyGroups(f, nodes), NamesOf(nodes))
<1>1. /\ Builtins \subseteq known
      /\ GroupNames(BuildProxyGroups(f, nodes)) \subseteq known
      /\ {NodeRef(n[2]) : n \in nodes} \subseteq known
  BY DEF Known, NamesOf
<1>2. /\ DefaultSelector(f, nodes) \subseteq known
      /\ DefaultProxies(f, nodes) \subseteq known
      /\ DefaultFallback(f, nodes) \subseteq known
      /\ BilibiliProxies(f, nodes) \subseteq known
      /\ BahamutProxies(f, nodes) \subseteq known
      /\ TruthSocialProxies(f, nodes) \subseteq known
  BY <1>1, ListsResolve
<1>3. CountryGroupNames(f, nodes) \subseteq known
  BY <1>2 DEF DefaultFallback
<1>4. DIRECT \in known /\ REJECT \in known /\ PG("Select") \in known
  BY <1>1, <1>2 DEF Builtins, DefaultProxies
<1> SUFFICES g.refs \subseteq known
  OBVIOUS
<1> HIDE DEF known
<1>5. ASSUME NEW name, NEW some, NEW filter, some \subseteq nodes
      PROVE  NodeGroup(name, f, some, filter).refs \subseteq known
  BY <1>1, <1>5 DEF NodeGroup, Group, IncludeAll
<1>6. CASE g \in FixedGroups(f, nodes)
  <2> DEFINE lists == {DefaultSelector(f, nodes), DefaultProxies(f, nodes), DefaultFallback(f, nodes),
                       BilibiliProxies(f, nodes), BahamutProxies(f, nodes), TruthSocialProxies(f, nodes),
                       {}, {DIRECT, REJECT}, {PG("Select"), DIRECT}, Builtins}
  <2>1. \A list \in lists : list \subseteq known
    BY <1>1, <1>2, <1>4
  <2>2. g.refs \in lists
    BY <1>6 DEF FixedGroups, Group, IncludeAll
  <2> QED BY <2>1, <2>2
<1>7. CASE g \in LandingGroups(f, nodes)
  <2>1. FrontProxySelector(f, nodes) \subseteq known
    BY <1>1, <1>3, <1>4 DEF FrontProxySelector
  <2>2. FrontProxyGroup(f, nodes).refs = FrontProxySelector(f, nodes)
    BY DEF FrontProxyGroup, Group, IncludeAll
  <2> DEFINE some == {n \in nodes : n[2] \in LandingNames}
  <2>3. NodeGroup(PG("Landing"), f, some, LandingNames).refs \subseteq known
    BY <1>5
  <2>4. g \in {FrontProxyGroup(f, nodes), NodeGroup(PG("Landing"), f, some, LandingNames)}
    BY <1>7 DEF LandingGroups
  <2> QED BY <2>1, <2>2, <2>3, <2>4
<1>8. CASE g \in LowCostGroups(f, nodes)
  <2> DEFINE some == {n \in nodes : n[2] \in LowCostNames}
  <2>1. NodeGroup(PG("LowCost"), f, some, LowCostNames).refs \subseteq known
    BY <1>5
  <2>2. g = NodeGroup(PG("LowCost"), f, some, LowCostNames)
    BY <1>8 DEF LowCostGroups
  <2> QED BY <2>1, <2>2
<1>9. CASE g \in BuildCountryGroups(f, nodes)
  <2>1. PICK c : g = NodeGroup(CountryGroup(c), f, NodesIn(nodes, c), CountryFilter(f, c))
    BY <1>9 DEF BuildCountryGroups
  <2>2. NodesIn(nodes, c) \subseteq nodes
    BY DEF NodesIn
  <2> QED BY <1>5, <2>1, <2>2
<1> QED BY <1>6, <1>7, <1>8, <1>9 DEF BuildProxyGroups

-----------------------------------------------------------------------------
(* Whatever a stored group lists is stored with it.                        *)

\* A stored group as it is served.
Copied(g) == [name |-> g.name, refs |-> IF g.all THEN {} ELSE g.refs, all |-> g.all, filter |-> g.filter]

LEMMA StoredNamesKept ==
    ASSUME NEW stored
    PROVE  GroupNames(BuildProxyGroupsFromDB(stored)) = GroupNames(stored)
<1>1. \A g : Copied(g).name = g.name
  BY DEF Copied
<1>2. BuildProxyGroupsFromDB(stored) = {Copied(g) : g \in stored}
  BY DEF BuildProxyGroupsFromDB, Copied
<1> QED BY <1>1, <1>2 DEF GroupNames

StoredOnlyListing == Services \cup {"Bilibili", "Bahamut", "TruthSocial"}

LEMMA StoredFixedNames ==
    ASSUME NEW s \in FixedNames
    PROVE  PG(s) \in GroupNames(DefaultProxyGroups)
<1> DEFINE listed == {PG("Select"), PG("Manual"), DIRECT}
           everyCountry == {CountryGroup(c) : c \in Countries}
<1>1. PG(s) \in GroupNames(DefaultProxyGroups)
  <2>1. CASE s \in StoredOnlyListing
    <3>1. Group(PG(s), listed) \in DefaultProxyGroups
      BY <2>1 DEF DefaultProxyGroups, StoredOnlyListing
    <3> QED BY <3>1, GroupNamed
  <2>2. CASE s = "Select"
    <3>1. Group(PG("Select"), {PG("Auto"), PG("Fallback"), PG("Manual")}) \in DefaultProxyGroups
      BY DEF DefaultProxyGroups
    <3> QED BY <3>1, GroupNamed, <2>2
  <2>3. CASE s = "Manual"
    <3>1. IncludeAll(PG("Manual"), {}, Names) \in DefaultProxyGroups
      BY DEF DefaultProxyGroups
    <3> QED BY <3>1, GroupNamed, <2>3
  <2>4. CASE s = "Weibo"
    <3>1. IncludeAll(PG("Weibo"), listed, Names) \in DefaultProxyGroups
      BY DEF DefaultProxyGroups
    <3> QED BY <3>1, GroupNamed, <2>4
  <2>5. CASE s = "SogouInput"
    <3>1. Group(PG("SogouInput"), {DIRECT, REJECT}) \in DefaultProxyGroups
      BY DEF DefaultProxyGroups
    <3> QED BY <3>1, GroupNamed, <2>5
  <2>6. CASE s = "Final"
    <3>1. Group(PG("Final"), {PG("Select"), DIRECT}) \in DefaultProxyGroups
      BY DEF DefaultProxyGroups
    <3> QED BY <3>1, GroupNamed, <2>6
  <2>7. CASE s = "Auto"
    <3>1. Group(PG("Auto"), everyCountry) \in DefaultProxyGroups
      BY DEF DefaultProxyGroups
    <3> QED BY <3>1, GroupNamed, <2>7
  <2>8. CASE s = "Fallback"
    <3>1. Group(PG("Fallback"), everyCountry) \in DefaultProxyGroups
      BY DEF DefaultProxyGroups
    <3> QED BY <3>1, GroupNamed, <2>8
  <2>9. CASE s = "AdBlock"
    <3>1. Group(PG("AdBlock"), Builtins) \in DefaultProxyGroups
      BY DEF DefaultProxyGroups
    <3> QED BY <3>1, GroupNamed, <2>9
  <2> QED BY <2>1, <2>2, <2>3, <2>4, <2>5, <2>6, <2>7, <2>8, <2>9 DEF FixedNames, StoredOnlyListing
<1> QED BY <1>1

LEMMA StoredCountryNames ==
    ASSUME NEW c \in Countries
    PROVE  CountryGroup(c) \in GroupNames(DefaultProxyGroups)
<1>1. IncludeAll(CountryGroup(c), {}, CountryNames[c]) \in DefaultProxyGroups
  BY DEF DefaultProxyGroups
<1> QED BY <1>1, GroupNamed

LEMMA StoredGroupsResolve ==
    ASSUME NEW proxies, NEW g \in BuildProxyGroupsFromDB(DefaultProxyGroups)
    PROVE  g.refs \subseteq Known(BuildProxyGroupsFromDB(DefaultProxyGroups), proxies)
<1> DEFINE known == Known(BuildProxyGroupsFromDB(DefaultProxyGroups), proxies)
<1>1. /\ Builtins \subseteq known
      /\ GroupNames(DefaultProxyGroups) \subseteq known
  BY StoredNamesKept DEF Known
<1>2. PG("Select") \in known /\ PG("Manual") \in known /\ PG("Auto") \in known /\ PG("Fallback") \in known
  <2>1. {"Select", "Manual", "Auto", "Fallback"} \subseteq FixedNames
    BY DEF FixedNames
  <2> QED BY <1>1, <2>1, StoredFixedNames
<1>3. DIRECT \in known /\ REJECT \in known
  BY <1>1 DEF Builtins
<1>4. {CountryGroup(c) : c \in Countries} \subseteq known
  BY <1>1, StoredCountryNames
<1> SUFFICES g.refs \subseteq known
  OBVIOUS
<1> HIDE DEF known
<1> DEFINE lists == {{PG("Auto"), PG("Fallback"), PG("Manual")}, {}, {PG("Select"), PG("Manual"), DIRECT},
                     {DIRECT, REJECT}, {PG("Select"), DIRECT}, {CountryGroup(c) : c \in Countries}, Builtins}
<1>5. \A list \in lists : list \subseteq known
  BY <1>1, <1>2, <1>3, <1>4
<1>6. PICK h \in DefaultProxyGroups : g = Copied(h)
  BY DEF BuildProxyGroupsFromDB, Copied
<1>7. h.refs \in lists
  BY <1>6 DEF DefaultProxyGroups, Group, IncludeAll
<1>8. g.refs \in {{}, h.refs}
  BY <1>6 DEF Copied
<1> QED BY <1>5, <1>7, <1>8

\* Every stored rule names a builtin or a group that both lists have.
LEMMA RulesResolve ==
    ASSUME NEW groups, NEW proxies, \A s \in FixedNames : PG(s) \in GroupNames(groups)
    PROVE  DefaultRuleTargets \subseteq Known(groups, proxies)
<1>1. {"Select", "Final", "AdBlock", "SogouInput", "TruthSocial", "Bilibili", "Bahamut", "Weibo"} \cup Services
        \subseteq FixedNames
  BY DEF FixedNames
<1>2. DIRECT \in Known(groups, proxies)
  BY DEF Known, Builtins
<1>3. \A s \in FixedNames : PG(s) \in Known(groups, proxies)
  BY DEF Known
<1> QED BY <1>1, <1>2, <1>3 DEF DefaultRuleTargets

-----------------------------------------------------------------------------
(* References go downwards.                                                *)

\* Groups of nodes and builtins; groups that may list those; the rest list
\* these two kinds and Select, and nothing lists the rest.
LowNames == {PG("Manual"), PG("Landing"), PG("LowCost"), PG("AdBlock"), PG("SogouInput")}
                \cup {CountryGroup(c) : c \in Countries}
MidNames == {PG("Auto"), PG("Fallback"), PG("FrontProxy")}
NodeRefs == {NodeRef(n) : n \in Names}
Plain == Builtins \cup NodeRefs

Ranked(g) ==
    /\ g.name \notin Plain
    /\ g.refs \subseteq Plain \cup LowNames \cup MidNames \cup {PG("Select")}
    /\ g.name = PG("Select") => g.refs \subseteq Plain \cup LowNames \cup MidNames
    /\ g.name \in MidNames => g.refs \subseteq Plain \cup LowNames
    /\ g.name \in LowNames => g.refs \subseteq Plain

\* Groups of four ranks have no path of four references.
LEMMA RanksEnd ==
    ASSUME NEW groups, \A g \in groups : Ranked(g)
    PROVE  Referring(Referring(Referring(Referring(groups)))) = {}
<1> DEFINE one == Referring(groups)
           two == Referring(one)
           three == Referring(two)
<1>1. \A g \in one : g \in groups /\ g.name \notin LowNames
  BY DEF Referring, Ranked
<1>2. \A g \in two : g \in one /\ g.name \notin MidNames
  BY <1>1 DEF Referring, Ranked
<1>3. \A g \in three : g \in two /\ g.name # PG("Select")
  BY <1>1, <1>2 DEF Referring, Ranked
<1> HIDE DEF one, two, three
<1>4. \A g, h \in three : h.name \notin g.refs
  BY <1>1, <1>2, <1>3 DEF Ranked
<1> QED
  BY <1>4 DEF Referring, one, two, three

LEMMA CountriesAreLow == \A f, nodes : CountryGroupNames(f, nodes) \subseteq LowNames
  BY DEF CountryGroupNames, FilteredCountries, LowNames

\* What the lists of the groups built from the nodes can hold.
LEMMA ListsRanked ==
    ASSUME NEW f, NEW nodes, \A n \in nodes : n[2] \in Names
    PROVE  /\ CommonPart(f, nodes) \subseteq LowNames
           /\ DefaultFallback(f, nodes) \subseteq LowNames
           /\ FrontProxySelector(f, nodes) \subseteq Plain \cup LowNames
           /\ DefaultSelector(f, nodes) \subseteq Plain \cup LowNames \cup MidNames
           /\ DefaultProxies(f, nodes) \subseteq Plain \cup LowNames \cup {PG("Select")}
<1>1. LandingPart(f) \subseteq LowNames /\ LowCostPart(f, nodes) \subseteq LowNames
  BY DEF LandingPart, LowCostPart, LowNames
<1>2. CommonPart(f, nodes) \subseteq LowNames /\ DefaultFallback(f, nodes) \subseteq LowNames
  BY <1>1, CountriesAreLow DEF CommonPart, DefaultFallback
<1>3. FrontProxySelector(f, nodes) \subseteq Plain \cup LowNames
  <2>1. {NodeRef(n[2]) : n \in {m \in nodes : m[2] \notin LandingNames}} \subseteq NodeRefs
    BY DEF NodeRefs
  <2> QED
    BY <2>1, CountriesAreLow DEF FrontProxySelector, Plain, Builtins
<1>4. PG("Auto") \in MidNames /\ PG("Fallback") \in MidNames /\ PG("Manual") \in LowNames /\ DIRECT \in Plain
  BY DEF MidNames, LowNames, Plain, Builtins
<1> QED
  BY <1>2, <1>3, <1>4 DEF DefaultSelector, DefaultProxies

\* A name built by PG is no builtin and no node, and differs as its text does.
LEMMA TagsDiffer ==
    /\ \A s : PG(s) \notin Plain
    /\ \A c : CountryGroup(c) \notin Plain
    /\ \A s, r : PG(s) = PG(r) => s = r
    /\ \A s, c : PG(s) # CountryGroup(c)
  BY DEF PG, CountryGroup, Plain, Builtins, NodeRefs, NodeRef, DIRECT, REJECT, REJECT_DROP

\* Names of a group that may list Select.
LEMMA HighNames ==
    ASSUME NEW s \in Services \cup {"Bilibili", "Bahamut", "Weibo", "TruthSocial", "Final"}
    PROVE  PG(s) # PG("Select") /\ PG(s) \notin MidNames /\ PG(s) \notin LowNames
<1>1. s \notin {"Select", "Manual", "Landing", "LowCost", "AdBlock", "SogouInput", "Auto", "Fallback", "FrontProxy"}
  BY DEF Services
<1> QED
  BY <1>1, TagsDiffer DEF MidNames, LowNames

\* One way to be ranked for each kind of group.
LEMMA RankedHigh ==
    ASSUME NEW s \in Services \cup {"Bilibili", "Bahamut", "Weibo", "TruthSocial", "Final"}, NEW refs, NEW filter,
           refs \subseteq Plain \cup LowNames \cup MidNames \cup {PG("Select")}
    PROVE  Ranked(Group(PG(s), refs)) /\ Ranked(IncludeAll(PG(s), refs, filter))
  BY HighNames, TagsDiffer DEF Ranked, Group, IncludeAll

LEMMA RankedSelect ==
    ASSUME NEW refs, refs \subseteq Plain \cup LowNames \cup MidNames
    PROVE  Ranked(Group(PG("Select"), refs))
<1>1. PG("Select") \notin MidNames /\ PG("Select") \notin LowNames
  BY TagsDiffer DEF MidNames, LowNames
<1> QED
  BY <1>1, TagsDiffer DEF Ranked, Group

LEMMA RankedMid ==
    ASSUME NEW name \in MidNames, NEW refs, NEW filter, refs \subseteq Plain \cup LowNames
    PROVE  Ranked(Group(name, refs)) /\ Ranked(IncludeAll(name, refs, filter))
<1>1. name \notin LowNames /\ name # PG("Select") /\ name \notin Plain
  BY TagsDiffer DEF MidNames, LowNames
<1> QED
  BY <1>1 DEF Ranked, Group, IncludeAll

LEMMA RankedLow ==
    ASSUME NEW name \in LowNames, NEW refs, NEW filter, refs \subseteq Plain
    PROVE  Ranked(Group(name, refs)) /\ Ranked(IncludeAll(name, refs, filter))
<1>1. name \notin Plain
  BY TagsDiffer DEF LowNames
<1> QED
  BY <1>1 DEF Ranked, Group, IncludeAll

LEMMA NodeGroupRanked ==
    ASSUME NEW f, NEW nodes, \A n \in nodes : n[2] \in Names, NEW name \in LowNames, NEW filter
    PROVE  Ranked(NodeGroup(name, f, nodes, filter))
<1>1. {NodeRef(n[2]) : n \in nodes} \subseteq Plain
  BY DEF Plain, NodeRefs
<1> QED
  BY <1>1, RankedLow DEF NodeGroup

LEMMA BuiltGroupsRanked ==
    ASSUME NEW f, NEW nodes, \A n \in nodes : n[2] \in Names
    PROVE  \A g \in BuildProxyGroups(f, nodes) : Ranked(g)
<1> DEFINE any == Plain \cup LowNames \cup MidNames \cup {PG("Select")}
           lists == DefaultProxies(f, nodes)
<1>1. /\ PG("Manual") \in LowNames /\ PG("SogouInput") \in LowNames /\ PG("AdBlock") \in LowNames
      /\ PG("Landing") \in LowNames /\ PG("LowCost") \in LowNames
      /\ PG("Auto") \in MidNames /\ PG("Fallback") \in MidNames /\ PG("FrontProxy") \in MidNames
      /\ DIRECT \in Plain /\ REJECT \in Plain /\ Builtins \subseteq Plain
      /\ \A c \in Countries : CountryGroup(c) \in LowNames
  BY DEF LowNames, MidNames, Plain, Builtins
<1>2. lists \subseteq any
  BY ListsRanked
<1>3. {"TW", "HK", "US"} \subseteq Countries
  BY ConfigsAssumption
<1>4. /\ BilibiliProxies(f, nodes) \subseteq any
      /\ BahamutProxies(f, nodes) \subseteq any
      /\ TruthSocialProxies(f, nodes) \subseteq any
  BY <1>1, <1>2, <1>3 DEF BilibiliProxies, BahamutProxies, TruthSocialProxies
<1>5. \A g \in FixedGroups(f, nodes) : Ranked(g)
  <2>1. Ranked(Group(PG("Select"), DefaultSelector(f, nodes)))
    BY RankedSelect, ListsRanked
  <2>2. /\ Ranked(IncludeAll(PG("Manual"), {}, Names))
        /\ Ranked(Group(PG("SogouInput"), {DIRECT, REJECT}))
        /\ Ranked(Group(PG("AdBlock"), Builtins))
    BY <1>1, RankedLow
  <2>3. /\ Ranked(Group(PG("Auto"), DefaultFallback(f, nodes)))
        /\ Ranked(Group(PG("Fallback"), DefaultFallback(f, nodes)))
    BY <1>1, RankedMid, ListsRanked
  <2>4. /\ Ranked(Group(PG("Bilibili"), BilibiliProxies(f, nodes)))
        /\ Ranked(Group(PG("Bahamut"), BahamutProxies(f, nodes)))
        /\ Ranked(IncludeAll(PG("Weibo"), lists, Names))
        /\ Ranked(Group(PG("TruthSocial"), TruthSocialProxies(f, nodes)))
    BY <1>2, <1>4, RankedHigh
  <2>5. Ranked(Group(PG("Final"), {PG("Select"), DIRECT}))
    BY <1>1, RankedHigh
  <2>6. \A s \in Services : Ranked(Group(PG(s), lists))
    BY <1>2, RankedHigh
  <2> HIDE DEF lists
  <2> QED
    BY <2>1, <2>2, <2>3, <2>4, <2>5, <2>6 DEF FixedGroups, lists
<1>6. \A g \in LandingGroups(f, nodes) : Ranked(g)
  <2>1. Ranked(FrontProxyGroup(f, nodes))
    BY <1>1, RankedMid, ListsRanked DEF FrontProxyGroup
  <2>2. Ranked(NodeGroup(PG("Landing"), f, {n \in nodes : n[2] \in LandingNames}, LandingNames))
    BY <1>1, NodeGroupRanked
  <2> QED
    BY <2>1, <2>2 DEF LandingGroups
<1>7. \A g \in LowCostGroups(f, nodes) : Ranked(g)
  BY <1>1, NodeGroupRanked DEF LowCostGroups
<1>8. \A g \in BuildCountryGroups(f, nodes) : Ranked(g)
  <2>1. \A c \in Countries : Ranked(NodeGroup(CountryGroup(c), f, NodesIn(nodes, c), CountryFilter(f, c)))
    BY <1>1, NodeGroupRanked DEF NodesIn
  <2> QED
    BY <2>1 DEF BuildCountryGroups, FilteredCountries
<1> QED
  BY <1>5, <1>6, <1>7, <1>8 DEF BuildProxyGroups

LEMMA StoredGroupsRanked == \A g \in BuildProxyGroupsFromDB(DefaultProxyGroups) : Ranked(g)
<1> DEFINE any == Plain \cup LowNames \cup MidNames \cup {PG("Select")}
           listed == {PG("Select"), PG("Manual"), DIRECT}
           everyCountry == {CountryGroup(c) : c \in Countries}
<1>1. /\ PG("Manual") \in LowNames /\ PG("SogouInput") \in LowNames /\ PG("AdBlock") \in LowNames
      /\ PG("LowCost") \in LowNames
      /\ PG("Auto") \in MidNames /\ PG("Fallback") \in MidNames
      /\ DIRECT \in Plain /\ REJECT \in Plain /\ Builtins \subseteq Plain
      /\ everyCountry \subseteq LowNames
  BY DEF LowNames, MidNames, Plain, Builtins
<1>2. \A g \in DefaultProxyGroups : Ranked(g)
  <2>1. /\ Ranked(Group(PG("Select"), {PG("Auto"), PG("Fallback"), PG("Manual")}))
        /\ Ranked(IncludeAll(PG("Manual"), {}, Names))
        /\ Ranked(Group(PG("SogouInput"), {DIRECT, REJECT}))
        /\ Ranked(Group(PG("AdBlock"), Builtins))
        /\ Ranked(IncludeAll(PG("LowCost"), {}, LowCostNames))
    BY <1>1, RankedSelect, RankedLow
  <2>2. /\ Ranked(Group(PG("Auto"), everyCountry))
        /\ Ranked(Group(PG("Fallback"), everyCountry))
    BY <1>1, RankedMid
  <2>3. /\ Ranked(IncludeAll(PG("Weibo"), listed, Names))
        /\ Ranked(Group(PG("Final"), {PG("Select"), DIRECT}))
    BY <1>1, RankedHigh
  <2>4. \A s \in Services \cup {"Bilibili", "Bahamut", "TruthSocial"} : Ranked(Group(PG(s), listed))
    BY <1>1, RankedHigh
  <2>5. \A c \in Countries : Ranked(IncludeAll(CountryGroup(c), {}, CountryNames[c]))
    BY <1>1, RankedLow
  <2> HIDE DEF listed, everyCountry
  <2> QED
    BY <2>1, <2>2, <2>3, <2>4, <2>5 DEF DefaultProxyGroups, listed, everyCountry
<1>3. ASSUME NEW h \in DefaultProxyGroups PROVE Ranked(Copied(h))
  <2>1. Ranked(h)
    BY <1>2
  <2> QED
    BY <2>1 DEF Ranked, Copied
<1> QED
  BY <1>3 DEF BuildProxyGroupsFromDB, Copied

-----------------------------------------------------------------------------
(* Groups that lead nowhere.                                               *)

Ends(conf) == Builtins \cup {NodeRef(n) : n \in conf.proxies}
Near(conf) == Offering(conf, Ends(conf))

\* A group that offers a builtin or a node is near; one that offers a near group
\* leads on as well.
LEMMA OffersEnd ==
    ASSUME NEW conf, NEW g \in conf.groups, NEW name \in Choices(conf, g), name \in Ends(conf)
    PROVE  g.name \in Near(conf)
  BY DEF Near, Offering

LEMMA ListsDirect ==
    ASSUME NEW conf, NEW g \in conf.groups, DIRECT \in g.refs
    PROVE  g.name \in Near(conf)
  BY OffersEnd DEF Choices, Ends, Builtins

LEMMA ListsNode ==
    ASSUME NEW conf, NEW g \in conf.groups, NEW name \in conf.proxies, NodeRef(name) \in g.refs
    PROVE  g.name \in Near(conf)
  BY OffersEnd DEF Choices, Ends

LEMMA IncludesNode ==
    ASSUME NEW conf, NEW g \in conf.groups, NEW name \in conf.proxies, name \in g.filter
    PROVE  g.name \in Near(conf)
<1>1. NodeRef(name) \in Choices(conf, g) /\ NodeRef(name) \in Ends(conf)
  BY DEF Choices, Ends
<1> QED BY <1>1, OffersEnd

LEMMA NearLeadsOn ==
    ASSUME NEW conf
    PROVE  /\ Near(conf) \subseteq LeadingOn(conf)
           /\ \A g \in conf.groups : g.refs \cap Near(conf) # {} => g.name \in LeadingOn(conf)
<1> DEFINE far == Offering(conf, Near(conf))
<1>1. \A names : names \subseteq Offering(conf, names)
  BY DEF Offering
<1>2. LeadingOn(conf) = Offering(conf, Offering(conf, far))
  BY DEF LeadingOn, Near, Ends
<1>3. Near(conf) \subseteq far /\ far \subseteq LeadingOn(conf)
  <2> HIDE DEF far
  <2>1. far \subseteq Offering(conf, far) /\ Offering(conf, far) \subseteq LeadingOn(conf)
    BY <1>1, <1>2
  <2>2. Near(conf) \subseteq far
    BY <1>1 DEF far
  <2> QED BY <2>1, <2>2
<1>4. \A g \in conf.groups : g.refs \cap Near(conf) # {} => g.name \in far
  BY DEF Offering, Choices
<1> HIDE DEF far
<1> QED BY <1>3, <1>4

\* Built groups of the countries that were filtered and, if it is asked for, the
\* landing group.
LEMMA OnlyFilteredBuilt ==
    ASSUME NEW f, NEW nodes, NEW c, CountryGroup(c) \in GroupNames(BuildProxyGroups(f, nodes))
    PROVE  c \in FilteredCountries(f, nodes)
<1>1. PICK g \in BuildProxyGroups(f, nodes) : g.name = CountryGroup(c)
  BY DEF GroupNames
<1>2. \A s, refs, filter : /\ Group(PG(s), refs).name # CountryGroup(c)
                           /\ IncludeAll(PG(s), refs, filter).name # CountryGroup(c)
  BY TagsDiffer DEF Group, IncludeAll
<1>3. \A s, some, filter : NodeGroup(PG(s), f, some, filter).name # CountryGroup(c)
  BY <1>2 DEF NodeGroup
<1>4. g \notin FixedGroups(f, nodes)
  BY <1>1, <1>2 DEF FixedGroups
<1>5. FrontProxyGroup(f, nodes).name # CountryGroup(c)
  BY <1>2 DEF FrontProxyGroup
<1>6. g \notin LandingGroups(f, nodes) /\ g \notin LowCostGroups(f, nodes)
  BY <1>1, <1>3, <1>5 DEF LandingGroups, LowCostGroups
<1>7. PICK d \in FilteredCountries(f, nodes) :
        g = NodeGroup(CountryGroup(d), f, NodesIn(nodes, d), CountryFilter(f, d))
  BY <1>1, <1>4, <1>6 DEF BuildProxyGroups, BuildCountryGroups
<1>8. g.name = CountryGroup(d)
  BY <1>7 DEF NodeGroup, Group, IncludeAll
<1> QED BY <1>1, <1>7, <1>8 DEF CountryGroup

NotLanding == FixedNames \cup {"FrontProxy", "LowCost"}

LEMMA NotLandingNamed == \A s \in NotLanding : PG(s) # PG("Landing")
<1>1. "Landing" \notin NotLanding
  BY DEF NotLanding, FixedNames, Services
<1> QED BY <1>1, TagsDiffer

LEMMA OnlyLandingBuilt ==
    ASSUME NEW f, NEW nodes, PG("Landing") \in GroupNames(BuildProxyGroups(f, nodes))
    PROVE  f.landing
<1> SUFFICES ASSUME ~f.landing PROVE FALSE
  OBVIOUS
<1>1. PICK g \in BuildProxyGroups(f, nodes) : g.name = PG("Landing")
  BY DEF GroupNames
<1>2. \A s, refs, filter : s \in NotLanding =>
        /\ Group(PG(s), refs).name # PG("Landing")
        /\ IncludeAll(PG(s), refs, filter).name # PG("Landing")
  BY NotLandingNamed DEF Group, IncludeAll
<1>3. \A some, filter : NodeGroup(PG("LowCost"), f, some, filter).name # PG("Landing")
  BY <1>2 DEF NodeGroup, NotLanding
<1>4. \A c, some, filter : NodeGroup(CountryGroup(c), f, some, filter).name # PG("Landing")
  BY TagsDiffer DEF NodeGroup, Group, IncludeAll
<1>5. g \notin FixedGroups(f, nodes)
  BY <1>1, <1>2 DEF FixedGroups, NotLanding, FixedNames
<1>6. g \notin LandingGroups(f, nodes) /\ g \notin LowCostGroups(f, nodes)
  BY <1>1, <1>3 DEF LandingGroups, LowCostGroups
<1>7. g \notin BuildCountryGroups(f, nodes)
  BY <1>1, <1>4 DEF BuildCountryGroups
<1> QED BY <1>5, <1>6, <1>7 DEF BuildProxyGroups

\* No stored group has the landing group's name.
LEMMA NoStoredLanding == PG("Landing") \notin GroupNames(DefaultProxyGroups)
<1>1. ASSUME NEW g \in DefaultProxyGroups PROVE g.name # PG("Landing")
  <2>1. \A s, refs, filter : s \in NotLanding =>
          /\ Group(PG(s), refs).name # PG("Landing")
          /\ IncludeAll(PG(s), refs, filter).name # PG("Landing")
    BY NotLandingNamed DEF Group, IncludeAll
  <2>2. \A c, filter : IncludeAll(CountryGroup(c), {}, filter).name # PG("Landing")
    BY TagsDiffer DEF IncludeAll
  <2> QED BY <2>1, <2>2 DEF DefaultProxyGroups, NotLanding, FixedNames
<1> QED BY <1>1 DEF GroupNames

\* A configuration of built groups.
BuiltWith(conf, f, nodes) ==
    /\ conf.groups = BuildProxyGroups(f, nodes)
    /\ conf.proxies = NamesOf(nodes)
    /\ conf.flags = f

LEMMA BuiltLanding ==
    ASSUME NEW f, NEW nodes, NEW conf, BuiltWith(conf, f, nodes)
    PROVE  LandingOffered(conf) <=> f.landing
<1>1. f.landing => PG("Landing") \in GroupNames(BuildProxyGroups(f, nodes))
  BY CommonPartBuilt DEF CommonPart, LandingPart
<1> QED BY <1>1, OnlyLandingBuilt DEF BuiltWith, LandingOffered

\* A group made for some of the nodes, with a filter that matches them.
LEMMA NodeGroupNear ==
    ASSUME NEW conf, NEW f, NEW nodes, NEW some \in SUBSET nodes, NEW filter, NEW name,
           BuiltWith(conf, f, nodes), NodeGroup(name, f, some, filter) \in conf.groups,
           IF f.regex THEN filter \cap conf.proxies # {} ELSE some # {}
    PROVE  name \in Near(conf)
<1> DEFINE g == NodeGroup(name, f, some, filter)
<1>1. g.name = name
  BY DEF NodeGroup, Group, IncludeAll
<1>2. CASE f.regex
  <2>1. PICK n \in conf.proxies : n \in filter
    BY <1>2
  <2>2. g.filter = filter
    BY <1>2 DEF NodeGroup, IncludeAll
  <2> HIDE DEF g
  <2> QED BY <1>1, <2>1, <2>2, IncludesNode DEF g
<1>3. CASE ~f.regex
  <2>1. PICK n \in some : TRUE
    BY <1>3
  <2>2. NodeRef(n[2]) \in g.refs
    BY <1>3 DEF NodeGroup, Group
  <2>3. n[2] \in conf.proxies
    BY DEF BuiltWith, NamesOf
  <2> HIDE DEF g
  <2> QED BY <1>1, <2>2, <2>3, ListsNode DEF g
<1> QED BY <1>2, <1>3

LEMMA BuiltCountryNear ==
    ASSUME NEW conf, NEW f, NEW nodes, BuiltWith(conf, f, nodes), NEW c \in FilteredCountries(f, nodes)
    PROVE  CountryGroup(c) \in Near(conf) \/ NoNodeFor(conf, c)
<1> SUFFICES ASSUME ~NoNodeFor(conf, c) PROVE CountryGroup(c) \in Near(conf)
  OBVIOUS
<1>1. NodeGroup(CountryGroup(c), f, NodesIn(nodes, c), CountryFilter(f, c)) \in conf.groups
  BY DEF BuiltWith, BuildProxyGroups, BuildCountryGroups
<1>2. NodesIn(nodes, c) \in SUBSET nodes /\ NodesIn(nodes, c) # {}
  BY DEF NodesIn, FilteredCountries
<1>3. f.regex => CountryFilter(f, c) \cap conf.proxies # {}
  BY BuiltLanding DEF NoNodeFor, CountryFilter, BuiltWith
<1> QED BY <1>1, <1>2, <1>3, NodeGroupNear

LEMMA BuiltDeadEnds ==
    ASSUME NEW f, NEW nodes, NEW conf, \A n \in nodes : n[2] \in Names, BuiltWith(conf, f, nodes)
    PROVE  \A g \in conf.groups : g.name \in LeadingOn(conf) \/ Barren(conf, g.name)
<1> DEFINE fine(g) == g.name \in LeadingOn(conf) \/ Barren(conf, g.name)
           lists == DefaultProxies(f, nodes)
           automatic == DefaultFallback(f, nodes)
           cheap == {n \in nodes : n[2] \in LowCostNames}
           landing == {n \in nodes : n[2] \in LandingNames}
<1>0. /\ FixedGroups(f, nodes) \subseteq conf.groups /\ LandingGroups(f, nodes) \subseteq conf.groups
      /\ LowCostGroups(f, nodes) \subseteq conf.groups /\ BuildCountryGroups(f, nodes) \subseteq conf.groups
  BY DEF BuiltWith, BuildProxyGroups
<1>1. \A g \in conf.groups : DIRECT \in g.refs => g.name \in Near(conf) /\ fine(g)
  BY ListsDirect, NearLeadsOn
<1>2. DIRECT \in lists /\ DIRECT \in DefaultSelector(f, nodes) /\ DIRECT \in FrontProxySelector(f, nodes)
      /\ DIRECT \in BilibiliProxies(f, nodes) /\ DIRECT \in BahamutProxies(f, nodes) /\ DIRECT \in Builtins
  BY DEF DefaultProxies, DefaultSelector, FrontProxySelector, BilibiliProxies, BahamutProxies, Builtins
<1>3. f.landing => PG("Landing") \in Near(conf) \/ conf.proxies \cap LandingNames = {}
  <2> SUFFICES ASSUME f.landing, conf.proxies \cap LandingNames # {} PROVE PG("Landing") \in Near(conf)
    OBVIOUS
  <2>1. NodeGroup(PG("Landing"), f, landing, LandingNames) \in conf.groups
    BY <1>0 DEF LandingGroups
  <2>2. landing \in SUBSET nodes /\ landing # {}
    BY DEF BuiltWith, NamesOf
  <2> HIDE DEF landing
  <2> QED BY <2>1, <2>2, NodeGroupNear
<1>4. \A refs : /\ Group(PG("Auto"), refs).name = PG("Auto") /\ Group(PG("Auto"), refs).refs = refs
                /\ Group(PG("Fallback"), refs).name = PG("Fallback") /\ Group(PG("Fallback"), refs).refs = refs
  BY DEF Group
<1>5. ASSUME NEW name \in {PG("Auto"), PG("Fallback")}, Group(name, automatic) \in conf.groups
      PROVE  fine(Group(name, automatic))
  <2> SUFFICES ASSUME automatic \cap Near(conf) = {} PROVE Barren(conf, name)
    BY <1>4, <1>5, NearLeadsOn
  <2>1. ASSUME NEW c \in Countries, CountryGroup(c) \in GroupNames(conf.groups) PROVE NoNodeFor(conf, c)
    <3>1. c \in FilteredCountries(f, nodes)
      BY <2>1, OnlyFilteredBuilt DEF BuiltWith
    <3>2. CountryGroup(c) \in automatic
      BY <3>1 DEF DefaultFallback, CountryGroupNames
    <3> QED BY <3>1, <3>2, BuiltCountryNear
  <2>2. LandingOffered(conf) => conf.proxies \cap LandingNames = {}
    <3>1. LandingOffered(conf) => f.landing /\ PG("Landing") \in automatic
      BY BuiltLanding DEF DefaultFallback, LandingPart
    <3> QED BY <1>3, <3>1
  <2> QED BY <1>5, <2>1, <2>2 DEF Barren
<1>6. ASSUME NEW g \in FixedGroups(f, nodes) PROVE fine(g)
  <2>0. g \in conf.groups
    BY <1>0, <1>6
  <2>1. CASE DIRECT \in g.refs
    BY <1>1, <2>0, <2>1
  <2>2. CASE g = IncludeAll(PG("Manual"), {}, Names)
    <3>1. g.name = PG("Manual") /\ g.filter = Names
      BY <2>2 DEF IncludeAll
    <3>2. CASE conf.proxies = {}
      BY <3>1, <3>2 DEF Barren
    <3>3. CASE conf.proxies # {}
      <4>1. PICK n \in conf.proxies : n \in g.filter
        BY <3>1, <3>3 DEF BuiltWith, NamesOf
      <4> QED BY <2>0, <4>1, IncludesNode, NearLeadsOn
    <3> QED BY <3>2, <3>3
  <2>3. CASE g = Group(PG("TruthSocial"), TruthSocialProxies(f, nodes))
    <3>1. DIRECT \in g.refs \/ PG("Select") \in g.refs
      BY <1>2, <2>3 DEF Group, TruthSocialProxies
    <3>2. PG("Select") \in Near(conf)
      <4> DEFINE select == Group(PG("Select"), DefaultSelector(f, nodes))
      <4>1. select \in conf.groups
        BY <1>0 DEF FixedGroups
      <4>2. select.name = PG("Select") /\ DIRECT \in select.refs
        BY <1>2 DEF Group
      <4> HIDE DEF select
      <4> QED BY <4>1, <4>2, ListsDirect
    <3> QED BY <1>1, <2>0, <3>1, <3>2, NearLeadsOn
  <2>4. CASE g \in {Group(PG("Auto"), automatic), Group(PG("Fallback"), automatic)}
    BY <1>5, <2>0, <2>4
  <2>5. \/ DIRECT \in g.refs \/ g = IncludeAll(PG("Manual"), {}, Names)
        \/ g = Group(PG("TruthSocial"), TruthSocialProxies(f, nodes))
        \/ g \in {Group(PG("Auto"), automatic), Group(PG("Fallback"), automatic)}
    <3> HIDE DEF lists, automatic
    <3> QED BY <1>2, <1>6 DEF FixedGroups, Group, IncludeAll, lists, automatic
  <2> QED BY <2>1, <2>2, <2>3, <2>4, <2>5
<1>7. ASSUME NEW g \in LandingGroups(f, nodes) PROVE fine(g)
  <2>0. g \in conf.groups /\ f.landing
    BY <1>0, <1>7 DEF LandingGroups
  <2>1. CASE g = FrontProxyGroup(f, nodes)
    <3>1. DIRECT \in g.refs
      BY <1>2, <2>1 DEF FrontProxyGroup, Group, IncludeAll
    <3> QED BY <1>1, <2>0, <3>1
  <2>2. CASE g = NodeGroup(PG("Landing"), f, landing, LandingNames)
    <3>1. g.name = PG("Landing")
      BY <2>2 DEF NodeGroup, Group, IncludeAll
    <3> QED BY <1>3, <2>0, <3>1, NearLeadsOn DEF Barren
  <2> QED BY <1>7, <2>1, <2>2 DEF LandingGroups
<1>8. ASSUME NEW g \in LowCostGroups(f, nodes) PROVE fine(g)
  <2>1. g \in conf.groups /\ g = NodeGroup(PG("LowCost"), f, cheap, LowCostNames)
    BY <1>0, <1>8 DEF LowCostGroups
  <2>2. g.name = PG("LowCost")
    BY <2>1 DEF NodeGroup, Group, IncludeAll
  <2>3. CASE conf.proxies \cap LowCostNames = {}
    BY <2>2, <2>3 DEF Barren
  <2>4. CASE conf.proxies \cap LowCostNames # {}
    <3>1. cheap \in SUBSET nodes /\ cheap # {}
      BY <2>4 DEF BuiltWith, NamesOf
    <3> HIDE DEF cheap
    <3>2. PG("LowCost") \in Near(conf)
      BY <2>1, <2>4, <3>1, NodeGroupNear
    <3> QED BY <2>2, <3>2, NearLeadsOn
  <2> QED BY <2>3, <2>4
<1>9. ASSUME NEW g \in BuildCountryGroups(f, nodes) PROVE fine(g)
  <2>1. PICK c \in FilteredCountries(f, nodes) :
          g = NodeGroup(CountryGroup(c), f, NodesIn(nodes, c), CountryFilter(f, c))
    BY <1>9 DEF BuildCountryGroups
  <2>2. g.name = CountryGroup(c)
    BY <2>1 DEF NodeGroup, Group, IncludeAll
  <2>3. c \in Countries
    BY DEF FilteredCountries
  <2> QED BY <2>2, <2>3, BuiltCountryNear, NearLeadsOn DEF Barren
<1> QED BY <1>6, <1>7, <1>8, <1>9 DEF BuiltWith, BuildProxyGroups

\* Stored groups keep their lists where they have no include-all.
LEMMA CopiedGroups ==
    ASSUME NEW name, NEW refs, NEW filter
    PROVE  /\ Copied(Group(name, refs)) = Group(name, refs)
           /\ Copied(IncludeAll(name, refs, filter)) = IncludeAll(name, {}, filter)
  BY DEF Copied, Group, IncludeAll

\* A stored group with include-all is near if a node matches its filter.
LEMMA StoredIncludeAllNear ==
    ASSUME NEW conf, conf.groups = BuildProxyGroupsFromDB(DefaultProxyGroups), NEW name, NEW refs, NEW filter,
           IncludeAll(name, refs, filter) \in DefaultProxyGroups, conf.proxies \cap filter # {}
    PROVE  name \in Near(conf)
<1> DEFINE g == IncludeAll(name, {}, filter)
<1>1. g \in conf.groups
  BY CopiedGroups DEF BuildProxyGroupsFromDB, Copied
<1>2. g.name = name /\ g.filter = filter
  BY DEF IncludeAll
<1>3. PICK n \in conf.proxies : n \in g.filter
  BY <1>2
<1> HIDE DEF g
<1> QED BY <1>1, <1>2, <1>3, IncludesNode

LEMMA StoredDeadEnds ==
    ASSUME NEW conf, conf.groups = BuildProxyGroupsFromDB(DefaultProxyGroups), conf.proxies \subseteq Names
    PROVE  \A g \in conf.groups : g.name \in LeadingOn(conf) \/ Barren(conf, g.name)
<1> DEFINE fine(name) == name \in LeadingOn(conf) \/ Barren(conf, name)
           listed == {PG("Select"), PG("Manual"), DIRECT}
           everyCountry == {CountryGroup(c) : c \in Countries}
           first == {PG("Auto"), PG("Fallback"), PG("Manual")}
<1>1. ASSUME NEW h \in DefaultProxyGroups PROVE Copied(h) \in conf.groups
  BY DEF BuildProxyGroupsFromDB, Copied
<1>2. ~LandingOffered(conf)
  BY StoredNamesKept, NoStoredLanding DEF LandingOffered
<1>3. /\ IncludeAll(PG("Manual"), {}, Names) \in DefaultProxyGroups
      /\ IncludeAll(PG("Weibo"), listed, Names) \in DefaultProxyGroups
      /\ IncludeAll(PG("LowCost"), {}, LowCostNames) \in DefaultProxyGroups
      /\ \A c \in Countries : IncludeAll(CountryGroup(c), {}, CountryNames[c]) \in DefaultProxyGroups
  BY DEF DefaultProxyGroups
<1>4. ASSUME NEW name \in {PG("Manual"), PG("Weibo")} PROVE name \in Near(conf) \/ conf.proxies = {}
  <2>1. PICK refs : IncludeAll(name, refs, Names) \in DefaultProxyGroups
    BY <1>3, <1>4
  <2> QED BY <2>1, StoredIncludeAllNear
<1>5. PG("LowCost") \in Near(conf) \/ conf.proxies \cap LowCostNames = {}
  BY <1>3, StoredIncludeAllNear
<1>6. ASSUME NEW c \in Countries PROVE CountryGroup(c) \in Near(conf) \/ NoNodeFor(conf, c)
  BY <1>2, <1>3, StoredIncludeAllNear DEF NoNodeFor
<1>7. /\ fine(PG("Manual")) /\ fine(PG("Weibo")) /\ fine(PG("LowCost"))
      /\ \A c \in Countries : fine(CountryGroup(c))
  BY <1>4, <1>5, <1>6, NearLeadsOn DEF Barren
<1>8. ASSUME NEW name, NEW refs, Group(name, refs) \in DefaultProxyGroups
      PROVE  /\ refs \cap Near(conf) # {} => fine(name)
             /\ DIRECT \in refs => fine(name)
  <2>1. Group(name, refs) \in conf.groups
    BY <1>1, <1>8, CopiedGroups
  <2>2. Group(name, refs).name = name /\ Group(name, refs).refs = refs
    BY DEF Group
  <2> QED BY <2>1, <2>2, ListsDirect, NearLeadsOn
<1>9. ASSUME NEW name \in {PG("Auto"), PG("Fallback")} PROVE fine(name)
  <2>1. Group(name, everyCountry) \in DefaultProxyGroups
    BY <1>9 DEF DefaultProxyGroups
  <2>2. everyCountry \cap Near(conf) # {} \/ \A c \in Countries : NoNodeFor(conf, c)
    BY <1>6
  <2> HIDE DEF everyCountry
  <2> QED BY <1>2, <1>8, <1>9, <2>1, <2>2 DEF Barren
<1>10. fine(PG("Select"))
  <2>1. Group(PG("Select"), first) \in DefaultProxyGroups
    BY DEF DefaultProxyGroups
  <2>2. first \cap Near(conf) # {} \/ conf.proxies = {}
    BY <1>4
  <2> HIDE DEF first
  <2> QED BY <1>8, <2>1, <2>2 DEF Barren
<1>11. ASSUME NEW h \in DefaultProxyGroups PROVE fine(h.name)
  <2>1. ASSUME NEW s \in StoredOnlyListing PROVE fine(PG(s))
    <3>1. Group(PG(s), listed) \in DefaultProxyGroups /\ DIRECT \in listed
      BY <2>1 DEF DefaultProxyGroups, StoredOnlyListing
    <3> HIDE DEF listed
    <3> QED BY <1>8, <3>1
  <2>2. fine(PG("SogouInput")) /\ fine(PG("Final")) /\ fine(PG("AdBlock"))
    <3>1. /\ Group(PG("SogouInput"), {DIRECT, REJECT}) \in DefaultProxyGroups
          /\ Group(PG("Final"), {PG("Select"), DIRECT}) \in DefaultProxyGroups
          /\ Group(PG("AdBlock"), Builtins) \in DefaultProxyGroups /\ DIRECT \in Builtins
      BY DEF DefaultProxyGroups, Builtins
    <3> QED BY <1>8, <3>1
  <2>3. \/ \E s \in StoredOnlyListing : h.name = PG(s)
        \/ \E s \in {"Select", "Manual", "Weibo", "SogouInput", "Final", "Auto", "Fallback", "AdBlock", "LowCost"} :
              h.name = PG(s)
        \/ \E c \in Countries : h.name = CountryGroup(c)
    <3>1. \A name, refs, filter : Group(name, refs).name = name /\ IncludeAll(name, refs, filter).name = name
      BY DEF Group, IncludeAll
    <3> QED BY <1>11, <3>1 DEF DefaultProxyGroups, StoredOnlyListing
  <2> HIDE DEF fine
  <2> QED BY <1>7, <1>9, <1>10, <2>1, <2>2, <2>3
<1>12. ASSUME NEW g \in conf.groups PROVE fine(g.name)
  <2>1. PICK h \in DefaultProxyGroups : g = Copied(h)
    BY <1>12 DEF BuildProxyGroupsFromDB, Copied
  <2>2. g.name = h.name
    BY <2>1 DEF Copied
  <2> QED BY <1>11, <2>2
<1> QED BY <1>12

-----------------------------------------------------------------------------
(* Types.                                                                  *)

LEMMA StepTyped == TypeOK /\ [Next]_vars => TypeOK'
<1> SUFFICES ASSUME TypeOK, [Next]_vars PROVE TypeOK'
  OBVIOUS
<1> USE ConfigsAssumption DEF TypeOK, Build, Idle, PCs
<1>1. ASSUME NEW kind \in {"update", "attach"}, ReadToWrite(kind) PROVE TypeOK'
  BY <1>1 DEF ReadToWrite
<1>2. CASE UpdateProfileSave
  BY <1>2 DEF UpdateProfileSave
<1>3. ASSUME NEW s \in Subs, Append({s}, {}) \/ Append({}, {s}) PROVE TypeOK'
  BY <1>3 DEF Append
<1>4. ASSUME NEW s \in Subs, Remove(s) PROVE TypeOK'
  BY <1>4 DEF Remove
<1>5. CASE DeleteProfileCommit
  BY <1>5 DEF DeleteProfileCommit
<1>6. ASSUME NEW f \in Flags, First(f) PROVE TypeOK'
  BY <1>6 DEF First
<1>7. CASE LoadProxyGroups
  BY <1>7 DEF LoadProxyGroups
<1>8. CASE LoadRules
  BY <1>8 DEF LoadRules
<1>9. CASE LoadSubscriptionGroups
  BY <1>9 DEF LoadSubscriptionGroups
<1>10. CASE LoadSubscriptions
  BY <1>10 DEF LoadSubscriptions
<1>11. ASSUME NEW nodes, LoadNodes(nodes) PROVE TypeOK'
  BY <1>11 DEF LoadNodes
<1>12. CASE ReadFails
  BY <1>12 DEF ReadFails
<1>13. CASE UNCHANGED vars
  BY <1>13 DEF vars
<1> QED BY <1>1, <1>2, <1>3, <1>4, <1>5, <1>6, <1>7, <1>8, <1>9, <1>10, <1>11, <1>12, <1>13 DEF Next

\* The variables have their types.
THEOREM TypeCorrect == Spec => []TypeOK
<1>1. Init => TypeOK
  <2>1. Idle \in Build /\ Idle.pc = "idle" /\ Idle.flags = None
    BY DEF Idle, Build, PCs
  <2>2. {TRUE, FALSE} \subseteq BOOLEAN /\ {} \subseteq Subs /\ {} \subseteq {"update", "attach"}
    OBVIOUS
  <2> QED BY <2>1, <2>2 DEF Init, TypeOK
<1> QED BY <1>1, StepTyped, PTL DEF Spec

-----------------------------------------------------------------------------
(* A configuration that was built: what it names is in it.                 *)

LEMMA StepResolves == NamesResolve /\ [Next]_vars => NamesResolve'
<1>1. SUFFICES ASSUME NamesResolve, [Next]_vars PROVE NamesResolve'
  OBVIOUS
<1>2. CASE config' = config
  BY <1>1, <1>2 DEF NamesResolve, Built, Known, GroupNames
<1>3. CASE config' = NoConfig
  BY <1>3 DEF NamesResolve, Built, NoConfig
<1>4. ASSUME NEW nodes, LoadNodes(nodes) PROVE NamesResolve'
  <2> DEFINE groups == ProxyGroups(nodes)
  <2>1. /\ config'.groups = groups
        /\ config'.proxies = NamesOf(nodes)
        /\ config'.rules \in {{}, DefaultRuleTargets}
    BY <1>4 DEF LoadNodes, NamesOf
  <2>2. /\ \A g \in groups : g.refs \subseteq Known(groups, NamesOf(nodes))
        /\ \A s \in FixedNames : PG(s) \in GroupNames(groups)
    <3>1. CASE req.groups
      <4>1. groups = BuildProxyGroupsFromDB(DefaultProxyGroups)
        BY <3>1 DEF ProxyGroups
      <4> QED BY <4>1, StoredGroupsResolve, StoredNamesKept, StoredFixedNames
    <3>2. CASE ~req.groups
      <4>1. groups = BuildProxyGroups(req.flags, nodes)
        BY <3>2 DEF ProxyGroups
      <4> QED BY <4>1, BuiltGroupsResolve, FixedNamesBuilt
    <3> QED BY <3>1, <3>2
  <2>3. DefaultRuleTargets \subseteq Known(groups, NamesOf(nodes))
    BY <2>2, RulesResolve
  <2> HIDE DEF groups
  <2>4. /\ \A g \in config'.groups : g.refs \subseteq Known(config'.groups, config'.proxies)
        /\ config'.rules \subseteq Known(config'.groups, config'.proxies)
    BY <2>1, <2>2, <2>3
  <2> QED BY <2>4 DEF NamesResolve, Built, Known, GroupNames
<1> QED BY <1>1, <1>2, <1>3, <1>4 DEF Next, vars, ReadToWrite, UpdateProfileSave, Append, Remove,
           DeleteProfileCommit, First, LoadProxyGroups, LoadRules, LoadSubscriptionGroups, LoadSubscriptions, ReadFails

\* Every name in a configuration resolves, for every profile, every set of
\* nodes, every threshold and every order in which the reads are interleaved
\* with changes of the profile.
THEOREM EveryNameResolves == Spec => []NamesResolve
<1>1. Init => NamesResolve
  BY DEF Init, NamesResolve, Built, NoConfig
<1> QED BY <1>1, StepResolves, PTL DEF Spec

LEMMA StepNoLoop == TypeOK /\ NoReferenceLoop /\ [Next]_vars => NoReferenceLoop'
<1> SUFFICES ASSUME TypeOK, NoReferenceLoop, [Next]_vars PROVE NoReferenceLoop'
  OBVIOUS
<1>1. CASE config' = config
  BY <1>1 DEF NoReferenceLoop, Built
<1>2. CASE config' = NoConfig
  BY <1>2 DEF NoReferenceLoop, Built, NoConfig
<1>3. ASSUME NEW nodes, LoadNodes(nodes) PROVE NoReferenceLoop'
  <2>1. \A n \in nodes : n[2] \in Names
    BY <1>3 DEF LoadNodes
  <2>2. \A g \in ProxyGroups(nodes) : Ranked(g)
    BY <2>1, BuiltGroupsRanked, StoredGroupsRanked DEF ProxyGroups
  <2>3. config'.groups = ProxyGroups(nodes)
    BY <1>3 DEF LoadNodes
  <2> QED
    BY <2>2, <2>3, RanksEnd DEF NoReferenceLoop
<1> QED BY <1>1, <1>2, <1>3 DEF Next, vars, ReadToWrite, UpdateProfileSave, Append, Remove,
           DeleteProfileCommit, First, LoadProxyGroups, LoadRules, LoadSubscriptionGroups, LoadSubscriptions, ReadFails

\* No group of a configuration leads back to itself, for every set of nodes,
\* countries and flags: references go from rank to rank downwards.
THEOREM NoGroupLoops == Spec => []NoReferenceLoop
<1>1. Init => NoReferenceLoop
  BY DEF Init, NoReferenceLoop, Built, NoConfig
<1> QED BY <1>1, StepNoLoop, TypeCorrect, PTL DEF Spec

LEMMA StepForeseen == TypeOK /\ DeadEndsForeseen /\ [Next]_vars => DeadEndsForeseen'
<1> SUFFICES ASSUME TypeOK, DeadEndsForeseen, [Next]_vars PROVE DeadEndsForeseen'
  OBVIOUS
<1>1. CASE config' = config
  BY <1>1 DEF DeadEndsForeseen, Built, GroupNames
<1>2. CASE config' = NoConfig
  BY <1>2 DEF DeadEndsForeseen, Built, NoConfig
<1>3. ASSUME NEW nodes, LoadNodes(nodes) PROVE DeadEndsForeseen'
  <2>1. /\ config'.groups = ProxyGroups(nodes) /\ config'.flags = req.flags
        /\ config'.proxies = NamesOf(nodes) /\ \A n \in nodes : n[2] \in Names
    BY <1>3 DEF LoadNodes, NamesOf
  <2>2. \A g \in config'.groups : g.name \in LeadingOn(config') \/ Barren(config', g.name)
    <3>1. CASE req.groups
      <4>1. NamesOf(nodes) \subseteq Names
        BY <2>1 DEF NamesOf
      <4> QED BY <2>1, <3>1, <4>1, StoredDeadEnds DEF ProxyGroups
    <3>2. CASE ~req.groups
      <4>1. BuiltWith(config', req.flags, nodes)
        BY <2>1, <3>2 DEF BuiltWith, ProxyGroups
      <4> QED BY <2>1, <4>1, BuiltDeadEnds
    <3> QED BY <3>1, <3>2
  <2> QED
    BY <2>2 DEF DeadEndsForeseen, GroupNames
<1> QED BY <1>1, <1>2, <1>3 DEF Next, vars, ReadToWrite, UpdateProfileSave, Append, Remove,
           DeleteProfileCommit, First, LoadProxyGroups, LoadRules, LoadSubscriptionGroups, LoadSubscriptions, ReadFails

\* From every group of a configuration a node or a builtin can be picked, except
\* where the nodes leave the group nothing: for every set of nodes, every
\* matching of names, every threshold and all flags.
THEOREM DeadEndsAreForeseen == Spec => []DeadEndsForeseen
<1>1. Init => DeadEndsForeseen
  BY DEF Init, DeadEndsForeseen, Built, NoConfig
<1> QED BY <1>1, StepForeseen, TypeCorrect, PTL DEF Spec

-----------------------------------------------------------------------------
(* A configuration of a profile that is being deleted.                     *)

\* While nothing is written late: the groups and the rules go with the row and
\* the links, and never come back; so a build that missed the groups or the
\* rules finds no subscription afterwards.
WholeInv ==
    ~late =>
        /\ seeded = profile
        /\ ~seeded => direct = {} /\ grouped = {}
        /\ req.pc \in {"rules", "subgroups", "subs", "nodes"} /\ ~req.groups => ~seeded
        /\ req.pc \in {"subgroups", "subs", "nodes"} /\ ~req.rules => ~seeded
        /\ req.pc \in {"subs", "nodes"} /\ req.subs # {} => req.groups /\ req.rules

LEMMA InitWhole == Init => WholeInv
BY DEF Init, WholeInv, Idle

LEMMA StepWhole == TypeOK /\ WholeInv /\ [Next]_vars => WholeInv'
<1> SUFFICES ASSUME TypeOK, WholeInv, [Next]_vars PROVE WholeInv'
  OBVIOUS
<1>0. req \in [pc : PCs, flags : Flags \cup {None}, groups : BOOLEAN, rules : BOOLEAN, subs : SUBSET Subs]
  BY DEF TypeOK, Build
<1>1. ASSUME NEW kind, ReadToWrite(kind) PROVE WholeInv'
  BY <1>1 DEF ReadToWrite, WholeInv
<1>2. CASE UpdateProfileSave
  BY <1>2 DEF UpdateProfileSave, WholeInv, TypeOK
<1>3. ASSUME NEW d, NEW g, Append(d, g) PROVE WholeInv'
  BY <1>3 DEF Append, WholeInv, TypeOK
<1>4. ASSUME NEW s, Remove(s) PROVE WholeInv'
  BY <1>4 DEF Remove, WholeInv
<1>5. CASE DeleteProfileCommit
  BY <1>5 DEF DeleteProfileCommit, WholeInv
<1>6. ASSUME NEW f, First(f) PROVE WholeInv'
  BY <1>6 DEF First, WholeInv, Idle
<1>7. CASE LoadProxyGroups
  BY <1>0, <1>7 DEF LoadProxyGroups, WholeInv
<1>8. CASE LoadRules
  BY <1>0, <1>8 DEF LoadRules, WholeInv
<1>9. CASE LoadSubscriptionGroups
  BY <1>0, <1>9 DEF LoadSubscriptionGroups, WholeInv
<1>10. CASE LoadSubscriptions
  BY <1>0, <1>10 DEF LoadSubscriptions, WholeInv, Idle
<1>11. ASSUME NEW nodes, LoadNodes(nodes) PROVE WholeInv'
  BY <1>11 DEF LoadNodes, WholeInv, Idle
<1>12. CASE ReadFails
  BY <1>12 DEF ReadFails, WholeInv, Idle
<1>13. CASE UNCHANGED vars
  BY <1>13 DEF vars, WholeInv
<1> QED BY <1>1, <1>2, <1>3, <1>4, <1>5, <1>6, <1>7, <1>8, <1>9, <1>10, <1>11, <1>12, <1>13 DEF Next

LEMMA StepServed == TypeOK /\ WholeInv /\ ServedWhole /\ [Next]_vars => ServedWhole'
<1> SUFFICES ASSUME TypeOK, WholeInv, ServedWhole, [Next]_vars PROVE ServedWhole'
  OBVIOUS
<1>1. CASE config' = NoConfig
  BY <1>1 DEF ServedWhole, Built, NoConfig
<1>2. CASE config' = config /\ late' = late
  BY <1>2 DEF ServedWhole, Built, GroupNames
<1>3. CASE config' = config /\ late' = (late \/ ~profile)
  BY <1>3 DEF ServedWhole, Built, GroupNames, TypeOK
<1>4. ASSUME NEW nodes, LoadNodes(nodes) PROVE ServedWhole'
  <2>1. SUFFICES ASSUME ~late
                 PROVE  /\ config'.rules = DefaultRuleTargets
                        /\ GroupNames(config'.groups) = GroupNames(DefaultProxyGroups)
    BY <1>4 DEF ServedWhole, Built, GroupNames, LoadNodes
  <2>2. req.pc = "nodes" /\ req.subs # {}
    BY <1>4 DEF LoadNodes, TypeOK
  <2>3. req.groups /\ req.rules
    BY <2>1, <2>2 DEF WholeInv
  <2>4. config'.rules = DefaultRuleTargets /\ config'.groups = ProxyGroups(nodes)
    BY <1>4, <2>3 DEF LoadNodes
  <2>5. ProxyGroups(nodes) = BuildProxyGroupsFromDB(DefaultProxyGroups)
    BY <2>3 DEF ProxyGroups
  <2> QED BY <2>4, <2>5, StoredNamesKept
<1> QED BY <1>1, <1>2, <1>3, <1>4 DEF Next, vars, ReadToWrite, UpdateProfileSave, Append, Remove,
           DeleteProfileCommit, First, LoadProxyGroups, LoadRules, LoadSubscriptionGroups, LoadSubscriptions, ReadFails

\* However its deletion is interleaved with the reads, a configuration is
\* complete, unless a request that read the profile wrote to it afterwards.
THEOREM ServedWholeAlways == Spec => []ServedWhole
<1>1. Init => ServedWhole
  BY DEF Init, ServedWhole, Built, NoConfig
<1> QED BY <1>1, StepServed, InitWhole, StepWhole, TypeCorrect, PTL DEF Spec

-----------------------------------------------------------------------------
(* Validations.                                                            *)

\* What a configuration is held to does not depend on who asked for it.
ConfigInv == TypeOK /\ WholeInv /\ NamesResolve /\ NoReferenceLoop /\ DeadEndsForeseen /\ ServedWhole

\* A validator's judgement ends a read without a build; every other step is one
\* of Configs.
LEMMA ValidationSteps == ValNext => Next \/ Judge \/ UNCHANGED vars
<1> SUFFICES ASSUME ValNext PROVE Next \/ Judge \/ UNCHANGED vars
  OBVIOUS
<1>1. CASE Meanwhile
  BY <1>1 DEF Meanwhile, Next
<1>2. ASSUME NEW f \in Flags, BuildAlone(f) \/ ValidateConfig(f) \/ ReadAgain(f) PROVE Next
  BY <1>2 DEF BuildAlone, ValidateConfig, ReadAgain, Next
<1>3. CASE Preload \/ LoadedSubscriptions
  BY <1>3 DEF Preload, LoadedSubscriptions, Next
<1>4. ASSUME NEW nodes, NEW rendered, BuiltAlone(nodes) \/ BuiltForReport(nodes, rendered) PROVE Next
  <2>1. nodes \in SUBSET (req.subs \X Names)
    BY <1>4 DEF BuiltAlone, BuiltForReport, LoadNodes
  <2> QED
    BY <1>4, <2>1 DEF BuiltAlone, BuiltForReport, Next
<1>5. CASE ProfileNotFound
  BY <1>5 DEF ProfileNotFound
<1>6. CASE RequestFails \/ BuildFails
  BY <1>6 DEF RequestFails, BuildFails, Next
<1> QED
  BY <1>1, <1>2, <1>3, <1>4, <1>5, <1>6 DEF ValNext

LEMMA JudgeKeepsConfigs == ConfigInv /\ Judge => ConfigInv'
<1> SUFFICES ASSUME ConfigInv, Judge PROVE ConfigInv'
  OBVIOUS
<1>1. Idle \in Build /\ Idle.pc = "idle" /\ Idle.flags = None
  BY DEF Idle, Build, PCs
<1>2. TypeOK'
  BY <1>1 DEF ConfigInv, TypeOK, Judge
<1>3. WholeInv'
  BY <1>1 DEF ConfigInv, WholeInv, Judge
<1> QED
  BY <1>2, <1>3 DEF ConfigInv, Judge, NamesResolve, NoReferenceLoop, DeadEndsForeseen,
                    ServedWhole, Built, Known, GroupNames

LEMMA StepConfigs == ConfigInv /\ [ValNext]_valVars => ConfigInv'
<1> SUFFICES ASSUME ConfigInv, [ValNext]_valVars PROVE ConfigInv'
  OBVIOUS
<1>1. CASE [Next]_vars
  BY <1>1, StepTyped, StepWhole, StepResolves, StepNoLoop, StepForeseen, StepServed DEF ConfigInv
<1>2. CASE Judge
  BY <1>2, JudgeKeepsConfigs
<1> QED
  BY <1>1, <1>2, ValidationSteps DEF valVars

LEMMA ConfigsHold == ValSpec => []ConfigInv
<1>1. ValInit => ConfigInv
  <2>1. Idle \in Build /\ Idle.pc = "idle" /\ Idle.flags = None
    BY DEF Idle, Build, PCs
  <2>2. {TRUE, FALSE} \subseteq BOOLEAN /\ {} \subseteq Subs /\ {} \subseteq {"update", "attach"}
    OBVIOUS
  <2>3. Init => TypeOK
    BY <2>1, <2>2 DEF Init, TypeOK
  <2> QED
    BY <2>3, InitWhole DEF ValInit, Init, ConfigInv, NamesResolve, NoReferenceLoop, DeadEndsForeseen,
       ServedWhole, Built, NoConfig
<1> QED
  BY <1>1, StepConfigs, PTL DEF ValSpec

\* While nothing is taken from the profile: both reads find its groups, its
\* rules and a subscription, because what was found missing would still be so.
SteadyInv ==
    /\ steady \in BOOLEAN
    /\ phase = "own" => req.pc \in {"groups", "rules", "subgroups", "subs"}
    /\ phase # "none" => report = None
    /\ steady /\ ~late =>
        /\ profile /\ seeded
        /\ direct \cup grouped # {}
        /\ phase = "own" /\ req.pc \in {"rules", "subgroups", "subs"} => req.groups
        /\ phase = "own" /\ req.pc \in {"subgroups", "subs"} => req.rules
        /\ phase # "none" /\ req.pc = "subs" => direct \cup req.subs # {}
        /\ phase = "build" => own.subs /\ own.rules
    /\ SteadyIsValid

LEMMA StepSteady == ConfigInv /\ SteadyInv /\ [ValNext]_valVars => SteadyInv'
<1> SUFFICES ASSUME ConfigInv, SteadyInv, [ValNext]_valVars PROVE SteadyInv'
  OBVIOUS
<1>0. /\ TypeOK /\ (~late => seeded = profile)
      /\ req \in [pc : PCs, flags : Flags \cup {None}, groups : BOOLEAN, rules : BOOLEAN, subs : SUBSET Subs]
  BY DEF ConfigInv, WholeInv, TypeOK, Build
<1>1. CASE Meanwhile
  <2>1. /\ UNCHANGED <<phase, own, report, req>>
        /\ late' \in BOOLEAN /\ (late => late')
        /\ seeded /\ profile' => seeded'
    <3>1. {profile, seeded, late} \subseteq BOOLEAN
      BY <1>0 DEF TypeOK
    <3>2. UNCHANGED <<phase, own, report>>
      BY <1>1 DEF Meanwhile
    <3>3. CASE \E kind \in {"update", "attach"} : ReadToWrite(kind)
      BY <3>1, <3>2, <3>3 DEF ReadToWrite
    <3>4. CASE UpdateProfileSave
      <4>1. late' = (late \/ ~profile) /\ UNCHANGED <<req, seeded>>
        BY <3>4 DEF UpdateProfileSave
      <4>2. late' \in BOOLEAN /\ (late => late')
        BY <4>1
      <4> QED
        BY <3>2, <4>1, <4>2
    <3>5. CASE \E s \in Subs : Append({s}, {}) \/ Append({}, {s})
      <4>1. late' = (late \/ ~profile) /\ UNCHANGED <<req, seeded>>
        BY <3>5 DEF Append
      <4>2. late' \in BOOLEAN /\ (late => late')
        BY <4>1
      <4> QED
        BY <3>2, <4>1, <4>2
    <3>6. CASE \E s \in Subs : Remove(s)
      BY <3>1, <3>2, <3>6 DEF Remove
    <3>7. CASE DeleteProfileCommit
      BY <3>1, <3>2, <3>7 DEF DeleteProfileCommit
    <3> QED
      BY <1>1, <3>3, <3>4, <3>5, <3>6, <3>7 DEF Meanwhile
  <2>2. steady' = (steady /\ profile' /\ direct \subseteq direct' /\ grouped \subseteq grouped')
    BY <1>1 DEF Meanwhile
  <2>3. steady' \in BOOLEAN
    BY <2>2
  <2>4. ASSUME steady', ~late'
        PROVE  /\ steady /\ ~late /\ profile' /\ seeded'
               /\ direct' \cup grouped' # {}
               /\ direct \cup req.subs # {} => direct' \cup req.subs # {}
    <3>1. steady /\ ~late /\ profile' /\ direct \subseteq direct' /\ grouped \subseteq grouped'
      BY <2>1, <2>2, <2>4
    <3>2. seeded /\ direct \cup grouped # {}
      BY <3>1 DEF SteadyInv
    <3> QED
      BY <2>1, <3>1, <3>2
  <2>5. SteadyIsValid'
    BY <2>1, <2>4 DEF SteadyInv, SteadyIsValid
  <2> QED
    BY <2>1, <2>3, <2>4, <2>5 DEF SteadyInv
<1>2. ASSUME NEW f \in Flags, BuildAlone(f) PROVE SteadyInv'
  BY <1>2 DEF BuildAlone, First, SteadyInv, SteadyIsValid
<1>3. ASSUME NEW f \in Flags, ValidateConfig(f) PROVE SteadyInv'
  BY <1>0, <1>3 DEF ValidateConfig, First, Idle, SteadyInv, SteadyIsValid
<1>4. ASSUME NEW f \in Flags, ReadAgain(f) PROVE SteadyInv'
  BY <1>4 DEF ReadAgain, First, Idle, SteadyInv, SteadyIsValid
<1>5. CASE Preload
  <2>1. CASE LoadProxyGroups
    BY <1>0, <1>5, <2>1 DEF Preload, LoadProxyGroups, SteadyInv, SteadyIsValid
  <2>2. CASE LoadRules
    BY <1>0, <1>5, <2>2 DEF Preload, LoadRules, SteadyInv, SteadyIsValid
  <2>3. CASE LoadSubscriptionGroups
    BY <1>0, <1>5, <2>3 DEF Preload, LoadSubscriptionGroups, SteadyInv, SteadyIsValid
  <2> QED
    BY <1>5, <2>1, <2>2, <2>3 DEF Preload
<1>6. CASE Judge
  <2>1. /\ own'.rules = req.rules /\ own'.subs = (req.subs \cup direct # {})
        /\ req'.pc = "idle"
    BY <1>6 DEF Judge, Idle
  <2> QED
    BY <1>6, <2>1 DEF Judge, SteadyInv, SteadyIsValid
<1>7. ASSUME NEW rendered, Answer(rendered), UNCHANGED <<profile, seeded, direct, grouped, late>>,
             req'.pc = "idle", phase = "build", steady' \in BOOLEAN,
             steady' => steady, steady' /\ ~late => rendered = TRUE
      PROVE  SteadyInv'
  <2>1. phase' = "none" /\ report'.valid = Valid(own, rendered)
    BY <1>7 DEF Answer, Report
  <2>2. steady' /\ ~late => Valid(own, rendered)
    BY <1>7 DEF SteadyInv, Valid
  <2> QED
    BY <1>7, <2>1, <2>2 DEF SteadyInv, SteadyIsValid
<1>8. CASE ProfileNotFound
  <2>1. ~(steady /\ ~late) /\ steady' = steady /\ steady \in BOOLEAN
    BY <1>8 DEF ProfileNotFound, SteadyInv
  <2>2. /\ Answer(FALSE) /\ phase = "build" /\ req'.pc = "idle"
        /\ UNCHANGED <<profile, seeded, direct, grouped, late>>
    BY <1>8 DEF ProfileNotFound, vars
  <2>3. steady' \in BOOLEAN /\ (steady' => steady) /\ (steady' /\ ~late => FALSE = TRUE)
    BY <2>1
  <2> QED
    BY <1>7, <2>2, <2>3
<1>9. CASE LoadedSubscriptions
  <2>1. phase # "own" /\ req.pc = "subs" /\ UNCHANGED <<profile, seeded, direct, grouped, late>>
    BY <1>9 DEF LoadedSubscriptions, LoadSubscriptions
  <2>2. CASE phase = "build" /\ req'.pc = "idle"
    <3>1. req.subs \cup direct = {}
      BY <1>0, <1>9, <2>2 DEF LoadedSubscriptions, LoadSubscriptions
    <3>2. ~(steady /\ ~late) /\ steady \in BOOLEAN
      BY <2>1, <2>2, <3>1 DEF SteadyInv
    <3>3. Answer(FALSE) /\ steady' = steady
      BY <1>9, <2>2 DEF LoadedSubscriptions
    <3> QED
      BY <1>7, <2>1, <2>2, <3>2, <3>3
  <2>3. CASE ~(phase = "build" /\ req'.pc = "idle")
    <3>1. UNCHANGED <<phase, own, steady, report>>
      BY <1>9, <2>3 DEF LoadedSubscriptions
    <3>2. req'.pc \in {"idle", "nodes"}
      BY <1>0, <1>9 DEF LoadedSubscriptions, LoadSubscriptions, Idle
    <3> QED
      BY <2>1, <3>1, <3>2 DEF SteadyInv, SteadyIsValid
  <2> QED
    BY <2>2, <2>3
<1>10. ASSUME NEW nodes, BuiltAlone(nodes) PROVE SteadyInv'
  BY <1>10 DEF BuiltAlone, LoadNodes, Idle, SteadyInv, SteadyIsValid
<1>11. ASSUME NEW nodes, NEW rendered \in BOOLEAN, BuiltForReport(nodes, rendered) PROVE SteadyInv'
  <2>1. /\ Answer(rendered) /\ phase = "build" /\ req'.pc = "idle"
        /\ steady' = (steady /\ rendered)
        /\ UNCHANGED <<profile, seeded, direct, grouped, late>>
    BY <1>11 DEF BuiltForReport, LoadNodes, Idle
  <2>2. steady' \in BOOLEAN /\ (steady' => steady) /\ (steady' => rendered)
    BY <2>1
  <2> QED
    BY <1>7, <2>1, <2>2
<1>12. CASE RequestFails
  <2>1. phase' = "none" /\ steady' = FALSE
    BY <1>12 DEF RequestFails
  <2>2. phase' # "own" /\ ~(phase' # "none") /\ phase' # "build" /\ steady' \in BOOLEAN /\ ~steady'
    BY <2>1
  <2> QED
    BY <2>2 DEF SteadyInv, SteadyIsValid
<1>13. CASE BuildFails
  <2>1. Answer(FALSE) /\ phase = "build" /\ steady' = FALSE
    BY <1>13 DEF BuildFails
  <2>2. UNCHANGED <<profile, seeded, direct, grouped, late>> /\ req'.pc = "idle"
    <3>1. CASE req.pc = "idle" /\ UNCHANGED vars
      BY <3>1 DEF vars
    <3>2. CASE ReadFails
      BY <3>2 DEF ReadFails, Idle
    <3> QED
      BY <1>13, <3>1, <3>2 DEF BuildFails
  <2>3. steady' \in BOOLEAN /\ ~steady'
    BY <2>1
  <2> QED
    BY <1>7, <2>1, <2>2, <2>3
<1>14. CASE UNCHANGED valVars
  BY <1>14 DEF valVars, vars, SteadyInv, SteadyIsValid
<1> QED
  BY <1>1, <1>2, <1>3, <1>4, <1>5, <1>6, <1>8, <1>9, <1>10, <1>11, <1>12, <1>13, <1>14 DEF ValNext

\* A profile that had a subscription and loses nothing while it is validated is
\* reported valid, whatever is added to it between the statements, if neither
\* these nor the rendering fail.
THEOREM SteadyProfilesAreValid == ValSpec => []SteadyIsValid
<1>1. ValInit => SteadyInv
  BY DEF ValInit, SteadyInv, SteadyIsValid
<1>2. SteadyInv => SteadyIsValid
  BY DEF SteadyInv
<1> QED
  BY <1>1, <1>2, StepSteady, ConfigsHold, PTL DEF ValSpec

\* With validations beside the requests for configurations, all that is proved
\* of a configuration holds as well.
THEOREM ValidationsDisturbNothing ==
    ValSpec => [](NamesResolve /\ NoReferenceLoop /\ DeadEndsForeseen /\ ServedWhole)
<1>1. ConfigInv => NamesResolve /\ NoReferenceLoop /\ DeadEndsForeseen /\ ServedWhole
  BY DEF ConfigInv
<1> QED
  BY <1>1, ConfigsHold, PTL

-----------------------------------------------------------------------------
(* The report of a validation.                                             *)

\* A build that LoadNodes ends has returned a configuration.
LEMMA LoadNodesBuilds == ASSUME TypeOK, NEW nodes, LoadNodes(nodes) PROVE Built'
<1>1. req.flags \in Flags
  BY DEF LoadNodes, TypeOK, Build
<1> QED
  BY <1>1, ConfigsAssumption DEF LoadNodes, Built

\* There is no report while a build or a validation is under way, and one that
\* says valid was answered with the configuration that is there.
ReportInv ==
    /\ req.pc # "idle" \/ phase # "none" => report = None
    /\ report # None /\ report.valid => Built

LEMMA StepReport == ConfigInv /\ ReportInv /\ [ValNext]_valVars => ReportInv'
<1> SUFFICES ASSUME ConfigInv, ReportInv, [ValNext]_valVars PROVE ReportInv'
  OBVIOUS
<1>0. TypeOK /\ req \in Build
  BY DEF ConfigInv, TypeOK
<1>1. CASE UNCHANGED <<req, phase, report, config>>
  BY <1>1 DEF ReportInv, Built
<1>2. CASE Meanwhile
  <2>1. UNCHANGED <<req, phase, report, config>>
    BY <1>2 DEF Meanwhile, ReadToWrite, UpdateProfileSave, Append, Remove, DeleteProfileCommit
  <2> QED
    BY <2>1 DEF ReportInv, Built
<1>3. CASE report' = None
  BY <1>3 DEF ReportInv
<1>4. ASSUME NEW f \in Flags, BuildAlone(f) \/ ValidateConfig(f) \/ ReadAgain(f) PROVE ReportInv'
  <2>1. CASE ReadAgain(f)
    BY <2>1, <1>3 DEF ReadAgain, ReportInv
  <2> QED
    BY <1>3, <1>4, <2>1 DEF BuildAlone, ValidateConfig
<1>5. CASE Preload
  <2>1. req.pc # "idle"
    BY <1>5 DEF Preload, LoadProxyGroups, LoadRules, LoadSubscriptionGroups
  <2> QED
    BY <1>3, <1>5, <2>1 DEF Preload, ReportInv
<1>6. CASE Judge
  BY <1>3, <1>6 DEF Judge, ReportInv
<1>7. ASSUME Answer(FALSE), req'.pc = "idle" PROVE ReportInv'
  <2>1. phase' = "none" /\ report'.valid = Valid(own, FALSE)
    BY <1>7 DEF Answer, Report
  <2>2. ~Valid(own, FALSE)
    BY DEF Valid
  <2> QED
    BY <1>7, <2>1, <2>2 DEF ReportInv
<1>8. CASE ProfileNotFound
  BY <1>7, <1>8 DEF ProfileNotFound, vars
<1>9. CASE LoadedSubscriptions
  <2>1. req.pc = "subs"
    BY <1>9 DEF LoadedSubscriptions, LoadSubscriptions
  <2>2. CASE phase = "build" /\ req'.pc = "idle"
    BY <1>7, <1>9, <2>2 DEF LoadedSubscriptions
  <2>3. CASE ~(phase = "build" /\ req'.pc = "idle")
    BY <1>3, <1>9, <2>1, <2>3 DEF LoadedSubscriptions, ReportInv
  <2> QED
    BY <2>2, <2>3
<1>10. ASSUME NEW nodes, BuiltAlone(nodes) PROVE ReportInv'
  <2>1. req.pc = "nodes"
    BY <1>10 DEF BuiltAlone, LoadNodes
  <2> QED
    BY <1>3, <1>10, <2>1 DEF BuiltAlone, ReportInv
<1>11. ASSUME NEW nodes, NEW rendered, BuiltForReport(nodes, rendered) PROVE ReportInv'
  <2>1. Built'
    BY <1>0, <1>11, LoadNodesBuilds DEF BuiltForReport
  <2>2. req'.pc = "idle" /\ phase' = "none"
    BY <1>11 DEF BuiltForReport, LoadNodes, Answer, Idle
  <2> QED
    BY <2>1, <2>2 DEF ReportInv
<1>12. CASE RequestFails
  <2>1. req.pc # "idle" /\ report' = report
    BY <1>12 DEF RequestFails, ReadFails
  <2> QED
    BY <1>3, <2>1 DEF ReportInv
<1>13. CASE BuildFails
  <2>1. Answer(FALSE)
    BY <1>13 DEF BuildFails
  <2>2. CASE req.pc = "idle" /\ UNCHANGED vars
    BY <1>7, <2>1, <2>2 DEF vars
  <2>3. CASE ReadFails
    BY <1>7, <2>1, <2>3 DEF ReadFails, Idle
  <2> QED
    BY <1>13, <2>2, <2>3 DEF BuildFails
<1> QED
  BY <1>1, <1>2, <1>4, <1>5, <1>6, <1>8, <1>9, <1>10, <1>11, <1>12, <1>13 DEF ValNext, valVars, vars

\* A profile that is reported valid was built into a configuration, with all
\* its stored rules and groups unless it was deleted and revived meanwhile.
THEOREM ValidProfilesAreServed == ValSpec => []ValidIsServed
<1>1. ValInit => ReportInv
  BY DEF ValInit, Init, Idle, ReportInv
<1>2. ConfigInv /\ ReportInv => ValidIsServed
  BY DEF ConfigInv, ReportInv, ServedWhole, ValidIsServed
<1> QED
  BY <1>1, <1>2, StepReport, ConfigsHold, PTL DEF ValSpec

\* Of the targets of stored rules, the validator finds none undefined but those
\* it reads together with an option.
LEMMA OnlyOptionsUndefined ==
    ASSUME NEW read
    PROVE  Undefined(read) \subseteq {Optioned(t) : t \in WithOption}
<1>1. DefaultRuleTargets \subseteq Builtins \cup GroupNames(DefaultProxyGroups)
  <2>1. \A s \in FixedNames : PG(s) \in GroupNames(DefaultProxyGroups)
    BY StoredFixedNames
  <2>2. DefaultRuleTargets \subseteq Known(DefaultProxyGroups, {})
    BY <2>1, RulesResolve
  <2> QED
    BY <2>2 DEF Known
<1>2. DefinedGroupNames(DefaultProxyGroups) = GroupNames(DefaultProxyGroups)
  BY DEF DefinedGroupNames, GroupNames
<1> QED
  BY <1>1, <1>2 DEF Undefined, RuleTargetsRead

\* No rule of a profile is said to name an unknown group but those with an
\* option after the name.
THEOREM OnlyOptionsAreWarnedOf == ValSpec => []OnlyOptionsWarned
<1>1. ValInit => OnlyOptionsWarned
  BY DEF ValInit, OnlyOptionsWarned
<1>2. OnlyOptionsWarned /\ [ValNext]_valVars => OnlyOptionsWarned'
  <2> SUFFICES ASSUME OnlyOptionsWarned, [ValNext]_valVars PROVE OnlyOptionsWarned'
    OBVIOUS
  <2>1. CASE report' \in {report, None}
    BY <2>1 DEF OnlyOptionsWarned
  <2>2. ASSUME NEW built, Answer(built) PROVE OnlyOptionsWarned'
    <3>1. report'.undefined = Undefined(own)
      BY <2>2 DEF Answer, Report
    <3> QED
      BY <3>1, OnlyOptionsUndefined DEF OnlyOptionsWarned
  <2> QED
    BY <2>1, <2>2 DEF ValNext, Meanwhile, BuildAlone, ValidateConfig, ReadAgain, Preload, Judge,
       RequestFails, BuildFails, ProfileNotFound, LoadedSubscriptions, BuiltAlone, BuiltForReport, valVars
<1> QED
  BY <1>1, <1>2, PTL DEF ValSpec
=============================================================================
