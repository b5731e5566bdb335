------------------------------- MODULE Configs -------------------------------
(***************************************************************************)
(* Building a configuration from one profile of config-hub: BuildConfig    *)
(* reads the profile, its proxy groups, its rules, the subscriptions       *)
(* attached to it and their nodes in statements of their own, while other  *)
(* requests change, delete or revive the profile; what it read is turned   *)
(* into proxy groups that refer to one another and to the nodes by name.   *)
(*                                                                         *)
(* A configuration is kept as sets: the order of a list is left out.  Node *)
(* names are taken to differ from the names of groups, and the nodes of    *)
(* one subscription to differ in their names.                              *)
(*                                                                         *)
(* Sources: service/profile_builder.go, service/node_matcher.go,           *)
(* seed/proxy_groups.go, seed/rules.go.                                    *)
(***************************************************************************)
EXTENDS Integers, FiniteSets

CONSTANTS
    Subs,          \* subscriptions, attached to the profile or not
    Names,         \* node names
    Countries,     \* seed.CountriesMeta
    CountryOf,     \* MatchCountry: the first country whose pattern matches
    CountryNames,  \* by country, the names its own pattern matches
    LandingNames,  \* names that match the landing pattern
    LowCostNames,  \* names that match the low-cost pattern
    Thresholds,    \* values of the profile's threshold
    None

\* The settings of a profile that its proxy groups depend on.
Flags == [landing : BOOLEAN, regex : BOOLEAN, threshold : Thresholds]

ASSUME ConfigsAssumption ==
    /\ {"HK", "TW", "US"} \subseteq Countries
    /\ CountryOf \in [Names -> Countries \cup {None}]
    /\ CountryNames \in [Countries -> SUBSET Names]
    /\ \A n \in Names, c \in Countries : CountryOf[n] = c => n \in CountryNames[c]
    /\ None \notin Countries \cup Flags
    /\ LandingNames \subseteq Names /\ LowCostNames \subseteq Names
    /\ Thresholds \subseteq Nat
    /\ IsFiniteSet(Subs) /\ IsFiniteSet(Names)

\* Everything a proxy group may list, each kind with a tag of its own.
PG(name) == <<"group", name>>
CountryGroup(c) == <<"country", c>>
NodeRef(n) == <<"node", n>>
DIRECT == <<"builtin", "DIRECT">>
REJECT == <<"builtin", "REJECT">>
REJECT_DROP == <<"builtin", "REJECT-DROP">>
Builtins == {DIRECT, REJECT, REJECT_DROP}

\* A proxy group: the names it lists, whether it has include-all, and the names
\* of nodes that its filter and exclude-filter then let in.
Group(name, refs) == [name |-> name, refs |-> refs, all |-> FALSE, filter |-> {}]
IncludeAll(name, refs, filter) == [name |-> name, refs |-> refs, all |-> TRUE, filter |-> filter]

\* Groups that offer the default list whatever the nodes are.
Services == {"StaticResources", "AIService", "Crypto", "Apple", "Google", "Microsoft", "Xbox", "Github",
             "Youtube", "Twitch", "Netflix", "TikTok", "Spotify", "Telegram", "Twitter", "EHentai",
             "PikPak", "SSH"}

-----------------------------------------------------------------------------
(* Pure functions: a node is <<subscription, name>>.                       *)

NodesIn(nodes, c) == {n \in nodes : CountryOf[n[2]] = c}

\* getSortedFilteredCountries: countries with a node, and enough of them.
FilteredCountries(f, nodes) ==
    {c \in Countries : NodesIn(nodes, c) # {} /\ (f.threshold > 0 => Cardinality(NodesIn(nodes, c)) >= f.threshold)}

CountryGroupNames(f, nodes) == {CountryGroup(c) : c \in FilteredCountries(f, nodes)}
HasLowCost(f, nodes) == f.regex \/ \E n \in nodes : n[2] \in LowCostNames

\* landingPart, countryGroupNames and lowCostPart of buildSelectorLists.
LandingPart(f) == IF f.landing THEN {PG("Landing")} ELSE {}
\* Mutant: the low-cost group is offered whether or not it is built.
LowCostAlways(f, nodes) == {PG("LowCost")}
LowCostPart(f, nodes) == IF HasLowCost(f, nodes) THEN {PG("LowCost")} ELSE {}
CommonPart(f, nodes) == LandingPart(f) \cup CountryGroupNames(f, nodes) \cup LowCostPart(f, nodes)

DefaultSelector(f, nodes) == {PG("Auto"), PG("Fallback"), PG("Manual"), DIRECT} \cup CommonPart(f, nodes)
DefaultProxies(f, nodes) == {PG("Select"), PG("Manual"), DIRECT} \cup CommonPart(f, nodes)
\* Mutant: the automatic groups are given the list of the service groups.
FallbackAsDefault(f, nodes) == DefaultProxies(f, nodes)
DefaultFallback(f, nodes) == LandingPart(f) \cup CountryGroupNames(f, nodes)
FrontProxySelector(f, nodes) ==
    CountryGroupNames(f, nodes) \cup {DIRECT}
        \cup (IF f.regex THEN {} ELSE {NodeRef(n[2]) : n \in {m \in nodes : m[2] \notin LandingNames}})

\* A group of nodes: listed by name, or left to the client with a filter.
NodeGroup(name, f, nodes, filter) ==
    IF f.regex THEN IncludeAll(name, {}, filter) ELSE Group(name, {NodeRef(n[2]) : n \in nodes})

\* The country's pattern, and with a landing group the pattern of its nodes to
\* exclude.
CountryFilter(f, c) == IF f.landing THEN CountryNames[c] \ LandingNames ELSE CountryNames[c]

BuildCountryGroups(f, nodes) ==
    {NodeGroup(CountryGroup(c), f, NodesIn(nodes, c), CountryFilter(f, c)) : c \in FilteredCountries(f, nodes)}

\* Three groups prefer the groups of some countries, where those are built.
Has(f, nodes, countries) == countries \subseteq FilteredCountries(f, nodes)
BilibiliProxies(f, nodes) ==
    IF Has(f, nodes, {"TW", "HK"}) THEN {DIRECT, CountryGroup("TW"), CountryGroup("HK")} ELSE DefaultProxies(f, nodes)
BahamutProxies(f, nodes) ==
    IF Has(f, nodes, {"TW"}) THEN {CountryGroup("TW"), PG("Select"), PG("Manual"), DIRECT} ELSE DefaultProxies(f, nodes)
TruthSocialProxies(f, nodes) ==
    IF Has(f, nodes, {"US"}) THEN {CountryGroup("US"), PG("Select"), PG("Manual")} ELSE DefaultProxies(f, nodes)

\* buildProxyGroups' groups that are there in every configuration.
FixedGroups(f, nodes) ==
    {Group(PG("Select"), DefaultSelector(f, nodes)),
     IncludeAll(PG("Manual"), {}, Names),
     Group(PG("Bilibili"), BilibiliProxies(f, nodes)),
     Group(PG("Bahamut"), BahamutProxies(f, nodes)),
     IncludeAll(PG("Weibo"), DefaultProxies(f, nodes), Names),
     Group(PG("TruthSocial"), TruthSocialProxies(f, nodes)),
     Group(PG("SogouInput"), {DIRECT, REJECT}),
     Group(PG("Final"), {PG("Select"), DIRECT}),
     Group(PG("Auto"), DefaultFallback(f, nodes)),
     Group(PG("Fallback"), DefaultFallback(f, nodes)),
     Group(PG("AdBlock"), Builtins)}
    \cup {Group(PG(s), DefaultProxies(f, nodes)) : s \in Services}

FrontProxyGroup(f, nodes) ==
    IF f.regex THEN IncludeAll(PG("FrontProxy"), FrontProxySelector(f, nodes), Names \ LandingNames)
               ELSE Group(PG("FrontProxy"), FrontProxySelector(f, nodes))

LandingGroups(f, nodes) ==
    IF f.landing
      THEN {FrontProxyGroup(f, nodes),
            NodeGroup(PG("Landing"), f, {n \in nodes : n[2] \in LandingNames}, LandingNames)}
      ELSE {}

LowCostGroups(f, nodes) ==
    IF HasLowCost(f, nodes)
      THEN {NodeGroup(PG("LowCost"), f, {n \in nodes : n[2] \in LowCostNames}, LowCostNames)}
      ELSE {}

BuildProxyGroups(f, nodes) ==
    FixedGroups(f, nodes) \cup LandingGroups(f, nodes) \cup LowCostGroups(f, nodes) \cup BuildCountryGroups(f, nodes)

\* The groups stored with every new profile.
DefaultProxyGroups ==
    LET listed == {PG("Select"), PG("Manual"), DIRECT}
        everyCountry == {CountryGroup(c) : c \in Countries} IN
    {Group(PG("Select"), {PG("Auto"), PG("Fallback"), PG("Manual")}),
     IncludeAll(PG("Manual"), {}, Names),
     IncludeAll(PG("Weibo"), listed, Names),
     Group(PG("SogouInput"), {DIRECT, REJECT}),
     Group(PG("Final"), {PG("Select"), DIRECT}),
     Group(PG("Auto"), everyCountry),
     Group(PG("Fallback"), everyCountry),
     Group(PG("AdBlock"), Builtins),
     IncludeAll(PG("LowCost"), {}, LowCostNames)}
    \cup {Group(PG(s), listed) : s \in Services \cup {"Bilibili", "Bahamut", "TruthSocial"}}
    \cup {IncludeAll(CountryGroup(c), {}, CountryNames[c]) : c \in Countries}

\* Mutant: include-all is not copied, and without it a filter is void.
IncludeAllNotCopied(stored) ==
    {[name |-> g.name, refs |-> IF g.all THEN {} ELSE g.refs, all |-> FALSE, filter |-> {}] : g \in stored}

\* Stored lists are left out of a group that has include-all.
BuildProxyGroupsFromDB(stored) ==
    {[name |-> g.name, refs |-> IF g.all THEN {} ELSE g.refs, all |-> g.all, filter |-> g.filter] : g \in stored}

\* The targets of the rules stored with every new profile.
DefaultRuleTargets ==
    {DIRECT} \cup {PG(g) : g \in {"Select", "Final", "AdBlock", "SogouInput", "TruthSocial", "Bilibili", "Bahamut", "Weibo"}
                               \cup Services}

-----------------------------------------------------------------------------

VARIABLES
    profile,   \* whether the profile's row exists
    seeded,    \* whether its stored groups and rules exist
    direct,    \* subscriptions attached to it
    grouped,   \* subscriptions of the subscription groups attached to it
    pending,   \* requests that read the profile and are still to write to it
    late,      \* whether one of them wrote when the profile was deleted
    req,       \* the BuildConfig under way
    config     \* what the last BuildConfig returned

vars == <<profile, seeded, direct, grouped, pending, late, req, config>>

NoConfig == [proxies |-> {}, groups |-> {}, rules |-> {}, flags |-> None]

PCs == {"idle", "groups", "rules", "subgroups", "subs", "nodes"}
Build == [pc : PCs, flags : Flags \cup {None}, groups : BOOLEAN, rules : BOOLEAN, subs : SUBSET Subs]
Idle == [pc |-> "idle", flags |-> None, groups |-> FALSE, rules |-> FALSE, subs |-> {}]

-----------------------------------------------------------------------------
(* Requests that change the profile.                                       *)

\* UpdateProfile, AddSubscriptionToProfile or AddSubscriptionGroupToProfile.
ReadToWrite(kind) ==
    /\ profile
    /\ kind \notin pending
    /\ pending' = pending \cup {kind}
    /\ UNCHANGED <<profile, seeded, direct, grouped, late, req, config>>

\* Save inserts the row again, without groups and rules, when it was deleted.
UpdateProfileSave ==
    /\ "update" \in pending
    /\ pending' = pending \ {"update"}
    /\ profile' = TRUE
    /\ late' = (late \/ ~profile)
    /\ UNCHANGED <<seeded, direct, grouped, req, config>>

\* The link is stored when no foreign key stops it, or the request fails.
Append(d, g) ==
    /\ "attach" \in pending
    /\ pending' = pending \ {"attach"}
    /\ direct' = direct \cup d
    /\ grouped' = grouped \cup g
    /\ late' = (late \/ ~profile)
    /\ UNCHANGED <<profile, seeded, req, config>>

\* Subscriptions and groups are detached from the profile, or subscriptions
\* removed from a group that is attached to it.
Remove(s) ==
    /\ \/ direct' = direct \ {s} /\ UNCHANGED grouped
       \/ grouped' = grouped \ {s} /\ UNCHANGED direct
    /\ UNCHANGED <<profile, seeded, pending, late, req, config>>

\* One transaction deletes the row, its groups, its rules and its links.
DeleteProfileCommit ==
    /\ profile
    /\ profile' = FALSE
    /\ seeded' = FALSE
    /\ direct' = {}
    /\ grouped' = {}
    /\ UNCHANGED <<pending, late, req, config>>

-----------------------------------------------------------------------------
(* BuildConfig.  GORM reads what is preloaded in the order of the names:   *)
(* ProxyGroups, Rules, SubscriptionGroups, Subscriptions.                  *)

\* The flags are those that the last update stored: any of them.
First(f) ==
    /\ req.pc = "idle"
    /\ profile
    /\ req' = [Idle EXCEPT !.pc = "groups", !.flags = f]
    /\ config' = NoConfig
    /\ UNCHANGED <<profile, seeded, direct, grouped, pending, late>>

LoadProxyGroups ==
    /\ req.pc = "groups"
    /\ req' = [req EXCEPT !.pc = "rules", !.groups = seeded]
    /\ UNCHANGED <<profile, seeded, direct, grouped, pending, late, config>>

LoadRules ==
    /\ req.pc = "rules"
    /\ req' = [req EXCEPT !.pc = "subgroups", !.rules = seeded]
    /\ UNCHANGED <<profile, seeded, direct, grouped, pending, late, config>>

LoadSubscriptionGroups ==
    /\ req.pc = "subgroups"
    /\ req' = [req EXCEPT !.pc = "subs", !.subs = grouped]
    /\ UNCHANGED <<profile, seeded, direct, grouped, pending, late, config>>

\* Mutant: a profile without subscriptions is built all the same.
LoadSubscriptionsUnchecked ==
    /\ req.pc = "subs"
    /\ req' = [req EXCEPT !.pc = "nodes", !.subs = @ \cup direct]
    /\ UNCHANGED <<profile, seeded, direct, grouped, pending, late, config>>

\* Without a subscription it fails: "profile has no subscriptions".
LoadSubscriptions ==
    LET subs == req.subs \cup direct IN
    /\ req.pc = "subs"
    /\ req' = IF subs = {} THEN Idle ELSE [req EXCEPT !.pc = "nodes", !.subs = subs]
    /\ UNCHANGED <<profile, seeded, direct, grouped, pending, late, config>>

ProxyGroups(nodes) ==
    IF req.groups THEN BuildProxyGroupsFromDB(DefaultProxyGroups) ELSE BuildProxyGroups(req.flags, nodes)

\* Any statement after the first fails: BuildConfig returns the error.
ReadFails ==
    /\ req.pc # "idle"
    /\ req' = Idle
    /\ UNCHANGED <<profile, seeded, direct, grouped, pending, late, config>>

\* The subscriptions' nodes are loaded: refreshes may have stored any of them.
LoadNodes(nodes) ==
    /\ req.pc = "nodes"
    /\ nodes \subseteq req.subs \X Names
    /\ config' = [proxies |-> {n[2] : n \in nodes},
                  groups |-> ProxyGroups(nodes),
                  rules |-> IF req.rules THEN DefaultRuleTargets ELSE {},
                  flags |-> req.flags]
    /\ req' = Idle
    /\ UNCHANGED <<profile, seeded, direct, grouped, pending, late>>

-----------------------------------------------------------------------------

\* The profile was created, with its groups and rules, and nothing attached.
Init ==
    /\ profile = TRUE
    /\ seeded = TRUE
    /\ direct = {}
    /\ grouped = {}
    /\ pending = {}
    /\ late = FALSE
    /\ req = Idle
    /\ config = NoConfig

Next ==
    \/ \E kind \in {"update", "attach"} : ReadToWrite(kind)
    \/ UpdateProfileSave
    \/ \E s \in Subs : Append({s}, {}) \/ Append({}, {s})
    \/ \E s \in Subs : Remove(s)
    \/ DeleteProfileCommit
    \/ \E f \in Flags : First(f)
    \/ LoadProxyGroups
    \/ LoadRules
    \/ LoadSubscriptionGroups
    \/ LoadSubscriptions
    \/ ReadFails
    \/ \E nodes \in SUBSET (req.subs \X Names) : LoadNodes(nodes)

Spec == Init /\ [][Next]_vars

-----------------------------------------------------------------------------
(* Properties.                                                             *)

TypeOK ==
    /\ {profile, seeded, late} \subseteq BOOLEAN
    /\ direct \subseteq Subs /\ grouped \subseteq Subs
    /\ pending \subseteq {"update", "attach"}
    /\ req \in Build
    /\ req.pc = "idle" <=> req.flags = None
    /\ req.pc = "nodes" => req.subs # {}

Built == config.flags # None
GroupNames(groups) == {g.name : g \in groups}

\* What may be named in a configuration with these groups and nodes.
Known(groups, proxies) == Builtins \cup GroupNames(groups) \cup {NodeRef(n) : n \in proxies}

\* Whatever a group lists or a rule names is in the same configuration: a
\* builtin, a group or a node.  The lists, the groups that are built, the
\* threshold and the stored rules are worked out in different places.
NamesResolve ==
    Built =>
        /\ \A g \in config.groups : g.refs \subseteq Known(config.groups, config.proxies)
        /\ config.rules \subseteq Known(config.groups, config.proxies)

\* The groups that list one of the groups.
Referring(groups) == {g \in groups : \E h \in groups : h.name \in g.refs}

\* No group leads back to itself: a client refuses a configuration with a loop.
\* Indeed no path of references is longer than three.
NoReferenceLoop == Built => Referring(Referring(Referring(Referring(config.groups)))) = {}

\* A configuration built while the profile is deleted is complete or is not
\* built at all: it never has the groups without the rules or the reverse.
ServedWhole ==
    Built /\ ~late =>
        /\ config.rules = DefaultRuleTargets
        /\ GroupNames(config.groups) = GroupNames(DefaultProxyGroups)

\* What a group of a configuration offers: the names it lists, the nodes it includes.
Choices(conf, g) == g.refs \cup {NodeRef(n) : n \in g.filter \cap conf.proxies}

\* The names, and the groups that offer one of them.
Offering(conf, names) == names \cup {g.name : g \in {h \in conf.groups : Choices(conf, h) \cap names # {}}}

\* From these a builtin or a node is reached, as no path of references is longer.
LeadingOn(conf) ==
    LET ends == Builtins \cup {NodeRef(n) : n \in conf.proxies} IN
    Offering(conf, Offering(conf, Offering(conf, Offering(conf, ends))))

LandingOffered(conf) == PG("Landing") \in GroupNames(conf.groups)

\* The filters let no node into the group of the country.
NoNodeFor(conf, c) ==
    conf.proxies \cap CountryNames[c]
        \subseteq IF LandingOffered(conf) /\ conf.flags.regex THEN LandingNames ELSE {}

\* The groups that may lead nowhere, each with what the nodes lack for it.
Barren(conf, name) ==
    \/ name \in {PG("Select"), PG("Manual"), PG("Weibo")} /\ conf.proxies = {}
    \/ name = PG("LowCost") /\ conf.proxies \cap LowCostNames = {}
    \/ name = PG("Landing") /\ conf.proxies \cap LandingNames = {}
    \/ \E c \in Countries : name = CountryGroup(c) /\ NoNodeFor(conf, c)
    \/ /\ name \in {PG("Auto"), PG("Fallback")}
       /\ \A c \in Countries : CountryGroup(c) \in GroupNames(conf.groups) => NoNodeFor(conf, c)
       /\ LandingOffered(conf) => conf.proxies \cap LandingNames = {}

\* Whatever a client picks, group after group, it comes to a node or a builtin,
\* except where the nodes of the subscriptions leave a group nothing: a country
\* without a node, no cheap or landing node, no node for the automatic groups,
\* and no node at all for Manual, Select and Weibo.  A stored list dropped for
\* include-all, a filter, the threshold or the choice of the countries never
\* make a dead end of any other group.
DeadEndsForeseen ==
    Built => \A name \in GroupNames(config.groups) \ LeadingOn(config) : Barren(config, name)
=============================================================================
