------------------------------ MODULE Catalog ------------------------------
(***************************************************************************)
(* The model catalog (src/catalog), for one canonical id.  Its row and its *)
(* price are written by catalog passes (discovery at the provider, docs    *)
(* scrape or live price feed, then the vendored feed's sync), several of   *)
(* which may overlap (nightly, on connection, from the console), by the    *)
(* operator's edits, by capability probes and by retirement.  Passes work  *)
(* on rows they read earlier.  The ids of a catalog do not affect each     *)
(* other: every step of a pass is for the row of one id.                   *)
(*                                                                         *)
(* Context window and output cap are one value, ctx: each is filled while  *)
(* it is a placeholder and left alone by feeds that publish none.  Of a    *)
(* price history the latest row counts; reading it and appending to it is  *)
(* one step, for a row appended in between only makes the append moot.     *)
(***************************************************************************)
EXTENDS Integers, Sequences, FiniteSets

CONSTANTS
    Worlds,      \* what the feeds and the provider say of the id, see World
    Caps,        \* capability keys
    Passes,      \* catalog passes that may overlap
    MaxEvents    \* bound, by kind: operator's edits, failures and releases

Kinds == {"digitalocean", "anthropic", "local_ocr"}

None == [id |-> "absent"]
Placeholder == 1    \* DISCOVERED_CONTEXT_WINDOW
ByOperator == 9     \* a value the operator enters: a context window, or a price

\* Bare and namespaced are the raw entries of a feed for the id, under both
\* keys; a feed without a context window has ctx = 0, without prices price = 0.
Entry == [ctx : 0..5, caps : SUBSET Caps, price : 0..5]
RawFeed == [bare : Entry \cup {None}, namespaced : Entry \cup {None}]
World == [kind : Kinds, third : BOOLEAN, feeds : Seq(RawFeed),
          served : {None} \cup [ctx : 1..5, caps : SUBSET Caps],
          docs : {None} \cup Entry, live : {None} \cup Entry]

ASSUME CatalogAssumption ==
    "json" \in Caps /\ MaxEvents \in [Kinds -> Nat] /\ Worlds \subseteq World

VARIABLES
    world,      \* the world, chosen once
    release,    \* the router's release: which of its feeds is vendored
    model,      \* the row of the id
    price,      \* its latest price, 0: cost unknown
    pass,       \* pass -> its stage, and the row as it read it
    bound,      \* how a policy binds the model: "no", "default", "fallback"
    saving,     \* savePolicy() has read the catalog and will write this binding
    probe,      \* the row a capability probe started from, or NoModel
    retiring,   \* retireCustomModel(): "no", or what it has decided
    warned,     \* the last alerts warned about the bound model
    byHand,     \* history: capped capabilities the operator has switched on
    raced,      \* history: a binding was read or written while a retirement ran
    events

catalogVars == <<world, release, model, price, pass, bound, saving, probe, retiring, warned, byHand, raced, events>>
console == <<bound, saving, probe, retiring, byHand, raced>>

NoOverride == [c \in Caps |-> "unset"]
NoModel == [source |-> "none", status |-> "active", ctx |-> 0, caps |-> {}, over |-> NoOverride, third |-> FALSE]
Done == [at |-> "idle", snap |-> NoModel, read |-> FALSE]

CatalogTypeOK ==
    /\ world \in Worlds /\ release \in DOMAIN world.feeds
    /\ model.source \in {"none", "synced", "provider", "custom"}
    /\ model.status \in {"active", "deprecated", "sunset"}
    /\ model.ctx \in 0..ByOperator /\ price \in 0..ByOperator
    /\ \A p \in Passes : pass[p].at \in {"idle", "discover", "docs", "live", "sync", "vanish", "alerts"}
    /\ bound \in {"no", "default", "fallback"} /\ saving \in {"none", "no", "default", "fallback"}
    /\ retiring \in {"no", "sunset", "delete"}
    /\ model.source = "none" => price = 0

CatalogInit ==
    /\ world \in Worlds /\ release = 1
    /\ model = NoModel /\ price = 0
    /\ pass = [p \in Passes |-> Done]
    /\ bound = "no" /\ saving = "none" /\ probe = NoModel /\ retiring = "no"
    /\ warned = FALSE /\ byHand = {} /\ raced = FALSE /\ events = 0

\* KIND_CAPABILITY_CEILING of the id's kind.
Ceiling == IF world.kind = "local_ocr" THEN Caps \cap {"json", "tools"} ELSE {}

InCatalog == model.source # "none"
Event == events < MaxEvents[world.kind] /\ events' = events + 1

-----------------------------------------------------------------------------
\* parseFeed(): junk is dropped, the namespaced key wins.
Carries(e) == e # None /\ (e.ctx # 0 \/ e.caps # {} \/ e.price # 0)
ParseFeed(f) == IF Carries(f.namespaced) THEN f.namespaced ELSE IF Carries(f.bare) THEN f.bare ELSE None

Feed == ParseFeed(world.feeds[release])
\* loadCuratedIds(): the feed carries the id, creatable or enrich-only.
Curated == Feed # None

\* appendPricingIfChanged(): the latest price after p was offered.
Priced(p) == IF p = 0 THEN price ELSE p

\* Capabilities are added and specs filled, if the row as it was read lacks
\* them.
Refreshed(row, snap, e) ==
    [row EXCEPT !.caps = IF e.caps \subseteq snap.caps THEN @ ELSE snap.caps \cup e.caps,
                !.ctx = IF snap.ctx = Placeholder /\ e.ctx # 0 THEN e.ctx ELSE @]

Stage(p, at) == pass' = [pass EXCEPT ![p] = [at |-> at, snap |-> NoModel, read |-> FALSE]]
\* No feed knows ids of a local kind.
Stages == [digitalocean |-> {"discover", "docs", "sync"}, anthropic |-> {"discover", "sync"}, local_ocr |-> {}]

\* runCatalogSync() begins with the live refresh; without a vault, or for the
\* console's single steps, with a later stage.
PassBegins(p, at) ==
    /\ pass[p].at = "idle"
    /\ at \in Stages[world.kind]
    /\ Stage(p, at)
    /\ UNCHANGED <<world, release, model, price, warned, events>> /\ UNCHANGED console

\* The stage reads the catalog: models.findMany() once, or the row.
PassReads(p) ==
    /\ pass[p].at \in {"discover", "docs", "live", "sync"} /\ ~ pass[p].read
    /\ pass' = [pass EXCEPT ![p].snap = model, ![p].read = TRUE]
    /\ UNCHANGED <<world, release, model, price, warned, events>> /\ UNCHANGED console

At(p, stage) == pass[p].at = stage /\ pass[p].read

\* planDiscovery(), from the catalog as it was read.
PlanDiscovery(snap) ==
    IF world.served = None THEN "unserved" ELSE IF snap = NoModel THEN "insert" ELSE "known"

\* discoverDigitalOceanModels(): insert or nothing; a known row is re-tagged.
DiscoverDigitalOcean(p) ==
    /\ At(p, "discover") /\ world.kind = "digitalocean"
    /\ model' = CASE PlanDiscovery(pass[p].snap) = "insert" /\ ~ InCatalog ->
                        [NoModel EXCEPT !.source = "provider", !.ctx = Placeholder,
                                        !.caps = {"json"}, !.third = world.third]
                  [] PlanDiscovery(pass[p].snap) = "known" /\ InCatalog -> [model EXCEPT !.third = @ \/ world.third]
                  [] OTHER -> model
    /\ Stage(p, "docs")
    /\ UNCHANGED <<world, release, price, warned, events>> /\ UNCHANGED console

\* discoverAnthropicModels(): ids of the feed are left to its sync; only rows
\* of discovery are refreshed.
DiscoverAnthropic(p) ==
    /\ At(p, "discover") /\ world.kind = "anthropic"
    /\ LET snap == pass[p].snap IN
       model' = IF world.served = None \/ Curated THEN model
                ELSE IF snap = NoModel
                     THEN IF InCatalog THEN model
                          ELSE [NoModel EXCEPT !.source = "provider", !.ctx = world.served.ctx,
                                             !.caps = world.served.caps]
                     ELSE IF snap.source = "provider" THEN Refreshed(model, snap, world.served) ELSE model
    /\ Stage(p, "live")
    /\ UNCHANGED <<world, release, price, warned, events>> /\ UNCHANGED console

\* Mutant: rows the vendored feed carries are priced too.
ScrapesCurated(p) ==
    LET e == world.docs IN
    /\ At(p, "docs")
    /\ IF pass[p].snap.source = "provider" /\ e # None
       THEN model' = Refreshed(model, pass[p].snap, e) /\ price' = Priced(e.price)
       ELSE UNCHANGED <<model, price>>
    /\ Stage(p, "live")
    /\ UNCHANGED <<world, release, warned, events>> /\ UNCHANGED console

\* Mutant: specs are filled whatever they are.
ScrapeOverwrites(p) ==
    LET e == world.docs IN
    /\ At(p, "docs")
    /\ IF pass[p].snap.source = "provider" /\ ~ Curated /\ e # None
       THEN model' = [model EXCEPT !.ctx = IF e.ctx # 0 THEN e.ctx ELSE @] /\ price' = Priced(e.price)
       ELSE UNCHANGED <<model, price>>
    /\ Stage(p, "live")
    /\ UNCHANGED <<world, release, warned, events>> /\ UNCHANGED console

\* applyScrapedToCatalog(): discovered rows that the feed does not carry.
ApplyScraped(p) ==
    LET e == world.docs IN
    /\ At(p, "docs")
    /\ IF pass[p].snap.source = "provider" /\ ~ Curated /\ e # None
       THEN model' = Refreshed(model, pass[p].snap, e) /\ price' = Priced(e.price)
       ELSE UNCHANGED <<model, price>>
    /\ Stage(p, "live")
    /\ UNCHANGED <<world, release, warned, events>> /\ UNCHANGED console

\* applyLivePricing(): the same rows; the feed must have the row's kind.
ApplyLivePricing(p) ==
    LET e == world.live IN
    /\ At(p, "live")
    /\ IF pass[p].snap.source = "provider" /\ ~ Curated /\ e # None
       THEN /\ model' = [model EXCEPT !.ctx = IF pass[p].snap.ctx = Placeholder /\ e.ctx # 0 THEN e.ctx ELSE @]
            /\ price' = Priced(e.price)
       ELSE UNCHANGED <<model, price>>
    /\ Stage(p, "sync")
    /\ UNCHANGED <<world, release, warned, events>> /\ UNCHANGED console

\* The row syncOneModel() makes of the present row, its snapshot s and the
\* feed's entry e: inserted, or updated if anything differs.
Synced(s, e) ==
    IF s.source = "custom" \/ e = None THEN model
    ELSE IF s = NoModel
    THEN IF e.ctx = 0 THEN model
         ELSE IF InCatalog THEN [model EXCEPT !.ctx = e.ctx]
         ELSE [NoModel EXCEPT !.source = "synced", !.ctx = e.ctx, !.caps = e.caps]
    ELSE LET ctx == IF e.ctx = 0 THEN s.ctx ELSE e.ctx
         IN  IF s.ctx = ctx /\ s.caps = e.caps /\ s.status # "deprecated" THEN model
             ELSE [model EXCEPT !.ctx = ctx, !.caps = e.caps, !.status = "active"]

SyncPrices(s, e) == e # None /\ s.source # "custom" /\ (s # NoModel \/ e.ctx # 0)

\* syncCatalog(), its loop: the entry of this id.
SyncOneModel(p) ==
    LET s == pass[p].snap IN
    /\ At(p, "sync")
    /\ model' = Synced(s, Feed)
    /\ price' = IF SyncPrices(s, Feed) THEN Priced(Feed.price) ELSE price
    /\ pass' = [pass EXCEPT ![p].at = "vanish"]
    /\ UNCHANGED <<world, release, warned, events>> /\ UNCHANGED console

\* Mutant: a model that left the feed is deprecated only if it is unused.
SyncVanishedUnused(p) ==
    LET s == pass[p].snap IN
    /\ pass[p].at = "vanish"
    /\ model' = IF s.source = "synced" /\ s.status = "active" /\ Feed = None /\ bound = "no"
                THEN [model EXCEPT !.status = "deprecated"] ELSE model
    /\ Stage(p, "alerts")
    /\ UNCHANGED <<world, release, price, warned, events>> /\ UNCHANGED console

\* ... and its end: synced rows missing from the feed are flagged.
SyncVanished(p) ==
    LET s == pass[p].snap IN
    /\ pass[p].at = "vanish"
    /\ model' = IF s.source = "synced" /\ s.status = "active" /\ Feed = None
                THEN [model EXCEPT !.status = "deprecated"] ELSE model
    /\ Stage(p, "alerts")
    /\ UNCHANGED <<world, release, price, warned, events>> /\ UNCHANGED console

\* findRetiredModelReferences(): whatever role binds it.
RetiredReference == bound # "no" /\ model.status \in {"deprecated", "sunset"}

\* runDeprecationAlerts().
DeprecationAlerts(p) ==
    /\ pass[p].at = "alerts"
    /\ warned' = RetiredReference
    /\ Stage(p, "idle")
    /\ UNCHANGED <<world, release, model, price, events>> /\ UNCHANGED console

\* A stage fails: without a discovery nothing is priced, but the sync runs; an
\* entry's failure is noted.  Or the pass ends here: the console asked for
\* this stage only, the sync itself failed, or the process did.
StageFails(p) ==
    /\ pass[p].at # "idle" /\ Event
    /\ LET at == pass[p].at
           next == IF at \in {"discover", "live"} THEN "sync" ELSE IF at = "docs" THEN "live" ELSE "idle"
       IN  \/ Stage(p, next) \/ Stage(p, "idle")
           \/ At(p, "sync") /\ pass' = [pass EXCEPT ![p].at = "vanish"]
    /\ UNCHANGED <<world, release, model, price, warned>> /\ UNCHANGED console

\* The router is restarted with the feed of its next release.
NewRelease ==
    /\ release + 1 \in DOMAIN world.feeds /\ Event
    /\ release' = release + 1
    /\ pass' = [p \in Passes |-> Done]
    /\ saving' = "none" /\ probe' = NoModel /\ retiring' = "no"
    /\ UNCHANGED <<world, model, price, bound, warned, byHand, raced>>

-----------------------------------------------------------------------------
Background == UNCHANGED <<world, release, pass, warned>>

\* createCustomModel().
CreateCustomModel(ctx, p) ==
    /\ ~ InCatalog /\ Event
    /\ model' = [NoModel EXCEPT !.source = "custom", !.ctx = ctx]
    /\ price' = p
    /\ Background /\ UNCHANGED console

\* updateModel() of base specs and price: not for feed-managed rows.
UpdateModel(ctx, p) ==
    /\ model.source \in {"custom", "provider"} /\ Event
    /\ model' = [model EXCEPT !.ctx = ctx]
    /\ price' = p
    /\ Background /\ UNCHANGED console

\* setCapabilityOverrides(), and updateModel() of capabilities: full replace.
SetOverrides(o) ==
    /\ InCatalog /\ Event
    /\ model' = [model EXCEPT !.over = o]
    /\ byHand' = byHand \cup {c \in Ceiling : o[c] = "on"}
    /\ UNCHANGED <<price, bound, saving, probe, retiring, raced>> /\ Background

\* The probe route reads the row and asks the provider ...
ProbeBegins ==
    /\ InCatalog /\ probe = NoModel /\ Event
    /\ probe' = model
    /\ UNCHANGED <<model, price, bound, saving, retiring, byHand, raced>> /\ Background

\* What an answer to buildProbeRequest(c) shows: a completed one only if it
\* exercised the capability (accepting an image does), an error only if it
\* is a definite rejection.
ClassifyProbe(c, answer) ==
    IF answer = "exercised" \/ (answer = "completed" /\ c = "vision") THEN "on"
    ELSE IF answer = "rejected" THEN "off" ELSE "unset"

\* overridesFromProbes(): conclusive outcomes are merged, but none switches
\* on what the kind's ceiling caps.
OverridesFromProbes(o, answers) ==
    [c \in Caps |->
        LET v == ClassifyProbe(c, answers[c])
        IN  IF v = "unset" \/ (v = "on" /\ c \in Ceiling) THEN o[c] ELSE v]

\* ... and writes the overrides it read, with its outcomes merged in, over
\* whatever they are now; the row may be gone.
ProbeWrites(answers) ==
    /\ probe # NoModel
    /\ model' = IF InCatalog THEN [model EXCEPT !.over = OverridesFromProbes(probe.over, answers)] ELSE model
    /\ probe' = NoModel
    /\ UNCHANGED <<price, bound, saving, retiring, byHand, raced, events>> /\ Background

\* Mutant: only the default model of policies is looked at.
RetireReadsDefault ==
    /\ model.source = "custom" /\ retiring = "no" /\ Event
    /\ retiring' = IF bound = "default" THEN "sunset" ELSE "delete"
    /\ raced' = (raced \/ saving # "none")
    /\ UNCHANGED <<model, price, bound, saving, probe, byHand>> /\ Background

\* retireCustomModel(): custom models only; what policies reference is read ...
RetireReads ==
    /\ model.source = "custom" /\ retiring = "no" /\ Event
    /\ retiring' = IF bound # "no" THEN "sunset" ELSE "delete"
    /\ raced' = (raced \/ saving # "none")
    /\ UNCHANGED <<model, price, bound, saving, probe, byHand>> /\ Background

\* ... then the row is flagged or deleted, its prices with it; a policy's
\* default model is a foreign key and keeps it.
RetireWrites ==
    /\ retiring # "no"
    /\ IF retiring = "delete"
       THEN IF bound = "default" THEN UNCHANGED <<model, price>> ELSE model' = NoModel /\ price' = 0
       ELSE UNCHANGED price /\ model' = IF InCatalog THEN [model EXCEPT !.status = "sunset"] ELSE model
    /\ retiring' = "no"
    /\ UNCHANGED <<bound, saving, probe, byHand, raced, events>> /\ Background

\* savePolicy(): the model must be in the catalog when it is looked up; the
\* write of a default that is gone by then fails.
SaveReads(role) ==
    /\ role # "no" => InCatalog
    /\ saving = "none" /\ role # bound /\ Event
    /\ saving' = role
    /\ raced' = (raced \/ retiring # "no")
    /\ UNCHANGED <<model, price, bound, probe, retiring, byHand>> /\ Background

SaveWrites ==
    /\ saving # "none"
    /\ bound' = IF saving = "default" /\ ~ InCatalog THEN bound ELSE saving
    /\ saving' = "none"
    /\ raced' = (raced \/ retiring # "no")
    /\ UNCHANGED <<model, price, probe, retiring, byHand, events>> /\ Background

PassStep(p) ==
    \/ PassReads(p)
    \/ DiscoverDigitalOcean(p) \/ DiscoverAnthropic(p)
    \/ ApplyScraped(p) \/ ApplyLivePricing(p)
    \/ SyncOneModel(p) \/ SyncVanished(p) \/ DeprecationAlerts(p)

Operator ==
    \/ \E c \in {Placeholder, ByOperator}, p \in {0, ByOperator} : CreateCustomModel(c, p)
    \/ \E p \in {price, ByOperator} : UpdateModel(ByOperator, p)
    \/ \E c \in Caps, v \in {"on", "off"} : SetOverrides([NoOverride EXCEPT ![c] = v])
    \/ ProbeBegins
    \/ \E a \in [Caps -> {"exercised", "completed", "rejected", "failed"}] : ProbeWrites(a)
    \/ RetireReads \/ RetireWrites
    \/ \E role \in {"no", "default", "fallback"} : SaveReads(role)
    \/ SaveWrites

CatalogNext ==
    \/ \E p \in Passes : PassStep(p) \/ StageFails(p) \/ \E at \in {"discover", "docs", "sync"} : PassBegins(p, at)
    \/ NewRelease
    \/ Operator

CatalogSpec == CatalogInit /\ [][CatalogNext]_catalogVars

-----------------------------------------------------------------------------
\* The docs and the live feed publish different prices of an id that no
\* vendored feed carries; nothing says which of the two owns it.
Disputed ==
    /\ ~ Curated /\ None \notin {world.docs, world.live}
    /\ 0 \notin {world.docs.price, world.live.price} /\ world.docs.price # world.live.price

\* Two writers never fight over a price: once edits, failures and releases
\* have ceased the nightly passes append no price any more (sync.ts on
\* loadCuratedIds, 5.9, Q-101).  What the vendored feed carries is its own to
\* price; for a discovered DigitalOcean model that it does not carry, docs and
\* live feed that disagree append a price each, every night.
PricingSettles == <>[][Disputed \/ price' = price]_catalogVars

\* A pass changes a context window in two ways only.  It fills one that it had
\* read as discovery's placeholder; or its sync, of an id the vendored feed
\* carries and a row it had not read as custom, puts what that feed publishes
\* or, if that is none, what it had read.  So a correction that the pass had
\* read survives it unless the feed publishes a window; one made since the
\* pass read the row may be overwritten.
SpecsAreOperators ==
    [][\A p \in Passes :
        LET s == pass[p].snap IN
        model.ctx # model'.ctx /\ InCatalog /\ PassStep(p) =>
            \/ s.ctx = Placeholder /\ s.source = "provider"
            \/ Feed # None /\ s.source # "custom" /\ model'.ctx = (IF Feed.ctx = 0 THEN s.ctx ELSE Feed.ctx)]_catalogVars

\* A policy's model that has left the vendored feed comes to be flagged, and
\* the alerts then warn of it (5.3, 5.7).
VanishedIsFlagged ==
    []<>(bound # "no" /\ model.source = "synced" /\ ~ Curated => model.status = "deprecated" /\ warned)

\* A model is gone from under a policy only if the policy was being saved
\* while the model was retired, and never under its default binding
\* (service.ts on retireCustomModel); and a capability that the kind's ceiling
\* caps is switched on by hand or not at all, whatever a probe finds and
\* whatever edits overlap it (Q-097).
BindingsHold ==
    /\ bound # "no" /\ ~ InCatalog => raced /\ bound = "fallback"
    /\ \A c \in Ceiling : model.over[c] = "on" => c \in byHand

=============================================================================
