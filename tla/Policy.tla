------------------------------- MODULE Policy -------------------------------
(***************************************************************************)
(* Model eligibility and selection (src/policy/engine.ts): pure functions  *)
(* of the effective policy p and of the model the application asked for.   *)
(*                                                                         *)
(* p is the EffectivePolicy with the catalog rows it refers to:            *)
(*   default, allowed, fallback   the policy's model ids                   *)
(*   loaded     the ids found in the catalog (modelsById)                  *)
(*   blocked    models that are sunset or banned by the firm               *)
(*   localOnly  the task class has sensitivity local_only                  *)
(*   needs      capabilities that the class or the request requires        *)
(*   has        model -> its effective capabilities                        *)
(*   cacheTtl, cacheCloud   the class opts into the response cache, and    *)
(*                          into caching cloud answers                     *)
(***************************************************************************)
EXTENDS Arrays

CONSTANTS
    Models,
    Local,         \* the models of a local-tier provider kind (isLocalKind)
    NoModel        \* no model requested, or none at all

ASSUME PolicyAssumption == Local \subseteq Models /\ NoModel \notin Models

Capability == {"tools", "json_schema", "vision"}

EffectivePolicy ==
    [default : Models, allowed : Seq(Models), fallback : Seq(Models), loaded : SUBSET Models,
     blocked : SUBSET Models, localOnly : BOOLEAN, needs : SUBSET Capability,
     has : [Models -> SUBSET Capability], cacheTtl : BOOLEAN, cacheCloud : BOOLEAN]

IsLocal(m) == m \in Local
IsCloud(m) == m \notin Local

Elements(s) == {s[i] : i \in 1 .. Len(s)}

\* missingCapabilities()
Missing(p, m) == p.needs \ p.has[m]

\* modelViolation(): the code, or "none"; sensitivity comes before capability.
ModelViolation(p, m) ==
    IF m \in p.blocked \/ (p.localOnly /\ IsCloud(m)) THEN "policy_blocked"
    ELSE IF Missing(p, m) # {} THEN "capability_missing"
    ELSE "none"

Eligible(p, m) == ModelViolation(p, m) = "none"

\* The capability-upgrade candidates in their order: allowed set, then
\* fallback chain, local tier first.
UpgradeOrder(p) ==
    LET configured == Filter(p.allowed \o p.fallback, p.loaded \ {p.default})
    IN  Filter(configured, Local) \o Filter(configured, Models \ Local)

\* Capabilities that neither the default nor any candidate that failed for
\* capability reasons can provide.
Unsatisfiable(p) ==
    {c \in Missing(p, p.default) :
        \A m \in Elements(UpgradeOrder(p)) :
            ModelViolation(p, m) = "capability_missing" => c \in Missing(p, m)}

\* selectModel(): a model, or NoModel with the code of the error thrown.
SelectModel(p, requested) ==
    LET order == UpgradeOrder(p)
        valid == {i \in 1 .. Len(order) : Eligible(p, order[i])}
        violation == ModelViolation(p, p.default)
        Pick(m) == [model |-> m, err |-> "none"]
        Throw(code) == [model |-> NoModel, err |-> code]
    IN  CASE /\ requested \in p.loaded \cap ({p.default} \cup Elements(p.allowed))
             /\ Eligible(p, requested)
               -> Pick(requested)
          [] OTHER ->
               IF violation = "none" THEN Pick(p.default)
               ELSE IF violation = "policy_blocked" THEN Throw(violation)
               ELSE IF valid # {}
                    THEN Pick(order[CHOOSE i \in valid : \A j \in valid : i <= j])
               ELSE IF "vision" \in Unsatisfiable(p) THEN Throw("no_vision_provider")
               ELSE Throw(violation)

\* candidateModels(): the selected primary, then the fallback chain without it.
CandidateModels(p, primary) == <<primary>> \o Filter(p.fallback, Models \ {primary})

=============================================================================
