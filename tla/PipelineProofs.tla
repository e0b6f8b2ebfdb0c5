--------------------------- MODULE PipelineProofs ---------------------------
(***************************************************************************)
(* Proofs about the request pipeline, for any requests and firms, any      *)
(* models and any effective policies.                                      *)
(***************************************************************************)
EXTENDS Pipeline, ArrayProofs

-----------------------------------------------------------------------------
\* The configured models of a policy.
Configured(p) == {p.default} \cup Elements(p.allowed \o p.fallback)

\* What an EffectivePolicy of engine.ts is made of.
LEMMA PolicyFields ==
    ASSUME NEW p \in EffectivePolicy
    PROVE  /\ p.default \in Models /\ p.allowed \in Seq(Models) /\ p.fallback \in Seq(Models)
           /\ p.loaded \in SUBSET Models /\ p.allowed \o p.fallback \in Seq(Models)
  BY DEF EffectivePolicy

\* The fallback chain and the allowed set are configured.
LEMMA ConfiguredParts ==
    ASSUME NEW p \in EffectivePolicy
    PROVE  /\ p.default \in Configured(p)
           /\ Elements(p.allowed) \subseteq Configured(p)
           /\ Elements(p.fallback) \subseteq Configured(p)
           /\ Configured(p) \subseteq Models
<1> DEFINE a == p.allowed
           f == p.fallback
           b == a \o f
<1>1. a \in Seq(Models) /\ f \in Seq(Models) /\ p.default \in Models
  BY PolicyFields
<1> HIDE DEF a, f
<1>2. /\ b \in Seq(Models) /\ Len(b) = Len(a) + Len(f) /\ Len(a) \in Nat /\ Len(f) \in Nat
      /\ \A i \in 1 .. Len(a) : b[i] = a[i]
      /\ \A i \in 1 .. Len(f) : b[Len(a) + i] = f[i]
  BY <1>1
<1> HIDE DEF b
<1>3. Elements(a) \subseteq Elements(b)
  BY <1>2 DEF Elements
<1>4. Elements(f) \subseteq Elements(b)
  <2>1. \A i \in 1 .. Len(f) : Len(a) + i \in 1 .. Len(b)
    BY <1>2
  <2> QED
    BY <1>2, <2>1 DEF Elements
<1>5. Elements(b) \subseteq Models
  <2>1. \A i \in 1 .. Len(b) : b[i] \in Models
    BY <1>2
  <2> QED
    BY <2>1 DEF Elements
<1> QED
  BY <1>1, <1>3, <1>4, <1>5 DEF Configured, a, f, b

\* The capability-upgrade candidates are configured models.
LEMMA UpgradesConfigured ==
    ASSUME NEW p \in EffectivePolicy
    PROVE  /\ UpgradeOrder(p) \in Seq(Models)
           /\ \A i \in 1 .. Len(UpgradeOrder(p)) : UpgradeOrder(p)[i] \in Configured(p)
<1> DEFINE b == p.allowed \o p.fallback
           s == Filter(b, p.loaded \ {p.default})
           l == Filter(s, Local)
           c == Filter(s, Models \ Local)
           u == l \o c
<1>1. b \in Seq(Models)
  BY PolicyFields
<1>2. /\ \A i \in 1 .. Len(b) : b[i] \in Configured(p)
      /\ Len(b) \in Nat
  <2>1. Configured(p) = {p.default} \cup {b[i] : i \in 1 .. Len(b)}
    BY DEF Configured, Elements
  <2> HIDE DEF b
  <2> QED
    BY <1>1, <2>1
<1>3. UpgradeOrder(p) = u
  BY DEF UpgradeOrder
<1> HIDE DEF b
<1>4. s \in Seq(Models) /\ \A k \in 1 .. Len(s) : s[k] \in Configured(p)
  BY <1>1, <1>2, FilterSubset
<1> HIDE DEF s
<1>5. l \in Seq(Models) /\ \A k \in 1 .. Len(l) : l[k] \in Configured(p)
  BY <1>4, FilterSubset
<1>6. c \in Seq(Models) /\ \A k \in 1 .. Len(c) : c[k] \in Configured(p)
  BY <1>4, FilterSubset
<1> HIDE DEF l, c
<1>7. /\ u \in Seq(Models) /\ Len(u) = Len(l) + Len(c) /\ Len(l) \in Nat /\ Len(c) \in Nat
      /\ \A i \in 1 .. Len(u) : u[i] = IF i <= Len(l) THEN l[i] ELSE c[i - Len(l)]
  BY <1>5, <1>6
<1> HIDE DEF u
<1>8. ASSUME NEW i \in 1 .. Len(u) PROVE u[i] \in Configured(p)
  <2>1. CASE i <= Len(l)
    BY <2>1, <1>5, <1>7
  <2>2. CASE ~ (i <= Len(l))
    <3>1. i - Len(l) \in 1 .. Len(c)
      BY <2>2, <1>7
    <3> QED
      BY <3>1, <2>2, <1>6, <1>7
  <2> QED
    BY <2>1, <2>2
<1> QED
  BY <1>3, <1>7, <1>8

\* selectModel() returns a configured model or throws.
LEMMA SelectConfigured ==
    ASSUME NEW p \in EffectivePolicy, NEW w
    PROVE  LET sel == SelectModel(p, w) IN
           /\ sel.err \in Codes
           /\ sel.err = "none" => sel.model \in Configured(p)
<1> DEFINE order == UpgradeOrder(p)
           valid == {i \in 1 .. Len(order) : Eligible(p, order[i])}
           violation == ModelViolation(p, p.default)
           sel == SelectModel(p, w)
           least == CHOOSE i \in valid : \A j \in valid : i <= j
<1>1. sel = CASE /\ w \in p.loaded \cap ({p.default} \cup Elements(p.allowed))
                 /\ Eligible(p, w) -> [model |-> w, err |-> "none"]
              [] OTHER ->
                   IF violation = "none" THEN [model |-> p.default, err |-> "none"]
                   ELSE IF violation = "policy_blocked" THEN [model |-> NoModel, err |-> violation]
                   ELSE IF valid # {} THEN [model |-> order[least], err |-> "none"]
                   ELSE IF "vision" \in Unsatisfiable(p)
                        THEN [model |-> NoModel, err |-> "no_vision_provider"]
                   ELSE [model |-> NoModel, err |-> violation]
  BY DEF SelectModel
<1>2. violation \in {"none", "policy_blocked", "capability_missing"}
  BY DEF ModelViolation
<1>3. valid # {} => order[least] \in Configured(p)
  <2> SUFFICES ASSUME valid # {} PROVE order[least] \in Configured(p)
    OBVIOUS
  <2>1. order \in Seq(Models) /\ \A i \in 1 .. Len(order) : order[i] \in Configured(p)
    BY UpgradesConfigured
  <2>2. valid \subseteq 1 .. Len(order) /\ valid \subseteq Nat
    BY <2>1
  <2> HIDE DEF order, valid
  <2>3. \E i \in valid : \A j \in valid : i <= j
    BY <2>2, LeastNatural
  <2>4. least \in valid
    BY <2>3
  <2> HIDE DEF least
  <2> QED
    BY <2>1, <2>2, <2>4
<1>4. /\ p.default \in Configured(p)
      /\ Elements(p.allowed) \subseteq Configured(p)
  BY ConfiguredParts
<1> HIDE DEF order, valid, violation, least, sel
<1>5. \/ sel.err = "none" /\ sel.model \in Configured(p)
      \/ sel.err \in {violation, "no_vision_provider"} /\ sel.err # "none"
  <2>1. CASE /\ w \in p.loaded \cap ({p.default} \cup Elements(p.allowed))
             /\ Eligible(p, w)
    BY <1>1, <1>4, <2>1
  <2>2. CASE ~ (/\ w \in p.loaded \cap ({p.default} \cup Elements(p.allowed))
                /\ Eligible(p, w))
    <3>1. sel = IF violation = "none" THEN [model |-> p.default, err |-> "none"]
                ELSE IF violation = "policy_blocked" THEN [model |-> NoModel, err |-> violation]
                ELSE IF valid # {} THEN [model |-> order[least], err |-> "none"]
                ELSE IF "vision" \in Unsatisfiable(p)
                     THEN [model |-> NoModel, err |-> "no_vision_provider"]
                ELSE [model |-> NoModel, err |-> violation]
      BY <1>1, <2>2
    <3> QED
      BY <3>1, <1>2, <1>3, <1>4
  <2> QED
    BY <2>1, <2>2
<1>6. sel.err \in Codes /\ (sel.err = "none" => sel.model \in Configured(p))
  BY <1>2, <1>5 DEF Codes
<1> QED
  BY <1>6 DEF sel

\* candidateModels(): the primary first, then members of the fallback chain.
LEMMA CandidatesConfigured ==
    ASSUME NEW p \in EffectivePolicy, NEW m \in Models
    PROVE  LET s == CandidateModels(p, m) IN
           /\ s \in Seq(Models) /\ Len(s) \in Nat \ {0}
           /\ \A i \in 1 .. Len(s) : s[i] = m \/ s[i] \in Elements(p.fallback)
<1> DEFINE T == Models \ {m}
           f == Filter(p.fallback, T)
           s == <<m>> \o f
<1>1. p.fallback \in Seq(Models)
  BY PolicyFields
<1> HIDE DEF T
<1>2. f \in Seq(Models) /\ \A k \in 1 .. Len(f) : f[k] \in Elements(p.fallback)
  <2>1. f \in Seq(Models) /\ \A k \in 1 .. Len(f) : \E i \in 1 .. Len(p.fallback) : f[k] = p.fallback[i]
    BY <1>1, FilterSubset
  <2> HIDE DEF f
  <2> QED
    BY <2>1 DEF Elements
<1> HIDE DEF f
<1>3. /\ s \in Seq(Models) /\ Len(s) = 1 + Len(f) /\ Len(f) \in Nat
      /\ \A i \in 1 .. Len(s) : s[i] = IF i = 1 THEN m ELSE f[i - 1]
  BY <1>2
<1> HIDE DEF s
<1>4. \A i \in 1 .. Len(s) : i = 1 \/ i - 1 \in 1 .. Len(f)
  BY <1>3
<1>5. \A i \in 1 .. Len(s) : s[i] = m \/ s[i] \in Elements(p.fallback)
  BY <1>2, <1>3, <1>4
<1>6. CandidateModels(p, m) = s
  BY DEF CandidateModels, s, f, T
<1> QED
  BY <1>3, <1>5, <1>6

-----------------------------------------------------------------------------
\* The inductive invariant, first what holds of one request by itself.

Sel(c) == SelectModel(c.policy, c.wanted)
Chain(c) == CandidateModels(c.policy, Sel(c).model)

Unscrubbed == {"idle", "auth", "policy", "budget", "scrub"}
Unsent == Unscrubbed \cup {"route", "lookup"}
Settled == {"ledger", "done"}

\* After the scrub stage, a request with protected data that may meet a cloud
\* model carries what its mode demands.
Guarded(c) ==
    c.messages = "protected" /\ (IsCloud(Sel(c).model) \/ CloudInChain(c.policy)) =>
        \/ c.mode = "warn"
        \/ c.mode = "redact" /\ (c.redacted \/ c.cloudCopy)
        \/ c.mode = "block" /\ c.barred

\* What the stages have made of context c.
Flow(c) ==
    /\ c.stage \in Unscrubbed => ~ c.redacted /\ ~ c.cloudCopy /\ ~ c.barred
    /\ c.stage \in Unsent => c.hop = 1 /\ c.key = NoModel
    /\ c.redacted => IsCloud(Sel(c).model)
    /\ c.stage \in {"route", "lookup", "hop", "store"} => Sel(c).err = "none" /\ Guarded(c)
    /\ c.stage = "hop" => c.hop \in 1 .. Len(Chain(c))
    /\ c.stage = "store" => c.route \in Models
    /\ c.key # NoModel => c.key[1] = c.firm /\ c.key[3] = c.messages
    /\ c.hit => c.stage \in Settled

\* What the properties say of a message s that context c has sent.
SentRight(c, s) ==
    /\ IsCloud(s.to) /\ c.messages = "protected" =>
            c.mode = "warn" \/ (c.mode = "redact" /\ s.text = "redacted")
    /\ IsLocal(Sel(c).model) /\ IsLocal(s.to) => s.text = "original"
    /\ c.policy.localOnly => IsLocal(s.to)
    /\ s.to \notin c.policy.blocked /\ c.policy.needs \subseteq c.policy.has[s.to]
    /\ s.to \in Configured(c.policy)

\* What context c has sent, all in all.
SentSound(c, S) ==
    /\ c.stage \in Unsent => S = {}
    /\ c.stage = "store" => \E s \in S : s.to = c.answer
    /\ \A s \in S : SentRight(c, s)

\* A request with context c that sent S is over, and has asked model a with
\* messages m for firm f.
Origin(c, S, f, m, a) ==
    /\ c.stage \in Settled /\ c.firm = f /\ c.messages = m
    /\ \E s \in S : s.to = a

CacheSound ==
    /\ \A k \in DOMAIN cache : \E q \in Requests : Origin(ctx[q], sent[q], k[1], k[3], cache[k])
    /\ \A r \in Requests : ctx[r].hit =>
            \E q \in Requests \ {r} : Origin(ctx[q], sent[q], ctx[r].firm, ctx[r].messages, ctx[r].answer)

PipelineIInv ==
    /\ TypeOK
    /\ \A r \in Requests : Flow(ctx[r]) /\ SentSound(ctx[r], sent[r])
    /\ CacheSound

\* The invariant says what the four properties say.
LEMMA PipelineIInvImplies ==
    PipelineIInv => /\ NoProtectedEgress /\ LocalPrimarySeesOriginal
                    /\ OnlyEligibleCalled /\ CacheIsolation
<1> SUFFICES ASSUME PipelineIInv
             PROVE  /\ NoProtectedEgress /\ LocalPrimarySeesOriginal
                    /\ OnlyEligibleCalled /\ CacheIsolation
  OBVIOUS
<1>1. \A r \in Requests : \A s \in sent[r] : SentRight(ctx[r], s)
  BY DEF PipelineIInv, SentSound
<1>2. NoProtectedEgress
  BY <1>1 DEF NoProtectedEgress, SentRight
<1>3. LocalPrimarySeesOriginal
  BY <1>1 DEF LocalPrimarySeesOriginal, SentRight, Sel, Selected
<1>4. OnlyEligibleCalled
  BY <1>1 DEF OnlyEligibleCalled, SentRight, Configured
<1>5. CacheIsolation
  BY DEF PipelineIInv, CacheSound, CacheIsolation, Origin
<1> QED
  BY <1>2, <1>3, <1>4, <1>5

-----------------------------------------------------------------------------
\* One step of one request.

\* A context has a policy of its firm's and the fields of PipelineCtx.
LEMMA CtxFields ==
    ASSUME NEW c \in Ctx
    PROVE  /\ c.stage \in Stages /\ c.firm \in Firms /\ c.messages \in Messages
           /\ c.wanted \in Models \cup {NoModel} /\ c.policy \in EffectivePolicy
           /\ c.mode \in Modes /\ c.redacted \in BOOLEAN /\ c.cloudCopy \in BOOLEAN
           /\ c.barred \in BOOLEAN /\ c.route \in Models \cup {NoModel}
           /\ c.key \in Keys \cup {NoModel} /\ c.hop \in Nat
           /\ c.answer \in Models \cup {NoModel} /\ c.hit \in BOOLEAN /\ c.err \in Codes
<1>1. c.policy \in EffectivePolicy
  BY PipelineAssumption DEF Ctx
<1> QED
  BY <1>1 DEF Ctx

\* The part of the context that stays from the policy stage on.
SameRequest(c, d) ==
    /\ d.firm = c.firm /\ d.messages = c.messages /\ d.wanted = c.wanted
    /\ d.policy = c.policy /\ d.mode = c.mode

\* What the scrub stage and the cache have left in the context.
SameMarks(c, d) ==
    /\ d.redacted = c.redacted /\ d.cloudCopy = c.cloudCopy /\ d.barred = c.barred
    /\ d.key = c.key /\ d.hit = c.hit

\* A step that only moves on to another stage, or notes an error.
LEMMA StageSet ==
    ASSUME NEW c \in Ctx, NEW st \in Stages, NEW e \in Codes,
           NEW d, d \in {[c EXCEPT !.stage = st], [c EXCEPT !.stage = st, !.err = e]}
    PROVE  /\ d \in Ctx /\ d.stage = st /\ SameRequest(c, d) /\ SameMarks(c, d)
           /\ d.hop = c.hop /\ d.answer = c.answer /\ d.route = c.route
<1>1. CASE d = [c EXCEPT !.stage = st]
  BY <1>1 DEF Ctx, SameRequest, SameMarks
<1>2. CASE d = [c EXCEPT !.stage = st, !.err = e]
  BY <1>2 DEF Ctx, SameRequest, SameMarks
<1> QED
  BY <1>1, <1>2

\* The selection depends on nothing else.
LEMMA SelSame ==
    ASSUME NEW c, NEW d, SameRequest(c, d)
    PROVE  Sel(d) = Sel(c) /\ Chain(d) = Chain(c)
  BY DEF SameRequest, Sel, Chain

\* Nor does what the properties say of a message.
LEMMA SentSame ==
    ASSUME NEW c, NEW d, SameRequest(c, d), NEW s, SentRight(c, s)
    PROVE  SentRight(d, s)
  BY SelSame DEF SameRequest, SentRight

\* A request that ends here keeps what is known of it.
LEMMA Settles ==
    ASSUME NEW c \in Ctx, NEW d \in Ctx, NEW S, Flow(c), SentSound(c, S),
           SameRequest(c, d), SameMarks(c, d), d.stage \in Settled
    PROVE  Flow(d) /\ SentSound(d, S)
<1>1. Sel(d) = Sel(c)
  BY SelSame
<1>2. /\ d.stage \notin Unscrubbed /\ d.stage \notin Unsent
      /\ d.stage \notin {"route", "lookup", "hop", "store"}
  BY DEF Settled, Unscrubbed, Unsent
<1>3. Flow(d)
  BY <1>1, <1>2 DEF Flow, SameMarks, SameRequest
<1>4. SentSound(d, S)
  BY <1>2, SentSame DEF SentSound
<1> QED
  BY <1>3, <1>4

\* Before anything has been sent, moving on keeps the invariant as long as the
\* stage that is reached finds what it needs.
LEMMA MovesOn ==
    ASSUME NEW c \in Ctx, NEW d \in Ctx, NEW S, Flow(c), SentSound(c, S),
           c.stage \in Unscrubbed, SameMarks(c, d), d.hop = c.hop, d.stage \in Unscrubbed
    PROVE  Flow(d) /\ SentSound(d, S)
<1>1. c.redacted = FALSE /\ c.cloudCopy = FALSE /\ c.barred = FALSE /\ c.hit = FALSE
  <2>1. c.stage \notin Settled
    BY DEF Unscrubbed, Settled
  <2> QED
    BY <2>1, CtxFields DEF Flow
<1>2. S = {} /\ c.hop = 1 /\ c.key = NoModel
  BY DEF Flow, SentSound, Unsent
<1>3. d.stage \notin {"route", "lookup", "hop", "store"}
  BY DEF Unscrubbed
<1> QED
  BY <1>1, <1>2, <1>3 DEF Flow, SentSound, SameMarks

\* A request that arrives.
LEMMA NewCtxFlows ==
    ASSUME NEW f \in Firms, NEW m \in Messages, NEW w \in Models \cup {NoModel},
           NEW st \in {"idle", "auth"}
    PROVE  LET d == [NewCtx(f, m, w) EXCEPT !.stage = st] IN
           d \in Ctx /\ Flow(d) /\ SentSound(d, {}) /\ d.stage = st /\ d.hit = FALSE
<1> DEFINE p == CHOOSE p \in Policies[f] : TRUE
           n == NewCtx(f, m, w)
           d == [n EXCEPT !.stage = st]
<1>1. p \in Policies[f] /\ p \in UNION {Policies[g] : g \in Firms}
  BY PipelineAssumption
<1> HIDE DEF p
<1>2. n = [stage |-> "auth", firm |-> f, messages |-> m, wanted |-> w,
           policy |-> p, mode |-> "redact",
           redacted |-> FALSE, cloudCopy |-> FALSE, barred |-> FALSE, route |-> NoModel,
           key |-> NoModel, hop |-> 1, answer |-> NoModel, hit |-> FALSE,
           err |-> "none"]
  BY Zenon DEF NewCtx, p
<1> HIDE DEF n
<1>3. /\ n \in Ctx /\ n.redacted = FALSE /\ n.cloudCopy = FALSE /\ n.barred = FALSE
      /\ n.key = NoModel /\ n.hop = 1 /\ n.hit = FALSE
  BY <1>1, <1>2 DEF Ctx, Stages, Modes, Codes
<1>4. /\ d \in Ctx /\ d.stage = st /\ d.redacted = FALSE /\ d.cloudCopy = FALSE /\ d.barred = FALSE
      /\ d.key = NoModel /\ d.hop = 1 /\ d.hit = FALSE
  BY <1>3 DEF Ctx, Stages
<1> HIDE DEF d
<1>5. Flow(d)
  BY <1>4 DEF Flow
<1>6. SentSound(d, {})
  BY <1>4 DEF SentSound
<1> QED
  BY <1>4, <1>5, <1>6 DEF d, n

\* scrubEnvelope() and what stageScrub makes of its findings.
LEMMA ScrubbedFlows ==
    ASSUME NEW c \in Ctx, Flow(c), SentSound(c, {}), c.stage = "scrub", Sel(c).err = "none"
    PROVE  LET d == Scrubbed(c, IsCloud(Sel(c).model)) IN
           d \in Ctx /\ Flow(d) /\ SentSound(d, {}) /\ d.hit = c.hit
<1> DEFINE cp == IsCloud(Sel(c).model)
           d == Scrubbed(c, cp)
           next == [c EXCEPT !.stage = "route"]
<1>1. /\ c.redacted = FALSE /\ c.cloudCopy = FALSE /\ c.barred = FALSE /\ c.hit = FALSE
      /\ c.hop = 1 /\ c.key = NoModel
  BY CtxFields DEF Flow, Unscrubbed, Unsent, Settled
<1>2. c.messages \in {"plain", "protected"} /\ c.mode \in {"redact", "block", "warn"}
  BY CtxFields DEF Messages, Modes
<1>3. \/ d = next /\ (c.messages = "plain" \/ c.mode = "warn")
      \/ d = [next EXCEPT !.redacted = TRUE] /\ c.mode = "redact" /\ cp
      \/ d = [next EXCEPT !.cloudCopy = TRUE] /\ c.mode = "redact"
      \/ d = [c EXCEPT !.stage = "ledger", !.err = "scrubber_blocked"]
      \/ d = [next EXCEPT !.barred = TRUE] /\ c.mode = "block"
  BY <1>2 DEF Scrubbed
<1> HIDE DEF d, cp
<1>4. CASE d = [c EXCEPT !.stage = "ledger", !.err = "scrubber_blocked"]
  <2>0. "ledger" \in Stages /\ "scrubber_blocked" \in Codes
    BY DEF Stages, Codes
  <2>1. /\ d \in Ctx /\ d.stage = "ledger" /\ SameRequest(c, d) /\ SameMarks(c, d)
    BY <1>4, <2>0, StageSet
  <2> QED
    BY <2>1, Settles DEF Settled, SameMarks, d, cp
<1>5. ASSUME NEW rd \in BOOLEAN, NEW cc \in BOOLEAN, NEW bl \in BOOLEAN,
             d = [c EXCEPT !.stage = "route", !.redacted = rd, !.cloudCopy = cc, !.barred = bl],
             c.messages = "plain" \/ c.mode = "warn" \/ (c.mode = "redact" /\ (rd \/ cc))
                \/ (c.mode = "block" /\ bl),
             rd => cp
      PROVE  d \in Ctx /\ Flow(d) /\ SentSound(d, {}) /\ d.hit = c.hit
  <2>1. /\ d \in Ctx /\ d.stage = "route" /\ SameRequest(c, d) /\ d.hop = 1 /\ d.key = NoModel
        /\ d.hit = FALSE /\ d.redacted = rd /\ d.cloudCopy = cc /\ d.barred = bl
    <3>1. "route" \in Stages
      BY DEF Stages
    <3>2. d \in Ctx
      BY ZenonT(40), <1>5, <3>1 DEF Ctx
    <3>3. /\ d.stage = "route" /\ SameRequest(c, d) /\ d.hop = c.hop /\ d.key = c.key /\ d.hit = c.hit
          /\ d.redacted = rd /\ d.cloudCopy = cc /\ d.barred = bl
      BY <1>5 DEF Ctx, SameRequest
    <3> QED
      BY <3>2, <3>3, <1>1
  <2>2. Sel(d) = Sel(c)
    BY <2>1, SelSame
  <2>3. Guarded(d)
    BY <2>1, <1>5 DEF Guarded, SameRequest
  <2>4. Flow(d)
    BY <2>1, <2>2, <2>3, <1>5 DEF Flow, Unscrubbed, cp
  <2>5. SentSound(d, {})
    BY <2>1 DEF SentSound
  <2> QED
    BY <2>1, <2>4, <2>5, <1>1
<1>6. CASE d = next /\ (c.messages = "plain" \/ c.mode = "warn")
  <2>1. d = [c EXCEPT !.stage = "route", !.redacted = FALSE, !.cloudCopy = FALSE, !.barred = FALSE]
    BY <1>1, <1>6 DEF Ctx
  <2> QED
    BY <2>1, <1>5, <1>6 DEF d, cp
<1>7. CASE d = [next EXCEPT !.redacted = TRUE] /\ c.mode = "redact" /\ cp
  <2>1. d = [c EXCEPT !.stage = "route", !.redacted = TRUE, !.cloudCopy = FALSE, !.barred = FALSE]
    BY <1>1, <1>7 DEF Ctx
  <2> QED
    BY <2>1, <1>5, <1>7 DEF d, cp
<1>8. CASE d = [next EXCEPT !.cloudCopy = TRUE] /\ c.mode = "redact"
  <2>1. d = [c EXCEPT !.stage = "route", !.redacted = FALSE, !.cloudCopy = TRUE, !.barred = FALSE]
    BY <1>1, <1>8 DEF Ctx
  <2> QED
    BY <2>1, <1>5, <1>8 DEF d, cp
<1>9. CASE d = [next EXCEPT !.barred = TRUE] /\ c.mode = "block"
  <2>1. d = [c EXCEPT !.stage = "route", !.redacted = FALSE, !.cloudCopy = FALSE, !.barred = TRUE]
    BY <1>1, <1>9 DEF Ctx
  <2> QED
    BY <2>1, <1>5, <1>9 DEF d, cp
<1> QED
  BY <1>3, <1>4, <1>6, <1>7, <1>8, <1>9 DEF d, cp

-----------------------------------------------------------------------------
\* What a request that is over said and got stays on record.
LEMMA OriginStays ==
    ASSUME PipelineIInv, NEW r \in Requests, NEW d \in Ctx, ctx' = [ctx EXCEPT ![r] = d],
           ctx[r].stage \in Settled =>
                d.stage \in Settled /\ d.firm = ctx[r].firm /\ d.messages = ctx[r].messages,
           \A q \in Requests : sent[q] \subseteq sent'[q],
           NEW q \in Requests, NEW f, NEW m, NEW a, Origin(ctx[q], sent[q], f, m, a)
    PROVE  Origin(ctx'[q], sent'[q], f, m, a)
<1>1. ctx'[q] = IF q = r THEN d ELSE ctx[q]
  BY DEF PipelineIInv, TypeOK
<1> QED
  BY <1>1 DEF Origin

\* A step that only replaces one request's context keeps the invariant when
\* the new context fits and claims no new cache hit.
LEMMA BecomesSafe ==
    ASSUME PipelineIInv, NEW r \in Requests, NEW d \in Ctx, Becomes(r, d),
           Flow(d), SentSound(d, sent[r]),
           ctx[r].stage \in Settled =>
                d.stage \in Settled /\ d.firm = ctx[r].firm /\ d.messages = ctx[r].messages,
           d.hit => \E q \in Requests \ {r} : Origin(ctx[q], sent[q], d.firm, d.messages, d.answer)
    PROVE  PipelineIInv'
<1>1. /\ ctx' = [ctx EXCEPT ![r] = d] /\ cache' = cache /\ sent' = sent
      /\ ctx \in [Requests -> Ctx]
  BY DEF Becomes, PipelineIInv, TypeOK
<1>2. \A q \in Requests : ctx'[q] = IF q = r THEN d ELSE ctx[q]
  BY <1>1
<1>3. TypeOK'
  BY <1>1 DEF PipelineIInv, TypeOK
<1>4. \A q \in Requests : Flow(ctx'[q]) /\ SentSound(ctx'[q], sent'[q])
  BY <1>1, <1>2 DEF PipelineIInv
<1>5. \A q \in Requests : sent[q] \subseteq sent'[q]
  BY <1>1
<1>6. \A q \in Requests : \A f, m, a : Origin(ctx[q], sent[q], f, m, a) => Origin(ctx'[q], sent'[q], f, m, a)
  BY <1>1, <1>5, OriginStays
<1>7. \A k \in DOMAIN cache' : \E q \in Requests : Origin(ctx'[q], sent'[q], k[1], k[3], cache'[k])
  BY <1>1, <1>6 DEF PipelineIInv, CacheSound
<1>8. ASSUME NEW x \in Requests, ctx'[x].hit
      PROVE  \E q \in Requests \ {x} :
                Origin(ctx'[q], sent'[q], ctx'[x].firm, ctx'[x].messages, ctx'[x].answer)
  <2>1. CASE x = r
    BY <2>1, <1>2, <1>6, <1>8
  <2>2. CASE x # r
    BY <2>2, <1>2, <1>6, <1>8 DEF PipelineIInv, CacheSound
  <2> QED
    BY <2>1, <2>2
<1>9. CacheSound'
  BY <1>7, <1>8 DEF CacheSound
<1> QED
  BY <1>3, <1>4, <1>9 DEF PipelineIInv

\* What the invariant gives for one request.
LEMMA OneRequest ==
    ASSUME PipelineIInv, NEW r \in Requests
    PROVE  /\ ctx[r] \in Ctx /\ Flow(ctx[r]) /\ SentSound(ctx[r], sent[r])
           /\ ctx[r].hit => \E q \in Requests \ {r} :
                Origin(ctx[q], sent[q], ctx[r].firm, ctx[r].messages, ctx[r].answer)
  BY DEF PipelineIInv, TypeOK, CacheSound

\* runPipeline()'s catch block: any stage may fail, and a settled request
\* has nothing left to fail at.
LEMMA FailSafe ==
    ASSUME PipelineIInv, NEW r \in Requests, NEW code \in Codes, Fail(r, code)
    PROVE  PipelineIInv'
<1> DEFINE c == ctx[r]
           d == [c EXCEPT !.stage = "ledger", !.err = code]
<1>1. c \in Ctx /\ Flow(c) /\ SentSound(c, sent[r])
  BY OneRequest
<1>2. c.hit => \E q \in Requests \ {r} : Origin(ctx[q], sent[q], c.firm, c.messages, c.answer)
  BY OneRequest
<1>3. "ledger" \in Stages
  BY DEF Stages
<1>4. Becomes(r, d)
  BY DEF Fail
<1> HIDE DEF c
<1>5. /\ d \in Ctx /\ d.stage = "ledger" /\ SameRequest(c, d) /\ SameMarks(c, d)
      /\ d.answer = c.answer
  BY ZenonT(40), <1>1, <1>3, StageSet
<1> HIDE DEF d
<1>6. Flow(d) /\ SentSound(d, sent[r])
  BY <1>1, <1>5, Settles DEF Settled
<1>7. d.stage \in Settled /\ d.firm = c.firm /\ d.messages = c.messages /\ d.hit = c.hit
  BY <1>5 DEF Settled, SameRequest, SameMarks
<1> QED
  BY <1>2, <1>4, <1>5, <1>6, <1>7, BecomesSafe DEF c

\* A stage before the scrubber that passes the request on.
LEMMA EarlySafe ==
    ASSUME PipelineIInv, NEW r \in Requests, NEW d \in Ctx, Becomes(r, d),
           ctx[r].stage \in Unscrubbed, d.stage \in Unscrubbed,
           SameMarks(ctx[r], d), d.hop = ctx[r].hop
    PROVE  PipelineIInv'
<1>1. ctx[r] \in Ctx /\ Flow(ctx[r]) /\ SentSound(ctx[r], sent[r])
  BY OneRequest
<1>2. Flow(d) /\ SentSound(d, sent[r])
  BY <1>1, MovesOn
<1>3. ctx[r].stage \notin Settled /\ d.stage \notin Settled
  BY DEF Unscrubbed, Settled
<1>4. ~ d.hit
  BY <1>2, <1>3 DEF Flow
<1> QED
  BY <1>2, <1>3, <1>4, BecomesSafe

\* Goto, as a step from context c to context d.
LEMMA GotoFacts ==
    ASSUME PipelineIInv, NEW r \in Requests, NEW st \in Stages, Goto(r, st)
    PROVE  \E d \in Ctx :
             /\ Becomes(r, d) /\ d.stage = st
             /\ SameRequest(ctx[r], d) /\ SameMarks(ctx[r], d)
             /\ d.hop = ctx[r].hop /\ d.answer = ctx[r].answer /\ d.route = ctx[r].route
<1> DEFINE c == ctx[r]
           d == [c EXCEPT !.stage = st]
<1>1. c \in Ctx
  BY OneRequest
<1>2. Becomes(r, d)
  BY DEF Goto
<1>3. "none" \in Codes
  BY DEF Codes
<1> HIDE DEF c
<1>4. /\ d \in Ctx /\ d.stage = st /\ SameRequest(c, d) /\ SameMarks(c, d)
      /\ d.hop = c.hop /\ d.answer = c.answer /\ d.route = c.route
  BY <1>1, <1>3, StageSet
<1> HIDE DEF d
<1> QED
  BY <1>2, <1>4 DEF c

\* A request arrives, with nothing sent and nothing known.
LEMMA ArriveSafe ==
    ASSUME PipelineIInv, NEW r \in Requests, Arrive(r)
    PROVE  PipelineIInv'
<1>1. PICK f \in Firms, m \in Messages, w \in Wanted : Becomes(r, NewCtx(f, m, w))
  BY DEF Arrive
<1> DEFINE n == NewCtx(f, m, w)
           d == [n EXCEPT !.stage = "auth"]
<1>2. w \in Models \cup {NoModel}
  BY PipelineAssumption
<1>3. d \in Ctx /\ Flow(d) /\ SentSound(d, {}) /\ d.stage = "auth" /\ d.hit = FALSE
  BY ZenonT(40), <1>2, NewCtxFlows
<1>4. d = n
  BY DEF NewCtx
<1>5. sent[r] = {} /\ ctx[r].stage = "idle"
  BY OneRequest DEF Arrive, SentSound, Unsent, Unscrubbed
<1>6. ctx[r].stage \notin Settled
  BY <1>5 DEF Settled
<1> HIDE DEF n, d
<1> QED
  BY <1>1, <1>3, <1>4, <1>5, <1>6, BecomesSafe DEF n

\* stageAuth(), stagePolicy() and stageBudget().
LEMMA FirstStagesSafe ==
    ASSUME PipelineIInv, NEW r \in Requests, StageAuth(r) \/ StagePolicy(r) \/ StageBudget(r)
    PROVE  PipelineIInv'
<1>1. {"policy", "scrub"} \subseteq Stages /\ {"policy", "scrub"} \subseteq Unscrubbed
  BY DEF Stages, Unscrubbed
<1>2. {"auth_error", "rate_limited", "policy_blocked", "budget_exceeded"} \subseteq Codes
  BY DEF Codes
<1>3. ctx[r].stage \in Unscrubbed
  BY DEF StageAuth, StagePolicy, StageBudget, At, Unscrubbed
<1>4. ASSUME NEW st \in {"policy", "scrub"}, Goto(r, st) PROVE PipelineIInv'
  BY <1>1, <1>3, <1>4, GotoFacts, EarlySafe
<1>5. ASSUME NEW p \in Policies[ctx[r].firm], NEW m \in Modes,
             Becomes(r, [ctx[r] EXCEPT !.stage = "budget", !.policy = p, !.mode = m])
      PROVE  PipelineIInv'
  <2> DEFINE c == ctx[r]
             d == [c EXCEPT !.stage = "budget", !.policy = p, !.mode = m]
  <2>1. c \in Ctx /\ p \in UNION {Policies[f] : f \in Firms}
    BY OneRequest, CtxFields
  <2>2. "budget" \in Stages /\ "budget" \in Unscrubbed
    BY DEF Stages, Unscrubbed
  <2>3. Becomes(r, d)
    BY <1>5
  <2> HIDE DEF c
  <2>4. d \in Ctx
    BY <2>1, <2>2 DEF Ctx
  <2>5. d.stage = "budget" /\ SameMarks(c, d) /\ d.hop = c.hop
    BY <2>1 DEF Ctx, SameMarks
  <2> HIDE DEF d
  <2> QED
    BY <2>2, <2>3, <2>4, <2>5, <1>3, EarlySafe DEF c
<1> QED
  BY <1>2, <1>4, <1>5, FailSafe DEF StageAuth, StagePolicy, StageBudget

\* stageScrub(): without a scan there is no cloud model to guard against.
LEMMA StageScrubSafe ==
    ASSUME PipelineIInv, NEW r \in Requests, StageScrub(r)
    PROVE  PipelineIInv'
<1> DEFINE c == ctx[r]
<1>1. c \in Ctx /\ Flow(c) /\ SentSound(c, sent[r]) /\ c.stage = "scrub"
  BY OneRequest DEF StageScrub, At
<1>2. sent[r] = {} /\ c.stage \notin Settled
  BY <1>1 DEF SentSound, Unsent, Unscrubbed, Settled
<1>3. Selected(r) = Sel(c) /\ c.policy \in EffectivePolicy
  BY <1>1, CtxFields DEF Selected, Sel
<1>4. Sel(c).err \in Codes /\ "scrubber_blocked" \in Codes /\ "route" \in Stages
  <2>1. Sel(c).err \in Codes
    BY <1>3, SelectConfigured DEF Sel
  <2> QED
    BY <2>1 DEF Codes, Stages
<1>5. CASE Sel(c).err # "none" /\ Fail(r, Sel(c).err)
  BY <1>4, <1>5, FailSafe
<1>6. CASE Sel(c).err = "none" /\ ~ (IsCloud(Sel(c).model) \/ CloudInChain(c.policy)) /\ Goto(r, "route")
  <2>1. PICK d \in Ctx : /\ Becomes(r, d) /\ d.stage = "route"
                         /\ SameRequest(c, d) /\ SameMarks(c, d) /\ d.hop = c.hop
    BY <1>4, <1>6, GotoFacts
  <2>2. Sel(d) = Sel(c) /\ d.policy = c.policy
    BY <2>1, SelSame DEF SameRequest
  <2>3. Guarded(d)
    BY <2>2, <1>6 DEF Guarded
  <2>4. Flow(d) /\ ~ d.hit
    <3>1. c.hit = d.hit /\ ~ c.hit /\ c.key = NoModel /\ c.hop = 1
      BY <1>1, <1>2, <2>1 DEF Flow, SameMarks, Unsent, Unscrubbed
    <3>2. ~ d.redacted
      BY <1>1, <2>1 DEF Flow, SameMarks, Unscrubbed
    <3>3. d.key = NoModel /\ d.hop = 1
      BY <3>1, <2>1 DEF SameMarks
    <3> QED
      BY <1>6, <2>1, <2>2, <2>3, <3>1, <3>2, <3>3 DEF Flow, Unscrubbed
  <2>5. SentSound(d, sent[r])
    BY <1>2, <2>1 DEF SentSound
  <2> QED
    BY <1>2, <2>1, <2>4, <2>5, BecomesSafe
<1>7. CASE Sel(c).err = "none" /\ Becomes(r, Scrubbed(c, IsCloud(Sel(c).model)))
  <2> DEFINE d == Scrubbed(c, IsCloud(Sel(c).model))
  <2>1. d \in Ctx /\ Flow(d) /\ SentSound(d, {}) /\ d.hit = c.hit
    BY <1>1, <1>2, <1>7, ScrubbedFlows
  <2>2. ~ c.hit
    BY <1>1, <1>2 DEF Flow
  <2> HIDE DEF d
  <2> QED
    BY <1>2, <1>7, <2>1, <2>2, BecomesSafe DEF d
<1>8. CASE Fail(r, "scrubber_blocked")
  BY <1>4, <1>8, FailSafe
<1> QED
  BY <1>3, <1>5, <1>6, <1>7, <1>8 DEF StageScrub

\* A step within the stages behind the scrubber: the marks stay.
LEMMA BehindScrub ==
    ASSUME NEW c \in Ctx, NEW d \in Ctx, Flow(c), SameRequest(c, d), SameMarks(c, d),
           c.stage \in {"route", "lookup", "hop", "store"},
           d.stage \in {"route", "lookup", "hop", "store"},
           d.stage \in Unsent => d.hop = 1 /\ d.key = NoModel,
           d.stage = "hop" => d.hop \in 1 .. Len(Chain(d)),
           d.stage = "store" => d.route \in Models
    PROVE  Flow(d) /\ ~ d.hit
<1>1. Sel(d) = Sel(c) /\ Sel(c).err = "none" /\ Guarded(c)
  BY SelSame DEF Flow
<1>2. Guarded(d)
  BY <1>1 DEF Guarded, SameRequest, SameMarks
<1>3. c.stage \notin Settled /\ d.stage \notin Unscrubbed
  BY DEF Settled, Unscrubbed
<1>4. ~ d.hit
  BY <1>3 DEF Flow, SameMarks
<1>5. /\ d.redacted => IsCloud(Sel(d).model)
      /\ d.key # NoModel => d.key[1] = d.firm /\ d.key[3] = d.messages
  BY <1>1 DEF Flow, SameMarks, SameRequest
<1> QED
  BY <1>1, <1>2, <1>3, <1>4, <1>5 DEF Flow

\* stageRoute(), with or without a route for the primary.
LEMMA StageRouteSafe ==
    ASSUME PipelineIInv, NEW r \in Requests, StageRoute(r)
    PROVE  PipelineIInv'
<1> DEFINE c == ctx[r]
<1>1. c \in Ctx /\ Flow(c) /\ SentSound(c, sent[r]) /\ c.stage = "route"
  BY OneRequest DEF StageRoute, At
<1>2. sent[r] = {} /\ c.stage \notin Settled /\ c.hop = 1 /\ c.key = NoModel
  BY <1>1 DEF SentSound, Flow, Unsent, Settled
<1>3. "lookup" \in Stages
  BY DEF Stages
<1>4. ASSUME NEW d \in Ctx, Becomes(r, d), d.stage = "lookup", SameRequest(c, d),
             SameMarks(c, d), d.hop = c.hop
      PROVE  PipelineIInv'
  <2>1. Flow(d) /\ ~ d.hit
    BY <1>1, <1>2, <1>4, BehindScrub DEF SameMarks
  <2>2. SentSound(d, sent[r])
    BY <1>2, <1>4 DEF SentSound
  <2> QED
    BY <1>2, <1>4, <2>1, <2>2, BecomesSafe
<1>5. CASE Goto(r, "lookup")
  BY <1>3, <1>4, <1>5, GotoFacts
<1>6. ASSUME Becomes(r, [ctx[r] EXCEPT !.stage = "lookup", !.route = Selected(r).model])
      PROVE  PipelineIInv'
  <2> DEFINE m == Selected(r).model
             d == [c EXCEPT !.stage = "lookup", !.route = m]
  <2>1. Sel(c).err = "none" /\ Selected(r) = Sel(c) /\ c.policy \in EffectivePolicy
    BY <1>1, CtxFields DEF Flow, Selected, Sel
  <2>2. m \in Models
    BY <2>1, SelectConfigured, ConfiguredParts DEF Sel
  <2>3. Becomes(r, d)
    BY <1>6
  <2> HIDE DEF c, m
  <2>4. d \in Ctx
    BY <1>1, <1>3, <2>2 DEF Ctx
  <2>5. d.stage = "lookup" /\ SameRequest(c, d) /\ SameMarks(c, d) /\ d.hop = c.hop
    BY <1>1 DEF Ctx, SameRequest, SameMarks
  <2> HIDE DEF d
  <2> QED
    BY <1>4, <2>3, <2>4, <2>5
<1> QED
  BY <1>5, <1>6 DEF StageRoute

\* The models of a request's chain: configured, and in the cloud only if the
\* scrub stage took that into account.
LEMMA ChainFacts ==
    ASSUME NEW c \in Ctx, Sel(c).err = "none"
    PROVE  /\ Sel(c).model \in Models /\ Len(Chain(c)) \in Nat \ {0}
           /\ \A i \in 1 .. Len(Chain(c)) :
                /\ Chain(c)[i] \in Models /\ Chain(c)[i] \in Configured(c.policy)
                /\ IsCloud(Chain(c)[i]) /\ Chain(c)[i] \in c.policy.loaded =>
                        IsCloud(Sel(c).model) \/ CloudInChain(c.policy)
<1>1. c.policy \in EffectivePolicy
  BY CtxFields
<1>2. Sel(c).model \in Configured(c.policy)
  BY <1>1, SelectConfigured DEF Sel
<1>3. /\ Elements(c.policy.fallback) \subseteq Configured(c.policy)
      /\ Configured(c.policy) \subseteq Models
  BY <1>1, ConfiguredParts
<1>4. /\ Chain(c) \in Seq(Models) /\ Len(Chain(c)) \in Nat \ {0}
      /\ \A i \in 1 .. Len(Chain(c)) :
            Chain(c)[i] = Sel(c).model \/ Chain(c)[i] \in Elements(c.policy.fallback)
  BY <1>1, <1>2, <1>3, CandidatesConfigured DEF Chain
<1>5. ASSUME NEW i \in 1 .. Len(Chain(c))
      PROVE  /\ Chain(c)[i] \in Models /\ Chain(c)[i] \in Configured(c.policy)
             /\ IsCloud(Chain(c)[i]) /\ Chain(c)[i] \in c.policy.loaded =>
                    IsCloud(Sel(c).model) \/ CloudInChain(c.policy)
  BY <1>2, <1>3, <1>4, <1>5 DEF CloudInChain
<1> QED
  BY <1>2, <1>3, <1>4, <1>5

\* The cache lookup: a hit is another request's answer, of the same firm and
\* to the same messages.
LEMMA LookupSafe ==
    ASSUME PipelineIInv, NEW r \in Requests, Lookup(r)
    PROVE  PipelineIInv'
<1> DEFINE c == ctx[r]
           key == IF c.route = NoModel THEN NoModel ELSE KeyFor(c, c.route)
           h == [c EXCEPT !.stage = "ledger", !.key = key, !.answer = cache[key], !.hit = TRUE]
           d == [c EXCEPT !.stage = "hop", !.key = key]
<1>1. c \in Ctx /\ Flow(c) /\ SentSound(c, sent[r]) /\ c.stage = "lookup"
  BY OneRequest DEF Lookup, At
<1>2. sent[r] = {} /\ c.stage \notin Settled /\ c.hop = 1 /\ c.key = NoModel /\ ~ c.hit
  BY <1>1 DEF SentSound, Flow, Unsent, Settled
<1>3. /\ key \in Keys \cup {NoModel}
      /\ key # NoModel => key[1] = c.firm /\ key[3] = c.messages
  <2>1. c.firm \in Firms /\ c.messages \in Messages /\ c.route \in Models \cup {NoModel}
    BY <1>1, CtxFields
  <2>2. key = NoModel \/ (key = <<c.firm, c.route, c.messages>> /\ c.route # NoModel)
    BY DEF KeyFor
  <2> HIDE DEF key
  <2> QED
    BY <2>1, <2>2 DEF Keys
<1>4. Sel(c).err = "none" /\ Guarded(c) /\ (c.redacted => IsCloud(Sel(c).model))
  BY <1>1 DEF Flow
<1>5. IF key # NoModel /\ key \in DOMAIN cache THEN Becomes(r, h) ELSE Becomes(r, d)
  BY DEF Lookup
<1>6. {"ledger", "hop"} \subseteq Stages
  BY DEF Stages
<1> HIDE DEF c, key
<1>7. CASE key # NoModel /\ key \in DOMAIN cache
  <2>1. Becomes(r, h) /\ cache[key] \in Models
    BY <1>5, <1>7 DEF PipelineIInv, TypeOK
  <2>2. h \in Ctx
    BY <1>1, <1>3, <1>6, <2>1 DEF Ctx
  <2>3. /\ h.stage = "ledger" /\ SameRequest(c, h) /\ h.key = key /\ h.redacted = c.redacted
        /\ h.answer = cache[key] /\ h.hit = TRUE
    BY <1>1 DEF Ctx, SameRequest
  <2> HIDE DEF h
  <2>4. Sel(h) = Sel(c)
    BY <2>3, SelSame
  <2>5. Flow(h)
    BY <1>3, <1>4, <2>3, <2>4 DEF Flow, Unscrubbed, Unsent, Settled, SameRequest
  <2>6. SentSound(h, sent[r])
    BY <1>2, <2>3 DEF SentSound, Unsent, Unscrubbed
  <2>7. PICK q \in Requests : Origin(ctx[q], sent[q], c.firm, c.messages, cache[key])
    BY <1>3, <1>7 DEF PipelineIInv, CacheSound
  <2>8. q # r
    BY <1>2, <2>7 DEF Origin, c
  <2> QED
    BY <1>2, <2>1, <2>2, <2>3, <2>5, <2>6, <2>7, <2>8, BecomesSafe DEF SameRequest, c
<1>8. CASE ~ (key # NoModel /\ key \in DOMAIN cache)
  <2>1. Becomes(r, d)
    BY <1>5, <1>8
  <2>2. d \in Ctx
    BY <1>1, <1>3, <1>6 DEF Ctx
  <2>3. /\ d.stage = "hop" /\ SameRequest(c, d) /\ d.key = key /\ d.redacted = c.redacted
        /\ d.cloudCopy = c.cloudCopy /\ d.barred = c.barred /\ d.hit = c.hit /\ d.hop = 1
    BY <1>1, <1>2 DEF Ctx, SameRequest
  <2> HIDE DEF d
  <2>4. Sel(d) = Sel(c) /\ Chain(d) = Chain(c) /\ 1 \in 1 .. Len(Chain(c))
    BY <1>1, <1>4, <2>3, SelSame, ChainFacts
  <2>5. Guarded(d)
    BY <1>4, <2>3, <2>4 DEF Guarded, SameRequest
  <2>6. Flow(d)
    BY <1>2, <1>3, <1>4, <2>3, <2>4, <2>5 DEF Flow, Unscrubbed, Unsent, SameRequest
  <2>7. SentSound(d, sent[r])
    BY <1>2, <2>3 DEF SentSound
  <2> QED
    BY <1>2, <2>1, <2>2, <2>3, <2>6, <2>7, BecomesSafe DEF c
<1> QED
  BY <1>7, <1>8

\* Behind a hop that did not serve: the next one, or the end of the chain.
LEMMA NextHopFlows ==
    ASSUME PipelineIInv, NEW r \in Requests, ctx[r].stage = "hop",
           NEW m \in Models, NEW d,
           d \in {NextHop(r, "provider_unavailable"),
                  [NextHop(r, "provider_unavailable") EXCEPT !.route = m]}
    PROVE  /\ d \in Ctx /\ Flow(d) /\ SameRequest(ctx[r], d) /\ ~ d.hit
           /\ d.stage \in {"hop", "ledger"}
<1> DEFINE c == ctx[r]
           n == NextHop(r, "provider_unavailable")
<1>1. c \in Ctx /\ Flow(c) /\ c.stage = "hop"
  BY OneRequest
<1>2. Candidates(r) = Chain(c) /\ Sel(c).err = "none" /\ c.hop \in 1 .. Len(Chain(c))
  BY <1>1 DEF Candidates, Chain, Sel, Selected, Flow
<1>3. Len(Chain(c)) \in Nat /\ ~ c.hit
  BY <1>1, <1>2, ChainFacts DEF Flow, Settled
<1>4. "ledger" \in Stages /\ "provider_unavailable" \in Codes
  BY DEF Stages, Codes
<1>5. n = IF c.hop < Len(Chain(c)) THEN [c EXCEPT !.hop = c.hop + 1]
          ELSE [c EXCEPT !.stage = "ledger", !.err = "provider_unavailable"]
  BY <1>2 DEF NextHop
<1> HIDE DEF c, n
<1>6. /\ n \in Ctx /\ SameRequest(c, n) /\ SameMarks(c, n)
      /\ \/ n.stage = "hop" /\ n.hop \in 1 .. Len(Chain(c))
         \/ n.stage = "ledger"
  <2>1. CASE c.hop < Len(Chain(c))
    <3>1. n = [c EXCEPT !.hop = c.hop + 1] /\ c.hop + 1 \in Nat /\ c.hop + 1 \in 1 .. Len(Chain(c))
      BY <1>2, <1>3, <1>5, <2>1
    <3>2. n \in Ctx
      BY <1>1, <3>1 DEF Ctx
    <3>3. n.stage = "hop" /\ n.hop = c.hop + 1 /\ SameRequest(c, n) /\ SameMarks(c, n)
      BY <1>1, <3>1 DEF Ctx, SameRequest, SameMarks
    <3> QED
      BY <3>1, <3>2, <3>3
  <2>2. CASE ~ (c.hop < Len(Chain(c)))
    <3>1. n = [c EXCEPT !.stage = "ledger", !.err = "provider_unavailable"]
      BY <1>5, <2>2
    <3> QED
      BY <1>1, <1>4, <3>1, StageSet
  <2> QED
    BY <2>1, <2>2
<1>7. /\ d \in Ctx /\ SameRequest(c, d) /\ SameMarks(c, d)
      /\ d.stage = n.stage /\ d.hop = n.hop
  <2>1. CASE d = n
    BY <2>1, <1>6
  <2>2. CASE d = [n EXCEPT !.route = m]
    <3>1. d \in Ctx
      BY <2>2, <1>6 DEF Ctx
    <3>2. SameRequest(n, d) /\ SameMarks(n, d) /\ d.stage = n.stage /\ d.hop = n.hop
      BY <2>2, <1>6 DEF Ctx, SameRequest, SameMarks
    <3> QED
      BY <3>1, <3>2, <1>6 DEF SameRequest, SameMarks
  <2> QED
    BY <2>1, <2>2 DEF n
<1>8. CASE d.stage = "hop"
  <2>1. Chain(d) = Chain(c) /\ d.hop \in 1 .. Len(Chain(c))
    BY <1>6, <1>7, <1>8, SelSame
  <2>2. Flow(d) /\ ~ d.hit
    BY <1>1, <1>7, <1>8, <2>1, BehindScrub DEF Unsent, Unscrubbed
  <2> QED
    BY <1>7, <1>8, <2>2 DEF c
<1>9. CASE d.stage = "ledger"
  <2>1. Sel(d) = Sel(c)
    BY <1>7, SelSame
  <2>2. Flow(d)
    BY <1>1, <1>7, <1>9, <2>1 DEF Flow, SameMarks, SameRequest, Settled, Unsent, Unscrubbed
  <2>3. ~ d.hit
    BY <1>3, <1>7 DEF SameMarks
  <2> QED
    BY <1>7, <1>9, <2>2, <2>3 DEF c
<1> QED
  BY <1>6, <1>7, <1>8, <1>9

\* The executor skips a hop: nothing is sent.
LEMMA HopSkippedSafe ==
    ASSUME PipelineIInv, NEW r \in Requests, HopSkipped(r)
    PROVE  PipelineIInv'
<1> DEFINE d == NextHop(r, "provider_unavailable")
<1>1. ctx[r].stage = "hop" /\ Becomes(r, d)
  BY DEF HopSkipped, At
<1>2. Models # {}
  BY <1>1, OneRequest, CtxFields, PolicyFields
<1>3. /\ d \in Ctx /\ Flow(d) /\ SameRequest(ctx[r], d) /\ ~ d.hit
      /\ d.stage \in {"hop", "ledger"}
  BY <1>1, <1>2, NextHopFlows
<1>4. SentSound(ctx[r], sent[r])
  BY OneRequest
<1> HIDE DEF d
<1>5. SentSound(d, sent[r])
  BY <1>3, <1>4, SentSame DEF SentSound, Unsent, Unscrubbed
<1>6. ctx[r].stage \notin Settled
  BY <1>1 DEF Settled
<1> QED
  BY <1>1, <1>3, <1>5, <1>6, BecomesSafe

\* The message that a hop sends is one the properties allow: routeForModel()
\* has checked the model again, and hopEnvelope() picks the text.
LEMMA HopSends ==
    ASSUME NEW c \in Ctx, Flow(c), c.stage = "hop",
           NEW m, m = Chain(c)[c.hop], m \in c.policy.loaded, Routable(c, m)
    PROVE  m \in Models /\ SentRight(c, [to |-> m, text |-> HopText(c, m)])
<1> DEFINE s == [to |-> m, text |-> HopText(c, m)]
<1>1. s.to = m /\ s.text = HopText(c, m)
  OBVIOUS
<1>2. /\ Sel(c).err = "none" /\ Guarded(c) /\ c.hop \in 1 .. Len(Chain(c))
      /\ c.redacted => IsCloud(Sel(c).model)
  BY DEF Flow
<1>3. /\ m \in Models /\ m \in Configured(c.policy)
      /\ IsCloud(m) => IsCloud(Sel(c).model) \/ CloudInChain(c.policy)
  BY <1>2, ChainFacts
<1>4. /\ m \notin c.policy.blocked /\ (c.policy.localOnly => IsLocal(m))
      /\ Missing(c.policy, m) = {} /\ ~ (IsCloud(m) /\ c.barred)
  BY DEF Routable, Eligible, ModelViolation, IsLocal, IsCloud
<1>5. c.policy.needs \subseteq c.policy.has[m]
  BY <1>4 DEF Missing
<1> HIDE DEF s
<1>6. IsCloud(m) /\ c.messages = "protected" =>
        c.mode = "warn" \/ (c.mode = "redact" /\ s.text = "redacted")
  BY <1>1, <1>2, <1>3, <1>4 DEF Guarded, HopText
<1>7. IsLocal(Sel(c).model) /\ IsLocal(m) => s.text = "original"
  BY <1>1, <1>2 DEF HopText, IsLocal, IsCloud
<1>8. SentRight(c, s)
  BY <1>1, <1>3, <1>4, <1>5, <1>6, <1>7 DEF SentRight
<1> QED
  BY <1>3, <1>8 DEF s

\* The executor calls a hop, which serves the request or fails.
LEMMA HopCalledSafe ==
    ASSUME PipelineIInv, NEW r \in Requests, HopCalled(r)
    PROVE  PipelineIInv'
<1> DEFINE c == ctx[r]
           m == Candidates(r)[c.hop]
           s == [to |-> m, text |-> HopText(c, m)]
           S == sent[r] \cup {s}
           v == [c EXCEPT !.stage = "store", !.route = m, !.answer = m]
           n == [NextHop(r, "provider_unavailable") EXCEPT !.route = m]
<1>1. c \in Ctx /\ Flow(c) /\ SentSound(c, sent[r]) /\ c.stage = "hop"
  BY OneRequest DEF HopCalled, At
<1>2. m = Chain(c)[c.hop] /\ m \in c.policy.loaded /\ Routable(c, m)
  BY DEF HopCalled, Candidates, Chain, Sel, Selected
<1>3. m \in Models /\ SentRight(c, s)
  BY <1>1, <1>2, HopSends
<1>4. PICK d \in {v, n} : ctx' = [ctx EXCEPT ![r] = d]
  BY DEF HopCalled
<1>5. /\ sent' = [sent EXCEPT ![r] = S] /\ cache' = cache
      /\ ctx \in [Requests -> Ctx]
      /\ sent \in [Requests -> SUBSET [to : Models, text : {"original", "redacted"}]]
  BY DEF HopCalled, PipelineIInv, TypeOK
<1>6. s \in [to : Models, text : {"original", "redacted"}] /\ s.to = m
  BY <1>3 DEF HopText
<1>7. "store" \in Stages
  BY DEF Stages
<1> HIDE DEF c, m, s
<1>8. /\ d \in Ctx /\ Flow(d) /\ SameRequest(c, d) /\ ~ d.hit
      /\ d.stage \in {"hop", "ledger", "store"}
      /\ d.stage = "store" => d.answer = m
  <2>1. CASE d = v
    <3>1. d \in Ctx
      BY <1>1, <1>3, <1>7, <2>1 DEF Ctx
    <3>2. /\ d.stage = "store" /\ SameRequest(c, d) /\ SameMarks(c, d) /\ d.answer = m /\ d.route = m
      BY <1>1, <2>1 DEF Ctx, SameRequest, SameMarks
    <3>3. Flow(d) /\ ~ d.hit
      BY <1>1, <1>3, <3>1, <3>2, BehindScrub DEF Unsent, Unscrubbed
    <3> QED
      BY <3>1, <3>2, <3>3
  <2>2. CASE d = n
    <3>1. /\ d \in Ctx /\ Flow(d) /\ SameRequest(ctx[r], d) /\ ~ d.hit
          /\ d.stage \in {"hop", "ledger"}
      BY <1>1, <1>3, <2>2, NextHopFlows DEF c
    <3> QED
      BY <3>1 DEF c
  <2> QED
    BY <2>1, <2>2
<1> HIDE DEF v, n
<1>9. SentSound(d, S)
  <2>1. \A x \in S : SentRight(d, x)
    BY <1>1, <1>3, <1>8, SentSame DEF SentSound
  <2>2. \E x \in S : x.to = m
    BY <1>6
  <2> HIDE DEF S
  <2> QED
    BY <1>8, <2>1, <2>2 DEF SentSound, Unsent, Unscrubbed
<1>10. \A q \in Requests :
         /\ ctx'[q] = IF q = r THEN d ELSE ctx[q]
         /\ sent'[q] = IF q = r THEN S ELSE sent[q]
         /\ sent[q] \subseteq sent'[q]
  BY <1>4, <1>5
<1>11. TypeOK'
  <2>1. ctx' \in [Requests -> Ctx]
    BY <1>4, <1>5, <1>8
  <2>2. S \in SUBSET [to : Models, text : {"original", "redacted"}]
    BY <1>5, <1>6
  <2> HIDE DEF S
  <2>3. sent' \in [Requests -> SUBSET [to : Models, text : {"original", "redacted"}]]
    BY <1>5, <2>2
  <2> QED
    BY <1>5, <2>1, <2>3 DEF PipelineIInv, TypeOK
<1> HIDE DEF S
<1>12. \A q \in Requests : Flow(ctx'[q]) /\ SentSound(ctx'[q], sent'[q])
  BY <1>8, <1>9, <1>10 DEF PipelineIInv
<1>13. c.stage \notin Settled
  BY <1>1 DEF Settled
<1>14. \A q \in Requests : \A f, t, a :
         Origin(ctx[q], sent[q], f, t, a) => Origin(ctx'[q], sent'[q], f, t, a)
  BY <1>4, <1>8, <1>10, <1>13, OriginStays DEF c
<1>15. \A k \in DOMAIN cache' : \E q \in Requests : Origin(ctx'[q], sent'[q], k[1], k[3], cache'[k])
  BY <1>5, <1>14 DEF PipelineIInv, CacheSound
<1>16. ASSUME NEW x \in Requests, ctx'[x].hit
       PROVE  \E q \in Requests \ {x} :
                Origin(ctx'[q], sent'[q], ctx'[x].firm, ctx'[x].messages, ctx'[x].answer)
  <2>1. x # r /\ ctx'[x] = ctx[x]
    BY <1>8, <1>10, <1>16
  <2> QED
    BY <2>1, <1>14, <1>16 DEF PipelineIInv, CacheSound
<1>17. CacheSound'
  BY <1>15, <1>16 DEF CacheSound
<1> QED
  BY <1>11, <1>12, <1>17 DEF PipelineIInv

\* The response is stored under the request's own firm and messages.
LEMMA StoreSafe ==
    ASSUME PipelineIInv, NEW r \in Requests, Store(r)
    PROVE  PipelineIInv'
<1> DEFINE c == ctx[r]
           d == [c EXCEPT !.stage = "ledger"]
           key == IF c.key # NoModel THEN c.key ELSE KeyFor(c, c.route)
<1>1. c \in Ctx /\ Flow(c) /\ SentSound(c, sent[r]) /\ c.stage = "store"
  BY OneRequest DEF Store, At
<1>2. /\ ctx' = [ctx EXCEPT ![r] = d] /\ sent' = sent
      /\ cache' = IF key = NoModel THEN cache
                  ELSE [k \in DOMAIN cache \cup {key} |-> IF k = key THEN c.answer ELSE cache[k]]
      /\ ctx \in [Requests -> Ctx]
  BY DEF Store, PipelineIInv, TypeOK
<1>3. PICK s \in sent[r] : s.to = c.answer
  BY <1>1 DEF SentSound
<1>4. c.answer \in Models
  BY <1>3 DEF PipelineIInv, TypeOK
<1>5. key # NoModel => key \in Keys /\ key[1] = c.firm /\ key[3] = c.messages
  <2>1. /\ c.firm \in Firms /\ c.messages \in Messages /\ c.route \in Models \cup {NoModel}
        /\ c.key \in Keys \cup {NoModel}
        /\ c.key # NoModel => c.key[1] = c.firm /\ c.key[3] = c.messages
    BY <1>1, CtxFields DEF Flow
  <2>2. \/ key = NoModel
        \/ key = c.key /\ c.key # NoModel
        \/ key = <<c.firm, c.route, c.messages>>
    BY DEF KeyFor
  <2>3. c.route \in Models
    BY <1>1 DEF Flow
  <2> HIDE DEF key
  <2> QED
    BY <2>1, <2>2, <2>3 DEF Keys
<1>6. "ledger" \in Stages /\ "none" \in Codes
  BY DEF Stages, Codes
<1> HIDE DEF c, key
<1>7. /\ d \in Ctx /\ d.stage = "ledger" /\ SameRequest(c, d) /\ SameMarks(c, d)
  BY <1>1, <1>6, StageSet
<1> HIDE DEF d
<1>8. Flow(d) /\ SentSound(d, sent[r]) /\ ~ d.hit
  <2>1. ~ c.hit
    BY <1>1 DEF Flow, Settled
  <2> QED
    BY <1>1, <1>7, <2>1, Settles DEF Settled, SameMarks
<1>9. \A q \in Requests : ctx'[q] = IF q = r THEN d ELSE ctx[q]
  BY <1>2
<1>10. TypeOK'
  <2>1. ctx' \in [Requests -> Ctx]
    BY <1>2, <1>7
  <2>2. DOMAIN cache' \subseteq Keys /\ \A k \in DOMAIN cache' : cache'[k] \in Models
    BY <1>2, <1>4, <1>5 DEF PipelineIInv, TypeOK
  <2> QED
    BY <1>2, <2>1, <2>2 DEF PipelineIInv, TypeOK
<1>11. \A q \in Requests : Flow(ctx'[q]) /\ SentSound(ctx'[q], sent'[q])
  BY <1>2, <1>8, <1>9 DEF PipelineIInv
<1>12. c.stage \notin Settled
  BY <1>1 DEF Settled
<1>13. \A q \in Requests : \A f, t, a :
         Origin(ctx[q], sent[q], f, t, a) => Origin(ctx'[q], sent'[q], f, t, a)
  BY <1>2, <1>7, <1>12, OriginStays DEF c
<1>14. Origin(ctx'[r], sent'[r], c.firm, c.messages, c.answer)
  BY <1>2, <1>3, <1>7, <1>9 DEF Origin, SameRequest, Settled
<1>15. \A k \in DOMAIN cache' : \E q \in Requests : Origin(ctx'[q], sent'[q], k[1], k[3], cache'[k])
  <2>1. CASE key = NoModel
    BY <2>1, <1>2, <1>13 DEF PipelineIInv, CacheSound
  <2>2. ASSUME key # NoModel, NEW k \in DOMAIN cache'
        PROVE  \E q \in Requests : Origin(ctx'[q], sent'[q], k[1], k[3], cache'[k])
    <3>1. /\ k \in DOMAIN cache \cup {key}
          /\ cache'[k] = IF k = key THEN c.answer ELSE cache[k]
      BY <2>2, <1>2
    <3>2. CASE k = key
      BY <3>1, <3>2, <2>2, <1>5, <1>14
    <3>3. CASE k # key
      BY <3>1, <3>3, <1>13 DEF PipelineIInv, CacheSound
    <3> QED
      BY <3>2, <3>3
  <2> QED
    BY <2>1, <2>2
<1>16. ASSUME NEW x \in Requests, ctx'[x].hit
       PROVE  \E q \in Requests \ {x} :
                Origin(ctx'[q], sent'[q], ctx'[x].firm, ctx'[x].messages, ctx'[x].answer)
  <2>1. x # r /\ ctx'[x] = ctx[x]
    BY <1>8, <1>9, <1>16
  <2> QED
    BY <2>1, <1>13, <1>16 DEF PipelineIInv, CacheSound
<1>17. CacheSound'
  BY <1>15, <1>16 DEF CacheSound
<1> QED
  BY <1>10, <1>11, <1>17 DEF PipelineIInv

\* The ledger stage ends the request.
LEMMA StageLedgerSafe ==
    ASSUME PipelineIInv, NEW r \in Requests, StageLedger(r)
    PROVE  PipelineIInv'
<1> DEFINE c == ctx[r]
<1>1. c \in Ctx /\ Flow(c) /\ SentSound(c, sent[r]) /\ c.stage = "ledger"
  BY OneRequest DEF StageLedger, At
<1>2. c.hit => \E q \in Requests \ {r} : Origin(ctx[q], sent[q], c.firm, c.messages, c.answer)
  BY OneRequest
<1>3. "done" \in Stages /\ Goto(r, "done")
  BY DEF Stages, StageLedger
<1>4. PICK d \in Ctx : /\ Becomes(r, d) /\ d.stage = "done"
                       /\ SameRequest(c, d) /\ SameMarks(c, d) /\ d.answer = c.answer
  BY <1>3, GotoFacts
<1>5. Flow(d) /\ SentSound(d, sent[r]) /\ d.stage \in Settled
  BY <1>1, <1>4, Settles DEF Settled
<1>6. d.firm = c.firm /\ d.messages = c.messages /\ d.hit = c.hit
  BY <1>4 DEF SameRequest, SameMarks
<1> HIDE DEF c
<1> QED
  BY <1>2, <1>4, <1>5, <1>6, BecomesSafe DEF c

\* Eviction only forgets.
LEMMA EvictSafe ==
    ASSUME PipelineIInv, Evict
    PROVE  PipelineIInv'
<1>1. PICK k \in DOMAIN cache : cache' = [x \in DOMAIN cache \ {k} |-> cache[x]]
  BY DEF Evict
<1>2. ctx' = ctx /\ sent' = sent
  BY DEF Evict
<1>3. \A x \in DOMAIN cache' : x \in DOMAIN cache /\ cache'[x] = cache[x]
  BY <1>1
<1>4. TypeOK'
  BY <1>2, <1>3 DEF PipelineIInv, TypeOK
<1>5. CacheSound'
  BY <1>2, <1>3 DEF PipelineIInv, CacheSound
<1> QED
  BY <1>2, <1>4, <1>5 DEF PipelineIInv

\* Before the first request.
LEMMA PipelineInitSafe == PipelineInit => PipelineIInv
<1> SUFFICES ASSUME PipelineInit PROVE PipelineIInv
  OBVIOUS
<1> DEFINE f == CHOOSE f \in Firms : TRUE
           d == [NewCtx(f, "plain", NoModel) EXCEPT !.stage = "idle"]
<1>1. f \in Firms /\ "plain" \in Messages
  BY PipelineAssumption DEF Messages
<1>2. ctx = [r \in Requests |-> d] /\ cache = <<>> /\ sent = [r \in Requests |-> {}]
  BY DEF PipelineInit
<1> HIDE DEF f
<1>3. d \in Ctx /\ Flow(d) /\ SentSound(d, {}) /\ d.hit = FALSE
  BY ZenonT(40), <1>1, NewCtxFlows
<1> HIDE DEF d
<1>4. TypeOK
  BY <1>2, <1>3 DEF TypeOK
<1>5. CacheSound
  BY <1>2, <1>3 DEF CacheSound
<1> QED
  BY <1>2, <1>3, <1>4, <1>5 DEF PipelineIInv

\* Every step of every request, in any interleaving.
LEMMA PipelineStepSafe ==
    ASSUME PipelineIInv, [PipelineNext]_pipelineVars
    PROVE  PipelineIInv'
<1>1. CASE UNCHANGED pipelineVars
  BY <1>1 DEF pipelineVars, PipelineIInv, TypeOK, CacheSound
<1>2. CASE Evict
  BY <1>2, EvictSafe
<1>3. ASSUME NEW r \in Requests,
             \/ Arrive(r) \/ StageAuth(r) \/ StagePolicy(r) \/ StageBudget(r)
             \/ StageScrub(r) \/ StageRoute(r) \/ Lookup(r)
             \/ HopSkipped(r) \/ HopCalled(r) \/ Store(r) \/ StageLedger(r)
      PROVE  PipelineIInv'
  BY <1>3, ArriveSafe, FirstStagesSafe, StageScrubSafe, StageRouteSafe, LookupSafe,
     HopSkippedSafe, HopCalledSafe, StoreSafe, StageLedgerSafe
<1> QED
  BY <1>1, <1>2, <1>3 DEF PipelineNext

\* The inductive invariant holds of every execution.
LEMMA PipelineInductive == PipelineSpec => []PipelineIInv
<1>1. PipelineInit => PipelineIInv
  BY PipelineInitSafe
<1>2. PipelineIInv /\ [PipelineNext]_pipelineVars => PipelineIInv'
  BY PipelineStepSafe
<1> QED
  BY <1>1, <1>2, PTL DEF PipelineSpec

\* Every value that the pipeline stores is of its kind: contexts, the cache's
\* entries, and messages sent to existing models only.
THEOREM PipelineTypes == PipelineSpec => []TypeOK
<1>1. PipelineIInv => TypeOK
  BY DEF PipelineIInv
<1> QED
  BY <1>1, PipelineInductive, PTL

\* For any policies: in redact mode a cloud model sees only the redacted copy
\* of protected data, in block mode nothing, on whichever hop.
THEOREM NothingProtectedLeaves == PipelineSpec => []NoProtectedEgress
  BY PipelineInductive, PipelineIInvImplies, PTL

\* For any policies: behind a local primary, local models see the original.
THEOREM LocalSeesOriginal == PipelineSpec => []LocalPrimarySeesOriginal
  BY PipelineInductive, PipelineIInvImplies, PTL

\* For any policies, every model called, on whichever hop, is configured for the class,
\* not blocked, local if the class is local_only, and has what is needed.
THEOREM EligibleModelsOnly == PipelineSpec => []OnlyEligibleCalled
  BY PipelineInductive, PipelineIInvImplies, PTL

\* For any interleaving of any firms' requests, a cache hit replays an answer that
\* another request of the same firm got to the same messages.
THEOREM CacheIsolatesFirms == PipelineSpec => []CacheIsolation
  BY PipelineInductive, PipelineIInvImplies, PTL

=============================================================================
