---------------------------- MODULE PolicyAdmin ----------------------------
(***************************************************************************)
(* Policy administration and the engine's cache.  Writers: the console's   *)
(* task-class, policy and import routes (src/admin-api/routes.ts,          *)
(* src/policy/save.ts), registration by applications (registration.ts) and *)
(* the default pack (pack.ts).  Reader: PolicyEngine.resolve()             *)
(* (engine.ts), which assembles an effective policy in several queries and *)
(* keeps it until its TTL ends or a writer calls invalidate().             *)
(*                                                                         *)
(* Sensitivity is its rank: local_only 0, cloud_deidentified 1,            *)
(* cloud_allowed 2; Absent for a class that is not registered.  The models *)
(* that a policy binds (default, allowed, fallback) are one set: every     *)
(* check made here is made for each of them.  Meanwhile discovery flags    *)
(* known models of the catalog as third-party-hosted (discovery.ts).       *)
(***************************************************************************)
EXTENDS Integers, Sequences, FiniteSets, Functions, TLC

CONSTANTS
    Classes, Bindable,
    LocalTier,      \* models whose provider kind is local
    ThirdParty,     \* models that are, or will be, flagged thirdPartyHosted
    Capable,        \* models that have what a demanding class requires
    Levels,         \* sensitivities to explore
    Needs,          \* requirements to explore: demanding or not
    Files,          \* exports to import: [classes, policies], both sequences
    Pack,           \* DEFAULT_PACK: class -> [sens, needs]
    Writers,        \* handlers in progress at once
    MaxWrites       \* bound: writes to the two tables

Absent == -1
NoPolicy == [bound |-> {}, ack |-> {}, seen |-> {}]
NoRow == [sens |-> Absent, needs |-> FALSE]
NoFile == [classes |-> <<>>, policies |-> <<>>]

ASSUME PolicyAdminAssumption ==
    /\ Levels \subseteq 0..2 /\ Needs \subseteq BOOLEAN /\ MaxWrites \in Nat
    /\ LocalTier \subseteq Bindable /\ ThirdParty \subseteq Bindable /\ Capable \subseteq Bindable
    /\ Pack \in [DOMAIN Pack -> [sens : Levels, needs : BOOLEAN]] /\ DOMAIN Pack \subseteq Classes
    /\ Classes # {} /\ 0 \in Levels
    /\ \A f \in Files :
        /\ f.classes \in Seq([class : Classes, sens : Levels, needs : BOOLEAN])
        /\ f.policies \in Seq([class : Classes, bound : SUBSET Bindable, ack : SUBSET ThirdParty])

VARIABLES
    class,      \* task_classes: class -> [sens, needs]
    policy,     \* policies of the firm: class -> [bound, ack, seen]; seen is history:
                \* the flags that were set when the policy was made
    flagged,    \* models.thirdPartyHosted
    job,        \* handler -> what it is doing
    entry,      \* the engine's cache, a map from classes to effective policies
    fill,       \* resolve() in progress
    acked,      \* history: <<class, model>> pairs that somebody acknowledged
    writes      \* writes so far

policyVars == <<class, policy, flagged, job, entry, fill, acked, writes>>

AnyClass == CHOOSE c \in Classes : TRUE
Idle == [pc |-> "idle", class |-> AnyClass, row |-> NoRow, pol |-> NoPolicy, file |-> NoFile, i |-> 0]
NoFill == [at |-> "none", class |-> AnyClass, row |-> NoRow, pol |-> NoPolicy]

PolicyAdminTypeOK ==
    /\ class \in [Classes -> [sens : Levels \cup {Absent}, needs : BOOLEAN]]
    /\ policy \in [Classes -> [bound : SUBSET Bindable, ack : SUBSET ThirdParty, seen : SUBSET ThirdParty]]
    /\ flagged \subseteq ThirdParty
    /\ DOMAIN entry \subseteq Classes
    /\ \A c \in DOMAIN entry : entry[c].row.sens \in Levels /\ entry[c].pol # NoPolicy
    /\ fill.at \in {"none", "class", "policy"}
    /\ writes \in 0..MaxWrites

PolicyAdminInit ==
    /\ class = [c \in Classes |-> NoRow]
    /\ policy = [c \in Classes |-> NoPolicy]
    /\ flagged \in SUBSET ThirdParty
    /\ job = [h \in Writers |-> Idle]
    /\ entry = <<>>
    /\ fill = NoFill
    /\ acked = {}
    /\ writes = 0

-----------------------------------------------------------------------------
Exists(c) == class[c].sens # Absent

\* configTimeViolation() of model m for a class with row k.
ConfigTimeViolation(m, k) == (k.sens = 0 /\ m \notin LocalTier) \/ (k.needs /\ m \notin Capable)

\* The gate of savePolicy(): every bound model passes, and a third-party one
\* has been acknowledged, now or on the existing policy.
Gate(c, bound, ack) ==
    \A m \in bound : ~ ConfigTimeViolation(m, class[c]) /\ (m \in flagged => m \in ack \cup policy[c].ack)

\* The values to write: acknowledgements pruned to what is bound.
Values(c, bound, ack) ==
    [bound |-> bound, ack |-> bound \cap flagged \cap (ack \cup policy[c].ack), seen |-> flagged]

SetJob(h, j) == job' = [job EXCEPT ![h] = j]
Counted == writes < MaxWrites /\ writes' = writes + 1
EngineUnchanged == UNCHANGED <<entry, fill>>

\* PUT policies: the reads of savePolicy() and its gate.
SaveRead(h, c, bound, ack) ==
    /\ job[h].pc = "idle"
    /\ Exists(c) /\ Gate(c, bound, ack)
    /\ SetJob(h, [Idle EXCEPT !.pc = "save", !.class = c, !.pol = Values(c, bound, ack)])
    /\ acked' = acked \cup {<<c, m>> : m \in ack}
    /\ UNCHANGED <<class, policy, flagged, writes>> /\ EngineUnchanged

\* ... its write; invalidate() follows when the statement has returned.
SaveWrite(h) ==
    /\ job[h].pc \in {"save", "import save"}
    /\ Counted
    /\ policy' = [policy EXCEPT ![job[h].class] = job[h].pol]
    /\ SetJob(h, [job[h] EXCEPT !.pc = IF @ = "save" THEN "invalidate" ELSE "import invalidate"])
    /\ UNCHANGED <<class, flagged, acked>> /\ EngineUnchanged

\* PATCH task-classes: the operator's way to change sensitivity.
PatchClass(h, c, s) ==
    /\ job[h].pc = "idle"
    /\ Exists(c) /\ class[c].sens # s
    /\ Counted
    /\ class' = [class EXCEPT ![c].sens = s]
    /\ SetJob(h, [Idle EXCEPT !.pc = "invalidate"])
    /\ UNCHANGED <<policy, flagged, acked>> /\ EngineUnchanged

PackSens(c) == IF c \in DOMAIN Pack THEN Pack[c].sens ELSE 0

\* Mutant: registration re-applies the pack's sensitivity.
RegisterResets(h, c, needs) ==
    /\ job[h].pc = "idle"
    /\ Counted
    /\ class' = [class EXCEPT ![c] = [sens |-> PackSens(c), needs |-> needs]]
    /\ SetJob(h, [Idle EXCEPT !.pc = "invalidate"])
    /\ UNCHANGED <<policy, flagged, acked>> /\ EngineUnchanged

\* POST task-classes/register: a new class gets the pack's sensitivity or the
\* most restrictive one, an existing one keeps what it has.
Register(h, c, needs) ==
    /\ job[h].pc = "idle"
    /\ Counted
    /\ class' = [class EXCEPT ![c] = [sens |-> IF Exists(c) THEN @.sens ELSE PackSens(c), needs |-> needs]]
    /\ SetJob(h, [Idle EXCEPT !.pc = "invalidate"])
    /\ UNCHANGED <<policy, flagged, acked>> /\ EngineUnchanged

\* Mutant: third-party-hosted models are picked like others.
PickAnyModel(e) == {m \in Bindable : e.needs => m \in Capable}

\* pickDefaultModel(): one capable model that is not flagged, local
\* if there is one.
PickDefaultModel(e) ==
    LET capable == {m \in Bindable \ flagged : e.needs => m \in Capable}
        locals == capable \cap LocalTier
    IN  IF e.sens = 0 \/ locals # {} THEN locals ELSE capable

\* applyDefaultPack() for one entry, by the installer: a process of its own,
\* which has no cache to invalidate.
ApplyPack(c) ==
    /\ c \in DOMAIN Pack
    /\ ~ Exists(c) \/ policy[c] = NoPolicy
    /\ Counted
    /\ class' = [class EXCEPT ![c] = IF Exists(c) THEN @ ELSE Pack[c]]
    /\ \/ /\ policy[c] = NoPolicy
          /\ \E m \in PickDefaultModel(Pack[c]) :
                policy' = [policy EXCEPT ![c] = [bound |-> {m}, ack |-> {}, seen |-> flagged]]
       \/ /\ policy[c] # NoPolicy \/ PickDefaultModel(Pack[c]) = {}
          /\ UNCHANGED policy
    /\ UNCHANGED <<flagged, job, acked>> /\ EngineUnchanged

\* Discovery flags a row that is known, after an upgrade or a revision of the
\* list; no flag is ever taken back, and no policy is looked at.
Retag(m) ==
    /\ m \in ThirdParty \ flagged
    /\ flagged' = flagged \cup {m}
    /\ UNCHANGED <<class, policy, job, acked, writes>> /\ EngineUnchanged

-----------------------------------------------------------------------------
\* POST policies/import.  The file's classes come first, one by one: read ...
ImportBegin(h, f) ==
    /\ job[h].pc = "idle"
    /\ SetJob(h, [Idle EXCEPT !.pc = "import class", !.file = f, !.i = 1])
    /\ acked' = acked \cup UNION {{<<p.class, m>> : m \in p.ack} : p \in Range(f.policies)}
    /\ UNCHANGED <<class, policy, flagged, writes>> /\ EngineUnchanged

ImportReadClass(h) ==
    /\ job[h].pc = "import class"
    /\ LET j == job[h]
       IN  SetJob(h, IF j.i <= Len(j.file.classes)
                     THEN [j EXCEPT !.pc = "import write", !.class = j.file.classes[j.i].class,
                                    !.row = class[j.file.classes[j.i].class]]
                     ELSE [j EXCEPT !.pc = "import policy", !.i = 1])
    /\ UNCHANGED <<class, policy, flagged, acked, writes>> /\ EngineUnchanged

\* "import never RELAXES sensitivity": the stricter of the file's and the
\* sensitivity that was read.
Stricter(row, s) == IF row.sens # Absent /\ row.sens < s THEN row.sens ELSE s

\* ... then written; an insert of a key that exists by now fails.
ImportWriteClass(h) ==
    LET j == job[h]
        k == j.file.classes[j.i]
    IN  /\ j.pc = "import write"
        /\ j.row.sens = Absent => ~ Exists(j.class)
        /\ Counted
        /\ class' = [class EXCEPT ![j.class] = [sens |-> Stricter(j.row, k.sens), needs |-> k.needs]]
        /\ SetJob(h, [j EXCEPT !.pc = "import class", !.i = @ + 1])
        /\ UNCHANGED <<policy, flagged, acked>> /\ EngineUnchanged

\* Then its policies, each through savePolicy().  One that is refused ends
\* the import; what was written stays, and nothing is invalidated.
ImportReadPolicy(h) ==
    LET j == job[h]
        p == j.file.policies[j.i]
    IN  /\ j.pc = "import policy"
        /\ SetJob(h, IF j.i > Len(j.file.policies) THEN [j EXCEPT !.pc = "invalidate"]
                     ELSE IF ~ Exists(p.class) \/ ~ Gate(p.class, p.bound, p.ack) THEN Idle
                     ELSE [j EXCEPT !.pc = "import save", !.class = p.class,
                                    !.pol = Values(p.class, p.bound, p.ack)])
        /\ UNCHANGED <<class, policy, flagged, acked, writes>> /\ EngineUnchanged

\* A statement of the handler fails, or the loop of a registration does.
GivesUp(h) ==
    /\ job[h].pc # "idle"
    /\ SetJob(h, Idle)
    /\ UNCHANGED <<class, policy, flagged, acked, writes>> /\ EngineUnchanged

\* engine.invalidate(), for the handler's firm or for all.
Invalidate(h) ==
    /\ job[h].pc \in {"invalidate", "import invalidate"}
    /\ entry' = <<>>
    /\ SetJob(h, IF job[h].pc = "invalidate" THEN Idle ELSE [job[h] EXCEPT !.pc = "import policy", !.i = @ + 1])
    /\ UNCHANGED <<class, policy, flagged, fill, acked, writes>>

-----------------------------------------------------------------------------
\* What resolve() would find now.
Effective(c) == [row |-> class[c], pol |-> policy[c]]

\* resolve() of a class that is not cached: the class is read ...
ResolveClass(c) ==
    /\ fill.at = "none"
    /\ c \notin DOMAIN entry
    /\ Exists(c)
    /\ fill' = [at |-> "class", class |-> c, row |-> class[c], pol |-> NoPolicy]
    /\ UNCHANGED <<class, policy, flagged, job, entry, acked, writes>>

\* ... then its policy; none: policy_blocked ...
ResolvePolicy ==
    /\ fill.at = "class"
    /\ fill' = IF policy[fill.class] = NoPolicy THEN NoFill
               ELSE [fill EXCEPT !.at = "policy", !.pol = policy[fill.class]]
    /\ UNCHANGED <<class, policy, flagged, job, entry, acked, writes>>

\* ... then the models and role rules; and the entry is stored, whatever was
\* invalidated meanwhile.
ResolveStore ==
    /\ fill.at = "policy"
    /\ entry' = [c \in DOMAIN entry \cup {fill.class} |->
                    IF c = fill.class THEN [row |-> fill.row, pol |-> fill.pol] ELSE entry[c]]
    /\ fill' = NoFill
    /\ UNCHANGED <<class, policy, flagged, job, acked, writes>>

\* Mutant: a hit renews the entry.
NeverExpires(c) == c \in DOMAIN entry /\ UNCHANGED policyVars

\* The TTL of an entry ends.
Expires(c) ==
    /\ c \in DOMAIN entry
    /\ entry' = Restrict(entry, DOMAIN entry \ {c})
    /\ UNCHANGED <<class, policy, flagged, job, fill, acked, writes>>

WriterStep(h) ==
    \/ \E c \in Classes :
        \/ \E b \in SUBSET Bindable \ {{}}, a \in SUBSET ThirdParty : SaveRead(h, c, b, a)
        \/ \E s \in Levels : PatchClass(h, c, s)
        \/ \E n \in Needs : Register(h, c, n)
    \/ SaveWrite(h)
    \/ \E f \in Files : ImportBegin(h, f)
    \/ ImportReadClass(h) \/ ImportWriteClass(h) \/ ImportReadPolicy(h)
    \/ Invalidate(h) \/ GivesUp(h)

PolicyAdminNext ==
    \/ \E h \in Writers : WriterStep(h)
    \/ \E c \in Classes : ApplyPack(c) \/ ResolveClass(c) \/ Expires(c)
    \/ \E m \in ThirdParty : Retag(m)
    \/ ResolvePolicy \/ ResolveStore

PolicyAdminSpec == PolicyAdminInit /\ [][PolicyAdminNext]_policyVars

-----------------------------------------------------------------------------
\* No class is relaxed but by the operator's PATCH: not by registration, by
\* the pack or by an import, unless that import read a sensitivity that
\* has been changed since (save.ts, registration.ts: "sensitivity NEVER moves
\* here").
WidenedOnlyByOperator ==
    [][\A c \in Classes :
        Exists(c) /\ class'[c].sens > class[c].sens =>
            \/ \E h \in Writers, s \in Levels : PatchClass(h, c, s)
            \/ \E h \in Writers : job[h].pc = "import write" /\ job[h].row.sens # class[c].sens]_policyVars

\* A third-party-hosted model is bound only where somebody acknowledged it
\* for that class, on whatever way the policy came (Q-098, Q-100), or where it
\* was flagged after the catalog was read for that policy: "reported at boot
\* and after every discovery run", a binding that was not flagged yet keeps its
\* traffic until the policy is saved again (save.ts, scheduler.ts).
ThirdPartyAcknowledged ==
    \A c \in Classes :
        /\ \A m \in policy[c].bound \cap flagged : m \in policy[c].ack \/ m \notin policy[c].seen
        /\ \A m \in policy[c].ack : <<c, m>> \in acked

\* "explicit invalidation on config change + TTL backstop" (7.2): once nobody
\* writes any more, requests are served what is configured, although a fill
\* may overtake an invalidation and a failed import invalidates nothing.
EventuallyFresh ==
    <>[](\A c \in DOMAIN entry : entry[c] = Effective(c))

=============================================================================
