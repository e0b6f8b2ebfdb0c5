------------------------------- MODULE Verify -------------------------------
(***************************************************************************)
(* Verification of a provider's answer (src/gateway/verify.ts): a 200 that *)
(* does not carry what the request asked for is a failure of the hop.  The *)
(* schema validator is modelled with its two collectors, the enum misses   *)
(* that structural mode tolerates and the enum hits by which a value names *)
(* its variant of a union, both of which outlive a refusal.  Of either     *)
(* only whether there is one is kept.                                      *)
(* A value is [t, v] for a scalar, [t, f] for an object with its fields,   *)
(* [t, s] for an array.  Keywords absent from a schema are empty.          *)
(***************************************************************************)
EXTENDS Integers, Sequences, FiniteSetsExt

CONSTANTS
    Cases,      \* what to verify: [res, asked, default]
    Values,     \* the values, with their fields and elements
    Schemas,    \* the schemas, with their subschemas
    Height      \* how deep a schema is nested

Subschemas(s) ==
    {s.branches[i] : i \in DOMAIN s.branches} \cup {s.props[i].of : i \in DOMAIN s.props}
        \cup {s.items[i] : i \in DOMAIN s.items}

\* A schema is a tree: verify.ts follows no $ref.
ASSUME VerifyAssumption ==
    /\ Height \in [Schemas -> Nat]
    /\ \A s \in Schemas :
        /\ s.branches \in Seq(Schemas) /\ s.items \in Seq(Schemas)
        /\ \A c \in Subschemas(s) : c \in Schemas /\ Height[c] < Height[s]
    /\ \A v \in Values :
        /\ v.t = "object" => \A key \in DOMAIN v.f : v.f[key] \in Values
        /\ v.t = "array" => v.s \in Seq(Values)
    /\ \A c \in Cases :
        /\ c.asked.schema \in Schemas /\ c.res.content.value \in Values
        /\ \A i \in DOMAIN c.res.calls : c.res.calls[i].value \in Values

VARIABLES
    given,        \* the case
    verdict       \* none yet, or what verifyResponse() made of it

verifyVars == <<given, verdict>>

NoVerdict == [reason |-> "pending", missed |-> FALSE]

VerifyInit == given \in Cases /\ verdict = NoVerdict

-----------------------------------------------------------------------------
\* typeMatches()
TypeMatches(v, expected) ==
    IF expected = "number" THEN v.t \in {"integer", "fraction"} ELSE v.t = expected

Permitted(s) == s.types \cup (IF s.nullable THEN {"null"} ELSE {})
TypeFits(v, s) == s.types # {} => \E t \in Permitted(s) : TypeMatches(v, t)

Clean == [ok |-> TRUE, missed |-> FALSE, hit |-> FALSE]
Refused(a) == [a EXCEPT !.ok = FALSE]

\* What was found, then the findings of parts, one after the other up to the
\* first refusal; a refusal keeps what was collected before it.
Collect(found, parts) ==
    LET reached == {i \in DOMAIN parts : \A j \in DOMAIN parts : j < i => parts[j].ok}
    IN  [ok |-> found.ok /\ \A i \in DOMAIN parts : parts[i].ok,
         missed |-> found.missed \/ \E i \in reached : parts[i].missed,
         hit |-> found.hit \/ \E i \in reached : parts[i].hit]

\* The enum of s: a miss is noted in structural (soft) mode, refused otherwise.
EnumCheck(v, s, soft) ==
    [ok |-> s.enum = {} \/ v \in s.enum \/ soft,
     missed |-> s.enum # {} /\ v \notin s.enum /\ soft,
     hit |-> v \in s.enum]

\* Mutant: the first branch that fits structurally absorbs the value.
UnionAbsorbs(judge, v, branches, soft) ==
    LET fits == {i \in DOMAIN branches : judge[<<v, branches[i], soft>>].ok}
    IN  IF fits = {} THEN Refused(Clean) ELSE judge[<<v, branches[Min(fits)], soft>>]

\* anyOf / oneOf.  First every branch is strict.  Then, in structural mode, a
\* branch that the value names by its enums has authority to refuse it; else
\* the first branch that fits contributes its misses.
Union(judge, v, branches, soft) ==
    LET Tried(i) == judge[<<v, branches[i], TRUE>>]
        fits == {i \in DOMAIN branches : Tried(i).ok}
        named == {i \in DOMAIN branches \ fits : Tried(i).hit /\ ~ Tried(i).missed}
    IN  CASE \E i \in DOMAIN branches : judge[<<v, branches[i], FALSE>>].ok -> Clean
          [] OTHER -> IF soft /\ named = {} /\ fits # {} THEN Tried(Min(fits)) ELSE Refused(Clean)

\* The fields of object v: those present, in the order of the schema's
\* properties; then the required ones.
Fields(judge, v, s, soft, found) ==
    LET present == {i \in DOMAIN s.props : s.props[i].key \in DOMAIN v.f}
        seen == Collect(found, [i \in present |-> judge[<<v.f[s.props[i].key], s.props[i].of, soft>>]])
    IN  IF seen.ok /\ ~ s.required \subseteq DOMAIN v.f THEN Refused(seen) ELSE seen

\* validateSchemaSubset(), with judge for the nested calls: branches hide the
\* keywords beside them.
Judge(judge, v, s, soft) ==
    LET found == EnumCheck(v, s, soft)
    IN  IF ~ found.ok THEN found
        ELSE IF s.branches # <<>> THEN Collect(found, <<Union(judge, v, s.branches, soft)>>)
        ELSE IF ~ TypeFits(v, s) THEN Refused(found)
        ELSE CASE v.t = "object" -> Fields(judge, v, s, soft, found)
               [] v.t = "array" /\ s.items # <<>> ->
                    Collect(found, [i \in DOMAIN v.s |-> judge[<<v.s[i], s.items[1], soft>>]])
               [] OTHER -> found

Checked == Values \X Schemas \X BOOLEAN
Validate[x \in Checked] == Judge(Validate, x[1], x[2], x[3])

\* resolveValidationMode(): the request's own mode, else OpenAI's strict, else
\* the deployment's default.
ResolveValidationMode(asked, default) ==
    CASE asked.type # "json_schema" -> default
      [] asked.type = "json_schema" /\ asked.validation # "unset" -> asked.validation
      [] OTHER -> IF asked.strict THEN "strict" ELSE default

\* JSON.parse(), of text that may be fenced once the fence is stripped.
IsJson(text) == text.kind = "json"
IsFencedJson(text) == text.kind \in {"json", "fenced"}

\* verifyResponse(): the first reason that makes the answer unusable.
VerifyResponse(res, asked, default) ==
    LET blank == res.content.kind = "blank"
        wantsJson == asked.type \in {"json_schema", "json_object"}
        source == IF blank /\ res.calls # <<>> THEN res.calls[1] ELSE res.content
        found == Validate[<<source.value, asked.schema, ResolveValidationMode(asked, default) # "strict">>]
        Finding(reason) == [reason |-> reason, missed |-> FALSE]
    IN  CASE res.finish = "error" -> Finding("provider_error_finish")
          [] res.finish # "error" /\ blank /\ res.calls = <<>> /\ res.finish # "content_filter" ->
                Finding("empty_response")
          [] OTHER ->
                IF \E i \in DOMAIN res.calls : ~ IsJson(res.calls[i]) THEN Finding("tool_arguments_not_json")
                ELSE IF ~ wantsJson THEN Finding("none")
                ELSE IF res.finish = "length" THEN Finding("json_truncated")
                ELSE IF ~ IsFencedJson(source) THEN Finding("response_not_json")
                ELSE IF asked.type = "json_object" THEN Finding("none")
                ELSE IF ~ found.ok THEN Finding("schema_violation")
                ELSE [reason |-> "none", missed |-> found.missed]

\* A hop has answered (executeHopWithRetries).
VerifyHop ==
    /\ verdict = NoVerdict
    /\ verdict' = VerifyResponse(given.res, given.asked, given.default)
    /\ UNCHANGED given

VerifyNext == VerifyHop

VerifySpec == VerifyInit /\ [][VerifyNext]_verifyVars

-----------------------------------------------------------------------------
\* Reference: v is an instance of schema s; of its shape only unless exact,
\* that is without regard to enums.
Instance(conforms, v, s, exact) ==
    /\ exact /\ s.enum # {} => v \in s.enum
    /\ IF s.branches # <<>> THEN \E i \in DOMAIN s.branches : conforms[<<v, s.branches[i], exact>>]
       ELSE /\ TypeFits(v, s)
            /\ v.t = "object" =>
                /\ s.required \subseteq DOMAIN v.f
                /\ \A i \in DOMAIN s.props :
                    s.props[i].key \in DOMAIN v.f => conforms[<<v.f[s.props[i].key], s.props[i].of, exact>>]
            /\ v.t = "array" /\ s.items # <<>> => \A i \in DOMAIN v.s : conforms[<<v.s[i], s.items[1], exact>>]

Conforms[x \in Checked] == Instance(Conforms, x[1], x[2], x[3])

\* The value names variant s by an enum, has nothing wrong in it, and lacks
\* something that the variant requires.
NamesIncomplete(v, s) ==
    /\ s.enum = {} /\ s.branches = <<>> /\ v.t = "object" /\ ~ s.required \subseteq DOMAIN v.f
    /\ TypeFits(v, s)
    /\ \A i \in DOMAIN s.props :
        s.props[i].key \in DOMAIN v.f => Conforms[<<v.f[s.props[i].key], s.props[i].of, TRUE>>]
    /\ \E i \in DOMAIN s.props :
        s.props[i].key \in DOMAIN v.f /\ s.props[i].of.enum # {} /\ s.props[i].of.branches = <<>>

\* The verdict on a forced-JSON answer is right in both modes, for nested
\* values, arrays and unions: strict mode passes exactly the instances of the
\* schema; structural mode passes what has its shape and reports a miss
\* exactly for what is not an instance; and no looser branch of a union
\* absorbs a value that is no instance of any branch, names another one and
\* misses its required fields (validateSchemaSubset, "a looser sibling branch
\* must not absorb it").
VerdictSound ==
    LET v == given.res.content.value
        s == given.asked.schema
        strict == ResolveValidationMode(given.asked, given.default) = "strict"
        passed == verdict.reason = "none"
    IN  verdict # NoVerdict /\ given.asked.type = "json_schema" /\ given.res.finish = "stop"
            /\ given.res.calls = <<>> /\ IsFencedJson(given.res.content) =>
          /\ verdict.reason \in {"none", "schema_violation"}
          /\ passed /\ ~ verdict.missed <=> Conforms[<<v, s, TRUE>>]
          /\ strict => ~ verdict.missed
          /\ passed => Conforms[<<v, s, FALSE>>]
          /\ passed /\ (\A i \in DOMAIN s.branches : ~ Conforms[<<v, s.branches[i], TRUE>>]) =>
                \A i \in DOMAIN s.branches : ~ NamesIncomplete(v, s.branches[i])

\* verify.ts: "`content_filter` is EXEMPT: a refusal is a legitimate terminal
\* outcome that retrying and falling back would only repeat".
RefusalIsFinal ==
    verdict # NoVerdict /\ given.res.finish = "content_filter"
        /\ given.res.content.kind = "blank" /\ given.res.calls = <<>> => verdict.reason = "none"

=============================================================================
