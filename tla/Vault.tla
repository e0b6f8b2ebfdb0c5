------------------------------- MODULE Vault -------------------------------
(***************************************************************************)
(* The credential vault (src/vault/service.ts), the provider and           *)
(* credential routes of the console that drive it (src/admin-api/          *)
(* routes.ts), and the rotation of the master key                          *)
(* (scripts/rotate-master-key.ts with src/vault/crypto.ts).                *)
(*                                                                         *)
(* Every handler awaits the database between its reads and its writes;     *)
(* each write is one statement.  Nothing in the database keeps a provider  *)
(* from having two active credentials: what holds, holds by the order of   *)
(* the statements.  The administrators' handlers, the hourly auto-revoke   *)
(* and the rotation script, a process of its own, interleave between them. *)
(***************************************************************************)
EXTENDS Integers, FiniteSets

CONSTANTS
    ProviderIds,
    CredIds,        \* rows that provider_credentials may come to hold
    Handlers,       \* requests to the console that may be in progress at once
    NoCred

ASSUME VaultAssumption == NoCred \notin CredIds /\ ProviderIds # {}

VARIABLES
    prov,      \* provider -> "none", "live", or "deleted" (deletedAt is set)
    cred,      \* row -> its provider and status, key_version, the key it is sealed with
    op,        \* handler -> the request it works on
    ring,      \* the keyring of the running router: master-key versions it holds
    current,   \* ... and the one it encrypts with
    script,    \* the rotation script: "ready", "read", "done"
    rows,      \* ... and the live rows it has read
    clean      \* history: no two requests to a provider overlapped, none broke off

vaultVars == <<prov, cred, op, ring, current, script, rows, clean>>

\* "staged" is status grace without graceUntil, "grace" has one to come,
\* "lapsed" one that is past.
Live == {"active", "staged", "grace", "lapsed"}

NoOp(p) == [pc |-> "idle", prov |-> p, cred |-> NoCred, seen |-> NoCred]

VaultTypeOK ==
    /\ prov \in [ProviderIds -> {"none", "live", "deleted"}]
    /\ cred \in [CredIds -> [prov : ProviderIds, status : Live \cup {"none", "revoked"},
                             version : {1, 2}, sealed : {1, 2}]]
    /\ op \in [Handlers -> [pc : {"idle", "add", "insert", "promote", "demote", "activate", "purge"},
                            prov : ProviderIds, cred : CredIds \cup {NoCred},
                            seen : CredIds \cup {NoCred}]]
    /\ ring \in SUBSET {1, 2} /\ current \in ring
    /\ script \in {"ready", "read", "done"}
    /\ rows \subseteq CredIds
    /\ clean \in BOOLEAN

VaultInit ==
    LET p == CHOOSE p \in ProviderIds : TRUE IN
    /\ prov = [q \in ProviderIds |-> "none"]
    /\ cred = [c \in CredIds |-> [prov |-> p, status |-> "none", version |-> 1, sealed |-> 1]]
    /\ op = [h \in Handlers |-> NoOp(p)]
    /\ ring = {1} /\ current = 1
    /\ script = "ready"
    /\ rows = {}
    /\ clean = TRUE

-----------------------------------------------------------------------------
ActiveOf(p) == {c \in CredIds : cred[c].prov = p /\ cred[c].status = "active"}

\* findFirst() of an active credential: any of them, or none.
SomeActive(p) == IF ActiveOf(p) = {} THEN {NoCred} ELSE ActiveOf(p)

\* The statement sets the status of row c and leaves its key material alone.
SetStatus(c, s) == cred' = [cred EXCEPT ![c].status = s]

Working(p) == {h \in Handlers : op[h].pc # "idle" /\ op[h].prov = p}

Begin(h, o) ==
    /\ op[h].pc = "idle"
    /\ op' = [op EXCEPT ![h] = o]
    /\ clean' = (clean /\ Working(o.prov) = {})

Goto(h, o) == op' = [op EXCEPT ![h] = o] /\ UNCHANGED clean
Return(h) == op' = [op EXCEPT ![h] = NoOp(@.prov)] /\ UNCHANGED clean

KeysUnchanged == UNCHANGED <<ring, current, script, rows>>

\* POST providers, once the base URL has passed its check.
CreateProvider(p) ==
    /\ prov[p] = "none"
    /\ prov' = [prov EXCEPT ![p] = "live"]
    /\ UNCHANGED <<cred, op, clean>> /\ KeysUnchanged

\* POST credentials, add(): the provider is looked up ...
AddBegin(h, p) ==
    /\ prov[p] = "live"
    /\ Begin(h, [NoOp(p) EXCEPT !.pc = "add"])
    /\ UNCHANGED <<prov, cred>> /\ KeysUnchanged

\* ... then its active credential ...
AddLook(h) ==
    /\ op[h].pc = "add"
    /\ \E c \in SomeActive(op[h].prov) : Goto(h, [op[h] EXCEPT !.pc = "insert", !.seen = c])
    /\ UNCHANGED <<prov, cred>> /\ KeysUnchanged

\* encryptCredential(): sealed with, and labelled by, the current master key.
Encrypted(p, status) == [prov |-> p, status |-> status, version |-> current, sealed |-> current]

NewRow == CHOOSE c \in CredIds : cred[c].status = "none"

\* ... and the row is inserted, staged unless it was the first.
AddInsert(h) ==
    /\ op[h].pc = "insert"
    /\ \E c \in CredIds : cred[c].status = "none"
    /\ cred' = [cred EXCEPT ![NewRow] = Encrypted(op[h].prov, IF op[h].seen = NoCred THEN "active" ELSE "staged")]
    /\ Return(h)
    /\ UNCHANGED prov /\ KeysUnchanged

\* promote(): a revoked row is refused, an active one returned as it is.
PromoteBegin(h, c) ==
    /\ cred[c].status \in Live \ {"active"}
    /\ Begin(h, [NoOp(cred[c].prov) EXCEPT !.pc = "promote", !.cred = c])
    /\ UNCHANGED <<prov, cred>> /\ KeysUnchanged

PromoteLook(h) ==
    /\ op[h].pc = "promote"
    /\ \E c \in SomeActive(op[h].prov) :
        Goto(h, [op[h] EXCEPT !.pc = IF c = NoCred THEN "activate" ELSE "demote", !.seen = c])
    /\ UNCHANGED <<prov, cred>> /\ KeysUnchanged

\* Mutant: the active credential is left as it is.
PromoteKeepsOld(h) ==
    /\ op[h].pc = "demote"
    /\ Goto(h, [op[h] EXCEPT !.pc = "activate"])
    /\ UNCHANGED <<prov, cred>> /\ KeysUnchanged

\* The previously active credential enters timed grace ...
PromoteDemote(h) ==
    /\ op[h].pc = "demote"
    /\ SetStatus(op[h].seen, "grace")
    /\ Goto(h, [op[h] EXCEPT !.pc = "activate"])
    /\ UNCHANGED prov /\ KeysUnchanged

\* ... and the promoted one becomes active, whatever it has become since it
\* was read.
PromoteActivate(h) ==
    /\ op[h].pc = "activate"
    /\ SetStatus(op[h].cred, "active")
    /\ Return(h)
    /\ UNCHANGED prov /\ KeysUnchanged

\* revoke(): unconditional, one statement.
Revoke(h, c) ==
    /\ cred[c].status # "none"
    /\ op[h].pc = "idle"
    /\ SetStatus(c, "revoked")
    /\ clean' = (clean /\ Working(cred[c].prov) = {})
    /\ UNCHANGED <<prov, op>> /\ KeysUnchanged

\* DELETE provider: deletedAt first, whether or not it is set already ...
DeleteMark(h, p) ==
    /\ prov[p] # "none"
    /\ prov' = [prov EXCEPT ![p] = "deleted"]
    /\ Begin(h, [NoOp(p) EXCEPT !.pc = "purge"])
    /\ UNCHANGED cred /\ KeysUnchanged

\* ... then every credential of the provider is revoked.
DeleteRevoke(h) ==
    /\ op[h].pc = "purge"
    /\ cred' = [c \in CredIds |->
                    IF cred[c].prov = op[h].prov /\ cred[c].status # "none"
                    THEN [cred[c] EXCEPT !.status = "revoked"] ELSE cred[c]]
    /\ Return(h)
    /\ UNCHANGED prov /\ KeysUnchanged

\* A statement of the handler fails, or the process does.
BreaksOff(h) ==
    /\ op[h].pc \notin {"idle", "add", "promote"}
    /\ op' = [op EXCEPT ![h] = NoOp(@.prov)]
    /\ clean' = FALSE
    /\ UNCHANGED <<prov, cred>> /\ KeysUnchanged

-----------------------------------------------------------------------------
\* CREDENTIAL_GRACE_HOURS pass.
GraceLapses(c) ==
    /\ cred[c].status = "grace"
    /\ SetStatus(c, "lapsed")
    /\ UNCHANGED <<prov, op, clean>> /\ KeysUnchanged

\* Mutant: lt(graceUntil, now) replaced by isNull(graceUntil).
RevokesStaged ==
    /\ \E c \in CredIds : cred[c].status = "staged"
    /\ cred' = [c \in CredIds |-> IF cred[c].status = "staged" THEN [cred[c] EXCEPT !.status = "revoked"] ELSE cred[c]]
    /\ UNCHANGED <<prov, op, clean>> /\ KeysUnchanged

\* autoRevokeExpired(), hourly on the gateway: one UPDATE ... WHERE.
AutoRevokeExpired ==
    /\ \E c \in CredIds : cred[c].status = "lapsed"
    /\ cred' = [c \in CredIds |-> IF cred[c].status = "lapsed" THEN [cred[c] EXCEPT !.status = "revoked"] ELSE cred[c]]
    /\ UNCHANGED <<prov, op, clean>> /\ KeysUnchanged

\* The script reads all rows; revoked ones and those that an earlier attempt
\* has rewritten are skipped.
RotateRead ==
    /\ script = "ready"
    /\ script' = "read"
    /\ rows' = {c \in CredIds : cred[c].status \in Live /\ cred[c].version = 1}
    /\ UNCHANGED <<prov, cred, op, ring, current, clean>>

\* Mutant: key_version is bumped, the data key is not sealed anew.
RelabelOnly(c) ==
    /\ script = "read" /\ c \in rows
    /\ cred' = [cred EXCEPT ![c].version = 2]
    /\ rows' = rows \ {c}
    /\ UNCHANGED <<prov, op, ring, current, script, clean>>

\* rewrapCredential() of a row that was read, whatever has become of it;
\* ciphertext and key_version change together.  The statement is db's, not the
\* transaction's: every row commits by itself.
RotateWrite(c) ==
    /\ script = "read" /\ c \in rows
    /\ cred' = [cred EXCEPT ![c] = [@ EXCEPT !.version = 2, !.sealed = 2]]
    /\ rows' = rows \ {c}
    /\ UNCHANGED <<prov, op, ring, current, script, clean>>

\* The script is through; or it fails half-way, and is started again.
RotateEnds ==
    /\ script = "read"
    /\ script' = IF rows = {} THEN "done" ELSE "ready"
    /\ rows' = {}
    /\ UNCHANGED <<prov, cred, op, ring, current, clean>>

\* decryptCredential() with the keys ks: the label selects the master key,
\* which must be the one the data key is sealed with.
Decrypts(c, ks) == cred[c].version \in ks /\ cred[c].sealed = cred[c].version

\* startupCheck(): every credential that is not revoked must decrypt.
StartupCheck(ks) == \A c \in CredIds : cred[c].status \in Live => Decrypts(c, ks)

\* The runbook's steps 3 and 4: a restart with the new key, the previous one
\* kept; handlers in progress are lost.
RestartWithNewKey ==
    /\ script = "done" /\ current = 1
    /\ StartupCheck({1, 2})
    /\ ring' = {1, 2} /\ current' = 2
    /\ clean' = (clean /\ \A h \in Handlers : op[h].pc = "idle")
    /\ op' = [h \in Handlers |-> NoOp(op[h].prov)]
    /\ UNCHANGED <<prov, cred, script, rows>>

\* Step 5: the previous key is dropped and the router restarted; a check that
\* fails keeps the old process' keys in use.
DropPreviousKey ==
    /\ ring = {1, 2} /\ current = 2
    /\ StartupCheck({2})
    /\ ring' = {2}
    /\ clean' = (clean /\ \A h \in Handlers : op[h].pc = "idle")
    /\ op' = [h \in Handlers |-> NoOp(op[h].prov)]
    /\ UNCHANGED <<prov, cred, current, script, rows>>

HandlerStep(h) ==
    \/ \E p \in ProviderIds : AddBegin(h, p) \/ DeleteMark(h, p)
    \/ AddLook(h) \/ AddInsert(h)
    \/ \E c \in CredIds : PromoteBegin(h, c) \/ Revoke(h, c)
    \/ PromoteLook(h) \/ PromoteDemote(h) \/ PromoteActivate(h)
    \/ DeleteRevoke(h)
    \/ BreaksOff(h)

VaultNext ==
    \/ \E p \in ProviderIds : CreateProvider(p)
    \/ \E h \in Handlers : HandlerStep(h)
    \/ \E c \in CredIds : GraceLapses(c)
    \/ AutoRevokeExpired
    \/ RotateRead \/ RotateEnds \/ \E c \in CredIds : RotateWrite(c)
    \/ RestartWithNewKey \/ DropPreviousKey

VaultSpec == VaultInit /\ [][VaultNext]_vaultVars

-----------------------------------------------------------------------------
\* Administrators who take turns never see a provider with two active keys,
\* nor one that is deleted and still has a secret in service, whatever the
\* auto-revoke timer, the grace clock and a rotation of the master key do
\* between their statements (service.ts 6.4; routes.ts on DELETE).
SerialVault ==
    clean => \A p \in ProviderIds :
        /\ Cardinality(ActiveOf(p)) <= 1
        /\ prov[p] = "deleted" /\ Working(p) = {} =>
              \A c \in CredIds : cred[c].prov = p => cred[c].status \in {"none", "revoked"}

\* A router started with both master keys, the current and the previous one,
\* always passes its startup check and can decrypt every live key, also those
\* that handlers of the old process stored while the script was at work
\* (runbook, rotation, 3 and 4).
BootsWithPreviousKey == StartupCheck({1, 2})

\* A credential does not stay in grace for ever: it is revoked in time, or an
\* administrator puts it into service again, the only ways out of grace.
GraceEnds == \A c \in CredIds : []<>(cred[c].status \notin {"grace", "lapsed"})

\* docs/runbook.md on the re-wrap: "router can stay up - old key still serves
\* until step 3".
OldKeyStillServes ==
    \A c \in CredIds : cred[c].status = "active" => Decrypts(c, ring)

=============================================================================
