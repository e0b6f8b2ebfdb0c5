--------------------------- MODULE ControlProofs ---------------------------
(***************************************************************************)
(* Proofs about what background jobs and administrators write side by      *)
(* side: the credential vault, the provider's status and the catalog.      *)
(***************************************************************************)
EXTENDS Vault, Health, Catalog, FiniteSetTheorems, SequenceTheorems, TLAPS

-----------------------------------------------------------------------------
(* The credential vault.                                                   *)

\* Ciphertext and key_version change together.
LabelsFit == \A c \in CredIds : cred[c].sealed = cred[c].version

\* What a promotion has read, and what it needs of the row it promotes.
PromotionsFit ==
    \A h \in Handlers :
        /\ op[h].pc \in {"promote", "demote", "activate"} =>
            /\ op[h].cred \in CredIds
            /\ cred[op[h].cred].status # "none"
            /\ cred[op[h].cred].prov = op[h].prov
        /\ op[h].pc = "demote" =>
            /\ op[h].seen \in CredIds
            /\ cred[op[h].seen].status # "none"
            /\ cred[op[h].seen].prov = op[h].prov

IsActive(c) == cred[c].status = "active"
Busy(h) == op[h].pc # "idle"

\* A provider has one request at a time, and one active key ...
OneAtATime ==
    /\ \A h, g \in Handlers : Busy(h) /\ Busy(g) /\ op[h].prov = op[g].prov => h = g
    /\ \A c, d \in CredIds : IsActive(c) /\ IsActive(d) /\ cred[c].prov = cred[d].prov => c = d

\* ... what a request has read of the active key still holds ...
ReadsHold ==
    \A h \in Handlers : \A c \in CredIds :
        IsActive(c) /\ cred[c].prov = op[h].prov =>
            /\ op[h].pc # "activate"
            /\ op[h].pc = "insert" => op[h].seen # NoCred
            /\ op[h].pc = "demote" => c = op[h].seen

\* ... and of a deleted provider nothing is left in service.
DeletedStaysDead ==
    /\ \A h \in Handlers : op[h].pc \notin {"idle", "purge"} => prov[op[h].prov] # "deleted"
    /\ \A c \in CredIds :
        cred[c].status \notin {"none", "revoked"} /\ prov[cred[c].prov] = "deleted" =>
            \E h \in Handlers : op[h].pc = "purge" /\ op[h].prov = cred[c].prov

VaultIInv ==
    /\ VaultTypeOK
    /\ LabelsFit
    /\ PromotionsFit
    /\ clean => OneAtATime /\ ReadsHold /\ DeletedStaysDead

-----------------------------------------------------------------------------
(* The provider's status.                                                  *)

\* The newest transition that waits to be persisted is the monitor's status.
HealthIInv ==
    /\ HealthTypeOK
    /\ chain # <<>> => chain[Len(chain)] = status
    /\ RowFollowsMonitor

-----------------------------------------------------------------------------
(* The catalog.                                                            *)

\* A row has the columns it has.
IsRow(m) ==
    /\ m = [source |-> m.source, status |-> m.status, ctx |-> m.ctx, caps |-> m.caps,
            over |-> m.over, third |-> m.third]
    /\ m.source \in {"none", "synced", "provider", "custom"}

\* A row that exists has a context window; one that does not is NoModel.
RowFits(m) == IsRow(m) /\ (IF m.source = "none" THEN m = NoModel ELSE m.ctx # 0)

\* The row a pass has read is the present one, unless an operator's was there
\* before or came and went since: no other row ever leaves the catalog.
SnapFits(s, m) == RowFits(s) /\ (s.source \in {"provider", "synced"} => m.source = s.source)

\* What the operator has not switched on is not on, in the row or in a copy.
CeilingHolds(o) == \A c \in Ceiling : o[c] = "on" => c \in byHand

CatalogIInv ==
    /\ world \in Worlds
    /\ RowFits(model) /\ RowFits(probe)
    /\ pass = [p \in Passes |-> [at |-> pass[p].at, snap |-> pass[p].snap, read |-> pass[p].read]]
    /\ \A p \in Passes : SnapFits(pass[p].snap, model)
    /\ CeilingHolds(model.over) /\ CeilingHolds(probe.over)
    /\ saving \in {"none", "no", "default", "fallback"}
    /\ bound \in {"no", "default", "fallback"}
    /\ retiring \in {"no", "sunset", "delete"}
    /\ retiring # "no" => model.source = "custom"
    /\ raced \in BOOLEAN
    /\ bound = "default" => InCatalog
    /\ ~ raced =>
        /\ bound # "no" => InCatalog
        /\ saving \in {"default", "fallback"} => InCatalog
        /\ retiring # "no" => saving = "none"
        /\ retiring = "delete" => bound = "no"

-----------------------------------------------------------------------------
\* The columns of provider_credentials.
CredRows ==
    [prov : ProviderIds, status : Live \cup {"none", "revoked"}, version : {1, 2}, sealed : {1, 2}]

\* What a handler knows between its statements.
Ops ==
    [pc : {"idle", "add", "insert", "promote", "demote", "activate", "purge"},
     prov : ProviderIds, cred : CredIds \cup {NoCred}, seen : CredIds \cup {NoCred}]

\* An empty vault, with one master key, has nothing to disagree about.
LEMMA VaultStarts == VaultInit => VaultIInv
<1> SUFFICES ASSUME VaultInit PROVE VaultIInv
  OBVIOUS
<1> DEFINE p == CHOOSE p \in ProviderIds : TRUE
<1>1. p \in ProviderIds
  BY VaultAssumption
<1>2. /\ prov = [q \in ProviderIds |-> "none"]
      /\ cred = [c \in CredIds |-> [prov |-> p, status |-> "none", version |-> 1, sealed |-> 1]]
      /\ op = [h \in Handlers |-> [pc |-> "idle", prov |-> p, cred |-> NoCred, seen |-> NoCred]]
      /\ ring = {1} /\ current = 1 /\ script = "ready" /\ rows = {} /\ clean = TRUE
  BY DEF VaultInit, NoOp
<1> HIDE DEF p
<1>3. VaultTypeOK
  BY <1>1, <1>2 DEF VaultTypeOK
<1> QED
  BY <1>2, <1>3 DEF VaultIInv, LabelsFit, PromotionsFit, OneAtATime, ReadsHold, DeletedStaysDead, IsActive, Busy

\* A provider is created without credentials.
LEMMA CreateProviderKeeps ==
    ASSUME VaultIInv, NEW p \in ProviderIds, CreateProvider(p)
    PROVE  VaultIInv'
<1> USE VaultAssumption DEF VaultTypeOK, CreateProvider, KeysUnchanged
<1>1. VaultTypeOK'
  BY DEF VaultIInv, PromotionsFit, Live
<1>2. LabelsFit' /\ PromotionsFit'
  BY DEF VaultIInv, LabelsFit, PromotionsFit
<1>3. clean' => OneAtATime'
  BY DEF VaultIInv, PromotionsFit, OneAtATime, ReadsHold, DeletedStaysDead, IsActive, Busy
<1>4. clean' => ReadsHold'
  BY DEF VaultIInv, PromotionsFit, OneAtATime, ReadsHold, IsActive, Busy
<1>5. clean' => DeletedStaysDead'
  BY DEF VaultIInv, PromotionsFit, OneAtATime, DeletedStaysDead, IsActive, Busy, Live
<1> QED
  BY <1>1, <1>2, <1>3, <1>4, <1>5 DEF VaultIInv

\* Adding a key starts by finding the provider: it must not be deleted.
LEMMA AddBeginKeeps ==
    ASSUME VaultIInv, NEW h \in Handlers, NEW p \in ProviderIds, AddBegin(h, p)
    PROVE  VaultIInv'
<1> USE VaultAssumption
<1>1. VaultTypeOK'
  BY DEF VaultIInv, VaultTypeOK, Live, AddBegin, Begin, NoOp, Working, KeysUnchanged
<1>6. /\ op[h].pc = "idle" /\ op'[h].pc = "add" /\ op'[h].prov = p
      /\ \A g \in Handlers \ {h} : op'[g] = op[g]
      /\ clean' => clean /\ \A g \in Handlers : op[g].pc # "idle" => op[g].prov # p
      /\ cred' = cred
      /\ prov' = prov /\ prov[p] = "live"
  BY DEF VaultIInv, VaultTypeOK, AddBegin, Begin, NoOp, Working, KeysUnchanged
<1>2. LabelsFit' /\ PromotionsFit'
  BY DEF VaultIInv, VaultTypeOK, LabelsFit, PromotionsFit, Live, AddBegin, Begin, NoOp, Working, KeysUnchanged
<1>3. clean' => OneAtATime'
  BY <1>6 DEF VaultIInv, OneAtATime, IsActive, Busy
<1>4. clean' => ReadsHold'
  BY <1>6 DEF VaultIInv, ReadsHold, IsActive
<1>5. clean' => DeletedStaysDead'
  <2> SUFFICES ASSUME clean' PROVE DeletedStaysDead'
    OBVIOUS
  <2>1. \A g \in Handlers : op'[g].pc \notin {"idle", "purge"} => prov'[op'[g].prov] # "deleted"
    BY <1>6 DEF VaultIInv, DeletedStaysDead
  <2>2. ASSUME NEW c \in CredIds, cred'[c].status \notin {"none", "revoked"},
               prov'[cred'[c].prov] = "deleted"
        PROVE  \E g \in Handlers : op'[g].pc = "purge" /\ op'[g].prov = cred'[c].prov
    <3>1. PICK g \in Handlers : op[g].pc = "purge" /\ op[g].prov = cred[c].prov
      BY <2>2, <1>6 DEF VaultIInv, DeletedStaysDead
    <3>2. g # h /\ cred'[c].prov = cred[c].prov
      BY <2>2, <3>1, <1>6
    <3> QED
      BY <3>1, <3>2, <1>6
  <2> QED
    BY <2>1, <2>2 DEF DeletedStaysDead
<1> QED
  BY <1>1, <1>2, <1>3, <1>4, <1>5 DEF VaultIInv

\* Deleting marks the provider first; the revocation that follows is why
\* DeletedStaysDead excepts a request at its purge.
LEMMA DeleteMarkKeeps ==
    ASSUME VaultIInv, NEW h \in Handlers, NEW p \in ProviderIds, DeleteMark(h, p)
    PROVE  VaultIInv'
<1> USE VaultAssumption
<1>1. VaultTypeOK'
  BY DEF VaultIInv, VaultTypeOK, Live, DeleteMark, Begin, NoOp, Working, KeysUnchanged
<1>6. /\ op[h].pc = "idle" /\ op'[h].pc = "purge" /\ op'[h].prov = p
      /\ \A g \in Handlers \ {h} : op'[g] = op[g]
      /\ clean' => clean /\ \A g \in Handlers : op[g].pc # "idle" => op[g].prov # p
      /\ cred' = cred
      /\ prov'[p] = "deleted" /\ \A q \in ProviderIds \ {p} : prov'[q] = prov[q]
  BY DEF VaultIInv, VaultTypeOK, DeleteMark, Begin, NoOp, Working, KeysUnchanged
<1>2. LabelsFit' /\ PromotionsFit'
  BY DEF VaultIInv, VaultTypeOK, LabelsFit, PromotionsFit, Live, DeleteMark, Begin, NoOp, Working, KeysUnchanged
<1>3. clean' => OneAtATime'
  BY <1>6 DEF VaultIInv, OneAtATime, IsActive, Busy
<1>4. clean' => ReadsHold'
  BY <1>6 DEF VaultIInv, ReadsHold, IsActive
<1>5. clean' => DeletedStaysDead'
  BY <1>6 DEF VaultIInv, VaultTypeOK, DeletedStaysDead, Busy
<1> QED
  BY <1>1, <1>2, <1>3, <1>4, <1>5 DEF VaultIInv

\* addCredential() reads which key is active, and remembers it.
LEMMA AddLookKeeps ==
    ASSUME VaultIInv, NEW h \in Handlers, AddLook(h)
    PROVE  VaultIInv'
<1> USE VaultAssumption
<1>6. PICK c \in SomeActive(op[h].prov) :
            op' = [op EXCEPT ![h] = [op[h] EXCEPT !.pc = "insert", !.seen = c]]
  BY DEF AddLook, Goto
<1> DEFINE d == [op[h] EXCEPT !.pc = "insert", !.seen = c]
<1>7. /\ UNCHANGED <<prov, cred, ring, current, script, rows, clean>> /\ op[h].pc = "add"
      /\ op \in [Handlers -> Ops]
  BY DEF AddLook, Goto, KeysUnchanged, VaultIInv, VaultTypeOK, Ops
<1>8. /\ c \in CredIds \cup {NoCred}
      /\ c = NoCred => \A x \in CredIds : ~ (IsActive(x) /\ cred[x].prov = op[h].prov)
      /\ c # NoCred => c \in CredIds /\ IsActive(c) /\ cred[c].prov = op[h].prov
  BY <1>6 DEF SomeActive, ActiveOf, IsActive
<1>9. /\ d.pc = ("insert") /\ d.seen = c /\ d.prov = op[h].prov /\ d.cred = op[h].cred
      /\ d \in Ops
  BY <1>7, <1>8 DEF Ops
<1>10. op'[h] = d /\ \A g \in Handlers \ {h} : op'[g] = op[g]
  BY <1>6, <1>7
<1> HIDE DEF d
<1>11. op' \in [Handlers -> Ops]
  BY <1>6, <1>7, <1>9 DEF d
<1>1. VaultTypeOK'
  BY <1>7, <1>11 DEF VaultIInv, VaultTypeOK, Ops
<1>2. LabelsFit' /\ PromotionsFit'
  BY <1>7, <1>8, <1>9, <1>10 DEF VaultIInv, LabelsFit, PromotionsFit
<1>3. clean' => OneAtATime'
  BY <1>7, <1>9, <1>10 DEF VaultIInv, OneAtATime, IsActive, Busy
<1>4. clean' => ReadsHold'
  BY <1>7, <1>8, <1>9, <1>10 DEF VaultIInv, OneAtATime, ReadsHold, IsActive, Busy
<1>5. clean' => DeletedStaysDead'
  <2> SUFFICES ASSUME clean' PROVE DeletedStaysDead'
    OBVIOUS
  <2>1. \A g \in Handlers : op'[g].pc \notin {"idle", "purge"} => prov'[op'[g].prov] # "deleted"
    BY <1>7, <1>9, <1>10 DEF VaultIInv, DeletedStaysDead
  <2>2. ASSUME NEW x \in CredIds, cred'[x].status \notin {"none", "revoked"},
               prov'[cred'[x].prov] = "deleted"
        PROVE  \E g \in Handlers : op'[g].pc = "purge" /\ op'[g].prov = cred'[x].prov
    <3>1. PICK g \in Handlers : op[g].pc = "purge" /\ op[g].prov = cred[x].prov
      BY <2>2, <1>7, <1>9, <1>10 DEF VaultIInv, DeletedStaysDead
    <3>2. g # h /\ cred'[x].prov = cred[x].prov
      BY <2>2, <3>1, <1>7, <1>9, <1>10
    <3> QED
      BY <3>1, <3>2, <1>7, <1>9, <1>10
  <2> QED
    BY <2>1, <2>2 DEF DeletedStaysDead
<1> QED
  BY <1>1, <1>2, <1>3, <1>4, <1>5 DEF VaultIInv

\* addCredential() inserts: active if it saw none, which in an orderly vault
\* is still so, staged otherwise.
LEMMA AddInsertKeeps ==
    ASSUME VaultIInv, NEW h \in Handlers, AddInsert(h)
    PROVE  VaultIInv'
<1> USE VaultAssumption
<1> DEFINE n == NewRow
           p == op[h].prov
           s == IF op[h].seen = NoCred THEN "active" ELSE "staged"
<1>1. VaultTypeOK'
  BY DEF VaultIInv, VaultTypeOK, AddInsert, NewRow, Encrypted, Return, NoOp, KeysUnchanged, Live
<1>6. n \in CredIds /\ cred[n].status = "none"
  BY DEF AddInsert, NewRow
<1>7. /\ op[h].pc = "insert" /\ op'[h].pc = "idle"
      /\ \A g \in Handlers \ {h} : op'[g] = op[g]
      /\ prov' = prov /\ clean' = clean /\ p \in ProviderIds
  BY DEF VaultIInv, VaultTypeOK, AddInsert, Return, NoOp
<1> HIDE DEF n
<1>8. /\ cred'[n].status = s /\ cred'[n].prov = p /\ cred'[n].sealed = cred'[n].version
      /\ \A c \in CredIds \ {n} : cred'[c] = cred[c]
  BY <1>6 DEF VaultIInv, VaultTypeOK, AddInsert, Encrypted, n
<1> HIDE DEF p, s
<1>2. LabelsFit' /\ PromotionsFit'
  BY <1>6, <1>7, <1>8 DEF VaultIInv, LabelsFit, PromotionsFit
<1>3. clean' => OneAtATime'
  BY <1>6, <1>7, <1>8 DEF VaultIInv, OneAtATime, ReadsHold, IsActive, Busy, p, s
<1>4. clean' => ReadsHold'
  BY <1>6, <1>7, <1>8 DEF VaultIInv, OneAtATime, ReadsHold, IsActive, Busy, p
<1>5. clean' => DeletedStaysDead'
  BY <1>6, <1>7, <1>8 DEF VaultIInv, DeletedStaysDead, p
<1> QED
  BY <1>1, <1>2, <1>3, <1>4, <1>5 DEF VaultIInv

\* Promoting starts from a key that exists, of a provider that does.
LEMMA PromoteBeginKeeps ==
    ASSUME VaultIInv, NEW h \in Handlers, NEW c \in CredIds, PromoteBegin(h, c)
    PROVE  VaultIInv'
<1> USE VaultAssumption
<1> DEFINE p == cred[c].prov
<1>1. VaultTypeOK'
  BY DEF VaultIInv, VaultTypeOK, Live, PromoteBegin, Begin, NoOp, Working, KeysUnchanged
<1>6. /\ op[h].pc = "idle" /\ op'[h].pc = "promote" /\ op'[h].prov = p
      /\ \A g \in Handlers \ {h} : op'[g] = op[g]
      /\ clean' => clean /\ \A g \in Handlers : op[g].pc # "idle" => op[g].prov # p
      /\ cred' = cred /\ prov' = prov /\ p = cred[c].prov
      /\ cred[c].status \notin {"none", "revoked"} /\ p \in ProviderIds
  <2>1. cred[c].status \notin {"none", "revoked"} /\ p \in ProviderIds /\ cred' = cred /\ prov' = prov
    BY DEF VaultIInv, VaultTypeOK, PromoteBegin, Live
  <2> DEFINE d == [NoOp(p) EXCEPT !.pc = "promote", !.cred = c]
  <2>2. d.pc = "promote" /\ d.prov = p
    BY DEF NoOp
  <2>3. op[h].pc = "idle" /\ op' = [op EXCEPT ![h] = d] /\ clean' = (clean /\ Working(d.prov) = {})
    BY DEF PromoteBegin, Begin
  <2> HIDE DEF p, d
  <2>4. clean' => clean /\ \A g \in Handlers : op[g].pc # "idle" => op[g].prov # p
    BY <2>2, <2>3 DEF Working
  <2>5. op'[h] = d /\ \A g \in Handlers \ {h} : op'[g] = op[g]
    BY <2>3 DEF VaultIInv, VaultTypeOK
  <2> QED
    BY <2>1, <2>2, <2>3, <2>4, <2>5 DEF p
<1>2. LabelsFit' /\ PromotionsFit'
  BY DEF VaultIInv, VaultTypeOK, LabelsFit, PromotionsFit, Live, PromoteBegin, Begin, NoOp, Working, KeysUnchanged
<1> HIDE DEF p
<1>3. clean' => OneAtATime'
  BY <1>6 DEF VaultIInv, OneAtATime, IsActive, Busy
<1>4. clean' => ReadsHold'
  BY <1>6 DEF VaultIInv, ReadsHold, IsActive
<1>5. clean' => DeletedStaysDead'
  BY <1>6 DEF VaultIInv, VaultTypeOK, DeletedStaysDead, Busy
<1> QED
  BY <1>1, <1>2, <1>3, <1>4, <1>5 DEF VaultIInv

\* Revoking takes a key out of service and touches nothing else.
LEMMA RevokeKeeps ==
    ASSUME VaultIInv, NEW h \in Handlers, NEW c \in CredIds, Revoke(h, c)
    PROVE  VaultIInv'
<1> USE VaultAssumption DEF VaultTypeOK, Revoke, SetStatus, Working, KeysUnchanged
<1>1. VaultTypeOK'
  BY DEF VaultIInv, PromotionsFit, Live
<1>2. LabelsFit' /\ PromotionsFit'
  BY DEF VaultIInv, LabelsFit, PromotionsFit
<1>3. clean' => OneAtATime'
  BY DEF VaultIInv, PromotionsFit, OneAtATime, ReadsHold, DeletedStaysDead, IsActive, Busy
<1>4. clean' => ReadsHold'
  BY DEF VaultIInv, PromotionsFit, OneAtATime, ReadsHold, IsActive, Busy
<1>5. clean' => DeletedStaysDead'
  BY DEF VaultIInv, PromotionsFit, OneAtATime, DeletedStaysDead, IsActive, Busy, Live
<1> QED
  BY <1>1, <1>2, <1>3, <1>4, <1>5 DEF VaultIInv

\* promoteCredential() reads which key is active.
LEMMA PromoteLookKeeps ==
    ASSUME VaultIInv, NEW h \in Handlers, PromoteLook(h)
    PROVE  VaultIInv'
<1> USE VaultAssumption
<1>6. PICK c \in SomeActive(op[h].prov) :
            op' = [op EXCEPT ![h] = [op[h] EXCEPT !.pc = IF c = NoCred THEN "activate" ELSE "demote", !.seen = c]]
  BY DEF PromoteLook, Goto
<1> DEFINE d == [op[h] EXCEPT !.pc = IF c = NoCred THEN "activate" ELSE "demote", !.seen = c]
<1>7. /\ UNCHANGED <<prov, cred, ring, current, script, rows, clean>> /\ op[h].pc = "promote"
      /\ op \in [Handlers -> Ops]
  BY DEF PromoteLook, Goto, KeysUnchanged, VaultIInv, VaultTypeOK, Ops
<1>8. /\ c \in CredIds \cup {NoCred}
      /\ c = NoCred => \A x \in CredIds : ~ (IsActive(x) /\ cred[x].prov = op[h].prov)
      /\ c # NoCred => c \in CredIds /\ IsActive(c) /\ cred[c].prov = op[h].prov
  BY <1>6 DEF SomeActive, ActiveOf, IsActive
<1>9. /\ d.pc = (IF c = NoCred THEN "activate" ELSE "demote") /\ d.seen = c /\ d.prov = op[h].prov /\ d.cred = op[h].cred
      /\ d \in Ops
  BY <1>7, <1>8 DEF Ops
<1>10. op'[h] = d /\ \A g \in Handlers \ {h} : op'[g] = op[g]
  BY <1>6, <1>7
<1> HIDE DEF d
<1>11. op' \in [Handlers -> Ops]
  BY <1>6, <1>7, <1>9 DEF d
<1>1. VaultTypeOK'
  BY <1>7, <1>11 DEF VaultIInv, VaultTypeOK, Ops
<1>2. LabelsFit' /\ PromotionsFit'
  BY <1>7, <1>8, <1>9, <1>10 DEF VaultIInv, LabelsFit, PromotionsFit, IsActive
<1>3. clean' => OneAtATime'
  BY <1>7, <1>9, <1>10 DEF VaultIInv, OneAtATime, IsActive, Busy
<1>4. clean' => ReadsHold'
  BY <1>7, <1>8, <1>9, <1>10 DEF VaultIInv, OneAtATime, ReadsHold, IsActive, Busy
<1>5. clean' => DeletedStaysDead'
  BY <1>7, <1>9, <1>10 DEF VaultIInv, VaultTypeOK, DeletedStaysDead, Busy
<1> QED
  BY <1>1, <1>2, <1>3, <1>4, <1>5 DEF VaultIInv

\* promoteCredential() puts the key it saw active into grace: for a moment
\* the provider has none.
LEMMA PromoteDemoteKeeps ==
    ASSUME VaultIInv, NEW h \in Handlers, PromoteDemote(h)
    PROVE  VaultIInv'
<1> USE VaultAssumption DEF VaultTypeOK, PromoteDemote, SetStatus, Goto, KeysUnchanged
<1>1. VaultTypeOK'
  <2> DEFINE c == op[h].seen
             r == [cred[c] EXCEPT !.status = "grace"]
  <2>5. cred \in [CredIds -> CredRows] /\ c \in CredIds /\ cred' = [cred EXCEPT ![c] = r]
    BY DEF VaultIInv, PromotionsFit, CredRows
  <2>6. r \in CredRows
    BY <2>5 DEF CredRows, Live
  <2> HIDE DEF r, c
  <2>1. cred' \in [CredIds -> CredRows]
    BY <2>5, <2>6
  <2> DEFINE d == [op[h] EXCEPT !.pc = "activate"]
  <2>2. op \in [Handlers -> Ops] /\ op' = [op EXCEPT ![h] = d]
    BY DEF VaultIInv, Ops
  <2>3. d \in Ops
    BY <2>2 DEF Ops
  <2> HIDE DEF d
  <2>4. op' \in [Handlers -> Ops]
    BY <2>2, <2>3
  <2> QED
    BY <2>1, <2>4 DEF VaultIInv, CredRows, Ops
<1>2. LabelsFit' /\ PromotionsFit'
  BY DEF VaultIInv, LabelsFit, PromotionsFit
<1>3. clean' => OneAtATime'
  BY DEF VaultIInv, PromotionsFit, OneAtATime, ReadsHold, DeletedStaysDead, IsActive, Busy
<1>4. clean' => ReadsHold'
  BY DEF VaultIInv, PromotionsFit, OneAtATime, ReadsHold, IsActive, Busy
<1>6. /\ op[h].pc = "demote" /\ op'[h].pc = "activate" /\ op'[h].prov = op[h].prov
      /\ \A g \in Handlers \ {h} : op'[g] = op[g]
      /\ op[h].seen \in CredIds /\ prov' = prov /\ clean' = clean
      /\ cred[op[h].seen].prov = op[h].prov
      /\ \A c \in CredIds : cred'[c].prov = cred[c].prov
      /\ \A c \in CredIds : c = op[h].seen \/ cred'[c] = cred[c]
  BY DEF VaultIInv, PromotionsFit
<1>5. clean' => DeletedStaysDead'
  <2> SUFFICES ASSUME clean' PROVE DeletedStaysDead'
    OBVIOUS
  <2>1. \A g \in Handlers : op'[g].pc \notin {"idle", "purge"} => prov'[op'[g].prov] # "deleted"
    BY <1>6 DEF VaultIInv, DeletedStaysDead
  <2>2. ASSUME NEW c \in CredIds, cred'[c].status \notin {"none", "revoked"},
               prov'[cred'[c].prov] = "deleted"
        PROVE  \E g \in Handlers : op'[g].pc = "purge" /\ op'[g].prov = cred'[c].prov
    <3>1. PICK g \in Handlers : op[g].pc = "purge" /\ op[g].prov = cred[c].prov
      BY <2>2, <1>6 DEF VaultIInv, DeletedStaysDead
    <3>2. g # h /\ cred'[c].prov = cred[c].prov
      BY <2>2, <3>1, <1>6
    <3> QED
      BY <3>1, <3>2, <1>6
  <2> QED
    BY <2>1, <2>2 DEF DeletedStaysDead
<1> QED
  BY <1>1, <1>2, <1>3, <1>4, <1>5 DEF VaultIInv

\* promoteCredential() activates; in an orderly vault no other key is active.
LEMMA PromoteActivateKeeps ==
    ASSUME VaultIInv, NEW h \in Handlers, PromoteActivate(h)
    PROVE  VaultIInv'
<1> DEFINE n == op[h].cred
           p == op[h].prov
<1>6. n \in CredIds /\ cred[n].status # "none" /\ cred[n].prov = p
  BY DEF VaultIInv, PromotionsFit, PromoteActivate
<1>7. /\ op[h].pc = "activate" /\ op'[h].pc = "idle"
      /\ \A g \in Handlers \ {h} : op'[g] = op[g]
      /\ UNCHANGED <<prov, clean, ring, current, script, rows>>
  BY DEF VaultIInv, VaultTypeOK, PromoteActivate, Return, NoOp, KeysUnchanged
<1>8. /\ cred'[n].status = "active" /\ cred'[n].prov = p
      /\ cred'[n].sealed = cred[n].sealed /\ cred'[n].version = cred[n].version
      /\ \A c \in CredIds \ {n} : cred'[c] = cred[c]
  BY <1>6 DEF VaultIInv, VaultTypeOK, PromoteActivate, SetStatus
<1>1. VaultTypeOK'
  <2>1. cred' \in [CredIds -> CredRows]
    BY SMTT(30), <1>6 DEF VaultIInv, VaultTypeOK, PromoteActivate, SetStatus, Live, CredRows
  <2>2. op' \in [Handlers -> Ops]
    BY <1>7 DEF VaultIInv, VaultTypeOK, PromoteActivate, Return, NoOp, Ops
  <2> QED
    BY <1>7, <2>1, <2>2 DEF VaultIInv, VaultTypeOK, CredRows, Ops
<1> HIDE DEF n, p
<1>2. LabelsFit' /\ PromotionsFit'
  BY <1>6, <1>7, <1>8 DEF VaultIInv, LabelsFit, PromotionsFit
<1>3. clean' => OneAtATime'
  BY <1>6, <1>7, <1>8 DEF VaultIInv, OneAtATime, ReadsHold, IsActive, Busy, p
<1>4. clean' => ReadsHold'
  BY <1>6, <1>7, <1>8 DEF VaultIInv, OneAtATime, ReadsHold, IsActive, Busy, p
<1>5. clean' => DeletedStaysDead'
  BY <1>6, <1>7, <1>8 DEF VaultIInv, DeletedStaysDead, p
<1> QED
  BY <1>1, <1>2, <1>3, <1>4, <1>5 DEF VaultIInv

\* Deleting revokes what the provider has, and the purge is over.
LEMMA DeleteRevokeKeeps ==
    ASSUME VaultIInv, NEW h \in Handlers, DeleteRevoke(h)
    PROVE  VaultIInv'
<1> USE VaultAssumption DEF VaultTypeOK, DeleteRevoke, Return, NoOp, KeysUnchanged
<1>1. VaultTypeOK'
  <2>1. cred \in [CredIds -> CredRows]
    BY DEF VaultIInv, CredRows
  <2>2. \A c \in CredIds : [cred[c] EXCEPT !.status = "revoked"] \in CredRows
    BY <2>1 DEF CredRows
  <2>3. cred' \in [CredIds -> CredRows]
    BY <2>1, <2>2
  <2> QED
    BY <2>3 DEF VaultIInv, CredRows
<1>2. LabelsFit' /\ PromotionsFit'
  BY DEF VaultIInv, LabelsFit, PromotionsFit
<1>3. clean' => OneAtATime'
  BY DEF VaultIInv, PromotionsFit, OneAtATime, ReadsHold, DeletedStaysDead, IsActive, Busy
<1>4. clean' => ReadsHold'
  BY DEF VaultIInv, PromotionsFit, OneAtATime, ReadsHold, IsActive, Busy
<1>5. clean' => DeletedStaysDead'
  BY DEF VaultIInv, PromotionsFit, OneAtATime, DeletedStaysDead, IsActive, Busy, Live
<1> QED
  BY <1>1, <1>2, <1>3, <1>4, <1>5 DEF VaultIInv

\* A handler that dies between two statements leaves a disorderly vault: it
\* ends clean, and what holds of orderly ones is no longer claimed.
LEMMA BreaksOffKeeps ==
    ASSUME VaultIInv, NEW h \in Handlers, BreaksOff(h)
    PROVE  VaultIInv'
<1> USE VaultAssumption DEF VaultTypeOK, BreaksOff, NoOp, KeysUnchanged
<1>1. VaultTypeOK'
  BY DEF VaultIInv, PromotionsFit, Live
<1>2. LabelsFit' /\ PromotionsFit'
  BY DEF VaultIInv, LabelsFit, PromotionsFit
<1>3. clean' => OneAtATime'
  BY DEF VaultIInv, PromotionsFit, OneAtATime, ReadsHold, DeletedStaysDead, IsActive, Busy
<1>4. clean' => ReadsHold'
  BY DEF VaultIInv, PromotionsFit, OneAtATime, ReadsHold, IsActive, Busy
<1>5. clean' => DeletedStaysDead'
  BY DEF VaultIInv, PromotionsFit, OneAtATime, DeletedStaysDead, IsActive, Busy, Live
<1> QED
  BY <1>1, <1>2, <1>3, <1>4, <1>5 DEF VaultIInv

\* A grace period that ends makes no key active.
LEMMA GraceLapsesKeeps ==
    ASSUME VaultIInv, NEW c \in CredIds, GraceLapses(c)
    PROVE  VaultIInv'
<1> USE VaultAssumption DEF VaultTypeOK, GraceLapses, SetStatus, KeysUnchanged
<1>1. VaultTypeOK'
  BY DEF VaultIInv, PromotionsFit, Live
<1>2. LabelsFit' /\ PromotionsFit'
  BY DEF VaultIInv, LabelsFit, PromotionsFit
<1>3. clean' => OneAtATime'
  BY DEF VaultIInv, PromotionsFit, OneAtATime, ReadsHold, DeletedStaysDead, IsActive, Busy
<1>4. clean' => ReadsHold'
  BY DEF VaultIInv, PromotionsFit, OneAtATime, ReadsHold, IsActive, Busy
<1>5. clean' => DeletedStaysDead'
  BY DEF VaultIInv, PromotionsFit, OneAtATime, DeletedStaysDead, IsActive, Busy, Live
<1> QED
  BY <1>1, <1>2, <1>3, <1>4, <1>5 DEF VaultIInv

\* The daily job revokes lapsed keys, which are not active.
LEMMA AutoRevokeExpiredKeeps ==
    ASSUME VaultIInv, AutoRevokeExpired
    PROVE  VaultIInv'
<1> USE VaultAssumption DEF VaultTypeOK, AutoRevokeExpired, KeysUnchanged
<1>1. VaultTypeOK'
  <2>1. \A c \in CredIds : cred'[c] \in CredRows
    BY SMTT(30) DEF VaultIInv, CredRows, Live
  <2>2. cred' = [c \in CredIds |-> cred'[c]]
    OBVIOUS
  <2> QED
    BY <2>1, <2>2 DEF VaultIInv, CredRows, Live
<1>2. LabelsFit' /\ PromotionsFit'
  BY DEF VaultIInv, LabelsFit, PromotionsFit
<1>3. clean' => OneAtATime'
  BY DEF VaultIInv, PromotionsFit, OneAtATime, ReadsHold, DeletedStaysDead, IsActive, Busy
<1>4. clean' => ReadsHold'
  BY DEF VaultIInv, PromotionsFit, OneAtATime, ReadsHold, IsActive, Busy
<1>5. clean' => DeletedStaysDead'
  BY DEF VaultIInv, PromotionsFit, OneAtATime, DeletedStaysDead, IsActive, Busy, Live
<1> QED
  BY <1>1, <1>2, <1>3, <1>4, <1>5 DEF VaultIInv

\* The rotation script lists the rows to seal again.
LEMMA RotateReadKeeps ==
    ASSUME VaultIInv, RotateRead
    PROVE  VaultIInv'
<1> USE VaultAssumption DEF VaultTypeOK, RotateRead
<1>1. VaultTypeOK'
  BY DEF VaultIInv, PromotionsFit, Live
<1>2. LabelsFit' /\ PromotionsFit'
  BY DEF VaultIInv, LabelsFit, PromotionsFit
<1>3. clean' => OneAtATime'
  BY DEF VaultIInv, PromotionsFit, OneAtATime, ReadsHold, DeletedStaysDead, IsActive, Busy
<1>4. clean' => ReadsHold'
  BY DEF VaultIInv, PromotionsFit, OneAtATime, ReadsHold, IsActive, Busy
<1>5. clean' => DeletedStaysDead'
  BY DEF VaultIInv, PromotionsFit, OneAtATime, DeletedStaysDead, IsActive, Busy, Live
<1> QED
  BY <1>1, <1>2, <1>3, <1>4, <1>5 DEF VaultIInv

\* The rotation script ends when no row is left of its list.
LEMMA RotateEndsKeeps ==
    ASSUME VaultIInv, RotateEnds
    PROVE  VaultIInv'
<1> USE VaultAssumption DEF VaultTypeOK, RotateEnds
<1>1. VaultTypeOK'
  BY DEF VaultIInv, PromotionsFit, Live
<1>2. LabelsFit' /\ PromotionsFit'
  BY DEF VaultIInv, LabelsFit, PromotionsFit
<1>3. clean' => OneAtATime'
  BY DEF VaultIInv, PromotionsFit, OneAtATime, ReadsHold, DeletedStaysDead, IsActive, Busy
<1>4. clean' => ReadsHold'
  BY DEF VaultIInv, PromotionsFit, OneAtATime, ReadsHold, IsActive, Busy
<1>5. clean' => DeletedStaysDead'
  BY DEF VaultIInv, PromotionsFit, OneAtATime, DeletedStaysDead, IsActive, Busy, Live
<1> QED
  BY <1>1, <1>2, <1>3, <1>4, <1>5 DEF VaultIInv

\* The rotation script writes ciphertext and key_version in one UPDATE.
LEMMA RotateWriteKeeps ==
    ASSUME VaultIInv, NEW c \in CredIds, RotateWrite(c)
    PROVE  VaultIInv'
<1> USE VaultAssumption DEF VaultTypeOK, RotateWrite
<1>1. VaultTypeOK'
  <2> DEFINE d == [cred[c] EXCEPT !.version = 2, !.sealed = 2]
  <2>1. cred \in [CredIds -> CredRows]
    BY DEF VaultIInv, CredRows
  <2>2. d \in CredRows
    BY <2>1 DEF CredRows
  <2>3. cred' = [cred EXCEPT ![c] = d]
    OBVIOUS
  <2> HIDE DEF d
  <2>4. cred' \in [CredIds -> CredRows]
    BY <2>1, <2>2, <2>3
  <2> QED
    BY <2>4 DEF VaultIInv, CredRows
<1>2. LabelsFit' /\ PromotionsFit'
  BY DEF VaultIInv, LabelsFit, PromotionsFit
<1>3. clean' => OneAtATime'
  BY DEF VaultIInv, PromotionsFit, OneAtATime, ReadsHold, DeletedStaysDead, IsActive, Busy
<1>4. clean' => ReadsHold'
  BY DEF VaultIInv, PromotionsFit, OneAtATime, ReadsHold, IsActive, Busy
<1>5. clean' => DeletedStaysDead'
  BY DEF VaultIInv, PromotionsFit, OneAtATime, DeletedStaysDead, IsActive, Busy, Live
<1> QED
  BY <1>1, <1>2, <1>3, <1>4, <1>5 DEF VaultIInv

\* The router restarts with the new master key, and keeps the previous one.
LEMMA RestartWithNewKeyKeeps ==
    ASSUME VaultIInv, RestartWithNewKey
    PROVE  VaultIInv'
<1> USE VaultAssumption DEF VaultTypeOK, RestartWithNewKey, NoOp
<1>1. VaultTypeOK'
  BY DEF VaultIInv, PromotionsFit, Live
<1>2. LabelsFit' /\ PromotionsFit'
  BY DEF VaultIInv, LabelsFit, PromotionsFit
<1>3. clean' => OneAtATime'
  BY DEF VaultIInv, PromotionsFit, OneAtATime, ReadsHold, DeletedStaysDead, IsActive, Busy
<1>4. clean' => ReadsHold'
  BY DEF VaultIInv, PromotionsFit, OneAtATime, ReadsHold, IsActive, Busy
<1>5. clean' => DeletedStaysDead'
  BY DEF VaultIInv, PromotionsFit, OneAtATime, DeletedStaysDead, IsActive, Busy, Live
<1> QED
  BY <1>1, <1>2, <1>3, <1>4, <1>5 DEF VaultIInv

\* The previous master key is dropped from the environment.
LEMMA DropPreviousKeyKeeps ==
    ASSUME VaultIInv, DropPreviousKey
    PROVE  VaultIInv'
<1> USE VaultAssumption DEF VaultTypeOK, DropPreviousKey, NoOp
<1>1. VaultTypeOK'
  BY DEF VaultIInv, PromotionsFit, Live
<1>2. LabelsFit' /\ PromotionsFit'
  BY DEF VaultIInv, LabelsFit, PromotionsFit
<1>3. clean' => OneAtATime'
  BY DEF VaultIInv, PromotionsFit, OneAtATime, ReadsHold, DeletedStaysDead, IsActive, Busy
<1>4. clean' => ReadsHold'
  BY DEF VaultIInv, PromotionsFit, OneAtATime, ReadsHold, IsActive, Busy
<1>5. clean' => DeletedStaysDead'
  BY DEF VaultIInv, PromotionsFit, OneAtATime, DeletedStaysDead, IsActive, Busy, Live
<1> QED
  BY <1>1, <1>2, <1>3, <1>4, <1>5 DEF VaultIInv

\* Every step of the vault keeps the invariant.
LEMMA VaultStep == VaultIInv /\ [VaultNext]_vaultVars => VaultIInv'
<1> SUFFICES ASSUME VaultIInv, [VaultNext]_vaultVars PROVE VaultIInv'
  OBVIOUS
<1>1. ASSUME NEW h \in Handlers, HandlerStep(h) PROVE VaultIInv'
  BY <1>1, AddBeginKeeps, DeleteMarkKeeps, AddLookKeeps, AddInsertKeeps, PromoteBeginKeeps,
     RevokeKeeps, PromoteLookKeeps, PromoteDemoteKeeps, PromoteActivateKeeps,
     DeleteRevokeKeeps, BreaksOffKeeps DEF HandlerStep
<1>2. CASE UNCHANGED vaultVars
  BY <1>2 DEF vaultVars, VaultIInv, VaultTypeOK, LabelsFit, PromotionsFit, OneAtATime, ReadsHold,
              DeletedStaysDead, IsActive, Busy
<1>3. CASE VaultNext
  BY <1>1, <1>3, CreateProviderKeeps, GraceLapsesKeeps, AutoRevokeExpiredKeeps, RotateReadKeeps,
     RotateEndsKeeps, RotateWriteKeeps, RestartWithNewKeyKeeps, DropPreviousKeyKeeps DEF VaultNext
<1> QED
  BY <1>2, <1>3

\* The vault's invariant holds of every number of providers, credentials and
\* concurrent handlers.
THEOREM VaultInductive == VaultSpec => []VaultIInv
BY VaultStarts, VaultStep, PTL DEF VaultSpec

\* Ciphertexts never part from their labels, so that a router started with
\* both master keys, the current one and MASTER_KEY_PREVIOUS, can decrypt every
\* live credential, whenever in a rotation it starts.  Of a router that has one
\* of the two only this says nothing.
THEOREM PreviousKeyBoots == VaultSpec => []BootsWithPreviousKey
<1>1. VaultIInv => BootsWithPreviousKey
  BY DEF VaultIInv, VaultTypeOK, LabelsFit, BootsWithPreviousKey, StartupCheck, Decrypts
<1> QED
  BY <1>1, VaultInductive, PTL

\* Administrators who take turns see one active key per provider and none of a
\* deleted one, for every number of providers, credentials and handlers.
THEOREM VaultIsSerial == VaultSpec => []SerialVault
<1>1. ASSUME VaultIInv, clean, NEW p \in ProviderIds
      PROVE  Cardinality(ActiveOf(p)) <= 1
  <2>1. \A c, d \in ActiveOf(p) : c = d
    BY <1>1 DEF VaultIInv, OneAtATime, IsActive, ActiveOf
  <2>2. CASE ActiveOf(p) = {}
    BY <2>2, FS_EmptySet
  <2>3. CASE ActiveOf(p) # {}
    <3>1. PICK c : ActiveOf(p) = {c}
      BY <2>1, <2>3
    <3> QED
      BY <3>1, FS_Singleton
  <2> QED
    BY <2>2, <2>3
<1>2. ASSUME VaultIInv, clean, NEW p \in ProviderIds, prov[p] = "deleted", Working(p) = {},
             NEW c \in CredIds, cred[c].prov = p
      PROVE  cred[c].status \in {"none", "revoked"}
  BY <1>2 DEF VaultIInv, DeletedStaysDead, Working
<1>3. VaultIInv => SerialVault
  BY <1>1, <1>2 DEF SerialVault
<1> QED
  BY <1>3, VaultInductive, PTL

-----------------------------------------------------------------------------
\* computeStatus() answers with the present status or one of the three it can
\* derive.
LEMMA StatusComputed ==
    ASSUME NEW w, NEW s
    PROVE  ComputeStatus(w, s) \in {s, "down", "degraded", "healthy"}
BY DEF ComputeStatus

\* Transitions land in order: once the chain has drained the row shows the
\* monitor's status, whatever the window's size and the thresholds.
THEOREM RowsFollowMonitors == HealthSpec => []RowFollowsMonitor
<1> USE HealthAssumption
<1>1. HealthInit => HealthIInv
  <2> SUFFICES ASSUME HealthInit PROVE HealthIInv
    OBVIOUS
  <2>1. outcomes \in Seq(BOOLEAN) /\ Len(outcomes) = 0 /\ chain \in Seq(HealthStatus \ {"unknown"})
    BY DEF HealthInit
  <2>2. HealthTypeOK
    <3>1. "unknown" \in HealthStatus
      BY DEF HealthStatus
    <3>2. status = "unknown" /\ row = "unknown" /\ rowBy = "monitor" /\ testing = FALSE
      BY DEF HealthInit
    <3>3. Len(outcomes) <= WindowSize
      BY <2>1
    <3>4. testing \in BOOLEAN
      BY <3>2
    <3>5. status \in HealthStatus /\ row \in HealthStatus /\ rowBy \in {"monitor", "test", "lost"}
      BY <3>1, <3>2
    <3> QED
      BY <2>1, <3>3, <3>4, <3>5, Zenon DEF HealthTypeOK
  <2>3. chain = <<>> /\ row = status
    BY DEF HealthInit
  <2> QED
    BY <2>2, <2>3, Zenon DEF HealthIInv, RowFollowsMonitor
<1>2. HealthIInv /\ [HealthNext]_healthVars => HealthIInv'
  <2> SUFFICES ASSUME HealthIInv, [HealthNext]_healthVars PROVE HealthIInv'
    OBVIOUS
  <2> USE DEF HealthIInv, HealthTypeOK, RowFollowsMonitor
  <2>1. ASSUME NEW ok \in BOOLEAN, RecordOutcome(ok) PROVE HealthIInv'
    <3> DEFINE w == Pushed(outcomes, ok)
               s == ComputeStatus(w, status)
    <3>1. w \in Seq(BOOLEAN) /\ Len(w) <= WindowSize
      <4>1. CASE Len(outcomes) < WindowSize
        <5>1. w = Append(outcomes, ok)
          BY <4>1 DEF Pushed
        <5> HIDE DEF w
        <5> QED
          BY <4>1, <5>1
      <4>2. CASE ~ (Len(outcomes) < WindowSize)
        <5>1. w = Append(Tail(outcomes), ok)
          BY <4>2 DEF Pushed
        <5>2. Tail(outcomes) \in Seq(BOOLEAN) /\ Len(Tail(outcomes)) = Len(outcomes) - 1
          BY <4>2
        <5> HIDE DEF w
        <5> QED
          BY <4>2, <5>1, <5>2
      <4> QED
        BY <4>1, <4>2
    <3>2. s \in {status, "down", "degraded", "healthy"}
      BY StatusComputed
    <3>3. /\ outcomes' = w /\ status' = s /\ UNCHANGED <<row, rowBy, testing>>
          /\ chain' = IF s = status THEN chain ELSE Append(chain, s)
      BY <2>1 DEF RecordOutcome
    <3> HIDE DEF w, s
    <3>4. CASE s = status
      BY <3>1, <3>3, <3>4
    <3>5. CASE s # status
      <4>1. s \in HealthStatus \ {"unknown"} /\ chain' = Append(chain, s)
        BY <3>2, <3>3, <3>5 DEF HealthStatus
      <4>2. chain' \in Seq(HealthStatus \ {"unknown"}) /\ chain' # <<>> /\ chain'[Len(chain')] = s
        BY <4>1
      <4> QED
        BY <3>1, <3>3, <4>1, <4>2
    <3> QED
      BY <3>4, <3>5
  <2>2. CASE Persists
    <3>1. /\ chain # <<>> /\ chain' = Tail(chain) /\ UNCHANGED <<outcomes, status, testing>>
          /\ \/ row' = Head(chain) /\ rowBy' = "monitor"
             \/ row' = row /\ rowBy' = "lost"
      BY <2>2 DEF Persists
    <3>2. /\ Head(chain) \in HealthStatus /\ chain' \in Seq(HealthStatus \ {"unknown"})
          /\ Len(chain') = Len(chain) - 1
      BY <3>1
    <3>3. chain' = <<>> => Head(chain) = status
      <4>1. Head(chain) = chain[1]
        BY <3>1
      <4>2. ASSUME chain' = <<>> PROVE Len(chain) = 1
        <5>1. Len(chain') = 0
          BY <4>2
        <5> QED
          BY <3>2, <5>1
      <4> QED
        BY <3>1, <4>1, <4>2
    <3>4. chain' # <<>> => chain'[Len(chain')] = status
      BY <3>1, <3>2
    <3> QED
      BY <3>1, <3>2, <3>3, <3>4
  <2>3. CASE TestBegins
    BY <2>3 DEF TestBegins
  <2>4. CASE TestEnds
    BY <2>4 DEF TestEnds, HealthStatus
  <2>5. CASE UNCHANGED healthVars
    BY <2>5 DEF healthVars
  <2> QED
    BY <2>1, <2>2, <2>3, <2>4, <2>5 DEF HealthNext
<1>3. HealthIInv => RowFollowsMonitor
  BY DEF HealthIInv
<1> QED
  BY <1>1, <1>2, <1>3, PTL DEF HealthSpec

-----------------------------------------------------------------------------
\* A row as far as the invariant cares: its source, overrides and window.
Is(n, s, o, x) == IsRow(n) /\ n.source = s /\ n.over = o /\ n.ctx = x

\* A row after an edit of one of its columns, or of several.
LEMMA ColumnEdits ==
    ASSUME NEW m, IsRow(m), NEW x
    PROVE  /\ Is([m EXCEPT !.ctx = x], m.source, m.over, x)
           /\ Is([m EXCEPT !.status = x], m.source, m.over, m.ctx)
           /\ Is([m EXCEPT !.caps = x], m.source, m.over, m.ctx)
           /\ Is([m EXCEPT !.third = x], m.source, m.over, m.ctx)
           /\ Is([m EXCEPT !.over = x], m.source, x, m.ctx)
           /\ x \in {"none", "synced", "provider", "custom"} =>
                 Is([m EXCEPT !.source = x], x, m.over, m.ctx)
<1> USE DEF IsRow, Is
<1> DEFINE r == [source |-> m.source, status |-> m.status, ctx |-> m.ctx, caps |-> m.caps,
                 over |-> m.over, third |-> m.third]
<1>0. m = r
  OBVIOUS
<1>1. Is([r EXCEPT !.ctx = x], m.source, m.over, x)
  OBVIOUS
<1>2. Is([r EXCEPT !.status = x], m.source, m.over, m.ctx)
  OBVIOUS
<1>3. Is([r EXCEPT !.third = x], m.source, m.over, m.ctx)
  OBVIOUS
<1>4. Is([r EXCEPT !.over = x], m.source, x, m.ctx)
  OBVIOUS
<1>5. Is([r EXCEPT !.caps = x], m.source, m.over, m.ctx)
  OBVIOUS
<1>6. x \in {"none", "synced", "provider", "custom"} => Is([r EXCEPT !.source = x], x, m.over, m.ctx)
  OBVIOUS
<1> HIDE DEF r, Is
<1> QED
  BY <1>0, <1>1, <1>2, <1>3, <1>4, <1>5, <1>6

\* An UPDATE of several columns leaves source and overrides alone.
LEMMA RowEdits ==
    ASSUME NEW m, IsRow(m), NEW x, NEW y, NEW z
    PROVE  /\ Is([m EXCEPT !.caps = x, !.ctx = y], m.source, m.over, y)
           /\ Is([m EXCEPT !.ctx = x, !.caps = y, !.status = z], m.source, m.over, x)
<1>1. Is([m EXCEPT !.caps = x, !.ctx = y], m.source, m.over, y)
  <2> DEFINE n == [m EXCEPT !.caps = x]
  <2>1. [m EXCEPT !.caps = x, !.ctx = y] = [n EXCEPT !.ctx = y]
    OBVIOUS
  <2>2. Is(n, m.source, m.over, m.ctx)
    BY ColumnEdits
  <2> HIDE DEF n
  <2>3. Is([n EXCEPT !.ctx = y], n.source, n.over, y)
    BY ZenonT(100), <2>2, ColumnEdits DEF Is
  <2> QED
    BY <2>1, <2>2, <2>3 DEF Is
<1>2. Is([m EXCEPT !.ctx = x, !.caps = y, !.status = z], m.source, m.over, x)
  <2> DEFINE n == [m EXCEPT !.ctx = x]
             k == [n EXCEPT !.caps = y]
  <2>1. [m EXCEPT !.ctx = x, !.caps = y, !.status = z] = [k EXCEPT !.status = z]
    OBVIOUS
  <2>2. Is(n, m.source, m.over, x)
    BY ColumnEdits
  <2>3. Is(k, n.source, n.over, n.ctx)
    <3> HIDE DEF n
    <3> QED
      BY ZenonT(40), <2>2, ColumnEdits DEF Is
  <2> HIDE DEF n, k
  <2>4. Is([k EXCEPT !.status = z], k.source, k.over, k.ctx)
    BY ZenonT(40), <2>3, ColumnEdits DEF Is
  <2> QED
    BY <2>1, <2>2, <2>3, <2>4 DEF Is
<1> QED
  BY <1>1, <1>2

\* A model that is not in the table counts as a row that fits.
LEMMA NoRow == Is(NoModel, "none", NoOverride, 0) /\ RowFits(NoModel)
BY DEF Is, RowFits, IsRow, NoModel

\* A row that is inserted.
LEMMA RowInserts ==
    ASSUME NEW s \in {"synced", "provider", "custom"}, NEW x, NEW y, NEW z
    PROVE  /\ Is([NoModel EXCEPT !.source = s, !.ctx = x, !.caps = y, !.third = z], s, NoOverride, x)
           /\ Is([NoModel EXCEPT !.source = s, !.ctx = x, !.caps = y], s, NoOverride, x)
           /\ Is([NoModel EXCEPT !.source = s, !.ctx = x], s, NoOverride, x)
<1> DEFINE a == [NoModel EXCEPT !.source = s]
           b == [a EXCEPT !.ctx = x]
           c == [b EXCEPT !.caps = y]
           d == [c EXCEPT !.third = z]
<1>1. /\ [NoModel EXCEPT !.source = s, !.ctx = x, !.caps = y, !.third = z] = d
      /\ [NoModel EXCEPT !.source = s, !.ctx = x, !.caps = y] = c
      /\ [NoModel EXCEPT !.source = s, !.ctx = x] = b
  OBVIOUS
<1>2. Is(a, s, NoModel.over, NoModel.ctx)
  BY NoRow, ColumnEdits DEF Is
<1>3. Is(b, a.source, a.over, x)
  <2> HIDE DEF a
  <2>1. IsRow(a)
    BY <1>2 DEF Is
  <2> QED
    BY <2>1, ColumnEdits
<1>4. Is(c, b.source, b.over, b.ctx)
  <2> HIDE DEF b
  <2> QED
    BY <1>3, ColumnEdits DEF Is
<1>5. Is(d, c.source, c.over, c.ctx)
  <2> HIDE DEF c
  <2> QED
    BY ZenonT(40), <1>4, ColumnEdits DEF Is
<1> HIDE DEF a, b, c, d
<1> QED
  BY <1>1, <1>2, <1>3, <1>4, <1>5, NoRow DEF Is

\* What a pass may make of the row m: it is inserted, or stays what it was.
Kept(m, n) ==
    /\ RowFits(n)
    /\ m.source # "none" => n.source = m.source
    /\ n.over \in {m.over, NoOverride}

\* What the feeds and the provider publish.
LEMMA WorldFits ==
    ASSUME world \in Worlds, world.served # None
    PROVE  world.served.ctx \in 1..5
BY CatalogAssumption DEF World

\* A pass over a row keeps what the operator set, and fills a context window
\* only where it finds the placeholder.
LEMMA RefreshedFits ==
    ASSUME NEW m, NEW s, NEW e, RowFits(m), m.source # "none"
    PROVE  LET n == Refreshed(m, s, e) IN
           /\ Kept(m, n)
           /\ n.ctx # m.ctx => s.ctx = Placeholder
<1> DEFINE k == IF e.caps \subseteq s.caps THEN m.caps ELSE s.caps \cup e.caps
           x == IF s.ctx = Placeholder /\ e.ctx # 0 THEN e.ctx ELSE m.ctx
           n == Refreshed(m, s, e)
<1>1. n = [m EXCEPT !.caps = k, !.ctx = x]
  BY DEF Refreshed, RowFits, IsRow
<1>2. x # 0 /\ (x # m.ctx => s.ctx = Placeholder)
  BY DEF RowFits
<1> HIDE DEF k, x, n
<1>3. IsRow(m)
  BY DEF RowFits
<1>4. Is(n, m.source, m.over, x)
  BY <1>1, <1>3, RowEdits
<1> QED
  BY <1>2, <1>4 DEF Kept, RowFits, Is, n

\* What syncOneModel() makes of the row.
LEMMA SyncedFits ==
    ASSUME NEW s, NEW e, RowFits(model), SnapFits(s, model)
    PROVE  LET n == Synced(s, e) IN
           /\ Kept(model, n)
           /\ n.ctx # model.ctx /\ InCatalog =>
                 e # None /\ s.source # "custom" /\ n.ctx = (IF e.ctx = 0 THEN s.ctx ELSE e.ctx)
<1> DEFINE n == Synced(s, e)
<1>0. NoModel.ctx = 0 /\ NoModel.source = "none" /\ IsRow(model)
  BY NoRow DEF Is, RowFits
<1>1. CASE s.source = "custom" \/ e = None
  BY <1>1 DEF Synced, Kept
<1>2. CASE ~ (s.source = "custom" \/ e = None) /\ s = NoModel
  <2>1. CASE e.ctx = 0
    BY <1>2, <2>1 DEF Synced, Kept
  <2>2. CASE e.ctx # 0 /\ InCatalog
    <3>1. n = [model EXCEPT !.ctx = e.ctx]
      BY <1>2, <2>2 DEF Synced
    <3>2. Is([model EXCEPT !.ctx = e.ctx], model.source, model.over, e.ctx)
      BY <1>0, ColumnEdits
    <3> HIDE DEF n
    <3> QED
      BY <1>0, <1>2, <2>2, <3>1, <3>2 DEF n, InCatalog, Kept, RowFits, Is
  <2>3. CASE e.ctx # 0 /\ ~ InCatalog
    <3>1. n = [NoModel EXCEPT !.source = "synced", !.ctx = e.ctx, !.caps = e.caps]
      BY <1>2, <2>3 DEF Synced
    <3>2. Is([NoModel EXCEPT !.source = "synced", !.ctx = e.ctx, !.caps = e.caps], "synced", NoOverride, e.ctx)
      BY RowInserts
    <3> HIDE DEF n
    <3> QED
      BY <2>3, <3>1, <3>2 DEF n, InCatalog, Kept, RowFits, Is
  <2> QED
    BY <2>1, <2>2, <2>3
<1>3. CASE ~ (s.source = "custom" \/ e = None) /\ s # NoModel
  <2> DEFINE x == IF e.ctx = 0 THEN s.ctx ELSE e.ctx
  <2>1. s.source \in {"provider", "synced"} /\ model.source = s.source /\ x # 0
    BY <1>3 DEF SnapFits, IsRow, RowFits
  <2>2. CASE n = model
    BY <2>2 DEF Kept
  <2>3. CASE n # model
    <3>1. n = [model EXCEPT !.ctx = x, !.caps = e.caps, !.status = "active"]
      BY <1>3, <2>3 DEF Synced
    <3>2. Is([model EXCEPT !.ctx = x, !.caps = e.caps, !.status = "active"], model.source, model.over, x)
      <4> HIDE DEF x
      <4> QED
        BY <1>0, RowEdits
    <3> HIDE DEF n
    <3>3. Kept(model, n)
      <4> HIDE DEF x
      <4> QED
        BY <2>1, <3>1, <3>2 DEF Kept, RowFits, Is
    <3>4. n.ctx = x
      BY <3>1, <3>2 DEF Is
    <3> QED
      BY <1>3, <2>1, <3>3, <3>4 DEF n
  <2> QED
    BY <2>2, <2>3
<1> QED
  BY <1>1, <1>2, <1>3

\* The columns a pass keeps of its row: its stage, the row it has read.
LEMMA PassShape ==
    ASSUME NEW f, f = [p \in Passes |-> [at |-> f[p].at, snap |-> f[p].snap, read |-> f[p].read]],
           NEW p \in Passes, NEW d, d = [at |-> d.at, snap |-> d.snap, read |-> d.read]
    PROVE  LET g == [f EXCEPT ![p] = d] IN
           /\ g = [q \in Passes |-> [at |-> g[q].at, snap |-> g[q].snap, read |-> g[q].read]]
           /\ g[p] = d
           /\ \A q \in Passes \ {p} : g[q] = f[q]
OBVIOUS

\* A step of a pass keeps the invariant if it keeps the row, and what it has
\* read is nothing, what it had read, or the row.
LEMMA PassKeeps ==
    ASSUME CatalogIInv, NEW p \in Passes, NEW d,
           d = [at |-> d.at, snap |-> d.snap, read |-> d.read],
           pass' = [pass EXCEPT ![p] = d],
           d.snap \in {NoModel, pass[p].snap} \/ (d.snap = model /\ model' = model),
           Kept(model, model'),
           UNCHANGED <<world, console>>
    PROVE  CatalogIInv'
<1> DEFINE Shaped(f) == f = [q \in Passes |-> [at |-> f[q].at, snap |-> f[q].snap, read |-> f[q].read]]
<1>1. Shaped(pass') /\ pass'[p] = d /\ \A q \in Passes \ {p} : pass'[q] = pass[q]
  BY PassShape DEF CatalogIInv
<1> HIDE DEF Shaped
<1>2. SnapFits(NoModel, model')
  BY NoRow DEF SnapFits, Is
<1>3. \A q \in Passes : SnapFits(pass'[q].snap, model')
  <2>1. ASSUME NEW q \in Passes, NEW s, SnapFits(s, model) PROVE SnapFits(s, model')
    BY <2>1 DEF SnapFits, Kept
  <2>2. SnapFits(model, model)
    BY DEF SnapFits, CatalogIInv
  <2> QED
    BY <1>1, <1>2, <2>1, <2>2 DEF CatalogIInv
<1>4. CeilingHolds(model.over)' /\ CeilingHolds(probe.over)'
  <2>1. \A c \in Ceiling : NoOverride[c] # "on"
    BY DEF NoOverride, Ceiling
  <2> QED
    BY <2>1 DEF CatalogIInv, CeilingHolds, Ceiling, Kept, console
<1>5. /\ world' \in Worlds
      /\ RowFits(model') /\ RowFits(probe')
      /\ InCatalog => InCatalog'
      /\ retiring' # "no" => model'.source = "custom"
  BY DEF CatalogIInv, Kept, console, InCatalog
<1> QED
  BY <1>1, <1>3, <1>4, <1>5 DEF CatalogIInv, console, Shaped

\* What a step of pass p does to the context window.
SpecKept(p) ==
    model.ctx # model'.ctx /\ InCatalog =>
        \/ pass[p].snap.ctx = Placeholder /\ pass[p].snap.source = "provider"
        \/ /\ Feed # None /\ pass[p].snap.source # "custom"
           /\ model'.ctx = (IF Feed.ctx = 0 THEN pass[p].snap.ctx ELSE Feed.ctx)

\* A stage that has done its work forgets what it read.
LEMMA StageKeeps ==
    ASSUME CatalogIInv, NEW p \in Passes, NEW at, Stage(p, at),
           Kept(model, model'), UNCHANGED <<world, console>>
    PROVE  CatalogIInv'
<1> DEFINE d == [at |-> at, snap |-> NoModel, read |-> FALSE]
<1>1. d = [at |-> d.at, snap |-> d.snap, read |-> d.read] /\ d.snap = NoModel /\ pass' = [pass EXCEPT ![p] = d]
  BY DEF Stage
<1> HIDE DEF d
<1> QED
  BY <1>1, PassKeeps

\* Leaving the table alone keeps every row.
LEMMA StaysKept == CatalogIInv => Kept(model, model)
BY DEF CatalogIInv, Kept

\* A row a pass has read as a provider's is one still.
LEMMA ReadIsThere ==
    ASSUME CatalogIInv, NEW p \in Passes
    PROVE  /\ RowFits(model) /\ IsRow(model) /\ SnapFits(pass[p].snap, model)
           /\ pass[p].snap.source \in {"provider", "synced"} => InCatalog
BY DEF CatalogIInv, SnapFits, RowFits, InCatalog

\* DigitalOcean's discovery inserts or refreshes the row it has read.
LEMMA DiscoverDigitalOceanKeeps ==
    ASSUME CatalogIInv, NEW p \in Passes, DiscoverDigitalOcean(p)
    PROVE  CatalogIInv' /\ SpecKept(p)
<1> DEFINE plan == PlanDiscovery(pass[p].snap)
           new == [NoModel EXCEPT !.source = "provider", !.ctx = Placeholder, !.caps = {"json"}, !.third = world.third]
           tag == [model EXCEPT !.third = model.third \/ world.third]
<1>1. /\ \/ model' = new /\ ~ InCatalog
         \/ model' = tag /\ InCatalog
         \/ model' = model
      /\ Stage(p, "docs") /\ UNCHANGED <<world, console>>
  BY DEF DiscoverDigitalOcean, console
<1>2. Is(new, "provider", NoOverride, Placeholder)
  BY RowInserts
<1>3. Is(tag, model.source, model.over, model.ctx)
  BY ReadIsThere, ColumnEdits
<1> HIDE DEF new, tag
<1>4. Kept(model, model') /\ (InCatalog => model'.ctx = model.ctx)
  BY <1>1, <1>2, <1>3, StaysKept, ReadIsThere DEF Kept, RowFits, Is, InCatalog, Placeholder
<1> QED
  BY <1>1, <1>4, StageKeeps DEF SpecKept

\* Anthropic's discovery inserts or refreshes the row it has read.
LEMMA DiscoverAnthropicKeeps ==
    ASSUME CatalogIInv, NEW p \in Passes, DiscoverAnthropic(p)
    PROVE  CatalogIInv' /\ SpecKept(p)
<1> DEFINE new == [NoModel EXCEPT !.source = "provider", !.ctx = world.served.ctx, !.caps = world.served.caps]
           old == Refreshed(model, pass[p].snap, world.served)
<1>1. /\ \/ model' = new /\ ~ InCatalog /\ world.served # None
         \/ model' = old /\ pass[p].snap.source = "provider"
         \/ model' = model
      /\ Stage(p, "live") /\ UNCHANGED <<world, console>>
  BY DEF DiscoverAnthropic, console
<1>2. CASE model' = new /\ ~ InCatalog /\ world.served # None
  <2>1. world.served.ctx # 0
    BY <1>2, WorldFits DEF CatalogIInv
  <2>2. Is(new, "provider", NoOverride, world.served.ctx)
    BY RowInserts
  <2> HIDE DEF new
  <2>3. Kept(model, model')
    BY <1>2, <2>1, <2>2 DEF Kept, RowFits, Is, InCatalog
  <2> QED
    BY <1>1, <1>2, <2>3, StageKeeps DEF SpecKept
<1>3. CASE model' = old /\ pass[p].snap.source = "provider"
  <2>1. Kept(model, old) /\ (old.ctx # model.ctx => pass[p].snap.ctx = Placeholder)
    BY <1>3, ReadIsThere, RefreshedFits DEF InCatalog
  <2> HIDE DEF old
  <2> QED
    BY <1>1, <1>3, <2>1, StageKeeps DEF SpecKept
<1>4. CASE model' = model
  BY <1>1, <1>4, StaysKept, StageKeeps DEF SpecKept
<1> QED
  BY <1>1, <1>2, <1>3, <1>4

\* applyScrapedToCatalog() touches discovered rows that no feed carries.
LEMMA ApplyScrapedKeeps ==
    ASSUME CatalogIInv, NEW p \in Passes, ApplyScraped(p)
    PROVE  CatalogIInv' /\ SpecKept(p)
<1> DEFINE old == Refreshed(model, pass[p].snap, world.docs)
<1>1. /\ \/ model' = old /\ pass[p].snap.source = "provider"
         \/ model' = model
      /\ Stage(p, "live") /\ UNCHANGED <<world, console>>
  BY DEF ApplyScraped, console
<1>2. CASE model' = old /\ pass[p].snap.source = "provider"
  <2>1. Kept(model, old) /\ (old.ctx # model.ctx => pass[p].snap.ctx = Placeholder)
    BY <1>2, ReadIsThere, RefreshedFits DEF InCatalog
  <2> HIDE DEF old
  <2> QED
    BY <1>1, <1>2, <2>1, StageKeeps DEF SpecKept
<1>3. CASE model' = model
  BY <1>1, <1>3, StaysKept, StageKeeps DEF SpecKept
<1> QED
  BY <1>1, <1>2, <1>3

\* applyLivePricing() touches the same rows.
LEMMA ApplyLivePricingKeeps ==
    ASSUME CatalogIInv, NEW p \in Passes, ApplyLivePricing(p)
    PROVE  CatalogIInv' /\ SpecKept(p)
<1> DEFINE s == pass[p].snap
           x == IF s.ctx = Placeholder /\ world.live.ctx # 0 THEN world.live.ctx ELSE model.ctx
           n == [model EXCEPT !.ctx = x]
<1>1. /\ \/ model' = n /\ s.source = "provider"
         \/ model' = model
      /\ Stage(p, "sync") /\ UNCHANGED <<world, console>>
  BY DEF ApplyLivePricing, console
<1>2. CASE model' = n /\ s.source = "provider"
  <2>1. InCatalog /\ model.ctx # 0 /\ x # 0 /\ (x # model.ctx => s.ctx = Placeholder)
    BY <1>2, ReadIsThere DEF RowFits, InCatalog
  <2> HIDE DEF x
  <2>2. Is(n, model.source, model.over, x)
    BY ReadIsThere, ColumnEdits
  <2> HIDE DEF n
  <2>3. Kept(model, n)
    BY <2>1, <2>2 DEF Kept, RowFits, Is, InCatalog
  <2> QED
    BY <1>1, <1>2, <2>1, <2>2, <2>3, StageKeeps DEF SpecKept, Is
<1>3. CASE model' = model
  BY <1>1, <1>3, StaysKept, StageKeeps DEF SpecKept
<1> QED
  BY <1>1, <1>2, <1>3

\* syncOneModel() never touches a custom row, nor any row's overrides.
LEMMA SyncOneModelKeeps ==
    ASSUME CatalogIInv, NEW p \in Passes, SyncOneModel(p)
    PROVE  CatalogIInv' /\ SpecKept(p)
<1> DEFINE s == pass[p].snap
           d == [at |-> "vanish", snap |-> s, read |-> pass[p].read]
<1>1. model' = Synced(s, Feed) /\ UNCHANGED <<world, console>>
  BY DEF SyncOneModel, console
<1>2. /\ Kept(model, Synced(s, Feed))
      /\ Synced(s, Feed).ctx # model.ctx /\ InCatalog =>
            Feed # None /\ s.source # "custom" /\ Synced(s, Feed).ctx = (IF Feed.ctx = 0 THEN s.ctx ELSE Feed.ctx)
  BY ReadIsThere, SyncedFits
<1>3. pass' = [pass EXCEPT ![p] = d]
  <2>1. pass[p] = [at |-> pass[p].at, snap |-> s, read |-> pass[p].read]
    BY DEF CatalogIInv
  <2>2. [pass[p] EXCEPT !.at = "vanish"] = d
    BY <2>1
  <2>3. pass' = [pass EXCEPT ![p] = [pass[p] EXCEPT !.at = "vanish"]]
    BY DEF SyncOneModel
  <2> QED
    BY <2>2, <2>3
<1>4. d = [at |-> d.at, snap |-> d.snap, read |-> d.read] /\ d.snap = pass[p].snap
  OBVIOUS
<1> HIDE DEF d
<1>5. CatalogIInv'
  BY <1>1, <1>2, <1>3, <1>4, PassKeeps
<1> QED
  BY <1>1, <1>2, <1>5 DEF SpecKept

\* A model that vanished from its provider is flagged, not deleted.
LEMMA SyncVanishedKeeps ==
    ASSUME CatalogIInv, NEW p \in Passes, SyncVanished(p)
    PROVE  CatalogIInv' /\ SpecKept(p)
<1> DEFINE n == [model EXCEPT !.status = "deprecated"]
<1>1. /\ \/ model' = n /\ pass[p].snap.source = "synced"
         \/ model' = model
      /\ Stage(p, "alerts") /\ UNCHANGED <<world, console>>
  BY DEF SyncVanished, console
<1>2. Is(n, model.source, model.over, model.ctx)
  BY ReadIsThere, ColumnEdits
<1> HIDE DEF n
<1>3. Kept(model, model') /\ model'.ctx = model.ctx
  BY <1>1, <1>2, StaysKept, ReadIsThere DEF Kept, RowFits, Is, InCatalog
<1> QED
  BY <1>1, <1>3, StageKeeps DEF SpecKept

\* A pass reads the row once and keeps it across its awaits.
LEMMA PassReadsKeeps ==
    ASSUME CatalogIInv, NEW p \in Passes, PassReads(p)
    PROVE  CatalogIInv' /\ SpecKept(p)
<1> DEFINE d == [at |-> pass[p].at, snap |-> model, read |-> TRUE]
<1>1. UNCHANGED <<world, model, console>>
  BY DEF PassReads, console
<1>2. pass' = [pass EXCEPT ![p] = d]
  <2>1. pass[p] = [at |-> pass[p].at, snap |-> pass[p].snap, read |-> pass[p].read]
    BY DEF CatalogIInv
  <2> DEFINE half == [pass[p] EXCEPT !.snap = model]
  <2>2. half = [at |-> pass[p].at, snap |-> model, read |-> pass[p].read]
    BY <2>1
  <2>3. [half EXCEPT !.read = TRUE] = d
    <3>1. \A v : [[at |-> pass[p].at, snap |-> model, read |-> pass[p].read] EXCEPT !.read = v]
                    = [at |-> pass[p].at, snap |-> model, read |-> v]
      OBVIOUS
    <3> HIDE DEF half
    <3> QED
      BY <2>2, <3>1, Zenon
  <2>4. pass' = [pass EXCEPT ![p] = [half EXCEPT !.read = TRUE]]
    BY <2>1 DEF PassReads, CatalogIInv
  <2> QED
    BY <2>3, <2>4
<1>3. d = [at |-> d.at, snap |-> d.snap, read |-> d.read] /\ d.snap = model
  OBVIOUS
<1> HIDE DEF d
<1> QED
  BY <1>1, <1>2, <1>3, StaysKept, PassKeeps DEF SpecKept

\* A pass keeps the invariant, and the operator's specs.
LEMMA PassStepKeeps ==
    ASSUME CatalogIInv, NEW p \in Passes, PassStep(p)
    PROVE  CatalogIInv' /\ SpecKept(p)
<1>1. CASE DeprecationAlerts(p)
  <2>1. Stage(p, "idle") /\ UNCHANGED <<world, model, console>>
    BY <1>1 DEF DeprecationAlerts, console
  <2> QED
    BY <2>1, StaysKept, StageKeeps DEF SpecKept
<1> QED
  BY <1>1, PassReadsKeeps, DiscoverDigitalOceanKeeps, DiscoverAnthropicKeeps, ApplyScrapedKeeps,
     ApplyLivePricingKeeps, SyncOneModelKeeps, SyncVanishedKeeps DEF PassStep

\* A stage that throws is logged; the pass goes on with a later one, or ends.
LEMMA StageFailsKeeps ==
    ASSUME CatalogIInv, NEW p \in Passes, StageFails(p)
    PROVE  CatalogIInv'
<1> DEFINE s == pass[p].snap
           d == [at |-> "vanish", snap |-> s, read |-> pass[p].read]
<1>1. UNCHANGED <<world, model, console>>
  BY DEF StageFails, console
<1>2. CASE \E at : Stage(p, at)
  BY <1>1, <1>2, StaysKept, StageKeeps
<1>3. CASE pass' = [pass EXCEPT ![p].at = "vanish"]
  <2>1. pass[p] = [at |-> pass[p].at, snap |-> s, read |-> pass[p].read]
    BY DEF CatalogIInv
  <2>2. [pass[p] EXCEPT !.at = "vanish"] = d
    BY <2>1
  <2>3. pass' = [pass EXCEPT ![p] = d]
    BY <1>3, <2>2
  <2>4. d = [at |-> d.at, snap |-> d.snap, read |-> d.read] /\ d.snap = pass[p].snap
    OBVIOUS
  <2> HIDE DEF d
  <2> QED
    BY <1>1, <2>3, <2>4, StaysKept, PassKeeps
<1> QED
  BY <1>2, <1>3 DEF StageFails

\* A pass that begins has read nothing.
LEMMA PassBeginsKeeps ==
    ASSUME CatalogIInv, NEW p \in Passes, NEW at, PassBegins(p, at)
    PROVE  CatalogIInv'
<1>1. Stage(p, at) /\ UNCHANGED <<world, model, console>>
  BY DEF PassBegins, console
<1> QED
  BY <1>1, StaysKept, StageKeeps

\* A restart ends every pass and form; the rows stay.
LEMMA NewReleaseKeeps ==
    ASSUME CatalogIInv, NewRelease
    PROVE  CatalogIInv'
<1>1. /\ pass' = [p \in Passes |-> Done] /\ saving' = "none" /\ probe' = NoModel /\ retiring' = "no"
      /\ UNCHANGED <<world, model, bound, byHand, raced>>
  BY DEF NewRelease
<1>2. Done = [at |-> Done.at, snap |-> Done.snap, read |-> Done.read] /\ Done.snap = NoModel
  BY DEF Done
<1>3. pass' = [p \in Passes |-> [at |-> pass'[p].at, snap |-> pass'[p].snap, read |-> pass'[p].read]]
  BY <1>1, <1>2
<1>4. \A p \in Passes : SnapFits(pass'[p].snap, model')
  BY <1>1, <1>2, NoRow DEF SnapFits, Is
<1>5. CeilingHolds(model.over)' /\ CeilingHolds(probe.over)'
  <2>1. \A c \in Ceiling : NoModel.over[c] # "on"
    BY DEF NoModel, NoOverride, Ceiling
  <2> QED
    BY <1>1, <2>1 DEF CatalogIInv, CeilingHolds, Ceiling
<1> QED
  BY <1>1, <1>3, <1>4, <1>5, NoRow DEF CatalogIInv, InCatalog

\* The operator's steps leave the passes alone: the invariant is kept if the
\* rows they have read are still there.
LEMMA OperatorKeeps ==
    ASSUME CatalogIInv, Background, RowFits(model'), RowFits(probe'),
           \/ model'.source = model.source
           \/ model.source \in {"none", "custom"},
           CeilingHolds(model.over)', CeilingHolds(probe.over)'
    PROVE  /\ world' \in Worlds
           /\ pass' = [p \in Passes |-> [at |-> pass'[p].at, snap |-> pass'[p].snap, read |-> pass'[p].read]]
           /\ \A p \in Passes : SnapFits(pass'[p].snap, model')
<1>1. UNCHANGED <<world, pass>>
  BY DEF Background
<1>2. ASSUME NEW p \in Passes PROVE SnapFits(pass'[p].snap, model')
  BY <1>1 DEF CatalogIInv, SnapFits
<1> QED
  BY <1>1, <1>2 DEF CatalogIInv

\* What no operator has touched.
LEMMA CeilingStays ==
    ASSUME CatalogIInv, UNCHANGED <<world, byHand>>
    PROVE  /\ model'.over = model.over => CeilingHolds(model.over)'
           /\ probe'.over \in {probe.over, model.over} => CeilingHolds(probe.over)'
           /\ \A o : o = NoOverride => CeilingHolds(o)
<1>1. Ceiling' = Ceiling /\ \A c \in Ceiling : NoOverride[c] # "on"
  BY DEF Ceiling, NoOverride
<1> QED
  BY <1>1 DEF CatalogIInv, CeilingHolds

\* createCustomModel() inserts the operator's own row.
LEMMA CreateCustomModelKeeps ==
    ASSUME CatalogIInv, NEW x \in {Placeholder, ByOperator}, NEW y, CreateCustomModel(x, y)
    PROVE  CatalogIInv'
<1> DEFINE n == [NoModel EXCEPT !.source = "custom", !.ctx = x]
<1>1. /\ ~ InCatalog /\ model' = n /\ Background /\ x # 0
      /\ UNCHANGED <<world, bound, saving, probe, retiring, byHand, raced>>
  BY DEF CreateCustomModel, console, Background, Placeholder, ByOperator
<1>2. Is(n, "custom", NoOverride, x)
  BY RowInserts
<1> HIDE DEF n
<1>3. RowFits(model') /\ RowFits(probe') /\ model.source = "none" /\ InCatalog' /\ model'.source = "custom"
  BY <1>1, <1>2 DEF CatalogIInv, RowFits, InCatalog, Is
<1>4. CeilingHolds(model.over)' /\ CeilingHolds(probe.over)'
  <2>1. Ceiling' = Ceiling /\ \A c \in Ceiling : NoOverride[c] # "on"
    BY <1>1 DEF Ceiling, NoOverride
  <2> QED
    BY <1>1, <1>2, <2>1 DEF CatalogIInv, CeilingHolds, Is
<1>5. /\ world' \in Worlds
      /\ pass' = [p \in Passes |-> [at |-> pass'[p].at, snap |-> pass'[p].snap, read |-> pass'[p].read]]
      /\ \A p \in Passes : SnapFits(pass'[p].snap, model')
  BY <1>1, <1>3, <1>4, OperatorKeeps
<1> QED
  BY <1>1, <1>3, <1>4, <1>5 DEF CatalogIInv

\* An edit of the row that keeps its source and its overrides.
LEMMA EditKeeps ==
    ASSUME CatalogIInv, Background, RowFits(model'), model'.source = model.source,
           CeilingHolds(model.over)', CeilingHolds(probe.over)', RowFits(probe'),
           UNCHANGED <<bound, saving, retiring, raced>>
    PROVE  CatalogIInv'
<1>1. /\ world' \in Worlds
      /\ pass' = [p \in Passes |-> [at |-> pass'[p].at, snap |-> pass'[p].snap, read |-> pass'[p].read]]
      /\ \A p \in Passes : SnapFits(pass'[p].snap, model')
  BY OperatorKeeps
<1> QED
  BY <1>1 DEF CatalogIInv, InCatalog

\* An operator's edit keeps the row's source and overrides.
LEMMA UpdateModelKeeps ==
    ASSUME CatalogIInv, NEW y, UpdateModel(ByOperator, y)
    PROVE  CatalogIInv'
<1> DEFINE n == [model EXCEPT !.ctx = ByOperator]
<1>1. /\ model' = n /\ Background /\ model.source # "none"
      /\ UNCHANGED <<world, bound, saving, probe, retiring, byHand, raced>>
  BY DEF UpdateModel, console, Background
<1>2. Is(n, model.source, model.over, ByOperator)
  BY ColumnEdits DEF CatalogIInv, RowFits
<1> HIDE DEF n
<1>3. RowFits(model') /\ RowFits(probe') /\ model'.source = model.source /\ model'.over = model.over
  BY <1>1, <1>2 DEF CatalogIInv, RowFits, Is, ByOperator
<1> QED
  BY <1>1, <1>3, CeilingStays, EditKeeps

\* Overrides are the operator's own columns.
LEMMA SetOverridesKeeps ==
    ASSUME CatalogIInv, NEW o, SetOverrides(o)
    PROVE  CatalogIInv'
<1> DEFINE n == [model EXCEPT !.over = o]
<1>1. /\ model' = n /\ Background /\ model.source # "none"
      /\ byHand' = byHand \cup {c \in Ceiling : o[c] = "on"}
      /\ UNCHANGED <<world, bound, saving, probe, retiring, raced>>
  BY DEF SetOverrides, Background, InCatalog
<1>2. Is(n, model.source, o, model.ctx)
  BY ColumnEdits DEF CatalogIInv, RowFits
<1> HIDE DEF n
<1>3. RowFits(model') /\ RowFits(probe') /\ model'.source = model.source
  BY <1>1, <1>2 DEF CatalogIInv, RowFits, Is
<1>4. CeilingHolds(model.over)' /\ CeilingHolds(probe.over)'
  BY <1>1, <1>2 DEF CatalogIInv, CeilingHolds, Ceiling, Is
<1> QED
  BY <1>1, <1>3, <1>4, EditKeeps

\* The capability probe reads the row before it calls the model.
LEMMA ProbeBeginsKeeps ==
    ASSUME CatalogIInv, ProbeBegins
    PROVE  CatalogIInv'
<1>1. /\ probe' = model /\ Background
      /\ UNCHANGED <<world, model, bound, saving, retiring, byHand, raced>>
  BY DEF ProbeBegins, Background
<1>2. RowFits(model') /\ RowFits(probe')
  BY <1>1 DEF CatalogIInv
<1> QED
  BY <1>1, <1>2, CeilingStays, EditKeeps

\* The probe writes what it found, cut to the kind's ceiling.
LEMMA ProbeWritesKeeps ==
    ASSUME CatalogIInv, NEW a, ProbeWrites(a)
    PROVE  CatalogIInv'
<1> DEFINE o == OverridesFromProbes(probe.over, a)
           n == [model EXCEPT !.over = o]
<1>1. /\ model' = IF InCatalog THEN n ELSE model
      /\ probe' = NoModel /\ Background
      /\ UNCHANGED <<world, bound, saving, retiring, byHand, raced>>
  BY DEF ProbeWrites, Background
<1>2. \A c \in Ceiling : o[c] = "on" => c \in byHand
  <2>1. ASSUME NEW c \in Ceiling, o[c] = "on" PROVE c \in byHand
    <3>1. c \in Caps
      BY DEF Ceiling
    <3>2. probe.over[c] = "on"
      BY <2>1, <3>1 DEF OverridesFromProbes
    <3> QED
      BY <2>1, <3>2 DEF CatalogIInv, CeilingHolds
  <2> QED
    BY <2>1
<1> HIDE DEF o
<1>3. Is(n, model.source, o, model.ctx)
  BY ColumnEdits DEF CatalogIInv, RowFits
<1> HIDE DEF n
<1>4. RowFits(model') /\ model'.source = model.source
  BY <1>1, <1>3 DEF CatalogIInv, RowFits, Is, InCatalog
<1>5. RowFits(probe') /\ CeilingHolds(model.over)' /\ CeilingHolds(probe.over)'
  <2>1. \A c \in Ceiling : NoModel.over[c] # "on"
    BY DEF NoModel, NoOverride, Ceiling
  <2> QED
    BY <1>1, <1>2, <1>3, <2>1, NoRow DEF CatalogIInv, CeilingHolds, Ceiling, Is
<1> QED
  BY <1>1, <1>4, <1>5, EditKeeps

\* Retiring a model first looks for policies that bind it.
LEMMA RetireReadsKeeps ==
    ASSUME CatalogIInv, RetireReads
    PROVE  CatalogIInv'
<1>1. /\ model.source = "custom" /\ Background
      /\ retiring' = IF bound # "no" THEN "sunset" ELSE "delete"
      /\ raced' = (raced \/ saving # "none")
      /\ UNCHANGED <<world, pass, model, bound, saving, probe, byHand>>
  BY DEF RetireReads, Background
<1>2. CeilingHolds(model.over)' /\ CeilingHolds(probe.over)'
  BY <1>1, CeilingStays
<1>3. RowFits(model') /\ RowFits(probe') /\ (InCatalog' <=> InCatalog)
  BY <1>1 DEF CatalogIInv, InCatalog
<1>4. /\ world' \in Worlds
      /\ pass' = [p \in Passes |-> [at |-> pass'[p].at, snap |-> pass'[p].snap, read |-> pass'[p].read]]
      /\ \A p \in Passes : SnapFits(pass'[p].snap, model')
  BY <1>1, <1>2, <1>3, OperatorKeeps
<1>5. raced' \in BOOLEAN /\ (~ raced' => ~ raced /\ saving = "none")
  BY <1>1 DEF CatalogIInv
<1> QED
  BY <1>1, <1>2, <1>3, <1>4, <1>5 DEF CatalogIInv

\* Retiring then deletes or flags: a policy saved in between is the race that
\* BindingsHold names.
LEMMA RetireWritesKeeps ==
    ASSUME CatalogIInv, RetireWrites
    PROVE  CatalogIInv'
<1> DEFINE n == [model EXCEPT !.status = "sunset"]
<1>1. /\ \/ retiring = "delete" /\ bound # "default" /\ model' = NoModel
         \/ model' = n
         \/ model' = model
      /\ retiring # "no" /\ retiring' = "no" /\ Background
      /\ UNCHANGED <<world, pass, bound, saving, probe, byHand, raced>>
  BY DEF RetireWrites, Background
<1>2. Is(n, model.source, model.over, model.ctx)
  BY ColumnEdits DEF CatalogIInv, RowFits
<1> HIDE DEF n
<1>3. CASE retiring = "delete" /\ bound # "default" /\ model' = NoModel
  <2>1. RowFits(model') /\ RowFits(probe') /\ model.source = "custom" /\ model'.over = NoOverride
    BY <1>1, <1>3, NoRow DEF CatalogIInv, Is
  <2>2. CeilingHolds(model.over)' /\ CeilingHolds(probe.over)'
    <3>1. Ceiling' = Ceiling /\ \A c \in Ceiling : NoOverride[c] # "on"
      BY <1>1 DEF Ceiling, NoOverride
    <3> QED
      BY <1>1, <2>1, <3>1 DEF CatalogIInv, CeilingHolds
  <2>3. /\ world' \in Worlds
        /\ pass' = [p \in Passes |-> [at |-> pass'[p].at, snap |-> pass'[p].snap, read |-> pass'[p].read]]
        /\ \A p \in Passes : SnapFits(pass'[p].snap, model')
    BY <1>1, <2>1, <2>2, OperatorKeeps
  <2>4. ~ raced => bound = "no" /\ saving = "none"
    BY <1>1, <1>3 DEF CatalogIInv
  <2> QED
    BY <1>1, <1>3, <2>1, <2>2, <2>3, <2>4 DEF CatalogIInv
<1>4. CASE model' = n \/ model' = model
  <2>1. /\ RowFits(model') /\ RowFits(probe') /\ model'.source = model.source
        /\ model'.over = model.over
    BY <1>1, <1>2, <1>4 DEF CatalogIInv, RowFits, Is
  <2>2. CeilingHolds(model.over)' /\ CeilingHolds(probe.over)'
    BY <1>1, <2>1, CeilingStays
  <2>3. /\ world' \in Worlds
        /\ pass' = [p \in Passes |-> [at |-> pass'[p].at, snap |-> pass'[p].snap, read |-> pass'[p].read]]
        /\ \A p \in Passes : SnapFits(pass'[p].snap, model')
    BY <1>1, <2>1, <2>2, OperatorKeeps
  <2> QED
    BY <1>1, <2>1, <2>2, <2>3 DEF CatalogIInv, InCatalog
<1> QED
  BY <1>1, <1>3, <1>4

\* Saving a policy first looks for the models it names.
LEMMA SaveReadsKeeps ==
    ASSUME CatalogIInv, NEW role \in {"no", "default", "fallback"}, SaveReads(role)
    PROVE  CatalogIInv'
<1>1. /\ role # "no" => InCatalog
      /\ saving' = role /\ raced' = (raced \/ retiring # "no") /\ Background
      /\ UNCHANGED <<world, pass, model, bound, probe, retiring, byHand>>
  BY DEF SaveReads, Background
<1>2. CeilingHolds(model.over)' /\ CeilingHolds(probe.over)'
  BY <1>1, CeilingStays
<1>3. RowFits(model') /\ RowFits(probe') /\ (InCatalog' <=> InCatalog)
  BY <1>1 DEF CatalogIInv, InCatalog
<1>4. /\ world' \in Worlds
      /\ pass' = [p \in Passes |-> [at |-> pass'[p].at, snap |-> pass'[p].snap, read |-> pass'[p].read]]
      /\ \A p \in Passes : SnapFits(pass'[p].snap, model')
  BY <1>1, <1>2, <1>3, OperatorKeeps
<1>5. raced' \in BOOLEAN /\ (~ raced' => ~ raced /\ retiring = "no")
  BY <1>1 DEF CatalogIInv
<1> QED
  BY <1>1, <1>2, <1>3, <1>4, <1>5 DEF CatalogIInv

\* Saving then binds, unless a default is gone: a fallback retired in between
\* is the other half of the race.
LEMMA SaveWritesKeeps ==
    ASSUME CatalogIInv, SaveWrites
    PROVE  CatalogIInv'
<1>1. /\ saving # "none" /\ saving' = "none" /\ Background
      /\ bound' = IF saving = "default" /\ ~ InCatalog THEN bound ELSE saving
      /\ raced' = (raced \/ retiring # "no")
      /\ UNCHANGED <<world, pass, model, probe, retiring, byHand>>
  BY DEF SaveWrites, Background
<1>2. CeilingHolds(model.over)' /\ CeilingHolds(probe.over)'
  BY <1>1, CeilingStays
<1>3. RowFits(model') /\ RowFits(probe') /\ (InCatalog' <=> InCatalog)
  BY <1>1 DEF CatalogIInv, InCatalog
<1>4. /\ world' \in Worlds
      /\ pass' = [p \in Passes |-> [at |-> pass'[p].at, snap |-> pass'[p].snap, read |-> pass'[p].read]]
      /\ \A p \in Passes : SnapFits(pass'[p].snap, model')
  BY <1>1, <1>2, <1>3, OperatorKeeps
<1>5. raced' \in BOOLEAN /\ (~ raced' => ~ raced /\ retiring = "no")
  BY <1>1 DEF CatalogIInv
<1> QED
  BY <1>1, <1>2, <1>3, <1>4, <1>5 DEF CatalogIInv

\* The first catalog has no row, no pass and no policy.
LEMMA CatalogStarts == CatalogInit => CatalogIInv
<1> SUFFICES ASSUME CatalogInit PROVE CatalogIInv
  OBVIOUS
<1>1. /\ pass = [p \in Passes |-> Done] /\ saving = "none" /\ probe = NoModel /\ retiring = "no"
      /\ model = NoModel /\ bound = "no" /\ raced = FALSE /\ world \in Worlds
  BY DEF CatalogInit
<1>2. Done = [at |-> Done.at, snap |-> Done.snap, read |-> Done.read] /\ Done.snap = NoModel
  BY DEF Done
<1>3. pass = [p \in Passes |-> [at |-> pass[p].at, snap |-> pass[p].snap, read |-> pass[p].read]]
  BY <1>1, <1>2
<1>4. \A p \in Passes : SnapFits(pass[p].snap, model)
  BY <1>1, <1>2, NoRow DEF SnapFits, Is
<1>5. CeilingHolds(model.over) /\ CeilingHolds(probe.over)
  BY <1>1 DEF CeilingHolds, Ceiling, NoModel, NoOverride
<1> QED
  BY <1>1, <1>3, <1>4, <1>5, NoRow DEF CatalogIInv

\* Every step of passes, operators and policies keeps the catalog's invariant.
LEMMA CatalogStep == CatalogIInv /\ [CatalogNext]_catalogVars => CatalogIInv'
<1> SUFFICES ASSUME CatalogIInv, [CatalogNext]_catalogVars PROVE CatalogIInv'
  OBVIOUS
<1>1. CASE UNCHANGED catalogVars
  BY <1>1 DEF catalogVars, CatalogIInv, SnapFits, RowFits, IsRow, CeilingHolds, Ceiling, InCatalog
<1>2. CASE \E p \in Passes : PassStep(p) \/ StageFails(p) \/ \E at \in {"discover", "docs", "sync"} : PassBegins(p, at)
  BY <1>2, PassStepKeeps, StageFailsKeeps, PassBeginsKeeps
<1>3. CASE NewRelease
  BY <1>3, NewReleaseKeeps
<1>4. CASE Operator
  BY <1>4, CreateCustomModelKeeps, UpdateModelKeeps, SetOverridesKeeps, ProbeBeginsKeeps, ProbeWritesKeeps,
     RetireReadsKeeps, RetireWritesKeeps, SaveReadsKeeps, SaveWritesKeeps DEF Operator
<1> QED
  BY <1>1, <1>2, <1>3, <1>4 DEF CatalogNext

\* The invariant, for every catalog, every world and any number of passes.
THEOREM CatalogInductive == CatalogSpec => []CatalogIInv
BY CatalogStarts, CatalogStep, PTL DEF CatalogSpec

\* No model is gone from under a policy but by the race named there, and no
\* probe switches on what the kind's ceiling caps (service.ts, Q-097).
THEOREM BindingsAreKept == CatalogSpec => []BindingsHold
<1>1. CatalogIInv => BindingsHold
  BY DEF CatalogIInv, BindingsHold, CeilingHolds
<1> QED
  BY <1>1, CatalogInductive, PTL

\* A pass changes a context window only to fill a placeholder it has read, or
\* to what the vendored feed, or its own reading where that publishes none,
\* says; what an operator enters after the pass read the row is not safe.
THEOREM SpecsSurvive == CatalogSpec => SpecsAreOperators
<1> DEFINE A == \A p \in Passes :
        LET s == pass[p].snap IN
        model.ctx # model'.ctx /\ InCatalog /\ PassStep(p) =>
            \/ s.ctx = Placeholder /\ s.source = "provider"
            \/ Feed # None /\ s.source # "custom" /\ model'.ctx = (IF Feed.ctx = 0 THEN s.ctx ELSE Feed.ctx)
<1>1. CatalogIInv /\ [CatalogNext]_catalogVars => [A]_catalogVars
  BY PassStepKeeps DEF SpecKept
<1> HIDE DEF A
<1>2. CatalogSpec => [][A]_catalogVars
  BY <1>1, CatalogInductive, PTL DEF CatalogSpec
<1> QED
  BY <1>2, PTL DEF SpecsAreOperators, A

=============================================================================
