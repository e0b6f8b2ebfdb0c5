------------------------------ MODULE Sessions ------------------------------
(***************************************************************************)
(* The console's sessions (src/admin-api/session.ts), with the login,      *)
(* logout and change-credentials routes (routes.ts).  A password is a      *)
(* number, counted up by every change.  Login and change await the         *)
(* database and the password hash between their reads and their effects;   *)
(* the installer, a process of its own, re-applies its password without    *)
(* access to the store.                                                    *)
(***************************************************************************)
EXTENDS Integers, FiniteSets

CONSTANTS
    Users,
    SessionIds,
    Forms,          \* login and change-credentials requests in progress at once
    MaxSessions,    \* 1000 in the code
    TtlTicks,       \* TTL_MS
    MaxPasswords    \* bound: changes of a password

ASSUME SessionsAssumption ==
    /\ MaxSessions \in Nat \ {0} /\ TtlTicks \in Nat /\ MaxPasswords \in Nat
    /\ IsFiniteSet(SessionIds) /\ Cardinality(SessionIds) > MaxSessions
    /\ Users # {}

VARIABLES
    password,   \* user -> the password of users.passwordHash
    sessions,   \* id -> user, ticks until expiresAt; history: password, straddled
    form,       \* request -> what it is doing, for whom, with which password
    reapplied   \* history: users whose password the installer has re-applied

sessionVars == <<password, sessions, form, reapplied>>

AnyUser == CHOOSE u \in Users : TRUE
NoSession == [user |-> AnyUser, left |-> -2, password |-> 0, straddled |-> FALSE]
NoForm == [pc |-> "idle", user |-> AnyUser, password |-> 0, straddled |-> FALSE]

Stored == {i \in SessionIds : sessions[i] # NoSession}
Expired(i) == sessions[i].left < 0

SessionsTypeOK ==
    /\ password \in [Users -> 0..MaxPasswords]
    /\ \A i \in Stored : sessions[i].left \in -1..TtlTicks /\ sessions[i].password \in 0..MaxPasswords
    /\ \A f \in Forms : form[f].pc \in {"idle", "login", "change", "drop"}

SessionsInit ==
    /\ password = [u \in Users |-> 0]
    /\ sessions = [i \in SessionIds |-> NoSession]
    /\ form = [f \in Forms |-> NoForm]
    /\ reapplied = {}

-----------------------------------------------------------------------------
\* evictIfNeeded(), once the expired are gone: at the cap the one that expires
\* first goes.  One is enough, for the store is never over its cap.
Evict(kept) == IF Cardinality(kept) >= MaxSessions
               THEN {kept \ {i} : i \in {j \in kept : \A k \in kept : sessions[j].left <= sessions[k].left}}
               ELSE {kept}

\* create().
Create(s) ==
    \E kept \in Evict({i \in Stored : ~ Expired(i)}) :
        LET new == CHOOSE i \in SessionIds : i \notin Stored
        IN  sessions' = [i \in SessionIds |->
                            IF i = new THEN s ELSE IF i \in kept THEN sessions[i] ELSE NoSession]

\* get(), on every request of the console: the TTL slides.
Get(i) ==
    /\ i \in Stored
    /\ sessions' = [sessions EXCEPT ![i] = IF Expired(i) THEN NoSession ELSE [@ EXCEPT !.left = TtlTicks]]
    /\ UNCHANGED <<password, form, reapplied>>

\* POST logout: destroy().
Destroy(i) ==
    /\ i \in Stored
    /\ sessions' = [sessions EXCEPT ![i] = NoSession]
    /\ UNCHANGED <<password, form, reapplied>>

\* POST login, with the right password: the user is read, the hash verified ...
LoginReads(f, u) ==
    /\ form[f].pc = "idle"
    /\ form' = [form EXCEPT ![f] = [pc |-> "login", user |-> u, password |-> password[u], straddled |-> FALSE]]
    /\ UNCHANGED <<password, sessions, reapplied>>

\* ... and a session created.
LoginCreates(f) ==
    /\ form[f].pc = "login"
    /\ Create([user |-> form[f].user, left |-> TtlTicks, password |-> form[f].password,
               straddled |-> form[f].straddled])
    /\ form' = [form EXCEPT ![f] = NoForm]
    /\ UNCHANGED <<password, reapplied>>

\* POST change-credentials: a live session and the current password ...
ChangeReads(f, i) ==
    /\ form[f].pc = "idle"
    /\ i \in Stored /\ ~ Expired(i)
    /\ sessions' = [sessions EXCEPT ![i].left = TtlTicks]
    /\ form' = [form EXCEPT ![f] = [pc |-> "change", user |-> sessions[i].user, password |-> 0, straddled |-> FALSE]]
    /\ UNCHANGED <<password, reapplied>>

\* Writing the row of u overtakes the logins that have read it.
Written(u, g) == IF g.pc = "login" /\ g.user = u THEN [g EXCEPT !.straddled = TRUE] ELSE g

\* ... the row is written, with a new password or the e-mail address only ...
ChangeWrites(f) ==
    LET u == form[f].user IN
    /\ form[f].pc = "change"
    /\ \/ password[u] < MaxPasswords /\ password' = [password EXCEPT ![u] = @ + 1]
       \/ UNCHANGED password
    /\ form' = [g \in Forms |-> IF g = f THEN [form[f] EXCEPT !.pc = "drop"] ELSE Written(u, form[g])]
    /\ UNCHANGED <<sessions, reapplied>>

\* Mutant: one session of the user is dropped, not all.
DestroyOne(u) ==
    \E i \in SessionIds :
        /\ (\E j \in Stored : sessions[j].user = u) => i \in Stored /\ sessions[i].user = u
        /\ sessions' = [sessions EXCEPT ![i] = NoSession]

\* destroyByUser().
DestroyByUser(u) ==
    sessions' = [i \in SessionIds |-> IF sessions[i].user = u THEN NoSession ELSE sessions[i]]

\* ... and the sessions are dropped, when the statement has returned.
ChangeDrops(f) ==
    /\ form[f].pc = "drop"
    /\ DestroyByUser(form[f].user)
    /\ form' = [form EXCEPT ![f] = NoForm]
    /\ UNCHANGED <<password, reapplied>>

\* A wrong password, an address in use, or a statement that fails.
FormRefused(f) ==
    /\ form[f].pc \in {"login", "change"}
    /\ form' = [form EXCEPT ![f] = NoForm]
    /\ UNCHANGED <<password, sessions, reapplied>>

\* bootstrapFirm() for an existing user.
ReappliesPassword(u) ==
    /\ password[u] < MaxPasswords
    /\ password' = [password EXCEPT ![u] = @ + 1]
    /\ form' = [g \in Forms |-> Written(u, form[g])]
    /\ reapplied' = reapplied \cup {u}
    /\ UNCHANGED sessions

\* The store is in memory.
ConsoleRestarts ==
    /\ sessions' = [i \in SessionIds |-> NoSession]
    /\ form' = [f \in Forms |-> NoForm]
    /\ reapplied' = {}
    /\ UNCHANGED password

SessionTick ==
    /\ \E i \in Stored : ~ Expired(i)
    /\ sessions' = [i \in SessionIds |->
                        IF i \in Stored /\ ~ Expired(i) THEN [sessions[i] EXCEPT !.left = @ - 1] ELSE sessions[i]]
    /\ UNCHANGED <<password, form, reapplied>>

SessionsNext ==
    \/ \E i \in SessionIds : Get(i) \/ Destroy(i)
    \/ \E f \in Forms :
        \/ \E u \in Users : LoginReads(f, u)
        \/ \E i \in SessionIds : ChangeReads(f, i)
        \/ LoginCreates(f) \/ ChangeWrites(f) \/ ChangeDrops(f) \/ FormRefused(f)
    \/ \E u \in Users : ReappliesPassword(u)
    \/ ConsoleRestarts \/ SessionTick

SessionsSpec == SessionsInit /\ [][SessionsNext]_sessionVars

-----------------------------------------------------------------------------
\* "credential changes must not leave old logins alive" (session.ts): a session
\* of a login with an earlier password is about to be dropped, or the login
\* overlapped the change, or the installer changed the password.  And the
\* store stays within its cap (QA-D finding #4).
OldLoginsDie ==
    /\ SessionsTypeOK
    /\ Cardinality(Stored) <= MaxSessions
    /\ \A i \in Stored :
        sessions[i].password # password[sessions[i].user] =>
            \/ \E f \in Forms : form[f].pc = "drop" /\ form[f].user = sessions[i].user
            \/ sessions[i].straddled
            \/ sessions[i].user \in reapplied

=============================================================================
