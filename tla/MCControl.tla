----------------------------- MODULE MCControl -----------------------------
(***************************************************************************)
(* The tables that background jobs and administrators write side by side,  *)
(* for TLC: credentials, provider status, catalog.  They share no          *)
(* variable; each behaviour is about one of them, chosen in its initial    *)
(* state, so that the state space is their sum and not their product.      *)
(***************************************************************************)
EXTENDS Vault, Health, Catalog

VARIABLE focus

all == <<vaultVars, healthVars, catalogVars, focus>>

Init ==
    /\ focus \in {"vault", "health", "catalog"}
    /\ VaultInit /\ HealthInit
    /\ CatalogInit /\ (focus # "catalog" => world = CHOOSE w \in Worlds : TRUE)

\* A step of the part in focus leaves the others alone.
Only(rest) == UNCHANGED <<rest, focus>>

Next ==
    \/ focus = "vault" /\ VaultNext /\ Only(<<healthVars, catalogVars>>)
    \/ focus = "health" /\ HealthNext /\ Only(<<vaultVars, catalogVars>>)
    \/ focus = "catalog" /\ CatalogNext /\ Only(<<vaultVars, healthVars>>)

\* The hourly timer and the nightly passes go on for ever; time passes for
\* grace periods.
Spec ==
    /\ Init /\ [][Next]_all
    /\ WF_vaultVars(focus = "vault" /\ AutoRevokeExpired)
    /\ \A c \in CredIds : WF_vaultVars(focus = "vault" /\ GraceLapses(c))
    /\ \A p \in Passes : WF_catalogVars(focus = "catalog" /\ PassStep(p))
    /\ \A p \in Passes :
        WF_catalogVars(focus = "catalog" /\ \E at \in {"discover", "sync"} : PassBegins(p, at))

NotInFeed == [bare |-> None, namespaced |-> None]
Sheet(c, k, p) == [ctx |-> c, caps |-> k, price |-> p]

\* A model discovered and scraped, which a later feed prices; one that the live
\* feed prices as well, and not as the docs do; a model of the feed, which a
\* later one drops; and one that only the operator knows.
MCWorlds ==
    {[kind |-> "digitalocean", third |-> TRUE,
      feeds |-> <<NotInFeed, [NotInFeed EXCEPT !.namespaced = Sheet(0, {"json"}, 2)]>>,
      served |-> [ctx |-> 1, caps |-> {}], docs |-> Sheet(4, {"vision"}, 3), live |-> None],
     [kind |-> "digitalocean", third |-> FALSE,
      feeds |-> <<NotInFeed, [NotInFeed EXCEPT !.bare = Sheet(3, {}, 2)]>>,
      served |-> [ctx |-> 1, caps |-> {}], docs |-> Sheet(0, {"vision"}, 3), live |-> Sheet(4, {}, 4)],
     [kind |-> "anthropic", third |-> FALSE,
      feeds |-> <<[bare |-> Sheet(2, {}, 1), namespaced |-> Sheet(3, {"json"}, 2)], NotInFeed>>,
      served |-> [ctx |-> 2, caps |-> {"vision"}], docs |-> None, live |-> Sheet(5, {}, 4)],
     [kind |-> "local_ocr", third |-> FALSE, feeds |-> <<NotInFeed>>, served |-> None, docs |-> None, live |-> None]}
MCMaxEvents == [digitalocean |-> 1, anthropic |-> 2, local_ocr |-> 3]
=============================================================================
