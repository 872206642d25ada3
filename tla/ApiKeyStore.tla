---------------------------- MODULE ApiKeyStore ----------------------------
(***************************************************************************)
(* auth.rs: which API key authenticates which tenant, in memory and in a   *)
(* log.  A key stands for its hash; hash_key is one-to-one for the keys in *)
(* use and generate_raw_key never repeats one.                             *)
(***************************************************************************)
EXTENDS Naturals, Sequences, Functions

W == INSTANCE Wal

Mint(key, tenant) == [kind |-> "Mint", key |-> key, tenant |-> tenant]
Revoke(key) == [kind |-> "Revoke", key |-> key]
WalRecord(keys, tenants) ==
    {Mint(key, tenant) : key \in keys, tenant \in tenants} \cup {Revoke(key) : key \in keys}

\* What inserting and removing the records in order leaves: the Mint records that no
\* later record of their key undoes or replaces.
InForce_MintsOnly(records) ==
    {i \in DOMAIN records : records[i].kind = "Mint"}
InForce(records) ==
    {i \in DOMAIN records : /\ records[i].kind = "Mint"
                            /\ \A j \in DOMAIN records : j > i => records[j].key # records[i].key}

\* open: rebuild the map from the log.
Replayed(records) ==
    [key \in {records[i].key : i \in InForce(records)} |->
        records[CHOOSE i \in InForce(records) : records[i].key = key].tenant]
open(file) == LET records == W!open(file) IN [keys |-> Replayed(records), file |-> records]

\* mint and revoke append first, without the map's lock, and then change the map.
Logged(store, record) == {[ok |-> r.ok, store |-> [store EXCEPT !.file = r.file]] : r \in W!append(store.file, record)}
Minted(store, key, tenant) ==
    [store EXCEPT !.keys = [k \in DOMAIN @ \cup {key} |-> IF k = key THEN tenant ELSE store.keys[k]]]
Revoked(store, key) == [store EXCEPT !.keys = Restrict(@, DOMAIN @ \ {key})]

\* authenticate: the tenant of a key, an Option.
authenticate(store, key) == {store.keys[k] : k \in {key} \cap DOMAIN store.keys}

=============================================================================
