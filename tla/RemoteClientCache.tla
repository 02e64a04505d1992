-------------------------- MODULE RemoteClientCache --------------------------
(***************************************************************************)
(* The cache of clients for target clusters (internal/remote/client.go).   *)
(* A client is represented by the kubeconfig it was built from.  The calls *)
(* hold a mutex, so each is one step.  Nothing calls Forget: an entry stays *)
(* until another kubeconfig replaces it or the process ends.               *)
(***************************************************************************)
CONSTANTS
    Kubeconfigs,
    Malformed,      \* kubeconfigs no client can be built from
    NoClient

NewCache(keys) == [key \in keys |-> NoClient]

\* build: parsing or creating the client fails, or the client is new.
build(kubeconfig) == IF kubeconfig \in Malformed THEN NoClient ELSE kubeconfig

\* Mutant: a client is reused whatever kubeconfig it was built from.
GetOrCreateByKey(entries, key, kubeconfig) ==
    LET client == IF entries[key] # NoClient THEN entries[key] ELSE build(kubeconfig)
    IN  [client |-> client, entries |-> [entries EXCEPT ![key] = client]]

\* The cached client if the kubeconfig has the same hash, else a new one, which
\* replaces the entry unless it cannot be built.
GetOrCreate(entries, key, kubeconfig) ==
    LET client == IF entries[key] = kubeconfig THEN entries[key] ELSE build(kubeconfig)
    IN  [client  |-> client,
         entries |-> IF client = NoClient THEN entries ELSE [entries EXCEPT ![key] = client]]
=============================================================================
