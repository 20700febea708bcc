------------------------------ MODULE ApiKeys ------------------------------
(***************************************************************************)
(* The store of gateway API keys as several gateway instances see it: one  *)
(* table of key rows, and in front of it a resolve cache per instance.     *)
(* A revoke changes the row and drops the entry of the instance that ran   *)
(* it; every other instance learns of it when its entry is CacheTtl old.   *)
(*                                                                         *)
(* The operators are the effects of single statements and of single        *)
(* queries of SupabaseApiKeyStore; OAuthConnect puts them in the order in  *)
(* which its handlers, and the store's own methods, await them.            *)
(***************************************************************************)
EXTENDS Integers

CONSTANTS
  Keys,       (* keys, by hash: a fresh one is random and never comes twice *)
  Instances,  (* gateway processes                                         *)
  CacheTtl,   (* cacheTtlMs                                                *)
  MaxTime,    (* bound on the clock                                        *)
  NoEntry     (* no cache entry                                            *)

ASSUME KeyStoreAssumption ==
  /\ CacheTtl \in Nat
  /\ MaxTime \in Nat
  /\ NoEntry \notin [live : BOOLEAN, at : 0..MaxTime]

VARIABLES
  now,     (* Date.now()                                                   *)
  row,     (* status column of each key, none before its insert            *)
  diedAt,  (* when the row turned to revoked                               *)
  cache    (* resolve cache of each instance                               *)

keyVars == <<now, row, diedAt, cache>>

Times == 0..MaxTime

KeyTypeOK ==
  /\ now \in Times
  /\ row \in [Keys -> {"none", "active", "revoked"}]
  /\ diedAt \in [Keys -> Times]
  /\ cache \in [Instances -> [Keys -> [live : BOOLEAN, at : Times] \cup {NoEntry}]]

KeyInit ==
  /\ now = 0
  /\ row = [k \in Keys |-> "none"]
  /\ diedAt = [k \in Keys |-> 0]
  /\ cache = [i \in Instances |-> [k \in Keys |-> NoEntry]]

(* What resolve asks the table: status=eq.active&revoked_at=is.null.       *)
IsActive(k) == row[k] = "active"

(* The cache entry answers for the table.                                  *)
CacheHit(i, k) == cache[i][k] # NoEntry /\ now - cache[i][k].at < CacheTtl

(* Mutant: the age of an entry counts from the end of the query.           *)
Remember_atReturn(i, k, live, asked) ==
  cache' = [cache EXCEPT ![i][k] = [live |-> live, at |-> now]]

(* An entry is as old as the call that filled it.                          *)
Remember(i, k, live, asked) ==
  cache' = [cache EXCEPT ![i][k] = [live |-> live, at |-> asked]]

(* Mutant: a revoke that leaves the entry to its TTL.                      *)
Forget_never(i, k) == cache' = cache

Forget(i, k) == cache' = [cache EXCEPT ![i][k] = NoEntry]

InsertRow(k) ==
  /\ row' = [row EXCEPT ![k] = "active"]
  /\ UNCHANGED diedAt

(* The PATCH of revokeInProject, which filters on status=eq.active.        *)
RevokeRow(k) ==
  IF IsActive(k)
  THEN /\ row' = [row EXCEPT ![k] = "revoked"]
       /\ diedAt' = [diedAt EXCEPT ![k] = now]
  ELSE UNCHANGED <<row, diedAt>>
=============================================================================
