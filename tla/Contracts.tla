----------------------------- MODULE Contracts -----------------------------
(***************************************************************************)
(* The contracts and the backend under one environment, which is at one of *)
(* them at a time: the shielded asset with its clients, the index of its   *)
(* transactions, the cached constants, and the verifier of proofs.  They   *)
(* share no state.                                                         *)
(***************************************************************************)
EXTENDS ShieldedAsset, TransactionIndex, ConstantCache, Groth16

VARIABLE at   \* what the environment is at

contractsVars == <<at, assetVars, indexVars, cacheVars, vars>>

ContractsInit ==
  /\ at \in {"asset", "index", "cache", "verifier"}
  /\ AssetInit /\ IndexInit /\ CacheInit /\ Init

ContractsNext ==
  \/ at = "asset" /\ AssetNext /\ UNCHANGED <<at, indexVars, cacheVars, vars>>
  \/ at = "index" /\ IndexNext /\ UNCHANGED <<at, assetVars, cacheVars, vars>>
  \/ at = "cache" /\ CacheNext /\ UNCHANGED <<at, assetVars, indexVars, vars>>
  \/ at = "verifier" /\ Next /\ UNCHANGED <<at, assetVars, indexVars, cacheVars>>

ContractsSpec == ContractsInit /\ [][ContractsNext]_contractsVars
=============================================================================
