------------------------------ MODULE Adapter ------------------------------
(***************************************************************************)
(* The chain adapters: what get_last_height_at_configured_finality,        *)
(* get_block_timestamp and get_commitment may answer, for each adapter the *)
(* program ships.  An RPC endpoint may be a pool of nodes, each up to      *)
(* NodeLag blocks behind the chain.  Every call may also fail; the actions *)
(* of Attestor say what a failure does.                                    *)
(***************************************************************************)
EXTENDS Chain

CONSTANTS
    Adapter,         \* which adapter is configured
    FinalityOffset,  \* evm_offset: finality_offset of the configuration
    NodeLag          \* how far an RPC node may lag behind the chain

ASSUME AdapterAssumption ==
    /\ Adapter \in {"evm_tag", "evm_offset", "cosmos", "solana"}
    /\ FinalityOffset \in Nat /\ NodeLag \in Nat
    /\ Adapter = "evm_offset" => FinalityOffset >= MaxReorg
    /\ Adapter = "cosmos" => MaxReorg = 0

\* The heights that the nodes of an endpoint may have when the true one is h.
Lagging(h) == {v \in (h - NodeLag)..h : v >= 0}

\* The block of that height, on a node that has it.
NodeBlock(h) == {h} \cap (0..latest)

-----------------------------------------------------------------------------
(***************************************************************************)
(* EVM: the block behind the "finalized" tag, or the configured number of  *)
(* blocks below the latest.  Queries name the block they are about.        *)
(***************************************************************************)

\* Faults: an unchecked subtraction, and an offset that is not applied.
WrappingSub(a, b) == a - b
OffsetIgnored(a, b) == a

SaturatingSub(a, b) == IF a < b THEN 0 ELSE a - b

\* Fault: the newest block, final or not.
EvmLatest == Lagging(latest)

EvmLastHeights ==
    IF Adapter = "evm_offset"
    THEN {SaturatingSub(v, FinalityOffset) : v \in Lagging(latest)}
    ELSE Lagging(settled)

EvmTimestamps(h) == {blocks[v].time : v \in NodeBlock(h)}

\* Fault: the router is called at the newest block.
EvmReadsLatest(h) == Lagging(latest)

EvmReads(h) == NodeBlock(h)

(***************************************************************************)
(* Cosmos: the latest commit is final; the first one has height 1.         *)
(* Queries name their height, and the node answers an ABCI query that      *)
(* names height 0 from its newest block.                                   *)
(***************************************************************************)
AbciQueryHeights(h) == IF h = 0 THEN Lagging(latest) ELSE NodeBlock(h)

CosmosLastHeights == Lagging(latest) \ {0}

CosmosTimestamps(h) == {blocks[v].time : v \in NodeBlock(h) \ {0}}

CosmosReads(h) == AbciQueryHeights(h)

\* A receipt that exists is an error of the adapter.
CosmosRefuses(type, commitment) == type = "receipt" /\ commitment # Zero

(***************************************************************************)
(* Solana: slots at commitment level finalized.  There is no query at a    *)
(* past slot: an account is read as the node has it, at commitment level   *)
(* finalized, whatever the height asked for.                               *)
(***************************************************************************)
SolanaLastHeights == Lagging(settled)

\* Fault: the time of the slot that is newest by then.
SolanaTimestampsNow(h) == {blocks[v].time : v \in Lagging(settled)}

SolanaTimestamps(h) == {blocks[v].time : v \in NodeBlock(h)}

\* Fault: the account as of the newest slot, whatever its commitment level.
SolanaReadsProcessed(h) == Lagging(latest)

SolanaReads(h) == Lagging(settled)

-----------------------------------------------------------------------------
(***************************************************************************)
(* The three operations of AttestationAdapter                              *)
(***************************************************************************)
LastHeights ==
    CASE Adapter = "cosmos" -> CosmosLastHeights
      [] Adapter = "solana" -> SolanaLastHeights
      [] OTHER              -> EvmLastHeights

Timestamps(h) ==
    CASE Adapter = "cosmos" -> CosmosTimestamps(h)
      [] Adapter = "solana" -> SolanaTimestamps(h)
      [] OTHER              -> EvmTimestamps(h)

\* The blocks that a commitment query for height h may read.
ReadHeights(h) ==
    CASE Adapter = "cosmos" -> CosmosReads(h)
      [] Adapter = "solana" -> SolanaReads(h)
      [] OTHER              -> EvmReads(h)

CommitmentsAt(path, h) == {Read(blocks[v].store[path]) : v \in ReadHeights(h)}

AdapterRefuses(type, commitment) ==
    Adapter = "cosmos" /\ CosmosRefuses(type, commitment)
=============================================================================
