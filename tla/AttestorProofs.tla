--------------------------- MODULE AttestorProofs ---------------------------
(***************************************************************************)
(* Type correctness of Attestor, and that everything a signer signs is and *)
(* stays true, for every value of the constants.                           *)
(*                                                                         *)
(* The argument: a block that is final stays final and unchanged whatever  *)
(* the chain does (FinalBlocksKept), and every last height an adapter may  *)
(* answer is final (LastHeightsFinal).  So from validate_height on, what a *)
(* call has read about final blocks holds in every later state, whichever  *)
(* steps come in between, and CallInv carries it to the signature.         *)
(***************************************************************************)
EXTENDS Attestor, SequenceTheorems, TLAPS

\* The commitment that the check of packet i of request q came to.
Attested(q, results, i) ==
    IF q.type = "receipt" THEN Zero ELSE results[i].value

\* v is what a block that an attestation for height h may speak of has at path.
Witnessed(path, v, h) ==
    \E k \in Sources(h) : Read(blocks[k].store[path]) = v

\* What holds of a call at each of its positions.
CallInv(c) ==
    /\ pc[c] \in {"height", "timestamp", "packets", "signing", "signed"} =>
        req[c] \in Requests /\ Malformed(req[c]) = {}
    /\ pc[c] \in {"timestamp", "packets"} =>
        req[c].height \in 0..latest /\ Final(req[c].height)
    /\ pc[c] = "packets" =>
        /\ req[c].method = "packet"
        /\ DOMAIN found[c] = DOMAIN req[c].packets
        /\ \A i \in DOMAIN req[c].packets : found[c][i].verdict = "ok" =>
            Witnessed(Path(req[c].type, req[c].packets[i]),
                      Attested(req[c], found[c], i), req[c].height)
    /\ pc[c] \in {"signing", "signed"} =>
        draft[c] \in Attestations /\ TrueStatement(draft[c])

\* A draft stays true after its call has ended, and may be signed even then.
DraftsTrue ==
    \A c \in Calls : draft[c] # NoDraft => draft[c] \in Attestations /\ TrueStatement(draft[c])

\* The inductive invariant: the bound on reorgs is what makes a height that
\* lies FinalityOffset blocks below the latest one final.
IInv ==
    /\ TypeOK
    /\ settled >= latest - MaxReorg
    /\ \A c \in Calls : CallInv(c)
    /\ DraftsTrue
    /\ SignedStatementsTrue

ChainInv ==
    /\ latest \in 0..MaxHeight
    /\ blocks \in [0..latest -> Block]
    /\ settled \in -1..latest
    /\ settled >= latest - MaxReorg

-----------------------------------------------------------------------------
(***************************************************************************)
(* The chain                                                               *)
(***************************************************************************)

\* A block turns a store into a store.
LEMMA TransactionsAreStores ==
    ASSUME NEW s \in Store, NEW t
    PROVE  Transactions(s, t) \subseteq Store
<1>1. \A p \in Packets, type \in CommitmentTypes, v \in Cells :
        [s EXCEPT ![Path(type, p)] = v] \in Store
    BY DEF Store, Paths
<1>2. /\ Outgoing \subseteq Packets /\ Incoming \subseteq Packets
      /\ {"packet", "ack", "receipt"} = CommitmentTypes
    BY PacketAssumption DEF CommitmentTypes
<1>3. /\ \A p \in Packets : p.body \in Cells
      /\ \A a \in Acks : a \in Cells
      /\ Received \in Cells /\ Cleared \in Cells
    BY DEF Cells, Commitments
<1> QED
    BY <1>1, <1>2, <1>3 DEF Transactions

\* The chain starts well formed.
LEMMA ChainInitInv == ChainInit => ChainInv
<1> SUFFICES ASSUME ChainInit PROVE ChainInv
    OBVIOUS
<1>1. [path \in Paths |-> Zero] \in Store
    BY DEF Store, Cells
<1>2. blocks \in [0..latest -> Block]
    BY <1>1 DEF ChainInit, Block
<1> QED
    BY <1>2, ChainAssumption DEF ChainInit, ChainInv

\* Every step of the chain keeps it well formed.
LEMMA ChainNextInv == ChainInv /\ ChainNext => ChainInv'
<1> SUFFICES ASSUME ChainInv, ChainNext PROVE ChainInv'
    OBVIOUS
<1> USE ChainAssumption DEF ChainInv
<1>1. CASE Grow
    <2>1. PICK d \in TimeSteps : \E store \in
                Transactions(blocks[latest].store, blocks[latest].time + d) :
            blocks' = [h \in 0..(latest + 1) |->
                        IF h <= latest THEN blocks[h]
                        ELSE [time |-> blocks[latest].time + d, store |-> store]]
        BY <1>1 DEF Grow
    <2>2. PICK store \in Transactions(blocks[latest].store, blocks[latest].time + d) :
            blocks' = [h \in 0..(latest + 1) |->
                        IF h <= latest THEN blocks[h]
                        ELSE [time |-> blocks[latest].time + d, store |-> store]]
        BY <2>1
    <2>3. blocks[latest].time \in Nat /\ blocks[latest].store \in Store
        BY DEF Block
    <2>4. [time |-> blocks[latest].time + d, store |-> store] \in Block
        BY <2>3, TransactionsAreStores DEF Block
    <2>5. latest' = latest + 1 /\ latest' \in 0..MaxHeight
        BY <1>1 DEF Grow
    <2>6. blocks' \in [0..latest' -> Block]
        BY <2>2, <2>4, <2>5
    <2>7. settled' \in -1..latest' /\ settled' >= latest' - MaxReorg
        BY <1>1, <2>5 DEF Grow, Larger
    <2> QED
        BY <2>5, <2>6, <2>7
<1>2. CASE Finalize
    BY <1>2 DEF Finalize
<1>3. CASE Reorg
    <2>1. PICK k \in Larger(settled, 0)..(latest - 1) :
            latest' = k /\ blocks' = [h \in 0..k |-> blocks[h]] /\ settled' = settled
        BY <1>3 DEF Reorg
    <2>2. k \in 0..latest /\ settled <= k /\ k < latest
        BY <2>1 DEF Larger
    <2>3. blocks' \in [0..latest' -> Block]
        BY <2>1, <2>2
    <2> QED
        BY <2>1, <2>2, <2>3
<1> QED
    BY <1>1, <1>2, <1>3 DEF ChainNext

\* No step of the chain takes back a final block or changes what it holds.
LEMMA FinalBlocksKept ==
    ASSUME ChainInv, ChainNext \/ UNCHANGED chainVars, NEW h \in 0..latest, Final(h)
    PROVE  h \in 0..latest' /\ Final(h)' /\ blocks'[h] = blocks[h]
<1> USE ChainAssumption DEF ChainInv, Final
<1>1. CASE Grow
    BY <1>1 DEF Grow, Larger
<1>2. CASE Finalize
    BY <1>2 DEF Finalize
<1>3. CASE Reorg
    BY <1>3 DEF Reorg, Larger
<1>4. CASE UNCHANGED chainVars
    BY <1>4 DEF chainVars
<1> QED
    BY <1>1, <1>2, <1>3, <1>4 DEF ChainNext

-----------------------------------------------------------------------------
(***************************************************************************)
(* The adapters                                                            *)
(***************************************************************************)

\* A height that is not above the last height an adapter answered is final,
\* however far behind the node was that answered: get_last_height of each
\* adapter, with an offset that covers every reorg.
LEMMA LastHeightsFinal ==
    ASSUME ChainInv, NEW f \in LastHeights, NEW h \in Nat, h <= f
    PROVE  h \in 0..latest /\ Final(h)
<1> USE ChainAssumption, AdapterAssumption DEF ChainInv, Final
<1>1. CASE Adapter = "evm_offset"
    <2>1. PICK v \in Lagging(latest) : f = SaturatingSub(v, FinalityOffset)
        BY <1>1 DEF LastHeights, EvmLastHeights
    <2>2. v \in 0..latest
        BY <2>1 DEF Lagging
    <2> QED
        BY <1>1, <2>1, <2>2 DEF SaturatingSub
<1>2. CASE Adapter = "cosmos"
    BY <1>2 DEF LastHeights, CosmosLastHeights, Lagging
<1>3. CASE Adapter \in {"evm_tag", "solana"}
    <2>1. f \in Lagging(settled)
        BY <1>3 DEF LastHeights, EvmLastHeights, SolanaLastHeights
    <2> QED
        BY <2>1 DEF Lagging
<1> QED
    BY <1>1, <1>2, <1>3

\* A last height is a height.
LEMMA LastHeightsNat ==
    ASSUME ChainInv, NEW f \in LastHeights
    PROVE  f \in Nat
<1> USE ChainAssumption, AdapterAssumption DEF ChainInv, LastHeights, Lagging,
    EvmLastHeights, CosmosLastHeights, SolanaLastHeights
<1>1. CASE Adapter = "evm_offset"
    <2>1. PICK v \in Lagging(latest) : f = SaturatingSub(v, FinalityOffset)
        BY <1>1
    <2> QED
        BY <2>1 DEF SaturatingSub
<1>2. CASE Adapter = "cosmos"
    BY <1>2
<1>3. CASE Adapter \in {"evm_tag", "solana"}
    <2>1. f \in Lagging(settled)
        BY <1>3
    <2> QED
        BY <2>1
<1> QED
    BY <1>1, <1>2, <1>3

\* A commitment query for a final height reads a block that the attestation
\* may speak of.
LEMMA ReadHeightsAreSources ==
    ASSUME ChainInv, NEW h \in 0..latest, Final(h)
    PROVE  ReadHeights(h) \subseteq Sources(h)
<1> USE ChainAssumption, AdapterAssumption DEF ChainInv, Final
<1>1. CASE Adapter = "solana"
    BY <1>1 DEF ReadHeights, SolanaReads, Sources, MaySpeakOf, Lagging
<1>2. CASE Adapter = "cosmos"
    BY <1>2 DEF ReadHeights, CosmosReads, AbciQueryHeights, NodeBlock, Sources, MaySpeakOf, Lagging
<1>3. CASE Adapter \notin {"solana", "cosmos"}
    BY <1>3 DEF ReadHeights, EvmReads, NodeBlock, Sources, MaySpeakOf
<1> QED
    BY <1>1, <1>2, <1>3

\* What was read from final blocks is still there after any step of the chain.
LEMMA WitnessKept ==
    ASSUME ChainInv, ChainNext \/ UNCHANGED chainVars,
           NEW path, NEW v, NEW h, Witnessed(path, v, h)
    PROVE  Witnessed(path, v, h)'
<1>1. PICK k \in Sources(h) : Read(blocks[k].store[path]) = v
    BY DEF Witnessed
<1>2. k \in 0..latest /\ Final(k)
    BY <1>1 DEF Sources, MaySpeakOf
<1>3. k \in 0..latest' /\ Final(k)' /\ blocks'[k] = blocks[k]
    BY <1>2, FinalBlocksKept
<1>4. k \in Sources(h)'
    BY <1>1, <1>3 DEF Sources, MaySpeakOf
<1> QED
    BY <1>1, <1>3, <1>4 DEF Witnessed

\* A true statement stays true.
LEMMA TruthKept ==
    ASSUME ChainInv, ChainNext \/ UNCHANGED chainVars, NEW a, TrueStatement(a)
    PROVE  TrueStatement(a)'
<1>1. a.height \in 0..latest /\ Final(a.height)
    BY DEF TrueStatement
<1>2. a.height \in 0..latest' /\ Final(a.height)' /\ blocks'[a.height] = blocks[a.height]
    BY <1>1, FinalBlocksKept
<1>3. CASE a.kind = "state" /\ a.time = blocks[a.height].time
    BY <1>2, <1>3 DEF TrueStatement
<1>4. CASE a.kind = "packet" /\ \A i \in DOMAIN a.packets :
                Witnessed(a.packets[i].path, a.packets[i].commitment, a.height)
    <2>1. \A i \in DOMAIN a.packets :
            Witnessed(a.packets[i].path, a.packets[i].commitment, a.height)'
        BY <1>4, WitnessKept
    <2> QED
        BY <1>2, <1>4, <2>1 DEF TrueStatement, Witnessed
<1> QED
    BY <1>3, <1>4 DEF TrueStatement, Witnessed

-----------------------------------------------------------------------------
(***************************************************************************)
(* Types of what the checks compute                                        *)
(***************************************************************************)

\* Incrementing counters leaves counters.
LEMMA IncrementedType ==
    ASSUME metrics \in [MetricLabels -> Nat], NEW labels
    PROVE  Incremented(labels) \in [MetricLabels -> Nat]
BY DEF Incremented

\* A query returns a commitment or zero.
LEMMA CommitmentsAtType ==
    ASSUME ChainInv, NEW path \in Paths, NEW h, h \in 0..latest, NEW v \in CommitmentsAt(path, h)
    PROVE  v \in Commitments \cup {Zero}
<1>1. PICK k \in ReadHeights(h) : v = Read(blocks[k].store[path])
    BY DEF CommitmentsAt
<1>2. k \in 0..latest
    BY <1>1 DEF ReadHeights, EvmReads, CosmosReads, AbciQueryHeights, SolanaReads, NodeBlock,
        Lagging, ChainInv
<1>3. blocks[k].store[path] \in Cells
    BY <1>2 DEF ChainInv, Block, Store
<1> QED
    BY <1>1, <1>3 DEF Read, Cells

\* A check ends in one of the verdicts, and passes an absent receipt only.
LEMMA VerdictType ==
    ASSUME NEW type, NEW p, NEW v
    PROVE  /\ Verdict(type, p, v) \in Verdicts
           /\ Verdict(type, p, v) = "ok" /\ type = "receipt" => v = Zero
BY DEF Verdict, Verdicts, Failures, AdapterRefuses, CosmosRefuses

\* An error is never reported with the code of a success.
LEMMA CodeOfType ==
    ASSUME NEW verdict \in Verdicts, verdict # "ok"
    PROVE  CodeOf(verdict) \in Codes \ {"ok"}
BY DEF CodeOf, Verdicts, Failures, Codes

\* What a request that is not refused at once looks like.
LEMMA RequestFacts ==
    ASSUME NEW q \in Requests, Malformed(q) = {}
    PROVE  /\ q.method \in Methods
           /\ q.height \in Nat
           /\ q.packets \in Seq(Packets)
           /\ q.method = "packet" => q.type \in CommitmentTypes
<1>1. q \in RequestType
    BY RequestAssumption
<1>2. q.method = "packet" => q.type # "unknown"
    BY DEF Malformed
<1> QED
    BY <1>1, <1>2 DEF RequestType

\* The entries of a batch are well formed, one per packet.
LEMMA CompactType ==
    ASSUME NEW q \in Requests, Malformed(q) = {}, q.method = "packet",
           NEW results \in Seq(Entries), DOMAIN results = DOMAIN q.packets
    PROVE  Compact(q, results) \in Seq(PathsAndValues)
<1>1. q.packets \in Seq(Packets) /\ q.type \in CommitmentTypes
    BY RequestFacts
<1>2. \A i \in DOMAIN q.packets : q.packets[i] \in Packets /\ results[i] \in Entries
    BY <1>1
<1>3. \A i \in DOMAIN q.packets :
        /\ Path(q.type, q.packets[i]) \in Paths
        /\ results[i].value \in Commitments \cup {Zero}
    BY <1>1, <1>2 DEF Paths, Entries
<1>4. DOMAIN q.packets = 1..Len(q.packets) /\ Len(q.packets) \in Nat
    BY <1>1
<1> QED
    BY <1>3, <1>4 DEF Compact, PathsAndValues

-----------------------------------------------------------------------------
(***************************************************************************)
(* Steps                                                                   *)
(***************************************************************************)

\* What is known of a call stays true while others and the chain move.
LEMMA CallInvKept ==
    ASSUME ChainInv, ChainNext \/ UNCHANGED chainVars, NEW d, CallInv(d),
           pc'[d] = pc[d], req'[d] = req[d], found'[d] = found[d], draft'[d] = draft[d]
    PROVE  CallInv(d)'
<1>1. pc[d] \in {"timestamp", "packets"} =>
        req[d].height \in 0..latest' /\ Final(req[d].height)'
    BY FinalBlocksKept DEF CallInv
<1>2. pc[d] = "packets" =>
        \A i \in DOMAIN req[d].packets : found[d][i].verdict = "ok" =>
            Witnessed(Path(req[d].type, req[d].packets[i]),
                      Attested(req[d], found[d], i), req[d].height)'
    BY WitnessKept DEF CallInv
<1>3. pc[d] \in {"signing", "signed"} => TrueStatement(draft[d])'
    BY TruthKept DEF CallInv
<1> QED
    BY <1>1, <1>2, <1>3 DEF CallInv, Final, Witnessed, Sources, MaySpeakOf, TrueStatement, Attested

\* Statements about the state of the chain alone do not depend on the rest.
LEMMA SameChain ==
    ASSUME UNCHANGED chainVars
    PROVE  /\ \A a : TrueStatement(a) => TrueStatement(a)'
           /\ \A path, v, h : Witnessed(path, v, h) => Witnessed(path, v, h)'
           /\ \A h : Final(h) => Final(h)'
BY DEF chainVars, TrueStatement, Witnessed, Sources, MaySpeakOf, Final

\* What stays true of a statement stays true of the call that keeps it as
\* its draft.
LEMMA SameDraft ==
    ASSUME NEW d, NEW a, draft'[d] = a, TrueStatement(a)'
    PROVE  TrueStatement(draft[d])'
BY DEF TrueStatement

\* A step of one call, that leaves the chain and the other calls alone and
\* signs at most the draft of that call.
LEMMA StepKeepsInv ==
    ASSUME IInv, NEW c \in Calls, UNCHANGED chainVars, TypeOK', CallInv(c)',
           \A d \in Calls \ {c} :
                /\ pc'[d] = pc[d] /\ req'[d] = req[d]
                /\ found'[d] = found[d] /\ draft'[d] = draft[d],
           draft'[c] = draft[c] \/ pc'[c] = "signing",
           \/ signed' = signed
           \/ TrueStatement(draft[c]) /\ signed' = signed \cup {draft[c]}
    PROVE  IInv'
<1>1. ChainInv
    BY DEF IInv, TypeOK, ChainInv
<1>2. \A d \in Calls : CallInv(d)'
    BY <1>1, CallInvKept DEF IInv
<1>3. \A a \in signed' : TrueStatement(a)
    BY DEF IInv, CallInv, SignedStatementsTrue
<1>4. \A a \in signed' : TrueStatement(a)'
    BY <1>1, <1>3, TruthKept
<1>5. (settled >= latest - MaxReorg)'
    BY DEF IInv, chainVars
<1>6. ASSUME NEW d \in Calls, draft'[d] # NoDraft
      PROVE  draft'[d] \in Attestations /\ TrueStatement(draft[d])'
    <2>1. CASE draft'[d] = draft[d]
        <3>1. PICK a \in Attestations : draft[d] = a /\ TrueStatement(a)
            BY <1>6, <2>1 DEF IInv, DraftsTrue
        <3>2. TrueStatement(a)'
            BY <3>1, SameChain
        <3> QED
            BY <2>1, <3>1, <3>2, SameDraft
    <2>2. CASE pc'[d] = "signing" /\ d = c
        BY <2>2 DEF CallInv
    <2> QED
        BY <2>1, <2>2
<1> QED
    BY <1>2, <1>4, <1>5, <1>6 DEF IInv, DraftsTrue, SignedStatementsTrue

\* A return is well typed and moves only its own call.
LEMMA ReturnTypes ==
    ASSUME TypeOK, NEW c \in Calls, NEW method, NEW r \in Replies, NEW labels,
           Return(c, method, r, labels)
    PROVE  /\ pc' \in [Calls -> Positions] /\ pc'[c] = "done"
           /\ \A d \in Calls \ {c} : pc'[d] = pc[d]
           /\ reply' \in [Calls -> Replies \cup {NoReply}]
           /\ metrics' \in [MetricLabels -> Nat]
BY IncrementedType DEF TypeOK, Return, Positions, Ended

\* A step that only returns.
LEMMA ReturnKeepsInv ==
    ASSUME IInv, NEW c \in Calls, NEW method, NEW r \in Replies, NEW labels,
           Return(c, method, r, labels), UNCHANGED <<chainVars, req, found, draft, signed>>
    PROVE  IInv'
<1>1. TypeOK
    BY DEF IInv
<1>2. TypeOK'
    BY <1>1, ReturnTypes DEF TypeOK, chainVars
<1>3. CallInv(c)'
    BY <1>1, ReturnTypes DEF CallInv
<1> QED
    BY <1>1, <1>2, <1>3, ReturnTypes, StepKeepsInv

\* Every error code but ok is a reply.
LEMMA ErrorIsReply == \A code \in Codes \ {"ok"} : Error(code) \in Replies
BY DEF Error, Replies

\* A draft is handed to the signer.
LEMMA SignTypes ==
    ASSUME TypeOK, NEW c \in Calls, NEW a \in Attestations, Sign(c, a)
    PROVE  /\ pc' \in [Calls -> Positions] /\ pc'[c] = "signing"
           /\ draft' \in [Calls -> Attestations \cup {NoDraft}] /\ draft'[c] = a
           /\ \A d \in Calls \ {c} : pc'[d] = pc[d] /\ draft'[d] = draft[d]
BY DEF TypeOK, Sign, Positions

\* A true statement that a step hands to the signer is true after that step.
LEMMA DraftTrue ==
    ASSUME UNCHANGED chainVars, NEW c, NEW a, TrueStatement(a), draft'[c] = a
    PROVE  TrueStatement(draft[c])'
BY DEF chainVars, TrueStatement, Sources, MaySpeakOf, Final

-----------------------------------------------------------------------------
(***************************************************************************)
(* The actions, one by one                                                 *)
(***************************************************************************)

\* A request arrives, or is refused at once.
LEMMA ReceiveKeepsInv ==
    ASSUME IInv, NEW c \in Calls, Receive(c)
    PROVE  IInv'
<1>1. TypeOK
    BY DEF IInv
<1>2. PICK q \in Requests :
        /\ req' = [req EXCEPT ![c] = q]
        /\ \/ \E code \in Malformed(q) : Return(c, q.method, Error(code), {})
           \/ Malformed(q) = {} /\ pc' = [pc EXCEPT ![c] = "height"] /\ UNCHANGED <<reply, metrics>>
    BY DEF Receive
<1>3. UNCHANGED <<chainVars, found, draft, signed>>
    BY DEF Receive
<1>4. req' \in [Calls -> Requests \cup {NoRequest}] /\ \A d \in Calls \ {c} : req'[d] = req[d]
    BY <1>1, <1>2 DEF TypeOK
<1>5. CASE \E code \in Malformed(q) : Return(c, q.method, Error(code), {})
    <2>1. PICK code \in Malformed(q) : Return(c, q.method, Error(code), {})
        BY <1>5
    <2>2. Error(code) \in Replies
        BY <2>1, ErrorIsReply DEF Malformed, Codes
    <2>3. TypeOK' /\ CallInv(c)'
        BY <1>1, <1>3, <1>4, <2>1, <2>2, ReturnTypes DEF TypeOK, CallInv, chainVars
    <2> QED
        BY <1>1, <1>3, <1>4, <2>1, <2>2, <2>3, ReturnTypes, StepKeepsInv
<1>6. CASE /\ Malformed(q) = {} /\ pc' = [pc EXCEPT ![c] = "height"]
           /\ UNCHANGED <<reply, metrics>>
    <2>1. /\ pc' \in [Calls -> Positions] /\ pc'[c] = "height" /\ req'[c] = q
          /\ \A d \in Calls \ {c} : pc'[d] = pc[d]
        BY <1>1, <1>2, <1>6 DEF TypeOK, Positions
    <2>2. TypeOK'
        BY <1>1, <1>3, <1>4, <1>6, <2>1 DEF TypeOK, chainVars
    <2>3. CallInv(c)'
        BY <1>6, <2>1 DEF CallInv, Malformed
    <2> QED
        BY <1>3, <1>4, <2>1, <2>2, <2>3, StepKeepsInv
<1> QED
    BY <1>2, <1>5, <1>6

\* latest_height answers a height.
LEMMA LatestHeightKeepsInv ==
    ASSUME IInv, NEW c \in Calls, LatestHeight(c)
    PROVE  IInv'
<1>1. PICK f \in LastHeights :
        Return(c, req[c].method, [code |-> "ok", height |-> f], {})
    BY DEF LatestHeight
<1>2. f \in Nat
    BY <1>1, LastHeightsNat DEF IInv, TypeOK, ChainInv
<1>3. [code |-> "ok", height |-> f] \in Replies
    BY <1>2 DEF Replies
<1>4. UNCHANGED <<chainVars, req, found, draft, signed>>
    BY DEF LatestHeight
<1> QED
    BY <1>1, <1>3, <1>4, ReturnKeepsInv

\* A height that is not final, a failed adapter or a failed signer is an error.
LEMMA ErrorsKeepInv ==
    ASSUME IInv, NEW c \in Calls, RejectHeight(c) \/ AdapterFails(c) \/ SignFails(c)
    PROVE  IInv'
<1>1. Error("failed_precondition") \in Replies /\ Error("internal") \in Replies
    BY ErrorIsReply DEF Codes
<1>2. CASE RejectHeight(c)
    BY <1>1, <1>2, ReturnKeepsInv DEF RejectHeight
<1>3. CASE AdapterFails(c)
    BY <1>1, <1>3, ReturnKeepsInv DEF AdapterFails
<1>4. CASE SignFails(c)
    BY <1>1, <1>4, ReturnKeepsInv DEF SignFails
<1> QED
    BY <1>2, <1>3, <1>4

\* A height passes validate_height only if it is final; every check starts
\* pending, and an empty batch is a true statement about any final height.
LEMMA AcceptHeightKeepsInv ==
    ASSUME IInv, NEW c \in Calls, AcceptHeight(c)
    PROVE  IInv'
<1>1. TypeOK /\ ChainInv /\ CallInv(c)
    BY DEF IInv, TypeOK, ChainInv
<1>2. pc[c] = "height" /\ req[c] \in Requests /\ Malformed(req[c]) = {}
    BY <1>1 DEF AcceptHeight, CallInv
<1>3. req[c].height \in Nat /\ req[c].packets \in Seq(Packets)
    BY <1>2, RequestFacts
<1>4. req[c].height \in 0..latest /\ Final(req[c].height)
    BY <1>1, <1>3, LastHeightsFinal DEF AcceptHeight, HeightAccepted
<1>5. UNCHANGED <<chainVars, req, reply, signed, metrics>>
    BY DEF AcceptHeight
<1>6. req[c].height \in 0..latest' /\ Final(req[c].height)'
    BY <1>4, <1>5, SameChain DEF chainVars
<1>7. CASE pc' = [pc EXCEPT ![c] = "timestamp"] /\ UNCHANGED <<found, draft>>
    <2>1. /\ pc' \in [Calls -> Positions] /\ pc'[c] = "timestamp"
          /\ \A d \in Calls \ {c} : pc'[d] = pc[d]
        BY <1>1, <1>7 DEF TypeOK, Positions
    <2>2. TypeOK'
        BY <1>1, <1>5, <1>7, <2>1 DEF TypeOK, chainVars
    <2>3. CallInv(c)'
        BY <1>2, <1>5, <1>6, <2>1 DEF CallInv, Malformed
    <2> QED
        BY <1>5, <1>7, <2>1, <2>2, <2>3, StepKeepsInv
<1>8. CASE /\ req[c].method = "packet"
           /\ pc' = [pc EXCEPT ![c] = "packets"]
           /\ found' = [found EXCEPT ![c] = [i \in DOMAIN req[c].packets |-> Pending]]
           /\ UNCHANGED draft
    <2> DEFINE checks == [i \in DOMAIN req[c].packets |-> Pending]
    <2>1. /\ pc' \in [Calls -> Positions] /\ pc'[c] = "packets"
          /\ \A d \in Calls \ {c} : pc'[d] = pc[d]
        BY <1>1, <1>8 DEF TypeOK, Positions
    <2>2. checks \in Seq(Entries)
        <3>1. Pending \in Entries
            BY DEF Pending, Entries
        <3>2. DOMAIN req[c].packets = 1..Len(req[c].packets) /\ Len(req[c].packets) \in Nat
            BY <1>3
        <3> QED
            BY <3>1, <3>2
    <2>3. /\ found' \in [Calls -> Seq(Entries)] /\ found'[c] = checks
          /\ \A d \in Calls \ {c} : found'[d] = found[d]
        BY <1>1, <1>8, <2>2 DEF TypeOK
    <2>4. TypeOK'
        BY <1>1, <1>5, <1>8, <2>1, <2>3 DEF TypeOK, chainVars
    <2>5. \A i \in DOMAIN req[c].packets : checks[i].verdict # "ok"
        BY DEF Pending
    <2>6. CallInv(c)'
        BY <1>2, <1>5, <1>6, <1>8, <2>1, <2>3, <2>5 DEF CallInv, Malformed
    <2> QED
        BY <1>5, <1>8, <2>1, <2>3, <2>4, <2>6, StepKeepsInv
<1>9. CASE Sign(c, PacketAttestation(req[c].height, <<>>)) /\ UNCHANGED found
    <2> DEFINE a == PacketAttestation(req[c].height, <<>>)
    <2>1. a \in Attestations
        BY <1>3 DEF PacketAttestation, Attestations
    <2>2. /\ pc' \in [Calls -> Positions] /\ pc'[c] = "signing"
          /\ draft' \in [Calls -> Attestations \cup {NoDraft}] /\ draft'[c] = a
          /\ \A d \in Calls \ {c} : pc'[d] = pc[d] /\ draft'[d] = draft[d]
        BY <1>1, <1>9, <2>1, SignTypes
    <2>3. TrueStatement(draft[c])'
        BY <1>5, <1>6, <2>2 DEF PacketAttestation, TrueStatement
    <2>4. TypeOK'
        BY <1>1, <1>5, <1>9, <2>2 DEF TypeOK, chainVars
    <2>5. CallInv(c)'
        BY <1>2, <1>5, <2>1, <2>2, <2>3 DEF CallInv, Malformed
    <2> QED
        BY <1>5, <1>9, <2>2, <2>4, <2>5, StepKeepsInv
<1> QED
    BY <1>7, <1>8, <1>9 DEF AcceptHeight

\* The timestamp read is the one of the final block asked for.
LEMMA BlockTimestampKeepsInv ==
    ASSUME IInv, NEW c \in Calls, BlockTimestamp(c)
    PROVE  IInv'
<1>1. TypeOK /\ ChainInv /\ CallInv(c)
    BY DEF IInv, TypeOK, ChainInv
<1>2. /\ req[c] \in Requests /\ Malformed(req[c]) = {}
      /\ req[c].height \in 0..latest /\ Final(req[c].height)
    BY <1>1 DEF BlockTimestamp, CallInv
<1>3. Sign(c, StateAttestation(req[c].height, blocks[req[c].height].time))
    BY DEF BlockTimestamp, Timestamps, EvmTimestamps, CosmosTimestamps, SolanaTimestamps, NodeBlock
<1>4. UNCHANGED <<chainVars, req, found, reply, signed, metrics>>
    BY DEF BlockTimestamp
<1> DEFINE a == StateAttestation(req[c].height, blocks[req[c].height].time)
<1>5. a \in Attestations /\ TrueStatement(a)
    <2>1. blocks[req[c].height].time \in Nat
        BY <1>1, <1>2 DEF ChainInv, Block
    <2> QED
        BY <1>2, <2>1 DEF StateAttestation, Attestations, TrueStatement
<1>6. /\ pc' \in [Calls -> Positions] /\ pc'[c] = "signing"
      /\ draft' \in [Calls -> Attestations \cup {NoDraft}] /\ draft'[c] = a
      /\ \A d \in Calls \ {c} : pc'[d] = pc[d] /\ draft'[d] = draft[d]
    BY <1>1, <1>3, <1>5, SignTypes
<1>7. TypeOK'
    BY <1>1, <1>4, <1>6 DEF TypeOK, chainVars
<1> HIDE DEF a
<1>8. TrueStatement(draft[c])'
    BY <1>4, <1>5, <1>6, DraftTrue
<1>9. CallInv(c)'
    BY <1>2, <1>4, <1>5, <1>6, <1>8 DEF CallInv, Malformed
<1> QED
    BY <1>4, <1>6, <1>7, <1>9, StepKeepsInv

\* A check ends with a verdict that the chain bears out if it is ok.  When it
\* is the last of its batch and all are ok, so is the batch.
LEMMA EndCheckKeepsInv ==
    ASSUME IInv, NEW c \in Calls, NEW i \in DOMAIN found[c], NEW r \in Entries,
           r.verdict \in Verdicts, pc[c] = "packets", EndCheck(c, i, r),
           UNCHANGED <<chainVars, req, signed>>,
           r.verdict = "ok" =>
                Witnessed(Path(req[c].type, req[c].packets[i]),
                          IF req[c].type = "receipt" THEN Zero ELSE r.value, req[c].height)
    PROVE  IInv'
<1>0. PICK q, results : q = req[c] /\ results = [found[c] EXCEPT ![i] = r]
    OBVIOUS
<1>1. TypeOK /\ ChainInv /\ CallInv(c)
    BY DEF IInv, TypeOK, ChainInv
<1>2. /\ q \in Requests /\ Malformed(q) = {} /\ q.method = "packet"
      /\ q.height \in 0..latest /\ Final(q.height)
      /\ DOMAIN found[c] = DOMAIN q.packets
    BY <1>0, <1>1 DEF CallInv
<1>3. found[c] \in Seq(Entries)
    BY <1>1 DEF TypeOK
<1>4. results \in Seq(Entries) /\ DOMAIN results = DOMAIN q.packets
    BY <1>0, <1>2, <1>3, ExceptSeq
<1>5. \A j \in DOMAIN q.packets : results[j].verdict = "ok" =>
        Witnessed(Path(q.type, q.packets[j]), Attested(q, results, j), q.height)
    <2> TAKE j \in DOMAIN q.packets
    <2>1. CASE j = i
        BY <1>0, <1>2, <2>1 DEF Attested
    <2>2. CASE j # i
        BY <1>0, <1>1, <1>2, <2>2 DEF Attested, CallInv
    <2> QED
        BY <2>1, <2>2
<1>6. found' \in [Calls -> Seq(Entries)] /\ found'[c] = results
      /\ \A d \in Calls \ {c} : found'[d] = found[d]
    BY <1>0, <1>1, <1>4 DEF EndCheck, TypeOK
<1>7. \A j \in DOMAIN results : results[j].verdict \in Verdicts \cup {"pending"}
    <2>1. \A j \in DOMAIN results : results[j] \in Entries
        BY <1>4
    <2> QED
        BY <2>1 DEF Entries
<1>8. CASE metrics' = Incremented(Counted(r.verdict)) /\ UNCHANGED <<pc, draft, reply>>
    <2>1. TypeOK'
        BY <1>1, <1>6, <1>8, IncrementedType DEF TypeOK, chainVars
    <2>2. \A j \in DOMAIN q.packets : results[j].verdict = "ok" =>
            Witnessed(Path(q.type, q.packets[j]), Attested(q, results, j), q.height)'
        BY <1>1, <1>5, WitnessKept
    <2>3. CallInv(c)'
        BY <1>0, <1>2, <1>4, <1>6, <1>8, <2>2 DEF CallInv, chainVars, Final, Attested,
            Malformed
    <2> QED
        BY <1>6, <1>8, <2>1, <2>3, StepKeepsInv
<1>9. CASE /\ \A j \in DOMAIN results : results[j].verdict # "pending"
           /\ \E j \in Reported(results) :
                Return(c, req[c].method, Error(CodeOf(results[j].verdict)), Counted(r.verdict))
           /\ UNCHANGED draft
    <2>1. PICK j \in Reported(results) :
            Return(c, req[c].method, Error(CodeOf(results[j].verdict)), Counted(r.verdict))
        BY <1>9
    <2>2. results[j].verdict \in Verdicts /\ results[j].verdict # "ok"
        BY <1>7, <1>9 DEF Reported
    <2>3. Error(CodeOf(results[j].verdict)) \in Replies
        BY <2>2, CodeOfType, ErrorIsReply
    <2>4. TypeOK' /\ CallInv(c)'
        BY <1>1, <1>6, <1>9, <2>1, <2>3, ReturnTypes DEF TypeOK, CallInv, chainVars
    <2> QED
        BY <1>1, <1>6, <1>9, <2>1, <2>3, <2>4, ReturnTypes, StepKeepsInv
<1>10. CASE /\ \A j \in DOMAIN results : results[j].verdict = "ok"
            /\ Sign(c, PacketAttestation(q.height, Compact(q, results)))
            /\ UNCHANGED <<reply, metrics>>
    <2> DEFINE a == PacketAttestation(q.height, Compact(q, results))
    <2>1. a \in Attestations
        BY <1>2, <1>4, CompactType, RequestFacts DEF PacketAttestation, Attestations
    <2>2. TrueStatement(a)
        BY <1>2, <1>4, <1>5, <1>10
            DEF PacketAttestation, TrueStatement, Compact, Witnessed, Attested
    <2>3. /\ pc' \in [Calls -> Positions] /\ pc'[c] = "signing"
          /\ draft' \in [Calls -> Attestations \cup {NoDraft}] /\ draft'[c] = a
          /\ \A d \in Calls \ {c} : pc'[d] = pc[d] /\ draft'[d] = draft[d]
        BY <1>1, <1>10, <2>1, SignTypes
    <2>4. TypeOK'
        BY <1>1, <1>6, <1>10, <2>3 DEF TypeOK, chainVars
    <2>5. TrueStatement(draft[c])'
        BY <2>2, <2>3, DraftTrue
    <2>6. CallInv(c)'
        BY <1>0, <1>2, <2>1, <2>3, <2>5 DEF CallInv, Malformed
    <2> QED
        BY <1>6, <2>3, <2>4, <2>6, StepKeepsInv
<1> QED
    BY <1>0, <1>8, <1>9, <1>10 DEF EndCheck

\* A check reads a block the attestation may speak of; a failed query is an
\* error and attests to nothing.
LEMMA ChecksKeepInv ==
    ASSUME IInv, NEW c \in Calls, NEW i \in DOMAIN found[c],
           CheckPacket(c, i) \/ CommitmentFails(c, i)
    PROVE  IInv'
<1>1. ChainInv /\ CallInv(c) /\ pc[c] = "packets"
    BY DEF IInv, TypeOK, ChainInv, CheckPacket, CommitmentFails
<1>2. /\ req[c] \in Requests /\ Malformed(req[c]) = {} /\ req[c].method = "packet"
      /\ req[c].height \in 0..latest /\ Final(req[c].height)
      /\ i \in DOMAIN req[c].packets
    BY <1>1 DEF CallInv
<1>3. UNCHANGED <<chainVars, req, signed>>
    BY DEF CheckPacket, CommitmentFails
<1>4. CASE CheckPacket(c, i)
    <2> DEFINE type == req[c].type
               p == req[c].packets[i]
    <2>1. PICK value \in CommitmentsAt(Path(type, p), req[c].height) :
            EndCheck(c, i, Result(Verdict(type, p, value), value))
        BY <1>4 DEF CheckPacket
    <2>2. Path(type, p) \in Paths
        <3>1. type \in CommitmentTypes /\ p \in Packets
            BY <1>2, RequestFacts
        <3> QED
            BY <3>1 DEF Paths
    <2>3. value \in Commitments \cup {Zero}
        BY <1>1, <1>2, <2>2, CommitmentsAtType
    <2>4. Witnessed(Path(type, p), value, req[c].height)
        BY <1>1, <1>2, ReadHeightsAreSources DEF CommitmentsAt, Witnessed
    <2>5. /\ Result(Verdict(type, p, value), value) \in Entries
          /\ Result(Verdict(type, p, value), value).verdict \in Verdicts
          /\ Result(Verdict(type, p, value), value).value = value
          /\ (Result(Verdict(type, p, value), value).verdict = "ok" /\ type = "receipt")
                => value = Zero
        BY <2>3, VerdictType DEF Result, Entries
    <2> QED
        BY <1>1, <1>3, <2>1, <2>4, <2>5, EndCheckKeepsInv
<1>5. CASE CommitmentFails(c, i)
    <2>1. /\ Result("adapter_error", Zero) \in Entries
          /\ Result("adapter_error", Zero).verdict \in Verdicts
          /\ Result("adapter_error", Zero).verdict # "ok"
        BY DEF Result, Entries, Verdicts
    <2>2. EndCheck(c, i, Result("adapter_error", Zero))
        BY <1>5 DEF CommitmentFails
    <2> QED
        BY <1>1, <1>3, <2>1, <2>2, EndCheckKeepsInv
<1> QED
    BY <1>4, <1>5

\* The signer signs the draft of the call, which is true.
LEMMA SigningKeepsInv ==
    ASSUME IInv, NEW c \in Calls,
           SignLocally(c) \/ SignRemotely(c) \/ SignatureArrives(c)
    PROVE  IInv'
<1>1. TypeOK /\ CallInv(c) /\ pc[c] \in {"signing", "signed"}
    BY DEF IInv, SignLocally, SignRemotely, SignatureArrives
<1>2. /\ draft[c] \in Attestations /\ TrueStatement(draft[c])
      /\ req[c] \in Requests /\ Malformed(req[c]) = {}
    BY <1>1 DEF CallInv
<1>3. [code |-> "ok", attestation |-> draft[c]] \in Replies
    BY <1>2 DEF Replies
<1>4. CASE SignLocally(c)
    <2>1. /\ pc[c] = "signing" /\ signed' = signed \cup {draft[c]}
          /\ UNCHANGED <<chainVars, req, found, draft>>
          /\ Return(c, req[c].method, [code |-> "ok", attestation |-> draft[c]],
                    {Metric("sign", "ok")})
        BY <1>4 DEF SignLocally
    <2>2. TypeOK' /\ CallInv(c)'
        BY <1>1, <1>2, <1>3, <2>1, ReturnTypes DEF TypeOK, CallInv, chainVars
    <2> QED
        BY <1>1, <1>2, <1>3, <2>1, <2>2, ReturnTypes, StepKeepsInv
<1>5. CASE SignRemotely(c)
    <2>1. /\ pc[c] = "signing" /\ signed' = signed \cup {draft[c]}
          /\ pc' = [pc EXCEPT ![c] = "signed"]
          /\ UNCHANGED <<chainVars, req, found, draft, reply, metrics>>
        BY <1>5 DEF SignRemotely
    <2>2. /\ pc' \in [Calls -> Positions] /\ pc'[c] = "signed"
          /\ \A d \in Calls \ {c} : pc'[d] = pc[d]
        BY <1>1, <2>1 DEF TypeOK, Positions
    <2>3. TypeOK'
        BY <1>1, <1>2, <2>1, <2>2 DEF TypeOK, chainVars
    <2>4. TrueStatement(draft[c])'
        BY <1>2, <2>1, DraftTrue
    <2>5. CallInv(c)'
        BY <1>2, <2>1, <2>2, <2>4 DEF CallInv, Malformed
    <2> QED
        BY <1>2, <2>1, <2>2, <2>3, <2>5, StepKeepsInv
<1>6. CASE SignatureArrives(c)
    BY <1>3, <1>6, ReturnKeepsInv DEF SignatureArrives
<1> QED
    BY <1>4, <1>5, <1>6

\* What a call left with the signing service is still true when it is signed.
LEMMA SignLateKeepsInv ==
    ASSUME IInv, NEW c \in Calls, SignLate(c)
    PROVE  IInv'
<1>1. /\ draft[c] # NoDraft /\ signed' = signed \cup {draft[c]}
      /\ UNCHANGED <<chainVars, callVars, metrics>>
    BY DEF SignLate
<1>2. draft[c] \in Attestations /\ TrueStatement(draft[c])
    BY <1>1 DEF IInv, DraftsTrue
<1>3. TypeOK'
    BY <1>1, <1>2 DEF IInv, TypeOK, chainVars, callVars
<1>4. CallInv(c)'
    BY <1>1, CallInvKept DEF IInv, TypeOK, ChainInv, callVars
<1> QED
    BY <1>1, <1>2, <1>3, <1>4, StepKeepsInv DEF callVars

\* A dropped call leaves its signature behind, if it has one.
LEMMA DropKeepsInv ==
    ASSUME IInv, NEW c \in Calls, Drop(c)
    PROVE  IInv'
<1>1. TypeOK
    BY DEF IInv
<1>2. UNCHANGED <<chainVars, req, found, draft, reply, signed, metrics>>
    BY DEF Drop
<1>3. /\ pc' \in [Calls -> Positions] /\ pc'[c] = "dropped"
      /\ \A d \in Calls \ {c} : pc'[d] = pc[d]
    BY <1>1 DEF Drop, TypeOK, Positions, Ended
<1>4. TypeOK'
    BY <1>1, <1>2, <1>3 DEF TypeOK, chainVars
<1>5. CallInv(c)'
    BY <1>3 DEF CallInv
<1> QED
    BY <1>2, <1>3, <1>4, <1>5, StepKeepsInv

\* The chain moves, or nothing does.
LEMMA ChainKeepsInv ==
    ASSUME IInv, ChainStep \/ UNCHANGED vars
    PROVE  IInv'
<1>1. ChainInv
    BY DEF IInv, TypeOK, ChainInv
<1>2. /\ ChainNext \/ UNCHANGED chainVars
      /\ UNCHANGED <<callVars, signed, metrics>>
    BY DEF ChainStep, vars
<1>3. ChainInv'
    BY <1>1, <1>2, ChainNextInv DEF chainVars, ChainInv
<1>4. TypeOK'
    BY <1>2, <1>3 DEF IInv, TypeOK, ChainInv, callVars
<1>5. \A c \in Calls : CallInv(c)'
    BY <1>1, <1>2, CallInvKept DEF IInv, callVars
<1>6. \A a \in signed' : TrueStatement(a)'
    BY <1>1, <1>2, TruthKept DEF IInv, SignedStatementsTrue
<1>7. ASSUME NEW c \in Calls, draft'[c] # NoDraft
      PROVE  draft'[c] \in Attestations /\ TrueStatement(draft[c])'
    <2>1. PICK a \in Attestations : draft'[c] = a /\ TrueStatement(a)
        BY <1>2, <1>7 DEF IInv, DraftsTrue, callVars
    <2>2. TrueStatement(a)'
        BY <1>1, <1>2, <2>1, TruthKept
    <2> QED
        BY <2>1, <2>2, SameDraft
<1> QED
    BY <1>3, <1>4, <1>5, <1>6, <1>7 DEF IInv, DraftsTrue, ChainInv, SignedStatementsTrue

-----------------------------------------------------------------------------
(***************************************************************************)
(* The theorems                                                            *)
(***************************************************************************)

\* The service starts with no call, no draft and no signature.
LEMMA InitInv == Init => IInv
<1> SUFFICES ASSUME Init PROVE IInv
    OBVIOUS
<1>1. ChainInv
    BY ChainInitInv DEF Init
<1>2. TypeOK
    BY <1>1 DEF Init, TypeOK, ChainInv, Positions
<1>3. \A c \in Calls : CallInv(c)
    BY DEF Init, CallInv
<1> QED
    BY <1>1, <1>2, <1>3 DEF Init, IInv, ChainInv, DraftsTrue, SignedStatementsTrue

\* Every step of the service, its callers, its signers and the chain keeps
\* the inductive invariant.
LEMMA NextInv == IInv /\ [Next]_vars => IInv'
<1> SUFFICES ASSUME IInv, [Next]_vars PROVE IInv'
    OBVIOUS
<1>1. CASE ChainStep \/ UNCHANGED vars \/ Quiet
    BY <1>1, ChainKeepsInv DEF Quiet
<1>2. ASSUME NEW c \in Calls, Receive(c) \/ Drop(c) \/ SignLate(c) PROVE IInv'
    BY <1>2, ReceiveKeepsInv, DropKeepsInv, SignLateKeepsInv
<1>3. ASSUME NEW c \in Calls, Progress(c) PROVE IInv'
    BY <1>3, LatestHeightKeepsInv, ErrorsKeepInv, AcceptHeightKeepsInv,
       BlockTimestampKeepsInv, ChecksKeepInv, SigningKeepsInv DEF Progress
<1> QED
    BY <1>1, <1>2, <1>3 DEF Next

\* The inductive invariant holds in every state of every behaviour.
THEOREM InvariantHolds == Spec => []IInv
BY InitInv, NextInv, PTL DEF Spec

\* Every variable keeps its type: replies are well formed, counters count.
THEOREM TypeCorrect == Spec => []TypeOK
<1>1. IInv => TypeOK
    BY DEF IInv
<1> QED
    BY <1>1, InvariantHolds, PTL

\* What a signer has signed is a true statement about a final block, in every
\* later state: for any number of calls, batches of any length, any depth of
\* reorgs, any finality offset that covers it and any lag of the RPC nodes.
THEOREM SignedTruth == Spec => []SignedStatementsTrue
<1>1. IInv => SignedStatementsTrue
    BY DEF IInv
<1> QED
    BY <1>1, InvariantHolds, PTL
=============================================================================
