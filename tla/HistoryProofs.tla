---------------------------- MODULE HistoryProofs ----------------------------
(***************************************************************************)
(* What signatures of different calls, made at different times, say        *)
(* together: they never contradict each other, and a receipt attested      *)
(* absent at a height whose attested time has reached the timeout means    *)
(* that the packet will never be received.                                 *)
(*                                                                         *)
(* The argument is about the whole chain rather than its newest block: how *)
(* the cells of two blocks relate, whichever step of the chain (also a     *)
(* reorg) made them the blocks that they are (History).                    *)
(***************************************************************************)
EXTENDS RefinementProofs

Cell(h, path) == blocks[h].store[path]

\* Acknowledgements and receipts, once written, stay, and are not cleared.
Permanent(i, j) ==
    \A path \in Paths : path[1] \in {"ack", "receipt"} =>
        /\ Cell(i, path) # Cleared
        /\ Cell(i, path) # Zero => Cell(j, path) = Cell(i, path)

\* A receipt that a block lacks and a later one has was written in time, so
\* before the block after the first had reached the timeout.
InTime(i, j) ==
    \A p \in Incoming :
        (Cell(i, Path("receipt", p)) = Zero /\ Cell(j, Path("receipt", p)) # Zero)
            => i < j /\ blocks[i + 1].time < p.timeout

\* A packet commitment is the one of the packet that was sent, until cleared.
Genuine(i) ==
    \A path \in Paths : path[1] = "packet" =>
        \/ Cell(i, path) \in {Zero, Cleared}
        \/ \E p \in Outgoing : path = Path("packet", p) /\ Cell(i, path) = p.body

History ==
    \A i, j \in 0..latest : i <= j =>
        blocks[i].time <= blocks[j].time /\ Permanent(i, j) /\ InTime(i, j) /\ Genuine(i)

HInv == ChainInv /\ History

-----------------------------------------------------------------------------
(***************************************************************************)
(* The chain                                                               *)
(***************************************************************************)

LEMMA ReceiptPaths == \A p \in Incoming : Path("receipt", p) \in Paths
<1>1. "receipt" \in CommitmentTypes /\ Incoming \subseteq Packets
    BY PacketAssumption DEF CommitmentTypes
<1> QED
    BY <1>1 DEF Paths

\* What a block may do to a cell.
LEMMA CellSteps ==
    ASSUME NEW s \in Store, NEW t, NEW new \in Transactions(s, t), NEW path \in Paths
    PROVE  \/ new[path] = s[path]
           \/ /\ path[1] = "packet"
              /\ \E p \in Outgoing : path = Path("packet", p) /\ new[path] \in {p.body, Cleared}
           \/ path[1] = "ack" /\ s[path] = Zero /\ new[path] \in Acks
           \/ /\ path[1] = "receipt" /\ s[path] = Zero /\ new[path] = Received
              /\ \E p \in Incoming : path = Path("receipt", p) /\ t < p.timeout
<1> DEFINE Write(type, p, v) == [s EXCEPT ![Path(type, p)] = v]
<1>0. /\ Outgoing \subseteq Packets /\ Incoming \subseteq Packets
      /\ \A type, p, v : Write(type, p, v)[path] = IF path = Path(type, p) THEN v ELSE s[path]
      /\ \A type, p : Path(type, p)[1] = type
    BY PacketAssumption DEF Store, Path
<1>1. CASE new = s
    BY <1>1
<1>2. CASE \E p \in Outgoing : new = Write("packet", p, p.body)
    BY <1>0, <1>2
<1>3. CASE \E p \in Outgoing : new = Write("packet", p, Cleared)
    BY <1>0, <1>3
<1>4. CASE \E p \in Incoming : /\ s[Path("receipt", p)] = Zero /\ t < p.timeout
                               /\ new = Write("receipt", p, Received)
    BY <1>0, <1>4
<1>5. CASE \E p \in Incoming, a \in Acks :
                s[Path("ack", p)] = Zero /\ new = Write("ack", p, a)
    BY <1>0, <1>5
<1> QED
    BY <1>1, <1>2, <1>3, <1>4, <1>5 DEF Transactions

\* A chain of one empty block has a history.
LEMMA HInvInit == ChainInit => HInv
<1> SUFFICES ASSUME ChainInit PROVE HInv
    OBVIOUS
<1>1. ChainInv
    BY ChainInitInv
<1>2. \A path \in Paths : Cell(0, path) = Zero
    BY DEF ChainInit, Cell
<1>3. \A p \in Incoming : Path("receipt", p) \in Paths
    BY ReceiptPaths
<1>4. Permanent(0, 0) /\ InTime(0, 0) /\ Genuine(0)
    BY <1>2, <1>3 DEF Permanent, InTime, Genuine, Zero, Cleared
<1>5. \A i, j \in 0..latest : i = 0 /\ j = 0
    BY DEF ChainInit
<1>6. blocks[0].time \in Nat
    BY <1>1, ChainAssumption DEF ChainInv, Block
<1> QED
    BY <1>1, <1>4, <1>5, <1>6 DEF HInv, History

\* Among blocks that stay, nothing changes.
LEMMA SameHistory ==
    ASSUME HInv, latest' \in 0..latest, \A h \in 0..latest' : blocks'[h] = blocks[h]
    PROVE  History'
<1> SUFFICES ASSUME NEW i \in 0..latest', NEW j \in 0..latest', i <= j
             PROVE  /\ blocks'[i].time <= blocks'[j].time
                    /\ Permanent(i, j)' /\ InTime(i, j)' /\ Genuine(i)'
    BY DEF History
<1>1. /\ blocks'[i] = blocks[i] /\ blocks'[j] = blocks[j]
      /\ i < j => blocks'[i + 1] = blocks[i + 1]
      /\ i \in 0..latest /\ j \in 0..latest
    BY DEF HInv, ChainInv
<1>2. blocks[i].time <= blocks[j].time /\ Permanent(i, j) /\ InTime(i, j) /\ Genuine(i)
    BY <1>1 DEF HInv, History
<1> QED
    BY <1>1, <1>2 DEF Permanent, InTime, Genuine, Cell

\* A new block continues the history.
LEMMA GrowHistory ==
    ASSUME HInv, Grow
    PROVE  History'
<1>0. PICK n \in Nat : n = latest + 1
    BY ChainAssumption DEF HInv, ChainInv
<1>1. PICK d \in TimeSteps : \E store \in
            Transactions(blocks[latest].store, blocks[latest].time + d) :
        blocks' = [h \in 0..(latest + 1) |->
                    IF h <= latest THEN blocks[h]
                    ELSE [time |-> blocks[latest].time + d, store |-> store]]
    BY DEF Grow
<1>2. PICK t : t = blocks[latest].time + d
    OBVIOUS
<1>3. PICK new \in Transactions(blocks[latest].store, t) :
        blocks' = [h \in 0..(latest + 1) |->
                    IF h <= latest THEN blocks[h] ELSE [time |-> t, store |-> new]]
    BY <1>1, <1>2
<1>4. /\ latest \in Nat /\ latest' = n /\ blocks \in [0..latest -> Block]
      /\ blocks[latest].store \in Store
    BY <1>0, ChainAssumption DEF HInv, ChainInv, Grow, Block
<1>5. \A h \in 0..latest : blocks[h].time \in Nat
    BY <1>4 DEF Block
<1>6. t \in Nat /\ \A h \in 0..latest : blocks[h].time <= t
    BY <1>2, <1>4, <1>5, ChainAssumption DEF HInv, History
<1>7. /\ \A h \in 0..latest : blocks'[h] = blocks[h]
      /\ blocks'[n].time = t /\ blocks'[n].store = new
    BY <1>0, <1>3, <1>4
<1>8. \A path \in Paths :
        \/ new[path] = Cell(latest, path)
        \/ /\ path[1] = "packet"
           /\ \E p \in Outgoing : path = Path("packet", p) /\ new[path] \in {p.body, Cleared}
        \/ path[1] = "ack" /\ Cell(latest, path) = Zero /\ new[path] \in Acks
        \/ /\ path[1] = "receipt" /\ Cell(latest, path) = Zero /\ new[path] = Received
           /\ \E p \in Incoming : path = Path("receipt", p) /\ t < p.timeout
    BY <1>4, CellSteps DEF Cell
<1>9. Permanent(latest, latest) /\ Genuine(latest)
    BY <1>4 DEF HInv, History
<1>10. Cleared # Received /\ Cleared \notin Acks
    BY PacketAssumption DEF Commitments
<1>11. ASSUME NEW path \in Paths, path[1] \in {"ack", "receipt"}
       PROVE  /\ new[path] # Cleared
              /\ Cell(latest, path) # Zero => new[path] = Cell(latest, path)
    BY <1>8, <1>9, <1>10, <1>11 DEF Permanent
<1>12. ASSUME NEW i \in 0..latest
       PROVE  Permanent(i, n)' /\ InTime(i, n)'
    <2>1. Permanent(i, latest) /\ InTime(i, latest) /\ blocks'[i] = blocks[i]
        BY <1>4, <1>7 DEF HInv, History
    <2>2. Permanent(i, n)'
        BY <1>7, <1>11, <2>1 DEF Permanent, Cell
    <2>3. ASSUME NEW p \in Incoming, Cell(i, Path("receipt", p))' = Zero,
                 new[Path("receipt", p)] # Zero
          PROVE  i < n /\ blocks'[i + 1].time < p.timeout
        <3>1. Path("receipt", p) \in Paths /\ Path("receipt", p)[1] = "receipt"
            BY ReceiptPaths DEF Path
        <3>2. Cell(i, Path("receipt", p)) = Zero
            BY <2>1, <2>3 DEF Cell
        <3>3. CASE Cell(latest, Path("receipt", p)) # Zero
            <4>1. i < latest /\ blocks[i + 1].time < p.timeout
                BY <2>1, <3>2, <3>3 DEF InTime
            <4> QED
                BY <1>0, <1>4, <1>7, <4>1
        <3>4. CASE Cell(latest, Path("receipt", p)) = Zero
            <4>1. PICK q \in Incoming : Path("receipt", p) = Path("receipt", q) /\ t < q.timeout
                BY <1>8, <2>3, <3>1, <3>4
            <4>2. t < p.timeout
                BY <4>1, PacketAssumption
            <4>3. blocks'[i + 1].time \in Nat /\ blocks'[i + 1].time <= t
                BY <1>0, <1>4, <1>5, <1>6, <1>7
            <4>4. p.timeout \in Nat
                BY PacketAssumption
            <4> QED
                BY <1>0, <1>4, <1>6, <4>2, <4>3, <4>4
        <3> QED
            BY <3>3, <3>4
    <2>4. InTime(i, n)'
        BY <1>7, <2>3 DEF InTime, Cell
    <2> QED
        BY <2>2, <2>4
<1>13. Permanent(n, n)' /\ InTime(n, n)'
    BY <1>7, <1>11 DEF Permanent, InTime, Cell
<1>14. Genuine(n)'
    BY <1>7, <1>8, <1>9 DEF Genuine, Cell
<1>15. ASSUME NEW i \in 0..latest, NEW j \in 0..latest, i <= j
       PROVE  /\ blocks'[i].time <= blocks'[j].time
              /\ Permanent(i, j)' /\ InTime(i, j)' /\ Genuine(i)'
    <2>1. /\ blocks'[i] = blocks[i] /\ blocks'[j] = blocks[j]
          /\ i < j => blocks'[i + 1] = blocks[i + 1]
        BY <1>4, <1>7, <1>15
    <2>2. blocks[i].time <= blocks[j].time /\ Permanent(i, j) /\ InTime(i, j) /\ Genuine(i)
        BY <1>15 DEF HInv, History
    <2> QED
        BY <2>1, <2>2 DEF Permanent, InTime, Genuine, Cell
<1>16. ASSUME NEW i \in 0..latest', NEW j \in 0..latest', i <= j
       PROVE  /\ blocks'[i].time <= blocks'[j].time
              /\ Permanent(i, j)' /\ InTime(i, j)' /\ Genuine(i)'
    <2>2. CASE j \in 0..latest
        BY <1>4, <1>15, <1>16, <2>2
    <2>3. CASE j = n /\ i \in 0..latest
        <3>1. Genuine(i)'
            BY <1>15, <2>3
        <3> QED
            BY <1>6, <1>7, <1>12, <2>3, <3>1
    <2>4. CASE j = n /\ i = n
        BY <1>0, <1>6, <1>7, <1>13, <1>14, <2>4
    <2> QED
        BY <1>0, <1>4, <1>16, <2>2, <2>3, <2>4
<1> QED
    BY <1>16 DEF History

LEMMA HInvNext == HInv /\ (ChainNext \/ UNCHANGED chainVars) => HInv'
<1> SUFFICES ASSUME HInv, ChainNext \/ UNCHANGED chainVars PROVE HInv'
    OBVIOUS
<1>1. ChainInv'
    BY ChainNextInv DEF HInv, ChainInv, chainVars
<1>2. CASE Grow
    BY <1>1, <1>2, GrowHistory DEF HInv
<1>3. CASE Finalize \/ UNCHANGED chainVars
    <2>1. latest' = latest /\ blocks' = blocks /\ latest \in 0..latest
        BY <1>3 DEF Finalize, chainVars, HInv, ChainInv
    <2> QED
        BY <1>1, <2>1, SameHistory DEF HInv
<1>4. CASE Reorg
    <2>1. latest' \in 0..latest /\ \A h \in 0..latest' : blocks'[h] = blocks[h]
        BY <1>4 DEF Reorg, Larger, HInv, ChainInv
    <2> QED
        BY <1>1, <2>1, SameHistory DEF HInv
<1> QED
    BY <1>2, <1>3, <1>4 DEF ChainNext

-----------------------------------------------------------------------------
(***************************************************************************)
(* The service                                                             *)
(***************************************************************************)

\* Whatever the calls do, the chain takes its own steps.
LEMMA ServiceKeepsHistory ==
    ASSUME AInv, HInv, [Next]_vars
    PROVE  HInv'
<1>1. CASE \E c \in Calls : Moves(c)
    BY <1>1, HInvNext DEF Moves
<1>2. CASE ChainNext \/ UNCHANGED chainVars
    BY <1>2, HInvNext
<1> QED
    BY <1>1, <1>2, StepMoves

\* However the chain grows, settles and reorganises: acknowledgements and
\* receipts stay, receipts are written in time, and what the service drafts
\* answers its request (AInv).
THEOREM HistoryHolds == Spec => [](AInv /\ HInv)
<1>1. Init => HInv
    BY HInvInit DEF Init
<1>2. AInv /\ HInv /\ [Next]_vars => HInv'
    BY ServiceKeepsHistory
<1> QED
    BY <1>1, <1>2, DraftsAnswer, PTL DEF Spec

\* What a signed packet attestation says of a path is attestable, and is what
\* a final block that it may speak of holds.
LEMMA SignedEntry ==
    ASSUME AInv, HInv, NEW a \in signed, a.kind = "packet", NEW i \in DOMAIN a.packets
    PROVE  \E type \in CommitmentTypes, p \in Packets, v \in Sources(a.height) :
            /\ a.packets[i].path = Path(type, p) /\ a.packets[i].path \in Paths
            /\ N!Attestable(type, p, a.packets[i].commitment)
            /\ a.packets[i].commitment = Read(Cell(v, a.packets[i].path))
<1>1. PICK c \in Calls : draft[c] = a /\ a # NoDraft /\ pc[c] \in {"signed"} \cup Ended
    BY DEF AInv, SignedAreDrafts
<1>2. Answers(req[c], a) /\ req[c] \in RequestType
    BY <1>1, RequestAssumption DEF AInv, CallAnswers, Ended
<1>3. /\ i \in DOMAIN req[c].packets
      /\ a.packets[i].path = Path(req[c].type, req[c].packets[i])
      /\ N!Attestable(req[c].type, req[c].packets[i], a.packets[i].commitment)
    BY <1>2 DEF Answers
<1>4. req[c].packets \in Seq(Packets) /\ req[c].packets[i] \in Packets
    BY <1>2, <1>3 DEF RequestType
<1>5. req[c].type \in CommitmentTypes
    BY <1>2, <1>3 DEF RequestType, N!Attestable, CommitmentTypes
<1>6. a.packets[i].path \in Paths
    BY <1>3, <1>4, <1>5 DEF Paths
<1>7. PICK v \in Sources(a.height) :
        Read(blocks[v].store[a.packets[i].path]) = a.packets[i].commitment
    BY DEF AInv, IInv, SignedStatementsTrue, TrueStatement
<1> QED
    BY <1>3, <1>4, <1>5, <1>6, <1>7 DEF Cell

\* Two entries for the same path say the same of it.
LEMMA EntriesAgree ==
    ASSUME AInv, HInv, NEW a \in signed, NEW b \in signed, a.kind = "packet", b.kind = "packet",
           NEW i \in DOMAIN a.packets, NEW j \in DOMAIN b.packets,
           a.packets[i].path = b.packets[j].path
    PROVE  a.packets[i].commitment = b.packets[j].commitment
<1> DEFINE path == a.packets[i].path
<1>1. PICK type \in CommitmentTypes, p \in Packets :
        \E v \in Sources(a.height) :
            /\ path = Path(type, p) /\ path \in Paths
            /\ N!Attestable(type, p, a.packets[i].commitment)
            /\ a.packets[i].commitment = Read(Cell(v, path))
    BY SignedEntry
<1>2. PICK v \in 0..latest :
            /\ path = Path(type, p) /\ path \in Paths
            /\ N!Attestable(type, p, a.packets[i].commitment)
            /\ a.packets[i].commitment = Read(Cell(v, path))
    BY <1>1 DEF Sources
<1>3. PICK other \in CommitmentTypes, q \in Packets :
        \E w \in Sources(b.height) :
            /\ path = Path(other, q)
            /\ N!Attestable(other, q, b.packets[j].commitment)
            /\ b.packets[j].commitment = Read(Cell(w, path))
    BY SignedEntry
<1>4. PICK w \in 0..latest :
            /\ path = Path(other, q)
            /\ N!Attestable(other, q, b.packets[j].commitment)
            /\ b.packets[j].commitment = Read(Cell(w, path))
    BY <1>3 DEF Sources
<1> HIDE DEF path
<1>5. other = type /\ path[1] = type
    BY <1>2, <1>4 DEF Path
<1>6. \A k, l \in 0..latest : k <= l => Permanent(k, l) /\ Genuine(k)
    BY DEF HInv, History
<1>7. v <= w \/ w <= v
    OBVIOUS
<1>8. CASE type = "receipt"
    BY <1>2, <1>4, <1>5, <1>8 DEF N!Attestable, N!Zero
<1>9. CASE type = "ack"
    <2>1. /\ Cell(v, path) # Cleared /\ Cell(v, path) # Zero
          /\ Cell(w, path) # Cleared /\ Cell(w, path) # Zero
        BY <1>2, <1>4, <1>5, <1>9 DEF N!Attestable, N!Zero, Read, Zero, Cleared
    <2>2. Cell(v, path) = Cell(w, path)
        BY <1>2, <1>5, <1>6, <1>7, <1>9, <2>1 DEF Permanent
    <2> QED
        BY <1>2, <1>4, <2>2
<1>10. CASE type = "packet"
    <2>1. p.body # Zero /\ q.body # Zero
        BY PacketAssumption DEF Commitments
    <2>2. /\ Cell(v, path) \notin {Zero, Cleared} /\ Cell(w, path) \notin {Zero, Cleared}
          /\ a.packets[i].commitment = Cell(v, path) /\ b.packets[j].commitment = Cell(w, path)
        BY <1>2, <1>4, <1>5, <1>10, <2>1 DEF N!Attestable, Read
    <2>3. Genuine(v) /\ Genuine(w)
        BY <1>6
    <2>4. PICK x \in Outgoing : path = Path("packet", x) /\ Cell(v, path) = x.body
        BY <1>2, <1>5, <1>10, <2>2, <2>3 DEF Genuine
    <2>5. PICK y \in Outgoing : path = Path("packet", y) /\ Cell(w, path) = y.body
        BY <1>2, <1>5, <1>10, <2>2, <2>3 DEF Genuine
    <2>6. x = y
        BY <2>4, <2>5, PacketAssumption
    <2> QED
        BY <2>2, <2>4, <2>5, <2>6
<1> QED
    BY <1>8, <1>9, <1>10 DEF CommitmentTypes

\* Signatures of different calls, made at different times and read from
\* different nodes, can be put together: they attest to one time of a height
\* and to one commitment of a path.
THEOREM SignaturesAgreeAlways == Spec => []SignaturesAgree
<1>1. ASSUME AInv, HInv, NEW a \in signed, NEW b \in signed,
             a.kind = "state", b.kind = "state", a.height = b.height
      PROVE  a = b
    <2>1. a \in Attestations /\ b \in Attestations /\ TrueStatement(a) /\ TrueStatement(b)
        BY <1>1 DEF AInv, IInv, TypeOK, SignedStatementsTrue
    <2>2. /\ a \in [kind : {"state"}, height : Nat, time : Nat]
          /\ b \in [kind : {"state"}, height : Nat, time : Nat]
        BY <1>1, <2>1 DEF Attestations
    <2>3. a.time = blocks[a.height].time /\ b.time = blocks[b.height].time
        BY <1>1, <2>1 DEF TrueStatement
    <2> QED
        BY <1>1, <2>2, <2>3
<1>2. AInv /\ HInv => SignaturesAgree
    BY <1>1, EntriesAgree DEF SignaturesAgree
<1> QED
    BY <1>2, HistoryHolds, PTL

\* A packet that is attested not to have been received at a height whose
\* attested time has reached the packet's timeout is never received.  Solana
\* nodes read the account as they have it: the theorem is for nodes that lag
\* by one block at most, and it is false for those that lag by two.
THEOREM TimeoutsSound ==
    ASSUME Adapter = "solana" => NodeLag <= 1
    PROVE  Spec => []TimeoutsAreSound
<1>1. ASSUME AInv, HInv, NEW a \in signed, NEW b \in signed, NEW p \in Incoming,
             a.kind = "state", b.kind = "packet", a.height = b.height, a.time >= p.timeout,
             \E i \in DOMAIN b.packets : b.packets[i].path = Path("receipt", p),
             NEW j \in 0..latest
      PROVE  blocks[j].store[Path("receipt", p)] = Zero
    <2>1. PICK i \in DOMAIN b.packets : b.packets[i].path = Path("receipt", p)
        BY <1>1
    <2>2. PICK type \in CommitmentTypes, q \in Packets :
            \E v \in Sources(b.height) :
                /\ b.packets[i].path = Path(type, q)
                /\ N!Attestable(type, q, b.packets[i].commitment)
                /\ b.packets[i].commitment = Read(Cell(v, b.packets[i].path))
        BY <1>1, SignedEntry
    <2>3. PICK v \in Sources(b.height) :
                /\ b.packets[i].path = Path(type, q)
                /\ N!Attestable(type, q, b.packets[i].commitment)
                /\ b.packets[i].commitment = Read(Cell(v, b.packets[i].path))
        BY <2>2
    <2> DEFINE path == Path("receipt", p)
    <2>4. path \in Paths /\ path[1] = "receipt" /\ type = "receipt"
        BY <2>1, <2>3, ReceiptPaths DEF Path
    <2>5. Read(Cell(v, path)) = Zero
        BY <2>1, <2>3, <2>4 DEF N!Attestable, N!Zero, Zero
    <2>6. /\ v \in 0..latest /\ latest \in Nat /\ MaySpeakOf(b.height, v)
          /\ b.height \in 0..latest
          /\ a.time = blocks[b.height].time
        <3>1. latest \in Nat /\ TrueStatement(a) /\ TrueStatement(b)
            BY <1>1, ChainAssumption DEF HInv, ChainInv, AInv, IInv, SignedStatementsTrue
        <3> QED
            BY <1>1, <3>1 DEF Sources, TrueStatement
    <2> HIDE DEF path
    <2>7. \A k, l \in 0..latest : k <= l =>
            blocks[k].time <= blocks[l].time /\ Permanent(k, l) /\ InTime(k, l)
        BY <1>1 DEF HInv, History
    <2>8. Cell(v, path) = Zero
        <3>1. Permanent(v, v)
            BY <2>6, <2>7
        <3> QED
            BY <2>4, <2>5, <3>1 DEF Permanent, Read
    <2>9. CASE j <= v
        <3>1. Permanent(j, v)
            BY <2>6, <2>7, <2>9
        <3> QED
            BY <2>4, <2>8, <3>1 DEF Permanent, Cell, path
    <2>10. CASE v < j
        <3>1. InTime(v, j) /\ v + 1 \in 0..latest
            BY <2>6, <2>7, <2>10
        <3>2. b.height <= v + 1
            BY <2>6, AdapterAssumption DEF MaySpeakOf
        <3>3. blocks[b.height].time <= blocks[v + 1].time
            BY <2>6, <2>7, <3>1, <3>2
        <3>4. /\ blocks[b.height].time \in Nat /\ blocks[v + 1].time \in Nat
              /\ p.timeout \in Nat
            BY <1>1, <2>6, <3>1, PacketAssumption DEF HInv, ChainInv, Block
        <3>5. ~(blocks[v + 1].time < p.timeout)
            BY <1>1, <2>6, <3>3, <3>4
        <3> QED
            BY <2>8, <3>1, <3>5 DEF InTime, Cell, path
    <2> QED
        BY <2>6, <2>9, <2>10
<1>2. AInv /\ HInv => TimeoutsAreSound
    BY <1>1 DEF TimeoutsAreSound
<1> QED
    BY <1>2, HistoryHolds, PTL
=============================================================================
