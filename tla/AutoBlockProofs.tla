---------------------------- MODULE AutoBlockProofs ----------------------------
(***************************************************************************)
(* Theorems about AutoBlock, for every number of overlapping calls and     *)
(* every threshold, window and clock bound.                                *)
(***************************************************************************)
EXTENDS AutoBlock, FiniteSetTheorems, TLAPS

\* What a denial's locals say about the table, and the clock it read.
DenialInv ==
  \A d \in Denials :
    /\ dpc[d] # "idle" => dnow[d] \in Time /\ dnow[d] <= now
    /\ dpc[d] \in {"idle", "decide"} => deniedAt[d] = Null
    /\ dpc[d] \in {"lookup", "count", "upsert", "done"} => deniedAt[d] # Null
    /\ deniedAt[d] # Null => deniedAt[d] = dnow[d]
    /\ dpc[d] \in {"idle", "decide", "lookup", "count"} => seen[d] = {}
    /\ \A e \in seen[d] : deniedAt[e] # Null

\* Until a call arms the row again, it holds the end of the last block.
BlockInv ==
  /\ endedAt <= now
  /\ \A u \in Unblocks : upc[u] = "update" => unow[u] \in Time /\ unow[u] <= now
  /\ ~ block.exists => endedAt = Null /\ armedBy = {}
  /\ block.exists /\ armedBy = {} => block.expiresAt # Null /\ block.expiresAt = endedAt

\* A call that began after the last block ended read its clock after it.
FreshInv == \A d \in fresh : dpc[d] # "idle" /\ dnow[d] >= endedAt

Spans(F) == \A d, e \in F : deniedAt[d] - deniedAt[e] <= Window

\* Among fresh denials that have counted, the last to count saw them all.
LastCounterSeesAll ==
  \A F \in SUBSET fresh :
    F # {} /\ Spans(F) /\ (\A d \in F : dpc[d] \in {"upsert", "done"})
    => \E d \in F : F \subseteq seen[d]

CountInv ==
  armedBy = {} =>
    /\ \A d \in fresh :
         /\ dpc[d] = "count" => since[d] = dnow[d] - Window \/ since[d] <= endedAt
         /\ dpc[d] = "done" => Cardinality(seen[d]) < Threshold
    /\ LastCounterSeesAll

AutoBlockInv == TypeOK /\ DenialInv /\ BlockInv /\ FreshInv /\ CountInv

-----------------------------------------------------------------------------
\* Every initial state satisfies the inductive invariant.
LEMMA AutoBlockInit == Init => AutoBlockInv
BY BoundsAssumption
   DEF Init, AutoBlockInv, TypeOK, DenialInv, BlockInv, FreshInv, CountInv,
       LastCounterSeesAll, Spans, Time, Null, NoBlock, Block, LaterOutcomes

\* Every step of the calls and of the clock keeps the types.
LEMMA TypeOKStep == TypeOK /\ DenialInv /\ BlockInv /\ [Next]_vars => TypeOK'
<1> SUFFICES ASSUME TypeOK, DenialInv, BlockInv, [Next]_vars PROVE TypeOK'
  OBVIOUS
<1> USE BoundsAssumption, RulesAssumption
    DEF denialVars, arrivalVars, unblockVars, history, Null
<1>1. ASSUME NEW d \in Denials, DenialStep(d) PROVE TypeOK'
  <2>1. CASE BeginDenial(d)
    BY <2>1 DEF BeginDenial, TypeOK
  <2>2. CASE CommitDenial(d)
    BY <2>2 DEF CommitDenial, TypeOK
  <2>3. CASE LookupBlock(d)
    <3>1. Since(dnow[d]) \in Int
      BY DEF Since, TypeOK, Block, Time
    <3>2. QED
      BY <2>3, <3>1 DEF LookupBlock, TypeOK
  <2>4. CASE CountStep(d)
    <3>1. CountDenials(since[d]) \in SUBSET Denials
      BY DEF CountDenials
    <3>2. QED
      BY <2>4, <3>1 DEF CountStep, TypeOK
  <2>5. CASE UpsertBlock(d)
    <3>1. block' \in Block
      BY <2>5 DEF UpsertBlock, TermEnd, Block, TypeOK, Time
    <3>2. dpc' \in [Denials -> {"idle", "decide", "lookup", "count", "upsert", "done", "failed"}]
      BY <2>5 DEF UpsertBlock, LastAnswers, TypeOK
    <3>3. QED
      BY <2>5, <3>1, <3>2 DEF UpsertBlock, TypeOK
  <2>6. CASE DenialFails(d)
    BY <2>6 DEF DenialFails, TypeOK
  <2>7. QED
    BY <1>1, <2>1, <2>2, <2>3, <2>4, <2>5, <2>6 DEF DenialStep
<1>2. ASSUME NEW a \in Arrivals, ArrivalStep(a) PROVE TypeOK'
  <2>1. CASE BeginEvaluate(a)
    BY <2>1 DEF BeginEvaluate, TypeOK
  <2>2. CASE EvaluateLookup(a)
    BY <2>2 DEF EvaluateLookup, TypeOK
  <2>3. CASE RecordHit(a)
    <3>1. block' \in Block
      BY <2>3 DEF RecordHit, Block, TypeOK
    <3>2. QED
      BY <2>3, <3>1 DEF RecordHit, TypeOK
  <2>4. CASE EvaluateFails(a)
    BY <2>4 DEF EvaluateFails, TypeOK
  <2>5. QED
    BY <1>2, <2>1, <2>2, <2>3, <2>4 DEF ArrivalStep
<1>3. ASSUME NEW u \in Unblocks, UnblockStep(u) PROVE TypeOK'
  <2>1. CASE BeginUnblock(u)
    BY <2>1 DEF BeginUnblock, TypeOK
  <2>2. CASE UnblockIP(u)
    <3>1. block' \in Block /\ unow[u] \in Time
      BY <2>2 DEF UnblockIP, Block, TypeOK, BlockInv, Time
    <3>2. upc' \in [Unblocks -> {"idle", "update", "204", "404", "failed"}]
      BY <2>2 DEF UnblockIP, LastAnswers, TypeOK
    <3>3. QED
      BY <2>2, <3>1, <3>2 DEF UnblockIP, BlockEnds, TypeOK
  <2>3. CASE UnblockFails(u)
    BY <2>3 DEF UnblockFails, TypeOK
  <2>4. QED
    BY <1>3, <2>1, <2>2, <2>3 DEF UnblockStep
<1>4. CASE Tick
  BY <1>4 DEF Tick, BlockEnds, TypeOK, Time
<1>5. CASE UNCHANGED vars
  BY <1>5 DEF vars, TypeOK
<1>6. QED
  BY <1>1, <1>2, <1>3, <1>4, <1>5 DEF Next, Quiescent

\* Every step keeps what the denials' locals say about the table.
LEMMA DenialInvStep == TypeOK /\ DenialInv /\ BlockInv /\ [Next]_vars => DenialInv'
<1> SUFFICES ASSUME TypeOK, DenialInv, BlockInv, [Next]_vars PROVE DenialInv'
  OBVIOUS
<1> USE BoundsAssumption
    DEF denialVars, arrivalVars, unblockVars, history, Null, Time, TypeOK, DenialInv
<1>1. ASSUME NEW d \in Denials, DenialStep(d) PROVE DenialInv'
  <2>1. CASE BeginDenial(d)
    BY <2>1 DEF BeginDenial
  <2>2. CASE CommitDenial(d)
    BY <2>2 DEF CommitDenial
  <2>3. CASE LookupBlock(d)
    BY <2>3 DEF LookupBlock
  <2>4. CASE CountStep(d)
    BY <2>4 DEF CountStep, CountDenials
  <2>5. CASE UpsertBlock(d)
    BY <2>5 DEF UpsertBlock, LastAnswers
  <2>6. CASE DenialFails(d)
    BY <2>6 DEF DenialFails
  <2>7. QED
    BY <1>1, <2>1, <2>2, <2>3, <2>4, <2>5, <2>6 DEF DenialStep
<1>2. ASSUME NEW a \in Arrivals, ArrivalStep(a) PROVE DenialInv'
  BY <1>2 DEF ArrivalStep, BeginEvaluate, EvaluateLookup, RecordHit, EvaluateFails
<1>3. ASSUME NEW u \in Unblocks, UnblockStep(u) PROVE DenialInv'
  BY <1>3 DEF UnblockStep, BeginUnblock, UnblockIP, UnblockFails
<1>4. CASE Tick
  BY <1>4 DEF Tick
<1>5. CASE UNCHANGED vars
  BY <1>5 DEF vars
<1>6. QED
  BY <1>1, <1>2, <1>3, <1>4, <1>5 DEF Next, Quiescent

\* Every step keeps the row and the history of its blocks together.
LEMMA BlockInvStep == TypeOK /\ DenialInv /\ BlockInv /\ [Next]_vars => BlockInv'
<1> SUFFICES ASSUME TypeOK, DenialInv, BlockInv, [Next]_vars PROVE BlockInv'
  OBVIOUS
<1> USE BoundsAssumption
    DEF denialVars, arrivalVars, unblockVars, history, Null, Time, TypeOK, Block, BlockInv
<1>1. ASSUME NEW d \in Denials, DenialStep(d) PROVE BlockInv'
  <2>1. CASE UpsertBlock(d)
    BY <2>1 DEF UpsertBlock
  <2>2. CASE ~ UpsertBlock(d)
    BY <1>1, <2>2
       DEF DenialStep, BeginDenial, CommitDenial, LookupBlock, CountStep, DenialFails
  <2>3. QED
    BY <2>1, <2>2
<1>2. ASSUME NEW a \in Arrivals, ArrivalStep(a) PROVE BlockInv'
  <2>1. block'.exists = block.exists /\ block'.expiresAt = block.expiresAt
    BY <1>2 DEF ArrivalStep, BeginEvaluate, EvaluateLookup, RecordHit, EvaluateFails
  <2>2. UNCHANGED <<now, upc, unow, endedAt, armedBy>>
    BY <1>2 DEF ArrivalStep, BeginEvaluate, EvaluateLookup, RecordHit, EvaluateFails
  <2>3. QED
    BY <2>1, <2>2
<1>3. ASSUME NEW u \in Unblocks, UnblockStep(u) PROVE BlockInv'
  <2>1. CASE BeginUnblock(u)
    BY <2>1 DEF BeginUnblock
  <2>2. CASE UnblockIP(u)
    <3>1. CASE Active(unow[u])
      <4>1. /\ block.exists
            /\ block' = [block EXCEPT !.expiresAt = unow[u]]
            /\ endedAt' = unow[u] /\ armedBy' = {}
            /\ \E end \in LastAnswers("204") : upc' = [upc EXCEPT ![u] = end]
            /\ UNCHANGED <<now, unow>>
        BY <2>2, <3>1 DEF UnblockIP, Active, BlockEnds
      <4>2. block'.exists = block.exists /\ block'.expiresAt = unow[u]
        BY <4>1
      <4>3. unow[u] \in Time /\ unow[u] <= now
        BY <2>2 DEF UnblockIP
      <4>4. QED
        BY <4>1, <4>2, <4>3 DEF LastAnswers
    <3>2. CASE ~ Active(unow[u])
      BY <2>2, <3>2 DEF UnblockIP
    <3>3. QED
      BY <3>1, <3>2
  <2>3. CASE UnblockFails(u)
    BY <2>3 DEF UnblockFails
  <2>4. QED
    BY <1>3, <2>1, <2>2, <2>3 DEF UnblockStep
<1>4. CASE Tick
  <2>1. CASE block.exists /\ block.expiresAt = now + 1
    BY <1>4, <2>1 DEF Tick, BlockEnds
  <2>2. CASE ~ (block.exists /\ block.expiresAt = now + 1)
    BY <1>4, <2>2 DEF Tick
  <2>3. QED
    BY <2>1, <2>2
<1>5. CASE UNCHANGED vars
  BY <1>5 DEF vars
<1>6. QED
  BY <1>1, <1>2, <1>3, <1>4, <1>5 DEF Next, Quiescent

\* Every step keeps the fresh denials' clocks after the end of the last block.
LEMMA FreshInvStep ==
  TypeOK /\ DenialInv /\ BlockInv /\ FreshInv /\ [Next]_vars => FreshInv'
<1> SUFFICES ASSUME TypeOK, DenialInv, BlockInv, FreshInv, [Next]_vars PROVE FreshInv'
  OBVIOUS
<1> USE BoundsAssumption
    DEF denialVars, arrivalVars, unblockVars, history, Null, Time, TypeOK, FreshInv
<1>1. ASSUME NEW d \in Denials, DenialStep(d) PROVE FreshInv'
  <2>1. CASE BeginDenial(d)
    BY <2>1 DEF BeginDenial, BlockInv
  <2>2. CASE ~ BeginDenial(d)
    BY <1>1, <2>2
       DEF DenialStep, CommitDenial, LookupBlock, CountStep, UpsertBlock, LastAnswers,
           DenialFails
  <2>3. QED
    BY <2>1, <2>2
<1>2. ASSUME NEW a \in Arrivals, ArrivalStep(a) PROVE FreshInv'
  BY <1>2 DEF ArrivalStep, BeginEvaluate, EvaluateLookup, RecordHit, EvaluateFails
<1>3. ASSUME NEW u \in Unblocks, UnblockStep(u) PROVE FreshInv'
  BY <1>3 DEF UnblockStep, BeginUnblock, UnblockIP, UnblockFails, BlockEnds
<1>4. CASE Tick
  BY <1>4 DEF Tick, BlockEnds
<1>5. CASE UNCHANGED vars
  BY <1>5 DEF vars
<1>6. QED
  BY <1>1, <1>2, <1>3, <1>4, <1>5 DEF Next, Quiescent

\* A step after which no call has armed the row since its last end, and that
\* leaves the denials' locals alone, keeps the counts.
LEMMA CountInvFrame ==
  ASSUME CountInv, UNCHANGED <<dpc, dnow, since, seen, deniedAt>>,
         \/ UNCHANGED <<fresh, armedBy, endedAt>>
         \/ fresh' = {}
  PROVE  CountInv'
BY DEF CountInv, LastCounterSeesAll, Spans

\* Every step keeps the counts.
LEMMA CountInvStep == AutoBlockInv /\ [Next]_vars => CountInv'
<1> SUFFICES ASSUME AutoBlockInv, [Next]_vars PROVE CountInv'
  OBVIOUS
<1> USE DEF AutoBlockInv, denialVars, arrivalVars, unblockVars, history
<1>1. ASSUME NEW d \in Denials, DenialStep(d) PROVE CountInv'
  <2> SUFFICES ASSUME armedBy' = {}
      PROVE /\ \A f \in fresh' :
                 /\ dpc'[f] = "count" => since'[f] = dnow'[f] - Window \/ since'[f] <= endedAt'
                 /\ dpc'[f] = "done" => Cardinality(seen'[f]) < Threshold
            /\ LastCounterSeesAll'
    BY DEF CountInv
  <2>1. CASE BeginDenial(d)
    <3>1. d \notin fresh /\ armedBy = {}
      BY <2>1 DEF BeginDenial, FreshInv
    <3>2. \A f \in fresh : dpc'[f] = dpc[f] /\ dnow'[f] = dnow[f]
      BY <2>1, <3>1 DEF BeginDenial, TypeOK
    <3>3. dpc'[d] = "decide" /\ fresh' = fresh \cup {d}
      BY <2>1 DEF BeginDenial, TypeOK
    <3>4. UNCHANGED <<since, seen, deniedAt, endedAt>>
      BY <2>1 DEF BeginDenial
    <3>5. LastCounterSeesAll'
      <4> SUFFICES ASSUME NEW F \in SUBSET fresh', F # {}, Spans(F)',
                          \A f \in F : dpc'[f] \in {"upsert", "done"}
                   PROVE  \E f \in F : F \subseteq seen'[f]
        BY DEF LastCounterSeesAll
      <4>1. F \in SUBSET fresh
        BY <3>3
      <4>2. Spans(F) /\ \A f \in F : dpc[f] \in {"upsert", "done"}
        BY <3>2, <3>4, <4>1 DEF Spans
      <4>3. QED
        BY <3>1, <3>4, <4>1, <4>2 DEF CountInv, LastCounterSeesAll
    <3>6. QED
      BY <3>1, <3>2, <3>3, <3>4, <3>5 DEF CountInv
  <2>2. CASE CommitDenial(d)
    <3>1. /\ armedBy = {}
          /\ UNCHANGED <<fresh, since, seen, dnow, endedAt>>
          /\ dpc[d] = "decide" /\ dpc' = [dpc EXCEPT ![d] = "lookup"]
          /\ deniedAt' = [deniedAt EXCEPT ![d] = dnow[d]]
      BY <2>2 DEF CommitDenial
    <3>2. LastCounterSeesAll'
      <4> SUFFICES ASSUME NEW F \in SUBSET fresh', F # {}, Spans(F)',
                          \A f \in F : dpc'[f] \in {"upsert", "done"}
                   PROVE  \E f \in F : F \subseteq seen'[f]
        BY DEF LastCounterSeesAll
      <4>1. d \notin F /\ \A f \in F : f \in Denials /\ dpc'[f] = dpc[f] /\ deniedAt'[f] = deniedAt[f]
        BY <3>1 DEF TypeOK
      <4>2. Spans(F) /\ \A f \in F : dpc[f] \in {"upsert", "done"}
        BY <4>1 DEF Spans
      <4>3. QED
        BY <3>1, <4>2 DEF CountInv, LastCounterSeesAll
    <3>3. QED
      BY <3>1, <3>2 DEF CountInv, TypeOK
  <2>3. CASE LookupBlock(d)
    <3>1. /\ armedBy = {}
          /\ dpc[d] = "lookup"
          /\ UNCHANGED <<fresh, seen, dnow, endedAt, deniedAt>>
      BY <2>3 DEF LookupBlock
    <3>2. d \in fresh => ~ Active(dnow[d])
      BY <3>1 DEF Active, BlockInv, FreshInv, TypeOK, Block, Time, Null
    <3>3. \A f \in fresh \ {d} : dpc'[f] = dpc[f] /\ since'[f] = since[f]
      BY <2>3 DEF LookupBlock, TypeOK
    <3>4. d \in fresh => dpc'[d] = "count" /\ since'[d] = Since(dnow[d])
      BY <2>3, <3>2 DEF LookupBlock, TypeOK
    <3>5. Since(dnow[d]) = dnow[d] - Window \/ Since(dnow[d]) <= endedAt
      BY <3>1 DEF Since, BlockInv, TypeOK, Block, Time, Null
    <3>6. LastCounterSeesAll'
      <4> SUFFICES ASSUME NEW F \in SUBSET fresh', F # {}, Spans(F)',
                          \A f \in F : dpc'[f] \in {"upsert", "done"}
                   PROVE  \E f \in F : F \subseteq seen'[f]
        BY DEF LastCounterSeesAll
      <4>1. F \in SUBSET fresh /\ d \notin F
        BY <3>1, <3>4
      <4>2. Spans(F) /\ \A f \in F : dpc[f] \in {"upsert", "done"}
        BY <3>1, <3>3, <4>1 DEF Spans
      <4>3. QED
        BY <3>1, <4>1, <4>2 DEF CountInv, LastCounterSeesAll
    <3>7. QED
      BY <3>1, <3>3, <3>4, <3>5, <3>6 DEF CountInv
  <2>4. CASE CountStep(d)
    <3>1. /\ armedBy = {}
          /\ dpc[d] = "count"
          /\ UNCHANGED <<fresh, since, dnow, endedAt, deniedAt>>
          /\ \A f \in Denials \ {d} : dpc'[f] = dpc[f] /\ seen'[f] = seen[f]
          /\ seen'[d] = CountDenials(since[d])
          /\ dpc'[d] = IF Cardinality(CountDenials(since[d])) < Threshold
                       THEN "done" ELSE "upsert"
      BY <2>4 DEF CountStep, TypeOK
    <3>2. LastCounterSeesAll'
      <4> SUFFICES ASSUME NEW F \in SUBSET fresh', F # {}, Spans(F)',
                          \A f \in F : dpc'[f] \in {"upsert", "done"}
                   PROVE  \E f \in F : F \subseteq seen'[f]
        BY DEF LastCounterSeesAll
      <4>1. Spans(F) /\ F \in SUBSET fresh /\ F \in SUBSET Denials
        BY <3>1 DEF Spans, TypeOK
      <4>2. CASE d \in F
        <5>1. \A f \in F : deniedAt[f] # Null /\ deniedAt[f] = dnow[f] /\ deniedAt[f] \in Time
          <6> TAKE f \in F
          <6>1. dpc[f] \in {"count", "upsert", "done"}
            BY <3>1, <4>1
          <6>2. QED
            BY <6>1, <4>1 DEF DenialInv, TypeOK
        <5>2. \A f \in F : deniedAt[f] >= endedAt
          BY <5>1, <4>1 DEF FreshInv
        <5>3. \A f \in F : deniedAt[f] >= dnow[d] - Window
          BY <5>1, <4>1, <4>2, RulesAssumption DEF Spans, Time
        <5>4. since[d] = dnow[d] - Window \/ since[d] <= endedAt
          BY <3>1, <4>1, <4>2 DEF CountInv
        <5>5. \A f \in F : deniedAt[f] >= since[d]
          BY <5>1, <5>2, <5>3, <5>4, RulesAssumption DEF TypeOK, Time, Null
        <5>6. F \subseteq seen'[d]
          BY <3>1, <4>1, <5>1, <5>5 DEF CountDenials
        <5>7. QED
          BY <4>2, <5>6
      <4>3. CASE d \notin F
        BY <3>1, <4>1, <4>3 DEF CountInv, LastCounterSeesAll
      <4>4. QED
        BY <4>2, <4>3
    <3>3. \A f \in fresh : f \in Denials
      BY DEF TypeOK
    <3>4. QED
      BY <3>1, <3>2, <3>3 DEF CountInv
  <2>5. CASE UpsertBlock(d)
    BY <2>5 DEF UpsertBlock
  <2>6. CASE DenialFails(d)
    <3>1. /\ armedBy = {}
          /\ dpc' = [dpc EXCEPT ![d] = "failed"]
          /\ UNCHANGED <<fresh, since, seen, dnow, endedAt, deniedAt>>
      BY <2>6 DEF DenialFails
    <3>2. \A f \in fresh : f \in Denials
      BY DEF TypeOK
    <3>3. \A f \in Denials : dpc'[f] # "failed" => dpc'[f] = dpc[f]
      BY <3>1 DEF TypeOK
    <3>4. QED
      BY <3>1, <3>2, <3>3 DEF CountInv, LastCounterSeesAll, Spans
  <2>7. QED
    BY <1>1, <2>1, <2>2, <2>3, <2>4, <2>5, <2>6 DEF DenialStep
<1>2. ASSUME NEW a \in Arrivals, ArrivalStep(a) PROVE CountInv'
  BY <1>2, CountInvFrame
     DEF ArrivalStep, BeginEvaluate, EvaluateLookup, RecordHit, EvaluateFails
<1>3. ASSUME NEW u \in Unblocks, UnblockStep(u) PROVE CountInv'
  BY <1>3, CountInvFrame DEF UnblockStep, BeginUnblock, UnblockIP, UnblockFails, BlockEnds
<1>4. CASE Tick
  BY <1>4, CountInvFrame DEF Tick, BlockEnds
<1>5. CASE UNCHANGED vars
  BY <1>5, CountInvFrame DEF vars
<1>6. QED
  BY <1>1, <1>2, <1>3, <1>4, <1>5 DEF Next, Quiescent

\* The inductive invariant holds in every reachable state.
LEMMA AutoBlockInvariant == Spec => []AutoBlockInv
<1>1. AutoBlockInv /\ [Next]_vars => AutoBlockInv'
  BY TypeOKStep, DenialInvStep, BlockInvStep, FreshInvStep, CountInvStep DEF AutoBlockInv
<1>2. QED
  BY AutoBlockInit, <1>1, PTL DEF Spec

\* The types of AutoBlock hold for every number of calls (TypeOK).
THEOREM AutoBlockTypes == Spec => []TypeOK
BY AutoBlockInvariant, PTL DEF AutoBlockInv

\* For every threshold and window, with blocks that expire or not, and however
\* many RecordDenial calls overlap: Threshold answered denials inside one window
\* block the IP (ThresholdBlocks).
THEOREM ThresholdReached == Spec => []ThresholdBlocks
<1>1. AutoBlockInv => ThresholdBlocks
  <2> SUFFICES ASSUME AutoBlockInv, NEW F \in SUBSET fresh,
                      Cardinality(F) = Threshold,
                      \A d \in F : dpc[d] = "done",
                      Spans(F), armedBy = {}
               PROVE  FALSE
    BY DEF ThresholdBlocks, Spans
  <2>1. F # {}
    BY FS_EmptySet, RulesAssumption
  <2>2. PICK d \in F : F \subseteq seen[d]
    BY <2>1 DEF AutoBlockInv, CountInv, LastCounterSeesAll
  <2>3. d \in fresh /\ d \in Denials /\ seen[d] \subseteq Denials
    BY DEF AutoBlockInv, TypeOK
  <2>4. Cardinality(seen[d]) < Threshold
    BY <2>3 DEF AutoBlockInv, CountInv
  <2>5. IsFiniteSet(seen[d])
    BY <2>3, FS_Subset, ActorsAssumption
  <2>6. Cardinality(F) <= Cardinality(seen[d]) /\ Cardinality(seen[d]) \in Nat
    BY <2>2, <2>5, FS_Subset, FS_CardinalityType
  <2>7. QED
    BY <2>4, <2>6, RulesAssumption
<1>2. QED
  BY <1>1, AutoBlockInvariant, PTL

-----------------------------------------------------------------------------
\* While a call has armed the row since the last end, the row holds the term of
\* one of the calls that did, or no end at all.
TermInv ==
  /\ \A w \in armedBy : dpc[w] \in {"done", "failed"}
  /\ armedBy # {} =>
       /\ block.exists
       /\ BlockDuration = 0 => block.expiresAt = Null
       /\ BlockDuration > 0 => \E w \in armedBy : block.expiresAt = TermEnd(w)
  /\ sheltered # {} => armedBy # {}

\* A call with an older clock has written a term that was over before the end.
OldTerm == BlockDuration > 0 /\ \E w \in armedBy : TermEnd(w) < endedAt

\* What a fresh denial counts from, and counted.
CountsAfterEnd ==
  OldTerm \/ \A d \in fresh :
               /\ dpc[d] = "count" /\ endedAt # Null => since[d] >= endedAt
               /\ \A e \in seen[d] : deniedAt[e] >= endedAt

HistoryInv == AutoBlockInv /\ TermInv /\ CountsAfterEnd /\ BlockHoldsItsTerm

\* A call that arms the row has begun, so its clock reading stays.
LEMMA TermsStay ==
  ASSUME HistoryInv, [Next]_vars, NEW w \in armedBy
  PROVE  TermEnd(w)' = TermEnd(w) /\ dpc'[w] = dpc[w]
<1> USE DEF HistoryInv, TermInv, TermEnd, AutoBlockInv, TypeOK, denialVars, arrivalVars,
            unblockVars, history
<1>1. w \in Denials /\ dpc[w] \in {"done", "failed"}
  OBVIOUS
<1>2. ASSUME NEW d \in Denials, DenialStep(d) PROVE dnow'[w] = dnow[w] /\ dpc'[w] = dpc[w]
  <2>1. d # w
    BY <1>1, <1>2
       DEF DenialStep, BeginDenial, CommitDenial, LookupBlock, CountStep, UpsertBlock,
           DenialFails
  <2>2. QED
    BY <1>1, <1>2, <2>1
       DEF DenialStep, BeginDenial, CommitDenial, LookupBlock, CountStep, UpsertBlock,
           DenialFails
<1>3. ASSUME NEW a \in Arrivals, ArrivalStep(a) PROVE UNCHANGED <<dnow, dpc>>
  BY <1>3 DEF ArrivalStep, BeginEvaluate, EvaluateLookup, RecordHit, EvaluateFails
<1>4. ASSUME NEW u \in Unblocks, UnblockStep(u) PROVE UNCHANGED <<dnow, dpc>>
  BY <1>4 DEF UnblockStep, BeginUnblock, UnblockIP, UnblockFails
<1>5. CASE Tick \/ UNCHANGED vars
  BY <1>5 DEF Tick, vars
<1>6. QED
  BY <1>2, <1>3, <1>4, <1>5 DEF Next, Quiescent

\* A denial that leaves the row alone leaves the calls that armed it alone.
LEMMA TermFrame ==
  ASSUME HistoryInv, [Next]_vars, armedBy' = armedBy,
         block'.exists = block.exists, block'.expiresAt = block.expiresAt,
         sheltered' # {} => sheltered # {} \/ armedBy # {}
  PROVE  TermInv'
<1>1. \A w \in armedBy' : TermEnd(w)' = TermEnd(w) /\ dpc'[w] = dpc[w]
  BY TermsStay
<1>2. QED
  BY <1>1 DEF HistoryInv, TermInv

\* Every step keeps the row at the term of a call that wrote it.
LEMMA TermInvStep ==
  ASSUME HistoryInv, [Next]_vars
  PROVE  TermInv'
<1> USE DEF denialVars, arrivalVars, unblockVars, history
<1>1. ASSUME NEW d \in Denials, DenialStep(d) PROVE TermInv'
  <2>1. CASE UpsertBlock(d)
    <3>1. /\ armedBy' = armedBy \cup {d}
          /\ dpc'[d] \in {"done", "failed"}
          /\ block'.exists
          /\ block'.expiresAt = IF BlockDuration > 0 THEN TermEnd(d) ELSE Null
          /\ TermEnd(d)' = TermEnd(d)
      BY <2>1 DEF UpsertBlock, LastAnswers, TermEnd, HistoryInv, AutoBlockInv, TypeOK
    <3>2. \A w \in armedBy : dpc'[w] = dpc[w]
      BY TermsStay
    <3>3. \A w \in armedBy' : dpc'[w] \in {"done", "failed"}
      BY <3>1, <3>2 DEF HistoryInv, TermInv
    <3>4. /\ BlockDuration = 0 => block'.expiresAt = Null
          /\ BlockDuration > 0 => block'.expiresAt = TermEnd(d)'
      BY <3>1
    <3>5. QED
      BY <3>1, <3>3, <3>4 DEF TermInv
  <2>2. CASE ~ UpsertBlock(d)
    <3>1. UNCHANGED <<armedBy, block, sheltered>>
      BY <1>1, <2>2
         DEF DenialStep, BeginDenial, CommitDenial, LookupBlock, CountStep, DenialFails
    <3>2. QED
      BY <3>1, TermFrame
  <2>3. QED
    BY <2>1, <2>2
<1>2. ASSUME NEW a \in Arrivals, ArrivalStep(a) PROVE TermInv'
  <2>1. block'.exists = block.exists /\ block'.expiresAt = block.expiresAt
    BY <1>2 DEF ArrivalStep, BeginEvaluate, EvaluateLookup, RecordHit, EvaluateFails,
                HistoryInv, AutoBlockInv, TypeOK, Block
  <2>2. armedBy' = armedBy /\ (sheltered' # {} => sheltered # {} \/ armedBy # {})
    BY <1>2 DEF ArrivalStep, BeginEvaluate, EvaluateLookup, RecordHit, EvaluateFails
  <2>3. QED
    BY <2>1, <2>2, TermFrame
<1>3. ASSUME NEW u \in Unblocks, UnblockStep(u) PROVE TermInv'
  <2>1. CASE armedBy' = {} /\ sheltered' = {}
    BY <2>1 DEF TermInv
  <2>2. CASE ~ (armedBy' = {} /\ sheltered' = {})
    <3>1. UNCHANGED <<armedBy, block, sheltered>>
      BY <1>3, <2>2 DEF UnblockStep, BeginUnblock, UnblockIP, UnblockFails, BlockEnds
    <3>2. QED
      BY <3>1, TermFrame
  <2>3. QED
    BY <2>1, <2>2
<1>4. CASE Tick
  <2>1. CASE armedBy' = {} /\ sheltered' = {}
    BY <2>1 DEF TermInv
  <2>2. CASE ~ (armedBy' = {} /\ sheltered' = {})
    <3>1. UNCHANGED <<armedBy, block, sheltered>>
      BY <1>4, <2>2 DEF Tick, BlockEnds
    <3>2. QED
      BY <3>1, TermFrame
  <2>3. QED
    BY <2>1, <2>2
<1>5. CASE UNCHANGED vars
  BY <1>5, TermFrame DEF vars
<1>6. QED
  BY <1>1, <1>2, <1>3, <1>4, <1>5 DEF Next, Quiescent

\* A denial that finds the row inactive counts from the last end or later, unless
\* the row holds an older call's term.
LEMMA SinceAfterEnd ==
  ASSUME HistoryInv, ~ OldTerm, endedAt # Null, NEW d \in Denials, ~ Active(dnow[d])
  PROVE  Since(dnow[d]) >= endedAt
<1> USE DEF HistoryInv, AutoBlockInv, TypeOK, Block, Time, Null
<1>1. block.exists => block.expiresAt # Null
  BY DEF Active
<1>2. block.exists
  BY DEF BlockInv
<1>3. block.expiresAt >= endedAt
  <2>1. CASE armedBy = {}
    BY <1>2, <2>1, BoundsAssumption DEF BlockInv
  <2>2. CASE armedBy # {}
    <3>1. BlockDuration > 0
      BY <1>1, <1>2, <2>2, RulesAssumption DEF TermInv
    <3>2. PICK w \in armedBy : block.expiresAt = TermEnd(w)
      BY <2>2, <3>1 DEF TermInv
    <3>3. ~ (TermEnd(w) < endedAt)
      BY <3>1, <3>2 DEF OldTerm
    <3>4. QED
      BY <3>2, <3>3, BoundsAssumption
  <2>3. QED
    BY <2>1, <2>2
<1>4. QED
  BY <1>1, <1>2, <1>3, RulesAssumption, BoundsAssumption DEF Since

\* An older call's term stays in the history until the next end.
LEMMA OldTermStays ==
  ASSUME HistoryInv, [Next]_vars, OldTerm, armedBy \subseteq armedBy', endedAt' = endedAt
  PROVE  OldTerm'
<1>1. PICK w \in armedBy : TermEnd(w) < endedAt
  BY DEF OldTerm
<1>2. TermEnd(w)' = TermEnd(w)
  BY TermsStay
<1>3. QED
  BY <1>1, <1>2 DEF OldTerm

\* Every step keeps the counts of the fresh denials after the last end.
LEMMA CountsAfterEndStep ==
  ASSUME HistoryInv, [Next]_vars
  PROVE  CountsAfterEnd'
<1> USE DEF denialVars, arrivalVars, unblockVars, history
<1>1. ASSUME NEW d \in Denials, DenialStep(d) PROVE CountsAfterEnd'
  <2>0. armedBy \subseteq armedBy' /\ endedAt' = endedAt
    BY <1>1
       DEF DenialStep, BeginDenial, CommitDenial, LookupBlock, CountStep, UpsertBlock,
           DenialFails
  <2> SUFFICES ASSUME ~ OldTerm
               PROVE  \A f \in fresh' :
                        /\ dpc'[f] = "count" /\ endedAt # Null => since'[f] >= endedAt
                        /\ \A e \in seen'[f] : deniedAt'[e] >= endedAt
    BY <2>0, OldTermStays DEF CountsAfterEnd
  <2> USE DEF HistoryInv, CountsAfterEnd
  <2>1. CASE BeginDenial(d)
    <3>1. seen[d] = {} /\ dpc'[d] = "decide"
      BY <2>1 DEF BeginDenial, AutoBlockInv, DenialInv, TypeOK
    <3>2. \A f \in fresh \ {d} : dpc'[f] = dpc[f]
      BY <2>1 DEF BeginDenial, AutoBlockInv, TypeOK
    <3>3. QED
      BY <2>1, <3>1, <3>2 DEF BeginDenial
  <2>2. CASE CommitDenial(d)
    <3>1. \A f \in fresh : \A e \in seen[f] : e # d /\ deniedAt'[e] = deniedAt[e]
      BY <2>2 DEF CommitDenial, AutoBlockInv, DenialInv, TypeOK
    <3>2. \A f \in fresh : dpc'[f] = "count" => dpc[f] = "count"
      BY <2>2 DEF CommitDenial, AutoBlockInv, TypeOK
    <3>3. QED
      BY <2>2, <3>1, <3>2 DEF CommitDenial
  <2>3. CASE LookupBlock(d)
    <3>1. \A f \in fresh \ {d} : dpc'[f] = dpc[f] /\ since'[f] = since[f]
      BY <2>3 DEF LookupBlock, AutoBlockInv, TypeOK
    <3>2. dpc'[d] = "count" => ~ Active(dnow[d]) /\ since'[d] = Since(dnow[d])
      BY <2>3 DEF LookupBlock, AutoBlockInv, TypeOK
    <3>3. dpc'[d] = "count" /\ endedAt # Null => since'[d] >= endedAt
      BY <3>2, SinceAfterEnd
    <3>4. QED
      BY <2>3, <3>1, <3>3 DEF LookupBlock
  <2>4. CASE CountStep(d)
    <3>1. \A f \in fresh \ {d} : dpc'[f] = dpc[f] /\ seen'[f] = seen[f]
      BY <2>4 DEF CountStep, AutoBlockInv, TypeOK
    <3>2. dpc'[d] # "count" /\ seen'[d] = CountDenials(since[d])
      BY <2>4 DEF CountStep, AutoBlockInv, TypeOK
    <3>3. d \in fresh => \A e \in CountDenials(since[d]) : deniedAt[e] >= endedAt
      BY <2>4, BoundsAssumption
         DEF CountStep, CountDenials, AutoBlockInv, TypeOK, Time, Null
    <3>4. QED
      BY <2>4, <3>1, <3>2, <3>3 DEF CountStep
  <2>5. CASE UpsertBlock(d)
    BY <2>5 DEF UpsertBlock, LastAnswers, AutoBlockInv, TypeOK
  <2>6. CASE DenialFails(d)
    BY <2>6 DEF DenialFails, AutoBlockInv, TypeOK
  <2>7. QED
    BY <1>1, <2>1, <2>2, <2>3, <2>4, <2>5, <2>6 DEF DenialStep
<1>2. ASSUME UNCHANGED <<armedBy, endedAt, fresh, dpc, since, seen, deniedAt>>
      PROVE  CountsAfterEnd'
  BY <1>2, OldTermStays DEF HistoryInv, CountsAfterEnd
<1>3. ASSUME NEW a \in Arrivals, ArrivalStep(a) PROVE CountsAfterEnd'
  BY <1>2, <1>3 DEF ArrivalStep, BeginEvaluate, EvaluateLookup, RecordHit, EvaluateFails
<1>4. CASE fresh' = {}
  BY <1>4 DEF CountsAfterEnd
<1>5. ASSUME NEW u \in Unblocks, UnblockStep(u) PROVE CountsAfterEnd'
  BY <1>2, <1>4, <1>5 DEF UnblockStep, BeginUnblock, UnblockIP, UnblockFails, BlockEnds
<1>6. CASE Tick
  BY <1>2, <1>4, <1>6 DEF Tick, BlockEnds
<1>7. CASE UNCHANGED vars
  BY <1>2, <1>7 DEF vars
<1>8. QED
  BY <1>1, <1>3, <1>5, <1>6, <1>7 DEF Next, Quiescent

\* An arrival that finds the row inactive under a block reads its clock after
\* the term of a call that wrote it.
LEMMA InactiveMeansTermOver ==
  ASSUME HistoryInv, NEW a \in sheltered, ~ Active(anow[a])
  PROVE  BlockDuration > 0 /\ \E w \in armedBy : TermEnd(w) <= anow[a]
<1> USE DEF HistoryInv, AutoBlockInv, TypeOK, Block, Time, Null
<1>1. armedBy # {} /\ block.exists
  BY DEF TermInv
<1>2. block.expiresAt # Null /\ ~ (block.expiresAt > anow[a])
  BY <1>1 DEF Active
<1>3. BlockDuration > 0
  BY <1>1, <1>2, RulesAssumption DEF TermInv
<1>4. PICK w \in armedBy : block.expiresAt = TermEnd(w)
  BY <1>1, <1>3 DEF TermInv
<1>5. TermEnd(w) <= anow[a]
  BY <1>2, <1>4, BoundsAssumption
<1>6. QED
  BY <1>3, <1>5

\* A step that keeps the arrivals and the armed calls, or that ends the block,
\* keeps what the arrivals were told.
LEMMA HoldsFrame ==
  ASSUME HistoryInv, [Next]_vars,
         \/ UNCHANGED <<sheltered, apc, anow, outcome>> /\ armedBy \subseteq armedBy'
         \/ sheltered' = {}
  PROVE  BlockHoldsItsTerm'
<1>1. \A w \in armedBy : TermEnd(w)' = TermEnd(w)
  BY TermsStay
<1>2. QED
  BY <1>1 DEF HistoryInv, BlockHoldsItsTerm

\* Every step keeps what the arrivals under a block were told.
LEMMA BlockHoldsStep ==
  ASSUME HistoryInv, [Next]_vars
  PROVE  BlockHoldsItsTerm'
<1> USE DEF denialVars, arrivalVars, unblockVars, history
<1>1. ASSUME NEW d \in Denials, DenialStep(d) PROVE BlockHoldsItsTerm'
  BY <1>1, HoldsFrame
     DEF DenialStep, BeginDenial, CommitDenial, LookupBlock, CountStep, UpsertBlock,
         DenialFails
<1>2. ASSUME NEW a \in Arrivals, ArrivalStep(a) PROVE BlockHoldsItsTerm'
  <2>1. UNCHANGED <<armedBy, dnow>>
    BY <1>2 DEF ArrivalStep, BeginEvaluate, EvaluateLookup, RecordHit, EvaluateFails
  <2>2. \A b \in Arrivals \ {a} :
          apc'[b] = apc[b] /\ anow'[b] = anow[b] /\ outcome'[b] = outcome[b]
    BY <1>2 DEF ArrivalStep, BeginEvaluate, EvaluateLookup, RecordHit, EvaluateFails,
                HistoryInv, AutoBlockInv, TypeOK
  <2>3. sheltered' \subseteq sheltered \cup {a}
    BY <1>2 DEF ArrivalStep, BeginEvaluate, EvaluateLookup, RecordHit, EvaluateFails
  <2>4. a \in sheltered' /\ apc'[a] = "done" /\ outcome'[a] # "blocked_ip"
        => BlockDuration > 0 /\ \E w \in armedBy : TermEnd(w) <= anow'[a]
    <3>1. CASE EvaluateLookup(a)
      <4>1. CASE Active(anow[a])
        BY <3>1, <4>1 DEF EvaluateLookup, HistoryInv, AutoBlockInv, TypeOK
      <4>2. CASE ~ Active(anow[a])
        BY <3>1, <4>2, InactiveMeansTermOver DEF EvaluateLookup
      <4>3. QED
        BY <4>1, <4>2
    <3>2. CASE ~ EvaluateLookup(a)
      BY <1>2, <3>2 DEF ArrivalStep, BeginEvaluate, RecordHit, EvaluateFails,
                        HistoryInv, AutoBlockInv, TypeOK
    <3>3. QED
      BY <3>1, <3>2
  <2>5. \A b \in sheltered : b \in Arrivals
    BY DEF HistoryInv, AutoBlockInv, TypeOK
  <2>6. QED
    BY <2>1, <2>2, <2>3, <2>4, <2>5 DEF HistoryInv, BlockHoldsItsTerm, TermEnd
<1>3. ASSUME NEW u \in Unblocks, UnblockStep(u) PROVE BlockHoldsItsTerm'
  BY <1>3, HoldsFrame DEF UnblockStep, BeginUnblock, UnblockIP, UnblockFails, BlockEnds
<1>4. CASE Tick
  BY <1>4, HoldsFrame DEF Tick, BlockEnds
<1>5. CASE UNCHANGED vars
  BY <1>5, HoldsFrame DEF vars
<1>6. QED
  BY <1>1, <1>2, <1>3, <1>4, <1>5 DEF Next, Quiescent

\* The history of the blocks keeps its invariants.
LEMMA HistoryInvariant == Spec => []HistoryInv
<1>1. Init => TermInv /\ CountsAfterEnd /\ BlockHoldsItsTerm
  BY DEF Init, TermInv, CountsAfterEnd, BlockHoldsItsTerm
<1>2. AutoBlockInv' /\ HistoryInv /\ [Next]_vars => HistoryInv'
  BY TermInvStep, CountsAfterEndStep, BlockHoldsStep DEF HistoryInv
<1>3. QED
  BY <1>1, <1>2, AutoBlockInvariant, PTL DEF Spec, HistoryInv

\* For every block duration, 0 included, and any number of overlapping calls: an
\* arrival after a reported block gets past it only when the term of a call that
\* wrote it is over, and never past a block without expiry (BlockHoldsItsTerm).
THEOREM BlocksHoldTheirTerm == Spec => []BlockHoldsItsTerm
BY HistoryInvariant, PTL DEF HistoryInv

\* For every block duration, a call that begins after a block ended counts no
\* denial from before that end, unless an older call has written a term that was
\* over by then (FreshDenialsCountAfterUnblock).
THEOREM CountsStartAfresh == Spec => []FreshDenialsCountAfterUnblock
<1>1. HistoryInv => FreshDenialsCountAfterUnblock
  BY DEF HistoryInv, CountsAfterEnd, OldTerm, FreshDenialsCountAfterUnblock
<1>2. QED
  BY <1>1, HistoryInvariant, PTL
===============================================================================
