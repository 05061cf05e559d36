------------------------ MODULE MatchPipeline_proofs ------------------------
(***************************************************************************)
(* Proofs about MatchPipeline, for every set of processes, workers and     *)
(* matches and every value of the bounds.                                  *)
(***************************************************************************)
EXTENDS MatchPipeline, FiniteSetTheorems, TLAPS

-----------------------------------------------------------------------------
(* Types. *)

\* Counting a failure and clearing the count give a function of counts.
LEMMA FailuresType ==
  ASSUME TypeOK, NEW w \in Worker, wpc[w] # "idle", bumpFailure(w) \/ clearFailures(w)
  PROVE  failures' \in [Proc -> [Match -> Nat]]
<1>1. /\ Owner[w] \in Proc /\ job[w] \in Match
      /\ failures \in [Proc -> [Match -> Nat]]
  BY ConstantsAssumption DEF TypeOK, PoolTypes, WorkTypes
<1>2. failures[Owner[w]][job[w]] + 1 \in Nat
  BY <1>1
<1> QED BY <1>1, <1>2 DEF bumpFailure, clearFailures

\* Going on to another call keeps the types of the workers.
LEMMA GotoType ==
  ASSUME TypeOK, NEW w \in Worker, wpc[w] # "idle", NEW c \in Calls \ {"idle"}, Goto(w, c)
  PROVE  WorkTypes'
BY DEF TypeOK, WorkTypes, Goto

\* A write of a non-terminal or of the confirmed outcome keeps the types of the rows.
LEMMA SetOnchainType ==
  ASSUME TypeOK, NEW m, NEW s \in Statuses, SetOnchain(m, s), UNCHANGED <<orders, proof>>
  PROVE  RowTypes'
BY DEF TypeOK, RowTypes, SetOnchain

LEMMA MarkSettledType ==
  ASSUME TypeOK, NEW m, NEW h \in {"null", "hash"}, MarkSettled(m, h), UNCHANGED proof
  PROVE  RowTypes'
BY DEF TypeOK, RowTypes, MarkSettled, Statuses

\* Every step of a worker keeps the types.
LEMMA WorkType == ASSUME TypeOK, NEW w \in Worker, Work(w) PROVE TypeOK'
<1> USE DEF rowVars, netVars, loopVars, poolVars, workVars
<1>0. /\ RowTypes /\ NetTypes /\ LoopTypes /\ PoolTypes /\ WorkTypes /\ stops \in 0..MaxStops
      /\ Owner[w] \in Proc
  BY ConstantsAssumption DEF TypeOK
<1>a. UNCHANGED rowVars => RowTypes'
  BY <1>0 DEF RowTypes
<1>b. UNCHANGED netVars => NetTypes'
  BY <1>0 DEF NetTypes
<1>c. UNCHANGED loopVars => LoopTypes'
  BY <1>0 DEF LoopTypes
<1>d. UNCHANGED poolVars => PoolTypes'
  BY <1>0 DEF PoolTypes
<1>e. UNCHANGED <<inflight, jobs>> /\ failures' \in [Proc -> [Match -> Nat]] => PoolTypes'
  BY <1>0 DEF PoolTypes
<1>f. wpc[w] # "idle" => job[w] \in Match
  BY <1>0 DEF WorkTypes
<1>g. \A c \in Calls \ {"idle"} : wpc[w] # "idle" /\ Goto(w, c) => WorkTypes'
  BY GotoType
<1>1. CASE Receive(w)
  <2>1. jobs[Owner[w]] \in Seq(Match) /\ jobs[Owner[w]] # <<>>
    BY <1>0, <1>1 DEF Receive, PoolTypes
  <2>2. Head(jobs[Owner[w]]) \in Match /\ Tail(jobs[Owner[w]]) \in Seq(Match)
    BY <2>1
  <2>3. PoolTypes'
    BY <1>0, <1>1, <2>2 DEF Receive, PoolTypes
  <2>4. WorkTypes'
    BY <1>0, <1>1, <2>2, ConstantsAssumption DEF Receive, WorkTypes, Calls, NoMatch
  <2> QED BY <1>0, <1>a, <1>b, <1>c, <1>1, <2>3, <2>4 DEF Receive, TypeOK
<1>2. CASE Generate(w)
  BY <1>0, <1>a, <1>b, <1>c, <1>d, <1>g, <1>2 DEF Generate, Step, Calls, TypeOK
<1>3. CASE GenerateFailed(w)
  BY <1>0, <1>a, <1>b, <1>c, <1>e, <1>g, <1>3, FailuresType DEF GenerateFailed, Calls, TypeOK
<1>4. CASE SetProof(w)
  <2>1. RowTypes'
    BY <1>0, <1>4 DEF SetProof, RowTypes
  <2>2. PoolTypes'
    <3>1. CASE Owner[w] \in OnchainOn
      BY <1>d, <1>4, <3>1 DEF SetProof
    <3>2. CASE Owner[w] \notin OnchainOn
      BY <1>e, <1>4, <3>2, FailuresType DEF SetProof, Step
    <3> QED BY <3>1, <3>2
  <2>3. WorkTypes'
    BY <1>g, <1>4 DEF SetProof, Step, Calls
  <2> QED BY <1>0, <1>b, <1>c, <1>4, <2>1, <2>2, <2>3 DEF SetProof, TypeOK
<1>5. CASE SetProofFailed(w)
  <2>1. RowTypes'
    BY <1>0, <1>5 DEF SetProofFailed, RowTypes
  <2> QED BY <1>0, <1>b, <1>c, <1>d, <1>g, <1>5, <2>1 DEF SetProofFailed, Calls, TypeOK
<1>6. CASE Prepare(w)
  BY <1>0, <1>a, <1>b, <1>c, <1>d, <1>g, <1>6 DEF Prepare, Step, Calls, TypeOK
<1>h. ASSUME Fail(w), wpc[w] # "idle" PROVE RowTypes' /\ LoopTypes' /\ PoolTypes' /\ WorkTypes'
  <2>1. RowTypes'
    BY <1>h, SetOnchainType DEF Fail, Statuses
  <2> QED BY <1>c, <1>e, <1>g, <1>h, <2>1, FailuresType DEF Fail, Calls
<1>7. CASE PrepareFailed(w)
  BY <1>0, <1>b, <1>h, <1>7 DEF PrepareFailed, Fail, TypeOK
<1>8. CASE KnownSettled(w)
  BY <1>0, <1>a, <1>b, <1>c, <1>e, <1>g, <1>8, FailuresType DEF KnownSettled, Step, Calls, TypeOK
<1>9. CASE NotYetSettled(w)
  BY <1>0, <1>a, <1>b, <1>c, <1>d, <1>g, <1>9 DEF NotYetSettled, Step, Calls, TypeOK
<1>10. CASE IsSettledFailed(w)
  BY <1>0, <1>a, <1>b, <1>c, <1>e, <1>g, <1>10, FailuresType DEF IsSettledFailed, Calls, TypeOK
<1>11. CASE Submit(w)
  <2>1. RowTypes'
    BY <1>11, SetOnchainType DEF Submit, Statuses
  <2> QED BY <1>0, <1>b, <1>c, <1>d, <1>g, <1>11, <2>1 DEF Submit, Calls, TypeOK
<1>12. CASE Land(w)
  <2>1. NetTypes'
    BY <1>0, <1>f, <1>12 DEF Land, NetTypes
  <2> QED BY <1>0, <1>a, <1>c, <1>d, <1>g, <1>12, <2>1 DEF Land, Calls, TypeOK
<1>13. CASE InvokeOk(w)
  BY <1>0, <1>a, <1>b, <1>c, <1>e, <1>g, <1>13, FailuresType DEF InvokeOk, Step, Calls, TypeOK
<1>14. CASE InvokeFailed(w)
  <2>1. NetTypes'
    BY <1>0, <1>f, <1>14 DEF InvokeFailed, Fail, NetTypes
  <2> QED BY <1>0, <1>h, <1>14, <2>1 DEF InvokeFailed, Fail, TypeOK
<1>15. CASE Record(w)
  <2>1. RowTypes'
    BY <1>15, MarkSettledType DEF Record
  <2> QED BY <1>0, <1>b, <1>c, <1>d, <1>g, <1>15, <2>1 DEF Record, Recording, Calls, TypeOK
<1>16. CASE RecordFailed(w)
  BY <1>0, <1>a, <1>b, <1>c, <1>d, <1>g, <1>16 DEF RecordFailed, Recording, Calls, TypeOK
<1>17. CASE Release(w)
  <2>1. PoolTypes'
    BY <1>0, <1>17 DEF Release, PoolTypes
  <2>2. WorkTypes'
    BY <1>0, <1>17 DEF Release, WorkTypes, Calls
  <2> QED BY <1>0, <1>a, <1>b, <1>c, <1>17, <2>1, <2>2 DEF Release, TypeOK
<1> QED
  BY <1>1, <1>2, <1>3, <1>4, <1>5, <1>6, <1>7, <1>8, <1>9, <1>10, <1>11, <1>12,
     <1>13, <1>14, <1>15, <1>16, <1>17 DEF Work

\* Every step of a poll loop keeps the types.
LEMMA LoopType ==
  ASSUME TypeOK, NEW p \in Proc,
         Scan(p) \/ Dispatch(p) \/ \E m \in Match : FormMatch(p, m)
  PROVE  TypeOK'
<1> USE DEF rowVars, netVars, loopVars, poolVars, workVars
<1>0. /\ RowTypes /\ NetTypes /\ LoopTypes /\ PoolTypes /\ WorkTypes /\ stops \in 0..MaxStops
  BY DEF TypeOK
<1>b. UNCHANGED netVars => NetTypes'
  BY <1>0 DEF NetTypes
<1>d. UNCHANGED poolVars => PoolTypes'
  BY <1>0 DEF PoolTypes
<1>e. UNCHANGED workVars => WorkTypes'
  BY <1>0 DEF WorkTypes
<1>f. UNCHANGED rowVars => RowTypes'
  BY <1>0 DEF RowTypes
<1>1. CASE \E m \in Match : FormMatch(p, m)
  <2>1. RowTypes'
    BY <1>0, <1>1 DEF FormMatch, RowTypes
  <2>2. LoopTypes'
    BY <1>0, <1>1 DEF FormMatch, LoopTypes
  <2> QED BY <1>0, <1>b, <1>d, <1>e, <1>1, <2>1, <2>2 DEF FormMatch, TypeOK
<1>2. CASE Scan(p)
  <2>1. UnsettledMatchIDs \subseteq Match /\ UnprovenMatchIDs \subseteq Match
    BY DEF UnsettledMatchIDs, UnprovenMatchIDs, Oldest, Formed
  <2>2. LoopTypes'
    BY <1>0, <1>2, <2>1 DEF Scan, LoopTypes
  <2> QED BY <1>0, <1>b, <1>d, <1>e, <1>f, <1>2, <2>2 DEF Scan, TypeOK
<1>3. CASE SkipAbandoned(p)
  <2>1. LoopTypes'
    BY <1>0, <1>3 DEF SkipAbandoned, LoopTypes
  <2> QED BY <1>0, <1>b, <1>d, <1>e, <1>f, <1>3, <2>1 DEF SkipAbandoned, TypeOK
<1>4. CASE CheckAttempts(p)
  <2>1. LoopTypes'
    BY <1>0, <1>4, ConstantsAssumption DEF CheckAttempts, LoopTypes, NoMatch
  <2> QED BY <1>0, <1>b, <1>d, <1>e, <1>f, <1>4, <2>1 DEF CheckAttempts, TypeOK
<1>5. CASE SkipDispatched(p)
  <2>1. LoopTypes'
    BY <1>0, <1>5 DEF SkipDispatched, LoopTypes
  <2> QED BY <1>0, <1>b, <1>d, <1>e, <1>f, <1>5, <2>1 DEF SkipDispatched, TypeOK
<1>6. CASE Claim(p)
  <2>1. LoopTypes'
    BY <1>0, <1>6 DEF Claim, LoopTypes
  <2>2. PoolTypes'
    BY <1>0, <1>6 DEF Claim, LoopTypes, PoolTypes
  <2> QED BY <1>0, <1>b, <1>e, <1>f, <1>6, <2>1, <2>2 DEF Claim, TypeOK
<1>7. CASE Send(p)
  <2>1. LoopTypes'
    BY <1>0, <1>7 DEF Send, LoopTypes
  <2>2. cur[p] \in Match /\ jobs[p] \in Seq(Match)
    BY <1>0, <1>7 DEF Send, LoopTypes, PoolTypes
  <2>3. Append(jobs[p], cur[p]) \in Seq(Match)
    BY <2>2
  <2>4. PoolTypes'
    BY <1>0, <1>7, <2>3 DEF Send, PoolTypes
  <2> QED BY <1>0, <1>b, <1>e, <1>f, <1>7, <2>1, <2>4 DEF Send, TypeOK
<1>8. CASE SendCancelled(p)
  <2>1. LoopTypes'
    BY <1>0, <1>8 DEF SendCancelled, LoopTypes
  <2>2. PoolTypes'
    BY <1>0, <1>8 DEF SendCancelled, PoolTypes
  <2> QED BY <1>0, <1>b, <1>e, <1>f, <1>8, <2>1, <2>2 DEF SendCancelled, TypeOK
<1>9. CASE EndTick(p)
  <2>1. LoopTypes'
    BY <1>0, <1>9 DEF EndTick, LoopTypes
  <2> QED BY <1>0, <1>b, <1>d, <1>e, <1>f, <1>9, <2>1 DEF EndTick, TypeOK
<1> QED
  BY <1>1, <1>2, <1>3, <1>4, <1>5, <1>6, <1>7, <1>8, <1>9 DEF Dispatch

\* A process that dies leaves types alone.
LEMMA ForgetType ==
  ASSUME TypeOK, NEW p \in Proc, Forget(p) PROVE LoopTypes' /\ PoolTypes' /\ WorkTypes'
<1>1. LoopTypes'
  BY DEF Forget, TypeOK, LoopTypes
<1>2. PoolTypes'
  <2>1. <<>> \in Seq(Match) /\ [m \in Match |-> 0] \in [Match -> Nat]
    OBVIOUS
  <2> QED BY <2>1 DEF Forget, TypeOK, PoolTypes
<1>3. WorkTypes'
  BY DEF Forget, TypeOK, WorkTypes, Calls
<1> QED BY <1>1, <1>2, <1>3

LEMMA TypeInit == Init => TypeOK
<1> SUFFICES ASSUME Init PROVE TypeOK
  OBVIOUS
<1>1. RowTypes /\ NetTypes
  BY DEF Init, RowTypes, NetTypes, Statuses
<1>2. LoopTypes
  BY DEF Init, LoopTypes
<1>3. PoolTypes
  <2>1. <<>> \in Seq(Match) /\ [m \in Match |-> 0] \in [Match -> Nat]
    OBVIOUS
  <2> QED BY <2>1 DEF Init, PoolTypes
<1>4. WorkTypes
  BY DEF Init, WorkTypes, Calls
<1> QED BY <1>1, <1>2, <1>3, <1>4, ConstantsAssumption DEF Init, TypeOK

LEMMA TypeStep == TypeOK /\ [Next]_vars => TypeOK'
<1> SUFFICES ASSUME TypeOK, [Next]_vars PROVE TypeOK'
  OBVIOUS
<1> USE DEF rowVars, netVars, loopVars, poolVars, workVars
<1>0. /\ RowTypes /\ NetTypes /\ LoopTypes /\ PoolTypes /\ WorkTypes /\ stops \in 0..MaxStops
  BY DEF TypeOK
<1>1. ASSUME NEW p \in Proc, Scan(p) \/ Dispatch(p) \/ \E m \in Match : FormMatch(p, m)
      PROVE  TypeOK'
  BY <1>1, LoopType
<1>2. ASSUME NEW w \in Worker, Work(w) PROVE TypeOK'
  BY <1>2, WorkType
<1>3. ASSUME NEW m \in Match, LandLate(m) PROVE TypeOK'
  <2>1. RowTypes' /\ LoopTypes' /\ PoolTypes' /\ WorkTypes'
    BY <1>0, <1>3 DEF LandLate, RowTypes, LoopTypes, PoolTypes, WorkTypes
  <2> QED BY <1>0, <1>3, <2>1 DEF LandLate, NetTypes, TypeOK
<1>4. ASSUME NEW p \in Proc, Cancel(p) \/ CloseJobs(p) \/ Restart(p) PROVE TypeOK'
  <2>1. RowTypes' /\ NetTypes' /\ PoolTypes' /\ WorkTypes'
    BY <1>0, <1>4
       DEF Cancel, CloseJobs, Restart, RowTypes, NetTypes, PoolTypes, WorkTypes
  <2>2. LoopTypes'
    BY <1>0, <1>4 DEF Cancel, CloseJobs, Restart, LoopTypes
  <2>3. stops' \in 0..MaxStops
    BY <1>0, <1>4, ConstantsAssumption DEF Cancel, CloseJobs, Restart
  <2> QED BY <2>1, <2>2, <2>3 DEF TypeOK
<1>5. ASSUME NEW p \in Proc, Drained(p) PROVE TypeOK'
  <2>1. RowTypes' /\ NetTypes'
    BY <1>0, <1>5 DEF Drained, RowTypes, NetTypes
  <2> QED BY <1>0, <1>5, <2>1, ForgetType DEF Drained, TypeOK
<1>6. ASSUME NEW p \in Proc, Crash(p) PROVE TypeOK'
  <2>1. RowTypes'
    BY <1>0, <1>6 DEF Crash, RowTypes
  <2>2. PICK lost \in SUBSET {job[w] : w \in {v \in Pool(p) : wpc[v] = "invoke"}} :
           adrift' = adrift \cup (lost \ chain)
    BY <1>6 DEF Crash
  <2>3. \A w \in Worker : wpc[w] = "invoke" => job[w] \in Match
    BY <1>0 DEF WorkTypes
  <2>4. lost \subseteq Match
    BY <2>2, <2>3 DEF Pool
  <2>5. NetTypes'
    BY <1>0, <1>6, <2>2, <2>4 DEF Crash, NetTypes
  <2>6. stops' \in 0..MaxStops
    BY <1>0, <1>6, ConstantsAssumption DEF Crash
  <2> QED BY <1>0, <1>6, <2>1, <2>5, <2>6, ForgetType DEF Crash, TypeOK
<1>7. CASE UNCHANGED vars
  BY <1>0, <1>7 DEF vars, TypeOK, RowTypes, NetTypes, LoopTypes, PoolTypes, WorkTypes
<1> QED BY <1>1, <1>2, <1>3, <1>4, <1>5, <1>6, <1>7 DEF Next

\* Type correctness of the pipeline.
THEOREM TypeCorrect == Spec => []TypeOK
<1> QED BY TypeInit, TypeStep, PTL DEF Spec

-----------------------------------------------------------------------------
(* The tables never say more than the ledger.  By themselves the properties  *)
(* are not inductive: that a row may be confirmed rests on what the worker    *)
(* about to write it knows, so the invariant speaks of every worker's hand.   *)

\* Calls a worker makes only once the proof is stored, only once the match is on
\* the ledger.
AfterProof == {"prepare", "isSettled", "submit", "invoke", "landed", "recordTx", "recordKnown"}
AfterLanding == {"landed", "recordTx", "recordKnown"}

\* Every id in a process's memory is a match that exists.
IdsFormed ==
    /\ \A p \in Proc : /\ batch[p] \subseteq Formed
                       /\ Queued(p) \subseteq Formed
                       /\ cur[p] # NoMatch => cur[p] \in Formed
    /\ \A w \in Worker : job[w] # NoMatch => job[w] \in Formed

\* What the ledger and each worker rest on.
Evidence ==
    /\ \A m \in Match : proof[m] => m \in Formed
    /\ \A m \in chain \cup adrift : proof[m]
    /\ \A w \in Worker : wpc[w] \in AfterProof => proof[job[w]]
    /\ \A w \in Worker : wpc[w] \in AfterLanding => job[w] \in chain

RowsTrue == ConfirmedIsOnChain /\ NothingUnprovenLeaves /\ TablesAgree

SafetyInv == TypeOK /\ IdsFormed /\ Evidence /\ RowsTrue

\* A match once formed stays formed.
LEMMA FormedGrows == ASSUME TypeOK, [Next]_vars PROVE Formed \subseteq Formed'
<1> USE DEF rowVars, Formed
<1>1. \A m \in Match : orders[m] # "open" => orders'[m] # "open"
  <2>1. ASSUME NEW p \in Proc, NEW m \in Match, FormMatch(p, m)
        PROVE  \A n \in Match : orders[n] # "open" => orders'[n] # "open"
    BY <2>1 DEF FormMatch, TypeOK, RowTypes
  <2>2. ASSUME NEW p \in Proc, \/ Scan(p) \/ Dispatch(p) \/ Cancel(p) \/ CloseJobs(p)
                               \/ Drained(p) \/ Crash(p) \/ Restart(p)
        PROVE  orders' = orders
    BY <2>2 DEF Scan, Dispatch, SkipAbandoned, CheckAttempts, SkipDispatched, Claim, Send,
                SendCancelled, EndTick, Cancel, CloseJobs, Drained, Crash, Restart
  <2>3. ASSUME NEW w \in Worker, Work(w)
        PROVE  \A n \in Match : orders[n] # "open" => orders'[n] # "open"
    <3>1. CASE Record(w)
      BY <3>1 DEF Record, MarkSettled, TypeOK, RowTypes
    <3>2. CASE ~Record(w)
      BY <2>3, <3>2 DEF Work, Receive, Generate, GenerateFailed, SetProof, SetProofFailed,
           Prepare, PrepareFailed, KnownSettled, NotYetSettled, IsSettledFailed, Submit, Land,
           InvokeOk, InvokeFailed, RecordFailed, Release, Fail
    <3> QED BY <3>1, <3>2
  <2>4. ASSUME NEW m \in Match, LandLate(m) PROVE orders' = orders
    BY <2>4 DEF LandLate
  <2>5. CASE UNCHANGED vars
    BY <2>5 DEF vars
  <2> QED BY <2>1, <2>2, <2>3, <2>4, <2>5 DEF Next
<1> QED BY <1>1

\* The ids in hand are matches that exist.
LEMMA IdsStep == ASSUME TypeOK, IdsFormed, [Next]_vars PROVE IdsFormed'
<1> USE DEF loopVars, poolVars, workVars
<1>0. Formed \subseteq Formed'
  BY FormedGrows
<1>a. UNCHANGED <<batch, cur, jobs, job>> => IdsFormed'
  BY <1>0 DEF IdsFormed, Queued
<1>1. ASSUME NEW p \in Proc, NEW m \in Match, FormMatch(p, m) PROVE IdsFormed'
  BY <1>a, <1>1 DEF FormMatch
<1>2. ASSUME NEW p \in Proc, Scan(p) PROVE IdsFormed'
  <2>1. batch'[p] \subseteq Formed /\ \A q \in Proc \ {p} : batch'[q] = batch[q]
    BY <1>2 DEF Scan, UnsettledMatchIDs, UnprovenMatchIDs, Oldest, TypeOK, LoopTypes
  <2> QED BY <1>0, <1>2, <2>1 DEF Scan, IdsFormed, Queued
<1>3. ASSUME NEW p \in Proc, Dispatch(p) PROVE IdsFormed'
  <2>1. CASE SkipAbandoned(p) \/ CheckAttempts(p) \/ SkipDispatched(p)
    BY <1>0, <2>1 DEF SkipAbandoned, CheckAttempts, SkipDispatched, IsNext, IdsFormed, Queued,
                      TypeOK, LoopTypes
  <2>2. CASE Claim(p) \/ EndTick(p)
    BY <1>a, <2>2 DEF Claim, EndTick
  <2>3. CASE Send(p)
    <3>1. /\ cur[p] \in Formed
          /\ jobs[p] \in Seq(Match) /\ cur[p] \in Match
      BY <2>3 DEF Send, TypeOK, LoopTypes, PoolTypes, IdsFormed
    <3>2. /\ Len(jobs'[p]) = Len(jobs[p]) + 1
          /\ \A i \in 1..Len(jobs[p]) + 1 :
                jobs'[p][i] = IF i = Len(jobs[p]) + 1 THEN cur[p] ELSE jobs[p][i]
      BY <2>3, <3>1 DEF Send, TypeOK, PoolTypes
    <3>3. \A i \in 1..Len(jobs[p]) : jobs[p][i] \in Formed
      BY DEF IdsFormed, Queued
    <3>4. \A q \in Proc : Queued(q)' \subseteq Formed'
      <4>1. \A q \in Proc \ {p} : jobs'[q] = jobs[q]
        BY <2>3 DEF Send, TypeOK, PoolTypes
      <4>2. \A i \in 1..Len(jobs[p]) + 1 : jobs'[p][i] \in Formed
        BY <3>1, <3>2, <3>3
      <4>3. Queued(p)' \subseteq Formed'
        BY <1>0, <3>2, <4>2 DEF Queued
      <4> QED BY <1>0, <4>1, <4>3 DEF IdsFormed, Queued
    <3> QED BY <1>0, <2>3, <3>4 DEF Send, IdsFormed, TypeOK, LoopTypes
  <2>4. CASE SendCancelled(p)
    BY <1>0, <2>4 DEF SendCancelled, IdsFormed, Queued, TypeOK, LoopTypes
  <2> QED BY <1>3, <2>1, <2>2, <2>3, <2>4 DEF Dispatch
<1>4. ASSUME NEW w \in Worker, Work(w) PROVE IdsFormed'
  <2>1. CASE Receive(w)
    <3> DEFINE p == Owner[w]
    <3>1. p \in Proc /\ jobs[p] \in Seq(Match) /\ jobs[p] # <<>>
      BY <2>1, ConstantsAssumption DEF Receive, TypeOK, PoolTypes
    <3>2. /\ Len(jobs'[p]) = Len(jobs[p]) - 1 /\ Len(jobs[p]) \in Nat \ {0}
          /\ \A i \in 1..Len(jobs[p]) - 1 : jobs'[p][i] = jobs[p][i + 1]
          /\ job'[w] = jobs[p][1]
          /\ \A q \in Proc \ {p} : jobs'[q] = jobs[q]
          /\ \A v \in Worker \ {w} : job'[v] = job[v]
      BY <2>1, <3>1 DEF Receive, TypeOK, PoolTypes, WorkTypes
    <3>3. \A i \in 1..Len(jobs[p]) : jobs[p][i] \in Formed
      BY <3>1 DEF IdsFormed, Queued
    <3>4. Queued(p)' \subseteq Formed
      BY <3>2, <3>3 DEF Queued
    <3>5. job'[w] \in Formed
      BY <3>2, <3>3
    <3>6. \A q \in Proc : Queued(q)' \subseteq Formed'
      BY <1>0, <3>2, <3>4 DEF IdsFormed, Queued
    <3> QED BY <1>0, <2>1, <3>2, <3>5, <3>6 DEF Receive, IdsFormed
  <2>2. CASE Release(w)
    BY <1>0, <2>2 DEF Release, IdsFormed, Queued, TypeOK, WorkTypes
  <2>3. CASE ~Receive(w) /\ ~Release(w)
    BY <1>4, <1>a, <2>3 DEF Work, Generate, GenerateFailed, SetProof, SetProofFailed,
         Prepare, PrepareFailed, KnownSettled, NotYetSettled, IsSettledFailed, Submit, Land,
         InvokeOk, InvokeFailed, Record, RecordFailed, Fail, Goto, Step
  <2> QED BY <2>1, <2>2, <2>3
<1>5. ASSUME NEW m \in Match, LandLate(m) PROVE IdsFormed'
  BY <1>a, <1>5 DEF LandLate
<1>6. ASSUME NEW p \in Proc, Cancel(p) \/ CloseJobs(p) \/ Restart(p) PROVE IdsFormed'
  BY <1>a, <1>6 DEF Cancel, CloseJobs, Restart
<1>7. ASSUME NEW p \in Proc, Forget(p) PROVE IdsFormed'
  <2>1. \A q \in Proc : Queued(q)' \subseteq Queued(q)
    BY <1>7 DEF Forget, Queued, TypeOK, PoolTypes
  <2> QED BY <1>0, <1>7, <2>1 DEF Forget, IdsFormed, TypeOK, LoopTypes, WorkTypes
<1>8. CASE UNCHANGED vars
  BY <1>a, <1>8 DEF vars
<1> QED
  BY <1>1, <1>2, <1>3, <1>4, <1>5, <1>6, <1>7, <1>8 DEF Next, Drained, Crash

\* A worker that goes on to call c with the rows and the ledger unchanged.
LEMMA GotoEvidence ==
  ASSUME SafetyInv, NEW w \in Worker, wpc[w] # "idle", NEW c \in Calls, Goto(w, c),
         c \in AfterProof => proof[job[w]],
         c \in AfterLanding => job[w] \in chain,
         UNCHANGED <<rowVars, chain>>, adrift' = adrift
  PROVE  Evidence' /\ RowsTrue'
<1>1. \A v \in Worker : job'[v] = job[v] /\ wpc'[v] = IF v = w THEN c ELSE wpc[v]
  BY DEF Goto, SafetyInv, TypeOK, WorkTypes
<1>2. Evidence'
  BY <1>1 DEF rowVars, SafetyInv, Evidence, Formed
<1>3. RowsTrue'
  BY DEF rowVars, SafetyInv, RowsTrue, ConfirmedIsOnChain, NothingUnprovenLeaves, TablesAgree
<1> QED BY <1>2, <1>3

\* A non-terminal outcome is written over a row whose proof is stored.
LEMMA SetOnchainRows ==
  ASSUME SafetyInv, NEW m \in Match, proof[m], NEW s \in Statuses \ {"confirmed"},
         SetOnchain(m, s), UNCHANGED <<orders, proof, chain>>
  PROVE  RowsTrue'
<1>1. CASE UNCHANGED status
  BY <1>1 DEF SafetyInv, RowsTrue, ConfirmedIsOnChain, NothingUnprovenLeaves, TablesAgree
<1>2. CASE status[m] # "confirmed" /\ status' = [status EXCEPT ![m] = s]
  BY <1>2 DEF SafetyInv, TypeOK, RowTypes, RowsTrue, ConfirmedIsOnChain,
              NothingUnprovenLeaves, TablesAgree
<1> QED BY <1>1, <1>2 DEF SetOnchain

\* The failure path of settleOnchain, before and after a transaction was sent.
LEMMA FailEvidence ==
  ASSUME SafetyInv, NEW w \in Worker, wpc[w] \in AfterProof, Fail(w),
         adrift' = adrift \/ adrift' = adrift \cup {job[w]}
  PROVE  Evidence' /\ RowsTrue'
<1>1. job[w] \in Match /\ proof[job[w]]
  BY DEF SafetyInv, Evidence, TypeOK, WorkTypes, AfterProof
<1>2. RowsTrue'
  BY <1>1, SetOnchainRows DEF Fail, Statuses
<1>3. \A v \in Worker : job'[v] = job[v] /\ wpc'[v] = IF v = w THEN "release" ELSE wpc[v]
  BY DEF Fail, Goto, SafetyInv, TypeOK, WorkTypes
<1>4. Evidence'
  BY <1>1, <1>3 DEF Fail, SafetyInv, Evidence, Formed, AfterProof, AfterLanding
<1> QED BY <1>2, <1>4

LEMMA WorkEvidence == ASSUME SafetyInv, NEW w \in Worker, Work(w) PROVE Evidence' /\ RowsTrue'
<1> USE DEF rowVars, netVars, loopVars, poolVars, workVars
<1>0. TypeOK /\ Evidence /\ RowsTrue /\ IdsFormed
  BY DEF SafetyInv
<1>a. wpc[w] # "idle" => job[w] \in Match /\ job[w] \in Formed
  BY <1>0 DEF TypeOK, WorkTypes, IdsFormed
<1>b. UNCHANGED <<rowVars, netVars>> => RowsTrue'
  BY <1>0 DEF RowsTrue, ConfirmedIsOnChain, NothingUnprovenLeaves, TablesAgree
<1>1. CASE Receive(w)
  BY <1>0, <1>b, <1>1 DEF Receive, Evidence, Formed, TypeOK, WorkTypes, AfterProof, AfterLanding
<1>2. CASE Generate(w)
  BY <1>2, GotoEvidence DEF Generate, Step, Calls, AfterProof, AfterLanding
<1>3. CASE GenerateFailed(w)
  BY <1>3, GotoEvidence DEF GenerateFailed, Calls, AfterProof, AfterLanding
<1>4. ASSUME SetProof(w) \/ SetProofFailed(w) PROVE Evidence' /\ RowsTrue'
  <2>1. /\ wpc[w] = "setProof" /\ job'= job
        /\ \A v \in Worker \ {w} : wpc'[v] = wpc[v]
        /\ wpc'[w] \notin AfterLanding
        /\ UNCHANGED <<orders, status, tx, netVars>>
    BY <1>0, <1>4
       DEF SetProof, SetProofFailed, Step, Goto, TypeOK, WorkTypes, AfterLanding
  <2>2. \/ proof' = [proof EXCEPT ![job[w]] = TRUE]
        \/ proof' = proof /\ wpc'[w] = "release"
    BY <1>0, <1>4 DEF SetProof, SetProofFailed, Goto, TypeOK, WorkTypes
  <2>3. /\ \A m \in Match : proof[m] => proof'[m]
        /\ \A m \in Match : proof'[m] => proof[m] \/ m = job[w]
        /\ wpc'[w] \in AfterProof => proof'[job[w]]
    BY <1>0, <1>a, <2>1, <2>2 DEF TypeOK, RowTypes, AfterProof
  <2>4. \A v \in Worker : wpc[v] \in AfterProof => job[v] \in Match
    BY <1>0 DEF TypeOK, WorkTypes, AfterProof
  <2>5. Evidence'
    <3>1. \A m \in Match : proof'[m] => m \in Formed'
      BY <1>0, <1>a, <2>1, <2>3 DEF Evidence, Formed
    <3>2. \A m \in chain' \cup adrift' : proof'[m]
      BY <1>0, <2>1, <2>3 DEF Evidence, TypeOK, NetTypes
    <3>3. \A v \in Worker : wpc'[v] \in AfterProof => proof'[job'[v]]
      BY <1>0, <2>1, <2>3, <2>4 DEF Evidence
    <3>4. \A v \in Worker : wpc'[v] \in AfterLanding => job'[v] \in chain'
      BY <1>0, <2>1 DEF Evidence
    <3> QED BY <3>1, <3>2, <3>3, <3>4 DEF Evidence
  <2>6. RowsTrue'
    BY <1>0, <2>1, <2>3 DEF RowsTrue, ConfirmedIsOnChain, NothingUnprovenLeaves, TablesAgree
  <2> QED BY <2>5, <2>6
<1>5. CASE Prepare(w) \/ NotYetSettled(w)
  BY <1>0, <1>5, GotoEvidence
     DEF Prepare, NotYetSettled, Step, Calls, Evidence, AfterProof, AfterLanding
<1>6. CASE KnownSettled(w) \/ InvokeOk(w)
  BY <1>0, <1>6, GotoEvidence
     DEF KnownSettled, InvokeOk, Step, Calls, Evidence, AfterProof, AfterLanding
<1>7. CASE IsSettledFailed(w) \/ RecordFailed(w)
  BY <1>0, <1>7, GotoEvidence
     DEF IsSettledFailed, RecordFailed, Recording, Calls, AfterProof, AfterLanding
<1>8. CASE PrepareFailed(w)
  BY <1>8, FailEvidence DEF PrepareFailed, AfterProof
<1>9. CASE InvokeFailed(w)
  BY <1>9, FailEvidence DEF InvokeFailed, AfterProof
<1>10. CASE Submit(w)
  <2>1. job[w] \in Match /\ proof[job[w]]
    BY <1>0, <1>a, <1>10 DEF Submit, Evidence, AfterProof
  <2>2. RowsTrue'
    BY <1>10, <2>1, SetOnchainRows DEF Submit, Statuses
  <2>3. \A v \in Worker : job'[v] = job[v] /\ wpc'[v] = IF v = w THEN "invoke" ELSE wpc[v]
    BY <1>0, <1>10 DEF Submit, Goto, TypeOK, WorkTypes
  <2>4. Evidence'
    BY <1>0, <1>10, <2>1, <2>3 DEF Submit, Evidence, Formed, AfterLanding
  <2> QED BY <2>2, <2>4
<1>11. CASE Land(w)
  <2>1. job[w] \in Match /\ proof[job[w]]
    BY <1>0, <1>a, <1>11 DEF Land, Evidence, AfterProof
  <2>2. \A v \in Worker : job'[v] = job[v] /\ wpc'[v] = IF v = w THEN "landed" ELSE wpc[v]
    BY <1>0, <1>11 DEF Land, Goto, TypeOK, WorkTypes
  <2>3. Evidence'
    BY <1>0, <1>11, <2>1, <2>2 DEF Land, Evidence, Formed
  <2>4. RowsTrue'
    BY <1>0, <1>11, <2>1
       DEF Land, RowsTrue, ConfirmedIsOnChain, NothingUnprovenLeaves, TablesAgree
  <2> QED BY <2>3, <2>4
<1>12. CASE Record(w)
  <2>1. /\ job[w] \in Match /\ job[w] \in chain /\ proof[job[w]]
        /\ UNCHANGED <<proof, netVars>>
    BY <1>0, <1>a, <1>12 DEF Record, Recording, Evidence, AfterProof, AfterLanding
  <2>2. /\ orders' = [orders EXCEPT ![job[w]] = "settled"]
        /\ status' = [status EXCEPT ![job[w]] = "confirmed"]
    BY <1>0, <1>12, <2>1 DEF Record, MarkSettled, TypeOK, RowTypes
  <2>3. RowsTrue'
    BY <1>0, <2>1, <2>2 DEF TypeOK, RowTypes, RowsTrue, ConfirmedIsOnChain,
                            NothingUnprovenLeaves, TablesAgree
  <2>4. \A v \in Worker : job'[v] = job[v] /\ wpc'[v] = IF v = w THEN "release" ELSE wpc[v]
    BY <1>0, <1>12 DEF Record, Goto, TypeOK, WorkTypes
  <2>5. \A m \in Formed : m \in Formed'
    BY <1>0, <2>2 DEF Formed, TypeOK, RowTypes
  <2>6. Evidence'
    BY <1>0, <2>1, <2>4, <2>5 DEF Evidence, AfterProof, AfterLanding
  <2> QED BY <2>3, <2>6
<1>13. CASE Release(w)
  BY <1>0, <1>b, <1>13 DEF Release, Evidence, Formed, TypeOK, WorkTypes, AfterProof, AfterLanding
<1> QED
  BY <1>1, <1>2, <1>3, <1>4, <1>5, <1>6, <1>7, <1>8, <1>9, <1>10, <1>11, <1>12, <1>13
     DEF Work

LEMMA SafetyInit == Init => SafetyInv
<1> SUFFICES ASSUME Init PROVE SafetyInv
  OBVIOUS
<1>1. IdsFormed
  BY DEF Init, IdsFormed, Queued
<1>2. Evidence
  BY DEF Init, Evidence, AfterProof, AfterLanding
<1>3. RowsTrue
  BY DEF Init, RowsTrue, ConfirmedIsOnChain, NothingUnprovenLeaves, TablesAgree
<1> QED BY <1>1, <1>2, <1>3, TypeInit DEF SafetyInv

LEMMA SafetyStep == SafetyInv /\ [Next]_vars => SafetyInv'
<1> SUFFICES ASSUME SafetyInv, [Next]_vars PROVE Evidence' /\ RowsTrue'
  BY TypeStep, IdsStep DEF SafetyInv
<1> USE DEF rowVars, netVars, loopVars, poolVars, workVars
<1>0. TypeOK /\ Evidence /\ RowsTrue
  BY DEF SafetyInv
<1>a. UNCHANGED <<rowVars, netVars, workVars>> => Evidence' /\ RowsTrue'
  BY <1>0 DEF Evidence, Formed, RowsTrue, ConfirmedIsOnChain, NothingUnprovenLeaves, TablesAgree
<1>1. ASSUME NEW p \in Proc, NEW m \in Match, FormMatch(p, m) PROVE Evidence' /\ RowsTrue'
  <2>1. /\ orders[m] = "open" /\ orders' = [orders EXCEPT ![m] = "matched"]
        /\ UNCHANGED <<proof, status, tx, netVars, workVars>>
    BY <1>1 DEF FormMatch
  <2>2. \A n \in Formed : n \in Formed'
    BY <1>0, <2>1 DEF Formed, TypeOK, RowTypes
  <2>3. Evidence'
    BY <1>0, <2>1, <2>2 DEF Evidence
  <2>4. RowsTrue'
    BY <1>0, <2>1 DEF TypeOK, RowTypes, RowsTrue, ConfirmedIsOnChain, NothingUnprovenLeaves,
                      TablesAgree
  <2> QED BY <2>3, <2>4
<1>2. ASSUME NEW p \in Proc, \/ Scan(p) \/ Dispatch(p) \/ Cancel(p) \/ CloseJobs(p)
                             \/ Restart(p)
      PROVE  Evidence' /\ RowsTrue'
  BY <1>a, <1>2 DEF Scan, Dispatch, SkipAbandoned, CheckAttempts, SkipDispatched, Claim, Send,
                    SendCancelled, EndTick, Cancel, CloseJobs, Restart
<1>3. ASSUME NEW w \in Worker, Work(w) PROVE Evidence' /\ RowsTrue'
  BY <1>3, WorkEvidence
<1>4. ASSUME NEW m \in Match, LandLate(m) PROVE Evidence' /\ RowsTrue'
  BY <1>0, <1>4 DEF LandLate, Evidence, Formed, RowsTrue, ConfirmedIsOnChain,
                    NothingUnprovenLeaves, TablesAgree
<1>5. ASSUME NEW p \in Proc, Drained(p) PROVE Evidence' /\ RowsTrue'
  BY <1>0, <1>5 DEF Drained, Forget, Evidence, Formed, AfterProof, AfterLanding, RowsTrue,
                    ConfirmedIsOnChain, NothingUnprovenLeaves, TablesAgree
<1>6. ASSUME NEW p \in Proc, Crash(p) PROVE Evidence' /\ RowsTrue'
  <2>1. \A m \in adrift' : m \in adrift \/ \E w \in Worker : wpc[w] = "invoke" /\ m = job[w]
    BY <1>6 DEF Crash, Pool
  <2>2. /\ \A m \in adrift' : proof[m]
        /\ \A m \in chain : proof[m]
    <3>1. \A w \in Worker : wpc[w] = "invoke" => proof[job[w]]
      BY <1>0 DEF Evidence, AfterProof
    <3>2. \A m \in chain \cup adrift : proof[m]
      BY <1>0 DEF Evidence
    <3> QED BY <2>1, <3>1, <3>2
  <2>3. UNCHANGED <<rowVars, chain>>
    BY <1>6 DEF Crash
  <2>4. \A w \in Worker : wpc'[w] = "idle" \/ (wpc'[w] = wpc[w] /\ job'[w] = job[w])
    BY <1>6 DEF Crash, Forget
  <2>5. Evidence'
    <3>1. \A m \in Match : proof'[m] => m \in Formed'
      BY <1>0, <2>3 DEF Evidence, Formed
    <3>2. \A m \in chain' \cup adrift' : proof'[m]
      BY <2>2, <2>3
    <3>3. /\ \A w \in Worker : wpc'[w] \in AfterProof => proof'[job'[w]]
          /\ \A w \in Worker : wpc'[w] \in AfterLanding => job'[w] \in chain'
      BY <1>0, <2>3, <2>4 DEF Evidence, AfterProof, AfterLanding
    <3> QED BY <3>1, <3>2, <3>3 DEF Evidence
  <2> QED BY <1>0, <2>3, <2>5 DEF RowsTrue, ConfirmedIsOnChain, NothingUnprovenLeaves, TablesAgree
<1>7. CASE UNCHANGED vars
  BY <1>a, <1>7 DEF vars
<1> QED BY <1>1, <1>2, <1>3, <1>4, <1>5, <1>6, <1>7 DEF Next

LEMMA SafetyInvariant == Spec => []SafetyInv
<1> QED BY SafetyInit, SafetyStep, PTL DEF Spec

\* A match recorded as confirmed is settled on the ledger: in every interleaving of
\* any number of processes and workers, with crashes and transactions that land late.
THEOREM ConfirmedIsOnChainAlways == Spec => []ConfirmedIsOnChain
<1>1. SafetyInv => ConfirmedIsOnChain
  BY DEF SafetyInv, RowsTrue
<1> QED BY <1>1, SafetyInvariant, PTL

\* No row leaves 'pending' and no match reaches the ledger before its proof is stored.
THEOREM NothingUnprovenLeavesAlways == Spec => []NothingUnprovenLeaves
<1>1. SafetyInv => NothingUnprovenLeaves
  BY DEF SafetyInv, RowsTrue
<1> QED BY <1>1, SafetyInvariant, PTL

\* The orders table and the matches table never disagree on what is settled.
THEOREM TablesAgreeAlways == Spec => []TablesAgree
<1>1. SafetyInv => TablesAgree
  BY DEF SafetyInv, RowsTrue
<1> QED BY <1>1, SafetyInvariant, PTL

\* A confirmed row is final, whatever slow workers and other processes still write.
THEOREM ConfirmedIsFinalAlways == Spec => ConfirmedIsFinal
<1> DEFINE Kept(m) == status'[m] = status[m] /\ tx'[m] = tx[m] /\ orders'[m] = orders[m]
<1>1. ASSUME SafetyInv, [Next]_vars, NEW m \in Match, status[m] = "confirmed" PROVE Kept(m)
  <2> USE DEF rowVars
  <2>0. TypeOK /\ RowTypes /\ orders[m] = "settled"
    BY <1>1 DEF SafetyInv, RowsTrue, TablesAgree, TypeOK
  <2>1. ASSUME NEW p \in Proc, NEW n \in Match, FormMatch(p, n) PROVE Kept(m)
    BY <2>0, <2>1 DEF FormMatch, RowTypes
  <2>2. ASSUME NEW p \in Proc, \/ Scan(p) \/ Dispatch(p) \/ Cancel(p) \/ CloseJobs(p)
                               \/ Drained(p) \/ Crash(p) \/ Restart(p)
        PROVE  Kept(m)
    BY <2>2 DEF Scan, Dispatch, SkipAbandoned, CheckAttempts, SkipDispatched, Claim, Send,
                SendCancelled, EndTick, Cancel, CloseJobs, Drained, Crash, Restart
  <2>3. ASSUME NEW w \in Worker, Work(w) PROVE Kept(m)
    <3>1. CASE PrepareFailed(w) \/ InvokeFailed(w)
      <4>1. SetOnchain(job[w], "failed") /\ UNCHANGED orders
        BY <3>1 DEF PrepareFailed, InvokeFailed, Fail
      <4> QED BY <1>1, <2>0, <4>1 DEF SetOnchain, RowTypes
    <3>2. CASE Submit(w)
      BY <1>1, <2>0, <3>2 DEF Submit, SetOnchain, RowTypes
    <3>3. CASE Record(w)
      BY <1>1, <2>0, <3>3 DEF Record, MarkSettled, RowTypes
    <3>4. CASE ~(PrepareFailed(w) \/ InvokeFailed(w) \/ Submit(w) \/ Record(w))
      BY <2>3, <3>4 DEF Work, Receive, Generate, GenerateFailed, SetProof, SetProofFailed,
           Prepare, KnownSettled, NotYetSettled, IsSettledFailed, Land, InvokeOk,
           RecordFailed, Release
    <3> QED BY <3>1, <3>2, <3>3, <3>4
  <2>4. ASSUME NEW n \in Match, LandLate(n) PROVE Kept(m)
    BY <2>4 DEF LandLate
  <2>5. CASE UNCHANGED vars
    BY <2>5 DEF vars
  <2> QED BY <1>1, <2>1, <2>2, <2>3, <2>4, <2>5 DEF Next
<1>2. SafetyInv /\ [Next]_vars =>
        [\A m \in Match : status[m] = "confirmed" => Kept(m)]_vars
  BY <1>1
<1> QED BY <1>2, SafetyInvariant, PTL DEF Spec, ConfirmedIsFinal

-----------------------------------------------------------------------------
(* The pipeline implements SettlementLifecycle. *)

\* Nothing a stage is read off changes.
LEMMA StagesKept ==
  ASSUME UNCHANGED <<orders, chain, proof>>
  PROVE  [m \in Match |-> StageOf(m)]' = [m \in Match |-> StageOf(m)]
BY DEF StageOf

\* One match goes one stage further, or stays.
LEMMA StageAdvanced ==
  ASSUME NEW m \in Match,
         \A n \in Match \ {m} : StageOf(n)' = StageOf(n),
         \/ StageOf(m) = StageOf(m)'
         \/ StageOf(m) = "resting" /\ StageOf(m)' = "matched"
         \/ StageOf(m) = "matched" /\ StageOf(m)' = "proven"
         \/ StageOf(m) = "proven" /\ StageOf(m)' = "onchain"
         \/ StageOf(m) = "onchain" /\ StageOf(m)' = "settled"
  PROVE  [Lifecycle!Next]_([n \in Match |-> StageOf(n)])
<1> DEFINE st == [n \in Match |-> StageOf(n)]
<1>1. st' = [st EXCEPT ![m] = StageOf(m)']
  OBVIOUS
<1>2. st[m] = StageOf(m)
  OBVIOUS
<1>3. CASE StageOf(m) = StageOf(m)'
  <2>1. st' = st
    BY <1>3
  <2> QED BY <2>1
<1>4. CASE StageOf(m) = "resting" /\ StageOf(m)' = "matched"
  BY <1>1, <1>2, <1>4 DEF Lifecycle!Next, Lifecycle!Pair, Lifecycle!Advance
<1>5. CASE StageOf(m) = "matched" /\ StageOf(m)' = "proven"
  BY <1>1, <1>2, <1>5 DEF Lifecycle!Next, Lifecycle!Prove, Lifecycle!Advance
<1>6. CASE StageOf(m) = "proven" /\ StageOf(m)' = "onchain"
  BY <1>1, <1>2, <1>6 DEF Lifecycle!Next, Lifecycle!Settle, Lifecycle!Advance
<1>7. CASE StageOf(m) = "onchain" /\ StageOf(m)' = "settled"
  BY <1>1, <1>2, <1>7 DEF Lifecycle!Next, Lifecycle!Record, Lifecycle!Advance
<1> QED BY <1>3, <1>4, <1>5, <1>6, <1>7

\* A step of the pipeline is a step of the lifecycle of one match, or none at all.
LEMMA LifecycleStep ==
  ASSUME SafetyInv, [Next]_vars PROVE [Lifecycle!Next]_([m \in Match |-> StageOf(m)])
<1> DEFINE Goal == [Lifecycle!Next]_([m \in Match |-> StageOf(m)])
<1> USE DEF rowVars, netVars, workVars
<1>0. /\ TypeOK /\ RowTypes /\ NetTypes /\ WorkTypes
      /\ \A m \in Match : proof[m] => orders[m] # "open"
      /\ \A m \in Match : m \in chain \cup adrift => proof[m]
      /\ \A m \in Match : orders[m] = "settled" => m \in chain
  BY DEF SafetyInv, Evidence, Formed, RowsTrue, TablesAgree, ConfirmedIsOnChain, TypeOK
<1>a. ASSUME UNCHANGED <<orders, chain, proof>> PROVE Goal
  BY <1>a, StagesKept
<1>1. ASSUME NEW p \in Proc, NEW m \in Match, FormMatch(p, m) PROVE Goal
  <2>1. \A n \in Match \ {m} : StageOf(n)' = StageOf(n)
    BY <1>0, <1>1 DEF FormMatch, StageOf, RowTypes
  <2>2. StageOf(m) = "resting" /\ StageOf(m)' = "matched"
    BY <1>0, <1>1 DEF FormMatch, StageOf, RowTypes
  <2> QED BY <2>1, <2>2, StageAdvanced
<1>2. ASSUME NEW p \in Proc, \/ Scan(p) \/ Dispatch(p) \/ Cancel(p) \/ CloseJobs(p)
                             \/ Drained(p) \/ Crash(p) \/ Restart(p)
      PROVE  Goal
  BY <1>a, <1>2 DEF Scan, Dispatch, SkipAbandoned, CheckAttempts, SkipDispatched, Claim, Send,
              SendCancelled, EndTick, Cancel, CloseJobs, Drained, Crash, Restart
<1>3. ASSUME NEW w \in Worker, Work(w) PROVE Goal
  <2>0. wpc[w] # "idle" => job[w] \in Match /\ orders[job[w]] # "open"
    BY <1>0 DEF SafetyInv, IdsFormed, Formed, WorkTypes
  <2>1. CASE SetProof(w) \/ SetProofFailed(w)
    <3>0. PICK m \in Match : m = job[w]
      BY <2>0, <2>1 DEF SetProof, SetProofFailed, Step
    <3>1. /\ orders[m] # "open"
          /\ UNCHANGED <<orders, chain>>
          /\ proof' = proof \/ proof' = [proof EXCEPT ![m] = TRUE]
      BY <2>0, <2>1, <3>0 DEF SetProof, SetProofFailed, Step
    <3>2. \A n \in Match \ {m} : StageOf(n)' = StageOf(n)
      BY <1>0, <3>1 DEF StageOf, RowTypes
    <3>3. \/ StageOf(m)' = StageOf(m)
          \/ StageOf(m) = "matched" /\ StageOf(m)' = "proven"
      BY <1>0, <3>1 DEF StageOf, RowTypes
    <3> QED BY <3>2, <3>3, StageAdvanced
  <2>2. CASE Land(w)
    <3>0. PICK m \in Match : m = job[w]
      BY <2>0, <2>2 DEF Land
    <3>1. /\ m \notin chain /\ proof[m]
          /\ UNCHANGED <<orders, proof>> /\ chain' = chain \cup {m}
      BY <2>0, <2>2, <3>0 DEF Land, SafetyInv, Evidence, AfterProof
    <3>2. \A n \in Match \ {m} : StageOf(n)' = StageOf(n)
      BY <1>0, <3>1 DEF StageOf
    <3>3. StageOf(m) = "proven" /\ StageOf(m)' = "onchain"
      BY <1>0, <3>1 DEF StageOf
    <3> QED BY <3>2, <3>3, StageAdvanced
  <2>3. CASE Record(w)
    <3>0. PICK m \in Match : m = job[w]
      BY <2>0, <2>3 DEF Record, Recording
    <3>1. /\ m \in chain
          /\ UNCHANGED <<chain, proof>> /\ orders' = [orders EXCEPT ![m] = "settled"]
      BY <2>0, <2>3, <3>0 DEF Record, Recording, MarkSettled, SafetyInv, Evidence, AfterLanding
    <3>2. \A n \in Match \ {m} : StageOf(n)' = StageOf(n)
      BY <1>0, <3>1 DEF StageOf, RowTypes
    <3>3. \/ StageOf(m)' = StageOf(m)
          \/ StageOf(m) = "onchain" /\ StageOf(m)' = "settled"
      BY <1>0, <3>1 DEF StageOf, RowTypes
    <3> QED BY <3>2, <3>3, StageAdvanced
  <2>4. CASE ~(SetProof(w) \/ SetProofFailed(w) \/ Land(w) \/ Record(w))
    BY <1>a, <1>3, <2>4 DEF Work, Receive, Generate, GenerateFailed, Prepare, PrepareFailed,
         KnownSettled, NotYetSettled, IsSettledFailed, Submit, InvokeOk, InvokeFailed,
         RecordFailed, Release, Fail
  <2> QED BY <2>1, <2>2, <2>3, <2>4
<1>4. ASSUME NEW m \in Match, LandLate(m) PROVE Goal
  <2>1. /\ proof[m] /\ orders[m] # "open"
        /\ UNCHANGED <<orders, proof>> /\ chain' = chain \cup {m}
    BY <1>0, <1>4 DEF LandLate
  <2>2. \A n \in Match \ {m} : StageOf(n)' = StageOf(n)
    BY <1>0, <2>1 DEF StageOf
  <2>3. \/ StageOf(m)' = StageOf(m)
        \/ StageOf(m) = "proven" /\ StageOf(m)' = "onchain"
    BY <1>0, <2>1 DEF StageOf
  <2> QED BY <2>2, <2>3, StageAdvanced
<1>5. CASE UNCHANGED vars
  BY <1>a, <1>5 DEF vars
<1> QED BY <1>1, <1>2, <1>3, <1>4, <1>5 DEF Next

\* The pipeline implements the lifecycle: a match is matched, proven, settled and
\* recorded in this order, and nothing is skipped, repeated or undone.
THEOREM PipelineImplementsLifecycle == Spec => ImplementsLifecycle
<1>1. Init => Lifecycle!Init
  BY DEF Init, Lifecycle!Init, StageOf
<1>2. SafetyInv /\ [Next]_vars => [Lifecycle!Next]_([m \in Match |-> StageOf(m)])
  BY LifecycleStep
<1> QED
  BY <1>1, <1>2, SafetyInvariant, PTL DEF Spec, ImplementsLifecycle, Lifecycle!Spec

-----------------------------------------------------------------------------
(* The pipeline implements MatchLedger, as every lifecycle does. *)

\* What the ledger holds and what is recorded is read off the stages.
StagesTell ==
    \A m \in Match : /\ m \in Formed <=> StageOf(m) # "resting"
                     /\ m \in chain <=> StageOf(m) \in {"onchain", "settled"}
                     /\ status[m] = "confirmed" <=> StageOf(m) = "settled"

LEMMA StagesTellLedger == SafetyInv => StagesTell
<1> SUFFICES ASSUME SafetyInv PROVE StagesTell
  OBVIOUS
<1>1. /\ orders \in [Match -> {"open", "matched", "settled"}]
      /\ \A m \in Match : proof[m] => m \in Formed
      /\ \A m \in chain : proof[m]
      /\ \A m \in Match : orders[m] = "settled" <=> status[m] = "confirmed"
      /\ \A m \in Match : status[m] = "confirmed" => m \in chain
      /\ chain \subseteq Match
  BY DEF SafetyInv, TypeOK, RowTypes, NetTypes, Evidence, RowsTrue, TablesAgree,
         ConfirmedIsOnChain
<1> QED BY <1>1 DEF StagesTell, StageOf, Formed

\* A step of the lifecycle changes the stage of one match.
LEMMA StageSteps ==
  ASSUME [Lifecycle!Next]_([m \in Match |-> StageOf(m)])
  PROVE  \/ \A n \in Match : StageOf(n)' = StageOf(n)
         \/ \E m \in Match :
              /\ \A n \in Match : n # m => StageOf(n)' = StageOf(n)
              /\ \/ StageOf(m) = "resting" /\ StageOf(m)' = "matched"
                 \/ StageOf(m) = "matched" /\ StageOf(m)' = "proven"
                 \/ StageOf(m) = "proven" /\ StageOf(m)' = "onchain"
                 \/ StageOf(m) = "onchain" /\ StageOf(m)' = "settled"
<1> DEFINE st == [n \in Match |-> StageOf(n)]
<1>1. \A n \in Match : st[n] = StageOf(n) /\ st'[n] = StageOf(n)'
  OBVIOUS
<1>2. CASE st' = st
  BY <1>1, <1>2
<1>3. ASSUME NEW m \in Match, NEW a, NEW b, st[m] = a, st' = [st EXCEPT ![m] = b]
      PROVE  /\ StageOf(m) = a /\ StageOf(m)' = b
             /\ \A n \in Match : n # m => StageOf(n)' = StageOf(n)
  <2>1. st'[m] = b /\ \A n \in Match : n # m => st'[n] = st[n]
    BY <1>3
  <2> QED BY <1>1, <1>3, <2>1
<1>4. CASE Lifecycle!Next
  <2>1. PICK m \in Match : \/ st[m] = "resting" /\ st' = [st EXCEPT ![m] = "matched"]
                           \/ st[m] = "matched" /\ st' = [st EXCEPT ![m] = "proven"]
                           \/ st[m] = "proven" /\ st' = [st EXCEPT ![m] = "onchain"]
                           \/ st[m] = "onchain" /\ st' = [st EXCEPT ![m] = "settled"]
    BY <1>4 DEF Lifecycle!Next, Lifecycle!Pair, Lifecycle!Prove, Lifecycle!Settle,
                Lifecycle!Record, Lifecycle!Advance
  <2> HIDE DEF st
  <2> QED BY <1>3, <2>1
<1> QED BY <1>2, <1>4

LEMMA LedgerStep ==
  ASSUME SafetyInv, SafetyInv', [Next]_vars PROVE [Ledger!Next]_(Ledger!vars)
<1> DEFINE Confirmed == {m \in Match : status[m] = "confirmed"}
<1>1. \A m \in Match :
        /\ m \in Formed <=> StageOf(m) # "resting"
        /\ m \in chain <=> StageOf(m) \in {"onchain", "settled"}
        /\ m \in Confirmed <=> StageOf(m) = "settled"
  BY StagesTellLedger DEF StagesTell
<1>2. \A m \in Match :
        /\ m \in Formed' <=> StageOf(m)' # "resting"
        /\ m \in chain' <=> StageOf(m)' \in {"onchain", "settled"}
        /\ m \in Confirmed' <=> StageOf(m)' = "settled"
  <2>1. StagesTell'
    BY StagesTellLedger, PTL
  <2> QED BY <2>1 DEF StagesTell
<1>3. /\ Formed \subseteq Match /\ chain \subseteq Match /\ Confirmed \subseteq Match
      /\ Formed' \subseteq Match /\ chain' \subseteq Match /\ Confirmed' \subseteq Match
  BY DEF Formed, SafetyInv, TypeOK, NetTypes
<1> SUFFICES Ledger!Next \/ (Formed' = Formed /\ chain' = chain /\ Confirmed' = Confirmed)
  BY DEF Ledger!vars
<1>4. \/ \A n \in Match : StageOf(n)' = StageOf(n)
      \/ \E m \in Match :
           /\ \A n \in Match : n # m => StageOf(n)' = StageOf(n)
           /\ \/ StageOf(m) = "resting" /\ StageOf(m)' = "matched"
              \/ StageOf(m) = "matched" /\ StageOf(m)' = "proven"
              \/ StageOf(m) = "proven" /\ StageOf(m)' = "onchain"
              \/ StageOf(m) = "onchain" /\ StageOf(m)' = "settled"
  BY LifecycleStep, StageSteps
<1>5. CASE \A n \in Match : StageOf(n)' = StageOf(n)
  <2> HIDE DEF Confirmed
  <2> QED BY <1>1, <1>2, <1>3, <1>5
<1>6. ASSUME NEW m \in Match,
             \A n \in Match : n # m => StageOf(n)' = StageOf(n),
             \/ StageOf(m) = "resting" /\ StageOf(m)' = "matched"
             \/ StageOf(m) = "matched" /\ StageOf(m)' = "proven"
             \/ StageOf(m) = "proven" /\ StageOf(m)' = "onchain"
             \/ StageOf(m) = "onchain" /\ StageOf(m)' = "settled"
      PROVE  Ledger!Next \/ (Formed' = Formed /\ chain' = chain /\ Confirmed' = Confirmed)
  <2>1. \A n \in Match : n # m => /\ n \in Formed' <=> n \in Formed
                                  /\ n \in chain' <=> n \in chain
                                  /\ n \in Confirmed' <=> n \in Confirmed
    <3> HIDE DEF Confirmed
    <3> QED BY <1>1, <1>2, <1>6
  <2>2. CASE StageOf(m) = "resting" /\ StageOf(m)' = "matched"
    <3>1. /\ m \notin Formed /\ Formed' = Formed \cup {m}
          /\ chain' = chain /\ Confirmed' = Confirmed
      <4> HIDE DEF Confirmed
      <4> QED BY <1>1, <1>2, <1>3, <2>1, <2>2
    <3> QED BY <3>1 DEF Ledger!Next, Ledger!Form
  <2>3. CASE StageOf(m) = "matched" /\ StageOf(m)' = "proven"
    <3> HIDE DEF Confirmed
    <3> QED BY <1>1, <1>2, <1>3, <2>1, <2>3
  <2>4. CASE StageOf(m) = "proven" /\ StageOf(m)' = "onchain"
    <3>1. /\ m \in Formed /\ m \notin chain
          /\ Formed' = Formed /\ chain' = chain \cup {m} /\ Confirmed' = Confirmed
      <4> HIDE DEF Confirmed
      <4> QED BY <1>1, <1>2, <1>3, <2>1, <2>4
    <3> QED BY <3>1 DEF Ledger!Next, Ledger!Land
  <2>5. CASE StageOf(m) = "onchain" /\ StageOf(m)' = "settled"
    <3>1. /\ m \in Formed /\ m \in chain /\ m \notin Confirmed
          /\ Formed' = Formed /\ chain' = chain /\ Confirmed' = Confirmed \cup {m}
      <4> HIDE DEF Confirmed
      <4> QED BY <1>1, <1>2, <1>3, <2>1, <2>5
    <3> QED BY <3>1 DEF Ledger!Next, Ledger!Record
  <2> QED BY <1>6, <2>2, <2>3, <2>4, <2>5
<1> QED BY <1>4, <1>5, <1>6

\* The ledger the workers settle on settles matches one at a time, and confirmed rows
\* are settled ones.  The contract implements the same module over the terms of the
\* matches (see VerifierImplementsLedger).
THEOREM PipelineImplementsLedger == Spec => Ledger!Spec
<1>1. Init => Ledger!Init
  BY DEF Init, Ledger!Init, Formed
<1>2. SafetyInv /\ SafetyInv' /\ [Next]_vars => [Ledger!Next]_(Ledger!vars)
  BY LedgerStep
<1> QED BY <1>1, <1>2, SafetyInvariant, PTL DEF Spec, Ledger!Spec

-----------------------------------------------------------------------------
(* The pipeline implements MatchRows. *)

LEMMA TableKept ==
  ASSUME UNCHANGED <<orders, proof, status>> PROVE UNCHANGED Table!vars
BY DEF Table!vars, Formed, OutcomeOf

\* A write of a non-terminal outcome to a row that is not confirmed.
LEMMA TableOutcome ==
  ASSUME TypeOK, NEW m \in Match, proof[m], NEW s \in {"submitted", "failed"}, SetOnchain(m, s),
         UNCHANGED <<orders, proof>>
  PROVE  [Table!Next]_(Table!vars)
<1>1. CASE UNCHANGED status
  BY <1>1, TableKept
<1>2. CASE status[m] # "confirmed" /\ status' = [status EXCEPT ![m] = s]
  <2> DEFINE seen == IF s = "submitted" THEN "pending" ELSE s
  <2>1. status \in [Match -> Statuses]
    BY DEF TypeOK, RowTypes
  <2>2. OutcomeOf(m) # "confirmed"
    BY <1>2 DEF OutcomeOf
  <2>3. [n \in Match |-> OutcomeOf(n)]' = [[n \in Match |-> OutcomeOf(n)] EXCEPT ![m] = seen]
    <3>1. \A n \in Match : OutcomeOf(n)' = IF n = m THEN seen ELSE OutcomeOf(n)
      BY <1>2, <2>1 DEF OutcomeOf
    <3> QED BY <3>1
  <2>4. seen \in {"pending", "failed"}
    OBVIOUS
  <2>5. Table!SetOnchain(m, seen)
    BY <2>2, <2>3 DEF Table!SetOnchain, Table!Outcome, Formed
  <2> QED BY <2>4, <2>5 DEF Table!Next
<1> QED BY <1>1, <1>2 DEF SetOnchain

LEMMA TableRecorded ==
  ASSUME SafetyInv, NEW m \in Match, m \in Formed, proof[m], UNCHANGED proof,
         NEW hash, MarkSettled(m, hash)
  PROVE  [Table!Next]_(Table!vars)
<1>1. /\ status \in [Match -> Statuses] /\ orders \in [Match -> {"open", "matched", "settled"}]
      /\ orders[m] # "open"
      /\ status[m] = "confirmed" => orders[m] = "settled"
      /\ orders' = [orders EXCEPT ![m] = "settled"]
  BY DEF SafetyInv, TypeOK, RowTypes, RowsTrue, TablesAgree, Formed, MarkSettled
<1>2. Formed' = Formed
  BY <1>1 DEF Formed
<1>3. CASE status[m] = "confirmed"
  <2>1. orders' = orders /\ status' = status
    BY <1>1, <1>3 DEF MarkSettled
  <2> QED BY <2>1, TableKept
<1>4. CASE status[m] # "confirmed"
  <2>1. status' = [status EXCEPT ![m] = "confirmed"]
    BY <1>4 DEF MarkSettled
  <2>2. [n \in Match |-> OutcomeOf(n)]' = [[n \in Match |-> OutcomeOf(n)] EXCEPT ![m] = "confirmed"]
    <3>1. \A n \in Match : OutcomeOf(n)' = IF n = m THEN "confirmed" ELSE OutcomeOf(n)
      BY <1>1, <2>1 DEF OutcomeOf
    <3> QED BY <3>1
  <2>3. OutcomeOf(m) # "confirmed"
    BY <1>4 DEF OutcomeOf
  <2>4. {n \in Match : orders[n] = "settled"}' = {n \in Match : orders[n] = "settled"} \cup {m}
    BY <1>1
  <2>5. Table!MarkSettled(m)
    BY <1>2, <2>2, <2>3, <2>4 DEF Table!MarkSettled, Table!Outcome
  <2> QED BY <2>5 DEF Table!Next
<1> QED BY <1>3, <1>4

\* A step of the pipeline changes what readers see of one match, as the tables promise.
LEMMA TableStep == ASSUME SafetyInv, [Next]_vars PROVE [Table!Next]_(Table!vars)
<1> DEFINE Goal == [Table!Next]_(Table!vars)
<1> USE DEF rowVars, netVars, workVars
<1>0. /\ TypeOK /\ RowTypes /\ WorkTypes
      /\ \A w \in Worker : wpc[w] \in AfterProof => proof[job[w]]
  BY DEF SafetyInv, Evidence, TypeOK
<1>a. ASSUME UNCHANGED <<orders, proof, status>> PROVE Goal
  BY <1>a, TableKept
<1>1. ASSUME NEW p \in Proc, NEW m \in Match, FormMatch(p, m) PROVE Goal
  <2>1. /\ orders[m] = "open" /\ orders' = [orders EXCEPT ![m] = "matched"]
        /\ UNCHANGED <<proof, status>>
    BY <1>1 DEF FormMatch
  <2>2. m \notin Formed /\ Formed' = Formed \cup {m}
    BY <1>0, <2>1 DEF Formed, RowTypes
  <2>3. {n \in Match : orders[n] = "settled"}' = {n \in Match : orders[n] = "settled"}
    BY <1>0, <2>1 DEF RowTypes
  <2>4. Table!CreateMatch(m)
    BY <2>1, <2>2, <2>3 DEF Table!CreateMatch, OutcomeOf
  <2> QED BY <2>4 DEF Table!Next
<1>2. ASSUME NEW p \in Proc, \/ Scan(p) \/ Dispatch(p) \/ Cancel(p) \/ CloseJobs(p)
                             \/ Drained(p) \/ Crash(p) \/ Restart(p)
      PROVE  Goal
  BY <1>a, <1>2 DEF Scan, Dispatch, SkipAbandoned, CheckAttempts, SkipDispatched, Claim, Send,
              SendCancelled, EndTick, Cancel, CloseJobs, Drained, Crash, Restart
<1>3. ASSUME NEW w \in Worker, Work(w) PROVE Goal
  <2>0. wpc[w] # "idle" => job[w] \in Match /\ job[w] \in Formed
    BY <1>0 DEF SafetyInv, IdsFormed, WorkTypes
  <2>1. CASE SetProof(w) \/ SetProofFailed(w)
    <3>0. PICK m \in Match : m = job[w] /\ m \in Formed
      BY <2>0, <2>1 DEF SetProof, SetProofFailed, Step
    <3>1. /\ UNCHANGED <<orders, status>>
          /\ proof' = proof \/ proof' = [proof EXCEPT ![m] = TRUE]
      BY <2>1, <3>0 DEF SetProof, SetProofFailed
    <3>2. CASE proof' = proof
      BY <1>a, <3>1, <3>2
    <3>3. CASE proof' = [proof EXCEPT ![m] = TRUE] /\ proof' # proof
      <4>1. ~proof[m] /\ \A n \in Match : proof'[n] <=> proof[n] \/ n = m
        BY <1>0, <3>3 DEF RowTypes
      <4>2. {n \in Match : proof[n]}' = {n \in Match : proof[n]} \cup {m}
        BY <4>1
      <4>3. Table!SetProof(m)
        BY <3>0, <3>1, <4>1, <4>2 DEF Table!SetProof, Formed, OutcomeOf
      <4> QED BY <4>3 DEF Table!Next
    <3> QED BY <3>1, <3>2, <3>3
  <2>2. CASE PrepareFailed(w) \/ InvokeFailed(w) \/ Submit(w)
    <3>0. wpc[w] \in AfterProof /\ wpc[w] # "idle"
      BY <2>2 DEF PrepareFailed, InvokeFailed, Submit, AfterProof
    <3>1. PICK m \in Match : m = job[w] /\ proof[m]
      BY <1>0, <2>0, <3>0
    <3>2. /\ UNCHANGED <<orders, proof>>
          /\ SetOnchain(m, "failed") \/ SetOnchain(m, "submitted")
      BY <2>2, <3>1 DEF PrepareFailed, InvokeFailed, Submit, Fail
    <3> QED BY <1>0, <3>1, <3>2, TableOutcome
  <2>3. CASE Record(w)
    <3>0. wpc[w] \in AfterProof /\ wpc[w] # "idle"
      BY <2>3 DEF Record, Recording, AfterProof
    <3>1. PICK m \in Match : m = job[w] /\ proof[m] /\ m \in Formed
      BY <1>0, <2>0, <3>0
    <3>2. UNCHANGED proof /\ \E hash \in {"hash", "null"} : MarkSettled(m, hash)
      BY <2>3, <3>1 DEF Record
    <3> QED BY <3>1, <3>2, TableRecorded
  <2>4. CASE ~(SetProof(w) \/ SetProofFailed(w) \/ PrepareFailed(w) \/ InvokeFailed(w)
               \/ Submit(w) \/ Record(w))
    BY <1>a, <1>3, <2>4 DEF Work, Receive, Generate, GenerateFailed, Prepare, KnownSettled,
         NotYetSettled, IsSettledFailed, Land, InvokeOk, RecordFailed, Release
  <2> QED BY <2>1, <2>2, <2>3, <2>4
<1>4. ASSUME NEW m \in Match, LandLate(m) PROVE Goal
  BY <1>a, <1>4 DEF LandLate
<1>5. CASE UNCHANGED vars
  BY <1>a, <1>5 DEF vars
<1> QED BY <1>1, <1>2, <1>3, <1>4, <1>5 DEF Next

\* Whatever workers and processes do to the tables, readers see what MatchRows promises.
THEOREM PipelineImplementsRows == Spec => ImplementsRows
<1>1. Init => Table!Init
  BY DEF Init, Table!Init, Formed, OutcomeOf
<1>2. SafetyInv /\ [Next]_vars => [Table!Next]_(Table!vars)
  BY TableStep
<1> QED BY <1>1, <1>2, SafetyInvariant, PTL DEF Spec, ImplementsRows, Table!Spec

-----------------------------------------------------------------------------
(* The in-flight map is exact: ClaimedOnce is inductive together with TypeOK. *)

\* The part of ClaimedOnce that speaks of the slots of process p.
Claimed(p) ==
    /\ inflight[p] = Sending(p) \cup Queued(p) \cup Held(p)
    /\ Sending(p) \cap (Queued(p) \cup Held(p)) = {}
    /\ Queued(p) \cap Held(p) = {}
    /\ \A i, j \in 1..Len(jobs[p]) : jobs[p][i] = jobs[p][j] => i = j

OneHolder ==
    \A v, w \in Worker :
        Owner[v] = Owner[w] /\ job[v] = job[w] /\ job[v] # NoMatch => v = w

LEMMA ClaimedOnceParts == ClaimedOnce <=> (\A p \in Proc : Claimed(p)) /\ OneHolder
BY DEF ClaimedOnce, Claimed, OneHolder

\* A step that does not touch what process p holds.
LEMMA ClaimedKept ==
  ASSUME NEW p \in Proc, Claimed(p), Sending(p)' = Sending(p),
         jobs'[p] = jobs[p], inflight'[p] = inflight[p],
         \A w \in Pool(p) : job'[w] = job[w]
  PROVE  Claimed(p)'
<1>1. Queued(p)' = Queued(p)
  BY DEF Queued
<1>2. Held(p)' = Held(p)
  BY DEF Held, Pool
<1> QED BY <1>1, <1>2 DEF Claimed

LEMMA SendClaims ==
  ASSUME TypeOK, ClaimedOnce, NEW p \in Proc, Send(p) PROVE ClaimedOnce'
<1> USE DEF loopVars, poolVars, workVars
<1>1. (\A q \in Proc : Claimed(q)) /\ OneHolder
  BY ClaimedOnceParts
<1>2. /\ jobs[p] \in Seq(Match) /\ cur[p] \in Match /\ loop[p] = "send"
      /\ job' = job /\ inflight' = inflight /\ loop'[p] = "dispatch"
      /\ \A q \in Proc \ {p} : jobs'[q] = jobs[q] /\ loop'[q] = loop[q] /\ cur'[q] = cur[q]
  BY DEF Send, TypeOK, PoolTypes, LoopTypes
<1>3. /\ Len(jobs'[p]) = Len(jobs[p]) + 1 /\ Len(jobs[p]) \in Nat
      /\ \A i \in 1..Len(jobs[p]) + 1 :
            jobs'[p][i] = IF i = Len(jobs[p]) + 1 THEN cur[p] ELSE jobs[p][i]
  BY <1>2 DEF Send, TypeOK, PoolTypes
<1>4. Queued(p)' = Queued(p) \cup {cur[p]}
  <2>1. ASSUME NEW m, m \in Queued(p)' PROVE m \in Queued(p) \cup {cur[p]}
    BY <1>3, <2>1 DEF Queued
  <2>2. ASSUME NEW m, m \in Queued(p) PROVE m \in Queued(p)'
    <3>1. PICK i \in 1..Len(jobs[p]) : m = jobs[p][i]
      BY <2>2 DEF Queued
    <3>2. i \in 1..Len(jobs'[p]) /\ jobs'[p][i] = m
      BY <1>3, <3>1
    <3> QED BY <3>2 DEF Queued
  <2>3. cur[p] \in Queued(p)'
    <3>1. Len(jobs[p]) + 1 \in 1..Len(jobs'[p]) /\ jobs'[p][Len(jobs[p]) + 1] = cur[p]
      BY <1>3
    <3> QED BY <3>1 DEF Queued
  <2> QED BY <2>1, <2>2, <2>3
<1>5. Held(p)' = Held(p) /\ Sending(p) = {cur[p]} /\ Sending(p)' = {}
  BY <1>2 DEF Held, Pool, Sending
<1>6. cur[p] \notin Queued(p) \cup Held(p)
  BY <1>1, <1>5 DEF Claimed
<1>7. \A i, j \in 1..Len(jobs'[p]) : jobs'[p][i] = jobs'[p][j] => i = j
  <2>1. \A i \in 1..Len(jobs[p]) : jobs[p][i] # cur[p]
    BY <1>6 DEF Queued
  <2> QED BY <1>1, <1>3, <2>1 DEF Claimed
<1>8. Claimed(p)'
  BY <1>1, <1>2, <1>4, <1>5, <1>6, <1>7 DEF Claimed
<1>9. \A q \in Proc \ {p} : Claimed(q)'
  <2> TAKE q \in Proc \ {p}
  <2>1. Sending(q)' = Sending(q)
    BY <1>2 DEF Sending
  <2> QED BY <1>1, <1>2, <2>1, ClaimedKept
<1>10. OneHolder'
  BY <1>1, <1>2 DEF OneHolder
<1>11. ((\A q \in Proc : Claimed(q)) /\ OneHolder)'
  BY <1>8, <1>9, <1>10
<1> QED BY <1>11 DEF ClaimedOnce, Claimed, OneHolder

\* A worker takes one id out of the queue.
LEMMA ReceiveQueue ==
  ASSUME TypeOK, ClaimedOnce, NEW w \in Worker, Receive(w), NEW p \in Proc, p = Owner[w]
  PROVE  jobs[p][1] \in Queued(p) /\ Queued(p)' = Queued(p) \ {jobs[p][1]}
<1> DEFINE m == jobs[p][1]
<1>1. Claimed(p)
  BY ClaimedOnceParts
<1>2. jobs[p] \in Seq(Match) /\ jobs[p] # <<>> /\ jobs' = [jobs EXCEPT ![p] = Tail(@)]
  BY DEF Receive, TypeOK, PoolTypes
<1>3. /\ Len(jobs'[p]) = Len(jobs[p]) - 1 /\ Len(jobs[p]) \in Nat \ {0}
      /\ \A i \in 1..Len(jobs[p]) - 1 : jobs'[p][i] = jobs[p][i + 1]
  BY <1>2 DEF TypeOK, PoolTypes
<1>4. m \in Queued(p)
  BY <1>3 DEF Queued
<1>5. Queued(p)' = Queued(p) \ {m}
  <2>1. ASSUME NEW n, n \in Queued(p)' PROVE n \in Queued(p) \ {m}
    <3>1. PICK i \in 1..Len(jobs'[p]) : n = jobs'[p][i]
      BY <2>1 DEF Queued
    <3>2. i + 1 \in 1..Len(jobs[p]) /\ n = jobs[p][i + 1] /\ i + 1 # 1 /\ 1 \in 1..Len(jobs[p])
      BY <1>3, <3>1
    <3> QED BY <1>1, <1>2, <3>2 DEF Queued, Claimed
  <2>2. ASSUME NEW n, n \in Queued(p), n # m PROVE n \in Queued(p)'
    <3>1. PICK i \in 1..Len(jobs[p]) : n = jobs[p][i]
      BY <2>2 DEF Queued
    <3>2. i # 1 /\ i - 1 \in 1..Len(jobs[p]) - 1
      BY <1>3, <2>2, <3>1
    <3>3. i - 1 \in 1..Len(jobs'[p]) /\ jobs'[p][i - 1] = jobs[p][(i - 1) + 1]
      BY <1>3, <3>2
    <3>4. (i - 1) + 1 = i
      OBVIOUS
    <3> QED BY <3>1, <3>3, <3>4 DEF Queued
  <2> QED BY <2>1, <2>2
<1> QED BY <1>4, <1>5

LEMMA ReceiveClaims ==
  ASSUME TypeOK, ClaimedOnce, NEW w \in Worker, Receive(w) PROVE ClaimedOnce'
<1> DEFINE p == Owner[w]
<1> USE DEF loopVars, poolVars, workVars
<1>1. (\A q \in Proc : Claimed(q)) /\ OneHolder
  BY ClaimedOnceParts
<1>2. /\ p \in Proc /\ jobs[p] \in Seq(Match) /\ jobs[p] # <<>>
      /\ job[w] = NoMatch /\ inflight' = inflight /\ loop' = loop /\ cur' = cur
      /\ jobs' = [jobs EXCEPT ![p] = Tail(@)]
      /\ job' = [job EXCEPT ![w] = Head(jobs[p])]
  BY ConstantsAssumption DEF Receive, TypeOK, PoolTypes, WorkTypes
<1>3. /\ Len(jobs'[p]) = Len(jobs[p]) - 1 /\ Len(jobs[p]) \in Nat \ {0}
      /\ \A i \in 1..Len(jobs[p]) - 1 : jobs'[p][i] = jobs[p][i + 1]
      /\ job'[w] = jobs[p][1] /\ jobs[p][1] \in Match
      /\ \A q \in Proc \ {p} : jobs'[q] = jobs[q]
      /\ \A v \in Worker \ {w} : job'[v] = job[v]
  BY <1>2 DEF TypeOK, PoolTypes, WorkTypes
<1> DEFINE m == jobs[p][1]
<1>4. m \in Queued(p) /\ m # NoMatch
  BY <1>3, ConstantsAssumption DEF Queued, NoMatch
<1>5. Queued(p)' = Queued(p) \ {m}
  BY <1>2, ReceiveQueue
<1>6. Held(p)' = Held(p) \cup {m}
  <2>1. w \in Pool(p) /\ job'[w] = m /\ \A v \in Pool(p) \ {w} : job'[v] = job[v]
    BY <1>3 DEF Pool
  <2>2. ASSUME NEW n, n \in Held(p)' PROVE n \in Held(p) \cup {m}
    BY <2>1, <2>2 DEF Held, Pool
  <2>3. ASSUME NEW n, n \in Held(p) PROVE n \in Held(p)'
    <3>1. PICK v \in Pool(p) : n = job[v] /\ n # NoMatch
      BY <2>3 DEF Held
    <3>2. v # w
      BY <1>2, <3>1
    <3> QED BY <2>1, <3>1, <3>2 DEF Held, Pool
  <2>4. m \in Held(p)'
    BY <1>4, <2>1 DEF Held, Pool
  <2> QED BY <2>2, <2>3, <2>4
<1>7. Sending(p)' = Sending(p)
  BY <1>2 DEF Sending
<1>8. \A i, j \in 1..Len(jobs'[p]) : jobs'[p][i] = jobs'[p][j] => i = j
  <2>1. \A i \in 1..Len(jobs'[p]) : i + 1 \in 1..Len(jobs[p]) /\ jobs'[p][i] = jobs[p][i + 1]
    BY <1>3
  <2>2. \A i, j \in 1..Len(jobs[p]) : jobs[p][i] = jobs[p][j] => i = j
    BY <1>1, <1>2 DEF Claimed
  <2>3. ASSUME NEW i \in 1..Len(jobs'[p]), NEW j \in 1..Len(jobs'[p]), jobs'[p][i] = jobs'[p][j]
        PROVE  i = j
    <3>1. i + 1 = j + 1
      BY <2>1, <2>2, <2>3
    <3> QED BY <1>3, <3>1
  <2> QED BY <2>3
<1>9. Claimed(p)'
  <2>1. /\ inflight[p] = Sending(p) \cup Queued(p) \cup Held(p)
        /\ Sending(p) \cap (Queued(p) \cup Held(p)) = {}
        /\ Queued(p) \cap Held(p) = {}
    BY <1>1, <1>2 DEF Claimed
  <2>2. /\ inflight'[p] = Sending(p)' \cup Queued(p)' \cup Held(p)'
        /\ Sending(p)' \cap (Queued(p)' \cup Held(p)') = {}
        /\ Queued(p)' \cap Held(p)' = {}
    BY <1>2, <1>4, <1>5, <1>6, <1>7, <2>1
  <2> QED BY <1>8, <2>2 DEF Claimed
<1>10. \A q \in Proc \ {p} : Claimed(q)'
  <2> TAKE q \in Proc \ {p}
  <2>1. Sending(q)' = Sending(q)
    BY <1>2 DEF Sending
  <2>2. \A v \in Pool(q) : job'[v] = job[v]
    BY <1>3 DEF Pool
  <2> QED BY <1>1, <1>2, <1>3, <2>1, <2>2, ClaimedKept
<1>11. OneHolder'
  <2>1. \A v \in Worker : Owner[v] = p => job[v] # m
    BY <1>1, <1>2, <1>4 DEF Claimed, Held, Pool
  <2> QED BY <1>1, <1>3, <2>1 DEF OneHolder
<1>12. ((\A q \in Proc : Claimed(q)) /\ OneHolder)'
  BY <1>9, <1>10, <1>11
<1> QED BY <1>12 DEF ClaimedOnce, Claimed, OneHolder

LEMMA ReleaseClaims ==
  ASSUME TypeOK, ClaimedOnce, NEW w \in Worker, Release(w) PROVE ClaimedOnce'
<1> DEFINE p == Owner[w]
<1>1. (\A q \in Proc : Claimed(q)) /\ OneHolder
  BY ClaimedOnceParts
<1>2. /\ p \in Proc /\ job[w] \in Match /\ job[w] # NoMatch /\ job'[w] = NoMatch
      /\ \A v \in Worker \ {w} : job'[v] = job[v]
      /\ inflight'[p] = inflight[p] \ {job[w]}
      /\ \A q \in Proc \ {p} : inflight'[q] = inflight[q]
      /\ UNCHANGED <<loop, cur, jobs>>
  BY ConstantsAssumption
     DEF Release, TypeOK, PoolTypes, WorkTypes, NoMatch, loopVars
<1>3. Sending(p)' = Sending(p) /\ Queued(p)' = Queued(p)
  BY <1>2 DEF Sending, Queued
<1>4. job[w] \in Held(p)
  BY <1>2 DEF Held, Pool
<1>5. Held(p)' = Held(p) \ {job[w]}
  <2>1. \A v \in Pool(p) \ {w} : job[v] # job[w]
    BY <1>1, <1>2 DEF OneHolder, Pool
  <2> QED BY <1>2, <2>1 DEF Held, Pool
<1>6. Claimed(p)'
  BY <1>1, <1>2, <1>3, <1>4, <1>5 DEF Claimed
<1>7. \A q \in Proc \ {p} : Claimed(q)'
  <2> TAKE q \in Proc \ {p}
  <2>1. Sending(q)' = Sending(q) /\ \A v \in Pool(q) : job'[v] = job[v]
    BY <1>2 DEF Sending, Pool
  <2> QED BY <1>1, <1>2, <2>1, ClaimedKept
<1>8. OneHolder'
  BY <1>1, <1>2 DEF OneHolder
<1> QED BY <1>6, <1>7, <1>8 DEF ClaimedOnce, Claimed, OneHolder

LEMMA ForgetClaims ==
  ASSUME TypeOK, ClaimedOnce, NEW p \in Proc, Forget(p) PROVE ClaimedOnce'
<1>1. (\A q \in Proc : Claimed(q)) /\ OneHolder
  BY ClaimedOnceParts
<1>2. /\ loop'[p] = "match" /\ jobs'[p] = <<>> /\ inflight'[p] = {}
      /\ \A w \in Pool(p) : job'[w] = NoMatch
      /\ \A w \in Worker \ Pool(p) : job'[w] = job[w]
      /\ \A q \in Proc \ {p} : /\ loop'[q] = loop[q] /\ cur'[q] = cur[q]
                              /\ jobs'[q] = jobs[q] /\ inflight'[q] = inflight[q]
  BY DEF Forget, Pool, TypeOK, LoopTypes, PoolTypes
<1>3. Claimed(p)'
  BY <1>2 DEF Claimed, Sending, Queued, Held, Pool
<1>4. \A q \in Proc \ {p} : Claimed(q)'
  <2> TAKE q \in Proc \ {p}
  <2>1. Sending(q)' = Sending(q) /\ \A v \in Pool(q) : job'[v] = job[v]
    BY <1>2 DEF Sending, Pool
  <2> QED BY <1>1, <1>2, <2>1, ClaimedKept
<1>5. OneHolder'
  BY <1>1, <1>2 DEF OneHolder, Pool
<1> QED BY <1>3, <1>4, <1>5 DEF ClaimedOnce, Claimed, OneHolder

\* A step that moves no id: the poll loop is not about to send before or after it.
LEMMA ClaimsKept ==
  ASSUME ClaimedOnce, UNCHANGED <<inflight, jobs, job>>,
         \A p \in Proc : Sending(p)' = Sending(p)
  PROVE  ClaimedOnce'
<1>1. (\A p \in Proc : Claimed(p)) /\ OneHolder
  BY ClaimedOnceParts
<1>2. \A p \in Proc : Claimed(p)'
  BY <1>1, ClaimedKept
<1>3. OneHolder'
  BY <1>1 DEF OneHolder
<1> QED BY <1>2, <1>3 DEF ClaimedOnce, Claimed, OneHolder

LEMMA DispatchClaims ==
  ASSUME TypeOK, ClaimedOnce, NEW p \in Proc, Dispatch(p) PROVE ClaimedOnce'
<1> USE DEF loopVars, poolVars, workVars
<1>0. (\A q \in Proc : Claimed(q)) /\ OneHolder
  BY ClaimedOnceParts
<1>1. CASE SkipAbandoned(p) \/ CheckAttempts(p) \/ SkipDispatched(p) \/ EndTick(p)
  <2>1. \A q \in Proc : Sending(q)' = Sending(q)
    BY <1>1 DEF SkipAbandoned, CheckAttempts, SkipDispatched, EndTick, Sending, TypeOK, LoopTypes
  <2> QED BY <1>1, <2>1, ClaimsKept DEF SkipAbandoned, CheckAttempts, SkipDispatched, EndTick
<1>2. CASE Send(p)
  BY <1>2, SendClaims
<1>3. CASE Claim(p)
  <2>1. /\ loop[p] = "claim" /\ loop'[p] = "send" /\ cur' = cur
        /\ cur[p] \notin inflight[p] /\ inflight'[p] = inflight[p] \cup {cur[p]}
        /\ UNCHANGED <<jobs, job>>
        /\ \A q \in Proc \ {p} : loop'[q] = loop[q] /\ inflight'[q] = inflight[q]
    BY <1>3 DEF Claim, TypeOK, LoopTypes, PoolTypes
  <2>2. Queued(p)' = Queued(p) /\ Held(p)' = Held(p) /\ Sending(p)' = {cur[p]} /\ Sending(p) = {}
    BY <2>1 DEF Queued, Held, Pool, Sending
  <2>3. Claimed(p)'
    BY <1>0, <2>1, <2>2 DEF Claimed
  <2>4. \A q \in Proc \ {p} : Claimed(q)'
    <3> TAKE q \in Proc \ {p}
    <3>1. Sending(q)' = Sending(q)
      BY <2>1 DEF Sending
    <3> QED BY <1>0, <2>1, <3>1, ClaimedKept
  <2>5. OneHolder'
    BY <1>0, <2>1 DEF OneHolder
  <2> QED BY <2>3, <2>4, <2>5 DEF ClaimedOnce, Claimed, OneHolder
<1>4. CASE SendCancelled(p)
  <2>1. /\ loop[p] = "send" /\ loop'[p] = "match"
        /\ inflight'[p] = inflight[p] \ {cur[p]}
        /\ UNCHANGED <<jobs, job>>
        /\ \A q \in Proc \ {p} : /\ loop'[q] = loop[q] /\ cur'[q] = cur[q]
                                /\ inflight'[q] = inflight[q]
    BY <1>4 DEF SendCancelled, TypeOK, LoopTypes, PoolTypes
  <2>2. Queued(p)' = Queued(p) /\ Held(p)' = Held(p) /\ Sending(p) = {cur[p]} /\ Sending(p)' = {}
    BY <2>1 DEF Queued, Held, Pool, Sending
  <2>3. Claimed(p)'
    BY <1>0, <2>1, <2>2 DEF Claimed
  <2>4. \A q \in Proc \ {p} : Claimed(q)'
    <3> TAKE q \in Proc \ {p}
    <3>1. Sending(q)' = Sending(q)
      BY <2>1 DEF Sending
    <3> QED BY <1>0, <2>1, <3>1, ClaimedKept
  <2>5. OneHolder'
    BY <1>0, <2>1 DEF OneHolder
  <2> QED BY <2>3, <2>4, <2>5 DEF ClaimedOnce, Claimed, OneHolder
<1> QED BY <1>1, <1>2, <1>3, <1>4 DEF Dispatch

LEMMA ClaimInit == Init => ClaimedOnce
BY DEF Init, ClaimedOnce, Sending, Queued, Held, Pool

LEMMA ClaimStep == TypeOK /\ ClaimedOnce /\ [Next]_vars => ClaimedOnce'
<1> SUFFICES ASSUME TypeOK, ClaimedOnce, [Next]_vars PROVE ClaimedOnce'
  OBVIOUS
<1> USE DEF loopVars, poolVars, workVars
<1>a. UNCHANGED <<loop, cur, inflight, jobs, job>> => ClaimedOnce'
  BY ClaimsKept DEF Sending
<1>1. ASSUME NEW p \in Proc, Scan(p) PROVE ClaimedOnce'
  <2>1. \A q \in Proc : Sending(q)' = Sending(q)
    BY <1>1 DEF Scan, Sending, TypeOK, LoopTypes
  <2> QED BY <1>1, <2>1, ClaimsKept DEF Scan
<1>2. ASSUME NEW p \in Proc, Dispatch(p) PROVE ClaimedOnce'
  BY <1>2, DispatchClaims
<1>3. ASSUME NEW p \in Proc, \/ \E m \in Match : FormMatch(p, m)
                             \/ Cancel(p) \/ CloseJobs(p) \/ Restart(p)
      PROVE  ClaimedOnce'
  BY <1>a, <1>3 DEF FormMatch, Cancel, CloseJobs, Restart
<1>4. ASSUME NEW p \in Proc, Drained(p) \/ Crash(p) PROVE ClaimedOnce'
  BY <1>4, ForgetClaims DEF Drained, Crash
<1>5. ASSUME NEW w \in Worker, Work(w) PROVE ClaimedOnce'
  <2>1. CASE ~Receive(w) /\ ~Release(w)
    BY <1>5, <1>a, <2>1 DEF Work, Generate, GenerateFailed, SetProof, SetProofFailed,
         Prepare, PrepareFailed, KnownSettled, NotYetSettled, IsSettledFailed, Submit, Land,
         InvokeOk, InvokeFailed, Record, RecordFailed, Fail, Goto, Step
  <2> QED BY <2>1, ReceiveClaims, ReleaseClaims
<1>6. ASSUME NEW m \in Match, LandLate(m) PROVE ClaimedOnce'
  BY <1>a, <1>6 DEF LandLate
<1>7. CASE UNCHANGED vars
  BY <1>a, <1>7 DEF vars
<1> QED BY <1>1, <1>2, <1>3, <1>4, <1>5, <1>6, <1>7 DEF Next

\* Every id in flight is in exactly one place: no match is worked on twice at once by
\* a process, and none stays marked in flight with nobody working on it.
THEOREM ClaimedOnceAlways == Spec => []ClaimedOnce
<1> QED BY TypeCorrect, ClaimInit, ClaimStep, PTL DEF Spec

-----------------------------------------------------------------------------
(* The attempts of a match.  failures[p][m] only grows while a worker of p has m in *)
(* hand, so what counts is how large it can be when m is claimed, and when the poll *)
(* loop stands between its check and its claim.                                     *)

\* m is claimed and its attempt has not ended yet.
Busy(p, m) ==
    m \in inflight[p] /\ \A w \in Pool(p) : job[w] = m => wpc[w] # "release"

\* The poll loop has passed the check for m and has not claimed it yet.
Checked(p, m) == loop[p] = "claim" /\ cur[p] = m

AttemptInv ==
    \A p \in Proc, m \in Match :
       /\ failures[p][m] <= MaxProofAttempts + 1
       /\ Busy(p, m) => failures[p][m] <= MaxProofAttempts
       /\ Checked(p, m) => /\ failures[p][m] <= MaxProofAttempts
                           /\ Busy(p, m) => failures[p][m] < MaxProofAttempts

\* A step that starts no attempt, counts no failure and passes no check.
LEMMA AttemptsKept ==
  ASSUME TypeOK, TypeOK', AttemptInv,
         \A p \in Proc, m \in Match :
            /\ failures'[p][m] <= failures[p][m]
            /\ Busy(p, m)' => Busy(p, m)
            /\ Checked(p, m)' => Checked(p, m)
  PROVE  AttemptInv'
<1> SUFFICES ASSUME NEW p \in Proc, NEW m \in Match
             PROVE  /\ failures'[p][m] <= MaxProofAttempts + 1
                    /\ Busy(p, m)' => failures'[p][m] <= MaxProofAttempts
                    /\ Checked(p, m)' => /\ failures'[p][m] <= MaxProofAttempts
                                         /\ Busy(p, m)' => failures'[p][m] < MaxProofAttempts
  BY DEF AttemptInv
<1>1. failures[p][m] \in Nat /\ failures'[p][m] \in Nat /\ MaxProofAttempts \in Nat
  BY ConstantsAssumption DEF TypeOK, PoolTypes
<1> QED BY <1>1 DEF AttemptInv

\* A worker at one of its calls has an attempt under way.
LEMMA CallingIsBusy ==
  ASSUME TypeOK, ClaimedOnce, NEW w \in Worker, wpc[w] \notin {"idle", "release"}
  PROVE  job[w] \in Match /\ Owner[w] \in Proc /\ Busy(Owner[w], job[w])
<1>1. job[w] \in Match /\ job[w] # NoMatch /\ Owner[w] \in Proc
  BY ConstantsAssumption DEF TypeOK, WorkTypes
<1>2. w \in Pool(Owner[w])
  BY DEF Pool
<1>3. job[w] \in inflight[Owner[w]]
  BY <1>1, <1>2 DEF ClaimedOnce, Held
<1>4. \A v \in Pool(Owner[w]) : job[v] = job[w] => v = w
  BY <1>1 DEF ClaimedOnce, Pool
<1> QED BY <1>1, <1>3, <1>4 DEF Busy

\* The end of an attempt in failure.
LEMMA FailureCounted ==
  ASSUME TypeOK, TypeOK', ClaimedOnce, AttemptInv, NEW w \in Worker,
         wpc[w] \notin {"idle", "release"}, Goto(w, "release"), bumpFailure(w),
         UNCHANGED <<loop, cur, inflight>>
  PROVE  AttemptInv'
<1>1. /\ job[w] \in Match /\ Owner[w] \in Proc /\ Busy(Owner[w], job[w])
      /\ failures \in [Proc -> [Match -> Nat]] /\ MaxProofAttempts \in Nat
  BY CallingIsBusy, ConstantsAssumption DEF TypeOK, PoolTypes
<1>2. PICK a \in Match : a = job[w]
  BY <1>1
<1>3. PICK o \in Proc : o = Owner[w]
  BY <1>1
<1>4. /\ failures' = [failures EXCEPT ![o][a] = @ + 1]
      /\ job' = job /\ wpc' = [wpc EXCEPT ![w] = "release"]
  BY <1>2, <1>3 DEF bumpFailure, Goto
<1>5. wpc \in [Worker -> Calls]
  BY DEF TypeOK, WorkTypes
<1>6. ~Busy(o, a)'
  BY <1>2, <1>3, <1>4, <1>5 DEF Busy, Pool
<1>7. failures'[o][a] = failures[o][a] + 1
  BY <1>1, <1>4
<1>8. \A q \in Proc, n \in Match : q # o \/ n # a => failures'[q][n] = failures[q][n]
  BY <1>1, <1>4
<1>9. \A q \in Proc, n \in Match : Busy(q, n)' => Busy(q, n)
  BY <1>4, <1>5 DEF Busy, Pool
<1>10. \A q \in Proc, n \in Match : Checked(q, n)' <=> Checked(q, n)
  BY DEF Checked
<1>11. /\ failures'[o][a] <= MaxProofAttempts + 1
       /\ Checked(o, a)' => failures'[o][a] <= MaxProofAttempts
  BY <1>1, <1>2, <1>3, <1>7, <1>10 DEF AttemptInv
<1> SUFFICES ASSUME NEW q \in Proc, NEW n \in Match
             PROVE  /\ failures'[q][n] <= MaxProofAttempts + 1
                    /\ Busy(q, n)' => failures'[q][n] <= MaxProofAttempts
                    /\ Checked(q, n)' => /\ failures'[q][n] <= MaxProofAttempts
                                         /\ Busy(q, n)' => failures'[q][n] < MaxProofAttempts
  BY DEF AttemptInv
<1>12. CASE q = o /\ n = a
  BY <1>6, <1>11, <1>12
<1>13. CASE q # o \/ n # a
  BY <1>8, <1>9, <1>10, <1>13 DEF AttemptInv
<1> QED BY <1>12, <1>13

LEMMA WorkAttempts ==
  ASSUME TypeOK, TypeOK', ClaimedOnce, AttemptInv, NEW w \in Worker, Work(w)
  PROVE  AttemptInv'
<1> USE DEF loopVars, poolVars, workVars
<1>0. /\ failures \in [Proc -> [Match -> Nat]] /\ failures' \in [Proc -> [Match -> Nat]]
      /\ wpc \in [Worker -> Calls] /\ job \in [Worker -> Match \cup {NoMatch}]
      /\ inflight \in [Proc -> SUBSET Match] /\ Owner[w] \in Proc
  BY ConstantsAssumption DEF TypeOK, PoolTypes, WorkTypes
<1>1. CASE \/ GenerateFailed(w) \/ PrepareFailed(w) \/ IsSettledFailed(w) \/ InvokeFailed(w)
  <2>1. /\ wpc[w] \notin {"idle", "release"} /\ Goto(w, "release") /\ bumpFailure(w)
        /\ UNCHANGED <<loop, cur, inflight>>
    BY <1>1 DEF GenerateFailed, PrepareFailed, IsSettledFailed, InvokeFailed, Fail
  <2> QED BY <2>1, FailureCounted
<1>2. ASSUME wpc[w] # "release", UNCHANGED <<loop, cur, inflight, job>>,
             \E c \in Calls : Goto(w, c), UNCHANGED failures \/ clearFailures(w)
      PROVE  AttemptInv'
  <2>1. \A q \in Proc, n \in Match : failures'[q][n] <= failures[q][n]
    <3>1. CASE UNCHANGED failures
      BY <1>0, <3>1
    <3>2. CASE clearFailures(w)
      BY <1>0, <3>2 DEF clearFailures
    <3> QED BY <1>2, <3>1, <3>2
  <2>2. \A v \in Worker : wpc[v] = "release" => wpc'[v] = "release"
    BY <1>0, <1>2 DEF Goto
  <2>3. \A q \in Proc, n \in Match : Busy(q, n)' => Busy(q, n)
    BY <1>2, <2>2 DEF Busy, Pool
  <2> QED BY <1>2, <2>1, <2>3, AttemptsKept DEF Checked
<1>3. CASE \/ Generate(w) \/ SetProof(w) \/ SetProofFailed(w) \/ Prepare(w)
           \/ KnownSettled(w) \/ NotYetSettled(w) \/ Submit(w) \/ Land(w) \/ InvokeOk(w)
           \/ Record(w) \/ RecordFailed(w)
  <2>1. /\ wpc[w] # "release" /\ UNCHANGED <<loop, cur, inflight, job>>
        /\ \E c \in Calls : Goto(w, c)
        /\ UNCHANGED failures \/ clearFailures(w)
    BY <1>3 DEF Generate, SetProof, SetProofFailed, Prepare, KnownSettled, NotYetSettled,
         Submit, Land, InvokeOk, Record, RecordFailed, Recording, Step, Goto, Calls
  <2> QED BY <1>2, <2>1
<1>4. CASE Receive(w)
  <2>1. /\ UNCHANGED <<loop, cur, inflight, failures>> /\ job[w] = NoMatch /\ wpc[w] = "idle"
        /\ \A v \in Worker \ {w} : job'[v] = job[v] /\ wpc'[v] = wpc[v]
    BY <1>0, <1>4 DEF Receive, TypeOK, WorkTypes
  <2>2. \A q \in Proc, n \in Match : Busy(q, n)' => Busy(q, n)
    BY <2>1 DEF Busy, Pool
  <2> QED BY <1>0, <2>1, <2>2, AttemptsKept DEF Checked
<1>5. CASE Release(w)
  <2>1. /\ UNCHANGED <<loop, cur, failures>>
        /\ inflight' = [inflight EXCEPT ![Owner[w]] = @ \ {job[w]}]
        /\ \A v \in Worker \ {w} : job'[v] = job[v] /\ wpc'[v] = wpc[v]
    BY <1>0, <1>5 DEF Release
  <2>2. ASSUME NEW q \in Proc, NEW n \in Match, Busy(q, n)' PROVE Busy(q, n)
    <3>1. n \in inflight[q] /\ (q = Owner[w] => n # job[w])
      BY <1>0, <2>1, <2>2 DEF Busy
    <3> QED BY <2>1, <2>2, <3>1 DEF Busy, Pool
  <2> QED BY <1>0, <2>1, <2>2, AttemptsKept DEF Checked
<1> QED BY <1>1, <1>3, <1>4, <1>5 DEF Work

LEMMA DispatchAttempts ==
  ASSUME TypeOK, TypeOK', AttemptInv, NEW p \in Proc, Dispatch(p) PROVE AttemptInv'
<1> USE DEF loopVars, poolVars, workVars
<1>0. /\ failures \in [Proc -> [Match -> Nat]] /\ inflight \in [Proc -> SUBSET Match]
      /\ loop \in [Proc -> {"match", "dispatch", "claim", "send"}]
      /\ cur \in [Proc -> Match \cup {NoMatch}] /\ MaxProofAttempts \in Nat
      /\ UNCHANGED <<failures, wpc, job>>
  BY ConstantsAssumption DEF TypeOK, LoopTypes, PoolTypes, Dispatch, SkipAbandoned,
     CheckAttempts, SkipDispatched, Claim, Send, SendCancelled, EndTick
<1>1. CASE SkipAbandoned(p) \/ SkipDispatched(p) \/ Send(p) \/ SendCancelled(p) \/ EndTick(p)
  <2>0. inflight' = inflight \/ inflight' = [inflight EXCEPT ![p] = @ \ {cur[p]}]
    BY <1>1 DEF SkipAbandoned, SkipDispatched, Send, SendCancelled, EndTick
  <2>1. \A q \in Proc, n \in Match : n \in inflight'[q] => n \in inflight[q]
    BY <1>0, <2>0
  <2>2. \A q \in Proc, n \in Match : Busy(q, n)' => Busy(q, n)
    BY <1>0, <2>1 DEF Busy, Pool
  <2>3. \A q \in Proc, n \in Match : Checked(q, n)' => Checked(q, n)
    BY <1>0, <1>1 DEF Checked, SkipAbandoned, SkipDispatched, Send, SendCancelled, EndTick
  <2>4. \A q \in Proc, n \in Match : failures'[q][n] <= failures[q][n]
    BY <1>0
  <2> QED BY <2>2, <2>3, <2>4, AttemptsKept
<1>2. CASE CheckAttempts(p)
  <2>1. PICK a \in Match : /\ failures[p][a] < MaxProofAttempts
                           /\ cur' = [cur EXCEPT ![p] = a]
    BY <1>2 DEF CheckAttempts
  <2>2. UNCHANGED inflight /\ \A q \in Proc, n \in Match : Busy(q, n)' = Busy(q, n)
    BY <1>0, <1>2 DEF CheckAttempts, Busy, Pool
  <2>3. \A q \in Proc, n \in Match : Checked(q, n)' => Checked(q, n) \/ (q = p /\ n = a)
    BY <1>0, <1>2, <2>1 DEF CheckAttempts, Checked
  <2>4. failures[p][a] \in Nat
    BY <1>0
  <2> SUFFICES ASSUME NEW q \in Proc, NEW n \in Match
               PROVE  /\ failures[q][n] <= MaxProofAttempts + 1
                      /\ Busy(q, n) => failures[q][n] <= MaxProofAttempts
                      /\ Checked(q, n)' => /\ failures[q][n] <= MaxProofAttempts
                                           /\ Busy(q, n) => failures[q][n] < MaxProofAttempts
    BY <1>0, <2>2 DEF AttemptInv
  <2> QED BY <1>0, <2>1, <2>3, <2>4 DEF AttemptInv
<1>3. CASE Claim(p)
  <2>1. /\ loop[p] = "claim" /\ inflight' = [inflight EXCEPT ![p] = @ \cup {cur[p]}]
        /\ loop' = [loop EXCEPT ![p] = "send"] /\ cur' = cur
    BY <1>3 DEF Claim
  <2>2. \A q \in Proc, n \in Match : Busy(q, n)' => Busy(q, n) \/ Checked(q, n)
    BY <1>0, <2>1 DEF Busy, Checked, Pool
  <2>3. \A q \in Proc, n \in Match : Checked(q, n)' => Checked(q, n) /\ q # p
    BY <1>0, <2>1 DEF Checked
  <2>4. \A q \in Proc, n \in Match : q # p => (Busy(q, n)' <=> Busy(q, n))
    BY <1>0, <2>1 DEF Busy, Pool
  <2> SUFFICES ASSUME NEW q \in Proc, NEW n \in Match
               PROVE  /\ failures[q][n] <= MaxProofAttempts + 1
                      /\ Busy(q, n)' => failures[q][n] <= MaxProofAttempts
                      /\ Checked(q, n)' => /\ failures[q][n] <= MaxProofAttempts
                                           /\ Busy(q, n)' => failures[q][n] < MaxProofAttempts
    BY <1>0 DEF AttemptInv
  <2> QED BY <2>2, <2>3, <2>4 DEF AttemptInv
<1> QED BY <1>1, <1>2, <1>3 DEF Dispatch

LEMMA AttemptInit == Init => AttemptInv
<1> SUFFICES ASSUME Init PROVE AttemptInv
  OBVIOUS
<1>1. \A p \in Proc, m \in Match : failures[p][m] = 0 /\ inflight[p] = {} /\ loop[p] = "match"
  BY DEF Init
<1>2. \A p \in Proc, m \in Match : ~Busy(p, m) /\ ~Checked(p, m)
  BY <1>1 DEF Busy, Checked
<1>3. MaxProofAttempts \in Nat
  BY ConstantsAssumption
<1> QED BY <1>1, <1>2, <1>3 DEF AttemptInv

LEMMA AttemptStep ==
  TypeOK /\ TypeOK' /\ ClaimedOnce /\ AttemptInv /\ [Next]_vars => AttemptInv'
<1> SUFFICES ASSUME TypeOK, TypeOK', ClaimedOnce, AttemptInv, [Next]_vars
             PROVE  AttemptInv'
  OBVIOUS
<1> USE DEF loopVars, poolVars, workVars
<1>0. /\ failures \in [Proc -> [Match -> Nat]]
      /\ loop \in [Proc -> {"match", "dispatch", "claim", "send"}]
  BY DEF TypeOK, LoopTypes, PoolTypes
<1>a. ASSUME UNCHANGED <<loop, cur, inflight, failures, wpc, job>> PROVE AttemptInv'
  <2>1. \A q \in Proc, n \in Match : failures'[q][n] <= failures[q][n]
    BY <1>0, <1>a
  <2> QED BY <1>a, <2>1, AttemptsKept DEF Busy, Checked, Pool
<1>1. ASSUME NEW p \in Proc, Scan(p) PROVE AttemptInv'
  <2>1. \A q \in Proc, n \in Match : /\ failures'[q][n] <= failures[q][n]
                                     /\ Busy(q, n)' => Busy(q, n)
                                     /\ Checked(q, n)' => Checked(q, n)
    BY <1>0, <1>1 DEF Scan, Busy, Checked, Pool
  <2> QED BY <2>1, AttemptsKept
<1>2. ASSUME NEW p \in Proc, Dispatch(p) PROVE AttemptInv'
  BY <1>2, DispatchAttempts
<1>3. ASSUME NEW p \in Proc, \/ \E m \in Match : FormMatch(p, m)
                             \/ Cancel(p) \/ CloseJobs(p) \/ Restart(p)
      PROVE  AttemptInv'
  BY <1>a, <1>3 DEF FormMatch, Cancel, CloseJobs, Restart
<1>4. ASSUME NEW p \in Proc, Drained(p) \/ Crash(p) PROVE AttemptInv'
  <2>1. Forget(p)
    BY <1>4 DEF Drained, Crash
  <2>2. /\ failures'[p] = [m \in Match |-> 0] /\ inflight'[p] = {} /\ loop'[p] = "match"
        /\ \A q \in Proc \ {p} : /\ failures'[q] = failures[q] /\ inflight'[q] = inflight[q]
                                /\ loop'[q] = loop[q] /\ cur'[q] = cur[q]
        /\ \A w \in Worker : Owner[w] # p => wpc'[w] = wpc[w] /\ job'[w] = job[w]
    BY <2>1 DEF Forget, TypeOK, LoopTypes, PoolTypes
  <2>3. ASSUME NEW q \in Proc, NEW n \in Match
        PROVE  /\ failures'[q][n] <= failures[q][n]
               /\ Busy(q, n)' => Busy(q, n)
               /\ Checked(q, n)' => Checked(q, n)
    <3>1. failures[q][n] \in Nat
      BY <1>0
    <3>2. CASE q = p
      BY <2>2, <3>1, <3>2 DEF Busy, Checked
    <3>3. CASE q # p
      BY <2>2, <3>1, <3>3 DEF Busy, Checked, Pool
    <3> QED BY <3>2, <3>3
  <2> QED BY <2>3, AttemptsKept
<1>5. ASSUME NEW w \in Worker, Work(w) PROVE AttemptInv'
  BY <1>5, WorkAttempts
<1>6. ASSUME NEW m \in Match, LandLate(m) PROVE AttemptInv'
  BY <1>a, <1>6 DEF LandLate
<1>7. CASE UNCHANGED vars
  BY <1>a, <1>7 DEF vars
<1> QED BY <1>1, <1>2, <1>3, <1>4, <1>5, <1>6, <1>7 DEF Next

\* The race between tick's check and a finishing worker costs at most one attempt
\* more than maxProofAttempts, however many matches, workers and processes there are.
THEOREM AttemptsBoundedAlways == Spec => []AttemptsBounded
<1>1. AttemptInv => AttemptsBounded
  BY DEF AttemptInv, AttemptsBounded
<1> QED BY <1>1, TypeCorrect, ClaimedOnceAlways, AttemptInit, AttemptStep, PTL DEF Spec

-----------------------------------------------------------------------------
(* Shutdown: every step of a stopping process leaves less ahead of it.      *)

\* The id being dispatched has left the batch.
CurTaken == \A p \in Proc : loop[p] \in {"claim", "send"} => cur[p] \notin batch[p]

LEMMA CurTakenStep == TypeOK /\ CurTaken /\ [Next]_vars => CurTaken'
<1> SUFFICES ASSUME TypeOK, CurTaken, [Next]_vars PROVE CurTaken'
  OBVIOUS
<1> USE DEF loopVars
<1>0. /\ loop \in [Proc -> {"match", "dispatch", "claim", "send"}]
      /\ batch \in [Proc -> SUBSET Match] /\ cur \in [Proc -> Match \cup {NoMatch}]
  BY DEF TypeOK, LoopTypes
<1>a. ASSUME UNCHANGED <<loop, batch, cur>> PROVE CurTaken'
  BY <1>a DEF CurTaken
<1>1. ASSUME NEW p \in Proc, Scan(p) PROVE CurTaken'
  <2>1. /\ loop'[p] = "dispatch" /\ cur' = cur
        /\ \A q \in Proc \ {p} : loop'[q] = loop[q] /\ batch'[q] = batch[q]
    BY <1>0, <1>1 DEF Scan
  <2> QED BY <2>1 DEF CurTaken
<1>2. ASSUME NEW p \in Proc, Dispatch(p) PROVE CurTaken'
  <2>1. CASE CheckAttempts(p)
    <3>1. PICK m \in Match : /\ batch' = [batch EXCEPT ![p] = @ \ {m}]
                             /\ cur' = [cur EXCEPT ![p] = m]
      BY <2>1 DEF CheckAttempts
    <3>2. /\ cur'[p] = m /\ m \notin batch'[p]
          /\ \A q \in Proc \ {p} : loop'[q] = loop[q] /\ batch'[q] = batch[q] /\ cur'[q] = cur[q]
      BY <1>0, <2>1, <3>1 DEF CheckAttempts
    <3> QED BY <3>2 DEF CurTaken
  <2>2. CASE Claim(p)
    <3>1. /\ loop[p] = "claim" /\ cur' = cur /\ batch' = batch
          /\ \A q \in Proc \ {p} : loop'[q] = loop[q]
      BY <1>0, <2>2 DEF Claim
    <3> QED BY <3>1 DEF CurTaken
  <2>3. CASE SkipAbandoned(p) \/ SkipDispatched(p) \/ Send(p) \/ SendCancelled(p) \/ EndTick(p)
    <3>1. /\ loop'[p] \in {"match", "dispatch"}
          /\ \A q \in Proc \ {p} : loop'[q] = loop[q] /\ batch'[q] = batch[q] /\ cur'[q] = cur[q]
      BY <1>0, <2>3 DEF SkipAbandoned, SkipDispatched, Send, SendCancelled, EndTick
    <3> QED BY <3>1 DEF CurTaken
  <2> QED BY <1>2, <2>1, <2>2, <2>3 DEF Dispatch
<1>3. ASSUME NEW p \in Proc, Drained(p) \/ Crash(p) PROVE CurTaken'
  <2>1. /\ loop'[p] = "match"
        /\ \A q \in Proc \ {p} : loop'[q] = loop[q] /\ batch'[q] = batch[q] /\ cur'[q] = cur[q]
    BY <1>0, <1>3 DEF Drained, Crash, Forget
  <2> QED BY <2>1 DEF CurTaken
<1>4. ASSUME NEW p \in Proc, \/ \E m \in Match : FormMatch(p, m)
                             \/ Cancel(p) \/ CloseJobs(p) \/ Restart(p)
      PROVE  CurTaken'
  BY <1>a, <1>4 DEF FormMatch, Cancel, CloseJobs, Restart
<1>5. ASSUME NEW w \in Worker, Work(w) PROVE CurTaken'
  BY <1>a, <1>5 DEF Work, Receive, Generate, GenerateFailed, SetProof, SetProofFailed,
       Prepare, PrepareFailed, KnownSettled, NotYetSettled, IsSettledFailed, Submit, Land,
       InvokeOk, InvokeFailed, Record, RecordFailed, Release, Fail
<1>6. ASSUME NEW m \in Match, LandLate(m) PROVE CurTaken'
  BY <1>a, <1>6 DEF LandLate
<1>7. CASE UNCHANGED vars
  BY <1>a, <1>7 DEF vars
<1> QED BY <1>1, <1>2, <1>3, <1>4, <1>5, <1>6, <1>7 DEF Next

\* What is ahead of the loop, pair by pair.
LEMMA LoopAheadPairs ==
  ASSUME NEW p \in Proc, NEW m, NEW s
  PROVE  <<m, s>> \in LoopAhead(p) <=>
           \/ m \in batch[p] /\ s \in {"check", "claim", "send"}
           \/ m = cur[p] /\ loop[p] = "claim" /\ s \in {"claim", "send"}
           \/ m = cur[p] /\ loop[p] = "send" /\ s = "send"
           \/ m = NoMatch /\ s = "tick" /\ loop[p] # "match"
           \/ m = NoMatch /\ s = "close" /\ phase[p] = "stopping"
BY DEF LoopAhead

LEMMA LoopAheadIsPairs ==
  ASSUME NEW p \in Proc, NEW a \in LoopAhead(p)
  PROVE  \E m, s : a = <<m, s>>
BY DEF LoopAhead

\* Sets of pairs compare pair by pair.
LEMMA LessByPairs ==
  ASSUME NEW S, NEW T, \A a \in S : \E m, s : a = <<m, s>>,
         \A m, s : <<m, s>> \in S => <<m, s>> \in T,
         NEW n, NEW t, <<n, t>> \in T, <<n, t>> \notin S
  PROVE  Less(S, T)
BY DEF Less

LEMMA LoopSteps ==
  ASSUME TypeOK, CurTaken, NEW p \in Proc, Dispatch(p) \/ CloseJobs(p)
  PROVE  Less(LoopAhead(p)', LoopAhead(p))
<1>0. /\ loop[p] \in {"match", "dispatch", "claim", "send"} /\ batch[p] \subseteq Match
      /\ phase[p] \in {"running", "stopping", "draining", "down"}
      /\ loop \in [Proc -> {"match", "dispatch", "claim", "send"}]
      /\ phase \in [Proc -> {"running", "stopping", "draining", "down"}]
      /\ batch \in [Proc -> SUBSET Match] /\ cur \in [Proc -> Match \cup {NoMatch}]
  BY DEF TypeOK, LoopTypes
<1>1. \A m, s : <<m, s>> \in LoopAhead(p) <=>
           \/ m \in batch[p] /\ s \in {"check", "claim", "send"}
           \/ m = cur[p] /\ loop[p] = "claim" /\ s \in {"claim", "send"}
           \/ m = cur[p] /\ loop[p] = "send" /\ s = "send"
           \/ m = NoMatch /\ s = "tick" /\ loop[p] # "match"
           \/ m = NoMatch /\ s = "close" /\ phase[p] = "stopping"
  BY LoopAheadPairs
<1>2. \A m, s : <<m, s>> \in LoopAhead(p)' <=>
           \/ m \in batch'[p] /\ s \in {"check", "claim", "send"}
           \/ m = cur'[p] /\ loop'[p] = "claim" /\ s \in {"claim", "send"}
           \/ m = cur'[p] /\ loop'[p] = "send" /\ s = "send"
           \/ m = NoMatch /\ s = "tick" /\ loop'[p] # "match"
           \/ m = NoMatch /\ s = "close" /\ phase'[p] = "stopping"
  BY DEF LoopAhead
<1>3. \A a \in LoopAhead(p)' : \E m, s : a = <<m, s>>
  BY DEF LoopAhead
<1> DEFINE S == LoopAhead(p)'
           T == LoopAhead(p)
<1>a. ASSUME \A m, s : <<m, s>> \in S => <<m, s>> \in T,
             NEW n, NEW t, <<n, t>> \in T, <<n, t>> \notin S
      PROVE  Less(S, T)
  <2> HIDE DEF S, T
  <2> QED BY <1>a, <1>3, LessByPairs DEF S
<1> HIDE DEF S, T
<1>4. CASE SkipAbandoned(p)
  <2>1. PICK m \in Match : m \in batch[p] /\ batch' = [batch EXCEPT ![p] = @ \ {m}]
    BY <1>4 DEF SkipAbandoned, IsNext
  <2>2. /\ batch'[p] = batch[p] \ {m} /\ loop[p] = "dispatch"
        /\ UNCHANGED <<phase, loop, cur>>
    BY <1>0, <1>4, <2>1 DEF SkipAbandoned
  <2>3. \A n, s : <<n, s>> \in S => <<n, s>> \in T
    BY <1>1, <1>2, <2>2 DEF S, T
  <2>4. <<m, "check">> \in T /\ <<m, "check">> \notin S
    BY <1>1, <1>2, <2>1, <2>2 DEF S, T
  <2> QED BY <1>a, <2>3, <2>4 DEF S, T
<1>5. CASE CheckAttempts(p)
  <2>1. PICK m \in Match : /\ m \in batch[p] /\ batch' = [batch EXCEPT ![p] = @ \ {m}]
                           /\ cur' = [cur EXCEPT ![p] = m]
    BY <1>5 DEF CheckAttempts, IsNext
  <2>2. /\ batch'[p] = batch[p] \ {m} /\ loop[p] = "dispatch" /\ loop'[p] = "claim"
        /\ cur'[p] = m /\ phase' = phase
    BY <1>0, <1>5, <2>1 DEF CheckAttempts
  <2>3. \A n, s : <<n, s>> \in S => <<n, s>> \in T
    BY <1>1, <1>2, <2>1, <2>2 DEF S, T
  <2>4. <<m, "check">> \in T /\ <<m, "check">> \notin S
    BY <1>1, <1>2, <2>1, <2>2 DEF S, T
  <2> QED BY <1>a, <2>3, <2>4 DEF S, T
<1>6. CASE SkipDispatched(p) \/ Claim(p)
  <2>1. /\ loop[p] = "claim" /\ loop'[p] \in {"dispatch", "send"}
        /\ UNCHANGED <<phase, batch>>
        /\ loop'[p] = "send" => cur' = cur
    BY <1>0, <1>6 DEF SkipDispatched, Claim
  <2>2. cur[p] \notin batch[p]
    BY <2>1 DEF CurTaken
  <2>3. \A n, s : <<n, s>> \in S => <<n, s>> \in T
    BY <1>1, <1>2, <2>1 DEF S, T
  <2>4. <<cur[p], "claim">> \in T /\ <<cur[p], "claim">> \notin S
    BY <1>1, <1>2, <2>1, <2>2 DEF S, T
  <2> QED BY <1>a, <2>3, <2>4 DEF S, T
<1>7. CASE Send(p)
  <2>1. /\ loop[p] = "send" /\ loop'[p] = "dispatch" /\ UNCHANGED <<phase, batch>>
    BY <1>0, <1>7 DEF Send
  <2>2. cur[p] \notin batch[p]
    BY <2>1 DEF CurTaken
  <2>3. \A n, s : <<n, s>> \in S => <<n, s>> \in T
    BY <1>1, <1>2, <2>1 DEF S, T
  <2>4. <<cur[p], "send">> \in T /\ <<cur[p], "send">> \notin S
    BY <1>1, <1>2, <2>1, <2>2 DEF S, T
  <2> QED BY <1>a, <2>3, <2>4 DEF S, T
<1>8. CASE SendCancelled(p) \/ EndTick(p)
  <2>1. /\ loop[p] # "match" /\ loop'[p] = "match" /\ phase' = phase
        /\ batch'[p] \subseteq batch[p]
    BY <1>0, <1>8 DEF SendCancelled, EndTick
  <2>2. \A n, s : <<n, s>> \in S => <<n, s>> \in T
    BY <1>1, <1>2, <2>1 DEF S, T
  <2>3. <<NoMatch, "tick">> \in T /\ <<NoMatch, "tick">> \notin S
    BY <1>1, <1>2, <2>1 DEF S, T
  <2> QED BY <1>a, <2>2, <2>3 DEF S, T
<1>9. CASE CloseJobs(p)
  <2>1. /\ phase[p] = "stopping" /\ phase'[p] = "draining" /\ UNCHANGED <<loop, batch, cur>>
    BY <1>0, <1>9 DEF CloseJobs
  <2>2. \A n, s : <<n, s>> \in S => <<n, s>> \in T
    BY <1>1, <1>2, <2>1 DEF S, T
  <2>3. <<NoMatch, "close">> \in T /\ <<NoMatch, "close">> \notin S
    BY <1>1, <1>2, <2>1 DEF S, T
  <2> QED BY <1>a, <2>2, <2>3 DEF S, T
<1> QED BY <1>4, <1>5, <1>6, <1>7, <1>8, <1>9 DEF Dispatch, S, T

\* What is ahead of the workers, pair by pair.
LEMMA WorkAheadPairs ==
  ASSUME TypeOK, NEW p \in Proc, NEW m, NEW c
  PROVE  <<m, c>> \in WorkAhead(p) <=>
           /\ c \in Calls
           /\ \/ m \in Queued(p)
              \/ /\ m # NoMatch
                 /\ \E w \in Pool(p) : job[w] = m /\ CallOrder[c] >= CallOrder[wpc[w]]
BY DEF WorkAhead, Held

LEMMA WorkAheadIsPairs ==
  ASSUME NEW p \in Proc, NEW a \in WorkAhead(p)
  PROVE  \E m, c : a = <<m, c>>
BY DEF WorkAhead

LEMMA CallOrderType == \A c \in Calls : CallOrder[c] \in 0..10 /\ (CallOrder[c] = 0 <=> c = "idle")
BY DEF CallOrder, Calls

\* A worker with an id in hand only goes on to a later call.
LEMMA CallsAdvance ==
  ASSUME NEW w \in Worker, Work(w), ~Receive(w), ~Release(w)
  PROVE  /\ UNCHANGED <<phase, loop, batch, cur, jobs, job>>
         /\ wpc[w] \in Calls \ {"idle"}
         /\ \E c \in Calls : /\ CallOrder[c] > CallOrder[wpc[w]]
                             /\ wpc' = [wpc EXCEPT ![w] = c]
<1> USE DEF loopVars, poolVars, Calls, CallOrder, Goto, Step, Recording
<1>1. CASE Generate(w) \/ GenerateFailed(w) \/ SetProof(w) \/ SetProofFailed(w)
  BY <1>1 DEF Generate, GenerateFailed, SetProof, SetProofFailed
<1>2. CASE Prepare(w) \/ PrepareFailed(w) \/ KnownSettled(w) \/ NotYetSettled(w) \/ IsSettledFailed(w)
  BY <1>2 DEF Prepare, PrepareFailed, KnownSettled, NotYetSettled, IsSettledFailed, Fail
<1>3. CASE Submit(w) \/ Land(w) \/ InvokeOk(w) \/ InvokeFailed(w)
  BY <1>3 DEF Submit, Land, InvokeOk, InvokeFailed, Fail
<1>4. CASE Record(w) \/ RecordFailed(w)
  BY <1>4 DEF Record, RecordFailed
<1> QED BY <1>1, <1>2, <1>3, <1>4 DEF Work

LEMMA WorkSteps ==
  ASSUME TypeOK, TypeOK', ClaimedOnce, NEW w \in Worker, Work(w), NEW p \in Proc, p = Owner[w]
  PROVE  LoopAhead(p)' = LoopAhead(p) /\ Less(WorkAhead(p)', WorkAhead(p))
<1> DEFINE S == WorkAhead(p)'
           T == WorkAhead(p)
<1>0. /\ wpc \in [Worker -> Calls] /\ job \in [Worker -> Match \cup {NoMatch}]
      /\ \A v \in Worker : wpc[v] = "idle" <=> job[v] = NoMatch
      /\ w \in Pool(p) /\ Claimed(p) /\ OneHolder
      /\ \A v \in Pool(p) : v \in Worker /\ Owner[v] = p
      /\ NoMatch \notin Match
  BY ClaimedOnceParts, ConstantsAssumption DEF TypeOK, WorkTypes, Pool, NoMatch
<1>1. \A m, c : <<m, c>> \in T <=>
           /\ c \in Calls
           /\ \/ m \in Queued(p)
              \/ /\ m # NoMatch
                 /\ \E v \in Pool(p) : job[v] = m /\ CallOrder[c] >= CallOrder[wpc[v]]
  BY WorkAheadPairs
<1>2. \A m, c : <<m, c>> \in S <=>
           /\ c \in Calls
           /\ \/ m \in Queued(p)'
              \/ /\ m # NoMatch
                 /\ \E v \in Pool(p) : job'[v] = m /\ CallOrder[c] >= CallOrder[wpc'[v]]
  BY DEF WorkAhead, Held, Pool
<1>3. \A a \in S : \E m, c : a = <<m, c>>
  BY DEF WorkAhead
<1>a. ASSUME \A m, c : <<m, c>> \in S => <<m, c>> \in T,
             NEW n, NEW c, <<n, c>> \in T, <<n, c>> \notin S
      PROVE  Less(WorkAhead(p)', WorkAhead(p))
  <2>1. Less(S, T)
    <3> HIDE DEF S, T
    <3> QED BY <1>a, <1>3, LessByPairs
  <2> QED BY <2>1
<1> HIDE DEF S, T
<1>4. UNCHANGED <<phase, loop, batch, cur>>
  <2>1. CASE Receive(w) \/ Release(w)
    BY <2>1 DEF Receive, Release, loopVars
  <2> QED BY <2>1, CallsAdvance
<1>5. LoopAhead(p)' = LoopAhead(p)
  BY <1>4 DEF LoopAhead
<1>6. CASE Receive(w)
  <2> DEFINE m == jobs[p][1]
  <2>1. m \in Queued(p) /\ Queued(p)' = Queued(p) \ {m}
    BY <1>6, ReceiveQueue
  <2>2. /\ job'[w] = m /\ wpc'[w] \in {"prove", "release"}
        /\ \A v \in Pool(p) : v # w => job'[v] = job[v] /\ wpc'[v] = wpc[v]
    <3>1. jobs[p] \in Seq(Match) /\ jobs[p] # <<>>
      BY <1>6 DEF Receive, TypeOK, PoolTypes
    <3> QED BY <1>0, <1>6, <3>1 DEF Receive
  <2>3. m # NoMatch /\ \A v \in Pool(p) : job[v] # m
    <3>1. m \in Match
      BY <2>1, <1>6 DEF Receive, TypeOK, PoolTypes
    <3>2. Queued(p) \cap Held(p) = {}
      BY <1>0 DEF Claimed
    <3> QED BY <1>0, <2>1, <3>1, <3>2 DEF Held
  <2> HIDE DEF m
  <2>4. \A n, c : <<n, c>> \in S => <<n, c>> \in T
    BY <1>1, <1>2, <2>1, <2>2
  <2>5. <<m, "idle">> \in T
    BY <1>1, <2>1 DEF Calls
  <2>6. <<m, "idle">> \notin S
    <3>1. ~(CallOrder["idle"] >= CallOrder[wpc'[w]])
      BY <2>2 DEF CallOrder
    <3>2. m \notin Queued(p)'
      BY <2>1
    <3>3. \A v \in Pool(p) : job'[v] = m => v = w
      BY <2>2, <2>3
    <3> QED BY <1>2, <3>1, <3>2, <3>3
  <2> QED BY <1>5, <1>a, <2>4, <2>5, <2>6
<1>7. CASE ~Receive(w)
  <2> DEFINE m == job[w]
  <2>1. /\ jobs' = jobs /\ wpc[w] # "idle"
        /\ \A v \in Pool(p) : v # w => job'[v] = job[v] /\ wpc'[v] = wpc[v]
        /\ \/ job'[w] = NoMatch
           \/ job'[w] = m /\ wpc'[w] \in Calls /\ CallOrder[wpc'[w]] > CallOrder[wpc[w]]
    <3>1. CASE Release(w)
      BY <1>0, <3>1 DEF Release
    <3>2. CASE ~Release(w)
      BY <1>0, <1>7, <3>2, CallsAdvance
    <3> QED BY <3>1, <3>2
  <2>2. Queued(p)' = Queued(p)
    BY <2>1 DEF Queued
  <2>3. m \in Match /\ m # NoMatch /\ m \in Held(p)
    BY <1>0, <2>1 DEF Held
  <2>4. m \notin Queued(p) /\ \A v \in Pool(p) : v # w => job[v] # m
    BY <1>0, <2>3 DEF Claimed, OneHolder
  <2>5. CallOrder[wpc[w]] \in Nat /\ wpc[w] \in Calls
    BY <1>0, CallOrderType
  <2> HIDE DEF m
  <2>6. ASSUME NEW n, NEW c, <<n, c>> \in S PROVE <<n, c>> \in T
    <3>1. c \in Calls /\ CallOrder[c] \in Nat
      BY <1>2, <2>6, CallOrderType
    <3>2. CASE n \in Queued(p)'
      BY <1>1, <2>2, <3>1, <3>2
    <3>3. ASSUME NEW v \in Pool(p), n # NoMatch, job'[v] = n,
                 CallOrder[c] >= CallOrder[wpc'[v]]
          PROVE  <<n, c>> \in T
      <4>1. CASE v # w
        BY <1>1, <2>1, <3>1, <3>3, <4>1
      <4>2. CASE v = w
        <5>1. /\ n = m /\ wpc'[w] \in Calls /\ CallOrder[wpc'[w]] > CallOrder[wpc[w]]
              /\ CallOrder[wpc'[w]] \in Nat
          BY <2>1, <3>3, <4>2, CallOrderType
        <5>2. CallOrder[c] >= CallOrder[wpc[w]]
          BY <2>5, <3>1, <3>3, <4>2, <5>1
        <5> QED BY <1>0, <1>1, <3>1, <3>3, <5>1, <5>2 DEF m
      <4> QED BY <4>1, <4>2
    <3> QED BY <1>2, <2>6, <3>2, <3>3
  <2>7. <<m, wpc[w]>> \in T
    BY <1>0, <1>1, <2>3, <2>5 DEF m
  <2>8. <<m, wpc[w]>> \notin S
    <3>1. \A v \in Pool(p) : job'[v] = m => v = w
      BY <2>1, <2>4
    <3>2. job'[w] = m => CallOrder[wpc'[w]] \in Nat /\ CallOrder[wpc'[w]] > CallOrder[wpc[w]]
      BY <2>1, <2>3, CallOrderType
    <3>3. job'[w] = m => ~(CallOrder[wpc[w]] >= CallOrder[wpc'[w]])
      BY <2>5, <3>2
    <3> QED BY <1>2, <2>2, <2>4, <3>1, <3>3
  <2> QED BY <1>5, <1>a, <2>6, <2>7, <2>8
<1> QED BY <1>6, <1>7

\* A step of the pipeline ends p, passes it by, or is one of its own.
LEMMA ShutdownStep ==
  ASSUME TypeOK, TypeOK', ClaimedOnce, CurTaken, [Next]_vars,
         NEW p \in Proc, phase[p] \in {"stopping", "draining"}
  PROVE  \/ phase'[p] = "down"
         \/ Memory(p)' = Memory(p)
         \/ Less(LoopAhead(p)', LoopAhead(p))
         \/ LoopAhead(p)' = LoopAhead(p) /\ Less(WorkAhead(p)', WorkAhead(p))
<1> DEFINE Goal == \/ phase'[p] = "down"
                   \/ Memory(p)' = Memory(p)
                   \/ Less(LoopAhead(p)', LoopAhead(p))
                   \/ LoopAhead(p)' = LoopAhead(p) /\ Less(WorkAhead(p)', WorkAhead(p))
<1> USE DEF loopVars, poolVars, workVars
<1>0. /\ loop \in [Proc -> {"match", "dispatch", "claim", "send"}]
      /\ phase \in [Proc -> {"running", "stopping", "draining", "down"}]
      /\ batch \in [Proc -> SUBSET Match] /\ cur \in [Proc -> Match \cup {NoMatch}]
      /\ jobs \in [Proc -> Seq(Match)]
      /\ wpc \in [Worker -> Calls] /\ job \in [Worker -> Match \cup {NoMatch}]
  BY DEF TypeOK, LoopTypes, PoolTypes, WorkTypes
<1>a. ASSUME /\ phase'[p] = phase[p] /\ loop'[p] = loop[p] /\ batch'[p] = batch[p]
             /\ cur'[p] = cur[p] /\ jobs'[p] = jobs[p]
             /\ \A w \in Pool(p) : wpc'[w] = wpc[w] /\ job'[w] = job[w]
      PROVE  Goal
  <2>1. [w \in Pool(p) |-> <<wpc[w], job[w]>>]' = [w \in Pool(p) |-> <<wpc[w], job[w]>>]
    BY <1>a DEF Pool
  <2> QED BY <1>a, <2>1 DEF Memory
<1>1. ASSUME NEW q \in Proc, Scan(q) \/ Cancel(q) \/ Restart(q) \/ \E m \in Match : FormMatch(q, m)
      PROVE  Goal
  <2>1. q # p \/ UNCHANGED <<loopVars, jobs, workVars>>
    BY <1>1 DEF Scan, Cancel, Restart, FormMatch, Running
  <2> QED BY <1>0, <1>1, <1>a, <2>1 DEF Scan, Cancel, Restart, FormMatch
<1>2. ASSUME NEW q \in Proc, Dispatch(q) \/ CloseJobs(q) PROVE Goal
  <2>1. CASE q = p
    BY <1>2, <2>1, LoopSteps
  <2>2. CASE q # p
    <3>1. /\ phase'[p] = phase[p] /\ loop'[p] = loop[p] /\ batch'[p] = batch[p]
          /\ cur'[p] = cur[p] /\ jobs'[p] = jobs[p] /\ UNCHANGED workVars
      BY <1>0, <1>2, <2>2 DEF Dispatch, SkipAbandoned, CheckAttempts, SkipDispatched, Claim,
                              Send, SendCancelled, EndTick, CloseJobs
    <3> QED BY <1>a, <3>1
  <2> QED BY <2>1, <2>2
<1>3. ASSUME NEW q \in Proc, Drained(q) \/ Crash(q) PROVE Goal
  <2>1. Forget(q)
    BY <1>3 DEF Drained, Crash
  <2>2. CASE q = p
    BY <1>0, <2>1, <2>2 DEF Forget
  <2>3. CASE q # p
    BY <1>0, <1>a, <2>1, <2>3 DEF Forget, Pool
  <2> QED BY <2>2, <2>3
<1>4. ASSUME NEW w \in Worker, Work(w) PROVE Goal
  <2>1. CASE Owner[w] = p
    BY <1>4, <2>1, WorkSteps
  <2>2. CASE Owner[w] # p
    <3>1. /\ UNCHANGED <<phase, loop, batch, cur>> /\ jobs'[p] = jobs[p]
          /\ \A v \in Worker : v # w => wpc'[v] = wpc[v] /\ job'[v] = job[v]
      <4>1. CASE Receive(w) \/ Release(w)
        BY <1>0, <2>2, <4>1 DEF Receive, Release
      <4>2. CASE ~Receive(w) /\ ~Release(w)
        BY <1>0, <1>4, <4>2, CallsAdvance
      <4> QED BY <4>1, <4>2
    <3>2. \A v \in Pool(p) : v \in Worker /\ v # w
      BY <2>2 DEF Pool
    <3> QED BY <1>a, <3>1, <3>2
  <2> QED BY <2>1, <2>2
<1>5. ASSUME NEW m \in Match, LandLate(m) PROVE Goal
  BY <1>5, <1>a DEF LandLate
<1>6. CASE UNCHANGED vars
  BY <1>6, <1>a DEF vars
<1> QED BY <1>1, <1>2, <1>3, <1>4, <1>5, <1>6 DEF Next

\* A process that was told to stop has less to do after each of its steps, whatever
\* the database, the ledger and the other processes do meanwhile.
THEOREM ShutdownAdvancesAlways == Spec => ShutdownAdvances
<1>1. Init => CurTaken
  BY DEF Init, CurTaken
<1>2. TypeOK /\ TypeOK' /\ ClaimedOnce /\ CurTaken /\ [Next]_vars =>
        [\A p \in Proc : phase[p] \in {"stopping", "draining"} =>
          \/ phase'[p] = "down"
          \/ Memory(p)' = Memory(p)
          \/ Less(LoopAhead(p)', LoopAhead(p))
          \/ LoopAhead(p)' = LoopAhead(p) /\ Less(WorkAhead(p)', WorkAhead(p))]_vars
  BY ShutdownStep
<1> QED
  BY <1>1, <1>2, CurTakenStep, TypeCorrect, ClaimedOnceAlways, PTL DEF Spec, ShutdownAdvances

-----------------------------------------------------------------------------
(* ... and what is ahead of it is finite.                                   *)

\* A scan returns at most BatchSize rows, however many there are: each has another
\* number of rows before it.
LEMMA OldestFinite ==
  ASSUME NEW S \in SUBSET Nat
  PROVE  IsFiniteSet(Oldest(S)) /\ Cardinality(Oldest(S)) <= BatchSize
<1> DEFINE Before(m) == {k \in S : k < m}
           f == [m \in Oldest(S) |-> Cardinality(Before(m))]
<1>0. BatchSize \in Nat \ {0}
  BY ConstantsAssumption
<1>1. ASSUME NEW m \in S
      PROVE  IsFiniteSet(Before(m)) /\ Cardinality(Before(m)) \in Nat
  <2>1. m \in Nat
    OBVIOUS
  <2>2. IsFiniteSet(0..m)
    BY <2>1, FS_Interval
  <2>3. Before(m) \in SUBSET (0..m)
    <3>1. \A k \in S : k \in Nat
      OBVIOUS
    <3>2. \A k \in Nat : k < m => k \in 0..m
      BY <2>1
    <3> QED BY <3>1, <3>2
  <2>4. IsFiniteSet(Before(m))
    BY <2>2, <2>3, FS_Subset
  <2> QED BY <2>4, FS_CardinalityType
<1>2. ASSUME NEW m \in S, NEW n \in S, m < n
      PROVE  Cardinality(Before(m)) # Cardinality(Before(n))
  <2>1. Before(m) \in SUBSET Before(n) /\ m \in Before(n) /\ m \notin Before(m)
    <3>1. m \in Nat /\ n \in Nat /\ \A k \in S : k \in Nat
      OBVIOUS
    <3>2. ~(m < m) /\ \A k \in Nat : k < m => k < n
      BY <1>2, <3>1
    <3> QED BY <1>2, <3>1, <3>2
  <2> HIDE DEF Before
  <2> QED BY <1>1, <2>1, FS_Subset
<1>3. f \in [Oldest(S) -> 0..(BatchSize - 1)]
  <2>1. \A m \in Oldest(S) : m \in S /\ Cardinality(Before(m)) < BatchSize
    BY DEF Oldest
  <2>2. \A m \in Oldest(S) : Cardinality(Before(m)) \in Nat
    BY <1>1, <2>1
  <2>3. \A m \in Oldest(S) : Cardinality(Before(m)) \in 0..(BatchSize - 1)
    BY <1>0, <2>1, <2>2
  <2> QED BY <2>3
<1>4. \A m, n \in Oldest(S) : f[m] = f[n] => m = n
  <2>1. \A m, n \in Oldest(S) : m \in S /\ n \in S
    BY DEF Oldest
  <2>2. \A m, n \in S : m = n \/ m < n \/ n < m
    OBVIOUS
  <2> HIDE DEF Before
  <2> QED BY <1>2, <2>1, <2>2
<1>5. f \in Injection(Oldest(S), 0..(BatchSize - 1))
  BY <1>3, <1>4 DEF Injection, IsInjective
<1>6. IsFiniteSet(0..(BatchSize - 1)) /\ Cardinality(0..(BatchSize - 1)) = BatchSize
  BY <1>0, FS_Interval
<1> HIDE DEF f
<1> QED BY <1>5, <1>6, FS_Injection

\* Batches and the ids in flight are finite sets.
HandsFinite == \A p \in Proc : IsFiniteSet(batch[p]) /\ IsFiniteSet(inflight[p])

LEMMA HandsFiniteStep == TypeOK /\ HandsFinite /\ [Next]_vars => HandsFinite'
<1> SUFFICES ASSUME TypeOK, HandsFinite, [Next]_vars PROVE HandsFinite'
  OBVIOUS
<1> USE DEF loopVars, poolVars
<1>0. batch \in [Proc -> SUBSET Match] /\ inflight \in [Proc -> SUBSET Match]
  BY DEF TypeOK, LoopTypes, PoolTypes
\* Both may shrink; a scan fills a batch and a claim adds one id.
<1>a. ASSUME NEW p \in Proc,
             \A q \in Proc \ {p} : batch'[q] = batch[q] /\ inflight'[q] = inflight[q],
             \/ batch'[p] \subseteq batch[p]
             \/ \E S \in SUBSET Nat : batch'[p] = Oldest(S),
             \E m : inflight'[p] \subseteq inflight[p] \cup {m}
      PROVE  HandsFinite'
  <2>1. IsFiniteSet(batch[p]) /\ IsFiniteSet(inflight[p])
    BY DEF HandsFinite
  <2>2. IsFiniteSet(batch'[p])
    BY <1>a, <2>1, FS_Subset, OldestFinite
  <2>3. PICK m : inflight'[p] \subseteq inflight[p] \cup {m}
    BY <1>a
  <2>4. IsFiniteSet(inflight[p] \cup {m})
    BY <2>1, FS_AddElement
  <2>5. IsFiniteSet(inflight'[p])
    BY <2>3, <2>4, FS_Subset
  <2> QED BY <1>a, <2>2, <2>5 DEF HandsFinite
<1>b. ASSUME UNCHANGED <<batch, inflight>> PROVE HandsFinite'
  BY <1>b DEF HandsFinite
<1>1. ASSUME NEW p \in Proc, Scan(p) PROVE HandsFinite'
  <2>1. /\ {m \in Formed : ~proof[m]} \in SUBSET Nat
        /\ {m \in Formed : status[m] # "confirmed"} \in SUBSET Nat
    BY ConstantsAssumption DEF Formed
  <2>2. batch'[p] = UnsettledMatchIDs \/ batch'[p] = UnprovenMatchIDs
    BY <1>0, <1>1 DEF Scan
  <2>3. \E S \in SUBSET Nat : batch'[p] = Oldest(S)
    BY <2>1, <2>2 DEF UnsettledMatchIDs, UnprovenMatchIDs
  <2>4. \A q \in Proc \ {p} : batch'[q] = batch[q] /\ inflight'[q] = inflight[q]
    BY <1>0, <1>1 DEF Scan
  <2>5. inflight'[p] \subseteq inflight[p] \cup {NoMatch}
    BY <1>1 DEF Scan
  <2> QED BY <1>a, <2>3, <2>4, <2>5
<1>2. ASSUME NEW p \in Proc, Dispatch(p) PROVE HandsFinite'
  <2>1. /\ \A q \in Proc \ {p} : batch'[q] = batch[q] /\ inflight'[q] = inflight[q]
        /\ batch'[p] \subseteq batch[p]
        /\ inflight'[p] \subseteq inflight[p] \cup {cur[p]}
    BY <1>0, <1>2 DEF Dispatch, SkipAbandoned, CheckAttempts, SkipDispatched, Claim, Send,
                      SendCancelled, EndTick
  <2> QED BY <1>a, <2>1
<1>3. ASSUME NEW p \in Proc, Drained(p) \/ Crash(p) PROVE HandsFinite'
  <2>1. /\ \A q \in Proc \ {p} : batch'[q] = batch[q] /\ inflight'[q] = inflight[q]
        /\ batch'[p] = {} /\ inflight'[p] = {}
    BY <1>0, <1>3 DEF Drained, Crash, Forget
  <2> QED BY <1>a, <2>1
<1>4. ASSUME NEW p \in Proc, \/ \E m \in Match : FormMatch(p, m)
                             \/ Cancel(p) \/ CloseJobs(p) \/ Restart(p)
      PROVE  HandsFinite'
  BY <1>b, <1>4 DEF FormMatch, Cancel, CloseJobs, Restart
<1>5. ASSUME NEW w \in Worker, Release(w) PROVE HandsFinite'
  <2>1. PICK p \in Proc : p = Owner[w]
    BY ConstantsAssumption
  <2>2. /\ \A q \in Proc \ {p} : batch'[q] = batch[q] /\ inflight'[q] = inflight[q]
        /\ batch'[p] \subseteq batch[p] /\ inflight'[p] \subseteq inflight[p] \cup {NoMatch}
    BY <1>0, <1>5, <2>1 DEF Release
  <2> QED BY <1>a, <2>2
<1>6. ASSUME NEW w \in Worker, Work(w), ~Release(w) PROVE HandsFinite'
  BY <1>b, <1>6 DEF Work, Receive, Generate, GenerateFailed, SetProof, SetProofFailed,
       Prepare, PrepareFailed, KnownSettled, NotYetSettled, IsSettledFailed, Submit, Land,
       InvokeOk, InvokeFailed, Record, RecordFailed, Fail
<1>7. ASSUME NEW m \in Match, LandLate(m) PROVE HandsFinite'
  BY <1>b, <1>7 DEF LandLate
<1>8. CASE UNCHANGED vars
  BY <1>b, <1>8 DEF vars
<1> QED BY <1>1, <1>2, <1>3, <1>4, <1>5, <1>6, <1>7, <1>8 DEF Next

AheadFinite == \A p \in Proc : IsFiniteSet(LoopAhead(p)) /\ IsFiniteSet(WorkAhead(p))

LEMMA AheadIsFinite == ClaimedOnce /\ HandsFinite => AheadFinite
<1> SUFFICES ASSUME ClaimedOnce, HandsFinite, NEW p \in Proc
             PROVE  IsFiniteSet(LoopAhead(p)) /\ IsFiniteSet(WorkAhead(p))
  BY DEF AheadFinite
<1> DEFINE Steps == {"check", "claim", "send", "tick", "close"}
           Ids == (batch[p] \cup {cur[p]}) \cup {NoMatch}
<1>1. IsFiniteSet(batch[p]) /\ IsFiniteSet(inflight[p])
  BY DEF HandsFinite
<1>2. IsFiniteSet(Steps)
  <2>1. IsFiniteSet({})
    BY FS_EmptySet
  <2>2. IsFiniteSet({} \cup {"check"})
    BY <2>1, FS_AddElement
  <2>3. IsFiniteSet(({} \cup {"check"}) \cup {"claim"})
    BY <2>2, FS_AddElement
  <2>4. IsFiniteSet((({} \cup {"check"}) \cup {"claim"}) \cup {"send"})
    BY <2>3, FS_AddElement
  <2>5. IsFiniteSet(((({} \cup {"check"}) \cup {"claim"}) \cup {"send"}) \cup {"tick"})
    BY <2>4, FS_AddElement
  <2>6. IsFiniteSet((((({} \cup {"check"}) \cup {"claim"}) \cup {"send"}) \cup {"tick"}) \cup {"close"})
    BY <2>5, FS_AddElement
  <2>7. Steps = (((({} \cup {"check"}) \cup {"claim"}) \cup {"send"}) \cup {"tick"}) \cup {"close"}
    OBVIOUS
  <2> QED BY <2>6, <2>7
<1>3. IsFiniteSet(Ids)
  BY <1>1, FS_AddElement
<1>4. IsFiniteSet(LoopAhead(p))
  <2>1. LoopAhead(p) \in SUBSET (Ids \X Steps)
    BY DEF LoopAhead
  <2> HIDE DEF Ids, Steps
  <2> QED BY <1>2, <1>3, <2>1, FS_Product, FS_Subset
<1>5. IsFiniteSet(WorkAhead(p))
  <2>1. Queued(p) \subseteq inflight[p] /\ Held(p) \subseteq inflight[p]
    BY DEF ClaimedOnce
  <2>2. WorkAhead(p) \in SUBSET (inflight[p] \X Calls)
    BY <2>1 DEF WorkAhead
  <2>3. IsFiniteSet(Calls)
    <3> DEFINE g == [c \in Calls |-> CallOrder[c]]
    <3>1. \A c, d \in Calls : CallOrder[c] = CallOrder[d] => c = d
      BY DEF Calls, CallOrder
    <3>2. g \in [Calls -> 0..10]
      BY CallOrderType
    <3>3. g \in Injection(Calls, 0..10)
      BY <3>1, <3>2 DEF Injection, IsInjective
    <3>4. IsFiniteSet(0..10)
      <4>1. 0 \in Int /\ 10 \in Int
        OBVIOUS
      <4> QED BY <4>1, FS_Interval
    <3> HIDE DEF g
    <3> QED BY <3>3, <3>4, FS_Injection
  <2> QED BY <1>1, <2>2, <2>3, FS_Product, FS_Subset
<1> QED BY <1>4, <1>5

\* A shutdown is over after finitely many steps of its process: with
\* ShutdownAdvances, which makes the two sets shrink in turn.
THEOREM ShutdownIsFinite == Spec => []AheadFinite
<1>1. Init => HandsFinite
  <2> SUFFICES ASSUME Init PROVE HandsFinite
    OBVIOUS
  <2>1. \A p \in Proc : batch[p] = {} /\ inflight[p] = {}
    BY DEF Init
  <2> QED BY <2>1, FS_EmptySet DEF HandsFinite
<1> QED BY <1>1, HandsFiniteStep, AheadIsFinite, TypeCorrect, ClaimedOnceAlways, PTL DEF Spec
=============================================================================
