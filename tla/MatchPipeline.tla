--------------------------- MODULE MatchPipeline ---------------------------
(***************************************************************************)
(* The engine's proving and settlement pipeline                            *)
(* (engine/internal/matcher/matcher.go): in every engine process one poll  *)
(* loop scans the database for matches that are not finished and sends     *)
(* them over a bounded channel to a pool of workers; a worker proves a     *)
(* match, asks the contract whether it is already settled, submits the     *)
(* settlement transaction and records the outcome.  Processes share only   *)
(* the database and the ledger.  A process may crash or be stopped at any  *)
(* step, and a transaction its worker gave up on may still reach the       *)
(* ledger later.                                                           *)
(*                                                                         *)
(* A match is a number: its place in the order of created_at.  Its two     *)
(* orders change status together (CreateMatch and MarkSettled each update  *)
(* both in one transaction), so one variable holds both.  A database write *)
(* that returns an error may or may not have been applied.                 *)
(***************************************************************************)
EXTENDS Naturals, Sequences, FiniteSets

CONSTANTS
    Proc,        \* engine processes
    Worker,      \* worker goroutines of all processes
    Owner,       \* Owner[w]: the process that runs worker w
    Match,       \* matches, in the order of their created_at
    Provable,    \* matches whose orders decode and satisfy the circuit
    HasProver,   \* processes whose circuit artifacts are present
    OnchainOn,   \* processes with a settlement contract configured
    MaxProofAttempts,
    BatchSize,   \* LIMIT of the scan
    JobsCap,     \* capacity of the jobs channel (2 * Workers + 1 in the code)
    MaxStops     \* bound of the model: how often processes stop or crash

ASSUME ConstantsAssumption ==
    /\ Match \subseteq Nat \ {0}
    /\ Provable \subseteq Match
    /\ Owner \in [Worker -> Proc]
    /\ HasProver \subseteq Proc
    /\ OnchainOn \subseteq Proc
    /\ MaxProofAttempts \in Nat \ {0}
    /\ BatchSize \in Nat \ {0}
    /\ JobsCap \in Nat \ {0}
    /\ MaxStops \in Nat

VARIABLES
    \* The database.
    orders,    \* orders[m]: status of both orders of match m
    proof,     \* proof[m]: proof_blob is not NULL
    status,    \* status[m]: onchain_status
    tx,        \* tx[m]: settlement_tx
    \* The ledger.
    chain,     \* matches the verifier contract has recorded as settled
    adrift,    \* matches with a submitted transaction nobody waits for
    \* The memory of each process.
    phase,     \* running, stopping, draining or down
    loop,      \* where the poll loop is
    batch,     \* ids of the current scan still to be dispatched
    cur,       \* the id being dispatched
    inflight,  \* ids dispatched and not yet finished
    failures,  \* consecutive failures per id
    jobs,      \* the jobs channel
    wpc,       \* wpc[w]: the call worker w makes next
    job,       \* job[w]: the id worker w has in hand
    stops      \* how often a process has stopped or crashed so far

rowVars  == <<orders, proof, status, tx>>
netVars  == <<chain, adrift>>
loopVars == <<phase, loop, batch, cur>>
poolVars == <<inflight, failures, jobs>>
workVars == <<wpc, job>>
vars     == <<rowVars, netVars, loopVars, poolVars, workVars, stops>>

NoMatch == 0
Statuses == {"pending", "submitted", "confirmed", "failed"}
Calls == {"idle", "prove", "setProof", "prepare", "isSettled", "submit", "invoke",
          "landed", "recordTx", "recordKnown", "release"}

Init ==
    /\ orders = [m \in Match |-> "open"]
    /\ proof = [m \in Match |-> FALSE]
    /\ status = [m \in Match |-> "pending"]
    /\ tx = [m \in Match |-> "null"]
    /\ chain = {}
    /\ adrift = {}
    /\ phase = [p \in Proc |-> "running"]
    /\ loop = [p \in Proc |-> "match"]
    /\ batch = [p \in Proc |-> {}]
    /\ cur = [p \in Proc |-> NoMatch]
    /\ inflight = [p \in Proc |-> {}]
    /\ failures = [p \in Proc |-> [m \in Match |-> 0]]
    /\ jobs = [p \in Proc |-> <<>>]
    /\ wpc = [w \in Worker |-> "idle"]
    /\ job = [w \in Worker |-> NoMatch]
    /\ stops = 0

Formed == {m \in Match : orders[m] # "open"}
Pool(p) == {w \in Worker : Owner[w] = p}
Running(p) == phase[p] = "running"

-----------------------------------------------------------------------------
(* The poll loop: Run and tick. *)

\* matchOnce, seen from here: a crossing pair becomes a match.
FormMatch(p, m) ==
    /\ Running(p) /\ loop[p] = "match"
    /\ orders[m] = "open"
    /\ orders' = [orders EXCEPT ![m] = "matched"]
    /\ UNCHANGED <<proof, status, tx, netVars, loopVars, poolVars, workVars, stops>>

\* The rows of S that ORDER BY created_at LIMIT BatchSize returns.
Oldest(S) == {m \in S : Cardinality({k \in S : k < m}) < BatchSize}

UnprovenMatchIDs == Oldest({m \in Formed : ~proof[m]})
UnsettledMatchIDs == Oldest({m \in Formed : status[m] # "confirmed"})

\* Mutant: the scan does not take the context.
ScanUncancelled(p) ==
    /\ phase[p] \in {"running", "stopping"} /\ loop[p] = "match"
    /\ batch' = [batch EXCEPT ![p] =
                    IF p \in OnchainOn THEN UnsettledMatchIDs ELSE UnprovenMatchIDs]
    /\ loop' = [loop EXCEPT ![p] = "dispatch"]
    /\ UNCHANGED <<rowVars, netVars, phase, cur, poolVars, workVars, stops>>

Scan(p) ==
    /\ Running(p) /\ loop[p] = "match"
    /\ batch' = [batch EXCEPT ![p] =
                    IF p \in OnchainOn THEN UnsettledMatchIDs ELSE UnprovenMatchIDs]
    /\ loop' = [loop EXCEPT ![p] = "dispatch"]
    /\ UNCHANGED <<rowVars, netVars, phase, cur, poolVars, workVars, stops>>

\* m is the next id of the scan's result.
IsNext(p, m) == m \in batch[p] /\ \A k \in batch[p] : m <= k

SkipAbandoned(p) ==
    /\ loop[p] = "dispatch"
    /\ \E m \in Match :
          /\ IsNext(p, m)
          /\ failures[p][m] >= MaxProofAttempts
          /\ batch' = [batch EXCEPT ![p] = @ \ {m}]
    /\ UNCHANGED <<rowVars, netVars, phase, loop, cur, poolVars, workVars, stops>>

\* Mutant: the attempts are not checked.
CheckNothing(p) ==
    /\ loop[p] = "dispatch"
    /\ \E m \in Match : /\ IsNext(p, m)
                        /\ batch' = [batch EXCEPT ![p] = @ \ {m}]
                        /\ cur' = [cur EXCEPT ![p] = m]
    /\ loop' = [loop EXCEPT ![p] = "claim"]
    /\ UNCHANGED <<rowVars, netVars, phase, poolVars, workVars, stops>>

\* The attempts check passed; the claim on inflight is a later step.
CheckAttempts(p) ==
    /\ loop[p] = "dispatch"
    /\ \E m \in Match :
          /\ IsNext(p, m)
          /\ failures[p][m] < MaxProofAttempts
          /\ batch' = [batch EXCEPT ![p] = @ \ {m}]
          /\ cur' = [cur EXCEPT ![p] = m]
    /\ loop' = [loop EXCEPT ![p] = "claim"]
    /\ UNCHANGED <<rowVars, netVars, phase, poolVars, workVars, stops>>

SkipDispatched(p) ==
    /\ loop[p] = "claim"
    /\ cur[p] \in inflight[p]
    /\ loop' = [loop EXCEPT ![p] = "dispatch"]
    /\ cur' = [cur EXCEPT ![p] = NoMatch]
    /\ UNCHANGED <<rowVars, netVars, phase, batch, poolVars, workVars, stops>>

\* Mutant: Store instead of LoadOrStore.
ClaimAnyway(p) ==
    /\ loop[p] = "claim"
    /\ inflight' = [inflight EXCEPT ![p] = @ \cup {cur[p]}]
    /\ loop' = [loop EXCEPT ![p] = "send"]
    /\ UNCHANGED <<rowVars, netVars, phase, batch, cur, failures, jobs, workVars, stops>>

Claim(p) ==
    /\ loop[p] = "claim"
    /\ cur[p] \notin inflight[p]
    /\ inflight' = [inflight EXCEPT ![p] = @ \cup {cur[p]}]
    /\ loop' = [loop EXCEPT ![p] = "send"]
    /\ UNCHANGED <<rowVars, netVars, phase, batch, cur, failures, jobs, workVars, stops>>

\* jobs <- id, which blocks while the channel is full.
Send(p) ==
    /\ loop[p] = "send"
    /\ Len(jobs[p]) < JobsCap
    /\ jobs' = [jobs EXCEPT ![p] = Append(@, cur[p])]
    /\ loop' = [loop EXCEPT ![p] = "dispatch"]
    /\ cur' = [cur EXCEPT ![p] = NoMatch]
    /\ UNCHANGED <<rowVars, netVars, phase, batch, inflight, failures, workVars, stops>>

\* <-ctx.Done(): give the claim back and leave the tick.
SendCancelled(p) ==
    /\ loop[p] = "send" /\ phase[p] = "stopping"
    /\ inflight' = [inflight EXCEPT ![p] = @ \ {cur[p]}]
    /\ loop' = [loop EXCEPT ![p] = "match"]
    /\ batch' = [batch EXCEPT ![p] = {}]
    /\ cur' = [cur EXCEPT ![p] = NoMatch]
    /\ UNCHANGED <<rowVars, netVars, phase, failures, jobs, workVars, stops>>

EndTick(p) ==
    /\ loop[p] = "dispatch" /\ batch[p] = {}
    /\ loop' = [loop EXCEPT ![p] = "match"]
    /\ UNCHANGED <<rowVars, netVars, phase, batch, cur, poolVars, workVars, stops>>

Dispatch(p) == \/ SkipAbandoned(p) \/ CheckAttempts(p) \/ SkipDispatched(p)
               \/ Claim(p) \/ Send(p) \/ SendCancelled(p) \/ EndTick(p)

-----------------------------------------------------------------------------
(* The workers: proveAndSettle and settleOnchain. *)

Goto(w, c) == wpc' = [wpc EXCEPT ![w] = c] /\ UNCHANGED job

\* The match goes from call a to call b; the process's context is alive.
Step(w, a, b) == wpc[w] = a /\ Running(Owner[w]) /\ Goto(w, b)

bumpFailure(w) == failures' = [failures EXCEPT ![Owner[w]][job[w]] = @ + 1]
clearFailures(w) == failures' = [failures EXCEPT ![Owner[w]][job[w]] = 0]

\* id := <-jobs.  Workers drain the channel after it is closed.
Receive(w) ==
    LET p == Owner[w] IN
    /\ wpc[w] = "idle"
    /\ jobs[p] # <<>>
    /\ jobs' = [jobs EXCEPT ![p] = Tail(@)]
    /\ job' = [job EXCEPT ![w] = Head(jobs[p])]
    /\ wpc' = [wpc EXCEPT ![w] = IF p \in HasProver THEN "prove" ELSE "release"]
    /\ UNCHANGED <<rowVars, netVars, loopVars, inflight, failures, stops>>

\* MatchOrders and prover.Generate succeed.
Generate(w) ==
    /\ Step(w, "prove", "setProof")
    /\ job[w] \in Provable
    /\ UNCHANGED <<rowVars, netVars, loopVars, poolVars, stops>>

\* Mutant: the worker tries again at once, whatever became of its context.
GenerateRetried(w) == wpc[w] = "prove" /\ UNCHANGED vars

\* Either of them fails, or runs into its timeout or the cancelled context.
GenerateFailed(w) ==
    /\ wpc[w] = "prove" /\ Goto(w, "release")
    /\ bumpFailure(w)
    /\ UNCHANGED <<rowVars, netVars, loopVars, inflight, jobs, stops>>

\* SetProof succeeds: the last step when there is no contract to settle on.
SetProof(w) ==
    /\ Step(w, "setProof", IF Owner[w] \in OnchainOn THEN "prepare" ELSE "release")
    /\ proof' = [proof EXCEPT ![job[w]] = TRUE]
    /\ IF Owner[w] \in OnchainOn THEN UNCHANGED failures ELSE clearFailures(w)
    /\ UNCHANGED <<orders, status, tx, netVars, loopVars, inflight, jobs, stops>>

\* Mutant: the error is logged but the worker goes on.
SetProofIgnored(w) ==
    /\ Step(w, "setProof", "prepare")
    /\ UNCHANGED <<rowVars, netVars, loopVars, poolVars, stops>>

\* An error of SetProof does not count as a failed attempt.
SetProofFailed(w) ==
    /\ wpc[w] = "setProof" /\ Goto(w, "release")
    /\ \/ proof' = [proof EXCEPT ![job[w]] = TRUE]
       \/ UNCHANGED proof
    /\ UNCHANGED <<orders, status, tx, netVars, loopVars, poolVars, stops>>

\* Mutant: without the guard <> 'confirmed'.
SetOnchainAnyway(m, s) ==
    /\ status' = [status EXCEPT ![m] = s]
    /\ tx' = [tx EXCEPT ![m] = "null"]

\* SetOnchain never downgrades a confirmed row; its callers ignore its error.
SetOnchain(m, s) ==
    \/ /\ status[m] # "confirmed"
       /\ status' = [status EXCEPT ![m] = s]
       /\ tx' = [tx EXCEPT ![m] = "null"]
    \/ UNCHANGED <<status, tx>>

\* The closure `fail` of settleOnchain.
Fail(w) ==
    /\ Goto(w, "release")
    /\ bumpFailure(w)
    /\ SetOnchain(job[w], "failed")
    /\ UNCHANGED <<orders, proof, chain, loopVars, inflight, jobs, stops>>

\* ResolveAddress and ToHexProof.
Prepare(w) ==
    /\ Step(w, "prepare", "isSettled")
    /\ UNCHANGED <<rowVars, netVars, loopVars, poolVars, stops>>

PrepareFailed(w) == wpc[w] = "prepare" /\ Fail(w) /\ UNCHANGED adrift

\* Mutant: any answer of the CLI counts as true.
KnownSettledAnyway(w) ==
    /\ Step(w, "isSettled", "recordKnown")
    /\ clearFailures(w)
    /\ UNCHANGED <<rowVars, netVars, loopVars, inflight, jobs, stops>>

\* The contract knows the match: only record it.
KnownSettled(w) ==
    /\ Step(w, "isSettled", "recordKnown")
    /\ job[w] \in chain
    /\ clearFailures(w)
    /\ UNCHANGED <<rowVars, netVars, loopVars, inflight, jobs, stops>>

\* The circuit has two public signals, so that the length matcher.go:280 asks for is
\* always there.
NotYetSettled(w) ==
    /\ Step(w, "isSettled", "submit")
    /\ job[w] \notin chain
    /\ UNCHANGED <<rowVars, netVars, loopVars, poolVars, stops>>

\* The read failed: defer, leaving the status alone.
IsSettledFailed(w) ==
    /\ wpc[w] = "isSettled" /\ Goto(w, "release")
    /\ bumpFailure(w)
    /\ UNCHANGED <<rowVars, netVars, loopVars, inflight, jobs, stops>>

\* Mutant: a status of the orders table is written to onchain_status.
SubmitMisnamed(w) ==
    /\ wpc[w] = "submit" /\ Goto(w, "invoke")
    /\ SetOnchain(job[w], "matched")
    /\ UNCHANGED <<orders, proof, netVars, loopVars, poolVars, stops>>

Submit(w) ==
    /\ wpc[w] = "submit" /\ Goto(w, "invoke")
    /\ SetOnchain(job[w], "submitted")
    /\ UNCHANGED <<orders, proof, netVars, loopVars, poolVars, stops>>

\* verify_and_settle is applied; the contract accepts a match only once.
Land(w) ==
    /\ wpc[w] = "invoke" /\ Goto(w, "landed")
    /\ job[w] \notin chain
    /\ chain' = chain \cup {job[w]}
    /\ UNCHANGED <<rowVars, adrift, loopVars, poolVars, stops>>

InvokeOk(w) ==
    /\ Step(w, "landed", "recordTx")
    /\ clearFailures(w)
    /\ UNCHANGED <<rowVars, netVars, loopVars, inflight, jobs, stops>>

\* The CLI exits with an error: the transaction was rejected or never sent, or
\* its outcome was not seen, because it landed already or may land later.
InvokeFailed(w) ==
    /\ \/ wpc[w] \in {"invoke", "landed"} /\ UNCHANGED adrift
       \/ wpc[w] = "invoke" /\ job[w] \notin chain /\ adrift' = adrift \cup {job[w]}
    /\ Fail(w)

\* Mutant: the match is confirmed and its orders stay matched.
MarkMatchOnly(m, hash) ==
    /\ status' = [status EXCEPT ![m] = "confirmed"]
    /\ tx' = [tx EXCEPT ![m] = IF status[m] = "confirmed" THEN @ ELSE hash]
    /\ UNCHANGED orders

\* The row keeps the first confirmed write; the orders are settled regardless.
MarkSettled(m, hash) ==
    /\ IF status[m] = "confirmed"
       THEN UNCHANGED <<status, tx>>
       ELSE /\ status' = [status EXCEPT ![m] = "confirmed"]
            /\ tx' = [tx EXCEPT ![m] = hash]
    /\ orders' = [orders EXCEPT ![m] = "settled"]

Recording(w) == wpc[w] \in {"recordTx", "recordKnown"}

Record(w) ==
    /\ Recording(w) /\ Goto(w, "release")
    /\ MarkSettled(job[w], IF wpc[w] = "recordTx" THEN "hash" ELSE "null")
    /\ UNCHANGED <<proof, netVars, loopVars, poolVars, stops>>

\* Rolled back; a commit whose answer is lost is Record above.
RecordFailed(w) ==
    /\ Recording(w) /\ Goto(w, "release")
    /\ UNCHANGED <<rowVars, netVars, loopVars, poolVars, stops>>

\* Mutant: inflight.Delete(id) is forgotten.
ReleaseNothing(w) ==
    /\ wpc[w] = "release"
    /\ wpc' = [wpc EXCEPT ![w] = "idle"]
    /\ job' = [job EXCEPT ![w] = NoMatch]
    /\ UNCHANGED <<rowVars, netVars, loopVars, poolVars, stops>>

\* inflight.Delete(id) after proveAndSettle returned.
Release(w) ==
    /\ wpc[w] = "release"
    /\ inflight' = [inflight EXCEPT ![Owner[w]] = @ \ {job[w]}]
    /\ wpc' = [wpc EXCEPT ![w] = "idle"]
    /\ job' = [job EXCEPT ![w] = NoMatch]
    /\ UNCHANGED <<rowVars, netVars, loopVars, failures, jobs, stops>>

Work(w) == \/ Receive(w) \/ Generate(w) \/ GenerateFailed(w) \/ SetProof(w)
           \/ SetProofFailed(w) \/ Prepare(w) \/ PrepareFailed(w) \/ KnownSettled(w)
           \/ NotYetSettled(w) \/ IsSettledFailed(w) \/ Submit(w) \/ Land(w)
           \/ InvokeOk(w) \/ InvokeFailed(w) \/ Record(w) \/ RecordFailed(w)
           \/ Release(w)

\* A transaction its sender gave up on reaches the ledger after all.
LandLate(m) ==
    /\ m \in adrift
    /\ adrift' = adrift \ {m}
    /\ chain' = chain \cup {m}
    /\ UNCHANGED <<rowVars, loopVars, poolVars, workVars, stops>>

-----------------------------------------------------------------------------
(* Shutdown, crash and restart of a process. *)

\* SIGINT or SIGTERM cancels the root context.
Cancel(p) ==
    /\ Running(p) /\ stops < MaxStops
    /\ phase' = [phase EXCEPT ![p] = "stopping"]
    /\ stops' = stops + 1
    /\ UNCHANGED <<rowVars, netVars, loop, batch, cur, poolVars, workVars>>

\* The select of Run sees ctx.Done: close(jobs), then wg.Wait().
CloseJobs(p) ==
    /\ phase[p] = "stopping" /\ loop[p] = "match"
    /\ phase' = [phase EXCEPT ![p] = "draining"]
    /\ UNCHANGED <<rowVars, netVars, loop, batch, cur, poolVars, workVars, stops>>

\* The process is gone and with it its memory.
Forget(p) ==
    /\ phase' = [phase EXCEPT ![p] = "down"]
    /\ loop' = [loop EXCEPT ![p] = "match"]
    /\ batch' = [batch EXCEPT ![p] = {}]
    /\ cur' = [cur EXCEPT ![p] = NoMatch]
    /\ inflight' = [inflight EXCEPT ![p] = {}]
    /\ failures' = [failures EXCEPT ![p] = [m \in Match |-> 0]]
    /\ jobs' = [jobs EXCEPT ![p] = <<>>]
    /\ wpc' = [w \in Worker |-> IF Owner[w] = p THEN "idle" ELSE wpc[w]]
    /\ job' = [w \in Worker |-> IF Owner[w] = p THEN NoMatch ELSE job[w]]

\* wg.Wait() returns: the channel is drained and every worker has left it.
Drained(p) ==
    /\ phase[p] = "draining"
    /\ jobs[p] = <<>>
    /\ \A w \in Pool(p) : wpc[w] = "idle"
    /\ Forget(p)
    /\ UNCHANGED <<rowVars, netVars, stops>>

\* A crash; a transaction being submitted is adrift from now on, or was not sent.
Crash(p) ==
    /\ phase[p] # "down" /\ stops < MaxStops
    /\ stops' = stops + 1
    /\ Forget(p)
    /\ \E lost \in SUBSET {job[w] : w \in {v \in Pool(p) : wpc[v] = "invoke"}} :
          adrift' = adrift \cup (lost \ chain)
    /\ UNCHANGED <<rowVars, chain>>

Restart(p) ==
    /\ phase[p] = "down"
    /\ phase' = [phase EXCEPT ![p] = "running"]
    /\ UNCHANGED <<rowVars, netVars, loop, batch, cur, poolVars, workVars, stops>>

-----------------------------------------------------------------------------
Next == \/ \E p \in Proc : \/ \E m \in Match : FormMatch(p, m)
                           \/ Scan(p) \/ Dispatch(p)
                           \/ Cancel(p) \/ CloseJobs(p) \/ Drained(p)
                           \/ Crash(p) \/ Restart(p)
        \/ \E w \in Worker : Work(w)
        \/ \E m \in Match : LandLate(m)

Spec == Init /\ [][Next]_vars

\* Goroutines are scheduled and every call returns in the end (a proof after at
\* most proofTimeout, the others because the programs they run exit); a database
\* write that is retried for ever does not fail for ever.
Fairness ==
    /\ \A p \in Proc : /\ WF_vars(Scan(p)) /\ WF_vars(Dispatch(p))
                       /\ WF_vars(CloseJobs(p)) /\ WF_vars(Drained(p))
                       /\ WF_vars(Restart(p))
    /\ \A w \in Worker : /\ WF_vars(Work(w))
                         /\ SF_vars(SetProof(w)) /\ SF_vars(Record(w))

FairSpec == Spec /\ Fairness
-----------------------------------------------------------------------------
(* Properties. *)

RowTypes == /\ orders \in [Match -> {"open", "matched", "settled"}]
            /\ proof \in [Match -> BOOLEAN]
            /\ status \in [Match -> Statuses]
            /\ tx \in [Match -> {"null", "hash"}]
NetTypes == chain \subseteq Match /\ adrift \subseteq Match
LoopTypes == /\ phase \in [Proc -> {"running", "stopping", "draining", "down"}]
             /\ loop \in [Proc -> {"match", "dispatch", "claim", "send"}]
             /\ batch \in [Proc -> SUBSET Match]
             /\ cur \in [Proc -> Match \cup {NoMatch}]
             /\ \A p \in Proc : loop[p] \in {"claim", "send"} => cur[p] # NoMatch
PoolTypes == /\ inflight \in [Proc -> SUBSET Match]
             /\ failures \in [Proc -> [Match -> Nat]]
             /\ jobs \in [Proc -> Seq(Match)]
WorkTypes == /\ wpc \in [Worker -> Calls]
             /\ job \in [Worker -> Match \cup {NoMatch}]
             /\ \A w \in Worker : wpc[w] = "idle" <=> job[w] = NoMatch

TypeOK == RowTypes /\ NetTypes /\ LoopTypes /\ PoolTypes /\ WorkTypes /\ stops \in 0..MaxStops

\* A match recorded as confirmed is settled on the ledger, whoever recorded it,
\* from whatever reply, and however often processes died in between.
ConfirmedIsOnChain == \A m \in Match : status[m] = "confirmed" => m \in chain

\* A row that has left 'pending' has its proof stored, and so has every match
\* that reached the ledger.
NothingUnprovenLeaves ==
    \A m \in Match : (status[m] # "pending" \/ m \in chain) => proof[m]

\* Both orders are settled exactly when their match is confirmed: the two tables
\* never tell different stories.
TablesAgree == \A m \in Match : orders[m] = "settled" <=> status[m] = "confirmed"

\* Every id in the inflight map is held in exactly one place of its process: the
\* poll loop about to send it, one slot of the channel, or one worker.  No id is
\* worked on twice at once (bumpFailure is not atomic and relies on it), and none is
\* left behind to keep its match from ever being dispatched again.
Sending(p) == IF loop[p] = "send" THEN {cur[p]} ELSE {}
Queued(p) == {jobs[p][i] : i \in 1..Len(jobs[p])}
Held(p) == {job[w] : w \in Pool(p)} \ {NoMatch}
ClaimedOnce ==
    /\ \A p \in Proc :
          /\ inflight[p] = Sending(p) \cup Queued(p) \cup Held(p)
          /\ Sending(p) \cap (Queued(p) \cup Held(p)) = {}
          /\ Queued(p) \cap Held(p) = {}
          /\ \A i, j \in 1..Len(jobs[p]) : jobs[p][i] = jobs[p][j] => i = j
    /\ \A v, w \in Worker :
          Owner[v] = Owner[w] /\ job[v] = job[w] /\ job[v] # NoMatch => v = w

\* A match is attempted at most once more than maxProofAttempts allows in the
\* life of a process: the check and the claim of tick race a finishing worker.
AttemptsBounded == \A p \in Proc, m \in Match : failures[p][m] <= MaxProofAttempts + 1

\* schema, onchain_status: 'failed' is a settlement rejected on the ledger.
FailedIsNotSettled == \A m \in Match : status[m] = "failed" => m \notin chain

\* A confirmed row is final: no later write of a slow worker or of another process
\* changes its status, its settlement_tx or the status of its orders.
ConfirmedIsFinal ==
    [][\A m \in Match : status[m] = "confirmed" =>
          status'[m] = status[m] /\ tx'[m] = tx[m] /\ orders'[m] = orders[m]]_vars

\* How far a match has come, read off the tables and the ledger.
StageOf(m) == IF orders[m] = "settled" THEN "settled"
              ELSE IF m \in chain THEN "onchain"
              ELSE IF proof[m] THEN "proven"
              ELSE IF orders[m] = "matched" THEN "matched" ELSE "resting"

Lifecycle == INSTANCE SettlementLifecycle WITH stage <- [m \in Match |-> StageOf(m)]

\* The pipeline implements the lifecycle: no stage is skipped, repeated or undone.
ImplementsLifecycle == Lifecycle!Spec

\* What the read views of store.go make of the two tables: MatchRow.OnchainStatus, of
\* which no reader tells "submitted" from "pending".
OutcomeOf(m) == IF status[m] = "submitted" THEN "pending" ELSE status[m]

Table == INSTANCE MatchRows WITH formed <- Formed,
                                 proven <- {m \in Match : proof[m]},
                                 outcome <- [m \in Match |-> OutcomeOf(m)],
                                 settled <- {m \in Match : orders[m] = "settled"}

\* Readers of the tables see a match appear once, proven before its settlement is
\* attempted, and confirmed for good together with its orders, while any number of
\* workers write its row in any order and some of their writes are lost.
ImplementsRows == Table!Spec

\* The ledger of this module knows matches, where the contract knows pairs of
\* commitments and so no more than the terms of a match: both are a MatchLedger, and
\* this one stands for that of matches which differ in their terms.
Ledger == INSTANCE MatchLedger WITH formed <- Formed,
                                    landed <- chain,
                                    recorded <- {m \in Match : status[m] = "confirmed"}

\* matcher.go:122: a stopping process returns from its blocked send, its
\* channel drains and every worker leaves.
StopEnds == \A p \in Proc : phase[p] = "stopping" ~> phase[p] = "down"

\* What a process that was told to stop has still to do, as pairs of an id and a
\* call: its poll loop with the rest of the tick and the close of the channel ...
LoopAhead(p) ==
    (batch[p] \X {"check", "claim", "send"})
        \cup (IF loop[p] = "claim" THEN {<<cur[p], "claim">>, <<cur[p], "send">>} ELSE {})
        \cup (IF loop[p] = "send" THEN {<<cur[p], "send">>} ELSE {})
        \cup (IF loop[p] # "match" THEN {<<NoMatch, "tick">>} ELSE {})
        \cup (IF phase[p] = "stopping" THEN {<<NoMatch, "close">>} ELSE {})

\* ... and its workers, with the queue and with the calls of what they have in hand.
CallOrder == [idle |-> 0, prove |-> 1, setProof |-> 2, prepare |-> 3, isSettled |-> 4,
              submit |-> 5, invoke |-> 6, landed |-> 7, recordTx |-> 8, recordKnown |-> 9,
              release |-> 10]
WorkAhead(p) ==
    (Queued(p) \X Calls)
        \cup {a \in Held(p) \X Calls :
                 \E w \in Pool(p) : job[w] = a[1] /\ CallOrder[a[2]] >= CallOrder[wpc[w]]}

Less(S, T) == S \subseteq T /\ S # T

\* The memory of p, as far as it says what p does next.
Memory(p) == <<phase[p], loop[p], batch[p], cur[p], jobs[p],
               [w \in Pool(p) |-> <<wpc[w], job[w]>>]>>

\* matcher.go:92-94: once the context is cancelled, no scan refills the batch, no id
\* is put into the closed channel and no worker goes back to an earlier call.  What is
\* ahead of the loop shrinks with each of its steps, and with the loop unmoved what is
\* ahead of the workers does: a shutdown is over after so many steps of its process.
ShutdownAdvances ==
    [][\A p \in Proc : phase[p] \in {"stopping", "draining"} =>
          \/ phase'[p] = "down"
          \/ Memory(p)' = Memory(p)
          \/ Less(LoopAhead(p)', LoopAhead(p))
          \/ LoopAhead(p)' = LoopAhead(p) /\ Less(WorkAhead(p)', WorkAhead(p))]_vars

Exhausted(p, m) == failures[p][m] >= MaxProofAttempts
Finished(m) == IF OnchainOn = {} THEN proof[m] ELSE status[m] = "confirmed"

\* store.go:211-213 and matcher.go:139-142: an unfinished match is dispatched again
\* until it is finished or its attempts are used up, not stuck for ever.
FinishedOrExhausted ==
    \A m \in Match : orders[m] = "matched" ~> (Finished(m) \/ \E p \in Proc : Exhausted(p, m))
=============================================================================
