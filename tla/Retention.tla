----------------------------- MODULE Retention -----------------------------
(***************************************************************************)
(* How long the captures of an inbox are kept (internal/store/requests.go, *)
(* internal/sweeper/sweeper.go, and the shutdown in cmd/hooklens/main.go). *)
(* InsertRequest derives a row's expiry from the inbox's setting,          *)
(* SetRetention changes the setting and reprojects the rows in one         *)
(* transaction, and the sweeper deletes what has expired in batches until  *)
(* the process stops. Statements run at read committed: each sees what was *)
(* committed when it began, and waits for rows that another transaction    *)
(* has changed.                                                            *)
(***************************************************************************)
EXTENDS Clock, FiniteSets

CONSTANTS
    Rows,        \* captures that may be stored at the same time
    Hours,       \* values of retention_hours
    Batch,       \* the sweeper's batch
    MaxBatches,  \* maxBatchesPerTick
    MaxFailures  \* bound on failures of the database

ASSUME RetentionAssumption ==
    /\ IsFiniteSet(Rows)
    /\ Hours \subseteq Nat
    /\ Batch \in Nat \ {0}
    /\ MaxBatches \in Nat \ {0}
    /\ MaxFailures \in Nat

VARIABLES
    retention,  \* the committed setting
    setting,    \* SetRetention: "none", "updated" after its first statement,
                \* "reprojected" after its second
    wanted,     \* the setting it is to commit
    reprojects, \* the rows that the second statement has changed, and locked
    state,      \* per row: "none", "inserting", "stored"
    arrived,    \* per row, received_at
    expires,    \* per row, the committed expires_at
    crossed,    \* history: rows whose insert overlapped a SetRetention that
                \* did not reproject them
    sweeper,    \* "waiting" for a tick, "sweeping", "stopped"
    chosen,     \* the rows the DELETE under way has selected, {} for none
    batches,    \* batches of this tick
    process,    \* "running"; "failed", serve has returned on its own;
                \* "stopping", runCtx is cancelled; "closed", so is the pool
    failures

table        == <<state, arrived, expires, crossed>>
transaction  == <<setting, wanted, reprojects>>
sweep        == <<sweeper, chosen, batches>>
retentionVars == <<now, retention, transaction, table, sweep, process, failures>>

\* Every variable has its type; a DELETE selects no more than a batch.
RetentionTypeOK ==
    /\ ClockTypeOK
    /\ retention \in Hours
    /\ setting \in {"none", "updated", "reprojected"}
    /\ wanted \in Hours
    /\ reprojects \subseteq Rows
    /\ state \in [Rows -> {"none", "inserting", "stored"}]
    /\ arrived \in [Rows -> Nat]
    /\ expires \in [Rows -> Nat]
    /\ crossed \subseteq Rows
    /\ sweeper \in {"waiting", "sweeping", "stopped"}
    /\ chosen \subseteq Rows
    /\ Cardinality(chosen) <= Batch
    /\ batches \in 0..MaxBatches
    /\ process \in {"running", "failed", "stopping", "closed"}
    /\ failures \in 0..MaxFailures

RetentionInit ==
    /\ ClockInit
    /\ retention \in Hours
    /\ setting = "none"
    /\ wanted = retention
    /\ reprojects = {}
    /\ state = [r \in Rows |-> "none"]
    /\ arrived = [r \in Rows |-> 0]
    /\ expires = [r \in Rows |-> 0]
    /\ crossed = {}
    /\ sweeper = "waiting"
    /\ chosen = {}
    /\ batches = 0
    /\ process = "running"
    /\ failures = 0

-----------------------------------------------------------------------------

Inserting == {r \in Rows : state[r] = "inserting"}
Stored == {r \in Rows : state[r] = "stored"}

Fails == failures < MaxFailures /\ failures' = failures + 1

\* InsertRequest begins, and its subquery reads the committed setting. A request
\* that is being drained is one that has begun.
BeginInsert(r) ==
    /\ state[r] = "none"
    /\ process = "running"
    /\ state' = [state EXCEPT ![r] = "inserting"]
    /\ arrived' = [arrived EXCEPT ![r] = now]
    /\ expires' = [expires EXCEPT ![r] = now + retention]
    /\ crossed' = IF setting # "none" THEN crossed \cup {r} ELSE crossed
    /\ UNCHANGED <<now, retention, transaction, sweep, process, failures>>

CommitInsert(r) ==
    /\ state[r] = "inserting"
    /\ state' = [state EXCEPT ![r] = "stored"]
    /\ UNCHANGED <<now, retention, transaction, arrived, expires, crossed, sweep,
                   process, failures>>

\* The first statement. A second SetRetention would wait for its row lock.
UpdateSetting(h) ==
    /\ setting = "none"
    /\ process = "running"
    /\ setting' = "updated"
    /\ wanted' = h
    /\ crossed' = crossed \cup Inserting
    /\ UNCHANGED <<now, retention, reprojects, state, arrived, expires, sweep, process,
                   failures>>

\* Mutant: the rows that are there keep their expiry.
OnlyLaterRows == {}

\* The rows that the second statement finds.
ReprojectedRows == Stored

\* The second statement. It locks its rows before a DELETE that has chosen some
\* of them, or after it; when each gets some first, one of the two fails.
Reproject ==
    /\ setting = "updated"
    /\ setting' = "reprojected"
    /\ reprojects' = ReprojectedRows
    /\ UNCHANGED <<now, retention, wanted, table, sweep, process, failures>>

CommitSetting ==
    /\ setting = "reprojected"
    /\ setting' = "none"
    /\ retention' = wanted
    /\ expires' = [r \in Rows |->
                     IF r \in reprojects THEN arrived[r] + wanted ELSE expires[r]]
    /\ crossed' = crossed \ reprojects
    /\ reprojects' = {}
    /\ UNCHANGED <<now, wanted, state, arrived, sweep, process, failures>>

\* The setting after a rollback.
RolledBack == retention

\* A statement or the commit fails.
AbortSetting ==
    /\ setting # "none"
    /\ Fails
    /\ setting' = "none"
    /\ retention' = RolledBack
    /\ wanted' = retention'
    /\ reprojects' = {}
    /\ UNCHANGED <<now, table, sweep, process>>

-----------------------------------------------------------------------------
(* The sweeper                                                             *)

\* A tick. Run takes either branch of its select when both are ready.
BeginSweep ==
    /\ sweeper = "waiting"
    /\ process \in {"running", "failed", "stopping"}
    /\ sweeper' = "sweeping"
    /\ UNCHANGED <<now, retention, transaction, table, chosen, batches, process, failures>>

ExpiredRows == {r \in Stored : expires[r] < now}

\* The index is read in the order of expiry.
Earliest(batch) ==
    \A r \in batch, x \in ExpiredRows \ batch : expires[r] <= expires[x]

\* A short batch means the backlog is drained, and so does the last one allowed.
TickIsOver(n) == n < Batch \/ batches + 1 = MaxBatches

\* DeleteExpiredRequests selects the ids, and sweepOnce is told of a cancelled
\* context before each batch.
SelectBatch(batch) ==
    /\ sweeper = "sweeping"
    /\ chosen = {}
    /\ process # "stopping"
    /\ batch \subseteq ExpiredRows
    /\ Cardinality(batch) = Smaller(Batch, Cardinality(ExpiredRows))
    /\ Earliest(batch)
    /\ chosen' = batch
    /\ IF batch = {} THEN sweeper' = "waiting" /\ batches' = 0
       ELSE UNCHANGED <<sweeper, batches>>
    /\ UNCHANGED <<now, retention, transaction, table, process, failures>>

DeleteChosen ==
    /\ state' = [r \in Rows |-> IF r \in chosen THEN "none" ELSE state[r]]
    /\ arrived' = [r \in Rows |-> IF r \in chosen THEN 0 ELSE arrived[r]]
    /\ expires' = [r \in Rows |-> IF r \in chosen THEN 0 ELSE expires[r]]
    /\ crossed' = crossed \ chosen

\* The rows are deleted, once no transaction holds them; that their expiry is
\* another by then is not looked at again.
DeleteBatch ==
    /\ chosen # {}
    /\ chosen \cap reprojects = {}
    /\ DeleteChosen
    /\ chosen' = {}
    /\ IF TickIsOver(Cardinality(chosen)) THEN sweeper' = "waiting" /\ batches' = 0
       ELSE batches' = batches + 1 /\ UNCHANGED sweeper
    /\ UNCHANGED <<now, retention, transaction, process, failures>>

\* Mutant: an error ends the goroutine.
GivesUp == "stopped"

\* Run goes on waiting for ticks, also after a panic.
AfterFailedSweep == "waiting"

\* The statement fails, or its context is cancelled, and the tick is over. What
\* it was about to delete may be gone all the same.
SweepFails ==
    /\ sweeper = "sweeping"
    /\ \/ process = "stopping" /\ UNCHANGED failures
       \/ process # "stopping" /\ Fails
    /\ sweeper' = AfterFailedSweep
    /\ \/ UNCHANGED table
       \/ chosen # {} /\ chosen \cap reprojects = {} /\ DeleteChosen
    /\ chosen' = {}
    /\ batches' = 0
    /\ UNCHANGED <<now, retention, transaction, process>>

SweeperStops ==
    /\ sweeper = "waiting"
    /\ process = "stopping"
    /\ sweeper' = "stopped"
    /\ UNCHANGED <<now, retention, transaction, table, chosen, batches, process, failures>>

-----------------------------------------------------------------------------
(* The process                                                             *)

\* The signal context is cancelled, or ListenAndServe fails.
Signal ==
    /\ process = "running"
    /\ process' = "stopping"
    /\ UNCHANGED <<now, retention, transaction, table, sweep, failures>>

ServeFails ==
    /\ process = "running"
    /\ process' = "failed"
    /\ UNCHANGED <<now, retention, transaction, table, sweep, failures>>

\* Mutant: nobody cancels the sweeper when serve returns on its own.
WaitsForASignal == "failed"

\* After serve has returned, run cancels runCtx.
AfterServe == "stopping"

CancelRun ==
    /\ process = "failed"
    /\ process' = AfterServe
    /\ UNCHANGED <<now, retention, transaction, table, sweep, failures>>

\* wg.Wait, and the deferred st.Close, which waits for the connections in use.
ClosePool ==
    /\ process # "closed"
    /\ setting = "none"
    /\ Inserting = {}
    /\ sweeper = "stopped"
    /\ process' = "closed"
    /\ UNCHANGED <<now, retention, transaction, table, sweep, failures>>

RetentionTick ==
    /\ Tick
    /\ UNCHANGED <<retention, transaction, table, sweep, process, failures>>

RetentionNext ==
    \/ \E r \in Rows : BeginInsert(r) \/ CommitInsert(r)
    \/ \E h \in Hours : UpdateSetting(h)
    \/ Reproject
    \/ CommitSetting
    \/ AbortSetting
    \/ BeginSweep
    \/ \E batch \in SUBSET Rows : SelectBatch(batch)
    \/ DeleteBatch
    \/ SweepFails
    \/ SweeperStops
    \/ Signal
    \/ ServeFails
    \/ CancelRun
    \/ ClosePool
    \/ RetentionTick

\* What the scheduler and the database get around to. Run's select is random when
\* both its branches are ready, so it does not take the tick for ever.
SweeperStep ==
    \/ BeginSweep
    \/ \E batch \in SUBSET Rows : SelectBatch(batch)
    \/ DeleteBatch
    \/ SweepFails

TransactionStep ==
    \/ \E r \in Rows : CommitInsert(r)
    \/ Reproject
    \/ CommitSetting
    \/ AbortSetting

ProcessStep == CancelRun \/ ClosePool

RetentionSpec == RetentionInit /\ [][RetentionNext]_retentionVars

-----------------------------------------------------------------------------
(* Properties                                                              *)

\* expires_at is a copy of the inbox's setting that two statements keep true
\* (requests.go:339-352): outside a transaction that changes the setting, every
\* row expires by the setting in force, except one whose insert overlapped the
\* change, which nothing locks out and which keeps the old expiry.
ExpiryFollowsSetting ==
    setting = "none" =>
        \A r \in Stored \ crossed : expires[r] = arrived[r] + retention

\* "Rows linger a little past their window", but not for good (sweeper.go:21):
\* as long as the process serves, what has expired is deleted, whatever failed
\* in between, unless the inbox's owner asks for a longer time.
ExpiredIsSwept ==
    \A r \in Rows :
        (state[r] = "stored" /\ expires[r] < now)
            ~> (state[r] # "stored" \/ expires[r] >= now \/ process # "running")

\* A shutdown, and a server that could not start, wait for the sweeper and never
\* forever (main.go:99-120).
ProcessCloses == process \in {"failed", "stopping"} ~> process = "closed"

=============================================================================
