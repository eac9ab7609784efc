----------------------------- MODULE StockLedger -----------------------------
(***************************************************************************)
(* The stock ledger (kardex) of one warehouse: the service                 *)
(* PostgresCloudInventoryService of cloud-server/src/index.ts, which       *)
(* records waste (registerWaste), depletes the recipes of the orders the   *)
(* kitchen produced (onKdsOrderProduced) and replays the depletions it put *)
(* in quarantine because their modifiers could not be resolved             *)
(* (replayQuarantinedDepletion).                                           *)
(*                                                                         *)
(* Every operation is one PostgreSQL transaction that takes advisory locks *)
(* as it goes, the source event first and then one ingredient after the    *)
(* other, and releases them all when it ends.  A transaction here is a     *)
(* session: one action per lock, with the reads and the insert that follow *)
(* it, and one action for the end.  What a transaction inserted is seen by *)
(* others from its commit on.                                              *)
(*                                                                         *)
(* An advisory lock is taken on a 32-bit hash of its key, the constant     *)
(* Hash.  Costs, alerts and the texts of rows and records are left out;    *)
(* quantities are integers and recipes have a yield of one.                *)
(***************************************************************************)
EXTENDS Integers, Sequences, SequencesExt, FiniteSets, PosValues

CONSTANTS
    Ingredients,    \* ingredient ids, integers in the order of their text
    Orders,         \* kitchen orders
    Commands,       \* commandIds of waste
    Items(_),       \* the items of an order, their recipes already exploded
    WasteQty,       \* the quantity of a waste command
    Hash(_),        \* hashtext of a lock key
    Sessions,       \* connections
    MaxJobs         \* bound on the number of transactions

ASSUME StockAssumption ==
    /\ Ingredients \subseteq Int
    /\ WasteQty \in Nat \ {0}
    /\ MaxJobs \in Nat

VARIABLES
    ledger,         \* stock_ledger: the committed rows of each ingredient
    mermas,         \* inventory_waste_records: the ingredient of each command, or NULL
    announced,      \* how often InventarioDescontadoPorReceta was enqueued for each order
    quarantine,     \* the status of the record of each order in inventory_quarantine_records
    sessions,       \* the transaction each connection runs
    jobs            \* the number of transactions begun

stockVars == <<ledger, mermas, announced, quarantine, sessions, jobs>>

-----------------------------------------------------------------------------
(* Recipes *)

\* An item: a quantity, the gross quantities of its recipe, and what its
\* modifiers, once resolved, remove and add.
HasModifiers(o) == \E k \in DOMAIN Items(o) : Items(o)[k].modified

\* rawIngredientItems: items without a quantity are skipped, removed
\* ingredients are omitted, added ones are scaled like the rest.
RawIngredients(o) ==
    FlattenSeq([k \in DOMAIN Items(o) |->
        LET item  == Items(o)[k]
            kept  == SelectSeq(item.recipe, LAMBDA g : g.ingredient \notin item.removed)
            parts == kept \o item.added
        IN  IF item.qty <= 0 THEN <<>>
            ELSE [p \in DOMAIN parts |-> [parts[p] EXCEPT !.qty = @ * item.qty]]])

\* The total of one ingredient over the raw list.
GrossOf(raw, i) ==
    FoldSeq(LAMBDA g, total : total + IF g.ingredient = i THEN g.qty ELSE 0, 0, raw)

\* aggregateIngredientQuantities in the order of first appearance.
AggregateIngredientQuantities_Unsorted(raw) ==
    LET first == SelectSeq([k \in DOMAIN raw |-> k],
                           LAMBDA k : \A j \in 1..(k - 1) : raw[j].ingredient # raw[k].ingredient)
    IN  [k \in DOMAIN first |->
            [ingredient |-> raw[first[k]].ingredient, qty |-> GrossOf(raw, raw[first[k]].ingredient)]]

\* aggregateIngredientQuantities: one total per ingredient, sorted by id.
AggregateIngredientQuantities(raw) ==
    LET ids == SetToSortSeq({raw[k].ingredient : k \in DOMAIN raw}, <)
    IN  [k \in DOMAIN ids |-> [ingredient |-> ids[k], qty |-> GrossOf(raw, ids[k])]]

\* The movements an order asks for, totals of zero left out.
Depletion(o) == SelectSeq(AggregateIngredientQuantities(RawIngredients(o)), LAMBDA g : g.qty # 0)

-----------------------------------------------------------------------------
(* Transactions *)

Idle == [step |-> "idle"]

\* Keys of acquireSourceEventLock and acquireAggregateLock.
SourceKey(o) == Hash(<<"KDS_SOURCE_EVENT", o>>)
AggregateKey(i) == Hash(<<"AGGREGATE", i>>)

\* The lock a session asks for next, if any.
Wanted(s) ==
    CASE sessions[s].step = "source"                                -> {SourceKey(sessions[s].job.ref)}
      [] sessions[s].step = "rows" /\ sessions[s].todo # <<>>       -> {AggregateKey(Head(sessions[s].todo).ingredient)}
      [] OTHER                                                      -> {}

Held(s) == IF sessions[s].step = "idle" THEN {} ELSE sessions[s].locks

\* pg_advisory_xact_lock: granted when no other transaction holds it.
Granted(s) == \A t \in Sessions \ {s} : Wanted(s) \cap Held(t) = {}

\* BEGIN: the first lock asked for and the movements known so far.
Begin(s, job, step, todo) ==
    /\ sessions[s].step = "idle"
    /\ jobs < MaxJobs
    /\ jobs' = jobs + 1
    /\ sessions' = [sessions EXCEPT ![s] =
            [step |-> step, job |-> job, locks |-> {}, todo |-> todo, rows |-> <<>>,
             outcome |-> "APPLIED"]]
    /\ UNCHANGED <<ledger, mermas, announced, quarantine>>

RegisterWaste(s, c, i) ==
    Begin(s, [kind |-> "MERMA", ref |-> c, ingredient |-> i], "rows",
          <<[ingredient |-> i, qty |-> WasteQty]>>)

OnKdsOrderProduced(s, o, resolver) ==
    Begin(s, [kind |-> "KDS", ref |-> o, resolver |-> resolver], "source", <<>>)

\* A replay needs a record to read, and a resolver.
ReplayQuarantinedDepletion(s, o, resolver) ==
    /\ quarantine[o] # NULL
    /\ Begin(s, [kind |-> "REPLAY", ref |-> o, resolver |-> resolver], "source", <<>>)

\* No look-up of earlier movements.
AlreadyDepleted_Never(o) == FALSE

\* The committed CONSUMO_KDS movements of an order.
AlreadyDepleted(o) ==
    \E i \in Ingredients : \E k \in DOMAIN ledger[i] :
        ledger[i][k].tipo = "CONSUMO_KDS" /\ ledger[i][k].ref = o

\* The start of applyKdsDepletionLockedWithClient, under the source lock:
\* accepted as a duplicate, put in quarantine, or to be applied.  An applied
\* order that was never announced is an integrity error, and only Abort is
\* left.
TakeSource(s) ==
    LET job == sessions[s].job
        o   == job.ref
        end(outcome) == [sessions[s] EXCEPT !.step = "rows", !.locks = @ \cup Wanted(s),
                                            !.outcome = outcome]
    IN  /\ sessions[s].step = "source"
        /\ Granted(s)
        /\ AlreadyDepleted(o) => announced[o] > 0
        /\ sessions' = [sessions EXCEPT ![s] =
                CASE AlreadyDepleted(o)                     -> end("DUPLICATE_ACCEPTED")
                  [] ~AlreadyDepleted(o) /\ HasModifiers(o) /\ job.resolver # "ok"
                                                            -> end("QUARANTINED")
                  [] OTHER                                  -> [end("APPLIED") EXCEPT !.todo = Depletion(o)]]
        /\ UNCHANGED <<ledger, mermas, announced, quarantine, jobs>>

\* A balance that sums the movements of one type.
DerivedPriorBalance_OfType(i, tipo) ==
    FoldSeq(LAMBDA r, total : total + IF r.tipo = tipo THEN r.delta ELSE 0, 0, ledger[i])

\* SUM(quantity_delta) over the ingredient.
DerivedPriorBalance(i, tipo) == FoldSeq(LAMBDA r, total : total + r.delta, 0, ledger[i])

\* MAX(movement_sequence_number) + 1.
NextSequence(i) == FoldSeq(LAMBDA r, high : IF r.seq > high THEN r.seq ELSE high, 0, ledger[i]) + 1

\* The indexes uq_stock_ledger_seq and uq_stock_ledger_idempotency.
Insertable(i, row) ==
    \A k \in DOMAIN ledger[i] :
        /\ ledger[i][k].seq # row.seq
        /\ ledger[i][k].tipo # row.tipo \/ ledger[i][k].ref # row.ref

\* The next ingredient: its lock, its balance and sequence number, its row.
\* Waste looks for its commandId under the lock.
TakeIngredient(s) ==
    LET me   == sessions[s]
        i    == Head(me.todo).ingredient
        tipo == IF me.job.kind = "MERMA" THEN "MERMA" ELSE "CONSUMO_KDS"
        row  == [tipo    |-> tipo,
                 ref     |-> me.job.ref,
                 delta   |-> -Head(me.todo).qty,
                 balance |-> DerivedPriorBalance(i, tipo) - Head(me.todo).qty,
                 seq     |-> NextSequence(i)]
        dup  == me.job.kind = "MERMA" /\ mermas[me.job.ref] # NULL
    IN  /\ me.step = "rows"
        /\ me.todo # <<>>
        /\ Granted(s)
        /\ ~dup => Insertable(i, row)
        /\ sessions' = [sessions EXCEPT
                ![s].locks   = @ \cup Wanted(s),
                ![s].todo    = Tail(@),
                ![s].rows    = IF dup THEN @ ELSE Append(@, [ingredient |-> i, row |-> row]),
                ![s].outcome = IF dup THEN "DUPLICATE_ACCEPTED" ELSE @]
        /\ UNCHANGED <<ledger, mermas, announced, quarantine, jobs>>

\* The ledger with the rows a transaction inserted.
WithRows(rows) ==
    [i \in Ingredients |->
        FoldSeq(LAMBDA r, acc : IF r.ingredient = i THEN Append(acc, r.row) ELSE acc, ledger[i], rows)]

\* COMMIT, after the last statements of each operation: the waste record with
\* its unique commandId, the announcement, the upsert of the quarantine
\* record, the UPDATE to REPLAYED.
Commit(s) ==
    LET me      == sessions[s]
        job     == me.job
        applied == me.outcome = "APPLIED"
    IN  /\ me.step = "rows"
        /\ me.todo = <<>>
        /\ job.kind = "MERMA" /\ applied => mermas[job.ref] = NULL
        /\ ledger' = WithRows(me.rows)
        /\ mermas' = IF job.kind = "MERMA" /\ applied
                     THEN [mermas EXCEPT ![job.ref] = job.ingredient] ELSE mermas
        /\ announced' = IF job.kind # "MERMA" /\ applied
                        THEN [announced EXCEPT ![job.ref] = @ + 1] ELSE announced
        /\ quarantine' =
               CASE me.outcome = "QUARANTINED"                          -> [quarantine EXCEPT ![job.ref] = "PENDING"]
                 [] me.outcome # "QUARANTINED" /\ job.kind = "REPLAY"   -> [quarantine EXCEPT ![job.ref] = "REPLAYED"]
                 [] OTHER                                               -> quarantine
        /\ sessions' = [sessions EXCEPT ![s] = Idle]
        /\ UNCHANGED jobs

\* Rows inserted outside the transaction outlive it.
Abort_KeepsRows(s) ==
    /\ sessions[s].step # "idle"
    /\ ledger' = WithRows(IF sessions[s].step = "rows" THEN sessions[s].rows ELSE <<>>)
    /\ sessions' = [sessions EXCEPT ![s] = Idle]
    /\ UNCHANGED <<mermas, announced, quarantine, jobs>>

\* An enqueue outside the transaction outlives it.
Abort_KeepsAnnouncement(s) ==
    /\ sessions[s].step # "idle"
    /\ announced' = IF sessions[s].job.kind # "MERMA" /\ sessions[s].step = "rows"
                       /\ sessions[s].todo = <<>> /\ sessions[s].outcome = "APPLIED"
                    THEN [announced EXCEPT ![sessions[s].job.ref] = @ + 1] ELSE announced
    /\ sessions' = [sessions EXCEPT ![s] = Idle]
    /\ UNCHANGED <<ledger, mermas, quarantine, jobs>>

\* ROLLBACK: a missing recipe, a unique index, an integrity error, a lost
\* connection or a crash of the server, at any moment.
Abort(s) ==
    /\ sessions[s].step # "idle"
    /\ sessions' = [sessions EXCEPT ![s] = Idle]
    /\ UNCHANGED <<ledger, mermas, announced, quarantine, jobs>>

-----------------------------------------------------------------------------
(* The service *)

StockInit ==
    /\ ledger = [i \in Ingredients |-> <<>>]
    /\ mermas = [c \in Commands |-> NULL]
    /\ announced = [o \in Orders |-> 0]
    /\ quarantine = [o \in Orders |-> NULL]
    /\ sessions = [s \in Sessions |-> Idle]
    /\ jobs = 0

StockNext ==
    \E s \in Sessions :
        \/ \E c \in Commands, i \in Ingredients : RegisterWaste(s, c, i)
        \/ \E o \in Orders, resolver \in {"none", "null", "ok"} : OnKdsOrderProduced(s, o, resolver)
        \/ \E o \in Orders, resolver \in {"null", "ok"} : ReplayQuarantinedDepletion(s, o, resolver)
        \/ TakeSource(s)
        \/ TakeIngredient(s)
        \/ Commit(s)
        \/ Abort(s)

StockSpec == StockInit /\ [][StockNext]_stockVars

-----------------------------------------------------------------------------
(* Properties *)

\* The movements of the ledger that carry one reference.
MovementsOf(tipo, ref) ==
    UNION {{<<i, k>> : k \in {j \in DOMAIN ledger[i] : ledger[i][j].tipo = tipo /\ ledger[i][j].ref = ref}} :
           i \in Ingredients}

\* The kardex of an ingredient is a kardex: its rows are numbered 1, 2, ...
\* and each row's balance is the sum of the deltas up to it, whichever
\* transactions read SUM and MAX concurrently (getDerivedPriorBalance and
\* getNextSequence read them in statements of their own).
KardexAddsUp ==
    \A i \in Ingredients : \A k \in DOMAIN ledger[i] :
        /\ ledger[i][k].seq = k
        /\ ledger[i][k].balance =
               FoldSeq(LAMBDA r, total : total + r.delta, 0, SubSeq(ledger[i], 1, k))

\* Redelivered, raced, replayed or interrupted, an order has depleted all the
\* ingredients its recipes ask for, each once and by its total, or none; a
\* waste command has one movement, on the ingredient its record names.
SourcesAppliedWhole ==
    /\ \A o \in Orders :
        MovementsOf("CONSUMO_KDS", o) # {} =>
            \A i \in Ingredients :
                LET due  == SelectSeq(Depletion(o), LAMBDA g : g.ingredient = i)
                    done == SelectSeq(ledger[i], LAMBDA r : r.tipo = "CONSUMO_KDS" /\ r.ref = o)
                IN  /\ Len(done) = Len(due)
                    /\ \A k \in DOMAIN due : done[k].delta = -due[k].qty
    /\ \A c \in Commands :
        /\ Cardinality(MovementsOf("MERMA", c)) = IF mermas[c] = NULL THEN 0 ELSE 1
        /\ \A m \in MovementsOf("MERMA", c) : m[1] = mermas[c]

\* An order that consumes something is announced to the other domains once
\* it is depleted, and only once.  (An order that consumes nothing leaves no
\* movement to recognise it by and is announced at every delivery.)
AnnouncedOnce ==
    \A o \in Orders :
        Depletion(o) # <<>> =>
            announced[o] = IF MovementsOf("CONSUMO_KDS", o) = {} THEN 0 ELSE 1

\* A replayed record is not reopened: a late redelivery of its order, with
\* or without a resolver, is recognised before the modifiers are looked at.
ReplayedStaysReplayed ==
    [][\A o \in Orders :
        Depletion(o) # <<>> /\ quarantine[o] = "REPLAYED" => quarantine'[o] = "REPLAYED"]_stockVars

\* The order of the locks, source first and ingredients by id, excludes a
\* cycle of transactions that wait for one another.
NoDeadlock ==
    \A group \in SUBSET Sessions :
        group # {} => \E s \in group : \A t \in group \ {s} : Wanted(s) \cap Held(t) = {}
=============================================================================
