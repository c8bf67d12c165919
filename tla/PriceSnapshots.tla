---------------------------- MODULE PriceSnapshots ----------------------------
(* What a usage row was charged and why (recorder.py, pricing/costs.py,        *)
(* pricing/models.py, pricing/snapshots.py): the rates in force when a row is  *)
(* recorded or recalculated are stored once as a snapshot, which the row is    *)
(* bound to, so that reads can replay its costs. Rates may depend on the hour  *)
(* of the call and on the number of its input tokens.                          *)
EXTENDS Naturals, SequencesExt

CONSTANTS
  PricedRows,     \* rows of usage
  Pricers,        \* threads that record or recalculate
  NotPricing,     \* a thread without work
  Offers,         \* model costs that may be in force: [low, high, night]
  NoOffer,        \* the model has no price
  TierFloor,      \* input tokens from which the second tier applies
  NightStart, NightEnd,  \* the time window of the night rate, in hours
  LockingReads,   \* TRUE: FOR UPDATE locks the row (PostgreSQL)
  InputTokens, Hours     \* the calls, for model checking

VARIABLES
  priceSnapshots, \* price_snapshots: the rates, at the position that is the id
  priced,         \* the rows: tokens, hour, cost and snapshot id
  pricing,        \* what each thread is doing
  crossedRows     \* ghost: rows whose last recalculation overlapped another one

priceVars == <<priceSnapshots, priced, pricing, crossedRows>>

Rates == [low : Nat, high : Nat]
UsageRows == [tokens : Nat, hour : Nat, cost : Nat, snapshot : Nat, recorded : BOOLEAN]
\* What a thread does to a row: the prices it resolved, the snapshot it found and
\* the row as it loaded it; met says that another recalculation of it committed since.
PriceWork == [step : {"listed", "snapshot", "insert"}, row : PricedRows, tokens : Nat,
              hour : Nat, rates : Rates, snapshot : Nat, loaded : UsageRows, met : BOOLEAN]

ASSUME PricesAssumption ==
  /\ Offers \subseteq [low : Nat, high : Nat, night : Nat]
  /\ InputTokens \subseteq Nat /\ Hours \subseteq Nat
  /\ LockingReads \in BOOLEAN
  /\ NotPricing \notin PriceWork

NotRecorded == [tokens |-> 0, hour |-> 0, cost |-> 0, snapshot |-> 0, recorded |-> FALSE]
NoSnapshot == 0

PriceInit ==
  /\ priceSnapshots = <<>>
  /\ priced = [row \in PricedRows |-> NotRecorded]
  /\ pricing = [t \in Pricers |-> NotPricing]
  /\ crossedRows = {}

(* ---- rates ------------------------------------------------------------------ *)

\* _window_matches: half-open; a window that ends at hour 0 ends the day, one
\* that ends before it starts wraps past midnight.
AtNight(hour) ==
  IF NightEnd > NightStart THEN hour \in NightStart .. NightEnd - 1
  ELSE IF NightEnd = 0 /\ NightStart # 0 THEN hour >= NightStart
  ELSE hour >= NightStart \/ hour < NightEnd

\* resolve_effective_cost: no time window is left in the result.
Effective(offer, hour) ==
  IF offer = NoOffer THEN [low |-> 0, high |-> 0]
  ELSE IF AtNight(hour) THEN [low |-> offer.night, high |-> offer.night]
  ELSE [low |-> offer.low, high |-> offer.high]

\* calculate_costs, and _split when a read replays it: the tier is chosen by the
\* input tokens of the row.
Charge(rates, tokens) == tokens * (IF tokens < TierFloor THEN rates.low ELSE rates.high)

\* ensure_price_snapshot: an insert that gives way to an equal row, then a select,
\* in one transaction. A row of the table is found by its contents.
SnapshotIds(rates) == {id \in DOMAIN priceSnapshots : priceSnapshots[id] = rates}

Under(t, step) == pricing[t] # NotPricing /\ pricing[t].step = step
Held(row) ==
  {t \in Pricers : pricing[t] # NotPricing /\ pricing[t].row = row
                   /\ pricing[t].loaded.recorded}

(* ---- a row is recorded or recalculated --------------------------------------- *)

\* record_usage: resolve_pricing reads the maps under their lock.
ResolveNew(t, row, tokens, hour, offer) ==
  /\ pricing[t] = NotPricing /\ ~priced[row].recorded
  /\ \A u \in Pricers : pricing[u] # NotPricing => pricing[u].row # row
  /\ pricing' = [pricing EXCEPT ![t] =
       [step |-> IF offer = NoOffer THEN "insert" ELSE "snapshot", row |-> row,
        tokens |-> tokens, hour |-> hour, rates |-> Effective(offer, hour),
        snapshot |-> NoSnapshot, loaded |-> priced[row], met |-> FALSE]]
  /\ UNCHANGED <<priceSnapshots, priced, crossedRows>>

\* reprice_estimated_rows lists the rows without a snapshot first and recalculates
\* them one by one, whatever became of them since.
ListEstimated(t, row) ==
  /\ pricing[t] = NotPricing /\ priced[row].recorded /\ priced[row].snapshot = NoSnapshot
  /\ pricing' = [pricing EXCEPT ![t] =
       [step |-> "listed", row |-> row, tokens |-> 0, hour |-> 0,
        rates |-> Effective(NoOffer, 0), snapshot |-> NoSnapshot,
        loaded |-> NotRecorded, met |-> FALSE]]
  /\ UNCHANGED <<priceSnapshots, priced, crossedRows>>

\* recalculate_usage_cost with the prices its caller resolved before; a model
\* without a price is skipped.
LoadPriced(t, row, offer) ==
  /\ pricing[t] = NotPricing \/ (Under(t, "listed") /\ pricing[t].row = row)
  /\ priced[row].recorded /\ offer # NoOffer
  /\ LockingReads => Held(row) = {}
  /\ pricing' = [pricing EXCEPT ![t] =
       [step |-> "snapshot", row |-> row, tokens |-> priced[row].tokens,
        hour |-> priced[row].hour, rates |-> Effective(offer, priced[row].hour),
        snapshot |-> NoSnapshot, loaded |-> priced[row], met |-> FALSE]]
  /\ UNCHANGED <<priceSnapshots, priced, crossedRows>>

Ensured(t) ==
  /\ pricing' = [pricing EXCEPT ![t] = [@ EXCEPT !.step = "insert", !.snapshot =
       IF SnapshotIds(pricing[t].rates) # {} THEN CHOOSE id \in SnapshotIds(pricing[t].rates) : TRUE
       ELSE Len(priceSnapshots) + 1]]
  /\ priceSnapshots' = IF SnapshotIds(pricing[t].rates) # {} THEN priceSnapshots
                       ELSE Append(priceSnapshots, pricing[t].rates)

EnsureSnapshot(t) == Under(t, "snapshot") /\ Ensured(t) /\ UNCHANGED <<priced, crossedRows>>

\* A failure leaves the row without a snapshot: it reads as estimated.
MissSnapshot(t) ==
  /\ Under(t, "snapshot")
  /\ pricing' = [pricing EXCEPT ![t] = [@ EXCEPT !.step = "insert"]]
  /\ UNCHANGED <<priceSnapshots, priced, crossedRows>>

Outcome(t) == Charge(pricing[t].rates, pricing[t].tokens)

InsertPriced(t) ==
  LET work == pricing[t]
  IN  /\ Under(t, "insert") /\ ~work.loaded.recorded
      /\ priced' = [priced EXCEPT ![work.row] =
           [tokens |-> work.tokens, hour |-> work.hour, cost |-> Outcome(t),
            snapshot |-> work.snapshot, recorded |-> TRUE]]
      /\ pricing' = [pricing EXCEPT ![t] = NotPricing]
      /\ UNCHANGED <<priceSnapshots, crossedRows>>

\* Mutant: the binding of a row that has one is kept.
CommitPricedUnbound(t) ==
  LET work == pricing[t]
      now == priced[work.row]
      changed(old, new, kept) == IF new = old THEN kept ELSE new
  IN  /\ Under(t, "insert") /\ work.loaded.recorded
      /\ priced' = [priced EXCEPT ![work.row] = [@ EXCEPT
           !.cost = changed(work.loaded.cost, Outcome(t), now.cost),
           !.snapshot = IF now.snapshot # NoSnapshot THEN now.snapshot
                        ELSE changed(work.loaded.snapshot, work.snapshot, now.snapshot)]]
      /\ crossedRows' = IF work.met THEN crossedRows \cup {work.row}
                        ELSE crossedRows \ {work.row}
      /\ pricing' = [u \in Pricers |->
           IF u = t THEN NotPricing
           ELSE IF u \in Held(work.row) THEN [pricing[u] EXCEPT !.met = TRUE] ELSE pricing[u]]
      /\ UNCHANGED priceSnapshots

\* One UPDATE of the columns whose value differs from the one loaded.
CommitPriced(t) ==
  LET work == pricing[t]
      now == priced[work.row]
      changed(old, new, kept) == IF new = old THEN kept ELSE new
  IN  /\ Under(t, "insert") /\ work.loaded.recorded
      /\ priced' = [priced EXCEPT ![work.row] = [@ EXCEPT
           !.cost = changed(work.loaded.cost, Outcome(t), now.cost),
           !.snapshot = changed(work.loaded.snapshot, work.snapshot, now.snapshot)]]
      /\ crossedRows' = IF work.met THEN crossedRows \cup {work.row}
                        ELSE crossedRows \ {work.row}
      /\ pricing' = [u \in Pricers |->
           IF u = t THEN NotPricing
           ELSE IF u \in Held(work.row) THEN [pricing[u] EXCEPT !.met = TRUE] ELSE pricing[u]]
      /\ UNCHANGED priceSnapshots

FailPricing(t) ==
  /\ pricing[t] # NotPricing
  /\ pricing' = [pricing EXCEPT ![t] = NotPricing]
  /\ UNCHANGED <<priceSnapshots, priced, crossedRows>>

PriceNext ==
  \E t \in Pricers :
    \/ \E row \in PricedRows, offer \in Offers \cup {NoOffer} :
         \/ \E tokens \in InputTokens, hour \in Hours : ResolveNew(t, row, tokens, hour, offer)
         \/ LoadPriced(t, row, offer)
    \/ \E row \in PricedRows : ListEstimated(t, row)
    \/ EnsureSnapshot(t) \/ MissSnapshot(t)
    \/ InsertPriced(t) \/ CommitPriced(t) \/ FailPricing(t)

PriceSpec == PriceInit /\ [][PriceNext]_priceVars

(* ---- a row is read -------------------------------------------------------------- *)

\* _resolve_row_rates: a row bound to a stored snapshot is replayed from it, any
\* other is priced by a guess and marked as estimated.
Bound(row) == priced[row].snapshot \in DOMAIN priceSnapshots

\* enrich_rows: what the stored rates charge for the row.
Replayed(row) == Charge(priceSnapshots[priced[row].snapshot], priced[row].tokens)

(* ---- properties ----------------------------------------------------------------- *)

PriceTypeOK ==
  /\ priceSnapshots \in Seq(Rates)
  /\ priced \in [PricedRows -> UsageRows]
  /\ pricing \in [Pricers -> {NotPricing} \cup PriceWork]
  /\ crossedRows \subseteq PricedRows

\* A row bound to a snapshot costs what a replay of that snapshot charges it,
\* whatever prices came into force and whoever recalculated it meanwhile, unless
\* two recalculations of it overlapped on a database that does not lock the row;
\* equal rates are stored once, whoever stores them (ensure_price_snapshot,
\* _record_price_snapshot, recalculate_usage_cost, enrich_rows).
BoundRowsReplay ==
  /\ \A row \in PricedRows :
       priced[row].snapshot # NoSnapshot /\ (LockingReads \/ row \notin crossedRows) =>
         Bound(row) /\ priced[row].cost = Replayed(row)
  /\ IsInjective(priceSnapshots)

===============================================================================
