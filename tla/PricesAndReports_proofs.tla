----------------------- MODULE PricesAndReports_proofs -----------------------
(* Theorems about prices and reports. The snapshots: for any number of rows and *)
(* threads, any prices, any tier and night, on both databases. The              *)
(* configuration and the prices in force: for any number of processes, threads  *)
(* and changes. The reports: for any number of rows, any length of a day and    *)
(* any values of the grouping column.                                           *)
EXTENDS PriceSnapshots, PriceRefresh, Reporting, FiniteSetTheorems, WellFoundedInduction,
        NaturalsInduction, SequenceTheorems, TLAPS

(* ---- snapshots ------------------------------------------------------------------ *)

Pricing(t) == pricing[t] # NotPricing

\* A row that is not recorded is bound to nothing.
UnrecordedUnbound ==
  \A row \in PricedRows : ~priced[row].recorded => priced[row].snapshot = NoSnapshot

\* A row bound to a snapshot costs what the snapshot charges.
RowsReplay ==
  \A row \in PricedRows :
    priced[row].snapshot # NoSnapshot /\ (LockingReads \/ row \notin crossedRows) =>
      Bound(row) /\ priced[row].cost = Replayed(row)

\* A thread that has a snapshot has the one of its rates.
WorkBound ==
  \A t \in Pricers :
    Pricing(t) /\ pricing[t].snapshot # NoSnapshot =>
      /\ pricing[t].snapshot \in DOMAIN priceSnapshots
      /\ priceSnapshots[pricing[t].snapshot] = pricing[t].rates

\* A recalculation prices the tokens of its row, and unless it met another one the
\* row is as it loaded it.
WorkLoaded ==
  \A t \in Pricers :
    LET work == pricing[t] IN
    Pricing(t) /\ work.loaded.recorded =>
      /\ work.step # "listed"
      /\ priced[work.row].recorded
      /\ work.tokens = priced[work.row].tokens
      /\ ~work.met => /\ work.loaded.cost = priced[work.row].cost
                      /\ work.loaded.snapshot = priced[work.row].snapshot

\* A locked row has one recalculation, which meets no other.
LockedAlone ==
  LockingReads =>
    \A t \in Pricers :
      Pricing(t) /\ pricing[t].loaded.recorded =>
        /\ ~pricing[t].met
        /\ \A u \in Pricers :
             Pricing(u) /\ pricing[u].row = pricing[t].row /\ pricing[u].loaded.recorded => u = t

\* Nobody else works on a row that is about to be recorded.
NewAlone ==
  \A t \in Pricers :
    Pricing(t) /\ pricing[t].step # "listed" /\ ~pricing[t].loaded.recorded =>
      /\ ~priced[pricing[t].row].recorded
      /\ \A u \in Pricers : Pricing(u) /\ pricing[u].row = pricing[t].row => u = t

\* What is listed was recorded.
ListedRecorded ==
  \A t \in Pricers :
    Pricing(t) /\ pricing[t].step = "listed" => priced[pricing[t].row].recorded

WorkInv == WorkLoaded /\ LockedAlone /\ NewAlone /\ ListedRecorded

PriceInv ==
  /\ PriceTypeOK /\ IsInjective(priceSnapshots) /\ UnrecordedUnbound
  /\ RowsReplay /\ WorkBound /\ WorkInv

-----------------------------------------------------------------------------
(* Rates and charges. *)

LEMMA EffectiveRates ==
  ASSUME NEW offer \in Offers \cup {NoOffer}, NEW hour
  PROVE  Effective(offer, hour) \in Rates
<1>1. CASE offer = NoOffer
  BY <1>1 DEF Effective, Rates
<1>2. CASE offer # NoOffer
  <2>1. offer \in [low : Nat, high : Nat, night : Nat]
    BY <1>2, PricesAssumption
  <2>2. CASE AtNight(hour)
    BY <1>2, <2>1, <2>2 DEF Effective, Rates
  <2>3. CASE ~AtNight(hour)
    BY <1>2, <2>1, <2>3 DEF Effective, Rates
  <2> QED
    BY <2>2, <2>3
<1> QED
  BY <1>1, <1>2

LEMMA ChargeType ==
  ASSUME NEW rates \in Rates, NEW tokens \in Nat
  PROVE  Charge(rates, tokens) \in Nat
<1>1. \A a, b \in Nat : a * b \in Nat
  OBVIOUS
<1>2. (IF tokens < TierFloor THEN rates.low ELSE rates.high) \in Nat
  BY DEF Rates
<1> QED
  BY <1>1, <1>2 DEF Charge

-----------------------------------------------------------------------------
(* The invariant is inductive: one lemma per action. *)

LEMMA InitPrices == PriceInit => PriceInv
<1> SUFFICES ASSUME PriceInit PROVE PriceInv
  OBVIOUS
<1>1. PriceTypeOK /\ UnrecordedUnbound /\ RowsReplay
  BY DEF PriceInit, PriceTypeOK, NotRecorded, UsageRows, UnrecordedUnbound, RowsReplay, NoSnapshot
<1>2. IsInjective(priceSnapshots)
  BY DEF PriceInit, IsInjective
<1>3. WorkBound /\ WorkInv
  BY DEF PriceInit, WorkBound, WorkInv, WorkLoaded, LockedAlone, NewAlone, ListedRecorded, Pricing
<1> QED
  BY <1>1, <1>2, <1>3 DEF PriceInv

\* A thread whose rows and snapshots stay as they are and that turns to other work
\* needs a look at that work only.
LEMMA NewWork ==
  ASSUME PriceInv, NEW t \in Pricers, NEW work \in {NotPricing} \cup PriceWork,
         pricing' = [pricing EXCEPT ![t] = work],
         UNCHANGED <<priceSnapshots, priced, crossedRows>>,
         work # NotPricing /\ work.snapshot # NoSnapshot =>
           /\ work.snapshot \in DOMAIN priceSnapshots
           /\ priceSnapshots[work.snapshot] = work.rates
  PROVE  /\ PriceTypeOK' /\ IsInjective(priceSnapshots)' /\ UnrecordedUnbound'
         /\ RowsReplay' /\ WorkBound'
<1>1. PriceTypeOK'
  BY DEF PriceInv, PriceTypeOK
<1>2. IsInjective(priceSnapshots)' /\ UnrecordedUnbound'
  BY DEF PriceInv, IsInjective, UnrecordedUnbound
<1>3. RowsReplay'
  BY DEF PriceInv, RowsReplay, Bound, Replayed, Charge
<1>4. WorkBound'
  BY DEF PriceInv, PriceTypeOK, WorkBound, Pricing
<1> QED
  BY <1>1, <1>2, <1>3, <1>4

LEMMA ResolveKeeps ==
  ASSUME PriceInv, NEW t \in Pricers, NEW row \in PricedRows,
         NEW tokens \in InputTokens, NEW hour \in Hours, NEW offer \in Offers \cup {NoOffer},
         ResolveNew(t, row, tokens, hour, offer)
  PROVE  PriceInv'
<1>1. PICK work :
        /\ \E step \in {"insert", "snapshot"} :
             work = [step |-> step, row |-> row, tokens |-> tokens, hour |-> hour,
                     rates |-> Effective(offer, hour), snapshot |-> NoSnapshot,
                     loaded |-> priced[row], met |-> FALSE]
        /\ pricing' = [pricing EXCEPT ![t] = work]
  BY DEF ResolveNew
<1>2. priced[row] \in UsageRows /\ tokens \in Nat /\ hour \in Nat
  BY PricesAssumption DEF PriceInv, PriceTypeOK
<1>3. /\ work \in PriceWork /\ work.snapshot = NoSnapshot /\ work.row = row
      /\ work.step # "listed" /\ work.loaded = priced[row]
  BY <1>1, <1>2, EffectiveRates DEF PriceWork, NoSnapshot
<1>4. /\ ~priced[row].recorded /\ UNCHANGED <<priceSnapshots, priced, crossedRows>>
      /\ \A u \in Pricers : Pricing(u) => pricing[u].row # row
  BY DEF ResolveNew, Pricing
<1>5. WorkInv'
  BY <1>1, <1>3, <1>4 DEF PriceInv, PriceTypeOK, WorkInv, WorkLoaded, LockedAlone, NewAlone,
     ListedRecorded, Pricing
<1> QED
  BY <1>1, <1>3, <1>4, <1>5, NewWork DEF PriceInv

LEMMA ListingKeeps ==
  ASSUME PriceInv, NEW t \in Pricers, NEW row \in PricedRows, ListEstimated(t, row)
  PROVE  PriceInv'
<1>1. PICK work :
        /\ work = [step |-> "listed", row |-> row, tokens |-> 0, hour |-> 0,
                   rates |-> Effective(NoOffer, 0), snapshot |-> NoSnapshot,
                   loaded |-> NotRecorded, met |-> FALSE]
        /\ pricing' = [pricing EXCEPT ![t] = work]
  BY DEF ListEstimated
<1>2. NotRecorded \in UsageRows /\ NotRecorded.recorded = FALSE
  BY DEF NotRecorded, UsageRows
<1>3. /\ work \in PriceWork /\ work.snapshot = NoSnapshot /\ work.row = row
      /\ work.step = "listed" /\ ~work.loaded.recorded
  BY <1>1, <1>2, EffectiveRates DEF PriceWork, NoSnapshot
<1>4. priced[row].recorded /\ UNCHANGED <<priceSnapshots, priced, crossedRows>>
  BY DEF ListEstimated
<1>5. WorkInv'
  BY <1>1, <1>3, <1>4 DEF PriceInv, PriceTypeOK, WorkInv, WorkLoaded, LockedAlone, NewAlone,
     ListedRecorded, Pricing
<1> QED
  BY <1>1, <1>3, <1>4, <1>5, NewWork DEF PriceInv

LEMMA LoadingKeeps ==
  ASSUME PriceInv, NEW t \in Pricers, NEW row \in PricedRows, NEW offer \in Offers \cup {NoOffer},
         LoadPriced(t, row, offer)
  PROVE  PriceInv'
<1>1. PICK work :
        /\ work = [step |-> "snapshot", row |-> row, tokens |-> priced[row].tokens,
                   hour |-> priced[row].hour, rates |-> Effective(offer, priced[row].hour),
                   snapshot |-> NoSnapshot, loaded |-> priced[row], met |-> FALSE]
        /\ pricing' = [pricing EXCEPT ![t] = work]
  BY DEF LoadPriced
<1>2. priced[row] \in UsageRows
  BY DEF PriceInv, PriceTypeOK
<1>3. /\ work \in PriceWork /\ work.snapshot = NoSnapshot /\ work.row = row
      /\ work.step = "snapshot" /\ work.loaded = priced[row]
      /\ work.tokens = priced[row].tokens /\ ~work.met
  BY <1>1, <1>2, EffectiveRates DEF PriceWork, NoSnapshot, UsageRows
<1>4. priced[row].recorded /\ UNCHANGED <<priceSnapshots, priced, crossedRows>>
  BY DEF LoadPriced
<1>5. LockingReads =>
        \A u \in Pricers : ~(Pricing(u) /\ pricing[u].row = row /\ pricing[u].loaded.recorded)
  BY DEF LoadPriced, Held, Pricing
<1>6. WorkInv'
  BY <1>1, <1>3, <1>4, <1>5 DEF PriceInv, PriceTypeOK, WorkInv, WorkLoaded, LockedAlone, NewAlone,
     ListedRecorded, Pricing
<1> QED
  BY <1>1, <1>3, <1>4, <1>6, NewWork DEF PriceInv

\* A snapshot is stored once, and those stored before stay where they are.
LEMMA EnsureKeeps ==
  ASSUME PriceInv, NEW t \in Pricers, EnsureSnapshot(t)
  PROVE  PriceInv'
<1>1. /\ Pricing(t) /\ pricing[t].step = "snapshot" /\ pricing[t] \in PriceWork
      /\ UNCHANGED <<priced, crossedRows>>
  BY DEF EnsureSnapshot, Under, Pricing, PriceInv, PriceTypeOK
<1>2. PICK rates \in Rates : rates = pricing[t].rates
  BY <1>1 DEF PriceWork
<1>3. PICK id \in Nat :
        /\ pricing' = [pricing EXCEPT ![t] = [@ EXCEPT !.step = "insert", !.snapshot = id]]
        /\ id \in DOMAIN priceSnapshots' /\ priceSnapshots'[id] = rates
        /\ priceSnapshots' \in Seq(Rates) /\ IsInjective(priceSnapshots)'
        /\ \A i \in DOMAIN priceSnapshots :
             i \in DOMAIN priceSnapshots' /\ priceSnapshots'[i] = priceSnapshots[i]
  <2>1. priceSnapshots \in Seq(Rates) /\ IsInjective(priceSnapshots)
    BY DEF PriceInv, PriceTypeOK
  <2>2. CASE SnapshotIds(rates) # {}
    <3>1. PICK id : id = (CHOOSE i \in SnapshotIds(rates) : TRUE)
      OBVIOUS
    <3>2. id \in DOMAIN priceSnapshots /\ priceSnapshots[id] = rates
      BY <2>2, <3>1 DEF SnapshotIds
    <3>3. /\ priceSnapshots' = priceSnapshots
          /\ pricing' = [pricing EXCEPT ![t] = [@ EXCEPT !.step = "insert", !.snapshot = id]]
      BY <1>2, <2>2, <3>1 DEF EnsureSnapshot, Ensured
    <3>4. id \in Nat
      BY <2>1, <3>2
    <3> QED
      BY <2>1, <3>2, <3>3, <3>4 DEF IsInjective
  <2>3. CASE SnapshotIds(rates) = {}
    <3>1. /\ priceSnapshots' = Append(priceSnapshots, rates)
          /\ pricing' = [pricing EXCEPT ![t] =
               [@ EXCEPT !.step = "insert", !.snapshot = Len(priceSnapshots) + 1]]
      BY <1>2, <2>3 DEF EnsureSnapshot, Ensured
    <3>2. \A i \in DOMAIN priceSnapshots : priceSnapshots[i] # rates
      BY <2>3 DEF SnapshotIds
    <3>3. /\ DOMAIN priceSnapshots = 1 .. Len(priceSnapshots) /\ Len(priceSnapshots) \in Nat
          /\ priceSnapshots' \in Seq(Rates)
          /\ DOMAIN priceSnapshots' = 1 .. Len(priceSnapshots) + 1
          /\ priceSnapshots'[Len(priceSnapshots) + 1] = rates
          /\ \A i \in 1 .. Len(priceSnapshots) : priceSnapshots'[i] = priceSnapshots[i]
      BY <2>1, <3>1
    <3>4. IsInjective(priceSnapshots)'
      BY <2>1, <3>2, <3>3 DEF IsInjective
    <3>5. \A i \in DOMAIN priceSnapshots :
            i \in DOMAIN priceSnapshots' /\ priceSnapshots'[i] = priceSnapshots[i]
      BY <3>3
    <3>6. Len(priceSnapshots) + 1 \in Nat /\ Len(priceSnapshots) + 1 \in DOMAIN priceSnapshots'
      BY <3>3
    <3> QED
      BY Zenon, <3>1, <3>3, <3>4, <3>5, <3>6
  <2> QED
    BY <2>2, <2>3
<1>4. PICK work : work = [pricing[t] EXCEPT !.step = "insert", !.snapshot = id]
  OBVIOUS
<1>5. /\ pricing' = [pricing EXCEPT ![t] = work] /\ work \in PriceWork
      /\ work.snapshot = id /\ work.rates = rates /\ work.step = "insert"
      /\ work.row = pricing[t].row /\ work.loaded = pricing[t].loaded
      /\ work.tokens = pricing[t].tokens /\ work.met = pricing[t].met
  BY <1>1, <1>2, <1>3, <1>4 DEF PriceWork
<1>6. PriceTypeOK' /\ UnrecordedUnbound'
  BY <1>1, <1>3, <1>5 DEF PriceInv, PriceTypeOK, UnrecordedUnbound
<1>7. RowsReplay'
  BY <1>1, <1>3 DEF PriceInv, RowsReplay, Bound, Replayed, Charge
<1>8. WorkBound'
  <2> SUFFICES ASSUME NEW u \in Pricers, pricing'[u] # NotPricing, pricing'[u].snapshot # NoSnapshot
               PROVE  /\ pricing'[u].snapshot \in DOMAIN priceSnapshots'
                      /\ priceSnapshots'[pricing'[u].snapshot] = pricing'[u].rates
    BY DEF WorkBound, Pricing, NoSnapshot
  <2>1. CASE u = t
    BY <1>3, <1>5, <2>1 DEF PriceInv, PriceTypeOK
  <2>2. CASE u # t
    <3>1. pricing'[u] = pricing[u]
      BY <1>5, <2>2 DEF PriceInv, PriceTypeOK
    <3>2. /\ pricing[u].snapshot \in DOMAIN priceSnapshots
          /\ priceSnapshots[pricing[u].snapshot] = pricing[u].rates
      BY <3>1 DEF PriceInv, WorkBound, Pricing
    <3> QED
      BY <1>3, <3>1, <3>2
  <2> QED
    BY <2>1, <2>2
<1>9. WorkInv'
  BY <1>1, <1>5, PricesAssumption DEF PriceInv, PriceTypeOK, WorkInv, WorkLoaded, LockedAlone,
     NewAlone, ListedRecorded, Pricing
<1> QED
  BY <1>3, <1>6, <1>7, <1>8, <1>9 DEF PriceInv

LEMMA MissKeeps ==
  ASSUME PriceInv, NEW t \in Pricers, MissSnapshot(t)
  PROVE  PriceInv'
<1>1. /\ Pricing(t) /\ pricing[t].step = "snapshot" /\ pricing[t] \in PriceWork
      /\ UNCHANGED <<priceSnapshots, priced, crossedRows>>
  BY DEF MissSnapshot, Under, Pricing, PriceInv, PriceTypeOK
<1>2. PICK work : work = [pricing[t] EXCEPT !.step = "insert"]
  OBVIOUS
<1>3. /\ pricing' = [pricing EXCEPT ![t] = work] /\ work \in PriceWork
      /\ work.snapshot = pricing[t].snapshot /\ work.rates = pricing[t].rates
      /\ work.step = "insert" /\ work.row = pricing[t].row /\ work.loaded = pricing[t].loaded
      /\ work.tokens = pricing[t].tokens /\ work.met = pricing[t].met
  BY <1>1, <1>2 DEF MissSnapshot, PriceWork
<1>4. WorkInv'
  BY <1>1, <1>3, PricesAssumption DEF PriceInv, PriceTypeOK, WorkInv, WorkLoaded, LockedAlone,
     NewAlone, ListedRecorded, Pricing
<1>5. pricing[t].snapshot # NoSnapshot =>
        /\ pricing[t].snapshot \in DOMAIN priceSnapshots
        /\ priceSnapshots[pricing[t].snapshot] = pricing[t].rates
  BY <1>1 DEF PriceInv, WorkBound
<1> QED
  BY <1>1, <1>3, <1>4, <1>5, NewWork DEF PriceInv

LEMMA PricingFailKeeps ==
  ASSUME PriceInv, NEW t \in Pricers, FailPricing(t)
  PROVE  PriceInv'
<1>1. /\ pricing' = [pricing EXCEPT ![t] = NotPricing]
      /\ UNCHANGED <<priceSnapshots, priced, crossedRows>>
  BY DEF FailPricing
<1>2. WorkInv'
  BY <1>1 DEF PriceInv, PriceTypeOK, WorkInv, WorkLoaded, LockedAlone, NewAlone,
     ListedRecorded, Pricing
<1> QED
  BY <1>1, <1>2, NewWork DEF PriceInv

LEMMA InsertKeeps ==
  ASSUME PriceInv, NEW t \in Pricers, InsertPriced(t)
  PROVE  PriceInv'
<1>1. PICK work : work = pricing[t]
  OBVIOUS
<1>2. PICK new : new = [tokens |-> work.tokens, hour |-> work.hour,
                        cost |-> Charge(work.rates, work.tokens),
                        snapshot |-> work.snapshot, recorded |-> TRUE]
  OBVIOUS
<1>3. /\ Pricing(t) /\ work \in PriceWork /\ work.step = "insert" /\ ~work.loaded.recorded
      /\ priced' = [priced EXCEPT ![work.row] = new]
      /\ pricing' = [pricing EXCEPT ![t] = NotPricing]
      /\ UNCHANGED <<priceSnapshots, crossedRows>>
  BY <1>1, <1>2 DEF InsertPriced, Outcome, Under, Pricing, PriceInv, PriceTypeOK
<1>4. /\ work.row \in PricedRows /\ work.tokens \in Nat /\ work.rates \in Rates
      /\ Charge(work.rates, work.tokens) \in Nat
  BY <1>3, ChargeType DEF PriceWork
<1>5. /\ new \in UsageRows /\ new.recorded = TRUE /\ new.snapshot = work.snapshot
      /\ new.cost = Charge(work.rates, work.tokens) /\ new.tokens = work.tokens
  BY <1>2, <1>3, <1>4 DEF UsageRows, PriceWork
<1>6. PriceTypeOK' /\ IsInjective(priceSnapshots)'
  BY <1>3, <1>4, <1>5 DEF PriceInv, PriceTypeOK, IsInjective
<1>7. UnrecordedUnbound'
  BY <1>3, <1>4, <1>5 DEF PriceInv, PriceTypeOK, UnrecordedUnbound
<1>8. RowsReplay'
  <2> SUFFICES ASSUME NEW row \in PricedRows, (priced[row].snapshot)' # NoSnapshot,
                      LockingReads \/ row \notin crossedRows'
               PROVE  Bound(row)' /\ (priced[row].cost)' = Replayed(row)'
    BY DEF RowsReplay, NoSnapshot
  <2>1. CASE row = work.row
    <3>1. priced'[row] = new
      BY <1>3, <1>4, <2>1 DEF PriceInv, PriceTypeOK
    <3>2. new.snapshot \in DOMAIN priceSnapshots /\ priceSnapshots[new.snapshot] = work.rates
      BY <1>1, <1>3, <1>5, <3>1 DEF PriceInv, WorkBound
    <3> QED
      BY <1>3, <1>5, <3>1, <3>2 DEF Bound, Replayed
  <2>2. CASE row # work.row
    <3>1. priced'[row] = priced[row]
      BY <1>3, <1>4, <2>2 DEF PriceInv, PriceTypeOK
    <3> QED
      BY <1>3, <3>1 DEF PriceInv, RowsReplay, Bound, Replayed
  <2> QED
    BY <2>1, <2>2
<1>9. WorkBound'
  BY <1>3 DEF PriceInv, PriceTypeOK, WorkBound, Pricing
<1>10. \A u \in Pricers : Pricing(u) /\ pricing[u].row = work.row => u = t
  BY <1>1, <1>3 DEF PriceInv, WorkInv, NewAlone
<1>11. WorkInv'
  <2>1. \A u \in Pricers : Pricing(u)' =>
          /\ u # t /\ Pricing(u) /\ pricing'[u] = pricing[u]
          /\ priced'[pricing[u].row] = priced[pricing[u].row]
    BY <1>3, <1>4, <1>10 DEF PriceInv, PriceTypeOK, Pricing, PriceWork
  <2> QED
    BY <2>1 DEF PriceInv, WorkInv, WorkLoaded, LockedAlone, NewAlone, ListedRecorded
<1> QED
  BY <1>6, <1>7, <1>8, <1>9, <1>11 DEF PriceInv

\* A recalculation that met no other writes its cost and its snapshot; one that did
\* leaves a crossed row.
LEMMA CommitKeeps ==
  ASSUME PriceInv, NEW t \in Pricers, CommitPriced(t)
  PROVE  PriceInv'
<1>1. PICK work : work = pricing[t]
  OBVIOUS
<1>2. PICK cost, snapshot :
        /\ cost = IF Charge(work.rates, work.tokens) = work.loaded.cost
                  THEN priced[work.row].cost ELSE Charge(work.rates, work.tokens)
        /\ snapshot = IF work.snapshot = work.loaded.snapshot
                      THEN priced[work.row].snapshot ELSE work.snapshot
  OBVIOUS
<1>3. /\ Pricing(t) /\ work \in PriceWork /\ work.step = "insert" /\ work.loaded.recorded
      /\ priced' = [priced EXCEPT ![work.row] = [@ EXCEPT !.cost = cost, !.snapshot = snapshot]]
      /\ crossedRows' = IF work.met THEN crossedRows \cup {work.row}
                        ELSE crossedRows \ {work.row}
      /\ pricing' = [u \in Pricers |->
           IF u = t THEN NotPricing
           ELSE IF u \in Held(work.row) THEN [pricing[u] EXCEPT !.met = TRUE] ELSE pricing[u]]
      /\ UNCHANGED priceSnapshots
  BY <1>1, <1>2 DEF CommitPriced, Outcome, Under, Pricing, PriceInv, PriceTypeOK
<1>4. /\ work.row \in PricedRows /\ priced[work.row] \in UsageRows
      /\ work.tokens \in Nat /\ work.rates \in Rates
      /\ Charge(work.rates, work.tokens) \in Nat
  BY <1>3, ChargeType DEF PriceWork, PriceInv, PriceTypeOK
<1>5. cost \in Nat /\ snapshot \in Nat
  BY <1>2, <1>3, <1>4 DEF UsageRows, PriceWork
<1>6. PICK new \in UsageRows :
        /\ priced' = [priced EXCEPT ![work.row] = new]
        /\ new.cost = cost /\ new.snapshot = snapshot
        /\ new.tokens = priced[work.row].tokens /\ new.recorded = priced[work.row].recorded
  <2>1. [priced[work.row] EXCEPT !.cost = cost, !.snapshot = snapshot] \in UsageRows
    BY <1>4, <1>5 DEF UsageRows
  <2>2. PICK new : new = [priced[work.row] EXCEPT !.cost = cost, !.snapshot = snapshot]
    OBVIOUS
  <2> QED
    BY <1>3, <1>4, <2>1, <2>2 DEF UsageRows
<1>7. /\ priced[work.row].recorded /\ work.tokens = priced[work.row].tokens
      /\ ~work.met => cost = Charge(work.rates, work.tokens) /\ snapshot = work.snapshot
      /\ LockingReads => ~work.met
  BY <1>1, <1>2, <1>3, <1>4 DEF PriceInv, WorkInv, WorkLoaded, LockedAlone, PriceWork, UsageRows
<1>8. /\ priced'[work.row] = new
      /\ \A row \in PricedRows \ {work.row} : priced'[row] = priced[row]
  BY <1>4, <1>6 DEF PriceInv, PriceTypeOK
<1>9. \A u \in Pricers : Pricing(u)' =>
        /\ u # t /\ Pricing(u) /\ pricing[u] \in PriceWork /\ pricing'[u] \in PriceWork
        /\ \/ pricing'[u] = pricing[u]
           \/ pricing'[u] = [pricing[u] EXCEPT !.met = TRUE] /\ u \in Held(work.row)
        /\ pricing[u].row = work.row /\ pricing[u].loaded.recorded => pricing'[u].met
  <2> SUFFICES ASSUME NEW u \in Pricers, Pricing(u)'
               PROVE  /\ u # t /\ Pricing(u) /\ pricing[u] \in PriceWork /\ pricing'[u] \in PriceWork
                      /\ \/ pricing'[u] = pricing[u]
                         \/ /\ pricing'[u] = [pricing[u] EXCEPT !.met = TRUE]
                            /\ u \in Held(work.row)
                      /\ pricing[u].row = work.row /\ pricing[u].loaded.recorded =>
                           pricing'[u].met
    OBVIOUS
  <2>1. u # t
    BY <1>3 DEF Pricing
  <2>2. CASE u \in Held(work.row)
    <3>1. Pricing(u) /\ pricing[u] \in PriceWork
      BY <2>2 DEF Held, Pricing, PriceInv, PriceTypeOK
    <3>2. pricing'[u] = [pricing[u] EXCEPT !.met = TRUE]
      BY <1>3, <2>1, <2>2
    <3> QED
      BY <2>1, <2>2, <3>1, <3>2 DEF PriceWork
  <2>3. CASE u \notin Held(work.row)
    <3>1. pricing'[u] = pricing[u]
      BY <1>3, <2>1, <2>3
    <3> QED
      BY <2>1, <2>3, <3>1 DEF Held, Pricing, PriceInv, PriceTypeOK
  <2> QED
    BY <2>2, <2>3
<1>10. \A u \in Pricers : Pricing(u)' =>
         /\ pricing'[u].row = pricing[u].row /\ pricing'[u].step = pricing[u].step
         /\ pricing'[u].tokens = pricing[u].tokens /\ pricing'[u].rates = pricing[u].rates
         /\ pricing'[u].snapshot = pricing[u].snapshot /\ pricing'[u].loaded = pricing[u].loaded
  BY <1>9 DEF PriceWork
<1>11. PriceTypeOK'
  <2>1. priced' \in [PricedRows -> UsageRows] /\ crossedRows' \subseteq PricedRows
    BY <1>3, <1>4, <1>6 DEF PriceInv, PriceTypeOK
  <2>2. pricing' \in [Pricers -> {NotPricing} \cup PriceWork]
    BY <1>3, <1>9 DEF Pricing
  <2> QED
    BY <1>3, <2>1, <2>2 DEF PriceInv, PriceTypeOK
<1>12. IsInjective(priceSnapshots)' /\ UnrecordedUnbound'
  BY <1>3, <1>6, <1>7, <1>8 DEF PriceInv, IsInjective, UnrecordedUnbound
<1>13. RowsReplay'
  <2> SUFFICES ASSUME NEW row \in PricedRows, (priced[row].snapshot)' # NoSnapshot,
                      LockingReads \/ row \notin crossedRows'
               PROVE  Bound(row)' /\ (priced[row].cost)' = Replayed(row)'
    BY DEF RowsReplay, NoSnapshot
  <2>1. CASE row = work.row
    <3>1. ~work.met
      BY <1>3, <1>7, <2>1
    <3>2. work.snapshot \in DOMAIN priceSnapshots /\ priceSnapshots[work.snapshot] = work.rates
      BY <1>1, <1>3, <1>6, <1>7, <1>8, <2>1, <3>1 DEF PriceInv, WorkBound
    <3> QED
      BY <1>3, <1>6, <1>7, <1>8, <2>1, <3>1, <3>2 DEF Bound, Replayed
  <2>2. CASE row # work.row
    <3>1. priced'[row] = priced[row] /\ (row \notin crossedRows' => row \notin crossedRows)
      BY <1>3, <1>8, <2>2
    <3> QED
      BY <1>3, <3>1 DEF PriceInv, RowsReplay, Bound, Replayed
  <2> QED
    BY <2>1, <2>2
<1>14. WorkBound'
  <2> SUFFICES ASSUME NEW u \in Pricers, Pricing(u)', (pricing[u].snapshot)' # NoSnapshot
               PROVE  /\ pricing'[u].snapshot \in DOMAIN priceSnapshots
                      /\ priceSnapshots[pricing'[u].snapshot] = pricing'[u].rates
    BY <1>3 DEF WorkBound, NoSnapshot
  <2> QED
    BY <1>9, <1>10 DEF PriceInv, WorkBound
<1>15. WorkLoaded'
  <2> SUFFICES ASSUME NEW u \in Pricers, Pricing(u)', (pricing[u].loaded.recorded)'
               PROVE  /\ pricing'[u].step # "listed"
                      /\ priced'[pricing'[u].row].recorded
                      /\ pricing'[u].tokens = priced'[pricing'[u].row].tokens
                      /\ ~pricing'[u].met =>
                           /\ pricing'[u].loaded.cost = priced'[pricing'[u].row].cost
                           /\ pricing'[u].loaded.snapshot = priced'[pricing'[u].row].snapshot
    BY DEF WorkLoaded
  <2>1. /\ pricing[u].step # "listed" /\ priced[pricing[u].row].recorded
        /\ pricing[u].tokens = priced[pricing[u].row].tokens
        /\ ~pricing[u].met => /\ pricing[u].loaded.cost = priced[pricing[u].row].cost
                              /\ pricing[u].loaded.snapshot = priced[pricing[u].row].snapshot
    BY <1>9, <1>10 DEF PriceInv, WorkInv, WorkLoaded
  <2>2. CASE pricing[u].row = work.row
    <3>1. pricing'[u].loaded.recorded /\ pricing'[u].met /\ pricing[u].loaded.recorded
      BY <1>9, <1>10, <2>2
    <3>2. /\ pricing'[u].row = work.row /\ pricing'[u].tokens = pricing[u].tokens
          /\ pricing'[u].step = pricing[u].step
      BY <1>10, <2>2
    <3> QED
      BY <1>6, <1>8, <2>1, <2>2, <3>1, <3>2
  <2>3. CASE pricing[u].row # work.row
    <3>1. pricing'[u] = pricing[u]
      BY <1>9, <2>3 DEF Held
    <3>2. priced'[pricing[u].row] = priced[pricing[u].row]
      BY <1>8, <1>9, <2>3 DEF PriceWork
    <3> QED
      BY <2>1, <3>1, <3>2
  <2> QED
    BY <2>2, <2>3
<1>16. LockedAlone'
  <2>1. LockingReads => \A u \in Pricers : Pricing(u)' => pricing'[u] = pricing[u]
    BY <1>1, <1>3, <1>9 DEF PriceInv, WorkInv, LockedAlone, Held, Pricing
  <2> QED
    BY <1>9, <2>1 DEF PriceInv, WorkInv, LockedAlone
<1>17. NewAlone' /\ ListedRecorded'
  <2>1. \A u \in Pricers : Pricing(u)' =>
          priced'[pricing'[u].row].recorded = priced[pricing[u].row].recorded
    BY <1>6, <1>8, <1>9, <1>10 DEF PriceWork
  <2>2. \A u \in Pricers : Pricing(u)' =>
          /\ Pricing(u) /\ pricing'[u].row = pricing[u].row /\ pricing'[u].step = pricing[u].step
          /\ pricing'[u].loaded.recorded = pricing[u].loaded.recorded
    BY <1>9, <1>10
  <2>3. NewAlone'
    BY <2>1, <2>2 DEF PriceInv, WorkInv, NewAlone
  <2>4. ListedRecorded'
    BY <2>1, <2>2 DEF PriceInv, WorkInv, ListedRecorded
  <2> QED
    BY <2>3, <2>4
<1> QED
  BY <1>3, <1>11, <1>12, <1>13, <1>14, <1>15, <1>16, <1>17 DEF PriceInv, WorkInv

-----------------------------------------------------------------------------
LEMMA StutterPrices == PriceInv /\ UNCHANGED priceVars => PriceInv'
BY DEF priceVars, PriceInv, PriceTypeOK, IsInjective, UnrecordedUnbound, RowsReplay, Bound,
   Replayed, Charge, WorkBound, WorkInv, WorkLoaded, LockedAlone, NewAlone, ListedRecorded, Pricing

LEMMA PriceInvInductive == PriceInv /\ [PriceNext]_priceVars => PriceInv'
<1> SUFFICES ASSUME PriceInv, [PriceNext]_priceVars PROVE PriceInv'
  OBVIOUS
<1>1. CASE UNCHANGED priceVars
  BY <1>1, StutterPrices
<1>2. ASSUME NEW t \in Pricers, NEW row \in PricedRows, NEW offer \in Offers \cup {NoOffer},
             \/ \E tokens \in InputTokens, hour \in Hours : ResolveNew(t, row, tokens, hour, offer)
             \/ LoadPriced(t, row, offer)
      PROVE  PriceInv'
  BY <1>2, ResolveKeeps, LoadingKeeps
<1>3. ASSUME NEW t \in Pricers, NEW row \in PricedRows, ListEstimated(t, row)
      PROVE  PriceInv'
  BY <1>3, ListingKeeps
<1>4. ASSUME NEW t \in Pricers,
             \/ EnsureSnapshot(t) \/ MissSnapshot(t)
             \/ InsertPriced(t) \/ CommitPriced(t) \/ FailPricing(t)
      PROVE  PriceInv'
  BY <1>4, EnsureKeeps, MissKeeps, InsertKeeps, CommitKeeps, PricingFailKeeps
<1> QED
  BY <1>1, <1>2, <1>3, <1>4 DEF PriceNext

\* The snapshots, the rows and the work of the threads keep their types.
THEOREM PricesTypeCorrect == PriceSpec => []PriceTypeOK
<1>1. PriceInv => PriceTypeOK
  BY DEF PriceInv
<1> QED
  BY <1>1, InitPrices, PriceInvInductive, PTL DEF PriceSpec

\* A row bound to a snapshot costs what a replay of it charges, unless two
\* recalculations overlapped on a database without row locks; equal rates are stored
\* once (record_usage, recalculate_usage_cost, ensure_price_snapshot, enrich_rows).
THEOREM BoundRowsAlwaysReplay == PriceSpec => []BoundRowsReplay
<1>1. PriceInv => BoundRowsReplay
  BY DEF PriceInv, RowsReplay, BoundRowsReplay
<1> QED
  BY <1>1, InitPrices, PriceInvInductive, PTL DEF PriceSpec

-----------------------------------------------------------------------------
(* ---- configuration and prices in force ---------------------------------------- *)

Active(t) == refreshes[t] # NotRefreshing
\* A refresh that has read the file; a price query reads none.
PastLoad(t) == Active(t) /\ ~refreshes[t].live /\ refreshes[t].step # "load"
LoadDue(p) == \E u \in Swapping(p) : refreshes[u].step = "load"

\* The proxy is to be told of a change, or was not told of one.
Told(p) ==
  p = Proxy /\ (Proxy \in untold \/ notices \/ \E t \in Refreshing(Api) : refreshes[t].tells)

\* A price query downloads, and tells no one.
QueriesSave ==
  \A t \in Refreshers :
    Active(t) /\ refreshes[t].live => refreshes[t].step = "save" /\ ~refreshes[t].tells

\* A refresh that was not overtaken has read the file as it is, or a newer one
\* is due.
ConfigCurrent ==
  \A t \in Refreshers :
    PastLoad(t) /\ ~refreshes[t].passed /\ refreshes[t].proc \in {Api, Proxy} =>
      \/ refreshes[t].config = configFile.patches
      \/ ~configFile.whole \/ LoadDue(refreshes[t].proc) \/ Told(refreshes[t].proc)

\* A refresh that was not overtaken found the prices its process has loaded, unless
\* its fetch raised.
PricesFound ==
  \A t \in Refreshers :
    RefreshAt(t, "swap") /\ ~refreshes[t].passed /\ refreshes[t].proc \in hadPrices =>
      refreshes[t].found \/ refreshes[t].raised

\* Prices that were loaded are in force or about to be, or left out by a refresh that
\* was overtaken or interrupted.
PricesComing ==
  \A p \in hadPrices :
    \/ <<p, "prices">> \in behind \/ p \in interrupted \/ inForce[p].priced
    \/ \E t \in Swapping(p) : refreshes[t].step = "swap"

ConfigHolds ==
  \A p \in {Api, Proxy} :
    ~Awaiting(p) /\ p \notin untold /\ <<p, "config">> \notin behind =>
      inForce[p].config = configFile.patches
PricesHeld == \A p \in hadPrices : remoteCosts[p] = Prices

RefreshInv ==
  /\ RefreshTypeOK
  /\ QueriesSave /\ ConfigCurrent /\ ConfigHolds
  /\ PricesHeld /\ PricesFound /\ PricesComing

RefreshesOf == [Refreshers -> {NotRefreshing} \cup RefreshStates]

LEMMA InitRefresh == RefreshInit => RefreshInv
<1> SUFFICES ASSUME RefreshInit PROVE RefreshInv
  OBVIOUS
<1> USE RefreshAssumption
<1>1. \A t \in Refreshers : refreshes[t] = NotRefreshing
  BY DEF RefreshInit
<1>2. RefreshTypeOK
  <2>1. configFile \in [patches : 1 .. MaxPatches, whole : BOOLEAN]
    BY DEF RefreshInit
  <2>2. inForce \in [ServerProcs -> [config : 0 .. MaxPatches, priced : BOOLEAN]]
    BY DEF RefreshInit
  <2>3. notices \in BOOLEAN
    BY DEF RefreshInit
  <2> QED
    BY <2>1, <2>2, <2>3 DEF RefreshInit, RefreshTypeOK
<1>3. QueriesSave /\ ConfigCurrent /\ PricesFound
  BY <1>1 DEF QueriesSave, ConfigCurrent, PricesFound, PastLoad, Active, RefreshAt
<1>4. ConfigHolds /\ PricesHeld /\ PricesComing
  BY DEF RefreshInit, ConfigHolds, PricesHeld, PricesComing, ServerProcs
<1> QED
  BY <1>2, <1>3, <1>4 DEF RefreshInv

\* A step of a refresh changes neither whose it is, nor whom it tells, nor what it is.
Alike(r, s) ==
  /\ r.proc = s.proc /\ r.tells = s.tells /\ r.live = s.live
  /\ s.passed => r.passed

\* A thread goes on in its refresh, to r; of the others it leaves all but that they
\* were overtaken.
Goes(t, r, steps) ==
  /\ refreshes' \in RefreshesOf
  /\ refreshes[t] # NotRefreshing /\ r # NotRefreshing
  /\ refreshes'[t] = r /\ Alike(r, refreshes[t])
  /\ \A u \in Refreshers \ {t} :
       /\ refreshes'[u] = NotRefreshing <=> refreshes[u] = NotRefreshing
       /\ Active(u) =>
            /\ Alike(refreshes'[u], refreshes[u])
            /\ refreshes'[u].step = refreshes[u].step
            /\ refreshes'[u].config = refreshes[u].config
            /\ refreshes'[u].found = refreshes[u].found
            /\ refreshes'[u].raised = refreshes[u].raised
            /\ /\ refreshes[u].proc = refreshes[t].proc /\ ~refreshes[u].live
               /\ refreshes[u].step \in steps
               => refreshes'[u].passed

LEMMA ActiveState ==
  ASSUME RefreshTypeOK, NEW t \in Refreshers, Active(t)
  PROVE  /\ refreshes[t] \in RefreshStates /\ refreshes[t].proc \in ServerProcs
         /\ refreshes[t].step \in {"load", "fetch", "save", "swap"}
         /\ refreshes[t].config \in 0 .. MaxPatches /\ refreshes[t].found \in BOOLEAN
         /\ refreshes[t].raised \in BOOLEAN /\ refreshes[t].live \in BOOLEAN
         /\ refreshes[t].tells \in BOOLEAN /\ refreshes[t].passed \in BOOLEAN
BY DEF RefreshTypeOK, Active, RefreshStates

\* A refresh that is overtaken stays as it is otherwise.
LEMMA OvertakenAlike ==
  ASSUME NEW r \in RefreshStates, NEW s, s = [r EXCEPT !.passed = TRUE]
  PROVE  /\ s \in RefreshStates /\ s # NotRefreshing /\ s.passed /\ Alike(s, r)
         /\ s.step = r.step /\ s.config = r.config /\ s.found = r.found /\ s.raised = r.raised
<1>1. s \in RefreshStates
  BY DEF RefreshStates
<1>2. s # NotRefreshing
  BY <1>1, RefreshAssumption
<1> QED
  BY <1>1, <1>2 DEF RefreshStates, Alike

LEMMA PassedGoes ==
  ASSUME RefreshTypeOK, NEW t \in Refreshers, Active(t), NEW steps, NEW r \in RefreshStates,
         Alike(r, refreshes[t]),
         refreshes' = Passed(t, steps, [refreshes EXCEPT ![t] = r])
  PROVE  Goes(t, r, steps)
<1> DEFINE rs == [refreshes EXCEPT ![t] = r]
<1>1. rs[t] = r /\ \A u \in Refreshers \ {t} : rs[u] = refreshes[u]
  BY DEF RefreshTypeOK
<1> HIDE DEF rs
<1>2. refreshes' = Passed(t, steps, rs)
  BY DEF rs
<1>3. refreshes'[t] = r /\ r # NotRefreshing
  BY <1>1, <1>2, RefreshAssumption DEF Passed
<1>4. ASSUME NEW u \in Refreshers \ {t}
      PROVE  /\ refreshes'[u] = IF /\ Active(u) /\ refreshes[u].proc = refreshes[t].proc
                                   /\ ~refreshes[u].live /\ refreshes[u].step \in steps
                                  THEN [refreshes[u] EXCEPT !.passed = TRUE] ELSE refreshes[u]
             /\ refreshes[u] \in {NotRefreshing} \cup RefreshStates
  BY <1>1, <1>2, <1>4 DEF Passed, Swapping, Refreshing, Active, RefreshTypeOK
<1>5. ASSUME NEW u \in Refreshers \ {t}
      PROVE  /\ refreshes'[u] \in {NotRefreshing} \cup RefreshStates
             /\ refreshes'[u] = NotRefreshing <=> refreshes[u] = NotRefreshing
             /\ Active(u) =>
                  /\ Alike(refreshes'[u], refreshes[u])
                  /\ refreshes'[u].step = refreshes[u].step
                  /\ refreshes'[u].config = refreshes[u].config
                  /\ refreshes'[u].found = refreshes[u].found
                  /\ refreshes'[u].raised = refreshes[u].raised
                  /\ /\ refreshes[u].proc = refreshes[t].proc /\ ~refreshes[u].live
                     /\ refreshes[u].step \in steps
                     => refreshes'[u].passed
  <2>1. CASE /\ Active(u) /\ refreshes[u].proc = refreshes[t].proc
             /\ ~refreshes[u].live /\ refreshes[u].step \in steps
    <3>1. refreshes'[u] = [refreshes[u] EXCEPT !.passed = TRUE] /\ refreshes[u] \in RefreshStates
      BY <1>4, <2>1 DEF Active
    <3> QED
      BY <2>1, <3>1, OvertakenAlike DEF Active
  <2>2. CASE ~(/\ Active(u) /\ refreshes[u].proc = refreshes[t].proc
               /\ ~refreshes[u].live /\ refreshes[u].step \in steps)
    BY <1>4, <2>2 DEF Alike
  <2> QED
    BY <2>1, <2>2
<1>6. refreshes' \in RefreshesOf
  <2>1. \A u \in Refreshers : refreshes'[u] \in {NotRefreshing} \cup RefreshStates
    BY <1>3, <1>5 DEF RefreshesOf
  <2>2. refreshes' = [u \in Refreshers |-> refreshes'[u]]
    BY <1>2 DEF Passed
  <2> QED
    BY <2>1, <2>2 DEF RefreshesOf
<1> QED
  BY <1>3, <1>5, <1>6 DEF Goes, Active

\* Who is under way, and who told whom, does not change while a thread goes on.
LEMMA GoesKeepsActive ==
  ASSUME NEW t \in Refreshers, NEW r, NEW steps, Goes(t, r, steps)
  PROVE  /\ \A p : Refreshing(p)' = Refreshing(p)
         /\ \A p : Swapping(p)' = Swapping(p)
         /\ \A u \in Refreshers : Active(u)' <=> Active(u)
         /\ (\E u \in Refreshing(Api) : refreshes[u].tells)' <=>
              \E u \in Refreshing(Api) : refreshes[u].tells
<1>1. \A u \in Refreshers : Active(u)' <=> Active(u)
  BY DEF Goes, Active
<1>2. \A u \in Refreshers : Active(u) => Alike(refreshes'[u], refreshes[u])
  BY DEF Goes, Active
<1>3. ASSUME NEW p PROVE Refreshing(p)' = Refreshing(p) /\ Swapping(p)' = Swapping(p)
  <2>1. \A u \in Refreshers : u \in Refreshing(p)' <=> u \in Refreshing(p)
    BY <1>1, <1>2 DEF Refreshing, Active, Alike
  <2>2. Refreshing(p)' = Refreshing(p)
    BY <2>1 DEF Refreshing
  <2> QED
    BY <1>2, <2>2 DEF Swapping, Refreshing, Active, Alike
<1>4. (\E u \in Refreshing(Api) : refreshes[u].tells)' <=>
         \E u \in Refreshing(Api) : refreshes[u].tells
  BY <1>2, <1>3 DEF Refreshing, Active, Alike
<1> QED
  BY <1>1, <1>3, <1>4

\* On the way from the configuration to the maps it stays the one that was read, and
\* a price query has none.
LEMMA GoesKeepsConfig ==
  ASSUME ConfigCurrent, ConfigHolds, NEW t \in Refreshers, refreshes[t].step # "load",
         NEW r, r.step # "load", r.config = refreshes[t].config, NEW steps,
         Goes(t, r, steps),
         UNCHANGED <<configFile, inForce, notices, untold, behind>>
  PROVE  ConfigCurrent' /\ ConfigHolds'
<1>1. \A p : Refreshing(p)' = Refreshing(p) /\ Swapping(p)' = Swapping(p)
  BY GoesKeepsActive
<1>2. Told(Proxy)' <=> Told(Proxy)
  BY GoesKeepsActive DEF Told
<1>3. ConfigHolds'
  BY <1>1, GoesKeepsActive DEF ConfigHolds, Awaiting
<1>4. ASSUME NEW u \in Refreshers, PastLoad(u)', ~refreshes'[u].passed,
             refreshes'[u].proc \in {Api, Proxy}
      PROVE  \/ refreshes'[u].config = configFile'.patches
             \/ ~configFile'.whole \/ LoadDue(refreshes[u].proc)' \/ Told(refreshes[u].proc)'
  <2>1. /\ PastLoad(u) /\ ~refreshes[u].passed /\ refreshes[u].proc = refreshes'[u].proc
        /\ refreshes[u].config = refreshes'[u].config
    BY <1>4 DEF Goes, PastLoad, Active, Alike
  <2>2. ASSUME LoadDue(refreshes[u].proc) PROVE LoadDue(refreshes[u].proc)'
    BY <2>1, <2>2, <1>1 DEF LoadDue, Goes, PastLoad, Swapping, Refreshing, Active, Alike
  <2>3. ASSUME Told(refreshes[u].proc) PROVE Told(refreshes[u].proc)'
    BY <2>1, <2>3, <1>2 DEF Told
  <2> QED
    BY <1>4, <2>1, <2>2, <2>3 DEF ConfigCurrent
<1>5. \A u \in Refreshers : PastLoad(u)' => refreshes'[u].proc = refreshes[u].proc
  BY DEF Goes, PastLoad, Active, Alike
<1> QED
  BY <1>3, <1>4, <1>5 DEF ConfigCurrent, LoadDue, Told

\* A thread that goes on without prices leaves those in force, and those due.
LEMMA GoesKeepsDownload ==
  ASSUME RefreshInv, NEW t \in Refreshers, NEW r, NEW steps, Goes(t, r, steps),
         refreshes[t].step # "swap", r.step # "swap", r.live => r.step = "save" /\ ~r.tells
  PROVE  QueriesSave' /\ (UNCHANGED <<hadPrices, behind, interrupted, inForce>> =>
                            PricesFound' /\ PricesComing')
<1> USE DEF RefreshInv
<1>1. QueriesSave'
  BY DEF QueriesSave, Goes, Active, Alike
<1>2. \A p : Swapping(p)' = Swapping(p)
  BY GoesKeepsActive
<1>3. ASSUME UNCHANGED <<hadPrices, behind, interrupted, inForce>>
      PROVE  PricesFound' /\ PricesComing'
  <2>1. PricesFound'
    BY <1>3 DEF PricesFound, RefreshAt, Goes, Active, Alike
  <2>2. ASSUME NEW p, NEW u \in Swapping(p), refreshes[u].step = "swap"
        PROVE  u \in Swapping(p)' /\ refreshes'[u].step = "swap"
    BY <1>2, <2>2 DEF Goes, Swapping, Refreshing, Active
  <2>3. PricesComing'
    BY <1>3, <2>2 DEF PricesComing
  <2> QED
    BY <2>1, <2>3
<1> QED
  BY <1>1, <1>3

LEMMA LoadConfigKeeps ==
  ASSUME RefreshInv, NEW t \in Refreshers, LoadConfig(t)
  PROVE  RefreshInv'
<1> USE DEF RefreshInv
<1> DEFINE config == IF configFile.whole THEN configFile.patches ELSE Empty
           r == [refreshes[t] EXCEPT !.step = "fetch", !.config = config]
           steps == {"fetch", "save", "swap"}
<1>1. /\ Active(t) /\ refreshes[t].step = "load"
      /\ refreshes' = Passed(t, steps, [refreshes EXCEPT ![t] = r])
      /\ UNCHANGED <<configFile, litellmCache, remoteCosts, inForce, notices, hadPrices,
                     interrupted, behind>>
      /\ untold' = IF configFile.whole THEN untold \ {refreshes[t].proc} ELSE untold
  BY DEF LoadConfig, RefreshAt, Active
<1>2. config \in 0 .. MaxPatches /\ configFile.whole \in BOOLEAN
  BY RefreshAssumption DEF RefreshTypeOK, Empty
<1>3. r \in RefreshStates /\ r.step = "fetch" /\ r.config = config /\ r.found = refreshes[t].found
      /\ r.live = refreshes[t].live /\ Alike(r, refreshes[t])
  BY <1>1, <1>2, ActiveState DEF RefreshStates, Alike
<1>4. ~r.live
  BY <1>1, <1>3 DEF QueriesSave
<1> HIDE DEF r, config, steps
<1>5. Goes(t, r, steps)
  BY <1>1, <1>3, PassedGoes
<1>6. /\ \A p : Refreshing(p)' = Refreshing(p) /\ Swapping(p)' = Swapping(p)
      /\ \A u \in Refreshers : Active(u)' <=> Active(u)
      /\ (\E u \in Refreshing(Api) : refreshes[u].tells)' <=>
           \E u \in Refreshing(Api) : refreshes[u].tells
  BY <1>5, GoesKeepsActive
<1>7. RefreshTypeOK'
  <2>1. untold' \subseteq untold /\ notices' \in BOOLEAN
    BY <1>1 DEF RefreshTypeOK
  <2>2. refreshes' \in [Refreshers -> {NotRefreshing} \cup RefreshStates]
    BY <1>5 DEF Goes, RefreshesOf
  <2> QED
    BY <1>1, <2>1, <2>2 DEF RefreshTypeOK
<1>8. ConfigHolds'
  <2> SUFFICES ASSUME NEW p \in {Api, Proxy}, ~Awaiting(p)', p \notin untold',
                      <<p, "config">> \notin behind'
               PROVE  inForce'[p].config = configFile'.patches
    BY DEF ConfigHolds
  <2>1. Swapping(p) = {} /\ ~Awaiting(p)
    BY <1>1, <1>6 DEF Awaiting
  <2>2. refreshes[t].proc # p
    BY <1>1, <1>3, <1>4, <2>1 DEF Swapping, Refreshing, Active
  <2>3. p \notin untold
    BY <1>1, <2>2
  <2> QED
    BY <1>1, <2>1, <2>3 DEF ConfigHolds
<1>9. ConfigCurrent'
  <2> SUFFICES ASSUME NEW u \in Refreshers, PastLoad(u)', ~refreshes'[u].passed,
                      refreshes'[u].proc \in {Api, Proxy}
               PROVE  \/ refreshes'[u].config = configFile'.patches
                      \/ ~configFile'.whole
                      \/ LoadDue(refreshes[u].proc)' \/ Told(refreshes[u].proc)'
    <3>1. \A u \in Refreshers : PastLoad(u)' => refreshes'[u].proc = refreshes[u].proc
      BY <1>5 DEF Goes, PastLoad, Active, Alike
    <3> QED
      BY <3>1 DEF ConfigCurrent, LoadDue, Told
  <2>1. CASE u = t
    BY <1>1, <1>3, <1>5, <2>1 DEF Goes, config
  <2>2. CASE u # t
    <3>1. /\ PastLoad(u) /\ ~refreshes[u].passed /\ refreshes'[u].proc = refreshes[u].proc
          /\ refreshes'[u].config = refreshes[u].config
          /\ refreshes[u].step \in steps
      BY <1>5, <2>2, ActiveState DEF Goes, PastLoad, Active, Alike, steps
    <3>2. refreshes[u].proc # refreshes[t].proc
      BY <1>5, <2>2, <3>1 DEF Goes, PastLoad
    <3>3. ASSUME LoadDue(refreshes[u].proc) PROVE LoadDue(refreshes[u].proc)'
      <4>1. PICK v \in Swapping(refreshes[u].proc) : refreshes[v].step = "load"
        BY <3>3 DEF LoadDue
      <4>2. v # t /\ refreshes'[v].step = "load"
        BY <1>5, <3>2, <4>1 DEF Goes, Swapping, Refreshing, Active
      <4> QED
        BY <1>6, <3>1, <4>1, <4>2 DEF LoadDue
    <3>4. ASSUME Told(refreshes[u].proc) PROVE Told(refreshes[u].proc)'
      BY <1>1, <1>6, <3>1, <3>2, <3>4 DEF Told
    <3> QED
      BY <1>1, <3>1, <3>3, <3>4 DEF ConfigCurrent
  <2> QED
    BY <2>1, <2>2
<1>10. PricesHeld'
  BY <1>1 DEF PricesHeld
<1>11. QueriesSave' /\ PricesFound' /\ PricesComing'
  BY <1>1, <1>3, <1>4, <1>5, GoesKeepsDownload
<1> QED
  BY <1>7, <1>8, <1>9, <1>10, <1>11

\* A refresh that ends leaves the others as they are.
LEMMA EndsLeaveOthers ==
  ASSUME RefreshTypeOK, NEW t \in Refreshers, refreshes' = [refreshes EXCEPT ![t] = NotRefreshing]
  PROVE  /\ refreshes' \in [Refreshers -> {NotRefreshing} \cup RefreshStates]
         /\ refreshes'[t] = NotRefreshing
         /\ \A u \in Refreshers \ {t} : refreshes'[u] = refreshes[u]
         /\ \A p : Refreshing(p)' = Refreshing(p) \ {t}
         /\ \A p : Swapping(p)' = Swapping(p) \ {t}
<1>1. refreshes' \in [Refreshers -> {NotRefreshing} \cup RefreshStates]
  BY DEF RefreshTypeOK
<1>2. refreshes'[t] = NotRefreshing /\ \A u \in Refreshers \ {t} : refreshes'[u] = refreshes[u]
  BY DEF RefreshTypeOK
<1>3. \A p : Refreshing(p)' = Refreshing(p) \ {t}
  BY <1>2 DEF Refreshing
<1>4. \A p : Swapping(p)' = Swapping(p) \ {t}
  BY <1>2 DEF Swapping, Refreshing
<1> QED
  BY <1>1, <1>2, <1>3, <1>4

\* A price query that ends tells no one and changes nothing in force.
LEMMA QueryEnds ==
  ASSUME RefreshInv, NEW t \in Refreshers, Active(t), refreshes[t].live,
         refreshes' = [refreshes EXCEPT ![t] = NotRefreshing], hadPrices' \subseteq hadPrices,
         UNCHANGED <<configFile, inForce, notices, interrupted, untold, behind>>
  PROVE  QueriesSave' /\ ConfigCurrent' /\ ConfigHolds' /\ PricesFound' /\ PricesComing'
<1> USE DEF RefreshInv
<1>1. /\ refreshes'[t] = NotRefreshing
      /\ \A u \in Refreshers \ {t} : refreshes'[u] = refreshes[u]
      /\ \A p : Refreshing(p)' = Refreshing(p) \ {t}
      /\ \A p : Swapping(p)' = Swapping(p) \ {t}
  BY EndsLeaveOthers
<1>2. \A p : Swapping(p)' = Swapping(p) /\ t \notin Swapping(p)
  BY <1>1 DEF Swapping
<1>3. (\E u \in Refreshing(Api) : refreshes[u].tells)' <=>
        \E u \in Refreshing(Api) : refreshes[u].tells
  BY <1>1 DEF QueriesSave, Refreshing, Active
<1>4. QueriesSave' /\ PricesFound'
  BY <1>1 DEF QueriesSave, PricesFound, RefreshAt, Active
<1>5. ConfigHolds'
  BY <1>2, <1>3 DEF ConfigHolds, Awaiting
<1>6. ConfigCurrent'
  <2>1. ASSUME NEW p PROVE LoadDue(p) => LoadDue(p)'
    BY <1>1, <1>2 DEF LoadDue
  <2>2. \A p : Told(p) => Told(p)'
    BY <1>3 DEF Told
  <2>3. \A u \in Refreshers : PastLoad(u)' => u # t /\ PastLoad(u) /\ refreshes'[u] = refreshes[u]
    BY <1>1 DEF PastLoad, Active
  <2> QED
    BY <2>1, <2>2, <2>3 DEF ConfigCurrent, LoadDue, Told
<1>7. PricesComing'
  <2>1. ASSUME NEW p, NEW u \in Swapping(p), refreshes[u].step = "swap"
        PROVE  u \in Swapping(p)' /\ refreshes'[u].step = "swap"
    BY <1>1, <1>2, <2>1 DEF Swapping, Refreshing
  <2> QED
    BY <2>1 DEF PricesComing
<1> QED
  BY <1>4, <1>5, <1>6, <1>7

\* The outcome of a fetch: a refresh that has the prices its process loaded found
\* them, or its fetch raised; a price query changes nothing in force.
LEMMA EndedKeeps ==
  ASSUME RefreshInv, NEW t \in Refreshers, Active(t), refreshes[t].step # "load",
         refreshes[t].step # "swap",
         NEW found \in BOOLEAN, NEW raised \in BOOLEAN, Ended(t, found, raised),
         litellmCache' \in {Absent, Stale, Prices},
         remoteCosts' \in [ServerProcs -> {Unloaded, Absent, Prices}],
         PricesHeld', hadPrices' \subseteq hadPrices \cup {refreshes[t].proc},
         refreshes[t].live => hadPrices' \subseteq hadPrices,
         ~refreshes[t].live /\ refreshes[t].proc \in hadPrices' => found \/ raised,
         UNCHANGED <<configFile, inForce, notices, interrupted, untold, behind>>
  PROVE  RefreshInv'
<1> USE DEF RefreshInv
<1> DEFINE proc == refreshes[t].proc
<1>1. proc \in ServerProcs /\ hadPrices' \subseteq ServerProcs
  BY ActiveState DEF RefreshTypeOK
<1>2. CASE refreshes[t].live
  <2>1. refreshes' = [refreshes EXCEPT ![t] = NotRefreshing]
    BY <1>2 DEF Ended
  <2>2. RefreshTypeOK'
    BY <1>1, <2>1, EndsLeaveOthers DEF RefreshTypeOK
  <2> QED
    BY <1>2, <2>1, <2>2, QueryEnds
<1>3. CASE ~refreshes[t].live
  <2> DEFINE r == [refreshes[t] EXCEPT !.step = "swap", !.found = found, !.raised = raised]
  <2>1. refreshes' = Passed(t, {"swap"}, [refreshes EXCEPT ![t] = r])
    BY <1>3 DEF Ended
  <2>2. r \in RefreshStates /\ r.step = "swap" /\ r.found = found /\ r.raised = raised
        /\ r.config = refreshes[t].config /\ r.live = refreshes[t].live /\ Alike(r, refreshes[t])
    BY ActiveState DEF RefreshStates, Alike
  <2> HIDE DEF r
  <2>3. Goes(t, r, {"swap"})
    BY <2>1, <2>2, PassedGoes
  <2>4. /\ \A p : Refreshing(p)' = Refreshing(p) /\ Swapping(p)' = Swapping(p)
        /\ \A u \in Refreshers : Active(u)' <=> Active(u)
    BY <2>3, GoesKeepsActive
  <2>5. RefreshTypeOK'
    <3>1. refreshes' \in [Refreshers -> {NotRefreshing} \cup RefreshStates]
      BY <2>3 DEF Goes, RefreshesOf
    <3> QED
      BY <1>1, <3>1 DEF RefreshTypeOK
  <2>6. ConfigCurrent' /\ ConfigHolds'
    BY <2>2, <2>3, GoesKeepsConfig
  <2>7. QueriesSave'
    BY <1>3, <2>2, <2>3 DEF QueriesSave, Goes, Active, Alike
  <2>8. PricesFound'
    <3> SUFFICES ASSUME NEW u \in Refreshers, RefreshAt(u, "swap")', ~refreshes'[u].passed,
                        refreshes'[u].proc \in hadPrices'
                 PROVE  refreshes'[u].found \/ refreshes'[u].raised
      BY DEF PricesFound
    <3>1. CASE u = t
      <4>1. refreshes'[u] = r /\ r.proc = proc
        BY <2>2, <2>3, <3>1 DEF Goes, Alike
      <4>2. found \/ raised
        BY <1>3, <4>1
      <4> QED
        BY <2>2, <4>1, <4>2
    <3>2. CASE u # t
      <4>1. Active(u) /\ refreshes[u].step = "swap" /\ ~refreshes[u].live
        BY <2>3, <3>2 DEF Goes, RefreshAt, Active, QueriesSave
      <4>2. /\ RefreshAt(u, "swap") /\ ~refreshes[u].passed /\ refreshes'[u].proc = refreshes[u].proc
            /\ refreshes'[u].found = refreshes[u].found /\ refreshes'[u].raised = refreshes[u].raised
            /\ refreshes[u].proc # proc
        BY <2>3, <3>2, <4>1 DEF Goes, RefreshAt, Active, Alike
      <4> QED
        BY <4>2 DEF PricesFound
    <3> QED
      BY <3>1, <3>2
  <2>9. PricesComing'
    <3> SUFFICES ASSUME NEW p \in hadPrices', <<p, "prices">> \notin behind', p \notin interrupted',
                        ~inForce'[p].priced
                 PROVE  \E u \in Swapping(p)' : refreshes'[u].step = "swap"
      BY DEF PricesComing
    <3>1. CASE p = proc
      <4>1. t \in Swapping(p)' /\ refreshes'[t].step = "swap"
        BY <1>3, <2>2, <2>3, <2>4, <3>1 DEF Goes, Swapping, Refreshing, Active
      <4> QED
        BY <4>1
    <3>2. CASE p # proc
      <4>1. PICK u \in Swapping(p) : refreshes[u].step = "swap"
        BY <3>2 DEF PricesComing
      <4>2. refreshes'[u].step = "swap"
        BY <2>3, <3>2, <4>1 DEF Goes, Swapping, Refreshing, Active
      <4> QED
        BY <2>4, <4>1, <4>2
    <3> QED
      BY <3>1, <3>2
  <2> QED
    BY <2>5, <2>6, <2>7, <2>8, <2>9
<1> QED
  BY <1>2, <1>3

\* Prices that were fetched are held; a fetch that brings none is no refresh of a
\* process that has some.
LEMMA FetchedKeeps ==
  ASSUME RefreshInv, NEW t \in Refreshers, Active(t), refreshes[t].step # "load",
         refreshes[t].step # "swap",
         NEW costs \in {Absent, Prices}, refreshes[t].proc \in hadPrices => costs = Prices,
         Fetched(t, costs), litellmCache' \in {Absent, Stale, Prices},
         UNCHANGED <<configFile, inForce, notices, interrupted, untold, behind>>
  PROVE  RefreshInv'
<1> DEFINE proc == refreshes[t].proc
<1>1. PICK found \in BOOLEAN : found = (costs = Prices)
  OBVIOUS
<1>2. /\ Ended(t, found, FALSE) /\ remoteCosts' = [remoteCosts EXCEPT ![proc] = costs]
      /\ hadPrices' = IF costs = Prices /\ ~refreshes[t].live
                        THEN hadPrices \cup {proc} ELSE hadPrices
  BY <1>1, Zenon DEF Fetched
<1>3. proc \in ServerProcs
  BY ActiveState DEF RefreshInv
<1>4. remoteCosts' \in [ServerProcs -> {Unloaded, Absent, Prices}] /\ PricesHeld'
  BY <1>2, <1>3 DEF PricesHeld, RefreshTypeOK, RefreshInv
<1>5. ~refreshes[t].live /\ proc \in hadPrices' => found
  BY <1>1, <1>2
<1>6. /\ hadPrices' \subseteq hadPrices \cup {proc}
      /\ refreshes[t].live => hadPrices' \subseteq hadPrices
  BY <1>2
<1> QED
  BY <1>2, <1>4, <1>5, <1>6, EndedKeeps

\* A fetch that raised leaves what is held.
LEMMA RaisedKeeps ==
  ASSUME RefreshInv, NEW t \in Refreshers, Active(t), refreshes[t].step # "load",
         refreshes[t].step # "swap", Raised(t),
         litellmCache' \in {Absent, Stale, Prices},
         UNCHANGED <<configFile, inForce, notices, interrupted, untold, behind>>
  PROVE  RefreshInv'
<1>1. Ended(t, FALSE, TRUE) /\ UNCHANGED <<remoteCosts, hadPrices>>
  BY DEF Raised
<1>2. remoteCosts' \in [ServerProcs -> {Unloaded, Absent, Prices}] /\ PricesHeld'
  BY <1>1 DEF PricesHeld, RefreshTypeOK, RefreshInv
<1> QED
  BY <1>1, <1>2, EndedKeeps

LEMMA FetchesKeep ==
  ASSUME RefreshInv, NEW t \in Refreshers,
         FetchFromCache(t) \/ FetchFails(t) \/ FetchRaises(t)
  PROVE  RefreshInv'
<1>1. /\ Active(t) /\ refreshes[t].step = "fetch"
      /\ UNCHANGED <<configFile, litellmCache, inForce, notices, interrupted, untold, behind>>
  BY DEF FetchFromCache, FetchFails, FetchRaises, Refetching, Fetching, RefreshAt, Active
<1>2. litellmCache' \in {Absent, Stale, Prices}
  BY <1>1 DEF RefreshInv, RefreshTypeOK
<1>3. CASE FetchFromCache(t)
  BY <1>1, <1>2, <1>3, FetchedKeeps DEF FetchFromCache
<1>4. CASE FetchFails(t)
  <2> DEFINE costs == Fallback(refreshes[t].proc)
  <2>1. remoteCosts[refreshes[t].proc] \in {Unloaded, Absent, Prices}
        /\ (refreshes[t].proc \in hadPrices => remoteCosts[refreshes[t].proc] = Prices)
    BY <1>1, ActiveState DEF RefreshInv, RefreshTypeOK, PricesHeld
  <2>2. costs \in {Absent, Prices} /\ (refreshes[t].proc \in hadPrices => costs = Prices)
    BY <2>1 DEF Fallback, Prices, Unloaded
  <2>3. Fetched(t, costs)
    BY <1>4 DEF FetchFails
  <2> HIDE DEF costs
  <2> QED
    BY <1>1, <1>2, <2>2, <2>3, FetchedKeeps
<1>5. CASE FetchRaises(t)
  BY <1>1, <1>2, <1>5, RaisedKeeps DEF FetchRaises
<1> QED
  BY <1>3, <1>4, <1>5

\* What was downloaded: prices, none, or no mapping.
LEMMA SaveKeeps ==
  ASSUME RefreshInv, NEW t \in Refreshers, NEW body, NEW written, SaveCache(t, body, written)
  PROVE  RefreshInv'
<1> DEFINE proc == refreshes[t].proc
<1>1. /\ Active(t) /\ refreshes[t].step = "save"
      /\ UNCHANGED <<configFile, inForce, notices, interrupted, untold, behind>>
  BY DEF SaveCache, RefreshAt, Active
<1>2. litellmCache' \in {Absent, Stale, Prices}
  BY DEF SaveCache, RefreshInv, RefreshTypeOK
<1>3. CASE Fetched(t, Prices)
  BY <1>1, <1>2, <1>3, FetchedKeeps
<1>4. CASE /\ Ended(t, FALSE, FALSE)
           /\ remoteCosts' = [remoteCosts EXCEPT ![proc] = Absent]
           /\ hadPrices' = hadPrices \ {proc}
  <2>1. remoteCosts' \in [ServerProcs -> {Unloaded, Absent, Prices}] /\ PricesHeld'
    BY <1>4 DEF PricesHeld, RefreshTypeOK, RefreshInv
  <2>2. hadPrices' \subseteq hadPrices /\ proc \notin hadPrices'
    BY <1>4
  <2> QED
    BY <1>1, <1>2, <1>4, <2>1, <2>2, EndedKeeps
<1>5. CASE Raised(t)
  BY <1>1, <1>2, <1>5, RaisedKeeps
<1> QED
  BY <1>3, <1>4, <1>5 DEF SaveCache

LEMMA FetchNetKeeps ==
  ASSUME RefreshInv, NEW t \in Refreshers, FetchFromNet(t)
  PROVE  RefreshInv'
<1> USE DEF RefreshInv
<1> DEFINE r == [refreshes[t] EXCEPT !.step = "save"]
<1>1. /\ Active(t) /\ refreshes[t].step = "fetch" /\ refreshes' = [refreshes EXCEPT ![t] = r]
      /\ UNCHANGED <<configFile, litellmCache, remoteCosts, inForce, notices, hadPrices,
                     interrupted, untold, behind>>
  BY DEF FetchFromNet, Refetching, Fetching, RefreshAt, Active
<1>2. r \in RefreshStates /\ r # NotRefreshing /\ r.step = "save"
      /\ r.config = refreshes[t].config /\ r.live = refreshes[t].live /\ Alike(r, refreshes[t])
  BY <1>1, ActiveState, RefreshAssumption DEF RefreshStates, Alike
<1>3. ~r.live
  BY <1>1, <1>2 DEF QueriesSave
<1> HIDE DEF r
<1>4. Goes(t, r, {})
  BY <1>1, <1>2 DEF Goes, RefreshTypeOK, RefreshesOf, Active, Alike
<1>5. RefreshTypeOK'
  BY <1>1, <1>4 DEF Goes, RefreshesOf, RefreshTypeOK
<1>6. ConfigCurrent' /\ ConfigHolds'
  BY <1>1, <1>2, <1>4, GoesKeepsConfig
<1>7. PricesHeld'
  BY <1>1 DEF PricesHeld
<1>8. QueriesSave' /\ PricesFound' /\ PricesComing'
  BY <1>1, <1>2, <1>3, <1>4, GoesKeepsDownload
<1> QED
  BY <1>5, <1>6, <1>7, <1>8

LEMMA FailLoadKeeps ==
  ASSUME RefreshInv, NEW t \in Refreshers, FailLoad(t)
  PROVE  RefreshInv'
<1> USE DEF RefreshInv
<1>1. /\ refreshes' = [refreshes EXCEPT ![t] = NotRefreshing] /\ ~configFile.whole
      /\ RefreshAt(t, "load")
      /\ UNCHANGED <<configFile, litellmCache, remoteCosts, inForce, notices, hadPrices,
                     interrupted, untold, behind>>
  BY DEF FailLoad
<1>2. /\ refreshes' \in [Refreshers -> {NotRefreshing} \cup RefreshStates]
      /\ refreshes'[t] = NotRefreshing
      /\ \A u \in Refreshers \ {t} : refreshes'[u] = refreshes[u]
      /\ \A p : Swapping(p)' = Swapping(p) \ {t}
  BY <1>1, EndsLeaveOthers
<1>3. RefreshTypeOK'
  BY <1>1, <1>2 DEF RefreshTypeOK
<1>4. ConfigCurrent' /\ ConfigHolds'
  BY <1>1 DEF ConfigCurrent, ConfigHolds, Awaiting
<1>5. QueriesSave' /\ PricesHeld' /\ PricesFound'
  BY <1>1, <1>2 DEF QueriesSave, PricesHeld, PricesFound, RefreshAt, Active
<1>6. PricesComing'
  <2>1. ASSUME NEW p, NEW u \in Swapping(p), refreshes[u].step = "swap"
        PROVE  u \in Swapping(p)' /\ refreshes'[u].step = "swap"
    BY <1>1, <1>2, <2>1 DEF RefreshAt, Swapping, Refreshing
  <2> QED
    BY <1>1, <2>1 DEF PricesComing
<1> QED
  BY <1>3, <1>4, <1>5, <1>6

LEMMA SwapKeeps ==
  ASSUME RefreshInv, NEW t \in Refreshers, NEW openrouter \in BOOLEAN, SwapMaps(t, openrouter)
  PROVE  RefreshInv'
<1> USE DEF RefreshInv
<1> DEFINE proc == refreshes[t].proc
           parts == {proc} \X InForceParts
<1>1. PICK gotPrice \in BOOLEAN : gotPrice = (refreshes[t].found \/ openrouter)
  OBVIOUS
<1>2. /\ Active(t) /\ refreshes[t].step = "swap"
      /\ inForce' = [inForce EXCEPT ![proc] = [config |-> refreshes[t].config, priced |-> gotPrice]]
      /\ refreshes' = [refreshes EXCEPT ![t] = NotRefreshing]
      /\ behind' = IF refreshes[t].passed THEN behind \cup parts ELSE behind \ parts
      /\ interrupted' = IF refreshes[t].raised /\ proc \in hadPrices
                         THEN interrupted \cup {proc} ELSE interrupted \ {proc}
      /\ UNCHANGED <<configFile, litellmCache, remoteCosts, hadPrices, untold>>
  BY <1>1, Zenon DEF SwapMaps, RefreshAt, Active
<1>3. notices' \in BOOLEAN /\ (notices' <=> notices \/ refreshes[t].tells)
  BY Zenon DEF SwapMaps
<1>4. refreshes[t].found => gotPrice
  BY <1>1
<1>5. /\ refreshes' \in [Refreshers -> {NotRefreshing} \cup RefreshStates]
      /\ refreshes'[t] = NotRefreshing
      /\ \A u \in Refreshers \ {t} : refreshes'[u] = refreshes[u]
      /\ \A p : Refreshing(p)' = Refreshing(p) \ {t}
      /\ \A p : Swapping(p)' = Swapping(p) \ {t}
  BY <1>2, EndsLeaveOthers
<1>6. proc \in ServerProcs /\ refreshes[t].config \in 0 .. MaxPatches /\ t \in Swapping(proc)
      /\ ~refreshes[t].live
  BY <1>2, ActiveState DEF Swapping, Refreshing, Active, QueriesSave
<1>7. /\ inForce'[proc].config = refreshes[t].config /\ (inForce'[proc].priced <=> gotPrice)
      /\ \A p \in ServerProcs \ {proc} : inForce'[p] = inForce[p]
  BY <1>2, <1>6 DEF RefreshTypeOK
<1>8. RefreshTypeOK'
  <2>1. inForce' \in [ServerProcs -> [config : 0 .. MaxPatches, priced : BOOLEAN]]
    BY <1>2, <1>6 DEF RefreshTypeOK
  <2>2. behind' \subseteq ServerProcs \X InForceParts
    BY <1>2, <1>6 DEF RefreshTypeOK
  <2>3. interrupted' \subseteq ServerProcs
    BY <1>2, <1>6 DEF RefreshTypeOK
  <2> QED
    BY <1>2, <1>3, <1>5, <2>1, <2>2, <2>3 DEF RefreshTypeOK
<1>9. ASSUME Told(Proxy) PROVE Told(Proxy)'
  BY <1>2, <1>3, <1>5, <1>9 DEF Told
<1>10. \A part \in InForceParts : /\ refreshes[t].passed => <<proc, part>> \in behind'
                                  /\ \A p : p # proc /\ <<p, part>> \notin behind' =>
                                       <<p, part>> \notin behind
  BY <1>2
<1>11. ConfigCurrent'
  <2> SUFFICES ASSUME NEW u \in Refreshers, PastLoad(u)', ~refreshes'[u].passed,
                      refreshes'[u].proc \in {Api, Proxy}
               PROVE  \/ refreshes'[u].config = configFile'.patches
                      \/ ~configFile'.whole
                      \/ LoadDue(refreshes[u].proc)' \/ Told(refreshes[u].proc)'
    BY DEF ConfigCurrent
  <2>1. u # t /\ refreshes'[u] = refreshes[u]
    BY <1>5 DEF PastLoad, Active
  <2>2. PastLoad(u) /\ ~refreshes[u].passed
    BY <2>1 DEF PastLoad, Active
  <2>3. ASSUME LoadDue(refreshes[u].proc) PROVE LoadDue(refreshes[u].proc)'
    BY <1>2, <1>5, <2>1, <2>3 DEF LoadDue, Swapping, Refreshing
  <2>4. ASSUME Told(refreshes[u].proc) PROVE Told(refreshes[u].proc)'
    BY <1>9, <2>1, <2>4 DEF Told
  <2> QED
    BY <1>2, <2>1, <2>2, <2>3, <2>4 DEF ConfigCurrent
<1>12. ConfigHolds'
  <2> SUFFICES ASSUME NEW p \in {Api, Proxy}, ~Awaiting(p)', p \notin untold',
                      <<p, "config">> \notin behind'
               PROVE  inForce'[p].config = configFile'.patches
    BY DEF ConfigHolds
  <2>1. CASE p = proc
    <3>1. ~refreshes[t].passed
      BY <1>10, <2>1 DEF InForceParts
    <3>2. configFile.whole /\ Swapping(p) \ {t} = {}
      BY <1>2, <1>5, <2>1 DEF Awaiting
    <3>3. ~LoadDue(p)
      BY <1>2, <3>2 DEF LoadDue
    <3>4. ~Told(p)
      <4> SUFFICES ASSUME p = Proxy PROVE ~Told(Proxy)
        BY DEF Told
      <4>1. ~notices' /\ ~\E u \in Refreshing(Api)' : refreshes'[u].tells
        BY DEF Awaiting
      <4>2. Refreshing(Api)' = Refreshing(Api) /\ t \notin Refreshing(Api)
        BY <1>5, <2>1, RefreshAssumption DEF Refreshing
      <4>3. ~\E u \in Refreshing(Api) : refreshes[u].tells
        BY <1>5, <4>1, <4>2 DEF Refreshing
      <4> QED
        BY <1>2, <1>3, <4>1, <4>3 DEF Told
    <3>5. refreshes[t].config = configFile.patches
      BY <1>2, <1>6, <2>1, <3>1, <3>2, <3>3, <3>4 DEF ConfigCurrent, PastLoad
    <3> QED
      BY <1>2, <1>7, <2>1, <3>5
  <2>2. CASE p # proc
    <3>1. Swapping(p) = {} /\ configFile.whole
      <4>1. Swapping(p)' = {} /\ configFile.whole
        BY <1>2 DEF Awaiting
      <4>2. t \notin Swapping(p)
        BY <2>2 DEF Swapping, Refreshing
      <4> QED
        BY <1>5, <4>1, <4>2
    <3>2. ~Awaiting(p)
      <4> SUFFICES ASSUME p = Proxy PROVE ~notices /\ ~\E u \in Refreshing(Api) : refreshes[u].tells
        BY <3>1 DEF Awaiting
      <4>1. ~notices' /\ ~\E u \in Refreshing(Api)' : refreshes'[u].tells
        BY DEF Awaiting
      <4> QED
        BY <1>3, <1>5, <4>1 DEF Refreshing
    <3>3. p \notin untold /\ <<p, "config">> \notin behind /\ p \in ServerProcs
      BY <1>2, <1>10, <2>2 DEF ServerProcs, InForceParts
    <3> QED
      BY <1>2, <1>7, <2>2, <3>2, <3>3 DEF ConfigHolds
  <2> QED
    BY <2>1, <2>2
<1>13. QueriesSave' /\ PricesHeld' /\ PricesFound'
  BY <1>2, <1>5 DEF QueriesSave, PricesHeld, PricesFound, RefreshAt, Active
<1>14. PricesComing'
  <2> SUFFICES ASSUME NEW p \in hadPrices, <<p, "prices">> \notin behind', p \notin interrupted'
               PROVE  inForce'[p].priced \/ \E u \in Swapping(p)' : refreshes'[u].step = "swap"
    BY <1>2 DEF PricesComing
  <2>1. CASE p = proc
    <3>1. ~refreshes[t].passed
      BY <1>10, <2>1 DEF InForceParts
    <3>2. ~refreshes[t].raised
      BY <1>2, <2>1
    <3>3. refreshes[t].found
      BY <1>2, <2>1, <3>1, <3>2 DEF PricesFound, RefreshAt, Active
    <3> QED
      BY <1>4, <1>7, <1>6, <2>1, <3>3
  <2>2. CASE p # proc
    <3>1. <<p, "prices">> \notin behind /\ p \notin interrupted /\ p \in ServerProcs
      BY <1>2, <1>10, <2>2 DEF RefreshTypeOK, InForceParts
    <3>2. inForce[p].priced \/ \E u \in Swapping(p) : refreshes[u].step = "swap"
      BY <3>1 DEF PricesComing
    <3>3. t \notin Swapping(p)
      BY <2>2 DEF Swapping, Refreshing
    <3>4. \A u \in Swapping(p) : u \in Swapping(p)' /\ refreshes'[u] = refreshes[u]
      BY <1>5, <3>3 DEF Swapping, Refreshing
    <3> QED
      BY <1>7, <2>2, <3>1, <3>2, <3>4
  <2> QED
    BY <2>1, <2>2
<1> QED
  BY <1>8, <1>11, <1>12, <1>13, <1>14

\* A file open for writing has room for the patch.
PatchesLeft == ~configFile.whole => configFile.patches < MaxPatches

LEMMA FreshRefresh ==
  ASSUME NEW p \in ServerProcs, NEW tells \in BOOLEAN
  PROVE  /\ Refresh(p, tells) \in RefreshStates /\ Refresh(p, tells) # NotRefreshing
         /\ Refresh(p, tells).proc = p /\ Refresh(p, tells).step = "load"
         /\ Refresh(p, tells).tells = tells /\ ~Refresh(p, tells).live
<1>1. Empty \in 0 .. MaxPatches
  BY RefreshAssumption DEF Empty
<1>2. Refresh(p, tells) \in RefreshStates
  BY <1>1 DEF Refresh, RefreshStates
<1>3. Refresh(p, tells) # NotRefreshing
  BY <1>2, RefreshAssumption
<1> QED
  BY <1>2, <1>3 DEF Refresh

\* A thread that begins a refresh was idle; the others stay as they are.
LEMMA Starts ==
  ASSUME RefreshTypeOK, NEW t \in Refreshers, refreshes[t] = NotRefreshing,
         NEW p \in ServerProcs, NEW tells \in BOOLEAN, refreshes' = Started(t, p, tells)
  PROVE  /\ refreshes' \in [Refreshers -> {NotRefreshing} \cup RefreshStates]
         /\ refreshes'[t] # NotRefreshing /\ ~refreshes'[t].live
         /\ refreshes'[t].proc = p /\ refreshes'[t].step = "load" /\ refreshes'[t].tells = tells
         /\ \A u \in Refreshers \ {t} : refreshes'[u] = refreshes[u]
         /\ Refreshing(p)' = Refreshing(p) \cup {t}
         /\ \A q : q # p => Refreshing(q)' = Refreshing(q)
         /\ Swapping(p)' = Swapping(p) \cup {t}
         /\ \A q : q # p => Swapping(q)' = Swapping(q)
         /\ \A q : \A u \in Swapping(q) : u \in Swapping(q)' /\ refreshes'[u] = refreshes[u]
<1>1. /\ Refresh(p, tells) \in RefreshStates /\ Refresh(p, tells) # NotRefreshing
      /\ Refresh(p, tells).proc = p /\ Refresh(p, tells).step = "load"
      /\ Refresh(p, tells).tells = tells /\ ~Refresh(p, tells).live
  BY FreshRefresh
<1>2. /\ refreshes' \in [Refreshers -> {NotRefreshing} \cup RefreshStates]
      /\ refreshes'[t] = Refresh(p, tells)
      /\ \A u \in Refreshers \ {t} : refreshes'[u] = refreshes[u]
  BY <1>1 DEF Started, RefreshTypeOK
<1>3. Refreshing(p)' = Refreshing(p) \cup {t}
  BY <1>1, <1>2 DEF Refreshing
<1>4. \A q : q # p => Refreshing(q)' = Refreshing(q)
  BY <1>1, <1>2 DEF Refreshing
<1>5. t \notin Refreshing(p) /\ \A q : t \notin Swapping(q)
  BY DEF Refreshing, Swapping
<1>6. Swapping(p)' = Swapping(p) \cup {t}
  BY <1>1, <1>2, <1>3, <1>5 DEF Swapping, Refreshing
<1>7. \A q : q # p => Swapping(q)' = Swapping(q)
  BY <1>1, <1>2 DEF Swapping, Refreshing
<1>8. \A q : \A u \in Swapping(q) : u \in Swapping(q)' /\ refreshes'[u] = refreshes[u]
  BY <1>2, <1>5, <1>6, <1>7 DEF Swapping, Refreshing
<1> QED
  BY <1>1, <1>2, <1>3, <1>4, <1>6, <1>7, <1>8

LEMMA WritePatchKeeps ==
  ASSUME RefreshInv, PatchesLeft, NEW t \in Refreshers, WritePatch(t)
  PROVE  RefreshInv'
<1> USE DEF RefreshInv
<1>1. /\ ~configFile.whole /\ refreshes[t] = NotRefreshing /\ configFile' = Written
      /\ refreshes' = Started(t, Api, TRUE)
      /\ UNCHANGED <<litellmCache, remoteCosts, inForce, notices, hadPrices,
                     interrupted, untold, behind>>
  BY DEF WritePatch
<1>2. Api \in ServerProcs
  BY DEF ServerProcs
<1>3. /\ refreshes' \in [Refreshers -> {NotRefreshing} \cup RefreshStates]
      /\ refreshes'[t].step = "load" /\ refreshes'[t].tells /\ ~refreshes'[t].live
      /\ \A u \in Refreshers \ {t} : refreshes'[u] = refreshes[u]
      /\ Refreshing(Api)' = Refreshing(Api) \cup {t}
      /\ Swapping(Api)' = Swapping(Api) \cup {t}
      /\ \A q : \A u \in Swapping(q) : u \in Swapping(q)' /\ refreshes'[u] = refreshes[u]
  BY <1>1, <1>2, Starts
<1>4. RefreshTypeOK'
  <2>1. configFile' \in [patches : 1 .. MaxPatches, whole : BOOLEAN]
    BY <1>1, RefreshAssumption DEF Written, PatchesLeft, RefreshTypeOK
  <2> QED
    BY <1>1, <1>3, <2>1 DEF RefreshTypeOK
<1>5. LoadDue(Api)' /\ Told(Proxy)'
  BY <1>3 DEF LoadDue, Told
<1>6. ConfigCurrent'
  <2> SUFFICES ASSUME NEW u \in Refreshers, refreshes'[u].proc \in {Api, Proxy}
               PROVE  LoadDue(refreshes[u].proc)' \/ Told(refreshes[u].proc)'
    BY DEF ConfigCurrent
  <2>1. CASE refreshes'[u].proc = Api
    BY <1>5, <2>1 DEF LoadDue
  <2>2. CASE refreshes'[u].proc = Proxy
    BY <1>5, <2>2 DEF Told
  <2> QED
    BY <2>1, <2>2
<1>7. ConfigHolds'
  BY <1>3 DEF ConfigHolds, Awaiting
<1>8. QueriesSave' /\ PricesHeld' /\ PricesFound'
  BY <1>1, <1>3 DEF QueriesSave, PricesHeld, PricesFound, RefreshAt, Active
<1>9. PricesComing'
  <2>1. \A p : \A u \in Swapping(p) : u \in Swapping(p)' /\ refreshes'[u] = refreshes[u]
    BY <1>3
  <2> QED
    BY <1>1, <2>1 DEF PricesComing
<1> QED
  BY <1>4, <1>6, <1>7, <1>8, <1>9

LEMMA NotifyKeeps ==
  ASSUME RefreshInv, NEW t \in Refreshers, NotifyProxy(t)
  PROVE  RefreshInv'
<1> USE DEF RefreshInv
<1>1. /\ refreshes[t] = NotRefreshing /\ notices' = FALSE
      /\ refreshes' = Started(t, Proxy, FALSE)
      /\ UNCHANGED <<configFile, litellmCache, remoteCosts, inForce, hadPrices,
                     interrupted, untold, behind>>
  BY DEF NotifyProxy
<1>2. Proxy \in ServerProcs /\ Api # Proxy
  BY RefreshAssumption DEF ServerProcs
<1>3. /\ refreshes' \in [Refreshers -> {NotRefreshing} \cup RefreshStates]
      /\ refreshes'[t].step = "load" /\ ~refreshes'[t].live
      /\ \A u \in Refreshers \ {t} : refreshes'[u] = refreshes[u]
      /\ \A q : q # Proxy => Refreshing(q)' = Refreshing(q)
      /\ Swapping(Proxy)' = Swapping(Proxy) \cup {t}
      /\ \A q : q # Proxy => Swapping(q)' = Swapping(q)
      /\ \A q : \A u \in Swapping(q) : u \in Swapping(q)' /\ refreshes'[u] = refreshes[u]
  BY <1>1, <1>2, Starts
<1>4. RefreshTypeOK'
  <2>1. notices' \in BOOLEAN
    BY <1>1
  <2> QED
    BY <1>1, <1>3, <2>1 DEF RefreshTypeOK
<1>5. LoadDue(Proxy)' /\ (LoadDue(Api) => LoadDue(Api)')
  BY <1>3 DEF LoadDue
<1>6. ConfigCurrent'
  <2> SUFFICES ASSUME NEW u \in Refreshers, PastLoad(u)', ~refreshes'[u].passed,
                      refreshes'[u].proc \in {Api, Proxy}
               PROVE  \/ refreshes'[u].config = configFile'.patches
                      \/ ~configFile'.whole \/ LoadDue(refreshes[u].proc)'
    BY DEF ConfigCurrent
  <2>1. CASE refreshes'[u].proc = Proxy
    BY <1>5, <2>1 DEF LoadDue
  <2>2. CASE refreshes'[u].proc = Api
    <3>1. u # t /\ refreshes'[u] = refreshes[u]
      BY <1>3 DEF PastLoad, Active
    <3>2. PastLoad(u) /\ ~Told(Api)
      BY <1>2, <3>1 DEF PastLoad, Active, Told
    <3>3. refreshes[u].config = configFile.patches \/ ~configFile.whole \/ LoadDue(Api)
      BY <2>2, <3>1, <3>2 DEF ConfigCurrent
    <3>4. LoadDue(Api) => LoadDue(refreshes[u].proc)'
      BY <1>5, <2>2 DEF LoadDue
    <3> QED
      BY <1>1, <3>1, <3>3, <3>4
  <2> QED
    BY <2>1, <2>2
<1>7. ConfigHolds'
  <2>1. Awaiting(Proxy)'
    BY <1>3 DEF Awaiting
  <2>2. Awaiting(Api) => Awaiting(Api)'
    BY <1>1, <1>2, <1>3 DEF Awaiting
  <2> QED
    BY <1>1, <2>1, <2>2 DEF ConfigHolds
<1>8. QueriesSave' /\ PricesHeld' /\ PricesFound'
  BY <1>1, <1>3 DEF QueriesSave, PricesHeld, PricesFound, RefreshAt, Active
<1>9. PricesComing'
  <2>1. \A p : \A u \in Swapping(p) : u \in Swapping(p)' /\ refreshes'[u] = refreshes[u]
    BY <1>3
  <2> QED
    BY <1>1, <2>1 DEF PricesComing
<1> QED
  BY <1>4, <1>6, <1>7, <1>8, <1>9

\* A process that restarts begins anew; the proxy may never hear of what the API was
\* to tell it.
LEMMA RebootKeeps ==
  ASSUME RefreshInv, NEW t \in Refreshers, NEW p \in ServerProcs, Reboot(p, t)
  PROVE  RefreshInv'
<1> USE DEF RefreshInv
<1>1. /\ refreshes' = [u \in Refreshers |-> IF u = t THEN Refresh(p, FALSE)
                         ELSE IF u \in Refreshing(p) THEN NotRefreshing ELSE refreshes[u]]
      /\ remoteCosts' = [remoteCosts EXCEPT ![p] = Unloaded]
      /\ inForce' = [inForce EXCEPT ![p] = NotBooted]
      /\ hadPrices' = hadPrices \ {p} /\ interrupted' = interrupted \ {p}
      /\ behind' = behind \ ({p} \X InForceParts)
      /\ UNCHANGED <<configFile, litellmCache>>
      /\ t \in Refreshing(p) \/ refreshes[t] = NotRefreshing
  BY DEF Reboot
<1>2. notices' \in BOOLEAN /\ (notices' <=> notices /\ p # Api)
  BY Zenon DEF Reboot
<1>3. untold' = IF p = Api /\ (notices \/ \E u \in Refreshing(Api) : refreshes[u].tells)
                  THEN untold \cup {Proxy} ELSE untold
  BY DEF Reboot
<1>4. Refresh(p, FALSE) \in RefreshStates /\ Refresh(p, FALSE) # NotRefreshing
      /\ Refresh(p, FALSE).proc = p /\ Refresh(p, FALSE).step = "load" /\ ~Refresh(p, FALSE).live
  BY FreshRefresh
<1>5. /\ refreshes'[t] = Refresh(p, FALSE)
      /\ \A u \in Refreshers \ {t} :
           refreshes'[u] = IF u \in Refreshing(p) THEN NotRefreshing ELSE refreshes[u]
  BY <1>1
<1>6. refreshes' \in [Refreshers -> {NotRefreshing} \cup RefreshStates]
  <2>1. \A u \in Refreshers : refreshes'[u] \in {NotRefreshing} \cup RefreshStates
    BY <1>4, <1>5 DEF RefreshTypeOK
  <2> QED
    BY <1>1, <2>1
<1>7. /\ t \in Swapping(p)' /\ \A q : q # p => Refreshing(q)' = Refreshing(q)
      /\ \A q : q # p => Swapping(q)' = Swapping(q)
  <2>1. t \in Swapping(p)'
    BY <1>4, <1>5 DEF Swapping, Refreshing
  <2>2. \A q : q # p => Refreshing(q)' = Refreshing(q)
    BY <1>1, <1>4, <1>5 DEF Refreshing
  <2>3. \A q : q # p => Swapping(q)' = Swapping(q)
    BY <1>1, <1>4, <1>5, <2>2 DEF Swapping, Refreshing
  <2> QED
    BY <2>1, <2>2, <2>3
<1>8. \A u \in Refreshers : Active(u)' /\ u # t =>
        refreshes'[u] = refreshes[u] /\ Active(u) /\ refreshes[u].proc # p
  BY <1>5 DEF Active, Refreshing
<1>9. RefreshTypeOK'
  <2>1. inForce' \in [ServerProcs -> [config : 0 .. MaxPatches, priced : BOOLEAN]]
    <3>1. NotBooted \in [config : 0 .. MaxPatches, priced : BOOLEAN]
      BY RefreshAssumption DEF NotBooted, Empty
    <3> QED
      BY <1>1, <3>1 DEF RefreshTypeOK
  <2>2. remoteCosts' \in [ServerProcs -> {Unloaded, Absent, Prices}]
    BY <1>1 DEF RefreshTypeOK
  <2>3. (untold \cup hadPrices \cup interrupted)' \subseteq ServerProcs
        /\ behind' \subseteq ServerProcs \X InForceParts
    BY <1>1, <1>3 DEF RefreshTypeOK, ServerProcs
  <2> QED
    BY <1>1, <1>2, <1>6, <2>1, <2>2, <2>3 DEF RefreshTypeOK
<1>10. ASSUME Told(Proxy) PROVE Told(Proxy)'
  <2>1. CASE p = Api
    BY <1>3, <1>10, <2>1 DEF Told
  <2>2. CASE p # Api
    <3>1. Refreshing(Api)' = Refreshing(Api) /\ t \notin Refreshing(Api)
      BY <1>1, <1>7, <2>2 DEF Refreshing
    <3>2. \A u \in Refreshing(Api) : refreshes'[u] = refreshes[u]
      BY <1>5, <2>2, <3>1 DEF Refreshing
    <3> QED
      BY <1>2, <1>3, <1>10, <2>2, <3>1, <3>2 DEF Told
  <2> QED
    BY <2>1, <2>2
<1>11. ConfigCurrent'
  <2> SUFFICES ASSUME NEW u \in Refreshers, PastLoad(u)', ~refreshes'[u].passed,
                      refreshes'[u].proc \in {Api, Proxy}
               PROVE  \/ refreshes'[u].config = configFile'.patches
                      \/ ~configFile'.whole
                      \/ LoadDue(refreshes[u].proc)' \/ Told(refreshes[u].proc)'
    BY DEF ConfigCurrent
  <2>1. u # t /\ refreshes'[u] = refreshes[u] /\ refreshes[u].proc # p /\ PastLoad(u)
    BY <1>4, <1>5, <1>8 DEF PastLoad, Active
  <2>2. ASSUME LoadDue(refreshes[u].proc) PROVE LoadDue(refreshes[u].proc)'
    BY <1>1, <1>5, <1>7, <2>1, <2>2 DEF LoadDue, Swapping, Refreshing
  <2>3. ASSUME Told(refreshes[u].proc) PROVE Told(refreshes[u].proc)'
    BY <1>10, <2>1, <2>3 DEF Told
  <2> QED
    BY <1>1, <2>1, <2>2, <2>3 DEF ConfigCurrent
<1>12. ConfigHolds'
  <2> SUFFICES ASSUME NEW q \in {Api, Proxy}, ~Awaiting(q)', q \notin untold',
                      <<q, "config">> \notin behind'
               PROVE  inForce'[q].config = configFile'.patches
    BY DEF ConfigHolds
  <2>1. q # p /\ q \in ServerProcs
    BY <1>7 DEF Awaiting, ServerProcs
  <2>2. q \notin untold /\ <<q, "config">> \notin behind
    BY <1>1, <1>3, <2>1
  <2>3. ~(q = Proxy /\ Told(Proxy))
    BY <1>10, <2>1 DEF Told, Awaiting
  <2>4. ~Awaiting(q)
    BY <1>1, <1>7, <2>1, <2>3 DEF Awaiting, Told
  <2>5. inForce'[q] = inForce[q]
    BY <1>1, <2>1 DEF RefreshTypeOK
  <2> QED
    BY <1>1, <2>2, <2>4, <2>5 DEF ConfigHolds
<1>13. PricesHeld'
  BY <1>1 DEF PricesHeld, RefreshTypeOK
<1>14. QueriesSave' /\ PricesFound'
  BY <1>1, <1>4, <1>5, <1>8 DEF QueriesSave, PricesFound, RefreshAt, Active
<1>15. PricesComing'
  <2> SUFFICES ASSUME NEW q \in hadPrices \ {p}, <<q, "prices">> \notin behind,
                      q \notin interrupted
               PROVE  inForce'[q].priced \/ \E u \in Swapping(q)' : refreshes'[u].step = "swap"
    BY <1>1 DEF PricesComing
  <2>1. inForce[q].priced \/ \E u \in Swapping(q) : refreshes[u].step = "swap"
    BY DEF PricesComing
  <2>2. inForce'[q] = inForce[q]
    BY <1>1 DEF RefreshTypeOK
  <2>3. \A u \in Swapping(q) : refreshes'[u] = refreshes[u]
    BY <1>1, <1>5 DEF Swapping, Refreshing
  <2> QED
    BY <1>7, <2>1, <2>2, <2>3
<1> QED
  BY <1>9, <1>11, <1>12, <1>13, <1>14, <1>15

\* The file and CONFIG change at once in the API; its refreshes that have read the
\* file are overtaken.
LEMMA WriteEvaluatorKeeps ==
  ASSUME RefreshInv, PatchesLeft, WriteEvaluator
  PROVE  RefreshInv'
<1> USE DEF RefreshInv
<1>1. /\ ~configFile.whole /\ configFile' = Written
      /\ inForce' = [inForce EXCEPT ![Api].config = configFile.patches + 1]
      /\ refreshes' = [t \in Refreshers |->
           IF t \in Swapping(Api) /\ refreshes[t].step # "load"
             THEN [refreshes[t] EXCEPT !.passed = TRUE] ELSE refreshes[t]]
      /\ behind' = behind \ {<<Api, "config">>} /\ untold' = untold \cup {Proxy}
      /\ UNCHANGED <<litellmCache, remoteCosts, notices, hadPrices, interrupted>>
  BY DEF WriteEvaluator
<1>2. Api \in ServerProcs /\ Proxy \in ServerProcs
  BY DEF ServerProcs
<1>3. configFile.patches + 1 \in 1 .. MaxPatches
  BY <1>1, RefreshAssumption DEF PatchesLeft, RefreshTypeOK
<1>4. ASSUME NEW u \in Refreshers
      PROVE  /\ refreshes'[u] \in {NotRefreshing} \cup RefreshStates
             /\ Active(u)' <=> Active(u)
             /\ Active(u) => /\ Alike(refreshes'[u], refreshes[u])
                             /\ refreshes'[u].step = refreshes[u].step
                             /\ refreshes'[u].found = refreshes[u].found
                             /\ refreshes'[u].raised = refreshes[u].raised
                             /\ PastLoad(u) /\ refreshes[u].proc = Api => refreshes'[u].passed
  <2>1. CASE u \in Swapping(Api) /\ refreshes[u].step # "load"
    <3>1. refreshes'[u] = [refreshes[u] EXCEPT !.passed = TRUE] /\ Active(u)
      BY <1>1, <2>1 DEF Swapping, Refreshing, Active
    <3>2. refreshes[u] \in RefreshStates
      BY <3>1, ActiveState
    <3> QED
      BY <3>1, <3>2, OvertakenAlike DEF Active
  <2>2. CASE ~(u \in Swapping(Api) /\ refreshes[u].step # "load")
    <3>1. refreshes'[u] = refreshes[u]
      BY <1>1, <2>2
    <3>2. ~(PastLoad(u) /\ refreshes[u].proc = Api)
      BY <2>2 DEF PastLoad, Active, Swapping, Refreshing
    <3> QED
      BY <3>1, <3>2 DEF RefreshTypeOK, Active, Alike
  <2> QED
    BY <2>1, <2>2
<1>5. \A p : Refreshing(p)' = Refreshing(p) /\ Swapping(p)' = Swapping(p)
  <2>1. \A p : Refreshing(p)' = Refreshing(p)
    BY <1>4 DEF Refreshing, Active, Alike
  <2> QED
    BY <1>4, <2>1 DEF Swapping, Refreshing, Active, Alike
<1>6. RefreshTypeOK'
  <2>1. configFile' \in [patches : 1 .. MaxPatches, whole : BOOLEAN]
    BY <1>1, <1>3 DEF Written
  <2>2. inForce' \in [ServerProcs -> [config : 0 .. MaxPatches, priced : BOOLEAN]]
    <3>1. configFile.patches + 1 \in 0 .. MaxPatches
      BY <1>3, RefreshAssumption
    <3>2. PICK n \in 0 .. MaxPatches : n = configFile.patches + 1
      BY <3>1
    <3>3. inForce' = [inForce EXCEPT ![Api].config = n]
      BY <1>1, <3>2
    <3> QED
      BY <1>2, <3>3 DEF RefreshTypeOK
  <2>3. refreshes' \in [Refreshers -> {NotRefreshing} \cup RefreshStates]
    BY <1>1, <1>4
  <2>4. (untold \cup hadPrices \cup interrupted)' \subseteq ServerProcs
        /\ behind' \subseteq ServerProcs \X InForceParts
    BY <1>1, <1>2 DEF RefreshTypeOK
  <2> QED
    BY <1>1, <2>1, <2>2, <2>3, <2>4 DEF RefreshTypeOK
<1>7. /\ inForce'[Api].config = configFile'.patches
      /\ \A p \in ServerProcs \ {Api} : inForce'[p] = inForce[p]
      /\ \A p \in ServerProcs : inForce'[p].priced = inForce[p].priced
  BY <1>1, <1>2 DEF RefreshTypeOK, Written
<1>8. ConfigHolds'
  BY <1>1, <1>7 DEF ConfigHolds
<1>9. ConfigCurrent'
  <2> SUFFICES ASSUME NEW u \in Refreshers, PastLoad(u)', ~refreshes'[u].passed,
                      refreshes'[u].proc \in {Api, Proxy}
               PROVE  Told(refreshes[u].proc)'
    BY DEF ConfigCurrent
  <2>1. PastLoad(u) /\ refreshes'[u].proc = refreshes[u].proc
    BY <1>4 DEF PastLoad, Active, Alike
  <2>2. refreshes'[u].proc = Proxy
    BY <1>4, <2>1 DEF PastLoad
  <2> QED
    BY <1>1, <2>2 DEF Told
<1>10. QueriesSave' /\ PricesHeld' /\ PricesFound'
  <2>1. QueriesSave' /\ PricesHeld'
    BY <1>1, <1>4 DEF QueriesSave, PricesHeld, Active, Alike
  <2>2. PricesFound'
    BY <1>1, <1>4 DEF PricesFound, RefreshAt, Active, Alike
  <2> QED
    BY <2>1, <2>2
<1>11. PricesComing'
  <2> SUFFICES ASSUME NEW p \in hadPrices, <<p, "prices">> \notin behind, p \notin interrupted
               PROVE  inForce'[p].priced \/ \E u \in Swapping(p)' : refreshes'[u].step = "swap"
    BY <1>1 DEF PricesComing
  <2>1. inForce[p].priced \/ \E u \in Swapping(p) : refreshes[u].step = "swap"
    BY DEF PricesComing
  <2>2. inForce'[p].priced = inForce[p].priced
    BY <1>7 DEF RefreshTypeOK
  <2> QED
    BY <1>4, <1>5, <2>1, <2>2 DEF Swapping, Refreshing, Active
<1> QED
  BY <1>6, <1>8, <1>9, <1>10, <1>11

\* A price query begins to download in a thread that was idle.
LEMMA LiveKeeps ==
  ASSUME RefreshInv, NEW t \in Refreshers, FetchLive(t)
  PROVE  RefreshInv'
<1> USE DEF RefreshInv
<1> DEFINE query == [Refresh(Api, FALSE) EXCEPT !.step = "save", !.live = TRUE]
<1>1. /\ refreshes[t] = NotRefreshing /\ refreshes' = [refreshes EXCEPT ![t] = query]
      /\ UNCHANGED <<configFile, litellmCache, remoteCosts, inForce, notices, hadPrices,
                     interrupted, untold, behind>>
  BY DEF FetchLive
<1>2. query \in RefreshStates /\ query.step = "save" /\ query.live /\ ~query.tells
  <2>1. Refresh(Api, FALSE) \in RefreshStates /\ ~Refresh(Api, FALSE).tells
    BY FreshRefresh DEF ServerProcs
  <2> QED
    BY <2>1 DEF RefreshStates
<1> HIDE DEF query
<1>3. refreshes'[t] = query /\ \A u \in Refreshers \ {t} : refreshes'[u] = refreshes[u]
  BY <1>1 DEF RefreshTypeOK
<1>4. \A p : /\ Swapping(p)' = Swapping(p) /\ Refreshing(p)' \subseteq Refreshing(p) \cup {t}
             /\ Refreshing(p) \subseteq Refreshing(p)'
  BY <1>1, <1>2, <1>3 DEF Swapping, Refreshing
<1>5. \A p : \A u \in Swapping(p) : refreshes'[u] = refreshes[u]
  BY <1>1, <1>3 DEF Swapping, Refreshing
<1>6. (\E u \in Refreshing(Api) : refreshes[u].tells)' <=>
        \E u \in Refreshing(Api) : refreshes[u].tells
  BY <1>1, <1>2, <1>3, <1>4 DEF Refreshing
<1>7. RefreshTypeOK'
  BY <1>1, <1>2 DEF RefreshTypeOK
<1>8. ConfigHolds'
  BY <1>1, <1>4, <1>6 DEF ConfigHolds, Awaiting
<1>9. ConfigCurrent'
  <2>1. \A u \in Refreshers : PastLoad(u)' => PastLoad(u) /\ refreshes'[u] = refreshes[u]
    BY <1>2, <1>3 DEF PastLoad, Active
  <2>2. \A p : LoadDue(p) => LoadDue(p)'
    BY <1>4, <1>5 DEF LoadDue
  <2>3. \A p : Told(p) => Told(p)'
    BY <1>1, <1>6 DEF Told
  <2> SUFFICES ASSUME NEW u \in Refreshers, PastLoad(u)', ~refreshes'[u].passed,
                      refreshes'[u].proc \in {Api, Proxy}
               PROVE  \/ refreshes'[u].config = configFile'.patches
                      \/ ~configFile'.whole
                      \/ LoadDue(refreshes[u].proc)' \/ Told(refreshes[u].proc)'
    BY DEF ConfigCurrent
  <2>4. refreshes'[u] = refreshes[u] /\ PastLoad(u)
    BY <2>1
  <2>5. ASSUME LoadDue(refreshes[u].proc) PROVE LoadDue(refreshes[u].proc)'
    BY <2>2, <2>4, <2>5 DEF LoadDue
  <2>6. ASSUME Told(refreshes[u].proc) PROVE Told(refreshes[u].proc)'
    BY <2>3, <2>4, <2>6 DEF Told
  <2> QED
    BY <1>1, <2>4, <2>5, <2>6 DEF ConfigCurrent
<1>10. QueriesSave' /\ PricesHeld' /\ PricesFound'
  BY <1>1, <1>2, <1>3 DEF QueriesSave, PricesHeld, PricesFound, RefreshAt, Active
<1>11. PricesComing'
  BY <1>1, <1>4, <1>5 DEF PricesComing
<1> QED
  BY <1>7, <1>8, <1>9, <1>10, <1>11

\* What does not touch the refreshes: a price query without a download, the cache
\* file, config.yaml opened for writing, and a notice lost.
LEMMA RefreshSurroundingsKeep ==
  ASSUME RefreshInv, PatchesLeft,
         \/ AnswerQuery \/ OpenForWrite \/ LoseNotice \/ CacheExpires
         \/ \E t \in Refreshers : TruncateCache(t)
  PROVE  RefreshInv'
<1> USE DEF RefreshInv
<1>1. CASE AnswerQuery
  <2> DEFINE costs == IF litellmCache = Prices THEN Prices ELSE Fallback(Api)
  <2>1. /\ remoteCosts' = [remoteCosts EXCEPT ![Api] = costs]
        /\ UNCHANGED <<configFile, litellmCache, inForce, refreshes, notices, hadPrices,
                       interrupted, untold, behind>>
    BY <1>1 DEF AnswerQuery
  <2>2. Api \in ServerProcs /\ remoteCosts[Api] \in {Unloaded, Absent, Prices}
        /\ (Api \in hadPrices => remoteCosts[Api] = Prices)
    BY DEF ServerProcs, RefreshTypeOK, PricesHeld
  <2>3. costs \in {Absent, Prices} /\ (Api \in hadPrices => costs = Prices)
    BY <2>2 DEF Fallback, Prices, Unloaded
  <2> HIDE DEF costs
  <2>4. RefreshTypeOK' /\ PricesHeld'
    <3>1. remoteCosts' \in [ServerProcs -> {Unloaded, Absent, Prices}]
      BY <2>1, <2>2, <2>3 DEF RefreshTypeOK
    <3>2. PricesHeld'
      BY <2>1, <2>2, <2>3 DEF PricesHeld, RefreshTypeOK
    <3> QED
      BY <2>1, <3>1, <3>2 DEF RefreshTypeOK
  <2>5. ConfigCurrent' /\ ConfigHolds'
    BY <2>1 DEF ConfigCurrent, ConfigHolds, PastLoad, Active, LoadDue, Told, Awaiting, Swapping,
                Refreshing
  <2>6. QueriesSave' /\ PricesFound' /\ PricesComing'
    BY <2>1 DEF QueriesSave, PricesFound, PricesComing, RefreshAt, Active, Swapping, Refreshing
  <2> QED
    BY <2>4, <2>5, <2>6
<1>2. CASE OpenForWrite
  <2>1. /\ configFile' = [configFile EXCEPT !.whole = FALSE]
        /\ UNCHANGED <<litellmCache, remoteCosts, inForce, refreshes, notices, hadPrices,
                       interrupted, untold, behind>>
    BY <1>2 DEF OpenForWrite
  <2>2. configFile' \in [patches : 1 .. MaxPatches, whole : BOOLEAN] /\ ~configFile'.whole
    BY <2>1 DEF RefreshTypeOK
  <2>3. RefreshTypeOK'
    BY <2>1, <2>2 DEF RefreshTypeOK
  <2>4. ConfigCurrent' /\ ConfigHolds'
    BY <2>2 DEF ConfigCurrent, ConfigHolds, Awaiting
  <2>5. QueriesSave' /\ PricesHeld' /\ PricesFound' /\ PricesComing'
    BY <2>1 DEF QueriesSave, PricesHeld, PricesFound, PricesComing, RefreshAt, Active, Swapping,
                Refreshing
  <2> QED
    BY <2>3, <2>4, <2>5
<1>3. CASE LoseNotice
  <2>1. /\ notices' = FALSE /\ untold' = untold \cup {Proxy}
        /\ UNCHANGED <<configFile, litellmCache, remoteCosts, inForce, refreshes, hadPrices,
                       interrupted, behind>>
    BY <1>3 DEF LoseNotice
  <2>2. notices' \in BOOLEAN /\ Proxy \in ServerProcs /\ Api # Proxy
    BY <2>1, RefreshAssumption DEF ServerProcs
  <2>3. RefreshTypeOK'
    BY <2>1, <2>2 DEF RefreshTypeOK
  <2>4. ConfigCurrent' /\ ConfigHolds'
    BY <2>1, <2>2 DEF ConfigCurrent, ConfigHolds, PastLoad, Active, LoadDue, Told, Awaiting,
                      Swapping, Refreshing
  <2>5. QueriesSave' /\ PricesHeld' /\ PricesFound' /\ PricesComing'
    BY <2>1 DEF QueriesSave, PricesHeld, PricesFound, PricesComing, RefreshAt, Active, Swapping,
                Refreshing
  <2> QED
    BY <2>3, <2>4, <2>5
<1>4. CASE CacheExpires \/ \E t \in Refreshers : TruncateCache(t)
  <2>1. /\ litellmCache' \in {Absent, Stale}
        /\ UNCHANGED <<configFile, remoteCosts, inForce, refreshes, notices, hadPrices,
                       interrupted, untold, behind>>
    BY <1>4 DEF CacheExpires, TruncateCache
  <2>2. RefreshTypeOK'
    BY <2>1 DEF RefreshTypeOK
  <2>3. ConfigCurrent' /\ ConfigHolds'
    BY <2>1 DEF ConfigCurrent, ConfigHolds, PastLoad, Active, LoadDue, Told, Awaiting, Swapping,
                Refreshing
  <2>4. QueriesSave' /\ PricesHeld' /\ PricesFound' /\ PricesComing'
    BY <2>1 DEF QueriesSave, PricesHeld, PricesFound, PricesComing, RefreshAt, Active, Swapping,
                Refreshing
  <2> QED
    BY <2>2, <2>3, <2>4
<1> QED
  BY <1>1, <1>2, <1>3, <1>4

LEMMA StepPatches ==
  ASSUME RefreshTypeOK, PatchesLeft, [RefreshNext]_refreshVars
  PROVE  PatchesLeft'
<1>1. \/ configFile' = configFile
      \/ OpenForWrite
      \/ configFile' = Written
  BY DEF RefreshNext, refreshVars, LoadConfig, FailLoad, FetchFromCache, FetchFromNet,
         TruncateCache, SaveCache, FetchFails, FetchRaises, WritePatch, NotifyProxy, SwapMaps,
         Reboot, FetchLive, AnswerQuery, WriteEvaluator, LoseNotice, CacheExpires
<1>2. CASE configFile' = configFile
  BY <1>2 DEF PatchesLeft
<1>3. CASE OpenForWrite
  BY <1>3 DEF OpenForWrite, PatchesLeft, RefreshTypeOK
<1>4. CASE configFile' = Written
  BY <1>4 DEF Written, PatchesLeft
<1> QED
  BY <1>1, <1>2, <1>3, <1>4

LEMMA StepRefresh ==
  ASSUME RefreshInv, PatchesLeft, [RefreshNext]_refreshVars
  PROVE  RefreshInv'
<1>1. CASE UNCHANGED refreshVars
  <2>1. RefreshTypeOK' /\ QueriesSave' /\ PricesHeld' /\ PricesFound' /\ PricesComing'
    BY <1>1 DEF refreshVars, RefreshInv, RefreshTypeOK, QueriesSave, PricesHeld, PricesFound,
                PricesComing, RefreshAt, Active, Swapping, Refreshing
  <2>2. ConfigCurrent' /\ ConfigHolds'
    BY <1>1 DEF refreshVars, RefreshInv, ConfigCurrent, ConfigHolds, PastLoad, Active, LoadDue,
                Told, Awaiting, Swapping, Refreshing
  <2> QED
    BY <2>1, <2>2 DEF RefreshInv
<1>2. CASE RefreshNext
  BY <1>2, LoadConfigKeeps, FailLoadKeeps, FetchesKeep, FetchNetKeeps, SaveKeeps, SwapKeeps,
     LiveKeeps, WritePatchKeeps, NotifyKeeps, RebootKeeps, WriteEvaluatorKeeps,
     RefreshSurroundingsKeep DEF RefreshNext
<1> QED
  BY <1>1, <1>2

\* Each refresh, configuration and price map has its type (refresh_runtime_config,
\* patch_config), however many processes refresh and in however many threads.
THEOREM RefreshTypeCorrect == RefreshSpec => []RefreshTypeOK
<1>1. RefreshInit => PatchesLeft
  BY DEF RefreshInit, PatchesLeft
<1>2. RefreshInv => RefreshTypeOK
  BY DEF RefreshInv
<1> QED
  BY <1>1, <1>2, InitRefresh, StepPatches, StepRefresh, PTL DEF RefreshSpec

\* Once nothing is under way the API and the proxy run the configuration in the
\* file, unless a refresh was overtaken or the proxy was never told. Prices a refresh
\* once loaded are never forgotten, whatever becomes of the cache file and the
\* network, and are in force unless the last refresh was overtaken or its download
\* raised (RefreshTakesHold; refresh_runtime_config, fetch_sources,
\* fetch_remote_pricing, patch_config).
THEOREM RefreshesTakeHold == RefreshSpec => []RefreshTakesHold
<1>1. RefreshInit => PatchesLeft
  BY DEF RefreshInit, PatchesLeft
<1>2. RefreshInv => RefreshTypeOK /\ RefreshTakesHold
  BY DEF RefreshInv, ConfigHolds, PricesHeld, PricesComing, RefreshTakesHold
<1> QED
  BY <1>1, <1>2, InitRefresh, StepPatches, StepRefresh, PTL DEF RefreshSpec

(* ---- sums ---------------------------------------------------------------------- *)

\* A sum of numbers is the number of its units.
Units(weight, S) == {u \in S \X Nat : u[2] \in 1 .. weight[u[1]]}
Weighs(weight, S) == \A x \in S : weight[x] \in Nat

LEMMA LeastElementOf ==
  ASSUME NEW T \in SUBSET Nat, T # {}
  PROVE  \E n \in T : \A m \in T : n <= m
<1> DEFINE R == OpToRel(<, Nat)
<1>1. IsWellFoundedOn(R, Nat)
  BY NatLessThanWellFounded
<1>2. PICK n \in T : \A m \in T : ~(<<m, n>> \in R)
  BY <1>1, WFMin, Zenon
<1>3. \A m \in T : ~(m < n)
  BY <1>2 DEF OpToRel
<1> QED
  BY <1>3

\* What holds of the empty set, and of a set when it holds of the set without one of its
\* elements, holds of a finite set and of its subsets.
LEMMA SubsetInduction ==
  ASSUME NEW S, IsFiniteSet(S), NEW Good \in SUBSET (SUBSET S), {} \in Good,
         \A T \in SUBSET S : T # {} /\ (\A x \in T : T \ {x} \in Good) => T \in Good
  PROVE  \A T \in SUBSET S : T \in Good
<1> SUFFICES ASSUME NEW B \in SUBSET S, B \notin Good PROVE FALSE
  OBVIOUS
<1> DEFINE sizes == {n \in Nat : \E T \in SUBSET S : T \notin Good /\ Cardinality(T) = n}
<1>1. \A T \in SUBSET S : IsFiniteSet(T) /\ Cardinality(T) \in Nat
  BY FS_Subset, FS_CardinalityType
<1>2. PICK n \in sizes : \A m \in sizes : n <= m
  <2>1. Cardinality(B) \in sizes
    BY <1>1
  <2> HIDE DEF sizes
  <2>2. sizes \in SUBSET Nat
    BY DEF sizes
  <2> QED
    BY <2>1, <2>2, LeastElementOf
<1>3. PICK T \in SUBSET S : T \notin Good /\ Cardinality(T) = n
  OBVIOUS
<1>4. PICK x \in T : T \ {x} \notin Good
  BY <1>3
<1>5. T \ {x} \in SUBSET S /\ T \ {x} \notin Good
  BY <1>4
<1>6. Cardinality(T \ {x}) = n - 1
  <2>1. IsFiniteSet(T)
    BY <1>1
  <2> QED
    BY <1>3, <2>1, FS_RemoveElement
<1>7. Cardinality(T \ {x}) \in sizes
  BY <1>1, <1>5
<1>8. n \in Nat
  OBVIOUS
<1>9. n <= Cardinality(T \ {x})
  BY <1>2, <1>7
<1> HIDE DEF sizes
<1> QED
  BY <1>6, <1>8, <1>9

LEMMA UnitsStep ==
  ASSUME NEW S, NEW weight, Weighs(weight, S), NEW x \in S,
         IsFiniteSet(Units(weight, S \ {x}))
  PROVE  /\ IsFiniteSet(Units(weight, S))
         /\ Cardinality(Units(weight, S)) = weight[x] + Cardinality(Units(weight, S \ {x}))
<1> DEFINE own == {x} \X (1 .. weight[x])
           rest == Units(weight, S \ {x})
<1>1. weight[x] \in Nat
  BY DEF Weighs
<1>2. Units(weight, S) = rest \cup own /\ rest \cap own = {}
  BY <1>1 DEF Units
<1>3. IsFiniteSet({x}) /\ Cardinality({x}) = 1
  BY FS_Singleton
<1>4. IsFiniteSet(1 .. weight[x]) /\ Cardinality(1 .. weight[x]) = weight[x]
  BY <1>1, FS_Interval
<1>5. IsFiniteSet(own) /\ Cardinality(own) = weight[x]
  <2>1. IsFiniteSet(own) /\ Cardinality(own) = Cardinality({x}) * Cardinality(1 .. weight[x])
    BY <1>3, <1>4, FS_Product
  <2>2. Cardinality(own) = 1 * weight[x]
    BY <1>3, <1>4, <2>1
  <2> HIDE DEF own
  <2> QED
    BY <1>1, <2>1, <2>2
<1> HIDE DEF own, rest
<1>6. Cardinality({}) = 0
  BY FS_EmptySet
<1>7. /\ IsFiniteSet(rest \cup own)
      /\ Cardinality(rest \cup own) = Cardinality(rest) + Cardinality(own) - Cardinality(rest \cap own)
  BY <1>5, FS_Union DEF rest
<1>8. Cardinality(rest) \in Nat
  BY FS_CardinalityType DEF rest
<1>9. Cardinality(rest \cup own) = weight[x] + Cardinality(rest)
  <2>1. rest \cap own = {}
    BY <1>2
  <2>2. Cardinality(rest \cap own) = 0
    BY <1>6, <2>1
  <2> QED
    BY <1>1, <1>5, <1>7, <1>8, <2>2
<1> QED
  BY <1>2, <1>7, <1>9 DEF rest

LEMMA UnitsFinite ==
  ASSUME NEW S, IsFiniteSet(S), NEW weight, Weighs(weight, S)
  PROVE  \A T \in SUBSET S : IsFiniteSet(Units(weight, T))
<1> DEFINE good == {T \in SUBSET S : IsFiniteSet(Units(weight, T))}
<1>1. {} \in good
  <2>1. Units(weight, {}) = {}
    BY DEF Units
  <2> QED
    BY <2>1, FS_EmptySet
<1>2. \A T \in SUBSET S : T # {} /\ (\A x \in T : T \ {x} \in good) => T \in good
  <2> SUFFICES ASSUME NEW T \in SUBSET S, NEW x \in T, T \ {x} \in good
               PROVE  T \in good
    OBVIOUS
  <2>1. Weighs(weight, T) /\ IsFiniteSet(Units(weight, T \ {x}))
    BY DEF Weighs
  <2>2. IsFiniteSet(Units(weight, T))
    BY <2>1, UnitsStep
  <2> QED
    BY <2>2
<1> HIDE DEF good
<1>3. good \in SUBSET (SUBSET S)
  BY DEF good
<1>4. \A T \in SUBSET S : T \in good
  BY <1>1, <1>2, <1>3, SubsetInduction
<1> QED
  BY <1>4 DEF good

SumsUp(weight, S, f) ==
  f = [T \in SUBSET S |->
         IF T = {} THEN 0
         ELSE weight[CHOOSE x \in T : TRUE] + f[T \ {CHOOSE x \in T : TRUE}]]

LEMMA TotalIs ==
  ASSUME NEW weight, NEW S
  PROVE  Total(weight, S) = (CHOOSE f : SumsUp(weight, S, f))[S]
BY DEF Total, MapThenSumSet, MapThenFoldSet, SumsUp

LEMMA TotalCounts ==
  ASSUME NEW S, IsFiniteSet(S), NEW weight, Weighs(weight, S)
  PROVE  Total(weight, S) = Cardinality(Units(weight, S))
<1> DEFINE count == [T \in SUBSET S |-> Cardinality(Units(weight, T))]
           f == CHOOSE h : SumsUp(weight, S, h)
           chosen(T) == CHOOSE x \in T : TRUE
<1>1. \A T \in SUBSET S : \A x \in T : count[T] = weight[x] + count[T \ {x}]
  <2> SUFFICES ASSUME NEW T \in SUBSET S, NEW x \in T
               PROVE  Cardinality(Units(weight, T))
                        = weight[x] + Cardinality(Units(weight, T \ {x}))
    OBVIOUS
  <2>1. Weighs(weight, T) /\ T \ {x} \in SUBSET S
    BY DEF Weighs
  <2>2. IsFiniteSet(Units(weight, T \ {x}))
    BY <2>1, UnitsFinite
  <2> QED
    BY <2>1, <2>2, UnitsStep
<1>2. Cardinality(Units(weight, {})) = 0
  <2>1. Units(weight, {}) = {}
    BY DEF Units
  <2> QED
    BY <2>1, FS_EmptySet
<1>3. SumsUp(weight, S, count)
  <2>1. \A T \in SUBSET S : T # {} => chosen(T) \in T
    OBVIOUS
  <2>2. \A T \in SUBSET S :
          count[T] = IF T = {} THEN 0 ELSE weight[chosen(T)] + count[T \ {chosen(T)}]
    BY <1>1, <1>2, <2>1
  <2>3. count = [T \in SUBSET S |-> count[T]]
    OBVIOUS
  <2> HIDE DEF count
  <2>4. count = [T \in SUBSET S |->
                   IF T = {} THEN 0 ELSE weight[chosen(T)] + count[T \ {chosen(T)}]]
    BY <2>2, <2>3
  <2> QED
    BY <2>4 DEF SumsUp
<1>4. SumsUp(weight, S, f)
  BY <1>3
<1> HIDE DEF f
<1>5. \A T \in SUBSET S :
        f[T] = IF T = {} THEN 0 ELSE weight[chosen(T)] + f[T \ {chosen(T)}]
  BY <1>4 DEF SumsUp
<1> DEFINE good == {T \in SUBSET S : f[T] = count[T]}
<1>6. {} \in good
  BY <1>2, <1>5
<1>7. \A T \in SUBSET S : T # {} /\ (\A x \in T : T \ {x} \in good) => T \in good
  <2> SUFFICES ASSUME NEW T \in SUBSET S, \A x \in T : T \ {x} \in good, T # {}
               PROVE  f[T] = count[T]
    OBVIOUS
  <2>1. chosen(T) \in T /\ T \ {chosen(T)} \in good
    OBVIOUS
  <2>2. f[T \ {chosen(T)}] = count[T \ {chosen(T)}]
    BY <2>1
  <2>3. f[T] = weight[chosen(T)] + f[T \ {chosen(T)}]
    BY <1>5
  <2> HIDE DEF count, good
  <2> QED
    BY <1>1, <2>1, <2>2, <2>3
<1> HIDE DEF good, count
<1>8. good \in SUBSET (SUBSET S)
  BY DEF good
<1>9. S \in good
  BY <1>6, <1>7, <1>8, SubsetInduction
<1>10. f[S] = Cardinality(Units(weight, S))
  BY <1>9 DEF good, count
<1> QED
  BY <1>10, TotalIs DEF f

LEMMA TotalNat ==
  ASSUME NEW S, IsFiniteSet(S), NEW weight, Weighs(weight, S)
  PROVE  Total(weight, S) \in Nat
BY TotalCounts, UnitsFinite, FS_CardinalityType

LEMMA TotalSame ==
  ASSUME NEW S, IsFiniteSet(S), NEW weight, NEW other, Weighs(weight, S),
         \A x \in S : other[x] = weight[x]
  PROVE  Total(other, S) = Total(weight, S)
<1>1. Weighs(other, S)
  BY DEF Weighs
<1>2. Units(other, S) = Units(weight, S)
  BY DEF Units
<1> QED
  BY <1>1, <1>2, TotalCounts

LEMMA TotalEmpty ==
  ASSUME NEW weight
  PROVE  Total(weight, {}) = 0
<1>1. IsFiniteSet({}) /\ Cardinality({}) = 0
  BY FS_EmptySet
<1>2. Weighs(weight, {}) /\ Units(weight, {}) = {}
  BY DEF Weighs, Units
<1> QED
  BY <1>1, <1>2, TotalCounts

LEMMA TotalUnion ==
  ASSUME NEW S, IsFiniteSet(S), NEW T, IsFiniteSet(T), S \cap T = {},
         NEW weight, Weighs(weight, S), Weighs(weight, T)
  PROVE  Total(weight, S \cup T) = Total(weight, S) + Total(weight, T)
<1> DEFINE A == Units(weight, S)
           B == Units(weight, T)
<1>1. IsFiniteSet(S \cup T) /\ Weighs(weight, S \cup T)
  BY FS_Union DEF Weighs
<1>2. Units(weight, S \cup T) = A \cup B /\ A \cap B = {}
  BY DEF Units
<1>3. IsFiniteSet(A) /\ IsFiniteSet(B)
  BY UnitsFinite
<1> HIDE DEF A, B
<1>4. Cardinality(A \cup B) = Cardinality(A) + Cardinality(B) - Cardinality(A \cap B)
  BY <1>3, FS_Union
<1>5. Cardinality(A \cap B) = 0
  BY <1>2, FS_EmptySet
<1>6. Cardinality(A) \in Nat /\ Cardinality(B) \in Nat
  BY <1>3, FS_CardinalityType
<1>7. Cardinality(A \cup B) = Cardinality(A) + Cardinality(B)
  BY <1>4, <1>5, <1>6
<1>8. Total(weight, S \cup T) = Cardinality(A \cup B)
  BY <1>1, <1>2, TotalCounts
<1>9. Total(weight, S) = Cardinality(A) /\ Total(weight, T) = Cardinality(B)
  BY TotalCounts DEF A, B
<1> QED
  BY <1>7, <1>8, <1>9

LEMMA TotalOne ==
  ASSUME NEW x, NEW weight, weight[x] \in Nat
  PROVE  Total(weight, {x}) = weight[x]
<1>1. IsFiniteSet({x}) /\ Weighs(weight, {x})
  BY FS_Singleton DEF Weighs
<1>2. {x} \ {x} = {} /\ x \in {x}
  OBVIOUS
<1>3. IsFiniteSet(Units(weight, {})) /\ Cardinality(Units(weight, {})) = 0
  <2>1. Units(weight, {}) = {}
    BY DEF Units
  <2> QED
    BY <2>1, FS_EmptySet
<1>4. Cardinality(Units(weight, {x})) = weight[x] + 0
  BY <1>1, <1>2, <1>3, UnitsStep
<1> QED
  BY <1>1, <1>4, TotalCounts

\* What is counted is a sum of ones.
LEMMA TotalOfOnes ==
  ASSUME NEW S, IsFiniteSet(S), NEW A, NEW weight,
         \A x \in S : weight[x] = IF x \in A THEN 1 ELSE 0
  PROVE  Total(weight, S) = Cardinality(S \cap A)
<1>1. Weighs(weight, S)
  BY DEF Weighs
<1>2. Units(weight, S) = (S \cap A) \X (1 .. 1)
  <2>1. \A x \in S : \A n \in Nat : n \in 1 .. weight[x] <=> x \in A /\ n = 1
    OBVIOUS
  <2>2. 1 .. 1 = {1}
    OBVIOUS
  <2> QED
    BY <2>1, <2>2 DEF Units
<1>3. IsFiniteSet(S \cap A) /\ Cardinality(S \cap A) \in Nat
  BY FS_Intersection, FS_CardinalityType
<1>4. IsFiniteSet(1 .. 1) /\ Cardinality(1 .. 1) = 1
  <2>1. 1 .. 1 = {1}
    OBVIOUS
  <2> QED
    BY <2>1, FS_Singleton
<1>5. Cardinality((S \cap A) \X (1 .. 1)) = Cardinality(S \cap A) * Cardinality(1 .. 1)
  BY <1>3, <1>4, FS_Product
<1>6. Cardinality((S \cap A) \X (1 .. 1)) = Cardinality(S \cap A)
  BY <1>3, <1>4, <1>5
<1> QED
  BY <1>1, <1>2, <1>6, TotalCounts

InGroup(S, group, k) == {x \in S : group[x] = k}

\* A sum is the sum of the sums of its groups.
LEMMA TotalGrouped ==
  ASSUME NEW S, IsFiniteSet(S), NEW weight, Weighs(weight, S),
         NEW K, IsFiniteSet(K), NEW group, \A x \in S : group[x] \in K,
         NEW sub, \A k \in K : sub[k] = Total(weight, InGroup(S, group, k))
  PROVE  Total(sub, K) = Total(weight, S)
<1> DEFINE of(T) == {x \in S : group[x] \in T}
           good == {T \in SUBSET K : Total(sub, T) = Total(weight, of(T))}
<1>1. \A T : IsFiniteSet(of(T)) /\ Weighs(weight, of(T))
  BY FS_Subset DEF Weighs
<1>2. \A T \in SUBSET K : IsFiniteSet(T)
  BY FS_Subset
<1>3. \A k \in K : sub[k] \in Nat
  <2> SUFFICES ASSUME NEW k \in K PROVE sub[k] \in Nat
    OBVIOUS
  <2>1. IsFiniteSet(InGroup(S, group, k)) /\ Weighs(weight, InGroup(S, group, k))
    BY FS_Subset DEF Weighs, InGroup
  <2> QED
    BY <2>1, TotalNat
<1>4. {} \in good
  <2>1. of({}) = {}
    OBVIOUS
  <2> QED
    BY <2>1, TotalEmpty
<1>5. \A T \in SUBSET K : T # {} /\ (\A k \in T : T \ {k} \in good) => T \in good
  <2> SUFFICES ASSUME NEW T \in SUBSET K, NEW k \in T, T \ {k} \in good
               PROVE  Total(sub, T) = Total(weight, of(T))
    OBVIOUS
  <2> DEFINE rest == T \ {k}
  <2>1. T = rest \cup {k} /\ rest \cap {k} = {} /\ rest \in SUBSET K
    OBVIOUS
  <2>2. of(T) = of(rest) \cup of({k}) /\ of(rest) \cap of({k}) = {}
    OBVIOUS
  <2>3. Total(sub, rest) = Total(weight, of(rest))
    OBVIOUS
  <2>4. sub[k] = Total(weight, of({k}))
    <3>1. of({k}) = InGroup(S, group, k)
      BY DEF InGroup
    <3> QED
      BY <3>1
  <2> HIDE DEF rest, of, good
  <2>5. Total(weight, of(T)) = Total(weight, of(rest)) + Total(weight, of({k}))
    <3>1. PICK A, B : A = of(rest) /\ B = of({k})
      OBVIOUS
    <3>2. /\ IsFiniteSet(A) /\ IsFiniteSet(B) /\ A \cap B = {}
          /\ Weighs(weight, A) /\ Weighs(weight, B) /\ of(T) = A \cup B
      BY <1>1, <2>2, <3>1
    <3>3. Total(weight, A \cup B) = Total(weight, A) + Total(weight, B)
      BY <3>2, TotalUnion
    <3> QED
      BY <3>1, <3>2, <3>3
  <2>6. /\ IsFiniteSet(rest) /\ IsFiniteSet({k})
        /\ Weighs(sub, rest) /\ Weighs(sub, {k})
    BY <1>2, <1>3, <2>1, FS_Singleton DEF Weighs
  <2>7. Total(sub, T) = Total(sub, rest) + Total(sub, {k})
    BY <2>1, <2>6, TotalUnion
  <2>8. Total(sub, {k}) = sub[k]
    BY <1>3, TotalOne
  <2> QED
    BY <2>3, <2>4, <2>5, <2>7, <2>8
<1>6. of(K) = S
  OBVIOUS
<1> HIDE DEF good
<1>7. good \in SUBSET (SUBSET K)
  BY DEF good
<1>8. K \in good
  BY <1>4, <1>5, <1>7, SubsetInduction
<1> QED
  BY <1>6, <1>8 DEF good


(* ---- instants and days ----------------------------------------------------------- *)

\* A day has begun when its first instant has come.
LEMMA DayBegun ==
  ASSUME ReportingAssumption, NEW at \in Nat, NEW d \in Int
  PROVE  /\ Day(at) \in Nat
         /\ d <= Day(at) <=> d * DayLength <= at
         /\ at < d * DayLength + DayLength <=> Day(at) <= d
<1>1. DayLength \in Nat \ {0}
  BY DEF ReportingAssumption
<1> DEFINE q == at \div DayLength
           r == at % DayLength
<1>2. /\ q \in Int /\ r \in Int /\ at = DayLength * q + r /\ 0 <= r /\ r < DayLength
  BY <1>1
<1> HIDE DEF q, r
<1>3. \A a, b \in Int : a <= b => a * DayLength <= b * DayLength
  BY <1>1
<1>4. /\ (q + 1) * DayLength = q * DayLength + DayLength /\ DayLength * q = q * DayLength
      /\ q * DayLength \in Int /\ d * DayLength \in Int
      /\ (d + 1) * DayLength = d * DayLength + DayLength
  BY <1>1, <1>2
<1>5. q \in Nat
  <2>1. SUFFICES ASSUME q + 1 <= 0 PROVE FALSE
    BY <1>2
  <2>2. (q + 1) * DayLength <= 0 * DayLength /\ 0 * DayLength = 0
    BY <1>1, <1>2, <1>3, <2>1
  <2> QED
    BY <1>1, <1>2, <1>4, <2>2
<1>6. d <= q <=> d * DayLength <= at
  <2>1. CASE d <= q
    <3>1. d * DayLength <= q * DayLength
      BY <1>2, <1>3, <2>1
    <3> QED
      BY <1>1, <1>2, <1>4, <2>1, <3>1
  <2>2. CASE q + 1 <= d
    <3>1. (q + 1) * DayLength <= d * DayLength
      BY <1>2, <1>3, <2>2
    <3> QED
      BY <1>1, <1>2, <1>4, <2>2, <3>1
  <2> QED
    BY <1>2, <2>1, <2>2
<1>7. at < d * DayLength + DayLength <=> q <= d
  <2>1. CASE q <= d
    <3>1. q * DayLength <= d * DayLength
      BY <1>2, <1>3, <2>1
    <3> QED
      BY <1>1, <1>2, <1>4, <2>1, <3>1
  <2>2. CASE d + 1 <= q
    <3>1. (d + 1) * DayLength <= q * DayLength
      BY <1>2, <1>3, <2>2
    <3> QED
      BY <1>1, <1>2, <1>4, <2>2, <3>1
  <2> QED
    BY <1>2, <2>1, <2>2
<1> QED
  BY <1>5, <1>6, <1>7 DEF Day, q

LEMMA DaysInOrder ==
  ASSUME ReportingAssumption, NEW at \in Nat, NEW later \in Nat, at <= later
  PROVE  Day(at) <= Day(later)
<1>1. Day(at) \in Nat /\ Day(at) * DayLength <= at
  BY DayBegun
<1>2. Day(at) * DayLength <= later
  BY <1>1 DEF ReportingAssumption
<1> QED
  BY <1>1, <1>2, DayBegun

LEMMA DaysOfInstants ==
  ASSUME ReportingAssumption, NEW at \in Instants
  PROVE  at \in Nat /\ Day(at) \in Days /\ Day(at) \in Nat
<1>1. at \in Nat /\ LastInstant \in Nat /\ at <= LastInstant
  BY DEF Instants, ReportingAssumption
<1>2. Day(at) \in Nat /\ Day(LastInstant) \in Nat /\ Day(at) <= Day(LastInstant)
  BY <1>1, DayBegun, DaysInOrder
<1> QED
  BY <1>1, <1>2 DEF Days, Day

\* An end of a window names a date, which for one in UTC is its day.
LEMMA EndDates ==
  ASSUME ReportingAssumption
  PROVE  /\ \A end \in Ends : /\ DateOf(end) \in Int /\ end.at \in Instants /\ end # Unbounded
                             /\ end.at \in Nat /\ Day(end.at) \in Nat
         /\ \A at \in Int : /\ UTC(at) # Unbounded /\ UTC(at).at = at
                            /\ DateOf(UTC(at)) = Day(at)
<1>1. DayLength \in Nat \ {0} /\ LastInstant \in Nat /\ Zones \subseteq Int
  BY DEF ReportingAssumption
<1>2. ASSUME NEW end \in Ends
      PROVE  /\ DateOf(end) \in Int /\ end.at \in Instants /\ end # Unbounded
             /\ end.at \in Nat /\ Day(end.at) \in Nat
  <2>0. end.at \in Instants /\ end.zone \in Zones /\ end = [at |-> end.at, zone |-> end.zone]
    BY DEF Ends
  <2>1. end.at \in Instants /\ end.at \in Int /\ end.zone \in Int
    BY <1>1, <2>0, DaysOfInstants
  <2>2. end \in [at : Int, zone : Int]
    BY <2>0, <2>1
  <2>3. end # Unbounded
    BY <2>2 DEF ReportingAssumption
  <2>4. PICK n \in Int : n = end.at + end.zone
    BY <2>1
  <2>5. n \div DayLength \in Int
    BY <1>1
  <2> QED
    BY <2>1, <2>3, <2>4, <2>5, DaysOfInstants DEF DateOf
<1>3. ASSUME NEW at \in Int
      PROVE  UTC(at) # Unbounded /\ UTC(at).at = at /\ DateOf(UTC(at)) = Day(at)
  <2>1. UTC(at) \in [at : Int, zone : Int] /\ UTC(at).at = at /\ UTC(at).zone = 0
    BY DEF UTC
  <2>2. at + 0 = at
    OBVIOUS
  <2> QED
    BY <2>1, <2>2 DEF DateOf, Day, ReportingAssumption
<1> QED
  BY <1>2, <1>3

LEMMA KeysFinite ==
  ASSUME ReportingAssumption
  PROVE  IsFiniteSet(Days) /\ IsFiniteSet(Days \X Providers)
<1>1. LastInstant \div DayLength \in Int
  BY DEF ReportingAssumption
<1>2. IsFiniteSet(Days)
  BY <1>1, FS_Interval DEF Days
<1> QED
  BY <1>2, FS_Product DEF ReportingAssumption


(* ---- the rollup ------------------------------------------------------------------ *)

Fields == {"requests", "ok", "s429", "s4xx", "s5xx", "latency"}
ReportKeys == Days \X Providers
SumsType == [Fields -> Nat]

\* What a row adds to the sums of its day and provider.
Share(row) ==
  [requests |-> 1, ok |-> One(~Failed(row)), s429 |-> One(row.status = 429),
   s4xx |-> One(Failed(row) /\ row.status # 429 /\ row.status < 500),
   s5xx |-> One(row.status >= 500), latency |-> Known(row.latency)]
Shares(rows, field) == [i \in DOMAIN rows |-> Share(rows[i])[field]]
RowsOf(rows, key) ==
  {i \in DOMAIN rows : Day(rows[i].at) = key[1] /\ rows[i].provider = key[2]}

\* usage_daily holds of each day and provider the sums of their rows.
RollupHolds ==
  \A key \in ReportKeys, field \in Fields :
    daily[key][field] = Total(Shares(reported, field), RowsOf(reported, key))

ReportInv ==
  /\ reported \in Seq(UsageReport) /\ daily \in [ReportKeys -> SumsType]
  /\ RollupHolds

LEMMA SumFields == DOMAIN NoSums = Fields
BY DEF NoSums, Fields

LEMMA NothingSummed == NoSums \in SumsType /\ \A field \in Fields : NoSums[field] = 0
<1>1. NoSums = [field \in Fields |-> 0]
  BY DEF NoSums, Fields
<1> QED
  BY <1>1 DEF SumsType

LEMMA ReportParts ==
  ASSUME ReportingAssumption, NEW row \in UsageReport
  PROVE  /\ row.at \in Instants /\ row.provider \in Providers
         /\ row.status \in 0 .. 599 /\ row.latency \in Nat \cup {NoLatency}
         /\ Day(row.at) \in Days /\ <<Day(row.at), row.provider>> \in ReportKeys
<1>1. PICK at \in Instants, p \in Providers, r \in Responses :
        row = [at |-> at, provider |-> p, status |-> r[1], latency |-> r[2]]
  BY DEF UsageReport
<1>2. r[1] \in 0 .. 599 /\ r[2] \in Nat \cup {NoLatency}
  BY DEF ReportingAssumption
<1>3. /\ row.at = at /\ row.provider = p /\ row.status = r[1] /\ row.latency = r[2]
  BY <1>1
<1>4. Day(row.at) \in Days
  BY <1>3, DaysOfInstants
<1> QED
  BY <1>2, <1>3, <1>4 DEF ReportKeys

LEMMA ShareCounts ==
  ASSUME ReportingAssumption, NEW row \in UsageReport
  PROVE  /\ Share(row) \in SumsType
         /\ \A sums \in SumsType :
              /\ Added(sums, row) \in SumsType
              /\ \A field \in Fields : Added(sums, row)[field] = sums[field] + Share(row)[field]
<1>1. \A condition \in BOOLEAN : One(condition) \in Nat
  BY DEF One
<1>2. Known(row.latency) \in Nat
  BY ReportParts DEF Known
<1>3. PICK ok, s429, s4xx, s5xx \in Nat :
        /\ ok = One(~Failed(row)) /\ s429 = One(row.status = 429)
        /\ s4xx = One(Failed(row) /\ row.status # 429 /\ row.status < 500)
        /\ s5xx = One(row.status >= 500)
  BY DEF One
<1>4. Share(row) = [requests |-> 1, ok |-> ok, s429 |-> s429, s4xx |-> s4xx, s5xx |-> s5xx,
                    latency |-> Known(row.latency)]
  BY <1>3 DEF Share
<1>5. \A sums \in SumsType :
        Added(sums, row) = [requests |-> sums.requests + 1, ok |-> sums.ok + ok,
                            s429 |-> sums.s429 + s429, s4xx |-> sums.s4xx + s4xx,
                            s5xx |-> sums.s5xx + s5xx,
                            latency |-> sums.latency + Known(row.latency)]
  BY <1>3 DEF Added
<1> HIDE <1>3
<1>6. Share(row) = [field \in Fields |-> Share(row)[field]]
  BY <1>4 DEF Fields
<1>7. \A field \in Fields : Share(row)[field] \in Nat
  BY <1>2, <1>4 DEF Fields
<1>8. SUFFICES ASSUME NEW sums \in SumsType
               PROVE  /\ Added(sums, row) \in SumsType
                      /\ \A field \in Fields :
                           Added(sums, row)[field] = sums[field] + Share(row)[field]
  BY <1>6, <1>7 DEF SumsType
<1>9. \A field \in Fields : sums[field] \in Nat
  BY DEF SumsType
<1>10. \A field \in Fields : Added(sums, row)[field] = sums[field] + Share(row)[field]
  BY <1>4, <1>5 DEF Fields, SumsType
<1>11. Added(sums, row) = [field \in Fields |-> Added(sums, row)[field]]
  BY <1>5 DEF Fields
<1>12. \A field \in Fields : Added(sums, row)[field] \in Nat
  BY <1>7, <1>9, <1>10
<1> QED
  BY <1>10, <1>11, <1>12 DEF SumsType

LEMMA RowsFinite ==
  ASSUME ReportingAssumption, NEW rows \in Seq(UsageReport)
  PROVE  /\ IsFiniteSet(DOMAIN rows) /\ DOMAIN rows = 1 .. Len(rows) /\ Len(rows) \in Nat
         /\ \A S \in SUBSET DOMAIN rows : IsFiniteSet(S)
         /\ \A field \in Fields, S \in SUBSET DOMAIN rows : Weighs(Shares(rows, field), S)
<1>1. DOMAIN rows = 1 .. Len(rows) /\ Len(rows) \in Nat
  OBVIOUS
<1>2. IsFiniteSet(DOMAIN rows)
  BY <1>1, FS_Interval
<1>3. \A S \in SUBSET DOMAIN rows : IsFiniteSet(S)
  BY <1>2, FS_Subset
<1>4. \A i \in DOMAIN rows : rows[i] \in UsageReport
  OBVIOUS
<1>5. \A i \in DOMAIN rows : Share(rows[i]) \in SumsType
  BY <1>4, ShareCounts
<1>6. \A field \in Fields, S \in SUBSET DOMAIN rows : Weighs(Shares(rows, field), S)
  BY <1>5 DEF Weighs, Shares, SumsType
<1> QED
  BY <1>1, <1>2, <1>3, <1>6

\* A row is added once: to the sums of its day and provider, and to no other.
LEMMA ReportKeeps ==
  ASSUME ReportingAssumption, ReportInv, NEW row \in UsageReport, ReportUsage(row)
  PROVE  ReportInv'
<1> DEFINE rows == Append(reported, row)
           new == Len(reported) + 1
           own == <<Day(row.at), row.provider>>
<1>1. /\ reported' = rows /\ rows \in Seq(UsageReport)
      /\ daily' = [daily EXCEPT ![own] = Added(@, row)]
  BY DEF ReportUsage, ReportInv
<1>2. own \in ReportKeys
  BY ReportParts
<1>3. /\ DOMAIN rows = DOMAIN reported \cup {new} /\ new \notin DOMAIN reported /\ rows[new] = row
      /\ \A i \in DOMAIN reported : rows[i] = reported[i]
  BY DEF ReportInv
<1> HIDE DEF rows, new
<1>4. \A key \in ReportKeys :
        daily'[key] = IF key = own THEN Added(daily[key], row) ELSE daily[key]
  BY <1>1, <1>2 DEF ReportInv
<1>5. daily' \in [ReportKeys -> SumsType]
  <2>1. \A key \in ReportKeys : daily[key] \in SumsType /\ Added(daily[key], row) \in SumsType
    BY ShareCounts DEF ReportInv
  <2>2. daily' = [key \in ReportKeys |-> daily'[key]]
    BY <1>1 DEF ReportInv
  <2> QED
    BY <1>4, <2>1, <2>2
<1>6. ASSUME NEW key \in ReportKeys, NEW field \in Fields
      PROVE  daily'[key][field] = Total(Shares(rows, field), RowsOf(rows, key))
  <2> DEFINE old == RowsOf(reported, key)
             weight == Shares(rows, field)
  <2>1. daily[key][field] = Total(Shares(reported, field), old)
    BY DEF ReportInv, RollupHolds
  <2>2. old \subseteq DOMAIN reported /\ IsFiniteSet(old)
    BY RowsFinite DEF RowsOf, ReportInv
  <2>3. /\ weight[new] = Share(row)[field] /\ weight[new] \in Nat
        /\ \A i \in DOMAIN reported : weight[i] = Shares(reported, field)[i]
    BY <1>3, ShareCounts DEF Shares, SumsType
  <2>4. Weighs(Shares(reported, field), old)
    BY <2>2, RowsFinite DEF ReportInv
  <2>5. Total(weight, old) = daily[key][field] /\ Weighs(weight, old)
    <3>1. \A i \in old : weight[i] = Shares(reported, field)[i]
      BY <2>2, <2>3
    <3> HIDE DEF weight, old
    <3> QED
      BY <2>1, <2>2, <2>4, <3>1, TotalSame DEF Weighs
  <2>6. RowsOf(rows, key) = old \cup (IF key = own THEN {new} ELSE {})
    <3>1. key = own <=> Day(row.at) = key[1] /\ row.provider = key[2]
      BY DEF ReportKeys
    <3> QED
      BY <1>3, <3>1 DEF RowsOf
  <2>7. CASE key # own
    BY <1>4, <2>5, <2>6, <2>7
  <2>8. CASE key = own
    <3>1. IsFiniteSet({new}) /\ old \cap {new} = {} /\ Weighs(weight, {new})
      <4>1. IsFiniteSet({new})
        BY FS_Singleton
      <4>2. old \cap {new} = {}
        BY <1>3, <2>2
      <4>3. Weighs(weight, {new})
        BY <2>3 DEF Weighs
      <4> QED
        BY <4>1, <4>2, <4>3
    <3>2. Total(weight, {new}) = Share(row)[field]
      BY <2>3, TotalOne
    <3>3. Total(weight, old \cup {new}) = Total(weight, old) + Total(weight, {new})
      BY <2>2, <2>5, <3>1, TotalUnion
    <3>4. Added(daily[key], row)[field] = daily[key][field] + Share(row)[field]
      BY ShareCounts DEF ReportInv
    <3> QED
      BY <1>4, <2>5, <2>6, <2>8, <3>2, <3>3, <3>4
  <2> QED
    BY <2>7, <2>8
<1>7. RollupHolds'
  BY <1>1, <1>6 DEF RollupHolds
<1> QED
  BY <1>1, <1>5, <1>7 DEF ReportInv

LEMMA InitReport == ReportingAssumption /\ ReportingInit => ReportInv
<1> SUFFICES ASSUME ReportingAssumption, ReportingInit PROVE ReportInv
  OBVIOUS
<1>1. reported = <<>> /\ daily = [key \in ReportKeys |-> NoSums]
  BY DEF ReportingInit, ReportKeys
<1>2. \A key : RowsOf(reported, key) = {}
  BY <1>1 DEF RowsOf
<1>3. \A field, key : Total(Shares(reported, field), RowsOf(reported, key)) = 0
  BY <1>2, TotalEmpty
<1> QED
  BY <1>1, <1>3, NothingSummed DEF ReportInv, RollupHolds

LEMMA ReportStep == ReportingAssumption /\ ReportInv /\ [ReportingNext]_reportVars => ReportInv'
<1> SUFFICES ASSUME ReportingAssumption, ReportInv, [ReportingNext]_reportVars PROVE ReportInv'
  OBVIOUS
<1>1. CASE UNCHANGED reportVars
  BY <1>1 DEF reportVars, ReportInv, RollupHolds
<1>2. CASE ReportingNext
  BY <1>2, ReportKeeps DEF ReportingNext
<1> QED
  BY <1>1, <1>2


(* ---- the queries ----------------------------------------------------------------- *)

\* The rows of some days, and what they add up to.
Within(days, provider) ==
  {i \in DOMAIN reported :
     Day(reported[i].at) \in days /\ provider \in {AnyProvider, reported[i].provider}}
SumsOver(S) == [field \in Fields |-> Total(Shares(reported, field), S)]

LEMMA ReportedRows ==
  ASSUME ReportingAssumption, ReportInv
  PROVE  /\ \A i \in DOMAIN reported : reported[i] \in UsageReport
         /\ IsFiniteSet(DOMAIN reported)
         /\ \A S \in SUBSET DOMAIN reported : IsFiniteSet(S) /\ Cardinality(S) \in Nat
         /\ \A field \in Fields, S \in SUBSET DOMAIN reported :
              Weighs(Shares(reported, field), S)
BY RowsFinite, FS_CardinalityType DEF ReportInv

\* A report from usage_daily sums the rows of its days.
LEMMA DailyReport ==
  ASSUME ReportingAssumption, ReportInv, NEW days \in SUBSET Days,
         NEW provider \in Providers \cup {AnyProvider}
  PROVE  DailySums(days, provider) = SumsOver(Within(days, provider))
<1> DEFINE keys == {key \in DOMAIN daily : key[1] \in days /\ provider \in {AnyProvider, key[2]}}
           rows == Within(days, provider)
           group == [i \in rows |-> <<Day(reported[i].at), reported[i].provider>>]
<1>1. keys \subseteq ReportKeys /\ IsFiniteSet(keys)
  <2>1. DOMAIN daily = ReportKeys
    BY DEF ReportInv
  <2>2. IsFiniteSet(ReportKeys)
    BY KeysFinite DEF ReportKeys
  <2> QED
    BY <2>1, <2>2, FS_Subset
<1>2. rows \subseteq DOMAIN reported /\ IsFiniteSet(rows)
  BY ReportedRows DEF Within
<1>3. \A i \in rows : group[i] \in keys
  <2> SUFFICES ASSUME NEW i \in rows PROVE group[i] \in keys
    OBVIOUS
  <2>1. reported[i] \in UsageReport
    BY <1>2, ReportedRows
  <2>2. <<Day(reported[i].at), reported[i].provider>> \in ReportKeys
    BY <2>1, ReportParts
  <2>3. group[i] \in DOMAIN daily
    BY <2>2 DEF ReportInv
  <2> QED
    BY <2>3 DEF Within
<1>4. \A key \in keys : InGroup(rows, group, key) = RowsOf(reported, key)
  BY <1>1 DEF RowsOf, Within, ReportKeys, InGroup
<1>5. ASSUME NEW field \in Fields
      PROVE  Total([key \in keys |-> daily[key][field]], keys) = Total(Shares(reported, field), rows)
  <2> DEFINE sub == [key \in keys |-> daily[key][field]]
             weight == Shares(reported, field)
  <2>1. \A key \in keys : sub[key] = Total(weight, RowsOf(reported, key))
    BY <1>1 DEF ReportInv, RollupHolds
  <2>2. Weighs(weight, rows)
    BY <1>2, ReportedRows
  <2>3. \A key \in keys : sub[key] = Total(weight, InGroup(rows, group, key))
    BY <1>4, <2>1
  <2> HIDE DEF keys, rows, group, sub, weight
  <2>4. Total(sub, keys) = Total(weight, rows)
    BY <1>1, <1>2, <1>3, <2>2, <2>3, TotalGrouped
  <2> QED
    BY <2>4 DEF sub, weight
<1>6. DailySums(days, provider)
        = [field \in DOMAIN NoSums |-> Total([key \in keys |-> daily[key][field]], keys)]
  BY DEF DailySums
<1> HIDE DEF keys, rows, group
<1>7. DailySums(days, provider) = [field \in Fields |-> Total(Shares(reported, field), rows)]
  BY <1>5, <1>6, SumFields
<1> QED
  BY <1>7 DEF SumsOver, rows

\* The number of some of the rows, as a sum.
LEMMA CountsOf ==
  ASSUME ReportingAssumption, ReportInv, NEW S \in SUBSET DOMAIN reported,
         NEW field \in Fields, NEW A \in SUBSET S,
         \A i \in S : Share(reported[i])[field] = IF i \in A THEN 1 ELSE 0
  PROVE  Total(Shares(reported, field), S) = Cardinality(A)
<1>1. S \cap A = A /\ IsFiniteSet(S)
  BY ReportedRows
<1> DEFINE weight == Shares(reported, field)
<1>2. \A i \in S : weight[i] = IF i \in A THEN 1 ELSE 0
  BY DEF Shares
<1> HIDE DEF weight
<1>3. Total(weight, S) = Cardinality(S \cap A)
  BY <1>1, <1>2, TotalOfOnes
<1> QED
  BY <1>1, <1>3 DEF weight

\* Which field of the sums a row counts in.
LEMMA ShareOf ==
  ASSUME ReportingAssumption, NEW row \in UsageReport
  PROVE  /\ Share(row)["requests"] = 1
         /\ Share(row)["ok"] = IF row.status \in {NoStatus} \cup 1 .. 399 THEN 1 ELSE 0
         /\ Share(row)["s429"] = IF row.status \in {429} THEN 1 ELSE 0
         /\ Share(row)["s4xx"] = IF row.status \in (400 .. 499) \ {429} THEN 1 ELSE 0
         /\ Share(row)["s5xx"] = IF row.status \in 500 .. 599 THEN 1 ELSE 0
         /\ Share(row)["latency"] = Known(row.latency)
         /\ StatusClass(row) \in {"ok", "s429", "s4xx", "s5xx"}
         /\ StatusClass(row) = "ok" <=> row.status \in {NoStatus} \cup 1 .. 399
         /\ StatusClass(row) = "s429" <=> row.status \in {429}
         /\ StatusClass(row) = "s4xx" <=> row.status \in (400 .. 499) \ {429}
         /\ StatusClass(row) = "s5xx" <=> row.status \in 500 .. 599
<1>1. PICK n \in 0 .. 599 : n = row.status
  BY ReportParts
<1>2. /\ Failed(row) <=> n >= 400
      /\ n \in {NoStatus} \cup 1 .. 399 <=> n < 400
      /\ n \in (400 .. 499) \ {429} <=> n >= 400 /\ n # 429 /\ n < 500
      /\ n \in 500 .. 599 <=> n >= 500
  BY <1>1 DEF Failed, NoStatus
<1>3. /\ Share(row)["requests"] = 1
      /\ Share(row)["ok"] = IF n < 400 THEN 1 ELSE 0
      /\ Share(row)["s429"] = IF n = 429 THEN 1 ELSE 0
      /\ Share(row)["s4xx"] = IF n >= 400 /\ n # 429 /\ n < 500 THEN 1 ELSE 0
      /\ Share(row)["s5xx"] = IF n >= 500 THEN 1 ELSE 0
      /\ Share(row)["latency"] = Known(row.latency)
  BY <1>1, <1>2 DEF Share, One
<1>4. StatusClass(row) = IF n < 400 THEN "ok" ELSE IF n = 429 THEN "s429"
                         ELSE IF n < 500 THEN "s4xx" ELSE "s5xx"
  BY <1>1, <1>2 DEF StatusClass
<1> QED
  BY <1>1, <1>2, <1>3, <1>4

\* The same report by SQL over the rows, and by the walk over a run's window.
LEMMA RawReport ==
  ASSUME ReportingAssumption, ReportInv, NEW S \in SUBSET DOMAIN reported
  PROVE  RawSums(S) = SumsOver(S)
<1>1. \A i \in S :
        /\ Share(reported[i])["requests"] = 1
        /\ Share(reported[i])["ok"]
             = IF reported[i].status \in {NoStatus} \cup 1 .. 399 THEN 1 ELSE 0
        /\ Share(reported[i])["s429"] = IF reported[i].status \in {429} THEN 1 ELSE 0
        /\ Share(reported[i])["s4xx"]
             = IF reported[i].status \in (400 .. 499) \ {429} THEN 1 ELSE 0
        /\ Share(reported[i])["s5xx"] = IF reported[i].status \in 500 .. 599 THEN 1 ELSE 0
        /\ Share(reported[i])["latency"] = Known(reported[i].latency)
  BY ReportedRows, ShareOf
<1>2. Total(Shares(reported, "requests"), S) = Cardinality(S)
  <2>1. \A i \in S : Share(reported[i])["requests"] = IF i \in S THEN 1 ELSE 0
    BY <1>1
  <2> QED
    BY <2>1, CountsOf DEF Fields
<1>3. Total(Shares(reported, "ok"), S) = CountWhere(S, {NoStatus} \cup 1 .. 399)
  <2> DEFINE A == {i \in S : reported[i].status \in {NoStatus} \cup 1 .. 399}
  <2>1. A \in SUBSET S /\ \A i \in S : Share(reported[i])["ok"] = IF i \in A THEN 1 ELSE 0
    BY <1>1
  <2>2. CountWhere(S, {NoStatus} \cup 1 .. 399) = Cardinality(A)
    BY DEF CountWhere
  <2> HIDE DEF A
  <2>3. Total(Shares(reported, "ok"), S) = Cardinality(A)
    BY <2>1, CountsOf DEF Fields
  <2> QED
    BY <2>2, <2>3
<1>4. Total(Shares(reported, "s429"), S) = CountWhere(S, {429})
  <2> DEFINE A == {i \in S : reported[i].status \in {429}}
  <2>1. A \in SUBSET S /\ \A i \in S : Share(reported[i])["s429"] = IF i \in A THEN 1 ELSE 0
    BY <1>1
  <2>2. CountWhere(S, {429}) = Cardinality(A)
    BY DEF CountWhere
  <2> HIDE DEF A
  <2>3. Total(Shares(reported, "s429"), S) = Cardinality(A)
    BY <2>1, CountsOf DEF Fields
  <2> QED
    BY <2>2, <2>3
<1>5. Total(Shares(reported, "s4xx"), S) = CountWhere(S, (400 .. 499) \ {429})
  <2> DEFINE A == {i \in S : reported[i].status \in (400 .. 499) \ {429}}
  <2>1. A \in SUBSET S /\ \A i \in S : Share(reported[i])["s4xx"] = IF i \in A THEN 1 ELSE 0
    BY <1>1
  <2>2. CountWhere(S, (400 .. 499) \ {429}) = Cardinality(A)
    BY DEF CountWhere
  <2> HIDE DEF A
  <2>3. Total(Shares(reported, "s4xx"), S) = Cardinality(A)
    BY <2>1, CountsOf DEF Fields
  <2> QED
    BY <2>2, <2>3
<1>6. Total(Shares(reported, "s5xx"), S) = CountWhere(S, 500 .. 599)
  <2> DEFINE A == {i \in S : reported[i].status \in 500 .. 599}
  <2>1. A \in SUBSET S /\ \A i \in S : Share(reported[i])["s5xx"] = IF i \in A THEN 1 ELSE 0
    BY <1>1
  <2>2. CountWhere(S, 500 .. 599) = Cardinality(A)
    BY DEF CountWhere
  <2> HIDE DEF A
  <2>3. Total(Shares(reported, "s5xx"), S) = Cardinality(A)
    BY <2>1, CountsOf DEF Fields
  <2> QED
    BY <2>2, <2>3
<1>7. Total(Shares(reported, "latency"), S) = Total([i \in S |-> Known(reported[i].latency)], S)
  <2>1. \A i \in S : [k \in S |-> Known(reported[k].latency)][i] = Shares(reported, "latency")[i]
    BY <1>1 DEF Shares
  <2>2. IsFiniteSet(S) /\ Weighs(Shares(reported, "latency"), S)
    BY ReportedRows DEF Fields
  <2> QED
    BY <2>1, <2>2, TotalSame
<1> DEFINE sum(field) == Total(Shares(reported, field), S)
<1>8. SumsOver(S) = [field \in Fields |-> sum(field)]
  BY DEF SumsOver
<1>9. RawSums(S) = [requests |-> sum("requests"), ok |-> sum("ok"), s429 |-> sum("s429"),
                    s4xx |-> sum("s4xx"), s5xx |-> sum("s5xx"), latency |-> sum("latency")]
  BY <1>2, <1>3, <1>4, <1>5, <1>6, <1>7 DEF RawSums
<1> HIDE DEF sum
<1> QED
  BY <1>8, <1>9 DEF Fields

LEMMA WindowReport ==
  ASSUME ReportingAssumption, ReportInv, NEW S \in SUBSET DOMAIN reported
  PROVE  WindowSums(S) = SumsOver(S)
<1> DEFINE class(f) == Cardinality({i \in S : StatusClass(reported[i]) = f})
           latency == Total([i \in S |-> Known(reported[i].latency)], S)
           walked(field) == CASE field = "requests" -> Cardinality(S)
                              [] field = "latency" -> latency
                              [] OTHER -> class(field)
<1>1. \A i \in S :
        /\ StatusClass(reported[i]) = "ok" <=> reported[i].status \in {NoStatus} \cup 1 .. 399
        /\ StatusClass(reported[i]) = "s429" <=> reported[i].status \in {429}
        /\ StatusClass(reported[i]) = "s4xx" <=> reported[i].status \in (400 .. 499) \ {429}
        /\ StatusClass(reported[i]) = "s5xx" <=> reported[i].status \in 500 .. 599
  BY ReportedRows, ShareOf
<1>2. /\ {i \in S : StatusClass(reported[i]) = "ok"}
            = {i \in S : reported[i].status \in {NoStatus} \cup 1 .. 399}
      /\ {i \in S : StatusClass(reported[i]) = "s429"} = {i \in S : reported[i].status \in {429}}
      /\ {i \in S : StatusClass(reported[i]) = "s4xx"}
            = {i \in S : reported[i].status \in (400 .. 499) \ {429}}
      /\ {i \in S : StatusClass(reported[i]) = "s5xx"}
            = {i \in S : reported[i].status \in 500 .. 599}
  BY <1>1
<1>3. RawSums(S) = [requests |-> Cardinality(S), ok |-> class("ok"), s429 |-> class("s429"),
                    s4xx |-> class("s4xx"), s5xx |-> class("s5xx"), latency |-> latency]
  BY <1>2 DEF RawSums, CountWhere
<1>4. WindowSums(S) = [field \in Fields |-> walked(field)]
  BY SumFields DEF WindowSums
<1>5. /\ walked("requests") = Cardinality(S) /\ walked("ok") = class("ok")
      /\ walked("s429") = class("s429") /\ walked("s4xx") = class("s4xx")
      /\ walked("s5xx") = class("s5xx") /\ walked("latency") = latency
  OBVIOUS
<1> HIDE DEF walked, class, latency
<1>6. WindowSums(S) = RawSums(S)
  BY <1>3, <1>4, <1>5 DEF Fields
<1> QED
  BY <1>6, RawReport


Filters == Providers \cup {AnyProvider}

LEMMA InstantsOfRows ==
  ASSUME ReportingAssumption, ReportInv, NEW i \in DOMAIN reported
  PROVE  /\ reported[i].at \in Nat /\ Day(reported[i].at) \in Days /\ Day(reported[i].at) \in Nat
         /\ reported[i].provider \in Providers
<1>1. PICK row \in UsageReport : row = reported[i]
  BY ReportedRows
<1>2. row.at \in Instants /\ row.provider \in Providers
  BY ReportParts
<1> QED
  BY <1>1, <1>2, DaysOfInstants

\* The requests that a report counts are its rows.
LEMMA RequestsOf ==
  ASSUME ReportingAssumption, ReportInv, NEW S \in SUBSET DOMAIN reported
  PROVE  /\ SumsOver(S).requests = Cardinality(S)
         /\ SumsOver(S).requests = Total(Shares(reported, "requests"), S)
         /\ SumsOver(S).latency = Total(Shares(reported, "latency"), S)
<1>1. Total(Shares(reported, "requests"), S) = Cardinality(S)
  <2>1. \A i \in S : Share(reported[i])["requests"] = IF i \in S THEN 1 ELSE 0
    BY DEF Share
  <2> QED
    BY <2>1, CountsOf DEF Fields
<1> QED
  BY <1>1 DEF SumsOver, Fields

\* The rows from the first instant of a day to the last instant of another are those of
\* the days between them.
LEMMA WholeDays ==
  ASSUME ReportingAssumption, ReportInv, NEW a \in Int, NEW b \in Int, NEW provider \in Filters
  PROVE  Selected(DayStart(a), DayEnd(b), provider) = Within({d \in Days : d >= a /\ d <= b}, provider)
<1>1. DayLength \in Nat \ {0}
  BY DEF ReportingAssumption
<1>2. PICK x, y \in Int : x = a * DayLength /\ y = (b + 1) * DayLength - 1
  BY <1>1
<1>3. y = b * DayLength + DayLength - 1
  BY <1>1, <1>2
<1>4. /\ DayStart(a) # Unbounded /\ DayStart(a).at = x
      /\ DayEnd(b) # Unbounded /\ DayEnd(b).at = y
  BY <1>2, EndDates DEF DayStart, DayEnd
<1>5. ASSUME NEW i \in DOMAIN reported
      PROVE  /\ reported[i].at >= x <=> Day(reported[i].at) >= a
             /\ reported[i].at <= y <=> Day(reported[i].at) <= b
             /\ Day(reported[i].at) \in Days
  <2>1. PICK at \in Nat : at = reported[i].at
    BY InstantsOfRows
  <2>2. Day(at) \in Days /\ Day(at) \in Nat
    BY <2>1, InstantsOfRows
  <2>3. a <= Day(at) <=> a * DayLength <= at
    BY DayBegun
  <2>4. at < b * DayLength + DayLength <=> Day(at) <= b
    BY DayBegun
  <2>5. PICK z \in Int : z = b * DayLength
    BY <1>1
  <2> QED
    BY <1>1, <1>2, <1>3, <2>1, <2>2, <2>3, <2>4, <2>5
<1> QED
  BY <1>4, <1>5 DEF Selected, Within

LEMMA DaysAre ==
  ASSUME NEW since, NEW until, NEW now
  PROVE  DaysOf(since, until, now) \in SUBSET Days
BY DEF DaysOf

\* Between two dates lie the days of the daily branch.
LEMMA DaysBetween ==
  ASSUME ReportingAssumption, NEW since \in Ends, NEW until \in Ends, NEW now
  PROVE  DaysOf(since, until, now) = {d \in Days : d >= DateOf(since) /\ d <= DateOf(until)}
BY EndDates DEF DaysOf

LEMMA WithinReported ==
  ASSUME NEW days, NEW provider, NEW since, NEW until
  PROVE  /\ Within(days, provider) \in SUBSET DOMAIN reported
         /\ Selected(since, until, provider) \in SUBSET DOMAIN reported
BY DEF Within, Selected

\* A day that no row has is summed as nothing, in either table.
LEMMA OneDay ==
  ASSUME ReportingAssumption, ReportInv, NEW d, NEW provider \in Filters
  PROVE  DailySums({d}, provider) = SumsOver(Within({d}, provider))
<1>1. {d} \cap Days \in SUBSET Days
  OBVIOUS
<1>2. {key \in DOMAIN daily : key[1] \in {d} /\ provider \in {AnyProvider, key[2]}}
        = {key \in DOMAIN daily : key[1] \in {d} \cap Days /\ provider \in {AnyProvider, key[2]}}
  BY DEF ReportInv, ReportKeys
<1>3. DailySums({d}, provider) = DailySums({d} \cap Days, provider)
  BY <1>2 DEF DailySums
<1>4. Within({d}, provider) = Within({d} \cap Days, provider)
  BY InstantsOfRows DEF Within
<1> QED
  BY <1>1, <1>3, <1>4, DailyReport DEF Filters

\* From usage_daily, from the rows, and by the walk over them: the same report.
LEMMA TheBranches ==
  ASSUME ReportingAssumption, ReportInv
  PROVE  BranchesAgree
<1> SUFFICES ASSUME NEW since \in Ends, NEW until \in Ends, NEW provider \in Filters
             PROVE  LET first == DayStart(DateOf(since))
                        last == DayEnd(DateOf(until))
                        rows == Selected(first, last, provider)
                        raw == RawSums(rows)
                        sums == DailySums(DaysOf(since, until, until.at), provider)
                    IN  /\ sums = raw /\ WindowSums(rows) = raw
                        /\ (\A i \in rows : reported[i].latency # NoLatency) =>
                             DailyAverage(sums) = RawAverage(rows)
                        /\ \A d \in DateOf(since) .. DateOf(until) :
                             PeriodSums(first, last, 0, provider, d) = DailySums({d}, provider)
  BY DEF BranchesAgree, Filters
<1> DEFINE first == DayStart(DateOf(since))
           last == DayEnd(DateOf(until))
           days == DaysOf(since, until, until.at)
           rows == Selected(first, last, provider)
           raw == RawSums(rows)
           sums == DailySums(days, provider)
<1>1. DateOf(since) \in Int /\ DateOf(until) \in Int
  BY EndDates
<1>2. days = {d \in Days : d >= DateOf(since) /\ d <= DateOf(until)} /\ days \in SUBSET Days
  BY DaysBetween
<1>3. rows = Within(days, provider)
  <2>1. rows = Within({d \in Days : d >= DateOf(since) /\ d <= DateOf(until)}, provider)
    BY <1>1, WholeDays
  <2> HIDE DEF days, rows
  <2> QED
    BY <1>2, <2>1
<1>4. rows \in SUBSET DOMAIN reported
  BY WithinReported
<1>5. sums = SumsOver(rows)
  <2> HIDE DEF days, rows
  <2>1. DailySums(days, provider) = SumsOver(Within(days, provider))
    BY <1>2, DailyReport DEF Filters
  <2> QED
    BY <1>3, <2>1
<1>6. raw = SumsOver(rows) /\ WindowSums(rows) = SumsOver(rows)
  BY <1>4, RawReport, WindowReport
<1> HIDE DEF days
<1>7. ASSUME \A i \in rows : reported[i].latency # NoLatency
      PROVE  DailyAverage(sums) = RawAverage(rows)
  <2>1. {i \in rows : reported[i].latency # NoLatency} = rows
    BY <1>7
  <2>2. sums.requests = Cardinality(rows)
    BY <1>4, <1>5, RequestsOf
  <2>3. RawAverage(rows)
          = <<raw.latency, Cardinality({i \in rows : reported[i].latency # NoLatency})>>
    BY DEF RawAverage
  <2>4. DailyAverage(sums) = <<sums.latency, sums.requests>>
    BY DEF DailyAverage
  <2> HIDE DEF rows, raw, sums
  <2>5. raw = sums
    BY <1>5, <1>6
  <2> QED
    BY <2>1, <2>2, <2>3, <2>4, <2>5
<1>8. ASSUME NEW d \in DateOf(since) .. DateOf(until)
      PROVE  PeriodSums(first, last, 0, provider, d) = DailySums({d}, provider)
  <2>1. \A i \in DOMAIN reported : Period(reported[i].at, 0) = Day(reported[i].at)
    <3> SUFFICES ASSUME NEW i \in DOMAIN reported
                 PROVE  Period(reported[i].at, 0) = Day(reported[i].at)
      OBVIOUS
    <3>1. reported[i].at + 0 = reported[i].at
      BY InstantsOfRows
    <3> QED
      BY <3>1 DEF Period, Day
  <2> DEFINE own == {i \in rows : Period(reported[i].at, 0) = d}
  <2>2. \A i \in DOMAIN reported : Day(reported[i].at) = d => Day(reported[i].at) \in days
    BY <1>1, <1>2, InstantsOfRows
  <2>3. own = Within({d}, provider)
    BY <1>3, <1>4, <2>1, <2>2 DEF Within
  <2>4. own \in SUBSET DOMAIN reported
    BY <1>4
  <2>5. PeriodSums(first, last, 0, provider, d) = RawSums(own)
    BY DEF PeriodSums
  <2>6. DailySums({d}, provider) = SumsOver(Within({d}, provider))
    BY OneDay
  <2> HIDE DEF own
  <2>7. RawSums(own) = SumsOver(own)
    BY <2>4, RawReport
  <2> QED
    BY <2>3, <2>5, <2>6, <2>7
<1> HIDE DEF first, last, rows, raw, sums
<1>9. /\ sums = raw /\ WindowSums(rows) = raw
      /\ (\A i \in rows : reported[i].latency # NoLatency) => DailyAverage(sums) = RawAverage(rows)
  BY <1>5, <1>6, <1>7
<1> QED
  BY <1>8, <1>9 DEF first, last, rows, raw, sums, days

\* The rows of a window lie in the days of its dates, unless those are narrower than
\* the window.
LEMMA EveryRow ==
  ASSUME ReportingAssumption, ReportInv
  PROVE  EveryRowHasAPage
<1> SUFFICES ASSUME NEW since \in Ends \cup {Unbounded}, NEW until \in Ends \cup {Unbounded},
                    NEW now \in Nows(until),
                    until = Unbounded => \A i \in DOMAIN reported : Day(reported[i].at) <= Day(now),
                    NoLater(since), NoEarlier(until)
             PROVE  CountUsage(since, until, now, AnyProvider) >= Listed(since, until, AnyProvider)
  BY DEF EveryRowHasAPage
<1> DEFINE rows == Selected(since, until, AnyProvider)
           days == DaysOf(since, until, now)
           wider == Within(days, AnyProvider)
<1>1. /\ rows \in SUBSET DOMAIN reported /\ wider \in SUBSET DOMAIN reported
      /\ IsFiniteSet(wider) /\ Cardinality(rows) \in Nat
  BY WithinReported, ReportedRows
<1>2. until = Unbounded => now \in Instants /\ now \in Int
  BY DaysOfInstants DEF Nows
<1>3. ASSUME NEW i \in rows
      PROVE  i \in wider
  <2>1. PICK at \in Nat : at = reported[i].at
    BY <1>1, InstantsOfRows
  <2>2. Day(at) \in Days /\ Day(at) \in Nat
    BY <1>1, <2>1, InstantsOfRows
  <2>3. ASSUME since # Unbounded PROVE Day(at) >= DateOf(since)
    <3>1. since \in Ends /\ since.at \in Nat /\ Day(since.at) \in Nat /\ DateOf(since) \in Int
      BY <2>3, EndDates
    <3>2. at >= since.at
      BY <2>1, <2>3 DEF Selected
    <3>3. Day(since.at) <= Day(at)
      BY <3>1, <3>2, DaysInOrder
    <3>4. DateOf(since) <= Day(since.at)
      BY <2>3 DEF NoLater
    <3> QED
      BY <2>2, <3>1, <3>3, <3>4
  <2>4. Day(at) <= DateOf(IF until = Unbounded THEN UTC(now) ELSE until)
    <3>1. CASE until = Unbounded
      BY <1>1, <1>2, <2>1, <3>1, EndDates
    <3>2. CASE until # Unbounded
      <4>1. until \in Ends /\ until.at \in Nat /\ Day(until.at) \in Nat /\ DateOf(until) \in Int
        BY <3>2, EndDates
      <4>2. at <= until.at
        BY <2>1, <3>2 DEF Selected
      <4>3. Day(at) <= Day(until.at)
        BY <4>1, <4>2, DaysInOrder
      <4>4. Day(until.at) <= DateOf(until)
        BY <3>2, <4>1 DEF NoEarlier
      <4> QED
        BY <2>2, <3>2, <4>1, <4>3, <4>4
    <3> QED
      BY <3>1, <3>2
  <2>5. Day(at) \in days
    BY <2>2, <2>3, <2>4 DEF DaysOf
  <2>6. i \in DOMAIN reported
    BY <1>1
  <2> HIDE DEF rows, days
  <2> QED
    BY <2>1, <2>5, <2>6 DEF Within
<1> HIDE DEF rows, days, wider
<1>4. rows \subseteq wider
  BY <1>3
<1>5. Cardinality(rows) <= Cardinality(wider)
  BY <1>1, <1>4, FS_Subset
<1>6. Listed(since, until, AnyProvider) = Cardinality(rows)
  BY DEF Listed, rows
<1>7. CASE UsesDaily(since, until, now)
  <2>1. DailySums(days, AnyProvider) = SumsOver(wider)
    BY DaysAre, DailyReport DEF days, wider
  <2>2. SumsOver(wider).requests = Cardinality(wider)
    BY <1>1, RequestsOf
  <2>3. CountUsage(since, until, now, AnyProvider) = DailySums(days, AnyProvider).requests
    BY <1>7 DEF CountUsage, days
  <2>4. Cardinality(wider) \in Nat
    BY <1>1, FS_CardinalityType
  <2> QED
    BY <1>1, <1>5, <1>6, <2>1, <2>2, <2>3, <2>4
<1>8. CASE ~UsesDaily(since, until, now)
  <2>1. CountUsage(since, until, now, AnyProvider) = Cardinality(rows)
    BY <1>6, <1>8 DEF CountUsage
  <2> QED
    BY <1>1, <1>6, <2>1
<1> QED
  BY <1>7, <1>8


\* A breakdown of some rows: its groups add up to all of them.
LEMMA GroupsOf ==
  ASSUME ReportingAssumption, ReportInv, NEW rows \in SUBSET DOMAIN reported,
         NEW K \in SUBSET Providers, \A i \in rows : reported[i].provider \in K,
         NEW sub,
         \A p \in K : sub[p] = Cardinality({i \in rows : reported[i].provider = p})
  PROVE  Total(sub, K) = Cardinality(rows)
<1> DEFINE weight == Shares(reported, "requests")
           group == [i \in rows |-> reported[i].provider]
<1>1. /\ IsFiniteSet(rows) /\ IsFiniteSet(K) /\ Weighs(weight, rows)
      /\ Total(weight, rows) = Cardinality(rows)
  <2>1. "requests" \in Fields
    BY DEF Fields
  <2>2. Total(Shares(reported, "requests"), rows) = Cardinality(rows)
    BY RequestsOf
  <2>3. IsFiniteSet(K)
    BY FS_Subset DEF ReportingAssumption
  <2> QED
    BY <2>1, <2>2, <2>3, ReportedRows
<1>2. \A i \in rows : group[i] \in K
  OBVIOUS
<1>3. \A p \in K : sub[p] = Total(weight, InGroup(rows, group, p))
  <2> SUFFICES ASSUME NEW p \in K PROVE sub[p] = Total(weight, InGroup(rows, group, p))
    OBVIOUS
  <2> DEFINE own == {i \in rows : reported[i].provider = p}
  <2>1. InGroup(rows, group, p) = own
    BY DEF InGroup
  <2>2. own \in SUBSET DOMAIN reported
    OBVIOUS
  <2>3. sub[p] = Cardinality(own)
    OBVIOUS
  <2> HIDE DEF own, group
  <2>4. Cardinality(own) = Total(weight, own)
    BY <2>2, RequestsOf
  <2> QED
    BY <2>1, <2>3, <2>4
<1> HIDE DEF weight, group
<1>4. Total(sub, K) = Total(weight, rows)
  BY <1>1, <1>2, <1>3, TotalGrouped
<1> QED
  BY <1>1, <1>4

LEMMA TheGroups ==
  ASSUME ReportingAssumption, ReportInv
  PROVE  GroupsAddUp
<1> SUFFICES ASSUME NEW since \in Ends \cup {Unbounded}, NEW until \in Ends \cup {Unbounded},
                    NEW now \in Nows(until)
             PROVE  LET groups == Groups(since, until, now)
                    IN  Total([p \in groups |-> CountUsage(since, until, now, p)], groups)
                          = CountUsage(since, until, now, AnyProvider)
  BY DEF GroupsAddUp
<1> DEFINE groups == Groups(since, until, now)
           sub == [p \in groups |-> CountUsage(since, until, now, p)]
<1>1. AnyProvider \notin Providers
  BY DEF ReportingAssumption
<1>2. CASE UsesDaily(since, until, now)
  <2> DEFINE days == DaysOf(since, until, now)
             rows == Within(days, AnyProvider)
  <2>1. days \in SUBSET Days
    BY DaysAre
  <2>2. groups = {q \in Providers : \E d \in days : daily[<<d, q>>] # NoSums}
        /\ groups \in SUBSET Providers
    BY <1>2 DEF Groups
  <2>3. rows \in SUBSET DOMAIN reported
    BY WithinReported
  <2>4. \A i \in rows : reported[i].provider \in groups
    <3> SUFFICES ASSUME NEW i \in rows PROVE reported[i].provider \in groups
      OBVIOUS
    <3> DEFINE d == Day(reported[i].at)
               q == reported[i].provider
               own == RowsOf(reported, <<d, q>>)
    <3>1. i \in DOMAIN reported /\ d \in days
      BY <2>3 DEF Within
    <3>2. q \in Providers /\ <<d, q>> \in ReportKeys
      BY <2>1, <3>1, InstantsOfRows DEF ReportKeys
    <3>3. i \in own /\ own \in SUBSET DOMAIN reported
      BY <3>1 DEF RowsOf
    <3>4. daily[<<d, q>>]["requests"] = Total(Shares(reported, "requests"), own)
      BY <3>2 DEF ReportInv, RollupHolds, Fields
    <3> HIDE DEF own, d, q
    <3>5. Total(Shares(reported, "requests"), own) = Cardinality(own)
      BY <3>3, RequestsOf
    <3>6. IsFiniteSet(own) /\ own # {}
      BY <3>3, ReportedRows
    <3>7. Cardinality(own) # 0
      BY <3>6, FS_EmptySet
    <3>8. NoSums["requests"] = 0
      BY DEF NoSums
    <3>9. daily[<<d, q>>] # NoSums
      BY <3>4, <3>5, <3>7, <3>8
    <3>10. q \in groups
      BY <2>2, <3>1, <3>2, <3>9
    <3> QED
      BY <3>10 DEF q
  <2>5. ASSUME NEW p \in groups
        PROVE  sub[p] = Cardinality({i \in rows : reported[i].provider = p})
    <3>1. p \in Providers /\ p # AnyProvider
      BY <1>1, <2>2
    <3>2. Within(days, p) = {i \in rows : reported[i].provider = p}
      BY <3>1 DEF Within
    <3>3. Within(days, p) \in SUBSET DOMAIN reported
      BY WithinReported
    <3>4. sub[p] = DailySums(days, p).requests
      BY <1>2 DEF CountUsage
    <3> HIDE DEF days, sub, groups, rows
    <3>5. DailySums(days, p) = SumsOver(Within(days, p))
      BY <2>1, <3>1, DailyReport
    <3>6. SumsOver(Within(days, p)).requests = Cardinality(Within(days, p))
      BY <3>3, RequestsOf
    <3> QED
      BY <3>2, <3>4, <3>5, <3>6
  <2>6. CountUsage(since, until, now, AnyProvider) = DailySums(days, AnyProvider).requests
    BY <1>2 DEF CountUsage
  <2> HIDE DEF groups, rows, days, sub
  <2>7. DailySums(days, AnyProvider) = SumsOver(rows)
    BY <2>1, DailyReport DEF rows
  <2>8. SumsOver(rows).requests = Cardinality(rows)
    BY <2>3, RequestsOf
  <2>9. Total(sub, groups) = Cardinality(rows)
    BY <2>2, <2>3, <2>4, <2>5, GroupsOf
  <2>10. Total(sub, groups) = CountUsage(since, until, now, AnyProvider)
    BY <2>6, <2>7, <2>8, <2>9
  <2> QED
    BY <2>10 DEF sub, groups
<1>3. CASE ~UsesDaily(since, until, now)
  <2> DEFINE rows == Selected(since, until, AnyProvider)
  <2>1. groups = {reported[i].provider : i \in rows}
    BY <1>3 DEF Groups
  <2>2. rows \in SUBSET DOMAIN reported
    BY WithinReported
  <2>3. groups \in SUBSET Providers
    BY <2>1, <2>2, InstantsOfRows
  <2>4. \A i \in rows : reported[i].provider \in groups
    BY <2>1
  <2>5. ASSUME NEW p \in groups
        PROVE  sub[p] = Cardinality({i \in rows : reported[i].provider = p})
    <3>1. p # AnyProvider
      BY <1>1, <2>3
    <3>2. Selected(since, until, p) = {i \in rows : reported[i].provider = p}
      BY <3>1 DEF Selected
    <3>3. sub[p] = Cardinality(Selected(since, until, p))
      BY <1>3 DEF CountUsage, Listed
    <3> QED
      BY <3>2, <3>3
  <2>6. CountUsage(since, until, now, AnyProvider) = Cardinality(rows)
    BY <1>3 DEF CountUsage, Listed
  <2> HIDE DEF groups, rows, sub
  <2>7. Total(sub, groups) = Cardinality(rows)
    BY <2>2, <2>3, <2>4, <2>5, GroupsOf
  <2>8. Total(sub, groups) = CountUsage(since, until, now, AnyProvider)
    BY <2>6, <2>7
  <2> QED
    BY <2>8 DEF sub, groups
<1> QED
  BY <1>2, <1>3

(* ---- the theorems ---------------------------------------------------------------- *)

\* usage_daily always holds, for each day and provider, the sums of the rows of that day
\* and provider.
THEOREM ReportInvariant == ReportingSpec => []ReportInv
<1> USE ReportingAssumption
<1>1. ReportingInit => ReportInv
  BY InitReport
<1>2. ReportInv /\ [ReportingNext]_reportVars => ReportInv'
  BY ReportStep
<1> QED
  BY <1>1, <1>2, PTL DEF ReportingSpec

LEMMA ReportTypes == ReportInv => ReportingTypeOK
BY SumFields DEF ReportInv, ReportingTypeOK, SumsType, ReportKeys

LEMMA ReportsMatch == ReportInv => ReportsAgree
BY ReportingAssumption, TheBranches, EveryRow, TheGroups DEF ReportsAgree

\* The rows of usage and their sums in usage_daily have their types.
THEOREM ReportTypeCorrect == ReportingSpec => []ReportingTypeOK
BY ReportInvariant, ReportTypes, PTL

\* Whichever table answers, the reports agree: per status and in all, page by page, and
\* group by group (summarize_usage_raw and _daily, count_usage, the breakdowns), for any
\* statuses and latencies, windows and zones they are written in. Page by page it excepts
\* the windows whose dates as written are narrower than in UTC (_daily_usage_filters).
THEOREM ReportsAlwaysAgree == ReportingSpec => []ReportsAgree
BY ReportInvariant, ReportsMatch, PTL

===============================================================================
