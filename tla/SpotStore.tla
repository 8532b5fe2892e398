----------------------------- MODULE SpotStore -----------------------------
(***************************************************************************)
(* The spot table (apps/prices) and the runs that write it while the       *)
(* instrument dimension changes under them:                                *)
(*                                                                         *)
(*   - a batch run, ingest_prices_for_active_instruments, lists the ids of *)
(*     the current coins, fetches all their prices in one request, reads   *)
(*     the current rows of those ids and writes one spot row after the     *)
(*     other (pipelines/tasks/ingest.py);                                  *)
(*   - a walking run, ingest_yahoo_spot_for_active, reads the current rows *)
(*     once and then fetches and writes symbol by symbol                   *)
(*     (pipelines/tasks/yahoo.py; what skips a symbol is in EquityBatch).  *)
(*                                                                         *)
(* Nothing holds a lock or a transaction across these steps.  The          *)
(* dimension is the atomic one of InstrumentDimension.  A price is the     *)
(* number of the provider's update it comes from, which orders the ts      *)
(* columns too.                                                            *)
(***************************************************************************)
EXTENDS InstrumentDimension, Functions, FiniteSets

CONSTANTS
    Runs,       \* task runs that may be active together
    Batching,   \* those of them that are batch runs
    Page,       \* ids a batch run asks for
    MaxRows,    \* bound on versions of instruments
    MaxPrice,   \* bound on the provider's updates
    MaxFaults   \* bound on lost runs and missing answers

ASSUME SpotAssumption ==
    /\ Keys \subseteq Nat       \* in the order of Instrument.Meta.ordering
    /\ Batching \subseteq Runs /\ Page \in Nat
    /\ MaxRows \in Nat /\ MaxPrice \in Nat /\ MaxFaults \in Nat

VARIABLES
    price,      \* the provider's latest update of each key
    spot,       \* the fact_price_spot table: row id -> key and price
    pc,         \* where each run is
    asked,      \* ids a batch run has listed
    snaps,      \* key -> fetched price not yet written
    targets,    \* key -> id of the row that was current when it was read
    faults

runVars == <<pc, asked, snaps, targets>>
spotVars == <<rows, price, spot, runVars, faults>>

Empty == [k \in {} |-> 0]

CurrentKeys == {k \in Keys : CurrentIds(k) # {}}

Init ==
    /\ DimInit
    /\ price = [k \in Keys |-> 0]
    /\ spot = Empty
    /\ pc = [r \in Runs |-> "idle"]
    /\ asked = [r \in Runs |-> {}]
    /\ snaps = [r \in Runs |-> Empty]
    /\ targets = [r \in Runs |-> Empty]
    /\ faults = 0

-----------------------------------------------------------------------------
(* A batch run.                                                            *)

(* values_list(...)[:250] *)
FirstPage(ids) == {k \in ids : Cardinality({j \in ids : j < k}) < Page}

(* With nothing to ask for the run returns 0 at once. *)
ListIds(r) ==
    /\ r \in Batching /\ pc[r] = "idle"
    /\ CurrentKeys # {}
    /\ asked' = [asked EXCEPT ![r] = FirstPage(CurrentKeys)]
    /\ pc' = [pc EXCEPT ![r] = "listed"]
    /\ UNCHANGED <<rows, price, spot, snaps, targets, faults>>

(* Mutant: a missing answer is kept as an entry without a price. *)
FetchSpotNulls(r) ==
    /\ pc[r] = "listed"
    /\ \E answered \in SUBSET asked[r] :
          /\ \/ answered = asked[r] /\ UNCHANGED faults
             \/ answered # asked[r] /\ faults < MaxFaults /\ faults' = faults + 1
          /\ snaps' = [snaps EXCEPT ![r] =
                          [k \in asked[r] |-> IF k \in answered THEN price[k] ELSE Null]]
    /\ pc' = [pc EXCEPT ![r] = "fetched"]
    /\ UNCHANGED <<rows, price, spot, asked, targets>>

(* The provider leaves out what it does not know, at the cost of a fault. *)
FetchSpot(r) ==
    /\ pc[r] = "listed"
    /\ \E answered \in SUBSET asked[r] :
          /\ \/ answered = asked[r] /\ UNCHANGED faults
             \/ answered # asked[r] /\ faults < MaxFaults /\ faults' = faults + 1
          /\ snaps' = [snaps EXCEPT ![r] = Restrict(price, answered)]
    /\ pc' = [pc EXCEPT ![r] = "fetched"]
    /\ UNCHANGED <<rows, price, spot, asked, targets>>

TheCurrentId(k) == CHOOSE i \in CurrentIds(k) : TRUE

(* Mutant: the dictionary is built from all versions; the first one wins. *)
CurrentRowsAnyVersion(ids) ==
    [k \in ids \cap CurrentKeys |->
        CHOOSE i \in DOMAIN rows :
            rows[i].key = k /\ \A j \in DOMAIN rows : rows[j].key = k => i <= j]

(* Mutant: ids and rows are paired by position. *)
CurrentRowsByPosition(ids) ==
    [k \in ids \cap CurrentKeys |->
        TheCurrentId(CHOOSE j \in ids \cap CurrentKeys :
                        \A n \in ids \cap CurrentKeys : n <= j)]

CurrentRows(ids) == [k \in ids \cap CurrentKeys |-> TheCurrentId(k)]

(* instruments_by_id *)
ReadInstruments(r) ==
    /\ pc[r] = "fetched"
    /\ targets' = [targets EXCEPT ![r] = CurrentRows(asked[r])]
    /\ pc' = [pc EXCEPT ![r] = "writing"]
    /\ UNCHANGED <<rows, price, spot, asked, snaps, faults>>

-----------------------------------------------------------------------------
(* A walking run.                                                          *)

ReadAll(r) ==
    /\ r \in Runs \ Batching /\ pc[r] = "idle"
    /\ targets' = [targets EXCEPT ![r] = CurrentRows(Keys)]
    /\ pc' = [pc EXCEPT ![r] = "walking"]
    /\ UNCHANGED <<rows, price, spot, asked, snaps, faults>>

NextSymbol(r, k) == k \in DOMAIN targets[r] /\ \A j \in DOMAIN targets[r] : k <= j

FetchQuote(r, k) ==
    /\ pc[r] = "walking" /\ NextSymbol(r, k)
    /\ snaps' = [snaps EXCEPT ![r] = Restrict(price, {k})]
    /\ pc' = [pc EXCEPT ![r] = "writing"]
    /\ UNCHANGED <<rows, price, spot, asked, targets, faults>>

SkipQuote(r, k) ==
    /\ pc[r] = "walking" /\ NextSymbol(r, k)
    /\ faults < MaxFaults /\ faults' = faults + 1
    /\ targets' = [targets EXCEPT ![r] = Restrict(@, DOMAIN @ \ {k})]
    /\ UNCHANGED <<rows, price, spot, pc, asked, snaps>>

-----------------------------------------------------------------------------
(* Both.                                                                   *)

Put(f, x, y) == [z \in DOMAIN f \cup {x} |-> IF z = x THEN y ELSE f[z]]

Writable(r) == DOMAIN snaps[r] \cap DOMAIN targets[r]

(* update_spot: update_or_create by instrument, whatever ts is stored. *)
WriteSpot(r, k) ==
    /\ pc[r] = "writing" /\ k \in Writable(r)
    /\ spot' = Put(spot, targets[r][k], [key |-> k, price |-> snaps[r][k]])
    /\ snaps' = [snaps EXCEPT ![r] = Restrict(@, DOMAIN @ \ {k})]
    /\ targets' = [targets EXCEPT ![r] = Restrict(@, DOMAIN @ \ {k})]
    /\ pc' = [pc EXCEPT ![r] = IF r \in Batching THEN "writing" ELSE "walking"]
    /\ UNCHANGED <<rows, price, asked, faults>>

EndRun(r) ==
    /\ pc' = [pc EXCEPT ![r] = "idle"]
    /\ asked' = [asked EXCEPT ![r] = {}]
    /\ snaps' = [snaps EXCEPT ![r] = Empty]
    /\ targets' = [targets EXCEPT ![r] = Empty]
    /\ UNCHANGED <<rows, price, spot>>

(* Prices without a row, and rows without a price, are passed over. *)
Finish(r) ==
    /\ \/ pc[r] = "writing" /\ Writable(r) = {}
       \/ pc[r] = "walking" /\ DOMAIN targets[r] = {}
    /\ EndRun(r)
    /\ UNCHANGED faults

(* A failed request, a lost worker: what is written stays. *)
Abort(r) ==
    /\ pc[r] # "idle" /\ faults < MaxFaults
    /\ faults' = faults + 1
    /\ EndRun(r)

-----------------------------------------------------------------------------
(* The world: the catalog sync and the provider.                           *)

ChangeDimension ==
    /\ Len(rows) < MaxRows
    /\ DimNext
    /\ UNCHANGED <<price, spot, runVars, faults>>

PriceMoves(k) ==
    /\ price[k] < MaxPrice
    /\ price' = [price EXCEPT ![k] = @ + 1]
    /\ UNCHANGED <<rows, spot, runVars, faults>>

-----------------------------------------------------------------------------
RunStep(r) ==
    \/ ListIds(r) \/ FetchSpot(r) \/ ReadInstruments(r)
    \/ ReadAll(r)
    \/ \E k \in Keys : FetchQuote(r, k) \/ WriteSpot(r, k)
    \/ Finish(r)

Next ==
    \/ ChangeDimension
    \/ \E k \in Keys : PriceMoves(k)
    \/ \E r \in Runs : RunStep(r) \/ Abort(r) \/ \E k \in Keys : SkipQuote(r, k)

Spec == Init /\ [][Next]_spotVars

(* A run that has begun goes on (the time limits end it otherwise). *)
FairSpec == Spec /\ \A r \in Runs : WF_spotVars(pc[r] # "idle" /\ RunStep(r))

-----------------------------------------------------------------------------
(***************************************************************************)
(* Type correctness.  In particular a spot row, and every row id a run     *)
(* holds, is the id of a row: a reference to an instrument stays good      *)
(* while the dimension changes.                                            *)
(***************************************************************************)
TypeOK ==
    /\ rows \in Seq(Row)
    /\ price \in [Keys -> Nat]
    /\ DOMAIN spot \subseteq DOMAIN rows
    /\ \A i \in DOMAIN spot : spot[i] \in [key: Keys, price: Nat]
    /\ pc \in [Runs -> {"idle", "listed", "fetched", "walking", "writing"}]
    /\ asked \in [Runs -> SUBSET Keys]
    /\ \A r \in Runs :
          /\ DOMAIN snaps[r] \subseteq Keys /\ DOMAIN targets[r] \subseteq Keys
          /\ \A k \in DOMAIN snaps[r] : snaps[r][k] \in Nat
          /\ \A k \in DOMAIN targets[r] : targets[r][k] \in DOMAIN rows
    /\ faults \in 0..MaxFaults

(***************************************************************************)
(* No instrument ever shows another one's price, though ids, prices and    *)
(* rows are read at three different times.                                 *)
(***************************************************************************)
PricesBelong == \A i \in DOMAIN spot : spot[i].key = rows[i].key

(***************************************************************************)
(* The current row of k shows the provider's latest price.                 *)
(***************************************************************************)
Priced(k) ==
    \A i \in CurrentIds(k) : i \in DOMAIN spot /\ spot[i].price = price[k]

RunsRecur == []<>(\E r \in Runs : pc[r] \in {"listed", "walking"})

(***************************************************************************)
(* As long as runs keep being started, every current row ends up with the  *)
(* provider's latest price: a version opened in the middle of a run, a     *)
(* lost run and a slow run that writes an old price are all made good.     *)
(***************************************************************************)
SpotConverges == RunsRecur => <>[](\A k \in Keys : Priced(k))
=============================================================================
