----------------------- MODULE DimensionReadersProofs -----------------------
(***************************************************************************)
(* Proofs about the two stores that refer to rows of the instrument        *)
(* dimension while it changes: spot prices and the links of news articles. *)
(* What they need of the dimension is the same: an upsert never takes a    *)
(* row away or gives it to another key or another ticker.                  *)
(*                                                                         *)
(* SpotStore: no instrument ever shows another one's price.  The invariant *)
(* needs the same of the row ids the runs hold between their read and      *)
(* their writes.                                                           *)
(*                                                                         *)
(* NewsStore: an article's links belong to its stored edition, because a   *)
(* transaction has the article to itself from its read of the links to its *)
(* commit.                                                                 *)
(***************************************************************************)
EXTENDS SpotStore, NewsStore, TLAPS

(***************************************************************************)
(* The row a run is to write the price of k to is a row of k.              *)
(***************************************************************************)
TargetsBelong ==
    \A r \in Runs : \A k \in DOMAIN targets[r] : rows[targets[r][k]].key = k

SpotInv ==
    /\ TypeOK
    /\ DOMAIN snaps = Runs /\ DOMAIN targets = Runs
    /\ TargetsBelong
    /\ PricesBelong

(***************************************************************************)
(* A row id stays good: no upsert removes a row or changes its key or its  *)
(* tracked attributes.                                                     *)
(***************************************************************************)
Retains(table) ==
    \A i \in DOMAIN rows :
        i \in DOMAIN table /\ table[i].key = rows[i].key /\ table[i].attrs = rows[i].attrs

LEMMA RowsStay ==
    ASSUME rows \in Seq(Row), DimNext
    PROVE  rows' \in Seq(Row) /\ Retains(rows')
<1>1. PICK k \in Keys, a \in Attrs, m \in Metas, t \in 0..MaxTime : Upsert(k, a, m, t)
  BY DEF DimNext
<1>2. NewVersion(k, a, m, t) \in Row
  BY TimeAssumption DEF NewVersion, Row
<1>3. ASSUME NEW table \in Seq(Row), Retains(table),
             rows' = table \/ rows' = Append(table, NewVersion(k, a, m, t))
      PROVE  rows' \in Seq(Row) /\ Retains(rows')
  <2>1. CASE rows' = table
    BY <1>3, <2>1
  <2>2. CASE rows' = Append(table, NewVersion(k, a, m, t))
    <3>1. /\ rows' \in Seq(Row) /\ Len(rows') = Len(table) + 1
          /\ \A i \in 1..Len(table) : rows'[i] = table[i]
      BY <1>2, <2>2
    <3>2. QED
      BY <1>3, <3>1 DEF Retains
  <2>3. QED
    BY <1>3, <2>1, <2>2
<1>4. ASSUME NEW c \in DOMAIN rows, NEW row \in Row, row.key = rows[c].key, row.attrs = rows[c].attrs
      PROVE  [rows EXCEPT ![c] = row] \in Seq(Row) /\ Retains([rows EXCEPT ![c] = row])
  <2> DEFINE table == [rows EXCEPT ![c] = row]
  <2>1. /\ table \in Seq(Row) /\ Len(table) = Len(rows)
        /\ \A i \in 1..Len(rows) : table[i] = IF i = c THEN row ELSE rows[i]
    OBVIOUS
  <2> HIDE DEF table
  <2>2. table \in Seq(Row) /\ Retains(table)
    BY <1>4, <2>1 DEF Retains
  <2>3. QED
    BY <2>2 DEF table
<1>5. CASE CreateVersion(k, a, m, t)
  BY <1>3, <1>5 DEF CreateVersion, Retains
<1>6. ASSUME NEW c \in CurrentIds(k), RefreshMetadata(c, m) \/ ReplaceVersion(c, k, a, m, t)
      PROVE  rows' \in Seq(Row) /\ Retains(rows')
  <2>1. c \in DOMAIN rows /\ rows[c] \in Row
    BY DEF CurrentIds
  <2> DEFINE fresh == [rows[c] EXCEPT !.meta = m]
             closed == [rows[c] EXCEPT !.valid_to = t, !.is_current = FALSE]
  <2>2. fresh \in Row /\ fresh.key = rows[c].key /\ fresh.attrs = rows[c].attrs
    BY <2>1 DEF Row
  <2>3. closed \in Row /\ closed.key = rows[c].key /\ closed.attrs = rows[c].attrs
    <3>1. /\ [rows[c] EXCEPT !.valid_to = t] \in Row
          /\ [rows[c] EXCEPT !.valid_to = t].key = rows[c].key
          /\ [rows[c] EXCEPT !.valid_to = t].attrs = rows[c].attrs
      BY <2>1, TimeAssumption DEF Row
    <3>2. \A r \in Row : /\ [r EXCEPT !.is_current = FALSE] \in Row
                         /\ [r EXCEPT !.is_current = FALSE].key = r.key
                         /\ [r EXCEPT !.is_current = FALSE].attrs = r.attrs
      BY DEF Row
    <3>3. closed = [[rows[c] EXCEPT !.valid_to = t] EXCEPT !.is_current = FALSE]
      BY <2>1 DEF Row
    <3>4. QED
      BY <3>1, <3>2, <3>3
  <2>4. \/ rows' = [rows EXCEPT ![c] = fresh]
        \/ rows' = Append([rows EXCEPT ![c] = closed], NewVersion(k, a, m, t))
    BY <1>6 DEF RefreshMetadata, ReplaceVersion
  <2> HIDE DEF fresh, closed
  <2>5. CASE rows' = [rows EXCEPT ![c] = fresh]
    BY <1>3, <1>4, <2>1, <2>2, <2>5
  <2>6. CASE rows' = Append([rows EXCEPT ![c] = closed], NewVersion(k, a, m, t))
    BY <1>3, <1>4, <2>1, <2>3, <2>6
  <2>7. QED
    BY <2>4, <2>5, <2>6
<1>7. QED
  BY <1>1, <1>5, <1>6 DEF Upsert

(***************************************************************************)
(* What a query for the current rows returns, key by key.                  *)
(***************************************************************************)
LEMMA CurrentRowsBelong ==
    ASSUME NEW ids \in SUBSET Keys
    PROVE  /\ DOMAIN CurrentRows(ids) \subseteq Keys
           /\ \A k \in DOMAIN CurrentRows(ids) :
                 /\ CurrentRows(ids)[k] \in DOMAIN rows
                 /\ rows[CurrentRows(ids)[k]].key = k
<1>1. ASSUME NEW k \in CurrentKeys
      PROVE  TheCurrentId(k) \in DOMAIN rows /\ rows[TheCurrentId(k)].key = k
  BY DEF CurrentKeys, TheCurrentId, CurrentIds
<1> QED
  BY <1>1 DEF CurrentRows

LEMMA SpotInitInv == Init => SpotInv
  BY SpotAssumption
  DEF Init, DimInit, Empty, SpotInv, TypeOK, TargetsBelong, PricesBelong

(***************************************************************************)
(* A run that leaves the tables alone keeps the invariant if what it then  *)
(* holds has its types and belongs.                                        *)
(***************************************************************************)
LEMMA LocalStep ==
    ASSUME SpotInv, NEW r \in Runs,
           UNCHANGED <<rows, price, spot>>,
           pc' \in [Runs -> {"idle", "listed", "fetched", "walking", "writing"}],
           asked' \in [Runs -> SUBSET Keys],
           faults' \in 0..MaxFaults,
           DOMAIN snaps' = Runs, DOMAIN targets' = Runs,
           \A q \in Runs \ {r} : snaps'[q] = snaps[q] /\ targets'[q] = targets[q],
           DOMAIN snaps'[r] \subseteq Keys, DOMAIN targets'[r] \subseteq Keys,
           \A k \in DOMAIN snaps'[r] : snaps'[r][k] \in Nat,
           \A k \in DOMAIN targets'[r] :
               targets'[r][k] \in DOMAIN rows /\ rows[targets'[r][k]].key = k
    PROVE  SpotInv'
<1>1. TypeOK'
  BY DEF SpotInv, TypeOK
<1>2. TargetsBelong'
  BY DEF SpotInv, TargetsBelong
<1>3. PricesBelong'
  BY DEF SpotInv, PricesBelong
<1> QED
  BY <1>1, <1>2, <1>3 DEF SpotInv

(***************************************************************************)
(* The end of a run, whatever ends it.                                     *)
(***************************************************************************)
LEMMA EndRunKeepsInv ==
    ASSUME SpotInv, NEW r \in Runs, EndRun(r), faults' \in 0..MaxFaults
    PROVE  SpotInv'
<1>1. /\ pc' \in [Runs -> {"idle", "listed", "fetched", "walking", "writing"}]
      /\ asked' \in [Runs -> SUBSET Keys]
  BY DEF SpotInv, TypeOK, EndRun
<1>2. /\ DOMAIN snaps' = Runs /\ DOMAIN targets' = Runs
      /\ \A q \in Runs \ {r} : snaps'[q] = snaps[q] /\ targets'[q] = targets[q]
      /\ snaps'[r] = Empty /\ targets'[r] = Empty
  BY DEF SpotInv, EndRun
<1>3. DOMAIN Empty = {}
  BY DEF Empty
<1> QED
  BY <1>1, <1>2, <1>3, LocalStep DEF EndRun

(***************************************************************************)
(* The one step that writes: the row of the target gets the price of its   *)
(* own key.                                                                *)
(***************************************************************************)
LEMMA WriteKeepsInv ==
    ASSUME SpotInv, NEW r \in Runs, NEW k \in Keys, WriteSpot(r, k)
    PROVE  SpotInv'
<1> DEFINE i == targets[r][k]
<1>1. k \in DOMAIN snaps[r] /\ k \in DOMAIN targets[r]
  BY DEF WriteSpot, Writable
<1>2. i \in DOMAIN rows /\ rows[i].key = k /\ snaps[r][k] \in Nat
  BY <1>1 DEF SpotInv, TypeOK, TargetsBelong
<1> HIDE DEF i
<1>3. /\ DOMAIN spot' = DOMAIN spot \cup {i}
      /\ spot'[i] = [key |-> k, price |-> snaps[r][k]]
      /\ \A j \in DOMAIN spot \ {i} : spot'[j] = spot[j]
  BY DEF WriteSpot, Put, i
<1>4. /\ DOMAIN snaps' = Runs /\ DOMAIN targets' = Runs
      /\ \A q \in Runs \ {r} : snaps'[q] = snaps[q] /\ targets'[q] = targets[q]
      /\ snaps'[r] = Restrict(snaps[r], DOMAIN snaps[r] \ {k})
      /\ targets'[r] = Restrict(targets[r], DOMAIN targets[r] \ {k})
  BY DEF SpotInv, WriteSpot
<1>5. \A q \in Runs :
          /\ DOMAIN snaps'[q] \subseteq DOMAIN snaps[q]
          /\ DOMAIN targets'[q] \subseteq DOMAIN targets[q]
          /\ \A x \in DOMAIN snaps'[q] : snaps'[q][x] = snaps[q][x]
          /\ \A x \in DOMAIN targets'[q] : targets'[q][x] = targets[q][x]
  BY <1>4 DEF Restrict
<1>6. TypeOK'
  <2>1. pc' \in [Runs -> {"idle", "listed", "fetched", "walking", "writing"}]
    BY DEF SpotInv, TypeOK, WriteSpot
  <2>2. DOMAIN spot' \subseteq DOMAIN rows
        /\ \A j \in DOMAIN spot' : spot'[j] \in [key: Keys, price: Nat]
    BY <1>2, <1>3 DEF SpotInv, TypeOK
  <2>3. UNCHANGED <<rows, price, asked, faults>>
    BY DEF WriteSpot
  <2>4. \A q \in Runs :
            /\ DOMAIN snaps'[q] \subseteq Keys /\ DOMAIN targets'[q] \subseteq Keys
            /\ \A x \in DOMAIN snaps'[q] : snaps'[q][x] \in Nat
            /\ \A x \in DOMAIN targets'[q] : targets'[q][x] \in DOMAIN rows
    BY <1>5 DEF SpotInv, TypeOK
  <2> QED
    BY <2>1, <2>2, <2>3, <2>4 DEF SpotInv, TypeOK
<1>7. rows' = rows
  BY DEF WriteSpot
<1>8. TargetsBelong'
  BY <1>5, <1>7 DEF SpotInv, TargetsBelong
<1>9. PricesBelong'
  BY <1>2, <1>3, <1>7 DEF SpotInv, PricesBelong
<1> QED
  BY <1>4, <1>6, <1>8, <1>9 DEF SpotInv

LEMMA SpotStepInv == SpotInv /\ [Next]_spotVars => SpotInv'
<1> SUFFICES ASSUME SpotInv, [Next]_spotVars PROVE SpotInv'
  OBVIOUS
<1> USE SpotAssumption
<1>1. CASE ChangeDimension
  <2>1. /\ rows' \in Seq(Row)
        /\ \A i \in DOMAIN rows : i \in DOMAIN rows' /\ rows'[i].key = rows[i].key
    BY <1>1, RowsStay DEF Retains, SpotInv, TypeOK, ChangeDimension
  <2>2. UNCHANGED <<price, spot, pc, asked, snaps, targets, faults>>
    BY <1>1 DEF ChangeDimension, runVars
  <2>3. TypeOK'
    BY <2>1, <2>2 DEF SpotInv, TypeOK
  <2>4. TargetsBelong' /\ PricesBelong'
    BY <2>1, <2>2 DEF SpotInv, TypeOK, TargetsBelong, PricesBelong
  <2> QED
    BY <2>2, <2>3, <2>4 DEF SpotInv
<1>2. ASSUME NEW k \in Keys, PriceMoves(k) PROVE SpotInv'
  <2>1. UNCHANGED <<rows, spot, pc, asked, snaps, targets, faults>>
    BY <1>2 DEF PriceMoves, runVars
  <2>2. price' \in [Keys -> Nat]
    BY <1>2 DEF SpotInv, TypeOK, PriceMoves
  <2> QED
    BY <2>1, <2>2 DEF SpotInv, TypeOK, TargetsBelong, PricesBelong
<1>3. ASSUME NEW r \in Runs, ListIds(r) PROVE SpotInv'
  <2>1. FirstPage(CurrentKeys) \subseteq Keys
    BY DEF FirstPage, CurrentKeys
  <2>2. /\ pc' \in [Runs -> {"idle", "listed", "fetched", "walking", "writing"}]
        /\ asked' \in [Runs -> SUBSET Keys]
    BY <1>3, <2>1 DEF SpotInv, TypeOK, ListIds
  <2>3. UNCHANGED <<rows, price, spot, snaps, targets, faults>>
    BY <1>3 DEF ListIds
  <2> QED
    BY <2>2, <2>3 DEF SpotInv, TypeOK, TargetsBelong, PricesBelong
<1>4. ASSUME NEW r \in Runs, FetchSpot(r) PROVE SpotInv'
  <2>1. PICK answered \in SUBSET asked[r] :
            /\ snaps' = [snaps EXCEPT ![r] = Restrict(price, answered)]
            /\ faults' = faults \/ (faults < MaxFaults /\ faults' = faults + 1)
    BY <1>4 DEF FetchSpot
  <2>2. answered \subseteq Keys
    BY DEF SpotInv, TypeOK
  <2>3. /\ DOMAIN snaps' = Runs /\ snaps'[r] = Restrict(price, answered)
        /\ \A q \in Runs \ {r} : snaps'[q] = snaps[q]
    BY <2>1 DEF SpotInv
  <2>4. DOMAIN snaps'[r] \subseteq Keys /\ \A k \in DOMAIN snaps'[r] : snaps'[r][k] \in Nat
    BY <2>2, <2>3 DEF Restrict, SpotInv, TypeOK
  <2>5. faults' \in 0..MaxFaults
    BY <2>1 DEF SpotInv, TypeOK
  <2>6. /\ pc' \in [Runs -> {"idle", "listed", "fetched", "walking", "writing"}]
        /\ UNCHANGED <<rows, price, spot, asked, targets>>
    BY <1>4 DEF SpotInv, TypeOK, FetchSpot
  <2> QED
    BY <2>3, <2>4, <2>5, <2>6, LocalStep DEF SpotInv, TypeOK, TargetsBelong
<1>5. ASSUME NEW r \in Runs, NEW ids \in SUBSET Keys,
             targets' = [targets EXCEPT ![r] = CurrentRows(ids)],
             pc' \in [Runs -> {"idle", "listed", "fetched", "walking", "writing"}],
             UNCHANGED <<rows, price, spot, asked, snaps, faults>>
      PROVE  SpotInv'
  <2>1. /\ DOMAIN targets' = Runs /\ targets'[r] = CurrentRows(ids)
        /\ \A q \in Runs \ {r} : targets'[q] = targets[q]
    BY <1>5 DEF SpotInv
  <2>2. /\ DOMAIN targets'[r] \subseteq Keys
        /\ \A k \in DOMAIN targets'[r] :
              targets'[r][k] \in DOMAIN rows /\ rows[targets'[r][k]].key = k
    BY <2>1, CurrentRowsBelong
  <2> QED
    BY <1>5, <2>1, <2>2, LocalStep DEF SpotInv, TypeOK
<1>6. ASSUME NEW r \in Runs, ReadInstruments(r) PROVE SpotInv'
  <2>1. asked[r] \in SUBSET Keys
        /\ pc' \in [Runs -> {"idle", "listed", "fetched", "walking", "writing"}]
    BY <1>6 DEF SpotInv, TypeOK, ReadInstruments
  <2> QED
    BY <1>5, <1>6, <2>1 DEF ReadInstruments
<1>7. ASSUME NEW r \in Runs, ReadAll(r) PROVE SpotInv'
  <2>1. pc' \in [Runs -> {"idle", "listed", "fetched", "walking", "writing"}]
    BY <1>7 DEF SpotInv, TypeOK, ReadAll
  <2> QED
    BY <1>5, <1>7, <2>1 DEF ReadAll
<1>8. ASSUME NEW r \in Runs, NEW k \in Keys, FetchQuote(r, k) PROVE SpotInv'
  <2>1. /\ DOMAIN snaps' = Runs /\ snaps'[r] = Restrict(price, {k})
        /\ \A q \in Runs \ {r} : snaps'[q] = snaps[q]
    BY <1>8 DEF SpotInv, FetchQuote
  <2>2. DOMAIN snaps'[r] \subseteq Keys /\ \A x \in DOMAIN snaps'[r] : snaps'[r][x] \in Nat
    BY <2>1 DEF Restrict, SpotInv, TypeOK
  <2>3. /\ pc' \in [Runs -> {"idle", "listed", "fetched", "walking", "writing"}]
        /\ UNCHANGED <<rows, price, spot, asked, targets, faults>>
    BY <1>8 DEF SpotInv, TypeOK, FetchQuote
  <2> QED
    BY <2>1, <2>2, <2>3, LocalStep DEF SpotInv, TypeOK, TargetsBelong
<1>9. ASSUME NEW r \in Runs, NEW k \in Keys, SkipQuote(r, k) PROVE SpotInv'
  <2>1. /\ DOMAIN targets' = Runs
        /\ targets'[r] = Restrict(targets[r], DOMAIN targets[r] \ {k})
        /\ \A q \in Runs \ {r} : targets'[q] = targets[q]
    BY <1>9 DEF SpotInv, SkipQuote
  <2>2. /\ DOMAIN targets'[r] \subseteq Keys
        /\ \A x \in DOMAIN targets'[r] :
              targets'[r][x] \in DOMAIN rows /\ rows[targets'[r][x]].key = x
    BY <2>1 DEF Restrict, SpotInv, TypeOK, TargetsBelong
  <2>3. UNCHANGED <<rows, price, spot, pc, asked, snaps>> /\ faults' \in 0..MaxFaults
    BY <1>9 DEF SpotInv, TypeOK, SkipQuote
  <2> QED
    BY <2>1, <2>2, <2>3, LocalStep DEF SpotInv, TypeOK
<1>10. ASSUME NEW r \in Runs, NEW k \in Keys, WriteSpot(r, k) PROVE SpotInv'
  BY <1>10, WriteKeepsInv
<1>11. ASSUME NEW r \in Runs, Finish(r) PROVE SpotInv'
  BY <1>11, EndRunKeepsInv DEF Finish, SpotInv, TypeOK
<1>12. ASSUME NEW r \in Runs, Abort(r) PROVE SpotInv'
  <2>1. faults' \in 0..MaxFaults
    BY <1>12 DEF Abort, SpotInv, TypeOK
  <2> QED
    BY <1>12, <2>1, EndRunKeepsInv DEF Abort
<1>13. CASE UNCHANGED spotVars
  BY <1>13 DEF SpotInv, TypeOK, TargetsBelong, PricesBelong, spotVars, runVars
<1> QED
  BY <1>1, <1>2, <1>3, <1>4, <1>6, <1>7, <1>8, <1>9, <1>10, <1>11, <1>12, <1>13
  DEF Next, RunStep

(***************************************************************************)
(* Types, and where prices and held row ids belong, for any number of      *)
(* runs, keys and versions.                                                *)
(***************************************************************************)
THEOREM SpotInvariant == Spec => []SpotInv
<1>1. QED
  BY SpotInitInv, SpotStepInv, PTL DEF Spec

(***************************************************************************)
(* update_spot never writes one instrument's price to another's row.       *)
(***************************************************************************)
THEOREM SpotPricesBelong == Spec => []PricesBelong
<1>1. SpotInv => PricesBelong
  BY DEF SpotInv
<1>2. QED
  BY <1>1, SpotInvariant, PTL

(***************************************************************************)
(* The runs and the spot table keep their types: what a run holds are ids  *)
(* of rows and prices the provider gave.                                   *)
(***************************************************************************)
COROLLARY SpotTypes == Spec => []TypeOK
<1>1. SpotInv => TypeOK
  BY DEF SpotInv
<1>2. QED
  BY <1>1, SpotInvariant, PTL
-----------------------------------------------------------------------------
(* News articles. *)

(***************************************************************************)
(* The row lock: an article is in one open transaction at a time.          *)
(***************************************************************************)
AloneAtArticle ==
    \A q, r \in Ingests :
        InTransaction(q) /\ InTransaction(r) /\ art[q] = art[r] => q = r

(***************************************************************************)
(* Up to its commit a transaction's read of the links stays what is stored,*)
(* and what it has looked up stays an instrument the record mentions.      *)
(***************************************************************************)
LinkedIsRead ==
    \A r \in Ingests :
        at[r] = "linked" =>
            /\ seen[r] = links[art[r]]
            /\ \A i \in found[r] : rows[i].attrs \in Record(r).mentions

NewsInv ==
    /\ NewsTypeOK /\ DOMAIN todo = Ingests
    /\ AloneAtArticle
    /\ LinkedIsRead
    /\ LinksMatchContent

LEMMA NewsInitInv == NewsInit => NewsInv
<1> SUFFICES ASSUME NewsInit PROVE NewsInv
  OBVIOUS
<1> USE NewsAssumption
<1>1. rows \in Seq(Row) /\ DOMAIN rows = {}
  BY DEF NewsInit, DimInit
<1>2. NewsTypeOK
  BY <1>1 DEF NewsInit, NewsTypeOK, NoArticles, InTransaction
<1>3. AloneAtArticle /\ LinkedIsRead /\ LinksMatchContent
  BY DEF NewsInit, NoArticles, InTransaction, AloneAtArticle, LinkedIsRead,
         LinksMatchContent
<1> QED
  BY <1>2, <1>3 DEF NewsInv, NewsInit

(***************************************************************************)
(* A run that ends, done or lost, gives its article back as it was.        *)
(***************************************************************************)
LEMMA NewsEndKeepsInv ==
    ASSUME NewsInv, NEW r \in Ingests, EndIngest(r),
           lost' \in 0..MaxLost
    PROVE  NewsInv'
<1>1. /\ DOMAIN todo' = Ingests /\ DOMAIN todo'[r] = {}
      /\ \A q \in Ingests \ {r} : todo'[q] = todo[q]
  BY DEF NewsInv, EndIngest, NoArticles
<1>2. /\ at' \in [Ingests -> {"idle", "loop", "stored", "linked"}]
      /\ found' \in [Ingests -> SUBSET DOMAIN rows] /\ seen' \in [Ingests -> SUBSET DOMAIN rows]
      /\ at'[r] = "idle"
      /\ \A q \in Ingests \ {r} :
            at'[q] = at[q] /\ found'[q] = found[q] /\ seen'[q] = seen[q]
  BY DEF NewsInv, NewsTypeOK, EndIngest
<1>3. UNCHANGED <<rows, feed, news, links, art>>
  BY DEF EndIngest, newsVars
<1>4. NewsTypeOK'
  BY <1>1, <1>2, <1>3 DEF NewsInv, NewsTypeOK, InTransaction
<1>5. AloneAtArticle'
  BY <1>2, <1>3 DEF NewsInv, AloneAtArticle, InTransaction
<1>6. LinkedIsRead'
  BY <1>1, <1>2, <1>3 DEF NewsInv, LinkedIsRead, Record
<1> QED
  BY <1>1, <1>3, <1>4, <1>5, <1>6 DEF NewsInv, LinksMatchContent

(***************************************************************************)
(* The commit writes the article's row and its links as one.  With no      *)
(* other transaction on the article, the difference to what was read makes *)
(* the links exactly those looked up.                                      *)
(***************************************************************************)
LEMMA CommitKeepsInv ==
    ASSUME NewsInv, NEW r \in Ingests, CommitArticle(r)
    PROVE  NewsInv'
<1> DEFINE a == art[r]
           record == Record(r)
           newLinks == LinksSet(r)
<1>1. /\ at[r] = "linked" /\ a \in Articles /\ a \in DOMAIN todo[r]
      /\ record \in Editions
  BY DEF NewsInv, NewsTypeOK, CommitArticle, InTransaction, Record
<1>2. /\ newLinks \subseteq DOMAIN rows
      /\ record.mentions # {} => \A i \in newLinks : rows[i].attrs \in record.mentions
  <2>1. seen[r] = links[a] /\ \A i \in found[r] : rows[i].attrs \in record.mentions
    BY <1>1 DEF NewsInv, LinkedIsRead
  <2>2. newLinks = IF record.mentions = {} THEN links[a] ELSE found[r]
    BY <2>1 DEF LinksSet
  <2>3. links[a] \subseteq DOMAIN rows /\ found[r] \subseteq DOMAIN rows
    BY <1>1 DEF NewsInv, NewsTypeOK
  <2>4. QED
    BY <2>1, <2>2, <2>3
<1>3. /\ UNCHANGED <<rows, feed, art, lost>>
      /\ DOMAIN news' = DOMAIN news \cup {a}
      /\ news'[a] = ArticleRow(record)
      /\ \A b \in DOMAIN news \ {a} : news'[b] = news[b]
  BY DEF CommitArticle, PutArticle
<1>4. /\ links' \in [Articles -> SUBSET DOMAIN rows]
      /\ links'[a] = newLinks
      /\ \A b \in Articles \ {a} : links'[b] = links[b]
  BY <1>1, <1>2 DEF NewsInv, NewsTypeOK, CommitArticle
<1>5. /\ at' \in [Ingests -> {"idle", "loop", "stored", "linked"}]
      /\ found' \in [Ingests -> SUBSET DOMAIN rows] /\ seen' \in [Ingests -> SUBSET DOMAIN rows]
      /\ at'[r] = "loop"
      /\ \A q \in Ingests \ {r} :
            at'[q] = at[q] /\ found'[q] = found[q] /\ seen'[q] = seen[q]
  BY DEF NewsInv, NewsTypeOK, CommitArticle
<1>6. /\ DOMAIN todo' = Ingests
      /\ DOMAIN todo'[r] \subseteq DOMAIN todo[r]
      /\ \A b \in DOMAIN todo'[r] : todo'[r][b] = todo[r][b]
      /\ \A q \in Ingests \ {r} : todo'[q] = todo[q]
  BY DEF NewsInv, CommitArticle, Restrict
<1> HIDE DEF a, record, newLinks
<1>7. /\ DOMAIN news' \subseteq Articles
      /\ \A b \in DOMAIN news' :
            news'[b] \in [edition: 0..MaxEdition, mentions: SUBSET Attrs, indexed: 0..MaxEdition]
  <2>1. ArticleRow(record) \in
            [edition: 0..MaxEdition, mentions: SUBSET Attrs, indexed: 0..MaxEdition]
    BY <1>1, NewsAssumption DEF ArticleRow, Editions
  <2>2. QED
    BY <1>1, <1>3, <2>1 DEF NewsInv, NewsTypeOK
<1>8. NewsTypeOK'
  <2>1. \A q \in Ingests :
            /\ DOMAIN todo'[q] \subseteq Articles
            /\ \A b \in DOMAIN todo'[q] : todo'[q][b] \in Editions
            /\ InTransaction(q)' => art'[q] \in DOMAIN todo'[q]
    BY <1>3, <1>5, <1>6 DEF NewsInv, NewsTypeOK, InTransaction
  <2>2. QED
    BY <1>3, <1>4, <1>5, <1>7, <2>1 DEF NewsInv, NewsTypeOK
<1>9. AloneAtArticle'
  BY <1>3, <1>5 DEF NewsInv, AloneAtArticle, InTransaction
<1>10. LinkedIsRead'
  <2> SUFFICES ASSUME NEW q \in Ingests, at'[q] = "linked"
               PROVE  /\ seen'[q] = links'[art'[q]]
                      /\ \A i \in found'[q] : rows'[i].attrs \in Record(q)'.mentions
    BY DEF LinkedIsRead
  <2>1. q # r /\ at[q] = "linked"
    BY <1>5
  <2>2. art[q] # a /\ art[q] \in Articles
    BY <1>1, <2>1 DEF NewsInv, NewsTypeOK, AloneAtArticle, InTransaction, a
  <2>3. /\ seen'[q] = seen[q] /\ found'[q] = found[q] /\ links'[art[q]] = links[art[q]]
        /\ Record(q)' = Record(q)
    BY <1>3, <1>4, <1>5, <1>6, <2>1, <2>2 DEF Record
  <2>4. QED
    BY <1>3, <2>1, <2>3 DEF NewsInv, LinkedIsRead
<1>11. LinksMatchContent'
  <2> SUFFICES ASSUME NEW b \in DOMAIN news', news'[b].mentions # {}, NEW i \in links'[b]
               PROVE  rows'[i].attrs \in news'[b].mentions
    BY DEF LinksMatchContent
  <2>1. CASE b = a
    BY <1>2, <1>3, <1>4, <2>1 DEF ArticleRow
  <2>2. CASE b # a
    BY <1>3, <1>4, <2>2 DEF NewsInv, NewsTypeOK, LinksMatchContent
  <2>3. QED
    BY <2>1, <2>2
<1> QED
  BY <1>6, <1>8, <1>9, <1>10, <1>11 DEF NewsInv

LEMMA NewsStepInv == NewsInv /\ [NewsNext]_vars => NewsInv'
<1> SUFFICES ASSUME NewsInv, [NewsNext]_vars PROVE NewsInv'
  OBVIOUS
<1> USE NewsAssumption
<1>1. ASSUME NEW r \in Ingests, FetchFeed(r) PROVE NewsInv'
  <2>1. /\ DOMAIN todo' = Ingests /\ todo'[r] = feed
        /\ \A q \in Ingests \ {r} : todo'[q] = todo[q]
    BY <1>1 DEF NewsInv, FetchFeed
  <2>2. /\ at' \in [Ingests -> {"idle", "loop", "stored", "linked"}]
        /\ at'[r] = "loop"
        /\ \A q \in Ingests \ {r} : at'[q] = at[q]
    BY <1>1 DEF NewsInv, NewsTypeOK, FetchFeed
  <2>3. UNCHANGED <<rows, feed, news, links, art, found, seen, lost>>
    BY <1>1 DEF FetchFeed, newsVars
  <2>4. NewsTypeOK'
    BY <2>1, <2>2, <2>3 DEF NewsInv, NewsTypeOK, InTransaction
  <2>5. AloneAtArticle'
    BY <2>2, <2>3 DEF NewsInv, AloneAtArticle, InTransaction
  <2>6. LinkedIsRead'
    BY <2>1, <2>2, <2>3 DEF NewsInv, LinkedIsRead, Record
  <2> QED
    BY <2>1, <2>3, <2>4, <2>5, <2>6 DEF NewsInv, LinksMatchContent
<1>2. ASSUME NEW r \in Ingests, NEW a \in Articles, StoreArticle(r, a) PROVE NewsInv'
  <2>1. /\ at' \in [Ingests -> {"idle", "loop", "stored", "linked"}]
        /\ art' \in [Ingests -> Articles]
        /\ at'[r] = "stored" /\ art'[r] = a
        /\ \A q \in Ingests \ {r} : at'[q] = at[q] /\ art'[q] = art[q]
    BY <1>2 DEF NewsInv, NewsTypeOK, StoreArticle
  <2>2. UNCHANGED <<rows, feed, news, links, todo, found, seen, lost>>
    BY <1>2 DEF StoreArticle, newsVars
  <2>3. /\ a \in DOMAIN todo[r]
        /\ \A q \in Ingests : InTransaction(q) => art[q] # a
    BY <1>2 DEF StoreArticle
  <2>4. NewsTypeOK'
    BY <2>1, <2>2, <2>3 DEF NewsInv, NewsTypeOK, InTransaction
  <2>5. AloneAtArticle'
    BY <2>1, <2>2, <2>3 DEF NewsInv, AloneAtArticle, InTransaction
  <2>6. LinkedIsRead'
    BY <2>1, <2>2 DEF NewsInv, LinkedIsRead, Record
  <2> QED
    BY <2>2, <2>4, <2>5, <2>6 DEF NewsInv, LinksMatchContent
<1>3. ASSUME NEW r \in Ingests, LookUpInstruments(r) PROVE NewsInv'
  <2> DEFINE hits == Mentioned(Record(r).mentions)
  <2>1. hits \subseteq DOMAIN rows /\ \A i \in hits : rows[i].attrs \in Record(r).mentions
    BY DEF Mentioned
  <2>2. /\ at' = [at EXCEPT ![r] = "linked"] /\ at[r] = "stored"
        /\ found' = [found EXCEPT ![r] = hits]
        /\ seen' = [seen EXCEPT ![r] = links[art[r]]]
        /\ UNCHANGED <<rows, feed, news, links, todo, art, lost>>
    BY <1>3 DEF LookUpInstruments, newsVars
  <2> HIDE DEF hits
  <2>3. /\ at' \in [Ingests -> {"idle", "loop", "stored", "linked"}]
        /\ found' \in [Ingests -> SUBSET DOMAIN rows]
        /\ seen' \in [Ingests -> SUBSET DOMAIN rows]
        /\ found'[r] = hits /\ seen'[r] = links[art[r]]
        /\ \A q \in Ingests \ {r} :
              at'[q] = at[q] /\ found'[q] = found[q] /\ seen'[q] = seen[q]
    BY <2>1, <2>2 DEF NewsInv, NewsTypeOK
  <2>4. \A q \in Ingests : InTransaction(q)' => InTransaction(q)
    BY <2>2, <2>3 DEF InTransaction
  <2>5. NewsTypeOK'
    BY <2>2, <2>3, <2>4 DEF NewsInv, NewsTypeOK
  <2>6. AloneAtArticle'
    BY <2>2, <2>4 DEF NewsInv, AloneAtArticle
  <2>7. LinkedIsRead'
    BY <2>1, <2>2, <2>3 DEF NewsInv, LinkedIsRead, Record
  <2> QED
    BY <2>2, <2>5, <2>6, <2>7 DEF NewsInv, LinksMatchContent
<1>4. ASSUME NEW r \in Ingests, CommitArticle(r) PROVE NewsInv'
  BY <1>4, CommitKeepsInv
<1>5. ASSUME NEW r \in Ingests, FinishIngest(r) PROVE NewsInv'
  BY <1>5, NewsEndKeepsInv DEF FinishIngest, NewsInv, NewsTypeOK
<1>6. ASSUME NEW r \in Ingests, LoseIngest(r) PROVE NewsInv'
  <2>1. lost' \in 0..MaxLost
    BY <1>6 DEF LoseIngest, NewsInv, NewsTypeOK
  <2> QED
    BY <1>6, <2>1, NewsEndKeepsInv DEF LoseIngest
<1>7. ASSUME UNCHANGED <<rows, news, links, at, todo, art, found, seen, lost>>,
             DOMAIN feed' \subseteq Articles,
             \A a \in DOMAIN feed' : feed'[a] \in Editions
      PROVE  NewsInv'
  <2>1. NewsTypeOK'
    BY <1>7 DEF NewsInv, NewsTypeOK, InTransaction
  <2>2. AloneAtArticle' /\ LinkedIsRead' /\ LinksMatchContent'
    BY <1>7 DEF NewsInv, AloneAtArticle, LinkedIsRead, LinksMatchContent,
                InTransaction, Record
  <2> QED
    BY <1>7, <2>1, <2>2 DEF NewsInv
<1>8. ASSUME NEW a \in Articles, Publish(a) PROVE NewsInv'
  <2>1. PICK mentions \in SUBSET Attrs : feed' = PutArticle(feed, a, Edition(0, mentions))
    BY <1>8 DEF Publish
  <2>2. Edition(0, mentions) \in Editions
    BY DEF Edition, Editions
  <2>3. /\ DOMAIN feed' \subseteq Articles
        /\ \A b \in DOMAIN feed' : feed'[b] \in Editions
    BY <2>1, <2>2 DEF NewsInv, NewsTypeOK, PutArticle
  <2> QED
    BY <1>7, <1>8, <2>3 DEF Publish, newsVars, ingestVars
<1>9. ASSUME NEW a \in Articles, Edit(a) PROVE NewsInv'
  <2>1. PICK mentions \in SUBSET Attrs :
            feed' = [feed EXCEPT ![a] = Edition(feed[a].edition + 1, mentions)]
    BY <1>9 DEF Edit
  <2>2. Edition(feed[a].edition + 1, mentions) \in Editions
    BY <1>9 DEF Edit, NewsInv, NewsTypeOK, Edition, Editions
  <2>3. /\ DOMAIN feed' \subseteq Articles
        /\ \A b \in DOMAIN feed' : feed'[b] \in Editions
    BY <2>1, <2>2 DEF NewsInv, NewsTypeOK
  <2> QED
    BY <1>7, <1>9, <2>3 DEF Edit, newsVars, ingestVars
<1>10. ASSUME NEW a \in Articles, Drop(a) PROVE NewsInv'
  <2>1. /\ DOMAIN feed' \subseteq Articles
        /\ \A b \in DOMAIN feed' : feed'[b] \in Editions
    BY <1>10 DEF Drop, Restrict, NewsInv, NewsTypeOK
  <2> QED
    BY <1>7, <1>10, <2>1 DEF Drop, newsVars, ingestVars
<1>11. CASE ChangeInstruments
  <2>1. UNCHANGED <<feed, news, links, at, todo, art, found, seen, lost>>
    BY <1>11 DEF ChangeInstruments, newsVars, ingestVars
  <2>2. rows' \in Seq(Row) /\ Retains(rows')
    BY <1>11, RowsStay DEF ChangeInstruments, NewsInv, NewsTypeOK
  <2>3. NewsTypeOK'
    BY <2>1, <2>2 DEF NewsInv, NewsTypeOK, Retains, InTransaction
  <2>4. AloneAtArticle'
    BY <2>1 DEF NewsInv, AloneAtArticle, InTransaction
  <2>5. LinkedIsRead'
    BY <2>1, <2>2 DEF NewsInv, NewsTypeOK, LinkedIsRead, Retains, Record
  <2>6. LinksMatchContent'
    BY <2>1, <2>2 DEF NewsInv, NewsTypeOK, LinksMatchContent, Retains
  <2> QED
    BY <2>1, <2>3, <2>4, <2>5, <2>6 DEF NewsInv
<1>12. CASE UNCHANGED vars
  BY <1>7, <1>12 DEF NewsInv, NewsTypeOK, vars, newsVars, ingestVars
<1> QED
  BY <1>1, <1>2, <1>3, <1>4, <1>5, <1>6, <1>8, <1>9, <1>10, <1>11, <1>12
  DEF NewsNext, IngestStep

(***************************************************************************)
(* Types, the row lock and the links, for any number of runs, articles,    *)
(* tickers and editions.                                                   *)
(***************************************************************************)
THEOREM NewsInvariant == NewsSpec => []NewsInv
<1>1. QED
  BY NewsInitInv, NewsStepInv, PTL DEF NewsSpec

(***************************************************************************)
(* Of overlapping runs of upsert_articles no two mix their links, and none *)
(* leaves the links of an earlier edition beside the content of a later    *)
(* one that mentions something.                                            *)
(***************************************************************************)
THEOREM NewsLinks == NewsSpec => []LinksMatchContent
<1>1. NewsInv => LinksMatchContent
  BY DEF NewsInv
<1>2. QED
  BY <1>1, NewsInvariant, PTL

(***************************************************************************)
(* The articles, their links and the runs keep their types: a link always  *)
(* names a row of the dimension, and an open transaction an article of the *)
(* run's own list.                                                         *)
(***************************************************************************)
COROLLARY NewsTypes == NewsSpec => []NewsTypeOK
<1>1. NewsInv => NewsTypeOK
  BY DEF NewsInv
<1>2. QED
  BY <1>1, NewsInvariant, PTL
=============================================================================
