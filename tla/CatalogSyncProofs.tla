------------------------- MODULE CatalogSyncProofs -------------------------
(***************************************************************************)
(* Proofs about the instrument dimension and the runs that maintain it.    *)
(* First the atomic dimension: what its three writes do to the table row   *)
(* by row, and that DimSpec keeps one current row per key and versions     *)
(* that each end where the next one starts.  Then that the locked,         *)
(* interruptible transactions of CatalogSync implement it, so that every   *)
(* invariant of the dimension holds of the sync.                           *)
(***************************************************************************)
EXTENDS CatalogSync, TLAPS

(***************************************************************************)
(* The current row of a key is its newest row.  With NeverOrphaned this    *)
(* makes VersionsChain inductive.                                          *)
(***************************************************************************)
NewestIsCurrent ==
    \A i \in DOMAIN rows :
        rows[i].is_current =>
            \A j \in DOMAIN rows : rows[j].key = rows[i].key => j <= i

DimInv ==
    /\ rows \in Seq(Row)
    /\ NeverOrphaned
    /\ NewestIsCurrent
    /\ VersionsChain

-----------------------------------------------------------------------------
(* What the three writes do to the table, row by row.                      *)

(***************************************************************************)
(* An insert appends one current row and leaves the others alone.          *)
(***************************************************************************)
LEMMA CreateFacts ==
    ASSUME rows \in Seq(Row),
           NEW k \in Keys, NEW a \in Attrs, NEW m \in Metas, NEW t \in Nat,
           CreateVersion(k, a, m, t)
    PROVE  /\ rows' \in Seq(Row)
           /\ Len(rows') = Len(rows) + 1
           /\ \A i \in 1..Len(rows) : rows'[i] = rows[i]
           /\ rows'[Len(rows) + 1] = NewVersion(k, a, m, t)
<1>1. NewVersion(k, a, m, t) \in Row
  BY DEF NewVersion, Row
<1>2. QED
  BY <1>1 DEF CreateVersion

(***************************************************************************)
(* A metadata refresh changes the metadata of one row and nothing else.    *)
(***************************************************************************)
LEMMA RefreshFacts ==
    ASSUME rows \in Seq(Row), NEW c \in DOMAIN rows, NEW m \in Metas,
           RefreshMetadata(c, m)
    PROVE  /\ rows' \in Seq(Row)
           /\ Len(rows') = Len(rows)
           /\ \A i \in 1..Len(rows) :
                 /\ rows'[i].key = rows[i].key
                 /\ rows'[i].attrs = rows[i].attrs
                 /\ rows'[i].valid_from = rows[i].valid_from
                 /\ rows'[i].valid_to = rows[i].valid_to
                 /\ rows'[i].is_current = rows[i].is_current
                 /\ i # c => rows'[i] = rows[i]
<1>1. rows[c] \in Row /\ \A i \in 1..Len(rows) : rows[i] \in Row
  OBVIOUS
<1>2. [rows[c] EXCEPT !.meta = m] \in Row
  BY <1>1 DEF Row
<1>3. rows' = [rows EXCEPT ![c] = [rows[c] EXCEPT !.meta = m]]
  BY DEF RefreshMetadata
<1>4. rows' \in Seq(Row) /\ Len(rows') = Len(rows)
  BY <1>2, <1>3
<1>5. QED
  BY <1>1, <1>3, <1>4 DEF Row

(***************************************************************************)
(* A material change closes one row and appends its successor.             *)
(***************************************************************************)
LEMMA ReplaceFacts ==
    ASSUME rows \in Seq(Row), NEW c \in DOMAIN rows,
           NEW k \in Keys, NEW a \in Attrs, NEW m \in Metas, NEW t \in Nat,
           ReplaceVersion(c, k, a, m, t)
    PROVE  /\ rows' \in Seq(Row)
           /\ Len(rows') = Len(rows) + 1
           /\ \A i \in 1..Len(rows) :
                 /\ rows'[i].key = rows[i].key
                 /\ rows'[i].attrs = rows[i].attrs
                 /\ rows'[i].valid_from = rows[i].valid_from
                 /\ i # c => rows'[i] = rows[i]
           /\ rows'[c].valid_to = t /\ ~rows'[c].is_current
           /\ rows'[Len(rows) + 1] = NewVersion(k, a, m, t)
<1> DEFINE closed == [rows[c] EXCEPT !.valid_to = t, !.is_current = FALSE]
           base   == [rows EXCEPT ![c] = closed]
<1>1. \A i \in 1..Len(rows) : rows[i] \in Row
  OBVIOUS
<1>2. closed \in Row /\ NewVersion(k, a, m, t) \in Row
  <2>1. [rows[c] EXCEPT !.valid_to = t] \in Row
    BY <1>1 DEF Row
  <2>2. \A r \in Row : [r EXCEPT !.is_current = FALSE] \in Row
    BY DEF Row
  <2>3. closed = [[rows[c] EXCEPT !.valid_to = t] EXCEPT !.is_current = FALSE]
    BY <1>1 DEF Row
  <2>4. NewVersion(k, a, m, t) \in Row
    BY DEF Row, NewVersion
  <2>5. QED
    BY <2>1, <2>2, <2>3, <2>4
<1>3. /\ base \in Seq(Row) /\ Len(base) = Len(rows)
      /\ \A i \in 1..Len(rows) : base[i] = IF i = c THEN closed ELSE rows[i]
  <2> HIDE DEF closed
  <2> QED BY <1>2
<1>4. rows' = Append(base, NewVersion(k, a, m, t))
  BY DEF ReplaceVersion
<1>5. /\ rows' \in Seq(Row) /\ Len(rows') = Len(rows) + 1
      /\ \A i \in 1..Len(rows) : rows'[i] = base[i]
      /\ rows'[Len(rows) + 1] = NewVersion(k, a, m, t)
  <2> HIDE DEF base
  <2> QED BY <1>2, <1>3, <1>4
<1>6. /\ closed.key = rows[c].key /\ closed.attrs = rows[c].attrs
      /\ closed.valid_from = rows[c].valid_from
      /\ closed.valid_to = t /\ closed.is_current = FALSE
  BY <1>1 DEF Row
<1>7. QED
  <2> HIDE DEF closed, base
  <2> QED BY <1>3, <1>5, <1>6

-----------------------------------------------------------------------------
(* The atomic specification keeps its history in order.                    *)

(***************************************************************************)
(* An insert for a key without current row: no row of the key exists.      *)
(***************************************************************************)
LEMMA CreateKeepsDimInv ==
    ASSUME DimInv, NEW k \in Keys, NEW a \in Attrs, NEW m \in Metas, NEW t \in Nat,
           CurrentIds(k) = {}, CreateVersion(k, a, m, t)
    PROVE  DimInv'
<1> DEFINE n == Len(rows) + 1
<1>1. /\ rows' \in Seq(Row) /\ Len(rows') = n
      /\ \A i \in 1..Len(rows) : rows'[i] = rows[i]
      /\ rows'[n] = NewVersion(k, a, m, t)
  BY CreateFacts DEF DimInv
<1>2. DOMAIN rows = 1..Len(rows) /\ DOMAIN rows' = 1..n /\ Len(rows) \in Nat
  BY <1>1 DEF DimInv
<1>3. \A i \in DOMAIN rows : rows[i].key # k
  BY DEF DimInv, NeverOrphaned
<1>4. /\ rows'[n].key = k /\ rows'[n].attrs = a /\ rows'[n].valid_from = t
      /\ rows'[n].valid_to = Null /\ rows'[n].is_current = TRUE
  BY <1>1 DEF NewVersion
<1> HIDE DEF n
<1>5. \A i \in DOMAIN rows' : i = n \/ (i \in DOMAIN rows /\ i < n /\ rows'[i] = rows[i])
  BY <1>1, <1>2 DEF n
<1>6. NeverOrphaned'
  <2>1. n \in DOMAIN rows' /\ \A x \in DOMAIN rows : x \in DOMAIN rows' /\ rows'[x] = rows[x]
    BY <1>1, <1>2 DEF n
  <2>2. \A i \in DOMAIN rows : \E x \in DOMAIN rows :
            rows[x].key = rows[i].key /\ rows[x].is_current
    BY DEF DimInv, NeverOrphaned, CurrentIds
  <2>3. \A i \in DOMAIN rows' : \E x \in DOMAIN rows' :
            rows'[x].key = rows'[i].key /\ rows'[x].is_current
    BY <1>4, <1>5, <2>1, <2>2
  <2>4. QED
    BY <2>3 DEF NeverOrphaned, CurrentIds
<1>7. NewestIsCurrent'
  BY <1>2, <1>3, <1>4, <1>5 DEF DimInv, NewestIsCurrent
<1>8. ASSUME NEW i \in DOMAIN rows', NEW j \in DOMAIN rows', Follows(i, j)'
      PROVE  i \in DOMAIN rows /\ j \in DOMAIN rows /\ Follows(i, j)
  <2>1. i # n /\ j # n
    BY <1>2, <1>3, <1>4, <1>5, <1>8 DEF Follows
  <2>2. \A x \in DOMAIN rows : x \in DOMAIN rows' /\ rows'[x] = rows[x]
    BY <1>1, <1>2 DEF n
  <2>3. QED
    BY <1>5, <1>8, <2>1, <2>2 DEF Follows
<1>9. VersionsChain'
  <2>1. \A i \in DOMAIN rows' : rows'[i].is_current <=> rows'[i].valid_to = Null
    BY <1>4, <1>5 DEF DimInv, VersionsChain
  <2>2. ASSUME NEW i \in DOMAIN rows', NEW j \in DOMAIN rows', Follows(i, j)'
        PROVE  /\ ~rows'[i].is_current
               /\ rows'[i].valid_to = rows'[j].valid_from
               /\ rows'[i].attrs # rows'[j].attrs
    <3>1. i \in DOMAIN rows /\ j \in DOMAIN rows /\ Follows(i, j)
      BY <1>8, <2>2
    <3>2. rows'[i] = rows[i] /\ rows'[j] = rows[j]
      BY <1>1, <1>2, <3>1
    <3>3. QED
      BY <3>1, <3>2 DEF DimInv, VersionsChain
  <2>3. QED
    BY <2>1, <2>2 DEF VersionsChain
<1>10. QED
  BY <1>1, <1>6, <1>7, <1>9 DEF DimInv

(***************************************************************************)
(* A metadata refresh leaves every field the invariants look at.           *)
(***************************************************************************)
LEMMA RefreshKeepsDimInv ==
    ASSUME DimInv, NEW c \in DOMAIN rows, NEW m \in Metas, RefreshMetadata(c, m)
    PROVE  DimInv'
<1>1. /\ rows' \in Seq(Row)
      /\ DOMAIN rows' = DOMAIN rows
      /\ \A i \in DOMAIN rows :
            /\ rows'[i].key = rows[i].key
            /\ rows'[i].attrs = rows[i].attrs
            /\ rows'[i].valid_from = rows[i].valid_from
            /\ rows'[i].valid_to = rows[i].valid_to
            /\ rows'[i].is_current = rows[i].is_current
  BY RefreshFacts DEF DimInv
<1>2. NeverOrphaned'
  BY <1>1 DEF DimInv, NeverOrphaned, CurrentIds
<1>3. NewestIsCurrent'
  BY <1>1 DEF DimInv, NewestIsCurrent
<1>4. \A i, j \in DOMAIN rows' : Follows(i, j)' => Follows(i, j)
  BY <1>1 DEF Follows
<1>5. VersionsChain'
  BY <1>1, <1>4 DEF DimInv, VersionsChain
<1>6. QED
  BY <1>1, <1>2, <1>3, <1>5 DEF DimInv

(***************************************************************************)
(* A material change: the closed row was the newest of its key, so the new *)
(* row follows it and nothing else.                                        *)
(***************************************************************************)
LEMMA ReplaceKeepsDimInv ==
    ASSUME DimInv, NEW k \in Keys, NEW a \in Attrs, NEW m \in Metas, NEW t \in Nat,
           NEW c \in CurrentIds(k), rows[c].attrs # a, ReplaceVersion(c, k, a, m, t)
    PROVE  DimInv'
<1> DEFINE n == Len(rows) + 1
<1>1. c \in DOMAIN rows /\ rows[c].key = k /\ rows[c].is_current
  BY DEF CurrentIds
<1>2. /\ rows' \in Seq(Row) /\ Len(rows') = n
      /\ \A i \in 1..Len(rows) :
            /\ rows'[i].key = rows[i].key
            /\ rows'[i].attrs = rows[i].attrs
            /\ rows'[i].valid_from = rows[i].valid_from
            /\ i # c => rows'[i] = rows[i]
      /\ rows'[c].valid_to = t /\ ~rows'[c].is_current
      /\ rows'[n] = NewVersion(k, a, m, t)
  BY <1>1, ReplaceFacts DEF DimInv
<1>3. DOMAIN rows = 1..Len(rows) /\ DOMAIN rows' = 1..n /\ Len(rows) \in Nat
  BY <1>2 DEF DimInv
<1>4. /\ rows'[n].key = k /\ rows'[n].attrs = a /\ rows'[n].valid_from = t
      /\ rows'[n].valid_to = Null /\ rows'[n].is_current = TRUE
  BY <1>2 DEF NewVersion
<1>5. \A i \in DOMAIN rows : rows[i].key = k => i <= c
  BY <1>1 DEF DimInv, NewestIsCurrent
<1> HIDE DEF n
<1>6. \A i \in DOMAIN rows' : i = n \/ (i \in DOMAIN rows /\ i < n)
  BY <1>3 DEF n
<1>7. \A i \in DOMAIN rows : i \in DOMAIN rows' /\ i < n
  BY <1>3 DEF n
<1>8. n \in DOMAIN rows' /\ n \in Nat
  BY <1>3 DEF n
<1>9. NeverOrphaned'
  <2>1. ASSUME NEW i \in DOMAIN rows, rows[i].key # k
        PROVE  \E x \in DOMAIN rows' : rows'[x].key = rows'[i].key /\ rows'[x].is_current
    <3>1. PICK x \in DOMAIN rows : rows[x].key = rows[i].key /\ rows[x].is_current
      BY DEF DimInv, NeverOrphaned, CurrentIds
    <3>2. x # c /\ rows'[x] = rows[x]
      BY <1>1, <1>2, <1>3, <2>1, <3>1
    <3>3. QED
      BY <1>2, <1>3, <1>7, <3>1, <3>2
  <2>2. \A i \in DOMAIN rows' : \E x \in DOMAIN rows' :
            rows'[x].key = rows'[i].key /\ rows'[x].is_current
    BY <1>2, <1>3, <1>4, <1>6, <1>8, <2>1
  <2>3. QED
    BY <2>2 DEF NeverOrphaned, CurrentIds
<1>10. NewestIsCurrent'
  BY <1>1, <1>2, <1>3, <1>4, <1>5, <1>6 DEF DimInv, NewestIsCurrent
<1>11. ASSUME NEW i \in DOMAIN rows', NEW j \in DOMAIN rows', Follows(i, j)'
       PROVE  \/ i = c /\ j = n
              \/ /\ i \in DOMAIN rows /\ j \in DOMAIN rows /\ i # c
                 /\ Follows(i, j)
  <2>1. i # n
    BY <1>3, <1>6, <1>8, <1>11 DEF Follows
  <2>2. CASE j = n
    BY <1>1, <1>2, <1>3, <1>4, <1>5, <1>6, <1>7, <1>11, <2>1, <2>2 DEF Follows
  <2>3. CASE j # n
    <3>1. i \in DOMAIN rows /\ j \in DOMAIN rows
      BY <1>6, <2>1, <2>3
    <3>2. Follows(i, j)
      BY <1>2, <1>3, <1>7, <1>11, <3>1 DEF Follows
    <3>3. i # c
      BY <1>1, <1>3, <1>5, <3>1, <3>2 DEF Follows
    <3>4. QED
      BY <3>1, <3>2, <3>3
  <2>4. QED
    BY <2>2, <2>3
<1>12. VersionsChain'
  <2>1. \A i \in DOMAIN rows' : rows'[i].is_current <=> rows'[i].valid_to = Null
    BY <1>2, <1>3, <1>4, <1>6 DEF DimInv, VersionsChain, Null
  <2>2. ASSUME NEW i \in DOMAIN rows', NEW j \in DOMAIN rows', Follows(i, j)'
        PROVE  /\ ~rows'[i].is_current
               /\ rows'[i].valid_to = rows'[j].valid_from
               /\ rows'[i].attrs # rows'[j].attrs
    <3>1. CASE i = c /\ j = n
      BY <1>1, <1>2, <1>3, <1>4, <3>1
    <3>2. CASE i \in DOMAIN rows /\ j \in DOMAIN rows /\ i # c /\ Follows(i, j)
      BY <1>2, <1>3, <3>2 DEF DimInv, VersionsChain
    <3>3. QED
      BY <1>11, <2>2, <3>1, <3>2
  <2>3. QED
    BY <2>1, <2>2 DEF VersionsChain
<1>13. QED
  BY <1>2, <1>9, <1>10, <1>12 DEF DimInv

(***************************************************************************)
(* The invariant of the atomic specification.                              *)
(***************************************************************************)
THEOREM DimensionInvariant == DimSpec => []DimInv
<1>1. DimInit => DimInv
  BY DEF DimInit, DimInv, NeverOrphaned, NewestIsCurrent, VersionsChain
<1>2. DimInv /\ [DimNext]_rows => DimInv'
  <2> SUFFICES ASSUME DimInv, [DimNext]_rows PROVE DimInv'
    OBVIOUS
  <2>1. ASSUME NEW k \in Keys, NEW a \in Attrs, NEW m \in Metas,
               NEW t \in 0..MaxTime, Upsert(k, a, m, t)
        PROVE  DimInv'
    <3>1. t \in Nat
      BY TimeAssumption
    <3>2. CASE CurrentIds(k) = {} /\ CreateVersion(k, a, m, t)
      BY <3>1, <3>2, CreateKeepsDimInv
    <3>3. ASSUME NEW c \in CurrentIds(k), rows[c].attrs = a, RefreshMetadata(c, m)
          PROVE  DimInv'
      BY <3>3, RefreshKeepsDimInv DEF CurrentIds
    <3>4. ASSUME NEW c \in CurrentIds(k), rows[c].attrs # a,
                 ReplaceVersion(c, k, a, m, t)
          PROVE  DimInv'
      BY <3>1, <3>4, ReplaceKeepsDimInv
    <3>5. QED
      BY <2>1, <3>2, <3>3, <3>4 DEF Upsert
  <2>2. CASE UNCHANGED rows
    BY <2>2 DEF DimInv, NeverOrphaned, NewestIsCurrent, VersionsChain, Follows, CurrentIds
  <2>3. QED
    BY <2>1, <2>2 DEF DimNext
<1>3. QED
  BY <1>1, <1>2, PTL DEF DimSpec

(***************************************************************************)
(* The partial unique index never fires, for any number of keys, versions  *)
(* and upserts.                                                            *)
(***************************************************************************)
COROLLARY DimensionOneCurrent == DimSpec => []OneCurrent
<1>1. DimInv => OneCurrent
  <2> SUFFICES ASSUME DimInv, NEW i \in DOMAIN rows, NEW j \in DOMAIN rows,
                      rows[i].key = rows[j].key, rows[i].is_current, rows[j].is_current
               PROVE  i = j
    BY DEF OneCurrent
  <2>1. i <= j /\ j <= i
    BY DEF DimInv, NewestIsCurrent
  <2>2. i \in Nat /\ j \in Nat
    BY DEF DimInv
  <2>3. QED
    BY <2>1, <2>2
<1>2. QED
  BY <1>1, DimensionInvariant, PTL

-----------------------------------------------------------------------------
(* The sync.                                                               *)

(***************************************************************************)
(* The lock is held exactly by the run inside a transaction.               *)
(***************************************************************************)
LockIsExclusive == \A s \in Syncs : pc[s] \in {"locked", "read"} <=> lock = s

(***************************************************************************)
(* A transaction upserts a coin that the run's listing contains.           *)
(***************************************************************************)
TransactionIsListed ==
    \A s \in Syncs :
        /\ \A k \in todo[s] : resp[s][k] # Unlisted
        /\ pc[s] \in {"locked", "read"} => key[s] \in todo[s]

(* A run that has not stamped its listing has no coin to upsert yet.       *)
IdleIsClean == \A s \in Syncs : pc[s] \in {"idle", "fetched"} => todo[s] = {}

(* Every stamp is a time DimNext may use.                                  *)
TimesAreBounded == clock <= MaxTime /\ \A s \in Syncs : now[s] <= MaxTime

SyncInv ==
    /\ TypeOK
    /\ TimesAreBounded
    /\ LockIsExclusive
    /\ TransactionIsListed
    /\ IdleIsClean
    /\ ReadIsFresh

(***************************************************************************)
(* In the state it writes from, a run has a coin and a time the atomic     *)
(* specification accepts.                                                  *)
(***************************************************************************)
LEMMA WriteArguments ==
    ASSUME SyncInv, NEW s \in Syncs, pc[s] = "read"
    PROVE  /\ key[s] \in Keys /\ Seen(s).attrs \in Attrs /\ Seen(s).meta \in Metas
           /\ now[s] \in 0..MaxTime /\ now[s] \in Nat
           /\ cur[s] = 0 => CurrentIds(key[s]) = {}
           /\ cur[s] # 0 => cur[s] \in CurrentIds(key[s]) /\ cur[s] \in DOMAIN rows
<1>1. key[s] \in todo[s] /\ todo[s] \subseteq Keys
  BY DEF SyncInv, TransactionIsListed, TypeOK
<1>2. Seen(s) \in Coin
  BY <1>1 DEF SyncInv, TransactionIsListed, TypeOK, Seen
<1>3. now[s] \in 0..MaxTime /\ now[s] \in Nat
  BY TimeAssumption DEF SyncInv, TimesAreBounded, TypeOK
<1>4. QED
  BY <1>1, <1>2, <1>3 DEF SyncInv, ReadIsFresh, CurrentIds, Coin

(***************************************************************************)
(* Every write of a run is an atomic upsert of the dimension.              *)
(***************************************************************************)
LEMMA WriteIsUpsert ==
    ASSUME SyncInv, NEW s \in Syncs, Create(s) \/ Refresh(s) \/ Replace(s)
    PROVE  DimNext
<1> DEFINE k == key[s]
           a == Seen(s).attrs
           m == Seen(s).meta
           t == now[s]
<1>1. pc[s] = "read"
  BY DEF Create, Refresh, Replace
<1>2. k \in Keys /\ a \in Attrs /\ m \in Metas /\ t \in 0..MaxTime
  BY <1>1, WriteArguments
<1>3. ASSUME cur[s] # 0, rows[cur[s]].attrs = a, RefreshMetadata(cur[s], m)
      PROVE  Upsert(k, a, m, t)
  BY <1>1, <1>3, WriteArguments DEF Upsert
<1>4. ASSUME cur[s] # 0, rows[cur[s]].attrs # a, ReplaceVersion(cur[s], k, a, m, t)
      PROVE  Upsert(k, a, m, t)
  BY <1>1, <1>4, WriteArguments DEF Upsert
<1>5. Upsert(k, a, m, t)
  <2>1. CASE Create(s)
    BY <1>1, <2>1, WriteArguments DEF Create, Upsert
  <2>2. CASE Refresh(s)
    BY <1>3, <2>2 DEF Refresh
  <2>3. CASE Replace(s)
    BY <1>4, <2>3 DEF Replace
  <2>4. QED
    BY <2>1, <2>2, <2>3
<1>6. QED
  BY <1>2, <1>5 DEF DimNext

(***************************************************************************)
(* A write keeps the table well typed and is seen by no other transaction: *)
(* only the writer was inside one.                                         *)
(***************************************************************************)
LEMMA WriteKeepsSyncInv ==
    ASSUME SyncInv, NEW s \in Syncs, Create(s) \/ Refresh(s) \/ Replace(s)
    PROVE  SyncInv'
<1>1. pc[s] = "read" /\ Commit(s)
  BY DEF Create, Refresh, Replace
<1>2. rows' \in Seq(Row)
  <2>1. rows \in Seq(Row)
    BY DEF SyncInv, TypeOK
  <2>2. CASE Create(s)
    BY <1>1, <2>1, <2>2, WriteArguments, CreateFacts DEF Create
  <2>3. CASE Refresh(s)
    BY <1>1, <2>1, <2>3, WriteArguments, RefreshFacts DEF Refresh
  <2>4. CASE Replace(s)
    BY <1>1, <2>1, <2>4, WriteArguments, ReplaceFacts DEF Replace
  <2>5. QED
    BY <2>2, <2>3, <2>4
<1>3. TypeOK'
  BY <1>1, <1>2 DEF SyncInv, TypeOK, Commit, States
<1>4. TimesAreBounded'
  BY <1>1 DEF SyncInv, TimesAreBounded, Commit
<1>5. \A u \in Syncs \ {s} : pc[u] \notin {"locked", "read"}
  BY <1>1 DEF SyncInv, LockIsExclusive
<1>6. \A u \in Syncs : pc'[u] \notin {"locked", "read"}
  BY <1>1, <1>5 DEF SyncInv, TypeOK, Commit
<1>7. LockIsExclusive'
  BY <1>1, <1>6, SyncAssumption DEF LockIsExclusive, Commit
<1>8. TransactionIsListed'
  BY <1>1, <1>6 DEF SyncInv, TypeOK, TransactionIsListed, Commit
<1>9. ReadIsFresh'
  BY <1>6 DEF ReadIsFresh
<1>10. IdleIsClean'
  BY <1>1 DEF SyncInv, TypeOK, IdleIsClean, Commit
<1>11. QED
  BY <1>3, <1>4, <1>7, <1>8, <1>9, <1>10 DEF SyncInv

(***************************************************************************)
(* The run ends or dies: it holds nothing afterwards.                      *)
(***************************************************************************)
LEMMA EndKeepsSyncInv ==
    ASSUME SyncInv, NEW s \in Syncs, Finish(s) \/ Crash(s)
    PROVE  SyncInv'
<1>1. /\ EndRun(s)
      /\ crashes' \in Nat
      /\ lock' = IF lock = s THEN NoSync ELSE lock
  <2>1. CASE Finish(s)
    BY <2>1 DEF Finish, SyncInv, TypeOK, LockIsExclusive
  <2>2. CASE Crash(s)
    BY <2>2 DEF Crash, SyncInv, TypeOK
  <2>3. QED
    BY <2>1, <2>2
<1>2. TypeOK'
  BY <1>1 DEF SyncInv, TypeOK, EndRun, States, NoListing
<1>3. TimesAreBounded'
  BY <1>1, TimeAssumption DEF SyncInv, TypeOK, TimesAreBounded, EndRun
<1>4. LockIsExclusive'
  BY <1>1, SyncAssumption DEF SyncInv, TypeOK, LockIsExclusive, EndRun
<1>5. TransactionIsListed'
  BY <1>1 DEF SyncInv, TypeOK, TransactionIsListed, EndRun
<1>6. ReadIsFresh'
  BY <1>1 DEF SyncInv, TypeOK, ReadIsFresh, CurrentIds, EndRun
<1>7. IdleIsClean'
  BY <1>1 DEF SyncInv, TypeOK, IdleIsClean, EndRun
<1>8. QED
  BY <1>2, <1>3, <1>4, <1>5, <1>6, <1>7 DEF SyncInv

(***************************************************************************)
(* The invariant of the sync: one step per action.                         *)
(***************************************************************************)
THEOREM SyncInvariant == Spec => []SyncInv
<1>1. Init => SyncInv
  BY SyncAssumption, TimeAssumption
  DEF Init, SyncInv, TypeOK, TimesAreBounded, LockIsExclusive, IdleIsClean, TransactionIsListed,
      ReadIsFresh, States, NoListing
<1>2. SyncInv /\ [Next]_vars => SyncInv'
  <2> SUFFICES ASSUME SyncInv, [Next]_vars PROVE SyncInv'
    OBVIOUS
  <2>1. CASE Tick
    <3>1. TypeOK' /\ TimesAreBounded'
      BY <2>1, TimeAssumption DEF Tick, SyncInv, TypeOK, TimesAreBounded, runVars
    <3>2. LockIsExclusive' /\ IdleIsClean' /\ TransactionIsListed' /\ ReadIsFresh'
      BY <2>1 DEF Tick, SyncInv, LockIsExclusive, IdleIsClean, TransactionIsListed, ReadIsFresh,
                  CurrentIds, runVars
    <3>3. QED
      BY <3>1, <3>2 DEF SyncInv
  <2>2. CASE UpstreamChanges
    <3>1. TypeOK' /\ TimesAreBounded'
      BY <2>2 DEF UpstreamChanges, SyncInv, TypeOK, TimesAreBounded, runVars
    <3>2. LockIsExclusive' /\ IdleIsClean' /\ TransactionIsListed' /\ ReadIsFresh'
      BY <2>2 DEF UpstreamChanges, SyncInv, LockIsExclusive, IdleIsClean, TransactionIsListed,
                  ReadIsFresh, CurrentIds, runVars
    <3>3. QED
      BY <3>1, <3>2 DEF SyncInv
  <2>3. ASSUME NEW s \in Syncs, FetchListing(s) PROVE SyncInv'
    <3>1. TypeOK' /\ TimesAreBounded'
      BY <2>3 DEF FetchListing, SyncInv, TypeOK, TimesAreBounded, States
    <3>2. todo[s] = {}
      BY <2>3 DEF FetchListing, SyncInv, IdleIsClean
    <3>3. LockIsExclusive' /\ IdleIsClean' /\ TransactionIsListed' /\ ReadIsFresh'
      BY <2>3, <3>2 DEF FetchListing, SyncInv, TypeOK, LockIsExclusive, IdleIsClean,
                        TransactionIsListed, ReadIsFresh, CurrentIds
    <3>4. QED
      BY <3>1, <3>3 DEF SyncInv
  <2>4. ASSUME NEW s \in Syncs, Stamp(s) PROVE SyncInv'
    <3>1. TypeOK' /\ TimesAreBounded'
      BY <2>4 DEF Stamp, SyncInv, TypeOK, TimesAreBounded, States
    <3>2. LockIsExclusive' /\ IdleIsClean' /\ TransactionIsListed' /\ ReadIsFresh'
      BY <2>4 DEF Stamp, SyncInv, TypeOK, LockIsExclusive, IdleIsClean, TransactionIsListed,
                  ReadIsFresh, CurrentIds
    <3>3. QED
      BY <3>1, <3>2 DEF SyncInv
  <2>5. ASSUME NEW s \in Syncs, NEW k \in Keys, LockSource(s, k) PROVE SyncInv'
    <3>1. TypeOK' /\ TimesAreBounded'
      BY <2>5 DEF LockSource, SyncInv, TypeOK, TimesAreBounded, States
    <3>2. LockIsExclusive' /\ IdleIsClean' /\ TransactionIsListed'
      BY <2>5, SyncAssumption
      DEF LockSource, SyncInv, TypeOK, LockIsExclusive, IdleIsClean, TransactionIsListed
    <3>3. ReadIsFresh'
      BY <2>5 DEF LockSource, SyncInv, TypeOK, ReadIsFresh, CurrentIds
    <3>4. QED
      BY <3>1, <3>2, <3>3 DEF SyncInv
  <2>6. ASSUME NEW s \in Syncs, ReadCurrent(s) PROVE SyncInv'
    <3>1. \A k : CurrentIds(k)' = CurrentIds(k) /\ CurrentIds(k) \subseteq Nat \ {0}
      BY <2>6 DEF ReadCurrent, CurrentIds, SyncInv, TypeOK
    <3>2. TypeOK' /\ TimesAreBounded'
      <4>1. \E c \in Nat : cur' = [cur EXCEPT ![s] = c]
        BY <2>6, <3>1 DEF ReadCurrent
      <4>2. cur' \in [Syncs -> Nat]
        BY <4>1 DEF SyncInv, TypeOK
      <4>3. QED
        BY <2>6, <4>2 DEF ReadCurrent, SyncInv, TypeOK, TimesAreBounded, States
    <3>3. LockIsExclusive' /\ IdleIsClean' /\ TransactionIsListed'
      BY <2>6 DEF ReadCurrent, SyncInv, TypeOK, LockIsExclusive, IdleIsClean, TransactionIsListed
    <3>4. ReadIsFresh'
      BY <2>6, <3>1 DEF ReadCurrent, SyncInv, TypeOK, ReadIsFresh
    <3>5. QED
      BY <3>2, <3>3, <3>4 DEF SyncInv
  <2>7. ASSUME NEW s \in Syncs, Create(s) \/ Refresh(s) \/ Replace(s) PROVE SyncInv'
    BY <2>7, WriteKeepsSyncInv
  <2>8. ASSUME NEW s \in Syncs, Finish(s) \/ Crash(s) PROVE SyncInv'
    BY <2>8, EndKeepsSyncInv
  <2>9. CASE UNCHANGED vars
    BY <2>9 DEF vars, runVars, SyncInv, TypeOK, TimesAreBounded, LockIsExclusive, IdleIsClean,
                TransactionIsListed, ReadIsFresh, CurrentIds
  <2>10. QED
    BY <2>1, <2>2, <2>3, <2>4, <2>5, <2>6, <2>7, <2>8, <2>9 DEF Next, RunStep
<1>3. QED
  BY <1>1, <1>2, PTL DEF Spec

(***************************************************************************)
(* The locked, interruptible transactions implement the atomic upsert.     *)
(***************************************************************************)
THEOREM SyncImplementsDimension == Spec => DimSpec
<1>1. Init => DimInit
  BY DEF Init, DimInit
<1>2. SyncInv /\ [Next]_vars => [DimNext]_rows
  <2> SUFFICES ASSUME SyncInv, Next, rows' # rows PROVE DimNext
    BY DEF vars
  <2>1. PICK s \in Syncs : Create(s) \/ Refresh(s) \/ Replace(s)
    BY DEF Next, RunStep, Tick, UpstreamChanges, FetchListing, Stamp, LockSource,
           ReadCurrent, Finish, Crash, EndRun
  <2>2. QED
    BY <2>1, WriteIsUpsert
<1>3. QED
  BY <1>1, <1>2, SyncInvariant, PTL DEF Spec, DimSpec

(***************************************************************************)
(* What the sync therefore never does to the dimension, for any number of  *)
(* runs, coins, changes and crashes.                                       *)
(***************************************************************************)
THEOREM SyncSafety ==
    Spec => [](TypeOK /\ ReadIsFresh /\ OneCurrent /\ NeverOrphaned /\ VersionsChain)
<1>1. SyncInv => TypeOK /\ ReadIsFresh
  BY DEF SyncInv
<1>2. DimInv => NeverOrphaned /\ VersionsChain
  BY DEF DimInv
<1>3. QED
  BY <1>1, <1>2, SyncInvariant, SyncImplementsDimension, DimensionInvariant,
     DimensionOneCurrent, PTL

(***************************************************************************)
(* The sync never leaves a known coin without a current row, whichever of  *)
(* its transactions crash.                                                 *)
(***************************************************************************)
COROLLARY SyncNeverOrphans == Spec => []NeverOrphaned
<1>1. QED
  BY SyncSafety, PTL

(***************************************************************************)
(* Each version of a coin ends where the next one starts, whichever runs   *)
(* race.                                                                   *)
(***************************************************************************)
COROLLARY SyncChainsVersions == Spec => []VersionsChain
<1>1. QED
  BY SyncSafety, PTL

(***************************************************************************)
(* The sync keeps its types.                                               *)
(***************************************************************************)
COROLLARY SyncTypes == Spec => []TypeOK
<1>1. QED
  BY SyncSafety, PTL

(***************************************************************************)
(* No step of the sync rewrites history.                                   *)
(***************************************************************************)
THEOREM SyncKeepsHistory == Spec => HistoryIsImmutable
<1>1. DimInv /\ [DimNext]_rows => [KeepsHistory]_rows
  <2> SUFFICES ASSUME DimInv, NEW k \in Keys, NEW a \in Attrs, NEW m \in Metas,
                      NEW t \in 0..MaxTime, Upsert(k, a, m, t)
               PROVE  KeepsHistory
    BY DEF DimNext
  <2>1. rows \in Seq(Row) /\ t \in Nat /\ DOMAIN rows = 1..Len(rows) /\ Len(rows) \in Nat
    BY TimeAssumption DEF DimInv
  <2>2. CASE CreateVersion(k, a, m, t)
    BY <2>1, <2>2, CreateFacts DEF KeepsHistory
  <2>3. ASSUME NEW c \in CurrentIds(k), RefreshMetadata(c, m) PROVE KeepsHistory
    BY <2>1, <2>3, RefreshFacts DEF KeepsHistory, CurrentIds
  <2>4. ASSUME NEW c \in CurrentIds(k), ReplaceVersion(c, k, a, m, t) PROVE KeepsHistory
    BY <2>1, <2>4, ReplaceFacts DEF KeepsHistory, CurrentIds
  <2>5. QED
    BY <2>2, <2>3, <2>4 DEF Upsert
<1>2. QED
  BY <1>1, DimensionInvariant, SyncImplementsDimension, PTL DEF DimSpec, HistoryIsImmutable
=============================================================================
