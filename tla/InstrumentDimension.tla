------------------------ MODULE InstrumentDimension ------------------------
(***************************************************************************)
(* The instrument dimension (apps/instruments) as its callers see it: a    *)
(* table of version rows and one atomic operation, the SCD type 2 upsert.  *)
(* This is the promise of upsert_instrument_scd2; CatalogSync is the       *)
(* detailed specification that implements it with locks, reads and writes. *)
(*                                                                         *)
(* One source is modelled: the lock and the natural key are per source, so *)
(* sources do not interact.  Row ids are positions in the sequence rows.   *)
(***************************************************************************)
EXTENDS Integers, Sequences

CONSTANTS
    Keys,       \* external ids of the source
    Attrs,      \* values of the tracked tuple (symbol, name, class, quote)
    Metas,      \* values of the untracked metadata column
    MaxTime     \* bound on observation times

ASSUME TimeAssumption == MaxTime \in Nat

VARIABLE
    rows        \* the instruments_instrument table, in insertion order

Null == -1      \* SQL NULL in valid_to; observation times are naturals

Row == [key: Keys, attrs: Attrs, meta: Metas, valid_from: Nat,
        valid_to: Nat \cup {Null}, is_current: BOOLEAN]

(***************************************************************************)
(* The rows a query with is_current=True returns for a natural key.        *)
(***************************************************************************)
CurrentIds(k) == {i \in DOMAIN rows : rows[i].key = k /\ rows[i].is_current}

(* Mutant: the insert forgets its valid_from. *)
NewVersionUndated(k, a, m, t) ==
    [key |-> k, attrs |-> a, meta |-> m, valid_from |-> Null,
     valid_to |-> Null, is_current |-> TRUE]

NewVersion(k, a, m, t) ==
    [key |-> k, attrs |-> a, meta |-> m, valid_from |-> t,
     valid_to |-> Null, is_current |-> TRUE]

-----------------------------------------------------------------------------
(* The writes the upsert chooses from; c is the current row it has found.  *)

CreateVersion(k, a, m, t) ==
    rows' = Append(rows, NewVersion(k, a, m, t))

RefreshMetadata(c, m) ==
    rows' = [rows EXCEPT ![c].meta = m]

(* Mutant: the close commits, the insert does not. *)
ReplaceVersionCloseOnly(c, k, a, m, t) ==
    rows' = [rows EXCEPT ![c].valid_to = t, ![c].is_current = FALSE]

(* Mutant: the closed row keeps the time of its own opening. *)
ReplaceVersionStaleClose(c, k, a, m, t) ==
    rows' = Append([rows EXCEPT ![c].valid_to = rows[c].valid_from,
                                ![c].is_current = FALSE],
                   NewVersion(k, a, m, t))

(* Mutant: the change overwrites the row in place. *)
ReplaceVersionInPlace(c, k, a, m, t) ==
    rows' = [rows EXCEPT ![c].attrs = a, ![c].meta = m]

ReplaceVersion(c, k, a, m, t) ==
    rows' = Append([rows EXCEPT ![c].valid_to = t, ![c].is_current = FALSE],
                   NewVersion(k, a, m, t))

(***************************************************************************)
(* The three cases of the docstring, as one atomic step.                   *)
(***************************************************************************)
Upsert(k, a, m, t) ==
    \/ /\ CurrentIds(k) = {}
       /\ CreateVersion(k, a, m, t)
    \/ \E c \in CurrentIds(k) :
          \/ rows[c].attrs = a  /\ RefreshMetadata(c, m)
          \/ rows[c].attrs # a  /\ ReplaceVersion(c, k, a, m, t)

DimInit == rows = <<>>

DimNext == \E k \in Keys, a \in Attrs, m \in Metas, t \in 0..MaxTime : Upsert(k, a, m, t)

DimSpec == DimInit /\ [][DimNext]_rows

-----------------------------------------------------------------------------
(***************************************************************************)
(* At most one current row per natural key: the partial unique index       *)
(* uniq_current_instrument_per_source never has to reject an insert, so a  *)
(* catalog sync never dies of an IntegrityError.                           *)
(***************************************************************************)
OneCurrent ==
    \A i, j \in DOMAIN rows :
        rows[i].key = rows[j].key /\ rows[i].is_current /\ rows[j].is_current
            => i = j

(***************************************************************************)
(* A natural key that was ever seen never loses its current row: closing a *)
(* version and opening its successor cannot come apart, whatever crashes.  *)
(* The ingestion tasks look rows up with is_current=True and silently skip *)
(* an instrument that has none.                                            *)
(***************************************************************************)
NeverOrphaned == \A i \in DOMAIN rows : CurrentIds(rows[i].key) # {}

(***************************************************************************)
(* Version j of a key directly follows version i.                          *)
(***************************************************************************)
Follows(i, j) ==
    /\ i < j
    /\ rows[i].key = rows[j].key
    /\ \A n \in DOMAIN rows : rows[n].key = rows[i].key => n <= i \/ n >= j

(***************************************************************************)
(* The versions of a key hand over to one another: a version is closed     *)
(* exactly when a later one was written, its valid_to is that one's        *)
(* valid_from, and the two differ in a tracked attribute.  That valid_from *)
(* grows from version to version is not said and does not hold: syncs that *)
(* commit out of the order in which they stamped their listings leave      *)
(* intervals that end before they start and others that overlap.           *)
(***************************************************************************)
VersionsChain ==
    \A i \in DOMAIN rows :
        /\ rows[i].is_current <=> rows[i].valid_to = Null
        /\ \A j \in DOMAIN rows :
              Follows(i, j) => /\ ~rows[i].is_current
                               /\ rows[i].valid_to = rows[j].valid_from
                               /\ rows[i].attrs # rows[j].attrs

(***************************************************************************)
(* What a step may never do to history: delete a row, touch a closed row,  *)
(* or change what an open row says of the tracked attributes.              *)
(***************************************************************************)
KeepsHistory ==
    /\ Len(rows') >= Len(rows)
    /\ \A i \in DOMAIN rows :
          /\ ~rows[i].is_current => rows'[i] = rows[i]
          /\ rows'[i].key = rows[i].key
          /\ rows'[i].attrs = rows[i].attrs
          /\ rows'[i].valid_from = rows[i].valid_from

HistoryIsImmutable == [][KeepsHistory]_rows
=============================================================================
