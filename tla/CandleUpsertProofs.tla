------------------------- MODULE CandleUpsertProofs -------------------------
(***************************************************************************)
(* Proofs about CandleUpsert: overlapping batches cannot deadlock.  The    *)
(* invariant says why: a transaction has locked only rows below those it   *)
(* has still to reach, so the row it holds against a waiting one is below  *)
(* the row it may itself wait for.  As the candles have a last one, waits  *)
(* cannot ascend without end either, and someone can always go on.         *)
(***************************************************************************)
EXTENDS CandleUpsert, WellFoundedInduction, TLAPS

(***************************************************************************)
(* What a transaction holds lies below what it has to do.                  *)
(***************************************************************************)
HeldBelowTodo ==
    \A r \in Runs :
        /\ pc[r] = "fetched" => todo[r] = DOMAIN batch[r]
        /\ \A h \in Holds(r), t \in todo[r] : h < t

CandleInv == TypeOK /\ DOMAIN todo = Runs /\ HeldBelowTodo

(***************************************************************************)
(* The records are functions on sets of open times.                        *)
(***************************************************************************)
LEMMA RecordFacts ==
    ASSUME NEW f
    PROVE  f \in Records <=> \E S \in SUBSET Times : f \in [S -> 0..MaxRevision]
BY DEF Records

LEMMA CandleInitInv == Init => CandleInv
<1> SUFFICES ASSUME Init PROVE CandleInv
  OBVIOUS
<1>1. None \in [{} -> 0..MaxRevision] /\ {} \in SUBSET Times
  BY DEF None
<1>2. None \in Records
  BY <1>1, RecordFacts
<1> QED
  BY <1>2, CandleAssumption DEF Init, CandleInv, TypeOK, HeldBelowTodo, Holds

(***************************************************************************)
(* The end of a run leaves nothing held.                                   *)
(***************************************************************************)
LEMMA EndRunKeepsInv ==
    ASSUME CandleInv, NEW r \in Runs, EndRun(r), table' \in Records,
           faults' \in 0..MaxFaults
    PROVE  CandleInv'
<1>1. None \in [{} -> 0..MaxRevision] /\ {} \in SUBSET Times
  BY DEF None
<1>2. None \in Records
  BY <1>1, RecordFacts
<1>3. /\ pc' \in [Runs -> {"idle", "fetched", "inserting"}]
      /\ batch' \in [Runs -> Records] /\ DOMAIN todo' = Runs /\ revision' \in Records
  BY <1>2 DEF CandleInv, TypeOK, EndRun
<1>4. pc'[r] = "idle" /\ todo'[r] = {}
  BY DEF CandleInv, TypeOK, EndRun
<1>5. ASSUME NEW q \in Runs, q # r
      PROVE  pc'[q] = pc[q] /\ batch'[q] = batch[q] /\ todo'[q] = todo[q]
  BY <1>5 DEF CandleInv, TypeOK, EndRun
<1>6. TypeOK'
  BY <1>3, <1>4, <1>5 DEF CandleInv, TypeOK
<1>7. HeldBelowTodo'
  BY <1>4, <1>5 DEF CandleInv, HeldBelowTodo, Holds
<1> QED
  BY <1>3, <1>6, <1>7 DEF CandleInv

LEMMA CandleStepInv == CandleInv /\ [Next]_vars => CandleInv'
<1> SUFFICES ASSUME CandleInv, [Next]_vars PROVE CandleInv'
  OBVIOUS
<1> USE CandleAssumption
<1>1. ASSUME NEW t \in Times, Opens(t) PROVE CandleInv'
  <2>1. PICK S \in SUBSET Times : revision \in [S -> 0..MaxRevision]
    BY RecordFacts DEF CandleInv, TypeOK
  <2>2. revision' \in [S \cup {t} -> 0..MaxRevision]
    BY <1>1, <2>1 DEF Opens
  <2>3. revision' \in Records
    BY <2>2, RecordFacts
  <2> QED
    BY <1>1, <2>3 DEF CandleInv, TypeOK, HeldBelowTodo, Holds, Opens, runVars
<1>2. ASSUME NEW t \in Times, Revises(t) PROVE CandleInv'
  <2>1. PICK S \in SUBSET Times : revision \in [S -> 0..MaxRevision]
    BY RecordFacts DEF CandleInv, TypeOK
  <2>2. revision' \in [S -> 0..MaxRevision]
    BY <1>2, <2>1 DEF Revises
  <2>3. revision' \in Records
    BY <2>2, RecordFacts
  <2> QED
    BY <1>2, <2>3 DEF CandleInv, TypeOK, HeldBelowTodo, Holds, Revises, runVars
<1>3. ASSUME NEW r \in Runs, Fetch(r) PROVE CandleInv'
  <2> DEFINE records == Restrict(revision, Latest)
  <2>1. PICK S \in SUBSET Times : revision \in [S -> 0..MaxRevision]
    BY RecordFacts DEF CandleInv, TypeOK
  <2>2. Latest \subseteq S
    BY <2>1 DEF Latest
  <2>3. records \in [Latest -> 0..MaxRevision] /\ DOMAIN records = Latest
    BY <2>1, <2>2 DEF Restrict
  <2>4. records \in Records
    BY <2>2, <2>3, RecordFacts
  <2> HIDE DEF records
  <2>5. /\ pc' = [pc EXCEPT ![r] = "fetched"] /\ batch' = [batch EXCEPT ![r] = records]
        /\ todo' = [todo EXCEPT ![r] = Latest] /\ UNCHANGED <<table, revision, faults>>
    BY <1>3 DEF Fetch, records
  <2>6. pc'[r] = "fetched" /\ batch'[r] = records /\ todo'[r] = Latest
    BY <2>5 DEF CandleInv, TypeOK
  <2>7. ASSUME NEW q \in Runs, q # r
        PROVE  pc'[q] = pc[q] /\ batch'[q] = batch[q] /\ todo'[q] = todo[q]
    BY <2>5, <2>7 DEF CandleInv, TypeOK
  <2>8. TypeOK' /\ DOMAIN todo' = Runs
    BY <2>3, <2>4, <2>5, <2>6, <2>7 DEF CandleInv, TypeOK
  <2>9. HeldBelowTodo'
    BY <2>3, <2>6, <2>7 DEF CandleInv, HeldBelowTodo, Holds
  <2> QED
    BY <2>8, <2>9 DEF CandleInv
<1>4. ASSUME NEW r \in Runs, BeginTransaction(r) PROVE CandleInv'
  <2>1. pc' = [pc EXCEPT ![r] = "inserting"] /\ pc[r] = "fetched"
        /\ UNCHANGED <<table, revision, batch, todo, faults>>
    BY <1>4 DEF BeginTransaction
  <2>2. todo[r] = DOMAIN batch[r]
    BY <2>1 DEF CandleInv, HeldBelowTodo
  <2>3. TypeOK' /\ DOMAIN todo' = Runs
    BY <2>1 DEF CandleInv, TypeOK
  <2>4. HeldBelowTodo'
    BY <2>1, <2>2 DEF CandleInv, TypeOK, HeldBelowTodo, Holds
  <2> QED
    BY <2>3, <2>4 DEF CandleInv
<1>5. ASSUME NEW r \in Runs, NEW t \in Times, UpsertRow(r, t) PROVE CandleInv'
  <2>1. /\ pc[r] = "inserting" /\ t \in todo[r] /\ \A s \in todo[r] : t <= s
        /\ todo' = [todo EXCEPT ![r] = @ \ {t}]
        /\ UNCHANGED <<table, revision, pc, batch, faults>>
    BY <1>5 DEF UpsertRow, NextRow
  <2>2. todo'[r] = todo[r] \ {t} /\ DOMAIN todo' = Runs
        /\ \A q \in Runs \ {r} : todo'[q] = todo[q]
    BY <2>1 DEF CandleInv
  <2>3. TypeOK'
    BY <2>1, <2>2 DEF CandleInv, TypeOK
  <2>4. todo[r] \subseteq Nat
    <3>1. PICK S \in SUBSET Times : batch[r] \in [S -> 0..MaxRevision]
      BY RecordFacts DEF CandleInv, TypeOK
    <3> QED
      BY <3>1 DEF CandleInv, TypeOK
  <2>5. \A s \in todo'[r] : t < s
    BY <2>1, <2>2, <2>4
  <2>6. \A h \in DOMAIN batch[r] \ todo'[r] : h = t \/ h \in Holds(r)
    BY <2>1, <2>2 DEF Holds
  <2>7. HeldBelowTodo'
    BY <2>1, <2>2, <2>5, <2>6 DEF CandleInv, HeldBelowTodo, Holds
  <2> QED
    BY <2>2, <2>3, <2>7 DEF CandleInv
<1>6. ASSUME NEW r \in Runs, Commit(r) PROVE CandleInv'
  <2>1. PICK S \in SUBSET Times : table \in [S -> 0..MaxRevision]
    BY RecordFacts DEF CandleInv, TypeOK
  <2>2. PICK R \in SUBSET Times : batch[r] \in [R -> 0..MaxRevision]
    BY RecordFacts DEF CandleInv, TypeOK
  <2>3. table' \in [S \cup R -> 0..MaxRevision]
    BY <1>6, <2>1, <2>2 DEF Commit, Upsert
  <2>4. table' \in Records
    BY <2>3, RecordFacts
  <2>5. EndRun(r) /\ faults' \in 0..MaxFaults
    BY <1>6 DEF Commit, CandleInv, TypeOK
  <2> QED
    BY <2>4, <2>5, EndRunKeepsInv
<1>7. ASSUME NEW r \in Runs, Abort(r) PROVE CandleInv'
  <2>1. EndRun(r) /\ table' \in Records /\ faults' \in 0..MaxFaults
    BY <1>7 DEF Abort, CandleInv, TypeOK
  <2> QED
    BY <2>1, EndRunKeepsInv
<1>8. CASE UNCHANGED vars
  BY <1>8 DEF CandleInv, TypeOK, HeldBelowTodo, Holds, vars, runVars
<1> QED
  BY <1>1, <1>2, <1>3, <1>4, <1>5, <1>6, <1>7, <1>8 DEF Next, RunStep

(***************************************************************************)
(* Types and the order of held and pending rows, for any number of         *)
(* transactions and candles.                                               *)
(***************************************************************************)
THEOREM CandleInvariant == Spec => []CandleInv
<1>1. QED
  BY CandleInitInv, CandleStepInv, PTL DEF Spec

(***************************************************************************)
(* upsert_candles cannot deadlock with itself, however many transactions   *)
(* overlap: what is waited for only grows along a chain of waits.          *)
(***************************************************************************)
THEOREM CandleWaitsAscend == Spec => []WaitsAscend
<1>1. CandleInv => WaitsAscend
  <2> SUFFICES ASSUME CandleInv, NEW r \in Runs, NEW q \in Runs, Blocked(r, q),
                      NEW s \in Times, NEW t \in Times, NextRow(r, s), NextRow(q, t)
               PROVE  s < t
    BY DEF WaitsAscend
  <2>1. PICK h \in Holds(q) : NextRow(r, h)
    BY DEF Blocked
  <2>2. h \in todo[r] /\ s \in todo[r] /\ h <= s /\ s <= h
    BY <2>1 DEF NextRow
  <2>3. todo[r] \subseteq Nat
    <3>1. PICK S \in SUBSET Times : batch[r] \in [S -> 0..MaxRevision]
      BY RecordFacts DEF CandleInv, TypeOK
    <3> QED
      BY <3>1, CandleAssumption DEF CandleInv, TypeOK
  <2>4. h < t
    BY DEF CandleInv, HeldBelowTodo, NextRow
  <2> QED
    BY <2>2, <2>3, <2>4
<1>2. QED
  BY <1>1, CandleInvariant, PTL

(***************************************************************************)
(* The transactions and the candle table keep their types.                 *)
(***************************************************************************)
COROLLARY CandleTypes == Spec => []TypeOK
<1>1. CandleInv => TypeOK
  BY DEF CandleInv
<1>2. QED
  BY <1>1, CandleInvariant, PTL
-----------------------------------------------------------------------------
(* No deadlock, as a statement about everyone at once.  Ascending waits    *)
(* end only where the rows do; they do, because the provider has opened    *)
(* only so many candles yet.                                               *)

(* The transaction is not held up: it can take its next row, or commit.    *)
GoesOn(r) ==
    \/ todo[r] = {}
    \/ \E t \in Times : NextRow(r, t) /\ \A q \in Runs \ {r} : t \notin Holds(q)

InTransaction(r) == pc[r] = "inserting"

(***************************************************************************)
(* Of the transactions that are open at any time, one can go on.           *)
(***************************************************************************)
SomeoneGoesOn ==
    (\E r \in Runs : InTransaction(r)) => \E r \in Runs : InTransaction(r) /\ GoesOn(r)

(* The candles so far, and with them all that is fetched, have a last one. *)
RowsAreBounded ==
    /\ \E last \in Nat : \A t \in DOMAIN revision : t <= last
    /\ \A r \in Runs : DOMAIN batch[r] \subseteq DOMAIN revision

(***************************************************************************)
(* A set of naturals has a least element, and a bounded one a greatest.    *)
(***************************************************************************)
LEMMA Least ==
    ASSUME NEW S \in SUBSET Nat, S # {}
    PROVE  \E m \in S : \A n \in S : m <= n
<1>1. PICK m \in S : \A n \in S : <<n, m>> \notin OpToRel(<, Nat)
  BY NatLessThanWellFounded, WFMin
<1>2. \A n \in S : ~(n < m)
  BY <1>1 DEF OpToRel
<1>3. QED
  BY <1>2

LEMMA Greatest ==
    ASSUME NEW S \in SUBSET Nat, S # {}, NEW last \in Nat, \A n \in S : n <= last
    PROVE  \E m \in S : \A n \in S : n <= m
<1> DEFINE Below == {last - n : n \in S}
<1>1. Below \in SUBSET Nat /\ Below # {}
  <2>1. \A n \in S : n \in Nat /\ last - n \in Nat /\ last - n \in Below
    OBVIOUS
  <2>2. QED
    BY <2>1
<1>2. PICK d \in Below : \A e \in Below : d <= e
  BY <1>1, Least
<1>3. PICK m \in S : d = last - m
  OBVIOUS
<1>4. ASSUME NEW n \in S PROVE n <= m
  <2>1. last - n \in Below
    OBVIOUS
  <2>2. last - m <= last - n
    BY <1>2, <1>3, <2>1
  <2>3. QED
    BY <2>2
<1>5. QED
  BY <1>4

LEMMA TodoIsNat ==
    ASSUME CandleInv, NEW r \in Runs
    PROVE  todo[r] \subseteq Times /\ todo[r] \subseteq Nat
<1>1. PICK S \in SUBSET Times : batch[r] \in [S -> 0..MaxRevision]
  BY RecordFacts DEF CandleInv, TypeOK
<1>2. QED
  BY <1>1, CandleAssumption DEF CandleInv, TypeOK

LEMMA RowsStayBounded == CandleInv /\ RowsAreBounded /\ [Next]_vars => RowsAreBounded'
<1> SUFFICES ASSUME CandleInv, RowsAreBounded, [Next]_vars PROVE RowsAreBounded'
  OBVIOUS
<1>1. ASSUME NEW t \in Times, Opens(t) PROVE RowsAreBounded'
  <2>1. PICK last \in Nat : \A s \in DOMAIN revision : s <= last
    BY DEF RowsAreBounded
  <2>2. DOMAIN revision' = DOMAIN revision \cup {t} /\ batch' = batch
    BY <1>1 DEF Opens, runVars
  <2>3. t \in Nat /\ DOMAIN revision \subseteq Nat
    <3>1. PICK S \in SUBSET Times : revision \in [S -> 0..MaxRevision]
      BY RecordFacts DEF CandleInv, TypeOK
    <3>2. QED
      BY <3>1, CandleAssumption
  <2>4. last + t \in Nat /\ \A s \in DOMAIN revision' : s <= last + t
    BY <2>1, <2>2, <2>3
  <2>5. QED
    BY <2>2, <2>4 DEF RowsAreBounded
<1>2. ASSUME NEW r \in Runs, Fetch(r) PROVE RowsAreBounded'
  <2>1. /\ revision' = revision /\ batch'[r] = Restrict(revision, Latest)
        /\ \A q \in Runs \ {r} : batch'[q] = batch[q]
    BY <1>2 DEF Fetch, CandleInv, TypeOK
  <2>2. DOMAIN batch'[r] \subseteq DOMAIN revision
    BY <2>1 DEF Restrict, Latest
  <2>3. QED
    BY <2>1, <2>2 DEF RowsAreBounded
<1>3. ASSUME NEW r \in Runs, EndRun(r) PROVE RowsAreBounded'
  <2>1. /\ revision' = revision /\ DOMAIN batch'[r] = {}
        /\ \A q \in Runs \ {r} : batch'[q] = batch[q]
    BY <1>3 DEF EndRun, None, CandleInv, TypeOK
  <2>2. QED
    BY <2>1 DEF RowsAreBounded
<1>4. ASSUME DOMAIN revision' = DOMAIN revision, batch' = batch PROVE RowsAreBounded'
  BY <1>4 DEF RowsAreBounded
<1>5. QED
  BY <1>1, <1>2, <1>3, <1>4
  DEF Next, RunStep, Revises, BeginTransaction, UpsertRow, Commit, Abort, vars, runVars

(***************************************************************************)
(* Overlapping calls of upsert_candles never all wait for one another:     *)
(* the one whose next row is the latest of all has it free.                *)
(***************************************************************************)
THEOREM TransactionsNeverAllWait == Spec => []SomeoneGoesOn
<1>1. CandleInv /\ WaitsAscend /\ RowsAreBounded => SomeoneGoesOn
  <2> SUFFICES ASSUME CandleInv, WaitsAscend, RowsAreBounded,
                      NEW first \in Runs, InTransaction(first),
                      \A r \in Runs : InTransaction(r) => ~GoesOn(r)
               PROVE  FALSE
    BY DEF SomeoneGoesOn
  <2> DEFINE Awaited == {t \in Times : \E r \in Runs : InTransaction(r) /\ NextRow(r, t)}
  <2>1. ASSUME NEW r \in Runs, InTransaction(r)
        PROVE  \E t \in Awaited : NextRow(r, t)
    <3>1. todo[r] # {}
      BY <2>1 DEF GoesOn
    <3>2. PICK t \in todo[r] : \A s \in todo[r] : t <= s
      BY <3>1, TodoIsNat, Least
    <3>3. t \in Times /\ NextRow(r, t)
      BY <3>2, TodoIsNat DEF NextRow
    <3>4. QED
      BY <2>1, <3>3
  <2>2. PICK last \in Nat : \A t \in Awaited : t <= last
    <3>1. PICK last \in Nat : \A t \in DOMAIN revision : t <= last
      BY DEF RowsAreBounded
    <3>2. \A r \in Runs : todo[r] \subseteq DOMAIN revision
      BY DEF RowsAreBounded, CandleInv, TypeOK
    <3>3. QED
      BY <3>1, <3>2 DEF NextRow
  <2>3. PICK m \in Awaited : \A t \in Awaited : t <= m
    <3>1. Awaited \in SUBSET Nat /\ Awaited # {}
      BY <2>1, CandleAssumption
    <3>2. QED
      BY <2>2, <3>1, Greatest
  <2>4. PICK r \in Runs : InTransaction(r) /\ NextRow(r, m)
    OBVIOUS
  <2>5. PICK q \in Runs \ {r} : m \in Holds(q)
    BY <2>4 DEF GoesOn
  <2>6. InTransaction(q) /\ Blocked(r, q)
    BY <2>4, <2>5 DEF Holds, Blocked, InTransaction
  <2>7. PICK t \in Awaited : NextRow(q, t)
    BY <2>1, <2>6
  <2>8. m < t /\ t <= m
    BY <2>3, <2>4, <2>6, <2>7 DEF WaitsAscend
  <2>9. QED
    BY <2>3, <2>7, <2>8, CandleAssumption
<1>2. Init => RowsAreBounded
  BY DEF Init, None, RowsAreBounded
<1>3. QED
  BY <1>1, <1>2, RowsStayBounded, CandleInvariant, CandleWaitsAscend, PTL DEF Spec
=============================================================================
