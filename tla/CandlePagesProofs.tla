------------------------- MODULE CandlePagesProofs -------------------------
(***************************************************************************)
(* What a walk over the pages returns, for every number of versions,       *)
(* candles and rows on a page, and every interleaving with the ingestion.  *)
(*                                                                         *)
(* A cursor stands for the candles before it.  The invariant says which:   *)
(* those at its position or newer, and those of the older ones that have   *)
(* fewer newer ones beside them than the offset skips.  As candles only    *)
(* come in, a candle's rank only grows, so what the cursor skips later is  *)
(* never more of the old candles than what has been returned.              *)
(***************************************************************************)
EXTENDS CandlePages, FiniteSetTheorems, TLAPS

SeenTime(c) == \E d \in got : d.ts = c.ts

Newer(S, c) == {d \in S : d.ts > c.ts}

TimesPassed ==
    pc = "paging" =>
        \A c \in start :
            /\ c.ts >= cursor.position => SeenTime(c)
            /\ c.ts < cursor.position /\ Cardinality(Newer(Older, c)) < cursor.offset
                  => SeenTime(c)

ExactlyPassed ==
    \A v \in Versions : query = {v} /\ pc = "paging" =>
        /\ cursor.offset = 0
        /\ \A c \in got : c.ts >= cursor.position
        /\ \A c \in start : c.ts >= cursor.position => c \in got

PagesInv ==
    /\ TypeOK /\ IsFiniteSet(table)
    /\ TimesPassed /\ NoTimeIsMissed
    /\ ExactlyPassed /\ WalkIsExact

(* What SMT needs to know of candles and cursors.                          *)
LEMMA Fields ==
    ASSUME TypeOK
    PROVE  /\ \A c \in table : c.ts \in Int /\ c.ts < MaxTs + 1 /\ c.instrument \in Versions
           /\ \A c \in table, d \in table :
                 c.ts = d.ts /\ c.instrument = d.instrument => c = d
           /\ cursor.position \in Int /\ cursor.offset \in Nat
           /\ cursor.position >= 1 /\ cursor.position <= MaxTs + 1
           /\ Older \subseteq table /\ start \subseteq table /\ got \subseteq table
<1>1. table \subseteq Candle /\ cursor \in Cursor
  BY DEF TypeOK
<1>2. \A c \in Candle : c.ts \in Int /\ c.ts < MaxTs + 1 /\ c.instrument \in Versions
  BY PageAssumption DEF Candle
<1>3. \A c \in Candle, d \in Candle : c.ts = d.ts /\ c.instrument = d.instrument => c = d
  BY DEF Candle
<1>4. /\ cursor.position \in Int /\ cursor.offset \in Nat
      /\ cursor.position >= 1 /\ cursor.position <= MaxTs + 1
  BY <1>1, PageAssumption DEF Cursor
<1>5. Older \subseteq table /\ start \subseteq table /\ got \subseteq table
  BY DEF TypeOK, Older, Selected
<1> QED
  BY <1>1, <1>2, <1>3, <1>4, <1>5

LEMMA NewestFacts ==
    ASSUME NEW S, IsFiniteSet(S), NEW n \in Nat, NEW T \in Newest(S, n)
    PROVE  /\ T \subseteq S /\ IsFiniteSet(T) /\ Cardinality(T) \in Nat
           /\ T # S => Cardinality(T) = n
           /\ Cardinality(T) <= n
           /\ \A c \in T, d \in S \ T : d.ts <= c.ts
<1>1. T \subseteq S
  BY DEF Newest
<1>2. IsFiniteSet(T)
  BY <1>1, FS_Subset
<1>3. Cardinality(T) \in Nat
  BY <1>2, FS_CardinalityType
<1>4. Cardinality(T) = n \/ (T = S /\ Cardinality(S) < n)
  BY DEF Newest
<1>5. \A c \in T, d \in S \ T : d.ts <= c.ts
  BY DEF Newest
<1> QED
  BY <1>1, <1>2, <1>3, <1>4, <1>5

(* The candles newer than one of the newest n are fewer than n.            *)
LEMMA Rank ==
    ASSUME NEW S, IsFiniteSet(S), \A c \in S : c.ts \in Int,
           NEW n \in Nat, NEW T \in Newest(S, n), NEW c \in T
    PROVE  Cardinality(Newer(S, c)) < n
<1>1. /\ T \subseteq S /\ IsFiniteSet(T) /\ Cardinality(T) \in Nat
      /\ Cardinality(T) <= n
      /\ \A d \in S \ T : d.ts <= c.ts
  BY NewestFacts
<1>2. Newer(S, c) \subseteq T \ {c}
  BY <1>1 DEF Newer
<1>3. IsFiniteSet(T \ {c}) /\ Cardinality(T \ {c}) = Cardinality(T) - 1
  BY <1>1, FS_RemoveElement
<1>4. Cardinality(Newer(S, c)) <= Cardinality(T \ {c}) /\ IsFiniteSet(Newer(S, c))
  BY <1>2, <1>3, FS_Subset
<1>5. Cardinality(Newer(S, c)) \in Nat
  BY <1>4, FS_CardinalityType
<1> QED
  BY <1>1, <1>3, <1>4, <1>5

-----------------------------------------------------------------------------
(* Candles that come in only push the old ones back.                       *)
LEMMA InsertKeepsInv ==
    ASSUME PagesInv, NEW c \in Candle, Insert(c)
    PROVE  PagesInv'
<1>1. /\ table' = table \cup {c}
      /\ pc' = pc /\ query' = query /\ start' = start /\ cursor' = cursor
      /\ got' = got /\ twice' = twice
  BY DEF Insert, walkVars
<1>2. TypeOK'
  BY <1>1 DEF PagesInv, TypeOK, Selected
<1>3. IsFiniteSet(table)'
  BY <1>1, FS_AddElement DEF PagesInv
<1>4. TimesPassed'
  <2> SUFFICES ASSUME pc = "paging", NEW d \in start
               PROVE  /\ d.ts >= cursor.position => SeenTime(d)
                      /\ d.ts < cursor.position
                            /\ Cardinality(Newer(Older', d)) < cursor.offset
                            => SeenTime(d)
    BY <1>1 DEF TimesPassed, SeenTime, Newer
  <2>1. Newer(Older, d) \subseteq Newer(Older', d)
    BY <1>1 DEF Newer, Older, Selected
  <2>2. IsFiniteSet(Newer(Older', d))
    <3>1. Newer(Older', d) \subseteq table'
      BY <1>1 DEF Newer, Older, Selected
    <3> QED
      BY <1>3, <3>1, FS_Subset
  <2>3. /\ IsFiniteSet(Newer(Older, d))
        /\ Cardinality(Newer(Older, d)) <= Cardinality(Newer(Older', d))
    BY <2>1, <2>2, FS_Subset
  <2>4. Cardinality(Newer(Older, d)) \in Nat /\ Cardinality(Newer(Older', d)) \in Nat
    BY <2>2, <2>3, FS_CardinalityType
  <2>5. cursor.offset \in Nat
    BY Fields DEF PagesInv
  <2>6. /\ d.ts >= cursor.position => SeenTime(d)
        /\ d.ts < cursor.position /\ Cardinality(Newer(Older, d)) < cursor.offset
              => SeenTime(d)
    BY DEF PagesInv, TimesPassed
  <2> QED
    BY <2>3, <2>4, <2>5, <2>6
<1>5. NoTimeIsMissed' /\ ExactlyPassed' /\ WalkIsExact'
  BY <1>1 DEF PagesInv, NoTimeIsMissed, ExactlyPassed, WalkIsExact
<1> QED
  BY <1>2, <1>3, <1>4, <1>5 DEF PagesInv

LEMMA StartKeepsInv ==
    ASSUME PagesInv, NEW q \in Queries, StartWalk(q)
    PROVE  PagesInv'
<1>1. /\ table' = table /\ pc' = "paging" /\ query' = q /\ start' = Selected(q)
      /\ cursor' = FirstPage /\ got' = {} /\ twice' = {}
  BY DEF StartWalk
<1>2. TypeOK'
  BY <1>1, PageAssumption DEF PagesInv, TypeOK, Selected, Cursor, FirstPage
<1>3. \A c \in start' : c.ts \in Int /\ c.ts < MaxTs + 1
  BY <1>1, Fields DEF PagesInv, Selected
<1>4. cursor'.position = MaxTs + 1 /\ cursor'.offset = 0
  BY <1>1 DEF FirstPage
<1>5. TimesPassed'
  <2> SUFFICES ASSUME NEW d \in start'
               PROVE  /\ ~(d.ts >= cursor'.position)
                      /\ ~(Cardinality(Newer(Older', d)) < cursor'.offset)
    BY DEF TimesPassed
  <2>1. Newer(Older', d) \subseteq table
    BY <1>1 DEF Newer, Older, Selected
  <2>2. Cardinality(Newer(Older', d)) \in Nat
    BY <2>1, FS_Subset, FS_CardinalityType DEF PagesInv
  <2> QED
    BY <1>3, <1>4, <2>2, PageAssumption
<1>6. ExactlyPassed'
  <2>1. \A c \in start' : ~(c.ts >= cursor'.position)
    BY <1>3, <1>4, PageAssumption
  <2> QED
    BY <1>1, <1>4, <2>1 DEF ExactlyPassed
<1>7. NoTimeIsMissed' /\ WalkIsExact'
  BY <1>1 DEF NoTimeIsMissed, WalkIsExact
<1> QED
  BY <1>1, <1>2, <1>5, <1>6, <1>7 DEF PagesInv

LEMMA LeaveKeepsInv ==
    ASSUME PagesInv, Leave
    PROVE  PagesInv'
<1>1. /\ table' = table /\ pc' = "idle" /\ query' = {} /\ start' = {}
      /\ cursor' = FirstPage /\ got' = {} /\ twice' = {}
  BY DEF Leave
<1>2. TypeOK'
  BY <1>1, PageAssumption DEF PagesInv, TypeOK, Selected, Cursor, FirstPage, Queries
<1> QED
  BY <1>1, <1>2 DEF PagesInv, TimesPassed, NoTimeIsMissed, ExactlyPassed, WalkIsExact

-----------------------------------------------------------------------------
LEMMA PageKeepsInv ==
    ASSUME PagesInv, GetPage
    PROVE  PagesInv'
<1> DEFINE p == cursor.position
           k == cursor.offset
<1>0. pc = "paging" /\ table' = table /\ query' = query /\ start' = start
  BY DEF GetPage
<1>1a. PICK skipped \in Newest(Older, k) :
         \E page \in Newest(Older \ skipped, PageSize) :
         LET rest == Older \ (skipped \cup page)
         IN  /\ got' = got \cup page
             /\ twice' = twice \cup (got \cap page)
             /\ \/ rest = {} /\ pc' = "done" /\ UNCHANGED cursor
                \/ \E next \in rest :
                      /\ \A c \in rest : c.ts <= next.ts
                      /\ Follow(page, next)
                      /\ UNCHANGED pc
  BY DEF GetPage
<1>1. PICK page \in Newest(Older \ skipped, PageSize) :
         LET rest == Older \ (skipped \cup page)
         IN  /\ got' = got \cup page
             /\ twice' = twice \cup (got \cap page)
             /\ \/ rest = {} /\ pc' = "done" /\ UNCHANGED cursor
                \/ \E next \in rest :
                      /\ \A c \in rest : c.ts <= next.ts
                      /\ Follow(page, next)
                      /\ UNCHANGED pc
  BY <1>1a
<1> DEFINE rest == Older \ (skipped \cup page)
<1>2. /\ got' = got \cup page
      /\ twice' = twice \cup (got \cap page)
      /\ \/ rest = {} /\ pc' = "done" /\ UNCHANGED cursor
         \/ \E next \in rest :
               /\ \A c \in rest : c.ts <= next.ts
               /\ Follow(page, next)
               /\ UNCHANGED pc
  BY <1>1
<1>3. /\ \A c \in table : c.ts \in Int /\ c.instrument \in Versions
      /\ \A c \in table, d \in table : c.ts = d.ts /\ c.instrument = d.instrument => c = d
      /\ p \in Int /\ k \in Nat /\ p >= 1 /\ p <= MaxTs + 1
      /\ Older \subseteq table /\ start \subseteq table /\ got \subseteq table
  BY Fields DEF PagesInv
<1>4. IsFiniteSet(table) /\ IsFiniteSet(Older) /\ IsFiniteSet(Older \ skipped)
  <2>1. IsFiniteSet(Older)
    BY <1>3, FS_Subset DEF PagesInv
  <2> QED
    BY <2>1, FS_Subset DEF PagesInv
<1>5. PageSize \in Nat /\ PageSize >= 1
  BY PageAssumption
<1>6. /\ skipped \subseteq Older /\ IsFiniteSet(skipped) /\ Cardinality(skipped) \in Nat
      /\ skipped # Older => Cardinality(skipped) = k
      /\ Cardinality(skipped) <= k
      /\ \A c \in skipped, d \in Older \ skipped : d.ts <= c.ts
  BY <1>3, <1>4, NewestFacts
<1>7. /\ page \subseteq Older \ skipped /\ IsFiniteSet(page) /\ Cardinality(page) \in Nat
      /\ page # Older \ skipped => Cardinality(page) = PageSize
      /\ \A c \in page, d \in (Older \ skipped) \ page : d.ts <= c.ts
  BY <1>4, <1>5, NewestFacts
<1>8. \A c \in Older : c \in Selected(query) /\ c.ts < p
  BY DEF Older
<1>9. \A c \in start : c.ts < p => c \in Older
  BY DEF Older, PagesInv, TypeOK
(* Whatever the query skips had its time returned before. *)
<1>10. \A c \in start : c \in skipped => SeenTime(c)
  <2> SUFFICES ASSUME NEW c \in start, c \in skipped PROVE SeenTime(c)
    OBVIOUS
  <2>1. Cardinality(Newer(Older, c)) < k
    BY <1>3, <1>4, Rank
  <2>2. c.ts < p
    BY <1>6, <1>8
  <2> QED
    BY <1>0, <2>1, <2>2 DEF PagesInv, TimesPassed
<1>11. \A c \in start : c.ts >= p => SeenTime(c)
  BY <1>0 DEF PagesInv, TimesPassed
<1>12. \A c : SeenTime(c) \/ c \in page => SeenTime(c)'
  BY <1>2 DEF SeenTime
<1>13. \A c \in start : SeenTime(c)' \/ c \in rest
  BY <1>3, <1>9, <1>10, <1>11, <1>12
<1>14. \A v \in Versions : query = {v} =>
          /\ skipped = {}
          /\ twice' = {}
          /\ \A c \in start : c \in got' \/ c \in rest
          /\ \A c \in got : c.ts >= p
  <2> SUFFICES ASSUME NEW v \in Versions, query = {v}
               PROVE  /\ skipped = {}
                      /\ twice' = {}
                      /\ \A c \in start : c \in got' \/ c \in rest
                      /\ \A c \in got : c.ts >= p
    OBVIOUS
  <2>1. /\ k = 0 /\ twice = {}
        /\ \A c \in got : c.ts >= p
        /\ \A c \in start : c.ts >= p => c \in got
    BY <1>0 DEF PagesInv, ExactlyPassed, WalkIsExact
  <2>2. skipped = {}
    BY <1>6, <2>1, FS_EmptySet
  <2>3. got \cap page = {}
    BY <1>3, <1>7, <1>8, <2>1
  <2> QED
    BY <1>2, <1>3, <1>9, <2>1, <2>2, <2>3
<1>15. got' \subseteq Selected(query) /\ twice' \subseteq got'
  BY <1>2, <1>7, <1>8 DEF PagesInv, TypeOK
<1>16. CASE rest = {} /\ pc' = "done" /\ UNCHANGED cursor
  <2>1. TypeOK'
    BY <1>0, <1>15, <1>16 DEF PagesInv, TypeOK, Selected
  <2>2. NoTimeIsMissed'
    BY <1>0, <1>13, <1>16 DEF NoTimeIsMissed, SeenTime
  <2>3. WalkIsExact'
    BY <1>0, <1>14, <1>16 DEF WalkIsExact
  <2>4. TimesPassed' /\ ExactlyPassed'
    BY <1>16 DEF TimesPassed, ExactlyPassed
  <2> QED
    BY <1>0, <1>4, <2>1, <2>2, <2>3, <2>4 DEF PagesInv
<1>17. ASSUME NEW next \in rest, \A c \in rest : c.ts <= next.ts,
              Follow(page, next), UNCHANGED pc
       PROVE  PagesInv'
  <2> DEFINE differing == {c \in page : c.ts # next.ts}
  <2>1. Cardinality(skipped) = k /\ Cardinality(page) = PageSize /\ page # {}
    BY <1>5, <1>6, <1>7, <1>17, FS_EmptySet
  <2>2. /\ \A c \in page : c.ts >= next.ts
        /\ \A c \in skipped : c.ts >= next.ts
        /\ next \in table
    BY <1>3, <1>6, <1>7, <1>17
  <2>3. NoTimeIsMissed'
    BY <1>0, <1>17 DEF NoTimeIsMissed
  <2>4. WalkIsExact'
    BY <1>0, <1>14, <1>17 DEF WalkIsExact
  <2>5. IsFiniteSet(page \ differing)
    BY <1>7, FS_Subset
  <2>6. Older' = {c \in Selected(query) : c.ts < cursor'.position}
    BY <1>0 DEF Older, Selected
  <2>7. IsFiniteSet(Older')
    <3>1. Older' \subseteq table
      BY <2>6 DEF Selected
    <3> QED
      BY <1>4, <3>1, FS_Subset
  <2>8. \A c : IsFiniteSet(Newer(Older', c)) /\ Cardinality(Newer(Older', c)) \in Nat
    <3>1. \A c : Newer(Older', c) \subseteq Older'
      BY DEF Newer
    <3> QED
      BY <2>7, <3>1, FS_Subset, FS_CardinalityType
  <2>9. ASSUME NEW last \in differing, \A c \in differing : last.ts <= c.ts,
               cursor' = [position |-> last.ts, offset |-> Cardinality(page \ differing)]
        PROVE  PagesInv'
    <3>1. /\ cursor'.position = last.ts /\ cursor'.offset = Cardinality(page \ differing)
          /\ last \in page /\ last.ts > next.ts /\ last.ts \in Int
      BY <1>3, <1>7, <2>2, <2>9
    <3>2. cursor' \in Cursor
      <4>1. last \in Candle
        BY <1>3, <1>7 DEF PagesInv, TypeOK
      <4>2. last.ts \in 1..(MaxTs + 1)
        BY <4>1, PageAssumption DEF Candle
      <4>3. Cardinality(page \ differing) \in Nat
        BY <2>5, FS_CardinalityType
      <4> QED
        BY <2>9, <4>2, <4>3 DEF Cursor
    <3>3. TypeOK'
      BY <1>0, <1>15, <1>17, <3>2 DEF PagesInv, TypeOK, Selected
    <3>4. TimesPassed'
      <4> SUFFICES ASSUME NEW c \in start,
                          \/ c.ts >= last.ts
                          \/ /\ c.ts < last.ts
                             /\ Cardinality(Newer(Older', c)) < Cardinality(page \ differing)
                   PROVE  SeenTime(c)'
        BY <1>0, <3>1 DEF TimesPassed
      <4> SUFFICES ASSUME c \in rest PROVE SeenTime(c)'
        BY <1>13
      <4>1. c.ts <= next.ts /\ c.ts \in Int /\ next.ts \in Int
        BY <1>3, <1>17, <2>2
      <4>2. Cardinality(Newer(Older', c)) < Cardinality(page \ differing)
        BY <3>1, <4>1
      <4>3. CASE c.ts = next.ts
        <5>1. page \ differing # {}
          <6> SUFFICES ASSUME page \ differing = {} PROVE FALSE
            OBVIOUS
          <6>1. Cardinality(page \ differing) = 0
            BY FS_EmptySet
          <6> QED
            BY <2>8, <4>2, <6>1
        <5>2. PICK d \in page : d.ts = next.ts
          BY <5>1
        <5> QED
          BY <1>2, <4>3, <5>2 DEF SeenTime
      <4>4. CASE c.ts < next.ts
        <5>1. page \ differing \subseteq Newer(Older', c)
          BY <1>3, <1>7, <1>8, <2>2, <2>6, <3>1, <4>1, <4>4 DEF Newer
        <5>2. Cardinality(page \ differing) <= Cardinality(Newer(Older', c))
          BY <2>8, <5>1, FS_Subset
        <5>3. Cardinality(page \ differing) \in Nat
          BY <2>5, FS_CardinalityType
        <5> QED
          BY <2>8, <4>2, <5>2, <5>3
      <4> QED
        BY <4>1, <4>3, <4>4
    <3>5. ExactlyPassed'
      <4> SUFFICES ASSUME NEW v \in Versions, query = {v}
                   PROVE  /\ cursor'.offset = 0
                          /\ \A c \in got' : c.ts >= last.ts
                          /\ \A c \in start : c.ts >= last.ts => c \in got'
        BY <1>0, <3>1 DEF ExactlyPassed
      <4>1. differing = page
        <5> SUFFICES ASSUME NEW c \in page, c.ts = next.ts PROVE FALSE
          OBVIOUS
        <5>1. c.instrument = v /\ next.instrument = v
          BY <1>7, <1>8, <1>17 DEF Selected
        <5>2. c = next
          BY <1>3, <1>7, <2>2, <5>1
        <5> QED
          BY <1>17, <5>2
      <4>2. page \ differing = {}
        BY <4>1
      <4>3. cursor'.offset = 0
        BY <3>1, <4>2, FS_EmptySet
      <4>4. \A c \in got' : c.ts >= last.ts
        BY <1>2, <1>3, <1>7, <1>8, <1>14, <2>9, <3>1, <4>1
      <4>5. \A c \in rest : c.ts < last.ts
        BY <1>3, <1>17, <2>2, <3>1
      <4> QED
        BY <1>3, <1>14, <3>1, <4>3, <4>4, <4>5
    <3> QED
      BY <1>0, <1>4, <2>3, <2>4, <3>3, <3>4, <3>5 DEF PagesInv
  <2>10. ASSUME differing = {}, cursor' = [cursor EXCEPT !.offset = @ + PageSize]
         PROVE  PagesInv'
    <3>1. cursor' \in Cursor /\ cursor'.position = p /\ cursor'.offset = k + PageSize
      BY <1>3, <1>5, <2>10 DEF PagesInv, TypeOK, Cursor
    <3>2. TypeOK'
      BY <1>0, <1>15, <1>17, <3>1 DEF PagesInv, TypeOK, Selected
    <3>3. Older' = Older
      BY <2>6, <3>1 DEF Older
    <3>4. TimesPassed'
      <4> SUFFICES ASSUME NEW c \in start,
                          \/ c.ts >= p
                          \/ Cardinality(Newer(Older, c)) < k + PageSize
                   PROVE  SeenTime(c)'
        BY <1>0, <3>1, <3>3 DEF TimesPassed
      <4> SUFFICES ASSUME c \in rest PROVE SeenTime(c)'
        BY <1>13
      <4>1. c.ts <= next.ts /\ c.ts \in Int /\ next.ts \in Int /\ c.ts < p
        BY <1>3, <1>8, <1>17, <2>2
      <4>2. Cardinality(Newer(Older, c)) < k + PageSize
        BY <1>3, <4>1
      <4>3. CASE c.ts = next.ts
        <5>1. PICK d \in page : d.ts = next.ts
          BY <2>1, <2>10
        <5> QED
          BY <1>2, <4>3, <5>1 DEF SeenTime
      <4>4. CASE c.ts < next.ts
        <5>1. skipped \cup page \subseteq Newer(Older, c)
          BY <1>3, <1>6, <1>7, <2>2, <4>1, <4>4 DEF Newer
        <5>2. skipped \cap page = {}
          BY <1>7
        <5>3. Cardinality(skipped \cup page) = k + PageSize
          <6>1. Cardinality(skipped \cup page)
                   = Cardinality(skipped) + Cardinality(page) - Cardinality(skipped \cap page)
            BY <1>6, <1>7, FS_Union
          <6>2. Cardinality(skipped \cap page) = 0
            BY <5>2, FS_EmptySet
          <6> QED
            BY <1>3, <1>5, <2>1, <6>1, <6>2
        <5>4. Cardinality(skipped \cup page) <= Cardinality(Newer(Older, c))
          BY <2>8, <3>3, <5>1, FS_Subset
        <5> QED
          BY <1>3, <1>5, <2>8, <3>3, <4>2, <5>3, <5>4
      <4> QED
        BY <4>1, <4>3, <4>4
    <3>5. ExactlyPassed'
      <4> SUFFICES ASSUME NEW v \in Versions, query = {v} PROVE FALSE
        BY <1>0 DEF ExactlyPassed
      <4>1. PICK c \in page : c.ts = next.ts
        BY <2>1, <2>10
      <4>2. c.instrument = v /\ next.instrument = v
        BY <1>7, <1>8, <1>17 DEF Selected
      <4>3. c = next
        BY <1>3, <1>7, <2>2, <4>1, <4>2
      <4> QED
        BY <1>17, <4>3
    <3> QED
      BY <1>0, <1>4, <2>3, <2>4, <3>2, <3>4, <3>5 DEF PagesInv
  <2> QED
    BY <1>17, <2>9, <2>10 DEF Follow
<1> QED
  BY <1>2, <1>16, <1>17

-----------------------------------------------------------------------------
(***************************************************************************)
(* The invariant of the walk: what a cursor stands for has been returned.  *)
(***************************************************************************)
THEOREM PagesInvariant == Spec => []PagesInv
<1>1. Init => PagesInv
  BY PageAssumption, FS_EmptySet
  DEF Init, PagesInv, TypeOK, Queries, Cursor, FirstPage, Selected, TimesPassed,
      NoTimeIsMissed, ExactlyPassed, WalkIsExact
<1>2. PagesInv /\ [Next]_vars => PagesInv'
  <2> SUFFICES ASSUME PagesInv, [Next]_vars PROVE PagesInv'
    OBVIOUS
  <2>1. CASE UNCHANGED vars
    BY <2>1 DEF PagesInv, TypeOK, Selected, TimesPassed, NoTimeIsMissed, ExactlyPassed,
       WalkIsExact, SeenTime, Newer, Older, vars, walkVars
  <2>2. ASSUME NEW c \in Candle, Insert(c) PROVE PagesInv'
    BY <2>2, InsertKeepsInv
  <2>3. ASSUME NEW q \in Queries, StartWalk(q) PROVE PagesInv'
    BY <2>3, StartKeepsInv
  <2>4. CASE GetPage
    BY <2>4, PageKeepsInv
  <2>5. CASE Return \/ Raise
    BY <2>5, LeaveKeepsInv DEF Return, Raise
  <2> QED
    BY <2>1, <2>2, <2>3, <2>4, <2>5 DEF Next
<1> QED
  BY <1>1, <1>2, PTL DEF Spec

(***************************************************************************)
(* A walk over one instrument returns each candle once and skips none that *)
(* was there when it began, for any page size and any ingestion.           *)
(***************************************************************************)
THEOREM InstrumentWalksAreExact == Spec => []WalkIsExact
<1>1. PagesInv => WalkIsExact
  BY DEF PagesInv
<1> QED
  BY <1>1, PagesInvariant, PTL

(***************************************************************************)
(* A walk by symbol leaves out no time, however many candles share one and *)
(* in whichever order each query returns them.                             *)
(***************************************************************************)
THEOREM SymbolWalksMissNoTime == Spec => []NoTimeIsMissed
<1>1. PagesInv => NoTimeIsMissed
  BY DEF PagesInv
<1> QED
  BY <1>1, PagesInvariant, PTL

(***************************************************************************)
(* The walk keeps its types: what it returns is what its query selects.    *)
(***************************************************************************)
COROLLARY PageTypes == Spec => []TypeOK
<1>1. PagesInv => TypeOK
  BY DEF PagesInv
<1>2. QED
  BY <1>1, PagesInvariant, PTL
=============================================================================
