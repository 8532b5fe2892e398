---------------------------- MODULE CandlePages ----------------------------
(***************************************************************************)
(* Reading candles through the API while they are being ingested: the      *)
(* client's get_candles asks for page after page of one symbol's candles,  *)
(* newest first, and follows the cursor of each answer                     *)
(* (TimeseriesCursorPagination on "-ts").  The API also takes an           *)
(* instrument id in the symbol's place, which get_candles never sends.     *)
(*                                                                         *)
(* A cursor says: candles strictly older than position, without the first  *)
(* offset of them (the framework cuts the offset off at 1000, more candles *)
(* of one ts than a walk meets here).  Rows with equal ts come in any      *)
(* order the database likes, another one in each query.  Candles are of    *)
(* one source and resolution, all inside the range the client asks for.  A *)
(* symbol names every version of its instrument, so it may have several    *)
(* candles of one ts: upsert_candles stores the last klines again under    *)
(* each new version.                                                       *)
(***************************************************************************)
EXTENDS Integers, FiniteSets

CONSTANTS
    Versions,   \* rows of the instrument dimension with the symbol
    MaxTs,      \* bound on candle times
    MaxCandles, \* bound on the size of the table
    PageSize

ASSUME PageAssumption == MaxTs \in Nat /\ MaxCandles \in Nat /\ PageSize \in Nat \ {0}

VARIABLES
    table,      \* the fact_price_candle table
    pc,         \* where the client is
    query,      \* the versions its filter selects
    start,      \* what the filter selected when the walk began
    cursor,
    got,        \* candles the walk has returned
    twice       \* those it has returned more than once

walkVars == <<pc, query, start, cursor, got, twice>>
vars == <<table, walkVars>>

Candle == [ts: 1..MaxTs, instrument: Versions]

(* By instrument id, by symbol, or without either: then there is nothing.  *)
Queries == {{v} : v \in Versions} \cup {Versions, {}}

Cursor == [position: 1..(MaxTs + 1), offset: Nat]

FirstPage == [position |-> MaxTs + 1, offset |-> 0]

Selected(q) == {c \in table : c.instrument \in q}

Init ==
    /\ table = {}
    /\ pc = "idle" /\ query = {} /\ start = {}
    /\ cursor = FirstPage
    /\ got = {} /\ twice = {}

-----------------------------------------------------------------------------
(* A batch is as good as its candles one by one; a candle that is there is *)
(* overwritten under its own key.  Nothing deletes one.                    *)
Insert(c) ==
    /\ c \notin table /\ Cardinality(table) < MaxCandles
    /\ table' = table \cup {c}
    /\ UNCHANGED walkVars

StartWalk(q) ==
    /\ pc = "idle"
    /\ pc' = "paging"
    /\ query' = q /\ start' = Selected(q)
    /\ cursor' = FirstPage /\ got' = {} /\ twice' = {}
    /\ UNCHANGED table

(* The newest n of S, however the database orders equal times.             *)
Newest(S, n) ==
    {T \in SUBSET S :
        /\ Cardinality(T) = n \/ (T = S /\ Cardinality(S) < n)
        /\ \A c \in T, d \in S \ T : d.ts <= c.ts}

(* Mutant: the filter on the position is not strict. *)
OlderInclusive == {c \in Selected(query) : c.ts <= cursor.position}

Older == {c \in Selected(query) : c.ts < cursor.position}

(* Mutant: the position is the first candle that did not fit. *)
FollowNext(page, next) == cursor' = [position |-> next.ts, offset |-> 0]

(* Mutant: the client asks for the same page again. *)
FollowNothing(page, next) == cursor' = cursor

(***************************************************************************)
(* The cursor for what comes after page, whose first candle is next: the   *)
(* last time on the page that differs from next's, and how many candles    *)
(* of next's time the page ends with.  A page of one time only, and that   *)
(* next's, leaves the position where it was.                               *)
(***************************************************************************)
Follow(page, next) ==
    LET differing == {c \in page : c.ts # next.ts}
    IN  \/ \E last \in differing :
              /\ \A c \in differing : last.ts <= c.ts
              /\ cursor' = [position |-> last.ts,
                            offset |-> Cardinality(page \ differing)]
        \/ /\ differing = {}
           /\ cursor' = [cursor EXCEPT !.offset = @ + PageSize]

GetPage ==
    /\ pc = "paging"
    /\ \E skipped \in Newest(Older, cursor.offset) :
       \E page \in Newest(Older \ skipped, PageSize) :
          LET rest == Older \ (skipped \cup page)
          IN  /\ got' = got \cup page
              /\ twice' = twice \cup (got \cap page)
              /\ \/ rest = {} /\ pc' = "done" /\ UNCHANGED cursor
                 \/ \E next \in rest :
                       /\ \A c \in rest : c.ts <= next.ts
                       /\ Follow(page, next)
                       /\ UNCHANGED pc
    /\ UNCHANGED <<table, query, start>>

(* Mutant: the list of results outlives the walk. *)
LeaveKeepsGot ==
    /\ pc' = "idle" /\ query' = {} /\ start' = {}
    /\ cursor' = FirstPage
    /\ UNCHANGED <<table, got, twice>>

(* The caller has what it asked for, or an error instead (throttling, a    *)
(* timeout: the client does not try again).                                *)
Leave ==
    /\ pc' = "idle" /\ query' = {} /\ start' = {}
    /\ cursor' = FirstPage /\ got' = {} /\ twice' = {}
    /\ UNCHANGED table

Return == pc = "done" /\ Leave

Raise == pc = "paging" /\ Leave

Next ==
    \/ \E c \in Candle : Insert(c)
    \/ \E q \in Queries : StartWalk(q)
    \/ GetPage
    \/ Return
    \/ Raise

Spec == Init /\ [][Next]_vars

(* The client goes on asking.                                              *)
FairSpec == Spec /\ WF_vars(GetPage)

-----------------------------------------------------------------------------
(***************************************************************************)
(* Type correctness; outside a walk nothing of one is left.                *)
(***************************************************************************)
TypeOK ==
    /\ table \subseteq Candle
    /\ pc \in {"idle", "paging", "done"}
    /\ query \in Queries
    /\ start \subseteq Selected(query) /\ got \subseteq Selected(query) /\ twice \subseteq got
    /\ cursor \in Cursor

(***************************************************************************)
(* A walk over one instrument returns no candle twice and, when it is      *)
(* done, has returned every candle that was there when it began, whatever  *)
(* is ingested in between and wherever in the range.                       *)
(***************************************************************************)
WalkIsExact ==
    \A v \in Versions : query = {v} =>
        /\ twice = {}
        /\ pc = "done" => start \subseteq got

(***************************************************************************)
(* A walk by symbol may repeat a candle, and miss one for another of the   *)
(* same time, but it leaves out no time at which there was a candle.       *)
(***************************************************************************)
NoTimeIsMissed ==
    pc = "done" => \A c \in start : \E d \in got : d.ts = c.ts

(***************************************************************************)
(* Every walk ends, although candles keep coming in.                       *)
(***************************************************************************)
WalkEnds == pc = "paging" ~> pc # "paging"
=============================================================================
