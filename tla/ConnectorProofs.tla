-------------------------- MODULE ConnectorProofs --------------------------
(***************************************************************************)
(* Proofs about one connector instance, for any number of callers, any     *)
(* threshold, cooldown, capacity and request cost; and, at the end, about  *)
(* the batch of any length that runs on one.                               *)
(***************************************************************************)
EXTENDS EquityBatch, FiniteSetTheorems, TLAPS

(***************************************************************************)
(* What the bucket would hold if it were refilled now, and what the window *)
(* has spent, never exceed a full bucket and the units of the window.      *)
(***************************************************************************)
LevelIsBounded == Refilled + windowSent * Cost <= Capacity + windowTime

(* The counter is at the threshold while the breaker is open. *)
OpenAtThreshold == isOpen <=> failures = Threshold

ConnectorInv == TypeOK /\ LevelIsBounded /\ OpenAtThreshold

(***************************************************************************)
(* What an answer does to the breaker, whatever the provider is like.      *)
(***************************************************************************)
Record == RecordSuccess \/ RecordFailure \/ RecordNothing

LEMMA AnswerKeepsTypes == ASSUME TypeOK, NEW c \in Callers, Answered(c), Record PROVE TypeOK'
<1> USE ConnectorAssumption
<1>1. isOpen' \in BOOLEAN /\ outage' \in BOOLEAN
  BY DEF Record, RecordSuccess, RecordFailure, RecordNothing, breakerVars, TypeOK
<1>2. failures' \in 0..Threshold /\ sinceOpened' \in 0..Cooldown /\ stragglers' \in Nat
  BY DEF Record, RecordSuccess, RecordFailure, RecordNothing, breakerVars, TypeOK, Lesser
<1>3. QED
  BY <1>1, <1>2 DEF Answered, TypeOK, bucketVars

LEMMA AnswerKeepsOpening == ASSUME TypeOK, OpenAtThreshold, Record PROVE OpenAtThreshold'
<1> USE ConnectorAssumption
<1>1. CASE RecordSuccess
  BY <1>1 DEF RecordSuccess, OpenAtThreshold
<1>2. CASE RecordFailure
  <2>1. failures + 1 >= Threshold <=> failures' = Threshold
    BY <1>2 DEF RecordFailure, TypeOK, Lesser
  <2>2. isOpen => failures + 1 >= Threshold
    BY DEF OpenAtThreshold, TypeOK
  <2>3. isOpen' <=> isOpen \/ failures + 1 >= Threshold
    BY <1>2 DEF RecordFailure
  <2>4. QED
    BY <2>1, <2>2, <2>3 DEF OpenAtThreshold
<1>3. CASE RecordNothing
  BY <1>3 DEF RecordNothing, OpenAtThreshold, breakerVars
<1>4. QED
  BY <1>1, <1>2, <1>3 DEF Record

(***************************************************************************)
(* Nothing the callers or the environment do leaves the types.             *)
(***************************************************************************)
LEMMA TypesAreKept == ASSUME TypeOK, [Next]_vars PROVE TypeOK'
<1> USE ConnectorAssumption
<1>1. CASE Tick
  <2>1. outage' \in BOOLEAN
    BY <1>1 DEF Tick, TypeOK
  <2>2. sinceOpened' \in 0..Cooldown /\ sinceTake' \in 0..Capacity
    BY <1>1 DEF Tick, TypeOK, Lesser
  <2>3. windowTime' \in 0..MaxWindow /\ windowSent' \in Nat /\ stragglers' \in Nat
    BY <1>1 DEF Tick, TypeOK
  <2>4. QED
    BY <1>1, <2>1, <2>2, <2>3 DEF Tick, TypeOK
<1>2. CASE StartWindow
  BY <1>2 DEF StartWindow, TypeOK, breakerVars, bucketVars
<1>3. CASE ProviderChanges
  BY <1>3 DEF ProviderChanges, TypeOK, breakerVars, bucketVars, windowVars
<1>4. ASSUME NEW c \in Callers, Admit(c) PROVE TypeOK'
  BY <1>4 DEF Admit, TypeOK, breakerVars, bucketVars, windowVars
<1>5. ASSUME NEW c \in Callers, Send(c) PROVE TypeOK'
  <2>1. Refilled \in 0..Capacity
    BY DEF TypeOK, Refilled, Lesser
  <2>2. tokens' \in 0..Capacity /\ sinceTake' \in 0..Capacity
    BY <1>5, <2>1 DEF Send
  <2>3. QED
    BY <1>5, <2>2 DEF Send, TypeOK, breakerVars
<1>6. ASSUME NEW c \in Callers, RejectRate(c) PROVE TypeOK'
  <2>1. Refilled \in 0..Capacity
    BY DEF TypeOK, Refilled, Lesser
  <2>2. QED
    BY <1>6, <2>1 DEF RejectRate, TypeOK, breakerVars, windowVars
<1>7. ASSUME NEW c \in Callers, AnswerOk(c) \/ AnswerFailure(c) \/ AnswerClientError(c) PROVE TypeOK'
  BY <1>7, AnswerKeepsTypes DEF AnswerOk, AnswerFailure, AnswerClientError, Record
<1>8. CASE UNCHANGED vars
  BY <1>8 DEF vars, breakerVars, bucketVars, windowVars, TypeOK
<1>9. QED
  BY <1>1, <1>2, <1>3, <1>4, <1>5, <1>6, <1>7, <1>8
  DEF Next, CallerStep, GetStep, RejectOpen

(***************************************************************************)
(* A tick adds one unit to the level and one to the window, a request      *)
(* moves its cost from the level to the window, and a rejected call only   *)
(* settles the refill.                                                     *)
(***************************************************************************)
LEMMA OneMore ==
    ASSUME NEW n \in Nat, NEW m \in Nat PROVE (n + 1) * m = n * m + m /\ n * m \in Nat
OBVIOUS

LEMMA LevelIsKept == ASSUME TypeOK, LevelIsBounded, [Next]_vars PROVE LevelIsBounded'
<1> DEFINE spent == windowSent * Cost
<1>0. /\ Refilled \in 0..Capacity /\ Cost \in Nat \ {0} /\ Capacity \in Nat /\ MaxWindow \in Nat
      /\ tokens \in 0..Capacity /\ sinceTake \in 0..Capacity /\ windowTime \in 0..MaxWindow
      /\ windowSent \in Nat
  BY ConnectorAssumption DEF TypeOK, Refilled, Lesser
<1>s. spent \in Nat /\ (windowSent' = windowSent + 1 => spent' = spent + Cost)
      /\ (windowSent' = windowSent => spent' = spent) /\ (windowSent' = 0 => spent' = 0)
  BY <1>0, OneMore
<1>l. Refilled + spent <= Capacity + windowTime
  BY DEF LevelIsBounded
<1>g. ASSUME Refilled' + spent' <= Capacity + windowTime' PROVE LevelIsBounded'
  BY <1>g DEF LevelIsBounded
<1> HIDE DEF spent
<1>1. CASE Tick
  <2>1. Refilled' <= Refilled + 1 /\ Refilled' \in 0..Capacity
    BY <1>0, <1>1 DEF Tick, Refilled, Lesser
  <2>2. \/ windowTime' = windowTime + 1 /\ windowSent' = windowSent
        \/ windowTime' = 0 /\ windowSent' = 0
    BY <1>1 DEF Tick
  <2>3. QED
    BY <1>0, <1>s, <1>l, <1>g, <2>1, <2>2
<1>2. CASE StartWindow
  <2>1. Refilled' = Refilled /\ windowTime' = 0 /\ windowSent' = 0
    BY <1>2 DEF StartWindow, Refilled, bucketVars
  <2>2. QED
    BY <1>0, <1>s, <1>g, <2>1
<1>3. ASSUME NEW c \in Callers, Send(c) PROVE LevelIsBounded'
  <2>1. Refilled' = Refilled - Cost /\ windowSent' = windowSent + 1 /\ windowTime' = windowTime
    BY <1>0, <1>3 DEF Send, Refilled, Lesser
  <2>2. QED
    BY <1>0, <1>s, <1>l, <1>g, <2>1
<1>4. ASSUME NEW c \in Callers, RejectRate(c) PROVE LevelIsBounded'
  <2>1. Refilled' = Refilled /\ windowSent' = windowSent /\ windowTime' = windowTime
    BY <1>0, <1>4 DEF RejectRate, Refilled, Lesser, windowVars
  <2>2. QED
    BY <1>s, <1>l, <1>g, <2>1
<1>5. CASE UNCHANGED <<bucketVars, windowTime, windowSent>>
  <2>1. Refilled' = Refilled /\ windowSent' = windowSent /\ windowTime' = windowTime
    BY <1>5 DEF bucketVars, Refilled
  <2>2. QED
    BY <1>s, <1>l, <1>g, <2>1
<1>6. QED
  BY <1>1, <1>2, <1>3, <1>4, <1>5
  DEF Next, CallerStep, GetStep, Admit, AnswerOk, AnswerFailure, AnswerClientError,
      Answered, RejectOpen, ProviderChanges, vars, windowVars

(***************************************************************************)
(* Only the two record operations touch the counter, and they keep it in   *)
(* step with the breaker.                                                  *)
(***************************************************************************)
LEMMA OpeningIsKept == ASSUME TypeOK, OpenAtThreshold, [Next]_vars PROVE OpenAtThreshold'
<1>1. ASSUME NEW c \in Callers, AnswerOk(c) \/ AnswerFailure(c) \/ AnswerClientError(c)
      PROVE  OpenAtThreshold'
  BY <1>1, AnswerKeepsOpening DEF AnswerOk, AnswerFailure, AnswerClientError, Record
<1>2. CASE UNCHANGED <<failures, isOpen>>
  BY <1>2 DEF OpenAtThreshold
<1>3. QED
  BY <1>1, <1>2
  DEF Next, Tick, StartWindow, ProviderChanges, CallerStep, GetStep, Admit, Send,
      RejectRate, RejectOpen, vars, breakerVars

LEMMA InitIsSound == ASSUME Init PROVE TypeOK /\ LevelIsBounded /\ OpenAtThreshold
<1>1. TypeOK
  <2>1. /\ failures \in 0..Threshold /\ sinceOpened \in 0..Cooldown
        /\ tokens \in 0..Capacity /\ sinceTake \in 0..Capacity
        /\ windowTime \in 0..MaxWindow /\ windowSent \in Nat /\ stragglers \in Nat
    BY ConnectorAssumption DEF Init
  <2>2. isOpen \in BOOLEAN /\ outage \in BOOLEAN /\ provider \in Answers
    BY DEF Init
  <2>3. pc \in [Callers -> {"idle", "admitted", "sent"}]
    BY DEF Init
  <2>4. QED
    BY <2>1, <2>2, <2>3 DEF TypeOK
<1>2. LevelIsBounded
  <2>1. windowSent * Cost = 0
    BY ConnectorAssumption DEF Init
  <2>2. Refilled = Capacity
    BY ConnectorAssumption DEF Init, Refilled, Lesser
  <2>3. QED
    BY <2>1, <2>2, ConnectorAssumption DEF Init, LevelIsBounded
<1>3. OpenAtThreshold
  <2>1. failures # Threshold
    BY ConnectorAssumption DEF Init
  <2>2. QED
    BY <2>1 DEF Init, OpenAtThreshold
<1>4. QED
  BY <1>1, <1>2, <1>3

(***************************************************************************)
(* The inductive invariant of an instance.                                 *)
(***************************************************************************)
THEOREM ConnectorInvariant == Spec => []ConnectorInv
<1>1. Init => ConnectorInv
  BY InitIsSound DEF ConnectorInv
<1>2. ConnectorInv /\ [Next]_vars => ConnectorInv'
  BY TypesAreKept, LevelIsKept, OpeningIsKept DEF ConnectorInv
<1>3. QED
  BY <1>1, <1>2, PTL DEF Spec

(***************************************************************************)
(* The rate limit holds of every observation window.                       *)
(***************************************************************************)
THEOREM ConnectorRate == Spec => []RateIsBounded
<1>1. ConnectorInv => RateIsBounded
  <2> SUFFICES ASSUME ConnectorInv PROVE RateIsBounded
    OBVIOUS
  <2> DEFINE spent == windowSent * Cost
  <2>1. spent \in Nat /\ Refilled \in 0..Capacity /\ windowTime \in Nat
    BY ConnectorAssumption, OneMore DEF ConnectorInv, TypeOK, Refilled, Lesser
  <2>2. Refilled + spent <= Capacity + windowTime
    BY DEF ConnectorInv, LevelIsBounded
  <2> HIDE DEF spent
  <2>3. spent <= Capacity + windowTime
    BY <2>1, <2>2, ConnectorAssumption
  <2>4. QED
    BY <2>3 DEF spent, RateIsBounded
<1>2. QED
  BY <1>1, ConnectorInvariant, PTL

(***************************************************************************)
(* An instance keeps its types; its bucket stays between empty and full.   *)
(***************************************************************************)
COROLLARY ConnectorTypes == Spec => []TypeOK
<1>1. ConnectorInv => TypeOK
  BY DEF ConnectorInv
<1>2. QED
  BY <1>1, ConnectorInvariant, PTL

-----------------------------------------------------------------------------
(***************************************************************************)
(* Who may still send while the breaker cools down: every straggler was    *)
(* past the check when it opened, and so were those who have yet to send.  *)
(* Outside the cooldown nothing is counted.                                *)
(***************************************************************************)
Past == {c \in Callers : pc[c] = "admitted"}

FewArePast ==
    IF CoolingDown THEN stragglers + Cardinality(Past) < Cardinality(Callers)
                   ELSE stragglers = 0

(***************************************************************************)
(* The callers past the check are finitely many, and fewer than all when   *)
(* somebody is elsewhere.                                                  *)
(***************************************************************************)
LEMMA PastIsFinite == IsFiniteSet(Past) /\ Cardinality(Past) \in Nat
<1>1. Past \subseteq Callers
  BY DEF Past
<1>2. QED
  BY <1>1, CallersAssumption, FS_Subset, FS_CardinalityType

LEMMA PastAreNotAll ==
    ASSUME NEW c \in Callers, pc[c] # "admitted"
    PROVE  Cardinality(Past) < Cardinality(Callers)
<1>1. Past \subseteq Callers /\ Past # Callers
  BY DEF Past
<1>2. QED
  BY <1>1, CallersAssumption, FS_Subset, FS_CardinalityType

(***************************************************************************)
(* A caller that leaves the check's far side is one fewer.                 *)
(***************************************************************************)
LEMMA OneFewerPast ==
    ASSUME TypeOK, NEW c \in Callers, pc[c] = "admitted",
           NEW where \in {"idle", "sent"}, pc' = [pc EXCEPT ![c] = where]
    PROVE  Cardinality(Past') = Cardinality(Past) - 1
<1>1. Past' = Past \ {c} /\ c \in Past
  BY DEF Past, TypeOK
<1>2. QED
  BY <1>1, PastIsFinite, FS_RemoveElement

(***************************************************************************)
(* The answer to a request moves nobody past the check.                    *)
(***************************************************************************)
LEMMA AnswerKeepsPast ==
    ASSUME TypeOK, NEW c \in Callers, Answered(c)
    PROVE  Past' = Past /\ pc'[c] = "idle"
<1>1. QED
  BY DEF Past, Answered, TypeOK

(***************************************************************************)
(* Nobody is admitted while the breaker cools down, and whoever's failure  *)
(* makes it cool down is not past the check any more.                      *)
(***************************************************************************)
LEMMA FewStayPast ==
    ASSUME TypeOK, FewArePast, [Next]_vars
    PROVE  FewArePast'
<1> USE ConnectorAssumption
<1>0. /\ Cardinality(Past) \in Nat /\ Cardinality(Past') \in Nat
      /\ Cardinality(Callers) \in Nat /\ Cardinality(Callers) # 0
  <2>1. Cardinality(Past') \in Nat
    <3>1. Past' \subseteq Callers
      BY DEF Past
    <3>2. QED
      BY <3>1, CallersAssumption, FS_Subset, FS_CardinalityType
  <2>2. QED
    BY <2>1, PastIsFinite, CallersAssumption, FS_EmptySet, FS_CardinalityType
<1>1. CASE Tick
  <2>1. Past' = Past
    BY <1>1 DEF Tick, Past
  <2>2. CASE CoolingDown'
    <3>1. CoolingDown /\ stragglers' = stragglers
      BY <1>1, <2>2 DEF Tick, TypeOK, CoolingDown, Lesser
    <3>2. QED
      BY <2>1, <2>2, <3>1 DEF FewArePast
  <2>3. CASE ~CoolingDown'
    <3>1. stragglers' = 0
      BY <1>1, <2>3 DEF Tick, TypeOK, CoolingDown, Lesser, FewArePast
    <3>2. QED
      BY <2>3, <3>1 DEF FewArePast
  <2>4. QED
    BY <2>2, <2>3
<1>2. CASE UNCHANGED <<breakerVars, pc, stragglers>>
  BY <1>2 DEF FewArePast, CoolingDown, Past, breakerVars
<1>3. ASSUME NEW c \in Callers, Admit(c) PROVE FewArePast'
  BY <1>3 DEF Admit, FewArePast, CoolingDown, breakerVars
<1>4. ASSUME NEW c \in Callers, Send(c) PROVE FewArePast'
  <2>1. Cardinality(Past') = Cardinality(Past) - 1
    BY <1>4, OneFewerPast DEF Send
  <2>2. QED
    BY <1>0, <1>4, <2>1 DEF Send, FewArePast, CoolingDown, breakerVars, TypeOK
<1>5. ASSUME NEW c \in Callers, RejectRate(c) PROVE FewArePast'
  <2>1. Cardinality(Past') = Cardinality(Past) - 1
    BY <1>5, OneFewerPast DEF RejectRate
  <2>2. QED
    BY <1>0, <1>5, <2>1 DEF RejectRate, FewArePast, CoolingDown, breakerVars, TypeOK
<1>6. ASSUME NEW c \in Callers, Answered(c), RecordSuccess PROVE FewArePast'
  BY <1>6 DEF RecordSuccess, FewArePast, CoolingDown
<1>7. ASSUME NEW c \in Callers, Answered(c), RecordFailure PROVE FewArePast'
  <2>1. Past' = Past /\ Cardinality(Past) < Cardinality(Callers)
    <3>1. pc[c] # "admitted"
      BY <1>7 DEF Answered
    <3>2. QED
      BY <1>7, <3>1, AnswerKeepsPast, PastAreNotAll
  <2>2. CASE CoolingDown
    <3>1. CoolingDown' /\ stragglers' = stragglers
      <4>1. isOpen' /\ stragglers' = stragglers
        BY <1>7, <2>2 DEF RecordFailure, CoolingDown
      <4>2. sinceOpened' < Cooldown
        BY <1>7, <2>2 DEF RecordFailure, CoolingDown, TypeOK
      <4>3. QED
        BY <4>1, <4>2 DEF CoolingDown
    <3>2. QED
      BY <2>1, <2>2, <3>1 DEF FewArePast
  <2>3. CASE ~CoolingDown
    <3>1. stragglers' = 0
      BY <1>7, <2>3 DEF RecordFailure, FewArePast
    <3>2. QED
      BY <1>0, <2>1, <3>1 DEF FewArePast
  <2>4. QED
    BY <2>2, <2>3
<1>8. ASSUME NEW c \in Callers, AnswerClientError(c) PROVE FewArePast'
  BY <1>8, AnswerKeepsPast DEF AnswerClientError, RecordNothing, FewArePast, CoolingDown, breakerVars
<1>9. CASE UNCHANGED vars \/ StartWindow \/ ProviderChanges
  BY <1>2, <1>9 DEF vars, StartWindow, ProviderChanges
<1>10. QED
  BY <1>1, <1>3, <1>4, <1>5, <1>6, <1>7, <1>8, <1>9
  DEF Next, CallerStep, GetStep, AnswerOk, AnswerFailure, RejectOpen

(***************************************************************************)
(* An open breaker spares the provider all requests but those of the       *)
(* callers that were past the check, fewer than there are callers.         *)
(***************************************************************************)
THEOREM ConnectorStragglers == Spec => []StragglersAreFew
<1>1. Init => FewArePast
  BY DEF Init, FewArePast, CoolingDown
<1>2. ConnectorInv /\ FewArePast /\ [Next]_vars => FewArePast'
  BY FewStayPast DEF ConnectorInv
<1>3. TypeOK /\ FewArePast => StragglersAreFew
  <2>1. Cardinality(Past) \in Nat /\ Cardinality(Callers) \in Nat /\ Cardinality(Callers) # 0
    BY PastIsFinite, CallersAssumption, FS_EmptySet, FS_CardinalityType
  <2>2. QED
    BY <2>1 DEF TypeOK, FewArePast, StragglersAreFew
<1>4. ConnectorInv => TypeOK
  BY DEF ConnectorInv
<1>5. QED
  BY <1>1, <1>2, <1>3, <1>4, ConnectorInvariant, PTL DEF Spec

-----------------------------------------------------------------------------
(***************************************************************************)
(* What an outage costs.  Closed, every request of the window has either   *)
(* been counted as a failure or is still out.  Once the breaker is open a  *)
(* caller that has sent sends no second request before a cooldown is over: *)
(* cooling down, only the callers past the check are still to send, and    *)
(* half-open, only those without a request out.                            *)
(***************************************************************************)
At(f, place) == {c \in Callers : f[c] = place}
Out(f)  == Cardinality(At(f, "sent"))
ToGo(f) == Cardinality(At(f, "admitted"))
All  == Cardinality(Callers)

(* So many requests are within the bound after so many ticks, the first    *)
(* round of the callers not counted.                                       *)
Within(time, sent) ==
    \A k \in Nat : time < (k + 1) * Cooldown => sent <= Threshold - 1 + k * All

OutageSoFar ==
    outage =>
        /\ ~isOpen => windowSent <= failures + Out(pc)
        /\ isOpen /\ ~CoolingDown => Within(windowTime, windowSent - Out(pc))
        /\ CoolingDown /\ windowTime < sinceOpened => windowSent <= Out(pc)
        /\ CoolingDown /\ windowTime >= sinceOpened
               => Within(windowTime - sinceOpened, windowSent + ToGo(pc) - All)

LEMMA CallersAreCounted ==
    ASSUME NEW f
    PROVE  /\ All \in Nat /\ Cardinality(At(f, "sent")) \in Nat /\ Cardinality(At(f, "admitted")) \in Nat
           /\ Cardinality(At(f, "sent")) + Cardinality(At(f, "admitted")) <= All
<1> DEFINE S == At(f, "sent")
           A == At(f, "admitted")
<1>1. S \subseteq Callers /\ A \subseteq Callers /\ A \subseteq Callers \ S
  BY DEF At
<1>2. /\ IsFiniteSet(Callers \ S) /\ Cardinality(Callers \ S) = All - Cardinality(Callers \cap S)
      /\ Callers \cap S = S
  BY <1>1, CallersAssumption, FS_Difference DEF All
<1>3. IsFiniteSet(S) /\ IsFiniteSet(A) /\ Cardinality(A) <= Cardinality(Callers \ S)
  BY <1>1, <1>2, CallersAssumption, FS_Subset
<1>4. All \in Nat /\ Cardinality(S) \in Nat /\ Cardinality(A) \in Nat
  BY <1>3, CallersAssumption, FS_CardinalityType DEF All
<1>5. QED
  BY <1>2, <1>3, <1>4

(* A caller that moves leaves one place and enters another. *)
LEMMA CallerMoves ==
    ASSUME TypeOK, NEW c \in Callers, NEW to \in {"idle", "admitted", "sent"},
           pc' = [pc EXCEPT ![c] = to], pc[c] # to
    PROVE  /\ Out(pc') = Out(pc) + (IF to = "sent" THEN 1 ELSE 0) - (IF pc[c] = "sent" THEN 1 ELSE 0)
           /\ ToGo(pc') = ToGo(pc) + (IF to = "admitted" THEN 1 ELSE 0) - (IF pc[c] = "admitted" THEN 1 ELSE 0)
<1>1. ASSUME NEW place \in {"sent", "admitted"}
      PROVE  Cardinality(At(pc', place)) =
                 Cardinality(At(pc, place)) + (IF to = place THEN 1 ELSE 0)
                                            - (IF pc[c] = place THEN 1 ELSE 0)
  <2>1. IsFiniteSet(At(pc, place)) /\ Cardinality(At(pc, place)) \in Nat
    <3>1. At(pc, place) \subseteq Callers
      BY DEF At
    <3>2. QED
      BY <3>1, CallersAssumption, FS_Subset, FS_CardinalityType
  <2>2. CASE to = place
    <3>1. At(pc', place) = At(pc, place) \cup {c} /\ c \notin At(pc, place) /\ pc[c] # place
      BY <2>2 DEF At, TypeOK
    <3>2. Cardinality(At(pc', place)) = Cardinality(At(pc, place)) + 1
      BY <2>1, <3>1, FS_AddElement
    <3>3. QED
      BY <2>1, <2>2, <3>1, <3>2
  <2>3. CASE to # place
    <3>1. At(pc', place) = At(pc, place) \ {c} /\ (c \in At(pc, place) <=> pc[c] = place)
      BY <2>3 DEF At, TypeOK
    <3>2. Cardinality(At(pc', place)) =
              IF pc[c] = place THEN Cardinality(At(pc, place)) - 1 ELSE Cardinality(At(pc, place))
      BY <2>1, <3>1, FS_RemoveElement
    <3>3. QED
      BY <2>1, <2>3, <3>2
  <2>4. QED
    BY <2>2, <2>3
<1>2. QED
  BY <1>1 DEF Out, ToGo

LEMMA WithinGrows ==
    ASSUME NEW t \in Nat, NEW s \in Int, Within(t, s), NEW tt \in Nat, NEW ss \in Int,
           t <= tt, ss <= s
    PROVE  Within(tt, ss)
<1> USE CallersAreCounted, ConnectorAssumption
<1>1. ASSUME NEW k \in Nat, tt < (k + 1) * Cooldown PROVE ss <= Threshold - 1 + k * All
  <2>1. (k + 1) * Cooldown \in Nat /\ k * All \in Nat
    OBVIOUS
  <2>2. t < (k + 1) * Cooldown
    BY <1>1, <2>1
  <2>3. s <= Threshold - 1 + k * All
    BY <2>2 DEF Within
  <2>4. QED
    BY <2>1, <2>3
<1>2. QED
  BY <1>1 DEF Within

LEMMA WithinBegins ==
    ASSUME NEW t \in Nat, NEW s \in Int, s <= Threshold - 1 PROVE Within(t, s)
<1>1. ASSUME NEW k \in Nat PROVE s <= Threshold - 1 + k * All
  <2>1. k * All \in Nat
    BY CallersAreCounted
  <2>2. QED
    BY <2>1, ConnectorAssumption
<1>2. QED
  BY <1>1 DEF Within

(* The next cooldown gives every caller one request more. *)
LEMMA WithinNextRound ==
    ASSUME NEW t \in Nat, NEW s \in Int, Within(t, s)
    PROVE  Within(t + Cooldown, s + All)
<1> USE CallersAreCounted, ConnectorAssumption
<1>1. ASSUME NEW k \in Nat, t + Cooldown < (k + 1) * Cooldown
      PROVE  s + All <= Threshold - 1 + k * All
  <2>1. k # 0
    BY <1>1
  <2>2. PICK m \in Nat : k = m + 1
    BY <2>1
  <2>3. /\ (k + 1) * Cooldown = k * Cooldown + Cooldown /\ k * Cooldown \in Nat
        /\ k * All = m * All + All /\ m * All \in Nat
    BY <2>2, OneMore
  <2>4. t < k * Cooldown
    BY <1>1, <2>3
  <2>5. s <= Threshold - 1 + m * All
    BY <2>2, <2>4 DEF Within
  <2> DEFINE before == m * All
             now == k * All
  <2>6. before \in Nat /\ now = before + All /\ s <= Threshold - 1 + before
    BY <2>3, <2>5
  <2> HIDE DEF before, now
  <2>7. All \in Nat
    BY CallersAssumption, FS_CardinalityType DEF All
  <2>8. s + All <= Threshold - 1 + now
    BY <2>6, <2>7
  <2>9. QED
    BY <2>8 DEF now
<1>2. QED
  BY <1>1 DEF Within

(***************************************************************************)
(* An observation may begin in any state of the breaker.                   *)
(***************************************************************************)
LEMMA OutageBegins ==
    ASSUME TypeOK', windowTime' = 0, windowSent' = 0 PROVE OutageSoFar'
<1> USE ConnectorAssumption
<1>1. /\ Out(pc') \in Nat /\ ToGo(pc') \in Nat /\ All \in Nat /\ Out(pc') + ToGo(pc') <= All
      /\ failures' \in Nat /\ sinceOpened' \in Nat /\ Threshold - 1 \in Nat
  BY CallersAreCounted DEF Out, ToGo, TypeOK
<1>2. windowSent' - Out(pc') <= Threshold - 1 /\ windowSent' + ToGo(pc') - All <= Threshold - 1
  BY <1>1
<1>3. Within(windowTime', windowSent' - Out(pc'))
  BY <1>1, <1>2, WithinBegins
<1>4. windowTime' >= sinceOpened' => Within(windowTime' - sinceOpened', windowSent' + ToGo(pc') - All)
  BY <1>1, <1>2, WithinBegins
<1>5. windowSent' <= failures' + Out(pc') /\ windowSent' <= Out(pc')
  BY <1>1
<1>6. QED
  BY <1>3, <1>4, <1>5 DEF OutageSoFar

(***************************************************************************)
(* A failing answer takes a request out of the way and, at the threshold,  *)
(* starts a cooldown.                                                      *)
(***************************************************************************)
LEMMA FailureIsWithin ==
    ASSUME TypeOK, OpenAtThreshold, OutageSoFar, NEW c \in Callers, Answered(c), RecordFailure
    PROVE  OutageSoFar'
<1> USE ConnectorAssumption
<1>1. /\ Out(pc) \in Nat /\ ToGo(pc) \in Nat /\ All \in Nat /\ Out(pc) + ToGo(pc) <= All
      /\ failures \in Nat /\ failures <= Threshold /\ Threshold - 1 \in Nat /\ Cooldown \in Nat
      /\ sinceOpened \in Nat /\ windowTime \in Nat /\ windowSent \in Nat
  BY CallersAreCounted DEF Out, ToGo, TypeOK
<1>2. Out(pc') = Out(pc) - 1 /\ ToGo(pc') = ToGo(pc)
  <2>1. pc[c] = "sent" /\ pc' = [pc EXCEPT ![c] = "idle"]
    BY DEF Answered
  <2>2. Out(pc') = Out(pc) + 0 - 1 /\ ToGo(pc') = ToGo(pc) + 0 - 0
    BY <2>1, CallerMoves
  <2>3. QED
    BY <1>1, <2>2
<1>3. windowTime' = windowTime /\ windowSent' = windowSent /\ outage' = outage
  BY DEF Answered, RecordFailure
<1>4. isOpen => failures = Threshold
  BY DEF OpenAtThreshold
<1>5. CASE ~isOpen /\ failures + 1 < Threshold
  <2>1. ~isOpen' /\ failures' = failures + 1
    <3>1. ~(failures + 1 >= Threshold)
      BY <1>1, <1>5, ConnectorAssumption
    <3>2. ~isOpen'
      BY <1>5, <3>1 DEF RecordFailure
    <3>3. failures' = failures + 1
      BY <1>1, <1>5 DEF RecordFailure, Lesser
    <3>4. QED
      BY <3>2, <3>3
  <2>2. outage => windowSent <= failures + Out(pc)
    BY <1>5 DEF OutageSoFar
  <2>3. outage => windowSent' <= failures' + Out(pc')
    BY <1>1, <1>2, <1>3, <2>1, <2>2
  <2>4. QED
    BY <1>3, <2>1, <2>3 DEF OutageSoFar, CoolingDown
<1>6. CASE isOpen \/ failures + 1 >= Threshold
  <2>1. isOpen' /\ sinceOpened' = 0
    <3>1. failures + 1 >= Threshold
      BY <1>1, <1>4, <1>6
    <3>2. QED
      BY <3>1 DEF RecordFailure
  <2>2. ASSUME outage PROVE Within(windowTime, windowSent + ToGo(pc) - All)
    <3>1. CASE ~isOpen
      <4>1. windowSent <= failures + Out(pc) /\ failures # Threshold
        BY <2>2, <3>1 DEF OutageSoFar, OpenAtThreshold
      <4>2. windowSent + ToGo(pc) - All <= Threshold - 1
        BY <1>1, <4>1
      <4>3. QED
        BY <1>1, <4>2, WithinBegins
    <3>2. CASE isOpen /\ ~CoolingDown
      <4>1. Within(windowTime, windowSent - Out(pc))
        BY <2>2, <3>2 DEF OutageSoFar
      <4>2. QED
        BY <1>1, <4>1, WithinGrows
    <3>3. CASE CoolingDown /\ windowTime < sinceOpened
      <4>1. windowSent <= Out(pc)
        BY <2>2, <3>3 DEF OutageSoFar
      <4>2. windowSent + ToGo(pc) - All <= Threshold - 1
        BY <1>1, <4>1
      <4>3. QED
        BY <1>1, <4>2, WithinBegins
    <3>4. CASE CoolingDown /\ windowTime >= sinceOpened
      <4>1. Within(windowTime - sinceOpened, windowSent + ToGo(pc) - All)
        BY <2>2, <3>4 DEF OutageSoFar
      <4>2. windowTime - sinceOpened \in Nat /\ windowTime - sinceOpened <= windowTime
        BY <1>1, <3>4
      <4>3. QED
        BY <1>1, <4>1, <4>2, WithinGrows
    <3>5. QED
      BY <1>1, <3>1, <3>2, <3>3, <3>4
  <2>3. CASE Cooldown = 0
    <3>1. ~CoolingDown'
      BY <2>1, <2>3 DEF CoolingDown
    <3>2. Within(windowTime, windowSent' - Out(pc'))
      BY <1>1, <2>3 DEF Within
    <3>3. QED
      BY <1>3, <2>1, <3>1, <3>2 DEF OutageSoFar
  <2>4. CASE Cooldown # 0
    <3>1. CoolingDown'
      BY <1>1, <2>1, <2>4 DEF CoolingDown
    <3>2. windowTime' - sinceOpened' = windowTime /\ ~(windowTime' < sinceOpened')
      BY <1>1, <1>3, <2>1
    <3>3. outage' => Within(windowTime' - sinceOpened', windowSent' + ToGo(pc') - All)
      BY <1>2, <1>3, <2>2, <3>2
    <3>4. QED
      BY <2>1, <3>1, <3>2, <3>3 DEF OutageSoFar
  <2>5. QED
    BY <2>3, <2>4
<1>7. QED
  BY <1>1, <1>5, <1>6

(***************************************************************************)
(* Time closes a window or makes it older, and ends a cooldown.            *)
(***************************************************************************)
LEMMA TickIsWithin == ASSUME TypeOK, TypeOK', OutageSoFar, Tick PROVE OutageSoFar'
<1> USE ConnectorAssumption
<1>1. /\ Out(pc) \in Nat /\ ToGo(pc) \in Nat /\ All \in Nat /\ Threshold - 1 \in Nat /\ Cooldown \in Nat
      /\ sinceOpened \in 0..Cooldown /\ windowTime \in Nat /\ windowSent \in Nat
  BY CallersAreCounted DEF Out, ToGo, TypeOK
<1>2. CASE windowTime >= MaxWindow
  BY <1>1, <1>2, OutageBegins DEF Tick
<1>3. CASE windowTime < MaxWindow
  <2>1. /\ windowTime' = windowTime + 1 /\ windowSent' = windowSent /\ outage' = outage
        /\ failures' = failures /\ isOpen' = isOpen /\ Out(pc') = Out(pc) /\ ToGo(pc') = ToGo(pc)
    BY <1>3 DEF Tick, Out, ToGo
  <2>2. isOpen => sinceOpened' = IF sinceOpened < Cooldown THEN sinceOpened + 1 ELSE sinceOpened
    BY <1>1 DEF Tick, Lesser
  <2>3. CASE ~isOpen
    BY <2>1, <2>3 DEF OutageSoFar, CoolingDown
  <2>4. CASE isOpen /\ ~CoolingDown
    <3>1. ~CoolingDown'
      BY <1>1, <2>1, <2>2, <2>4 DEF CoolingDown
    <3>2. outage => Within(windowTime, windowSent - Out(pc))
      BY <2>4 DEF OutageSoFar
    <3>3. outage' => Within(windowTime', windowSent' - Out(pc'))
      BY <1>1, <2>1, <3>2, WithinGrows
    <3>4. QED
      BY <2>1, <2>4, <3>1, <3>3 DEF OutageSoFar
  <2>5. CASE CoolingDown /\ windowTime < sinceOpened
    <3>1. isOpen /\ sinceOpened' = sinceOpened + 1 /\ windowTime' < sinceOpened'
      BY <1>1, <2>1, <2>2, <2>5 DEF CoolingDown
    <3>2. outage' => windowSent' <= Out(pc')
      BY <2>1, <2>5 DEF OutageSoFar
    <3>3. outage' => Within(windowTime', windowSent' - Out(pc'))
      <4>1. outage' => windowSent' - Out(pc') <= Threshold - 1
        BY <1>1, <2>1, <3>2
      <4>2. QED
        BY <1>1, <2>1, <4>1, WithinBegins
    <3>4. ~(windowTime' >= sinceOpened')
      BY <1>1, <2>1, <3>1
    <3>5. QED
      BY <2>1, <3>1, <3>2, <3>3, <3>4 DEF OutageSoFar
  <2>6. CASE CoolingDown /\ windowTime >= sinceOpened
    <3>1. /\ isOpen /\ sinceOpened' = sinceOpened + 1 /\ ~(windowTime' < sinceOpened')
          /\ windowTime' - sinceOpened' = windowTime - sinceOpened
          /\ windowTime - sinceOpened \in Nat
      BY <1>1, <2>1, <2>2, <2>6 DEF CoolingDown
    <3>2. outage => Within(windowTime - sinceOpened, windowSent + ToGo(pc) - All)
      BY <2>6 DEF OutageSoFar
    <3>3. ASSUME outage', ~CoolingDown' PROVE Within(windowTime', windowSent' - Out(pc'))
      <4>1. sinceOpened' = Cooldown
        BY <1>1, <2>1, <3>1, <3>3, <2>6 DEF CoolingDown
      <4>2. Within((windowTime - sinceOpened) + Cooldown, (windowSent + ToGo(pc) - All) + All)
        BY <1>1, <2>1, <3>1, <3>2, <3>3, WithinNextRound
      <4>3. (windowTime - sinceOpened) + Cooldown = windowTime'
        BY <1>1, <2>1, <3>1, <4>1
      <4>4. QED
        BY <1>1, <2>1, <4>2, <4>3, WithinGrows
    <3>4. outage' => Within(windowTime' - sinceOpened', windowSent' + ToGo(pc') - All)
      BY <2>1, <3>1, <3>2
    <3>5. QED
      BY <2>1, <3>1, <3>3, <3>4 DEF OutageSoFar
  <2>7. QED
    BY <1>1, <2>3, <2>4, <2>5, <2>6
<1>4. QED
  BY <1>1, <1>2, <1>3

LEMMA OutageIsKept ==
    ASSUME TypeOK, TypeOK', OpenAtThreshold, OutageSoFar, [Next]_vars PROVE OutageSoFar'
<1> USE ConnectorAssumption
<1>1. /\ Out(pc) \in Nat /\ ToGo(pc) \in Nat /\ All \in Nat
      /\ sinceOpened \in Nat /\ windowTime \in Nat /\ windowSent \in Nat /\ failures \in Nat
  BY CallersAreCounted DEF Out, ToGo, TypeOK
<1>2. CASE StartWindow
  BY <1>2, OutageBegins DEF StartWindow
<1>3. CASE UNCHANGED <<breakerVars, windowVars, pc>>
  BY <1>3 DEF breakerVars, windowVars, OutageSoFar, CoolingDown, Out, ToGo
<1>4. ASSUME NEW c \in Callers, Admit(c) PROVE OutageSoFar'
  <2>1. Out(pc') = Out(pc)
    <3>1. pc[c] = "idle" /\ pc' = [pc EXCEPT ![c] = "admitted"]
      BY <1>4 DEF Admit
    <3>2. Out(pc') = Out(pc) + 0 - 0 /\ ToGo(pc') = ToGo(pc) + 1 - 0
      BY <3>1, CallerMoves
    <3>3. QED
      BY <1>1, <3>2
  <2>2. UNCHANGED <<breakerVars, windowVars>> /\ ~CoolingDown
    BY <1>4 DEF Admit
  <2>3. QED
    BY <2>1, <2>2 DEF OutageSoFar, CoolingDown, breakerVars, windowVars
<1>5. ASSUME NEW c \in Callers, Send(c) PROVE OutageSoFar'
  <2>1. Out(pc') = Out(pc) + 1 /\ ToGo(pc') = ToGo(pc) - 1
    <3>1. pc[c] = "admitted" /\ pc' = [pc EXCEPT ![c] = "sent"]
      BY <1>5 DEF Send
    <3>2. Out(pc') = Out(pc) + 1 - 0 /\ ToGo(pc') = ToGo(pc) + 0 - 1
      BY <3>1, CallerMoves
    <3>3. QED
      BY <1>1, <3>2
  <2>2. /\ windowSent' = windowSent + 1 /\ UNCHANGED <<windowTime, outage, breakerVars>>
    BY <1>5 DEF Send
  <2>3. /\ windowSent' - Out(pc') = windowSent - Out(pc)
        /\ windowSent' + ToGo(pc') - All = windowSent + ToGo(pc) - All
        /\ windowSent <= failures + Out(pc) => windowSent' <= failures + Out(pc')
        /\ windowSent <= Out(pc) => windowSent' <= Out(pc')
    BY <1>1, <2>1, <2>2
  <2>4. QED
    BY <2>2, <2>3 DEF OutageSoFar, CoolingDown, breakerVars
<1>6. ASSUME NEW c \in Callers, RejectRate(c) PROVE OutageSoFar'
  <2>1. Out(pc') = Out(pc) /\ ToGo(pc') = ToGo(pc) - 1
    <3>1. pc[c] = "admitted" /\ pc' = [pc EXCEPT ![c] = "idle"]
      BY <1>6 DEF RejectRate
    <3>2. Out(pc') = Out(pc) + 0 - 0 /\ ToGo(pc') = ToGo(pc) + 0 - 1
      BY <3>1, CallerMoves
    <3>3. QED
      BY <1>1, <3>2
  <2>2. UNCHANGED <<breakerVars, windowVars>>
    BY <1>6 DEF RejectRate
  <2>3. ASSUME outage, CoolingDown, windowTime >= sinceOpened
        PROVE  Within(windowTime - sinceOpened, windowSent + ToGo(pc') - All)
    <3>1. Within(windowTime - sinceOpened, windowSent + ToGo(pc) - All)
      BY <2>3 DEF OutageSoFar
    <3>2. windowTime - sinceOpened \in Nat /\ windowSent + ToGo(pc') - All \in Int
          /\ windowSent + ToGo(pc') - All <= windowSent + ToGo(pc) - All
      BY <1>1, <2>1, <2>3
    <3>3. QED
      BY <1>1, <3>1, <3>2, WithinGrows
  <2>4. QED
    BY <2>1, <2>2, <2>3 DEF OutageSoFar, CoolingDown, breakerVars, windowVars
<1>7. ASSUME NEW c \in Callers, AnswerOk(c) \/ AnswerClientError(c) PROVE OutageSoFar'
  <2>1. ~outage'
    BY <1>7 DEF AnswerOk, AnswerClientError, RecordSuccess, RecordNothing
  <2>2. QED
    BY <2>1 DEF OutageSoFar
<1>8. ASSUME NEW c \in Callers, AnswerFailure(c) PROVE OutageSoFar'
  BY <1>8, FailureIsWithin DEF AnswerFailure
<1>9. CASE ProviderChanges \/ UNCHANGED vars
  BY <1>3, <1>9 DEF ProviderChanges, vars
<1>10. QED
  BY <1>2, <1>4, <1>5, <1>6, <1>7, <1>8, <1>9, TickIsWithin
  DEF Next, CallerStep, GetStep, RejectOpen

(***************************************************************************)
(* Less than k cooldowns into an outage the provider has received at most  *)
(* the failures that open the breaker and k requests per caller, however   *)
(* many callers probe at once and however late their failures come.        *)
(***************************************************************************)
THEOREM ConnectorOutage == Spec => []OutageIsCheap
<1>1. Init => OutageSoFar
  <2> SUFFICES ASSUME Init PROVE OutageSoFar
    OBVIOUS
  <2>1. Out(pc) \in Nat
    BY CallersAreCounted DEF Out
  <2>2. QED
    BY <2>1 DEF Init, OutageSoFar, CoolingDown
<1>2. ConnectorInv /\ OutageSoFar /\ [Next]_vars => OutageSoFar'
  BY OutageIsKept, TypesAreKept DEF ConnectorInv
<1>3. ConnectorInv /\ OutageSoFar => OutageIsCheap
  <2> SUFFICES ASSUME ConnectorInv, OutageSoFar, outage, NEW k \in 1..(MaxWindow + 1),
                      windowTime < k * Cooldown
               PROVE  windowSent <= Threshold - 1 + k * All
    BY DEF OutageIsCheap, All
  <2> USE ConnectorAssumption
  <2>1. /\ Out(pc) \in Nat /\ ToGo(pc) \in Nat /\ All \in Nat /\ Out(pc) + ToGo(pc) <= All
        /\ failures \in Nat /\ failures <= Threshold /\ Threshold - 1 \in Nat
        /\ sinceOpened \in Nat /\ windowTime \in Nat /\ windowSent \in Nat
    BY CallersAreCounted DEF Out, ToGo, TypeOK, ConnectorInv
  <2>2. Within(windowTime, windowSent - All)
    <3>1. CASE ~isOpen \/ (CoolingDown /\ windowTime < sinceOpened)
      <4>1. windowSent <= Threshold - 1 + Out(pc)
        BY <2>1, <3>1 DEF OutageSoFar, ConnectorInv, OpenAtThreshold, CoolingDown
      <4>2. windowSent - All <= Threshold - 1
        BY <2>1, <4>1
      <4>3. QED
        BY <2>1, <4>2, WithinBegins
    <3>2. CASE isOpen /\ ~CoolingDown
      BY <2>1, <3>2, WithinGrows DEF OutageSoFar
    <3>3. CASE CoolingDown /\ windowTime >= sinceOpened
      <4>1. Within(windowTime - sinceOpened, windowSent + ToGo(pc) - All)
        BY <3>3 DEF OutageSoFar
      <4>2. windowTime - sinceOpened \in Nat /\ windowTime - sinceOpened <= windowTime
        BY <2>1, <3>3
      <4>3. QED
        BY <2>1, <4>1, <4>2, WithinGrows
    <3>4. QED
      BY <2>1, <3>1, <3>2, <3>3
  <2>3. PICK m \in Nat : k = m + 1
    BY <2>1
  <2>4. windowSent - All <= Threshold - 1 + m * All
    BY <2>2, <2>3 DEF Within
  <2>5. k * All = m * All + All /\ m * All \in Nat
    BY <2>1, <2>3, OneMore
  <2>6. QED
    BY <2>1, <2>4, <2>5
<1>4. QED
  BY <1>1, <1>2, <1>3, ConnectorInvariant, PTL DEF Spec

-----------------------------------------------------------------------------
(***************************************************************************)
(* The batch.  Instrument by instrument, a running batch either is at the  *)
(* end of a stretch without a 2xx answer that holds every failure the      *)
(* breaker has counted, or the breaker is open and the stretch holds the   *)
(* threshold; and the bucket has lost no more than the requests cost.  The *)
(* soft time limit cuts an instrument short that the loop has left since.  *)
(***************************************************************************)

Requests == (next - 1) + (IF pc[Task] = "sent" \/ quoted THEN 1 ELSE 0)

EnoughLeft == status = "running" => tokens + Requests * Cost >= Capacity

(* The connector is in use only while the loop is at a request. *)
InUse == pc[Task] # "idle" => AtRequest

QuotedIsAnswered ==
    quoted => /\ status = "running" /\ next <= Size
              /\ answers[next] = "quote" /\ failures = 0

Streak ==
    \E first \in 1..next :
        /\ \A n \in first..(next - 1) : Unanswered(n)
        /\ Cardinality(Failed(first..(next - 1))) >= failures

(* A full bucket pays for a request for each of the instruments 1 to n.    *)
Affordable(n) == n * Cost <= Capacity

Blamed ==
    status = "running" /\ Affordable(next - 1)
        => IF isOpen THEN TrippedBefore(next) ELSE Streak

Explained ==
    \A i \in 1..(next - 1) :
        answers[i] = "quote" /\ Affordable(i)
            => i \in updated \/ i = interrupted \/ TrippedBefore(i)

DoneIsPast == status = "done" => next > Size

InterruptedIsPast == interrupted < next

LoopInv == InUse /\ QuotedIsAnswered /\ DoneIsPast /\ InterruptedIsPast

BatchInv ==
    BatchTypeOK /\ OpenAtThreshold /\ LoopInv /\ EnoughLeft /\ Blamed /\ Explained

(***************************************************************************)
(* What came before an instrument explains it for good: later answers and  *)
(* a soft limit at a later instrument do not count.                        *)
(***************************************************************************)
LEMMA ExplanationIsKept ==
    ASSUME NEW i \in Nat, TrippedBefore(i), answers' = answers,
           interrupted' = interrupted \/ (interrupted = 0 /\ i <= interrupted')
    PROVE  TrippedBefore(i)'
<1>1. PICK first \in 1..(i - 1), last \in 1..(i - 1) :
          /\ \A n \in first..last : Unanswered(n)
          /\ Cardinality(Failed(first..last)) >= Threshold
  BY DEF TrippedBefore
<1>2. \A n \in first..last : n # 0 /\ n < i
  BY <1>1
<1>3. \A n \in first..last : n = interrupted' <=> n = interrupted
  BY <1>2
<1>4. Failed(first..last)' = Failed(first..last) /\ \A n \in first..last : Unanswered(n)'
  BY <1>1, <1>3 DEF Failed, Unanswered
<1>5. QED
  BY <1>1, <1>4 DEF TrippedBefore

LEMMA TrippedIsKept ==
    ASSUME next \in Nat, TrippedBefore(next), answers' = answers, next' = next + 1,
           interrupted' = interrupted \/ (interrupted = 0 /\ next <= interrupted')
    PROVE  TrippedBefore(next)'
<1>1. PICK first \in 1..(next - 1), last \in 1..(next - 1) :
          /\ \A n \in first..last : Unanswered(n)
          /\ Cardinality(Failed(first..last)) >= Threshold
  BY DEF TrippedBefore
<1>2. \A n \in first..last : n = interrupted' <=> n = interrupted
  BY <1>1
<1>3. Failed(first..last)' = Failed(first..last) /\ \A n \in first..last : Unanswered(n)'
  BY <1>1, <1>2 DEF Failed, Unanswered
<1>4. first \in 1..(next' - 1) /\ last \in 1..(next' - 1)
  BY <1>1
<1>5. QED
  BY <1>1, <1>3, <1>4 DEF TrippedBefore

(* A stretch that one more answer ends. *)
LEMMA StretchGrows ==
    ASSUME NEW first \in Nat, NEW last \in Nat, first <= last
    PROVE  /\ Cardinality(Failed(first..(last - 1))) \in Nat
           /\ Cardinality(Failed(first..last)) =
                  Cardinality(Failed(first..(last - 1)))
                      + IF answers[last] = "failed" /\ last # interrupted THEN 1 ELSE 0
<1>1. IsFiniteSet(Failed(first..(last - 1)))
  <2>1. IsFiniteSet(first..(last - 1))
    BY FS_Interval
  <2>2. QED
    BY <2>1, FS_Subset DEF Failed
<1>2. first..last = (first..(last - 1)) \cup {last} /\ last \notin first..(last - 1)
  OBVIOUS
<1>3. CASE answers[last] = "failed" /\ last # interrupted
  <2>1. /\ Failed(first..last) = Failed(first..(last - 1)) \cup {last}
        /\ last \notin Failed(first..(last - 1))
    BY <1>2, <1>3 DEF Failed
  <2>2. QED
    BY <1>1, <1>3, <2>1, FS_AddElement, FS_CardinalityType
<1>4. CASE ~(answers[last] = "failed" /\ last # interrupted)
  <2>1. Failed(first..last) = Failed(first..(last - 1))
    BY <1>2, <1>4 DEF Failed
  <2>2. QED
    BY <1>1, <1>4, <2>1, FS_CardinalityType
<1>5. QED
  BY <1>3, <1>4

(***************************************************************************)
(* The instance keeps its types, and the loop its own.                     *)
(***************************************************************************)
LEMMA HangUpIsSound ==
    ASSUME TypeOK, OpenAtThreshold, HangUp,
           UNCHANGED <<breakerVars, bucketVars, provider, windowVars, stragglers>>
    PROVE  TypeOK' /\ OpenAtThreshold'
<1>1. pc' \in [Callers -> {"idle", "admitted", "sent"}]
  BY DEF HangUp, TypeOK
<1>2. QED
  BY <1>1 DEF TypeOK, OpenAtThreshold, breakerVars, bucketVars, windowVars

LEMMA InstanceIsKept ==
    ASSUME TypeOK, OpenAtThreshold, [BatchNext]_allVars
    PROVE  TypeOK' /\ OpenAtThreshold'
<1>1. CASE BeginFetch \/ SkipOpen \/ SendRequest \/ SkipRateLimited \/ TimePasses
  <2>1. [Next]_vars
    BY <1>1, BatchAssumption
    DEF BeginFetch, SkipOpen, SendRequest, SkipRateLimited, TimePasses,
        Next, CallerStep, GetStep
  <2>2. QED
    BY <2>1, TypesAreKept, OpeningIsKept
<1>2. CASE GetQuote \/ GetNothing \/ GetRefusal \/ GetFailure
  <2>1. Answered(Task) /\ Record
    BY <1>2 DEF GetQuote, GetNothing, GetRefusal, GetFailure, Record
  <2>2. QED
    BY <2>1, BatchAssumption, AnswerKeepsTypes, AnswerKeepsOpening
<1>3. CASE UNCHANGED vars
  BY <1>3, TypesAreKept, OpeningIsKept
<1>4. CASE SoftLimitSwallowed \/ HardLimitKills
  BY <1>4, HangUpIsSound DEF SoftLimitSwallowed, HardLimitKills
<1>5. QED
  BY <1>1, <1>2, <1>3, <1>4 DEF BatchNext, LoopStep, WriteSpot, RunFails, Finish, Over, allVars

LEMMA BatchTypesAreKept ==
    ASSUME BatchTypeOK, OpenAtThreshold, LoopInv, [BatchNext]_allVars
    PROVE  BatchTypeOK' /\ OpenAtThreshold'
<1> USE BatchAssumption
<1>1. TypeOK' /\ OpenAtThreshold'
  BY InstanceIsKept DEF BatchTypeOK
<1>2. CASE UNCHANGED batchVars
  BY <1>1, <1>2 DEF batchVars, BatchTypeOK, Instruments
<1>3. ASSUME AtRequest, Advance PROVE BatchTypeOK'
  <2>1. quoted' \in BOOLEAN
    BY <1>3 DEF Advance
  <2>2. QED
    BY <1>1, <1>3, <2>1 DEF AtRequest, Advance, BatchTypeOK, Instruments
<1>4. CASE GetQuote
  <2>1. quoted' \in BOOLEAN
    BY <1>4 DEF GetQuote
  <2>2. QED
    BY <1>1, <1>4, <2>1 DEF GetQuote, BatchTypeOK, Instruments
<1>5. CASE WriteSpot
  <2>1. quoted' \in BOOLEAN
    BY <1>5 DEF WriteSpot
  <2>2. QED
    BY <1>1, <1>5, <2>1 DEF WriteSpot, BatchTypeOK, Instruments, LoopInv, QuotedIsAnswered
<1>6. CASE RunFails \/ Finish \/ HardLimitKills
  <2>1. quoted' \in BOOLEAN
    BY <1>6 DEF RunFails, Finish, HardLimitKills, BatchTypeOK
  <2>2. QED
    BY <1>1, <1>6, <2>1 DEF RunFails, Finish, HardLimitKills, BatchTypeOK, Instruments
<1>7. CASE SoftLimitSwallowed
  <2>1. quoted' \in BOOLEAN
    BY <1>7 DEF SoftLimitSwallowed
  <2>2. QED
    BY <1>1, <1>7, <2>1 DEF SoftLimitSwallowed, BatchTypeOK, Instruments
<1>8. QED
  BY <1>1, <1>2, <1>3, <1>4, <1>5, <1>6, <1>7
  DEF BatchNext, LoopStep, TimePasses, BeginFetch, SkipOpen, SendRequest, SkipRateLimited,
      GetNothing, GetRefusal, GetFailure, Over, allVars

(***************************************************************************)
(* Calls and quotes come and go where the loop is.                         *)
(***************************************************************************)
LEMMA LoopIsKept ==
    ASSUME BatchTypeOK, LoopInv, [BatchNext]_allVars
    PROVE  LoopInv'
<1> USE BatchAssumption DEF LoopInv
<1>1. /\ Task \in Callers /\ next \in Nat /\ interrupted \in Nat
      /\ pc \in [Callers -> {"idle", "admitted", "sent"}]
  BY DEF BatchTypeOK, TypeOK
<1>2. CASE BeginFetch \/ SendRequest
  BY <1>1, <1>2
  DEF BeginFetch, SendRequest, AtRequest, Admit, Send, batchVars, breakerVars,
      InUse, QuotedIsAnswered, DoneIsPast, InterruptedIsPast
<1>3. CASE SkipOpen \/ SkipRateLimited \/ GetNothing \/ GetRefusal \/ GetFailure
  <2>1. /\ pc'[Task] = "idle" /\ ~quoted' /\ status' = "running"
        /\ next' = next + 1 /\ interrupted' = interrupted
    BY <1>1, <1>3
    DEF SkipOpen, SkipRateLimited, GetNothing, GetRefusal, GetFailure, AtRequest, Advance,
        RejectOpen, RejectRate, Answered, vars
  <2>2. QED
    BY <1>1, <2>1 DEF InUse, QuotedIsAnswered, DoneIsPast, InterruptedIsPast
<1>4. CASE GetQuote
  <2>1. pc'[Task] = "idle" /\ failures' = 0
    BY <1>1, <1>4 DEF GetQuote, Answered, RecordSuccess
  <2>2. QED
    BY <1>4, <2>1 DEF GetQuote, AtRequest, InUse, QuotedIsAnswered, DoneIsPast, InterruptedIsPast
<1>5. CASE WriteSpot \/ RunFails \/ Finish
  <2>1. pc' = pc /\ pc[Task] = "idle" /\ ~quoted'
    BY <1>5 DEF WriteSpot, RunFails, Finish, vars, InUse, AtRequest, QuotedIsAnswered, BatchTypeOK
  <2>2. next' >= next /\ interrupted' = interrupted
    BY <1>1, <1>5 DEF WriteSpot, RunFails, Finish
  <2>3. QED
    BY <1>1, <1>5, <2>1, <2>2
    DEF WriteSpot, RunFails, Finish, InUse, QuotedIsAnswered, DoneIsPast, InterruptedIsPast, BatchTypeOK
<1>6. CASE SoftLimitSwallowed \/ HardLimitKills
  <2>1. pc'[Task] = "idle" /\ ~quoted'
    BY <1>1, <1>6 DEF SoftLimitSwallowed, HardLimitKills, HangUp
  <2>2. QED
    BY <1>1, <1>6, <2>1
    DEF SoftLimitSwallowed, HardLimitKills, InUse, QuotedIsAnswered, DoneIsPast, InterruptedIsPast
<1>7. CASE TimePasses \/ Over \/ UNCHANGED allVars
  <2>1. UNCHANGED <<pc, failures, batchVars>>
    BY <1>7 DEF TimePasses, Tick, Over, allVars, vars, breakerVars
  <2>2. QED
    BY <2>1 DEF batchVars, InUse, AtRequest, QuotedIsAnswered, DoneIsPast, InterruptedIsPast
<1>8. QED
  BY <1>2, <1>3, <1>4, <1>5, <1>6, <1>7 DEF BatchNext, LoopStep

(***************************************************************************)
(* A request costs the bucket its price; everything else leaves it with as *)
(* much or more.                                                           *)
(***************************************************************************)
LEMMA OneMoreRequest ==
    ASSUME NEW n \in Nat PROVE (n + 1) * Cost = n * Cost + Cost /\ n * Cost \in Nat
BY OneMore, ConnectorAssumption

LEMMA StillEnough ==
    ASSUME NEW level \in Nat, NEW spent \in Nat, level + spent >= Capacity,
           NEW more \in Nat, more >= level
    PROVE  /\ more + spent >= Capacity
           /\ \A bill \in Nat : bill >= spent => more + bill >= Capacity
BY ConnectorAssumption

LEMMA RefillHelps == ASSUME TypeOK PROVE Refilled \in tokens..Capacity
BY ConnectorAssumption DEF TypeOK, Refilled, Lesser

LEMMA EnoughIsKept ==
    ASSUME BatchTypeOK, LoopInv, EnoughLeft, [BatchNext]_allVars
    PROVE  EnoughLeft'
<1> USE BatchAssumption, ConnectorAssumption DEF LoopInv
<1>1. /\ Task \in Callers /\ pc \in [Callers -> {"idle", "admitted", "sent"}]
      /\ next \in Nat \ {0} /\ tokens \in 0..Capacity /\ Refilled \in tokens..Capacity
  BY RefillHelps DEF BatchTypeOK, TypeOK
<1>2. Requests \in Nat /\ Requests * Cost \in Nat
  BY <1>1, OneMoreRequest DEF Requests
<1>3. ASSUME Requests' = Requests, tokens' \in tokens..Capacity, status = "running"
      PROVE  EnoughLeft'
  <2> DEFINE spent == Requests * Cost
  <2>1. /\ spent \in Nat /\ tokens \in Nat /\ tokens + spent >= Capacity
        /\ tokens' \in Nat /\ tokens' >= tokens
    BY <1>1, <1>2, <1>3 DEF EnoughLeft
  <2> HIDE DEF spent
  <2>2. tokens' + spent >= Capacity
    BY <2>1, StillEnough
  <2>3. QED
    BY <1>3, <2>2 DEF EnoughLeft, spent
<1>4. CASE BeginFetch
  BY <1>1, <1>3, <1>4 DEF BeginFetch, AtRequest, Admit, batchVars, bucketVars, Requests
<1>5. CASE SendRequest
  <2>1. Requests' = Requests + 1
    BY <1>1, <1>5 DEF SendRequest, Send, AtRequest, batchVars, Requests
  <2>2. tokens' = Refilled - Cost /\ status = "running"
    BY <1>5 DEF SendRequest, AtRequest, Send
  <2>3. Requests' * Cost = Requests * Cost + Cost
    BY <1>2, <2>1, OneMoreRequest
  <2>4. tokens' + Requests' * Cost >= Capacity
    BY <1>1, <1>2, <2>2, <2>3 DEF EnoughLeft
  <2>5. QED
    BY <2>4 DEF EnoughLeft
<1>6. CASE SkipOpen \/ SkipRateLimited
  <2>1. Requests' = Requests + 1 /\ status = "running"
    BY <1>1, <1>6
    DEF SkipOpen, SkipRateLimited, RejectOpen, RejectRate, AtRequest, Advance, Requests, vars
  <2>2. tokens' \in tokens..Capacity
    BY <1>1, <1>6
    DEF SkipOpen, SkipRateLimited, RejectOpen, RejectRate, vars, bucketVars
  <2>3. Requests' * Cost = Requests * Cost + Cost
    BY <1>2, <2>1, OneMoreRequest
  <2>4. tokens' + Requests' * Cost >= Capacity
    <3>1. tokens + Requests * Cost >= Capacity
      BY <2>1 DEF EnoughLeft
    <3>2. Requests' * Cost \in Nat /\ Requests' * Cost >= Requests * Cost
      BY <1>2, <2>3
    <3>3. tokens \in Nat /\ tokens' \in Nat /\ tokens' >= tokens
      BY <1>1, <2>2
    <3>4. QED
      BY <1>2, <3>1, <3>2, <3>3, StillEnough
  <2>5. QED
    BY <2>4 DEF EnoughLeft
<1>7. CASE GetQuote \/ GetNothing \/ GetRefusal \/ GetFailure
  <2>1. Requests' = Requests
    BY <1>1, <1>7
    DEF GetQuote, GetNothing, GetRefusal, GetFailure, Answered, AtRequest, Advance, Requests
  <2>2. tokens' = tokens /\ status = "running"
    BY <1>7
    DEF GetQuote, GetNothing, GetRefusal, GetFailure, Answered, AtRequest, bucketVars
  <2>3. QED
    BY <1>1, <1>3, <2>1, <2>2
<1>8. CASE WriteSpot
  <2>1. Requests' = Requests
    BY <1>1, <1>8 DEF WriteSpot, vars, Requests, InUse, AtRequest
  <2>2. tokens' = tokens /\ status = "running"
    BY <1>8 DEF WriteSpot, vars, bucketVars
  <2>3. QED
    BY <1>1, <1>3, <2>1, <2>2
<1>9. CASE RunFails \/ Finish \/ HardLimitKills
  BY <1>9 DEF RunFails, Finish, HardLimitKills, EnoughLeft
<1>10. CASE SoftLimitSwallowed
  <2>1. /\ Requests' = Requests \/ Requests' = Requests + 1
        /\ tokens' = tokens /\ status = "running"
    BY <1>1, <1>10 DEF SoftLimitSwallowed, HangUp, Requests, bucketVars
  <2>2. Requests' * Cost \in Nat /\ Requests' * Cost >= Requests * Cost
    BY <1>2, <2>1, OneMoreRequest
  <2>3. tokens + Requests * Cost >= Capacity
    BY <2>1 DEF EnoughLeft
  <2>4. tokens' + Requests' * Cost >= Capacity
    BY <1>1, <1>2, <2>1, <2>2, <2>3, StillEnough
  <2>5. QED
    BY <2>4 DEF EnoughLeft
<1>11. CASE TimePasses \/ Over \/ UNCHANGED allVars
  <2>1. UNCHANGED <<pc, tokens, batchVars>>
    BY <1>11 DEF TimePasses, Tick, Over, allVars, vars, bucketVars
  <2>2. Requests' = Requests /\ tokens' = tokens /\ status' = status
    BY <2>1 DEF batchVars, Requests
  <2>3. QED
    BY <2>2 DEF EnoughLeft
<1>12. QED
  BY <1>4, <1>5, <1>6, <1>7, <1>8, <1>9, <1>10, <1>11 DEF BatchNext, LoopStep

(***************************************************************************)
(* The instruments a full bucket pays for are never skipped for want of a  *)
(* token.                                                                  *)
(***************************************************************************)
LEMMA NoneTooDear ==
    ASSUME BatchTypeOK, EnoughLeft, SkipRateLimited
    PROVE  ~Affordable(next)
<1>1. /\ next \in Nat \ {0} /\ tokens \in 0..Capacity /\ Refilled \in tokens..Capacity
      /\ Refilled < Cost /\ tokens + Requests * Cost >= Capacity
  BY RefillHelps DEF BatchTypeOK, TypeOK, SkipRateLimited, RejectRate, AtRequest, EnoughLeft
<1>2. Requests = next - 1
  BY <1>1 DEF SkipRateLimited, RejectRate, AtRequest, Requests
<1>3. next * Cost = (next - 1) * Cost + Cost /\ (next - 1) * Cost \in Nat
  <2>1. next - 1 \in Nat /\ (next - 1) + 1 = next
    BY <1>1
  <2>2. QED
    BY <2>1, OneMoreRequest
<1>4. QED
  BY <1>1, <1>2, <1>3, ConnectorAssumption DEF Affordable

LEMMA AffordableBefore ==
    ASSUME NEW n \in Nat \ {0}, Affordable(n) PROVE Affordable(n - 1)
<1> DEFINE m == n - 1
<1>1. m \in Nat /\ n = m + 1
  OBVIOUS
<1> HIDE DEF m
<1>2. n * Cost = m * Cost + Cost /\ m * Cost \in Nat
  BY <1>1, OneMoreRequest
<1>3. m * Cost <= Capacity
  BY <1>2, ConnectorAssumption DEF Affordable
<1>4. QED
  BY <1>3 DEF Affordable, m

(***************************************************************************)
(* Streaks begin after a 2xx answer, grow with refusals and failures, and  *)
(* the threshold's failure turns one into an explanation.                  *)
(***************************************************************************)
LEMMA NothingYet ==
    ASSUME NEW n \in Nat \ {0} PROVE n \in 1..n /\ \A k \in n..(n - 1) : FALSE
OBVIOUS

LEMMA StreakBegins == ASSUME next' \in Nat \ {0}, failures' = 0 PROVE Streak'
<1>1. next' \in 1..next' /\ \A n \in next'..(next' - 1) : FALSE
  BY NothingYet
<1>2. Failed(next..(next - 1))' = {}
  BY <1>1 DEF Failed
<1>3. Cardinality(Failed(next..(next - 1)))' >= failures'
  <2>1. Cardinality({}) = 0
    BY FS_EmptySet
  <2>2. QED
    BY <1>2, <2>1
<1>4. QED
  BY <1>1, <1>3 DEF Streak

LEMMA StreakGrows ==
    ASSUME next \in Nat \ {0}, failures \in Nat, Streak,
           answers[next] \in {"refused", "failed"} /\ next # interrupted,
           answers' = answers, interrupted' = interrupted, next' = next + 1
    PROVE  /\ failures' = failures \/ (answers[next] = "failed" /\ failures' \in 0..(failures + 1))
                => Streak'
           /\ answers[next] = "failed" /\ failures + 1 >= Threshold => TrippedBefore(next)'
<1>1. PICK first \in 1..next :
          /\ \A n \in first..(next - 1) : Unanswered(n)
          /\ Cardinality(Failed(first..(next - 1))) >= failures
  BY DEF Streak
<1>2. first \in Nat /\ first <= next /\ \A n \in first..next : Unanswered(n)
  BY <1>1 DEF Unanswered
<1>3. /\ Cardinality(Failed(first..(next - 1))) \in Nat
      /\ Cardinality(Failed(first..next)) =
             Cardinality(Failed(first..(next - 1))) + IF answers[next] = "failed" THEN 1 ELSE 0
  BY <1>2, StretchGrows
<1>4. first \in 1..next' /\ next' - 1 = next
  BY <1>1
<1>5. ASSUME failures' = failures \/ (answers[next] = "failed" /\ failures' \in 0..(failures + 1))
      PROVE  Streak'
  <2>1. Cardinality(Failed(first..next)) >= failures'
    BY <1>1, <1>3, <1>5
  <2>2. Failed(first..(next - 1))' = Failed(first..next)
    BY <1>4 DEF Failed
  <2>3. QED
    BY <1>2, <1>4, <2>1, <2>2 DEF Streak, Failed, Unanswered
<1>6. ASSUME answers[next] = "failed", failures + 1 >= Threshold PROVE TrippedBefore(next)'
  <2>1. Cardinality(Failed(first..next)) >= Threshold
    BY <1>1, <1>3, <1>6, ConnectorAssumption
  <2>2. first \in 1..(next' - 1) /\ next \in 1..(next' - 1)
    BY <1>1, <1>4
  <2>3. QED
    BY <1>2, <2>1, <2>2 DEF TrippedBefore, Failed, Unanswered
<1>7. QED
  BY <1>5, <1>6

LEMMA StreakIsCutShort ==
    ASSUME next \in Nat \ {0}, interrupted = 0, failures \in Nat, Streak, answers' = answers,
           interrupted' = next, next' = next + 1, failures' = failures
    PROVE  Streak'
<1>1. PICK first \in 1..next :
          /\ \A n \in first..(next - 1) : Unanswered(n)
          /\ Cardinality(Failed(first..(next - 1))) >= failures
  BY DEF Streak
<1>2. first \in 1..next' /\ next' - 1 = next /\ first..next = (first..(next - 1)) \cup {next}
  BY <1>1
<1>3. \A n \in first..(next - 1) : n # 0 /\ n # next
  BY <1>1
<1>4. \A n \in first..next : Unanswered(n)'
  BY <1>1, <1>2, <1>3 DEF Unanswered
<1>5. Failed(first..(next - 1))' = Failed(first..(next - 1))
  BY <1>2, <1>3 DEF Failed
<1>6. QED
  BY <1>1, <1>2, <1>4, <1>5 DEF Streak

(***************************************************************************)
(* The loop's steps keep the blame up to date.                             *)
(***************************************************************************)
LEMMA BlameIsKept ==
    ASSUME BatchTypeOK, OpenAtThreshold, LoopInv, EnoughLeft, Blamed, [BatchNext]_allVars
    PROVE  Blamed'
<1> USE ConnectorAssumption
<1>0. /\ next \in Nat \ {0} /\ failures \in 0..Threshold
      /\ 0 # Threshold
  BY BatchAssumption DEF BatchTypeOK, TypeOK
<1>1. ASSUME AtRequest, Advance
      PROVE  /\ next' - 1 = next /\ next' = next + 1 /\ answers' = answers
             /\ interrupted' = interrupted
             /\ Affordable(next - 1)' => Affordable(next)
             /\ Affordable(next) => IF isOpen THEN TrippedBefore(next) ELSE Streak
  <2>1. /\ next' - 1 = next /\ next' = next + 1 /\ answers' = answers
        /\ interrupted' = interrupted /\ status = "running"
    BY <1>0, <1>1 DEF AtRequest, Advance
  <2>2. Affordable(next - 1)' => Affordable(next)
    BY <2>1 DEF Affordable
  <2>3. Affordable(next) => Affordable(next - 1)
    BY <1>0, AffordableBefore
  <2>4. QED
    BY <2>1, <2>2, <2>3 DEF Blamed
<1>2. CASE SkipOpen
  <2>1. isOpen' = isOpen /\ isOpen /\ AtRequest /\ Advance
    BY <1>2 DEF SkipOpen, RejectOpen, CoolingDown, vars, breakerVars
  <2>2. Affordable(next - 1)' => TrippedBefore(next)'
    BY <1>0, <1>1, <2>1, TrippedIsKept
  <2>3. QED
    BY <2>1, <2>2 DEF Blamed
<1>3. CASE SkipRateLimited
  <2>1. ~Affordable(next - 1)'
    BY <1>1, <1>3, NoneTooDear DEF SkipRateLimited
  <2>2. QED
    BY <2>1 DEF Blamed
<1>4. ASSUME RecordSuccess, next' \in Nat \ {0} PROVE Blamed'
  <2>1. failures' = 0 /\ ~isOpen'
    BY <1>4 DEF RecordSuccess
  <2>2. QED
    BY <1>4, <2>1, StreakBegins DEF Blamed
<1>5. CASE GetQuote \/ GetNothing
  BY <1>0, <1>4, <1>5 DEF GetQuote, GetNothing, Advance
<1>6. CASE GetRefusal \/ GetFailure
  <2>1. AtRequest /\ Advance /\ answers[next] \in {"refused", "failed"} /\ next # interrupted
    BY <1>0, <1>6 DEF GetRefusal, GetFailure, LoopInv, InterruptedIsPast, BatchTypeOK
  <2>2. ASSUME Affordable(next - 1)', isOpen PROVE TrippedBefore(next)'
    BY <1>0, <1>1, <2>1, <2>2, TrippedIsKept
  <2>3. ASSUME Affordable(next - 1)', ~isOpen
        PROVE  /\ failures' = failures \/ (answers[next] = "failed" /\ failures' \in 0..(failures + 1))
                    => Streak'
               /\ answers[next] = "failed" /\ failures + 1 >= Threshold => TrippedBefore(next)'
    BY <1>0, <1>1, <2>1, <2>3, StreakGrows
  <2>4. CASE GetRefusal
    <3>1. failures' = failures /\ isOpen' = isOpen
      BY <2>4 DEF GetRefusal, RecordNothing, breakerVars
    <3>2. QED
      BY <2>2, <2>3, <3>1 DEF Blamed
  <2>5. CASE GetFailure
    <3>1. /\ answers[next] = "failed" /\ failures' \in 0..(failures + 1)
      BY <1>0, <2>5 DEF GetFailure, RecordFailure, Lesser
    <3>2. isOpen' <=> isOpen \/ failures + 1 >= Threshold
      BY <2>5 DEF GetFailure, RecordFailure
    <3>3. QED
      BY <2>2, <2>3, <3>1, <3>2 DEF Blamed
  <2>6. QED
    BY <1>6, <2>4, <2>5
<1>7. CASE WriteSpot
  <2>1. failures' = 0 /\ ~isOpen' /\ next' \in Nat \ {0}
    BY <1>0, <1>7
    DEF WriteSpot, vars, breakerVars, LoopInv, QuotedIsAnswered, OpenAtThreshold
  <2>2. QED
    BY <2>1, StreakBegins DEF Blamed
<1>8. CASE RunFails \/ Finish \/ HardLimitKills
  BY <1>8 DEF RunFails, Finish, HardLimitKills, Blamed
<1>9. CASE SoftLimitSwallowed
  <2>1. /\ status = "running" /\ interrupted = 0 /\ answers' = answers /\ interrupted' = next
        /\ next' = next + 1 /\ failures' = failures /\ isOpen' = isOpen
    BY <1>9 DEF SoftLimitSwallowed, breakerVars
  <2>2. Affordable(next - 1)' => IF isOpen THEN TrippedBefore(next) ELSE Streak
    BY <1>0, <2>1, AffordableBefore DEF Blamed, Affordable
  <2>3. TrippedBefore(next) => TrippedBefore(next)'
    BY <1>0, <2>1, TrippedIsKept
  <2>4. Streak => Streak'
    BY <1>0, <2>1, StreakIsCutShort
  <2>5. QED
    BY <2>1, <2>2, <2>3, <2>4 DEF Blamed
<1>10. CASE BeginFetch \/ SendRequest \/ TimePasses \/ Over \/ UNCHANGED allVars
  <2>1. UNCHANGED <<answers, next, interrupted, status, failures, isOpen>>
    BY <1>10
    DEF BeginFetch, SendRequest, TimePasses, Over, Admit, Send, Tick, allVars, vars, batchVars, breakerVars
  <2>2. QED
    BY <2>1 DEF Blamed, Affordable, TrippedBefore, Streak, Failed, Unanswered
<1>11. QED
  BY <1>2, <1>3, <1>5, <1>6, <1>7, <1>8, <1>9, <1>10 DEF BatchNext, LoopStep

(***************************************************************************)
(* Whatever the loop leaves behind is written, or explained.               *)
(***************************************************************************)
LEMMA LeftIsExplained ==
    ASSUME BatchTypeOK, Explained, answers' = answers, updated \subseteq updated',
           next' = next \/ next' = next + 1,
           interrupted' = interrupted \/ (interrupted = 0 /\ interrupted' = next),
           next' = next + 1 /\ answers[next] = "quote" /\ Affordable(next)
               => next \in updated' \/ next = interrupted' \/ TrippedBefore(next)
    PROVE  Explained'
<1>1. next \in Nat \ {0} /\ interrupted \in Nat
  BY BatchAssumption DEF BatchTypeOK
<1>2. ASSUME NEW i \in 1..(next' - 1), answers[i] = "quote", Affordable(i)
      PROVE  i \in updated' \/ i = interrupted' \/ TrippedBefore(i)
  <2>1. CASE i = next
    <3>1. next' = next + 1
      BY <1>1, <2>1
    <3>2. QED
      BY <1>2, <2>1, <3>1
  <2>2. CASE i # next
    <3>1. i \in 1..(next - 1)
      BY <1>1, <2>2
    <3>2. i = interrupted => i = interrupted'
      BY <3>1
    <3>3. QED
      BY <1>2, <3>1, <3>2 DEF Explained
  <2>3. QED
    BY <2>1, <2>2
<1>3. ASSUME NEW i \in 1..(next' - 1), answers'[i] = "quote", Affordable(i)
      PROVE  i \in updated' \/ i = interrupted' \/ TrippedBefore(i)'
  <2>1. i \in Nat /\ (i \in updated' \/ i = interrupted' \/ TrippedBefore(i))
    BY <1>1, <1>2, <1>3
  <2>2. i <= next
    BY <1>1
  <2>3. QED
    BY <2>1, <2>2, ExplanationIsKept
<1>4. QED
  BY <1>3 DEF Explained, Affordable

LEMMA ExplainedIsKept ==
    ASSUME BatchTypeOK, OpenAtThreshold, LoopInv, EnoughLeft, Blamed, Explained,
           [BatchNext]_allVars
    PROVE  Explained'
<1>1. next \in Nat \ {0}
  BY BatchAssumption DEF BatchTypeOK
<1>2. CASE SkipOpen
  <2>1. isOpen /\ status = "running" /\ Advance
    BY <1>2 DEF SkipOpen, RejectOpen, CoolingDown, AtRequest
  <2>2. Affordable(next) => TrippedBefore(next)
    BY <1>1, <2>1, AffordableBefore DEF Blamed
  <2>3. QED
    BY <2>1, <2>2, LeftIsExplained DEF Advance
<1>3. CASE SkipRateLimited
  BY <1>3, NoneTooDear, LeftIsExplained DEF SkipRateLimited, Advance
<1>4. CASE GetNothing \/ GetRefusal \/ GetFailure
  BY <1>4, LeftIsExplained DEF GetNothing, GetRefusal, GetFailure, Advance
<1>5. CASE WriteSpot
  BY <1>5, LeftIsExplained DEF WriteSpot
<1>6. CASE SoftLimitSwallowed
  BY <1>6, LeftIsExplained DEF SoftLimitSwallowed
<1>7. CASE UNCHANGED <<answers, next, updated, interrupted>>
  BY <1>1, <1>7, LeftIsExplained
<1>8. QED
  BY <1>2, <1>3, <1>4, <1>5, <1>6, <1>7
  DEF BatchNext, LoopStep, BeginFetch, SendRequest, GetQuote, RunFails, HardLimitKills, Finish,
      TimePasses, Over, allVars, batchVars

LEMMA BatchStarts == ASSUME BatchInit PROVE BatchInv
<1> USE ConnectorAssumption, BatchAssumption
<1>1. TypeOK /\ OpenAtThreshold
  BY InitIsSound DEF BatchInit
<1>2. BatchTypeOK
  <2>1. quoted \in BOOLEAN
    BY DEF BatchInit
  <2>2. next \in 1..(Size + 1) /\ updated \in SUBSET Instruments /\ interrupted \in 0..Size
    BY DEF BatchInit
  <2>3. QED
    BY <1>1, <2>1, <2>2 DEF BatchInit, BatchTypeOK
<1>3. LoopInv
  BY DEF BatchInit, Init, LoopInv, InUse, QuotedIsAnswered, DoneIsPast, InterruptedIsPast
<1>4. EnoughLeft
  <2>1. Requests = 0
    BY DEF BatchInit, Init, Requests
  <2>2. QED
    BY <2>1 DEF BatchInit, Init, EnoughLeft
<1>5. Streak
  <2>1. 1 \in 1..next /\ failures = 0 /\ \A n \in 1..(next - 1) : FALSE
    BY DEF BatchInit, Init
  <2>2. Failed(1..(next - 1)) = {} /\ Cardinality({}) = 0
    BY <2>1, FS_EmptySet DEF Failed
  <2>3. Cardinality(Failed(1..(next - 1))) >= failures
    BY <2>1, <2>2
  <2>4. QED
    BY <2>1, <2>3 DEF Streak
<1>6. Blamed /\ Explained
  BY <1>5 DEF Blamed, Explained, BatchInit, Init
<1>7. QED
  BY <1>1, <1>2, <1>3, <1>4, <1>6 DEF BatchInv

(***************************************************************************)
(* The inductive invariant of the batch.                                   *)
(***************************************************************************)
THEOREM BatchInvariant == BatchSpec => []BatchInv
<1>1. BatchInv /\ [BatchNext]_allVars => BatchInv'
  BY BatchTypesAreKept, LoopIsKept, EnoughIsKept, BlameIsKept, ExplainedIsKept DEF BatchInv
<1>2. QED
  BY <1>1, BatchStarts, PTL DEF BatchSpec

(***************************************************************************)
(* The batch keeps its types, the loop's and its connector's.              *)
(***************************************************************************)
THEOREM BatchTypes == BatchSpec => []BatchTypeOK
<1>1. BatchInv => BatchTypeOK
  BY DEF BatchInv
<1>2. QED
  BY <1>1, BatchInvariant, PTL

(***************************************************************************)
(* However long the batch, whatever the provider answers and wherever the  *)
(* soft time limit strikes, a finished run has left no instrument out that *)
(* a full bucket pays for, but the one whose request the limit cut short,  *)
(* unless a threshold of failures in a row came before it.                 *)
(***************************************************************************)
THEOREM BatchSkips == BatchSpec => []SkipsAreExplained
<1>1. BatchInv => SkipsAreExplained
  <2> SUFFICES ASSUME BatchInv, status = "done", NEW i \in Instruments,
                      answers[i] = "quote", i * Cost <= Capacity
               PROVE  i \in updated \/ i = interrupted \/ TrippedBefore(i)
    BY DEF SkipsAreExplained
  <2>1. next \in Nat /\ next > Size /\ i \in 1..Size
    BY BatchAssumption DEF BatchInv, LoopInv, DoneIsPast, BatchTypeOK, Instruments
  <2>2. i \in 1..(next - 1)
    BY <2>1, BatchAssumption
  <2>3. QED
    BY <2>2 DEF BatchInv, Explained, Affordable
<1>2. QED
  BY <1>1, BatchInvariant, PTL
=============================================================================
