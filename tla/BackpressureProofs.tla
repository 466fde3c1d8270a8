-------------------------- MODULE BackpressureProofs --------------------------
(***************************************************************************)
(* What TLAPS proves of Backpressure, for any finite set of callers, any   *)
(* number of permits, thresholds, memory limit and message sizes.          *)
(***************************************************************************)
EXTENDS Backpressure, FiniteSetTheorems, TLAPS

LEMMA WrapInRange ==
  ASSUME NEW x \in Nat, NEW y \in Nat
  PROVE  Add(x, y) \in 0..(UsizeMod - 1) /\ Sub(x, y) \in 0..(UsizeMod - 1)
BY BackpressureAssumption DEF Add, Sub

LEMMA ZeroInRange == 0 \in 0..(UsizeMod - 1)
BY BackpressureAssumption

LEMMA TypeInit == Init => TypeOK
<1> SUFFICES ASSUME Init PROVE TypeOK
  OBVIOUS
<1> USE BackpressureAssumption DEF Init
<1>1. max_inflight \in Nat /\ inflight_count \in 0..(UsizeMod - 1)
  OBVIOUS
<1>2. current_memory \in 0..(UsizeMod - 1) /\ avg_message_size \in Nat
  OBVIOUS
<1>3. pc \in [Callers -> PcValues]
  BY DEF PcValues
<1> QED BY <1>1, <1>2, <1>3 DEF TypeOK

LEMMA TypeStep == TypeOK /\ [Next]_vars => TypeOK'
<1> SUFFICES ASSUME TypeOK, [Next]_vars PROVE TypeOK'
  OBVIOUS
<1> USE DEF TypeOK, PcValues, Goto, counters, memory, locals
<1>1. ASSUME NEW c \in Callers, AcquireStart(c) PROVE TypeOK'
  BY <1>1 DEF AcquireStart
<1>2. ASSUME NEW c \in Callers, LoadMemory(c) PROVE TypeOK'
  BY <1>2 DEF LoadMemory
<1>3. ASSUME NEW c \in Callers, MemoryExhausted(c) PROVE TypeOK'
  BY <1>3 DEF MemoryExhausted
<1>4. ASSUME NEW c \in Callers, Reserve(c) PROVE TypeOK'
  <2>1. current_memory' \in 0..(UsizeMod - 1)
    BY <1>4, WrapInRange DEF Reserve
  <2> QED BY <1>4, <2>1 DEF Reserve
<1>5. ASSUME NEW c \in Callers, ReserveGivesUp(c) PROVE TypeOK'
  BY <1>5 DEF ReserveGivesUp
<1>6. ASSUME NEW c \in Callers, VerifyReservation(c) PROVE TypeOK'
  BY <1>6 DEF VerifyReservation
<1>7. ASSUME NEW c \in Callers, TakePermit(c) PROVE TypeOK'
  BY <1>7 DEF TakePermit
<1>8. ASSUME NEW c \in Callers, PermitTimeout(c) PROVE TypeOK'
  BY <1>8 DEF PermitTimeout
<1>9. ASSUME NEW c \in Callers, CountPermit(c) PROVE TypeOK'
  <2>1. inflight_count' \in 0..(UsizeMod - 1)
    BY <1>9, WrapInRange DEF CountPermit
  <2> QED BY <1>9, <2>1 DEF CountPermit
<1>10. ASSUME NEW c \in Callers, TryAcquireStart(c) PROVE TypeOK'
  BY <1>10 DEF TryAcquireStart
<1>11. ASSUME NEW c \in Callers, TryTakePermit(c) PROVE TypeOK'
  BY <1>11 DEF TryTakePermit
<1>12. ASSUME NEW c \in Callers, TryCountPermit(c) PROVE TypeOK'
  <2> DEFINE avg == IF MemoryLimit = NoLimit THEN 0 ELSE avg_message_size
  <2>1. avg \in Nat
    OBVIOUS
  <2>2. ASSUME NEW x \in Nat PROVE Add(current_memory, x) \in 0..(UsizeMod - 1)
    <3>1. current_memory \in Nat
      OBVIOUS
    <3> QED BY <3>1, WrapInRange
  <2>3. Add(inflight_count, 1) \in 0..(UsizeMod - 1)
    BY WrapInRange
  <2> QED BY <1>12, <2>1, <2>2, <2>3 DEF TryCountPermit
<1>13. ASSUME NEW c \in Callers, LoadAverage(c) PROVE TypeOK'
  <2>1. PICK size \in Sizes : est' = [est EXCEPT ![c] = (avg_message_size * 9 + size) \div 10]
    BY <1>13 DEF LoadAverage
  <2>2. (avg_message_size * 9 + size) \div 10 \in Nat
    <3>1. size \in Nat /\ avg_message_size * 9 + size \in Nat
      BY BackpressureAssumption
    <3>2. \A x \in Nat : x \div 10 \in Nat
      OBVIOUS
    <3> QED BY <3>1, <3>2
  <2> QED BY <1>13, <2>1, <2>2 DEF LoadAverage
<1>14. ASSUME NEW c \in Callers, StoreAverage(c) PROVE TypeOK'
  BY <1>14 DEF StoreAverage
<1>15. ASSUME NEW c \in Callers, DropCount(c) PROVE TypeOK'
  <2>1. inflight_count' \in 0..(UsizeMod - 1)
    BY <1>15, WrapInRange DEF DropCount
  <2> QED BY <1>15, <2>1 DEF DropCount
<1>16. ASSUME NEW c \in Callers, DropMemory(c) PROVE TypeOK'
  <2>1. current_memory' \in 0..(UsizeMod - 1)
    BY <1>16, WrapInRange DEF DropMemory
  <2> QED BY <1>16, <2>1 DEF DropMemory
<1>17. ASSUME NEW c \in Callers, DropPermit(c) PROVE TypeOK'
  BY <1>17 DEF DropPermit
<1>18. CASE ShouldPause
  BY <1>18 DEF ShouldPause
<1>19. CASE ShouldResume
  BY <1>19 DEF ShouldResume
<1>20. CASE AdjustLimits
  BY <1>20 DEF AdjustLimits
<1>21. CASE ForceCleanup
  BY <1>21, ZeroInRange DEF ForceCleanup
<1>22. CASE UNCHANGED vars
  BY <1>22 DEF vars
<1> QED
  BY <1>1, <1>2, <1>3, <1>4, <1>5, <1>6, <1>7, <1>8, <1>9, <1>10, <1>11, <1>12, <1>13, <1>14, <1>15, <1>16, <1>17, <1>18, <1>19, <1>20, <1>21, <1>22 DEF Next

(* Every variable keeps its type: no atomic leaves the width of usize. *)
THEOREM TypeCorrect == Spec => []TypeOK
<1>1. Init => TypeOK
  BY TypeInit
<1>2. TypeOK /\ [Next]_vars => TypeOK'
  BY TypeStep
<1> QED BY <1>1, <1>2, PTL DEF Spec

------------------------------------------------------------------------------
(* A caller enters or leaves a set of callers: what happens to its size. *)

LEMMA EnterSet ==
  ASSUME NEW S \in SUBSET Callers, NEW c \in Callers, c \notin S
  PROVE  /\ Cardinality(S) \in Nat
         /\ Cardinality(S \cup {c}) = Cardinality(S) + 1
         /\ Cardinality(S \cup {c}) <= Cardinality(Callers)
<1>1. IsFiniteSet(Callers)
  BY BackpressureAssumption
<1>2. IsFiniteSet(S)
  BY <1>1, FS_Subset
<1>3. S \cup {c} \in SUBSET Callers
  OBVIOUS
<1> QED BY <1>1, <1>2, <1>3, FS_CardinalityType, FS_AddElement, FS_Subset

LEMMA LeaveSet ==
  ASSUME NEW S \in SUBSET Callers, NEW c \in S
  PROVE  /\ Cardinality(S) \in Nat \ {0}
         /\ Cardinality(S \ {c}) = Cardinality(S) - 1
<1>1. IsFiniteSet(S)
  BY BackpressureAssumption, FS_Subset
<1>2. Cardinality(S) \in Nat /\ S # {}
  BY <1>1, FS_CardinalityType
<1> QED BY <1>1, <1>2, FS_EmptySet, FS_RemoveElement

(* What a step does to the sets, from what it does to pc. *)
LEMMA MoveOf ==
  ASSUME TypeOK, NEW c \in Callers, NEW l \in PcValues, Goto(c, l)
  PROVE  /\ Holding' = IF l \in {"count", "trycount", "held", "average", "uncounted", "return"}
                       THEN Holding \cup {c} ELSE Holding \ {c}
         /\ Counted' = IF l \in {"held", "average"} THEN Counted \cup {c} ELSE Counted \ {c}
BY DEF TypeOK, Goto, Holding, Counted
------------------------------------------------------------------------------
(* The inductive invariant.  The semaphore's part always holds; the          *)
(* counter's part does not survive force_cleanup(), which zeroes the count   *)
(* of permits that are still out.                                            *)

AccountingInv ==
  /\ TypeOK
  /\ SemaphoreAccounting
  /\ InflightMatchesPermits

LEMMA CountUp ==
  ASSUME TypeOK, InflightMatchesPermits, ~cleaned, NEW c \in Callers, c \notin Counted
  PROVE  Add(inflight_count, 1) = Cardinality(Counted \cup {c})
<1>1. /\ Cardinality(Counted) \in Nat
      /\ Cardinality(Counted \cup {c}) = Cardinality(Counted) + 1
      /\ Cardinality(Counted \cup {c}) <= Cardinality(Callers)
  BY EnterSet DEF Counted
<1>2. Cardinality(Callers) \in Nat /\ Cardinality(Callers) < UsizeMod /\ UsizeMod \in Nat
  BY BackpressureAssumption, FS_CardinalityType
<1>3. inflight_count + 1 \in 0..(UsizeMod - 1)
  BY <1>1, <1>2 DEF InflightMatchesPermits
<1>4. \A n \in 0..(UsizeMod - 1) : n % UsizeMod = n
  BY <1>2
<1> QED BY <1>1, <1>3, <1>4 DEF Add, InflightMatchesPermits

LEMMA CountDown ==
  ASSUME TypeOK, InflightMatchesPermits, ~cleaned, NEW c \in Counted
  PROVE  Sub(inflight_count, 1) = Cardinality(Counted \ {c})
<1>1. /\ Cardinality(Counted) \in Nat \ {0}
      /\ Cardinality(Counted \ {c}) = Cardinality(Counted) - 1
  BY LeaveSet DEF Counted
<1>2. UsizeMod \in Nat
  BY BackpressureAssumption
<1>3. inflight_count - 1 \in 0..(UsizeMod - 1)
  BY <1>1, <1>2 DEF InflightMatchesPermits, TypeOK
<1>4. \A n \in 0..(UsizeMod - 1) : n % UsizeMod = n
  BY <1>2
<1> QED BY <1>1, <1>3, <1>4 DEF Sub, InflightMatchesPermits

(* A step of one caller changes the set of permits out, the semaphore and    *)
(* the counter in one of these ways.                                         *)
PermitStep(c) ==
  \/ Holding' = Holding /\ available' = available
  \/ c \notin Holding /\ Holding' = Holding \cup {c} /\ available' = available - 1
  \/ c \in Holding /\ Holding' = Holding \ {c} /\ available' = available + 1

CountStep(c) ==
  \/ Counted' = Counted /\ inflight_count' = inflight_count
  \/ c \notin Counted /\ Counted' = Counted \cup {c} /\ inflight_count' = Add(inflight_count, 1)
  \/ c \in Counted /\ Counted' = Counted \ {c} /\ inflight_count' = Sub(inflight_count, 1)

LEMMA StepKeepsAccounting ==
  ASSUME AccountingInv, TypeOK', NEW c \in Callers, PermitStep(c), CountStep(c), cleaned' = cleaned
  PROVE  AccountingInv'
<1>1. SemaphoreAccounting'
  <2>1. CASE Holding' = Holding /\ available' = available
    BY <2>1 DEF AccountingInv, SemaphoreAccounting
  <2>2. CASE c \notin Holding /\ Holding' = Holding \cup {c} /\ available' = available - 1
    <3>1. Cardinality(Holding) \in Nat /\ Cardinality(Holding \cup {c}) = Cardinality(Holding) + 1
      BY <2>2, EnterSet DEF Holding
    <3> QED BY <2>2, <3>1 DEF AccountingInv, SemaphoreAccounting, TypeOK
  <2>3. CASE c \in Holding /\ Holding' = Holding \ {c} /\ available' = available + 1
    <3>1. Cardinality(Holding) \in Nat /\ Cardinality(Holding \ {c}) = Cardinality(Holding) - 1
      BY <2>3, LeaveSet DEF Holding
    <3> QED BY <2>3, <3>1 DEF AccountingInv, SemaphoreAccounting, TypeOK
  <2> QED BY <2>1, <2>2, <2>3 DEF PermitStep
<1>2. ASSUME ~cleaned PROVE InflightMatchesPermits'
  <2>1. TypeOK /\ InflightMatchesPermits /\ ~cleaned
    BY <1>2 DEF AccountingInv
  <2>2. CASE Counted' = Counted /\ inflight_count' = inflight_count
    BY <2>1, <2>2 DEF InflightMatchesPermits
  <2>3. CASE c \notin Counted /\ Counted' = Counted \cup {c} /\ inflight_count' = Add(inflight_count, 1)
    BY <2>1, <2>3, CountUp DEF InflightMatchesPermits
  <2>4. CASE c \in Counted /\ Counted' = Counted \ {c} /\ inflight_count' = Sub(inflight_count, 1)
    BY <2>1, <2>4, CountDown DEF InflightMatchesPermits
  <2> QED BY <2>2, <2>3, <2>4 DEF CountStep
<1>3. cleaned => InflightMatchesPermits'
  BY DEF InflightMatchesPermits
<1> QED BY <1>1, <1>2, <1>3 DEF AccountingInv

LEMMA CallerSteps ==
  ASSUME TypeOK, NEW c \in Callers,
         \/ AcquireStart(c) \/ LoadMemory(c) \/ MemoryExhausted(c)
         \/ Reserve(c) \/ ReserveGivesUp(c) \/ VerifyReservation(c)
         \/ TakePermit(c) \/ PermitTimeout(c) \/ CountPermit(c)
         \/ TryAcquireStart(c) \/ TryTakePermit(c) \/ TryCountPermit(c)
         \/ LoadAverage(c) \/ StoreAverage(c)
         \/ DropCount(c) \/ DropMemory(c) \/ DropPermit(c)
  PROVE  PermitStep(c) /\ CountStep(c) /\ cleaned' = cleaned
<1> USE DEF PermitStep, CountStep, counters
<1>1. \A l \in PcValues : Goto(c, l) =>
        /\ Holding' = IF l \in {"count", "trycount", "held", "average", "uncounted", "return"}
                      THEN Holding \cup {c} ELSE Holding \ {c}
        /\ Counted' = IF l \in {"held", "average"} THEN Counted \cup {c} ELSE Counted \ {c}
  BY MoveOf
<1>2. /\ c \in Holding <=> pc[c] \in {"count", "trycount", "held", "average", "uncounted", "return"}
      /\ c \in Counted <=> pc[c] \in {"held", "average"}
  BY DEF Holding, Counted
<1>3. CASE AcquireStart(c)
  BY <1>1, <1>2, <1>3 DEF AcquireStart, PcValues
<1>4. CASE LoadMemory(c)
  <2>1. CASE Goto(c, "cas")
    BY <1>1, <1>2, <1>4, <2>1 DEF LoadMemory, PcValues
  <2>2. CASE pc' = pc
    BY <1>4, <2>2 DEF LoadMemory, Holding, Counted
  <2> QED BY <1>4, <2>1, <2>2 DEF LoadMemory
<1>5. CASE MemoryExhausted(c)
  BY <1>1, <1>2, <1>5 DEF MemoryExhausted, PcValues
<1>6. CASE Reserve(c)
  BY <1>1, <1>2, <1>6 DEF Reserve, PcValues
<1>7. CASE ReserveGivesUp(c)
  BY <1>1, <1>2, <1>7 DEF ReserveGivesUp, PcValues
<1>8. CASE VerifyReservation(c)
  BY <1>1, <1>2, <1>8 DEF VerifyReservation, PcValues
<1>9. CASE TakePermit(c)
  BY <1>1, <1>2, <1>9 DEF TakePermit, PcValues
<1>10. CASE PermitTimeout(c)
  BY <1>1, <1>2, <1>10 DEF PermitTimeout, PcValues
<1>11. CASE CountPermit(c)
  BY <1>1, <1>2, <1>11 DEF CountPermit, PcValues
<1>12. CASE TryAcquireStart(c)
  BY <1>1, <1>2, <1>12 DEF TryAcquireStart, PcValues
<1>13. CASE TryTakePermit(c)
  BY <1>1, <1>2, <1>13 DEF TryTakePermit, PcValues
<1>14. CASE TryCountPermit(c)
  BY <1>1, <1>2, <1>14 DEF TryCountPermit, PcValues
<1>15. CASE LoadAverage(c)
  BY <1>1, <1>2, <1>15 DEF LoadAverage, PcValues
<1>16. CASE StoreAverage(c)
  BY <1>1, <1>2, <1>16 DEF StoreAverage, PcValues
<1>17. CASE DropCount(c)
  BY <1>1, <1>2, <1>17 DEF DropCount, PcValues
<1>18. CASE DropMemory(c)
  BY <1>1, <1>2, <1>18 DEF DropMemory, PcValues
<1>19. CASE DropPermit(c)
  BY <1>1, <1>2, <1>19 DEF DropPermit, PcValues
<1> QED BY <1>3, <1>4, <1>5, <1>6, <1>7, <1>8, <1>9, <1>10, <1>11, <1>12, <1>13, <1>14, <1>15, <1>16, <1>17, <1>18, <1>19

LEMMA AccountingStep == AccountingInv /\ [Next]_vars => AccountingInv'
<1> SUFFICES ASSUME AccountingInv, [Next]_vars PROVE AccountingInv'
  OBVIOUS
<1>1. TypeOK /\ TypeOK'
  BY TypeStep DEF AccountingInv
<1>2. ASSUME NEW c \in Callers, PermitStep(c) /\ CountStep(c) /\ cleaned' = cleaned PROVE AccountingInv'
  BY <1>1, <1>2, StepKeepsAccounting
<1>3. CASE ShouldPause \/ ShouldResume \/ AdjustLimits \/ UNCHANGED vars
  BY <1>1, <1>3 DEF ShouldPause, ShouldResume, AdjustLimits, vars, counters,
       AccountingInv, SemaphoreAccounting, InflightMatchesPermits, Holding, Counted
<1>4. CASE ForceCleanup
  BY <1>1, <1>4 DEF ForceCleanup, AccountingInv, SemaphoreAccounting,
       InflightMatchesPermits, Holding
<1> QED BY <1>1, <1>2, <1>3, <1>4, CallerSteps DEF Next

LEMMA AccountingInit == Init => AccountingInv
<1> SUFFICES ASSUME Init PROVE AccountingInv
  OBVIOUS
<1>1. Holding = {} /\ Counted = {}
  BY DEF Init, Holding, Counted
<1>2. Cardinality({}) = 0
  BY FS_EmptySet
<1> QED BY <1>1, <1>2, TypeInit, BackpressureAssumption
     DEF Init, AccountingInv, SemaphoreAccounting, InflightMatchesPermits

LEMMA AccountingInvariant == Spec => []AccountingInv
BY AccountingInit, AccountingStep, PTL DEF Spec

(* No permit is lost or handed out twice, whatever times out and whatever   *)
(* memory accounting does: the semaphore and the permits out always sum to  *)
(* max_inflight as given to new().                                          *)
THEOREM SemaphoreAccountingHolds == Spec => []SemaphoreAccounting
<1>1. AccountingInv => SemaphoreAccounting
  BY DEF AccountingInv
<1> QED BY <1>1, AccountingInvariant, PTL

(* Until force_cleanup() is called, inflight_count is the number of permits *)
(* between their count and their release.                                    *)
THEOREM InflightIsExact == Spec => []InflightMatchesPermits
<1>1. AccountingInv => InflightMatchesPermits
  BY DEF AccountingInv
<1> QED BY <1>1, AccountingInvariant, PTL

(* Hence it never wraps and never passes the number of permits, which is     *)
(* what pausing and shutting down rely on.                                   *)
THEOREM InflightBounded == Spec => []InflightWithinPermits
<1>1. AccountingInv => InflightWithinPermits
  <2> SUFFICES ASSUME AccountingInv PROVE InflightWithinPermits
    OBVIOUS
  <2>1. IsFiniteSet(Holding) /\ Counted \in SUBSET Holding
    BY BackpressureAssumption, FS_Subset DEF Holding, Counted
  <2>2. Cardinality(Counted) <= Cardinality(Holding) /\ Cardinality(Holding) \in Nat
        /\ Cardinality(Counted) \in Nat
    BY <2>1, FS_Subset, FS_CardinalityType
  <2> QED BY <2>2, BackpressureAssumption
       DEF AccountingInv, SemaphoreAccounting, InflightMatchesPermits, InflightWithinPermits, TypeOK
<1> QED BY <1>1, AccountingInvariant, PTL
=============================================================================
