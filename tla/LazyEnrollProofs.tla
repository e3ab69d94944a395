-------------------------- MODULE LazyEnrollProofs --------------------------
(* The schedule of lazy enrolments for every number of groups and every    *)
(* length of a slot, 16 and 6250 ms among them.                            *)
EXTENDS LazyEnroll, TLAPS

USE GroupsAssumption, SlotAssumption, GroupAssumption
    DEF GroupsAssumption, SlotAssumption, GroupAssumption

(* The slots of the groups lie in the round.                               *)
LEMMA SlotsInRound ==
    /\ Period \in Nat \ {0}
    /\ \A d \in Device : GroupTime(d) \in 0..(Period - 1)
<1>1. Period \in Nat \ {0}
  BY DEF Period
<1>2. ASSUME NEW d \in Device PROVE GroupTime(d) \in 0..(Period - 1)
  <2> DEFINE g == group[d]
  <2>1. g \in Nat /\ g + 1 <= Groups
    OBVIOUS
  <2>2. (g + 1) * Slot <= Groups * Slot
    BY <2>1
  <2>3. (g + 1) * Slot = g * Slot + Slot
    BY <2>1
  <2>4. g * Slot \in Nat
    BY <2>1
  <2>5. QED
    BY <2>2, <2>3, <2>4, <1>1 DEF Period, GroupTime
<1>3. QED
  BY <1>1, <1>2

(* The delay to a slot is shorter than a round.                            *)
LEMMA TriggerInRound ==
    ASSUME NEW g \in 0..(Period - 1), NEW r \in 0..(Period - 1)
    PROVE  Trigger(g, r) \in 0..(Period - 1)
BY SlotsInRound DEF Trigger

(* The delay reaches zero in the slot and nowhere else.                    *)
LEMMA TriggerZero ==
    ASSUME NEW g \in 0..(Period - 1), NEW r \in 0..(Period - 1)
    PROVE  Trigger(g, r) = 0 <=> r = g
BY SlotsInRound DEF Trigger

(* A millisecond of waiting takes a millisecond off the delay, across the  *)
(* end of the round as well.                                               *)
LEMMA TriggerCountsDown ==
    ASSUME NEW g \in 0..(Period - 1), NEW r \in 0..(Period - 1), r # g
    PROVE  Trigger(g, IF r + 1 = Period THEN 0 ELSE r + 1) = Trigger(g, r) - 1
BY SlotsInRound DEF Trigger
-----------------------------------------------------------------------------
(* IInv is inductive: arming computes the delay, waiting takes it down with *)
(* the clock, and a timer that fires is no longer armed.                    *)
LEMMA Inductive == IInv /\ [Next]_vars => IInv'
<1> SUFFICES ASSUME TypeOK, OnSchedule, [Next]_vars PROVE TypeOK' /\ OnSchedule'
  BY DEF IInv
<1> USE DEF TypeOK, OnSchedule
<1>0. Period \in Nat \ {0} /\ \A d \in Device : GroupTime(d) \in 0..(Period - 1)
  BY SlotsInRound
<1>1. ASSUME NEW d \in Device, Arm(d) PROVE TypeOK' /\ OnSchedule'
  <2>1. Trigger(GroupTime(d), phase) \in 0..(Period - 1)
    BY <1>0, TriggerInRound
  <2>2. due' = [due EXCEPT ![d] = Trigger(GroupTime(d), phase)]
    BY <1>1 DEF Arm
  <2>3. due' \in [Device -> 0..(Period - 1)]
    BY <2>1, <2>2
  <2>4. TypeOK'
    BY <1>1, <2>3 DEF Arm
  <2>5. ASSUME NEW e \in armed' \ late'
        PROVE  due'[e] = Trigger(GroupTime(e), phase')
    BY <1>1, <2>2 DEF Arm, GroupTime
  <2>6. QED
    BY <2>4, <2>5 DEF GroupTime, Trigger, Period
<1>2. ASSUME NEW d \in Device, Fire(d) PROVE TypeOK' /\ OnSchedule'
  BY <1>2 DEF Fire, GroupTime, Trigger, Period
<1>3. ASSUME Tick PROVE TypeOK' /\ OnSchedule'
  <2>1. phase' = IF phase + 1 = Period THEN 0 ELSE phase + 1
    BY <1>3 DEF Tick
  <2>2. phase' \in 0..(Period - 1)
    BY <1>0, <2>1
  <2>3. due' \in [Device -> 0..(Period - 1)]
    BY <1>0, <1>3 DEF Tick
  <2>4. TypeOK'
    BY <1>3, <2>2, <2>3 DEF Tick, Period
  <2>5. ASSUME NEW d \in armed' \ late'
        PROVE  due'[d] = Trigger(GroupTime(d), phase')
    <3>1. d \in armed \ late /\ due[d] # 0 /\ d \in Device
      BY <1>3 DEF Tick
    <3>2. due[d] = Trigger(GroupTime(d), phase)
      BY <3>1
    <3>3. phase # GroupTime(d)
      BY <1>0, <3>1, <3>2, TriggerZero
    <3>4. due'[d] = due[d] - 1
      BY <1>3, <3>1 DEF Tick
    <3>5. QED
      BY <1>0, <2>1, <3>1, <3>2, <3>3, <3>4, TriggerCountsDown
  <2>6. QED
    BY <2>4, <2>5 DEF GroupTime, Trigger, Period
<1>4. CASE UNCHANGED vars
  BY <1>4 DEF vars, GroupTime, Trigger, Period
<1>5. QED
  BY <1>1, <1>2, <1>3, <1>4 DEF Next

(* IInv holds in every reachable state.                                     *)
LEMMA Invariance == Spec => []IInv
<1>1. Init => IInv
  BY SlotsInRound DEF Init, IInv, TypeOK, OnSchedule
<1>2. QED
  BY <1>1, Inductive, PTL DEF Spec

(* Delays stay within a round, and only armed devices are late.             *)
THEOREM TypeCorrect == Spec => []TypeOK
<1>1. IInv => TypeOK
  BY DEF IInv
<1>2. QED
  BY <1>1, Invariance, PTL

(* A lazy enrolment falls due in the slot of the device's group, for every  *)
(* moment it was armed and every division of the round.                     *)
THEOREM DueOnTime == Spec => []DueInOwnSlot
<1>1. IInv => DueInOwnSlot
  <2> SUFFICES ASSUME IInv, NEW d \in Device, Due(d) PROVE phase = GroupTime(d)
    BY DEF DueInOwnSlot
  <2>1. Trigger(GroupTime(d), phase) = 0
    BY DEF IInv, OnSchedule, Due
  <2>2. QED
    BY <2>1, SlotsInRound, TriggerZero DEF IInv, TypeOK
<1>2. QED
  BY <1>1, Invariance, PTL
=============================================================================
