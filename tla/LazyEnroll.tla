----------------------------- MODULE LazyEnroll -----------------------------
(***************************************************************************)
(* When lazy enrolments happen: the trigger that chamge_node_enroll        *)
(* computes (chamge/node.c:253-279).  The last hex digit of the md5 of the *)
(* uid puts a device in one of 16 groups; the groups share a round of 100  *)
(* seconds, so that a site that powers up does not enrol all at once.      *)
(*                                                                         *)
(* The clock is the phase of g_get_real_time in the round, in milliseconds.*)
(* Time passes by single milliseconds; the main loop of a device may be    *)
(* late, never early.  Nobody sets the clock while a timer is armed.        *)
(***************************************************************************)
EXTENDS Naturals

CONSTANTS
    Device,
    Groups,    \* 16 in the code
    Slot,      \* 6250 ms in the code
    group      \* the group of each device

ASSUME GroupsAssumption == Groups \in Nat \ {0}
ASSUME SlotAssumption   == Slot \in Nat \ {0}
ASSUME GroupAssumption  == group \in [Device -> 0..(Groups - 1)]

VARIABLES
    phase,     \* rtime_ms % 100000
    armed,     \* devices with a timeout source
    due,       \* milliseconds until the source is ready
    late       \* devices whose source was ready before now

vars == <<phase, armed, due, late>>

Period       == Groups * Slot
GroupTime(d) == group[d] * Slot

TypeOK ==
    /\ phase \in 0..(Period - 1)
    /\ armed \in SUBSET Device
    /\ due \in [Device -> 0..(Period - 1)]
    /\ late \in SUBSET armed

Init ==
    /\ phase \in 0..(Period - 1)
    /\ armed = {}
    /\ due = [d \in Device |-> 0]
    /\ late = {}

(* Faulty: the distance to the slot, be it ahead or behind; the slot of the *)
(* next round, even when that of this round is still ahead.                 *)
TriggerByDistance(g, r) == IF r > g THEN r - g ELSE g - r
TriggerNextRound(g, r)  == Period + g - r

(* The delay to the group's next slot, g and r being times in the round. *)
Trigger(g, r) == IF r > g THEN Period + g - r ELSE g - r

(* chamge_node_enroll (self, TRUE) *)
Arm(d) ==
    /\ d \notin armed
    /\ armed' = armed \cup {d}
    /\ due' = [due EXCEPT ![d] = Trigger(GroupTime(d), phase)]
    /\ UNCHANGED <<phase, late>>

(* enroll_by_uid_group_func runs *)
Fire(d) ==
    /\ d \in armed /\ due[d] = 0
    /\ armed' = armed \ {d}
    /\ late' = late \ {d}
    /\ UNCHANGED <<phase, due>>

Tick ==
    /\ phase' = IF phase + 1 = Period THEN 0 ELSE phase + 1
    /\ due' = [d \in Device |-> IF due[d] > 0 THEN due[d] - 1 ELSE 0]
    /\ late' = late \cup {d \in armed : due[d] = 0}
    /\ UNCHANGED armed

Next == Tick \/ \E d \in Device : Arm(d) \/ Fire(d)

Spec == Init /\ [][Next]_vars
-----------------------------------------------------------------------------
Due(d) == d \in armed \ late /\ due[d] = 0

(* The moment at which a source becomes ready is the slot of its group,     *)
(* whenever it was armed, across the end of the round as well.              *)
DueInOwnSlot == \A d \in Device : Due(d) => phase = GroupTime(d)

(* The inductive invariant: what is left of the delay is what the trigger   *)
(* would be if it were computed now.                                        *)
OnSchedule ==
    \A d \in armed \ late : due[d] = Trigger(GroupTime(d), phase)

IInv == TypeOK /\ OnSchedule
=============================================================================
