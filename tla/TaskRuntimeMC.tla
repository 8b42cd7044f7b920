----------------------------- MODULE TaskRuntimeMC -----------------------------
(* Instances of TaskRuntime for TLC.                                         *)
EXTENDS TaskRuntime, TLC

CONSTANTS a, b, c, one, two, c1, c2, h1, h2, h3

\* a and b work on the same account, in a lane with room for both
AccountKeys == [t \in Task |-> IF t = c THEN {"account:2"} ELSE {"account:1"}]
SharedLane  == [t \in Task |-> one]
SharedLimit == [t \in Task |-> 2]

\* registrations outside a batch: one lane of limit 1, no keys
SerialLimit == [t \in Task |-> 1]
NoKeys      == [t \in Task |-> {}]

\* a and b are registrations, c is an AT recovery in a lane of its own
RecoveryLane  == [t \in Task |-> IF t \in Urgent THEN two ELSE one]
RecoveryLimit == [t \in Task |-> 2]

Interchangeable == Permutations(Thread) \cup Permutations(Client)
================================================================================
