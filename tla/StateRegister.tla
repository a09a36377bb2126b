--------------------------- MODULE StateRegister ---------------------------
(***************************************************************************)
(* What the state file promises those who read it: a register that holds   *)
(* a whole scheduler state or nothing.  It changes in one step, and a read *)
(* answers what it held at one moment of the read.                         *)
(***************************************************************************)
CONSTANTS States, Readers, None, Idle

VARIABLES
    value,          \* the state, or None
    seen,           \* what the read under way of each reader has seen, or Idle
    answer          \* what its last read returned

Replace == value' \in States /\ UNCHANGED <<seen, answer>>

Remove == value' = None /\ UNCHANGED <<seen, answer>>

See(r) ==
    /\ seen[r] = Idle
    /\ seen' = [seen EXCEPT ![r] = value]
    /\ UNCHANGED <<value, answer>>

Answer(r) ==
    /\ seen[r] # Idle
    /\ answer' = [answer EXCEPT ![r] = seen[r]]
    /\ seen' = [seen EXCEPT ![r] = Idle]
    /\ UNCHANGED value

Init ==
    /\ value = None
    /\ seen = [r \in Readers |-> Idle]
    /\ answer = [r \in Readers |-> None]

Next == Replace \/ Remove \/ \E r \in Readers : See(r) \/ Answer(r)

Spec == Init /\ [][Next]_<<value, seen, answer>>

=============================================================================
