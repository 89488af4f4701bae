----------------------------- MODULE ChunkStore -----------------------------
(***************************************************************************)
(* What the database promises the workers, without messages, connections   *)
(* and parsing: while one result is being posted its value is added to its *)
(* field at most once, nothing else is ever added, and the worker is told  *)
(* "stored" only when it was.  Being told "not stored" says nothing: the   *)
(* value may have been added.                                              *)
(***************************************************************************)
EXTENDS Integers

CONSTANTS
  Tasks,      \* the results: records with a field and a value
  Modulus,    \* the database's integers wrap around at this number of values
  NoTask

VARIABLES
  total,          \* what is stored of each field
  posting,        \* the result being posted, NoTask if none
  counted,        \* its value was added
  acknowledged    \* the results of which the worker was told that they are stored

vars == <<total, posting, counted, acknowledged>>

FieldsOf == {t.field : t \in Tasks}

Wrapped(n) == ((n + Modulus \div 2) % Modulus) - Modulus \div 2

Init ==
  /\ total = [f \in FieldsOf |-> 0]
  /\ posting = NoTask
  /\ counted = FALSE
  /\ acknowledged = {}

Begin(t) ==
  /\ posting = NoTask
  /\ posting' = t
  /\ counted' = FALSE
  /\ UNCHANGED <<total, acknowledged>>

Add ==
  /\ posting # NoTask
  /\ ~counted
  /\ counted' = TRUE
  /\ total' = [total EXCEPT ![posting.field] = Wrapped(@ + posting.value)]
  /\ UNCHANGED <<posting, acknowledged>>

End(stored) ==
  /\ posting # NoTask
  /\ stored => counted
  /\ posting' = NoTask
  /\ acknowledged' = IF stored THEN acknowledged \cup {posting} ELSE acknowledged
  /\ UNCHANGED <<total, counted>>

Next == (\E t \in Tasks : Begin(t)) \/ Add \/ (\E stored \in BOOLEAN : End(stored))

Spec == Init /\ [][Next]_vars
=============================================================================
