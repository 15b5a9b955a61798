------------------------------- MODULE Values -------------------------------
(* What the implicitly shared classes promise (src/include/csdb/internal/     *)
(* shared_data.h): every handle behaves as a value of its own.                *)
CONSTANTS Handle, Value, None

VARIABLE val   \* what each handle holds; None: moved from or destroyed

Init == val = [h \in Handle |-> None]

Create(h, v) == val[h] = None /\ val' = [val EXCEPT ![h] = v]
Copy(h, g) == val' = [val EXCEPT ![h] = val[g]]
Exchange(h, g) == val' = [val EXCEPT ![h] = val[g], ![g] = val[h]]
Write(h, v) == val[h] # None /\ val' = [val EXCEPT ![h] = v]
Destroy(h) == val' = [val EXCEPT ![h] = None]

Next ==
  \/ \E h \in Handle, v \in Value : Create(h, v) \/ Write(h, v)
  \/ \E h, g \in Handle : Copy(h, g) \/ Exchange(h, g)
  \/ \E h \in Handle : Destroy(h)

Spec == Init /\ [][Next]_val
=============================================================================
