------------------------------- MODULE Values -------------------------------
(***************************************************************************)
(* What Any of source/server.hpp promises: variables that hold a value of  *)
(* some type, or nothing, each on its own.                                 *)
(***************************************************************************)
CONSTANTS Name,    \* the objects of class Any
          Value,   \* a type and a value of it
          Empty,   \* nothing is held
          Dead     \* the object does not exist

VARIABLE value

Init == value = [x \in Name |-> Dead]

Becomes(x, v) == value' = [value EXCEPT ![x] = v]

(* Constructors: of nothing, of a value, of another object. *)
Begin(x) == /\ value[x] = Dead
            /\ \/ \E v \in Value \cup {Empty} : Becomes(x, v)
               \/ \E y \in Name : value[y] # Dead /\ Becomes(x, value[y])

Assign(x, y) == value[x] # Dead /\ value[y] # Dead /\ Becomes(x, value[y])

Store(x, v) == value[x] # Dead /\ Becomes(x, v)

(* Through the pointer get<T> gives. *)
Modify(x, v) == value[x] \in Value /\ value[x][1] = v[1] /\ Becomes(x, v)

End(x) == value[x] # Dead /\ Becomes(x, Dead)

Next == \E x \in Name : \/ Begin(x)
                        \/ \E y \in Name : Assign(x, y)
                        \/ \E v \in Value : Store(x, v) \/ Modify(x, v)
                        \/ End(x)

Spec == Init /\ [][Next]_value
=============================================================================
