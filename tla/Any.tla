-------------------------------- MODULE Any ---------------------------------
(***************************************************************************)
(* Any of source/server.hpp, which holds the context of a connection: a    *)
(* value of any type, in a placeholder of its own on the heap.             *)
(*                                                                         *)
(* SetContext and UpgradeInLoop assign one Any to another; a context that  *)
(* SwitchProtocol brings from another thread is copied there, so that the  *)
(* two threads do not work on the same value.  An allocation or a copy     *)
(* that throws happens before anything is changed, and is no step here.    *)
(***************************************************************************)
CONSTANTS Name,    \* the objects of class Any
          Cell,    \* addresses of placeholders
          Value,   \* pairs: a type and a value of it
          Null,    \* the null pointer
          Dead,    \* instead of a pointer: the object does not exist
          Free     \* instead of a value: the address is not allocated

CellAssumption == Null \notin Cell /\ Dead \notin Cell /\ Null # Dead

ValueAssumption == {Free, Null, Dead} \cap Value = {}

VARIABLES dummy,   \* _dummy of each object
          heap     \* the placeholder at each address

vars == <<dummy, heap>>

Init == /\ dummy = [x \in Name |-> Dead]
        /\ heap = [c \in Cell |-> Free]

Lives(x) == dummy[x] # Dead

Unused == {c \in Cell : heap[c] = Free}

(* delete p: nothing if p is null. *)
Delete(h, p) == [c \in Cell |-> IF c = p THEN Free ELSE h[c]]

-----------------------------------------------------------------------------
Default(x) ==
    /\ ~Lives(x)
    /\ dummy' = [dummy EXCEPT ![x] = Null]
    /\ UNCHANGED heap

(* Any(const T &val) *)
FromValue(x, v) ==
    /\ ~Lives(x)
    /\ \E c \in Unused : /\ heap' = [heap EXCEPT ![c] = v]
                         /\ dummy' = [dummy EXCEPT ![x] = c]

(* Any(const Any &other) *)
Copy(x, y) ==
    /\ ~Lives(x)
    /\ Lives(y)
    /\ IF dummy[y] = Null
       THEN dummy' = [dummy EXCEPT ![x] = Null] /\ UNCHANGED heap
       ELSE \E c \in Unused : /\ heap' = [heap EXCEPT ![c] = heap[dummy[y]]]
                              /\ dummy' = [dummy EXCEPT ![x] = c]

Destroy(x) ==
    /\ Lives(x)
    /\ heap' = Delete(heap, dummy[x])
    /\ dummy' = [dummy EXCEPT ![x] = Dead]

(* operator=(const Any &other): a copy, swapped with *this and destroyed   *)
(* with what that held.                                                    *)
Assign(x, y) ==
    /\ Lives(x)
    /\ Lives(y)
    /\ IF dummy[y] = Null
       THEN /\ dummy' = [dummy EXCEPT ![x] = Null]
            /\ heap' = Delete(heap, dummy[x])
       ELSE \E c \in Unused :
              /\ heap' = Delete([heap EXCEPT ![c] = heap[dummy[y]]], dummy[x])
              /\ dummy' = [dummy EXCEPT ![x] = c]

(* operator=(const T &val) *)
Store(x, v) ==
    /\ Lives(x)
    /\ \E c \in Unused : /\ heap' = Delete([heap EXCEPT ![c] = v], dummy[x])
                         /\ dummy' = [dummy EXCEPT ![x] = c]

(* The caller of get<T>, which is given a pointer if the type is T, sets   *)
(* what it points to.                                                      *)
Modify(x, v) ==
    /\ Lives(x)
    /\ dummy[x] # Null
    /\ heap[dummy[x]][1] = v[1]
    /\ heap' = [heap EXCEPT ![dummy[x]] = v]
    /\ UNCHANGED dummy

Next == \E x \in Name : \/ Default(x)
                        \/ \E v \in Value : FromValue(x, v) \/ Store(x, v) \/ Modify(x, v)
                        \/ \E y \in Name : Copy(x, y) \/ Assign(x, y)
                        \/ Destroy(x)

Spec == Init /\ [][Next]_vars

-----------------------------------------------------------------------------
TypeOK == /\ dummy \in [Name -> Cell \cup {Null, Dead}]
          /\ heap \in [Cell -> Value \cup {Free}]

(* An address that is allocated is the placeholder of exactly one object,  *)
(* and what an object points to is allocated: no value is shared, leaked,  *)
(* deleted twice or used after it was deleted (server.hpp:189-207).        *)
OneOwner == \A c \in Cell :
                IF heap[c] = Free THEN \A x \in Name : dummy[x] # c
                ELSE \E x \in Name : \A y \in Name : dummy[y] = c <=> y = x

(* What an object holds. *)
held == [x \in Name |-> IF dummy[x] \in Cell THEN heap[dummy[x]] ELSE dummy[x]]

(* The objects are variables with a value of their own: a copy keeps its   *)
(* value whatever becomes of the original, and an object may be assigned   *)
(* to itself (server.hpp:191-212, 1005).                                   *)
HoldsValues == INSTANCE Values WITH value <- held, Empty <- Null

IsValue == HoldsValues!Spec
=============================================================================
