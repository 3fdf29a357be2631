------------------------------- MODULE Handles -------------------------------
(***************************************************************************)
(* The owners of Windows handles (shared/scoped_handle.hpp): ScopedHandle, *)
(* ScopedWinEventHook, ScopedPdhQuery.  None of the program's is moved or  *)
(* released.  Windows keeps count of what is open.                         *)
(***************************************************************************)
EXTENDS Integers

CONSTANT Owner \* the objects that own a handle

VARIABLES
    handle, \* of each owner; none is INVALID_HANDLE_VALUE or null
    open    \* the handles given to each owner and not closed yet

handleVars == <<handle, open>>

HandleTypeOK ==
    /\ handle \in [Owner -> {"none", "valid"}]
    /\ open \in [Owner -> Int]

HandleInit ==
    /\ handle = [w \in Owner |-> "none"]
    /\ open = [w \in Owner |-> 0]

Valid(w) == handle[w] = "valid"

Count(ok) == IF ok THEN 1 ELSE 0

\* reset of several owners, with the handles that some of them have got
Reset(ws, got) ==
    /\ handle' = [w \in Owner |-> IF w \in got THEN "valid"
                                  ELSE IF w \in ws THEN "none" ELSE handle[w]]
    /\ open' = [w \in Owner |->
          open[w] - Count(w \in ws /\ Valid(w)) + Count(w \in got)]

\* reset() or the destructor
Close(ws) == Reset(ws, {})

\* Fault: what is closed is kept.
CloseKeeps(ws) ==
    /\ open' = [w \in Owner |-> open[w] - Count(w \in ws /\ Valid(w))]
    /\ UNCHANGED handle

\* Each owner's handle is open, and nothing else is.
Owned == \A w \in Owner : open[w] = Count(Valid(w))
==============================================================================
