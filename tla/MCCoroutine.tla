---------------------------- MODULE MCCoroutine ----------------------------
(* Instances of the coroutine scheduler for model checking.                *)
EXTENDS Coroutine, TLC

\* One variable to be closed for each coroutine, or two for one of them.
OneEach == [c \in Co |-> 1]
TwoForOne == [OneEach EXCEPT ![CHOOSE c \in Co : TRUE] = 2]

CoSymmetry == Permutations(Co)
CtxSymmetry == CoSymmetry \cup Permutations(Ctx)

============================================================================
