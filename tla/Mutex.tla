------------------------------- MODULE Mutex -------------------------------
(***************************************************************************)
(* What a lock promises, without saying how: at most one context owns it,  *)
(* it is taken only when nobody owns it, only its owner gives it back, and *)
(* an owner eventually does.  Spinlock.tla is shown to implement this.     *)
(***************************************************************************)

CONSTANT Contexts       \* whoever may take the lock

VARIABLE owners         \* the contexts that own the lock: {} or one element

MutexInit == owners = {}

Take(x) == owners = {} /\ owners' = {x}

Give(x) == x \in owners /\ owners' = owners \ {x}

MutexNext == \E x \in Contexts : Take(x) \/ Give(x)

GiveSome == \E x \in Contexts : Give(x)

MutexSafety == MutexInit /\ [][MutexNext]_owners

MutexSpec == MutexSafety /\ WF_owners(GiveSome)
=============================================================================
