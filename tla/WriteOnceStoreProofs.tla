------------------------ MODULE WriteOnceStoreProofs ------------------------
(* What every implementation of the write-once store inherits.             *)
EXTENDS WriteOnceStore, TLAPS

(* Accepted callers agree with the store, and so with each other.          *)
THEOREM AgreementHolds == Spec => []Agreement
<1>1. Init => Agreement
  BY DEF Init, Agreement
<1>2. TypeOK /\ Agreement /\ [Next]_vars => Agreement' /\ TypeOK'
  BY DEF TypeOK, Agreement, Next, Submit, Publish, Accept, Refuse, vars
<1>3. Init => TypeOK
  BY DEF Init, TypeOK
<1>4. QED
  BY <1>1, <1>2, <1>3, PTL DEF Spec

(* Stored content stays.                                                   *)
THEOREM PermanenceHolds == Spec => Permanence
<1>1. [Next]_vars => [stored # Nothing => stored' = stored]_vars
  BY DEF Next, Submit, Publish, Accept, Refuse, vars
<1>2. QED
  BY <1>1, PTL DEF Spec, Permanence
=============================================================================
