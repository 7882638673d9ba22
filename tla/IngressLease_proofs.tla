------------------------ MODULE IngressLease_proofs ------------------------
(* What IngressLease promises to whoever implements it.                     *)
EXTENDS IngressLease, TLAPS

\* The leases keep their types.
THEOREM LeaseTypeCorrect == LeaseSpec => []LeaseTypeOK
<1>1. LeaseInit => LeaseTypeOK
  BY DEF LeaseInit, LeaseTypeOK
<1>2. LeaseTypeOK /\ [LeaseNext]_leaseVars => LeaseTypeOK'
  BY DEF LeaseTypeOK, LeaseNext, leaseVars, Grant, GrantUnseen, Forgo, Release, Orphan, Reclaim
<1> QED
  BY <1>1, <1>2, PTL DEF LeaseSpec

\* A lease in use is in force, and one holder at most uses one.
THEOREM LeaseIsSafe == LeaseSpec => []LeaseSafety
<1>1. LeaseInit => LeaseSafety
  BY DEF LeaseInit, LeaseSafety
<1>2. LeaseTypeOK /\ LeaseSafety /\ [LeaseNext]_leaseVars => LeaseSafety'
  <2> SUFFICES ASSUME LeaseTypeOK, LeaseSafety, [LeaseNext]_leaseVars PROVE LeaseSafety'
    OBVIOUS
  <2> USE DEF LeaseTypeOK, LeaseSafety
  <2>1. ASSUME NEW h \in Holder, Grant(h) PROVE LeaseSafety'
    BY <2>1 DEF Grant
  <2>2. ASSUME NEW h \in Holder, GrantUnseen(h) \/ Forgo(h) PROVE LeaseSafety'
    BY <2>2 DEF GrantUnseen, Forgo
  <2>3. ASSUME NEW h \in Holder, Release(h) \/ Orphan(h) PROVE LeaseSafety'
    BY <2>3 DEF Release, Orphan
  <2>4. ASSUME NEW h \in Holder, Reclaim(h) PROVE LeaseSafety'
    BY <2>4 DEF Reclaim
  <2>5. CASE UNCHANGED leaseVars
    BY <2>5 DEF leaseVars
  <2> QED
    BY <2>1, <2>2, <2>3, <2>4, <2>5 DEF LeaseNext
<1> QED
  BY <1>1, <1>2, LeaseTypeCorrect, PTL DEF LeaseSpec
=============================================================================
