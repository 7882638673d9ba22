---------------------------- MODULE IngressLease ----------------------------
(***************************************************************************)
(* What the ephemeral ingress promises, without sweeps, snapshots or API   *)
(* calls: every job attempt may hold one lease on the security group.  A   *)
(* lease its holder uses is never taken away; a lease its holder left      *)
(* behind is reclaimed by somebody else.                                   *)
(***************************************************************************)
CONSTANT Holder

VARIABLES
  phase,  \* of each holder: before, holding, or past its lease
  open    \* the leases that are in force

leaseVars == <<phase, open>>

LeaseTypeOK ==
  /\ phase \in [Holder -> {"free", "held", "ended"}]
  /\ open \subseteq Holder

LeaseInit ==
  /\ phase = [h \in Holder |-> "free"]
  /\ open = {}

\* The holder is told of its lease; nobody else may be holding one.
Grant(h) ==
  /\ phase[h] = "free"
  /\ \A g \in Holder : phase[g] # "held"
  /\ phase' = [phase EXCEPT ![h] = "held"]
  /\ open' = open \cup {h}

\* The lease is in force, and its holder never learns of it.
GrantUnseen(h) ==
  /\ phase[h] = "free"
  /\ phase' = [phase EXCEPT ![h] = "ended"]
  /\ open' = open \cup {h}

Forgo(h) ==
  /\ phase[h] = "free"
  /\ phase' = [phase EXCEPT ![h] = "ended"]
  /\ UNCHANGED open

Release(h) ==
  /\ phase[h] = "held"
  /\ phase' = [phase EXCEPT ![h] = "ended"]
  /\ open' = open \ {h}

\* The holder dies, or its release fails.
Orphan(h) ==
  /\ phase[h] = "held"
  /\ phase' = [phase EXCEPT ![h] = "ended"]
  /\ UNCHANGED open

Reclaim(h) ==
  /\ phase[h] = "ended"
  /\ h \in open
  /\ open' = open \ {h}
  /\ UNCHANGED phase

LeaseNext ==
  \E h \in Holder :
    \/ Grant(h)   \/ GrantUnseen(h) \/ Forgo(h)
    \/ Release(h) \/ Orphan(h)      \/ Reclaim(h)

LeaseSpec == LeaseInit /\ [][LeaseNext]_leaseVars

\* A lease in use is in force, and one holder at most uses one.
LeaseSafety ==
  /\ \A h \in Holder : phase[h] = "held" => h \in open
  /\ \A g, h \in Holder : phase[g] = "held" /\ phase[h] = "held" => g = h
=============================================================================
