------------------------------ MODULE AtomicLake ------------------------------
(* What the transform side of the lake promises a reader who waits for a green
   build, without files, models or checks: loads are committed in their order,
   and an update either shows one committed load, no older than any that was
   committed when it began, or is not to be read.  An update works in place, so
   there is nothing to read while one is under way or after one that failed.   *)
EXTENDS Integers

CONSTANT Load

VARIABLES
    done,      \* the committed loads
    updating,  \* whether an update is under way
    basis,     \* the loads committed when it began
    sound,     \* whether the lake may be read
    view       \* the loads whose rows a reader then sees

lakeStateVars == <<done, updating, basis, sound, view>>

LakeTypeOK ==
    /\ done \subseteq Load
    /\ updating \in BOOLEAN
    /\ basis \subseteq Load
    /\ sound \in BOOLEAN
    /\ view \subseteq Load

LakeInit ==
    /\ done = {}
    /\ updating = FALSE
    /\ basis = {}
    /\ sound = FALSE
    /\ view = {}

\* A load that commits is the newest one: what readers see may get stale under
\* them, but it does not change.
Commit(l) ==
    /\ \A k \in done : k < l
    /\ done' = done \cup {l}
    /\ UNCHANGED <<updating, basis, sound, view>>

BeginUpdate ==
    /\ ~updating
    /\ updating' = TRUE
    /\ basis' = done
    /\ sound' = FALSE
    /\ view' = {}
    /\ UNCHANGED done

OneFreshLoad(loads) ==
    /\ loads \subseteq done
    /\ \A l, k \in loads : l = k
    /\ \A l \in loads, k \in basis : k <= l

Publish ==
    /\ updating
    /\ \E loads \in SUBSET Load : OneFreshLoad(loads) /\ view' = loads
    /\ sound' = TRUE
    /\ updating' = FALSE
    /\ basis' = {}
    /\ UNCHANGED done

GiveUp ==
    /\ updating
    /\ updating' = FALSE
    /\ basis' = {}
    /\ UNCHANGED <<done, sound, view>>

LakeNext == (\E l \in Load : Commit(l)) \/ BeginUpdate \/ Publish \/ GiveUp

LakeSpec == LakeInit /\ [][LakeNext]_lakeStateVars

\* A reader never sees rows of two loads, of a load that is not committed, or of
\* an update under way.
LakeSafety ==
    /\ LakeTypeOK
    /\ view \subseteq done /\ basis \subseteq done
    /\ \A l, k \in view : l = k
    /\ sound => ~updating
    /\ ~sound => view = {}
=============================================================================
