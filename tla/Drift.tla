------------------------------- MODULE Drift -------------------------------
(***************************************************************************)
(* basewright/drift.py: whether a host is still the machine a plan was     *)
(* built from.  Both arguments are the host section a plan carries: what   *)
(* the machine is (identity), how much of it there is (capacity) and the   *)
(* filesystems, by mount point.  A fact nobody reported is NotReported.    *)
(***************************************************************************)
EXTENDS Integers

CONSTANT NotReported

\* The facts a plan records about what the machine is, and how much there is.
IDENTITY == {"os.family", "os.distro", "os.version", "arch"}
CAPACITY == {"cpu.cores", "memory.total_bytes"}
\* What is compared of one filesystem.
ONFS == {"filesystem", "rotational"}

Reported(before, now) == before # NotReported /\ now # NotReported

\* Identity must match exactly; a fact either side lacks is passed over.
Identity(planned, observed) ==
    {<<"identity", f, "changed">> : f \in
        {g \in IDENTITY : /\ Reported(planned.identity[g], observed.identity[g])
                          /\ planned.identity[g] # observed.identity[g]}}

\* Capacity drifts when it shrinks; growth is not drift.
Capacity(planned, observed) ==
    {<<"capacity", f, "shrunk">> : f \in
        {g \in CAPACITY : /\ Reported(planned.capacity[g], observed.capacity[g])
                          /\ observed.capacity[g] < planned.capacity[g]}}

\* One filesystem the plan and the host both have.
OneFilesystem(mount, planned, observed) ==
    {<<"storage", mount, k>> : k \in
        {j \in ONFS : Reported(planned[j], observed[j]) /\ planned[j] # observed[j]}}

\* The filesystems, matched by mount point: only those the plan names.
Storage(planned, observed) ==
    {<<"storage", m, "not mounted">> : m \in DOMAIN planned \ DOMAIN observed}
    \cup UNION {OneFilesystem(m, planned[m], observed[m]) :
                    m \in DOMAIN planned \cap DOMAIN observed}

\* Every material way `observed' is not the host `planned' describes.
Differences(planned, observed) ==
    Identity(planned, observed)
    \cup Capacity(planned, observed)
    \cup Storage(planned.storage, observed.storage)
=============================================================================
