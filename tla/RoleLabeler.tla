---------------------------- MODULE RoleLabeler ----------------------------
(***************************************************************************)
(* The role-label controller of pkg/labelController, deployed as a sidecar *)
(* in every MySQL pod.  Each labeler watches only its own pod (field       *)
(* selector metadata.name == hostname), keeps it in an informer cache,     *)
(* and drains a work queue holding only that pod's key.  A reconcile asks  *)
(* the pod's own MySQL which member is the group-replication primary and   *)
(* then patches the pod's "<group>/role" label.                            *)
(*                                                                         *)
(* The environment is the MySQL group (it elects a primary and every       *)
(* member learns it some time later), the API server (pods are deleted and *)
(* recreated by the StatefulSet, their status changes), and faults of the  *)
(* network calls.                                                          *)
(***************************************************************************)
EXTENDS Naturals, Sequences, FiniteSets

CONSTANTS
    Pods,          \* pods of the StatefulSet, one labeler each
    Managed,       \* pods carrying both database-kind and database-name labels
    Name,          \* Name[p]: the pod name as its sequence of "."-separated segments
    Domain,        \* the segments MySQL appends to a member's host name
    NoPrimary,     \* the group has no primary / the query returns no row
    Absent,        \* no pod object (in the API server or in the cache)
    MaxRequeues,   \* LabelerConfig.MaxNumRequeues
    MaxFaults,     \* bound on failed network calls (probe or patch)
    MaxFailovers,  \* bound on primary changes made by the MySQL group
    MaxRecreate,   \* bound on pod deletions (each pod is recreated)
    MaxChurn       \* bound on unrelated pod status updates per pod

ASSUME
    /\ Managed \subseteq Pods
    /\ NoPrimary \notin Pods
    /\ MaxRequeues \in Nat /\ MaxFaults \in Nat /\ MaxFailovers \in Nat
    /\ MaxRecreate \in Nat /\ MaxChurn \in Nat

VARIABLES
    primary,     \* the member the MySQL group has elected, or NoPrimary
    view,        \* view[p]: the primary as reported by the MySQL server in pod p
    pod,         \* pod[p]: the pod object in the API server, or Absent
    cache,       \* cache[p]: pod p as held by its own labeler's informer
    dirty,       \* key p is queued (workqueue dirty set)
    processing,  \* key p is being reconciled (workqueue processing set)
    waiting,     \* key p waits in the delaying queue (AddRateLimited)
    requeues,    \* rate limiter's NumRequeues(p)
    worker,      \* where the reconcile of p is: "idle", "probe" or "patch"
    snap,        \* the DeepCopy of the cached pod the reconcile works on
    isPrimary,   \* the result of checkPrimary for the current reconcile
    recreated,   \* recreated[p]: how many times pod p was deleted and recreated
    faults,      \* failed network calls so far
    failovers,   \* primary changes so far
    wasPrimary,  \* history: p was the group primary during its current incarnation
    decided      \* history: outcome of p's last successful reconcile, or "none"

vars == <<primary, view, pod, cache, dirty, processing, waiting, requeues,
          worker, snap, isPrimary, recreated, faults, failovers, wasPrimary, decided>>
labelerVars == <<cache, dirty, processing, waiting, requeues, worker, snap,
                 isPrimary, decided>>

PodObj == [inc : 0..MaxRecreate, role : BOOLEAN, status : 0..MaxChurn]

-----------------------------------------------------------------------------
(* The probe's conversion of MEMBER_HOST to a pod name.                     *)

\* MEMBER_HOST of a member: its pod name followed by the headless service domain.
MemberHost(q) == Name[q] \o Domain

\* strings.Split(host, ".")[0]: the first segment only.
ShortHost(h) == <<Head(h)>>

\* Bug variant: the comparison inverted.
NamesPrimaryInverted(p, q) == ShortHost(MemberHost(q)) # Name[p]

\* checkPrimary's comparison hostName == ObjMeta.Name.
NamesPrimary(p, q) == ShortHost(MemberHost(q)) = Name[p]

-----------------------------------------------------------------------------
(* A labeler process that has just started: informer not yet synced, empty *)
(* queue, fresh rate limiter.                                               *)
LabelerBoot(p) ==
    /\ cache'      = [cache      EXCEPT ![p] = Absent]
    /\ dirty'      = [dirty      EXCEPT ![p] = FALSE]
    /\ processing' = [processing EXCEPT ![p] = FALSE]
    /\ waiting'    = [waiting    EXCEPT ![p] = FALSE]
    /\ requeues'   = [requeues   EXCEPT ![p] = 0]
    /\ worker'     = [worker     EXCEPT ![p] = "idle"]
    /\ snap'       = [snap       EXCEPT ![p] = Absent]
    /\ isPrimary'  = [isPrimary  EXCEPT ![p] = FALSE]
    /\ decided'    = [decided    EXCEPT ![p] = "none"]

Init ==
    /\ primary    = NoPrimary
    /\ view       = [p \in Pods |-> NoPrimary]
    /\ pod        = [p \in Pods |-> [inc |-> 0, role |-> FALSE, status |-> 0]]
    /\ cache      = [p \in Pods |-> Absent]
    /\ dirty      = [p \in Pods |-> FALSE]
    /\ processing = [p \in Pods |-> FALSE]
    /\ waiting    = [p \in Pods |-> FALSE]
    /\ requeues   = [p \in Pods |-> 0]
    /\ worker     = [p \in Pods |-> "idle"]
    /\ snap       = [p \in Pods |-> Absent]
    /\ isPrimary  = [p \in Pods |-> FALSE]
    /\ recreated  = [p \in Pods |-> 0]
    /\ faults     = 0
    /\ failovers  = 0
    /\ wasPrimary = [p \in Pods |-> FALSE]
    /\ decided    = [p \in Pods |-> "none"]

-----------------------------------------------------------------------------
(* The MySQL group and the API server.                                      *)

\* The group elects a primary among the running members.
Elect ==
    /\ primary = NoPrimary
    /\ \E q \in Managed :
         /\ pod[q] # Absent
         /\ primary' = q
         /\ wasPrimary' = [wasPrimary EXCEPT ![q] = TRUE]
    /\ UNCHANGED <<view, pod, recreated, faults, failovers, labelerVars>>

\* The group moves the primary role to another running member.
Failover ==
    /\ primary # NoPrimary
    /\ failovers < MaxFailovers
    /\ \E q \in Managed \ {primary} :
         /\ pod[q] # Absent
         /\ primary' = q
         /\ wasPrimary' = [wasPrimary EXCEPT ![q] = TRUE]
    /\ failovers' = failovers + 1
    /\ UNCHANGED <<view, pod, recreated, faults, labelerVars>>

\* The MySQL server in pod p learns the group's current primary.
SyncView(p) ==
    /\ p \in Managed
    /\ pod[p] # Absent
    /\ view[p] # primary
    /\ view' = [view EXCEPT ![p] = primary]
    /\ UNCHANGED <<primary, pod, recreated, faults, failovers, wasPrimary,
                   labelerVars>>

\* Kubelet updates the status of pod p (an update unrelated to labels).
ChurnStatus(p) ==
    /\ pod[p] # Absent
    /\ pod[p].status < MaxChurn
    /\ pod' = [pod EXCEPT ![p].status = @ + 1]
    /\ UNCHANGED <<primary, view, recreated, faults, failovers, wasPrimary,
                   labelerVars>>

\* Pod p is deleted; its MySQL server and its labeler sidecar die with it.
DeletePod(p) ==
    /\ pod[p] # Absent
    /\ recreated[p] < MaxRecreate
    /\ pod' = [pod EXCEPT ![p] = Absent]
    /\ recreated' = [recreated EXCEPT ![p] = @ + 1]
    /\ primary' = IF primary = p THEN NoPrimary ELSE primary
    /\ view' = [view EXCEPT ![p] = NoPrimary]
    /\ wasPrimary' = [wasPrimary EXCEPT ![p] = FALSE]
    /\ LabelerBoot(p)
    /\ UNCHANGED <<faults, failovers>>

\* The StatefulSet recreates pod p from its template, without a role label.
CreatePod(p) ==
    /\ pod[p] = Absent
    /\ pod' = [pod EXCEPT ![p] = [inc |-> recreated[p], role |-> FALSE, status |-> 0]]
    /\ UNCHANGED <<primary, view, recreated, faults, failovers, wasPrimary,
                   labelerVars>>

-----------------------------------------------------------------------------
(* The labeler of pod p.                                                    *)

\* queue.Enqueue: the key joins the dirty set (a key already there stays once).
Enqueue(p) == dirty' = [dirty EXCEPT ![p] = TRUE]

\* The informer applies the next watch event for pod p to its cache and runs
\* AddFunc (no cached object) or UpdateFunc (cached object differs).
Watch(p) ==
    /\ pod[p] # Absent
    /\ cache[p] # pod[p]
    /\ cache' = [cache EXCEPT ![p] = pod[p]]
    /\ Enqueue(p)
    /\ UNCHANGED <<primary, view, pod, processing, waiting, requeues, worker,
                   snap, isPrimary, recreated, faults, failovers, wasPrimary,
                   decided>>

\* The reconcile returned nil: queue.Forget and queue.Done.
Succeed(p) ==
    /\ worker'     = [worker     EXCEPT ![p] = "idle"]
    /\ processing' = [processing EXCEPT ![p] = FALSE]
    /\ requeues'   = [requeues   EXCEPT ![p] = 0]
    /\ snap'       = [snap       EXCEPT ![p] = Absent]
    /\ isPrimary'  = [isPrimary  EXCEPT ![p] = FALSE]
    /\ UNCHANGED waiting

\* Bug variant: the key is requeued whatever NumRequeues is.
FailWithoutDrop(p) ==
    /\ worker'     = [worker     EXCEPT ![p] = "idle"]
    /\ processing' = [processing EXCEPT ![p] = FALSE]
    /\ snap'       = [snap       EXCEPT ![p] = Absent]
    /\ isPrimary'  = [isPrimary  EXCEPT ![p] = FALSE]
    /\ waiting'    = [waiting    EXCEPT ![p] = TRUE]
    /\ requeues'   = [requeues   EXCEPT ![p] = @ + 1]

\* The reconcile returned an error: AddRateLimited while NumRequeues is below
\* the maximum, otherwise Forget (the key is dropped); then queue.Done.
Fail(p) ==
    /\ worker'     = [worker     EXCEPT ![p] = "idle"]
    /\ processing' = [processing EXCEPT ![p] = FALSE]
    /\ snap'       = [snap       EXCEPT ![p] = Absent]
    /\ isPrimary'  = [isPrimary  EXCEPT ![p] = FALSE]
    /\ IF requeues[p] < MaxRequeues
         THEN /\ waiting'  = [waiting  EXCEPT ![p] = TRUE]
              /\ requeues' = [requeues EXCEPT ![p] = @ + 1]
         ELSE /\ requeues' = [requeues EXCEPT ![p] = 0]
              /\ UNCHANGED waiting

\* A worker takes key p (queue Get) and podLabeler reads the pod from the
\* informer's store.  A missing or unmanaged pod ends the reconcile at once.
StartReconcile(p) ==
    /\ pod[p] # Absent
    /\ dirty[p]
    /\ ~processing[p]
    /\ dirty' = [dirty EXCEPT ![p] = FALSE]
    /\ \/ /\ cache[p] # Absent
          /\ p \in Managed
          /\ processing' = [processing EXCEPT ![p] = TRUE]
          /\ worker' = [worker EXCEPT ![p] = "probe"]
          /\ snap' = [snap EXCEPT ![p] = cache[p]]
          /\ UNCHANGED <<requeues, waiting, isPrimary>>
       \/ /\ cache[p] = Absent \/ p \notin Managed
          /\ Succeed(p)
    /\ UNCHANGED <<primary, view, pod, cache, recreated, faults,
                   failovers, wasPrimary, decided>>

\* checkPrimary: one query to the pod's own MySQL server.  It fails on a
\* connection or query error.  When the server reports no primary the query
\* has no row and result[0] panics, which restarts the sidecar.
Probe(p) ==
    /\ worker[p] = "probe"
    /\ \/ /\ faults < MaxFaults
          /\ faults' = faults + 1
          /\ Fail(p)
          /\ UNCHANGED <<cache, dirty, decided>>
       \/ /\ view[p] = NoPrimary
          /\ LabelerBoot(p)
          /\ UNCHANGED faults
       \/ /\ view[p] # NoPrimary
          /\ isPrimary' = [isPrimary EXCEPT ![p] = NamesPrimary(p, view[p])]
          /\ worker' = [worker EXCEPT ![p] = "patch"]
          /\ UNCHANGED <<cache, dirty, processing, waiting, requeues, snap,
                         decided, faults>>
    /\ UNCHANGED <<primary, view, pod, recreated, failovers, wasPrimary>>

\* PatchPod(pod, transform) diffs the pod it was given (cur) against
\* transform(cur.DeepCopy()) (mod) after transform has run, and sends the
\* patch only when they differ.  ensureRoleAsPrimary upserts the label in
\* the copy.  removeRoleFromLabels deletes the label from pod.Labels, the map
\* cur itself holds, so cur has lost the label too by the time it is diffed.
\* Bug variant: ensureRoleAsPrimary also edits the pod it hands to PatchPod.
CurRoleAliased(p) == isPrimary[p]

CurRole(p) == IF isPrimary[p] THEN snap[p].role ELSE FALSE

ModRole(p) == isPrimary[p]
PatchNonEmpty(p) == CurRole(p) # ModRole(p)

\* The API server applies the label patch of pod p.
ApplyPatch(p) == [pod EXCEPT ![p].role = ModRole(p)]

\* ensureRoleAsPrimary or removeRoleFromLabels.  A failed call may still have
\* been applied by the server (the response was lost).
Patch(p) ==
    /\ worker[p] = "patch"
    /\ \/ /\ faults < MaxFaults
          /\ faults' = faults + 1
          /\ \E applied \in BOOLEAN :
               pod' = IF applied /\ PatchNonEmpty(p) THEN ApplyPatch(p) ELSE pod
          /\ Fail(p)
          /\ UNCHANGED decided
       \/ /\ pod' = IF PatchNonEmpty(p) THEN ApplyPatch(p) ELSE pod
          /\ Succeed(p)
          /\ decided' = [decided EXCEPT ![p] = IF isPrimary[p] THEN "primary" ELSE "secondary"]
          /\ UNCHANGED faults
    /\ UNCHANGED <<primary, view, cache, dirty, recreated, failovers,
                   wasPrimary>>

\* The rate limiter's delay for key p expires and the key is added again.
BackoffFire(p) ==
    /\ pod[p] # Absent
    /\ waiting[p]
    /\ waiting' = [waiting EXCEPT ![p] = FALSE]
    /\ Enqueue(p)
    /\ UNCHANGED <<primary, view, pod, cache, processing, requeues, worker,
                   snap, isPrimary, recreated, faults, failovers, wasPrimary,
                   decided>>

-----------------------------------------------------------------------------
Environment ==
    \/ Elect
    \/ Failover
    \/ \E p \in Pods : SyncView(p) \/ ChurnStatus(p) \/ DeletePod(p) \/ CreatePod(p)

Labeler(p) ==
    \/ Watch(p)
    \/ StartReconcile(p)
    \/ Probe(p)
    \/ Patch(p)
    \/ BackoffFire(p)

Next == Environment \/ \E p \in Pods : Labeler(p)

\* The informer, the queue's workers and the rate limiter's timer keep
\* running in a live sidecar; a MySQL member eventually learns the primary and
\* the group elects one when it has none.  Kubelet updates, failovers and pod
\* deletions may never happen.
Fairness ==
    /\ WF_vars(Elect)
    /\ \A p \in Pods : /\ WF_vars(SyncView(p))
                       /\ WF_vars(CreatePod(p))
                       /\ WF_vars(Watch(p))
                       /\ WF_vars(StartReconcile(p))
                       /\ WF_vars(Probe(p))
                       /\ WF_vars(Patch(p))
                       /\ WF_vars(BackoffFire(p))

Spec == Init /\ [][Next]_vars /\ Fairness

-----------------------------------------------------------------------------
(* Properties.                                                              *)

TypeOK ==
    /\ primary \in Managed \cup {NoPrimary}
    /\ view \in [Pods -> Managed \cup {NoPrimary}]
    /\ pod \in [Pods -> PodObj \cup {Absent}]
    /\ cache \in [Pods -> PodObj \cup {Absent}]
    /\ dirty \in [Pods -> BOOLEAN]
    /\ processing \in [Pods -> BOOLEAN]
    /\ waiting \in [Pods -> BOOLEAN]
    /\ requeues \in [Pods -> 0..MaxRequeues]
    /\ worker \in [Pods -> {"idle", "probe", "patch"}]
    /\ snap \in [Pods -> PodObj \cup {Absent}]
    /\ isPrimary \in [Pods -> BOOLEAN]
    /\ recreated \in [Pods -> 0..MaxRecreate]
    /\ faults \in 0..MaxFaults
    /\ failovers \in 0..MaxFailovers
    /\ wasPrimary \in [Pods -> BOOLEAN]
    /\ decided \in [Pods -> {"none", "primary", "secondary"}]

\* Only a pod that the MySQL group has elected primary during the pod's
\* current life carries the role label.  The label is written by the pod's
\* own labeler from its own MySQL server's report (checkPrimary, then
\* ensureRoleAsPrimary), so this ties a label to an election through the
\* member's view, the probe's host-name conversion and the patch.
LabelOnlyOnElected ==
    \A p \in Pods : pod[p] # Absent /\ pod[p].role => wasPrimary[p]

\* When a primary's own MySQL server reports it as primary and its labeler
\* has the key queued with its retry budget unspent, the pod ends up
\* labelled (unless it stops being the primary first): podLabeler is retried
\* through probe and patch faults by the rate-limited queue, a failed patch
\* is redone, and a reconcile still working on an older report is followed
\* by one that reads the new one.
PrimaryLabelledAfterEvent ==
    \A p \in Managed :
        (primary = p /\ view[p] = p /\ dirty[p] /\ requeues[p] = 0)
            ~> (primary # p \/ (pod[p] # Absent /\ pod[p].role))

\* After a reconcile of p that succeeded, with nothing left to do (queue idle,
\* cache current), p's label says what that reconcile decided: a pod whose
\* probe named another member as primary carries no role label (spec 8: "the
\* label being absent after reconcile (removed if previously present)").
DecisionReflected ==
    \A p \in Managed :
        ( /\ pod[p] # Absent
          /\ decided[p] # "none"
          /\ ~dirty[p] /\ ~processing[p] /\ ~waiting[p]
          /\ cache[p] = pod[p] )
            => pod[p].role = (decided[p] = "primary")

\* Every member that becomes the primary is eventually labelled, or loses the
\* role again (spec 3: multi- or zero-primary states "self-heal on the next
\* reconcile pass").
NewPrimaryEventuallyLabelled ==
    \A p \in Managed :
        (primary = p) ~> (primary # p \/ (pod[p] # Absent /\ pod[p].role))

=============================================================================
