--------------------------- MODULE NodeLifecycle ---------------------------
(***************************************************************************)
(* InstancesV2: the answers the cloud-node and cloud-node-lifecycle         *)
(* controllers act on.  The lifecycle controller deletes a Node that is not *)
(* Ready on one "does not exist"; the cloud-node controller replaces the    *)
(* addresses of a Node by the ones it is given.                             *)
(***************************************************************************)
EXTENDS ClusterNodes

VARIABLES
    leased,     \* VMs that have a floating IP
    unlisted,   \* VMs whose floating IP the address list leaves out
    ext,        \* Nodes that carry an ExternalIP
    memory,     \* the provider's maps: .evid, .verdict and .shrink, each a set of VMs
    old,        \* the entries of .evid and .shrink whose delay has passed
    brownouts,  \* bound: how many more times the API may answer wrongly
    misled      \* history: see below

lifecycle == <<anomaly, leased, unlisted, ext, memory, old, brownouts, misled>>

Empty == [evid |-> {}, verdict |-> {}, shrink |-> {}]
NotOld == [evid |-> {}, shrink |-> {}]

(* History.  .exact: VMs that an exact read left out while they existed.  .evid
   and .shrink: the entries of the maps that a wrong answer may rest on, because
   the answer outlasted the delay or was given again before the VM was read alive. *)
NotMisled == [exact |-> {}, evid |-> {}, shrink |-> {}]
StillMisled == [misled EXCEPT !.evid = @ \cap memory'.evid, !.shrink = @ \cap memory'.shrink]

Nodes == {t \in Targets : node[t] # "none"}

(* clearSpacedAbsence *)
Forget(t) == /\ memory' = [memory EXCEPT !.evid = @ \ {t}]
             /\ old' = [old EXCEPT !.evid = @ \ {t}]

(* corroborateExactVMAbsence: the lists agree that the VM is gone. *)
Corroborated(t) == t \notin Listed

(* Mutant: empty lists prove an absence at once. *)
NeverSpaced(tombstone) == FALSE

(* requireSpacedAbsence: empty lists prove it only with a second read that comes
   the delay later, unless the exact read returned a tombstone. *)
NeedsSpacing(tombstone) == ~tombstone /\ Listed = {}

(* Mutant: the verdict that is asked for is not counted. *)
GoneBefore(t) == memory.verdict

(* guardMassAbsence *)
Gone(t) == memory.verdict \cup {t}
MassAbsence(t) == Cardinality(Nodes) >= 2 /\ 2 * Cardinality(Gone(t)) > Cardinality(Nodes)

(* InstanceExists, called for a Node that is not Ready; the lifecycle controller
   deletes the Node when the answer is false. *)
InstanceExists(t) ==
    /\ node[t] = "down"
    /\ \/ Resolved(t) /\ Forget(t) /\ UNCHANGED node
       \/ /\ ~ReadsAlive(t) /\ Corroborated(t)
          /\ \E tombstone \in {FALSE, t \notin vm} :
             LET spaced == NeedsSpacing(tombstone)
                 dead == (spaced => t \in old.evid) /\ ~MassAbsence(t)
             IN /\ memory' = [memory EXCEPT !.evid = IF spaced THEN @ \cup {t} ELSE @ \ {t},
                                            !.verdict = IF dead THEN @ \cup {t} ELSE @]
                /\ old' = [old EXCEPT !.evid = IF spaced THEN @ ELSE @ \ {t}]
                /\ node' = IF dead THEN [node EXCEPT ![t] = "none"] ELSE node
    /\ misled' = StillMisled
    /\ UNCHANGED <<vm, plan, anomaly, leased, unlisted, ext, brownouts>>

(* externalIPv4ForVM *)
HasAddress(t) == t \in leased \ unlisted

(* InstanceMetadata with holdExternalAddress: an ExternalIP is kept while the
   address list is empty, for the grace period. *)
InstanceMetadata(t) ==
    /\ node[t] # "none" /\ Resolved(t)
    /\ LET held == t \in ext /\ ~HasAddress(t)
       IN /\ memory' = [memory EXCEPT !.evid = @ \ {t},
                                      !.shrink = IF held THEN @ \cup {t} ELSE @ \ {t}]
          /\ old' = [evid |-> old.evid \ {t}, shrink |-> IF held THEN old.shrink ELSE old.shrink \ {t}]
          /\ ext' = IF HasAddress(t) THEN ext \cup {t}
                    ELSE IF t \in old.shrink THEN ext \ {t} ELSE ext
    /\ misled' = StillMisled
    /\ UNCHANGED <<node, vm, plan, anomaly, leased, unlisted, brownouts>>

-----------------------------------------------------------------------------
(* The environment. *)

(* The API answers wrongly for a while: exact reads and lists leave out any VMs,
   or the address list any addresses. *)
Brownout ==
    /\ brownouts > 0 /\ anomaly = NoAnomaly /\ unlisted = {}
    /\ brownouts' = brownouts - 1
    /\ \/ /\ anomaly' \in [exact : SUBSET vm, lists : SUBSET vm]
          /\ misled' = [misled EXCEPT !.exact = @ \cup anomaly'.exact, !.evid = memory.evid]
          /\ UNCHANGED unlisted
       \/ /\ unlisted' \in SUBSET leased
          /\ misled' = [misled EXCEPT !.shrink = memory.shrink]
          /\ UNCHANGED anomaly
    /\ UNCHANGED <<node, vm, plan, leased, ext, memory, old>>

BrownoutEnds ==
    /\ anomaly # NoAnomaly \/ unlisted # {}
    /\ anomaly' = NoAnomaly /\ unlisted' = {}
    /\ UNCHANGED <<node, vm, plan, leased, ext, memory, old, brownouts, misled>>

(* The delays after entries of the maps pass, whatever the API answers. *)
EvidenceOld(t) ==
    /\ t \in memory.evid \ old.evid
    /\ old' = [old EXCEPT !.evid = @ \cup {t}]
    /\ misled' = [misled EXCEPT !.evid = IF t \in anomaly.lists THEN @ \cup {t} ELSE @]
    /\ UNCHANGED <<node, vm, plan, anomaly, leased, unlisted, ext, memory, brownouts>>
ShrinkOld(t) ==
    /\ t \in memory.shrink \ old.shrink
    /\ old' = [old EXCEPT !.shrink = @ \cup {t}]
    /\ misled' = [misled EXCEPT !.shrink = IF t \in unlisted THEN @ \cup {t} ELSE @]
    /\ UNCHANGED <<node, vm, plan, anomaly, leased, unlisted, ext, memory, brownouts>>

(* A verdict leaves the window. *)
VerdictExpires(t) ==
    /\ t \in memory.verdict
    /\ memory' = [memory EXCEPT !.verdict = @ \ {t}]
    /\ UNCHANGED <<node, vm, plan, anomaly, leased, unlisted, ext, old, brownouts, misled>>

(* The provider's process starts anew: its maps are empty. *)
Restart ==
    /\ memory # Empty
    /\ memory' = Empty /\ old' = NotOld
    /\ misled' = StillMisled
    /\ UNCHANGED <<node, vm, plan, anomaly, leased, unlisted, ext, brownouts>>

NodeDown(t) == /\ "node" \in plan.may /\ plan.edits > 0
               /\ node[t] = "ready"
               /\ node' = [node EXCEPT ![t] = "down"]
               /\ plan' = [plan EXCEPT !.edits = @ - 1]
               /\ UNCHANGED <<vm, lifecycle>>
NodeReady(t) == /\ "node" \in plan.may /\ plan.edits > 0
                /\ node[t] = "down" /\ t \in vm
                /\ node' = [node EXCEPT ![t] = "ready"]
                /\ plan' = [plan EXCEPT !.edits = @ - 1]
                /\ UNCHANGED <<vm, lifecycle>>
VMGone(t) == /\ "vm" \in plan.may /\ plan.edits > 0
             /\ t \in vm
             /\ vm' = vm \ {t}
             /\ plan' = [plan EXCEPT !.edits = @ - 1]
             /\ UNCHANGED <<node, lifecycle>>
Unlease(t) == /\ "lease" \in plan.may /\ plan.edits > 0
              /\ t \in leased
              /\ leased' = leased \ {t}
              /\ plan' = [plan EXCEPT !.edits = @ - 1]
              /\ UNCHANGED <<node, vm, anomaly, unlisted, ext, memory, old, brownouts, misled>>

Environment ==
    \/ \E t \in Targets : EvidenceOld(t) \/ ShrinkOld(t) \/ NodeDown(t) \/ NodeReady(t)
                          \/ VMGone(t) \/ Unlease(t) \/ VerdictExpires(t)
    \/ Brownout \/ BrownoutEnds \/ Restart
=============================================================================
