----------------------- MODULE NodeLifecycleTheorems -----------------------
(***************************************************************************)
(* What wrong answers of the API can cost the cluster through InstancesV2,   *)
(* for every set of Nodes, any number of brownouts and whatever the load     *)
(* balancer controllers do meanwhile.                                        *)
(***************************************************************************)
EXTENDS CloudController, TLAPS

Maps == [evid : SUBSET Targets, verdict : SUBSET Targets, shrink : SUBSET Targets]
OldMaps == [evid : SUBSET Targets, shrink : SUBSET Targets]
Misled == [exact : SUBSET Targets, evid : SUBSET Targets, shrink : SUBSET Targets]

LifecycleTypeOK ==
    /\ node \in [Targets -> {"ready", "down", "none"}]
    /\ vm \subseteq Targets /\ leased \subseteq Targets /\ unlisted \subseteq Targets
    /\ anomaly \in [exact : SUBSET Targets, lists : SUBSET Targets]
    /\ memory \in Maps /\ old \in OldMaps /\ misled \in Misled

(* Old evidence against a VM that the lists leave out, or against an address
   that the address list leaves out, rests on a wrong answer that outlasted the
   delay or was given again. *)
BrownoutInv ==
    /\ LifecycleTypeOK
    /\ old.evid \subseteq memory.evid /\ old.shrink \subseteq memory.shrink
    /\ vm \cap old.evid \cap anomaly.lists \subseteq misled.evid
    /\ leased \cap old.shrink \cap unlisted \subseteq misled.shrink

(* What a step may not do to a Node whose VM exists or to a leased address. *)
Harmless ==
    /\ \A t \in vm : node[t] # "none" /\ node'[t] = "none" =>
          t \in anomaly.exact \cap anomaly.lists /\ (Listed # {} \/ t \in misled.evid)
    /\ (ext \ ext') \cap leased \subseteq unlisted \cap misled.shrink

(* The invariant holds at the start: the provider remembers nothing. *)
LEMMA InitBrownout == Init => BrownoutInv
BY PlansAssumption DEF Init, BrownoutInv, LifecycleTypeOK, NoAnomaly, Empty, NotOld, NotMisled,
                       Maps, OldMaps, Misled

(* No load balancer step touches a Node, a VM or the memory of InstancesV2. *)
LEMMA SteadyStep == BrownoutInv /\ Steady => BrownoutInv' /\ Harmless
BY DEF BrownoutInv, LifecycleTypeOK, Steady, lifecycle, Harmless

(* History follows the maps. *)
LEMMA StillMisledStep ==
    ASSUME LifecycleTypeOK, memory' \in Maps, misled' = StillMisled
    PROVE  /\ misled' \in Misled
           /\ misled'.evid = misled.evid \cap memory'.evid
           /\ misled'.shrink = misled.shrink \cap memory'.shrink
BY DEF LifecycleTypeOK, StillMisled, Misled

(* The Nodes stay and verdicts leave the window, or one Node goes with a verdict
   that guardMassAbsence allows. *)
Counted ==
    \/ Nodes' = Nodes /\ memory'.verdict \subseteq memory.verdict
    \/ \E t \in Nodes : /\ ~MassAbsence(t)
                        /\ Nodes' = Nodes \ {t} /\ memory'.verdict = memory.verdict \cup {t}

(* InstanceExists takes the Node of an existing VM only as Harmless says, and
   counts what it takes. *)
LEMMA ExistsStep ==
    ASSUME NEW t \in Targets, BrownoutInv, InstanceExists(t)
    PROVE  BrownoutInv' /\ Harmless /\ Counted
<1> USE DEF BrownoutInv, LifecycleTypeOK
<1>1. /\ UNCHANGED <<vm, anomaly, leased, unlisted, ext>> /\ misled' = StillMisled
      /\ node[t] = "down"
  BY DEF InstanceExists
<1>2. CASE Resolved(t) /\ Forget(t) /\ UNCHANGED node
  <2>1. /\ memory' \in Maps /\ old' \in OldMaps
        /\ memory'.evid = memory.evid \ {t} /\ old'.evid = old.evid \ {t}
        /\ memory'.shrink = memory.shrink /\ old'.shrink = old.shrink
        /\ memory'.verdict = memory.verdict
    BY <1>2 DEF Forget, Maps, OldMaps
  <2>2. BrownoutInv'
    BY <1>1, <1>2, <2>1, StillMisledStep
  <2> QED BY <1>1, <1>2, <2>1, <2>2 DEF Harmless, Counted, Nodes
<1>3. ASSUME ~ReadsAlive(t), Corroborated(t), NEW tombstone \in {FALSE, t \notin vm},
             LET spaced == NeedsSpacing(tombstone)
                 dead == (spaced => t \in old.evid) /\ ~MassAbsence(t)
             IN /\ memory' = [memory EXCEPT !.evid = IF spaced THEN @ \cup {t} ELSE @ \ {t},
                                            !.verdict = IF dead THEN @ \cup {t} ELSE @]
                /\ old' = [old EXCEPT !.evid = IF spaced THEN @ ELSE @ \ {t}]
                /\ node' = IF dead THEN [node EXCEPT ![t] = "none"] ELSE node
      PROVE  BrownoutInv' /\ Harmless /\ Counted
  <2> DEFINE spaced == NeedsSpacing(tombstone)
             dead == (spaced => t \in old.evid) /\ ~MassAbsence(t)
             evid == IF spaced THEN memory.evid \cup {t} ELSE memory.evid \ {t}
             aged == IF spaced THEN old.evid ELSE old.evid \ {t}
             verdict == IF dead THEN memory.verdict \cup {t} ELSE memory.verdict
  <2>1. /\ memory' = [memory EXCEPT !.evid = evid, !.verdict = verdict]
        /\ old' = [old EXCEPT !.evid = aged]
        /\ node' = IF dead THEN [node EXCEPT ![t] = "none"] ELSE node
    BY <1>3, Zenon DEF Maps, OldMaps
  <2>2. /\ evid \in SUBSET Targets /\ aged \in SUBSET Targets /\ verdict \in SUBSET Targets
        /\ aged \subseteq evid /\ aged \subseteq old.evid
    BY DEF Maps, OldMaps
  <2>3. t \in vm /\ dead => Listed # {} \/ t \in old.evid
    BY DEF NeedsSpacing
  <2>4. dead => ~MassAbsence(t)
    OBVIOUS
  <2>5. verdict = IF dead THEN memory.verdict \cup {t} ELSE memory.verdict
    OBVIOUS
  <2> HIDE DEF spaced, dead, evid, aged, verdict
  <2>6. /\ memory' \in Maps /\ memory'.evid = evid /\ memory'.verdict = verdict
        /\ memory'.shrink = memory.shrink
    BY <2>1, <2>2, Zenon DEF Maps
  <2>7. old' \in OldMaps /\ old'.evid = aged /\ old'.shrink = old.shrink
    BY <2>1, <2>2, Zenon DEF OldMaps
  <2>8. node' \in [Targets -> {"ready", "down", "none"}]
    BY <2>1
  <2>9. BrownoutInv'
    BY <1>1, <2>2, <2>6, <2>7, <2>8, StillMisledStep
  <2>10. Harmless
    BY <1>1, <1>3, <2>1, <2>3 DEF Harmless, ReadsAlive, Corroborated, Listed
  <2>11. Counted
    BY <1>1, <2>1, <2>4, <2>5, <2>6 DEF Counted, Nodes
  <2> QED BY <2>9, <2>10, <2>11
<1> QED
  BY <1>2, <1>3 DEF InstanceExists

(* InstanceMetadata takes away an ExternalIP only as Harmless says. *)
LEMMA MetadataStep ==
    ASSUME NEW t \in Targets, BrownoutInv, InstanceMetadata(t)
    PROVE  BrownoutInv' /\ Harmless /\ Counted
<1> USE DEF BrownoutInv, LifecycleTypeOK
<1> DEFINE held == t \in ext /\ ~HasAddress(t)
           shrink == IF held THEN memory.shrink \cup {t} ELSE memory.shrink \ {t}
           aged == IF held THEN old.shrink ELSE old.shrink \ {t}
<1>1. /\ memory' = [memory EXCEPT !.evid = @ \ {t}, !.shrink = shrink]
      /\ old' = [evid |-> old.evid \ {t}, shrink |-> aged]
      /\ ext' = IF HasAddress(t) THEN ext \cup {t} ELSE IF t \in old.shrink THEN ext \ {t} ELSE ext
  BY DEF InstanceMetadata
<1>2. UNCHANGED <<node, vm, anomaly, leased, unlisted>> /\ misled' = StillMisled
  BY DEF InstanceMetadata
<1>3. /\ shrink \in SUBSET Targets /\ aged \in SUBSET Targets
      /\ aged \subseteq shrink /\ aged \subseteq old.shrink
  BY DEF Maps, OldMaps
<1>4. Harmless
  BY <1>1, <1>2 DEF Harmless, HasAddress
<1> HIDE DEF held, shrink, aged
<1>5. /\ memory' \in Maps /\ memory'.evid = memory.evid \ {t} /\ memory'.shrink = shrink
      /\ memory'.verdict = memory.verdict
  BY <1>1, <1>3, Zenon DEF Maps
<1>6. old' \in OldMaps /\ old'.evid = old.evid \ {t} /\ old'.shrink = aged
  BY <1>1, <1>3 DEF OldMaps
<1>7. BrownoutInv'
  BY <1>2, <1>3, <1>5, <1>6, StillMisledStep
<1>8. Counted
  BY <1>2, <1>5 DEF Counted, Nodes
<1> QED BY <1>4, <1>7, <1>8

(* A brownout marks the evidence it finds, and evidence that grows old while it
   lasts. *)
LEMMA EnvironmentStep ==
    ASSUME BrownoutInv, Environment
    PROVE  BrownoutInv' /\ Harmless /\ Counted
<1> USE DEF BrownoutInv, LifecycleTypeOK, Harmless, Counted, Nodes, Maps, OldMaps, Misled
<1>1. ASSUME NEW t \in Targets, EvidenceOld(t) PROVE BrownoutInv' /\ Harmless /\ Counted
  BY <1>1 DEF EvidenceOld
<1>2. ASSUME NEW t \in Targets, ShrinkOld(t) PROVE BrownoutInv' /\ Harmless /\ Counted
  BY <1>2 DEF ShrinkOld
<1>3. ASSUME NEW t \in Targets, NodeDown(t) \/ NodeReady(t)
      PROVE  BrownoutInv' /\ Harmless /\ Counted
  BY <1>3 DEF NodeDown, NodeReady, lifecycle
<1>4. ASSUME NEW t \in Targets, VMGone(t) PROVE BrownoutInv' /\ Harmless /\ Counted
  BY <1>4 DEF VMGone, lifecycle
<1>5. ASSUME NEW t \in Targets, Unlease(t) PROVE BrownoutInv' /\ Harmless /\ Counted
  BY <1>5 DEF Unlease
<1>6. ASSUME NEW t \in Targets, VerdictExpires(t) PROVE BrownoutInv' /\ Harmless /\ Counted
  BY <1>6 DEF VerdictExpires
<1>7. CASE Brownout
  <2>1. UNCHANGED <<node, vm, leased, ext, memory, old>>
    BY <1>7 DEF Brownout
  <2>2. CASE /\ anomaly' \in [exact : SUBSET vm, lists : SUBSET vm]
             /\ misled' = [misled EXCEPT !.exact = @ \cup anomaly'.exact, !.evid = memory.evid]
             /\ UNCHANGED unlisted
    <3>1. PICK lost \in SUBSET Targets : misled' = [misled EXCEPT !.exact = @ \cup lost, !.evid = memory.evid]
      BY <2>2
    <3>2. misled' \in Misled /\ misled'.evid = memory.evid /\ misled'.shrink = misled.shrink
      BY <3>1
    <3> QED BY <2>1, <2>2, <3>2
  <2>3. CASE /\ unlisted' \in SUBSET leased
             /\ misled' = [misled EXCEPT !.shrink = memory.shrink]
             /\ UNCHANGED anomaly
    BY <2>1, <2>3
  <2> QED BY <1>7, <2>2, <2>3 DEF Brownout
<1>8. CASE BrownoutEnds
  BY <1>8 DEF BrownoutEnds, NoAnomaly
<1>9. CASE Restart
  BY <1>9 DEF Restart, Empty, NotOld, StillMisled
<1> QED
  BY <1>1, <1>2, <1>3, <1>4, <1>5, <1>6, <1>7, <1>8, <1>9, Zenon DEF Environment

(* Every step keeps the invariant, does no harm and counts what it takes. *)
LEMMA NextStep ==
    ASSUME BrownoutInv, [Next]_vars
    PROVE  BrownoutInv' /\ (Harmless \/ UNCHANGED vars) /\ Counted
<1>1. CASE Steady
  BY <1>1, SteadyStep DEF Steady, lifecycle, Counted, Nodes
<1>2. ASSUME NEW t \in Targets, InstanceExists(t) PROVE BrownoutInv' /\ Harmless /\ Counted
  BY <1>2, ExistsStep
<1>3. ASSUME NEW t \in Targets, InstanceMetadata(t) PROVE BrownoutInv' /\ Harmless /\ Counted
  BY <1>3, MetadataStep
<1>4. CASE Environment
  BY <1>4, EnvironmentStep
<1>5. CASE UNCHANGED vars
  BY <1>1, <1>5 DEF vars, Steady, lifecycle
<1> QED
  BY <1>1, <1>2, <1>3, <1>4, <1>5 DEF Next, Step

(* BrownoutHarmless for every set of Nodes and any number of brownouts:
   InstanceExists gives the Node of an existing VM up, and InstanceMetadata a
   leased address, only in the cases that the property names, with any number of
   load balancer steps in between. *)
THEOREM NodesSurvive == Spec => BrownoutHarmless
<1>1. BrownoutInv /\ [Next]_vars => BrownoutInv'
  BY NextStep
<1>2. BrownoutInv /\ [Next]_vars => [Harmless]_vars
  BY NextStep
<1> QED
  BY InitBrownout, <1>1, <1>2, PTL DEF Spec, BrownoutHarmless, Harmless

-----------------------------------------------------------------------------
(* The guard against mass absence.                                           *)

INSTANCE FiniteSetTheorems

(* What the guard leaves: twice the verdicts exceed the Nodes by one at most,
   until the last Node goes. *)
GuardInv ==
    /\ Nodes \cap memory.verdict = {}
    /\ IF Nodes = {} THEN Cardinality(memory.verdict) <= 2
       ELSE 2 * Cardinality(memory.verdict) <= Cardinality(Nodes) + 1

(* A step that is counted keeps what the guard leaves. *)
LEMMA GuardStep ==
    ASSUME BrownoutInv, GuardInv, Counted, BrownoutInv'
    PROVE  GuardInv'
<1>1. /\ IsFiniteSet(Nodes) /\ IsFiniteSet(memory.verdict)
      /\ Nodes \subseteq Targets /\ memory.verdict \subseteq Targets
  BY FS_Subset, TargetsAssumption DEF Nodes, BrownoutInv, LifecycleTypeOK, Maps
<1>2. Cardinality(Nodes) \in Nat /\ Cardinality(memory.verdict) \in Nat
  BY <1>1, FS_CardinalityType
<1>3. CASE Nodes' = Nodes /\ memory'.verdict \subseteq memory.verdict
  <2>1. Cardinality(memory'.verdict) \in Nat /\ Cardinality(memory'.verdict) <= Cardinality(memory.verdict)
    BY <1>1, <1>3, FS_Subset, FS_CardinalityType
  <2> QED BY <1>2, <1>3, <2>1 DEF GuardInv
<1>4. ASSUME NEW t \in Nodes, ~MassAbsence(t), Nodes' = Nodes \ {t},
             memory'.verdict = memory.verdict \cup {t}
      PROVE  GuardInv'
  <2>1. t \notin memory.verdict
    BY <1>4 DEF GuardInv
  <2>2. Cardinality(Nodes') = Cardinality(Nodes) - 1
    BY <1>1, <1>4, FS_RemoveElement
  <2>3. Cardinality(memory'.verdict) = Cardinality(memory.verdict) + 1
    BY <1>1, <1>4, <2>1, FS_AddElement
  <2>4. Cardinality(Nodes) # 0
    BY <1>1, <1>4, FS_EmptySet
  <2>5. Cardinality(Nodes) = 1 => Nodes' = {}
    BY <1>1, <1>2, <1>4, <2>2, FS_EmptySet, FS_Subset
  <2>6. Cardinality(Nodes) >= 2 => 2 * (Cardinality(memory.verdict) + 1) <= Cardinality(Nodes)
    BY <1>2, <1>4, <2>3 DEF MassAbsence, Gone
  <2>7. Nodes' \cap memory'.verdict = {}
    BY <1>4 DEF GuardInv
  <2>8. Nodes' = {} => Cardinality(Nodes) = 1
    BY <1>2, <2>2, FS_EmptySet
  <2> QED BY <1>2, <1>4, <2>2, <2>3, <2>4, <2>5, <2>6, <2>7, <2>8 DEF GuardInv
<1> QED
  BY <1>3, <1>4 DEF Counted

(* HalfSurvive for every set of Nodes: whatever the API answers and however the
   verdicts leave the window, guardMassAbsence never lets InstanceExists give up
   more than half of three or more Nodes within a window. *)
THEOREM MajorityStays == Spec => []HalfSurvive
<1>1. Init => BrownoutInv /\ GuardInv
  <2> SUFFICES ASSUME Init PROVE GuardInv
    BY InitBrownout
  <2>1. memory.verdict = {}
    BY DEF Init, Empty
  <2>2. Cardinality(memory.verdict) = 0
    BY <2>1, FS_EmptySet
  <2>3. Cardinality(Nodes) \in Nat
    BY FS_Subset, FS_CardinalityType, TargetsAssumption DEF Nodes
  <2> QED BY <2>1, <2>2, <2>3 DEF GuardInv
<1>2. BrownoutInv /\ GuardInv /\ [Next]_vars => (BrownoutInv /\ GuardInv)'
  BY NextStep, GuardStep
<1>3. BrownoutInv /\ GuardInv => HalfSurvive
  <2> SUFFICES ASSUME BrownoutInv, GuardInv, Cardinality(Nodes \cup memory.verdict) >= 3
               PROVE  Cardinality(memory.verdict) <= Cardinality(Nodes)
    BY DEF HalfSurvive
  <2>1. IsFiniteSet(Nodes) /\ IsFiniteSet(memory.verdict)
    BY FS_Subset, TargetsAssumption DEF Nodes, BrownoutInv, LifecycleTypeOK, Maps
  <2>2. Cardinality(Nodes) \in Nat /\ Cardinality(memory.verdict) \in Nat
    BY <2>1, FS_CardinalityType
  <2>3. CASE Nodes = {}
    <3>1. Nodes \cup memory.verdict = memory.verdict
      BY <2>3
    <3> QED BY <2>2, <2>3, <3>1 DEF GuardInv
  <2>4. CASE Nodes # {}
    <3>1. Cardinality(Nodes) >= 1
      BY <2>1, <2>2, <2>4, FS_EmptySet
    <3> QED BY <2>2, <2>4, <3>1 DEF GuardInv
  <2> QED BY <2>3, <2>4
<1> QED
  BY <1>1, <1>2, <1>3, PTL DEF Spec
=============================================================================
