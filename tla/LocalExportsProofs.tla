-------------------------- MODULE LocalExportsProofs --------------------------
(***************************************************************************)
(* Proofs about LocalExports, for every set of prefixes, answers and       *)
(* networks and every limit: no resolution, of a save or of the watchdog,  *)
(* drops a prefix the owner typed or takes it from another answer.         *)
(***************************************************************************)
EXTENDS LocalExports, FiniteSetTheorems, TLAPS

-----------------------------------------------------------------------------
(* The limit.  What precedes a typed prefix are other typed ones only.     *)

\* No more than n values are at the first n places.
LEMMA FewBefore ==
    ASSUME NEW n \in Nat, NEW q
    PROVE  /\ IsFiniteSet({q[j] : j \in 1..n})
           /\ Cardinality({q[j] : j \in 1..n}) <= n
<1> DEFINE f == [j \in 1..n |-> q[j]]
           S == {q[j] : j \in 1..n}
<1>1. IsFiniteSet(1..n) /\ Cardinality(1..n) = n
    BY FS_Interval
<1>2. f \in Surjection(1..n, S)
    BY DEF Surjection
<1> QED
    BY <1>1, <1>2, FS_Surjection

LEMMA TypedAdmitted ==
    ASSUME NEW answer \in Answers, NEW rest \in Seq(LanPrefixes), NEW p \in ToSet(answer.configured)
    PROVE  p \in Admitted(answer.configured \o rest)
<1> DEFINE typed == answer.configured
           q == typed \o rest
           Before(i) == {q[j] : j \in 1..(i - 1)}
<1>1. typed \in Seq(LanPrefixes) /\ Len(typed) <= MaxExports /\ MaxExports \in Nat
    BY ExportsAssumption DEF AnswerType
<1>2. PICK i \in DOMAIN typed : p = typed[i]
    BY DEF ToSet
<1>3. i \in 1..Len(typed) /\ i \in DOMAIN q /\ q[i] = p
    BY <1>1, <1>2
<1>4. i \in Nat /\ i - 1 \in Nat /\ i - 1 < MaxExports
    BY <1>1, <1>3
<1>5. Cardinality(Before(i)) <= i - 1 /\ Cardinality(Before(i)) \in Nat
    BY <1>4, FewBefore, FS_CardinalityType
<1> HIDE DEF Before
<1>6. Cardinality(Before(i)) < MaxExports
    BY <1>1, <1>4, <1>5
<1> QED
    BY <1>3, <1>6 DEF Admitted, Before

\* The typed prefixes are listed, ready where the scan found them.
Lists(record, answer, inventory) ==
    \A p \in ToSet(answer.configured) :
        /\ p \in DOMAIN record
        /\ record[p] <=> (inventory # Unavailable /\ Contains(inventory, p))

LEMMA ResolveLists ==
    ASSUME NEW answer \in Answers, NEW inventory \in Inventories
    PROVE  Lists(Resolve(answer, inventory), answer, inventory)
<1> DEFINE connected == Connected(inventory)
           auto == IF answer.auto_current_lan THEN connected ELSE <<>>
<1>1. connected \in Seq(LanPrefixes) /\ auto \in Seq(LanPrefixes)
    BY ExportsAssumption DEF Connected, Inventories
<1>2. \A p : Contains(connected, p) <=> (inventory # Unavailable /\ Contains(inventory, p))
    BY DEF Connected, Contains
<1>3. Resolve(answer, inventory)
         = [p \in Admitted(answer.configured \o auto) |-> Contains(connected, p)]
    BY DEF Resolve
<1> HIDE DEF connected, auto
<1> QED
    BY <1>1, <1>2, <1>3, TypedAdmitted DEF Lists

-----------------------------------------------------------------------------
(* The invariant.  Between the installation of an answer and the bump of   *)
(* the generation, and only there, the watchdog may hold what an earlier   *)
(* answer resolved to under a generation that is current.                  *)

Saving == save.pc \in {"bump", "record", "show", "gossip"}

\* Where the threads are; what they resolved is said below.
ThreadTypes ==
    /\ config \in Answers
    /\ generation \in Nat
    /\ network \in Networks
    /\ save \in [pc : {"idle", "install", "bump", "record", "show", "gossip"},
                 answer : Answers \cup {NoAnswer}, inventory : Inventories \cup {<<>>},
                 record : {save.record}, done : {save.done}]
    /\ scan \in [pc : {"idle", "discover", "check", "resolve", "compare",
                       "record", "show", "gossip"},
                 generation : Nat, inventory : Inventories \cup {<<>>},
                 next : {scan.next}]

ExportsInv ==
    /\ ThreadTypes
    /\ save.pc # "idle" => save.answer \in Answers /\ save.inventory \in Inventories
    /\ Saving => /\ config = save.answer
                 /\ save.record = Resolve(save.answer, save.inventory)
    /\ scan.generation <= generation
    /\ scan.pc \in {"check", "resolve", "compare", "record", "show", "gossip"}
          => scan.inventory \in Inventories
    /\ (/\ scan.pc \in {"compare", "record", "show", "gossip"}
        /\ generation = scan.generation /\ save.pc # "bump")
          => scan.next = Resolve(config, scan.inventory)

LEMMA InitExports == Init => ExportsInv
BY DEF Init, ExportsInv, ThreadTypes, SaveIdle, ScanIdle, Saving

LEMMA SaveExports ==
    ASSUME ExportsInv, Save
    PROVE  ExportsInv'
<1> USE DEF ExportsInv, ThreadTypes, Saving
<1>1. CASE SaveCompile
    BY <1>1 DEF SaveCompile
<1>2. CASE SaveInstall
    BY <1>2 DEF SaveInstall
<1>3. CASE SaveBump
    BY <1>3 DEF SaveBump
<1>4. CASE SavePublishRecord
    BY <1>4 DEF SavePublishRecord
<1>5. CASE SavePublishShown
    BY <1>5 DEF SavePublishShown
<1>6. CASE SavePublishGossip
    BY <1>6 DEF SavePublishGossip, SaveIdle
<1> QED
    BY <1>1, <1>2, <1>3, <1>4, <1>5, <1>6 DEF Save

LEMMA ScanExports ==
    ASSUME ExportsInv, Scan
    PROVE  ExportsInv'
<1> USE DEF ExportsInv, ThreadTypes, Saving
<1>1. CASE ScanTick
    <2>1. /\ scan'.pc = "discover" /\ scan'.generation = generation
          /\ UNCHANGED <<config, generation, network, save>>
        BY <1>1 DEF ScanTick
    <2>2. ThreadTypes'
        BY <1>1, <2>1 DEF ScanTick
    <2> QED
        BY <2>1, <2>2
<1>2. CASE ScanDiscover
    BY <1>2 DEF ScanDiscover
<1>3. CASE ScanCheck
    BY <1>3 DEF ScanCheck, ScanIdle
<1>4. CASE ScanResolve
    BY <1>4 DEF ScanResolve
<1>5. CASE ScanCompare
    BY <1>5 DEF ScanCompare, ScanIdle
<1>6. CASE ScanPublishRecord
    BY <1>6 DEF ScanPublishRecord
<1>7. CASE ScanPublishShown
    BY <1>7 DEF ScanPublishShown
<1>8. CASE ScanPublishGossip
    BY <1>8 DEF ScanPublishGossip, ScanIdle
<1> QED
    BY <1>1, <1>2, <1>3, <1>4, <1>5, <1>6, <1>7, <1>8 DEF Scan

LEMMA StepExports == ExportsInv /\ [Next]_vars => ExportsInv'
<1> SUFFICES ASSUME ExportsInv, [Next]_vars PROVE ExportsInv'
    OBVIOUS
<1>1. CASE Move
    BY <1>1 DEF Move, ExportsInv, ThreadTypes, Saving
<1>2. CASE UNCHANGED vars
    BY <1>2 DEF vars, ExportsInv, ThreadTypes, Saving
<1> QED
    BY <1>1, <1>2, SaveExports, ScanExports DEF Next

(* Every record a save resolves, and every record the watchdog resolves    *)
(* for the answer in force, lists all the prefixes the owner typed, ready  *)
(* exactly where the scan found them, whatever else the machine is         *)
(* attached to (LocalLanExportConfigV2::resolve under the generation check *)
(* of the watchdog).                                                       *)
THEOREM TypedPrefixesSurvive == Spec => []TypedSurvives
<1>1. ExportsInv => TypedSurvives
    <2> SUFFICES ASSUME ExportsInv PROVE TypedSurvives
        OBVIOUS
    <2>1. Saving => Lists(save.record, save.answer, save.inventory)
        BY ResolveLists DEF ExportsInv, Saving
    <2>2. (/\ scan.pc \in {"compare", "record", "show", "gossip"}
           /\ generation = scan.generation /\ save.pc # "bump")
             => Lists(scan.next, config, scan.inventory)
        BY ResolveLists DEF ExportsInv, ThreadTypes
    <2> QED
        BY <2>1, <2>2 DEF TypedSurvives, Lists, Saving
<1> QED
    BY <1>1, InitExports, StepExports, PTL DEF Spec
=============================================================================
