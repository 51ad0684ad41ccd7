---------------------------- MODULE RelayUsageProofs ----------------------------
(***************************************************************************)
(* Proofs about RelayUsage, for every number of accounts, bytes, reports   *)
(* and failures: types; that no byte is billed twice, whatever else fails; *)
(* and, when lines are never torn and handles never lost, that metering    *)
(* implements UsageLedger, that report ids are exact and that a Gateway    *)
(* always starts again.  The argument is about the logs a start could find *)
(* (Views): CoreInv bounds what they hold, ExactInv says it exactly.       *)
(***************************************************************************)
EXTENDS RelayUsageRefinement, FiniteSetTheorems, SequenceTheorems,
        WellFoundedInduction, TLAPS

-----------------------------------------------------------------------------
(* Sets of numbers, and what a finite function takes as values. *)

LEMMA LeastNumber ==
    ASSUME NEW T, T \subseteq Nat, T # {}
    PROVE  \E x \in T : \A y \in T : x <= y
<1>1. PICK x \in T : \A y \in T : ~(<<y, x>> \in OpToRel(<, Nat))
    BY NatLessThanWellFounded, WFMin
<1>2. \A y \in T : ~(y < x)
    BY <1>1 DEF OpToRel
<1> QED
    BY <1>2

LEMMA FiniteRange ==
    ASSUME NEW S, IsFiniteSet(S), NEW T, NEW f \in [S -> T],
           \A t \in T : \E x \in S : t = f[x]
    PROVE  IsFiniteSet(T)
<1>1. f \in Surjection(S, T)
    BY DEF Surjection
<1> QED
    BY <1>1, FS_Surjection

-----------------------------------------------------------------------------
(* Files. *)

LEMMA TokenTypes ==
    /\ Part \in Tokens /\ Newline \in Tokens
    /\ \A n \in Nat : Ack(n) \in Tokens
    /\ \A u \in Items : Usage(u) \in Tokens /\ ItemOf(Usage(u)) = u
<1>1. Part \in Tokens /\ Newline \in Tokens /\ \A n \in Nat : Ack(n) \in Tokens
    BY DEF Part, Newline, Ack, Tokens
<1>2. ASSUME NEW u \in Items PROVE ItemOf(Usage(u)) = u
    BY DEF Usage, ItemOf, Items
<1>3. ASSUME NEW u \in Items PROVE Usage(u) \in Tokens
    <2>1. Usage(u) \in [kind : {"usage", "ack", "part", "newline"},
                        seq : Nat, account : Nat, bytes : Nat]
        BY AccountsAssumption DEF Usage, Items
    <2> QED
        BY <1>2, <2>1 DEF Tokens
<1> QED
    BY <1>1, <1>2, <1>3

(* Lines puts each record on a line of its own. *)
LEMMA LinesShape ==
    ASSUME NEW records \in Seq(Tokens)
    PROVE  /\ Lines(records) \in Seq(Tokens)
           /\ Len(Lines(records)) = 2 * Len(records)
           /\ \A i \in 1..(2 * Len(records)) :
                 Lines(records)[i] = IF i % 2 = 1 THEN records[(i + 1) \div 2]
                                     ELSE Newline
<1> DEFINE line(i) == IF i % 2 = 1 THEN records[(i + 1) \div 2] ELSE Newline
<1>1. Len(records) \in Nat /\ 2 * Len(records) \in Nat
    BY LenProperties
<1>2. ASSUME NEW i \in 1..(2 * Len(records)) PROVE line(i) \in Tokens
    <2>1. i % 2 = 1 => (i + 1) \div 2 \in 1..Len(records)
        BY <1>1
    <2> QED
        BY <2>1, TokenTypes, ElementOfSeq
<1>3. [i \in 1..(2 * Len(records)) |-> line(i)] \in Seq(Tokens)
    BY <1>1, <1>2, IsASeq
<1>4. Len([i \in 1..(2 * Len(records)) |-> line(i)]) = 2 * Len(records)
    BY <1>1
<1> QED
    BY <1>3, <1>4 DEF Lines

(* The numbered items of a flush and the records they become. *)
LEMMA NumberedShape ==
    ASSUME NEW charges \in Seq(Charges), nextSeq \in Nat \ {0}
    PROVE  LET numbered == Numbered(charges)
               records == [i \in 1..Len(charges) |-> Usage(numbered[i])]
           IN  /\ \A i \in 1..Len(charges) :
                     numbered[i] \in Items /\ numbered[i].seq = nextSeq + i - 1
               /\ records \in Seq(Tokens)
               /\ Len(records) = Len(charges)
               /\ \A i \in 1..Len(charges) : records[i] = Usage(numbered[i])
<1> DEFINE numbered == Numbered(charges)
           records == [i \in 1..Len(charges) |-> Usage(numbered[i])]
<1>1. Len(charges) \in Nat
    BY LenProperties
<1>2. ASSUME NEW i \in 1..Len(charges)
      PROVE  numbered[i] \in Items /\ numbered[i].seq = nextSeq + i - 1
    <2>1. charges[i] \in Charges
        BY ElementOfSeq
    <2> QED
        BY <1>1, <2>1 DEF Numbered, Charges, Items
<1>3. \A i \in 1..Len(charges) : Usage(numbered[i]) \in Tokens
    BY <1>2, TokenTypes
<1>4. records \in Seq(Tokens)
    <2> HIDE DEF numbered
    <2> QED BY <1>1, <1>3, IsASeq
<1> QED
    BY <1>1, <1>2, <1>4

(* Part of an append is made of tokens. *)
LEMMA FragmentTypes ==
    ASSUME NEW tokens \in Seq(Tokens), NEW torn, NEW got \in Fragments(tokens, torn)
    PROVE  got \in Seq(Tokens)
<1>1. Len(tokens) \in Nat
    BY LenProperties
<1>2. \A n \in 0..Len(tokens) : SubSeq(tokens, 1, n) \in Seq(Tokens)
    <2> TAKE n \in 0..Len(tokens)
    <2>1. \A i \in 1..n : tokens[i] \in Tokens
        BY <1>1, ElementOfSeq
    <2> QED BY <1>1, <2>1, SubSeqProperties
<1>3. \A n \in 0..(Len(tokens) - 1) : Append(SubSeq(tokens, 1, n), Part) \in Seq(Tokens)
    BY <1>1, <1>2, TokenTypes, AppendProperties
<1> QED
    BY <1>2, <1>3 DEF Fragments

-----------------------------------------------------------------------------
(* Types. *)

LEMMA AppendedType ==
    ASSUME WalTypeOK, NEW tokens \in Seq(Tokens), Appended(tokens)
    PROVE  /\ file' \in Seq(Tokens) /\ synced' \in 0..Len(file') /\ attached' \in BOOLEAN
<1>1. /\ file \o tokens \in Seq(Tokens)
      /\ Len(file \o tokens) \in Nat
    BY ConcatProperties, LenProperties DEF WalTypeOK
<1>2. CASE attached
    BY <1>1, <1>2 DEF WalTypeOK, Appended
<1>3. CASE ~attached
    BY <1>3 DEF WalTypeOK, Appended
<1> QED
    BY <1>2, <1>3

LEMMA AppendFailedType ==
    ASSUME WalTypeOK, NEW tokens \in Seq(Tokens), NEW torn, AppendFailed(tokens, torn)
    PROVE  WalTypeOK'
<1>1. PICK got \in Fragments(tokens, torn) : file' = IF attached THEN file \o got ELSE file
    BY DEF AppendFailed
<1>2. got \in Seq(Tokens)
    BY FragmentTypes
<1>3. /\ file \o got \in Seq(Tokens)
      /\ Len(file \o got) = Len(file) + Len(got)
      /\ Len(file) \in Nat /\ Len(got) \in Nat
    BY <1>2, ConcatProperties, LenProperties DEF WalTypeOK
<1>4. file' \in Seq(Tokens) /\ synced' \in 0..Len(file')
    <2>1. synced' = synced /\ synced \in 0..Len(file)
        BY DEF WalTypeOK, AppendFailed
    <2>2. CASE attached
        BY <1>1, <1>3, <2>1, <2>2
    <2>3. CASE ~attached
        BY <1>1, <2>1, <2>3 DEF WalTypeOK
    <2> QED BY <2>2, <2>3
<1> QED
    BY <1>4 DEF WalTypeOK, AppendFailed, memoryVars

LEMMA RecordItemsType ==
    ASSUME WalTypeOK, NEW charges \in Seq(Charges), RecordItems(charges)
    PROVE  WalTypeOK'
<1>1. Len(charges) \in Nat
    BY LenProperties
<1>2. UsageLines(charges) \in Seq(Tokens)
    BY NumberedShape, LinesShape DEF UsageLines, WalTypeOK
<1>3. /\ file' \in Seq(Tokens) /\ synced' \in 0..Len(file') /\ attached' \in BOOLEAN
    BY <1>2, AppendedType DEF RecordItems
<1>4. {Numbered(charges)[i] : i \in 1..Len(charges)} \subseteq Items
    BY NumberedShape DEF WalTypeOK
<1>5. IsFiniteSet(unacked')
    <2> DEFINE new == {Numbered(charges)[i] : i \in 1..Len(charges)}
               kept == {u \in unacked : \A n \in new : u.seq # n.seq}
    <2>1. IsFiniteSet(new)
        <3>1. IsFiniteSet(1..Len(charges))
            BY <1>1, FS_Interval
        <3>2. /\ Numbered(charges) \in [1..Len(charges) -> new]
              /\ \A t \in new : \E i \in 1..Len(charges) : t = Numbered(charges)[i]
            BY DEF Numbered
        <3> HIDE DEF new
        <3> QED BY <3>1, <3>2, FiniteRange
    <2>2. IsFiniteSet(kept)
        BY FS_Subset DEF WalTypeOK
    <2>3. unacked' = kept \cup new
        BY DEF RecordItems
    <2> QED BY <2>1, <2>2, <2>3, FS_Union
<1> QED
    BY <1>1, <1>3, <1>4, <1>5 DEF WalTypeOK, RecordItems

LEMMA RecordItemsFailsType ==
    ASSUME WalTypeOK, NEW charges \in Seq(Charges), NEW torn, RecordItemsFails(charges, torn)
    PROVE  WalTypeOK'
<1>1. UsageLines(charges) \in Seq(Tokens)
    BY NumberedShape, LinesShape DEF UsageLines, WalTypeOK
<1> QED
    BY <1>1, AppendFailedType DEF RecordItemsFails

LEMMA AckThroughType ==
    ASSUME WalTypeOK, NEW n \in Nat,
           \/ AckThrough(n)
           \/ AckThroughFails(n, TRUE)
           \/ AckThroughFails(n, FALSE)
    PROVE  WalTypeOK'
<1>1. <<Ack(n)>> \in Seq(Tokens)
    BY TokenTypes
<1>2. Lines(<<Ack(n)>>) \in Seq(Tokens)
    BY <1>1, LinesShape
<1>3. CASE AckThrough(n)
    <2>1. /\ file' \in Seq(Tokens) /\ synced' \in 0..Len(file') /\ attached' \in BOOLEAN
        BY <1>2, <1>3, AppendedType DEF AckThrough
    <2>2. IsFiniteSet(unacked')
        BY <1>3, FS_Subset DEF WalTypeOK, AckThrough
    <2> QED
        BY <1>3, <2>1, <2>2 DEF WalTypeOK, AckThrough
<1>4. CASE \E torn \in BOOLEAN : AckThroughFails(n, torn)
    BY <1>2, <1>4, AppendFailedType DEF AckThroughFails
<1> QED
    BY <1>3, <1>4

(* The compacted log is one line for the acknowledgement, one per item. *)
LEMMA CompactedShape ==
    ASSUME WalTypeOK, NEW s \in Listings(unacked)
    PROVE  LET records == <<Ack(ackThrough)>> \o [i \in 1..Len(s) |-> Usage(s[i])]
           IN  /\ Len(s) \in Nat
               /\ \A i \in 1..Len(s) : s[i] \in unacked
               /\ records \in Seq(Tokens)
               /\ Len(records) = 1 + Len(s)
               /\ records[1] = Ack(ackThrough)
               /\ \A i \in 1..Len(s) : records[i + 1] = Usage(s[i])
<1> DEFINE items == [i \in 1..Len(s) |-> Usage(s[i])]
           n == Cardinality(unacked)
<1>1. n \in Nat
    BY FS_CardinalityType DEF WalTypeOK
<1>2. s \in [1..n -> unacked]
    BY DEF Listings
<1>3. Len(s) = n
    BY <1>1, <1>2
<1>4. \A i \in 1..Len(s) : s[i] \in unacked
    BY <1>2, <1>3
<1>5. \A i \in 1..Len(s) : Usage(s[i]) \in Tokens
    BY <1>4, TokenTypes DEF WalTypeOK
<1>6. items \in Seq(Tokens) /\ Len(items) = Len(s)
    BY <1>1, <1>3, <1>5, IsASeq
<1>7. <<Ack(ackThrough)>> \in Seq(Tokens)
    BY TokenTypes DEF WalTypeOK
<1> HIDE DEF n
<1> QED
    BY <1>1, <1>3, <1>4, <1>6, <1>7, ConcatProperties

LEMMA CompactedType ==
    ASSUME WalTypeOK, Compacted
    PROVE  file' \in Seq(Tokens) /\ synced' \in 0..Len(file')
<1>1. PICK s \in Listings(unacked) :
        /\ file' = Lines(<<Ack(ackThrough)>> \o [i \in 1..Len(s) |-> Usage(s[i])])
        /\ synced' = 2 + 2 * Len(s)
    BY DEF Compacted
<1> DEFINE records == <<Ack(ackThrough)>> \o [i \in 1..Len(s) |-> Usage(s[i])]
<1>2. Len(s) \in Nat /\ records \in Seq(Tokens) /\ Len(records) = 1 + Len(s)
    BY CompactedShape
<1> HIDE DEF records
<1>3. Lines(records) \in Seq(Tokens) /\ Len(Lines(records)) = 2 + 2 * Len(s)
    BY <1>2, LinesShape
<1>4. file' = Lines(records)
    BY <1>1 DEF records
<1> QED
    BY <1>1, <1>2, <1>3, <1>4

LEMMA PowerFailsType ==
    ASSUME WalTypeOK, PowerFails
    PROVE  file' \in Seq(Tokens) /\ synced' \in 0..Len(file')
<1>1. PICK n \in synced..Len(file) :
          file' = SubSeq(file, 1, n) \/ file' = Append(SubSeq(file, 1, n), Part)
    BY DEF PowerFails
<1>2. Len(file) \in Nat /\ n \in 0..Len(file)
    BY LenProperties DEF WalTypeOK
<1>3. \A i \in 1..n : file[i] \in Tokens
    BY <1>2, ElementOfSeq DEF WalTypeOK
<1>4. SubSeq(file, 1, n) \in Seq(Tokens)
    BY <1>2, <1>3, SubSeqProperties
<1>5. file' \in Seq(Tokens)
    BY <1>1, <1>4, TokenTypes, AppendProperties
<1> QED
    BY <1>5, LenProperties DEF PowerFails

LEMMA OpenType ==
    ASSUME WalTypeOK, Open
    PROVE  WalTypeOK'
<1>1. Len(file) \in Nat /\ \A i \in 1..Len(file) : file[i] \in Tokens
    BY LenProperties, ElementOfSeq DEF WalTypeOK
<1>2. Repaired(file) \in Seq(Tokens)
    <2> DEFINE bad == {i \in 1..Len(file) : Spoils(file, i)}
               first == CHOOSE i \in bad : \A j \in bad : i <= j
    <2>1. CASE bad # {} /\ first \in bad
        <3>1. \A i \in 1..(first - 1) : file[i] \in Tokens
            BY <1>1, <2>1
        <3>2. SubSeq(file, 1, first - 1) \in Seq(Tokens)
            BY <1>1, <2>1, <3>1, SubSeqProperties
        <3> QED BY <2>1, <3>2 DEF Repaired
    <2>2. bad # {} => first \in bad
        <3>1. SUFFICES ASSUME bad # {}
                       PROVE  \E i \in bad : \A j \in bad : i <= j
            OBVIOUS
        <3>2. bad \subseteq Nat
            BY <1>1
        <3> HIDE DEF bad
        <3> QED BY <3>1, <3>2, LeastNumber
    <2>3. CASE bad = {}
        BY <2>3, TokenTypes, AppendProperties DEF Repaired, WalTypeOK
    <2> QED BY <2>1, <2>2, <2>3
<1>3. file' \in Seq(Tokens) /\ Len(file') \in Nat
    BY <1>2, LenProperties DEF Open
<1>4. synced' \in 0..Len(file')
    BY <1>3 DEF Open, WalTypeOK
<1>5. PICK a, l \in Numbers(file) :
          ackThrough' = a /\ nextSeq' = l + 1 /\ unacked' = Replay(file, a)
    BY DEF Open
<1>6. Numbers(file) \subseteq Nat
    BY <1>1 DEF Numbers, Tokens
<1>7. Replay(file, a) \subseteq Items
    BY <1>1 DEF Replay, Current, Tokens
<1>8. IsFiniteSet(Replay(file, a))
    <2> DEFINE g == [i \in 1..Len(file) |-> ItemOf(file[i])]
               range == {g[i] : i \in 1..Len(file)}
    <2>1. IsFiniteSet(range)
        <3>1. IsFiniteSet(1..Len(file))
            BY <1>1, FS_Interval
        <3>2. /\ g \in [1..Len(file) -> range]
              /\ \A t \in range : \E i \in 1..Len(file) : t = g[i]
            OBVIOUS
        <3> HIDE DEF g, range
        <3> QED BY <3>1, <3>2, FiniteRange
    <2>2. Replay(file, a) \subseteq range
        BY DEF Replay
    <2> QED BY <2>1, <2>2, FS_Subset
<1> QED
    BY <1>3, <1>4, <1>5, <1>6, <1>7, <1>8 DEF WalTypeOK, Open

LEMMA PendingChargesType ==
    ASSUME pending \in [Accounts -> Nat],
           NEW s \in [1..Cardinality(PendingCharges) -> PendingCharges]
    PROVE  s \in Seq(Charges)
<1> DEFINE busy == {a \in Accounts : pending[a] > 0}
           g == [a \in busy |-> [account |-> a, bytes |-> pending[a]]]
<1>1. IsFiniteSet(busy)
    BY AccountsAssumption, FS_Subset
<1>2. PendingCharges = {g[a] : a \in busy}
    BY DEF PendingCharges
<1>3. IsFiniteSet(PendingCharges)
    <2>1. /\ g \in [busy -> PendingCharges]
          /\ \A t \in PendingCharges : \E a \in busy : t = g[a]
        BY <1>2
    <2> HIDE DEF g, busy
    <2> QED BY <1>1, <1>2, <2>1, FiniteRange
<1>4. Cardinality(PendingCharges) \in Nat
    BY <1>3, FS_CardinalityType
<1>5. PendingCharges \subseteq Charges
    BY DEF PendingCharges, Charges
<1> QED
    BY <1>4, <1>5

USE DEF Flushers, Stages

LEMMA InitType == Init => TypeOK
<1> SUFFICES ASSUME Init PROVE TypeOK
    OBVIOUS
<1>1. WalTypeOK
    BY FS_EmptySet DEF Init, WalInit, WalTypeOK
<1>2. /\ taken \in Seq(Charges) /\ reports \in Seq(SUBSET Items)
      /\ answers \in Seq(Nat)
    BY DEF Init
<1>3. linked \in BOOLEAN
    BY DEF Init
<1>4. faults \in 0..MaxFaults
    BY UsageAssumption DEF Init
<1> QED
    BY <1>1, <1>2, <1>3, <1>4 DEF Init, TypeOK

LEMMA UnlinkType ==
    ASSUME Unlink
    PROVE  linked' \in BOOLEAN /\ reports' \in Seq(SUBSET Items) /\ answers' \in Seq(Nat)
<1>1. linked' \in BOOLEAN
    BY DEF Unlink
<1>2. reports' \in Seq(SUBSET Items) /\ answers' \in Seq(Nat)
    BY DEF Unlink
<1> QED
    BY <1>1, <1>2

LEMMA FaultType ==
    ASSUME TypeOK, NEW k, Fault(k)
    PROVE  faults' \in 0..MaxFaults
BY UsageAssumption DEF TypeOK, Fault

LEMMA StepType == TypeOK /\ [Next]_vars => TypeOK'
<1> SUFFICES ASSUME TypeOK, [Next]_vars PROVE TypeOK'
    OBVIOUS
<1>1. ASSUME NEW a \in Accounts, CommitUsage(a) PROVE TypeOK'
    BY <1>1 DEF TypeOK, CommitUsage, WalTypeOK, walVars, linkVars
<1>2. ASSUME NEW f \in Flushers, TakePending(f) PROVE TypeOK'
    <2>1. taken' \in Seq(Charges)
        BY <1>2, PendingChargesType DEF TypeOK, TakePending
    <2>2. stage' \in [Flushers -> Stages]
        BY <1>2 DEF TypeOK, TakePending, Goto
    <2>3. faults' \in 0..MaxFaults
        BY <1>2, FaultType DEF TypeOK, TakePending
    <2> QED
        BY <1>2, <2>1, <2>2, <2>3
        DEF TypeOK, TakePending, WalTypeOK, walVars, linkVars
<1>3. ASSUME NEW f \in Flushers, RecordTaken(f) PROVE TypeOK'
    <2>1. WalTypeOK'
        BY <1>3, RecordItemsType DEF TypeOK, RecordTaken
    <2> QED
        BY <1>3, <2>1 DEF TypeOK, RecordTaken, Goto, linkVars
<1>4. ASSUME NEW f \in Flushers, RecordTakenFails(f) PROVE TypeOK'
    <2>1. WalTypeOK' /\ faults' \in 0..MaxFaults
        BY <1>4, RecordItemsFailsType, FaultType DEF TypeOK, RecordTakenFails
    <2>2. stage' \in [Flushers -> Stages]
        BY <1>4 DEF TypeOK, RecordTakenFails, Goto
    <2>3. linked' \in BOOLEAN /\ reports' \in Seq(SUBSET Items) /\ answers' \in Seq(Nat)
        BY <1>4, UnlinkType DEF TypeOK, RecordTakenFails, linkVars
    <2> QED
        BY <1>4, <2>1, <2>2, <2>3 DEF TypeOK, RecordTakenFails
<1>5. ASSUME NEW f \in Flushers, SubtractTaken(f) PROVE TypeOK'
    <2>1. \A a \in Accounts : TakenOf(a) \in Nat
        <3> TAKE a \in Accounts
        <3>1. Len(taken) \in Nat /\ \A i \in 1..Len(taken) : taken[i] \in Charges
            BY LenProperties, ElementOfSeq DEF TypeOK
        <3>2. CASE \E i \in 1..Len(taken) : taken[i].account = a
            <4> DEFINE c == CHOOSE i \in 1..Len(taken) : taken[i].account = a
            <4>1. c \in 1..Len(taken)
                BY <3>2
            <4>2. TakenOf(a) = taken[c].bytes
                BY <3>2 DEF TakenOf
            <4> HIDE DEF c
            <4> QED BY <3>1, <4>1, <4>2 DEF Charges
        <3>3. CASE ~\E i \in 1..Len(taken) : taken[i].account = a
            BY <3>3 DEF TakenOf
        <3> QED BY <3>2, <3>3
    <2>2. pending' \in [Accounts -> Nat]
        BY <1>5, <2>1 DEF TypeOK, SubtractTaken
    <2> QED
        BY <1>5, <2>2 DEF TypeOK, SubtractTaken, Goto, WalTypeOK, walVars, linkVars
<1>6. CASE SendReport
    <2>1. Batch(MaxItems) \in SUBSET Items
        BY DEF TypeOK, WalTypeOK, Batch
    <2>2. reports' \in Seq(SUBSET Items)
        BY <1>6, <2>1, AppendProperties DEF TypeOK, SendReport
    <2> QED
        BY <1>6, <2>2 DEF TypeOK, SendReport, Goto, WalTypeOK, walVars
<1>7. CASE PlatformIngests
    <2>1. Head(reports) \in SUBSET Items /\ Tail(reports) \in Seq(SUBSET Items)
        BY <1>7, HeadTailProperties DEF TypeOK, PlatformIngests
    <2>2. ingested' \subseteq Items
        BY <1>7, <2>1 DEF TypeOK, PlatformIngests
    <2>3. answers' \in Seq(Nat)
        <3>1. PICK u \in Head(reports) : answers' = Append(answers, u.seq)
            BY <1>7 DEF PlatformIngests
        <3>2. u.seq \in Nat
            BY <2>1 DEF Items
        <3> QED BY <3>1, <3>2, AppendProperties DEF TypeOK
    <2> QED
        BY <1>7, <2>1, <2>2, <2>3
        DEF TypeOK, PlatformIngests, WalTypeOK, walVars, flushVars
<1>8. CASE ApplyAck
    <2>1. Head(answers) \in Nat /\ Tail(answers) \in Seq(Nat)
        BY <1>8, HeadTailProperties DEF TypeOK, ApplyAck, Answering
    <2>2. WalTypeOK' /\ stage' \in [Flushers -> Stages]
        <3>1. CASE Available(Head(answers)) /\ Head(answers) > ackThrough
            BY <1>8, <2>1, <3>1, AckThroughType DEF TypeOK, ApplyAck, Goto
        <3>2. CASE ~(Available(Head(answers)) /\ Head(answers) > ackThrough)
            BY <1>8, <3>2 DEF TypeOK, ApplyAck, WalTypeOK, walVars
        <3> QED BY <3>1, <3>2
    <2>3. linked' \in BOOLEAN /\ reports' \in Seq(SUBSET Items) /\ answers' \in Seq(Nat)
        <3>1. CASE Available(Head(answers))
            BY <1>8, <2>1, <3>1 DEF TypeOK, ApplyAck
        <3>2. CASE ~Available(Head(answers))
            BY <1>8, <3>2, UnlinkType DEF ApplyAck
        <3> QED BY <3>1, <3>2
    <2> QED
        BY <1>8, <2>2, <2>3 DEF TypeOK, ApplyAck
<1>9. CASE ApplyAckFails
    <2>1. Head(answers) \in Nat
        BY <1>9, HeadTailProperties DEF TypeOK, ApplyAckFails, Answering
    <2>2. WalTypeOK' /\ faults' \in 0..MaxFaults
        BY <1>9, <2>1, AckThroughType, FaultType DEF TypeOK, ApplyAckFails
    <2> QED
        BY <1>9, <2>2, UnlinkType DEF TypeOK, ApplyAckFails, flushVars
<1>10. CASE CompactLog
    <2>1. WalTypeOK'
        BY <1>10, CompactedType DEF TypeOK, CompactLog, Compact, WalTypeOK, memoryVars
    <2> QED
        BY <1>10, <2>1 DEF TypeOK, CompactLog, Goto, linkVars
<1>11. CASE CompactLogFails
    <2>1. WalTypeOK'
        BY <1>11, CompactedType
        DEF TypeOK, CompactLogFails, CompactOrphans, WalTypeOK, memoryVars, walVars
    <2>2. faults' \in 0..MaxFaults
        BY <1>11, FaultType DEF CompactLogFails
    <2> QED
        BY <1>11, <2>1, <2>2, UnlinkType DEF TypeOK, CompactLogFails, Goto
<1>12. CASE Connect
    BY <1>12 DEF TypeOK, Connect, WalTypeOK, walVars, flushVars
<1>13. CASE LinkBreaks
    BY <1>13, UnlinkType, FaultType DEF TypeOK, LinkBreaks, WalTypeOK, walVars, flushVars
<1>14. CASE Exit \/ Crash
    <2>1. WalTypeOK'
        <3>1. CASE ProcessEnds
            BY <3>1, FS_EmptySet DEF TypeOK, WalTypeOK, ProcessEnds, MemoryLost
        <3>2. CASE PowerFails
            BY <3>2, FS_EmptySet, PowerFailsType DEF TypeOK, WalTypeOK, PowerFails, MemoryLost
        <3> QED BY <1>14, <3>1, <3>2 DEF Exit, Crash
    <2>2. faults' \in 0..MaxFaults
        BY <1>14, FaultType DEF Exit, Crash, TypeOK
    <2>3. ProcessGone
        BY <1>14 DEF Exit, Crash
    <2> QED
        BY <2>1, <2>2, <2>3, UnlinkType DEF TypeOK, ProcessGone
<1>15. CASE Restart
    <2>1. WalTypeOK'
        BY <1>15, OpenType DEF TypeOK, Restart
    <2> QED
        BY <1>15, <2>1 DEF TypeOK, Restart, flushVars, linkVars
<1>16. CASE RestartRefused
    BY <1>16 DEF TypeOK, RestartRefused, WalTypeOK, walVars, flushVars, linkVars
<1>17. CASE UNCHANGED vars
    BY <1>17 DEF TypeOK, vars, WalTypeOK, walVars, flushVars, linkVars
<1> QED
    BY <1>1, <1>2, <1>3, <1>4, <1>5, <1>6, <1>7, <1>8, <1>9, <1>10, <1>11, <1>12,
       <1>13, <1>14, <1>15, <1>16, <1>17 DEF Next, Flush

(* Metering is type correct, whatever fails: in particular numbers stay    *)
(* positive and every flush in progress is a sequence of positive charges. *)
THEOREM UsageTypeCorrect == Spec => []TypeOK
<1> QED
    BY InitType, StepType, PTL DEF Spec
-----------------------------------------------------------------------------
(* What a start could find.  open syncs nothing that it replays, so the    *)
(* results below are about logs whose machine never fails, or whose        *)
(* process never stops by itself; with both, a power loss can take away    *)
(* what an earlier start has already numbered on.                          *)

StopsOneWay == "power" \in Faults => Faults \cap {"kill", "stop"} = {}

(* No line is ever spoiled and no handle lost. *)
CleanFaults == StopsOneWay /\ Faults \cap {"torn", "orphan"} = {}

(* Records and newlines alternate: every line is whole. *)
WellFormed(f) ==
    /\ Len(f) % 2 = 0
    /\ \A i \in 1..Len(f) : IF i % 2 = 1 THEN IsRecord(f[i]) ELSE f[i] = Newline

(* Every newline ends something. *)
NoBlank(f) == \A i \in 1..Len(f) : f[i] = Newline => i > 1 /\ f[i - 1] # Newline

(* The line of f at i is an item that no later line replaces. *)
Stands(f, i) ==
    /\ f[i].kind = "usage"
    /\ \A j \in 1..Len(f) : j > i /\ f[j].kind = "usage" => f[j].seq # f[i].seq

(* The items and the acknowledgements of a file whose lines are whole. *)
Entries(f) == {ItemOf(f[i]) : i \in {i \in 1..Len(f) : Stands(f, i)}}
Acks(f) == {f[i].seq : i \in {i \in 1..Len(f) : f[i].kind = "ack"}}

(* A stop leaves the first n tokens at least: it may lose what was never   *)
(* synced, if the power fails, and the next start may cut off a trailing   *)
(* line.                                                                   *)
Kept(f, s, n) ==
    \/ "power" \in Faults /\ n >= s
    \/ \A j \in 1..Len(f) : j > n => f[j] # Newline

(* The logs a start could go on with, after a file f of which s is synced. *)
ViewsOf(f, s) ==
    {g \in UNION {{SubSeq(f, 1, n), Append(SubSeq(f, 1, n), Newline)} :
                     n \in {n \in 0..Len(f) : Kept(f, s, n)}} : WellFormed(g)}

Views == ViewsOf(file, synced)

Up == process = "up"

FileInv ==
    /\ NoBlank(file)
    /\ "power" \in Faults =>
          IF Up THEN synced > 0 => file[synced] = Newline
          ELSE synced = Len(file)

MemoryInv ==
    /\ ackThrough < nextSeq
    /\ \A u \in unacked : ackThrough < u.seq /\ u.seq < nextSeq
    /\ \A u, v \in unacked : u.seq = v.seq => u = v

(* A stopped process has nothing in memory or under way. *)
DownInv ==
    /\ reports = <<>>
    /\ unacked = {}
    /\ \A f \in Flushers : stage[f] = "idle"
    /\ \A a \in Accounts : pending[a] = 0

Locks(f) == stage[f] \in {"taken", "recorded"}

(* One flush at a time; its snapshot is sorted and still in the meters. *)
FlushInv ==
    /\ "stop" \notin Faults => stage["main"] = "idle"
    /\ \A f, h \in Flushers : Locks(f) /\ Locks(h) => f = h
    /\ (\E f \in Flushers : Locks(f)) =>
          /\ taken # <<>>
          /\ \A i, j \in 1..Len(taken) : i < j => taken[i].account < taken[j].account
          /\ \A i \in 1..Len(taken) : taken[i].bytes <= pending[taken[i].account]

FiniteInv ==
    /\ IsFiniteSet(ingested)
    /\ \A i \in 1..Len(reports) : IsFiniteSet(reports[i])

(* What the flush under way has offered to the log, or the next one would. *)
Offered == [a \in Accounts |->
               IF \E f \in Flushers : stage[f] = "taken" THEN TakenOf(a)
               ELSE IF Recorded THEN 0 ELSE pending[a]]

Rank(offer, a) == Cardinality({b \in Accounts : b < a /\ offer[b] > 0})

(* Failed flushes leave lines with numbers from n on, which the next one   *)
(* gives out again.  Each flush offers at least what the one before did,   *)
(* in the same order, so what is left of several never shows an account    *)
(* twice, nor a line that a complete flush would not replace.              *)
Leftover(items, n) == {u \in items : u.seq >= n}

LeftoverOK(items, n, offer) ==
    /\ \A u \in Leftover(items, n) :
          u.bytes <= offer[u.account] /\ u.seq <= n + Rank(offer, u.account)
    /\ \A u, v \in Leftover(items, n) : u.account = v.account => u = v

TailInv ==
    \A g \in Views :
        /\ LeftoverOK(Entries(g), nextSeq, Offered)
        /\ ~attached => Leftover(Entries(g), nextSeq) = {}

(* Everything that was or may yet be billed under the numbers given out. *)
Sent == UNION {reports[i] : i \in 1..Len(reports)}
Owed == ingested \cup unacked \cup Sent
Unpaid(g) == {u \in Entries(g) : \A n \in Acks(g) : u.seq > n}
Base(g) == {u \in Unpaid(g) : Up => u.seq < nextSeq}

Covered(items) ==
    \A a \in Accounts : Total(Owed \cup items, a) + Volatile[a] <= relayed[a]

SumInv == Covered({}) /\ \A g \in Views : Covered(Base(g))

CoreInv ==
    /\ FileInv
    /\ FlushInv
    /\ FiniteInv
    /\ IF Up THEN MemoryInv /\ TailInv ELSE DownInv
    /\ SumInv

-----------------------------------------------------------------------------
(* The exact books, without spoiled lines and lost handles. *)

(* A billed item is acknowledged, or unchanged in memory. *)
Known(u) == u.seq <= ackThrough \/ u \in unacked

LinkInv ==
    /\ \A d \in ingested : Known(d)
    /\ \A i \in 1..Len(reports) : \A r \in reports[i] :
          /\ r \in unacked \/ r \in ingested
          /\ \A u \in unacked : u.seq <= r.seq => u \in reports[i]
    /\ \A i \in 1..Len(answers) :
          /\ answers[i] < nextSeq
          /\ \A u \in unacked : u.seq <= answers[i] => u \in ingested

(* A log has what memory has, and below next_seq nothing else; it may be   *)
(* ahead with an acknowledgement of what was billed.                       *)
LoggedIn(g) ==
    /\ unacked \subseteq Entries(g)
    /\ \A u \in Entries(g) : ackThrough < u.seq /\ u.seq < nextSeq => u \in unacked
    /\ ackThrough > 0 => ackThrough \in Acks(g)
    /\ \A n \in Acks(g) : /\ n < nextSeq
                          /\ \A u \in unacked : u.seq <= n => u \in ingested

BilledIn(g) == \A d \in ingested : d \in Entries(g) \/ \E n \in Acks(g) : d.seq <= n

ExactInv ==
    /\ attached
    /\ \A g \in Views : BilledIn(g)
    /\ IF Up THEN WellFormed(file) /\ LinkInv /\ \A g \in Views : LoggedIn(g)
       ELSE ~Corrupt(file) /\ answers = <<>>

-----------------------------------------------------------------------------
(* Sums of bytes. *)

LEMMA BytesFinite ==
    ASSUME NEW S, S \subseteq Items, IsFiniteSet(S), NEW a
    PROVE  IsFiniteSet(BytesOf(S, a)) /\ Total(S, a) \in Nat
<1> DEFINE T == {u \in S : u.account = a}
           f == [u \in T |-> {u} \X (1..u.bytes)]
           R == {{u} \X (1..u.bytes) : u \in T}
<1>1. IsFiniteSet(T)
    BY FS_Subset
<1>2. IsFiniteSet(R)
    <2>1. f \in Surjection(T, R)
        BY DEF Surjection
    <2> QED BY <1>1, <2>1, FS_Surjection
<1>3. ASSUME NEW u \in T PROVE IsFiniteSet({u} \X (1..u.bytes))
    <2>1. u.bytes \in Int /\ 1 \in Int
        BY DEF Items
    <2>2. IsFiniteSet(1..u.bytes)
        BY <2>1, FS_Interval
    <2>3. IsFiniteSet({u})
        BY FS_Singleton
    <2> QED BY <2>2, <2>3, FS_Product
<1>4. \A r \in R : IsFiniteSet(r)
    BY <1>3
<1>5. IsFiniteSet(UNION R)
    <2> HIDE DEF R
    <2> QED BY <1>2, <1>4, FS_UNION
<1>6. BytesOf(S, a) = UNION R
    BY DEF BytesOf
<1> HIDE DEF R
<1> QED
    BY <1>5, <1>6, FS_CardinalityType DEF Total

LEMMA BytesIn ==
    ASSUME NEW S, NEW a, NEW x
    PROVE  x \in BytesOf(S, a) <=>
              \E u \in S : u.account = a /\ x \in {u} \X (1..u.bytes)
BY Zenon DEF BytesOf

LEMMA TotalMonotone ==
    ASSUME NEW S, NEW T, S \subseteq T, T \subseteq Items, IsFiniteSet(T), NEW a
    PROVE  Total(S, a) <= Total(T, a)
<1>1. BytesOf(S, a) \in SUBSET BytesOf(T, a)
    BY BytesIn
<1>2. IsFiniteSet(BytesOf(T, a))
    BY BytesFinite
<1> QED
    BY <1>1, <1>2, FS_Subset DEF Total

LEMMA TotalUnion ==
    ASSUME NEW S, NEW T, S \subseteq Items, IsFiniteSet(S),
           T \subseteq Items, IsFiniteSet(T), NEW a
    PROVE  /\ Total(S \cup T, a) <= Total(S, a) + Total(T, a)
           /\ S \cap T = {} => Total(S \cup T, a) = Total(S, a) + Total(T, a)
<1> DEFINE A == BytesOf(S, a)
           B == BytesOf(T, a)
<1>1. IsFiniteSet(A) /\ IsFiniteSet(B)
    BY BytesFinite
<1>2. BytesOf(S \cup T, a) = A \cup B
    BY BytesIn
<1>3. S \cap T = {} => A \cap B = {}
    <2> SUFFICES ASSUME NEW x, x \in A, x \in B PROVE \E u : u \in S /\ u \in T
        OBVIOUS
    <2>1. PICK u \in S : x \in {u} \X (1..u.bytes)
        BY BytesIn
    <2>2. PICK v \in T : x \in {v} \X (1..v.bytes)
        BY BytesIn
    <2>3. x[1] = u /\ x[1] = v
        BY <2>1, <2>2
    <2> QED BY <2>3
<1> HIDE DEF A, B
<1>4. /\ Cardinality(A \cup B) = Cardinality(A) + Cardinality(B) - Cardinality(A \cap B)
      /\ IsFiniteSet(A \cap B)
    BY <1>1, FS_Union, FS_Intersection
<1>5. /\ Cardinality(A) \in Nat /\ Cardinality(B) \in Nat /\ Cardinality(A \cap B) \in Nat
      /\ Cardinality({}) = 0
    BY <1>1, <1>4, FS_CardinalityType, FS_EmptySet
<1>6. /\ Total(S, a) = Cardinality(A) /\ Total(T, a) = Cardinality(B)
      /\ Total(S \cup T, a) = Cardinality(A \cup B)
    BY <1>2 DEF Total, A, B
<1>7. Total(S \cup T, a) <= Total(S, a) + Total(T, a)
    BY <1>4, <1>5, <1>6
<1>8. S \cap T = {} => Cardinality(A \cap B) = 0
    BY <1>3, <1>5
<1>9. S \cap T = {} => Total(S \cup T, a) = Total(S, a) + Total(T, a)
    BY <1>4, <1>5, <1>6, <1>8
<1> QED
    BY <1>7, <1>9

LEMMA TotalEmpty ==
    ASSUME NEW S, NEW a, \A u \in S : u.account # a
    PROVE  Total(S, a) = 0
<1>1. BytesOf(S, a) = {}
    BY BytesIn
<1> QED
    BY <1>1, FS_EmptySet DEF Total

(* An account that has one item has its bytes. *)
LEMMA TotalOfOne ==
    ASSUME NEW S, NEW u \in S, u \in Items, NEW a, u.account = a,
           \A v \in S : v.account = a => v = u
    PROVE  Total(S, a) = u.bytes
<1>1. u.bytes \in Nat /\ u.bytes > 0 /\ u.bytes \in Int /\ 1 \in Int
    BY DEF Items
<1>2. BytesOf(S, a) = {u} \X (1..u.bytes)
    BY BytesIn
<1>3. IsFiniteSet(1..u.bytes) /\ Cardinality(1..u.bytes) = u.bytes
    <2>1. /\ IsFiniteSet(1..u.bytes)
          /\ Cardinality(1..u.bytes) = IF 1 > u.bytes THEN 0 ELSE u.bytes - 1 + 1
        BY <1>1, FS_Interval
    <2> QED BY <1>1, <2>1
<1>4. IsFiniteSet({u}) /\ Cardinality({u}) = 1
    BY FS_Singleton
<1>5. Cardinality({u} \X (1..u.bytes)) = Cardinality({u}) * Cardinality(1..u.bytes)
    BY <1>3, <1>4, FS_Product
<1>6. Cardinality({u} \X (1..u.bytes)) = 1 * u.bytes
    BY <1>3, <1>4, <1>5
<1> QED
    BY <1>1, <1>2, <1>6 DEF Total

LEMMA TotalOffered ==
    ASSUME NEW S, S \subseteq Items, NEW offer \in [Accounts -> Nat],
           \A u, v \in S : u.account = v.account => u = v,
           \A u \in S : u.bytes <= offer[u.account],
           NEW a \in Accounts
    PROVE  Total(S, a) <= offer[a]
<1>1. CASE \A u \in S : u.account # a
    BY <1>1, TotalEmpty
<1>2. ASSUME NEW u \in S, u.account = a PROVE Total(S, a) <= offer[a]
    <2>1. \A v \in S : v.account = a => v = u
        BY <1>2
    <2>2. Total(S, a) = u.bytes
        BY <1>2, <2>1, TotalOfOne
    <2> QED BY <1>2, <2>2
<1> QED
    BY <1>1, <1>2

-----------------------------------------------------------------------------
(* Files and what is in them. *)

LEMMA WellFormedWhole ==
    ASSUME NEW f \in Seq(Tokens), WellFormed(f)
    PROVE  /\ \A i \in 1..Len(f) : ~Spoils(f, i)
           /\ ~Corrupt(f)
           /\ NoBlank(f)
<1>1. Len(f) \in Nat
    BY LenProperties
<1>2. ~IsRecord(Newline)
    BY DEF IsRecord, Newline
<1>3. ASSUME NEW i \in 1..Len(f), i % 2 = 1 PROVE Whole(f, i)
    <2>1. IsRecord(f[i])
        BY <1>3 DEF WellFormed
    <2>2. i > 1 => i - 1 \in 1..Len(f) /\ (i - 1) % 2 = 0
        BY <1>1, <1>3
    <2>3. i < Len(f) => i + 1 \in 1..Len(f) /\ (i + 1) % 2 = 0
        BY <1>1, <1>3
    <2> QED
        BY <2>1, <2>2, <2>3 DEF WellFormed, Whole
<1>4. ASSUME NEW i \in 1..Len(f), i % 2 # 1 PROVE f[i] = Newline
    BY <1>4 DEF WellFormed
<1>5. \A i \in 1..Len(f) : ~Spoils(f, i)
    BY <1>3, <1>4 DEF Spoils
<1>6. NoBlank(f)
    <2> SUFFICES ASSUME NEW i \in 1..Len(f), f[i] = Newline
                 PROVE  i > 1 /\ f[i - 1] # Newline
        BY DEF NoBlank
    <2>1. i % 2 # 1
        BY <1>2 DEF WellFormed
    <2>2. i > 1 /\ i - 1 \in 1..Len(f) /\ (i - 1) % 2 = 1
        BY <1>1, <2>1
    <2> QED BY <1>2, <2>2 DEF WellFormed
<1> QED
    BY <1>5, <1>6 DEF Corrupt

LEMMA WellFormedConcat ==
    ASSUME NEW f \in Seq(Tokens), NEW g \in Seq(Tokens), WellFormed(f), WellFormed(g)
    PROVE  WellFormed(f \o g)
<1>1. Len(f) \in Nat /\ Len(g) \in Nat
    BY LenProperties
<1>2. /\ Len(f \o g) = Len(f) + Len(g)
      /\ \A i \in 1..(Len(f) + Len(g)) :
            (f \o g)[i] = IF i <= Len(f) THEN f[i] ELSE g[i - Len(f)]
    BY ConcatProperties
<1>3. Len(f) % 2 = 0 /\ Len(g) % 2 = 0
    BY DEF WellFormed
<1>4. ASSUME NEW i \in 1..(Len(f) + Len(g))
      PROVE  IF i % 2 = 1 THEN IsRecord((f \o g)[i]) ELSE (f \o g)[i] = Newline
    <2>1. CASE i <= Len(f)
        <3>1. i \in 1..Len(f)
            BY <1>1, <2>1
        <3> QED BY <1>2, <2>1, <3>1 DEF WellFormed
    <2>2. CASE ~(i <= Len(f))
        <3>1. i - Len(f) \in 1..Len(g) /\ (i - Len(f)) % 2 = i % 2
            BY <1>1, <1>3, <2>2
        <3> QED BY <1>2, <2>2, <3>1 DEF WellFormed
    <2> QED BY <2>1, <2>2
<1>5. (Len(f) + Len(g)) % 2 = 0
    BY <1>1, <1>3
<1> QED
    BY <1>2, <1>4, <1>5 DEF WellFormed

LEMMA LinesWellFormed ==
    ASSUME NEW records \in Seq(Tokens), \A i \in 1..Len(records) : IsRecord(records[i])
    PROVE  WellFormed(Lines(records))
<1>1. Len(records) \in Nat
    BY LenProperties
<1>2. \A i \in 1..(2 * Len(records)) : i % 2 = 1 => (i + 1) \div 2 \in 1..Len(records)
    BY <1>1
<1>3. (2 * Len(records)) % 2 = 0
    BY <1>1
<1> QED
    BY <1>1, <1>2, <1>3, LinesShape DEF WellFormed

(* The first tokens of a file. *)
LEMMA PrefixShape ==
    ASSUME NEW f \in Seq(Tokens), NEW n \in 0..Len(f)
    PROVE  /\ SubSeq(f, 1, n) \in Seq(Tokens)
           /\ Len(SubSeq(f, 1, n)) = n
           /\ \A i \in 1..n : SubSeq(f, 1, n)[i] = f[i]
<1>1. Len(f) \in Nat /\ n \in Int /\ n >= 0 /\ n <= Len(f) /\ 1 \in Int
    BY LenProperties
<1>2. \A i \in 1..n : f[i] \in Tokens
    BY <1>1, ElementOfSeq
<1>3. /\ SubSeq(f, 1, n) \in Seq(Tokens)
      /\ Len(SubSeq(f, 1, n)) = IF 1 <= n THEN n - 1 + 1 ELSE 0
      /\ \A i \in 1..(n - 1 + 1) : SubSeq(f, 1, n)[i] = f[1 + i - 1]
    BY <1>1, <1>2, SubSeqProperties
<1> QED
    BY <1>1, <1>3

LEMMA LongerShape ==
    ASSUME NEW f \in Seq(Tokens), NEW t \in Tokens
    PROVE  /\ Append(f, t) \in Seq(Tokens)
           /\ Len(Append(f, t)) = Len(f) + 1
           /\ \A i \in 1..Len(f) : Append(f, t)[i] = f[i]
           /\ Append(f, t)[Len(f) + 1] = t
BY AppendProperties

(* Two files with the same tokens are the same. *)
LEMMA SameFile ==
    ASSUME NEW f \in Seq(Tokens), NEW g \in Seq(Tokens), Len(f) = Len(g),
           \A i \in 1..Len(f) : f[i] = g[i]
    PROVE  f = g
BY SeqEqual

LEMMA WholePrefix ==
    ASSUME NEW f \in Seq(Tokens)
    PROVE  SubSeq(f, 1, Len(f)) = f
<1>1. Len(f) \in Nat /\ Len(f) \in 0..Len(f)
    BY LenProperties
<1> QED
    BY <1>1, PrefixShape, SameFile

(* What an append that fails between two lines has written. *)
Between(tokens) ==
    {SubSeq(tokens, 1, n) : n \in {n \in 0..Len(tokens) : n % 2 = 0}}

LEMMA FragmentShape ==
    ASSUME NEW tokens \in Seq(Tokens), WellFormed(tokens),
           NEW got \in Between(tokens)
    PROVE  /\ got \in Seq(Tokens)
           /\ WellFormed(got)
           /\ Len(got) <= Len(tokens)
           /\ \A i \in 1..Len(got) : got[i] = tokens[i]
<1>1. PICK n \in 0..Len(tokens) : n % 2 = 0 /\ got = SubSeq(tokens, 1, n)
    BY DEF Between
<1>2. Len(tokens) \in Nat /\ n \in Int /\ n >= 0 /\ n <= Len(tokens)
    BY LenProperties
<1>3. got \in Seq(Tokens) /\ Len(got) = n /\ \A i \in 1..n : got[i] = tokens[i]
    BY <1>1, PrefixShape
<1>4. \A i \in 1..n : i \in 1..Len(tokens)
    BY <1>2
<1> QED
    BY <1>1, <1>2, <1>3, <1>4 DEF WellFormed

LEMMA EntryTypes ==
    ASSUME NEW f \in Seq(Tokens)
    PROVE  /\ Entries(f) \subseteq Items
           /\ IsFiniteSet(Entries(f))
           /\ \A u, v \in Entries(f) : u.seq = v.seq => u = v
           /\ Acks(f) \subseteq Nat
<1>1. Len(f) \in Nat /\ \A i \in 1..Len(f) : f[i] \in Tokens
    BY LenProperties, ElementOfSeq
<1>2. \A i \in 1..Len(f) : f[i].seq \in Nat /\ (f[i].kind = "usage" => ItemOf(f[i]) \in Items)
    BY <1>1 DEF Tokens
<1>3. Entries(f) \subseteq Items /\ Acks(f) \subseteq Nat
    BY <1>2 DEF Entries, Stands, Acks
<1> DEFINE S == {i \in 1..Len(f) : Stands(f, i)}
           e == [i \in S |-> ItemOf(f[i])]
<1>4. IsFiniteSet(S)
    <2>1. IsFiniteSet(1..Len(f))
        BY <1>1, FS_Interval
    <2> QED BY <2>1, FS_Subset
<1>5. IsFiniteSet(Entries(f))
    <2>1. e \in Surjection(S, Entries(f))
        BY DEF Entries, Surjection
    <2> QED BY <1>4, <2>1, FS_Surjection
<1>6. ASSUME NEW u \in Entries(f), NEW v \in Entries(f), u.seq = v.seq PROVE u = v
    <2>1. PICK i \in 1..Len(f) : Stands(f, i) /\ u = ItemOf(f[i])
        BY DEF Entries
    <2>2. PICK j \in 1..Len(f) : Stands(f, j) /\ v = ItemOf(f[j])
        BY DEF Entries
    <2>3. f[i].seq = f[j].seq
        BY <1>6, <2>1, <2>2 DEF ItemOf
    <2>4. i = j
        BY <1>1, <2>1, <2>2, <2>3 DEF Stands
    <2> QED BY <2>1, <2>2, <2>4
<1> QED
    BY <1>3, <1>5, <1>6

(* What lines that are added to a file change of what is in it. *)
LEMMA EntriesConcat ==
    ASSUME NEW f \in Seq(Tokens), NEW g \in Seq(Tokens)
    PROVE  /\ \A u : u \in Entries(f \o g) <=>
                 \/ u \in Entries(g)
                 \/ /\ u \in Entries(f)
                    /\ \A j \in 1..Len(g) : g[j].kind = "usage" => g[j].seq # u.seq
           /\ Acks(f \o g) = Acks(f) \cup Acks(g)
<1> DEFINE h == f \o g
<1>1. Len(f) \in Nat /\ Len(g) \in Nat
    BY LenProperties
<1>2. /\ Len(h) = Len(f) + Len(g)
      /\ \A i \in 1..(Len(f) + Len(g)) : h[i] = IF i <= Len(f) THEN f[i] ELSE g[i - Len(f)]
    BY ConcatProperties
<1> HIDE DEF h
<1>3. \A i \in 1..Len(f) : i \in 1..Len(h) /\ h[i] = f[i]
    BY <1>1, <1>2
<1>4. \A j \in 1..Len(g) : Len(f) + j \in 1..Len(h) /\ h[Len(f) + j] = g[j]
    <2> TAKE j \in 1..Len(g)
    <2>1. /\ Len(f) + j \in 1..(Len(f) + Len(g)) /\ ~(Len(f) + j <= Len(f))
          /\ (Len(f) + j) - Len(f) = j
        BY <1>1
    <2> QED BY <1>2, <2>1
<1>5. \A i \in 1..Len(h) : i \in 1..Len(f) \/ \E j \in 1..Len(g) : i = Len(f) + j
    <2> TAKE i \in 1..Len(h)
    <2>1. i \in 1..Len(f) \/ i - Len(f) \in 1..Len(g)
        BY <1>1, <1>2
    <2>2. i = Len(f) + (i - Len(f))
        BY <1>1
    <2> QED BY <2>1, <2>2
<1>6. ASSUME NEW j \in 1..Len(g) PROVE Stands(h, Len(f) + j) <=> Stands(g, j)
    <2>1. ASSUME Stands(g, j), NEW m \in 1..Len(h), m > Len(f) + j, h[m].kind = "usage"
          PROVE  h[m].seq # h[Len(f) + j].seq
        <3>1. PICK k \in 1..Len(g) : m = Len(f) + k
            <4>1. m \notin 1..Len(f)
                BY <1>1, <2>1
            <4> QED BY <1>5, <4>1
        <3>2. k > j
            BY <1>1, <2>1, <3>1
        <3> QED BY <1>4, <2>1, <3>1, <3>2 DEF Stands
    <2>2. ASSUME Stands(h, Len(f) + j), NEW k \in 1..Len(g), k > j, g[k].kind = "usage"
          PROVE  g[k].seq # g[j].seq
        <3>1. Len(f) + k > Len(f) + j
            BY <1>1, <2>2
        <3> QED BY <1>4, <2>2, <3>1 DEF Stands
    <2> QED BY <1>4, <2>1, <2>2 DEF Stands
<1>7. ASSUME NEW i \in 1..Len(f)
      PROVE  Stands(h, i) <=>
                /\ Stands(f, i)
                /\ \A j \in 1..Len(g) : g[j].kind = "usage" => g[j].seq # f[i].seq
    <2>1. ASSUME Stands(h, i) PROVE Stands(f, i)
        BY <1>3, <2>1 DEF Stands
    <2>2. ASSUME Stands(h, i), NEW j \in 1..Len(g), g[j].kind = "usage"
          PROVE  g[j].seq # f[i].seq
        <3>1. Len(f) + j > i
            BY <1>1
        <3> QED BY <1>3, <1>4, <2>2, <3>1 DEF Stands
    <2>3. ASSUME Stands(f, i),
                 \A j \in 1..Len(g) : g[j].kind = "usage" => g[j].seq # f[i].seq,
                 NEW m \in 1..Len(h), m > i, h[m].kind = "usage"
          PROVE  h[m].seq # h[i].seq
        <3>1. CASE m \in 1..Len(f)
            BY <1>3, <2>3, <3>1 DEF Stands
        <3>2. ASSUME NEW j \in 1..Len(g), m = Len(f) + j PROVE h[m].seq # h[i].seq
            BY <1>3, <1>4, <2>3, <3>2
        <3> QED BY <1>5, <3>1, <3>2
    <2> QED BY <1>3, <2>1, <2>2, <2>3 DEF Stands
<1>8. \A t : ItemOf(t).seq = t.seq
    BY DEF ItemOf
<1>9. ASSUME NEW u, u \in Entries(h)
      PROVE  \/ u \in Entries(g)
             \/ /\ u \in Entries(f)
                /\ \A j \in 1..Len(g) : g[j].kind = "usage" => g[j].seq # u.seq
    <2>1. PICK i \in 1..Len(h) : Stands(h, i) /\ u = ItemOf(h[i])
        BY <1>9 DEF Entries
    <2>2. CASE i \in 1..Len(f)
        <3>1. u = ItemOf(f[i]) /\ u.seq = f[i].seq
            BY <1>3, <1>8, <2>1, <2>2
        <3> QED BY <1>7, <2>1, <2>2, <3>1 DEF Entries
    <2>3. ASSUME NEW j \in 1..Len(g), i = Len(f) + j PROVE u \in Entries(g)
        BY <1>4, <1>6, <2>1, <2>3 DEF Entries
    <2> QED BY <1>5, <2>2, <2>3
<1>10. ASSUME NEW u \in Entries(g) PROVE u \in Entries(h)
    BY <1>4, <1>6 DEF Entries
<1>11. ASSUME NEW u \in Entries(f),
              \A j \in 1..Len(g) : g[j].kind = "usage" => g[j].seq # u.seq
       PROVE  u \in Entries(h)
    <2>1. PICK i \in 1..Len(f) : Stands(f, i) /\ u = ItemOf(f[i])
        BY DEF Entries
    <2>2. u.seq = f[i].seq
        BY <1>8, <2>1
    <2>3. Stands(h, i)
        BY <1>7, <1>11, <2>1, <2>2
    <2> QED BY <1>3, <2>1, <2>3 DEF Entries
<1>12. Acks(h) = Acks(f) \cup Acks(g)
    <2>1. ASSUME NEW n \in Acks(h) PROVE n \in Acks(f) \cup Acks(g)
        <3>1. PICK i \in 1..Len(h) : h[i].kind = "ack" /\ n = h[i].seq
            BY DEF Acks
        <3>2. CASE i \in 1..Len(f)
            BY <1>3, <3>1, <3>2 DEF Acks
        <3>3. ASSUME NEW j \in 1..Len(g), i = Len(f) + j PROVE n \in Acks(g)
            <4>1. g[j].kind = "ack" /\ n = g[j].seq
                BY <1>4, <3>1, <3>3
            <4> QED BY <4>1 DEF Acks
        <3> QED BY <1>5, <3>2, <3>3
    <2>2. ASSUME NEW n \in Acks(f) PROVE n \in Acks(h)
        <3>1. PICK i \in 1..Len(f) : f[i].kind = "ack" /\ n = f[i].seq
            BY DEF Acks
        <3>2. i \in 1..Len(h) /\ h[i].kind = "ack" /\ n = h[i].seq
            BY <1>3, <3>1
        <3> QED BY <3>2 DEF Acks
    <2>3. ASSUME NEW n \in Acks(g) PROVE n \in Acks(h)
        <3>1. PICK j \in 1..Len(g) : g[j].kind = "ack" /\ n = g[j].seq
            BY DEF Acks
        <3> DEFINE i == Len(f) + j
        <3>2. i \in 1..Len(h) /\ h[i].kind = "ack" /\ n = h[i].seq
            BY <1>4, <3>1
        <3> QED BY <3>2 DEF Acks
    <2> QED BY <2>1, <2>2, <2>3
<1> QED
    BY <1>9, <1>10, <1>11, <1>12 DEF h

-----------------------------------------------------------------------------
(* The logs a start could find. *)

LEMMA ViewTypes ==
    ASSUME NEW f \in Seq(Tokens), NEW s, NEW g \in ViewsOf(f, s)
    PROVE  g \in Seq(Tokens) /\ WellFormed(g)
<1>1. PICK n \in 0..Len(f) : g = SubSeq(f, 1, n) \/ g = Append(SubSeq(f, 1, n), Newline)
    BY DEF ViewsOf
<1>2. SubSeq(f, 1, n) \in Seq(Tokens)
    BY PrefixShape
<1>3. Append(SubSeq(f, 1, n), Newline) \in Seq(Tokens)
    BY <1>2, TokenTypes, LongerShape
<1> QED
    BY <1>1, <1>2, <1>3 DEF ViewsOf

(* A log of whole lines is a view itself. *)
LEMMA FileIsView ==
    ASSUME NEW f \in Seq(Tokens), NEW s, WellFormed(f)
    PROVE  f \in ViewsOf(f, s)
<1>1. Len(f) \in Nat /\ Len(f) \in 0..Len(f)
    BY LenProperties
<1>2. Kept(f, s, Len(f))
    BY <1>1 DEF Kept
<1>3. SubSeq(f, 1, Len(f)) = f
    BY WholePrefix
<1> QED
    BY <1>1, <1>2, <1>3 DEF ViewsOf

(* A log that ends in a newline and is synced has no other view. *)
LEMMA SettledViews ==
    ASSUME NEW f \in Seq(Tokens), NEW s, f # <<>> => f[Len(f)] = Newline,
           "power" \in Faults => s = Len(f), NEW g \in ViewsOf(f, s)
    PROVE  g = f
<1>1. Len(f) \in Nat
    BY LenProperties
<1>2. PICK n \in 0..Len(f) : /\ Kept(f, s, n)
                             /\ g = SubSeq(f, 1, n) \/ g = Append(SubSeq(f, 1, n), Newline)
    BY DEF ViewsOf
<1>3. n = Len(f)
    <2>1. CASE f = <<>>
        BY <1>1, <2>1, EmptySeq
    <2>2. CASE f # <<>>
        <3>1. Len(f) \in 1..Len(f) /\ f[Len(f)] = Newline
            BY <1>1, <2>2, EmptySeq
        <3>2. CASE s = Len(f) /\ n >= s
            BY <1>1, <3>2
        <3>3. CASE \A j \in 1..Len(f) : j > n => f[j] # Newline
            BY <1>1, <3>1, <3>3
        <3> QED BY <1>2, <3>2, <3>3 DEF Kept
    <2> QED BY <2>1, <2>2
<1>4. SubSeq(f, 1, n) = f
    BY <1>3, WholePrefix
<1>5. ~WellFormed(Append(f, Newline))
    <2> DEFINE h == Append(f, Newline)
    <2>1. /\ Len(h) = Len(f) + 1 /\ h[Len(f) + 1] = Newline
          /\ \A i \in 1..Len(f) : h[i] = f[i]
        BY TokenTypes, LongerShape
    <2>2. ~IsRecord(Newline)
        BY DEF IsRecord, Newline
    <2> HIDE DEF h
    <2> SUFFICES ASSUME WellFormed(h) PROVE FALSE
        BY DEF h
    <2>3. (Len(f) + 1) % 2 = 0
        BY <2>1 DEF WellFormed
    <2>4. Len(f) % 2 = 1 /\ Len(f) \in 1..Len(f) /\ Len(f) \in 1..(Len(f) + 1)
        BY <1>1, <2>3
    <2>5. IsRecord(h[Len(f)])
        BY <2>1, <2>4 DEF WellFormed
    <2>6. f # <<>>
        BY <2>4, EmptySeq
    <2> QED BY <2>1, <2>2, <2>4, <2>5, <2>6
<1>6. WellFormed(g)
    BY DEF ViewsOf
<1> QED
    BY <1>2, <1>4, <1>5, <1>6

(* Whole lines that are not empty end in a newline. *)
LEMMA WellFormedEnd ==
    ASSUME NEW f \in Seq(Tokens), WellFormed(f), f # <<>>
    PROVE  Len(f) \in 1..Len(f) /\ f[Len(f)] = Newline
<1>1. Len(f) \in Nat /\ Len(f) # 0 /\ Len(f) % 2 = 0
    BY LenProperties, EmptySeq DEF WellFormed
<1>2. Len(f) \in 1..Len(f) /\ Len(f) % 2 # 1
    BY <1>1
<1> QED
    BY <1>2 DEF WellFormed

(* An append that succeeds ends what a stop could still change: either the *)
(* log was of whole lines, or no start can read it any more.               *)
LEMMA AppendedViews ==
    ASSUME NEW f \in Seq(Tokens), NEW s, NEW tokens \in Seq(Tokens),
           WellFormed(tokens), tokens # <<>>,
           NEW g \in ViewsOf(f \o tokens, Len(f \o tokens))
    PROVE  f \in ViewsOf(f, s) /\ g = f \o tokens
<1> DEFINE h == f \o tokens
<1>1. Len(f) \in Nat /\ Len(tokens) \in Nat
    BY LenProperties
<1>2. /\ h \in Seq(Tokens) /\ Len(h) = Len(f) + Len(tokens)
      /\ \A i \in 1..(Len(f) + Len(tokens)) :
            h[i] = IF i <= Len(f) THEN f[i] ELSE tokens[i - Len(f)]
    BY ConcatProperties
<1> HIDE DEF h
<1>3. Len(tokens) \in 1..Len(tokens) /\ tokens[Len(tokens)] = Newline
    BY WellFormedEnd
<1>4. h[Len(h)] = Newline
    <2>1. /\ Len(h) \in 1..(Len(f) + Len(tokens)) /\ ~(Len(h) <= Len(f))
          /\ Len(h) - Len(f) = Len(tokens)
        BY <1>1, <1>2, <1>3
    <2> QED BY <1>2, <1>3, <2>1
<1>5. g = h
    BY <1>2, <1>4, SettledViews DEF h
<1>6. WellFormed(h)
    BY <1>5 DEF ViewsOf
<1>7. WellFormed(f)
    <2>1. Len(f) % 2 = 0
        <3>1. (Len(f) + Len(tokens)) % 2 = 0 /\ Len(tokens) % 2 = 0
            BY <1>2, <1>6 DEF WellFormed
        <3> QED BY <1>1, <3>1
    <2>2. \A i \in 1..Len(f) : i \in 1..Len(h) /\ h[i] = f[i]
        BY <1>1, <1>2
    <2> QED BY <1>6, <2>1, <2>2 DEF WellFormed
<1> QED
    BY <1>5, <1>7, FileIsView DEF h

(* One that fails leaves a view as it is, or adds whole lines to it. *)
LEMMA FailedViews ==
    ASSUME NEW f \in Seq(Tokens), NEW s, NEW tokens \in Seq(Tokens), WellFormed(tokens),
           NEW torn, NEW got \in Fragments(tokens, torn),
           NEW g \in ViewsOf(f \o got, s)
    PROVE  \/ g \in ViewsOf(f, s)
           \/ f \in ViewsOf(f, s) /\ \E h \in Between(tokens) : g = f \o h
<1> DEFINE w == f \o got
<1>1. Len(f) \in Nat /\ Len(got) \in Nat /\ Len(tokens) \in Nat /\ got \in Seq(Tokens)
    BY FragmentTypes, LenProperties
<1>2. /\ w \in Seq(Tokens) /\ Len(w) = Len(f) + Len(got)
      /\ \A i \in 1..(Len(f) + Len(got)) : w[i] = IF i <= Len(f) THEN f[i] ELSE got[i - Len(f)]
    BY <1>1, ConcatProperties
<1> HIDE DEF w
<1>3. PICK n \in 0..Len(w) : /\ Kept(w, s, n)
                             /\ g = SubSeq(w, 1, n) \/ g = Append(SubSeq(w, 1, n), Newline)
    BY DEF ViewsOf, w
<1>4. WellFormed(g)
    BY DEF ViewsOf
<1>5. /\ SubSeq(w, 1, n) \in Seq(Tokens) /\ Len(SubSeq(w, 1, n)) = n
      /\ \A i \in 1..n : SubSeq(w, 1, n)[i] = w[i]
    BY <1>2, PrefixShape
<1>6. \A i \in 1..Len(f) : i \in 1..Len(w) /\ w[i] = f[i]
    BY <1>1, <1>2
<1>7. \A k \in 1..Len(got) : Len(f) + k \in 1..Len(w) /\ w[Len(f) + k] = got[k]
    <2> TAKE k \in 1..Len(got)
    <2>1. /\ Len(f) + k \in 1..(Len(f) + Len(got)) /\ ~(Len(f) + k <= Len(f))
          /\ (Len(f) + k) - Len(f) = k
        BY <1>1
    <2> QED BY <1>2, <2>1
<1>8. CASE n <= Len(f)
    <2>1. n \in 0..Len(f)
        BY <1>1, <1>8
    <2>2. SubSeq(w, 1, n) = SubSeq(f, 1, n)
        <3>1. /\ SubSeq(f, 1, n) \in Seq(Tokens) /\ Len(SubSeq(f, 1, n)) = n
              /\ \A i \in 1..n : SubSeq(f, 1, n)[i] = f[i]
            BY <2>1, PrefixShape
        <3>2. \A i \in 1..n : w[i] = f[i]
            BY <1>1, <1>6, <2>1
        <3>3. \A i \in 1..n : SubSeq(w, 1, n)[i] = SubSeq(f, 1, n)[i]
            BY <1>5, <3>1, <3>2
        <3> HIDE DEF w
        <3> QED BY <1>5, <3>1, <3>3, SameFile
    <2>3. Kept(f, s, n)
        BY <1>3, <1>6 DEF Kept
    <2>4. g \in {SubSeq(f, 1, n), Append(SubSeq(f, 1, n), Newline)}
        BY <1>3, <2>2
    <2>5. g \in ViewsOf(f, s)
        BY <1>4, <2>1, <2>3, <2>4 DEF ViewsOf
    <2> QED BY <2>5
<1>9. CASE n > Len(f)
    <2> DEFINE k == n - Len(f)
    <2>1. n \in Int /\ k \in Int /\ k >= 1 /\ k <= Len(got) /\ n = Len(f) + k
        BY <1>1, <1>2, <1>9
    <2> HIDE DEF k
    <2>2. /\ g \in Seq(Tokens) /\ Len(g) \in {n, n + 1}
          /\ \A i \in 1..n : g[i] = w[i]
          /\ Len(g) = n + 1 => g[n + 1] = Newline
          /\ \A i \in 1..Len(g) : i \in 1..n \/ i = n + 1
        <3>1. CASE g = SubSeq(w, 1, n)
            BY <1>5, <2>1, <3>1
        <3>2. CASE g = Append(SubSeq(w, 1, n), Newline)
            <4>1. /\ g \in Seq(Tokens) /\ Len(g) = n + 1 /\ g[n + 1] = Newline
                  /\ \A i \in 1..n : g[i] = SubSeq(w, 1, n)[i]
                BY <1>5, <3>2, TokenTypes, LongerShape
            <4> QED BY <1>5, <2>1, <4>1
        <3> QED BY <1>3, <3>1, <3>2
    <2>3. \A i \in 1..Len(f) : i \in 1..n /\ i \in 1..Len(g) /\ g[i] = f[i]
        <3> TAKE i \in 1..Len(f)
        <3>1. i \in 1..n /\ i \in 1..Len(g)
            BY <1>1, <2>1, <2>2
        <3> QED BY <1>6, <2>2, <3>1
    <2>4. \A j \in 1..k : /\ Len(f) + j \in 1..n /\ Len(f) + j \in 1..Len(g)
                          /\ g[Len(f) + j] = got[j]
        <3> TAKE j \in 1..k
        <3>1. Len(f) + j \in 1..n /\ Len(f) + j \in 1..Len(g) /\ j \in 1..Len(got)
            BY <1>1, <2>1, <2>2
        <3> QED BY <1>7, <2>2, <3>1
    <2>5. PICK m \in 0..Len(tokens) :
              \/ got = SubSeq(tokens, 1, m)
              \/ got = Append(SubSeq(tokens, 1, m), Part) /\ m % 2 = 0 /\ m < Len(tokens)
        <3>1. \/ got \in {SubSeq(tokens, 1, x) : x \in {x \in 0..Len(tokens) : x % 2 = 0}}
              \/ got \in {SubSeq(tokens, 1, x) : x \in {x \in 0..Len(tokens) : x % 2 = 1}}
              \/ got \in {Append(SubSeq(tokens, 1, x), Part) :
                              x \in {x \in 0..(Len(tokens) - 1) : x % 2 = 0}}
            BY Zenon DEF Fragments
        <3>2. \A x \in 0..(Len(tokens) - 1) : x \in 0..Len(tokens) /\ x < Len(tokens)
            BY <1>1
        <3> QED BY <3>1, <3>2
    <2>6. /\ SubSeq(tokens, 1, m) \in Seq(Tokens) /\ Len(SubSeq(tokens, 1, m)) = m
          /\ \A i \in 1..m : SubSeq(tokens, 1, m)[i] = tokens[i]
        BY PrefixShape
    <2>7. /\ Len(got) \in {m, m + 1}
          /\ \A i \in 1..m : got[i] = tokens[i]
          /\ Len(got) = m + 1 => got[m + 1] = Part
        <3>1. CASE got = SubSeq(tokens, 1, m)
            <4>1. m # m + 1
                OBVIOUS
            <4> QED BY <2>6, <3>1, <4>1
        <3>2. CASE got = Append(SubSeq(tokens, 1, m), Part)
            <4>1. /\ Len(got) = m + 1 /\ got[m + 1] = Part
                  /\ \A i \in 1..m : got[i] = SubSeq(tokens, 1, m)[i]
                BY <2>6, <3>2, TokenTypes, LongerShape
            <4> QED BY <2>6, <4>1
        <3> QED BY <2>5, <3>1, <3>2
    <2>8. /\ ~IsRecord(Part) /\ Part # Newline /\ ~IsRecord(Newline)
        BY DEF IsRecord, Part, Newline
    (* The log was of whole lines before. *)
    <2>9. Len(f) % 2 = 0
        <3>1. 1 \in 1..k /\ Len(f) + 1 \in 1..Len(g) /\ g[Len(f) + 1] = got[1]
            BY <2>1, <2>4
        <3>2. got[1] # Newline
            <4>1. CASE m = 0
                BY <1>1, <2>1, <2>7, <2>8, <4>1
            <4>2. CASE m # 0
                <5>1. 1 \in 1..m /\ 1 \in 1..Len(tokens) /\ 1 % 2 = 1
                    BY <1>1, <4>2
                <5>2. IsRecord(tokens[1])
                    BY <5>1 DEF WellFormed
                <5> QED BY <2>7, <2>8, <5>1, <5>2
            <4> QED BY <4>1, <4>2
        <3>3. (Len(f) + 1) % 2 = 1
            BY <1>4, <3>1, <3>2 DEF WellFormed
        <3> QED BY <1>1, <3>3
    <2>10. WellFormed(f)
        BY <1>4, <2>3, <2>9 DEF WellFormed
    (* A part of a record is in no view. *)
    <2>11. k <= m
        <3> SUFFICES ASSUME k = m + 1 PROVE FALSE
            BY <1>1, <2>1, <2>7
        <3>1. k \in 1..k /\ got[k] = Part
            BY <1>1, <2>1, <2>7
        <3> QED BY <1>4, <2>4, <2>8, <3>1 DEF WellFormed
    <2>12. \A j \in 1..k : j \in 1..Len(tokens) /\ g[Len(f) + j] = tokens[j]
        <3> TAKE j \in 1..k
        <3>1. j \in 1..m /\ j \in 1..Len(tokens)
            BY <1>1, <2>1, <2>11
        <3> QED BY <2>4, <2>7, <3>1
    <2> DEFINE e == IF k % 2 = 0 THEN k ELSE k + 1
               h == SubSeq(tokens, 1, e)
    <2>13. e \in 0..Len(tokens) /\ e % 2 = 0 /\ Len(g) = Len(f) + e
        <3>1. Len(tokens) % 2 = 0 /\ Len(g) % 2 = 0
            BY <1>4 DEF WellFormed
        <3>2. k <= Len(tokens)
            BY <1>1, <2>1, <2>11
        <3>3. CASE k % 2 = 0
            <4>1. n % 2 = 0
                BY <1>1, <2>1, <2>9, <3>3
            <4>2. (n + 1) % 2 = 1
                BY <2>1, <4>1
            <4>3. Len(g) = n
                <5>1. Len(g) \in {n, n + 1}
                    BY <2>2
                <5> QED BY <3>1, <4>2, <5>1
            <4> QED BY <2>1, <3>2, <3>3, <4>3
        <3>4. CASE k % 2 # 0
            <4>1. n % 2 = 1 /\ (k + 1) % 2 = 0 /\ k + 1 <= Len(tokens)
                <5>1. k % 2 = 1
                    BY <2>1, <3>4
                <5>2. (k + 1) % 2 = 0
                    BY <2>1, <5>1
                <5>3. (Len(f) + k) % 2 = 1
                    <6>1. \A x, y \in Int : x % 2 = 0 /\ y % 2 = 1 => (x + y) % 2 = 1
                        OBVIOUS
                    <6>2. Len(f) \in Int /\ k \in Int
                        BY <1>1, <2>1
                    <6> QED BY <2>9, <5>1, <6>1, <6>2
                <5>4. k # Len(tokens)
                    BY <3>1, <5>1
                <5> QED BY <1>1, <2>1, <3>2, <5>2, <5>3, <5>4
            <4>2. Len(g) = n + 1
                <5>1. Len(g) \in {n, n + 1}
                    BY <2>2
                <5> QED BY <3>1, <4>1, <5>1
            <4> QED BY <2>1, <3>4, <4>1, <4>2
        <3> QED BY <3>3, <3>4
    <2>14. /\ h \in Seq(Tokens) /\ Len(h) = e /\ h \in Between(tokens)
           /\ \A j \in 1..e : h[j] = tokens[j]
        BY <2>13, PrefixShape DEF Between
    <2>15. \A j \in 1..e : g[Len(f) + j] = tokens[j]
        <3> TAKE j \in 1..e
        <3>1. CASE j \in 1..k
            BY <2>12, <3>1
        <3>2. CASE j \notin 1..k
            <4>1. k % 2 # 0 /\ j = k + 1 /\ Len(f) + j = n + 1 /\ j % 2 = 0
                  /\ Len(g) = n + 1 /\ j \in 1..Len(tokens)
                BY <1>1, <2>1, <2>13, <3>2
            <4>2. tokens[j] = Newline
                BY <2>8, <4>1 DEF WellFormed
            <4> QED BY <2>2, <4>1, <4>2
        <3> QED BY <3>1, <3>2
    <2> HIDE DEF e, h
    <2>16. /\ f \o h \in Seq(Tokens) /\ Len(f \o h) = Len(f) + Len(h)
           /\ \A i \in 1..(Len(f) + Len(h)) :
                 (f \o h)[i] = IF i <= Len(f) THEN f[i] ELSE h[i - Len(f)]
        BY <2>14, ConcatProperties
    <2>17. \A i \in 1..Len(g) : g[i] = (f \o h)[i]
        <3> TAKE i \in 1..Len(g)
        <3>1. CASE i <= Len(f)
            <4>1. i \in 1..Len(f) /\ i \in 1..(Len(f) + Len(h))
                BY <1>1, <2>13, <2>14, <3>1
            <4> QED BY <2>3, <2>16, <4>1, <3>1
        <3>2. CASE ~(i <= Len(f))
            <4>1. /\ i - Len(f) \in 1..e /\ i \in 1..(Len(f) + Len(h))
                  /\ i = Len(f) + (i - Len(f))
                BY <1>1, <2>13, <2>14, <3>2
            <4>2. g[i] = tokens[i - Len(f)]
                BY <2>15, <4>1
            <4> QED BY <2>14, <2>16, <3>2, <4>1, <4>2
        <3> QED BY <3>1, <3>2
    <2>18. g = f \o h
        BY <2>2, <2>13, <2>14, <2>16, <2>17, SameFile
    <2> QED BY <2>10, <2>14, <2>18, FileIsView
<1>10. n \in Int
    BY <1>1, <1>2
<1>11. n <= Len(f) \/ n > Len(f)
    BY <1>1, <1>10
<1> QED
    BY <1>8, <1>9, <1>11

(* What a power loss leaves is one of the views there were. *)
LEMMA PowerViews ==
    ASSUME NEW f \in Seq(Tokens), NEW s \in 0..Len(f), s > 0 => f[s] = Newline,
           "power" \in Faults, NEW n \in s..Len(f), NEW f2,
           f2 = SubSeq(f, 1, n) \/ f2 = Append(SubSeq(f, 1, n), Part),
           NEW g \in ViewsOf(f2, Len(f2))
    PROVE  g \in ViewsOf(f, s)
<1>1. Len(f) \in Nat /\ s \in Int /\ s >= 0 /\ n \in Int /\ n >= s /\ n <= Len(f) /\ n \in 0..Len(f)
    BY LenProperties
<1>2. /\ SubSeq(f, 1, n) \in Seq(Tokens) /\ Len(SubSeq(f, 1, n)) = n
      /\ \A i \in 1..n : SubSeq(f, 1, n)[i] = f[i]
    BY <1>1, PrefixShape
<1>3. /\ f2 \in Seq(Tokens) /\ Len(f2) \in {n, n + 1}
      /\ \A i \in 1..n : f2[i] = f[i]
      /\ Len(f2) = n + 1 => f2[n + 1] = Part
    <2>1. CASE f2 = SubSeq(f, 1, n)
        <3>1. n # n + 1
            BY <1>1
        <3> QED BY <1>2, <2>1, <3>1
    <2>2. CASE f2 = Append(SubSeq(f, 1, n), Part)
        <3>1. /\ f2 \in Seq(Tokens) /\ Len(f2) = n + 1 /\ f2[n + 1] = Part
              /\ \A i \in 1..n : f2[i] = SubSeq(f, 1, n)[i]
            BY <1>2, <2>2, TokenTypes, LongerShape
        <3> QED BY <1>2, <3>1
    <2> QED BY <2>1, <2>2
<1>4. PICK m \in 0..Len(f2) : /\ Kept(f2, Len(f2), m)
                              /\ g = SubSeq(f2, 1, m) \/ g = Append(SubSeq(f2, 1, m), Newline)
    BY DEF ViewsOf
<1>5. WellFormed(g)
    BY DEF ViewsOf
<1>6. /\ SubSeq(f2, 1, m) \in Seq(Tokens) /\ Len(SubSeq(f2, 1, m)) = m
      /\ \A i \in 1..m : SubSeq(f2, 1, m)[i] = f2[i]
    BY <1>3, PrefixShape
<1>7. m \in Int /\ m >= 0 /\ m <= Len(f2) /\ Len(f2) \in Int
    BY <1>1, <1>3
<1>8. m <= n
    <2> SUFFICES ASSUME m = n + 1, Len(f2) = n + 1 PROVE FALSE
        BY <1>1, <1>3, <1>7
    <2>1. ~IsRecord(Part) /\ Part # Newline
        BY DEF IsRecord, Part, Newline
    <2>2. m \in 1..m /\ f2[m] = Part
        BY <1>1, <1>3
    <2>3. g[m] = Part /\ m \in 1..Len(g)
        <3>1. CASE g = SubSeq(f2, 1, m)
            BY <1>6, <2>2, <3>1
        <3>2. CASE g = Append(SubSeq(f2, 1, m), Newline)
            <4>1. /\ Len(g) = m + 1
                  /\ \A i \in 1..m : g[i] = SubSeq(f2, 1, m)[i]
                BY <1>6, <3>2, TokenTypes, LongerShape
            <4> QED BY <1>6, <1>7, <2>2, <4>1
        <3> QED BY <1>4, <3>1, <3>2
    <2> QED BY <1>5, <2>1, <2>3 DEF WellFormed
<1>9. m \in 0..Len(f)
    BY <1>1, <1>7, <1>8
<1>10. SubSeq(f2, 1, m) = SubSeq(f, 1, m)
    <2>1. /\ SubSeq(f, 1, m) \in Seq(Tokens) /\ Len(SubSeq(f, 1, m)) = m
          /\ \A i \in 1..m : SubSeq(f, 1, m)[i] = f[i]
        BY <1>9, PrefixShape
    <2>2. \A i \in 1..m : f2[i] = f[i]
        BY <1>1, <1>3, <1>7, <1>8
    <2>3. \A i \in 1..m : SubSeq(f2, 1, m)[i] = SubSeq(f, 1, m)[i]
        BY <1>6, <2>1, <2>2
    <2> QED BY <1>6, <2>1, <2>3, SameFile
<1>11. m >= s
    <2> SUFFICES ASSUME m < s PROVE FALSE
        BY <1>1, <1>7
    <2>1. s \in 1..n /\ s \in 1..Len(f2) /\ s > m /\ ~(m >= Len(f2)) /\ s > 0
        BY <1>1, <1>3, <1>7
    <2>2. f2[s] = Newline
        BY <1>3, <2>1
    <2> QED BY <1>4, <2>1, <2>2 DEF Kept
<1>12. Kept(f, s, m)
    BY <1>11 DEF Kept
<1>13. g \in {SubSeq(f, 1, m), Append(SubSeq(f, 1, m), Newline)}
    BY <1>4, <1>10
<1> QED
    BY <1>5, <1>9, <1>12, <1>13 DEF ViewsOf

(* open finds the whole records of f, and g has the same ones. *)
SameRecords(f, g) ==
    /\ \A i \in 1..Len(f) : Whole(f, i) => i \in 1..Len(g) /\ g[i] = f[i]
    /\ \A i \in 1..Len(g) : IsRecord(g[i]) => i \in 1..Len(f) /\ Whole(f, i) /\ g[i] = f[i]

(* A log that open accepts is repaired to one of whole lines. *)
LEMMA RepairedView ==
    ASSUME NEW f \in Seq(Tokens), NEW s, NoBlank(f), ~Corrupt(f)
    PROVE  /\ Repaired(f) \in Seq(Tokens)
           /\ WellFormed(Repaired(f))
           /\ Repaired(f) \in ViewsOf(f, s)
           /\ SameRecords(f, Repaired(f))
<1> DEFINE bad == {i \in 1..Len(f) : Spoils(f, i)}
<1>1. Len(f) \in Nat
    BY LenProperties
<1>2. ~IsRecord(Newline) /\ Newline \in Tokens
    BY TokenTypes DEF IsRecord, Newline
<1>3. ASSUME NEW k \in 1..(Len(f) + 1), \A i \in 1..(k - 1) : ~Spoils(f, i)
      PROVE  \A i \in 1..(k - 1) : IF i % 2 = 1 THEN Whole(f, i) /\ IsRecord(f[i])
                                   ELSE f[i] = Newline
    <2> DEFINE good(i) == IF i % 2 = 1 THEN Whole(f, i) /\ IsRecord(f[i]) ELSE f[i] = Newline
               odd == {i \in 1..(k - 1) : ~good(i)}
    <2> SUFFICES ASSUME odd # {} PROVE FALSE
        OBVIOUS
    <2>1. odd \subseteq Nat
        BY <1>1
    <2>2. PICK i \in odd : \A j \in odd : i <= j
        BY <2>1, LeastNumber
    <2>3. i \in 1..(k - 1) /\ i \in 1..Len(f) /\ ~good(i)
        BY <1>1, <2>2
    <2>4. f[i] = Newline \/ (Whole(f, i) /\ IsRecord(f[i]))
        BY <1>3, <2>3 DEF Spoils, Whole
    <2>5. i > 1 => i - 1 \in 1..(k - 1) /\ i - 1 \in 1..Len(f) /\ good(i - 1)
        <3> SUFFICES ASSUME i > 1 PROVE i - 1 \in 1..(k - 1) /\ i - 1 \in 1..Len(f) /\ good(i - 1)
            OBVIOUS
        <3>1. i - 1 \in 1..(k - 1) /\ i - 1 \in 1..Len(f) /\ ~(i <= i - 1)
            BY <1>1, <2>3
        <3>2. i - 1 \notin odd
            BY <2>2, <3>1
        <3> QED BY <3>1, <3>2
    <2>6. CASE i % 2 = 1
        <3>1. f[i] = Newline
            BY <2>3, <2>4, <2>6
        <3>2. i > 1 /\ f[i - 1] # Newline
            BY <2>3, <3>1 DEF NoBlank
        <3>3. (i - 1) % 2 # 1
            BY <2>3, <2>6
        <3> QED BY <2>5, <3>2, <3>3
    <2>7. CASE i % 2 # 1
        <3>1. i > 1 /\ (i - 1) % 2 = 1
            BY <2>3, <2>7
        <3>2. Whole(f, i - 1)
            BY <2>5, <3>1
        <3>3. i - 1 < Len(f) /\ (i - 1) + 1 = i
            BY <1>1, <2>3
        <3>4. f[i] = Newline
            BY <3>2, <3>3 DEF Whole
        <3> QED BY <2>3, <2>7, <3>4
    <2> QED BY <2>6, <2>7
<1>4. CASE bad # {}
    <2>1. \E i \in bad : \A j \in bad : i <= j
        <3>1. bad \subseteq Nat
            BY <1>1
        <3> HIDE DEF bad
        <3> QED BY <1>4, <3>1, LeastNumber
    <2> DEFINE k == CHOOSE i \in bad : \A j \in bad : i <= j
               g == SubSeq(f, 1, k - 1)
    <2>2. k \in bad /\ \A j \in bad : k <= j
        BY <2>1
    <2>3. Repaired(f) = g
        BY <1>4 DEF Repaired
    <2> HIDE DEF k
    <2>4. k \in 1..Len(f) /\ Spoils(f, k) /\ f[k] # Newline
        BY <2>2 DEF Spoils
    <2>5. \A i \in 1..(k - 1) : ~Spoils(f, i)
        <3> SUFFICES ASSUME NEW i \in 1..(k - 1), Spoils(f, i) PROVE FALSE
            OBVIOUS
        <3>1. i \in 1..Len(f) /\ ~(k <= i)
            BY <1>1, <2>4
        <3> QED BY <2>2, <3>1
    <2>6. k - 1 \in 0..Len(f) /\ k \in 1..(Len(f) + 1)
        BY <1>1, <2>4
    <2>7. \A i \in 1..(k - 1) : IF i % 2 = 1 THEN Whole(f, i) /\ IsRecord(f[i])
                                ELSE f[i] = Newline
        BY <1>3, <2>5, <2>6
    <2>8. (k - 1) % 2 = 0
        <3> SUFFICES ASSUME (k - 1) % 2 # 0 PROVE FALSE
            OBVIOUS
        <3>1. (k - 1) % 2 = 1 /\ k - 1 \in 1..(k - 1) /\ k - 1 < Len(f) /\ (k - 1) + 1 = k
            BY <1>1, <2>4
        <3>2. Whole(f, k - 1)
            BY <2>7, <3>1
        <3> QED BY <2>4, <3>1, <3>2 DEF Whole
    <2>9. g \in Seq(Tokens) /\ Len(g) = k - 1 /\ \A i \in 1..(k - 1) : g[i] = f[i]
        BY <2>6, PrefixShape
    <2>10. WellFormed(g)
        BY <2>7, <2>8, <2>9 DEF WellFormed
    <2>11. \A j \in 1..Len(f) : j >= k => f[j] # Newline
        <3> SUFFICES ASSUME NEW j \in 1..Len(f), j >= k, f[j] = Newline PROVE FALSE
            OBVIOUS
        <3>1. j # k
            BY <2>4
        <3>2. k < j
            BY <1>1, <2>4, <3>1
        <3> QED BY <2>4, <3>2 DEF Corrupt
    <2>12. Kept(f, s, k - 1)
        <3>1. \A j \in 1..Len(f) : j > k - 1 => j >= k
            BY <1>1, <2>4
        <3> QED BY <2>11, <3>1 DEF Kept
    <2>13. g \in ViewsOf(f, s)
        BY <2>6, <2>10, <2>12 DEF ViewsOf
    <2>14. \A i \in 1..Len(f) : Whole(f, i) => i \in 1..Len(g)
        <3> SUFFICES ASSUME NEW i \in 1..Len(f), Whole(f, i), i \notin 1..Len(g) PROVE FALSE
            OBVIOUS
        <3>1. i >= k
            BY <1>1, <2>4, <2>9
        <3>2. i # k
            BY <2>4 DEF Spoils
        <3>3. i > 1 /\ i - 1 >= k /\ i - 1 \in 1..Len(f)
            BY <1>1, <2>4, <3>1, <3>2
        <3>4. f[i - 1] = Newline
            BY <3>3 DEF Whole
        <3> QED BY <2>11, <3>3, <3>4
    <2>15. \A i \in 1..Len(g) : i \in 1..Len(f) /\ g[i] = f[i]
        BY <1>1, <2>4, <2>9
    <2>16. \A i \in 1..Len(g) : IsRecord(g[i]) => Whole(f, i)
        BY <1>2, <2>7, <2>9
    <2>17. SameRecords(f, g)
        BY <2>14, <2>15, <2>16 DEF SameRecords
    <2> QED BY <2>3, <2>9, <2>10, <2>13, <2>17
<1>5. CASE bad = {}
    <2>1. \A i \in 1..Len(f) : IF i % 2 = 1 THEN Whole(f, i) /\ IsRecord(f[i])
                               ELSE f[i] = Newline
        <3>1. Len(f) + 1 \in 1..(Len(f) + 1) /\ (Len(f) + 1) - 1 = Len(f)
            BY <1>1
        <3>2. \A i \in 1..Len(f) : ~Spoils(f, i)
            BY <1>5
        <3> QED BY <1>3, <3>1, <3>2
    <2>2. CASE f # <<>> /\ f[Len(f)] # Newline
        <3> DEFINE g == Append(f, Newline)
        <3>1. Repaired(f) = g
            BY <1>5, <2>2 DEF Repaired
        <3>2. /\ g \in Seq(Tokens) /\ Len(g) = Len(f) + 1 /\ g[Len(f) + 1] = Newline
              /\ \A i \in 1..Len(f) : g[i] = f[i]
            BY <1>2, LongerShape
        <3>3. Len(f) % 2 = 1 /\ Len(f) \in 1..Len(f)
            BY <1>1, <2>1, <2>2, EmptySeq
        <3> HIDE DEF g
        <3>4. WellFormed(g)
            <4>1. (Len(f) + 1) % 2 = 0 /\ (Len(f) + 1) % 2 # 1
                BY <1>1, <3>3
            <4>2. \A i \in 1..(Len(f) + 1) : i \in 1..Len(f) \/ i = Len(f) + 1
                BY <1>1
            <4> QED BY <2>1, <3>2, <4>1, <4>2 DEF WellFormed
        <3>5. Len(f) \in 0..Len(f) /\ Kept(f, s, Len(f)) /\ SubSeq(f, 1, Len(f)) = f
            BY <1>1, WholePrefix DEF Kept
        <3>6. g \in {SubSeq(f, 1, Len(f)), Append(SubSeq(f, 1, Len(f)), Newline)}
            BY <3>5 DEF g
        <3>7. g \in ViewsOf(f, s)
            BY <3>4, <3>5, <3>6 DEF ViewsOf
        <3>8. \A i \in 1..Len(f) : i \in 1..Len(g)
            BY <1>1, <3>2
        <3>9. \A i \in 1..Len(g) : IsRecord(g[i]) => i \in 1..Len(f) /\ Whole(f, i)
            <4>1. \A i \in 1..Len(g) : i \in 1..Len(f) \/ i = Len(f) + 1
                BY <1>1, <3>2
            <4> QED BY <1>2, <2>1, <3>2, <4>1
        <3>10. SameRecords(f, g)
            BY <3>2, <3>8, <3>9 DEF SameRecords
        <3> QED BY <3>1, <3>2, <3>4, <3>7, <3>10
    <2>3. CASE ~(f # <<>> /\ f[Len(f)] # Newline)
        <3>1. Repaired(f) = f
            BY <1>5, <2>3 DEF Repaired
        <3>2. Len(f) % 2 = 0
            <4>1. CASE f = <<>>
                BY <4>1, EmptySeq
            <4>2. CASE f # <<>>
                <5>1. Len(f) \in 1..Len(f) /\ ~IsRecord(f[Len(f)])
                    BY <1>1, <1>2, <2>3, <4>2, EmptySeq
                <5>2. Len(f) % 2 # 1
                    BY <2>1, <5>1
                <5> QED BY <1>1, <5>2
            <4> QED BY <4>1, <4>2
        <3>3. WellFormed(f)
            BY <2>1, <3>2 DEF WellFormed
        <3>4. SameRecords(f, f)
            BY <1>2, <2>1 DEF SameRecords
        <3> QED BY <3>1, <3>3, <3>4, FileIsView
    <2> QED BY <2>2, <2>3
<1> QED
    BY <1>4, <1>5

(* What open reads from f is what the repaired log has. *)
LEMMA ReplayOfView ==
    ASSUME NEW f \in Seq(Tokens), NEW g \in Seq(Tokens), SameRecords(f, g)
    PROVE  /\ \A n : Replay(f, n) = {u \in Entries(g) : u.seq > n}
           /\ \A n \in Nat : IsAckOf(f, n) =>
                 (n > 0 => n \in Acks(g)) /\ \A m \in Acks(g) : m <= n
           /\ \A n \in Nat : IsLastOf(f, n) =>
                 (\A u \in Entries(g) : u.seq <= n) /\ (\A m \in Acks(g) : m <= n)
<1>1. Len(f) \in Nat /\ Len(g) \in Nat
    BY LenProperties
<1>2. \A i \in 1..Len(f) : Whole(f, i) => IsRecord(f[i])
    BY DEF Whole
<1>3. \A i \in 1..Len(g) : g[i].kind \in {"usage", "ack"} =>
          i \in 1..Len(f) /\ Whole(f, i) /\ g[i] = f[i]
    BY DEF SameRecords, IsRecord
<1>4. \A i \in 1..Len(f) : Whole(f, i) => i \in 1..Len(g) /\ g[i] = f[i]
    BY DEF SameRecords
<1>5. ASSUME NEW i \in 1..Len(f), Current(f, i) PROVE i \in 1..Len(g) /\ Stands(g, i) /\ g[i] = f[i]
    <2>1. i \in 1..Len(g) /\ g[i] = f[i] /\ g[i].kind = "usage"
        BY <1>4, <1>5 DEF Current
    <2>2. ASSUME NEW j \in 1..Len(g), j > i, g[j].kind = "usage" PROVE g[j].seq # g[i].seq
        <3>1. j \in 1..Len(f) /\ Whole(f, j) /\ g[j] = f[j]
            BY <1>3, <2>2
        <3>2. j \in (i + 1)..Len(f)
            BY <1>1, <2>2, <3>1
        <3> QED BY <1>5, <2>1, <2>2, <3>1, <3>2 DEF Current
    <2> QED BY <2>1, <2>2 DEF Stands
<1>6. ASSUME NEW i \in 1..Len(g), Stands(g, i) PROVE i \in 1..Len(f) /\ Current(f, i) /\ g[i] = f[i]
    <2>1. i \in 1..Len(f) /\ Whole(f, i) /\ g[i] = f[i] /\ f[i].kind = "usage"
        BY <1>3, <1>6 DEF Stands
    <2>2. ASSUME NEW j \in (i + 1)..Len(f), Whole(f, j), f[j].kind = "usage", f[j].seq = f[i].seq
          PROVE  FALSE
        <3>1. j \in 1..Len(f) /\ j > i
            BY <1>1, <2>1
        <3>2. j \in 1..Len(g) /\ g[j] = f[j]
            BY <1>4, <2>2, <3>1
        <3> QED BY <1>6, <2>1, <2>2, <3>1, <3>2 DEF Stands
    <2> QED BY <2>1, <2>2 DEF Current
<1>7. \A t : ItemOf(t).seq = t.seq
    BY DEF ItemOf
<1>8. ASSUME NEW n PROVE Replay(f, n) = {u \in Entries(g) : u.seq > n}
    <2>1. ASSUME NEW u \in Replay(f, n) PROVE u \in Entries(g) /\ u.seq > n
        <3>1. PICK i \in 1..Len(f) : Current(f, i) /\ f[i].seq > n /\ u = ItemOf(f[i])
            BY DEF Replay
        <3>2. i \in 1..Len(g) /\ Stands(g, i) /\ u = ItemOf(g[i])
            BY <1>5, <3>1
        <3> QED BY <1>7, <3>1, <3>2 DEF Entries
    <2>2. ASSUME NEW u \in Entries(g), u.seq > n PROVE u \in Replay(f, n)
        <3>1. PICK i \in 1..Len(g) : Stands(g, i) /\ u = ItemOf(g[i])
            BY DEF Entries
        <3>2. i \in 1..Len(f) /\ Current(f, i) /\ u = ItemOf(f[i])
            BY <1>6, <3>1
        <3>3. f[i].seq > n
            BY <1>7, <2>2, <3>2
        <3> QED BY <3>2, <3>3 DEF Replay
    <2> QED BY <2>1, <2>2
<1>9. ASSUME NEW n \in Nat, IsAckOf(f, n)
      PROVE  (n > 0 => n \in Acks(g)) /\ \A m \in Acks(g) : m <= n
    <2>1. ASSUME n > 0 PROVE n \in Acks(g)
        <3>1. PICK i \in 1..Len(f) : Whole(f, i) /\ f[i].kind = "ack" /\ f[i].seq = n
            BY <1>9, <2>1 DEF IsAckOf
        <3>2. i \in 1..Len(g) /\ g[i].kind = "ack" /\ g[i].seq = n
            BY <1>4, <3>1
        <3> QED BY <3>2 DEF Acks
    <2>2. ASSUME NEW m \in Acks(g) PROVE m <= n
        <3>1. PICK i \in 1..Len(g) : g[i].kind = "ack" /\ g[i].seq = m
            BY DEF Acks
        <3>2. i \in 1..Len(f) /\ Whole(f, i) /\ g[i] = f[i]
            BY <1>3, <3>1
        <3> QED BY <1>9, <3>1, <3>2 DEF IsAckOf
    <2> QED BY <2>1, <2>2
<1>10. ASSUME NEW n \in Nat, IsLastOf(f, n)
       PROVE  (\A u \in Entries(g) : u.seq <= n) /\ (\A m \in Acks(g) : m <= n)
    <2>1. ASSUME NEW m \in Acks(g) PROVE m <= n
        <3>1. PICK i \in 1..Len(g) : g[i].kind = "ack" /\ g[i].seq = m
            BY DEF Acks
        <3>2. i \in 1..Len(f) /\ Whole(f, i) /\ g[i] = f[i]
            BY <1>3, <3>1
        <3> QED BY <1>10, <3>1, <3>2 DEF IsLastOf
    <2>2. ASSUME NEW u \in Entries(g) PROVE u.seq <= n
        <3>1. PICK i \in 1..Len(g) : Stands(g, i) /\ u = ItemOf(g[i])
            BY DEF Entries
        <3>2. i \in 1..Len(f) /\ Whole(f, i) /\ u.seq = f[i].seq
            BY <1>6, <1>7, <3>1 DEF Current
        <3> QED BY <1>10, <3>2 DEF IsLastOf
    <2> QED BY <2>1, <2>2
<1> QED
    BY <1>8, <1>9, <1>10

-----------------------------------------------------------------------------
(* What each append adds, and what a compaction leaves. *)

(* The lines of a flush: whole, and numbered from next_seq. *)
LEMMA UsageLinesShape ==
    ASSUME NEW charges \in Seq(Charges), nextSeq \in Nat \ {0}
    PROVE  /\ UsageLines(charges) \in Seq(Tokens)
           /\ WellFormed(UsageLines(charges))
           /\ Len(UsageLines(charges)) = 2 * Len(charges)
           /\ \A i \in 1..Len(UsageLines(charges)) :
                 /\ UsageLines(charges)[i].kind = "usage" =>
                       UsageLines(charges)[i].seq = nextSeq + ((i + 1) \div 2) - 1
                 /\ UsageLines(charges)[i].kind # "ack"
           /\ \A k \in 1..Len(charges) :
                 UsageLines(charges)[2 * k - 1] = Usage(Numbered(charges)[k])
<1> DEFINE records == [i \in 1..Len(charges) |-> Usage(Numbered(charges)[i])]
<1>1. Len(charges) \in Nat
    BY LenProperties
<1>2. /\ records \in Seq(Tokens) /\ Len(records) = Len(charges)
      /\ \A i \in 1..Len(charges) : /\ records[i] = Usage(Numbered(charges)[i])
                                    /\ Numbered(charges)[i].seq = nextSeq + i - 1
    <2>1. records \in Seq(Tokens) /\ Len(records) = Len(charges)
        BY NumberedShape
    <2>2. \A i \in 1..Len(charges) : Numbered(charges)[i].seq = nextSeq + i - 1
        BY NumberedShape
    <2>3. \A i \in 1..Len(charges) : records[i] = Usage(Numbered(charges)[i])
        OBVIOUS
    <2> HIDE DEF records
    <2> QED BY <2>1, <2>2, <2>3
<1>3. UsageLines(charges) = Lines(records)
    BY DEF UsageLines
<1> HIDE DEF records
<1>4. \A i \in 1..Len(records) : /\ IsRecord(records[i]) /\ records[i].kind = "usage"
                                 /\ records[i].seq = nextSeq + i - 1
    <2> TAKE i \in 1..Len(records)
    <2> DEFINE item == Numbered(charges)[i]
    <2>1. records[i] = Usage(item) /\ item.seq = nextSeq + i - 1
        BY <1>2
    <2> HIDE DEF item
    <2> QED BY <2>1 DEF IsRecord, Usage
<1>5. /\ Lines(records) \in Seq(Tokens) /\ WellFormed(Lines(records))
      /\ Len(Lines(records)) = 2 * Len(charges)
    BY <1>2, <1>4, LinesShape, LinesWellFormed
<1>6. \A i \in 1..(2 * Len(charges)) :
          Lines(records)[i] = IF i % 2 = 1 THEN records[(i + 1) \div 2] ELSE Newline
    BY <1>2, LinesShape
<1>7. \A i \in 1..(2 * Len(charges)) : i % 2 = 1 => (i + 1) \div 2 \in 1..Len(charges)
    BY <1>1
<1>8. ASSUME NEW i \in 1..(2 * Len(charges))
      PROVE  /\ Lines(records)[i].kind = "usage" =>
                   Lines(records)[i].seq = nextSeq + ((i + 1) \div 2) - 1
             /\ Lines(records)[i].kind # "ack"
    <2>1. CASE i % 2 = 1
        BY <1>2, <1>4, <1>6, <1>7, <2>1
    <2>2. CASE i % 2 # 1
        BY <1>6, <2>2 DEF Newline
    <2> QED BY <2>1, <2>2
<1>9. ASSUME NEW k \in 1..Len(charges)
      PROVE  Lines(records)[2 * k - 1] = Usage(Numbered(charges)[k])
    <2>1. /\ 2 * k - 1 \in 1..(2 * Len(charges)) /\ (2 * k - 1) % 2 = 1
          /\ (2 * k - 1 + 1) \div 2 = k
        BY <1>1
    <2> QED BY <1>2, <1>6, <2>1
<1> QED
    BY <1>3, <1>5, <1>8, <1>9

(* A record of an acknowledgement. *)
LEMMA AckLinesShape ==
    ASSUME NEW n \in Nat
    PROVE  /\ Lines(<<Ack(n)>>) \in Seq(Tokens)
           /\ WellFormed(Lines(<<Ack(n)>>))
           /\ Len(Lines(<<Ack(n)>>)) = 2
           /\ Lines(<<Ack(n)>>)[1] = Ack(n) /\ Lines(<<Ack(n)>>)[2] = Newline
<1> DEFINE one == <<Ack(n)>>
<1>1. one \in Seq(Tokens) /\ Len(one) = 1 /\ one[1] = Ack(n)
    BY TokenTypes
<1> HIDE DEF one
<1>2. \A i \in 1..Len(one) : IsRecord(one[i])
    BY <1>1 DEF IsRecord, Ack
<1> DEFINE twice == 2 * Len(one)
<1>3. /\ Lines(one) \in Seq(Tokens) /\ WellFormed(Lines(one)) /\ Len(Lines(one)) = twice
      /\ \A i \in 1..twice :
            Lines(one)[i] = IF i % 2 = 1 THEN one[(i + 1) \div 2] ELSE Newline
    BY <1>1, <1>2, LinesShape, LinesWellFormed
<1>4. twice = 2
    BY <1>1
<1> HIDE DEF twice
<1>5. /\ Lines(one) \in Seq(Tokens) /\ WellFormed(Lines(one)) /\ Len(Lines(one)) = 2
    BY <1>3, <1>4
<1>6. Lines(one)[1] = one[1] /\ Lines(one)[2] = Newline
    <2>1. \A i \in 1..2 :
              Lines(one)[i] = IF i % 2 = 1 THEN one[(i + 1) \div 2] ELSE Newline
        BY <1>3, <1>4
    <2>2. 1 % 2 = 1 /\ (1 + 1) \div 2 = 1 /\ 2 % 2 # 1
        OBVIOUS
    <2> QED BY <2>1, <2>2
<1> QED
    BY <1>1, <1>6, <1>5 DEF one

(* The first k items of a flush. *)
Fresh(charges, k) == {Numbered(charges)[i] : i \in 1..k}

LEMMA FreshTypes ==
    ASSUME NEW charges \in Seq(Charges), nextSeq \in Nat \ {0}, NEW k \in 0..Len(charges)
    PROVE  /\ Fresh(charges, k) \subseteq Items
           /\ IsFiniteSet(Fresh(charges, k))
           /\ \A i \in 1..k : /\ i \in 1..Len(charges)
                              /\ Numbered(charges)[i] \in Fresh(charges, k)
                              /\ Numbered(charges)[i].seq = nextSeq + i - 1
                              /\ Numbered(charges)[i].account = charges[i].account
                              /\ Numbered(charges)[i].bytes = charges[i].bytes
           /\ \A u \in Fresh(charges, k) : nextSeq <= u.seq /\ u.seq < nextSeq + k
<1>1. Len(charges) \in Nat /\ k \in Int /\ k >= 0 /\ k <= Len(charges) /\ nextSeq \in Nat
    BY LenProperties
<1>2. \A i \in 1..k : i \in 1..Len(charges)
    BY <1>1
<1>3. \A i \in 1..Len(charges) : /\ Numbered(charges)[i] \in Items
                                 /\ Numbered(charges)[i].seq = nextSeq + i - 1
    BY NumberedShape
<1>4. \A i \in 1..Len(charges) : /\ Numbered(charges)[i].account = charges[i].account
                                 /\ Numbered(charges)[i].bytes = charges[i].bytes
    BY DEF Numbered
<1>5. \A u \in Fresh(charges, k) : nextSeq <= u.seq /\ u.seq < nextSeq + k
    <2> TAKE u \in Fresh(charges, k)
    <2>1. PICK i \in 1..k : u = Numbered(charges)[i]
        BY DEF Fresh
    <2>2. u.seq = nextSeq + i - 1
        BY <1>2, <1>3, <2>1
    <2> QED BY <1>1, <2>2
<1>6. Fresh(charges, k) \subseteq Items
    BY <1>2, <1>3 DEF Fresh
<1>7. IsFiniteSet(Fresh(charges, k))
    <2> DEFINE e == [i \in 1..k |-> Numbered(charges)[i]]
    <2>1. e \in Surjection(1..k, Fresh(charges, k))
        BY DEF Surjection, Fresh
    <2>2. IsFiniteSet(1..k)
        BY <1>1, FS_Interval
    <2> QED BY <2>1, <2>2, FS_Surjection
<1>8. \A i \in 1..k : Numbered(charges)[i] \in Fresh(charges, k)
    BY DEF Fresh
<1> QED
    BY <1>2, <1>3, <1>4, <1>5, <1>6, <1>7, <1>8

(* A flush that gets as far as its k-th line. *)
LEMMA OfferedLines ==
    ASSUME NEW f \in Seq(Tokens), NEW charges \in Seq(Charges), nextSeq \in Nat \ {0},
           NEW h \in Between(UsageLines(charges))
    PROVE  \E k \in 0..Len(charges) :
              /\ Len(h) = 2 * k
              /\ Acks(f \o h) = Acks(f)
              /\ \A u \in Items : u \in Entries(f \o h) <=>
                    \/ u \in Fresh(charges, k)
                    \/ u \in Entries(f) /\ ~(nextSeq <= u.seq /\ u.seq < nextSeq + k)
<1> DEFINE lines == UsageLines(charges)
<1>1. /\ lines \in Seq(Tokens) /\ WellFormed(lines) /\ Len(lines) = 2 * Len(charges)
      /\ \A k \in 1..Len(charges) : lines[2 * k - 1] = Usage(Numbered(charges)[k])
      /\ \A i \in 1..Len(lines) : lines[i].kind # "ack"
    BY UsageLinesShape
<1>2. Len(charges) \in Nat /\ nextSeq \in Nat
    BY LenProperties
<1> HIDE DEF lines
<1>3. PICK n \in 0..Len(lines) : n % 2 = 0 /\ h = SubSeq(lines, 1, n)
    BY DEF Between, lines
<1>4. h \in Seq(Tokens) /\ Len(h) = n /\ \A i \in 1..n : h[i] = lines[i]
    BY <1>1, <1>3, PrefixShape
<1>5. PICK k \in 0..Len(charges) : n = 2 * k
    <2>1. n \div 2 \in 0..Len(charges) /\ n = 2 * (n \div 2)
        BY <1>1, <1>2, <1>3
    <2> QED BY <2>1
<1>6. \A i \in 1..k : /\ i \in 1..Len(charges) /\ Numbered(charges)[i].seq = nextSeq + i - 1
                      /\ Numbered(charges)[i] \in Items
    BY FreshTypes
<1>7. \A i \in 1..k : /\ 2 * i - 1 \in 1..n
                      /\ h[2 * i - 1] = Usage(Numbered(charges)[i])
                      /\ h[2 * i - 1].kind = "usage" /\ h[2 * i - 1].seq = nextSeq + i - 1
    <2> TAKE i \in 1..k
    <2>1. 2 * i - 1 \in 1..n
        BY <1>2, <1>5
    <2>2. h[2 * i - 1] = Usage(Numbered(charges)[i])
        BY <1>1, <1>4, <1>6, <2>1
    <2> DEFINE item == Numbered(charges)[i]
    <2>3. item.seq = nextSeq + i - 1 /\ h[2 * i - 1] = Usage(item)
        BY <1>6, <2>2
    <2> HIDE DEF item
    <2>4. h[2 * i - 1].kind = "usage" /\ h[2 * i - 1].seq = nextSeq + i - 1
        BY <2>3 DEF Usage
    <2> QED BY <2>1, <2>2, <2>4
<1>8. \A j \in 1..n : h[j].kind = "usage" => \E i \in 1..k : j = 2 * i - 1
    <2> SUFFICES ASSUME NEW j \in 1..n, h[j].kind = "usage" PROVE \E i \in 1..k : j = 2 * i - 1
        OBVIOUS
    <2>1. j \in 1..Len(lines)
        <3>1. Len(lines) \in Nat /\ n \in Int /\ n <= Len(lines)
            BY <1>1, <1>3, LenProperties
        <3> QED BY <3>1
    <2>2. j % 2 = 1
        <3> SUFFICES ASSUME j % 2 # 1 PROVE FALSE
            OBVIOUS
        <3>1. lines[j] = Newline
            BY <1>1, <2>1 DEF WellFormed
        <3> QED BY <1>4, <3>1 DEF Newline
    <2>3. (j + 1) \div 2 \in 1..k /\ j = 2 * ((j + 1) \div 2) - 1
        BY <1>2, <1>5, <2>2
    <2> QED BY <2>3
<1>9. \A i \in 1..k : Stands(h, 2 * i - 1)
    <2> TAKE i \in 1..k
    <2>1. ASSUME NEW j \in 1..Len(h), j > 2 * i - 1, h[j].kind = "usage"
          PROVE  h[j].seq # h[2 * i - 1].seq
        <3>1. PICK m \in 1..k : j = 2 * m - 1
            BY <1>4, <1>8, <2>1
        <3>2. m # i
            BY <2>1, <3>1
        <3>3. h[j].seq = nextSeq + m - 1 /\ h[2 * i - 1].seq = nextSeq + i - 1
            BY <1>7, <3>1
        <3> QED BY <1>2, <3>2, <3>3
    <2> QED BY <1>7, <2>1 DEF Stands
<1>10. Entries(h) = Fresh(charges, k)
    <2>1. ASSUME NEW u \in Entries(h) PROVE u \in Fresh(charges, k)
        <3>1. PICK j \in 1..Len(h) : Stands(h, j) /\ u = ItemOf(h[j])
            BY DEF Entries
        <3>2. PICK i \in 1..k : j = 2 * i - 1
            BY <1>4, <1>8, <3>1 DEF Stands
        <3>3. u = ItemOf(Usage(Numbered(charges)[i]))
            BY <1>7, <3>1, <3>2
        <3>4. u = Numbered(charges)[i]
            BY <1>6, <3>3, TokenTypes
        <3> QED BY <3>4 DEF Fresh
    <2>2. ASSUME NEW u \in Fresh(charges, k) PROVE u \in Entries(h)
        <3>1. PICK i \in 1..k : u = Numbered(charges)[i]
            BY DEF Fresh
        <3>2. u = ItemOf(Usage(u)) /\ h[2 * i - 1] = Usage(u)
            BY <1>6, <1>7, <3>1, TokenTypes
        <3>3. 2 * i - 1 \in 1..Len(h) /\ u = ItemOf(h[2 * i - 1])
            BY <1>4, <1>7, <3>2
        <3> QED BY <1>9, <3>3 DEF Entries
    <2> QED BY <2>1, <2>2
<1>11. Acks(h) = {}
    <2>1. \A j \in 1..n : j \in 1..Len(lines) /\ h[j].kind # "ack"
        BY <1>1, <1>2, <1>4
    <2> QED BY <1>4, <2>1 DEF Acks
<1>12. ASSUME NEW u \in Items
       PROVE  (\A j \in 1..Len(h) : h[j].kind = "usage" => h[j].seq # u.seq)
                 <=> ~(nextSeq <= u.seq /\ u.seq < nextSeq + k)
    <2>1. u.seq \in Nat /\ k \in Nat
        BY <1>2 DEF Items
    <2>2. ASSUME nextSeq <= u.seq, u.seq < nextSeq + k
          PROVE  \E j \in 1..Len(h) : h[j].kind = "usage" /\ h[j].seq = u.seq
        <3> DEFINE i == u.seq - nextSeq + 1
        <3>1. i \in 1..k /\ nextSeq + i - 1 = u.seq
            BY <1>2, <2>1, <2>2
        <3> HIDE DEF i
        <3>2. /\ 2 * i - 1 \in 1..Len(h) /\ h[2 * i - 1].kind = "usage"
              /\ h[2 * i - 1].seq = u.seq
            BY <1>4, <1>7, <3>1
        <3> QED BY <3>2
    <2>3. ASSUME NEW j \in 1..Len(h), h[j].kind = "usage", h[j].seq = u.seq
          PROVE  nextSeq <= u.seq /\ u.seq < nextSeq + k
        <3>1. PICK i \in 1..k : j = 2 * i - 1
            BY <1>4, <1>8, <2>3
        <3>2. u.seq = nextSeq + i - 1
            BY <1>7, <2>3, <3>1
        <3> QED BY <1>2, <2>1, <3>2
    <2> QED BY <2>2, <2>3
<1>13. /\ Acks(f \o h) = Acks(f)
       /\ \A u \in Items : u \in Entries(f \o h) <=>
             \/ u \in Fresh(charges, k)
             \/ u \in Entries(f) /\ ~(nextSeq <= u.seq /\ u.seq < nextSeq + k)
    <2>1. /\ Acks(f \o h) = Acks(f) \cup Acks(h)
          /\ \A u : u \in Entries(f \o h) <=>
                \/ u \in Entries(h)
                \/ /\ u \in Entries(f)
                   /\ \A j \in 1..Len(h) : h[j].kind = "usage" => h[j].seq # u.seq
        BY <1>4, EntriesConcat
    <2>2. Acks(f \o h) = Acks(f)
        BY <1>11, <2>1
    <2>3. ASSUME NEW u \in Items
          PROVE  u \in Entries(f \o h) <=>
                    \/ u \in Fresh(charges, k)
                    \/ u \in Entries(f) /\ ~(nextSeq <= u.seq /\ u.seq < nextSeq + k)
        BY <1>10, <1>12, <2>1
    <2> QED BY <2>2, <2>3
<1> QED
    BY <1>4, <1>5, <1>13

(* A complete append is the longest of its fragments. *)
LEMMA CompleteFragment ==
    ASSUME NEW tokens \in Seq(Tokens), WellFormed(tokens)
    PROVE  tokens \in Between(tokens)
<1>1. Len(tokens) \in Nat /\ Len(tokens) \in 0..Len(tokens) /\ Len(tokens) % 2 = 0
    BY LenProperties DEF WellFormed
<1>2. SubSeq(tokens, 1, Len(tokens)) = tokens
    BY WholePrefix
<1> QED
    BY <1>1, <1>2 DEF Between

LEMMA AckedLines ==
    ASSUME NEW f \in Seq(Tokens), NEW n \in Nat, NEW h \in Between(Lines(<<Ack(n)>>))
    PROVE  /\ \A u \in Items : u \in Entries(f \o h) <=> u \in Entries(f)
           /\ Acks(f \o h) = Acks(f) \/ Acks(f \o h) = Acks(f) \cup {n}
           /\ h = Lines(<<Ack(n)>>) => Acks(f \o h) = Acks(f) \cup {n}
<1> DEFINE lines == Lines(<<Ack(n)>>)
<1>1. /\ lines \in Seq(Tokens) /\ WellFormed(lines) /\ Len(lines) = 2
      /\ lines[1] = Ack(n) /\ lines[2] = Newline
    BY AckLinesShape
<1>2. /\ h \in Seq(Tokens) /\ WellFormed(h) /\ Len(h) <= 2 /\ Len(h) \in Nat
      /\ \A i \in 1..Len(h) : h[i] = lines[i]
    BY <1>1, FragmentShape, LenProperties
<1>3. \A i \in 1..Len(h) : i = 1 \/ i = 2
    BY <1>2
<1>4. \A i \in 1..Len(h) : /\ h[i].kind # "usage"
                           /\ h[i].kind = "ack" => i = 1 /\ h[i].seq = n
    BY <1>1, <1>2, <1>3 DEF Ack, Newline
<1>5. Entries(h) = {}
    BY <1>4 DEF Entries, Stands
<1>6. Acks(h) \subseteq {n}
    BY <1>4 DEF Acks
<1>7. h = lines => n \in Acks(h)
    <2>1. h = lines => 1 \in 1..Len(h) /\ h[1].kind = "ack" /\ h[1].seq = n
        BY <1>1 DEF Ack
    <2> QED BY <2>1 DEF Acks
<1>8. Acks(f \o h) = Acks(f) \cup Acks(h)
    BY <1>2, EntriesConcat
<1>9. \A u \in Items : u \in Entries(f \o h) <=> u \in Entries(f)
    BY <1>2, <1>4, <1>5, EntriesConcat
<1>10. Acks(h) = {} \/ Acks(h) = {n}
    BY <1>6
<1> QED
    BY <1>7, <1>8, <1>9, <1>10

(* A compaction leaves what is in memory, and nothing else to find. *)
LEMMA CompactedContents ==
    ASSUME WalTypeOK, MemoryInv, Compacted
    PROVE  /\ file' \in Seq(Tokens) /\ WellFormed(file') /\ synced' = Len(file')
           /\ synced' > 0 /\ file'[synced'] = Newline
           /\ \A g \in ViewsOf(file', synced') : g = file'
           /\ Entries(file') = unacked
           /\ Acks(file') = {ackThrough}
<1>1. PICK s \in Listings(unacked) :
        /\ file' = Lines(<<Ack(ackThrough)>> \o [i \in 1..Len(s) |-> Usage(s[i])])
        /\ synced' = 2 + 2 * Len(s)
    BY DEF Compacted
<1> DEFINE records == <<Ack(ackThrough)>> \o [i \in 1..Len(s) |-> Usage(s[i])]
<1>2. /\ Len(s) \in Nat /\ records \in Seq(Tokens) /\ Len(records) = 1 + Len(s)
      /\ records[1] = Ack(ackThrough)
      /\ \A i \in 1..Len(s) : s[i] \in unacked /\ records[i + 1] = Usage(s[i])
    BY CompactedShape
<1>3. file' = Lines(records)
    BY <1>1
<1> HIDE DEF records
<1>4. \A i \in 1..Len(records) : i = 1 \/ \E k \in 1..Len(s) : i = k + 1
    <2> TAKE i \in 1..Len(records)
    <2>1. i = 1 \/ i - 1 \in 1..Len(s)
        BY <1>2
    <2>2. i = (i - 1) + 1
        BY <1>2
    <2> QED BY <2>1, <2>2
<1>5. \A i \in 1..Len(records) : IsRecord(records[i])
    <2>1. IsRecord(Ack(ackThrough))
        BY DEF IsRecord, Ack
    <2>2. \A u : IsRecord(Usage(u))
        BY DEF IsRecord, Usage
    <2> QED BY <1>2, <1>4, <2>1, <2>2
<1> DEFINE f == Lines(records)
<1>6. /\ f \in Seq(Tokens) /\ WellFormed(f) /\ Len(f) = 2 * Len(records)
      /\ \A i \in 1..(2 * Len(records)) :
            f[i] = IF i % 2 = 1 THEN records[(i + 1) \div 2] ELSE Newline
    BY <1>2, <1>5, LinesShape, LinesWellFormed
<1> HIDE DEF f
<1>7. Len(f) = 2 + 2 * Len(s) /\ f # <<>>
    <2>1. Len(f) = 2 + 2 * Len(s)
        BY <1>2, <1>6
    <2>2. Len(f) # 0
        BY <1>2, <2>1
    <2> QED BY <2>1, <2>2, EmptySeq
<1>8. f[Len(f)] = Newline /\ \A g \in ViewsOf(f, Len(f)) : g = f
    <2>1. f[Len(f)] = Newline
        BY <1>6, <1>7, WellFormedEnd
    <2> QED BY <1>6, <2>1, SettledViews
<1>9. \A k \in 1..Len(s) : /\ 2 * k + 1 \in 1..Len(f) /\ f[2 * k + 1] = Usage(s[k])
                           /\ f[2 * k + 1].kind = "usage" /\ f[2 * k + 1].seq = s[k].seq
                           /\ ItemOf(f[2 * k + 1]) = s[k]
    <2> TAKE k \in 1..Len(s)
    <2>1. /\ 2 * k + 1 \in 1..(2 * Len(records)) /\ (2 * k + 1) % 2 = 1
          /\ (2 * k + 1 + 1) \div 2 = k + 1
        BY <1>2
    <2>2. f[2 * k + 1] = Usage(s[k])
        BY <1>2, <1>6, <2>1
    <2>3. ItemOf(Usage(s[k])) = s[k]
        BY <1>2, TokenTypes DEF WalTypeOK
    <2> DEFINE u == s[k]
    <2>4. Usage(u).kind = "usage" /\ Usage(u).seq = u.seq
        BY DEF Usage
    <2> QED BY <1>6, <2>1, <2>2, <2>3, <2>4
<1>10. 1 \in 1..Len(f) /\ f[1] = Ack(ackThrough)
    <2>1. 1 \in 1..(2 * Len(records)) /\ 1 % 2 = 1 /\ (1 + 1) \div 2 = 1
        BY <1>2
    <2> QED BY <1>2, <1>6, <2>1
<1>11. \A i \in 1..Len(f) :
           \/ i = 1
           \/ f[i] = Newline
           \/ \E k \in 1..Len(s) : i = 2 * k + 1
    <2> TAKE i \in 1..Len(f)
    <2>1. CASE i % 2 # 1
        BY <1>6, <2>1
    <2>2. CASE i % 2 = 1 /\ i # 1
        <3>1. i \in Int /\ i > 1 /\ i <= 2 + 2 * Len(s) /\ Len(s) \in Nat /\ i % 2 = 1
            BY <1>2, <1>7, <2>2
        <3> DEFINE k == (i - 1) \div 2
        <3>2. k \in Int /\ i = 2 * k + 1
            BY <3>1
        <3> HIDE DEF k
        <3>3. k \in 1..Len(s)
            BY <3>1, <3>2
        <3> QED BY <3>2, <3>3
    <2> QED BY <2>1, <2>2
<1>12. Newline.kind = "newline" /\ Ack(ackThrough).kind = "ack" /\ Ack(ackThrough).seq = ackThrough
    BY DEF Newline, Ack
<1>13. /\ \A i, j \in 1..Len(s) : i < j => s[i].seq < s[j].seq
       /\ \A u \in unacked : \E i \in 1..Len(s) : s[i] = u
    <2> DEFINE n == Cardinality(unacked)
    <2>1. n \in Nat
        BY FS_CardinalityType DEF WalTypeOK
    <2>2. /\ s \in [1..n -> unacked]
          /\ \A i, j \in 1..n : i < j => s[i].seq < s[j].seq
          /\ \A u \in unacked : \E i \in 1..n : s[i] = u
        BY DEF Listings
    <2> HIDE DEF n
    <2>3. Len(s) = n
        BY <2>1, <2>2
    <2> QED BY <2>2, <2>3
<1>14. \A k \in 1..Len(s) : Stands(f, 2 * k + 1)
    <2> TAKE k \in 1..Len(s)
    <2>1. ASSUME NEW j \in 1..Len(f), j > 2 * k + 1, f[j].kind = "usage"
          PROVE  f[j].seq # f[2 * k + 1].seq
        <3>1. j # 1
            BY <2>1
        <3>2. PICK m \in 1..Len(s) : j = 2 * m + 1
            BY <1>11, <1>12, <2>1, <3>1
        <3>3. k < m
            BY <2>1, <3>2
        <3>4. s[k].seq < s[m].seq /\ s[k].seq \in Nat /\ s[m].seq \in Nat
            BY <1>2, <1>13, <3>3 DEF WalTypeOK, Items
        <3> QED BY <1>9, <3>2, <3>4
    <2> QED BY <1>9, <2>1 DEF Stands
<1>15. Entries(f) = unacked
    <2>1. ASSUME NEW u \in Entries(f) PROVE u \in unacked
        <3>1. PICK i \in 1..Len(f) : Stands(f, i) /\ u = ItemOf(f[i])
            BY DEF Entries
        <3>2. PICK k \in 1..Len(s) : i = 2 * k + 1
            BY <1>10, <1>11, <1>12, <3>1 DEF Stands
        <3> QED BY <1>2, <1>9, <3>1, <3>2
    <2>2. ASSUME NEW u \in unacked PROVE u \in Entries(f)
        <3>1. PICK k \in 1..Len(s) : s[k] = u
            BY <1>13
        <3>2. 2 * k + 1 \in 1..Len(f) /\ ItemOf(f[2 * k + 1]) = u
            BY <1>9, <3>1
        <3> QED BY <1>14, <3>2 DEF Entries
    <2> QED BY <2>1, <2>2
<1>16. Acks(f) = {ackThrough}
    <2>1. ackThrough \in Acks(f)
        BY <1>10, <1>12 DEF Acks
    <2>2. ASSUME NEW n \in Acks(f) PROVE n = ackThrough
        <3>1. PICK i \in 1..Len(f) : f[i].kind = "ack" /\ n = f[i].seq
            BY DEF Acks
        <3>2. i = 1
            BY <1>9, <1>11, <1>12, <3>1
        <3> QED BY <1>10, <1>12, <3>1, <3>2
    <2> QED BY <2>1, <2>2
<1>17. synced' = Len(f) /\ synced' > 0
    BY <1>1, <1>2, <1>7
<1> QED
    BY <1>3, <1>6, <1>8, <1>15, <1>16, <1>17 DEF f

(* open goes on with a view, and leaves no other. *)
LEMMA OpenContents ==
    ASSUME WalTypeOK, NoBlank(file), "power" \in Faults => synced = Len(file), Open
    PROVE  /\ file' \in Seq(Tokens) /\ WellFormed(file') /\ file' \in Views
           /\ "power" \in Faults => synced' = Len(file')
           /\ \A g \in ViewsOf(file', synced') : g = file'
           /\ ackThrough' \in Nat /\ nextSeq' \in Nat /\ ackThrough' < nextSeq'
           /\ ackThrough' > 0 => ackThrough' \in Acks(file')
           /\ \A n \in Acks(file') : n <= ackThrough'
           /\ \A u \in Entries(file') : u.seq < nextSeq'
           /\ unacked' = {u \in Entries(file') : u.seq > ackThrough'}
<1> DEFINE g == Repaired(file)
<1>1. file \in Seq(Tokens) /\ Len(file) \in Nat /\ ~Corrupt(file) /\ file' = g
    BY LenProperties DEF WalTypeOK, Open
<1>2. /\ g \in Seq(Tokens) /\ WellFormed(g) /\ g \in ViewsOf(file, synced)
      /\ SameRecords(file, g)
    BY <1>1, RepairedView
<1>3. synced' = IF g # file THEN Len(g) ELSE synced
    BY <1>1 DEF Open
<1>4. PICK a, l \in Numbers(file) :
          /\ IsAckOf(file, a) /\ IsLastOf(file, l)
          /\ ackThrough' = a /\ nextSeq' = l + 1 /\ unacked' = Replay(file, a)
    BY DEF Open
<1> HIDE DEF g
<1>5. a \in Nat /\ l \in Nat
    <2>1. \A i \in 1..Len(file) : file[i].seq \in Nat
        BY <1>1, ElementOfSeq DEF Tokens
    <2> QED BY <2>1 DEF Numbers
<1>6. /\ Replay(file, a) = {u \in Entries(g) : u.seq > a}
      /\ a > 0 => a \in Acks(g)
      /\ \A m \in Acks(g) : m <= a
      /\ \A u \in Entries(g) : u.seq <= l
      /\ \A m \in Acks(g) : m <= l
    BY <1>1, <1>2, <1>4, <1>5, ReplayOfView
<1>7. a < l + 1
    BY <1>5, <1>6
<1>8. \A u \in Entries(g) : u.seq < l + 1
    <2> TAKE u \in Entries(g)
    <2>1. u.seq \in Nat /\ u.seq <= l
        BY <1>2, <1>6, EntryTypes DEF Items
    <2> QED BY <1>5, <2>1
<1>9. "power" \in Faults => synced' = Len(g)
    BY <1>3
<1>10. \A v \in ViewsOf(g, synced') : v = g
    BY <1>2, <1>9, SettledViews, WellFormedEnd
<1> QED
    BY <1>1, <1>2, <1>4, <1>5, <1>6, <1>7, <1>8, <1>9, <1>10 DEF Views

-----------------------------------------------------------------------------
(* The meters and the flush under way. *)

LEMMA TakenFigures ==
    TypeOK /\ FlushInv =>
        \A a \in Accounts :
            /\ TakenOf(a) \in Nat
            /\ (\E f \in Flushers : Locks(f)) => TakenOf(a) <= pending[a]
<1> SUFFICES ASSUME TypeOK, FlushInv, NEW a \in Accounts
             PROVE  /\ TakenOf(a) \in Nat
                    /\ (\E f \in Flushers : Locks(f)) => TakenOf(a) <= pending[a]
    OBVIOUS
<1>1. pending \in [Accounts -> Nat] /\ \A i \in 1..Len(taken) : taken[i] \in Charges
    BY ElementOfSeq DEF TypeOK
<1>2. CASE \E i \in 1..Len(taken) : taken[i].account = a
    <2> DEFINE j == CHOOSE i \in 1..Len(taken) : taken[i].account = a
    <2>1. j \in 1..Len(taken) /\ taken[j].account = a /\ TakenOf(a) = taken[j].bytes
        BY <1>2 DEF TakenOf
    <2> HIDE DEF j
    <2>2. TakenOf(a) \in Nat
        BY <1>1, <2>1 DEF Charges
    <2>3. (\E f \in Flushers : Locks(f)) => TakenOf(a) <= pending[a]
        BY <2>1 DEF FlushInv
    <2> QED BY <2>2, <2>3
<1>3. CASE ~ \E i \in 1..Len(taken) : taken[i].account = a
    <2>1. TakenOf(a) = 0
        BY <1>3 DEF TakenOf
    <2> QED BY <1>1, <2>1
<1> QED
    BY <1>2, <1>3

(* What is offered to the log is in the meters. *)
MetersOK ==
    /\ Volatile \in [Accounts -> Nat]
    /\ Offered \in [Accounts -> Nat]
    /\ \A a \in Accounts : Offered[a] <= Volatile[a]

LEMMA Figures == TypeOK /\ FlushInv => MetersOK
<1> SUFFICES ASSUME TypeOK, FlushInv
             PROVE  \A a \in Accounts : /\ Volatile[a] \in Nat
                                        /\ Offered[a] \in Nat
                                        /\ Offered[a] <= Volatile[a]
    BY DEF MetersOK, Volatile, Offered
<1> TAKE a \in Accounts
<1>1. /\ TakenOf(a) \in Nat /\ pending[a] \in Nat
      /\ (\E f \in Flushers : Locks(f)) => TakenOf(a) <= pending[a]
    BY TakenFigures DEF TypeOK
<1>2. CASE \E f \in Flushers : stage[f] = "taken"
    <2>1. ~Recorded /\ \E f \in Flushers : Locks(f)
        BY <1>2 DEF FlushInv, Locks, Recorded
    <2>2. Offered[a] = TakenOf(a) /\ Volatile[a] = pending[a] - 0
        BY <1>2, <2>1 DEF Offered, Volatile
    <2> QED BY <1>1, <2>1, <2>2
<1>3. CASE ~(\E f \in Flushers : stage[f] = "taken") /\ Recorded
    <2>1. \E f \in Flushers : Locks(f)
        BY <1>3 DEF Locks, Recorded
    <2>2. Offered[a] = 0 /\ Volatile[a] = pending[a] - TakenOf(a)
        BY <1>3 DEF Offered, Volatile
    <2> QED BY <1>1, <2>1, <2>2
<1>4. CASE ~(\E f \in Flushers : stage[f] = "taken") /\ ~Recorded
    <2>1. Offered[a] = pending[a] /\ Volatile[a] = pending[a] - 0
        BY <1>4 DEF Offered, Volatile
    <2> QED BY <1>1, <2>1
<1> QED
    BY <1>2, <1>3, <1>4

LEMMA FiguresNext == (TypeOK /\ FlushInv)' => MetersOK'
BY Figures, PTL

LEMMA RankMonotone ==
    ASSUME NEW p \in [Accounts -> Nat], NEW q \in [Accounts -> Nat],
           \A a \in Accounts : p[a] <= q[a], NEW a
    PROVE  Rank(p, a) \in Nat /\ Rank(q, a) \in Nat /\ Rank(p, a) <= Rank(q, a)
<1> DEFINE P == {b \in Accounts : b < a /\ p[b] > 0}
           Q == {b \in Accounts : b < a /\ q[b] > 0}
<1>1. IsFiniteSet(P) /\ IsFiniteSet(Q)
    BY AccountsAssumption, FS_Subset
<1>2. P \in SUBSET Q
    OBVIOUS
<1> HIDE DEF P, Q
<1>3. Cardinality(P) \in Nat /\ Cardinality(Q) \in Nat /\ Cardinality(P) <= Cardinality(Q)
    BY <1>1, <1>2, FS_CardinalityType, FS_Subset
<1> QED
    BY <1>3 DEF Rank, P, Q

(* A flush that offers more leaves what is left in order. *)
LEMMA LeftoverGrows ==
    ASSUME NEW items, items \subseteq Items, NEW n \in Nat,
           NEW p \in [Accounts -> Nat], NEW q \in [Accounts -> Nat],
           \A a \in Accounts : p[a] <= q[a], LeftoverOK(items, n, p)
    PROVE  LeftoverOK(items, n, q)
<1>1. ASSUME NEW u \in Leftover(items, n)
      PROVE  u.bytes <= q[u.account] /\ u.seq <= n + Rank(q, u.account)
    <2>1. u.bytes \in Nat /\ u.seq \in Nat /\ u.account \in Accounts
        BY DEF Leftover, Items
    <2>2. u.bytes <= p[u.account] /\ u.seq <= n + Rank(p, u.account)
        BY DEF LeftoverOK
    <2>3. /\ Rank(p, u.account) \in Nat /\ Rank(q, u.account) \in Nat
          /\ Rank(p, u.account) <= Rank(q, u.account)
        BY RankMonotone
    <2>4. p[u.account] \in Nat /\ q[u.account] \in Nat /\ p[u.account] <= q[u.account]
        BY <2>1
    <2> QED BY <2>1, <2>2, <2>3, <2>4
<1> QED
    BY <1>1 DEF LeftoverOK

Snapshot == [a \in Accounts |-> TakenOf(a)]

LEMMA TakenAccounts ==
    ASSUME TypeOK, FlushInv, NEW f \in Flushers, Locks(f)
    PROVE  /\ Snapshot \in [Accounts -> Nat]
           /\ \A i \in 1..Len(taken) : /\ taken[i].account \in Accounts
                                       /\ taken[i].bytes \in Nat \ {0}
                                       /\ Snapshot[taken[i].account] = taken[i].bytes
           /\ \A a \in Accounts : Snapshot[a] > 0 => \E i \in 1..Len(taken) : taken[i].account = a
           /\ \A i, j \in 1..Len(taken) : taken[i].account = taken[j].account => i = j
<1>1. \A i \in 1..Len(taken) : taken[i].account \in Accounts /\ taken[i].bytes \in Nat \ {0}
    <2>1. \A i \in 1..Len(taken) : taken[i] \in Charges
        BY ElementOfSeq DEF TypeOK
    <2> QED BY <2>1 DEF Charges
<1>2. \A a \in Accounts : a \in Nat
    BY AccountsAssumption
<1>3. ASSUME NEW i \in 1..Len(taken), NEW j \in 1..Len(taken),
             taken[i].account = taken[j].account
      PROVE  i = j
    <2>1. /\ i < j => taken[i].account < taken[j].account
          /\ j < i => taken[j].account < taken[i].account
        BY DEF FlushInv
    <2>2. taken[i].account \in Nat /\ taken[j].account \in Nat /\ i \in Int /\ j \in Int
        BY <1>1, <1>2
    <2> QED BY <1>3, <2>1, <2>2
<1>4. ASSUME NEW i \in 1..Len(taken) PROVE Snapshot[taken[i].account] = taken[i].bytes
    <2> DEFINE a == taken[i].account
               j == CHOOSE m \in 1..Len(taken) : taken[m].account = a
    <2>1. j \in 1..Len(taken) /\ taken[j].account = a
        OBVIOUS
    <2>2. TakenOf(a) = taken[j].bytes
        BY DEF TakenOf
    <2> HIDE DEF j
    <2>3. j = i
        BY <1>3, <2>1
    <2> QED BY <1>1, <2>2, <2>3 DEF Snapshot
<1>5. Snapshot \in [Accounts -> Nat]
    BY TakenFigures DEF Snapshot
<1>6. ASSUME NEW a \in Accounts, Snapshot[a] > 0
      PROVE  \E i \in 1..Len(taken) : taken[i].account = a
    BY <1>6 DEF Snapshot, TakenOf
<1> QED
    BY <1>1, <1>3, <1>4, <1>5, <1>6

LEMMA CountedBy ==
    ASSUME NEW n \in Nat, NEW A, NEW e \in [1..n -> A],
           \A i, j \in 1..n : e[i] = e[j] => i = j, \A x \in A : \E i \in 1..n : e[i] = x
    PROVE  Cardinality(A) = n
<1> DEFINE N == 1..n
<1>1. e \in [N -> A] /\ (\A i, j \in N : e[i] = e[j] => i = j) /\ \A x \in A : \E i \in N : e[i] = x
    OBVIOUS
<1> HIDE DEF N
<1>2. e \in Injection(N, A)
    BY <1>1 DEF Injection, IsInjective
<1>3. e \in Surjection(N, A)
    BY <1>1, Zenon DEF Surjection
<1>4. ExistsBijection(N, A)
    BY <1>2, <1>3 DEF ExistsBijection, Bijection
<1> QED
    BY <1>4, FS_CountingElements DEF N

(* The lines of a flush are in the order of the accounts it offers. *)
LEMMA RankOfTaken ==
    ASSUME TypeOK, FlushInv, NEW f \in Flushers, Locks(f), NEW i \in 1..Len(taken)
    PROVE  Rank(Snapshot, taken[i].account) = i - 1
<1> DEFINE A == {b \in Accounts : b < taken[i].account /\ Snapshot[b] > 0}
           e == [j \in 1..(i - 1) |-> taken[j].account]
<1>1. Len(taken) \in Nat /\ i \in Int /\ i >= 1 /\ i <= Len(taken) /\ i - 1 \in Nat
    BY LenProperties DEF TypeOK
<1>2. \A j \in 1..(i - 1) : j \in 1..Len(taken) /\ j < i
    BY <1>1
<1>3. /\ Snapshot \in [Accounts -> Nat]
      /\ \A j \in 1..Len(taken) : /\ taken[j].account \in Accounts
                                  /\ taken[j].bytes \in Nat \ {0}
                                  /\ Snapshot[taken[j].account] = taken[j].bytes
      /\ \A a \in Accounts : Snapshot[a] > 0 => \E j \in 1..Len(taken) : taken[j].account = a
      /\ \A j, m \in 1..Len(taken) : taken[j].account = taken[m].account => j = m
    BY TakenAccounts
<1>4. \A j, m \in 1..Len(taken) : j < m => taken[j].account < taken[m].account
    BY DEF FlushInv
<1>5. e \in [1..(i - 1) -> A]
    <2>1. \A j \in 1..(i - 1) : taken[j].account \in A
        BY <1>2, <1>3, <1>4
    <2> QED BY <2>1
<1>6. \A j, m \in 1..(i - 1) : e[j] = e[m] => j = m
    BY <1>2, <1>3
<1>7. \A b \in A : \E j \in 1..(i - 1) : e[j] = b
    <2> SUFFICES ASSUME NEW b \in A PROVE \E j \in 1..(i - 1) : e[j] = b
        OBVIOUS
    <2>1. PICK j \in 1..Len(taken) : taken[j].account = b
        BY <1>3
    <2>2. b \in Nat /\ taken[i].account \in Nat /\ b < taken[i].account
        BY <1>3, AccountsAssumption
    <2>3. ~(i < j) /\ i # j
        BY <1>4, <2>1, <2>2
    <2>4. j \in 1..(i - 1)
        BY <1>1, <2>3
    <2> QED BY <2>1, <2>4
<1> HIDE DEF e, A
<1>9. Cardinality(A) = i - 1
    BY <1>1, <1>5, <1>6, <1>7, CountedBy
<1> QED
    BY <1>9 DEF Rank, A

LEMMA FreshTotal ==
    ASSUME TypeOK, FlushInv, NEW f \in Flushers, Locks(f), NEW a \in Accounts
    PROVE  Total(Fresh(taken, Len(taken)), a) = TakenOf(a)
<1> DEFINE S == Fresh(taken, Len(taken))
<1>1. Len(taken) \in 0..Len(taken) /\ taken \in Seq(Charges) /\ nextSeq \in Nat \ {0}
    BY LenProperties DEF TypeOK, WalTypeOK
<1>2. /\ S \subseteq Items
      /\ \A i \in 1..Len(taken) : /\ Numbered(taken)[i].account = taken[i].account
                                  /\ Numbered(taken)[i].bytes = taken[i].bytes
    BY <1>1, FreshTypes
<1>3. \A u \in S : \E i \in 1..Len(taken) : u = Numbered(taken)[i]
    BY DEF Fresh
<1> HIDE DEF S
<1>4. /\ Snapshot \in [Accounts -> Nat]
      /\ \A i \in 1..Len(taken) : Snapshot[taken[i].account] = taken[i].bytes
      /\ \A i \in 1..Len(taken) : taken[i].bytes \in Nat
      /\ \A i, j \in 1..Len(taken) : taken[i].account = taken[j].account => i = j
    BY TakenAccounts
<1>5. \A u, v \in S : u.account = v.account => u = v
    BY <1>2, <1>3, <1>4
<1>6. CASE \E i \in 1..Len(taken) : taken[i].account = a
    <2>1. PICK i \in 1..Len(taken) : taken[i].account = a
        BY <1>6
    <2> DEFINE u == Numbered(taken)[i]
    <2>2. u \in S /\ u.account = a /\ u.bytes = taken[i].bytes
        BY <1>2, <2>1 DEF S, Fresh
    <2> HIDE DEF u
    <2>3. u \in Items /\ \A v \in S : v.account = a => v = u
        BY <1>2, <1>5, <2>2
    <2>4. Total(S, a) = u.bytes
        BY <2>2, <2>3, TotalOfOne
    <2>5. Snapshot[a] = taken[i].bytes
        BY <1>4, <2>1
    <2> QED BY <2>2, <2>4, <2>5 DEF S, Snapshot
<1>7. CASE ~ \E i \in 1..Len(taken) : taken[i].account = a
    <2>1. \A u \in S : u.account # a
        BY <1>2, <1>3, <1>7
    <2>2. Total(S, a) = 0
        BY <2>1, TotalEmpty
    <2>3. TakenOf(a) = 0
        BY <1>7 DEF TakenOf
    <2> QED BY <2>2, <2>3 DEF S
<1> QED
    BY <1>6, <1>7

(* A flush replaces what earlier ones left, as far as it gets. *)
LEMMA LeftoverReplaced ==
    ASSUME TypeOK, FlushInv, NEW f \in Flushers, Locks(f),
           NEW old, old \subseteq Items, NEW new, new \subseteq Items,
           NEW k \in 0..Len(taken),
           \A u \in Items : u \in new <=>
              \/ u \in Fresh(taken, k)
              \/ u \in old /\ ~(nextSeq <= u.seq /\ u.seq < nextSeq + k),
           LeftoverOK(old, nextSeq, Snapshot)
    PROVE  /\ LeftoverOK(new, nextSeq, Snapshot)
           /\ k = Len(taken) => \A u \in new : u.seq < nextSeq + Len(taken)
<1>1. /\ Len(taken) \in Nat /\ k \in Nat /\ k <= Len(taken) /\ nextSeq \in Nat
      /\ nextSeq \in Nat \ {0} /\ taken \in Seq(Charges)
    BY LenProperties DEF TypeOK, WalTypeOK
<1>2. /\ Snapshot \in [Accounts -> Nat]
      /\ \A i \in 1..Len(taken) : /\ taken[i].account \in Accounts
                                  /\ taken[i].bytes \in Nat
                                  /\ Snapshot[taken[i].account] = taken[i].bytes
      /\ \A a \in Accounts : Snapshot[a] > 0 => \E i \in 1..Len(taken) : taken[i].account = a
      /\ \A i, j \in 1..Len(taken) : taken[i].account = taken[j].account => i = j
      /\ \A i \in 1..Len(taken) : Rank(Snapshot, taken[i].account) = i - 1
    BY TakenAccounts, RankOfTaken
<1>3. \A i \in 1..k : /\ i \in 1..Len(taken)
                      /\ Numbered(taken)[i].seq = nextSeq + i - 1
                      /\ Numbered(taken)[i].account = taken[i].account
                      /\ Numbered(taken)[i].bytes = taken[i].bytes
    BY <1>1, FreshTypes
<1>4. \A u \in Fresh(taken, k) : \E i \in 1..k : u = Numbered(taken)[i]
    BY DEF Fresh
<1>5. \A u \in Items : /\ u.seq \in Nat /\ u.bytes \in Nat /\ u.bytes > 0
                       /\ u.account \in Accounts
    BY DEF Items
(* The ones that stay are of accounts the flush did not reach. *)
<1>6. ASSUME NEW u \in old, u.seq >= nextSeq
      PROVE  \E i \in 1..Len(taken) : /\ u.account = taken[i].account
                                      /\ u.bytes <= taken[i].bytes
                                      /\ u.seq <= nextSeq + (i - 1)
    <2>1. u \in Leftover(old, nextSeq) /\ u \in Items
        BY <1>6 DEF Leftover
    <2>2. u.bytes <= Snapshot[u.account] /\ u.seq <= nextSeq + Rank(Snapshot, u.account)
        BY <2>1 DEF LeftoverOK
    <2>3. Snapshot[u.account] > 0
        BY <1>2, <1>5, <2>1, <2>2
    <2>4. PICK i \in 1..Len(taken) : taken[i].account = u.account
        BY <1>2, <1>5, <2>1, <2>3
    <2>5. Rank(Snapshot, u.account) = i - 1 /\ Snapshot[u.account] = taken[i].bytes
        BY <1>2, <2>4
    <2> QED BY <2>2, <2>4, <2>5
<1>7. ASSUME NEW u \in Leftover(new, nextSeq)
      PROVE  \E i \in 1..Len(taken) :
                /\ u.account = taken[i].account
                /\ u.bytes <= taken[i].bytes
                /\ u.seq <= nextSeq + (i - 1)
                /\ i <= k => u = Numbered(taken)[i]
                /\ i > k => u \in old /\ u.seq >= nextSeq
    <2>1. u \in new /\ u \in Items /\ u.seq >= nextSeq /\ u.seq \in Nat
        BY <1>5 DEF Leftover
    <2>2. CASE u \in Fresh(taken, k)
        <3>1. PICK i \in 1..k : u = Numbered(taken)[i]
            BY <1>4, <2>2
        <3>2. /\ i \in 1..Len(taken) /\ u.account = taken[i].account
              /\ u.bytes = taken[i].bytes /\ u.seq = nextSeq + i - 1
            BY <1>3, <3>1
        <3>3. taken[i].bytes \in Nat /\ i \in Int /\ i <= k
            BY <1>1, <1>2, <3>2
        <3>4. u.bytes <= taken[i].bytes /\ u.seq <= nextSeq + (i - 1) /\ ~(i > k)
            BY <1>1, <3>2, <3>3
        <3> QED BY <3>1, <3>2, <3>4
    <2>3. CASE u \notin Fresh(taken, k)
        <3>1. u \in old /\ ~(u.seq < nextSeq + k)
            BY <2>1, <2>3
        <3>2. PICK i \in 1..Len(taken) : /\ u.account = taken[i].account
                                         /\ u.bytes <= taken[i].bytes
                                         /\ u.seq <= nextSeq + (i - 1)
            BY <1>6, <2>1, <3>1
        <3>3. ~(i <= k)
            BY <1>1, <2>1, <3>1, <3>2
        <3> QED BY <2>1, <3>1, <3>2, <3>3
    <2> QED BY <2>2, <2>3
<1>8. ASSUME NEW u \in Leftover(new, nextSeq)
      PROVE  u.bytes <= Snapshot[u.account] /\ u.seq <= nextSeq + Rank(Snapshot, u.account)
    <2>1. PICK i \in 1..Len(taken) : /\ u.account = taken[i].account
                                     /\ u.bytes <= taken[i].bytes
                                     /\ u.seq <= nextSeq + (i - 1)
        BY <1>7
    <2>2. Rank(Snapshot, u.account) = i - 1 /\ Snapshot[u.account] = taken[i].bytes
        BY <1>2, <2>1
    <2> QED BY <2>1, <2>2
<1>9. ASSUME NEW u \in Leftover(new, nextSeq), NEW v \in Leftover(new, nextSeq),
             u.account = v.account
      PROVE  u = v
    <2>1. PICK i \in 1..Len(taken) : /\ u.account = taken[i].account
                                     /\ i <= k => u = Numbered(taken)[i]
                                     /\ i > k => u \in old /\ u.seq >= nextSeq
        BY <1>7
    <2>2. PICK j \in 1..Len(taken) : /\ v.account = taken[j].account
                                     /\ j <= k => v = Numbered(taken)[j]
                                     /\ j > k => v \in old /\ v.seq >= nextSeq
        BY <1>7
    <2>3. i = j
        BY <1>2, <1>9, <2>1, <2>2
    <2>4. CASE i <= k
        BY <2>1, <2>2, <2>3, <2>4
    <2>5. CASE i > k
        <3>1. u \in Leftover(old, nextSeq) /\ v \in Leftover(old, nextSeq)
            BY <2>1, <2>2, <2>3, <2>5 DEF Leftover
        <3> QED BY <1>9, <3>1 DEF LeftoverOK
    <2> QED BY <1>1, <2>4, <2>5
<1>10. ASSUME k = Len(taken), NEW u \in new PROVE u.seq < nextSeq + Len(taken)
    <2>1. u.seq \in Nat
        BY <1>5
    <2>2. CASE u.seq < nextSeq
        BY <1>1, <2>1, <2>2
    <2>3. CASE u.seq >= nextSeq
        <3>1. PICK i \in 1..Len(taken) : u.seq <= nextSeq + (i - 1)
            BY <1>7, <2>3 DEF Leftover
        <3> QED BY <1>1, <2>1, <3>1
    <2> QED BY <1>1, <2>1, <2>2, <2>3
<1> QED
    BY <1>8, <1>9, <1>10 DEF LeftoverOK

-----------------------------------------------------------------------------
(* The sums over what was or may yet be billed. *)

OwedOK == Owed \subseteq Items /\ IsFiniteSet(Owed)

LEMMA OwedTypes == TypeOK /\ FiniteInv => OwedOK
<1> SUFFICES ASSUME TypeOK, FiniteInv PROVE OwedOK
    OBVIOUS
<1> DEFINE R == {reports[i] : i \in 1..Len(reports)}
           e == [i \in 1..Len(reports) |-> reports[i]]
<1>1. Len(reports) \in Nat /\ \A i \in 1..Len(reports) : reports[i] \in SUBSET Items
    BY LenProperties, ElementOfSeq DEF TypeOK
<1>2. e \in Surjection(1..Len(reports), R)
    BY DEF Surjection
<1>3. IsFiniteSet(1..Len(reports))
    BY <1>1, FS_Interval
<1>4. IsFiniteSet(R)
    BY <1>2, <1>3, FS_Surjection
<1>5. \A r \in R : IsFiniteSet(r) /\ r \subseteq Items
    BY <1>1 DEF FiniteInv
<1>6. Sent = UNION R
    BY DEF Sent
<1> HIDE DEF R
<1>7. IsFiniteSet(UNION R) /\ UNION R \subseteq Items
    BY <1>4, <1>5, FS_UNION
<1>8. /\ unacked \subseteq Items /\ IsFiniteSet(unacked)
      /\ ingested \subseteq Items /\ IsFiniteSet(ingested)
    BY DEF TypeOK, WalTypeOK, FiniteInv
<1>9. IsFiniteSet(ingested \cup unacked)
    BY <1>8, FS_Union
<1>10. IsFiniteSet((ingested \cup unacked) \cup UNION R)
    BY <1>7, <1>9, FS_Union
<1> QED
    BY <1>6, <1>7, <1>8, <1>10 DEF OwedOK, Owed

LEMMA OwedTypesNext == (TypeOK /\ FiniteInv)' => OwedOK'
BY OwedTypes, PTL

LEMMA BaseTypes ==
    ASSUME NEW g \in Seq(Tokens)
    PROVE  /\ Unpaid(g) \subseteq Items /\ IsFiniteSet(Unpaid(g))
           /\ Base(g) \subseteq Items /\ IsFiniteSet(Base(g))
<1>1. Entries(g) \subseteq Items /\ IsFiniteSet(Entries(g))
    BY EntryTypes
<1>2. Unpaid(g) \in SUBSET Entries(g) /\ Base(g) \in SUBSET Entries(g)
    BY DEF Unpaid, Base
<1>3. IsFiniteSet(Unpaid(g)) /\ IsFiniteSet(Base(g))
    BY <1>1, <1>2, FS_Subset
<1> QED
    BY <1>1, <1>2, <1>3

(* A step may move bytes from the meters to the items, not create any. *)
LEMMA CoverKept ==
    ASSUME TypeOK, TypeOK', FlushInv, FlushInv', FiniteInv, FiniteInv',
           NEW old, old \subseteq Items, IsFiniteSet(old), Covered(old),
           NEW extra, extra \subseteq Items, IsFiniteSet(extra),
           \A a \in Accounts :
              Total(extra, a) + Volatile'[a] + relayed[a] <= Volatile[a] + relayed'[a],
           NEW new, Owed' \cup new \subseteq Owed \cup old \cup extra
    PROVE  \A a \in Accounts : Total(Owed' \cup new, a) + Volatile'[a] <= relayed'[a]
<1> TAKE a \in Accounts
<1>1. Owed \subseteq Items /\ IsFiniteSet(Owed)
    BY OwedTypes DEF OwedOK
<1> DEFINE S == Owed \cup old
<1>2. S \subseteq Items /\ IsFiniteSet(S)
    BY <1>1, FS_Union
<1>3. S \cup extra \subseteq Items /\ IsFiniteSet(S \cup extra)
    BY <1>2, FS_Union
<1> HIDE DEF S
<1>4. Total(S \cup extra, a) <= Total(S, a) + Total(extra, a)
    BY <1>2, TotalUnion
<1>5. Owed' \cup new \subseteq S \cup extra
    BY DEF S
<1>6. Total(Owed' \cup new, a) <= Total(S \cup extra, a)
    BY <1>3, <1>5, TotalMonotone
<1>7. /\ Total(S, a) \in Nat /\ Total(extra, a) \in Nat /\ Total(S \cup extra, a) \in Nat
    BY <1>2, <1>3, BytesFinite
<1>8. Total(Owed' \cup new, a) \in Nat
    <2>1. IsFiniteSet(Owed' \cup new)
        BY <1>3, <1>5, FS_Subset
    <2> QED BY <1>3, <1>5, <2>1, BytesFinite
<1>9. Volatile[a] \in Nat /\ Volatile'[a] \in Nat
    BY Figures, FiguresNext DEF MetersOK
<1>10. relayed[a] \in Nat /\ relayed'[a] \in Nat
    BY DEF TypeOK
<1>11. Total(S, a) + Volatile[a] <= relayed[a]
    BY DEF Covered, S
<1>12. Total(extra, a) + Volatile'[a] + relayed[a] <= Volatile[a] + relayed'[a]
    OBVIOUS
<1> QED
    BY <1>4, <1>6, <1>7, <1>8, <1>9, <1>10, <1>11, <1>12

(* A step of a running process keeps the sums if every view it leaves has  *)
(* no more than one there was.                                             *)
LEMMA SumsKept ==
    ASSUME TypeOK, TypeOK', CoreInv, FlushInv', FiniteInv',
           NEW extra, extra \subseteq Items, IsFiniteSet(extra),
           \A a \in Accounts :
              Total(extra, a) + Volatile'[a] + relayed[a] <= Volatile[a] + relayed'[a],
           Owed' \subseteq Owed \cup extra,
           \A g2 \in Views' :
              \/ Base(g2)' \subseteq Owed \cup extra
              \/ \E g \in Views : Base(g2)' \subseteq Owed \cup Base(g) \cup extra
    PROVE  SumInv'
<1>1. FlushInv /\ FiniteInv /\ Covered({}) /\ \A g \in Views : Covered(Base(g))
    BY DEF CoreInv, SumInv
<1>2. ASSUME NEW new, Owed' \cup new \subseteq Owed \cup extra
      PROVE  \A a \in Accounts : Total(Owed' \cup new, a) + Volatile'[a] <= relayed'[a]
    <2>1. Owed' \cup new \subseteq Owed \cup {} \cup extra
        BY <1>2
    <2>2. {} \subseteq Items /\ IsFiniteSet({})
        BY FS_EmptySet
    <2> QED BY <1>1, <2>1, <2>2, CoverKept
<1>3. Covered({})'
    <2>1. Owed' \cup {} \subseteq Owed \cup extra
        OBVIOUS
    <2> QED BY <1>2, <2>1 DEF Covered
<1>4. ASSUME NEW g2 \in Views' PROVE Covered(Base(g2))'
    <2>1. CASE Base(g2)' \subseteq Owed \cup extra
        <3>1. Owed' \cup Base(g2)' \subseteq Owed \cup extra
            BY <2>1
        <3> QED BY <1>2, <3>1 DEF Covered
    <2>2. ASSUME NEW g \in Views, Base(g2)' \subseteq Owed \cup Base(g) \cup extra
          PROVE  Covered(Base(g2))'
        <3>1. g \in Seq(Tokens)
            BY ViewTypes DEF Views, TypeOK, WalTypeOK
        <3>2. Base(g) \subseteq Items /\ IsFiniteSet(Base(g)) /\ Covered(Base(g))
            BY <1>1, <3>1, BaseTypes
        <3>3. Owed' \cup Base(g2)' \subseteq Owed \cup Base(g) \cup extra
            BY <2>2
        <3>4. \A a \in Accounts : Total(Owed' \cup Base(g2)', a) + Volatile'[a] <= relayed'[a]
            BY <1>1, <3>2, <3>3, CoverKept
        <3> QED BY <3>4 DEF Covered
    <2> QED BY <2>1, <2>2
<1> QED
    BY <1>3, <1>4 DEF SumInv

(* A step that neither writes the log nor stops or starts the process. *)
LEMMA QuietStep ==
    ASSUME TypeOK, TypeOK', CoreInv, UNCHANGED walVars, Up' <=> Up,
           FlushInv', FiniteInv', ~Up => DownInv',
           Owed' \subseteq Owed,
           Up => \A a \in Accounts : Offered[a] <= Offered'[a],
           \A a \in Accounts : Volatile'[a] + relayed[a] <= Volatile[a] + relayed'[a]
    PROVE  CoreInv'
<1>1. /\ file' = file /\ synced' = synced /\ attached' = attached
      /\ nextSeq' = nextSeq /\ ackThrough' = ackThrough /\ unacked' = unacked
    BY DEF walVars
<1>2. FileInv'
    BY <1>1 DEF CoreInv, FileInv
<1>3. Up => MemoryInv'
    BY <1>1 DEF CoreInv, MemoryInv
<1>4. Views' = Views
    BY <1>1 DEF Views
<1>5. nextSeq \in Nat /\ file \in Seq(Tokens)
    BY DEF TypeOK, WalTypeOK
<1>6. Up => TailInv'
    <2> SUFFICES ASSUME Up, NEW g \in Views
                 PROVE  /\ LeftoverOK(Entries(g), nextSeq, Offered')
                        /\ ~attached => Leftover(Entries(g), nextSeq) = {}
        BY <1>1, <1>4 DEF TailInv
    <2>1. /\ LeftoverOK(Entries(g), nextSeq, Offered)
          /\ ~attached => Leftover(Entries(g), nextSeq) = {}
        BY DEF CoreInv, TailInv
    <2>2. Entries(g) \subseteq Items
        BY <1>5, ViewTypes, EntryTypes DEF Views
    <2>3. Offered \in [Accounts -> Nat] /\ Offered' \in [Accounts -> Nat]
        BY Figures, FiguresNext DEF CoreInv, MetersOK
    <2>4. LeftoverOK(Entries(g), nextSeq, Offered')
        BY <1>5, <2>1, <2>2, <2>3, LeftoverGrows
    <2> QED BY <2>1, <2>4
<1>7. \A g \in Views : Base(g)' = Base(g)
    BY <1>1 DEF Base
<1>8. SumInv'
    <2>1. \A a \in Accounts :
              Total({}, a) + Volatile'[a] + relayed[a] <= Volatile[a] + relayed'[a]
        <3> TAKE a \in Accounts
        <3>1. Total({}, a) = 0
            BY TotalEmpty
        <3>2. /\ Volatile[a] \in Nat /\ Volatile'[a] \in Nat
              /\ relayed[a] \in Nat /\ relayed'[a] \in Nat
            BY Figures, FiguresNext DEF CoreInv, MetersOK, TypeOK
        <3>3. Volatile'[a] + relayed[a] <= Volatile[a] + relayed'[a]
            OBVIOUS
        <3> QED BY <3>1, <3>2, <3>3
    <2>2. {} \subseteq Items /\ IsFiniteSet({})
        BY FS_EmptySet
    <2>3. \A g2 \in Views' : \E g \in Views : Base(g2)' \subseteq Owed \cup Base(g) \cup {}
        BY <1>4, <1>7
    <2> QED BY <2>1, <2>2, <2>3, SumsKept
<1> QED
    BY <1>2, <1>3, <1>6, <1>8 DEF CoreInv

-----------------------------------------------------------------------------
(* Steps that do not write the log. *)

LEMMA SnapshotKept ==
    ASSUME TypeOK, TypeOK', FlushInv, UNCHANGED taken,
           \A f \in Flushers : Locks(f)' <=> Locks(f),
           \A a \in Accounts : pending[a] <= pending'[a],
           "stop" \notin Faults => stage'["main"] = "idle"
    PROVE  FlushInv'
<1>1. \A f, h \in Flushers : Locks(f)' /\ Locks(h)' => f = h
    BY DEF FlushInv
<1>2. ASSUME \E f \in Flushers : Locks(f)'
      PROVE  /\ taken # <<>>
             /\ \A i, j \in 1..Len(taken) : i < j => taken[i].account < taken[j].account
             /\ \A i \in 1..Len(taken) : taken[i].bytes <= pending'[taken[i].account]
    <2>1. /\ taken # <<>>
          /\ \A i, j \in 1..Len(taken) : i < j => taken[i].account < taken[j].account
          /\ \A i \in 1..Len(taken) : taken[i].bytes <= pending[taken[i].account]
        BY <1>2 DEF FlushInv
    <2>2. ASSUME NEW i \in 1..Len(taken) PROVE taken[i].bytes <= pending'[taken[i].account]
        <3>1. taken[i] \in Charges
            BY ElementOfSeq DEF TypeOK
        <3>2. taken[i].account \in Accounts /\ taken[i].bytes \in Nat
            BY <3>1 DEF Charges
        <3>3. pending[taken[i].account] \in Nat /\ pending'[taken[i].account] \in Nat
            BY <3>2 DEF TypeOK
        <3> QED BY <2>1, <3>2, <3>3
    <2> QED BY <2>1, <2>2
<1> QED
    BY <1>1, <1>2 DEF FlushInv

(* The stages between flushes do not matter to the meters. *)
LEMMA MetersKept ==
    ASSUME UNCHANGED <<pending, taken>>,
           \A f \in Flushers : /\ stage'[f] = "taken" <=> stage[f] = "taken"
                               /\ stage'[f] = "recorded" <=> stage[f] = "recorded"
    PROVE  /\ Volatile' = Volatile /\ Offered' = Offered
           /\ \A f \in Flushers : Locks(f)' <=> Locks(f)
<1>1. Recorded' <=> Recorded
    BY DEF Recorded
<1>2. \A a : TakenOf(a)' = TakenOf(a)
    BY DEF TakenOf
<1>3. (\E f \in Flushers : stage'[f] = "taken") <=> (\E f \in Flushers : stage[f] = "taken")
    OBVIOUS
<1>4. Volatile' = Volatile
    BY <1>1, <1>2 DEF Volatile
<1>5. Offered' = Offered
    BY <1>1, <1>2, <1>3 DEF Offered
<1> QED
    BY <1>4, <1>5 DEF Locks

LEMMA UpWhenBusy ==
    ASSUME CoreInv, (\E f \in Flushers : stage[f] # "idle") \/ reports # <<>>
    PROVE  Up
BY DEF CoreInv, DownInv

LEMMA UnlinkedOwed ==
    ASSUME FiniteInv, Unlink, UNCHANGED <<ingested, unacked>>
    PROVE  FiniteInv' /\ Owed' \subseteq Owed
<1>1. reports' = <<>> /\ Len(<<>>) = 0
    BY DEF Unlink
<1>2. Sent' = {}
    BY <1>1 DEF Sent
<1> QED
    BY <1>1, <1>2 DEF FiniteInv, Owed

LEMMA CommitUsageCore ==
    ASSUME TypeOK, TypeOK', CoreInv, NEW a \in Accounts, CommitUsage(a)
    PROVE  CoreInv'
<1>1. /\ Up /\ Up' /\ UNCHANGED walVars
      /\ stage' = stage /\ taken' = taken /\ reports' = reports /\ ingested' = ingested
      /\ unacked' = unacked
      /\ relayed' = [relayed EXCEPT ![a] = @ + 1] /\ pending' = [pending EXCEPT ![a] = @ + 1]
    BY DEF CommitUsage, Up, linkVars, walVars
<1>2. pending \in [Accounts -> Nat] /\ relayed \in [Accounts -> Nat] /\ FlushInv /\ FiniteInv
    BY DEF TypeOK, CoreInv
<1>3. \A b \in Accounts : pending[b] <= pending'[b]
    BY <1>1, <1>2
<1>4. FlushInv'
    <2>1. \A f \in Flushers : Locks(f)' <=> Locks(f)
        BY <1>1 DEF Locks
    <2>2. "stop" \notin Faults => stage'["main"] = "idle"
        BY <1>1, <1>2 DEF FlushInv
    <2> QED BY <1>1, <1>2, <1>3, <2>1, <2>2, SnapshotKept
<1>5. FiniteInv' /\ Owed' = Owed
    BY <1>1, <1>2 DEF FiniteInv, Owed, Sent
<1>6. \A b : TakenOf(b)' = TakenOf(b)
    BY <1>1 DEF TakenOf
<1>7. Recorded' <=> Recorded
    BY <1>1 DEF Recorded
<1>8. \A b \in Accounts : TakenOf(b) \in Nat
    BY <1>2, TakenFigures
<1>9. \A b \in Accounts : Offered[b] <= Offered'[b]
    <2> TAKE b \in Accounts
    <2>1. pending[b] \in Nat /\ pending'[b] \in Nat /\ TakenOf(b) \in Nat /\ pending[b] <= pending'[b]
        BY <1>2, <1>3, <1>8 DEF TypeOK
    <2>2. CASE \E f \in Flushers : stage[f] = "taken"
        <3>1. Offered[b] = TakenOf(b) /\ Offered'[b] = TakenOf(b)
            BY <1>1, <1>6, <2>2 DEF Offered
        <3> QED BY <2>1, <3>1
    <2>3. CASE ~(\E f \in Flushers : stage[f] = "taken") /\ Recorded
        <3>1. Offered[b] = 0 /\ Offered'[b] = 0
            BY <1>1, <1>7, <2>3 DEF Offered
        <3> QED BY <3>1
    <2>4. CASE ~(\E f \in Flushers : stage[f] = "taken") /\ ~Recorded
        <3>1. Offered[b] = pending[b] /\ Offered'[b] = pending'[b]
            BY <1>1, <1>7, <2>4 DEF Offered
        <3> QED BY <2>1, <3>1
    <2> QED BY <2>2, <2>3, <2>4
<1>10. \A b \in Accounts : Volatile'[b] + relayed[b] <= Volatile[b] + relayed'[b]
    <2> TAKE b \in Accounts
    <2> DEFINE t == IF Recorded THEN TakenOf(b) ELSE 0
    <2>1. t \in Nat
        BY <1>8
    <2>2. Volatile[b] = pending[b] - t /\ Volatile'[b] = pending'[b] - t
        BY <1>6, <1>7 DEF Volatile
    <2> HIDE DEF t
    <2>3. /\ pending[b] \in Nat /\ relayed[b] \in Nat
          /\ b = a => pending'[b] = pending[b] + 1 /\ relayed'[b] = relayed[b] + 1
          /\ b # a => pending'[b] = pending[b] /\ relayed'[b] = relayed[b]
        BY <1>1, <1>2
    <2> QED BY <2>1, <2>2, <2>3
<1> QED
    BY <1>1, <1>4, <1>5, <1>9, <1>10, QuietStep

LEMMA TakePendingCore ==
    ASSUME TypeOK, TypeOK', CoreInv, NEW f \in Flushers, TakePending(f)
    PROVE  CoreInv'
<1>1. /\ Up /\ Up' /\ UNCHANGED walVars /\ pending' = pending
      /\ reports' = reports /\ ingested' = ingested /\ unacked' = unacked
      /\ relayed' = relayed /\ ~FlushLocked /\ stage[f] = "idle"
    BY DEF TakePending, Up, linkVars, walVars
<1>2. /\ pending \in [Accounts -> Nat] /\ relayed \in [Accounts -> Nat] /\ FlushInv /\ FiniteInv
      /\ stage \in [Flushers -> Stages]
    BY DEF TypeOK, CoreInv
<1>3. FiniteInv' /\ Owed' = Owed
    BY <1>1, <1>2 DEF FiniteInv, Owed, Sent
<1>4. \A h \in Flushers : stage[h] # "taken" /\ stage[h] # "recorded" /\ ~Locks(h)
    BY <1>1 DEF FlushLocked, Locks
<1>5. "stop" \notin Faults => stage'["main"] = "idle"
    <2>1. f = "main" => "stop" \in Faults
        BY DEF TakePending, Fault
    <2>2. f # "main" => stage'["main"] = stage["main"]
        BY <1>2 DEF TakePending, Goto, Flushers
    <2> QED BY <1>2, <2>1, <2>2 DEF FlushInv
<1>6. \A a \in Accounts : Offered[a] = pending[a] /\ Volatile[a] = pending[a]
    <2> TAKE a \in Accounts
    <2>1. ~Recorded
        BY <1>4 DEF Recorded
    <2>2. Offered[a] = pending[a] /\ Volatile[a] = pending[a] - 0
        BY <1>4, <2>1 DEF Offered, Volatile
    <2> QED BY <1>2, <2>2
<1>7. CASE PendingCharges = {}
    <2>1. taken' = taken /\ stage' = [stage EXCEPT ![f] = "flushed"]
        BY <1>7 DEF TakePending, Goto
    <2>2. \A h \in Flushers : /\ stage'[h] = "taken" <=> stage[h] = "taken"
                              /\ stage'[h] = "recorded" <=> stage[h] = "recorded"
        BY <1>1, <1>2, <2>1
    <2>3. /\ Volatile' = Volatile /\ Offered' = Offered
          /\ \A h \in Flushers : Locks(h)' <=> Locks(h)
        BY <1>1, <2>1, <2>2, MetersKept
    <2>4. FlushInv'
        <3>1. \A a \in Accounts : pending[a] <= pending'[a]
            BY <1>1, <1>2
        <3> QED BY <1>2, <1>5, <2>1, <2>3, <3>1, SnapshotKept
    <2>5. \A a \in Accounts : /\ Offered[a] <= Offered'[a]
                              /\ Volatile'[a] + relayed[a] <= Volatile[a] + relayed'[a]
        <3> TAKE a \in Accounts
        <3>1. pending[a] \in Nat /\ relayed[a] \in Nat
            BY <1>2
        <3> QED BY <1>1, <1>6, <2>3, <3>1
    <2> QED BY <1>1, <1>3, <2>4, <2>5, QuietStep
<1>8. CASE PendingCharges # {}
    <2>1. /\ stage' = [stage EXCEPT ![f] = "taken"]
          /\ \E s \in [1..Cardinality(PendingCharges) -> PendingCharges] :
                IsPendingSnapshot(s) /\ taken' = s
        BY <1>8 DEF TakePending, Goto
    <2>2. PICK s \in [1..Cardinality(PendingCharges) -> PendingCharges] :
                IsPendingSnapshot(s) /\ taken' = s
        BY <2>1
    <2>3. /\ DOMAIN taken' = 1..Len(taken') /\ Len(taken') \in Nat
          /\ \A i \in 1..Len(taken') : taken'[i] \in Charges
        BY LenProperties, ElementOfSeq DEF TypeOK
    <2>4. /\ \A i \in 1..Len(taken') : pending[taken'[i].account] = taken'[i].bytes
          /\ \A i, j \in 1..Len(taken') : i < j => taken'[i].account < taken'[j].account
          /\ \A a \in Accounts : pending[a] > 0 => \E i \in 1..Len(taken') : taken'[i].account = a
        BY <2>2, <2>3 DEF IsPendingSnapshot
    <2>5. stage'[f] = "taken" /\ \A h \in Flushers : h # f => ~Locks(h)'
        BY <1>2, <1>4, <2>1 DEF Locks
    <2>6. taken' # <<>>
        <3> SUFFICES ASSUME taken' = <<>> PROVE FALSE
            OBVIOUS
        <3>1. Len(taken') = 0
            BY EmptySeq
        <3>2. \A a \in Accounts : ~(pending[a] > 0)
            BY <2>4, <3>1
        <3> QED BY <1>8, <3>2 DEF PendingCharges
    <2>7. FlushInv'
        <3>1. \A i \in 1..Len(taken') : taken'[i].bytes <= pending'[taken'[i].account]
            <4> TAKE i \in 1..Len(taken')
            <4>1. taken'[i].bytes \in Nat
                BY <2>3 DEF Charges
            <4> QED BY <1>1, <2>4, <4>1
        <3>2. \A g, h \in Flushers : Locks(g)' /\ Locks(h)' => g = h
            BY <2>5
        <3> QED BY <1>5, <2>4, <2>6, <3>1, <3>2 DEF FlushInv
    <2>8. \A a \in Accounts : TakenOf(a)' = pending[a]
        <3> TAKE a \in Accounts
        <3>1. CASE \E i \in 1..Len(taken') : taken'[i].account = a
            <4> DEFINE j == CHOOSE i \in 1..Len(taken') : taken'[i].account = a
            <4>1. j \in 1..Len(taken') /\ taken'[j].account = a
                BY <3>1
            <4>2. TakenOf(a)' = taken'[j].bytes
                BY <3>1 DEF TakenOf
            <4> HIDE DEF j
            <4> QED BY <2>4, <4>1, <4>2
        <3>2. CASE ~ \E i \in 1..Len(taken') : taken'[i].account = a
            <4>1. TakenOf(a)' = 0
                BY <3>2 DEF TakenOf
            <4>2. ~(pending[a] > 0) /\ pending[a] \in Nat
                BY <1>2, <2>4, <3>2
            <4> QED BY <4>1, <4>2
        <3> QED BY <3>1, <3>2
    <2>9. \A a \in Accounts : Offered'[a] = pending[a] /\ Volatile'[a] = pending[a]
        <3> TAKE a \in Accounts
        <3>1. ~Recorded'
            BY <1>2, <1>4, <2>1 DEF Recorded
        <3>2. \E h \in Flushers : stage'[h] = "taken"
            BY <2>5
        <3>3. Offered'[a] = TakenOf(a)'
            BY <3>2 DEF Offered
        <3>4. Volatile'[a] = pending'[a] - 0
            BY <3>1 DEF Volatile
        <3> QED BY <1>1, <1>2, <2>8, <3>3, <3>4
    <2>10. \A a \in Accounts : /\ Offered[a] <= Offered'[a]
                               /\ Volatile'[a] + relayed[a] <= Volatile[a] + relayed'[a]
        <3> TAKE a \in Accounts
        <3>1. pending[a] \in Nat /\ relayed[a] \in Nat
            BY <1>2
        <3> QED BY <1>1, <1>6, <2>9, <3>1
    <2> QED BY <1>1, <1>3, <2>7, <2>10, QuietStep
<1> QED
    BY <1>7, <1>8

LEMMA SubtractTakenCore ==
    ASSUME TypeOK, TypeOK', CoreInv, NEW f \in Flushers, SubtractTaken(f)
    PROVE  CoreInv'
<1>1. /\ UNCHANGED walVars /\ UNCHANGED process
      /\ reports' = reports /\ ingested' = ingested /\ unacked' = unacked
      /\ relayed' = relayed /\ stage[f] = "recorded" /\ stage' = [stage EXCEPT ![f] = "flushed"]
      /\ pending' = [a \in Accounts |->
                        IF pending[a] < TakenOf(a) THEN 0 ELSE pending[a] - TakenOf(a)]
    BY DEF SubtractTaken, linkVars, walVars, Goto
<1>2. /\ pending \in [Accounts -> Nat] /\ relayed \in [Accounts -> Nat] /\ FlushInv /\ FiniteInv
      /\ stage \in [Flushers -> Stages]
    BY DEF TypeOK, CoreInv
<1>3. Up /\ Up'
    <2>1. Up
        BY <1>1, UpWhenBusy
    <2> QED BY <1>1, <2>1 DEF Up
<1>4. FiniteInv' /\ Owed' = Owed
    BY <1>1, <1>2 DEF FiniteInv, Owed, Sent
<1>5. Locks(f) /\ \A h \in Flushers : h # f => ~Locks(h)
    BY <1>1, <1>2 DEF FlushInv, Locks
<1>6. \A h \in Flushers : ~Locks(h)'
    BY <1>1, <1>2, <1>5 DEF Locks
<1>7. FlushInv'
    <2>1. "stop" \notin Faults => stage'["main"] = "idle"
        BY <1>1, <1>2 DEF FlushInv
    <2> QED BY <1>6, <2>1 DEF FlushInv
<1>8. ~(\E h \in Flushers : stage[h] = "taken") /\ Recorded
    BY <1>1, <1>5 DEF Locks, Recorded
<1>9. ~(\E h \in Flushers : stage'[h] = "taken") /\ ~Recorded'
    BY <1>6 DEF Locks, Recorded
<1>10. \A a \in Accounts : /\ Offered[a] <= Offered'[a]
                           /\ Volatile'[a] + relayed[a] <= Volatile[a] + relayed'[a]
    <2> TAKE a \in Accounts
    <2>1. /\ pending[a] \in Nat /\ relayed[a] \in Nat /\ TakenOf(a) \in Nat
          /\ TakenOf(a) <= pending[a]
        BY <1>2, <1>5, TakenFigures
    <2>2. Offered[a] = 0 /\ Volatile[a] = pending[a] - TakenOf(a)
        BY <1>8 DEF Offered, Volatile
    <2>3. Offered'[a] = pending'[a] /\ Volatile'[a] = pending'[a] - 0
        BY <1>9 DEF Offered, Volatile
    <2>4. pending'[a] = pending[a] - TakenOf(a)
        BY <1>1, <2>1
    <2> QED BY <1>1, <2>1, <2>2, <2>3, <2>4
<1> QED
    BY <1>1, <1>3, <1>4, <1>7, <1>10, QuietStep

(* Steps that leave the flushes alone. *)
LEMMA IdleStep ==
    ASSUME TypeOK, TypeOK', CoreInv, UNCHANGED <<walVars, pending, taken, relayed>>,
           Up' <=> Up, ~Up => DownInv',
           \A f \in Flushers : /\ stage'[f] = "taken" <=> stage[f] = "taken"
                               /\ stage'[f] = "recorded" <=> stage[f] = "recorded",
           stage'["main"] = stage["main"],
           FiniteInv', Owed' \subseteq Owed
    PROVE  CoreInv'
<1>1. /\ pending \in [Accounts -> Nat] /\ relayed \in [Accounts -> Nat]
      /\ FlushInv /\ FiniteInv
    BY DEF TypeOK, CoreInv
<1>2. /\ Volatile' = Volatile /\ Offered' = Offered
      /\ \A f \in Flushers : Locks(f)' <=> Locks(f)
    BY MetersKept
<1>3. FlushInv'
    <2>1. \A a \in Accounts : pending[a] <= pending'[a]
        BY <1>1
    <2>2. "stop" \notin Faults => stage'["main"] = "idle"
        BY <1>1 DEF FlushInv
    <2> QED BY <1>1, <1>2, <2>1, <2>2, SnapshotKept
<1>4. \A a \in Accounts : /\ Offered[a] <= Offered'[a]
                          /\ Volatile'[a] + relayed[a] <= Volatile[a] + relayed'[a]
    <2> TAKE a \in Accounts
    <2>1. Offered[a] \in Nat /\ Volatile[a] \in Nat /\ relayed[a] \in Nat
        BY <1>1, Figures DEF MetersOK
    <2> QED BY <1>2, <2>1
<1> QED
    BY <1>3, <1>4, QuietStep

LEMMA SendReportCore ==
    ASSUME TypeOK, TypeOK', CoreInv, SendReport
    PROVE  CoreInv'
<1>1. /\ UNCHANGED <<walVars, pending, taken, relayed>> /\ process' = process
      /\ stage["control"] = "flushed" /\ stage' = [stage EXCEPT !["control"] = "idle"]
      /\ ingested' = ingested /\ unacked' = unacked
      /\ reports' = reports \/ reports' = Append(reports, Batch(MaxItems))
    BY DEF SendReport, Goto, walVars
<1>2. stage \in [Flushers -> Stages] /\ reports \in Seq(SUBSET Items) /\ FiniteInv
    BY DEF TypeOK, CoreInv
<1>3. Up /\ Up'
    <2>1. Up
        BY <1>1, UpWhenBusy DEF Flushers
    <2> QED BY <1>1, <2>1 DEF Up
<1>4. /\ stage'["main"] = stage["main"]
      /\ \A f \in Flushers : /\ stage'[f] = "taken" <=> stage[f] = "taken"
                             /\ stage'[f] = "recorded" <=> stage[f] = "recorded"
    BY <1>1, <1>2 DEF Flushers
<1>5. FiniteInv' /\ Owed' \subseteq Owed
    <2>1. CASE reports' = reports
        BY <1>1, <1>2, <2>1 DEF FiniteInv, Owed, Sent
    <2>2. CASE reports' = Append(reports, Batch(MaxItems))
        <3>1. Batch(MaxItems) \in SUBSET unacked
            BY DEF Batch
        <3>2. IsFiniteSet(Batch(MaxItems)) /\ Batch(MaxItems) \in SUBSET Items
            BY <3>1, FS_Subset DEF TypeOK, WalTypeOK
        <3>3. /\ Len(reports') = Len(reports) + 1
              /\ \A i \in 1..Len(reports) : reports'[i] = reports[i]
              /\ reports'[Len(reports) + 1] = Batch(MaxItems)
            BY <1>2, <2>2, <3>2, AppendProperties
        <3>4. Len(reports) \in Nat
            BY <1>2, LenProperties
        <3>5. \A i \in 1..Len(reports') : i \in 1..Len(reports) \/ i = Len(reports) + 1
            BY <3>3, <3>4
        <3>6. Sent' \subseteq Sent \cup unacked
            BY <3>1, <3>3, <3>5 DEF Sent
        <3>7. FiniteInv'
            BY <1>1, <1>2, <3>2, <3>3, <3>5 DEF FiniteInv
        <3> QED BY <1>1, <3>6, <3>7 DEF Owed
    <2> QED BY <1>1, <2>1, <2>2
<1> QED
    BY <1>1, <1>3, <1>4, <1>5, IdleStep

LEMMA PlatformIngestsCore ==
    ASSUME TypeOK, TypeOK', CoreInv, PlatformIngests
    PROVE  CoreInv'
<1>1. /\ UNCHANGED <<walVars, pending, taken, relayed>> /\ process' = process
      /\ stage' = stage /\ unacked' = unacked
      /\ reports # <<>> /\ reports' = Tail(reports)
      /\ ingested \subseteq ingested' /\ ingested' \subseteq ingested \cup Head(reports)
    BY DEF PlatformIngests, flushVars, walVars
<1>2. reports \in Seq(SUBSET Items) /\ FiniteInv
    BY DEF TypeOK, CoreInv
<1>3. Up /\ Up'
    <2>1. Up
        BY <1>1, UpWhenBusy
    <2> QED BY <1>1, <2>1 DEF Up
<1>4. /\ Len(reports) \in Nat /\ Len(reports) # 0 /\ 1 \in 1..Len(reports)
      /\ Head(reports) = reports[1]
    BY <1>1, <1>2, LenProperties, EmptySeq
<1>5. /\ Len(Tail(reports)) = Len(reports) - 1
      /\ \A i \in 1..Len(Tail(reports)) : /\ i + 1 \in 1..Len(reports)
                                          /\ Tail(reports)[i] = reports[i + 1]
    <2>1. /\ Len(Tail(reports)) = Len(reports) - 1
          /\ \A i \in 1..Len(Tail(reports)) : Tail(reports)[i] = reports[i + 1]
        BY <1>1, <1>2, HeadTailProperties
    <2> QED BY <1>4, <2>1
<1>6. FiniteInv'
    <2>1. IsFiniteSet(ingested \cup Head(reports))
        BY <1>2, <1>4, FS_Union DEF FiniteInv
    <2>2. IsFiniteSet(ingested')
        BY <1>1, <2>1, FS_Subset
    <2> QED BY <1>1, <1>2, <1>5, <2>2 DEF FiniteInv
<1>7. Owed' \subseteq Owed
    <2>1. Sent' \subseteq Sent
        BY <1>1, <1>5 DEF Sent
    <2>2. Head(reports) \subseteq Sent
        BY <1>4 DEF Sent
    <2> QED BY <1>1, <2>1, <2>2 DEF Owed
<1> QED
    BY <1>1, <1>3, <1>6, <1>7, IdleStep

LEMMA ConnectCore ==
    ASSUME TypeOK, TypeOK', CoreInv, Connect
    PROVE  CoreInv'
<1>1. /\ UNCHANGED <<walVars, pending, taken, relayed>> /\ process' = process
      /\ stage' = stage /\ reports' = reports /\ ingested' = ingested /\ unacked' = unacked
      /\ Up /\ Up'
    BY DEF Connect, flushVars, walVars, Up
<1>2. FiniteInv' /\ Owed' = Owed
    BY <1>1 DEF CoreInv, FiniteInv, Owed, Sent
<1> QED
    BY <1>1, <1>2, IdleStep

LEMMA LinkBreaksCore ==
    ASSUME TypeOK, TypeOK', CoreInv, LinkBreaks
    PROVE  CoreInv'
<1>1. /\ UNCHANGED <<walVars, pending, taken, relayed>> /\ process' = process
      /\ stage' = stage /\ Unlink /\ ingested' = ingested /\ unacked' = unacked
    BY DEF LinkBreaks, flushVars, walVars
<1>2. FiniteInv' /\ Owed' \subseteq Owed
    BY <1>1, UnlinkedOwed DEF CoreInv
<1>3. (Up' <=> Up) /\ (~Up => DownInv')
    BY <1>1 DEF CoreInv, DownInv, Up, Unlink
<1> QED
    BY <1>1, <1>2, <1>3, IdleStep

LEMMA RestartRefusedCore ==
    ASSUME TypeOK, TypeOK', CoreInv, RestartRefused
    PROVE  CoreInv'
<1>1. /\ UNCHANGED <<walVars, pending, taken, relayed>> /\ ~Up /\ ~Up'
      /\ stage' = stage /\ reports' = reports /\ ingested' = ingested /\ unacked' = unacked
    BY DEF RestartRefused, flushVars, linkVars, walVars, Up
<1>2. FiniteInv' /\ Owed' = Owed /\ DownInv'
    BY <1>1 DEF CoreInv, FiniteInv, Owed, Sent, DownInv
<1> QED
    BY <1>1, <1>2, IdleStep

-----------------------------------------------------------------------------
(* Steps that write the log. *)

LEMMA NoBlankConcat ==
    ASSUME NEW f \in Seq(Tokens), NEW g \in Seq(Tokens), NoBlank(f), NoBlank(g)
    PROVE  NoBlank(f \o g)
<1>1. Len(f) \in Nat /\ Len(g) \in Nat
    BY LenProperties
<1>2. /\ Len(f \o g) = Len(f) + Len(g)
      /\ \A i \in 1..(Len(f) + Len(g)) :
            (f \o g)[i] = IF i <= Len(f) THEN f[i] ELSE g[i - Len(f)]
    BY ConcatProperties
<1>3. ASSUME NEW i \in 1..(Len(f) + Len(g)), (f \o g)[i] = Newline
      PROVE  i > 1 /\ (f \o g)[i - 1] # Newline
    <2>1. CASE i <= Len(f)
        <3>1. i \in 1..Len(f) /\ f[i] = Newline
            BY <1>1, <1>2, <1>3, <2>1
        <3>2. i > 1 /\ f[i - 1] # Newline
            BY <3>1 DEF NoBlank
        <3>3. i - 1 \in 1..(Len(f) + Len(g)) /\ i - 1 <= Len(f)
            BY <1>1, <3>1, <3>2
        <3> QED BY <1>2, <3>2, <3>3
    <2>2. CASE ~(i <= Len(f))
        <3>1. i - Len(f) \in 1..Len(g) /\ g[i - Len(f)] = Newline
            BY <1>1, <1>2, <1>3, <2>2
        <3>2. i - Len(f) > 1 /\ g[i - Len(f) - 1] # Newline
            BY <3>1 DEF NoBlank
        <3>3. /\ i - 1 \in 1..(Len(f) + Len(g)) /\ ~(i - 1 <= Len(f)) /\ i > 1
              /\ (i - 1) - Len(f) = i - Len(f) - 1
            BY <1>1, <3>1, <3>2
        <3> QED BY <1>2, <3>2, <3>3
    <2> QED BY <2>1, <2>2
<1> QED
    BY <1>2, <1>3 DEF NoBlank

LEMMA NoBlankPrefix ==
    ASSUME NEW f \in Seq(Tokens), NoBlank(f), NEW n \in 0..Len(f)
    PROVE  NoBlank(SubSeq(f, 1, n)) /\ NoBlank(Append(SubSeq(f, 1, n), Part))
<1>1. Len(f) \in Nat /\ n \in Nat /\ n <= Len(f)
    BY LenProperties
<1> DEFINE p == SubSeq(f, 1, n)
<1>2. p \in Seq(Tokens) /\ Len(p) = n /\ \A i \in 1..n : p[i] = f[i]
    BY PrefixShape
<1> HIDE DEF p
<1>3. NoBlank(p)
    <2> SUFFICES ASSUME NEW i \in 1..n, p[i] = Newline PROVE i > 1 /\ p[i - 1] # Newline
        BY <1>2 DEF NoBlank
    <2>1. i \in 1..Len(f) /\ f[i] = Newline
        BY <1>1, <1>2
    <2>2. i > 1 /\ f[i - 1] # Newline
        BY <2>1 DEF NoBlank
    <2>3. i - 1 \in 1..n
        BY <1>1, <2>2
    <2> QED BY <1>2, <2>2, <2>3
<1>4. NoBlank(<<Part>>)
    BY DEF NoBlank, Part, Newline
<1>5. Append(p, Part) = p \o <<Part>> /\ <<Part>> \in Seq(Tokens)
    BY <1>2, TokenTypes
<1>6. NoBlank(Append(p, Part))
    BY <1>2, <1>3, <1>4, <1>5, NoBlankConcat
<1> QED
    BY <1>3, <1>6 DEF p

LEMMA NoBlankFragment ==
    ASSUME NEW tokens \in Seq(Tokens), WellFormed(tokens),
           NEW torn, NEW got \in Fragments(tokens, torn)
    PROVE  NoBlank(got)
<1>1. NoBlank(tokens) /\ Len(tokens) \in Nat
    BY WellFormedWhole, LenProperties
<1>2. \E n \in 0..Len(tokens) : got = SubSeq(tokens, 1, n) \/ got = Append(SubSeq(tokens, 1, n), Part)
    <2>1. \A n \in 0..(Len(tokens) - 1) : n \in 0..Len(tokens)
        BY <1>1
    <2> QED BY <2>1, Zenon DEF Fragments
<1> QED
    BY <1>1, <1>2, NoBlankPrefix

LEMMA AppendedFile ==
    ASSUME TypeOK, CoreInv, Up, Up', NEW tokens \in Seq(Tokens), WellFormed(tokens),
           tokens # <<>>, Appended(tokens)
    PROVE  /\ FileInv' /\ attached' = attached
           /\ attached => file' = file \o tokens /\ synced' = Len(file \o tokens)
           /\ ~attached => file' = file /\ synced' = synced
<1>1. /\ file \in Seq(Tokens) /\ FileInv /\ NoBlank(tokens)
      /\ Len(file) \in Nat /\ Len(tokens) \in Nat
      /\ Len(tokens) \in 1..Len(tokens) /\ tokens[Len(tokens)] = Newline
    BY WellFormedWhole, WellFormedEnd, LenProperties DEF TypeOK, WalTypeOK, CoreInv
<1>2. CASE attached
    <2>1. file' = file \o tokens /\ synced' = Len(file \o tokens) /\ attached' = attached
        BY <1>2 DEF Appended
    <2>2. NoBlank(file \o tokens)
        BY <1>1, NoBlankConcat DEF FileInv
    <2>3. (file \o tokens)[Len(file \o tokens)] = Newline
        <3>1. /\ Len(file \o tokens) = Len(file) + Len(tokens)
              /\ \A i \in 1..(Len(file) + Len(tokens)) : (file \o tokens)[i] =
                    IF i <= Len(file) THEN file[i] ELSE tokens[i - Len(file)]
            BY <1>1, ConcatProperties
        <3>2. /\ Len(file) + Len(tokens) \in 1..(Len(file) + Len(tokens))
              /\ ~(Len(file) + Len(tokens) <= Len(file))
              /\ (Len(file) + Len(tokens)) - Len(file) = Len(tokens)
            BY <1>1
        <3> QED BY <1>1, <3>1, <3>2
    <2> QED BY <1>2, <2>1, <2>2, <2>3 DEF FileInv
<1>3. CASE ~attached
    <2>1. file' = file /\ synced' = synced /\ attached' = attached
        BY <1>3 DEF Appended
    <2> QED BY <1>1, <1>3, <2>1 DEF FileInv
<1> QED
    BY <1>2, <1>3

LEMMA FailedFile ==
    ASSUME TypeOK, CoreInv, Up, Up', NEW tokens \in Seq(Tokens), WellFormed(tokens),
           NEW torn, AppendFailed(tokens, torn)
    PROVE  /\ FileInv' /\ attached' = attached /\ synced' = synced /\ UNCHANGED memoryVars
           /\ ~attached => file' = file
           /\ \A g \in Views' :
                 \/ g \in Views
                 \/ /\ attached /\ file \in Views
                    /\ \E h \in Between(tokens) : g = file \o h
<1>1. /\ file \in Seq(Tokens) /\ FileInv /\ Len(file) \in Nat /\ synced \in 0..Len(file)
    BY LenProperties DEF TypeOK, WalTypeOK, CoreInv
<1>2. /\ attached' = attached /\ synced' = synced /\ UNCHANGED memoryVars
    BY DEF AppendFailed
<1>3. PICK got \in Fragments(tokens, torn) : file' = IF attached THEN file \o got ELSE file
    BY DEF AppendFailed
<1>4. CASE attached
    <2>1. file' = file \o got /\ got \in Seq(Tokens) /\ NoBlank(got) /\ Len(got) \in Nat
        BY <1>3, <1>4, FragmentTypes, NoBlankFragment, LenProperties
    <2>2. NoBlank(file \o got)
        BY <1>1, <2>1, NoBlankConcat DEF FileInv
    <2>3. synced > 0 => (file \o got)[synced] = file[synced]
        <3>1. \A i \in 1..(Len(file) + Len(got)) : (file \o got)[i] =
                    IF i <= Len(file) THEN file[i] ELSE got[i - Len(file)]
            BY <1>1, <2>1, ConcatProperties
        <3>2. synced > 0 => synced \in 1..(Len(file) + Len(got)) /\ synced <= Len(file)
            BY <1>1, <2>1
        <3> QED BY <3>1, <3>2
    <2>4. FileInv'
        BY <1>1, <1>2, <2>1, <2>2, <2>3 DEF FileInv
    <2>5. ASSUME NEW g \in Views'
          PROVE  \/ g \in Views
                 \/ file \in Views /\ \E h \in Between(tokens) : g = file \o h
        <3>1. g \in ViewsOf(file \o got, synced)
            BY <1>2, <2>1 DEF Views
        <3>2. \/ g \in ViewsOf(file, synced)
              \/ /\ file \in ViewsOf(file, synced)
                 /\ \E h \in Between(tokens) : g = file \o h
            BY <1>1, <1>3, <3>1, FailedViews
        <3> QED BY <3>2 DEF Views
    <2> QED BY <1>2, <1>4, <2>4, <2>5
<1>5. CASE ~attached
    <2>1. file' = file
        BY <1>3, <1>5
    <2>2. FileInv' /\ Views' = Views
        BY <1>1, <1>2, <2>1 DEF FileInv, Views
    <2> QED BY <1>2, <1>5, <2>1, <2>2
<1> QED
    BY <1>4, <1>5

(* Views of a log that was not changed. *)
LEMMA FileKept ==
    ASSUME UNCHANGED <<file, synced>>
    PROVE  Views' = Views
BY DEF Views

LEMMA RecordTakenCore ==
    ASSUME TypeOK, TypeOK', CoreInv, NEW f \in Flushers, RecordTaken(f)
    PROVE  CoreInv'
<1> DEFINE lines == UsageLines(taken)
           n == Len(taken)
           new == Fresh(taken, n)
<1>1. /\ stage[f] = "taken" /\ stage' = [stage EXCEPT ![f] = "recorded"]
      /\ RecordItems(taken) /\ UNCHANGED <<process, pending, taken, reports, ingested, relayed>>
    BY DEF RecordTaken, Goto, linkVars
<1>2. /\ pending \in [Accounts -> Nat] /\ relayed \in [Accounts -> Nat] /\ FlushInv /\ FiniteInv
      /\ stage \in [Flushers -> Stages] /\ taken \in Seq(Charges) /\ nextSeq \in Nat \ {0}
      /\ file \in Seq(Tokens) /\ unacked \subseteq Items /\ ackThrough \in Nat
    BY DEF TypeOK, WalTypeOK, CoreInv
<1>3. Up /\ Up' /\ MemoryInv /\ TailInv
    <2>1. Up
        BY <1>1, UpWhenBusy
    <2> QED BY <1>1, <2>1 DEF Up, CoreInv
<1>4. Locks(f) /\ \A h \in Flushers : h # f => ~Locks(h)
    BY <1>1, <1>2 DEF FlushInv, Locks
<1>5. n \in Nat /\ n > 0 /\ n \in 0..n /\ nextSeq \in Nat
    <2>1. taken # <<>>
        BY <1>2, <1>4 DEF FlushInv
    <2>2. n \in Nat /\ n # 0
        BY <1>2, <2>1, LenProperties, EmptySeq
    <2> QED BY <1>2, <2>2
<1>6. /\ lines \in Seq(Tokens) /\ WellFormed(lines) /\ Len(lines) = 2 * n /\ lines # <<>>
    <2>1. /\ lines \in Seq(Tokens) /\ WellFormed(lines) /\ Len(lines) = 2 * n
        BY <1>2, UsageLinesShape
    <2>2. Len(lines) # 0
        BY <1>5, <2>1
    <2> QED BY <2>1, <2>2, EmptySeq
<1>7. /\ Appended(lines) /\ nextSeq' = nextSeq + n /\ ackThrough' = ackThrough
      /\ unacked' = {u \in unacked : \A v \in new : u.seq # v.seq} \cup new
    BY <1>1 DEF RecordItems, Fresh
<1>8. /\ new \subseteq Items /\ IsFiniteSet(new)
      /\ \A i \in 1..n : Numbered(taken)[i].seq = nextSeq + i - 1
      /\ \A u \in new : nextSeq <= u.seq /\ u.seq < nextSeq + n
    BY <1>2, <1>5, FreshTypes
<1>9. \A u, v \in new : u.seq = v.seq => u = v
    <2> SUFFICES ASSUME NEW u \in new, NEW v \in new, u.seq = v.seq PROVE u = v
        OBVIOUS
    <2>1. PICK i \in 1..n : u = Numbered(taken)[i]
        BY DEF Fresh
    <2>2. PICK j \in 1..n : v = Numbered(taken)[j]
        BY DEF Fresh
    <2>3. nextSeq + i - 1 = nextSeq + j - 1
        BY <1>8, <2>1, <2>2
    <2>4. i = j
        BY <1>5, <2>3
    <2> QED BY <2>1, <2>2, <2>4
<1> HIDE DEF lines, n, new
<1>10. /\ FileInv' /\ attached' = attached
       /\ attached => file' = file \o lines /\ synced' = Len(file \o lines)
       /\ ~attached => file' = file /\ synced' = synced
    BY <1>3, <1>6, <1>7, AppendedFile
<1>11. MemoryInv'
    <2>1. \A u \in unacked : u.seq \in Nat /\ ackThrough < u.seq /\ u.seq < nextSeq
        BY <1>2, <1>3 DEF MemoryInv, Items
    <2>2. \A u \in new : u.seq \in Nat
        BY <1>8 DEF Items
    <2>3. ackThrough < nextSeq
        BY <1>3 DEF MemoryInv
    <2>4. \A u \in unacked' : ackThrough < u.seq /\ u.seq < nextSeq + n
        BY <1>2, <1>5, <1>7, <1>8, <2>1, <2>2, <2>3
    <2>5. \A u, v \in unacked' : u.seq = v.seq => u = v
        BY <1>3, <1>7, <1>9 DEF MemoryInv
    <2>6. ackThrough < nextSeq + n
        BY <1>2, <1>5, <2>3
    <2> QED BY <1>7, <2>4, <2>5, <2>6 DEF MemoryInv
<1>12. FlushInv'
    <2>1. \A h \in Flushers : Locks(h)' <=> Locks(h)
        BY <1>1, <1>2 DEF Locks
    <2>2. \A a \in Accounts : pending[a] <= pending'[a]
        BY <1>1, <1>2
    <2>3. "stop" \notin Faults => stage'["main"] = "idle"
        BY <1>1, <1>2 DEF FlushInv
    <2> QED BY <1>1, <1>2, <2>1, <2>2, <2>3, SnapshotKept
<1>13. FiniteInv' /\ Owed' \subseteq Owed \cup new
    BY <1>1, <1>2, <1>7 DEF FiniteInv, Owed, Sent
<1>14. ~Recorded /\ Recorded' /\ \A a : TakenOf(a)' = TakenOf(a)
    BY <1>1, <1>2, <1>4 DEF Recorded, Locks, TakenOf
<1>15. Offered = Snapshot
    BY <1>1 DEF Offered, Snapshot
<1>16. \A a \in Accounts :
           Total(new, a) + Volatile'[a] + relayed[a] <= Volatile[a] + relayed'[a]
    <2> TAKE a \in Accounts
    <2>1. /\ pending[a] \in Nat /\ relayed[a] \in Nat /\ TakenOf(a) \in Nat
          /\ TakenOf(a) <= pending[a]
        BY <1>2, <1>4, TakenFigures
    <2>2. Total(new, a) <= TakenOf(a) /\ Total(new, a) \in Nat
        <3>1. new = Fresh(taken, Len(taken))
            BY DEF new, n
        <3>2. Total(new, a) = TakenOf(a)
            BY <1>2, <1>4, <3>1, FreshTotal
        <3> QED BY <2>1, <3>2
    <2>3. Volatile[a] = pending[a] - 0
        BY <1>14 DEF Volatile
    <2>4. Volatile'[a] = pending[a] - TakenOf(a)
        BY <1>1, <1>14 DEF Volatile
    <2> QED BY <1>1, <2>1, <2>2, <2>3, <2>4
<1>17. ASSUME NEW g2 \in Views'
       PROVE  /\ \A u \in Entries(g2) : u.seq < nextSeq + n
              /\ \E g \in Views : Base(g2)' \subseteq Owed \cup Base(g) \cup new
    <2>1. CASE attached
        <3>1. file \in Views /\ g2 = file \o lines
            BY <1>2, <1>6, <1>10, <2>1, AppendedViews DEF Views
        <3>2. lines \in Between(lines)
            BY <1>6, CompleteFragment
        <3>3. PICK k \in 0..Len(taken) :
                  /\ Len(lines) = 2 * k
                  /\ Acks(file \o lines) = Acks(file)
                  /\ \A u \in Items : u \in Entries(file \o lines) <=>
                        \/ u \in Fresh(taken, k)
                        \/ u \in Entries(file) /\ ~(nextSeq <= u.seq /\ u.seq < nextSeq + k)
            BY <1>2, <3>2, OfferedLines DEF lines
        <3>4. k = n /\ k = Len(taken)
            BY <1>5, <1>6, <3>3 DEF n
        <3>5. Entries(file) \subseteq Items /\ Entries(file \o lines) \subseteq Items
            <4>1. file \o lines \in Seq(Tokens)
                BY <1>2, <1>6, ConcatProperties
            <4> QED BY <1>2, <4>1, EntryTypes
        <3>6. LeftoverOK(Entries(file), nextSeq, Snapshot)
            BY <1>3, <1>15, <3>1 DEF TailInv
        <3>7. \A u \in Entries(file \o lines) : u.seq < nextSeq + n
            <4> DEFINE A == Entries(file)
                       B == Entries(file \o lines)
            <4>1. /\ A \subseteq Items /\ B \subseteq Items /\ LeftoverOK(A, nextSeq, Snapshot)
                  /\ \A u \in Items : u \in B <=>
                        \/ u \in Fresh(taken, k)
                        \/ u \in A /\ ~(nextSeq <= u.seq /\ u.seq < nextSeq + k)
                BY <3>3, <3>5, <3>6
            <4> HIDE DEF A, B
            <4>2. \A u \in B : u.seq < nextSeq + Len(taken)
                BY <1>2, <1>4, <3>4, <4>1, LeftoverReplaced
            <4> QED BY <4>2 DEF B, n
        <3>8. Base(g2)' \subseteq Base(file) \cup new
            <4> SUFFICES ASSUME NEW u \in Base(g2)' PROVE u \in Base(file) \cup new
                OBVIOUS
            <4>1. u \in Entries(file \o lines) /\ (\A m \in Acks(file) : u.seq > m)
                BY <3>1, <3>3 DEF Base, Unpaid
            <4>2. u \in Items /\ u.seq \in Nat /\ u.seq < nextSeq + n
                BY <3>5, <3>7, <4>1 DEF Items
            <4>3. u \in new \/ (u \in Entries(file) /\ u.seq < nextSeq)
                BY <1>5, <3>3, <3>4, <4>1, <4>2 DEF new
            <4> QED BY <4>1, <4>3 DEF Base, Unpaid
        <3> QED BY <3>1, <3>7, <3>8
    <2>2. CASE ~attached
        <3>1. g2 \in Views
            BY <1>10, <2>2, FileKept
        <3>2. Leftover(Entries(g2), nextSeq) = {} /\ Entries(g2) \subseteq Items
            BY <1>2, <1>3, <2>2, <3>1, ViewTypes, EntryTypes DEF TailInv, Views
        <3>3. \A u \in Entries(g2) : u.seq \in Nat /\ u.seq < nextSeq /\ u.seq < nextSeq + n
            <4> TAKE u \in Entries(g2)
            <4>1. u.seq \in Nat /\ ~(u.seq >= nextSeq)
                BY <3>2 DEF Leftover, Items
            <4> QED BY <1>5, <4>1
        <3>4. Base(g2)' \subseteq Base(g2)
            BY <3>3 DEF Base, Unpaid
        <3> QED BY <3>1, <3>3, <3>4
    <2> QED BY <2>1, <2>2
<1>18. TailInv'
    <2> SUFFICES ASSUME NEW g2 \in Views'
                 PROVE  Leftover(Entries(g2), nextSeq + n) = {}
        BY <1>7 DEF TailInv, LeftoverOK
    <2>1. Entries(g2) \subseteq Items
        <3>1. file' \in Seq(Tokens)
            BY DEF TypeOK, WalTypeOK
        <3> QED BY <3>1, ViewTypes, EntryTypes DEF Views
    <2>2. \A u \in Entries(g2) : u.seq \in Nat /\ u.seq < nextSeq + n
        BY <1>17, <2>1 DEF Items
    <2>3. \A u \in Entries(g2) : ~(u.seq >= nextSeq + n)
        BY <1>5, <2>2
    <2> QED BY <2>3 DEF Leftover
<1>19. SumInv'
    BY <1>8, <1>12, <1>13, <1>16, <1>17, SumsKept
<1> QED
    BY <1>3, <1>10, <1>11, <1>12, <1>13, <1>18, <1>19 DEF CoreInv

LEMMA RecordTakenFailsCore ==
    ASSUME TypeOK, TypeOK', CoreInv, NEW f \in Flushers, RecordTakenFails(f)
    PROVE  CoreInv'
<1> DEFINE lines == UsageLines(taken)
<1>1. /\ stage[f] = "taken" /\ taken' = <<>>
      /\ stage' = [stage EXCEPT ![f] = "idle"] \/ stage' = [stage EXCEPT ![f] = "flushed"]
      /\ f = "control" => stage' = [stage EXCEPT ![f] = "idle"]
      /\ AppendFailed(lines, FALSE) \/ AppendFailed(lines, TRUE)
      /\ Unlink \/ UNCHANGED linkVars
      /\ UNCHANGED <<process, pending, ingested, relayed>>
    BY DEF RecordTakenFails, RecordItemsFails, Goto
<1>2. /\ pending \in [Accounts -> Nat] /\ relayed \in [Accounts -> Nat] /\ FlushInv /\ FiniteInv
      /\ stage \in [Flushers -> Stages] /\ taken \in Seq(Charges) /\ nextSeq \in Nat \ {0}
      /\ file \in Seq(Tokens) /\ file' \in Seq(Tokens) /\ nextSeq \in Nat
    BY DEF TypeOK, WalTypeOK, CoreInv
<1>3. Up /\ Up' /\ MemoryInv /\ TailInv
    <2>1. Up
        BY <1>1, UpWhenBusy
    <2> QED BY <1>1, <2>1 DEF Up, CoreInv
<1>4. Locks(f) /\ \A h \in Flushers : h # f => ~Locks(h)
    BY <1>1, <1>2 DEF FlushInv, Locks
<1>5. lines \in Seq(Tokens) /\ WellFormed(lines)
    BY <1>2, UsageLinesShape
<1> HIDE DEF lines
<1>6. /\ FileInv' /\ attached' = attached /\ synced' = synced /\ UNCHANGED memoryVars
      /\ ~attached => file' = file
      /\ \A g \in Views' :
            \/ g \in Views
            \/ attached /\ file \in Views /\ \E h \in Between(lines) : g = file \o h
    <2>1. CASE AppendFailed(lines, FALSE)
        BY <1>3, <1>5, <2>1, FailedFile
    <2>2. CASE AppendFailed(lines, TRUE)
        BY <1>3, <1>5, <2>2, FailedFile
    <2> QED BY <1>1, <2>1, <2>2
<1>7. nextSeq' = nextSeq /\ ackThrough' = ackThrough /\ unacked' = unacked /\ MemoryInv'
    BY <1>3, <1>6 DEF memoryVars, MemoryInv
<1>8. \A h \in Flushers : ~Locks(h)'
    BY <1>1, <1>2, <1>4 DEF Locks
<1>9. FlushInv'
    <2>1. f = "main" => "stop" \in Faults
        BY <1>1, <1>2 DEF FlushInv
    <2>2. f # "main" => stage'["main"] = stage["main"]
        BY <1>1, <1>2 DEF Flushers
    <2>3. "stop" \notin Faults => stage'["main"] = "idle"
        BY <1>2, <2>1, <2>2 DEF FlushInv
    <2> QED BY <1>8, <2>3 DEF FlushInv
<1>10. FiniteInv' /\ Owed' \subseteq Owed
    <2>1. CASE Unlink
        BY <1>1, <1>2, <1>7, <2>1, UnlinkedOwed
    <2>2. CASE UNCHANGED linkVars
        BY <1>1, <1>2, <1>7, <2>2 DEF FiniteInv, Owed, Sent, linkVars
    <2> QED BY <1>1, <2>1, <2>2
<1>11. Offered = Snapshot /\ ~Recorded
    BY <1>1, <1>4 DEF Offered, Snapshot, Recorded, Locks
<1>12. ~Recorded' /\ ~(\E h \in Flushers : stage'[h] = "taken")
    BY <1>8 DEF Recorded, Locks
<1>13. \A a \in Accounts : /\ Snapshot[a] <= Offered'[a]
                           /\ Volatile[a] = pending[a] /\ Volatile'[a] = pending[a]
    <2> TAKE a \in Accounts
    <2>1. /\ pending[a] \in Nat /\ TakenOf(a) \in Nat /\ TakenOf(a) <= pending[a]
        BY <1>2, <1>4, TakenFigures
    <2>2. Offered'[a] = pending[a] /\ Volatile'[a] = pending[a] - 0
        BY <1>1, <1>12 DEF Offered, Volatile
    <2>3. Volatile[a] = pending[a] - 0
        BY <1>11 DEF Volatile
    <2> QED BY <2>1, <2>2, <2>3 DEF Snapshot
<1>14. Snapshot \in [Accounts -> Nat] /\ Offered' \in [Accounts -> Nat]
    BY <1>2, <1>4, <1>9, TakenAccounts, FiguresNext DEF MetersOK
<1>15. ASSUME NEW g2 \in Views'
       PROVE  /\ LeftoverOK(Entries(g2), nextSeq, Snapshot)
              /\ ~attached => Leftover(Entries(g2), nextSeq) = {}
              /\ \E g \in Views : Base(g2)' \subseteq Base(g)
    <2>1. CASE g2 \in Views
        <3>1. Base(g2)' = Base(g2)
            BY <1>3, <1>7 DEF Base
        <3> QED BY <1>3, <1>11, <2>1, <3>1 DEF TailInv
    <2>2. ASSUME attached, file \in Views, NEW h \in Between(lines), g2 = file \o h
          PROVE  /\ LeftoverOK(Entries(g2), nextSeq, Snapshot)
                 /\ Base(g2)' \subseteq Base(file)
        <3>1. PICK k \in 0..Len(taken) :
                  /\ Acks(file \o h) = Acks(file)
                  /\ \A u \in Items : u \in Entries(file \o h) <=>
                        \/ u \in Fresh(taken, k)
                        \/ u \in Entries(file) /\ ~(nextSeq <= u.seq /\ u.seq < nextSeq + k)
            BY <1>2, <2>2, OfferedLines DEF lines
        <3> DEFINE A == Entries(file)
                   B == Entries(g2)
        <3>2. /\ A \subseteq Items /\ B \subseteq Items /\ LeftoverOK(A, nextSeq, Snapshot)
            <4>1. g2 \in Seq(Tokens)
                BY <1>2, ViewTypes DEF Views
            <4> QED BY <1>2, <1>3, <1>11, <2>2, <4>1, EntryTypes DEF TailInv
        <3>3. \A u \in Items : u \in B <=>
                  \/ u \in Fresh(taken, k)
                  \/ u \in A /\ ~(nextSeq <= u.seq /\ u.seq < nextSeq + k)
            BY <2>2, <3>1
        <3>4. \A u \in Fresh(taken, k) : nextSeq <= u.seq
            BY <1>2, FreshTypes
        <3> HIDE DEF A, B
        <3>5. LeftoverOK(B, nextSeq, Snapshot)
            BY <1>2, <1>4, <3>2, <3>3, LeftoverReplaced
        <3>6. ASSUME NEW u \in Base(g2)' PROVE u \in Base(file)
            <4>1. u \in B /\ (\A m \in Acks(file) : u.seq > m) /\ u.seq < nextSeq
                BY <1>3, <1>7, <2>2, <3>1, <3>6 DEF Base, Unpaid, B
            <4>2. u \in Items /\ u.seq \in Nat
                BY <3>2, <4>1 DEF Items
            <4>3. u \in A
                BY <1>2, <3>3, <3>4, <4>1, <4>2
            <4> QED BY <4>1, <4>3 DEF Base, Unpaid, A
        <3> QED BY <3>5, <3>6 DEF B
    <2> QED BY <1>6, <2>1, <2>2
<1>16. TailInv'
    <2> SUFFICES ASSUME NEW g2 \in Views'
                 PROVE  /\ LeftoverOK(Entries(g2), nextSeq, Offered')
                        /\ ~attached => Leftover(Entries(g2), nextSeq) = {}
        BY <1>6, <1>7 DEF TailInv
    <2>1. Entries(g2) \subseteq Items
        BY <1>2, ViewTypes, EntryTypes DEF Views
    <2> QED BY <1>2, <1>13, <1>14, <1>15, <2>1, LeftoverGrows
<1>17. SumInv'
    <2>1. \A a \in Accounts :
              Total({}, a) + Volatile'[a] + relayed[a] <= Volatile[a] + relayed'[a]
        <3> TAKE a \in Accounts
        <3>1. Total({}, a) = 0
            BY TotalEmpty
        <3>2. pending[a] \in Nat /\ relayed[a] \in Nat
            BY <1>2
        <3> QED BY <1>1, <1>13, <3>1, <3>2
    <2>2. {} \subseteq Items /\ IsFiniteSet({})
        BY FS_EmptySet
    <2>3. \A g2 \in Views' : \E g \in Views : Base(g2)' \subseteq Owed \cup Base(g) \cup {}
        BY <1>15
    <2> QED BY <1>9, <1>10, <2>1, <2>2, <2>3, SumsKept
<1> QED
    BY <1>3, <1>6, <1>7, <1>9, <1>10, <1>16, <1>17 DEF CoreInv

(* What is answered was numbered. *)
LEMMA AvailableBound ==
    ASSUME TypeOK, MemoryInv, NEW n \in Nat, Available(n)
    PROVE  n < nextSeq
<1>1. PICK t \in {ackThrough} \cup {u.seq : u \in Batch(MaxItems)} : n <= t
    BY DEF Available
<1>2. t \in Nat /\ t < nextSeq /\ nextSeq \in Nat
    <2>1. /\ ackThrough \in Nat /\ nextSeq \in Nat /\ ackThrough < nextSeq
          /\ \A u \in unacked : u \in Items /\ u.seq < nextSeq
        BY DEF TypeOK, WalTypeOK, MemoryInv
    <2>2. \A u \in Batch(MaxItems) : u.seq \in Nat /\ u.seq < nextSeq
        BY <2>1 DEF Batch, Items
    <2> QED BY <2>1, <2>2
<1> QED
    BY <1>1, <1>2

(* Steps of a running process that leave the items of the log as they are, *)
(* if they do not replace it by what is in memory.                         *)
LEMMA AckStep ==
    ASSUME TypeOK, TypeOK', CoreInv, Up, Up', FileInv', MemoryInv', FiniteInv',
           UNCHANGED <<pending, taken, relayed, ingested, nextSeq>>,
           \A f \in Flushers : /\ stage'[f] = "taken" <=> stage[f] = "taken"
                               /\ stage'[f] = "recorded" <=> stage[f] = "recorded",
           stage'["main"] = stage["main"],
           Owed' \subseteq Owed,
           \A g2 \in Views' :
              \/ Entries(g2) \subseteq unacked'
              \/ /\ attached' = attached
                 /\ \E g \in Views : Entries(g2) = Entries(g) /\ Acks(g) \subseteq Acks(g2)
    PROVE  CoreInv'
<1>1. /\ pending \in [Accounts -> Nat] /\ relayed \in [Accounts -> Nat]
      /\ FlushInv /\ FiniteInv /\ TailInv
      /\ nextSeq \in Nat /\ file' \in Seq(Tokens) /\ unacked' \subseteq Items
    BY DEF TypeOK, WalTypeOK, CoreInv
<1>2. /\ Volatile' = Volatile /\ Offered' = Offered
      /\ \A f \in Flushers : Locks(f)' <=> Locks(f)
    BY MetersKept
<1>3. FlushInv'
    <2>1. \A a \in Accounts : pending[a] <= pending'[a]
        BY <1>1
    <2>2. "stop" \notin Faults => stage'["main"] = "idle"
        BY <1>1 DEF FlushInv
    <2> QED BY <1>1, <1>2, <2>1, <2>2, SnapshotKept
<1>4. ASSUME NEW g2 \in Views', Entries(g2) \subseteq unacked'
      PROVE  /\ Leftover(Entries(g2), nextSeq) = {}
             /\ Base(g2)' \subseteq Owed
    <2>1. \A u \in unacked' : u.seq \in Nat /\ u.seq < nextSeq
        BY <1>1 DEF MemoryInv, Items
    <2>2. \A u \in Entries(g2) : ~(u.seq >= nextSeq)
        BY <1>1, <1>4, <2>1
    <2>3. Base(g2)' \subseteq unacked'
        BY <1>4 DEF Base, Unpaid
    <2> QED BY <2>2, <2>3 DEF Leftover, Owed
<1>5. ASSUME NEW g2, NEW g \in Views, attached' = attached,
             Entries(g2) = Entries(g), Acks(g) \subseteq Acks(g2)
      PROVE  /\ LeftoverOK(Entries(g2), nextSeq, Offered)
             /\ ~attached' => Leftover(Entries(g2), nextSeq) = {}
             /\ Base(g2)' \subseteq Base(g)
    <2>1. Base(g2)' \subseteq Base(g)
        BY <1>5 DEF Base, Unpaid
    <2> QED BY <1>1, <1>5, <2>1 DEF TailInv
<1>6. TailInv'
    <2> SUFFICES ASSUME NEW g2 \in Views'
                 PROVE  /\ LeftoverOK(Entries(g2), nextSeq, Offered)
                        /\ ~attached' => Leftover(Entries(g2), nextSeq) = {}
        BY <1>2 DEF TailInv
    <2>1. CASE Entries(g2) \subseteq unacked'
        BY <1>4, <2>1 DEF LeftoverOK
    <2> QED BY <1>5, <2>1
<1>7. SumInv'
    <2>1. \A a \in Accounts :
              Total({}, a) + Volatile'[a] + relayed[a] <= Volatile[a] + relayed'[a]
        <3> TAKE a \in Accounts
        <3>1. Total({}, a) = 0
            BY TotalEmpty
        <3>2. Volatile[a] \in Nat /\ relayed[a] \in Nat
            BY <1>1, Figures DEF MetersOK
        <3> QED BY <1>2, <3>1, <3>2
    <2>2. {} \subseteq Items /\ IsFiniteSet({})
        BY FS_EmptySet
    <2>3. \A g2 \in Views' :
              \/ Base(g2)' \subseteq Owed \cup {}
              \/ \E g \in Views : Base(g2)' \subseteq Owed \cup Base(g) \cup {}
        BY <1>4, <1>5
    <2> QED BY <1>3, <2>1, <2>2, <2>3, SumsKept
<1> QED
    BY <1>3, <1>6, <1>7 DEF CoreInv

LEMMA ApplyAckCore ==
    ASSUME TypeOK, TypeOK', CoreInv, ApplyAck
    PROVE  CoreInv'
<1> DEFINE n == Head(answers)
           lines == Lines(<<Ack(n)>>)
<1>1. /\ Up /\ Up' /\ answers # <<>> /\ stage["control"] = "idle"
      /\ UNCHANGED <<process, pending, taken, ingested, relayed>>
      /\ reports' = reports \/ Unlink
      /\ \/ Available(n) /\ AckThrough(n) /\ stage' = [stage EXCEPT !["control"] = "compacting"]
         \/ UNCHANGED <<walVars, stage>>
    BY DEF ApplyAck, Answering, Goto, Up
<1>2. /\ stage \in [Flushers -> Stages] /\ FiniteInv /\ MemoryInv /\ file \in Seq(Tokens)
      /\ unacked \subseteq Items /\ ackThrough \in Nat /\ nextSeq \in Nat
    BY <1>1 DEF TypeOK, WalTypeOK, CoreInv
<1>3. n \in Nat
    BY <1>1, HeadTailProperties DEF TypeOK
<1> HIDE DEF n
<1>4. ASSUME unacked' \subseteq unacked PROVE FiniteInv' /\ Owed' \subseteq Owed
    <2>1. CASE reports' = reports
        BY <1>1, <1>2, <1>4, <2>1 DEF FiniteInv, Owed, Sent
    <2>2. CASE Unlink
        <3>1. reports' = <<>> /\ Len(<<>>) = 0
            BY <2>2 DEF Unlink
        <3>2. Sent' = {}
            BY <3>1 DEF Sent
        <3> QED BY <1>1, <1>2, <1>4, <3>1, <3>2 DEF FiniteInv, Owed
    <2> QED BY <1>1, <2>1, <2>2
<1>5. CASE UNCHANGED <<walVars, stage>>
    <2>1. UNCHANGED <<walVars, pending, taken, relayed>> /\ unacked' = unacked /\ stage' = stage
        BY <1>1, <1>5 DEF walVars
    <2> QED BY <1>1, <1>4, <2>1, IdleStep
<1>6. CASE Available(n) /\ AckThrough(n) /\ stage' = [stage EXCEPT !["control"] = "compacting"]
    <2>1. /\ n > ackThrough /\ Appended(lines) /\ ackThrough' = n /\ nextSeq' = nextSeq
          /\ unacked' = {u \in unacked : u.seq > n}
        BY <1>6 DEF AckThrough
    <2>2. n < nextSeq
        BY <1>2, <1>3, <1>6, AvailableBound
    <2>3. lines \in Seq(Tokens) /\ WellFormed(lines) /\ Len(lines) = 2 /\ lines # <<>>
        BY <1>3, AckLinesShape, EmptySeq
    <2>4. MemoryInv'
        BY <1>2, <1>3, <2>1, <2>2 DEF MemoryInv
    <2> HIDE DEF lines
    <2>5. /\ FileInv' /\ attached' = attached
          /\ attached => file' = file \o lines /\ synced' = Len(file \o lines)
          /\ ~attached => file' = file /\ synced' = synced
        BY <1>1, <2>1, <2>3, AppendedFile
    <2>6. ASSUME NEW g2 \in Views'
          PROVE  \E g \in Views : Entries(g2) = Entries(g) /\ Acks(g) \subseteq Acks(g2)
        <3>1. CASE attached
            <4>1. file \in Views /\ g2 = file \o lines
                BY <1>2, <2>3, <2>5, <3>1, AppendedViews DEF Views
            <4>2. lines \in Between(lines)
                BY <2>3, CompleteFragment
            <4>3. /\ \A u \in Items : u \in Entries(file \o lines) <=> u \in Entries(file)
                  /\ Acks(file \o lines) = Acks(file) \cup {n}
                BY <1>2, <1>3, <4>2, AckedLines DEF lines
            <4>4. Entries(file) \subseteq Items /\ Entries(file \o lines) \subseteq Items
                <5>1. file \o lines \in Seq(Tokens)
                    BY <1>2, <2>3, ConcatProperties
                <5> QED BY <1>2, <5>1, EntryTypes
            <4>5. Entries(file \o lines) = Entries(file)
                BY <4>3, <4>4
            <4>6. Acks(file) \subseteq Acks(file \o lines)
                BY <4>3
            <4> QED BY <4>1, <4>5, <4>6
        <3>2. CASE ~attached
            BY <2>5, <3>2, FileKept
        <3> QED BY <3>1, <3>2
    <2>7. /\ stage'["main"] = stage["main"]
          /\ \A f \in Flushers : /\ stage'[f] = "taken" <=> stage[f] = "taken"
                                 /\ stage'[f] = "recorded" <=> stage[f] = "recorded"
        BY <1>1, <1>2, <1>6 DEF Flushers
    <2>8. FiniteInv' /\ Owed' \subseteq Owed
        BY <1>4, <2>1
    <2> QED BY <1>1, <2>1, <2>4, <2>5, <2>6, <2>7, <2>8, AckStep
<1> QED
    BY <1>1, <1>5, <1>6

LEMMA ApplyAckFailsCore ==
    ASSUME TypeOK, TypeOK', CoreInv, ApplyAckFails
    PROVE  CoreInv'
<1> DEFINE n == Head(answers)
           lines == Lines(<<Ack(n)>>)
<1>1. /\ Up /\ Up' /\ answers # <<>> /\ Unlink
      /\ UNCHANGED <<process, pending, stage, taken, ingested, relayed>>
      /\ AppendFailed(lines, FALSE) \/ AppendFailed(lines, TRUE)
    BY DEF ApplyAckFails, Answering, AckThroughFails, flushVars, Up
<1>2. /\ FiniteInv /\ MemoryInv /\ file \in Seq(Tokens) /\ file' \in Seq(Tokens)
    BY <1>1 DEF TypeOK, WalTypeOK, CoreInv
<1>3. n \in Nat
    BY <1>1, HeadTailProperties DEF TypeOK
<1> HIDE DEF n
<1>4. lines \in Seq(Tokens) /\ WellFormed(lines)
    BY <1>3, AckLinesShape
<1> HIDE DEF lines
<1>5. /\ FileInv' /\ attached' = attached /\ synced' = synced /\ UNCHANGED memoryVars
      /\ \A g \in Views' :
            \/ g \in Views
            \/ attached /\ file \in Views /\ \E h \in Between(lines) : g = file \o h
    <2>1. CASE AppendFailed(lines, FALSE)
        BY <1>1, <1>4, <2>1, FailedFile
    <2>2. CASE AppendFailed(lines, TRUE)
        BY <1>1, <1>4, <2>2, FailedFile
    <2> QED BY <1>1, <2>1, <2>2
<1>6. nextSeq' = nextSeq /\ ackThrough' = ackThrough /\ unacked' = unacked /\ MemoryInv'
    BY <1>2, <1>5 DEF memoryVars, MemoryInv
<1>7. FiniteInv' /\ Owed' \subseteq Owed
    BY <1>1, <1>2, <1>6, UnlinkedOwed
<1>8. ASSUME NEW g2 \in Views'
      PROVE  \E g \in Views : Entries(g2) = Entries(g) /\ Acks(g) \subseteq Acks(g2)
    <2>1. CASE g2 \in Views
        BY <2>1
    <2>2. ASSUME file \in Views, NEW h \in Between(lines), g2 = file \o h
          PROVE  Entries(g2) = Entries(file) /\ Acks(file) \subseteq Acks(g2)
        <3>1. /\ \A u \in Items : u \in Entries(file \o h) <=> u \in Entries(file)
              /\ Acks(file \o h) = Acks(file) \/ Acks(file \o h) = Acks(file) \cup {n}
            BY <1>2, <1>3, AckedLines DEF lines
        <3>2. Entries(file) \subseteq Items /\ Entries(file \o h) \subseteq Items
            <4>1. g2 \in Seq(Tokens)
                BY <1>2, ViewTypes DEF Views
            <4> QED BY <1>2, <2>2, <4>1, EntryTypes
        <3> QED BY <2>2, <3>1, <3>2
    <2> QED BY <1>5, <2>1, <2>2
<1> QED
    BY <1>1, <1>5, <1>6, <1>7, <1>8, AckStep

(* A compaction, whether or not the handle follows it. *)
LEMMA CompactCore ==
    ASSUME TypeOK, TypeOK', CoreInv, Compacted, UNCHANGED memoryVars,
           stage["control"] = "compacting", stage' = [stage EXCEPT !["control"] = "idle"],
           reports' = reports \/ Unlink,
           UNCHANGED <<process, pending, taken, ingested, relayed>>
    PROVE  CoreInv'
<1>1. /\ stage \in [Flushers -> Stages] /\ FiniteInv /\ WalTypeOK
    BY DEF TypeOK, CoreInv
<1>2. Up /\ Up' /\ MemoryInv
    <2>1. Up
        BY UpWhenBusy DEF Flushers
    <2> QED BY <2>1 DEF Up, CoreInv
<1>3. /\ WellFormed(file') /\ file' \in Seq(Tokens)
      /\ synced' > 0 /\ file'[synced'] = Newline
      /\ \A g \in ViewsOf(file', synced') : g = file'
      /\ Entries(file') = unacked
    BY <1>1, <1>2, CompactedContents
<1>4. nextSeq' = nextSeq /\ ackThrough' = ackThrough /\ unacked' = unacked /\ MemoryInv'
    BY <1>2 DEF memoryVars, MemoryInv
<1>5. FiniteInv' /\ Owed' \subseteq Owed
    <2>1. CASE Unlink
        BY <1>1, <1>4, <2>1, UnlinkedOwed
    <2>2. CASE reports' = reports
        BY <1>1, <1>4, <2>2 DEF FiniteInv, Owed, Sent
    <2> QED BY <2>1, <2>2
<1>6. FileInv'
    BY <1>2, <1>3, WellFormedWhole DEF FileInv
<1>7. \A g2 \in Views' : Entries(g2) \subseteq unacked'
    BY <1>3, <1>4 DEF Views
<1>8. /\ stage'["main"] = stage["main"]
      /\ \A f \in Flushers : /\ stage'[f] = "taken" <=> stage[f] = "taken"
                             /\ stage'[f] = "recorded" <=> stage[f] = "recorded"
    BY <1>1 DEF Flushers
<1> QED
    BY <1>2, <1>4, <1>5, <1>6, <1>7, <1>8, AckStep

LEMMA CompactLogCore ==
    ASSUME TypeOK, TypeOK', CoreInv, CompactLog
    PROVE  CoreInv'
BY CompactCore DEF CompactLog, Compact, Goto, linkVars

LEMMA CompactLogFailsCore ==
    ASSUME TypeOK, TypeOK', CoreInv, CompactLogFails
    PROVE  CoreInv'
<1>1. /\ stage["control"] = "compacting" /\ stage' = [stage EXCEPT !["control"] = "idle"]
      /\ Unlink /\ UNCHANGED <<process, pending, taken, ingested, relayed>>
      /\ UNCHANGED walVars \/ CompactOrphans
    BY DEF CompactLogFails, Goto
<1>2. CASE CompactOrphans
    BY <1>1, <1>2, CompactCore DEF CompactOrphans
<1>3. CASE UNCHANGED walVars
    <2>1. unacked' = unacked /\ UNCHANGED <<walVars, pending, taken, relayed>>
        BY <1>1, <1>3 DEF walVars
    <2>2. FiniteInv' /\ Owed' \subseteq Owed
        BY <1>1, <2>1, UnlinkedOwed DEF CoreInv
    <2>3. Up /\ Up'
        <3>1. Up
            BY <1>1, UpWhenBusy DEF Flushers
        <3> QED BY <1>1, <3>1 DEF Up
    <2>4. /\ stage'["main"] = stage["main"]
          /\ \A f \in Flushers : /\ stage'[f] = "taken" <=> stage[f] = "taken"
                                 /\ stage'[f] = "recorded" <=> stage[f] = "recorded"
        BY <1>1 DEF Flushers, TypeOK
    <2> QED BY <2>1, <2>2, <2>3, <2>4, IdleStep
<1> QED
    BY <1>1, <1>2, <1>3

-----------------------------------------------------------------------------
(* Stopping and starting. *)

(* A process that is gone leaves one of the views there were; what its     *)
(* flush had offered may be found there.                                   *)
LEMMA StopCore ==
    ASSUME TypeOK, TypeOK', CoreInv, Up, MemoryLost, ProcessGone, FileInv', Views' \subseteq Views
    PROVE  CoreInv'
<1>1. /\ process' = "down" /\ pending' = [a \in Accounts |-> 0]
      /\ stage' = [h \in Flushers |-> "idle"] /\ taken' = <<>> /\ Unlink
      /\ ingested' = ingested /\ relayed' = relayed /\ unacked' = {}
    BY DEF ProcessGone, MemoryLost
<1>2. /\ relayed \in [Accounts -> Nat] /\ FlushInv /\ FiniteInv /\ TailInv /\ SumInv
      /\ nextSeq \in Nat /\ file \in Seq(Tokens)
    BY DEF TypeOK, WalTypeOK, CoreInv
<1>3. ~Up' /\ DownInv'
    <2>1. reports' = <<>>
        BY <1>1 DEF Unlink
    <2> QED BY <1>1, <2>1 DEF Up, DownInv, Flushers
<1>4. \A h \in Flushers : ~Locks(h)' /\ stage'[h] # "taken" /\ stage'[h] # "recorded"
    BY <1>1 DEF Locks
<1>5. FlushInv'
    BY <1>1, <1>4 DEF FlushInv, Flushers
<1>6. FiniteInv' /\ Owed' \subseteq Owed
    <2>1. reports' = <<>> /\ Len(<<>>) = 0
        BY <1>1 DEF Unlink
    <2>2. Sent' = {}
        BY <2>1 DEF Sent
    <2> QED BY <1>1, <1>2, <2>1, <2>2 DEF FiniteInv, Owed
<1>7. \A a \in Accounts : Volatile'[a] = 0
    <2> TAKE a \in Accounts
    <2>1. ~Recorded'
        BY <1>4 DEF Recorded
    <2>2. Volatile'[a] = pending'[a] - 0
        BY <2>1 DEF Volatile
    <2> QED BY <1>1, <2>2
<1>8. /\ Offered \in [Accounts -> Nat] /\ Volatile \in [Accounts -> Nat]
      /\ \A a \in Accounts : Offered[a] <= Volatile[a]
    BY <1>2, Figures DEF MetersOK
<1>9. Covered({})'
    <2>1. \A a \in Accounts :
              Total({}, a) + Volatile'[a] + relayed[a] <= Volatile[a] + relayed'[a]
        <3> TAKE a \in Accounts
        <3>1. Total({}, a) = 0
            BY TotalEmpty
        <3>2. Volatile[a] \in Nat /\ relayed[a] \in Nat
            BY <1>2, <1>8
        <3> QED BY <1>1, <1>7, <3>1, <3>2
    <2>2. {} \subseteq Items /\ IsFiniteSet({}) /\ Covered({})
        BY <1>2, FS_EmptySet DEF SumInv
    <2>3. Owed' \cup {} \subseteq Owed \cup {} \cup {}
        BY <1>6
    <2>4. \A a \in Accounts : Total(Owed' \cup {}, a) + Volatile'[a] <= relayed'[a]
        BY <1>2, <1>5, <1>6, <2>1, <2>2, <2>3, CoverKept
    <2> QED BY <2>4 DEF Covered
<1>10. ASSUME NEW g \in Views PROVE Covered(Base(g))'
    <2>1. g \in Seq(Tokens)
        BY <1>2, ViewTypes DEF Views
    <2> DEFINE rest == Leftover(Entries(g), nextSeq)
    <2>2. Base(g) \subseteq Items /\ IsFiniteSet(Base(g)) /\ Covered(Base(g))
        BY <1>2, <2>1, BaseTypes DEF SumInv
    <2>3. Entries(g) \subseteq Items /\ IsFiniteSet(Entries(g))
        BY <2>1, EntryTypes
    <2>4. rest \subseteq Items /\ IsFiniteSet(rest)
        <3>1. rest \in SUBSET Entries(g)
            BY DEF Leftover
        <3> QED BY <2>3, <3>1, FS_Subset
    <2>5. LeftoverOK(Entries(g), nextSeq, Offered)
        BY <1>2 DEF TailInv
    <2>6. Base(g)' \subseteq Base(g) \cup rest
        <3> SUFFICES ASSUME NEW u \in Base(g)' PROVE u \in Base(g) \cup rest
            OBVIOUS
        <3>1. u \in Unpaid(g) /\ u \in Entries(g)
            BY DEF Base, Unpaid
        <3>2. u.seq \in Nat
            BY <2>3, <3>1 DEF Items
        <3>3. u.seq < nextSeq \/ u.seq >= nextSeq
            BY <1>2, <3>2
        <3> QED BY <3>1, <3>3 DEF Base, Leftover
    <2>7. \A a \in Accounts :
              Total(rest, a) + Volatile'[a] + relayed[a] <= Volatile[a] + relayed'[a]
        <3> TAKE a \in Accounts
        <3>1. /\ \A u, v \in rest : u.account = v.account => u = v
              /\ \A u \in rest : u.bytes <= Offered[u.account]
            BY <2>5 DEF LeftoverOK
        <3> HIDE DEF rest
        <3>2. Total(rest, a) <= Offered[a]
            BY <1>8, <2>4, <3>1, TotalOffered
        <3>3. Total(rest, a) \in Nat
            BY <2>4, BytesFinite
        <3>4. Volatile[a] \in Nat /\ relayed[a] \in Nat /\ Offered[a] \in Nat /\ Offered[a] <= Volatile[a]
            BY <1>2, <1>8
        <3> QED BY <1>1, <1>7, <3>2, <3>3, <3>4
    <2>8. Owed' \cup Base(g)' \subseteq Owed \cup Base(g) \cup rest
        BY <1>6, <2>6
    <2> HIDE DEF rest
    <2>9. \A a \in Accounts : Total(Owed' \cup Base(g)', a) + Volatile'[a] <= relayed'[a]
        BY <1>2, <1>5, <1>6, <2>2, <2>4, <2>7, <2>8, CoverKept
    <2> QED BY <2>9 DEF Covered
<1>11. SumInv'
    BY <1>9, <1>10 DEF SumInv
<1> QED
    BY <1>3, <1>5, <1>6, <1>11 DEF CoreInv

LEMMA EndsCore ==
    ASSUME TypeOK, TypeOK', CoreInv, Up, ProcessEnds, ProcessGone, "power" \notin Faults
    PROVE  CoreInv'
<1>1. MemoryLost /\ file' = file /\ synced' = synced
    BY DEF ProcessEnds
<1>2. FileInv' /\ Views' = Views
    BY <1>1 DEF CoreInv, FileInv, Views
<1> QED
    BY <1>1, <1>2, StopCore

LEMMA PowerCore ==
    ASSUME TypeOK, TypeOK', CoreInv, Up, PowerFails, ProcessGone, "power" \in Faults
    PROVE  CoreInv'
<1>1. /\ file \in Seq(Tokens) /\ Len(file) \in Nat /\ synced \in 0..Len(file)
      /\ NoBlank(file) /\ (synced > 0 => file[synced] = Newline)
    BY LenProperties DEF TypeOK, WalTypeOK, CoreInv, FileInv
<1>2. PICK n \in synced..Len(file) :
          file' = SubSeq(file, 1, n) \/ file' = Append(SubSeq(file, 1, n), Part)
    BY DEF PowerFails
<1>3. MemoryLost /\ synced' = Len(file')
    BY DEF PowerFails
<1>4. n \in 0..Len(file)
    BY <1>1
<1>5. NoBlank(file')
    BY <1>1, <1>2, <1>4, NoBlankPrefix
<1>6. ~Up'
    BY DEF ProcessGone, Up
<1>7. FileInv'
    BY <1>3, <1>5, <1>6 DEF FileInv
<1>8. Views' \subseteq Views
    <2> SUFFICES ASSUME NEW g \in ViewsOf(file', Len(file')) PROVE g \in ViewsOf(file, synced)
        BY <1>3 DEF Views
    <2> QED BY <1>1, <1>2, PowerViews
<1> QED
    BY <1>3, <1>7, <1>8, StopCore

LEMMA ExitCore ==
    ASSUME StopsOneWay, TypeOK, TypeOK', CoreInv, Exit
    PROVE  CoreInv'
<1>1. Up /\ ProcessEnds /\ ProcessGone /\ stage["main"] = "flushed"
    BY DEF Exit, Up
<1>2. "stop" \in Faults
    BY <1>1 DEF CoreInv, FlushInv
<1>3. "power" \notin Faults
    BY <1>2 DEF StopsOneWay
<1> QED
    BY <1>1, <1>3, EndsCore

LEMMA CrashCore ==
    ASSUME StopsOneWay, TypeOK, TypeOK', CoreInv, Crash
    PROVE  CoreInv'
<1>1. /\ Up /\ ProcessGone
      /\ \/ "kill" \in Faults /\ ProcessEnds
         \/ "power" \in Faults /\ PowerFails
    BY DEF Crash, Fault, Up
<1>2. CASE "kill" \in Faults /\ ProcessEnds
    <2>1. "power" \notin Faults
        BY <1>2 DEF StopsOneWay
    <2> QED BY <1>1, <1>2, <2>1, EndsCore
<1>3. CASE "power" \in Faults /\ PowerFails
    BY <1>1, <1>3, PowerCore
<1> QED
    BY <1>1, <1>2, <1>3

LEMMA RestartCore ==
    ASSUME TypeOK, TypeOK', CoreInv, Restart
    PROVE  CoreInv'
<1>1. /\ ~Up /\ Up' /\ Open
      /\ UNCHANGED <<pending, stage, taken, reports, ingested, relayed>>
    BY DEF Restart, Up, flushVars, linkVars
<1>2. /\ WalTypeOK /\ FileInv /\ FlushInv /\ FiniteInv /\ DownInv /\ SumInv
      /\ relayed \in [Accounts -> Nat] /\ file \in Seq(Tokens)
    BY <1>1 DEF TypeOK, WalTypeOK, CoreInv
<1>3. NoBlank(file) /\ ("power" \in Faults => synced = Len(file))
    BY <1>1, <1>2 DEF FileInv
<1>4. /\ file' \in Seq(Tokens) /\ WellFormed(file') /\ file' \in Views
      /\ "power" \in Faults => synced' = Len(file')
      /\ \A g \in ViewsOf(file', synced') : g = file'
      /\ ackThrough' \in Nat /\ nextSeq' \in Nat /\ ackThrough' < nextSeq'
      /\ \A n \in Acks(file') : n <= ackThrough'
      /\ \A u \in Entries(file') : u.seq < nextSeq'
      /\ unacked' = {u \in Entries(file') : u.seq > ackThrough'}
    BY <1>1, <1>2, <1>3, OpenContents
<1>5. FileInv'
    <2>1. NoBlank(file')
        BY <1>4, WellFormedWhole
    <2>2. "power" \in Faults => (synced' > 0 => file'[synced'] = Newline)
        <3> SUFFICES ASSUME "power" \in Faults, synced' > 0 PROVE file'[synced'] = Newline
            OBVIOUS
        <3>1. synced' = Len(file') /\ Len(file') # 0
            BY <1>4
        <3>2. file' # <<>>
            BY <3>1
        <3> QED BY <1>4, <3>1, <3>2, WellFormedEnd
    <2> QED BY <1>1, <2>1, <2>2 DEF FileInv
<1>6. /\ Entries(file') \subseteq Items
      /\ \A u, v \in Entries(file') : u.seq = v.seq => u = v
      /\ Acks(file') \subseteq Nat
    BY <1>4, EntryTypes
<1>7. MemoryInv'
    BY <1>4, <1>6 DEF MemoryInv, Items
<1>8. Volatile' = Volatile /\ \A f \in Flushers : Locks(f)' <=> Locks(f)
    BY <1>1, MetersKept
<1>9. FlushInv'
    BY <1>1, <1>2 DEF FlushInv, Locks
<1>10. FiniteInv'
    BY <1>1, <1>2 DEF FiniteInv
<1>11. \A g \in Views' : g = file'
    BY <1>4 DEF Views
<1>12. TailInv'
    <2>1. \A u \in Entries(file') : ~(u.seq >= nextSeq')
        BY <1>4, <1>6 DEF Items
    <2>2. Leftover(Entries(file'), nextSeq') = {}
        BY <2>1 DEF Leftover
    <2> QED BY <1>11, <2>2 DEF TailInv, LeftoverOK
<1>13. unacked' \subseteq Unpaid(file') /\ Base(file') = Unpaid(file')
    <2>1. unacked' \subseteq Unpaid(file')
        <3> SUFFICES ASSUME NEW u \in Entries(file'), u.seq > ackThrough', NEW n \in Acks(file')
                     PROVE  u.seq > n
            BY <1>4 DEF Unpaid
        <3>1. u.seq \in Nat /\ n \in Nat /\ n <= ackThrough'
            BY <1>4, <1>6 DEF Items
        <3> QED BY <1>4, <3>1
    <2>2. Base(file') = Unpaid(file')
        BY <1>1 DEF Base, Unpaid
    <2> QED BY <2>1, <2>2
<1>14. Owed' \subseteq ingested \cup Unpaid(file') /\ ingested \subseteq Owed
    <2>1. reports' = <<>> /\ Len(<<>>) = 0
        BY <1>1, <1>2 DEF DownInv
    <2>2. Sent' = {}
        BY <2>1 DEF Sent
    <2> QED BY <1>1, <1>13, <2>2 DEF Owed
<1>15. ASSUME NEW new, new \subseteq Unpaid(file')
       PROVE  \A a \in Accounts : Total(Owed' \cup new, a) + Volatile'[a] <= relayed'[a]
    <2>1. Base(file') \subseteq Items /\ IsFiniteSet(Base(file')) /\ Covered(Base(file'))
        BY <1>2, <1>4, BaseTypes DEF SumInv
    <2>2. {} \subseteq Items /\ IsFiniteSet({})
        BY FS_EmptySet
    <2>3. \A a \in Accounts :
              Total({}, a) + Volatile'[a] + relayed[a] <= Volatile[a] + relayed'[a]
        <3> TAKE a \in Accounts
        <3>1. Total({}, a) = 0
            BY TotalEmpty
        <3>2. Volatile[a] \in Nat /\ relayed[a] \in Nat
            BY <1>2, Figures DEF MetersOK
        <3> QED BY <1>1, <1>8, <3>1, <3>2
    <2>4. Owed' \cup new \subseteq Owed \cup Base(file') \cup {}
        BY <1>13, <1>14, <1>15
    <2> QED BY <1>2, <1>9, <1>10, <2>1, <2>2, <2>3, <2>4, CoverKept
<1>16. SumInv'
    <2>1. Covered({})'
        BY <1>15 DEF Covered
    <2>2. \A g \in Views' : Covered(Base(g))'
        <3> SUFFICES ASSUME NEW g \in Views' PROVE Covered(Base(g))'
            OBVIOUS
        <3>1. Base(g)' \subseteq Unpaid(file')
            BY <1>11 DEF Base, Unpaid
        <3>2. \A a \in Accounts : Total(Owed' \cup Base(g)', a) + Volatile'[a] <= relayed'[a]
            BY <1>15, <3>1
        <3> QED BY <3>2 DEF Covered
    <2> QED BY <2>1, <2>2 DEF SumInv
<1> QED
    BY <1>1, <1>5, <1>7, <1>9, <1>10, <1>12, <1>16 DEF CoreInv

-----------------------------------------------------------------------------
(* No byte is billed, waiting and counted more often than it was relayed. *)

LEMMA InitCore == Init => CoreInv
<1> SUFFICES ASSUME Init PROVE CoreInv
    OBVIOUS
<1>1. /\ file = <<>> /\ synced = 0 /\ attached = TRUE /\ nextSeq = 1 /\ ackThrough = 0
      /\ unacked = {} /\ Up /\ stage = [f \in Flushers |-> "idle"]
      /\ pending = [a \in Accounts |-> 0] /\ relayed = [a \in Accounts |-> 0]
      /\ reports = <<>> /\ ingested = {}
    BY DEF Init, WalInit, Up
<1>2. file \in Seq(Tokens) /\ Len(file) = 0
    BY <1>1
<1>3. FileInv
    BY <1>1, <1>2 DEF FileInv, NoBlank
<1>4. \A f \in Flushers : ~Locks(f) /\ stage[f] = "idle"
    BY <1>1 DEF Locks
<1>5. FlushInv
    BY <1>4 DEF FlushInv, Flushers
<1>6. FiniteInv
    BY <1>1, FS_EmptySet DEF FiniteInv
<1>7. MemoryInv
    BY <1>1 DEF MemoryInv
<1>8. \A g \in Views : g = file
    BY <1>1, <1>2, SettledViews DEF Views
<1>9. Entries(file) = {}
    BY <1>2 DEF Entries
<1>10. TailInv
    BY <1>8, <1>9 DEF TailInv, LeftoverOK, Leftover
<1>11. Owed = {}
    <2>1. Len(reports) = 0
        BY <1>1
    <2> QED BY <1>1, <2>1 DEF Owed, Sent
<1>12. \A a \in Accounts : Total({}, a) + Volatile[a] <= relayed[a]
    <2> TAKE a \in Accounts
    <2>1. Total({}, a) = 0
        BY TotalEmpty
    <2>2. ~Recorded
        BY <1>4 DEF Recorded
    <2>3. Volatile[a] = 0 - 0
        BY <1>1, <2>2 DEF Volatile
    <2> QED BY <1>1, <2>1, <2>3
<1>13. SumInv
    <2>1. Covered({})
        BY <1>11, <1>12 DEF Covered
    <2>2. \A g \in Views : Base(g) = {}
        BY <1>8, <1>9 DEF Base, Unpaid
    <2> QED BY <2>1, <2>2 DEF SumInv
<1> QED
    BY <1>1, <1>3, <1>5, <1>6, <1>7, <1>10, <1>13 DEF CoreInv

LEMMA StutterCore ==
    ASSUME CoreInv, UNCHANGED vars
    PROVE  CoreInv'
<1>1. /\ file' = file /\ synced' = synced /\ attached' = attached /\ nextSeq' = nextSeq
      /\ ackThrough' = ackThrough /\ unacked' = unacked /\ process' = process
      /\ pending' = pending /\ stage' = stage /\ taken' = taken /\ reports' = reports
      /\ ingested' = ingested /\ relayed' = relayed
    BY DEF vars, walVars, flushVars, linkVars
<1>2. FileInv' <=> FileInv
    BY <1>1 DEF FileInv, Up
<1>3. FlushInv' <=> FlushInv
    BY <1>1 DEF FlushInv, Locks
<1>4. (FiniteInv' <=> FiniteInv) /\ (MemoryInv' <=> MemoryInv) /\ (DownInv' <=> DownInv)
    BY <1>1 DEF FiniteInv, MemoryInv, DownInv
<1>5. Views' = Views
    BY <1>1 DEF Views
<1>6. Volatile' = Volatile /\ Offered' = Offered
    BY <1>1, MetersKept
<1>7. TailInv' <=> TailInv
    BY <1>1, <1>5, <1>6 DEF TailInv
<1>8. Owed' = Owed
    BY <1>1 DEF Owed, Sent
<1>9. \A g : Base(g)' = Base(g)
    BY <1>1 DEF Base, Up
<1>10. SumInv' <=> SumInv
    BY <1>1, <1>5, <1>6, <1>8, <1>9 DEF SumInv, Covered
<1>11. Up' <=> Up
    BY <1>1 DEF Up
<1> QED
    BY <1>2, <1>3, <1>4, <1>7, <1>10, <1>11 DEF CoreInv

LEMMA StepCore ==
    ASSUME StopsOneWay, TypeOK, TypeOK', CoreInv, [Next]_vars
    PROVE  CoreInv'
<1>1. ASSUME NEW a \in Accounts, CommitUsage(a) PROVE CoreInv'
    BY <1>1, CommitUsageCore
<1>2. ASSUME NEW f \in Flushers, Flush(f) PROVE CoreInv'
    BY <1>2, TakePendingCore, RecordTakenCore, RecordTakenFailsCore, SubtractTakenCore DEF Flush
<1>3. CASE SendReport
    BY <1>3, SendReportCore
<1>4. CASE PlatformIngests
    BY <1>4, PlatformIngestsCore
<1>5. CASE ApplyAck
    BY <1>5, ApplyAckCore
<1>6. CASE ApplyAckFails
    BY <1>6, ApplyAckFailsCore
<1>7. CASE CompactLog
    BY <1>7, CompactLogCore
<1>8. CASE CompactLogFails
    BY <1>8, CompactLogFailsCore
<1>9. CASE Connect
    BY <1>9, ConnectCore
<1>10. CASE LinkBreaks
    BY <1>10, LinkBreaksCore
<1>11. CASE Exit
    BY <1>11, ExitCore
<1>12. CASE Crash
    BY <1>12, CrashCore
<1>13. CASE Restart
    BY <1>13, RestartCore
<1>14. CASE RestartRefused
    BY <1>14, RestartRefusedCore
<1>15. CASE UNCHANGED vars
    BY <1>15, StutterCore
<1> QED
    BY <1>1, <1>2, <1>3, <1>4, <1>5, <1>6, <1>7, <1>8, <1>9, <1>10, <1>11, <1>12,
       <1>13, <1>14, <1>15 DEF Next

(* Among finitely many numbers there is a greatest. *)
LEMMA NumbersBounded ==
    ASSUME NEW f \in Seq(Tokens)
    PROVE  \E b \in Nat : \A i \in 1..Len(f) : f[i].seq \in Nat /\ f[i].seq <= b
<1> DEFINE Bounds(b, k) == \A i \in 1..k : f[i].seq <= b
           T == {k \in 0..Len(f) : \A b \in Nat : ~Bounds(b, k)}
<1>1. Len(f) \in Nat /\ \A i \in 1..Len(f) : f[i].seq \in Nat
    <2>1. \A i \in 1..Len(f) : f[i] \in Tokens
        BY ElementOfSeq
    <2> QED BY <2>1, LenProperties DEF Tokens
<1>2. T \subseteq Nat
    BY <1>1
<1>3. T = {}
    <2> SUFFICES ASSUME T # {} PROVE FALSE
        OBVIOUS
    <2>1. PICK k \in T : \A y \in T : k <= y
        <3> HIDE DEF T
        <3> QED BY <1>2, LeastNumber
    <2>2. Bounds(0, 0)
        OBVIOUS
    <2>3. k # 0
        BY <2>2
    <2>4. k \in 1..Len(f) /\ k - 1 \in 0..Len(f) /\ ~(k <= k - 1)
        BY <1>1, <2>3
    <2>5. k - 1 \notin T
        <3> HIDE DEF T
        <3> QED BY <2>1, <2>4
    <2>6. PICK b \in Nat : Bounds(b, k - 1)
        BY <2>4, <2>5
    <2>7. f[k].seq \in Nat
        BY <1>1, <2>4
    <2>8. PICK c \in Nat : b <= c /\ f[k].seq <= c
        <3>1. \A x, y \in Nat : x + y \in Nat /\ x <= x + y /\ y <= x + y
            OBVIOUS
        <3>2. b \in Nat
            BY <2>6
        <3> QED BY <2>7, <3>1, <3>2
    <2>9. \A i \in 1..k : i \in 1..(k - 1) \/ i = k
        BY <2>4
    <2>10. ASSUME NEW i \in 1..k PROVE f[i].seq <= c
        <3>1. CASE i = k
            BY <2>8, <3>1
        <3>2. CASE i \in 1..(k - 1)
            <4>1. f[i].seq <= b
                BY <2>6, <3>2
            <4>2. f[i].seq \in Nat
                BY <1>1, <2>4
            <4>3. b <= c
                BY <2>8
            <4> HIDE DEF Bounds, T
            <4> QED BY <4>1, <4>2, <4>3
        <3> QED BY <2>9, <3>1, <3>2
    <2> QED BY <2>1, <2>10
<1>4. \E b \in Nat : Bounds(b, Len(f))
    <2>1. Len(f) \in 0..Len(f)
        BY <1>1
    <2>2. Len(f) \notin T
        BY <1>3
    <2> QED BY <2>1, <2>2
<1> QED
    BY <1>1, <1>4

LEMMA AckExists ==
    ASSUME NEW f \in Seq(Tokens)
    PROVE  \E n \in Numbers(f) : n \in Nat /\ IsAckOf(f, n)
<1> DEFINE Acked(i) == Whole(f, i) /\ f[i].kind = "ack"
           T == {b \in Nat : \A i \in 1..Len(f) : Acked(i) => f[i].seq <= b}
<1>1. PICK b \in Nat : \A i \in 1..Len(f) : f[i].seq \in Nat /\ f[i].seq <= b
    BY NumbersBounded
<1>2. T \subseteq Nat /\ b \in T
    BY <1>1
<1>3. PICK n \in T : \A y \in T : n <= y
    <2> HIDE DEF T
    <2> QED BY <1>2, LeastNumber
<1>4. n > 0 => \E i \in 1..Len(f) : Acked(i) /\ f[i].seq = n
    <2> SUFFICES ASSUME n > 0 PROVE \E i \in 1..Len(f) : Acked(i) /\ f[i].seq = n
        OBVIOUS
    <2>1. n \in Nat /\ n - 1 \in Nat /\ ~(n <= n - 1)
        BY <1>2
    <2>2. n - 1 \notin T
        BY <1>3, <2>1
    <2>3. PICK i \in 1..Len(f) : Acked(i) /\ ~(f[i].seq <= n - 1)
        BY <2>1, <2>2
    <2>4. f[i].seq \in Nat /\ f[i].seq <= n
        BY <1>1, <1>3, <2>3
    <2>5. f[i].seq = n
        BY <2>1, <2>3, <2>4
    <2> QED BY <2>3, <2>5
<1>5. n \in Nat /\ \A i \in 1..Len(f) : Acked(i) => f[i].seq <= n
    BY <1>2, <1>3
<1>6. IsAckOf(f, n)
    BY <1>4, <1>5 DEF IsAckOf
<1>7. n \in Numbers(f)
    <2>1. CASE n = 0
        BY <2>1 DEF Numbers
    <2>2. CASE n > 0
        BY <1>4, <2>2 DEF Numbers
    <2> QED BY <1>5, <2>1, <2>2
<1> QED
    BY <1>5, <1>6, <1>7

(* What the next start would find is what a view holds unpaid. *)
DiskFound ==
    ~Corrupt(file) =>
        /\ Repaired(file) \in Views
        /\ OnDisk = Unpaid(Repaired(file))
        /\ \A n \in Numbers(file) : IsAckOf(file, n) => Replay(file, n) = OnDisk

LEMMA OnDiskUnpaid == TypeOK /\ CoreInv => DiskFound
<1> SUFFICES ASSUME TypeOK, CoreInv, ~Corrupt(file)
             PROVE  /\ Repaired(file) \in Views
                    /\ OnDisk = Unpaid(Repaired(file))
                    /\ \A n \in Numbers(file) : IsAckOf(file, n) => Replay(file, n) = OnDisk
    BY DEF DiskFound
<1> DEFINE g == Repaired(file)
<1>1. file \in Seq(Tokens) /\ NoBlank(file)
    BY DEF TypeOK, WalTypeOK, CoreInv, FileInv
<1>2. g \in Seq(Tokens) /\ g \in Views /\ SameRecords(file, g)
    BY <1>1, RepairedView DEF Views
<1> HIDE DEF g
<1>3. \A n \in Numbers(file) : n \in Nat
    <2>1. \A i \in 1..Len(file) : file[i] \in Tokens
        BY <1>1, ElementOfSeq
    <2>2. \A i \in 1..Len(file) : file[i].seq \in Nat
        BY <2>1 DEF Tokens
    <2> QED BY <2>2 DEF Numbers
<1>4. Entries(g) \subseteq Items /\ Acks(g) \subseteq Nat
    BY <1>2, EntryTypes
<1>5. ASSUME NEW n \in Numbers(file), IsAckOf(file, n)
      PROVE  Replay(file, n) = Unpaid(g)
    <2>1. /\ Replay(file, n) = {u \in Entries(g) : u.seq > n}
          /\ n > 0 => n \in Acks(g)
          /\ \A m \in Acks(g) : m <= n
        BY <1>1, <1>2, <1>3, <1>5, ReplayOfView
    <2>2. n \in Nat
        BY <1>3
    <2>3. ASSUME NEW u \in Entries(g)
          PROVE  u.seq > n <=> \A m \in Acks(g) : u.seq > m
        <3>1. u.seq \in Nat /\ u.seq > 0 /\ \A m \in Acks(g) : m \in Nat
            BY <1>4 DEF Items
        <3>2. u.seq > n => \A m \in Acks(g) : u.seq > m
            BY <2>1, <2>2, <3>1
        <3>3. (\A m \in Acks(g) : u.seq > m) => u.seq > n
            BY <2>1, <2>2, <3>1
        <3> QED BY <3>2, <3>3
    <2> QED BY <2>1, <2>3 DEF Unpaid
<1>6. OnDisk = UNION {Replay(file, n) : n \in {n \in Numbers(file) : IsAckOf(file, n)}}
    BY DEF OnDisk
<1>7. OnDisk \subseteq Unpaid(g)
    BY <1>5, <1>6
<1>8. Unpaid(g) \subseteq OnDisk
    BY <1>1, <1>5, <1>6, AckExists
<1>9. OnDisk = Unpaid(g)
    BY <1>7, <1>8
<1> QED
    BY <1>2, <1>5, <1>9 DEF g

LEMMA OnDiskUnpaidNext == (TypeOK /\ CoreInv)' => DiskFound'
<1> QED BY OnDiskUnpaid, PTL

LEMMA CoreBilled == TypeOK /\ CoreInv => NeverOverbilled
<1> SUFFICES ASSUME TypeOK, CoreInv, NEW a \in Accounts
             PROVE  Billed[a] + Durable[a] + Volatile[a] <= relayed[a]
    BY DEF NeverOverbilled
<1> DEFINE waiting == IF process = "up" THEN unacked ELSE OnDisk
<1>1. /\ FlushInv /\ FiniteInv /\ SumInv /\ relayed[a] \in Nat /\ file \in Seq(Tokens)
      /\ ingested \subseteq Items /\ IsFiniteSet(ingested)
    BY DEF TypeOK, WalTypeOK, CoreInv, FiniteInv
<1>2. Volatile[a] \in Nat
    BY <1>1, Figures DEF MetersOK
<1>3. Owed \subseteq Items /\ IsFiniteSet(Owed)
    BY <1>1, OwedTypes DEF OwedOK
<1>4. \E items : /\ items \subseteq Items /\ IsFiniteSet(items) /\ Covered(items)
                 /\ waiting \subseteq Owed \cup items
    <2>1. CASE Up
        BY <1>1, <2>1, FS_EmptySet DEF Up, Owed, SumInv
    <2>2. CASE ~Up /\ Corrupt(file)
        <3>1. waiting = {}
            BY <2>2 DEF Up, OnDisk
        <3> QED BY <1>1, <3>1, FS_EmptySet DEF SumInv
    <2>3. CASE ~Up /\ ~Corrupt(file)
        <3> DEFINE g == Repaired(file)
        <3>1. g \in Views /\ OnDisk \subseteq Unpaid(g)
            BY <2>3, OnDiskUnpaid DEF DiskFound
        <3> HIDE DEF g
        <3>2. g \in Seq(Tokens)
            BY <1>1, <3>1, ViewTypes DEF Views
        <3>3. Base(g) \subseteq Items /\ IsFiniteSet(Base(g)) /\ Covered(Base(g))
            BY <1>1, <3>1, <3>2, BaseTypes DEF SumInv
        <3>4. Base(g) = Unpaid(g) /\ waiting = OnDisk
            BY <2>3 DEF Base, Up
        <3> QED BY <3>1, <3>3, <3>4
    <2> QED BY <2>1, <2>2, <2>3
<1>5. PICK items : /\ items \subseteq Items /\ IsFiniteSet(items) /\ Covered(items)
                   /\ waiting \subseteq Owed \cup items
    BY <1>4
<1>6. Durable[a] = Total(waiting \ ingested, a) /\ Billed[a] = Total(ingested, a)
    BY DEF Durable, Billed
<1> HIDE DEF waiting
<1> DEFINE T == Owed \cup items
<1>7. T \subseteq Items /\ IsFiniteSet(T)
    BY <1>3, <1>5, FS_Union
<1>8. ingested \subseteq T /\ waiting \ ingested \subseteq T
    BY <1>5 DEF Owed
<1>9. Total(T, a) + Volatile[a] <= relayed[a]
    BY <1>5 DEF Covered
<1> HIDE DEF T
<1>10. waiting \ ingested \subseteq Items /\ IsFiniteSet(waiting \ ingested)
    BY <1>7, <1>8, FS_Subset
<1>11. Total(ingested \cup (waiting \ ingested), a) =
          Total(ingested, a) + Total(waiting \ ingested, a)
    <2>1. ingested \cap (waiting \ ingested) = {}
        OBVIOUS
    <2> QED BY <1>1, <1>10, <2>1, TotalUnion
<1>12. Total(ingested \cup (waiting \ ingested), a) <= Total(T, a)
    <2>1. ingested \cup (waiting \ ingested) \subseteq T
        BY <1>8
    <2> QED BY <1>7, <2>1, TotalMonotone
<1>13. /\ Total(T, a) \in Nat /\ Total(ingested, a) \in Nat
       /\ Total(waiting \ ingested, a) \in Nat
    BY <1>1, <1>7, <1>10, BytesFinite
<1> QED
    BY <1>1, <1>2, <1>6, <1>9, <1>11, <1>12, <1>13

LEMMA CoreAlways == ASSUME StopsOneWay PROVE Spec => [](TypeOK /\ CoreInv)
<1>1. Init => TypeOK /\ CoreInv
    BY InitType, InitCore
<1>2. TypeOK /\ CoreInv /\ [Next]_vars => TypeOK' /\ CoreInv'
    BY StepType, StepCore
<1> QED
    BY <1>1, <1>2, PTL DEF Spec

(* Whatever else fails, when the machine keeps its power or the process    *)
(* stops in no other way than by losing it, no byte is billed, waiting to  *)
(* be billed and counted more often than it was relayed (lib.rs,           *)
(* flush_pending_relay_usage_to_wal and RelayUsageWal).                    *)
THEOREM NothingOverbilled == ASSUME StopsOneWay PROVE Spec => []NeverOverbilled
<1> QED
    BY CoreAlways, CoreBilled, PTL

-----------------------------------------------------------------------------
(* The exact books. *)

(* What was billed is in every log that agrees with memory. *)
LEMMA UpExact ==
    ASSUME TypeOK', attached', Up', WellFormed(file'), LinkInv',
           \A g \in Views' : LoggedIn(g)'
    PROVE  ExactInv'
<1>1. ingested' \subseteq Items /\ ackThrough' \in Nat
    BY DEF TypeOK, WalTypeOK
<1>2. ASSUME NEW g \in Views', NEW d \in ingested'
      PROVE  d \in Entries(g) \/ \E n \in Acks(g) : d.seq <= n
    <2>1. d.seq \in Nat /\ d.seq > 0
        BY <1>1 DEF Items
    <2>2. d.seq <= ackThrough' \/ d \in unacked'
        BY DEF LinkInv, Known
    <2>3. unacked' \subseteq Entries(g) /\ (ackThrough' > 0 => ackThrough' \in Acks(g))
        BY DEF LoggedIn
    <2>4. CASE d.seq <= ackThrough'
        <3>1. ackThrough' > 0
            BY <1>1, <2>1, <2>4
        <3> QED BY <2>3, <2>4, <3>1
    <2> QED BY <2>2, <2>3, <2>4
<1>3. \A g \in Views' : BilledIn(g)'
    BY <1>2 DEF BilledIn
<1> QED
    BY <1>3 DEF ExactInv

(* Steps that touch neither the log nor the books: messages stay, are      *)
(* taken, or are lost with their connection.                               *)
LEMMA LinkStepExact ==
    ASSUME TypeOK, ExactInv, UNCHANGED <<walVars, process, ingested>>,
           \/ UNCHANGED <<reports, answers>>
           \/ UNCHANGED reports /\ answers # <<>> /\ answers' = Tail(answers)
           \/ Unlink
    PROVE  ExactInv'
<1>1. /\ file' = file /\ synced' = synced /\ attached' = attached /\ nextSeq' = nextSeq
      /\ ackThrough' = ackThrough /\ unacked' = unacked /\ ingested' = ingested
      /\ (Up' <=> Up) /\ Views' = Views
    BY FileKept DEF walVars, Up
<1>2. \A g : (BilledIn(g)' <=> BilledIn(g)) /\ (LoggedIn(g)' <=> LoggedIn(g))
    BY <1>1 DEF BilledIn, LoggedIn
<1>3. reports' = reports \/ reports' = <<>>
    BY DEF Unlink
<1>4. \A i \in 1..Len(answers') : \E j \in 1..Len(answers) : answers'[i] = answers[j]
    <2>1. CASE answers' = answers
        BY <2>1
    <2>2. CASE answers # <<>> /\ answers' = Tail(answers)
        <3>1. answers \in Seq(Nat) /\ Len(answers) \in Nat
            BY LenProperties DEF TypeOK
        <3>2. Len(Tail(answers)) = Len(answers) - 1
            BY <2>2, <3>1, HeadTailProperties
        <3>3. \A i \in 1..Len(Tail(answers)) : Tail(answers)[i] = answers[i + 1]
            BY <2>2, <3>1, HeadTailProperties
        <3>4. \A i \in 1..Len(Tail(answers)) : i + 1 \in 1..Len(answers)
            BY <3>1, <3>2
        <3> QED BY <2>2, <3>3, <3>4
    <2>3. CASE Unlink
        <3>1. answers' = <<>> /\ Len(<<>>) = 0
            BY <2>3 DEF Unlink
        <3> QED BY <3>1
    <2> QED BY <2>1, <2>2, <2>3
<1>5. CASE Up
    <2>1. LinkInv
        BY <1>5 DEF ExactInv
    <2>2. LinkInv'
        <3>1. \A d \in ingested' : Known(d)'
            BY <1>1, <2>1 DEF LinkInv, Known
        <3>2. \A i \in 1..Len(reports') : \A r \in reports'[i] :
                 /\ r \in unacked' \/ r \in ingested'
                 /\ \A u \in unacked' : u.seq <= r.seq => u \in reports'[i]
            <4>1. CASE reports' = reports
                BY <1>1, <2>1, <4>1 DEF LinkInv
            <4>2. CASE reports' = <<>>
                <5>1. Len(reports') = 0
                    BY <4>2
                <5> QED BY <5>1
            <4> QED BY <1>3, <4>1, <4>2
        <3>3. \A i \in 1..Len(answers') :
                 /\ answers'[i] < nextSeq'
                 /\ \A u \in unacked' : u.seq <= answers'[i] => u \in ingested'
            BY <1>1, <1>4, <2>1 DEF LinkInv
        <3> QED BY <3>1, <3>2, <3>3 DEF LinkInv
    <2> QED BY <1>1, <1>2, <1>5, <2>2 DEF ExactInv
<1>6. CASE ~Up
    <2>1. answers = <<>> /\ Len(<<>>) = 0
        BY <1>6 DEF ExactInv
    <2>2. answers' = <<>>
        BY <2>1 DEF Unlink
    <2> QED BY <1>1, <1>2, <1>6, <2>2 DEF ExactInv
<1> QED
    BY <1>5, <1>6

(* A report is a prefix of what is unacknowledged. *)
LEMMA BatchClosed ==
    ASSUME TypeOK, NEW u \in Batch(MaxItems), NEW v \in unacked, v.seq <= u.seq
    PROVE  v \in Batch(MaxItems)
<1> DEFINE A == {w \in unacked : w.seq < v.seq}
           B == {w \in unacked : w.seq < u.seq}
<1>1. IsFiniteSet(unacked) /\ unacked \subseteq Items /\ MaxItems \in Nat /\ u \in unacked
    BY UsageAssumption DEF TypeOK, WalTypeOK, Batch
<1>2. A \subseteq B
    <2>1. \A w \in unacked : w.seq \in Nat
        BY <1>1 DEF Items
    <2> QED BY <1>1, <2>1
<1>3. IsFiniteSet(B)
    BY <1>1, FS_Subset
<1>4. Cardinality(B) < MaxItems
    BY DEF Batch
<1> HIDE DEF A, B
<1>5. IsFiniteSet(A) /\ Cardinality(A) <= Cardinality(B)
    BY <1>2, <1>3, FS_Subset
<1>6. Cardinality(A) \in Nat /\ Cardinality(B) \in Nat
    BY <1>3, <1>5, FS_CardinalityType
<1>7. Cardinality(A) < MaxItems
    BY <1>1, <1>4, <1>5, <1>6
<1> QED
    BY <1>7 DEF Batch, A

LEMMA SendReportExact ==
    ASSUME TypeOK, TypeOK', CoreInv, ExactInv, SendReport
    PROVE  ExactInv'
<1>1. /\ UNCHANGED <<walVars, process, ingested, answers>>
      /\ reports' = reports \/ reports' = Append(reports, Batch(MaxItems))
    BY DEF SendReport
<1>2. CASE reports' = reports
    BY <1>1, <1>2, LinkStepExact
<1>3. CASE reports' = Append(reports, Batch(MaxItems))
    <2> DEFINE b == Batch(MaxItems)
               n == Len(reports)
    <2>1. /\ file' = file /\ synced' = synced /\ attached' = attached /\ nextSeq' = nextSeq
          /\ ackThrough' = ackThrough /\ unacked' = unacked /\ ingested' = ingested
          /\ answers' = answers /\ (Up' <=> Up) /\ Views' = Views
        BY <1>1, FileKept DEF walVars, Up
    <2>2. Up
        BY UpWhenBusy DEF SendReport, Flushers
    <2>3. b \subseteq unacked
        BY DEF Batch
    <2>4. \A r \in b : \A u \in unacked : u.seq <= r.seq => u \in b
        BY BatchClosed
    <2> HIDE DEF b
    <2>5. /\ reports \in Seq(SUBSET Items) /\ b \in SUBSET Items
          /\ n \in Nat /\ reports' = Append(reports, b)
        BY <1>3, <2>3, LenProperties DEF TypeOK, WalTypeOK, b
    <2>6. Len(reports') = n + 1
        BY <2>5, AppendProperties
    <2>7. /\ \A i \in 1..n : reports'[i] = reports[i]
          /\ reports'[n + 1] = b
        BY <2>5, AppendProperties
    <2>8. \A i \in 1..(n + 1) : i \in 1..n \/ i = n + 1
        BY <2>5
    <2>9. LinkInv /\ attached /\ WellFormed(file) /\ \A g \in Views : LoggedIn(g)
        BY <2>2 DEF ExactInv
    <2> HIDE DEF n
    <2>10. \A i \in 1..(n + 1) : \A r \in reports'[i] :
              /\ r \in unacked \/ r \in ingested
              /\ \A u \in unacked : u.seq <= r.seq => u \in reports'[i]
        <3> SUFFICES ASSUME NEW i \in 1..(n + 1), NEW r \in reports'[i]
                     PROVE  /\ r \in unacked \/ r \in ingested
                            /\ \A u \in unacked : u.seq <= r.seq => u \in reports'[i]
            OBVIOUS
        <3>1. CASE i \in 1..n
            BY <2>7, <2>9, <3>1 DEF LinkInv, n
        <3>2. CASE i = n + 1
            BY <2>3, <2>4, <2>7, <3>2
        <3> QED BY <2>8, <3>1, <3>2
    <2>11. LinkInv'
        <3>1. \A d \in ingested' : Known(d)'
            BY <2>1, <2>9 DEF LinkInv, Known
        <3>2. \A i \in 1..Len(answers') :
                 /\ answers'[i] < nextSeq'
                 /\ \A u \in unacked' : u.seq <= answers'[i] => u \in ingested'
            BY <2>1, <2>9 DEF LinkInv
        <3> QED BY <2>1, <2>6, <2>10, <3>1, <3>2 DEF LinkInv
    <2>12. \A g \in Views' : LoggedIn(g)'
        BY <2>1, <2>9 DEF LoggedIn
    <2> QED BY <2>1, <2>2, <2>9, <2>11, <2>12, UpExact
<1> QED
    BY <1>1, <1>2, <1>3

(* The Platform's answer follows what it billed, and a number it has       *)
(* billed before named the same item.                                      *)
LEMMA PlatformIngestsExact ==
    ASSUME TypeOK, TypeOK', CoreInv, ExactInv, PlatformIngests
    PROVE  ExactInv'
<1> DEFINE head == Head(reports)
           n == Len(reports)
           m == Len(answers)
<1>1. /\ file' = file /\ synced' = synced /\ attached' = attached /\ nextSeq' = nextSeq
      /\ ackThrough' = ackThrough /\ unacked' = unacked
      /\ (Up' <=> Up) /\ Views' = Views /\ reports # <<>> /\ reports' = Tail(reports)
    BY FileKept DEF PlatformIngests, walVars, Up
<1>2. Up
    BY <1>1, UpWhenBusy
<1>3. LinkInv /\ attached /\ WellFormed(file) /\ MemoryInv /\ \A g \in Views : LoggedIn(g)
    BY <1>2 DEF ExactInv, CoreInv
<1>4. /\ ingested' = ingested \cup {u \in head : \A d \in ingested :
                                       ~(d.seq = u.seq /\ d.account = u.account)}
      /\ \E u \in head : answers' = Append(answers, u.seq)
    BY DEF PlatformIngests
<1>5. /\ reports \in Seq(SUBSET Items) /\ answers \in Seq(Nat) /\ n \in Nat /\ m \in Nat
      /\ ackThrough \in Nat /\ nextSeq \in Nat /\ unacked \subseteq Items
      /\ ingested \subseteq Items
    BY LenProperties DEF TypeOK, WalTypeOK
<1>6. /\ n > 0 /\ head = reports[1] /\ 1 \in 1..n /\ head \subseteq Items
    <2>1. n # 0
        BY <1>1, <1>5, EmptySeq
    <2>2. head \in SUBSET Items /\ head = reports[1]
        BY <1>1, <1>5, HeadTailProperties
    <2> QED BY <1>5, <2>1, <2>2
<1>7. /\ Len(reports') = n - 1
      /\ \A i \in 1..(n - 1) : i + 1 \in 1..n /\ reports'[i] = reports[i + 1]
    <2>1. Len(Tail(reports)) = n - 1
        BY <1>1, <1>5, HeadTailProperties
    <2>2. \A i \in 1..Len(Tail(reports)) : Tail(reports)[i] = reports[i + 1]
        BY <1>1, <1>5, HeadTailProperties
    <2>3. \A i \in 1..(n - 1) : i + 1 \in 1..n
        BY <1>5
    <2> QED BY <1>1, <2>1, <2>2, <2>3
<1> HIDE DEF head, n
<1>8. /\ \A r \in head : r \in unacked \/ r \in ingested
      /\ \A r \in head : \A u \in unacked : u.seq <= r.seq => u \in head
    BY <1>3, <1>6 DEF LinkInv, n
<1>9. ingested \subseteq ingested' /\ ingested' \subseteq ingested \cup unacked
    BY <1>4, <1>8
<1>10. \A u \in unacked : u \in head => u \in ingested'
    <2> SUFFICES ASSUME NEW u \in unacked, u \in head, u \notin ingested' PROVE FALSE
        OBVIOUS
    <2>1. PICK d \in ingested : d.seq = u.seq /\ d.account = u.account
        BY <1>4
    <2>2. d.seq <= ackThrough \/ d \in unacked
        BY <1>3 DEF LinkInv, Known
    <2>3. u.seq \in Nat /\ ackThrough < u.seq
        BY <1>3, <1>5 DEF MemoryInv, Items
    <2>4. d \in unacked
        BY <1>5, <2>1, <2>2, <2>3
    <2>5. d = u
        BY <1>3, <2>1, <2>4 DEF MemoryInv
    <2> QED BY <1>9, <2>5
<1>11. \A d \in ingested : d.seq <= ackThrough \/ d \in unacked
    BY <1>3 DEF LinkInv, Known
<1>12. PICK top \in head : answers' = Append(answers, top.seq)
    BY <1>4
<1>13. top.seq \in Nat /\ top.seq < nextSeq
    <2>1. top.seq \in Nat
        BY <1>6 DEF Items
    <2>2. top.seq <= ackThrough \/ top \in unacked
        BY <1>8, <1>11
    <2>3. ackThrough < nextSeq /\ (top \in unacked => top.seq < nextSeq)
        BY <1>3 DEF MemoryInv
    <2> QED BY <1>5, <2>1, <2>2, <2>3
<1>14. /\ Len(answers') = m + 1 /\ answers'[m + 1] = top.seq
       /\ \A i \in 1..m : answers'[i] = answers[i]
    BY <1>5, <1>12, <1>13, AppendProperties
<1>15. \A i \in 1..(m + 1) : i \in 1..m \/ i = m + 1
    BY <1>5
<1> HIDE DEF m
<1>16. LinkInv'
    <2>1. \A d \in ingested' : Known(d)'
        BY <1>1, <1>9, <1>11 DEF Known
    <2>2. \A i \in 1..(n - 1) : \A r \in reports'[i] :
              /\ r \in unacked \/ r \in ingested'
              /\ \A u \in unacked : u.seq <= r.seq => u \in reports'[i]
        BY <1>3, <1>7, <1>9 DEF LinkInv, n
    <2>3. ASSUME NEW i \in 1..(m + 1)
          PROVE  /\ answers'[i] < nextSeq
                 /\ \A u \in unacked : u.seq <= answers'[i] => u \in ingested'
        <3>1. CASE i \in 1..m
            BY <1>3, <1>9, <1>14, <3>1 DEF LinkInv, m
        <3>2. CASE i = m + 1
            BY <1>8, <1>10, <1>13, <1>14, <3>2
        <3> QED BY <1>15, <3>1, <3>2
    <2> QED BY <1>1, <1>7, <1>14, <2>1, <2>2, <2>3 DEF LinkInv
<1>17. \A g \in Views' : LoggedIn(g)'
    BY <1>1, <1>3, <1>9 DEF LoggedIn
<1> QED
    BY <1>1, <1>2, <1>3, <1>16, <1>17, UpExact

(* A failure between lines leaves every line whole. *)
LEMMA CleanFailure ==
    ASSUME TypeOK, attached, WellFormed(file), NEW tokens \in Seq(Tokens), WellFormed(tokens),
           AppendFailed(tokens, FALSE)
    PROVE  WellFormed(file')
<1>1. PICK got \in Between(tokens) : file' = file \o got
    BY DEF AppendFailed, Fragments, Between
<1>2. file \in Seq(Tokens)
    BY DEF TypeOK, WalTypeOK
<1>3. got \in Seq(Tokens) /\ WellFormed(got)
    BY FragmentShape
<1> QED
    BY <1>1, <1>2, <1>3, WellFormedConcat

LEMMA RecordTakenExact ==
    ASSUME TypeOK, TypeOK', CoreInv, ExactInv, NEW f \in Flushers, RecordTaken(f)
    PROVE  ExactInv'
<1> DEFINE lines == UsageLines(taken)
           n == Len(taken)
           new == Fresh(taken, n)
<1>1. /\ stage[f] = "taken" /\ RecordItems(taken)
      /\ UNCHANGED <<process, reports, answers, ingested>>
    BY DEF RecordTaken, linkVars
<1>2. /\ stage \in [Flushers -> Stages] /\ taken \in Seq(Charges) /\ nextSeq \in Nat \ {0}
      /\ file \in Seq(Tokens) /\ unacked \subseteq Items /\ ingested \subseteq Items
      /\ ackThrough \in Nat /\ FlushInv /\ reports \in Seq(SUBSET Items) /\ answers \in Seq(Nat)
    BY DEF TypeOK, WalTypeOK, CoreInv
<1>3. Up /\ Up'
    <2>1. Up
        BY <1>1, UpWhenBusy
    <2> QED BY <1>1, <2>1 DEF Up
<1>4. /\ MemoryInv /\ attached /\ WellFormed(file) /\ LinkInv
      /\ \A g \in Views : LoggedIn(g)
    BY <1>3 DEF CoreInv, ExactInv
<1>5. n \in Nat /\ n > 0
    <2>1. Locks(f)
        BY <1>1 DEF Locks
    <2>2. taken # <<>>
        BY <1>2, <2>1 DEF FlushInv
    <2> QED BY <1>2, <2>2, LenProperties, EmptySeq
<1>6. lines \in Seq(Tokens) /\ WellFormed(lines) /\ Len(lines) = 2 * n /\ lines # <<>>
    <2>1. lines \in Seq(Tokens) /\ WellFormed(lines) /\ Len(lines) = 2 * n
        BY <1>2, UsageLinesShape
    <2>2. Len(lines) # 0
        BY <1>5, <2>1
    <2> QED BY <2>1, <2>2, EmptySeq
<1>7. /\ file' = file \o lines /\ synced' = Len(file \o lines) /\ attached' = attached
      /\ nextSeq' = nextSeq + n /\ ackThrough' = ackThrough
      /\ unacked' = {u \in unacked : \A v \in new : u.seq # v.seq} \cup new
    BY <1>1, <1>4 DEF RecordItems, Appended, Fresh
<1>8. /\ new \subseteq Items
      /\ \A u \in new : nextSeq <= u.seq /\ u.seq < nextSeq + n
    <2>1. n \in 0..Len(taken)
        BY <1>5
    <2> QED BY <1>2, <2>1, FreshTypes
<1> HIDE DEF lines, n, new
<1>9. \A u \in unacked : u.seq \in Nat /\ ackThrough < u.seq /\ u.seq < nextSeq
    BY <1>2, <1>4 DEF MemoryInv, Items
<1>10. \A u \in new : u.seq \in Nat /\ ~(u.seq < nextSeq)
    BY <1>2, <1>8 DEF Items
<1>11. unacked' = unacked \cup new
    BY <1>7, <1>9, <1>10
<1>12. \A d \in ingested : d.seq \in Nat /\ d.seq < nextSeq
    <2> TAKE d \in ingested
    <2>1. d.seq \in Nat
        BY <1>2 DEF Items
    <2>2. d.seq <= ackThrough \/ d \in unacked
        BY <1>4 DEF LinkInv, Known
    <2>3. ackThrough < nextSeq
        BY <1>4 DEF MemoryInv
    <2> QED BY <1>2, <1>9, <2>1, <2>2, <2>3
<1>13. WellFormed(file')
    BY <1>2, <1>4, <1>6, <1>7, WellFormedConcat
<1>14. LinkInv'
    <2>1. \A d \in ingested' : Known(d)'
        BY <1>1, <1>4, <1>7, <1>11 DEF LinkInv, Known
    <2>2. ASSUME NEW i \in 1..Len(reports), NEW r \in reports[i]
          PROVE  /\ r \in unacked' \/ r \in ingested
                 /\ \A u \in unacked' : u.seq <= r.seq => u \in reports[i]
        <3>1. /\ r \in unacked \/ r \in ingested
              /\ \A u \in unacked : u.seq <= r.seq => u \in reports[i]
            BY <1>4 DEF LinkInv
        <3>2. r.seq \in Nat /\ r.seq < nextSeq
            BY <1>9, <1>12, <3>1
        <3>3. \A u \in new : ~(u.seq <= r.seq)
            BY <1>2, <1>10, <3>2
        <3> QED BY <1>11, <3>1, <3>3
    <2>3. ASSUME NEW i \in 1..Len(answers)
          PROVE  /\ answers[i] < nextSeq + n
                 /\ \A u \in unacked' : u.seq <= answers[i] => u \in ingested
        <3>1. /\ answers[i] < nextSeq
              /\ \A u \in unacked : u.seq <= answers[i] => u \in ingested
            BY <1>4 DEF LinkInv
        <3>2. answers[i] \in Nat
            BY <1>2, ElementOfSeq
        <3>3. \A u \in new : ~(u.seq <= answers[i])
            BY <1>2, <1>10, <3>1, <3>2
        <3>4. answers[i] < nextSeq + n
            BY <1>2, <1>5, <3>1, <3>2
        <3> QED BY <1>11, <3>1, <3>3, <3>4
    <2> QED BY <1>1, <1>7, <2>1, <2>2, <2>3 DEF LinkInv
<1>15. ASSUME NEW g \in Views' PROVE LoggedIn(g)'
    <2>1. file \in Views /\ g = file \o lines
        BY <1>2, <1>6, <1>7, AppendedViews DEF Views
    <2>2. lines \in Between(lines)
        BY <1>6, CompleteFragment
    <2>3. PICK k \in 0..Len(taken) :
              /\ Len(lines) = 2 * k
              /\ Acks(file \o lines) = Acks(file)
              /\ \A u \in Items : u \in Entries(file \o lines) <=>
                    \/ u \in Fresh(taken, k)
                    \/ u \in Entries(file) /\ ~(nextSeq <= u.seq /\ u.seq < nextSeq + k)
        BY <1>2, <2>2, OfferedLines DEF lines
    <2>4. k = n
        BY <1>5, <1>6, <2>3
    <2>5. \A u \in Items : u \in Entries(g) <=>
              u \in new \/ (u \in Entries(file) /\ ~(nextSeq <= u.seq /\ u.seq < nextSeq + n))
        BY <2>1, <2>3, <2>4 DEF new
    <2>6. Entries(g) \subseteq Items
        <3>1. file' \in Seq(Tokens)
            BY DEF TypeOK, WalTypeOK
        <3> QED BY <3>1, ViewTypes, EntryTypes DEF Views
    <2>7. /\ unacked \subseteq Entries(file)
          /\ \A u \in Entries(file) : ackThrough < u.seq /\ u.seq < nextSeq => u \in unacked
          /\ ackThrough > 0 => ackThrough \in Acks(file)
          /\ \A m \in Acks(file) : /\ m < nextSeq
                                   /\ \A u \in unacked : u.seq <= m => u \in ingested
        BY <1>4, <2>1 DEF LoggedIn
    <2>8. unacked' \subseteq Entries(g)
        <3>1. \A u \in unacked : ~(nextSeq <= u.seq)
            BY <1>2, <1>9
        <3> QED BY <1>2, <1>8, <1>11, <2>5, <2>7, <3>1
    <2>9. ASSUME NEW u \in Entries(g), ackThrough < u.seq, u.seq < nextSeq + n
          PROVE  u \in unacked'
        <3>1. u.seq \in Nat
            BY <2>6 DEF Items
        <3>2. u \in new \/ (u \in Entries(file) /\ ~(nextSeq <= u.seq))
            BY <2>5, <2>6, <2>9
        <3>3. ~(nextSeq <= u.seq) => u.seq < nextSeq
            BY <1>2, <3>1
        <3> QED BY <1>11, <2>7, <2>9, <3>2, <3>3
    <2>10. ASSUME NEW m \in Acks(file)
           PROVE  m < nextSeq + n /\ \A u \in unacked' : u.seq <= m => u \in ingested
        <3>1. m \in Nat /\ m < nextSeq
            BY <1>2, <2>7, EntryTypes
        <3>2. \A u \in new : ~(u.seq <= m)
            BY <1>2, <1>10, <3>1
        <3>3. m < nextSeq + n
            BY <1>2, <1>5, <3>1
        <3> QED BY <1>11, <2>7, <3>2, <3>3
    <2>11. Acks(g) = Acks(file)
        BY <2>1, <2>3
    <2> QED BY <1>1, <1>7, <2>7, <2>8, <2>9, <2>10, <2>11 DEF LoggedIn
<1> QED
    BY <1>3, <1>4, <1>7, <1>13, <1>14, <1>15, UpExact

(* An append that failed between lines: memory is unchanged, the messages  *)
(* stay or are lost with the connection.                                   *)
LEMMA FailedExact ==
    ASSUME TypeOK, TypeOK', CoreInv, ExactInv, Up, Up', NEW tokens \in Seq(Tokens),
           WellFormed(tokens), AppendFailed(tokens, FALSE),
           ingested' = ingested, Unlink \/ UNCHANGED <<reports, answers>>,
           \A h \in Between(tokens) : LoggedIn(file) => LoggedIn(file \o h)
    PROVE  ExactInv'
<1>1. attached /\ WellFormed(file) /\ LinkInv /\ \A g \in Views : LoggedIn(g)
    BY DEF ExactInv
<1>2. /\ attached' = attached /\ UNCHANGED memoryVars
      /\ \A g \in Views' :
            \/ g \in Views
            \/ attached /\ file \in Views /\ \E h \in Between(tokens) : g = file \o h
    BY FailedFile
<1>3. nextSeq' = nextSeq /\ ackThrough' = ackThrough /\ unacked' = unacked
    BY <1>2 DEF memoryVars
<1>4. WellFormed(file')
    BY <1>1, CleanFailure
<1>5. \A g \in Views' : LoggedIn(g)
    BY <1>1, <1>2
<1>6. \A g \in Views' : LoggedIn(g)'
    BY <1>3, <1>5 DEF LoggedIn
<1>7. LinkInv'
    <2>1. \A d \in ingested' : Known(d)'
        BY <1>1, <1>3 DEF LinkInv, Known
    <2>2. CASE UNCHANGED <<reports, answers>>
        BY <1>1, <1>3, <2>1, <2>2 DEF LinkInv
    <2>3. CASE Unlink
        <3>1. reports' = <<>> /\ answers' = <<>> /\ Len(<<>>) = 0
            BY <2>3 DEF Unlink
        <3> QED BY <2>1, <3>1 DEF LinkInv
    <2> QED BY <2>2, <2>3
<1> QED
    BY <1>1, <1>2, <1>4, <1>6, <1>7, UpExact

LEMMA RecordTakenFailsExact ==
    ASSUME CleanFaults, TypeOK, TypeOK', CoreInv, ExactInv, NEW f \in Flushers,
           RecordTakenFails(f)
    PROVE  ExactInv'
<1> DEFINE lines == UsageLines(taken)
<1>1. /\ stage[f] = "taken" /\ AppendFailed(lines, FALSE)
      /\ Unlink \/ UNCHANGED <<reports, answers>>
      /\ UNCHANGED <<process, ingested>>
    BY DEF RecordTakenFails, RecordItemsFails, Fault, CleanFaults, linkVars
<1>2. /\ taken \in Seq(Charges) /\ nextSeq \in Nat \ {0} /\ file \in Seq(Tokens)
      /\ ackThrough \in Nat /\ unacked \subseteq Items
    BY DEF TypeOK, WalTypeOK
<1>3. Up /\ Up' /\ MemoryInv
    <2>1. Up
        BY <1>1, UpWhenBusy
    <2> QED BY <1>1, <2>1 DEF Up, CoreInv
<1>4. lines \in Seq(Tokens) /\ WellFormed(lines)
    BY <1>2, UsageLinesShape
<1> HIDE DEF lines
<1>5. ASSUME NEW h \in Between(lines), LoggedIn(file) PROVE LoggedIn(file \o h)
    <2>1. PICK k \in 0..Len(taken) :
              /\ Acks(file \o h) = Acks(file)
              /\ \A u \in Items : u \in Entries(file \o h) <=>
                    \/ u \in Fresh(taken, k)
                    \/ u \in Entries(file) /\ ~(nextSeq <= u.seq /\ u.seq < nextSeq + k)
        BY <1>2, OfferedLines DEF lines
    <2>2. \A u \in Fresh(taken, k) : nextSeq <= u.seq
        BY <1>2, FreshTypes
    <2>3. Entries(file \o h) \subseteq Items
        <3>1. h \in Seq(Tokens)
            BY <1>4, FragmentShape
        <3>2. file \o h \in Seq(Tokens)
            BY <1>2, <3>1, ConcatProperties
        <3> QED BY <3>2, EntryTypes
    <2>4. \A u \in unacked : u.seq \in Nat /\ ~(nextSeq <= u.seq)
        BY <1>2, <1>3 DEF MemoryInv, Items
    <2>5. unacked \subseteq Entries(file \o h)
        BY <1>2, <1>5, <2>1, <2>4 DEF LoggedIn
    <2>6. ASSUME NEW u \in Entries(file \o h), u.seq < nextSeq PROVE u \in Entries(file)
        <3>1. u.seq \in Nat /\ ~(nextSeq <= u.seq)
            BY <1>2, <2>3, <2>6 DEF Items
        <3> QED BY <2>1, <2>2, <2>3, <3>1
    <2> QED BY <1>5, <2>1, <2>5, <2>6 DEF LoggedIn
<1> QED
    BY <1>1, <1>3, <1>4, <1>5, FailedExact

LEMMA ApplyAckFailsExact ==
    ASSUME CleanFaults, TypeOK, TypeOK', CoreInv, ExactInv, ApplyAckFails
    PROVE  ExactInv'
<1> DEFINE n == Head(answers)
           lines == Lines(<<Ack(n)>>)
<1>1. /\ Up /\ Up' /\ answers # <<>> /\ Unlink /\ ingested' = ingested
      /\ AppendFailed(lines, FALSE)
    BY DEF ApplyAckFails, Answering, AckThroughFails, Fault, CleanFaults, Up
<1>2. file \in Seq(Tokens) /\ answers \in Seq(Nat) /\ nextSeq \in Nat
    BY DEF TypeOK, WalTypeOK
<1>3. /\ n \in Nat /\ n < nextSeq
      /\ \A u \in unacked : u.seq <= n => u \in ingested
    <2>1. n \in Nat /\ n = answers[1] /\ Len(answers) \in Nat /\ Len(answers) # 0
        BY <1>1, <1>2, HeadTailProperties, LenProperties, EmptySeq
    <2>2. 1 \in 1..Len(answers)
        BY <2>1
    <2>3. LinkInv
        BY <1>1 DEF ExactInv
    <2> QED BY <2>1, <2>2, <2>3 DEF LinkInv
<1> HIDE DEF n
<1>4. lines \in Seq(Tokens) /\ WellFormed(lines)
    BY <1>3, AckLinesShape
<1> HIDE DEF lines
<1>5. ASSUME NEW h \in Between(lines), LoggedIn(file) PROVE LoggedIn(file \o h)
    <2>1. /\ \A u \in Items : u \in Entries(file \o h) <=> u \in Entries(file)
          /\ Acks(file \o h) = Acks(file) \/ Acks(file \o h) = Acks(file) \cup {n}
        BY <1>2, <1>3, AckedLines DEF lines
    <2>2. Entries(file) \subseteq Items /\ Entries(file \o h) \subseteq Items
        <3>1. h \in Seq(Tokens)
            BY <1>4, FragmentShape
        <3>2. file \o h \in Seq(Tokens)
            BY <1>2, <3>1, ConcatProperties
        <3> QED BY <1>2, <3>2, EntryTypes
    <2>3. Entries(file \o h) = Entries(file)
        BY <2>1, <2>2
    <2>4. Acks(file) \subseteq Acks(file \o h) /\ Acks(file \o h) \subseteq Acks(file) \cup {n}
        BY <2>1
    <2> QED BY <1>3, <1>5, <2>3, <2>4 DEF LoggedIn
<1> QED
    BY <1>1, <1>4, <1>5, FailedExact

LEMMA ApplyAckExact ==
    ASSUME TypeOK, TypeOK', CoreInv, ExactInv, ApplyAck
    PROVE  ExactInv'
<1> DEFINE n == Head(answers)
           lines == Lines(<<Ack(n)>>)
<1>1. /\ Up /\ Up' /\ answers # <<>> /\ UNCHANGED <<process, ingested>>
      /\ (UNCHANGED reports /\ answers' = Tail(answers)) \/ Unlink
      /\ \/ AckThrough(n) /\ answers' = Tail(answers) /\ reports' = reports
         \/ UNCHANGED walVars
    BY DEF ApplyAck, Answering, Up
<1>2. /\ file \in Seq(Tokens) /\ answers \in Seq(Nat) /\ nextSeq \in Nat /\ ackThrough \in Nat
      /\ unacked \subseteq Items /\ ingested \subseteq Items
    BY DEF TypeOK, WalTypeOK
<1>3. /\ MemoryInv /\ attached /\ WellFormed(file) /\ LinkInv
      /\ \A g \in Views : LoggedIn(g)
    BY <1>1 DEF CoreInv, ExactInv
<1>4. /\ n \in Nat /\ n < nextSeq
      /\ \A u \in unacked : u.seq <= n => u \in ingested
    <2>1. n \in Nat /\ n = answers[1] /\ Len(answers) \in Nat /\ Len(answers) # 0
        BY <1>1, <1>2, HeadTailProperties, LenProperties, EmptySeq
    <2>2. 1 \in 1..Len(answers)
        BY <2>1
    <2> QED BY <1>3, <2>1, <2>2 DEF LinkInv
<1> HIDE DEF n
<1>5. CASE UNCHANGED walVars
    BY <1>1, <1>5, LinkStepExact
<1>6. CASE AckThrough(n) /\ answers' = Tail(answers) /\ reports' = reports
    <2>1. /\ n > ackThrough /\ ackThrough' = n /\ nextSeq' = nextSeq
          /\ unacked' = {u \in unacked : u.seq > n}
          /\ file' = file \o lines /\ synced' = Len(file \o lines) /\ attached' = attached
        BY <1>3, <1>6 DEF AckThrough, Appended
    <2>2. lines \in Seq(Tokens) /\ WellFormed(lines) /\ Len(lines) = 2 /\ lines # <<>>
        BY <1>4, AckLinesShape, EmptySeq
    <2> HIDE DEF lines
    <2>3. WellFormed(file')
        BY <1>2, <1>3, <2>1, <2>2, WellFormedConcat
    <2>4. \A u \in unacked : u.seq \in Nat /\ (u.seq <= n \/ u \in unacked')
        BY <1>2, <1>4, <2>1 DEF Items
    <2>5. unacked' \subseteq unacked /\ \A u \in unacked' : ~(u.seq <= n)
        BY <1>4, <2>1, <2>4
    <2>6. LinkInv'
        <3>1. ASSUME NEW d \in ingested PROVE d.seq <= n \/ d \in unacked'
            <4>1. d.seq \in Nat
                BY <1>2 DEF Items
            <4>2. d.seq <= ackThrough \/ d \in unacked
                BY <1>3 DEF LinkInv, Known
            <4>3. d.seq <= ackThrough => d.seq <= n
                BY <1>2, <1>4, <2>1, <4>1
            <4> QED BY <2>4, <4>2, <4>3
        <3>2. ASSUME NEW i \in 1..Len(reports), NEW r \in reports[i]
              PROVE  /\ r \in unacked' \/ r \in ingested
                     /\ \A u \in unacked' : u.seq <= r.seq => u \in reports[i]
            BY <1>3, <1>4, <2>4, <2>5 DEF LinkInv
        <3>3. ASSUME NEW i \in 1..Len(answers')
              PROVE  /\ answers'[i] < nextSeq
                     /\ \A u \in unacked' : u.seq <= answers'[i] => u \in ingested
            <4>1. Len(answers) \in Nat /\ Len(answers') = Len(answers) - 1
                BY <1>1, <1>2, <1>6, HeadTailProperties, LenProperties
            <4>2. answers'[i] = answers[i + 1]
                BY <1>1, <1>2, <1>6, HeadTailProperties
            <4>3. i + 1 \in 1..Len(answers)
                BY <4>1
            <4> QED BY <1>3, <2>5, <4>2, <4>3 DEF LinkInv
        <3> QED BY <1>1, <1>6, <2>1, <3>1, <3>2, <3>3 DEF LinkInv, Known
    <2>7. ASSUME NEW g \in Views' PROVE LoggedIn(g)'
        <3>1. file \in Views /\ g = file \o lines
            BY <1>2, <2>1, <2>2, AppendedViews DEF Views
        <3>2. lines \in Between(lines)
            BY <2>2, CompleteFragment
        <3>3. /\ \A u \in Items : u \in Entries(file \o lines) <=> u \in Entries(file)
              /\ Acks(file \o lines) = Acks(file) \cup {n}
            BY <1>2, <1>4, <3>2, AckedLines DEF lines
        <3>4. Entries(file) \subseteq Items /\ Entries(file \o lines) \subseteq Items
            <4>1. file \o lines \in Seq(Tokens)
                BY <1>2, <2>2, ConcatProperties
            <4> QED BY <1>2, <4>1, EntryTypes
        <3>5. Entries(g) = Entries(file) /\ Acks(g) = Acks(file) \cup {n}
            BY <3>1, <3>3, <3>4
        <3>6. /\ unacked \subseteq Entries(file)
              /\ \A u \in Entries(file) : ackThrough < u.seq /\ u.seq < nextSeq => u \in unacked
              /\ \A m \in Acks(file) : /\ m < nextSeq
                                       /\ \A u \in unacked : u.seq <= m => u \in ingested
            BY <1>3, <3>1 DEF LoggedIn
        <3>7. \A u \in Entries(g) : n < u.seq /\ u.seq < nextSeq => u \in unacked'
            <4> SUFFICES ASSUME NEW u \in Entries(g), n < u.seq, u.seq < nextSeq
                         PROVE  u \in unacked'
                OBVIOUS
            <4>1. u.seq \in Nat /\ u \in Entries(file)
                BY <3>4, <3>5 DEF Items
            <4>2. ackThrough < u.seq /\ u.seq > n
                BY <1>2, <1>4, <2>1, <4>1
            <4> QED BY <2>1, <3>6, <4>1, <4>2
        <3>8. \A m \in Acks(g) : /\ m < nextSeq
                                 /\ \A u \in unacked' : u.seq <= m => u \in ingested
            BY <1>4, <2>5, <3>5, <3>6
        <3> QED BY <1>1, <2>1, <2>5, <3>5, <3>6, <3>7, <3>8 DEF LoggedIn
    <2> QED BY <1>1, <1>3, <2>1, <2>3, <2>6, <2>7, UpExact
<1> QED
    BY <1>1, <1>5, <1>6

(* A compacted log is what memory has. *)
LEMMA CompactLogExact ==
    ASSUME TypeOK, TypeOK', CoreInv, ExactInv, CompactLog
    PROVE  ExactInv'
<1>1. /\ stage["control"] = "compacting" /\ Compacted /\ attached' = TRUE
      /\ nextSeq' = nextSeq /\ ackThrough' = ackThrough /\ unacked' = unacked
      /\ UNCHANGED <<process, reports, answers, ingested>>
    BY DEF CompactLog, Compact, memoryVars, linkVars
<1>2. Up /\ Up' /\ MemoryInv /\ LinkInv
    <2>1. Up
        BY <1>1, UpWhenBusy DEF Flushers
    <2> QED BY <1>1, <2>1 DEF Up, CoreInv, ExactInv
<1>3. WalTypeOK /\ ackThrough \in Nat /\ nextSeq \in Nat /\ unacked \subseteq Items
    BY DEF TypeOK, WalTypeOK
<1>4. /\ WellFormed(file') /\ Entries(file') = unacked /\ Acks(file') = {ackThrough}
      /\ \A g \in ViewsOf(file', synced') : g = file'
    BY <1>1, <1>2, <1>3, CompactedContents
<1>5. LinkInv'
    BY <1>1, <1>2 DEF LinkInv, Known
<1>6. ackThrough < nextSeq /\ \A u \in unacked : ~(u.seq <= ackThrough)
    BY <1>2, <1>3 DEF MemoryInv, Items
<1>7. \A g \in Views' : LoggedIn(g)'
    BY <1>1, <1>4, <1>6 DEF Views, LoggedIn
<1> QED
    BY <1>1, <1>2, <1>4, <1>5, <1>7, UpExact

LEMMA CompactLogFailsExact ==
    ASSUME CleanFaults, TypeOK, ExactInv, CompactLogFails
    PROVE  ExactInv'
<1>1. UNCHANGED <<walVars, process, ingested>> /\ Unlink
    BY DEF CompactLogFails, Fault, CleanFaults
<1> QED
    BY <1>1, LinkStepExact

-----------------------------------------------------------------------------
(* Stops and starts. *)

(* A file of whole lines stays readable, wherever a power loss cuts it. *)
LEMMA CutReadable ==
    ASSUME NEW f \in Seq(Tokens), WellFormed(f), NEW n \in 0..Len(f), NEW f2 \in Seq(Tokens),
           f2 = SubSeq(f, 1, n) \/ f2 = Append(SubSeq(f, 1, n), Part)
    PROVE  ~Corrupt(f2)
<1> SUFFICES ASSUME NEW i \in 1..Len(f2), NEW j \in 1..Len(f2), i < j,
                    Spoils(f2, i), f2[j] = Newline
             PROVE  FALSE
    BY DEF Corrupt
<1>1. /\ SubSeq(f, 1, n) \in Seq(Tokens) /\ Len(SubSeq(f, 1, n)) = n
      /\ \A k \in 1..n : SubSeq(f, 1, n)[k] = f[k]
    BY PrefixShape
<1>2. /\ Len(f) \in Nat /\ n \in Nat
      /\ Len(f2) = n \/ (Len(f2) = n + 1 /\ f2[n + 1] = Part)
      /\ \A k \in 1..n : f2[k] = f[k]
    <2>1. Len(f) \in Nat /\ n \in Nat
        BY LenProperties
    <2>2. CASE f2 = SubSeq(f, 1, n)
        BY <1>1, <2>1, <2>2
    <2>3. CASE f2 = Append(SubSeq(f, 1, n), Part)
        <3> DEFINE p == SubSeq(f, 1, n)
        <3>1. p \in Seq(Tokens) /\ Len(p) = n /\ \A k \in 1..n : p[k] = f[k]
            BY <1>1
        <3> HIDE DEF p
        <3>2. Part \in Tokens
            BY TokenTypes
        <3>3. /\ Len(Append(p, Part)) = Len(p) + 1
              /\ \A k \in 1..Len(p) : Append(p, Part)[k] = p[k]
              /\ Append(p, Part)[Len(p) + 1] = Part
            BY <3>1, <3>2, LongerShape
        <3>4. f2 = Append(p, Part)
            BY <2>3 DEF p
        <3> QED BY <2>1, <3>1, <3>3, <3>4
    <2> QED BY <2>1, <2>2, <2>3
<1>3. Part # Newline
    BY DEF Part, Newline
<1>4. j \in 1..n /\ i \in 1..n /\ i + 1 \in 1..n
    <2>1. j # n + 1 \/ Len(f2) = n
        BY <1>2, <1>3
    <2>2. i \in Nat /\ j \in Nat /\ Len(f2) \in Nat /\ 1 <= i /\ j <= Len(f2)
        BY <1>2
    <2>3. j <= n
        BY <1>2, <2>1, <2>2
    <2> QED BY <1>2, <2>2, <2>3
<1>5. i \in 1..Len(f) /\ i < Len(f) /\ i < Len(f2)
    BY <1>2, <1>4
<1>6. ~Spoils(f, i)
    BY <1>5, WellFormedWhole
<1>7. f2[i] = f[i] /\ f2[i + 1] = f[i + 1] /\ (i > 1 => f2[i - 1] = f[i - 1])
    <2>1. i > 1 => i - 1 \in 1..n
        BY <1>2, <1>4
    <2> QED BY <1>2, <1>4, <2>1
<1>8. Spoils(f, i)
    BY <1>5, <1>7 DEF Spoils, Whole
<1> QED
    BY <1>6, <1>8

LEMMA StopExact ==
    ASSUME ExactInv, attached', ProcessGone, ~Corrupt(file'), Views' \subseteq Views
    PROVE  ExactInv'
<1>1. ~Up' /\ ingested' = ingested /\ answers' = <<>>
    BY DEF ProcessGone, Up, Unlink
<1>2. \A g \in Views' : BilledIn(g)'
    BY <1>1 DEF ExactInv, BilledIn
<1> QED
    BY <1>1, <1>2 DEF ExactInv

LEMMA EndsExact ==
    ASSUME TypeOK, ExactInv, Up, ProcessEnds, ProcessGone
    PROVE  ExactInv'
<1>1. file' = file /\ synced' = synced /\ attached' = TRUE
    BY DEF ProcessEnds
<1>2. file \in Seq(Tokens) /\ WellFormed(file)
    BY DEF TypeOK, WalTypeOK, ExactInv
<1>3. ~Corrupt(file') /\ Views' \subseteq Views
    BY <1>1, <1>2, WellFormedWhole, FileKept
<1> QED
    BY <1>1, <1>3, StopExact

(* What a power loss leaves could have been found before. *)
LEMMA PowerShrinks ==
    ASSUME TypeOK, CoreInv, Up, PowerFails, "power" \in Faults
    PROVE  Views' \subseteq Views
<1>1. /\ file \in Seq(Tokens) /\ synced \in 0..Len(file)
      /\ (synced > 0 => file[synced] = Newline)
    BY DEF TypeOK, WalTypeOK, CoreInv, FileInv
<1>2. PICK n \in synced..Len(file) :
          file' = SubSeq(file, 1, n) \/ file' = Append(SubSeq(file, 1, n), Part)
    BY DEF PowerFails
<1>3. synced' = Len(file')
    BY DEF PowerFails
<1> SUFFICES ASSUME NEW g \in ViewsOf(file', Len(file')) PROVE g \in ViewsOf(file, synced)
    BY <1>3 DEF Views
<1> QED
    BY <1>1, <1>2, PowerViews

LEMMA PowerExact ==
    ASSUME TypeOK, TypeOK', CoreInv, ExactInv, Up, PowerFails, ProcessGone, "power" \in Faults
    PROVE  ExactInv'
<1>1. /\ file \in Seq(Tokens) /\ Len(file) \in Nat /\ synced \in 0..Len(file)
      /\ WellFormed(file) /\ file' \in Seq(Tokens)
    BY LenProperties DEF TypeOK, WalTypeOK, ExactInv
<1>2. PICK n \in synced..Len(file) :
          file' = SubSeq(file, 1, n) \/ file' = Append(SubSeq(file, 1, n), Part)
    BY DEF PowerFails
<1>3. attached' = TRUE
    BY DEF PowerFails
<1>4. n \in 0..Len(file)
    BY <1>1
<1>5. ~Corrupt(file')
    BY <1>1, <1>2, <1>4, CutReadable
<1>6. Views' \subseteq Views
    BY PowerShrinks
<1> QED
    BY <1>3, <1>5, <1>6, StopExact

(* A start finds what was billed in the log it goes on with. *)
LEMMA RestartExact ==
    ASSUME TypeOK, TypeOK', CoreInv, ExactInv, Restart
    PROVE  ExactInv'
<1>1. /\ ~Up /\ Up' /\ Open /\ attached'
      /\ UNCHANGED <<reports, answers, ingested>>
    BY DEF Restart, Up, linkVars, Open
<1>2. /\ WalTypeOK /\ NoBlank(file) /\ ("power" \in Faults => synced = Len(file))
      /\ reports = <<>> /\ answers = <<>> /\ ingested \subseteq Items
      /\ \A g \in Views : BilledIn(g)
    BY <1>1 DEF TypeOK, CoreInv, FileInv, DownInv, ExactInv
<1>3. /\ file' \in Seq(Tokens) /\ WellFormed(file') /\ file' \in Views
      /\ \A g \in ViewsOf(file', synced') : g = file'
      /\ ackThrough' \in Nat /\ nextSeq' \in Nat /\ ackThrough' < nextSeq'
      /\ ackThrough' > 0 => ackThrough' \in Acks(file')
      /\ \A n \in Acks(file') : n <= ackThrough'
      /\ unacked' = {u \in Entries(file') : u.seq > ackThrough'}
    BY <1>1, <1>2, OpenContents
<1>4. Entries(file') \subseteq Items /\ Acks(file') \subseteq Nat
    BY <1>3, EntryTypes
<1>5. ASSUME NEW d \in ingested PROVE d.seq <= ackThrough' \/ d \in unacked'
    <2>1. d.seq \in Nat
        BY <1>2 DEF Items
    <2>2. d \in Entries(file') \/ \E n \in Acks(file') : d.seq <= n
        BY <1>2, <1>3 DEF BilledIn
    <2>3. CASE d \in Entries(file')
        BY <1>3, <2>1, <2>3
    <2>4. ASSUME NEW n \in Acks(file'), d.seq <= n PROVE d.seq <= ackThrough'
        <3>1. n \in Nat /\ n <= ackThrough'
            BY <1>3, <1>4
        <3> QED BY <1>3, <2>1, <2>4, <3>1
    <2> QED BY <2>2, <2>3, <2>4
<1>6. LinkInv'
    <2>1. Len(reports') = 0 /\ Len(answers') = 0
        BY <1>1, <1>2
    <2> QED BY <1>1, <1>5, <2>1 DEF LinkInv, Known
<1>7. ASSUME NEW g \in Views' PROVE LoggedIn(g)'
    <2>1. g = file'
        BY <1>3 DEF Views
    <2>2. \A u \in Entries(g) : ackThrough' < u.seq => u \in unacked'
        BY <1>3, <1>4, <2>1 DEF Items
    <2>3. ASSUME NEW n \in Acks(g)
          PROVE  n < nextSeq' /\ \A u \in unacked' : ~(u.seq <= n)
        <3>1. n \in Nat /\ n <= ackThrough'
            BY <1>3, <1>4, <2>1
        <3>2. \A u \in unacked' : u.seq \in Nat /\ u.seq > ackThrough'
            BY <1>3, <1>4 DEF Items
        <3> QED BY <1>3, <3>1, <3>2
    <2> QED BY <1>3, <2>1, <2>2, <2>3 DEF LoggedIn
<1> QED
    BY <1>1, <1>3, <1>6, <1>7, UpExact

LEMMA InitExact == Init => ExactInv
<1> SUFFICES ASSUME Init PROVE ExactInv
    OBVIOUS
<1>1. /\ file = <<>> /\ attached /\ Up /\ ackThrough = 0 /\ nextSeq = 1
      /\ unacked = {} /\ ingested = {} /\ reports = <<>> /\ answers = <<>> /\ synced = 0
    BY DEF Init, WalInit, Up
<1>2. file \in Seq(Tokens) /\ Len(file) = 0 /\ Len(reports) = 0 /\ Len(answers) = 0
    BY <1>1
<1>3. WellFormed(file)
    BY <1>2 DEF WellFormed
<1>4. LinkInv
    BY <1>1, <1>2 DEF LinkInv
<1>5. \A g \in Views : g = file
    BY <1>1, <1>2, SettledViews DEF Views
<1>6. Entries(file) = {} /\ Acks(file) = {}
    BY <1>2 DEF Entries, Acks
<1>7. \A g \in Views : LoggedIn(g) /\ BilledIn(g)
    BY <1>1, <1>5, <1>6 DEF LoggedIn, BilledIn
<1> QED
    BY <1>1, <1>3, <1>4, <1>7 DEF ExactInv

LEMMA StepExact ==
    ASSUME CleanFaults, TypeOK, TypeOK', CoreInv, ExactInv, [Next]_vars
    PROVE  ExactInv'
<1>1. ASSUME NEW a \in Accounts, CommitUsage(a) PROVE ExactInv'
    <2>1. UNCHANGED <<walVars, process, ingested>> /\ UNCHANGED <<reports, answers>>
        BY <1>1 DEF CommitUsage, linkVars
    <2> QED BY <2>1, LinkStepExact
<1>2. ASSUME NEW f \in Flushers, Flush(f) PROVE ExactInv'
    <2>1. CASE TakePending(f) \/ SubtractTaken(f)
        <3>1. UNCHANGED <<walVars, process, ingested>> /\ UNCHANGED <<reports, answers>>
            BY <2>1 DEF TakePending, SubtractTaken, linkVars
        <3> QED BY <3>1, LinkStepExact
    <2> QED BY <1>2, <2>1, RecordTakenExact, RecordTakenFailsExact DEF Flush
<1>3. CASE SendReport
    BY <1>3, SendReportExact
<1>4. CASE PlatformIngests
    BY <1>4, PlatformIngestsExact
<1>5. CASE ApplyAck
    BY <1>5, ApplyAckExact
<1>6. CASE ApplyAckFails
    BY <1>6, ApplyAckFailsExact
<1>7. CASE CompactLog
    BY <1>7, CompactLogExact
<1>8. CASE CompactLogFails
    BY <1>8, CompactLogFailsExact
<1>9. CASE Connect
    <2>1. UNCHANGED <<walVars, process, ingested>> /\ UNCHANGED <<reports, answers>>
        BY <1>9 DEF Connect
    <2> QED BY <2>1, LinkStepExact
<1>10. CASE LinkBreaks
    <2>1. UNCHANGED <<walVars, process, ingested>> /\ Unlink
        BY <1>10 DEF LinkBreaks
    <2> QED BY <2>1, LinkStepExact
<1>11. CASE Exit
    BY <1>11, EndsExact DEF Exit, Up
<1>12. CASE Crash
    <2>1. Up /\ ProcessGone /\ (ProcessEnds \/ ("power" \in Faults /\ PowerFails))
        BY <1>12 DEF Crash, Fault, Up
    <2>2. CASE ProcessEnds
        BY <2>1, <2>2, EndsExact
    <2>3. CASE "power" \in Faults /\ PowerFails
        BY <2>1, <2>3, PowerExact
    <2> QED BY <2>1, <2>2, <2>3
<1>13. CASE Restart
    BY <1>13, RestartExact
<1>14. CASE RestartRefused
    BY <1>14 DEF RestartRefused, ExactInv, Up
<1>15. CASE UNCHANGED vars
    <2>1. UNCHANGED <<walVars, process, ingested>> /\ UNCHANGED <<reports, answers>>
        BY <1>15 DEF vars, linkVars
    <2> QED BY <2>1, LinkStepExact
<1> QED
    BY <1>1, <1>2, <1>3, <1>4, <1>5, <1>6, <1>7, <1>8, <1>9, <1>10, <1>11, <1>12,
       <1>13, <1>14, <1>15 DEF Next

LEMMA ExactAlways == ASSUME CleanFaults PROVE Spec => [](TypeOK /\ CoreInv /\ ExactInv)
<1>1. Init => TypeOK /\ CoreInv /\ ExactInv
    BY InitType, InitCore, InitExact
<1>2. StopsOneWay
    BY DEF CleanFaults
<1>3. TypeOK /\ CoreInv /\ ExactInv /\ [Next]_vars => (TypeOK /\ CoreInv /\ ExactInv)'
    BY <1>2, StepType, StepCore, StepExact
<1> QED
    BY <1>1, <1>3, PTL DEF Spec

(* For every set of accounts, batch size and number of failures: as long   *)
(* as no append is torn inside a line and no compaction loses the handle,  *)
(* a number the Platform has billed never names another item.  Appends and *)
(* compactions may fail, reports may be repeated, and the process may stop *)
(* anywhere, by itself or, if it never does that, by losing its power.     *)
THEOREM ReportIdsExact == ASSUME CleanFaults PROVE Spec => []ReportIdExact
<1>1. TypeOK /\ CoreInv /\ ExactInv => ReportIdExact
    <2> SUFFICES ASSUME TypeOK, CoreInv, ExactInv, NEW u \in unacked, NEW d \in ingested,
                        u.seq = d.seq
                 PROVE  u = d
        BY DEF ReportIdExact
    <2>1. Up
        BY DEF CoreInv, DownInv
    <2>2. MemoryInv /\ LinkInv /\ ackThrough \in Nat /\ u \in Items
        BY <2>1 DEF CoreInv, ExactInv, TypeOK, WalTypeOK
    <2>3. u.seq \in Nat /\ ackThrough < u.seq
        BY <2>2 DEF MemoryInv, Items
    <2>4. d.seq <= ackThrough \/ d \in unacked
        BY <2>2 DEF LinkInv, Known
    <2>5. d \in unacked
        BY <2>2, <2>3, <2>4
    <2> QED BY <2>2, <2>5 DEF MemoryInv
<1> QED
    BY <1>1, ExactAlways, PTL

(* Under the same conditions a Gateway that stopped can always start on    *)
(* its own log.                                                            *)
THEOREM RestartAlwaysSucceeds == ASSUME CleanFaults PROVE Spec => []RestartSucceeds
<1>1. Init => RestartSucceeds
    BY DEF Init, RestartSucceeds
<1>2. TypeOK /\ CoreInv /\ ExactInv /\ RestartSucceeds /\ [Next]_vars => RestartSucceeds'
    <2> SUFFICES ASSUME ExactInv, RestartSucceeds, [Next]_vars PROVE RestartSucceeds'
        OBVIOUS
    <2>1. ~RestartRefused
        BY DEF RestartRefused, ExactInv, Up
    <2>2. CASE UNCHANGED vars
        BY <2>2 DEF vars, RestartSucceeds
    <2>3. CASE Next
        BY <2>1, <2>3 DEF Next, Flush, RestartSucceeds, CommitUsage, TakePending,
              RecordTaken, RecordTakenFails, SubtractTaken, SendReport,
              PlatformIngests, ApplyAck, ApplyAckFails, CompactLog, CompactLogFails,
              Connect, LinkBreaks, Exit, Crash, ProcessGone, Restart
    <2> QED BY <2>2, <2>3
<1> QED
    BY <1>1, <1>2, ExactAlways, PTL DEF Spec

-----------------------------------------------------------------------------
(* The ledger: every step counts, records, bills, stops or starts, or      *)
(* leaves all four figures as they are.                                    *)

LEMMA FiguresKept ==
    ASSUME Up, Up', Volatile' = Volatile, ingested' = ingested,
           unacked' \ ingested = unacked \ ingested
    PROVE  UNCHANGED L!ledger
<1>1. Durable' = Durable /\ Billed' = Billed
    BY DEF Durable, Billed, Up
<1>2. (process' = "up") = (process = "up")
    BY DEF Up
<1> QED
    BY <1>1, <1>2 DEF L!ledger

LEMMA CommitUsageLedger ==
    ASSUME TypeOK, CoreInv, NEW a \in Accounts, CommitUsage(a)
    PROVE  L!Count(a)
<1>1. /\ process = "up" /\ process' = "up" /\ unacked' = unacked /\ ingested' = ingested
      /\ stage' = stage /\ taken' = taken /\ pending' = [pending EXCEPT ![a] = @ + 1]
    BY DEF CommitUsage, walVars
<1>2. Durable' = Durable /\ Billed' = Billed
    BY <1>1 DEF Durable, Billed
<1>3. (Recorded' <=> Recorded) /\ \A b : TakenOf(b)' = TakenOf(b)
    BY <1>1 DEF Recorded, TakenOf
<1>4. pending \in [Accounts -> Nat] /\ \A b \in Accounts : TakenOf(b) \in Nat
    BY TakenFigures DEF TypeOK, CoreInv
<1>5. ASSUME NEW b \in Accounts
      PROVE  Volatile'[b] = IF b = a THEN Volatile[b] + 1 ELSE Volatile[b]
    <2> DEFINE off == IF Recorded THEN TakenOf(b) ELSE 0
    <2>1. Volatile[b] = pending[b] - off /\ Volatile'[b] = pending'[b] - off
        BY <1>3 DEF Volatile
    <2>2. off \in Nat /\ pending[b] \in Nat
        BY <1>4
    <2> HIDE DEF off
    <2>3. pending'[b] = IF b = a THEN pending[b] + 1 ELSE pending[b]
        BY <1>1, <1>4
    <2> QED BY <2>1, <2>2, <2>3
<1>6. Volatile' = [Volatile EXCEPT ![a] = @ + 1]
    BY <1>5 DEF Volatile
<1> QED
    BY <1>1, <1>2, <1>6 DEF L!Count

LEMMA TakePendingLedger ==
    ASSUME TypeOK, CoreInv, NEW f \in Flushers, TakePending(f)
    PROVE  UNCHANGED L!ledger
<1>1. /\ Up /\ Up' /\ unacked' = unacked /\ ingested' = ingested /\ pending' = pending
      /\ ~FlushLocked
      /\ stage' = [stage EXCEPT ![f] = "flushed"] \/ stage' = [stage EXCEPT ![f] = "taken"]
    BY DEF TakePending, Up, walVars, Goto
<1>2. ~Recorded /\ ~Recorded'
    BY <1>1 DEF Recorded, FlushLocked, TypeOK
<1>3. Volatile' = Volatile
    BY <1>1, <1>2 DEF Volatile
<1> QED
    BY <1>1, <1>3, FiguresKept

LEMMA SubtractTakenLedger ==
    ASSUME TypeOK, CoreInv, NEW f \in Flushers, SubtractTaken(f)
    PROVE  UNCHANGED L!ledger
<1>1. /\ unacked' = unacked /\ ingested' = ingested /\ process' = process
      /\ stage[f] = "recorded" /\ stage' = [stage EXCEPT ![f] = "flushed"]
      /\ pending' = [a \in Accounts |->
                        IF pending[a] < TakenOf(a) THEN 0 ELSE pending[a] - TakenOf(a)]
    BY DEF SubtractTaken, walVars, Goto
<1>2. pending \in [Accounts -> Nat] /\ FlushInv /\ stage \in [Flushers -> Stages]
    BY DEF TypeOK, CoreInv
<1>3. Up /\ Up'
    <2>1. Up
        BY <1>1, UpWhenBusy
    <2> QED BY <1>1, <2>1 DEF Up
<1>4. Locks(f) /\ \A h \in Flushers : h # f => ~Locks(h)
    BY <1>1, <1>2 DEF FlushInv, Locks
<1>5. Recorded /\ ~Recorded'
    BY <1>1, <1>2, <1>4 DEF Locks, Recorded
<1>6. \A a \in Accounts : Volatile'[a] = Volatile[a]
    <2> TAKE a \in Accounts
    <2>1. pending[a] \in Nat /\ TakenOf(a) \in Nat /\ TakenOf(a) <= pending[a]
        BY <1>2, <1>4, TakenFigures
    <2>2. Volatile[a] = pending[a] - TakenOf(a) /\ Volatile'[a] = pending'[a] - 0
        BY <1>5 DEF Volatile
    <2>3. pending'[a] = pending[a] - TakenOf(a)
        BY <1>1, <2>1
    <2> QED BY <2>1, <2>2, <2>3
<1>7. Volatile' = Volatile
    BY <1>6 DEF Volatile
<1> QED
    BY <1>1, <1>3, <1>7, FiguresKept

LEMMA RecordTakenFailsLedger ==
    ASSUME TypeOK, CoreInv, NEW f \in Flushers, RecordTakenFails(f)
    PROVE  UNCHANGED L!ledger
<1>1. /\ unacked' = unacked /\ ingested' = ingested /\ process' = process
      /\ pending' = pending /\ stage[f] = "taken"
      /\ stage' = [stage EXCEPT ![f] = "idle"] \/ stage' = [stage EXCEPT ![f] = "flushed"]
    BY DEF RecordTakenFails, RecordItemsFails, AppendFailed, memoryVars, Goto
<1>2. FlushInv /\ stage \in [Flushers -> Stages]
    BY DEF TypeOK, CoreInv
<1>3. Up /\ Up'
    <2>1. Up
        BY <1>1, UpWhenBusy
    <2> QED BY <1>1, <2>1 DEF Up
<1>4. \A h \in Flushers : h # f => ~Locks(h)
    BY <1>1, <1>2 DEF FlushInv, Locks
<1>5. ~Recorded /\ ~Recorded'
    BY <1>1, <1>2, <1>4 DEF Locks, Recorded
<1>6. Volatile' = Volatile
    BY <1>1, <1>5 DEF Volatile
<1> QED
    BY <1>1, <1>3, <1>6, FiguresKept

(* What is recorded leaves the meters for the log, to the byte. *)
LEMMA RecordTakenLedger ==
    ASSUME TypeOK, TypeOK', CoreInv, ExactInv, NEW f \in Flushers, RecordTaken(f)
    PROVE  L!Record
<1> DEFINE n == Len(taken)
           new == Fresh(taken, n)
           due == unacked \ ingested
<1>1. /\ stage[f] = "taken" /\ stage' = [stage EXCEPT ![f] = "recorded"] /\ taken' = taken
      /\ pending' = pending /\ process' = process /\ ingested' = ingested
      /\ unacked' = {u \in unacked : \A v \in new : u.seq # v.seq} \cup new
    BY DEF RecordTaken, RecordItems, Fresh, Goto
<1>2. /\ pending \in [Accounts -> Nat] /\ stage \in [Flushers -> Stages] /\ FlushInv
      /\ taken \in Seq(Charges) /\ nextSeq \in Nat \ {0} /\ ackThrough \in Nat
      /\ unacked \subseteq Items /\ IsFiniteSet(unacked) /\ ingested \subseteq Items
    BY DEF TypeOK, WalTypeOK, CoreInv
<1>3. Up /\ Up' /\ MemoryInv /\ LinkInv
    <2>1. Up
        BY <1>1, UpWhenBusy
    <2> QED BY <1>1, <2>1 DEF Up, CoreInv, ExactInv
<1>4. Locks(f) /\ \A h \in Flushers : h # f => ~Locks(h)
    BY <1>1, <1>2 DEF FlushInv, Locks
<1>5. new \subseteq Items /\ IsFiniteSet(new) /\ \A u \in new : nextSeq <= u.seq
    <2>1. n \in 0..Len(taken)
        BY <1>2, LenProperties
    <2> QED BY <1>2, <2>1, FreshTypes
<1>6. \A a \in Accounts : Total(new, a) = TakenOf(a)
    BY <1>2, <1>4, FreshTotal
<1> HIDE DEF n, new
<1>7. \A u \in new : u.seq \in Nat /\ ~(u.seq < nextSeq)
    BY <1>2, <1>5 DEF Items
<1>8. \A u \in unacked : u.seq < nextSeq
    BY <1>3 DEF MemoryInv
<1>9. \A d \in ingested : d.seq < nextSeq
    <2> TAKE d \in ingested
    <2>1. d.seq \in Nat
        BY <1>2 DEF Items
    <2>2. d.seq <= ackThrough \/ d \in unacked
        BY <1>3 DEF LinkInv, Known
    <2>3. ackThrough < nextSeq
        BY <1>3 DEF MemoryInv
    <2> QED BY <1>2, <1>8, <2>1, <2>2, <2>3
<1>10. unacked' \ ingested = due \cup new /\ due \cap new = {}
    BY <1>1, <1>7, <1>8, <1>9
<1>11. due \subseteq Items /\ IsFiniteSet(due)
    BY <1>2, FS_Subset
<1> HIDE DEF due
<1>12. ~Recorded /\ Recorded' /\ \A a : TakenOf(a)' = TakenOf(a)
    BY <1>1, <1>2, <1>4 DEF Recorded, Locks, TakenOf
<1>13. ASSUME NEW a \in Accounts
       PROVE  /\ Volatile'[a] \in 0..Volatile[a]
              /\ Volatile'[a] + Durable'[a] = Volatile[a] + Durable[a]
    <2>1. pending[a] \in Nat /\ TakenOf(a) \in Nat /\ TakenOf(a) <= pending[a]
        BY <1>2, <1>4, TakenFigures
    <2>2. Volatile[a] = pending[a] - 0 /\ Volatile'[a] = pending[a] - TakenOf(a)
        BY <1>1, <1>12 DEF Volatile
    <2>3. Durable[a] = Total(due, a) /\ Durable'[a] = Total(due \cup new, a)
        BY <1>1, <1>3, <1>10 DEF Durable, Up, due
    <2>4. Total(due \cup new, a) = Total(due, a) + TakenOf(a) /\ Total(due, a) \in Nat
        BY <1>5, <1>6, <1>10, <1>11, TotalUnion, BytesFinite
    <2> QED BY <2>1, <2>2, <2>3, <2>4
<1>14. Billed' = Billed /\ (process = "up") /\ (process' = "up") = (process = "up")
    BY <1>1, <1>3 DEF Billed, Up
<1> QED
    BY <1>13, <1>14 DEF L!Record

(* Every item that is billed was durable and not billed before. *)
LEMMA PlatformIngestsLedger ==
    ASSUME TypeOK, TypeOK', CoreInv, CoreInv', ExactInv, PlatformIngests
    PROVE  L!Bill
<1> DEFINE new == ingested' \ ingested
           left == unacked \ ingested'
<1>1. /\ process' = process /\ pending' = pending /\ stage' = stage /\ taken' = taken
      /\ unacked' = unacked /\ reports # <<>>
      /\ ingested' = ingested \cup {u \in Head(reports) : \A d \in ingested :
                                       ~(d.seq = u.seq /\ d.account = u.account)}
    BY DEF PlatformIngests, walVars, flushVars
<1>2. Up /\ Up'
    <2>1. Up
        BY <1>1, UpWhenBusy
    <2> QED BY <1>1, <2>1 DEF Up
<1>3. /\ reports \in Seq(SUBSET Items) /\ unacked \subseteq Items /\ IsFiniteSet(unacked)
      /\ ingested \subseteq Items /\ IsFiniteSet(ingested) /\ LinkInv
    BY <1>2 DEF TypeOK, WalTypeOK, CoreInv, FiniteInv, ExactInv
<1>4. \A r \in Head(reports) : r \in unacked \/ r \in ingested
    <2>1. Head(reports) = reports[1] /\ Len(reports) \in Nat /\ Len(reports) # 0
        BY <1>1, <1>3, HeadTailProperties, LenProperties, EmptySeq
    <2>2. 1 \in 1..Len(reports)
        BY <2>1
    <2> QED BY <1>3, <2>1, <2>2 DEF LinkInv
<1>5. /\ ingested' = ingested \cup new /\ ingested \cap new = {}
      /\ unacked \ ingested = left \cup new /\ left \cap new = {}
      /\ new \subseteq unacked /\ left \subseteq unacked
    BY <1>1, <1>4
<1> HIDE DEF new, left
<1>6. /\ new \subseteq Items /\ IsFiniteSet(new)
      /\ left \subseteq Items /\ IsFiniteSet(left)
    BY <1>3, <1>5, FS_Subset
<1>7. Volatile' = Volatile
    BY <1>1, MetersKept
<1>8. ASSUME NEW a \in Accounts
      PROVE  /\ Durable'[a] \in 0..Durable[a]
             /\ Durable'[a] + Billed'[a] = Durable[a] + Billed[a]
    <2>1. Durable[a] = Total(left \cup new, a) /\ Durable'[a] = Total(left, a)
        BY <1>1, <1>2, <1>5 DEF Durable, Up, left
    <2>2. Billed[a] = Total(ingested, a) /\ Billed'[a] = Total(ingested \cup new, a)
        BY <1>5 DEF Billed
    <2>3. Total(left \cup new, a) = Total(left, a) + Total(new, a)
        BY <1>5, <1>6, TotalUnion
    <2>4. Total(ingested \cup new, a) = Total(ingested, a) + Total(new, a)
        BY <1>3, <1>5, <1>6, TotalUnion
    <2>5. Total(left, a) \in Nat /\ Total(new, a) \in Nat /\ Total(ingested, a) \in Nat
        BY <1>3, <1>6, BytesFinite
    <2> QED BY <2>1, <2>2, <2>3, <2>4, <2>5
<1>9. (process' = "up") = (process = "up")
    BY <1>1
<1> QED
    BY <1>7, <1>8, <1>9 DEF L!Bill

LEMMA ApplyAckLedger ==
    ASSUME TypeOK, CoreInv, ExactInv, ApplyAck
    PROVE  UNCHANGED L!ledger
<1> DEFINE n == Head(answers)
<1>1. /\ Up /\ Up' /\ answers # <<>> /\ ingested' = ingested
      /\ pending' = pending /\ taken' = taken /\ stage["control"] = "idle"
      /\ \/ unacked' = {u \in unacked : u.seq > n}
            /\ stage' = [stage EXCEPT !["control"] = "compacting"]
         \/ unacked' = unacked /\ stage' = stage
    BY DEF ApplyAck, Answering, AckThrough, walVars, Goto, Up
<1>2. /\ answers \in Seq(Nat) /\ unacked \subseteq Items /\ stage \in [Flushers -> Stages]
      /\ LinkInv
    BY <1>1 DEF TypeOK, WalTypeOK, ExactInv
<1>3. n \in Nat /\ \A u \in unacked : u.seq <= n => u \in ingested
    <2>1. n \in Nat /\ n = answers[1] /\ Len(answers) \in Nat /\ Len(answers) # 0
        BY <1>1, <1>2, HeadTailProperties, LenProperties, EmptySeq
    <2>2. 1 \in 1..Len(answers)
        BY <2>1
    <2> QED BY <1>2, <2>1, <2>2 DEF LinkInv
<1> HIDE DEF n
<1>4. \A u \in unacked : u.seq > n \/ u \in ingested
    BY <1>2, <1>3 DEF Items
<1>5. unacked' \ ingested = unacked \ ingested
    BY <1>1, <1>4
<1>6. \A f \in Flushers : /\ stage'[f] = "taken" <=> stage[f] = "taken"
                          /\ stage'[f] = "recorded" <=> stage[f] = "recorded"
    BY <1>1, <1>2 DEF Flushers
<1>7. Volatile' = Volatile
    BY <1>1, <1>6, MetersKept
<1> QED
    BY <1>1, <1>5, <1>7, FiguresKept

(* Steps that change neither the log's memory nor the meters. *)
LEMMA OtherLedger ==
    ASSUME TypeOK, CoreInv, ExactInv,
           SendReport \/ ApplyAckFails \/ CompactLog \/ CompactLogFails \/ Connect
    PROVE  UNCHANGED L!ledger
<1>1. /\ unacked' = unacked /\ ingested' = ingested /\ process' = process
      /\ pending' = pending /\ taken' = taken
      /\ \/ stage' = stage
         \/ stage["control"] \in {"flushed", "compacting"}
            /\ stage' = [stage EXCEPT !["control"] = "idle"]
      /\ process = "up" \/ stage["control"] \in {"flushed", "compacting"}
    BY DEF SendReport, ApplyAckFails, Answering, AckThroughFails, AppendFailed, CompactLog,
           Compact, CompactLogFails, CompactOrphans, Connect, walVars, memoryVars,
           flushVars, Goto
<1>2. Up /\ Up'
    <2>1. Up
        BY <1>1, UpWhenBusy DEF Up, Flushers
    <2> QED BY <1>1, <2>1 DEF Up
<1>3. \A f \in Flushers : /\ stage'[f] = "taken" <=> stage[f] = "taken"
                          /\ stage'[f] = "recorded" <=> stage[f] = "recorded"
    BY <1>1 DEF TypeOK, Flushers
<1>4. Volatile' = Volatile
    BY <1>1, <1>3, MetersKept
<1> QED
    BY <1>1, <1>2, <1>4, FiguresKept

(* LinkBreaks may also come when the process has gone. *)
LEMMA LinkBreaksLedger ==
    ASSUME LinkBreaks \/ UNCHANGED vars
    PROVE  UNCHANGED L!ledger
<1>1. /\ file' = file /\ unacked' = unacked /\ ingested' = ingested /\ process' = process
      /\ pending' = pending /\ taken' = taken /\ stage' = stage
    BY DEF LinkBreaks, vars, walVars, flushVars
<1>2. OnDisk' = OnDisk
    BY <1>1 DEF OnDisk
<1>3. Durable' = Durable /\ Billed' = Billed
    BY <1>1, <1>2 DEF Durable, Billed
<1>4. Volatile' = Volatile
    BY <1>1, MetersKept
<1> QED
    BY <1>1, <1>3, <1>4 DEF L!ledger

(* A stop loses what was only counted.  What a flush had offered may be    *)
(* found on disk, what was recorded will be.                               *)
LEMMA StopLedger ==
    ASSUME TypeOK, TypeOK', CoreInv, CoreInv', ExactInv, ExactInv', Up, ProcessGone,
           Views' \subseteq Views
    PROVE  L!Stop
<1> DEFINE g == Repaired(file')
           due == unacked \ ingested
           found == Unpaid(g) \ ingested
           rest == Leftover(Entries(g), nextSeq)
<1>1. /\ process' = "down" /\ pending' = [a \in Accounts |-> 0]
      /\ stage' = [h \in Flushers |-> "idle"] /\ ingested' = ingested
    BY DEF ProcessGone
<1>2. /\ file \in Seq(Tokens) /\ unacked \subseteq Items /\ IsFiniteSet(unacked)
      /\ ingested \subseteq Items /\ nextSeq \in Nat /\ ackThrough \in Nat /\ FlushInv /\ TailInv
      /\ \A h \in Views : LoggedIn(h)
    BY DEF TypeOK, WalTypeOK, CoreInv, ExactInv
<1>3. ~Corrupt(file')
    BY <1>1 DEF ExactInv, Up
<1>4. g \in Views' /\ OnDisk' = Unpaid(g)
    BY <1>3, OnDiskUnpaidNext DEF DiskFound
<1> HIDE DEF g
<1>5. g \in Views /\ g \in Seq(Tokens) /\ LoggedIn(g) /\ LeftoverOK(Entries(g), nextSeq, Offered)
    BY <1>2, <1>4, ViewTypes DEF Views, TailInv
<1>6. Entries(g) \subseteq Items /\ IsFiniteSet(Entries(g)) /\ Acks(g) \subseteq Nat
    BY <1>5, EntryTypes
<1>7. due \subseteq found
    <2> SUFFICES ASSUME NEW u \in unacked, u \notin ingested PROVE u \in Unpaid(g)
        OBVIOUS
    <2>1. u \in Entries(g) /\ \A n \in Acks(g) : ~(u.seq <= n)
        BY <1>5 DEF LoggedIn
    <2>2. u.seq \in Nat
        BY <1>2 DEF Items
    <2>3. \A n \in Acks(g) : u.seq > n
        BY <1>6, <2>1, <2>2
    <2> QED BY <2>1, <2>3 DEF Unpaid
<1>8. found \subseteq due \cup rest
    <2> SUFFICES ASSUME NEW u \in Unpaid(g), u \notin ingested, u \notin rest PROVE u \in unacked
        OBVIOUS
    <2>1. u \in Entries(g) /\ \A n \in Acks(g) : u.seq > n
        BY DEF Unpaid
    <2>2. u.seq \in Nat /\ u.seq > 0
        BY <1>6, <2>1 DEF Items
    <2>3. u.seq < nextSeq
        BY <1>2, <2>1, <2>2 DEF Leftover
    <2>4. ackThrough < u.seq
        <3>1. CASE ackThrough = 0
            BY <2>2, <3>1
        <3>2. CASE ackThrough > 0
            <4>1. ackThrough \in Acks(g)
                BY <1>5, <3>2 DEF LoggedIn
            <4>2. u.seq > ackThrough
                BY <2>1, <4>1
            <4> QED BY <1>2, <2>2, <4>2
        <3> QED BY <1>2, <3>1, <3>2
    <2> QED BY <1>5, <2>1, <2>3, <2>4 DEF LoggedIn
<1>9. due \subseteq Items /\ IsFiniteSet(due)
    BY <1>2, FS_Subset
<1>10. rest \subseteq Items /\ IsFiniteSet(rest)
    <2>1. rest \in SUBSET Entries(g)
        BY DEF Leftover
    <2> QED BY <1>6, <2>1, FS_Subset
<1>11. found \subseteq Items /\ IsFiniteSet(found)
    <2>1. found \in SUBSET Entries(g)
        BY DEF Unpaid
    <2> QED BY <1>6, <2>1, FS_Subset
<1>12. /\ \A u, v \in rest : u.account = v.account => u = v
       /\ \A u \in rest : u.bytes <= Offered[u.account]
    BY <1>5 DEF LeftoverOK
<1>13. /\ Offered \in [Accounts -> Nat] /\ Volatile \in [Accounts -> Nat]
       /\ \A a \in Accounts : Offered[a] <= Volatile[a]
    BY <1>2, Figures DEF MetersOK
<1>14. /\ \A a \in Accounts : Durable[a] = Total(due, a)
       /\ \A a \in Accounts : Durable'[a] = Total(found, a)
    BY <1>1, <1>4 DEF Durable, Up
<1> HIDE DEF due, found, rest
<1>15. ASSUME NEW a \in Accounts
       PROVE  Durable'[a] \in Durable[a]..(Durable[a] + Volatile[a])
    <2>1. Total(due, a) <= Total(found, a)
        BY <1>7, <1>11, TotalMonotone
    <2>2. due \cup rest \subseteq Items /\ IsFiniteSet(due \cup rest)
        BY <1>9, <1>10, FS_Union
    <2>3. Total(found, a) <= Total(due \cup rest, a)
        BY <1>8, <2>2, TotalMonotone
    <2>4. Total(due \cup rest, a) <= Total(due, a) + Total(rest, a)
        BY <1>9, <1>10, TotalUnion
    <2>5. Total(rest, a) <= Offered[a]
        BY <1>10, <1>12, <1>13, TotalOffered
    <2>6. /\ Total(due, a) \in Nat /\ Total(rest, a) \in Nat /\ Total(found, a) \in Nat
          /\ Total(due \cup rest, a) \in Nat
        BY <1>9, <1>10, <1>11, <2>2, BytesFinite
    <2>7. Offered[a] \in Nat /\ Volatile[a] \in Nat /\ Offered[a] <= Volatile[a]
        BY <1>13
    <2>8. Durable[a] = Total(due, a) /\ Durable'[a] = Total(found, a)
        BY <1>14
    <2>9. Total(found, a) <= Total(due, a) + Volatile[a]
        BY <2>3, <2>4, <2>5, <2>6, <2>7
    <2> QED BY <2>1, <2>6, <2>7, <2>8, <2>9
<1>16. Volatile' = L!Zero
    <2>1. ~Recorded'
        BY <1>1 DEF Recorded
    <2>2. \A a \in Accounts : Volatile'[a] = pending'[a] - 0
        BY <2>1 DEF Volatile
    <2>3. \A a \in Accounts : Volatile'[a] = 0
        BY <1>1, <2>2
    <2> QED BY <2>3 DEF Volatile, L!Zero
<1>17. process = "up" /\ (process' = "up") = FALSE /\ Billed' = Billed
    BY <1>1 DEF Up, Billed
<1> QED
    BY <1>15, <1>16, <1>17 DEF L!Stop

(* The next start goes on with what is on disk. *)
LEMMA RestartLedger ==
    ASSUME TypeOK, CoreInv, ExactInv, Restart
    PROVE  L!Start
<1>1. /\ process = "down" /\ process' = "up" /\ ingested' = ingested /\ ~Corrupt(file)
      /\ pending' = pending /\ stage' = stage /\ taken' = taken
      /\ \E a \in Numbers(file) : IsAckOf(file, a) /\ unacked' = Replay(file, a)
    BY DEF Restart, Open, flushVars
<1>2. unacked' = OnDisk
    BY <1>1, OnDiskUnpaid DEF DiskFound
<1>3. Durable' = Durable /\ Billed' = Billed
    BY <1>1, <1>2 DEF Durable, Billed
<1>4. Volatile' = Volatile
    BY <1>1, MetersKept
<1> QED
    BY <1>1, <1>3, <1>4 DEF L!Start

LEMMA InitLedger == Init => L!LedgerInit
<1> SUFFICES ASSUME Init PROVE L!LedgerInit
    OBVIOUS
<1>1. /\ process = "up" /\ pending = [a \in Accounts |-> 0] /\ unacked = {} /\ ingested = {}
      /\ stage = [f \in Flushers |-> "idle"]
    BY DEF Init, WalInit
<1>2. ~Recorded
    BY <1>1 DEF Recorded
<1>3. \A a : Total({}, a) = 0
    BY TotalEmpty
<1>4. \A a \in Accounts : Volatile[a] = 0 - 0
    BY <1>1, <1>2 DEF Volatile
<1>5. Volatile = L!Zero
    BY <1>4 DEF Volatile, L!Zero
<1>6. {} \ {} = {}
    OBVIOUS
<1>7. Durable = L!Zero /\ Billed = L!Zero
    BY <1>1, <1>3, <1>6 DEF Durable, Billed, L!Zero
<1> QED
    BY <1>1, <1>5, <1>7 DEF L!LedgerInit

LEMMA StepLedger ==
    ASSUME CleanFaults, TypeOK, TypeOK', CoreInv, CoreInv', ExactInv, ExactInv', [Next]_vars
    PROVE  [L!LedgerNext]_(L!ledger)
<1>1. ASSUME NEW a \in Accounts, CommitUsage(a) PROVE L!LedgerNext
    BY <1>1, CommitUsageLedger DEF L!LedgerNext
<1>2. ASSUME NEW f \in Flushers, Flush(f) PROVE L!LedgerNext \/ UNCHANGED L!ledger
    <2>1. CASE RecordTaken(f)
        BY <2>1, RecordTakenLedger DEF L!LedgerNext
    <2>2. CASE TakePending(f)
        BY <2>2, TakePendingLedger
    <2>3. CASE RecordTakenFails(f)
        BY <2>3, RecordTakenFailsLedger
    <2>4. CASE SubtractTaken(f)
        BY <2>4, SubtractTakenLedger
    <2> QED BY <1>2, <2>1, <2>2, <2>3, <2>4 DEF Flush
<1>3. CASE SendReport \/ ApplyAckFails \/ CompactLog \/ CompactLogFails \/ Connect
    BY <1>3, OtherLedger
<1>4. CASE PlatformIngests
    BY <1>4, PlatformIngestsLedger DEF L!LedgerNext
<1>5. CASE ApplyAck
    BY <1>5, ApplyAckLedger
<1>6. CASE LinkBreaks \/ UNCHANGED vars
    BY <1>6, LinkBreaksLedger
<1>7. CASE Exit \/ Crash
    <2>1. Up /\ ProcessGone
        BY <1>7 DEF Exit, Crash, Up
    <2>2. Views' \subseteq Views
        <3>1. CASE ProcessEnds
            BY <3>1, FileKept DEF ProcessEnds
        <3>2. CASE PowerFails /\ "power" \in Faults
            BY <2>1, <3>2, PowerShrinks
        <3> QED BY <1>7, <3>1, <3>2 DEF Exit, Crash, Fault
    <2>3. L!Stop
        BY <2>1, <2>2, StopLedger
    <2> QED BY <2>3 DEF L!LedgerNext
<1>8. CASE Restart
    BY <1>8, RestartLedger DEF L!LedgerNext
<1>9. ~RestartRefused
    BY DEF RestartRefused, ExactInv, Up
<1> QED
    BY <1>1, <1>2, <1>3, <1>4, <1>5, <1>6, <1>7, <1>8, <1>9 DEF Next

(* Metering keeps the ledger's promise, for every set of accounts and any  *)
(* number of failures: every relayed byte is billed at most once, and one  *)
(* that record_items reported as written survives every stop (lib.rs,      *)
(* flush_pending_relay_usage_to_wal and RelayUsageWal), as long as no      *)
(* append is torn and no compaction loses its handle.                      *)
THEOREM MeteringIsLedger == ASSUME CleanFaults PROVE Spec => UsageIsLedger
<1>1. Init => L!LedgerInit
    BY InitLedger
<1>2. /\ TypeOK /\ CoreInv /\ ExactInv /\ (TypeOK /\ CoreInv /\ ExactInv)' /\ [Next]_vars
      => [L!LedgerNext]_(L!ledger)
    BY StepLedger
<1> QED
    BY <1>1, <1>2, ExactAlways, PTL DEF Spec, UsageIsLedger, L!Ledger

(* The ledger's figures are numbers. *)
LedgerTypes ==
    \A a \in Accounts : Volatile[a] \in Nat /\ Durable[a] \in Nat /\ Billed[a] \in Nat

LEMMA LedgerFigures == TypeOK /\ CoreInv => LedgerTypes
<1> SUFFICES ASSUME TypeOK, CoreInv, NEW a \in Accounts
             PROVE  Volatile[a] \in Nat /\ Durable[a] \in Nat /\ Billed[a] \in Nat
    BY DEF LedgerTypes
<1> DEFINE waiting == IF process = "up" THEN unacked ELSE OnDisk
<1>1. /\ FlushInv /\ file \in Seq(Tokens) /\ unacked \subseteq Items /\ IsFiniteSet(unacked)
      /\ ingested \subseteq Items /\ IsFiniteSet(ingested)
    BY DEF TypeOK, WalTypeOK, CoreInv, FiniteInv
<1>2. Volatile[a] \in Nat
    BY <1>1, Figures DEF MetersOK
<1>3. OnDisk \subseteq Items /\ IsFiniteSet(OnDisk)
    <2>1. CASE Corrupt(file)
        <3>1. OnDisk = {}
            BY <2>1 DEF OnDisk
        <3> QED BY <3>1, FS_EmptySet
    <2>2. CASE ~Corrupt(file)
        <3> DEFINE g == Repaired(file)
        <3>1. g \in Views /\ OnDisk = Unpaid(g)
            BY <2>2, OnDiskUnpaid DEF DiskFound
        <3> HIDE DEF g
        <3>2. g \in Seq(Tokens)
            BY <1>1, <3>1, ViewTypes DEF Views
        <3> QED BY <3>1, <3>2, BaseTypes
    <2> QED BY <2>1, <2>2
<1>4. Durable[a] = Total(waiting \ ingested, a) /\ Billed[a] = Total(ingested, a)
    BY DEF Durable, Billed
<1>5. waiting \subseteq Items /\ IsFiniteSet(waiting)
    BY <1>1, <1>3
<1> HIDE DEF waiting
<1>6. waiting \ ingested \subseteq Items /\ IsFiniteSet(waiting \ ingested)
    BY <1>5, FS_Subset
<1> QED
    BY <1>1, <1>2, <1>4, <1>6, BytesFinite

LEMMA LedgerFiguresNext == (TypeOK /\ CoreInv)' => LedgerTypes'
<1> QED BY LedgerFigures, PTL

(* "Pending billable usage ... is retained until the normal WAL flush path *)
(* durably records it" (lib.rs:1282), and from then on it stays: without   *)
(* torn appends and lost handles no step, no stop and no start makes what  *)
(* is recorded or billed of an account less.                               *)
THEOREM RecordedStays == ASSUME CleanFaults PROVE Spec => RecordedIsKept
<1> DEFINE Keeps == \A a \in Accounts : Durable'[a] + Billed'[a] >= Durable[a] + Billed[a]
<1>1. ASSUME TypeOK, CoreInv, ExactInv, (TypeOK /\ CoreInv /\ ExactInv)', [Next]_vars
      PROVE  Keeps
    <2> SUFFICES ASSUME NEW a \in Accounts
                 PROVE  Durable'[a] + Billed'[a] >= Durable[a] + Billed[a]
        OBVIOUS
    <2>1. /\ Volatile[a] \in Nat /\ Durable[a] \in Nat /\ Billed[a] \in Nat
          /\ Volatile'[a] \in Nat /\ Durable'[a] \in Nat /\ Billed'[a] \in Nat
        BY <1>1, LedgerFigures, LedgerFiguresNext DEF LedgerTypes
    <2>2. [L!LedgerNext]_(L!ledger)
        BY <1>1, StepLedger
    <2>3. CASE UNCHANGED L!ledger \/ L!Start \/ \E b \in Accounts : L!Count(b)
        <3>1. Durable' = Durable /\ Billed' = Billed
            BY <2>3 DEF L!ledger, L!Start, L!Count
        <3> QED BY <2>1, <3>1
    <2>4. CASE L!Record
        <3>1. /\ Volatile'[a] \in 0..Volatile[a] /\ Billed'[a] = Billed[a]
              /\ Volatile'[a] + Durable'[a] = Volatile[a] + Durable[a]
            BY <2>4 DEF L!Record
        <3> QED BY <2>1, <3>1
    <2>5. CASE L!Bill
        <3>1. Durable'[a] + Billed'[a] = Durable[a] + Billed[a]
            BY <2>5 DEF L!Bill
        <3> QED BY <2>1, <3>1
    <2>6. CASE L!Stop
        <3>1. Durable'[a] \in Durable[a]..(Durable[a] + Volatile[a]) /\ Billed'[a] = Billed[a]
            BY <2>6 DEF L!Stop
        <3> QED BY <2>1, <3>1
    <2> QED BY <2>2, <2>3, <2>4, <2>5, <2>6 DEF L!LedgerNext
<1>2. /\ TypeOK /\ CoreInv /\ ExactInv /\ (TypeOK /\ CoreInv /\ ExactInv)' /\ [Next]_vars
      => [Keeps]_vars
    BY <1>1
<1> QED
    BY <1>2, ExactAlways, PTL DEF Spec, RecordedIsKept
=============================================================================
