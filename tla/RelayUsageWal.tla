----------------------------- MODULE RelayUsageWal -----------------------------
(***************************************************************************)
(* The write-ahead log of relayed bytes: RelayUsageWal in                  *)
(* crates/tp-gateway/src/lib.rs.  Its memory is guarded by one mutex, so   *)
(* each operation is atomic; `ack` drops the mutex before it compacts.     *)
(*                                                                         *)
(* The file is a sequence of tokens.  A record and the newline after it    *)
(* are separate writes, and a write that fails half way leaves a Part of   *)
(* its record behind.  What the JSON text looks like does not matter: a    *)
(* line parses exactly when it is one whole record.                        *)
(***************************************************************************)
EXTENDS Integers, Sequences, FiniteSets

CONSTANT Accounts    \* (Tunnel, period) pairs, numbered in the order the code sorts them

ASSUME AccountsAssumption == Accounts \subseteq Nat /\ IsFiniteSet(Accounts)

VARIABLES
    file,         \* the tokens at the WAL's path
    synced,       \* how many of them a power loss cannot take away
    attached,     \* the open handle still is the file at the path
    nextSeq,      \* RelayUsageWalState.next_seq
    ackThrough,   \* ... .ack_through
    unacked       \* ... .unacked, as a set of numbered items

memoryVars == <<nextSeq, ackThrough, unacked>>
walVars    == <<file, synced, attached, nextSeq, ackThrough, unacked>>

Charges == [account : Accounts, bytes : Nat \ {0}]
Items   == [seq : Nat \ {0}, account : Accounts, bytes : Nat \ {0}]
Usage(item) == [kind |-> "usage", seq |-> item.seq, account |-> item.account,
                bytes |-> item.bytes]
Ack(n)  == [kind |-> "ack", seq |-> n, account |-> 0, bytes |-> 0]
Part    == [kind |-> "part", seq |-> 0, account |-> 0, bytes |-> 0]
Newline == [kind |-> "newline", seq |-> 0, account |-> 0, bytes |-> 0]
ItemOf(token) == [seq |-> token.seq, account |-> token.account, bytes |-> token.bytes]

Tokens ==
    {t \in [kind : {"usage", "ack", "part", "newline"},
            seq : Nat, account : Nat, bytes : Nat] :
        t.kind = "usage" => ItemOf(t) \in Items}

IsRecord(token) == token.kind \in {"usage", "ack"}

WalTypeOK ==
    /\ file \in Seq(Tokens)
    /\ synced \in 0..Len(file)
    /\ attached \in BOOLEAN
    /\ nextSeq \in Nat \ {0}
    /\ ackThrough \in Nat
    /\ unacked \subseteq Items /\ IsFiniteSet(unacked)

WalInit ==
    /\ file = <<>>
    /\ synced = 0
    /\ attached = TRUE
    /\ nextSeq = 1
    /\ ackThrough = 0
    /\ unacked = {}

-----------------------------------------------------------------------------
(* Reading a file. *)

(* Token i is a record that has its line to itself. *)
Whole(f, i) ==
    /\ IsRecord(f[i])
    /\ i > 1 => f[i - 1] = Newline
    /\ i < Len(f) => f[i + 1] = Newline

(* Token i spoils the line it is on. *)
Spoils(f, i) == f[i] # Newline /\ ~Whole(f, i)

(* A line that does not parse and is not the trailing, unterminated one. *)
Corrupt(f) ==
    \E i, j \in 1..Len(f) : i < j /\ Spoils(f, i) /\ f[j] = Newline

(* Mutant of Repaired: the trailing line is ignored and stays on file. *)
RepairedKeepsTail(f) == f

(* An unparsable trailing line is cut off; a whole one gets its newline. *)
Repaired(f) ==
    LET bad == {i \in 1..Len(f) : Spoils(f, i)}
    IN  IF bad # {}
        THEN SubSeq(f, 1, (CHOOSE i \in bad : \A j \in bad : i <= j) - 1)
        ELSE IF f # <<>> /\ f[Len(f)] # Newline
        THEN Append(f, Newline)
        ELSE f

Numbers(f) == {0} \cup {f[i].seq : i \in 1..Len(f)}

(* n is the greatest acknowledgement on file, 0 when there is none. *)
IsAckOf(f, n) ==
    /\ n > 0 => \E i \in 1..Len(f) : Whole(f, i) /\ f[i].kind = "ack" /\ f[i].seq = n
    /\ \A i \in 1..Len(f) : Whole(f, i) /\ f[i].kind = "ack" => f[i].seq <= n

(* n is the greatest number on file, of an item or of an acknowledgement. *)
IsLastOf(f, n) ==
    /\ n > 0 => \E i \in 1..Len(f) : Whole(f, i) /\ f[i].seq = n
    /\ \A i \in 1..Len(f) : Whole(f, i) => f[i].seq <= n

(* Line i holds an item that no later line with the same number replaces. *)
Current(f, i) ==
    /\ Whole(f, i)
    /\ f[i].kind = "usage"
    /\ \A j \in (i + 1)..Len(f) :
          ~(Whole(f, j) /\ f[j].kind = "usage" /\ f[j].seq = f[i].seq)

Replay(f, n) ==
    {ItemOf(f[i]) : i \in {i \in 1..Len(f) : Current(f, i) /\ f[i].seq > n}}

-----------------------------------------------------------------------------
(* Writing. *)

Lines(records) ==
    [i \in 1..(2 * Len(records)) |->
        IF i % 2 = 1 THEN records[(i + 1) \div 2] ELSE Newline]

(* A failed append: a prefix of its tokens reaches the file.  It ends      *)
(* between two lines unless the write of a record was torn.                *)
Fragments(tokens, torn) ==
    {SubSeq(tokens, 1, n) : n \in {n \in 0..Len(tokens) : n % 2 = 0}}
    \cup
    IF ~torn THEN {}
    ELSE {SubSeq(tokens, 1, n) : n \in {n \in 0..Len(tokens) : n % 2 = 1}}
         \cup {Append(SubSeq(tokens, 1, n), Part) :
                  n \in {n \in 0..(Len(tokens) - 1) : n % 2 = 0}}

(* Mutant of Appended: the sync is forgotten. *)
AppendedUnsynced(tokens) ==
    /\ file' = IF attached THEN file \o tokens ELSE file
    /\ UNCHANGED <<synced, attached>>

(* The write, the flush and the sync of an append succeed.  A handle that  *)
(* lost its name writes to an unlinked file.                               *)
Appended(tokens) ==
    /\ file' = IF attached THEN file \o tokens ELSE file
    /\ synced' = IF attached THEN Len(file \o tokens) ELSE synced
    /\ UNCHANGED attached

AppendFailed(tokens, torn) ==
    /\ \E got \in Fragments(tokens, torn) :
          file' = IF attached THEN file \o got ELSE file
    /\ UNCHANGED <<synced, attached, memoryVars>>

(* The charges of one record_items call, numbered from next_seq. *)
Numbered(charges) ==
    [i \in 1..Len(charges) |->
        [seq |-> nextSeq + i - 1, account |-> charges[i].account,
         bytes |-> charges[i].bytes]]

UsageLines(charges) ==
    Lines([i \in 1..Len(charges) |-> Usage(Numbered(charges)[i])])

(* record_items: memory changes only after the sync. *)
RecordItems(charges) ==
    LET new == {Numbered(charges)[i] : i \in 1..Len(charges)}
    IN  /\ Appended(UsageLines(charges))
        /\ nextSeq' = nextSeq + Len(charges)
        /\ unacked' = {u \in unacked : \A n \in new : u.seq # n.seq} \cup new
        /\ UNCHANGED ackThrough

RecordItemsFails(charges, torn) == AppendFailed(UsageLines(charges), torn)

(* snapshot: the first max unacknowledged items, and the prefix they end. *)
Batch(max) ==
    {u \in unacked : Cardinality({v \in unacked : v.seq < u.seq}) < max}

IsThrough(batch, n) ==
    IF batch = {} THEN n = ackThrough
    ELSE (\E u \in batch : u.seq = n) /\ (\A u \in batch : u.seq <= n)

(* Mutant of AckThrough: the last acknowledged item is kept. *)
AckThroughKeepsLast(n) ==
    /\ n > ackThrough
    /\ Appended(Lines(<<Ack(n)>>))
    /\ ackThrough' = n
    /\ unacked' = {u \in unacked : u.seq >= n}
    /\ UNCHANGED nextSeq

(* ack, up to where it drops the mutex. *)
AckThrough(n) ==
    /\ n > ackThrough
    /\ Appended(Lines(<<Ack(n)>>))
    /\ ackThrough' = n
    /\ unacked' = {u \in unacked : u.seq > n}
    /\ UNCHANGED nextSeq

AckThroughFails(n, torn) ==
    /\ n > ackThrough
    /\ AppendFailed(Lines(<<Ack(n)>>), torn)

(* The items of a set, each once, by ascending number. *)
Listings(items) ==
    {s \in [1..Cardinality(items) -> items] :
        /\ \A i, j \in 1..Cardinality(items) : i < j => s[i].seq < s[j].seq
        /\ \A u \in items : \E i \in 1..Cardinality(items) : s[i] = u}

(* Mutant of Compacted: the temporary file is renamed before it is synced. *)
CompactedUnsynced ==
    \E s \in Listings(unacked) :
        /\ file' = Lines(<<Ack(ackThrough)>> \o [i \in 1..Len(s) |-> Usage(s[i])])
        /\ synced' = 0

(* compact: the temporary file, synced, takes the place of the log. *)
Compacted ==
    \E s \in Listings(unacked) :
        /\ file' = Lines(<<Ack(ackThrough)>> \o [i \in 1..Len(s) |-> Usage(s[i])])
        /\ synced' = 2 + 2 * Len(s)

Compact ==
    /\ Compacted
    /\ attached' = TRUE
    /\ UNCHANGED memoryVars

(* The log was renamed away, then syncing the directory or opening the new *)
(* file failed: the old handle stays.                                      *)
CompactOrphans ==
    /\ Compacted
    /\ attached' = FALSE
    /\ UNCHANGED memoryVars

-----------------------------------------------------------------------------
(* Stopping and starting. *)

MemoryLost == nextSeq' = 1 /\ ackThrough' = 0 /\ unacked' = {}

(* The process ends; what it wrote is in the file. *)
ProcessEnds ==
    /\ MemoryLost
    /\ attached' = TRUE
    /\ UNCHANGED <<file, synced>>

(* Power is lost: any part of what was never synced is missing. *)
PowerFails ==
    /\ MemoryLost
    /\ attached' = TRUE
    /\ \E n \in synced..Len(file) :
          \/ file' = SubSeq(file, 1, n)
          \/ /\ n < Len(file)
             /\ IsRecord(file[n + 1])
             /\ file' = Append(SubSeq(file, 1, n), Part)
    /\ synced' = Len(file')

(* open. *)
Open ==
    /\ ~Corrupt(file)
    /\ file' = Repaired(file)
    /\ synced' = IF Repaired(file) # file THEN Len(file') ELSE synced
    /\ attached' = TRUE
    /\ \E a, l \in Numbers(file) :
          /\ IsAckOf(file, a)
          /\ IsLastOf(file, l)
          /\ ackThrough' = a
          /\ nextSeq' = l + 1
          /\ unacked' = Replay(file, a)
=============================================================================
