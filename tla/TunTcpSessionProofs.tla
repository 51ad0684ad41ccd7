-------------------------- MODULE TunTcpSessionProofs --------------------------
(***************************************************************************)
(* Proofs about TunTcpSession, for every size of the ring, of lwIP's send  *)
(* buffer and window and of the socket, and for every number of bytes:     *)
(* lwIP sends out of the ring what the server sent, what is read fits into *)
(* lwIP, and neither end sees the end of a stream before the whole of it   *)
(* was handed on.                                                          *)
(***************************************************************************)
EXTENDS TunTcpSession, TLAPS

-----------------------------------------------------------------------------
(* The inductive invariant.                                                *)

Ends == {"FIN_WAIT_1", "FIN_WAIT_2", "CLOSING", "LAST_ACK", "TIME_WAIT"}

RingTypes ==
    /\ rp \in 0..max_size - 1 /\ wp \in 0..max_size - 1
    /\ use_size \in 0..max_size /\ rda_size \in Nat /\ snd_buf \in Nat
    /\ unacked \in Seq(0..max_size - 1)
    /\ data \in [0..max_size - 1 -> Nat]
    /\ {acked, upRead, upSent} \subseteq Nat
    /\ res_b \in {-1, 0, 1} /\ state \in States
    /\ setup \in Setups

\* What is to be read and what lwIP has is in use, lwIP counts the same, and
\* nothing is read that the server has not sent.
Counts ==
    /\ rda_size + Len(unacked) <= use_size
    /\ snd_buf + Len(unacked) = SndBuf
    /\ upRead <= upSent

\* A place of the ring, counted on over its end.
Wrap(i) == IF i < max_size THEN i ELSE i - max_size

\* The place of the oldest byte in use.
oldest == Wrap(wp + max_size - use_size)

\* From the oldest place on the bytes follow each other: first the ones lwIP
\* has, then the ones it is to be given.
Stream ==
    "memory" \notin setup.faults =>
       /\ use_size = rda_size + Len(unacked)
       /\ acked + use_size = upRead
       /\ rp = Wrap(oldest + Len(unacked))
       /\ \A k \in 1..Len(unacked) : unacked[k] = Wrap(oldest + k - 1)
       /\ \A k \in 1..use_size : data[Wrap(oldest + k - 1)] = acked + k

\* As long as the task reads, and after the end of the stream, nothing is lost
\* between the socket and lwIP; after the end nothing more is read or sent.
Handed ==
    /\ res_b >= 0 \/ state \in Ends => acked + Len(unacked) + rda_size = upRead
    /\ state \in Ends => rda_size = 0 /\ res_b = -1 /\ upRead = upSent /\ upEnd # "open"
    /\ state \in {"CLOSE_WAIT", "CLOSING", "LAST_ACK", "TIME_WAIT"} => pcb_eof

BackInv == RingTypes /\ Counts /\ Stream /\ Handed

\* Towards the server.
ForthInv ==
    /\ {queue, written, sent} \subseteq Nat /\ written + queue = sent
    /\ shut => pcb_eof /\ queue = 0

-----------------------------------------------------------------------------
(* The ring.                                                               *)

LEMMA Sizes == max_size \in Nat \ {0} /\ max_size <= SndBuf /\ SndBuf \in Nat
BY TcpAssumption DEF max_size

(* Going on by at most the size of the ring wraps at most once.            *)
LEMMA Onward ==
    ASSUME NEW m \in Nat \ {0}, NEW i \in 0..m - 1, NEW n \in 0..m
    PROVE  (i + n) % m = IF i + n < m THEN i + n ELSE i + n - m
OBVIOUS

(* ... and the same backward.                                              *)
LEMMA Backward ==
    ASSUME NEW m \in Nat \ {0}, NEW i \in 0..m - 1, NEW j \in 0..m - 1
    PROVE  (i - j) % m = IF i >= j THEN i - j ELSE i - j + m
OBVIOUS

(* A piece of the ring, as tcp_write is given it.                          *)
LEMMA PlacesSeq ==
    ASSUME NEW from \in Nat, NEW n \in Nat, from + n <= max_size
    PROVE  /\ Places(from, n) \in Seq(0..max_size - 1) /\ Len(Places(from, n)) = n
           /\ \A k \in 1..n : Places(from, n)[k] = from + k - 1
<1>1. \A k \in 1..n : from + k - 1 \in 0..max_size - 1
    BY Sizes
<1> DEFINE q == [k \in 1..n |-> from + k - 1]
<1>2. q \in [1..n -> 0..max_size - 1]
    BY <1>1
<1>3. q \in Seq(0..max_size - 1) /\ DOMAIN q = 1..n
    BY <1>2
<1>4. Len(q) = n
    BY <1>3
<1> QED
    BY <1>3, <1>4 DEF Places

(* What tcp_write takes of the unread bytes: never more than there are and *)
(* than lwIP has room for; all of them, in order, if nothing is refused.   *)
LEMMA TakenPlaces ==
    ASSUME RingTypes, NEW n \in 1..max_size, NEW refused
    PROVE  /\ Taken(n, refused) \in Seq(0..max_size - 1)
           /\ Len(Taken(n, refused)) <= n /\ Len(Taken(n, refused)) <= snd_buf
           /\ refused = {} /\ n <= snd_buf =>
                 /\ Len(Taken(n, refused)) = n
                 /\ \A k \in 1..n : Taken(n, refused)[k] = Wrap(rp + k - 1)
<1> DEFINE first == IF n <= max_size - rp THEN n ELSE max_size - rp
           all1  == Places(rp, first)
           rest  == n - first
           all2  == Places(0, rest)
           one   == IF 1 \notin refused /\ first <= snd_buf THEN all1 ELSE <<>>
           two   == IF 2 \notin refused /\ rest <= snd_buf - Len(one) THEN all2 ELSE <<>>
<1>1. /\ max_size \in Nat \ {0} /\ rp \in 0..max_size - 1 /\ snd_buf \in Nat
    BY Sizes DEF RingTypes
<1>2. /\ first \in 1..n /\ rp + first <= max_size /\ rest \in Nat
      /\ 0 + rest <= max_size /\ first + rest = n
    BY <1>1
<1>3. rest > 0 => rp + first = max_size
    BY <1>1
<1>4. Taken(n, refused) = one \o two
    BY DEF Taken
<1> HIDE DEF first, rest
<1>5. /\ all1 \in Seq(0..max_size - 1) /\ Len(all1) = first
      /\ \A k \in 1..first : all1[k] = rp + k - 1
    BY <1>1, <1>2, PlacesSeq
<1>6. /\ all2 \in Seq(0..max_size - 1) /\ Len(all2) = rest
      /\ \A k \in 1..rest : all2[k] = 0 + k - 1
    BY <1>1, <1>2, PlacesSeq
<1> HIDE DEF all1, all2
<1>a. (one = all1 /\ first <= snd_buf) \/ one = <<>>
    OBVIOUS
<1>8. refused = {} /\ n <= snd_buf => one = all1
    BY <1>1, <1>2
<1> HIDE DEF one
<1>7. /\ one \in Seq(0..max_size - 1) /\ Len(one) <= first /\ Len(one) <= snd_buf
      /\ Len(one) \in Nat
    <2>1. CASE one = all1 /\ first <= snd_buf
        BY <1>2, <1>5, <2>1
    <2>2. CASE one = <<>>
        BY <1>1, <1>2, <2>2
    <2> QED
        BY <1>a, <2>1, <2>2
<1>b. (two = all2 /\ rest <= snd_buf - Len(one)) \/ two = <<>>
    OBVIOUS
<1>10. refused = {} /\ n <= snd_buf => two = all2
    BY <1>1, <1>2, <1>5, <1>8
<1> HIDE DEF two
<1>9. /\ two \in Seq(0..max_size - 1) /\ Len(two) <= rest
      /\ Len(two) <= snd_buf - Len(one) /\ Len(two) \in Nat
    <2>1. CASE two = all2 /\ rest <= snd_buf - Len(one)
        BY <1>2, <1>6, <2>1
    <2>2. CASE two = <<>>
        BY <1>1, <1>2, <1>7, <2>2
    <2> QED
        BY <1>b, <2>1, <2>2
<1>11. /\ one \o two \in Seq(0..max_size - 1) /\ Len(one \o two) = Len(one) + Len(two)
       /\ \A k \in 1..Len(one) + Len(two) :
             (one \o two)[k] = IF k <= Len(one) THEN one[k] ELSE two[k - Len(one)]
    BY <1>7, <1>9
<1>12. ASSUME refused = {}, n <= snd_buf
       PROVE  /\ Len(one \o two) = n
              /\ \A k \in 1..n : (one \o two)[k] = Wrap(rp + k - 1)
    <2>1. one = all1 /\ two = all2 /\ Len(one) = first /\ Len(two) = rest
        BY <1>5, <1>6, <1>8, <1>10, <1>12
    <2>2. Len(one \o two) = n
        BY <1>2, <1>11, <2>1
    <2>3. ASSUME NEW k \in 1..n PROVE (one \o two)[k] = Wrap(rp + k - 1)
        <3>1. CASE k <= first
            <4>1. (one \o two)[k] = rp + k - 1
                BY <1>1, <1>2, <1>5, <1>11, <2>1, <3>1
            <4> QED
                BY <1>1, <1>2, <3>1, <4>1 DEF Wrap
        <3>2. CASE k > first
            <4>1. (one \o two)[k] = k - first - 1
                BY <1>1, <1>2, <1>6, <1>11, <2>1, <3>2
            <4>2. rp + first = max_size
                BY <1>2, <1>3, <3>2
            <4> QED
                BY <1>1, <1>2, <3>2, <4>1, <4>2 DEF Wrap
        <3>3. k <= first \/ k > first
            BY <1>2
        <3> QED
            BY <3>1, <3>2, <3>3
    <2> QED
        BY <2>2, <2>3
<1> DEFINE t == one \o two
<1>13. Len(t) <= n /\ Len(t) <= snd_buf /\ t \in Seq(0..max_size - 1)
    <2>1. Len(t) = Len(one) + Len(two) /\ t \in Seq(0..max_size - 1)
        BY <1>11
    <2> HIDE DEF t
    <2> QED
        BY <1>1, <1>2, <1>7, <1>9, <2>1
<1> QED
    BY <1>4, <1>12, <1>13

(* hev_ring_buffer_write_finish puts n bytes behind the ones in use.       *)
LEMMA FilledRing ==
    ASSUME BackInv, NEW n \in Nat, n <= Space, Filled(n), UNCHANGED <<acked, setup>>
    PROVE  /\ wp' \in 0..max_size - 1 /\ use_size' = use_size + n
           /\ use_size' \in 0..max_size
           /\ upRead' = upRead + n /\ upRead' \in Nat
           /\ data' \in [0..max_size - 1 -> Nat]
           /\ Wrap(wp' + max_size - use_size') = oldest
           /\ "memory" \notin setup.faults =>
                 \A k \in 1..use_size' : data'[Wrap(oldest + k - 1)] = acked + k
<1>1. /\ max_size \in Nat \ {0} /\ wp \in 0..max_size - 1 /\ use_size \in 0..max_size
      /\ upRead \in Nat /\ acked \in Nat /\ data \in [0..max_size - 1 -> Nat]
      /\ n \in 0..max_size /\ use_size + n <= max_size
    BY Sizes DEF BackInv, RingTypes, Space
<1>2. /\ wp' = (wp + n) % max_size /\ use_size' = use_size + n /\ upRead' = upRead + n
      /\ data' = [i \in 0..max_size - 1 |->
                    IF (i - wp) % max_size < n
                    THEN upRead + ((i - wp) % max_size) + 1 ELSE data[i]]
    BY <1>1 DEF Filled
<1>3. wp' = Wrap(wp + n)
    <2> DEFINE k == (wp + n) % max_size
    <2>1. wp' = k
        BY DEF Filled
    <2>2. k = IF wp + n < max_size THEN wp + n ELSE wp + n - max_size
        BY <1>1, Onward
    <2> HIDE DEF k
    <2> QED
        BY <1>1, <2>1, <2>2 DEF Wrap
<1>4. ASSUME NEW i \in 0..max_size - 1
      PROVE  /\ i >= wp => data'[i] = IF i - wp < n THEN upRead + (i - wp) + 1 ELSE data[i]
             /\ i < wp  => data'[i] = IF i - wp + max_size < n
                                      THEN upRead + (i - wp + max_size) + 1 ELSE data[i]
             /\ data'[i] \in Nat
    <2> DEFINE k == (i - wp) % max_size
    <2>1. k = IF i >= wp THEN i - wp ELSE i - wp + max_size
        BY <1>1, Backward
    <2>2. data'[i] = IF k < n THEN upRead + k + 1 ELSE data[i]
        BY <1>2
    <2> HIDE DEF k
    <2> QED
        BY <1>1, <2>1, <2>2
<1>5. wp' \in 0..max_size - 1 /\ Wrap(wp' + max_size - use_size') = oldest
    <2>1. use_size' = use_size + n
        BY DEF Filled
    <2> QED
        BY <1>1, <1>3, <2>1 DEF Wrap, oldest
<1>6. ASSUME "memory" \notin setup.faults, NEW k \in 1..use_size + n
      PROVE  data'[Wrap(oldest + k - 1)] = acked + k
    <2>1. /\ acked + use_size = upRead
          /\ \A j \in 1..use_size : data[Wrap(oldest + j - 1)] = acked + j
        BY <1>6 DEF BackInv, Stream
    <2>2. oldest \in 0..max_size - 1 /\ Wrap(oldest + use_size) = wp
        BY <1>1 DEF oldest, Wrap
    <2> DEFINE i == Wrap(oldest + k - 1)
    <2>3. i \in 0..max_size - 1 /\ k \in Int
        BY <1>1, <2>2 DEF Wrap
    <2>4. CASE k <= use_size
        <3>1. IF i >= wp THEN i - wp >= n ELSE i - wp + max_size >= n
            BY <1>1, <2>2, <2>4 DEF Wrap
        <3>2. data'[i] = data[i]
            BY <1>1, <1>4, <2>3, <3>1
        <3>3. data[i] = acked + k
            BY <2>1, <2>4, <2>3
        <3> QED
            BY <3>2, <3>3
    <2>5. CASE k > use_size
        <3>1. IF i >= wp THEN i - wp = k - use_size - 1 ELSE i - wp + max_size = k - use_size - 1
            BY <1>1, <2>2, <2>5 DEF Wrap
        <3>2. k - use_size - 1 < n /\ k - use_size - 1 \in Int
            BY <1>1, <2>3
        <3>3. data'[i] = upRead + (k - use_size - 1) + 1
            <4> HIDE DEF i
            <4>1. CASE i >= wp
                BY <1>1, <1>4, <2>3, <3>1, <3>2, <4>1
            <4>2. CASE ~(i >= wp)
                <5>1. i < wp /\ i - wp + max_size = k - use_size - 1
                    BY <1>1, <2>3, <3>1, <4>2
                <5>2. data'[i] = IF i - wp + max_size < n
                                 THEN upRead + (i - wp + max_size) + 1 ELSE data[i]
                    BY <1>4, <2>3, <5>1
                <5> QED
                    BY <3>2, <5>1, <5>2
            <4> QED
                BY <4>1, <4>2
        <3> QED
            BY <1>1, <2>1, <2>3, <3>3
    <2> QED
        BY <1>1, <2>3, <2>4, <2>5
<1>7. data' \in [0..max_size - 1 -> Nat]
    BY <1>2, <1>4
<1>8. use_size' = use_size + n /\ upRead' = upRead + n
    BY DEF Filled
<1>9. use_size' \in 0..max_size /\ upRead' \in Nat
    BY <1>1, <1>8
<1> QED
    BY <1>5, <1>6, <1>7, <1>8, <1>9

-----------------------------------------------------------------------------
(* tcp_splice_b keeps the invariant.                                       *)

LEMMA ReadBytes ==
    ASSUME RingTypes, Counts, NEW r \in Reads
    PROVE  /\ r \in Int /\ r >= -1 /\ Space \in Nat
           /\ r > 0 => r <= Space /\ upRead + r <= upSent
           /\ r < 0 => upRead = upSent /\ upEnd # "open"
<1>1. Space \in Nat /\ upRead \in Nat /\ upSent \in Nat /\ upRead <= upSent
    BY Sizes DEF RingTypes, Space, Counts
<1>2. CASE Space = 0
    BY <1>1, <1>2 DEF Reads
<1>3. CASE Space # 0 /\ upRead < upSent
    BY <1>1, <1>3 DEF Reads
<1>4. CASE Space # 0 /\ ~(upRead < upSent)
    <2>1. r = 0 \/ (r = -1 /\ upEnd # "open")
        BY <1>1, <1>4 DEF Reads
    <2> QED
        BY <1>1, <1>4, <2>1
<1> QED
    BY <1>2, <1>3, <1>4

(* What every way through tcp_splice_b has in common.                      *)
LEMMA SpliceKeeps ==
    ASSUME BackInv, res_b >= 0, NEW r \in Reads, NEW n, n = (IF r > 0 THEN r ELSE 0),
           Filled(n), UNCHANGED <<acked, upSent, upEnd, pcb_eof, setup>>
    PROVE  /\ n \in Nat /\ n <= Space /\ rda_size + n <= max_size
           /\ rda_size + n <= snd_buf /\ upRead + n <= upSent
           /\ wp' \in 0..max_size - 1 /\ use_size' = use_size + n
           /\ use_size' \in 0..max_size
           /\ upRead' = upRead + n /\ upRead' \in Nat
           /\ data' \in [0..max_size - 1 -> Nat]
           /\ oldest' = oldest
           /\ "memory" \notin setup.faults =>
                 \A k \in 1..use_size' : data'[Wrap(oldest + k - 1)] = acked + k
           /\ state \notin Ends
<1>1. /\ r \in Int /\ r >= -1 /\ Space \in Nat
      /\ r > 0 => r <= Space /\ upRead + r <= upSent
    BY ReadBytes DEF BackInv
<1>2. /\ upRead \in Nat /\ upSent \in Nat /\ upRead <= upSent /\ rda_size \in Nat
      /\ Len(unacked) \in Nat /\ use_size \in 0..max_size /\ snd_buf \in Nat
      /\ rda_size + Len(unacked) <= use_size /\ snd_buf + Len(unacked) = SndBuf
    BY DEF BackInv, RingTypes, Counts
<1>3. n \in Nat /\ n <= Space /\ upRead + n <= upSent
    BY <1>1, <1>2
<1>4. rda_size + n <= max_size /\ rda_size + n <= snd_buf
    BY <1>2, <1>3, Sizes DEF Space
<1>5. state \notin Ends
    BY DEF BackInv, Handed
<1>6. /\ wp' \in 0..max_size - 1 /\ use_size' = use_size + n
      /\ use_size' \in 0..max_size
      /\ upRead' = upRead + n /\ upRead' \in Nat
      /\ data' \in [0..max_size - 1 -> Nat]
      /\ Wrap(wp' + max_size - use_size') = oldest
      /\ "memory" \notin setup.faults =>
            \A k \in 1..use_size' : data'[Wrap(oldest + k - 1)] = acked + k
    BY <1>3, FilledRing
<1>7. oldest' = Wrap(wp' + max_size - use_size')
    BY DEF oldest, Wrap
<1> QED
    BY <1>3, <1>4, <1>5, <1>6, <1>7

LEMMA HandsOver ==
    ASSUME BackInv, res_b >= 0, NEW r \in Reads, NEW n, n = (IF r > 0 THEN r ELSE 0),
           Filled(n), UNCHANGED <<acked, upSent, upEnd, pcb_eof, setup>>,
           rda_size + n > 0, HandOver(rda_size + n)
    PROVE  BackInv'
<1> DEFINE N == rda_size + n
<1>1. /\ n \in Nat /\ n <= Space /\ N <= max_size
      /\ N <= snd_buf /\ upRead + n <= upSent
      /\ wp' \in 0..max_size - 1 /\ use_size' = use_size + n
      /\ use_size' \in 0..max_size
      /\ upRead' = upRead + n /\ upRead' \in Nat
      /\ data' \in [0..max_size - 1 -> Nat]
      /\ oldest' = oldest
      /\ "memory" \notin setup.faults =>
            \A k \in 1..use_size' : data'[Wrap(oldest + k - 1)] = acked + k
      /\ state \notin Ends
    BY SpliceKeeps
<1>2. /\ rda_size \in Nat /\ unacked \in Seq(0..max_size - 1) /\ Len(unacked) \in Nat
      /\ use_size \in 0..max_size /\ snd_buf \in Nat /\ acked \in Nat /\ upRead \in Nat
      /\ rda_size + Len(unacked) <= use_size /\ snd_buf + Len(unacked) = SndBuf
      /\ rp \in 0..max_size - 1 /\ wp \in 0..max_size - 1 /\ upSent \in Nat
      /\ max_size \in Nat \ {0}
    BY Sizes DEF BackInv, RingTypes, Counts
<1>3. N \in 1..max_size
    BY <1>1, <1>2
<1>4. PICK refused \in Refusals, output \in Outputs :
         /\ unacked' = unacked \o Taken(N, refused)
         /\ snd_buf' = snd_buf - Len(Taken(N, refused))
         /\ rp' = (rp + N) % max_size /\ rda_size' = 0
         /\ res_b' = IF Len(Taken(N, refused)) = N /\ output = "OK" THEN 1 ELSE -1
         /\ UNCHANGED state
    BY DEF HandOver
<1> DEFINE T == Taken(N, refused)
<1>5. /\ T \in Seq(0..max_size - 1) /\ Len(T) <= N /\ Len(T) <= snd_buf /\ Len(T) \in Nat
      /\ refused = {} => Len(T) = N /\ \A k \in 1..N : T[k] = Wrap(rp + k - 1)
    <2>1. /\ T \in Seq(0..max_size - 1) /\ Len(T) <= N /\ Len(T) <= snd_buf
          /\ refused = {} /\ N <= snd_buf =>
                Len(T) = N /\ \A k \in 1..N : T[k] = Wrap(rp + k - 1)
        BY <1>3, TakenPlaces DEF BackInv
    <2> HIDE DEF T, N
    <2> QED
        BY <1>1, <2>1
<1>6. /\ unacked' = unacked \o T /\ snd_buf' = snd_buf - Len(T) /\ rda_size' = 0
      /\ res_b' = IF Len(T) = N /\ output = "OK" THEN 1 ELSE -1
      /\ state' = state
    BY <1>4
<1>7. rp' = Wrap(rp + N) /\ rp' \in 0..max_size - 1
    <2> DEFINE k == (rp + N) % max_size
    <2>1. rp' = k
        BY <1>4
    <2>2. k = IF rp + N < max_size THEN rp + N ELSE rp + N - max_size
        <3> HIDE DEF N
        <3>1. rp \in 0..max_size - 1 /\ N \in 0..max_size /\ max_size \in Nat \ {0}
            BY <1>2, <1>3
        <3> QED
            BY <3>1, Onward
    <2> HIDE DEF k, N
    <2> QED
        BY <1>2, <1>3, <2>1, <2>2 DEF Wrap
<1> HIDE DEF T, N
<1>8. /\ unacked' \in Seq(0..max_size - 1) /\ Len(unacked') = Len(unacked) + Len(T)
      /\ \A k \in 1..Len(unacked) + Len(T) :
            unacked'[k] = IF k <= Len(unacked) THEN unacked[k] ELSE T[k - Len(unacked)]
    BY <1>2, <1>5, <1>6
<1>9. RingTypes'
    <2>1. snd_buf' \in Nat /\ res_b' \in {-1, 0, 1} /\ rda_size' \in Nat
        BY <1>2, <1>5, <1>6
    <2>2. state' \in States /\ setup' \in Setups /\ acked' \in Nat /\ upSent' \in Nat
        BY <1>6 DEF BackInv, RingTypes
    <2> QED
        BY <1>1, <1>7, <1>8, <2>1, <2>2 DEF RingTypes
<1> DEFINE L == Len(unacked)
           t == Len(T)
           M == Len(unacked')
<1>10. /\ {L, t, acked, upRead, rda_size, use_size, snd_buf, n, upSent, max_size} \subseteq Nat
       /\ M = L + t /\ N = rda_size + n /\ t <= N /\ N \in 1..max_size
       /\ use_size' = use_size + n /\ use_size + n <= max_size /\ upRead' = upRead + n
       /\ rda_size' = 0 /\ snd_buf' = snd_buf - t /\ upRead + n <= upSent
       /\ rda_size + L <= use_size /\ snd_buf + L = SndBuf
    BY <1>1, <1>2, <1>3, <1>5, <1>6, <1>8 DEF N
<1>11. \A k \in 1..M : unacked'[k] = IF k <= L THEN unacked[k] ELSE T[k - L]
    BY <1>8
<1>12. Counts'
    <2> HIDE DEF L, t, M
    <2>1. rda_size' + M <= use_size' /\ snd_buf' + M = SndBuf /\ upRead' <= upSent
        BY <1>10
    <2> QED
        BY <2>1 DEF Counts, M
<1>13. Stream'
    <2> SUFFICES ASSUME "memory" \notin setup.faults
                 PROVE  /\ use_size' = rda_size' + M
                        /\ acked + use_size' = upRead'
                        /\ rp' = Wrap(oldest + M)
                        /\ \A k \in 1..M : unacked'[k] = Wrap(oldest + k - 1)
                        /\ \A k \in 1..use_size' : data'[Wrap(oldest + k - 1)] = acked + k
        BY <1>1 DEF Stream, Wrap
    <2>1. /\ use_size = rda_size + L
          /\ acked + use_size = upRead
          /\ rp = Wrap(oldest + L)
         /\ \A k \in 1..L : unacked[k] = Wrap(oldest + k - 1)
        BY DEF BackInv, Stream
    <2>2. t = N /\ \A k \in 1..N : T[k] = Wrap(rp + k - 1)
        BY <1>5 DEF Refusals
    <2>3. oldest \in 0..max_size - 1
        BY <1>2 DEF oldest, Wrap
    <2> HIDE DEF L, t, M
    <2>4. use_size' = rda_size' + M /\ acked + use_size' = upRead'
        BY <1>10, <2>1, <2>2
    <2>5. rp' = Wrap(oldest + M)
        <3>1. L + N <= max_size /\ M = L + N
            BY <1>10, <2>1, <2>2
        <3> QED
            BY <1>7, <1>10, <2>1, <2>3, <3>1 DEF Wrap
    <2>6. ASSUME NEW k \in 1..M PROVE unacked'[k] = Wrap(oldest + k - 1)
        <3>1. CASE k <= L
            BY <1>10, <1>11, <2>1, <3>1
        <3>2. CASE k > L
            <4> DEFINE j == k - L
            <4>1. j \in 1..N /\ k = L + j /\ L + j <= max_size
                <5>1. use_size = rda_size + L /\ t = N
                    BY <2>1, <2>2
                <5> QED
                    BY <1>10, <3>2, <5>1
            <4>2. unacked'[k] = T[j]
                BY <1>10, <1>11, <3>2
            <4> HIDE DEF j
            <4>3. unacked'[k] = Wrap(rp + j - 1)
                BY <2>2, <4>1, <4>2
            <4> QED
                BY <1>10, <2>1, <2>3, <4>1, <4>3 DEF Wrap
        <3>3. k <= L \/ k > L
            BY <1>10
        <3> QED
            BY <3>1, <3>2, <3>3
    <2> QED
        BY <1>1, <2>4, <2>5, <2>6
<1>14. Handed'
    <2>1. state' \notin Ends
        BY <1>1, <1>6
    <2>2. acked + L + rda_size = upRead
        BY DEF BackInv, Handed
    <2>3. res_b' >= 0 => t = N
        BY <1>6
    <2>4. res_b' >= 0 => acked + M + rda_size' = upRead'
        <3> HIDE DEF L, t, M
        <3> QED
            BY <1>10, <2>2, <2>3
    <2>5. state' \in {"CLOSE_WAIT", "CLOSING", "LAST_ACK", "TIME_WAIT"} => pcb_eof'
        BY <1>6 DEF BackInv, Handed
    <2> QED
        BY <2>1, <2>4, <2>5 DEF Handed, Ends
<1> QED
    BY <1>9, <1>12, <1>13, <1>14 DEF BackInv

(* Nothing is there to be handed over, or no pcb is left to take it.       *)
LEMMA HandsNothing ==
    ASSUME BackInv, res_b >= 0, NEW r \in Reads, NEW n, n = (IF r > 0 THEN r ELSE 0),
           Filled(n), UNCHANGED <<acked, upSent, upEnd, pcb_eof, setup>>,
           UNCHANGED <<rp, snd_buf, unacked>>, rda_size' = rda_size + n,
           \/ rda_size + n = 0 /\ state' = (IF r < 0 THEN Fin ELSE state) /\ res_b' = r
           \/ state' = state /\ res_b' = -1
    PROVE  BackInv'
<1> DEFINE L == Len(unacked)
<1>1. /\ n \in Nat /\ n <= Space /\ rda_size + n <= max_size
      /\ rda_size + n <= snd_buf /\ upRead + n <= upSent
      /\ wp' \in 0..max_size - 1 /\ use_size' = use_size + n
      /\ use_size' \in 0..max_size
      /\ upRead' = upRead + n /\ upRead' \in Nat
      /\ data' \in [0..max_size - 1 -> Nat]
      /\ oldest' = oldest
      /\ "memory" \notin setup.faults =>
            \A k \in 1..use_size' : data'[Wrap(oldest + k - 1)] = acked + k
      /\ state \notin Ends
    BY SpliceKeeps
<1>2. /\ {L, acked, upRead, rda_size, use_size, snd_buf, n, upSent, max_size} \subseteq Nat
      /\ rda_size + L <= use_size /\ snd_buf + L = SndBuf
      /\ acked + L + rda_size = upRead
    BY <1>1, Sizes DEF BackInv, RingTypes, Counts, Handed
<1>a. /\ use_size' = use_size + n /\ upRead' = upRead + n /\ upRead + n <= upSent
      /\ rda_size' = rda_size + n
    BY <1>1
<1>3. /\ r \in Int /\ r >= -1 /\ (r < 0 => upRead = upSent /\ upEnd # "open")
    BY ReadBytes DEF BackInv
<1>4. res_b' \in {-1, 0, 1}
    <2>1. rda_size + n = 0 => r \in {-1, 0}
        BY <1>2, <1>3
    <2> QED
        BY <2>1
<1>5. /\ state' \in States
      /\ state' \in Ends => /\ rda_size + n = 0 /\ r < 0 /\ res_b' = r /\ r = -1
      /\ state' \in {"CLOSE_WAIT", "CLOSING", "LAST_ACK", "TIME_WAIT"} => pcb_eof
    <2>1. /\ state \in States /\ state \notin Ends
          /\ state \in {"CLOSE_WAIT", "CLOSING", "LAST_ACK", "TIME_WAIT"} => pcb_eof
        BY <1>1 DEF BackInv, RingTypes, Handed
    <2>2. CASE state' = state
        BY <2>1, <2>2
    <2>3. CASE rda_size + n = 0 /\ state' = Fin /\ r < 0 /\ res_b' = r
        <3>1. r = -1
            BY <1>3, <2>3
        <3>2. \/ state = "ESTABLISHED" /\ state' = "FIN_WAIT_1"
              \/ state = "CLOSE_WAIT" /\ state' = "LAST_ACK"
              \/ state = "freed" /\ state' = "freed"
            BY <2>1, <2>3 DEF Fin, States, Ends
        <3> QED
            BY <2>1, <2>3, <3>1, <3>2 DEF States, Ends
    <2> QED
        BY <2>2, <2>3
<1>6. RingTypes'
    BY <1>1, <1>2, <1>4, <1>5 DEF BackInv, RingTypes
<1>7. Counts'
    <2> HIDE DEF L
    <2>1. rda_size' + L <= use_size' /\ upRead' <= upSent
        BY <1>2, <1>a
    <2> QED
        BY <1>2, <2>1 DEF Counts, L
<1>8. Stream'
    <2> SUFFICES ASSUME "memory" \notin setup.faults
                 PROVE  /\ use_size' = rda_size' + L
                        /\ acked + use_size' = upRead'
                        /\ rp = Wrap(oldest + L)
                        /\ \A k \in 1..L : unacked[k] = Wrap(oldest + k - 1)
                        /\ \A k \in 1..use_size' : data'[Wrap(oldest + k - 1)] = acked + k
        BY <1>1 DEF Stream, Wrap
    <2>1. /\ use_size = rda_size + L
          /\ acked + use_size = upRead
          /\ rp = Wrap(oldest + L)
          /\ \A k \in 1..L : unacked[k] = Wrap(oldest + k - 1)
        BY DEF BackInv, Stream
    <2> HIDE DEF L
    <2>2. use_size' = rda_size' + L /\ acked + use_size' = upRead'
        <3>1. use_size = rda_size + L /\ acked + use_size = upRead
            BY <2>1
        <3> QED
            BY <1>2, <1>a, <3>1
    <2> QED
        BY <1>1, <2>1, <2>2
<1>9. Handed'
    <2>1. acked + L + rda_size' = upRead'
        <3> HIDE DEF L
        <3> QED
            BY <1>2, <1>a
    <2>2. state' \in Ends => rda_size' = 0 /\ res_b' = -1 /\ upRead' = upSent /\ upEnd # "open"
        <3>1. state' \in Ends => rda_size + n = 0 /\ n = 0 /\ upRead = upSent
            BY <1>2, <1>3, <1>5
        <3> QED
            BY <1>1, <1>2, <1>3, <1>5, <3>1
    <2> QED
        BY <1>5, <2>1, <2>2 DEF Handed, Ends
<1> QED
    BY <1>6, <1>7, <1>8, <1>9 DEF BackInv

LEMMA SpliceBack ==
    ASSUME BackInv, res_b >= 0, SpliceB, UNCHANGED <<acked, upSent, upEnd, pcb_eof, setup>>
    PROVE  BackInv'
<1>1. PICK r \in Reads : LET n == IF r > 0 THEN r ELSE 0 IN
         /\ Filled(n)
         /\ \/ pcb /\ rda_size + n > 0 /\ HandOver(rda_size + n)
            \/ /\ pcb /\ rda_size + n = 0
               /\ state' = (IF r < 0 THEN Fin ELSE state) /\ res_b' = r
               /\ UNCHANGED <<rp, rda_size, snd_buf, unacked>>
            \/ /\ ~pcb
               /\ rda_size' = rda_size + n /\ res_b' = -1
               /\ UNCHANGED <<rp, snd_buf, unacked, state>>
    BY DEF SpliceB
<1> DEFINE n == IF r > 0 THEN r ELSE 0
<1>2. n = (IF r > 0 THEN r ELSE 0) /\ Filled(n)
    BY <1>1
<1>3. \/ rda_size + n > 0 /\ HandOver(rda_size + n)
      \/ /\ rda_size + n = 0
         /\ state' = (IF r < 0 THEN Fin ELSE state) /\ res_b' = r
         /\ UNCHANGED <<rp, rda_size, snd_buf, unacked>>
      \/ /\ rda_size' = rda_size + n /\ res_b' = -1
         /\ UNCHANGED <<rp, snd_buf, unacked, state>>
    BY <1>1
<1> HIDE DEF n
<1>4. rda_size + n = 0 => rda_size = rda_size + n
    <2>1. rda_size \in Nat /\ n \in Nat
        BY <1>2, SpliceKeeps DEF BackInv, RingTypes
    <2> QED
        BY <2>1
<1>5. CASE rda_size + n > 0 /\ HandOver(rda_size + n)
    BY <1>2, <1>5, HandsOver
<1>6. CASE /\ rda_size + n = 0
           /\ state' = (IF r < 0 THEN Fin ELSE state) /\ res_b' = r
           /\ UNCHANGED <<rp, rda_size, snd_buf, unacked>>
    <2>1. rda_size' = rda_size + n /\ UNCHANGED <<rp, snd_buf, unacked>>
        BY <1>4, <1>6
    <2> QED
        BY <1>2, <1>6, <2>1, HandsNothing
<1>7. CASE /\ rda_size' = rda_size + n /\ res_b' = -1
           /\ UNCHANGED <<rp, snd_buf, unacked, state>>
    BY <1>2, <1>7, HandsNothing
<1> QED
    BY <1>3, <1>5, <1>6, <1>7

-----------------------------------------------------------------------------
(* What is left of a list behind its first n entries.                      *)
LEMMA SuffixEntries ==
    ASSUME NEW S, NEW q \in Seq(S), NEW n \in Nat, n <= Len(q)
    PROVE  /\ SubSeq(q, n + 1, Len(q)) \in Seq(S)
           /\ Len(SubSeq(q, n + 1, Len(q))) = Len(q) - n
           /\ \A k \in 1..Len(q) - n : SubSeq(q, n + 1, Len(q))[k] = q[n + k]
OBVIOUS

(* hev_ring_buffer_read_release gives acknowledged places back.            *)
LEMMA SentBack ==
    ASSUME BackInv, NEW n \in 1..SndBuf, Sent(n)
    PROVE  BackInv'
<1> DEFINE L == Len(unacked)
           M == Len(unacked')
<1>1. /\ unacked' = SubSeq(unacked, n + 1, L) /\ n <= L
      /\ acked' = acked + n /\ snd_buf' = snd_buf + n /\ use_size' = use_size - n
      /\ rp' = (IF use_size - n = 0 THEN 0 ELSE rp)
      /\ wp' = (IF use_size - n = 0 THEN 0 ELSE wp)
      /\ UNCHANGED <<rda_size, data, upRead, state, res_b, pcb_eof, upSent, upEnd, setup>>
    BY DEF Sent, Release
<1>2. /\ {L, acked, upRead, rda_size, use_size, snd_buf, n, upSent, SndBuf} \subseteq Nat
      /\ max_size \in Nat \ {0} /\ use_size <= max_size
      /\ rda_size + L <= use_size /\ snd_buf + L = SndBuf /\ upRead <= upSent
      /\ rp \in 0..max_size - 1 /\ wp \in 0..max_size - 1 /\ n > 0 /\ n <= L
    BY <1>1, Sizes DEF BackInv, RingTypes, Counts
<1>3. /\ unacked' \in Seq(0..max_size - 1) /\ M = L - n
      /\ \A k \in 1..L - n : unacked'[k] = unacked[n + k]
    <2>1. unacked \in Seq(0..max_size - 1)
        BY DEF BackInv, RingTypes
    <2> QED
        BY <1>1, <1>2, <2>1, SuffixEntries
<1> HIDE DEF L, M
<1>a. /\ M = L - n /\ M \in Nat /\ acked' = acked + n /\ snd_buf' = snd_buf + n
      /\ use_size' = use_size - n
    <2>1. M = L - n
        BY <1>3
    <2>2. L - n \in Nat
        BY <1>2
    <2> QED
        BY <1>1, <2>1, <2>2
<1>4. /\ use_size' \in 0..max_size /\ snd_buf' \in Nat /\ acked' \in Nat
      /\ rda_size + M <= use_size' /\ snd_buf' + M = SndBuf
    BY <1>2, <1>a
<1>b. rp' \in 0..max_size - 1 /\ wp' \in 0..max_size - 1
    BY <1>1, <1>2
<1>5. RingTypes'
    BY <1>1, <1>3, <1>4, <1>b DEF BackInv, RingTypes
<1>6. Counts'
    BY <1>1, <1>2, <1>4 DEF Counts, M
<1>7. Stream'
    <2> SUFFICES ASSUME "memory" \notin setup.faults
                 PROVE  /\ use_size' = rda_size + M
                        /\ acked' + use_size' = upRead
                        /\ rp' = Wrap(oldest' + M)
                        /\ \A k \in 1..M : unacked'[k] = Wrap(oldest' + k - 1)
                        /\ \A k \in 1..use_size' : data[Wrap(oldest' + k - 1)] = acked' + k
        BY <1>1 DEF Stream, Wrap, M
    <2>1. /\ use_size = rda_size + L
          /\ acked + use_size = upRead
          /\ rp = Wrap(oldest + L)
          /\ \A k \in 1..L : unacked[k] = Wrap(oldest + k - 1)
          /\ \A k \in 1..use_size : data[Wrap(oldest + k - 1)] = acked + k
        BY DEF BackInv, Stream, L
    <2>a. use_size = rda_size + L /\ acked + use_size = upRead
        BY <2>1
    <2>2. use_size' = rda_size + M /\ acked' + use_size' = upRead
        BY <1>2, <1>a, <2>a
    <2>3. oldest \in 0..max_size - 1 /\ Wrap(oldest + use_size) = wp
        BY <1>2 DEF oldest, Wrap
    <2>4. oldest' = Wrap(wp' + max_size - use_size')
        BY DEF oldest, Wrap
    <2>5. CASE use_size - n = 0
        <3>1. use_size' = 0 /\ M = 0 /\ rp' = 0 /\ wp' = 0
            <4>1. use_size' = 0 /\ M = 0
                BY <1>2, <1>a, <2>a, <2>5
            <4> QED
                BY <1>1, <2>5, <4>1
        <3>2. oldest' = 0
            BY <1>2, <2>4, <3>1 DEF Wrap
        <3>3. rp' = Wrap(oldest' + M)
            BY <1>2, <3>1, <3>2 DEF Wrap
        <3> QED
            BY <2>2, <3>1, <3>3
    <2>6. CASE use_size - n # 0
        <3>1. rp' = rp /\ wp' = wp /\ use_size' = use_size - n /\ use_size > n
            <4>1. use_size' = use_size - n /\ use_size > n
                BY <1>2, <1>a, <2>a, <2>6
            <4> QED
                BY <1>1, <2>6, <4>1
        <3>2. oldest' = Wrap(oldest + n)
            BY <1>2, <2>3, <2>4, <3>1 DEF oldest, Wrap
        <3>3. oldest' \in 0..max_size - 1
              /\ \A k \in 0..max_size - n : Wrap(oldest' + k) = Wrap(oldest + n + k)
            BY <1>2, <2>3, <3>1, <3>2 DEF Wrap
        <3>4. rp' = Wrap(oldest' + M)
            <4>1. M \in 0..max_size - n /\ n + M = L
                BY <1>2, <1>a, <3>1
            <4>2. oldest + n + M = oldest + L
                BY <1>2, <1>a, <2>3, <4>1
            <4> QED
                BY <2>1, <3>1, <3>3, <4>1, <4>2
        <3>5. ASSUME NEW k \in 1..max_size - n
              PROVE  Wrap(oldest' + k - 1) = Wrap(oldest + (n + k) - 1)
            <4>1. k - 1 \in 0..max_size - n
                BY <1>2
            <4>2. oldest' + (k - 1) = oldest' + k - 1 /\ oldest + n + (k - 1) = oldest + (n + k) - 1
                BY <1>2, <2>3, <3>3
            <4> QED
                BY <3>3, <4>1, <4>2
        <3>6. ASSUME NEW k \in 1..M PROVE unacked'[k] = Wrap(oldest' + k - 1)
            <4>1. k \in 1..max_size - n /\ n + k \in 1..L /\ k \in 1..L - n
                BY <1>2, <1>a
            <4>2. unacked'[k] = unacked[n + k]
                BY <1>3, <4>1
            <4> QED
                BY <2>1, <3>5, <4>1, <4>2
        <3>7. ASSUME NEW k \in 1..use_size' PROVE data[Wrap(oldest' + k - 1)] = acked' + k
            <4>1. k \in 1..max_size - n /\ n + k \in 1..use_size /\ acked' + k = acked + (n + k)
                BY <1>2, <1>a, <3>1
            <4>2. data[Wrap(oldest + (n + k) - 1)] = acked + (n + k)
                BY <2>1, <4>1
            <4> QED
                BY <3>5, <4>1, <4>2
        <3> QED
            BY <2>2, <3>4, <3>6, <3>7
    <2> QED
        BY <2>5, <2>6
<1>8. Handed'
    <2>1. acked + L + rda_size = upRead => acked' + M + rda_size = upRead
        BY <1>2, <1>a
    <2>2. /\ res_b >= 0 \/ state \in Ends => acked + L + rda_size = upRead
          /\ state \in Ends => rda_size = 0 /\ res_b = -1 /\ upRead = upSent /\ upEnd # "open"
          /\ state \in {"CLOSE_WAIT", "CLOSING", "LAST_ACK", "TIME_WAIT"} => pcb_eof
        BY DEF BackInv, Handed, L
    <2> QED
        BY <1>1, <2>1, <2>2 DEF Handed, M, Ends
<1> QED
    BY <1>5, <1>6, <1>7, <1>8 DEF BackInv

-----------------------------------------------------------------------------
(* The other steps.                                                        *)

(* Nothing that the ring or lwIP's counters consist of changes, and the    *)
(* connection goes from one of its states to another of the same kind.     *)
LEMMA BackGoesOn ==
    ASSUME BackInv,
           UNCHANGED <<rp, wp, use_size, rda_size, data, snd_buf, unacked, upRead, res_b,
                       acked, setup>>,
           state' \in States, state' \in Ends => state \in Ends,
           state' \in {"CLOSE_WAIT", "CLOSING", "LAST_ACK", "TIME_WAIT"} => pcb_eof',
           \/ UNCHANGED <<upSent, upEnd>>
           \/ upSent' = upSent /\ upEnd' # "open"
           \/ upEnd = "open" /\ upEnd' = upEnd /\ upSent' \in Nat /\ upSent' >= upSent
    PROVE  BackInv'
<1>1. upSent \in Nat /\ upRead \in Nat /\ upRead <= upSent
    BY DEF BackInv, RingTypes, Counts
<1>2. upSent' \in Nat /\ upRead <= upSent'
    BY <1>1
<1>3. RingTypes'
    BY <1>2 DEF BackInv, RingTypes
<1>4. Counts'
    BY <1>2 DEF BackInv, Counts
<1>5. Stream'
    <2>1. oldest' = oldest
        BY DEF oldest, Wrap
    <2> QED
        BY <2>1 DEF BackInv, Stream, Wrap
<1>6. Handed'
    BY DEF BackInv, Handed, Ends
<1> QED
    BY <1>3, <1>4, <1>5, <1>6 DEF BackInv

LEMMA StateSteps ==
    ASSUME BackInv, RecvFin \/ SentFin \/ Err \/ TimeWaitEnds
    PROVE  BackInv'
<1>1. /\ UNCHANGED <<rp, wp, use_size, rda_size, data, snd_buf, unacked, upRead, res_b,
                     acked, setup>>
      /\ UNCHANGED <<upSent, upEnd>>
    BY DEF RecvFin, SentFin, Err, TimeWaitEnds, taskVars
<1>2. /\ state \in States
      /\ state \in {"CLOSE_WAIT", "CLOSING", "LAST_ACK", "TIME_WAIT"} => pcb_eof
    BY DEF BackInv, RingTypes, Handed
<1>3. /\ state' \in States /\ (state' \in Ends => state \in Ends)
      /\ state' \in {"CLOSE_WAIT", "CLOSING", "LAST_ACK", "TIME_WAIT"} => pcb_eof'
    <2>1. CASE RecvFin
        <3>1. state \in {"ESTABLISHED", "FIN_WAIT_1", "FIN_WAIT_2"}
            BY <1>2, <2>1 DEF RecvFin, Callbacks, States
        <3>2. \/ state = "ESTABLISHED" /\ state' = "CLOSE_WAIT"
              \/ state = "FIN_WAIT_1" /\ state' = "CLOSING"
              \/ state = "FIN_WAIT_2" /\ state' = "TIME_WAIT"
            BY <2>1, <3>1 DEF RecvFin
        <3>3. pcb_eof' = TRUE
            BY <2>1 DEF RecvFin
        <3> QED
            BY <3>2, <3>3 DEF States, Ends
    <2>2. CASE SentFin
        <3>1. \/ state = "LAST_ACK" /\ state' = "freed"
              \/ state = "CLOSING" /\ state' = "TIME_WAIT"
              \/ state = "FIN_WAIT_1" /\ state' = "FIN_WAIT_2"
            BY <2>2 DEF SentFin
        <3>2. pcb_eof' = pcb_eof
            BY <2>2 DEF SentFin
        <3> QED
            BY <1>2, <3>1, <3>2 DEF States, Ends
    <2>3. CASE Err \/ TimeWaitEnds
        BY <2>3 DEF Err, TimeWaitEnds, States, Ends
    <2> QED
        BY <2>1, <2>2, <2>3
<1> QED
    BY <1>1, <1>3, BackGoesOn

LEMMA StepBack == BackInv /\ [Next]_vars => BackInv'
<1> SUFFICES ASSUME BackInv, [Next]_vars PROVE BackInv'
    OBVIOUS
<1>1. /\ state \in States
      /\ state \in {"CLOSE_WAIT", "CLOSING", "LAST_ACK", "TIME_WAIT"} => pcb_eof
    BY DEF BackInv, RingTypes, Handed
<1>2. ASSUME \/ Connected \/ Drains \/ ConnectFails \/ TimesOut \/ Poll \/ Stopped
             \/ \E n \in 1..Wnd : Recv(n)
             \/ UNCHANGED vars
      PROVE  BackInv'
    <2>1. UNCHANGED <<bVars, res_b, acked, setup, pcb_eof, upSent, upEnd>>
        BY <1>2 DEF Connected, Drains, ConnectFails, TimesOut, Poll, Stopped, Recv, vars, taskVars
    <2> QED
        BY <1>1, <2>1, BackGoesOn DEF bVars
<1>3. CASE Splice
    <2>1. UNCHANGED <<acked, upSent, upEnd, pcb_eof, setup>>
        BY <1>3 DEF Splice
    <2>2. CASE res_b >= 0
        BY <1>3, <2>1, <2>2, SpliceBack DEF Splice
    <2>3. CASE ~(res_b >= 0)
        <3>1. UNCHANGED <<res_b, bVars>>
            BY <1>3, <2>3 DEF Splice
        <3> QED
            BY <1>1, <2>1, <3>1, BackGoesOn DEF bVars
    <2> QED
        BY <2>2, <2>3
<1>4. ASSUME \/ UpTakes \/ UpCloses \/ UpFails \/ \E n \in 1..SockBuf : UpSends(n)
      PROVE  BackInv'
    <2>1. UNCHANGED <<bVars, res_b, acked, setup, pcb_eof>>
        BY <1>4 DEF UpTakes, UpCloses, UpFails, UpSends, taskVars
    <2>2. \/ UNCHANGED <<upSent, upEnd>>
          \/ upSent' = upSent /\ upEnd' # "open"
          \/ upEnd = "open" /\ upEnd' = upEnd /\ upSent' \in Nat /\ upSent' >= upSent
        <3>1. upSent \in Nat
            BY DEF BackInv, RingTypes
        <3>2. \A n \in 1..SockBuf : n \in Nat
            OBVIOUS
        <3> QED
            BY <1>4, <3>1, <3>2 DEF UpTakes, UpCloses, UpFails, UpSends
    <2> QED
        BY <1>1, <2>1, <2>2, BackGoesOn DEF bVars
<1>5. CASE RecvFin \/ SentFin \/ Err \/ TimeWaitEnds
    BY <1>5, StateSteps
<1>6. CASE \E n \in 1..SndBuf : Sent(n)
    BY <1>6, SentBack
<1> QED
    BY <1>2, <1>3, <1>4, <1>5, <1>6 DEF Next, SessionStep

LEMMA InitBack == Init => BackInv
<1> SUFFICES ASSUME Init PROVE BackInv
    OBVIOUS
<1>1. Len(unacked) = 0 /\ unacked \in Seq(0..max_size - 1)
    BY DEF Init
<1>2. /\ rp = 0 /\ wp = 0 /\ use_size = 0 /\ rda_size = 0 /\ snd_buf = SndBuf
      /\ acked = 0 /\ upRead = 0 /\ upSent = 0 /\ res_b = 1 /\ state = "ESTABLISHED"
      /\ data = [i \in 0..max_size - 1 |-> 0] /\ setup \in Setups
    BY DEF Init
<1>3. 0 \in 0..max_size - 1 /\ 0 \in 0..max_size
    BY Sizes
<1>4. RingTypes
    BY <1>1, <1>2, <1>3, Sizes DEF RingTypes, States
<1>5. Counts
    BY <1>1, <1>2, Sizes DEF Counts
<1>6. Stream
    <2>1. oldest = 0 /\ Wrap(0 + 0) = 0
        BY <1>2, Sizes DEF oldest, Wrap
    <2> QED
        BY <1>1, <1>2, <2>1 DEF Stream
<1>7. Handed
    BY <1>1, <1>2 DEF Handed, Ends
<1> QED
    BY <1>4, <1>5, <1>6, <1>7 DEF BackInv

LEMMA AlwaysBack == Spec => []BackInv
BY InitBack, StepBack, PTL DEF Spec

(* Every place lwIP may send or resend from holds the byte that is due     *)
(* there: reading goes on behind the bytes in use, and the ring starts     *)
(* over only when none is in use.                                          *)
THEOREM StreamStaysExact == Spec => []StreamExact
<1>1. BackInv => StreamExact
    <2> SUFFICES ASSUME BackInv, "memory" \notin setup.faults, NEW k \in DOMAIN unacked
                 PROVE  data[unacked[k]] = acked + k
        BY DEF StreamExact
    <2>1. /\ DOMAIN unacked = 1..Len(unacked) /\ Len(unacked) \in Nat
          /\ use_size \in Nat /\ rda_size \in Nat
        BY Sizes DEF BackInv, RingTypes
    <2>2. /\ unacked[k] = Wrap(oldest + k - 1) /\ use_size = rda_size + Len(unacked)
          /\ \A j \in 1..use_size : data[Wrap(oldest + j - 1)] = acked + j
        BY <2>1 DEF BackInv, Stream
    <2>3. k \in 1..use_size
        BY <2>1, <2>2
    <2> QED
        BY <2>2, <2>3
<1> QED
    BY <1>1, AlwaysBack, PTL

(* What readv may put into the ring fits into lwIP's send buffer, because  *)
(* the size of the ring is cut down to it: tcp_write refuses nothing for   *)
(* its size.                                                               *)
THEOREM ReadsFit == Spec => []RoomForRead
<1>1. BackInv => RoomForRead
    <2> SUFFICES ASSUME BackInv PROVE rda_size + (max_size - use_size) <= snd_buf
        BY DEF RoomForRead
    <2>1. /\ Len(unacked) \in Nat /\ use_size \in Nat /\ rda_size \in Nat /\ snd_buf \in Nat
          /\ rda_size + Len(unacked) <= use_size /\ snd_buf + Len(unacked) = SndBuf
        BY Sizes DEF BackInv, RingTypes, Counts
    <2> QED
        BY <2>1, Sizes
<1> QED
    BY <1>1, AlwaysBack, PTL

(* The application sees the end of the stream only after all of it was     *)
(* given to lwIP, whatever fails: a refused tcp_write ends the reading and *)
(* with it the way to the end.                                             *)
THEOREM FinLast == Spec => []FinComplete
<1>1. BackInv => FinComplete
    <2> SUFFICES ASSUME BackInv, state \notin {"ESTABLISHED", "CLOSE_WAIT", "freed"}
                 PROVE  acked + Len(unacked) = upRead /\ upRead = upSent
        BY DEF FinComplete
    <2>1. state \in Ends
        BY DEF BackInv, RingTypes, States, Ends
    <2>2. acked \in Nat /\ Len(unacked) \in Nat
        BY DEF BackInv, RingTypes
    <2> QED
        BY <2>1, <2>2 DEF BackInv, Handed
<1> QED
    BY <1>1, AlwaysBack, PTL

-----------------------------------------------------------------------------
(* Towards the server.                                                     *)

LEMMA StepForth == ForthInv /\ [Next]_vars => ForthInv'
<1> SUFFICES ASSUME ForthInv, [Next]_vars PROVE ForthInv'
    OBVIOUS
<1>1. ASSUME UNCHANGED <<queue, written, sent, shut>>, pcb_eof => pcb_eof'
      PROVE  ForthInv'
    BY <1>1 DEF ForthInv
<1>2. CASE Splice
    <2>1. UNCHANGED <<sent, pcb_eof>>
        BY <1>2 DEF Splice
    <2>2. CASE UNCHANGED fVars
        BY <1>1, <2>1, <2>2 DEF fVars
    <2>3. CASE queue = 0 /\ pcb_eof /\ ShutDown
        BY <2>1, <2>3 DEF ShutDown, ForthInv
    <2>4. CASE queue > 0 /\ WriteQueue /\ ~UNCHANGED fVars
        <3>1. PICK n \in 1..queue : queue' = queue - n /\ written' = written + n
            BY <2>4 DEF WriteQueue
        <3>2. ~shut' /\ shut' = shut
            BY <2>4 DEF WriteQueue, ForthInv
        <3>3. /\ {queue, written, sent} \subseteq Nat /\ written + queue = sent
            BY DEF ForthInv
        <3>4. queue' \in Nat /\ written' \in Nat /\ written' + queue' = sent
            BY <3>1, <3>3
        <3> QED
            BY <2>1, <3>2, <3>3, <3>4 DEF ForthInv
    <2> QED
        BY <1>2, <2>2, <2>3, <2>4 DEF Splice, SpliceF
<1>3. CASE \E n \in 1..Wnd : Recv(n)
    <2>1. PICK n \in 1..Wnd : Recv(n)
        BY <1>3
    <2>2. /\ {queue, written, sent} \subseteq Nat /\ written + queue = sent /\ n \in Nat
        BY DEF ForthInv
    <2>3. /\ queue' = queue + n /\ sent' = sent + n /\ written' = written
          /\ shut' = shut /\ ~pcb_eof
        BY <2>1 DEF Recv
    <2> QED
        BY <2>2, <2>3 DEF ForthInv
<1>4. CASE RecvFin
    BY <1>1, <1>4 DEF RecvFin, fVars
<1>5. ASSUME \/ Connected \/ Drains \/ ConnectFails \/ TimesOut \/ Poll \/ Stopped
             \/ UNCHANGED vars
             \/ \E n \in 1..SndBuf : Sent(n)
             \/ SentFin \/ Err \/ TimeWaitEnds
             \/ UpTakes \/ UpCloses \/ UpFails \/ \E n \in 1..SockBuf : UpSends(n)
      PROVE  ForthInv'
    <2>1. UNCHANGED <<fVars, sent, pcb_eof>>
        BY <1>5 DEF Connected, Drains, ConnectFails, TimesOut, Poll, Stopped, vars, Sent,
                    SentFin, Err, TimeWaitEnds, UpTakes, UpCloses, UpFails, UpSends
    <2> QED
        BY <1>1, <2>1 DEF fVars
<1> QED
    BY <1>2, <1>3, <1>4, <1>5 DEF Next, SessionStep

(* The server sees the end of the stream only after every byte the         *)
(* application sent before its own end was written.                        *)
THEOREM ShutLast == Spec => []ShutComplete
<1>1. Init => ForthInv
    BY DEF Init, ForthInv
<1>2. ForthInv => ShutComplete
    <2> SUFFICES ASSUME ForthInv, shut PROVE pcb_eof /\ queue = 0 /\ written = sent
        BY DEF ShutComplete
    <2> QED
        BY DEF ForthInv
<1> QED
    BY <1>1, <1>2, StepForth, PTL DEF Spec
=============================================================================
