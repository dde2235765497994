-------------------------- MODULE WriteSessionProofs --------------------------
(***************************************************************************)
(* Proofs about the steps of WriteSession, for any packets, sizes and room *)
(* in the socket.  WriteSession has no specification of its own: module    *)
(* DeliveryProofs shows that every step of Delivery is one of these.       *)
(***************************************************************************)
EXTENDS WriteSession, FiniteSetTheorems, TLAPS

\* The steps, whoever takes them.
WriteNext ==
    \/ \E p \in Packets : destroy(p) \/ \E stays \in BOOLEAN : async_write(p, stays)
    \/ Writable \/ Posted \/ ServerReads \/ ConnectionBreaks

\* A packet that is partly written was split, one that waits is known to wait, and
\* one that the worker is to take up is written or was split.
SplitInv ==
    /\ \A p \in Packets : sent[p] \in 1..(Size[p] - 1) => p \in split
    /\ \A i \in DOMAIN queue : queue[i] \in waited
    /\ \A i \in DOMAIN posted : sent[posted[i]] = Size[posted[i]] \/ posted[i] \in split

\* q lists, once each, the packets whose write is in the state st.
Lists(q, w, st) ==
    /\ \A i \in DOMAIN q : w[q[i]] = st
    /\ \A i, j \in DOMAIN q : q[i] = q[j] => i = j
    /\ \A p \in Packets : w[p] = st => \E i \in DOMAIN q : q[i] = p

Begun == {p \in Packets : wr[p] # "none"}
Counted == {p \in Packets : wr[p] = "done" /\ sent[p] = Size[p]}

\* The queue and the posts hold the writes under way; those ended with the whole
\* packet written are counted.
BookInv ==
    /\ Lists(queue, wr, "queued")
    /\ Lists(posted, wr, "posted")
    /\ \A p \in Packets : wr[p] = "none" => sent[p] = 0
    /\ IsFiniteSet(Begun)
    /\ writeCounter = Cardinality(Counted)

-----------------------------------------------------------------------------
(* Types.                                                                  *)

\* What Min of the community modules is, of two numbers.
LEMMA MinOfTwo ==
    ASSUME NEW a \in Int, NEW b \in Int
    PROVE  Min({a, b}) = IF a <= b THEN a ELSE b
  BY DEF Min

\* A send takes no more than is left of the packet and than there is room for.
LEMMA SendTakes ==
    ASSUME WriteTypeOK, NEW p \in Packets, NEW exists, NEW ready, Send(p, exists, ready)
    PROVE  \E n \in Nat :
              /\ n <= Size[p] - sent[p] /\ unread + n \in 0..Room
              /\ sent' = [sent EXCEPT ![p] = @ + n]
              /\ stream' = stream \o Units(p, n, exists)
              /\ unread' = unread + n
              /\ wr' = [wr EXCEPT ![p] = "posted"]
              /\ posted' = Append(ready, p)
              /\ split' = IF n < Size[p] - sent[p] THEN split \cup {p} ELSE split
  <1> USE WriteAssumption
  <1> DEFINE left == Size[p] - sent[p]
             free == Room - unread
             room == Min({Most, free})
             n == IF broken THEN 0 ELSE Min({left, room})
  <1>0. left \in Nat /\ free \in Nat /\ Most \in Nat /\ unread \in 0..Room
    BY DEF WriteTypeOK
  <1>a. room = IF Most <= free THEN Most ELSE free
    <2> HIDE DEF free
    <2>1. Most \in Int /\ free \in Int
      BY <1>0
    <2> QED
      BY <2>1, MinOfTwo, Zenon
  <1>1. left \in Nat /\ room \in Nat /\ room <= free /\ unread \in 0..Room
    BY <1>0, <1>a
  <1>2. n = 0 \/ n = Min({left, room})
    BY Zenon
  <1>3. /\ sent' = [sent EXCEPT ![p] = @ + n]
        /\ stream' = stream \o Units(p, n, exists)
        /\ unread' = unread + n
        /\ wr' = [wr EXCEPT ![p] = "posted"]
        /\ posted' = Append(ready, p)
        /\ split' = IF n < left THEN split \cup {p} ELSE split
    BY Zenon DEF Send
  <1> HIDE DEF n
  <1>4. n \in Nat /\ n <= left /\ unread + n \in 0..Room
    <2>1. Min({left, room}) = IF left <= room THEN left ELSE room
      <3> HIDE DEF left, room
      <3>1. left \in Int /\ room \in Int
        BY <1>1
      <3> QED
        BY <3>1, MinOfTwo, Zenon
    <2> HIDE DEF room
    <2> QED
      BY <1>1, <1>2, <2>1
  <1> QED
    BY <1>3, <1>4, Zenon

\* A send keeps the types.
LEMMA SendTypes ==
    ASSUME WriteTypeOK, NEW p \in Packets, NEW exists \in BOOLEAN, NEW ready \in Seq(Packets),
           Send(p, exists, ready), UNCHANGED <<broken, writeCounter>>,
           alive' \in SUBSET Packets, queue' \in Seq(Packets), waited' \in SUBSET Packets
    PROVE  WriteTypeOK'
  <1> USE WriteAssumption
  <1>1. PICK n \in Nat :
              /\ n <= Size[p] - sent[p] /\ unread + n \in 0..Room
              /\ sent' = [sent EXCEPT ![p] = @ + n]
              /\ stream' = stream \o Units(p, n, exists)
              /\ unread' = unread + n
              /\ wr' = [wr EXCEPT ![p] = "posted"]
              /\ posted' = Append(ready, p)
              /\ split' = IF n < Size[p] - sent[p] THEN split \cup {p} ELSE split
    BY SendTakes, Zenon
  <1>2. sent[p] \in Nat
    BY DEF WriteTypeOK
  <1>3. Units(p, n, exists) \in Seq([packet : Packets, unit : Nat, intact : BOOLEAN])
    BY <1>2 DEF Units
  <1>4. stream' \in Seq([packet : Packets, unit : Nat, intact : BOOLEAN])
    BY <1>1, <1>3 DEF WriteTypeOK
  <1>5. /\ sent' \in [Packets -> Nat] /\ \A q \in Packets : sent'[q] <= Size[q]
        /\ unread' \in 0..Room
    BY <1>1 DEF WriteTypeOK
  <1>6. /\ wr' \in [Packets -> {"none", "queued", "posted", "done"}]
        /\ posted' \in Seq(Packets)
        /\ split' \in SUBSET Packets
    BY <1>1 DEF WriteTypeOK
  <1>7. broken' \in BOOLEAN /\ writeCounter' \in Nat
    BY Zenon DEF WriteTypeOK
  <1> QED
    BY <1>4, <1>5, <1>6, <1>7, Zenon DEF WriteTypeOK

\* Either way of async_write_some.
LEMMA WriteSomeTypes ==
    ASSUME WriteTypeOK, NEW p \in Packets, NEW exists \in BOOLEAN, NEW ready \in Seq(Packets),
           async_write_some(p, exists, ready), UNCHANGED broken,
           writeCounter' = writeCounter, alive' \in SUBSET Packets
    PROVE  WriteTypeOK'
  <1>1. CASE queue = <<>> /\ (broken \/ unread < Room)
    <2>1. /\ Send(p, exists, ready) /\ UNCHANGED <<queue, waited>>
          /\ UNCHANGED <<broken, writeCounter>>
      BY <1>1 DEF async_write_some
    <2>2. queue' \in Seq(Packets) /\ waited' \in SUBSET Packets
      BY <2>1 DEF WriteTypeOK
    <2> QED
      BY <2>1, <2>2, SendTypes
  <1>2. CASE ~(queue = <<>> /\ (broken \/ unread < Room))
    <2>1. /\ wr' = [wr EXCEPT ![p] = "queued"]
          /\ queue' = Append(queue, p)
          /\ posted' = ready
          /\ waited' = waited \cup {p}
          /\ UNCHANGED <<sent, stream, unread, split>>
      BY <1>2, Zenon DEF async_write_some
    <2>2. /\ wr' \in [Packets -> {"none", "queued", "posted", "done"}]
          /\ queue' \in Seq(Packets) /\ posted' \in Seq(Packets)
          /\ waited' \in SUBSET Packets
      BY <2>1 DEF WriteTypeOK
    <2>3. broken' \in BOOLEAN /\ writeCounter' \in Nat
      BY Zenon DEF WriteTypeOK
    <2> QED
      BY <2>1, <2>2, <2>3 DEF WriteTypeOK
  <1> QED
    BY <1>1, <1>2

\* Every step of the writes keeps their types.
LEMMA WriteTypes ==
    ASSUME WriteTypeOK, [WriteNext]_writeVars
    PROVE  WriteTypeOK'
  <1>1. ASSUME NEW p \in Packets, NEW stays \in BOOLEAN, async_write(p, stays)
        PROVE  WriteTypeOK'
    <2>1. /\ posted \in Seq(Packets) /\ alive' \in SUBSET Packets
          /\ async_write_some(p, TRUE, posted)
          /\ UNCHANGED <<broken, writeCounter>>
      BY <1>1 DEF async_write, WriteTypeOK
    <2> QED
      BY <2>1, WriteSomeTypes
  <1>2. ASSUME NEW p \in Packets, destroy(p)
        PROVE  WriteTypeOK'
    BY <1>2 DEF destroy, WriteTypeOK, socketVars
  <1>3. CASE Writable
    <2>1. Head(queue) \in Packets /\ Tail(queue) \in Seq(Packets)
      BY <1>3 DEF Writable, WriteTypeOK
    <2>2. WriteTypeOK'
      <3>1. /\ Send(Head(queue), Head(queue) \in alive, posted)
            /\ queue' = Tail(queue)
            /\ UNCHANGED <<alive, broken, writeCounter, waited>>
        BY <1>3 DEF Writable
      <3>2. /\ (Head(queue) \in alive) \in BOOLEAN /\ posted \in Seq(Packets)
            /\ alive' \in SUBSET Packets /\ waited' \in SUBSET Packets
            /\ queue' \in Seq(Packets)
        BY <2>1, <3>1 DEF WriteTypeOK
      <3> QED
        BY <2>1, <3>1, <3>2, SendTypes
    <2> QED
      BY <2>2
  <1>4. CASE Posted
    <2>1. Head(posted) \in Packets /\ Tail(posted) \in Seq(Packets)
      BY <1>4 DEF Posted, WriteTypeOK
    <2>2. CASE Carried(Head(posted))
      <3>1. /\ async_write_some(Head(posted), Head(posted) \in alive, Tail(posted))
            /\ UNCHANGED <<writeCounter, alive, broken>>
        BY <1>4, <2>2 DEF Posted
      <3>2. (Head(posted) \in alive) \in BOOLEAN /\ alive' \in SUBSET Packets
        BY <3>1 DEF WriteTypeOK
      <3> QED
        BY <2>1, <3>1, <3>2, WriteSomeTypes
    <2>3. CASE ~Carried(Head(posted))
      <3>1. /\ handle_write_request(Head(posted))
            /\ wr' = [wr EXCEPT ![Head(posted)] = "done"]
            /\ posted' = Tail(posted)
            /\ UNCHANGED <<sent, queue, stream, unread, split, waited, alive, broken>>
        BY <1>4, <2>3 DEF Posted
      <3>2. writeCounter' \in Nat
        BY <3>1 DEF handle_write_request, WriteTypeOK
      <3> QED
        BY <2>1, <3>1, <3>2 DEF WriteTypeOK
    <2> QED
      BY <2>2, <2>3
  <1>5. CASE ServerReads
    BY <1>5, WriteAssumption DEF ServerReads, WriteTypeOK
  <1>6. CASE ConnectionBreaks
    BY <1>6 DEF ConnectionBreaks, WriteTypeOK, socketVars
  <1>7. CASE UNCHANGED writeVars
    BY <1>7 DEF writeVars, WriteTypeOK, socketVars
  <1> QED
    BY <1>1, <1>2, <1>3, <1>4, <1>5, <1>6, <1>7 DEF WriteNext

-----------------------------------------------------------------------------
(* What is in the stream.                                                  *)

\* Where the elements of two sequences are when one follows the other.
LEMMA ConcatIndex ==
    ASSUME NEW S, NEW s \in Seq(S), NEW t \in Seq(S)
    PROVE  /\ Len(s) \in Nat /\ DOMAIN s = 1..Len(s) /\ Len(t) \in Nat /\ DOMAIN t = 1..Len(t)
           /\ DOMAIN (s \o t) = 1..(Len(s) + Len(t))
           /\ \A i \in 1..Len(s) : (s \o t)[i] = s[i]
           /\ \A i \in (Len(s) + 1)..(Len(s) + Len(t)) : (s \o t)[i] = t[i - Len(s)]
  OBVIOUS

\* The units that a send adds.
LEMMA SendStream ==
    ASSUME WriteTypeOK, NEW p \in Packets, NEW n \in Nat, NEW exists \in BOOLEAN,
           stream' = stream \o Units(p, n, exists)
    PROVE  /\ Len(stream) \in Nat /\ DOMAIN stream = 1..Len(stream)
           /\ DOMAIN stream' = 1..(Len(stream) + n)
           /\ \A i \in 1..Len(stream) : stream'[i] = stream[i]
           /\ \A i \in (Len(stream) + 1)..(Len(stream) + n) :
                  /\ stream'[i].packet = p
                  /\ stream'[i].unit = sent[p] + (i - Len(stream))
                  /\ ~stream'[i].intact => ~exists
  <1> DEFINE Unit == [packet : Packets, unit : Nat, intact : BOOLEAN]
             L == Len(stream)
             new == Units(p, n, exists)
  <1>1. stream \in Seq(Unit) /\ sent[p] \in Nat
    BY DEF WriteTypeOK
  <1>2. new \in Seq(Unit)
    BY <1>1 DEF Units
  <1>3. /\ DOMAIN new = 1..n
        /\ \A i \in 1..n : /\ new[i].packet = p /\ new[i].unit = sent[p] + i
                           /\ ~new[i].intact => ~exists
    BY Zenon DEF Units
  <1> HIDE DEF Unit, new
  <1>4. /\ L \in Nat /\ DOMAIN stream = 1..L /\ Len(new) \in Nat /\ DOMAIN new = 1..Len(new)
        /\ DOMAIN stream' = 1..(L + Len(new))
        /\ \A i \in 1..L : stream'[i] = stream[i]
        /\ \A i \in (L + 1)..(L + Len(new)) : stream'[i] = new[i - L]
    <2>1. stream' = stream \o new
      BY DEF new
    <2> QED
      BY <1>1, <1>2, <2>1, ConcatIndex
  <1>5. Len(new) = n
    BY <1>3, <1>4
  <1>6. ASSUME NEW i \in (L + 1)..(L + n)
        PROVE  /\ stream'[i].packet = p /\ stream'[i].unit = sent[p] + (i - L)
               /\ ~stream'[i].intact => ~exists
    <2>1. i - L \in 1..n
      BY <1>4
    <2>2. stream'[i] = new[i - L]
      BY <1>4, <1>5, Zenon
    <2> QED
      BY <1>3, <2>1, <2>2, Zenon
  <1> QED
    BY <1>4, <1>5, <1>6, Zenon

\* The order of the units of a packet q in a stream s of length l, k of them.
InSequence(s, l, q, k) ==
    LET mine == {i \in 1..l : s[i].packet = q}
    IN  /\ \A i, j \in mine : i < j => s[i].unit < s[j].unit
        /\ {s[i].unit : i \in mine} = 1..k

\* The next n units of p keep the order of every packet q.
LEMMA SequenceGrows ==
    ASSUME NEW s, NEW t, NEW l \in Nat, NEW n \in Nat, NEW k \in Nat, NEW p, NEW q, NEW m \in Nat,
           \A i \in 1..l : t[i] = s[i],
           \A i \in (l + 1)..(l + n) : t[i].packet = p /\ t[i].unit = k + (i - l),
           InSequence(s, l, q, m), q = p => m = k
    PROVE  InSequence(t, l + n, q, IF q = p THEN m + n ELSE m)
  <1> DEFINE old == {i \in 1..l : s[i].packet = q}
             mine == {i \in 1..(l + n) : t[i].packet = q}
             m2 == IF q = p THEN m + n ELSE m
  <1>1. /\ \A i, j \in old : i < j => s[i].unit < s[j].unit
        /\ {s[i].unit : i \in old} = 1..m
    BY DEF InSequence
  <1>2. \A i \in old : i \in 1..l /\ i \in mine /\ t[i].unit = s[i].unit /\ s[i].unit \in 1..m
    BY <1>1
  <1>3. ASSUME NEW i \in mine
        PROVE  \/ i \in old
               \/ i \in (l + 1)..(l + n) /\ q = p /\ t[i].unit = m + (i - l)
    OBVIOUS
  <1>4. ASSUME NEW i \in mine, NEW j \in mine, i < j
        PROVE  t[i].unit < t[j].unit
    <2>1. CASE i \in old /\ j \in old
      BY <1>1, <1>2, <1>4, <2>1
    <2>2. CASE ~(i \in old /\ j \in old)
      <3> HIDE DEF old, mine
      <3> QED
        BY <1>2, <1>3, <1>4, <2>2
    <2> QED
      BY <2>1, <2>2
  <1>5. {t[i].unit : i \in mine} \subseteq 1..m2
    <2> HIDE DEF old, mine
    <2> QED
      BY <1>2, <1>3
  <1>6. ASSUME NEW u \in 1..m2
        PROVE  \E i \in mine : t[i].unit = u
    <2>1. CASE u <= m
      <3>1. PICK i \in old : s[i].unit = u
        BY <1>1, <2>1
      <3> QED
        BY <1>2, <3>1
    <2>2. CASE u > m
      <3>1. l + (u - m) \in (l + 1)..(l + n) /\ q = p
        BY <2>2
      <3>2. l + (u - m) \in mine /\ t[l + (u - m)].unit = u
        BY <2>2, <3>1
      <3> QED
        BY <3>2
    <2> QED
      BY <2>1, <2>2
  <1> HIDE DEF m2
  <1>7. {t[i].unit : i \in mine} = 1..m2
    BY <1>5, <1>6
  <1> QED
    BY <1>4, <1>7 DEF InSequence, m2

\* What SplitInv says of the writes that the worker is to take up.
Accounted(q) == \A i \in DOMAIN q : sent[q[i]] = Size[q[i]] \/ q[i] \in split

\* A send leaves its packet written or split.
LEMMA SendSplits ==
    ASSUME WriteTypeOK, SplitInv, NEW p \in Packets, NEW exists, NEW ready \in Seq(Packets),
           Send(p, exists, ready), Accounted(ready),
           \A i \in DOMAIN queue' : queue'[i] \in waited'
    PROVE  SplitInv' /\ split \subseteq split'
  <1> USE WriteAssumption
  <1>1. PICK n \in Nat : /\ n <= Size[p] - sent[p]
                         /\ sent' = [sent EXCEPT ![p] = @ + n]
                         /\ posted' = Append(ready, p)
                         /\ split' = IF n < Size[p] - sent[p] THEN split \cup {p} ELSE split
    BY SendTakes, Zenon
  <1>2. /\ sent \in [Packets -> Nat]
        /\ \A q \in Packets : Size[q] \in Nat /\ sent[q] \in Nat /\ sent[q] <= Size[q]
    BY DEF WriteTypeOK
  <1>3. /\ split \subseteq split'
        /\ \A q \in Packets : q # p => sent'[q] = sent[q]
        /\ sent'[p] = Size[p] \/ p \in split'
    <2>1. sent'[p] = sent[p] + n /\ \A q \in Packets : q # p => sent'[q] = sent[q]
      BY <1>1, <1>2, Zenon
    <2>2. CASE n < Size[p] - sent[p]
      BY <1>1, <2>1, <2>2, Zenon
    <2>3. CASE ~(n < Size[p] - sent[p])
      <3>1. n = Size[p] - sent[p]
        BY <1>1, <1>2, <2>3
      <3>2. sent[p] + n = Size[p]
        BY <1>2, <3>1
      <3> QED
        BY <1>1, <2>1, <2>3, <3>2, Zenon
    <2> QED
      BY <2>2, <2>3
  <1>4. ASSUME NEW q \in Packets, sent'[q] \in 1..(Size[q] - 1)
        PROVE  q \in split'
    <2>1. CASE q = p
      <3>1. sent'[q] # Size[q]
        BY <1>2, <1>4
      <3> QED
        BY <1>3, <2>1, <3>1, Zenon
    <2>2. CASE q # p
      BY <1>3, <1>4, <2>2, Zenon DEF SplitInv
    <2> QED
      BY <2>1, <2>2
  <1>5. ASSUME NEW i \in DOMAIN posted'
        PROVE  sent'[posted'[i]] = Size[posted'[i]] \/ posted'[i] \in split'
    <2>1. posted'[i] = p \/ (i \in DOMAIN ready /\ posted'[i] = ready[i])
      BY <1>1
    <2>2. CASE i \in DOMAIN ready /\ posted'[i] = ready[i] /\ ready[i] # p
      <3>1. ready[i] \in Packets
        BY <2>2
      <3> QED
        BY <1>3, <2>2, <3>1 DEF Accounted
    <2> QED
      BY <1>3, <2>1, <2>2
  <1> QED
    BY <1>3, <1>4, <1>5 DEF SplitInv

\* A send adds the next units of its packet at the end; only those of a packet that
\* was split have others before them.
LEMMA SendSound ==
    ASSUME WriteTypeOK, StreamSound, SplitInv,
           NEW p \in Packets, NEW exists \in BOOLEAN, NEW ready \in Seq(Packets),
           Send(p, exists, ready), split \subseteq split', waited \subseteq waited',
           exists \/ p \in split \cup waited
    PROVE  StreamSound'
  <1> DEFINE L == Len(stream)
  <1>1. PICK n \in Nat : /\ n <= Size[p] - sent[p]
                         /\ sent' = [sent EXCEPT ![p] = @ + n]
                         /\ stream' = stream \o Units(p, n, exists)
    BY SendTakes, Zenon
  <1>2. sent \in [Packets -> Nat] /\ sent[p] \in Nat /\ Size[p] \in Nat
    BY WriteAssumption DEF WriteTypeOK
  <1>3. /\ L \in Nat /\ DOMAIN stream = 1..L
        /\ DOMAIN stream' = 1..(L + n)
        /\ \A i \in 1..L : stream'[i] = stream[i]
        /\ \A i \in (L + 1)..(L + n) :
              /\ stream'[i].packet = p
              /\ stream'[i].unit = sent[p] + (i - L)
              /\ ~stream'[i].intact => ~exists
    BY <1>1, SendStream, Zenon
  <1> HIDE DEF L
  <1>4. \A i \in 1..(L + n) : i \in 1..L \/ i \in (L + 1)..(L + n)
    BY <1>3
  <1>5. ASSUME NEW q \in Packets
        PROVE  LET mine == {i \in DOMAIN stream' : stream'[i].packet = q}
               IN  /\ \A i, j \in mine : i < j => stream'[i].unit < stream'[j].unit
                   /\ {stream'[i].unit : i \in mine} = 1..sent'[q]
    <2>1. InSequence(stream, L, q, sent[q])
      BY <1>3, Zenon DEF InSequence, StreamSound
    <2>2. sent[q] \in Nat
      BY <1>2
    <2>3. \A i \in (L + 1)..(L + n) : stream'[i].packet = p /\ stream'[i].unit = sent[p] + (i - L)
      BY <1>3, Zenon
    <2>4. InSequence(stream', L + n, q, IF q = p THEN sent[q] + n ELSE sent[q])
      BY <1>2, <1>3, <2>1, <2>2, <2>3, SequenceGrows, Zenon
    <2>5. sent'[q] = IF q = p THEN sent[q] + n ELSE sent[q]
      BY <1>1, <1>2
    <2>6. InSequence(stream', L + n, q, sent'[q])
      BY <2>4, <2>5, Zenon
    <2> QED
      BY <1>3, <2>6, Zenon DEF InSequence
  <1>6. ASSUME NEW i \in DOMAIN stream', stream'[i].unit > 1, stream'[i].packet \notin split'
        PROVE  /\ i > 1
               /\ stream'[i - 1].packet = stream'[i].packet
               /\ stream'[i - 1].unit = stream'[i].unit - 1
    <2>1. CASE i \in 1..L
      <3>1. stream'[i] = stream[i] /\ i \in DOMAIN stream
        BY <1>3, <2>1, Zenon
      <3>2. stream[i].packet \notin split
        BY <1>6, <3>1, Zenon
      <3>3. /\ i > 1 /\ stream[i - 1].packet = stream[i].packet
            /\ stream[i - 1].unit = stream[i].unit - 1
        BY <1>6, <3>1, <3>2, Zenon DEF StreamSound
      <3>4. i - 1 \in 1..L
        BY <1>3, <2>1, <3>3
      <3>5. stream'[i - 1] = stream[i - 1]
        BY <1>3, <3>4, Zenon
      <3> QED
        BY <3>1, <3>3, <3>5, Zenon
    <2>2. CASE i \in (L + 1)..(L + n)
      <3>1. stream'[i].packet = p /\ stream'[i].unit = sent[p] + (i - L)
        BY <1>3, <2>2, Zenon
      <3>2. i = L + 1 => sent[p] \in 1..(Size[p] - 1)
        <4>1. n > 0
          BY <1>3, <2>2
        <4>2. i = L + 1 => sent[p] + (i - L) = sent[p] + 1
          BY <1>2, <1>3
        <4>3. i = L + 1 => sent[p] + 1 > 1
          BY <1>6, <3>1, <4>2, Zenon
        <4> QED
          BY <1>1, <1>2, <4>1, <4>3
      <3>3. i # L + 1
        BY <1>6, <3>1, <3>2, Zenon DEF SplitInv
      <3>4. i - 1 \in (L + 1)..(L + n) /\ i > 1
        BY <1>3, <2>2, <3>3
      <3>5. stream'[i - 1].packet = p /\ stream'[i - 1].unit = sent[p] + ((i - 1) - L)
        BY <1>3, <3>4, Zenon
      <3>6. sent[p] + ((i - 1) - L) = (sent[p] + (i - L)) - 1
        BY <1>2, <1>3, <2>2
      <3> QED
        BY <3>1, <3>4, <3>5, <3>6, Zenon
    <2> QED
      BY <1>3, <1>4, <2>1, <2>2, Zenon
  <1>7. ASSUME NEW i \in DOMAIN stream', ~stream'[i].intact
        PROVE  stream'[i].packet \in split' \cup waited'
    <2>1. CASE i \in 1..L
      <3>1. stream'[i] = stream[i] /\ i \in DOMAIN stream
        BY <1>3, <2>1, Zenon
      <3>2. stream[i].packet \in split \cup waited
        BY <1>7, <3>1, Zenon DEF StreamSound
      <3> QED
        BY <3>1, <3>2, Zenon
    <2>2. CASE i \in (L + 1)..(L + n)
      BY <1>3, <1>7, <2>2, Zenon
    <2> QED
      BY <1>3, <1>4, <2>1, <2>2, Zenon
  <1> QED
    BY <1>5, <1>6, <1>7, Zenon DEF StreamSound

\* Either way of async_write_some.
LEMMA WriteSomeSound ==
    ASSUME WriteTypeOK, StreamSound, SplitInv,
           NEW p \in Packets, NEW exists \in BOOLEAN, NEW ready \in Seq(Packets),
           async_write_some(p, exists, ready), Accounted(ready),
           exists \/ p \in split \cup waited
    PROVE  StreamSound' /\ SplitInv'
  <1>1. CASE queue = <<>> /\ (broken \/ unread < Room)
    <2>1. Send(p, exists, ready) /\ UNCHANGED <<queue, waited>>
      BY <1>1 DEF async_write_some
    <2>2. waited \subseteq waited' /\ \A i \in DOMAIN queue' : queue'[i] \in waited'
      BY <2>1, Zenon DEF SplitInv
    <2>3. SplitInv' /\ split \subseteq split'
      BY <2>1, <2>2, SendSplits
    <2> QED
      BY <2>1, <2>2, <2>3, SendSound
  <1>2. CASE ~(queue = <<>> /\ (broken \/ unread < Room))
    <2>1. /\ queue' = Append(queue, p)
          /\ posted' = ready
          /\ waited' = waited \cup {p}
          /\ UNCHANGED <<sent, stream, unread, split>>
      BY <1>2, Zenon DEF async_write_some
    <2>2. StreamSound'
      BY <2>1, Zenon DEF StreamSound
    <2>3. \A i \in DOMAIN queue' : queue'[i] \in waited'
      <3>1. queue \in Seq(Packets) /\ \A i \in DOMAIN queue : queue[i] \in waited
        BY DEF WriteTypeOK, SplitInv
      <3>2. \A i \in DOMAIN queue' : queue'[i] = p \/ (i \in DOMAIN queue /\ queue'[i] = queue[i])
        BY <2>1, <3>1
      <3> QED
        BY <2>1, <3>1, <3>2
    <2>4. SplitInv'
      BY <2>1, <2>3, Zenon DEF SplitInv, Accounted
    <2> QED
      BY <2>2, <2>4
  <1> QED
    BY <1>1, <1>2

\* Every step keeps the stream sound.
LEMMA WriteSound ==
    ASSUME WriteTypeOK, StreamSound, SplitInv, [WriteNext]_writeVars
    PROVE  StreamSound' /\ SplitInv'
  <1>0. /\ posted \in Seq(Packets) /\ queue \in Seq(Packets) /\ Accounted(posted)
    BY DEF WriteTypeOK, SplitInv, Accounted
  <1>1. ASSUME NEW p \in Packets, NEW stays \in BOOLEAN, async_write(p, stays)
        PROVE  StreamSound' /\ SplitInv'
    <2>1. async_write_some(p, TRUE, posted)
      BY <1>1 DEF async_write
    <2> QED
      BY <1>0, <2>1, WriteSomeSound
  <1>2. CASE Writable
    <2> DEFINE p == Head(queue)
    <2>1. /\ queue # <<>> /\ Send(p, p \in alive, posted)
          /\ queue' = Tail(queue) /\ UNCHANGED waited
      BY <1>2 DEF Writable
    <2>2. /\ p \in Packets /\ p \in waited
          /\ \A i \in DOMAIN queue' : queue'[i] \in waited'
      <3>1. 1 \in DOMAIN queue /\ p = queue[1] /\ p \in Packets
            /\ \A i \in DOMAIN Tail(queue) : i + 1 \in DOMAIN queue /\ Tail(queue)[i] = queue[i + 1]
        BY <1>0, <2>1
      <3> QED
        BY <2>1, <3>1 DEF SplitInv
    <2> HIDE DEF p
    <2>3. (p \in alive) \in BOOLEAN
      OBVIOUS
    <2>4. SplitInv' /\ split \subseteq split'
      BY <1>0, <2>1, <2>2, SendSplits
    <2>5. waited \subseteq waited' /\ p \in split \cup waited
      BY <2>1, <2>2
    <2> QED
      BY <1>0, <2>1, <2>2, <2>3, <2>4, <2>5, SendSound
  <1>3. CASE Posted
    <2> DEFINE p == Head(posted)
    <2>1. /\ 1 \in DOMAIN posted /\ p = posted[1] /\ p \in Packets /\ Tail(posted) \in Seq(Packets)
          /\ \A i \in DOMAIN Tail(posted) :
                i + 1 \in DOMAIN posted /\ Tail(posted)[i] = posted[i + 1]
      BY <1>0, <1>3 DEF Posted
    <2>2. Accounted(Tail(posted))
      BY <1>0, <2>1 DEF Accounted
    <2>3. CASE Carried(p)
      <3>1. async_write_some(p, p \in alive, Tail(posted))
        BY <1>3, <2>3 DEF Posted
      <3>2. p \in split
        <4>1. sent[p] # Size[p]
          BY <2>1, <2>3, WriteAssumption DEF Carried, WriteTypeOK
        <4> QED
          BY <1>0, <2>1, <4>1, Zenon DEF Accounted
      <3> HIDE DEF p
      <3>3. (p \in alive) \in BOOLEAN /\ p \in split \cup waited
        BY <3>2
      <3> QED
        BY <2>1, <2>2, <3>1, <3>3, WriteSomeSound
    <2>4. CASE ~Carried(p)
      <3>1. posted' = Tail(posted) /\ UNCHANGED <<sent, queue, stream, split, waited>>
        BY <1>3, <2>4, Zenon DEF Posted
      <3>2. StreamSound'
        BY <3>1, Zenon DEF StreamSound
      <3>3. SplitInv'
        BY <2>2, <3>1, Zenon DEF SplitInv, Accounted
      <3> QED
        BY <3>2, <3>3
    <2> QED
      BY <2>3, <2>4
  <1>4. CASE UNCHANGED <<sent, queue, posted, stream, split, waited>>
    BY <1>4, Zenon DEF StreamSound, SplitInv
  <1>5. CASE (\E p \in Packets : destroy(p)) \/ ServerReads \/ ConnectionBreaks
             \/ UNCHANGED writeVars
    BY <1>4, <1>5, Zenon DEF destroy, ServerReads, ConnectionBreaks, writeVars, socketVars
  <1> QED
    BY <1>1, <1>2, <1>3, <1>5, Zenon DEF WriteNext

-----------------------------------------------------------------------------
(* The queue, the posts and the counter.                                   *)

\* The write of p enters the state that q lists.
LEMMA ListAppend ==
    ASSUME NEW q \in Seq(Packets), NEW S, NEW w \in [Packets -> S], NEW st \in S,
           NEW p \in Packets, Lists(q, w, st), w[p] # st
    PROVE  Lists(Append(q, p), [w EXCEPT ![p] = st], st)
  <1> DEFINE r == Append(q, p)
             v == [w EXCEPT ![p] = st]
  <1>1. /\ Len(q) \in Nat /\ DOMAIN q = 1..Len(q) /\ DOMAIN r = 1..(Len(q) + 1)
        /\ r[Len(q) + 1] = p
        /\ \A i \in 1..Len(q) : r[i] = q[i] /\ q[i] \in Packets
    OBVIOUS
  <1>2. \A i \in 1..Len(q) : q[i] # p /\ w[q[i]] = st
    BY <1>1 DEF Lists
  <1>3. v[p] = st /\ \A x \in Packets : x # p => v[x] = w[x]
    OBVIOUS
  <1> HIDE DEF r, v
  <1>4. \A i \in DOMAIN r : v[r[i]] = st
    BY <1>1, <1>2, <1>3
  <1>5. \A i, j \in DOMAIN r : r[i] = r[j] => i = j
    BY <1>1, <1>2 DEF Lists
  <1>6. \A x \in Packets : v[x] = st => \E i \in DOMAIN r : r[i] = x
    BY <1>1, <1>3 DEF Lists
  <1> QED
    BY <1>4, <1>5, <1>6 DEF Lists, r, v

\* The write of the first of q leaves that state.
LEMMA ListTail ==
    ASSUME NEW q \in Seq(Packets), NEW S, NEW w \in [Packets -> S], NEW st, NEW other \in S,
           q # <<>>, Lists(q, w, st), other # st
    PROVE  Lists(Tail(q), [w EXCEPT ![Head(q)] = other], st)
  <1> DEFINE r == Tail(q)
             p == Head(q)
             v == [w EXCEPT ![p] = other]
  <1>1. /\ Len(q) \in Nat /\ DOMAIN q = 1..Len(q) /\ DOMAIN r = 1..(Len(q) - 1)
        /\ 1 \in 1..Len(q) /\ q[1] = p /\ p \in Packets
        /\ \A i \in 1..(Len(q) - 1) : r[i] = q[i + 1] /\ q[i + 1] \in Packets
    OBVIOUS
  <1>2. v[p] = other /\ \A x \in Packets : x # p => v[x] = w[x]
    BY <1>1
  <1> HIDE DEF r, p, v
  <1>3. \A i \in 1..(Len(q) - 1) : i + 1 \in DOMAIN q /\ q[i + 1] # p
    BY <1>1 DEF Lists
  <1>4. \A i \in DOMAIN r : v[r[i]] = st
    BY <1>1, <1>2, <1>3 DEF Lists
  <1>5. \A i, j \in DOMAIN r : r[i] = r[j] => i = j
    <2> SUFFICES ASSUME NEW i \in DOMAIN r, NEW j \in DOMAIN r, r[i] = r[j]
                 PROVE  i = j
      OBVIOUS
    <2>1. i + 1 = j + 1
      BY <1>1, <1>3 DEF Lists
    <2> QED
      BY <1>1, <2>1
  <1>6. ASSUME NEW x \in Packets, v[x] = st
        PROVE  \E i \in DOMAIN r : r[i] = x
    <2>1. x # p /\ w[x] = st
      BY <1>2, <1>6
    <2>2. PICK j \in DOMAIN q : q[j] = x
      BY <2>1 DEF Lists
    <2>3. j # 1 /\ j - 1 \in DOMAIN r /\ r[j - 1] = q[j]
      BY <1>1, <2>1, <2>2
    <2> QED
      BY <2>2, <2>3
  <1> QED
    BY <1>4, <1>5, <1>6 DEF Lists, r, p, v

\* The first of q goes to its end: out of the state and back.
LEMMA ListRotate ==
    ASSUME NEW q \in Seq(Packets), NEW S, NEW w \in [Packets -> S], NEW st \in S,
           NEW other \in S, other # st, q # <<>>, Lists(q, w, st)
    PROVE  Lists(Append(Tail(q), Head(q)), [w EXCEPT ![Head(q)] = st], st)
  <1> DEFINE p == Head(q)
             v == [w EXCEPT ![p] = other]
  <1>1. p \in Packets /\ Tail(q) \in Seq(Packets) /\ v \in [Packets -> S]
    OBVIOUS
  <1>2. Lists(Tail(q), v, st)
    BY ListTail
  <1>3. v[p] # st /\ [v EXCEPT ![p] = st] = [w EXCEPT ![p] = st]
    BY <1>1
  <1> HIDE DEF v, p
  <1>4. Lists(Append(Tail(q), p), [v EXCEPT ![p] = st], st)
    BY <1>1, <1>2, <1>3, ListAppend
  <1> QED
    BY <1>3, <1>4 DEF p

\* The write of p is neither before nor after in that state.
LEMMA ListKeep ==
    ASSUME NEW q \in Seq(Packets), NEW S, NEW w \in [Packets -> S], NEW st, NEW other \in S,
           NEW p \in Packets, Lists(q, w, st), w[p] # st, other # st
    PROVE  Lists(q, [w EXCEPT ![p] = other], st)
  <1> DEFINE v == [w EXCEPT ![p] = other]
  <1>1. v[p] = other /\ \A x \in Packets : x # p => v[x] = w[x]
    OBVIOUS
  <1>2. \A i \in DOMAIN q : q[i] \in Packets /\ q[i] # p
    BY DEF Lists
  <1> HIDE DEF v
  <1> QED
    BY <1>1, <1>2 DEF Lists, v

States == {"none", "queued", "posted", "done"}

\* A step that leaves the ended writes alone keeps the count; the first send of a
\* packet begins one write.
LEMMA CountKept ==
    ASSUME WriteTypeOK, BookInv, NEW p \in Packets, NEW st \in States \ {"none", "done"},
           wr[p] # "done", wr' = [wr EXCEPT ![p] = st], UNCHANGED writeCounter,
           \A q \in Packets : q # p => sent'[q] = sent[q]
    PROVE  /\ \A q \in Packets : wr'[q] = "none" => sent'[q] = 0
           /\ IsFiniteSet(Begun') /\ writeCounter' = Cardinality(Counted')
  <1>1. wr \in [Packets -> States]
    BY DEF WriteTypeOK, States
  <1>2. wr'[p] = st /\ \A q \in Packets : q # p => wr'[q] = wr[q]
    BY <1>1
  <1>3. \A q \in Packets : wr'[q] = "none" => sent'[q] = 0
    BY <1>2 DEF BookInv
  <1>4. Begun' = Begun \cup {p}
    BY <1>2 DEF Begun
  <1>5. Counted' = Counted
    BY <1>2 DEF Counted, States
  <1>6. IsFiniteSet(Begun')
    BY <1>4, FS_AddElement DEF BookInv
  <1> QED
    BY <1>3, <1>5, <1>6 DEF BookInv

\* A send changes the count of units of its packet only.
LEMMA SendSent ==
    ASSUME WriteTypeOK, NEW p \in Packets, NEW exists, NEW ready, Send(p, exists, ready)
    PROVE  /\ \A q \in Packets : q # p => sent'[q] = sent[q]
           /\ wr' = [wr EXCEPT ![p] = "posted"] /\ posted' = Append(ready, p)
  <1>1. PICK n \in Nat : /\ sent' = [sent EXCEPT ![p] = @ + n]
                         /\ wr' = [wr EXCEPT ![p] = "posted"]
                         /\ posted' = Append(ready, p)
    BY SendTakes, Zenon
  <1> QED
    BY <1>1 DEF WriteTypeOK

\* async_write keeps the books.
LEMMA BookWrite ==
    ASSUME WriteTypeOK, BookInv, NEW p \in Packets, NEW stays, async_write(p, stays)
    PROVE  BookInv'
  <1>0. /\ wr \in [Packets -> States] /\ queue \in Seq(Packets) /\ posted \in Seq(Packets)
        /\ {"none", "queued", "posted", "done"} \subseteq States
    BY DEF WriteTypeOK, States
  <1>1. wr[p] = "none" /\ async_write_some(p, TRUE, posted) /\ UNCHANGED writeCounter
    BY DEF async_write
  <1>2. CASE queue = <<>> /\ (broken \/ unread < Room)
    <2>1. Send(p, TRUE, posted) /\ queue' = queue
      BY <1>1, <1>2 DEF async_write_some
    <2>2. /\ \A q \in Packets : q # p => sent'[q] = sent[q]
          /\ wr' = [wr EXCEPT ![p] = "posted"] /\ posted' = Append(posted, p)
      BY <2>1, SendSent
    <2>3. Lists(posted', wr', "posted")
      BY <1>0, <1>1, <2>2, ListAppend DEF BookInv
    <2>4. Lists(queue', wr', "queued")
      BY <1>0, <1>1, <2>1, <2>2, ListKeep DEF BookInv
    <2> QED
      BY <1>0, <1>1, <2>2, <2>3, <2>4, CountKept DEF BookInv
  <1>3. CASE ~(queue = <<>> /\ (broken \/ unread < Room))
    <2>1. /\ wr' = [wr EXCEPT ![p] = "queued"] /\ queue' = Append(queue, p)
          /\ posted' = posted /\ sent' = sent
      BY <1>1, <1>3, Zenon DEF async_write_some
    <2>2. Lists(queue', wr', "queued")
      BY <1>0, <1>1, <2>1, ListAppend DEF BookInv
    <2>3. Lists(posted', wr', "posted")
      BY <1>0, <1>1, <2>1, ListKeep DEF BookInv
    <2> QED
      BY <1>0, <1>1, <2>1, <2>2, <2>3, CountKept DEF BookInv
  <1> QED
    BY <1>2, <1>3

\* The worker's steps keep the books.
LEMMA BookWorker ==
    ASSUME WriteTypeOK, BookInv, Writable \/ Posted
    PROVE  BookInv'
  <1>0. /\ wr \in [Packets -> States] /\ queue \in Seq(Packets) /\ posted \in Seq(Packets)
        /\ {"none", "queued", "posted", "done"} \subseteq States
    BY DEF WriteTypeOK, States
  <1>1. CASE Writable
    <2> DEFINE p == Head(queue)
    <2>1. /\ queue # <<>> /\ Send(p, p \in alive, posted)
          /\ queue' = Tail(queue) /\ UNCHANGED writeCounter
      BY <1>1 DEF Writable
    <2>2. p \in Packets /\ wr[p] = "queued"
      BY <1>0, <2>1 DEF BookInv, Lists
    <2>3. /\ \A q \in Packets : q # p => sent'[q] = sent[q]
          /\ wr' = [wr EXCEPT ![p] = "posted"] /\ posted' = Append(posted, p)
      <3> HIDE DEF p
      <3> QED
        BY <2>1, <2>2, SendSent
    <2>4. Lists(queue', wr', "queued")
      BY <1>0, <2>1, <2>3, ListTail DEF BookInv
    <2> HIDE DEF p
    <2>5. Lists(posted', wr', "posted")
      BY <1>0, <2>2, <2>3, ListAppend DEF BookInv
    <2> QED
      BY <1>0, <2>1, <2>2, <2>3, <2>4, <2>5, CountKept DEF BookInv
  <1>2. CASE Posted
    <2> DEFINE p == Head(posted)
    <2>1. posted # <<>>
      BY <1>2 DEF Posted
    <2>2. p \in Packets /\ wr[p] = "posted" /\ Tail(posted) \in Seq(Packets)
      BY <1>0, <2>1 DEF BookInv, Lists
    <2>3. CASE Carried(p)
      <3>1. async_write_some(p, p \in alive, Tail(posted)) /\ UNCHANGED writeCounter
        BY <1>2, <2>3 DEF Posted
      <3>2. CASE queue = <<>> /\ (broken \/ unread < Room)
        <4>1. Send(p, p \in alive, Tail(posted)) /\ queue' = queue
          BY <3>1, <3>2 DEF async_write_some
        <4>2. /\ \A q \in Packets : q # p => sent'[q] = sent[q]
              /\ wr' = [wr EXCEPT ![p] = "posted"] /\ posted' = Append(Tail(posted), p)
          <5> HIDE DEF p
          <5> QED
            BY <2>2, <4>1, SendSent
        <4>3. Lists(posted', wr', "posted")
          BY <1>0, <2>1, <4>2, ListRotate DEF BookInv
        <4> HIDE DEF p
        <4>4. Lists(queue', wr', "queued")
          BY <1>0, <2>2, <4>1, <4>2, ListKeep DEF BookInv
        <4> QED
          BY <1>0, <2>2, <3>1, <4>2, <4>3, <4>4, CountKept DEF BookInv
      <3>3. CASE ~(queue = <<>> /\ (broken \/ unread < Room))
        <4>1. /\ wr' = [wr EXCEPT ![p] = "queued"] /\ queue' = Append(queue, p)
              /\ posted' = Tail(posted) /\ sent' = sent
          BY <3>1, <3>3, Zenon DEF async_write_some
        <4>2. Lists(posted', wr', "posted")
          BY <1>0, <2>1, <4>1, ListTail DEF BookInv
        <4> HIDE DEF p
        <4>3. Lists(queue', wr', "queued")
          BY <1>0, <2>2, <4>1, ListAppend DEF BookInv
        <4> QED
          BY <1>0, <2>2, <3>1, <4>1, <4>2, <4>3, CountKept DEF BookInv
      <3> QED
        BY <3>2, <3>3
    <2>4. CASE ~Carried(p)
      <3>1. /\ writeCounter' = IF sent[p] = Size[p] THEN writeCounter + 1 ELSE writeCounter
            /\ wr' = [wr EXCEPT ![p] = "done"]
            /\ posted' = Tail(posted) /\ queue' = queue /\ sent' = sent
        BY <1>2, <2>4 DEF Posted, handle_write_request
      <3>2. Lists(posted', wr', "posted")
        BY <1>0, <2>1, <3>1, ListTail DEF BookInv
      <3> HIDE DEF p
      <3>3. Lists(queue', wr', "queued")
        BY <1>0, <2>2, <3>1, ListKeep DEF BookInv
      <3>4. wr'[p] = "done" /\ \A q \in Packets : q # p => wr'[q] = wr[q]
        BY <1>0, <2>2, <3>1
      <3>5. Begun' = Begun /\ \A q \in Packets : wr'[q] = "none" => sent'[q] = 0
        BY <2>2, <3>1, <3>4 DEF Begun, BookInv
      <3>6. IsFiniteSet(Counted)
        <4>1. Counted \in SUBSET Begun
          BY DEF Counted, Begun
        <4> QED
          BY <4>1, FS_Subset DEF BookInv
      <3>7. p \notin Counted /\ Counted' = IF sent[p] = Size[p] THEN Counted \cup {p} ELSE Counted
        BY <2>2, <3>1, <3>4 DEF Counted
      <3>8. writeCounter' = Cardinality(Counted')
        BY <3>1, <3>6, <3>7, FS_AddElement DEF BookInv
      <3> QED
        BY <3>2, <3>3, <3>5, <3>8 DEF BookInv
    <2> QED
      BY <2>3, <2>4
  <1> QED
    BY <1>1, <1>2

\* Every step does.
LEMMA WriteBooks ==
    ASSUME WriteTypeOK, BookInv, [WriteNext]_writeVars
    PROVE  BookInv'
  <1>1. CASE UNCHANGED <<wr, sent, queue, posted, writeCounter>>
    BY <1>1, Zenon DEF BookInv, Lists, Begun, Counted
  <1>2. CASE (\E p \in Packets : destroy(p)) \/ ServerReads \/ ConnectionBreaks
             \/ UNCHANGED writeVars
    BY <1>1, <1>2, Zenon DEF destroy, ServerReads, ConnectionBreaks, writeVars, socketVars
  <1> QED
    BY <1>2, BookWrite, BookWorker, Zenon DEF WriteNext

\* The books give the property.
LEMMA CountIsRight ==
    ASSUME WriteTypeOK, BookInv
    PROVE  CountedIsWritten
  <1> DEFINE whole == {p \in Packets : sent[p] = Size[p]}
  <1>1. Counted \subseteq whole /\ whole \in SUBSET Begun
    BY WriteAssumption DEF Counted, Begun, BookInv
  <1>2. IsFiniteSet(whole)
    BY <1>1, FS_Subset DEF BookInv
  <1>3. writeCounter <= Cardinality(whole)
    BY <1>1, <1>2, FS_Subset DEF BookInv
  <1>4. ASSUME queue = <<>>, posted = <<>>
        PROVE  whole = Counted
    <2>1. \A p \in Packets : wr[p] \notin {"queued", "posted"}
      BY <1>4 DEF BookInv, Lists
    <2>2. \A p \in whole : wr[p] = "done"
      BY <1>1, <2>1 DEF Begun, WriteTypeOK
    <2> QED
      BY <1>1, <2>2 DEF Counted
  <1> QED
    BY <1>3, <1>4 DEF CountedIsWritten, BookInv

\* All of it holds at the start.
LEMMA WriteInitial ==
    ASSUME WriteInit
    PROVE  StreamSound /\ SplitInv /\ BookInv
  <1>1. StreamSound /\ SplitInv
    BY WriteAssumption DEF WriteInit, StreamSound, SplitInv
  <1>2. Lists(queue, wr, "queued") /\ Lists(posted, wr, "posted")
    BY DEF WriteInit, Lists
  <1>3. Begun = {} /\ Counted = {}
    BY DEF WriteInit, Begun, Counted
  <1>4. \A p \in Packets : wr[p] = "none" => sent[p] = 0
    BY DEF WriteInit
  <1>5. writeCounter = 0
    BY DEF WriteInit
  <1> QED
    BY <1>1, <1>2, <1>3, <1>4, <1>5, FS_EmptySet DEF BookInv
=============================================================================
