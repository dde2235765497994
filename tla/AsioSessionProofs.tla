-------------------------- MODULE AsioSessionProofs --------------------------
(***************************************************************************)
(* Proofs about AsioSession, for any frame lengths, any limit on them and  *)
(* any number of frames.                                                   *)
(***************************************************************************)
EXTENDS AsioSession, WellFoundedInduction, TLAPS

Clean == \A j \in DOMAIN readDone : ~Long(readDone[j])

\* The frames are numbered as they are sent; those read come before the one being
\* read, and that before the ones on the wire.
NumberInv ==
    /\ Len(sent) <= MaxSent
    /\ \A i \in DOMAIN wire : wire[i] <= Len(sent)
    /\ \A i, j \in DOMAIN wire : i < j => wire[i] < wire[j]
    /\ \A i, j \in DOMAIN readDone : i < j => readDone[i] < readDone[j]
    /\ \A i \in DOMAIN wire, j \in DOMAIN readDone : readDone[j] < wire[i]
    /\ rd = "data" => /\ cur # Nothing
                      /\ \A i \in DOMAIN wire : cur < wire[i]
                      /\ \A j \in DOMAIN readDone : readDone[j] < cur

\* The data is asked for with the length the frame has.
LengthInv == rd = "data" => want = sent[cur].len

\* Only frames that were sent are in the buffer, and as long as none was too long
\* nothing is left in it.
BufferInv ==
    /\ \A i \in Indices : at[i] # -1 => i <= Len(sent)
    /\ Clean => committed = consumed /\ \A i \in Indices : at[i] < committed

\* f sums up the long frames read, and the sum is what is left in the buffer.
SumsUp(f) ==
    /\ f[0] = 0
    /\ \A n \in 1..Len(readDone) :
            f[n] = f[n - 1] + (IF Long(readDone[n]) THEN sent[readDone[n]].len ELSE 0)

BacklogInv ==
    \E f \in [0..Len(readDone) -> Int] : SumsUp(f) /\ f[Len(readDone)] = committed - consumed

IInv == TypeOK /\ NumberInv /\ LengthInv /\ BufferInv /\ InOrder /\ BacklogInv

-----------------------------------------------------------------------------
(* The length.                                                             *)

\* One byte of 128 or more, and what is below it, make a negative number.
LEMMA HighByteIsNegative ==
    ASSUME NEW b \in 0..255, NEW w \in Nat \ {0}, NEW r \in 0..(w - 1)
    PROVE  (b - 256) * w + r \in Int /\ (b - 256) * w + r < 0
  <1>1. (b - 256) * w <= (-1) * w
    OBVIOUS
  <1> QED
    BY <1>1

\* A set of naturals has a least element.
LEMMA LeastElement ==
    ASSUME NEW T, T \subseteq Nat, T # {}
    PROVE  \E x \in T : \A y \in T : x <= y
  <1>1. PICK x \in T : \A y \in T : ~(<<y, x>> \in OpToRel(<, Nat))
    BY WFMin, NatLessThanWellFounded
  <1>2. ASSUME NEW y \in T
        PROVE  x <= y
    <2>1. x \in Nat /\ y \in Nat
      OBVIOUS
    <2>2. ~(y < x)
      BY <1>1, <2>1 DEF OpToRel
    <2> QED
      BY <2>1, <2>2
  <1> QED
    BY <1>2

\* The smallest of a set of byte numbers is in it.
LEMMA MinIsMember ==
    ASSUME NEW S \in SUBSET (1..4), S # {}
    PROVE  Min(S) \in S
  <1>1. \E x \in S : \A y \in S : x <= y
    <2>1. S \subseteq Nat
      OBVIOUS
    <2> QED
      BY <2>1, LeastElement, Zenon
  <1> QED
    BY <1>1 DEF Min

\* asioSession.hpp:134: a length is decoded as it was sent, or as a negative number.
LEMMA DecodedOrNegative ==
    ASSUME NEW n \in Nat
    PROVE  decodeLength(n) \in Int /\ (decodeLength(n) >= 0 => decodeLength(n) = n)
  <1> DEFINE weight == <<1, 256, 65536, 16777216>>
             byte(k) == (n \div weight[k]) % 256
             high == {k \in 1..4 : byte(k) >= 128}
             k == Min(high)
  <1>1. CASE high = {}
    BY <1>1 DEF decodeLength
  <1>2. CASE high # {}
    <2>1. decodeLength(n) = ((byte(k) - 256) * weight[k]) + (n % weight[k])
      BY <1>2 DEF decodeLength
    <2>2. k \in 1..4
      <3>1. high \in SUBSET (1..4)
        OBVIOUS
      <3> HIDE DEF high
      <3> QED
        BY <1>2, <3>1, MinIsMember
    <2> DEFINE w == weight[k]
               d == n \div w
    <2>3. w \in Nat \ {0}
      <3> HIDE DEF k
      <3> QED
        BY <2>2
    <2>4. byte(k) = d % 256
      OBVIOUS
    <2> HIDE DEF w, high, k, byte, weight
    <2>5. d \in Int /\ n % w \in 0..(w - 1)
      BY <2>3
    <2> HIDE DEF d
    <2>6. d % 256 \in 0..255
      BY <2>5
    <2>7. decodeLength(n) = ((d % 256) - 256) * w + (n % w)
      BY <2>1, <2>4 DEF w
    <2>8. decodeLength(n) \in Int /\ decodeLength(n) < 0
      BY <2>3, <2>5, <2>6, <2>7, HighByteIsNegative
    <2> QED
      BY <2>8
  <1> QED
    BY <1>1, <1>2

-----------------------------------------------------------------------------
(* Sums.                                                                   *)

\* There is only one sum.
LEMMA SumIsUnique ==
    ASSUME NEW f, NEW g, SumsUp(f), SumsUp(g), Len(readDone) \in Nat
    PROVE  \A n \in 0..Len(readDone) : f[n] = g[n]
  <1> DEFINE T == {n \in 0..Len(readDone) : f[n] # g[n]}
  <1>1. SUFFICES ASSUME T # {}
                 PROVE  FALSE
    OBVIOUS
  <1>2. PICK x \in T : \A y \in T : x <= y
    <2>1. T \subseteq Nat
      OBVIOUS
    <2> HIDE DEF T
    <2> QED
      BY <1>1, <2>1, LeastElement, Zenon
  <1>3. x # 0
    BY <1>2 DEF SumsUp
  <1>4. x - 1 \in 0..Len(readDone) /\ x - 1 \notin T /\ x \in 1..Len(readDone)
    BY <1>2, <1>3
  <1> QED
    BY <1>2, <1>4 DEF SumsUp

\* The property follows from the invariant.
LEMMA BacklogIsSum ==
    ASSUME BacklogInv, Len(readDone) \in Nat
    PROVE  BacklogStays
  <1> DEFINE L == Len(readDone)
             extra(n) == IF Long(readDone[n]) THEN sent[readDone[n]].len ELSE 0
             Is(h) == h = [n \in 0..L |-> IF n = 0 THEN 0 ELSE h[n - 1] + extra(n)]
  <1>1. PICK f \in [0..L -> Int] : SumsUp(f) /\ f[L] = committed - consumed
    BY DEF BacklogInv
  <1>2. Is(f)
    BY <1>1 DEF SumsUp
  <1>3. LongBytes = CHOOSE h : Is(h)
    BY DEF LongBytes
  <1>4. Is(LongBytes)
    BY <1>2, <1>3
  <1>5. SumsUp(LongBytes)
    BY <1>4 DEF SumsUp
  <1>6. LongBytes[L] = f[L]
    BY <1>1, <1>5, SumIsUnique
  <1> QED
    BY <1>1, <1>6 DEF BacklogStays

-----------------------------------------------------------------------------
(* The steps.                                                              *)

Frame == [len : Lengths, known : BOOLEAN]

\* What TypeOK gives the steps: frames have lengths, and those read are frames.
LEMMA Ranges ==
    ASSUME TypeOK
    PROVE  /\ Len(sent) \in Nat /\ DOMAIN sent = 1..Len(sent) /\ sent \in Seq(Frame)
           /\ \A i \in 1..Len(sent) : sent[i] \in Frame /\ sent[i].len \in Nat \ {0}
           /\ Len(readDone) \in Nat /\ DOMAIN readDone = 1..Len(readDone)
           /\ \A j \in DOMAIN readDone : readDone[j] \in 1..Len(sent)
  <1>1. sent \in Seq(Frame) /\ readDone \in Seq(1..Len(sent)) /\ Len(sent) \in Nat
    BY DEF TypeOK, Frame
  <1>2. \A x \in Frame : x.len \in Nat \ {0}
    BY ConstantsAssumption DEF Frame
  <1> HIDE DEF Frame
  <1> QED
    BY <1>1, <1>2

\* The frames read are what they were when more are sent.
LEMMA HistoryKept ==
    ASSUME TypeOK, BufferInv, InOrder, BacklogInv,
           \A i \in 1..Len(sent) : sent'[i] = sent[i], Len(sent') \in Nat, Len(sent) <= Len(sent'),
           UNCHANGED <<bufferVars, handled, readDone>>
    PROVE  BufferInv' /\ InOrder' /\ BacklogInv'
  <1>0. /\ Len(sent) \in Nat
        /\ Len(readDone) \in Nat /\ DOMAIN readDone = 1..Len(readDone)
        /\ \A j \in DOMAIN readDone : readDone[j] \in 1..Len(sent)
        /\ UNCHANGED <<committed, consumed, at, handled, readDone>>
    BY Ranges, Zenon DEF bufferVars
  <1>1. \A j \in DOMAIN readDone : sent'[readDone[j]] = sent[readDone[j]]
    BY <1>0, Zenon
  <1>2. Clean' <=> Clean
    BY <1>0, <1>1, Zenon DEF Clean, Long
  <1>3. BufferInv'
    <2>1. \A i \in Indices : at[i] # -1 => i <= Len(sent')
      BY <1>0, ConstantsAssumption DEF BufferInv, Indices
    <2>2. Clean' => committed = consumed /\ \A i \in Indices : at[i] < committed
      BY <1>2, Zenon DEF BufferInv
    <2> QED
      BY <1>0, <2>1, <2>2, Zenon DEF BufferInv, Indices
  <1>4. InOrder'
    <2>1. \A i \in Range(readDone) : sent'[i] = sent[i]
      BY <1>1, Zenon DEF Range
    <2>2. {i \in Range(readDone) : sent'[i].known} = {i \in Range(readDone) : sent[i].known}
      BY <2>1, Zenon
    <2>3. Clean' => /\ \A i, j \in DOMAIN handled : i < j => handled[i] < handled[j]
                    /\ Range(handled) = {i \in Range(readDone) : sent'[i].known}
      BY <1>2, <2>2, Zenon DEF InOrder, Clean
    <2> QED
      BY <1>0, <2>3, Zenon DEF InOrder, Clean
  <1>5. BacklogInv'
    <2>1. PICK f \in [0..Len(readDone) -> Int] :
                SumsUp(f) /\ f[Len(readDone)] = committed - consumed
      BY DEF BacklogInv
    <2>2. SumsUp(f)'
      BY <1>0, <1>1, <2>1, Zenon DEF SumsUp, Long
    <2> QED
      BY <1>0, <2>1, <2>2, Zenon DEF BacklogInv
  <1> QED
    BY <1>3, <1>4, <1>5

\* The server sends a frame.
LEMMA SendStep ==
    ASSUME IInv, Send
    PROVE  IInv'
  <1>0. TypeOK /\ NumberInv /\ LengthInv /\ BufferInv /\ InOrder /\ BacklogInv
    BY DEF IInv
  <1>1. PICK e \in Frame : sent' = Append(sent, e)
    <2>1. PICK n \in Lengths, b \in BOOLEAN : sent' = Append(sent, [len |-> n, known |-> b])
      BY DEF Send
    <2>2. [len |-> n, known |-> b] \in Frame
      BY Zenon DEF Frame
    <2> QED
      BY <2>1, <2>2
  <1>2. /\ Len(sent) \in Nat /\ sent \in Seq(Frame) /\ Len(readDone) \in Nat
        /\ \A j \in DOMAIN readDone : readDone[j] \in 1..Len(sent)
    BY <1>0, Ranges
  <1>3. /\ Len(sent) < MaxSent /\ wire' = Append(wire, Len(sent')) /\ rd \in {"len", "data"}
        /\ UNCHANGED <<rd, cur, want, committed, consumed, at, readPkg, handled, readDone>>
    BY DEF Send, chainVars, bufferVars
  <1>4. /\ sent' \in Seq(Frame) /\ Len(sent') = Len(sent) + 1
        /\ \A i \in 1..Len(sent) : sent'[i] = sent[i]
    BY <1>1, <1>2
  <1>5. /\ MaxSent \in Nat /\ wire \in Seq(1..MaxSent)
        /\ wire' \in Seq(1..MaxSent) /\ DOMAIN wire' = 1..(Len(wire) + 1) /\ Len(wire) \in Nat
        /\ wire'[Len(wire) + 1] = Len(sent) + 1 /\ DOMAIN wire = 1..Len(wire)
        /\ \A i \in 1..Len(wire) : wire'[i] = wire[i]
    BY <1>0, <1>2, <1>3, <1>4, ConstantsAssumption DEF TypeOK, Indices
  <1>6. TypeOK'
    <2>1. /\ cur' \in 0..Len(sent') /\ readPkg' \in -1..Len(sent')
          /\ handled' \in Seq(-1..Len(sent')) /\ readDone' \in Seq(1..Len(sent'))
      BY <1>0, <1>2, <1>3, <1>4 DEF TypeOK
    <2>2. /\ rd' \in {"none", "len", "data", "aborted"} /\ want' \in Int /\ committed' \in Nat
          /\ consumed' \in 0..committed' /\ at' \in [Indices -> {-1} \cup Nat]
      BY <1>0, <1>3 DEF TypeOK
    <2> QED
      BY <1>4, <1>5, <2>1, <2>2 DEF TypeOK, Frame, Indices
  <1>7. NumberInv'
    <2>1. rd = "data" => cur \in 1..Len(sent)
      BY <1>0, <1>2 DEF NumberInv, TypeOK, Nothing
    <2> QED
      BY <1>0, <1>2, <1>3, <1>4, <1>5, <2>1 DEF NumberInv
  <1>8. LengthInv'
    <2>1. rd = "data" => cur \in 1..Len(sent)
      BY <1>0, <1>2 DEF NumberInv, TypeOK, Nothing
    <2> QED
      BY <1>0, <1>3, <1>4, <2>1, Zenon DEF LengthInv
  <1>9. BufferInv' /\ InOrder' /\ BacklogInv'
    <2>1. UNCHANGED bufferVars /\ Len(sent') \in Nat /\ Len(sent) <= Len(sent')
      BY <1>2, <1>3, <1>4 DEF bufferVars
    <2> QED
      BY <1>0, <1>3, <1>4, <2>1, HistoryKept
  <1> QED
    BY <1>6, <1>7, <1>8, <1>9 DEF IInv

\* A connection is made, or fails.
LEMMA ConnectionStep ==
    ASSUME IInv, Connect \/ ReadError \/ UNCHANGED vars
    PROVE  IInv'
  <1>0. TypeOK /\ NumberInv /\ LengthInv /\ BufferInv /\ InOrder /\ BacklogInv
    BY DEF IInv
  <1>1. UNCHANGED <<sent, want, committed, consumed, at, readPkg, handled, readDone>>
    BY Zenon DEF Connect, ReadError, vars, chainVars, bufferVars
  <1>2. BufferInv' /\ InOrder' /\ BacklogInv'
    <2>1. UNCHANGED bufferVars /\ Len(sent') \in Nat /\ Len(sent) <= Len(sent')
      BY <1>0, <1>1, Ranges DEF bufferVars
    <2> QED
      BY <1>0, <1>1, <2>1, HistoryKept
  <1>3. TypeOK' /\ NumberInv' /\ LengthInv'
    <2>1. CASE Connect
      <3>1. rd' = "len" /\ UNCHANGED <<wire, cur>>
        BY <2>1 DEF Connect
      <3> QED
        BY <1>0, <1>1, <3>1 DEF TypeOK, NumberInv, LengthInv
    <2>2. CASE ReadError
      <3>1. rd' = "none" /\ wire' = <<>> /\ cur' = 0
        BY <2>2 DEF ReadError, Nothing
      <3>2. Len(sent) \in Nat
        BY <1>0, Ranges
      <3>3. TypeOK'
        BY <1>0, <1>1, <3>1, <3>2 DEF TypeOK
      <3>4. NumberInv' /\ LengthInv'
        BY <1>0, <1>1, <3>1 DEF NumberInv, LengthInv
      <3> QED
        BY <3>3, <3>4
    <2>3. CASE UNCHANGED vars
      BY <1>0, <2>3, Zenon DEF vars, chainVars, bufferVars, TypeOK, NumberInv, LengthInv
    <2> QED
      BY <2>1, <2>2, <2>3
  <1> QED
    BY <1>2, <1>3 DEF IInv

\* The length is read.
LEMMA LengthStep ==
    ASSUME IInv, async_read_pkglen
    PROVE  IInv'
  <1>0. TypeOK /\ NumberInv /\ LengthInv /\ BufferInv /\ InOrder /\ BacklogInv
    BY DEF IInv
  <1>1. /\ UNCHANGED <<sent, committed, consumed, at, readPkg, handled, readDone>>
        /\ wire # <<>> /\ cur' = Head(wire) /\ wire' = Tail(wire)
        /\ want' = decodeLength(sent[Head(wire)].len)
        /\ rd' = IF want' < 0 THEN "aborted" ELSE "data"
    BY Zenon DEF async_read_pkglen, bufferVars
  <1>2. /\ Len(sent) \in Nat /\ \A i \in 1..Len(sent) : sent[i].len \in Nat \ {0}
        /\ Len(readDone) \in Nat /\ MaxSent \in Nat /\ wire \in Seq(1..MaxSent)
    BY <1>0, Ranges, ConstantsAssumption DEF TypeOK, Indices
  <1>3. /\ 1 \in DOMAIN wire /\ Head(wire) = wire[1] /\ wire' \in Seq(1..MaxSent)
        /\ \A i \in DOMAIN wire' : i + 1 \in DOMAIN wire /\ wire'[i] = wire[i + 1] /\ i \in Nat /\ i > 0
        /\ Head(wire) \in 1..MaxSent
    BY <1>1, <1>2
  <1>4. cur' \in 1..Len(sent)
    BY <1>0, <1>1, <1>2, <1>3 DEF NumberInv
  <1>5. want' \in Int /\ (want' >= 0 => want' = sent[cur'].len)
    <2> DEFINE n == sent[Head(wire)].len
    <2>1. n \in Nat
      BY <1>1, <1>2, <1>4
    <2> HIDE DEF n
    <2>2. decodeLength(n) \in Int /\ (decodeLength(n) >= 0 => decodeLength(n) = n)
      BY <2>1, DecodedOrNegative
    <2> QED
      BY <1>1, <2>2 DEF n
  <1>6. BufferInv' /\ InOrder' /\ BacklogInv'
    <2>1. UNCHANGED bufferVars /\ Len(sent') \in Nat /\ Len(sent) <= Len(sent')
      BY <1>1, <1>2 DEF bufferVars
    <2> QED
      BY <1>0, <1>1, <2>1, HistoryKept
  <1>7. TypeOK'
    BY <1>0, <1>1, <1>2, <1>3, <1>4, <1>5 DEF TypeOK, Indices
  <1>8. NumberInv'
    BY <1>0, <1>1, <1>2, <1>3, <1>4 DEF NumberInv, Nothing
  <1>9. LengthInv'
    BY <1>1, <1>5 DEF LengthInv
  <1> QED
    BY <1>6, <1>7, <1>8, <1>9 DEF IInv

\* What reading the data does, by its three outcomes.
LEMMA DataOutcomes ==
    ASSUME async_read_pkgdata
    PROVE  /\ rd = "data" /\ rd' = "len" /\ cur' = Nothing /\ readDone' = Append(readDone, cur)
           /\ committed' = committed + want /\ at' = [at EXCEPT ![cur] = committed]
           /\ UNCHANGED <<sent, wire, want>>
           /\ \/ /\ want >= MaxPacketBytes
                 /\ handled' = Append(handled, readPkg) /\ UNCHANGED <<consumed, readPkg>>
              \/ /\ want < MaxPacketBytes /\ consumed' = consumed + want
                 /\ \E i : /\ (i \in Front /\ Parses(i)) \/ (i = Garbage /\ Front = {})
                           /\ readPkg' = i /\ handled' = Append(handled, i)
              \/ /\ want < MaxPacketBytes /\ consumed' = consumed + want
                 /\ ((\E i \in Front : ~Parses(i)) \/ Front = {})
                 /\ UNCHANGED <<readPkg, handled>>
  <1>1. /\ rd = "data" /\ rd' = "len" /\ cur' = Nothing /\ readDone' = Append(readDone, cur)
        /\ UNCHANGED <<sent, wire, want>>
    BY DEF async_read_pkgdata
  <1>2. CASE want >= MaxPacketBytes /\ Oversize
    BY <1>1, <1>2, Zenon DEF Oversize
  <1>3. ASSUME want < MaxPacketBytes, NEW i \in Front, IF Parses(i) THEN Parsed(i) ELSE Unparsed
        PROVE  \/ want < MaxPacketBytes /\ i \in Front /\ Parses(i) /\ Parsed(i)
               \/ want < MaxPacketBytes /\ i \in Front /\ ~Parses(i) /\ Unparsed
    BY <1>3, Zenon
  <1>4. CASE want < MaxPacketBytes /\ \E i \in Front : Parses(i) /\ Parsed(i)
    BY <1>1, <1>4, Zenon DEF Parsed
  <1>5. CASE want < MaxPacketBytes /\ \E i \in Front : ~Parses(i) /\ Unparsed
    BY <1>1, <1>5, Zenon DEF Unparsed
  <1>6. CASE want < MaxPacketBytes /\ Front = {} /\ (Parsed(Garbage) \/ Unparsed)
    BY <1>1, <1>6, Zenon DEF Parsed, Unparsed
  <1> QED
    BY <1>2, <1>3, <1>4, <1>5, <1>6, Zenon DEF async_read_pkgdata

\* What is on the front of the buffer has been sent, and as long as nothing is left
\* over it is the frame just read.
LEMMA FrontFrames ==
    ASSUME TypeOK, NumberInv, BufferInv, rd = "data"
    PROVE  /\ cur \in 1..Len(sent) /\ cur \in Indices /\ Front \subseteq 1..Len(sent)
           /\ Clean => Front = {cur}
  <1>1. Len(sent) \in Nat /\ MaxSent \in Nat /\ committed \in Nat /\ consumed \in Nat
    BY Ranges, ConstantsAssumption DEF TypeOK
  <1>2. cur \in 1..Len(sent) /\ cur \in Indices
    BY <1>1 DEF TypeOK, NumberInv, Nothing, Indices
  <1>3. Front \subseteq 1..Len(sent)
    BY <1>1, <1>2 DEF Front, BufferInv, Indices
  <1>4. ASSUME Clean
        PROVE  Front = {cur}
    <2>1. committed = consumed /\ \A i \in Indices : at[i] # consumed
      BY <1>1, <1>4 DEF BufferInv, TypeOK
    <2> QED
      BY <2>1 DEF Front
  <1> QED
    BY <1>2, <1>3, <1>4

\* The data is read: the types.
LEMMA DataTypes ==
    ASSUME IInv, async_read_pkgdata
    PROVE  TypeOK' /\ NumberInv' /\ LengthInv'
  <1>0. TypeOK /\ NumberInv /\ LengthInv /\ BufferInv
    BY DEF IInv
  <1>1. /\ rd = "data" /\ rd' = "len" /\ cur' = 0 /\ readDone' = Append(readDone, cur)
        /\ committed' = committed + want /\ at' = [at EXCEPT ![cur] = committed]
        /\ UNCHANGED <<sent, wire, want>>
    BY DataOutcomes DEF Nothing
  <1>2. /\ cur \in 1..Len(sent) /\ cur \in Indices /\ Front \subseteq 1..Len(sent)
    BY <1>0, <1>1, FrontFrames
  <1>3. /\ Len(sent) \in Nat /\ want \in Nat /\ Len(readDone) \in Nat
        /\ \A j \in DOMAIN readDone : readDone[j] \in 1..Len(sent)
    BY <1>0, <1>1, <1>2, Ranges DEF LengthInv
  <1>4. readPkg' \in -1..Len(sent) /\ handled' \in Seq(-1..Len(sent))
    <2>1. CASE UNCHANGED readPkg /\ handled' = Append(handled, readPkg)
      BY <1>0, <2>1 DEF TypeOK
    <2>2. CASE UNCHANGED <<readPkg, handled>>
      BY <1>0, <2>2 DEF TypeOK
    <2>3. ASSUME NEW i, i \in Front \/ i = Garbage, readPkg' = i, handled' = Append(handled, i)
          PROVE  readPkg' \in -1..Len(sent) /\ handled' \in Seq(-1..Len(sent))
      <3>1. i \in -1..Len(sent)
        <4>1. CASE i \in Front
          <5>1. i \in 1..Len(sent)
            BY <1>2, <4>1
          <5> QED
            BY <1>3, <5>1
        <4>2. CASE i = -1
          BY <1>3, <4>2
        <4> QED
          BY <2>3, <4>1, <4>2, Zenon DEF Garbage
      <3>2. handled \in Seq(-1..Len(sent))
        BY <1>0 DEF TypeOK
      <3>3. Append(handled, i) \in Seq(-1..Len(sent))
        BY <3>1, <3>2
      <3> QED
        BY <2>3, <3>1, <3>3
    <2> QED
      BY <2>1, <2>2, <2>3, DataOutcomes, Zenon
  <1>5. consumed' \in 0..committed'
    <2>1. consumed' = consumed \/ consumed' = consumed + want
      BY DataOutcomes, Zenon
    <2> QED
      BY <1>0, <1>1, <1>3, <2>1 DEF TypeOK
  <1>6. TypeOK'
    BY <1>0, <1>1, <1>2, <1>3, <1>4, <1>5 DEF TypeOK
  <1>7. /\ DOMAIN readDone' = 1..(Len(readDone) + 1) /\ readDone'[Len(readDone) + 1] = cur
        /\ DOMAIN readDone = 1..Len(readDone)
        /\ \A j \in 1..Len(readDone) : readDone'[j] = readDone[j]
    BY <1>0, <1>1, <1>2 DEF TypeOK
  <1>8. NumberInv'
    BY <1>0, <1>1, <1>2, <1>3, <1>7 DEF NumberInv
  <1> QED
    BY <1>1, <1>6, <1>8 DEF LengthInv

\* The data is read: no frame was too long if none was before and this one is not.
LEMMA CleanStep ==
    ASSUME IInv, async_read_pkgdata
    PROVE  Clean' <=> Clean /\ ~Long(cur)
  <1>1. readDone' = Append(readDone, cur) /\ sent' = sent
    BY DataOutcomes
  <1>2. readDone \in Seq(1..Len(sent)) /\ Len(readDone) \in Nat /\ cur \in 1..Len(sent)
    BY DataOutcomes, FrontFrames, Ranges DEF IInv, TypeOK
  <1>3. /\ DOMAIN readDone' = 1..(Len(readDone) + 1) /\ readDone'[Len(readDone) + 1] = cur
        /\ DOMAIN readDone = 1..Len(readDone)
        /\ \A j \in 1..Len(readDone) : readDone'[j] = readDone[j]
    BY <1>1, <1>2
  <1>4. /\ \A j \in 1..(Len(readDone) + 1) : j \in 1..Len(readDone) \/ j = Len(readDone) + 1
        /\ 1..Len(readDone) \subseteq 1..(Len(readDone) + 1)
        /\ Len(readDone) + 1 \in 1..(Len(readDone) + 1)
    BY <1>2
  <1> QED
    BY <1>1, <1>3, <1>4, Zenon DEF Clean, Long

\* The data is read: what is left in the buffer.
LEMMA DataBuffer ==
    ASSUME IInv, async_read_pkgdata
    PROVE  BufferInv' /\ BacklogInv'
  <1>0. TypeOK /\ NumberInv /\ LengthInv /\ BufferInv /\ BacklogInv
    BY DEF IInv
  <1>1. /\ rd = "data" /\ readDone' = Append(readDone, cur)
        /\ committed' = committed + want /\ at' = [at EXCEPT ![cur] = committed]
        /\ sent' = sent
    BY DataOutcomes
  <1>2. /\ cur \in 1..Len(sent) /\ cur \in Indices
    BY <1>0, <1>1, FrontFrames
  <1>3. /\ Len(sent) \in Nat /\ want \in Nat \ {0} /\ want = sent[cur].len
        /\ Len(readDone) \in Nat /\ committed \in Nat /\ consumed \in Nat
        /\ MaxPacketBytes \in Nat
    BY <1>0, <1>1, <1>2, Ranges, ConstantsAssumption DEF LengthInv, TypeOK
  <1>4. /\ DOMAIN readDone' = 1..(Len(readDone) + 1) /\ readDone'[Len(readDone) + 1] = cur
        /\ DOMAIN readDone = 1..Len(readDone) /\ Len(readDone') = Len(readDone) + 1
        /\ \A j \in 1..Len(readDone) : readDone'[j] = readDone[j]
    BY <1>0, <1>1, <1>2 DEF TypeOK
  <1>5. consumed' = IF Long(cur) THEN consumed ELSE consumed + want
    <2>1. \/ want >= MaxPacketBytes /\ consumed' = consumed
          \/ want < MaxPacketBytes /\ consumed' = consumed + want
      BY DataOutcomes, Zenon
    <2> QED
      BY <1>3, <2>1 DEF Long
  <1>6. Clean' <=> Clean /\ ~Long(cur)
    BY CleanStep
  <1>7. BufferInv'
    <2>1. at \in [Indices -> {-1} \cup Nat]
      BY <1>0 DEF TypeOK
    <2>2. at'[cur] = committed /\ \A i \in Indices : i # cur => at'[i] = at[i]
      BY <1>1, <1>2, <2>1
    <2>3. \A i \in Indices : at'[i] # -1 => i <= Len(sent')
      BY <1>0, <1>1, <1>2, <2>2 DEF BufferInv
    <2>4. ASSUME Clean, ~Long(cur)
          PROVE  committed' = consumed' /\ \A i \in Indices : at'[i] < committed'
      <3>1. committed = consumed /\ \A i \in Indices : at[i] < committed
        BY <1>0, <2>4 DEF BufferInv
      <3>2. committed' = committed + want /\ consumed' = consumed + want
        BY <1>1, <1>5, <2>4
      <3>3. ASSUME NEW i \in Indices
            PROVE  at'[i] < committed'
        <4>1. CASE i = cur
          BY <1>3, <2>2, <3>2, <4>1
        <4>2. CASE i # cur
          <5>1. at'[i] = at[i] /\ at[i] < committed
            BY <2>2, <3>1, <4>2, Zenon
          <5>2. at[i] \in Int
            BY <2>1
          <5> QED
            BY <1>3, <3>2, <5>1, <5>2
        <4> QED
          BY <4>1, <4>2, Zenon
      <3> QED
        BY <3>1, <3>2, <3>3
    <2> QED
      BY <1>6, <2>3, <2>4, Zenon DEF BufferInv, Indices
  <1>8. BacklogInv'
    <2> DEFINE L == Len(readDone)
               extra == IF Long(cur) THEN sent[cur].len ELSE 0
    <2>1. PICK f \in [0..L -> Int] : SumsUp(f) /\ f[L] = committed - consumed
      BY <1>0 DEF BacklogInv
    <2>2. extra \in Nat /\ committed' - consumed' = f[L] + extra
      BY <1>1, <1>3, <1>5, <2>1
    <2> HIDE DEF extra
    <2>3. PICK g \in [0..(L + 1) -> Int] : /\ g[L + 1] = f[L] + extra
                                           /\ \A n \in 0..L : g[n] = f[n]
      <3> DEFINE h == [n \in 0..(L + 1) |-> IF n <= L THEN f[n] ELSE f[L] + extra]
      <3>1. h \in [0..(L + 1) -> Int] /\ h[L + 1] = f[L] + extra /\ \A n \in 0..L : h[n] = f[n]
        BY <1>3, <2>1, <2>2
      <3> QED
        BY <3>1
    <2>4. ASSUME NEW n \in 1..(L + 1)
          PROVE  g[n] = g[n - 1] + (IF Long(readDone'[n]) THEN sent[readDone'[n]].len ELSE 0)
      <3>1. CASE n <= L
        <4>1. n \in 1..L /\ readDone'[n] = readDone[n] /\ g[n] = f[n] /\ g[n - 1] = f[n - 1]
          BY <1>3, <1>4, <2>3, <3>1
        <4> QED
          BY <2>1, <4>1, Zenon DEF SumsUp
      <3>2. CASE n = L + 1
        <4>1. readDone'[n] = cur /\ g[n] = f[L] + extra /\ g[n - 1] = f[L]
          BY <1>3, <1>4, <2>3, <3>2
        <4> QED
          BY <4>1, Zenon DEF extra
      <3> QED
        BY <1>3, <3>1, <3>2
    <2>5. g[0] = 0
      BY <1>3, <2>1, <2>3 DEF SumsUp
    <2>6. SumsUp(g)'
      BY <1>1, <1>4, <2>4, <2>5, Zenon DEF SumsUp, Long
    <2>7. g \in [0..Len(readDone') -> Int] /\ g[Len(readDone')] = committed' - consumed'
      BY <1>4, <2>2, <2>3
    <2> QED
      BY <2>6, <2>7, Zenon DEF BacklogInv
  <1> QED
    BY <1>7, <1>8

\* What appending does to a sequence.
LEMMA Appended ==
    ASSUME NEW S, NEW q \in Seq(S), NEW e \in S
    PROVE  /\ Len(q) \in Nat /\ DOMAIN q = 1..Len(q) /\ DOMAIN Append(q, e) = 1..(Len(q) + 1)
           /\ \A j \in 1..Len(q) : Append(q, e)[j] = q[j]
           /\ Append(q, e)[Len(q) + 1] = e
           /\ Range(Append(q, e)) = Range(q) \cup {e}
  <1> DEFINE a == Append(q, e)
  <1>1. /\ Len(q) \in Nat /\ DOMAIN q = 1..Len(q) /\ DOMAIN a = 1..(Len(q) + 1)
        /\ \A j \in 1..Len(q) : a[j] = q[j]
        /\ a[Len(q) + 1] = e
    OBVIOUS
  <1>2. \A j : j \in 1..(Len(q) + 1) <=> j \in 1..Len(q) \/ j = Len(q) + 1
    BY <1>1
  <1> HIDE DEF a
  <1>3. Range(a) = Range(q) \cup {e}
    BY <1>1, <1>2, Zenon DEF Range
  <1> QED
    BY <1>1, <1>3, Zenon DEF a

\* The data is read: with no long frame, the one just read is handled if its
\* command is known, and skipped otherwise.
LEMMA HandledOrSkipped ==
    ASSUME IInv, async_read_pkgdata, Clean, ~Long(cur)
    PROVE  \/ sent[cur].known /\ handled' = Append(handled, cur)
           \/ ~sent[cur].known /\ handled' = handled
  <1>1. Front = {cur} /\ want = sent[cur].len /\ cur \in 1..Len(sent)
    BY DataOutcomes, FrontFrames, Zenon DEF IInv, LengthInv
  <1>2. want \in Nat /\ MaxPacketBytes \in Nat
    BY <1>1, Ranges, ConstantsAssumption DEF IInv
  <1>3. ~(want >= MaxPacketBytes)
    BY <1>1, Zenon DEF Long
  <1>4. want <= want
    BY <1>2
  <1>5. Parses(cur) <=> sent[cur].known
    BY <1>1, <1>4, Zenon DEF Parses
  <1> QED
    BY <1>1, <1>3, <1>5, DataOutcomes, Zenon

\* The data is read: the order.
LEMMA DataOrder ==
    ASSUME IInv, async_read_pkgdata
    PROVE  InOrder'
  <1>0. TypeOK /\ NumberInv /\ InOrder /\ readDone' = Append(readDone, cur) /\ sent' = sent
    BY DataOutcomes DEF IInv
  <1>1. SUFFICES ASSUME Clean'
                 PROVE  /\ \A i, j \in DOMAIN handled' : i < j => handled'[i] < handled'[j]
                        /\ Range(handled') = {i \in Range(readDone') : sent[i].known}
    BY <1>0, Zenon DEF InOrder, Clean
  <1>2. Clean /\ ~Long(cur)
    BY <1>1, CleanStep
  <1>3. /\ \A i, j \in DOMAIN handled : i < j => handled[i] < handled[j]
        /\ Range(handled) = {i \in Range(readDone) : sent[i].known}
    BY <1>0, <1>2, Zenon DEF InOrder, Clean
  <1>4. /\ readDone \in Seq(1..Len(sent)) /\ handled \in Seq(-1..Len(sent)) /\ Len(sent) \in Nat
        /\ cur \in 1..Len(sent) /\ cur \in -1..Len(sent)
    <2>1. /\ readDone \in Seq(1..Len(sent)) /\ handled \in Seq(-1..Len(sent)) /\ Len(sent) \in Nat
          /\ cur \in 1..Len(sent)
      BY <1>0, DataOutcomes, FrontFrames, Ranges DEF IInv, TypeOK
    <2> QED
      BY <2>1
  <1>5. Range(readDone') = Range(readDone) \cup {cur}
    BY <1>0, <1>4, Appended
  <1>6. CASE ~sent[cur].known /\ handled' = handled
    BY <1>3, <1>5, <1>6, Zenon
  <1>7. CASE sent[cur].known /\ handled' = Append(handled, cur)
    <2> DEFINE n == Len(handled)
    <2>1. /\ n \in Nat /\ DOMAIN handled = 1..n /\ DOMAIN handled' = 1..(n + 1)
          /\ \A j \in 1..n : handled'[j] = handled[j]
          /\ handled'[n + 1] = cur
          /\ Range(handled') = Range(handled) \cup {cur}
      BY <1>4, <1>7, Appended
    <2>2. Range(handled') = {i \in Range(readDone') : sent[i].known}
      BY <1>3, <1>5, <1>7, <2>1, Zenon
    <2>3. \A i \in 1..n : handled[i] < cur
      <3>1. \A j \in DOMAIN readDone : readDone[j] < cur
        BY <1>0, DataOutcomes, Zenon DEF NumberInv
      <3>2. \A x \in Range(readDone) : x < cur
        BY <3>1, Zenon DEF Range
      <3>3. \A i \in 1..n : handled[i] \in Range(handled)
        BY <2>1, Zenon DEF Range
      <3> QED
        BY <1>3, <3>2, <3>3, Zenon
    <2> HIDE DEF n
    <2>4. ASSUME NEW i \in 1..(n + 1), NEW j \in 1..(n + 1), i < j
          PROVE  handled'[i] < handled'[j]
      <3>1. i \in 1..n /\ (j \in 1..n \/ j = n + 1)
        BY <2>1, <2>4
      <3> QED
        BY <1>3, <2>1, <2>3, <2>4, <3>1, Zenon
    <2> QED
      BY <2>1, <2>2, <2>4, Zenon
  <1> QED
    BY <1>2, <1>6, <1>7, HandledOrSkipped, Zenon

-----------------------------------------------------------------------------
(* The theorems.                                                           *)

LEMMA Initial ==
    Init => IInv
  <1> SUFFICES ASSUME Init
               PROVE  IInv
    OBVIOUS
  <1>1. /\ sent = <<>> /\ wire = <<>> /\ rd = "none" /\ cur = 0 /\ want = 0 /\ committed = 0
        /\ consumed = 0 /\ at = [i \in Indices |-> -1] /\ readPkg = 0 /\ handled = <<>>
        /\ readDone = <<>>
    BY DEF Init, Nothing
  <1>2. TypeOK
    BY <1>1, ConstantsAssumption DEF TypeOK, Indices
  <1>3. NumberInv /\ LengthInv /\ BufferInv
    BY <1>1, ConstantsAssumption DEF NumberInv, LengthInv, BufferInv, Indices
  <1>4. InOrder
    BY <1>1 DEF InOrder, Range
  <1>5. BacklogInv
    <2> DEFINE f == [n \in 0..0 |-> 0]
    <2>1. Len(readDone) = 0 /\ f \in [0..0 -> Int] /\ f[0] = 0 - 0
      BY <1>1
    <2>2. SumsUp(f)
      BY <1>1, <2>1 DEF SumsUp
    <2> QED
      BY <1>1, <2>1, <2>2 DEF BacklogInv
  <1> QED
    BY <1>2, <1>3, <1>4, <1>5 DEF IInv

LEMMA Preserved ==
    IInv /\ [Next]_vars => IInv'
  <1> SUFFICES ASSUME IInv, [Next]_vars
               PROVE  IInv'
    OBVIOUS
  <1>1. CASE Send
    BY <1>1, SendStep
  <1>2. CASE Connect \/ ReadError \/ UNCHANGED vars
    BY <1>2, ConnectionStep
  <1>3. CASE async_read_pkglen
    BY <1>3, LengthStep
  <1>4. CASE async_read_pkgdata
    BY <1>4, DataTypes, DataBuffer, DataOrder DEF IInv
  <1> QED
    BY <1>1, <1>2, <1>3, <1>4 DEF Next

\* The inductive invariant holds in every reachable state.
LEMMA Invariance ==
    Spec => []IInv
  BY Initial, Preserved, PTL DEF Spec

\* asioSession.hpp:86-178: never is more taken out of read_buffer_ than was committed
\* to it, and the frames handled and read are frames that were sent.
THEOREM TypeCorrect ==
    Spec => []TypeOK
  <1>1. IInv => TypeOK
    BY DEF IInv
  <1> QED
    BY <1>1, Invariance, PTL

\* asioSession.hpp:151-172: until a frame is too long, the packets handled are exactly
\* the frames read whose command is known, once each and in the order sent, over any
\* number of connections.
THEOREM FramesInOrder ==
    Spec => []InOrder
  <1>1. IInv => InOrder
    BY DEF IInv
  <1> QED
    BY <1>1, Invariance, PTL

\* asioSession.hpp:157: what lags behind in read_buffer_ is exactly the bytes of the
\* frames that were too long.
THEOREM BacklogIsLongFrames ==
    Spec => []BacklogStays
  <1>1. IInv => BacklogStays
    BY BacklogIsSum, Ranges DEF IInv
  <1> QED
    BY <1>1, Invariance, PTL

\* asioSession.hpp:134: signed bytes can make a length negative, which aborts, but never
\* a wrong one: data is only ever asked for with the length that was sent.
THEOREM LengthRightOrAborted ==
    Spec => [](rd = "data" => want = sent[cur].len)
  <1>1. IInv => (rd = "data" => want = sent[cur].len)
    BY DEF IInv, LengthInv
  <1> QED
    BY <1>1, Invariance, PTL

\* asioSession.hpp:141: as long as the server sends no frame that is too long, the
\* handler gets the message whose data has just been read, and never an older one.
THEOREM ShortFramesAreHandled ==
    ASSUME \A n \in Lengths : n < MaxPacketBytes
    PROVE  Spec => HandlesWhatItRead
  <1>1. ASSUME IInv, [Next]_vars
        PROVE  [handled' # handled => handled'[Len(handled')] = cur]_vars
    <2>1. CASE async_read_pkgdata
      <3>1. TypeOK /\ cur \in 1..Len(sent)
        BY <1>1, <2>1, DataOutcomes, FrontFrames DEF IInv
      <3>2. \A i \in 1..Len(sent) : ~Long(i)
        <4>1. \A i \in 1..Len(sent) : sent[i] \in Frame /\ sent[i].len \in Nat
          BY <3>1, Ranges
        <4>2. \A x \in Frame : x.len \in Lengths
          BY DEF Frame
        <4>3. ASSUME NEW i \in 1..Len(sent)
              PROVE  ~Long(i)
          <5>1. sent[i].len < MaxPacketBytes /\ sent[i].len \in Nat
            BY <4>1, <4>2, Zenon
          <5> QED
            BY <5>1, ConstantsAssumption DEF Long
        <4> QED
          BY <4>3
      <3>3. Clean /\ ~Long(cur)
        BY <3>1, <3>2, Ranges, Zenon DEF Clean
      <3>4. handled' = Append(handled, cur) \/ handled' = handled
        BY <1>1, <2>1, <3>3, HandledOrSkipped
      <3>5. handled \in Seq(-1..Len(sent))
        BY <3>1 DEF TypeOK
      <3>6. ASSUME handled' = Append(handled, cur)
            PROVE  handled'[Len(handled')] = cur
        BY <3>5, <3>6
      <3> QED
        BY <3>4, <3>6
    <2>2. CASE ~async_read_pkgdata
      <3>1. handled' = handled
        BY <1>1, <2>2 DEF Next, Send, Connect, ReadError, async_read_pkglen, vars
      <3> QED
        BY <3>1
    <2> QED
      BY <2>1, <2>2
  <1> QED
    BY <1>1, Invariance, PTL DEF Spec, HandlesWhatItRead
=============================================================================
