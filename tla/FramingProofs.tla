---------------------------- MODULE FramingProofs ----------------------------
(***************************************************************************)
(* Proofs about Framing, for any sizes and any lengths: TCP may deliver    *)
(* the bytes in whatever pieces and break wherever it likes.               *)
(***************************************************************************)
EXTENDS Framing, SequenceTheorems, TLAPS

(***************************************************************************)
(* The inductive invariant.                                                *)
(***************************************************************************)

\* What was read and what is under way are one stretch of pBuff, and it ends where the
\* client is, unless a reset has thrown a part of it away.
InOrder ==
  /\ \A k \in 1 .. Len(got) : got[k] = k - 1
  /\ \A k \in 1 .. Len(wire) : wire[k] = Len(got) + k - 1
  /\ IF broken THEN wire = <<>> /\ Len(got) <= iSended ELSE Len(got) + Len(wire) = iSended

\* The client ended before it had sent everything, and will send nothing more.
Cut == client = "closed" /\ iSended < iLen

\* The call of MyRecv that runs has filled recvMsg from its start with what follows byte
\* first of pBuff.
Filled(first) ==
  /\ Len(got) = first + tBytesRead
  /\ \A j \in 0 .. tBytesRead - 1 : recvMsg[j] = first + j

Received ==
  /\ server = "header" => Filled(0)
  /\ server \in {"body", "printed"} => Cut \/ (Filled(HEADER) /\ len = Announced)
  /\ server = "printed" => Cut \/ tBytesRead = tLen

IndInv == TypeOK /\ InOrder /\ Received

-----------------------------------------------------------------------------
(***************************************************************************)
(* The sizes and the streams.                                              *)
(***************************************************************************)

\* What read() takes off a stream, and what it leaves.
LEMMA Split ==
  ASSUME NEW S, NEW s \in Seq(S), NEW n \in 1 .. Len(s)
  PROVE  /\ SubSeq(s, 1, n) \in Seq(S) /\ Len(SubSeq(s, 1, n)) = n
         /\ \A k \in 1 .. n : SubSeq(s, 1, n)[k] = s[k]
         /\ SubSeq(s, n + 1, Len(s)) \in Seq(S) /\ Len(SubSeq(s, n + 1, Len(s))) = Len(s) - n
         /\ \A k \in 1 .. Len(s) - n : SubSeq(s, n + 1, Len(s))[k] = s[n + k]
<1>1. Len(s) \in Nat /\ n \in Nat /\ \A k \in 1 .. Len(s) : s[k] \in S
  OBVIOUS
<1>2. /\ SubSeq(s, 1, n) \in Seq(S) /\ Len(SubSeq(s, 1, n)) = n
      /\ \A k \in 1 .. n : SubSeq(s, 1, n)[k] = s[1 + k - 1]
  <2>1. 1 \in Int /\ n \in Int /\ 1 <= n /\ n - 1 + 1 = n /\ \A k \in 1 .. n : s[k] \in S
    BY <1>1
  <2> QED BY <2>1, SubSeqProperties
<1>3. /\ SubSeq(s, n + 1, Len(s)) \in Seq(S)
      /\ Len(SubSeq(s, n + 1, Len(s))) = IF n + 1 <= Len(s) THEN Len(s) - (n + 1) + 1 ELSE 0
      /\ \A k \in 1 .. Len(s) - (n + 1) + 1 : SubSeq(s, n + 1, Len(s))[k] = s[n + 1 + k - 1]
  <2>1. n + 1 \in Int /\ Len(s) \in Int /\ \A k \in n + 1 .. Len(s) : s[k] \in S
    BY <1>1
  <2> QED BY <2>1, SubSeqProperties
<1>4. Len(s) - (n + 1) + 1 = Len(s) - n /\ (n + 1 <= Len(s) \/ Len(s) - n = 0)
  BY <1>1
<1>5. \A k \in 1 .. n : SubSeq(s, 1, n)[k] = s[k]
  <2> SUFFICES ASSUME NEW k \in 1 .. n PROVE SubSeq(s, 1, n)[k] = s[k]
    OBVIOUS
  <2>1. 1 + k - 1 = k
    BY <1>1
  <2> QED BY <1>2, <2>1
<1>6. \A k \in 1 .. Len(s) - n : SubSeq(s, n + 1, Len(s))[k] = s[n + k]
  <2> SUFFICES ASSUME NEW k \in 1 .. Len(s) - n PROVE SubSeq(s, n + 1, Len(s))[k] = s[n + k]
    OBVIOUS
  <2>1. n + 1 + k - 1 = n + k
    BY <1>1
  <2> QED BY <1>3, <1>4, <2>1
<1> QED BY <1>2, <1>3, <1>4, <1>5, <1>6

LEMMA Sizes ==
  ASSUME TypeOK
  PROVE  /\ HEADER \in Nat /\ HEADER > 0 /\ BufSize \in Nat /\ HEADER <= BufSize
         /\ tLen \in Nat /\ tLen > 0 /\ tLen <= BufSize
         /\ iLen = HEADER + tLen /\ iLen \in Nat
         /\ Announced \in Nat /\ Announced >= tLen
         /\ Bytes = 0 .. HEADER + BufSize - 1 /\ Bytes \subseteq Nat
         /\ tCount \in Nat /\ (server = "header" => tCount = HEADER)
         /\ len \in Int /\ iSended \in Nat /\ iSended <= iLen /\ tBytesRead \in Nat
<1>1. /\ HEADER \in Nat /\ HEADER > 0 /\ BufSize \in Nat /\ HEADER <= BufSize
      /\ Lengths \subseteq 1 .. BufSize /\ Padding \in Nat
  BY SizesAssumption, BufAssumption, PaddingAssumption
<1>2. tLen \in Nat /\ tLen > 0 /\ tLen <= BufSize
  BY <1>1 DEF TypeOK
<1>3. iLen = HEADER + tLen /\ iLen \in Nat
  BY <1>1, <1>2 DEF iLen
<1>4. Announced \in Nat /\ Announced >= tLen
  BY <1>1, <1>2 DEF Announced
<1>5. Bytes = 0 .. HEADER + BufSize - 1 /\ Bytes \subseteq Nat
  BY <1>1 DEF Bytes
<1>6. tCount \in Nat /\ (server = "header" => tCount = HEADER)
  BY <1>1, <1>3 DEF tCount, TypeOK
<1>7. len \in Int /\ iSended \in Nat /\ iSended <= iLen /\ tBytesRead \in Nat
  BY <1>3 DEF TypeOK
<1> QED BY <1>1, <1>2, <1>3, <1>4, <1>5, <1>6, <1>7

\* The lengths of what was read and of what is under way.
LEMMA Streams ==
  ASSUME IndInv
  PROVE  /\ wire \in Seq(Bytes) /\ got \in Seq(Bytes) /\ Len(wire) \in Nat /\ Len(got) \in Nat
         /\ Len(got) + Len(wire) <= iSended
         /\ server \in {"header", "body", "printed"} => Cut \/ Len(got) >= tBytesRead
<1>1. wire \in Seq(Bytes) /\ got \in Seq(Bytes) /\ Len(wire) \in Nat /\ Len(got) \in Nat
  BY DEF IndInv, TypeOK
<1>2. Len(got) + Len(wire) <= iSended
  BY <1>1, Sizes DEF IndInv, InOrder
<1>3. server \in {"header", "body", "printed"} => Cut \/ Len(got) >= tBytesRead
  BY <1>1, Sizes DEF IndInv, Received, Filled
<1> QED BY <1>1, <1>2, <1>3

-----------------------------------------------------------------------------
(***************************************************************************)
(* The actions.                                                            *)
(***************************************************************************)

LEMMA InitInd ==
  ASSUME Init
  PROVE  IndInv
<1>1. TypeOK
  <2>1. HEADER \in Nat /\ Lengths \subseteq 1 .. BufSize /\ BufSize \in Nat
    BY SizesAssumption, BufAssumption
  <2>2. iLen \in Nat
    BY <2>1 DEF Init, iLen
  <2>3. tCount \in Nat
    BY <2>1 DEF Init, tCount
  <2>4. wire \in Seq(Bytes) /\ got \in Seq(Bytes)
    BY DEF Init
  <2>5. iSended \in 0 .. iLen /\ tBytesRead \in Nat /\ tBytesRead <= tCount /\ len \in Int
    BY <2>2, <2>3 DEF Init
  <2>6. recvMsg \in [0 .. BufSize - 1 -> Bytes \cup {Unwritten}]
    BY DEF Init
  <2> QED BY <2>4, <2>5, <2>6 DEF Init, TypeOK
<1>2. InOrder
  BY DEF Init, InOrder
<1>3. Received
  BY DEF Init, Received, Filled
<1> QED BY <1>1, <1>2, <1>3 DEF IndInv

\* send() puts the next bytes behind those that are under way.
LEMMA SendKeepsInd ==
  ASSUME IndInv, MySend
  PROVE  IndInv'
<1>1. PICK n \in 1 .. iLen - iSended : wire' = wire \o Piece(n) /\ iSended' = iSended + n
  BY DEF MySend
<1>2. /\ client = "send" /\ ~broken /\ ~Cut /\ ~Cut'
      /\ UNCHANGED <<program, acceptfd, tLen, client, broken, server, recvMsg, tBytesRead, len, got>>
  BY DEF MySend, pair, Cut
<1>3. /\ n \in Nat /\ n > 0 /\ iSended' \in 0 .. iLen /\ iLen' = iLen /\ iLen \in Nat
      /\ iSended \in Nat
  <2>1. iLen \in Nat /\ iSended \in Nat /\ iSended <= iLen
    BY Sizes DEF IndInv
  <2>2. iLen' = iLen
    BY <1>2 DEF iLen
  <2> QED BY <1>1, <2>1, <2>2
<1>4. /\ Piece(n) \in Seq(Bytes) /\ Len(Piece(n)) = n
      /\ \A k \in 1 .. n : Piece(n)[k] = iSended + k - 1
  BY <1>3, Sizes DEF IndInv, Piece
<1>5. /\ wire' \in Seq(Bytes) /\ Len(wire') = Len(wire) + n
      /\ \A k \in 1 .. Len(wire') :
           wire'[k] = IF k <= Len(wire) THEN wire[k] ELSE Piece(n)[k - Len(wire)]
  <2>1. /\ wire \o Piece(n) \in Seq(Bytes)
        /\ Len(wire \o Piece(n)) = Len(wire) + Len(Piece(n))
        /\ \A k \in 1 .. Len(wire) + Len(Piece(n)) : (wire \o Piece(n))[k] =
              IF k <= Len(wire) THEN wire[k] ELSE Piece(n)[k - Len(wire)]
    BY <1>4, Streams, ConcatProperties
  <2> QED BY <1>1, <1>4, <2>1
<1>6. TypeOK'
  <2>1. tCount' = tCount /\ Accepted' = Accepted
    BY <1>2, <1>3 DEF tCount, Accepted
  <2> QED BY <1>2, <1>3, <1>5, <2>1 DEF IndInv, TypeOK
<1>7. InOrder'
  <2>1. Len(got) + Len(wire) = iSended /\ Len(got) \in Nat /\ Len(wire) \in Nat
    BY <1>2, Streams DEF IndInv, InOrder
  <2>2. \A k \in 1 .. Len(wire') : wire'[k] = Len(got) + k - 1
    <3> SUFFICES ASSUME NEW k \in 1 .. Len(wire) + n PROVE wire'[k] = Len(got) + k - 1
      BY <1>5
    <3>1. CASE k <= Len(wire)
      BY <1>5, <2>1, <3>1 DEF IndInv, InOrder
    <3>2. CASE k > Len(wire)
      <4>1. k - Len(wire) \in 1 .. n
        BY <1>3, <2>1, <3>2
      <4>2. wire'[k] = Piece(n)[k - Len(wire)]
        BY <1>5, <2>1, <3>2
      <4>3. Piece(n)[k - Len(wire)] = iSended + (k - Len(wire)) - 1
        BY <1>4, <4>1
      <4> QED BY <1>3, <2>1, <4>2, <4>3
    <3> QED BY <1>3, <2>1, <3>1, <3>2
  <2>3. Len(got') + Len(wire') = iSended'
    <3>1. got' = got /\ Len(wire') = Len(wire) + n /\ iSended' = iSended + n
      BY <1>1, <1>2, <1>5
    <3>2. n \in Nat
      BY <1>3
    <3> QED BY <2>1, <3>1, <3>2
  <2>4. \A k \in 1 .. Len(got') : got'[k] = k - 1
    <3>1. got' = got
      BY <1>2
    <3>2. \A k \in 1 .. Len(got) : got[k] = k - 1
      BY DEF IndInv, InOrder
    <3> QED BY <3>1, <3>2
  <2>5. \A k \in 1 .. Len(wire') : wire'[k] = Len(got') + k - 1
    BY <1>2, <2>2
  <2>6. ~broken'
    BY <1>2
  <2> QED BY <2>3, <2>4, <2>5, <2>6 DEF InOrder
<1>8. Received'
  <2>1. Announced' = Announced
    BY <1>2 DEF Announced
  <2> QED BY <1>2, <2>1 DEF IndInv, Received, Filled
<1> QED BY <1>6, <1>7, <1>8 DEF IndInv

\* The client ends, or the connection is reset.
LEMMA EndKeepsInd ==
  ASSUME IndInv, ClientCloses \/ ClientDies \/ Break
  PROVE  IndInv'
<1>1. /\ client = "send" /\ client' \in {"send", "closed"}
      /\ UNCHANGED <<program, acceptfd, tLen, iSended, server, recvMsg, tBytesRead, len, got>>
      /\ \/ UNCHANGED <<wire, broken>>
         \/ ~broken /\ broken' = TRUE /\ wire' = <<>>
  BY DEF ClientCloses, ClientDies, Break, pair
<1>2. iLen' = iLen /\ tCount' = tCount /\ Accepted' = Accepted /\ Announced' = Announced
  BY <1>1 DEF iLen, tCount, Accepted, Announced
<1>3. TypeOK'
  <2>1. <<>> \in Seq(Bytes)
    OBVIOUS
  <2>2. wire' \in Seq(Bytes)
    BY <1>1, <2>1 DEF IndInv, TypeOK
  <2>3. broken' \in BOOLEAN
    BY <1>1 DEF IndInv, TypeOK
  <2> QED BY <1>1, <1>2, <2>2, <2>3 DEF IndInv, TypeOK
<1>4. InOrder'
  <2>1. CASE UNCHANGED <<wire, broken>>
    BY <1>1, <2>1 DEF IndInv, InOrder
  <2>2. CASE broken' = TRUE /\ wire' = <<>>
    <3>1. Len(got) <= iSended /\ Len(wire') = 0
      BY <2>2, Streams, Sizes DEF IndInv
    <3> QED BY <1>1, <2>2, <3>1 DEF IndInv, InOrder
  <2> QED BY <1>1, <2>1, <2>2
<1>5. Received'
  BY <1>1, <1>2 DEF IndInv, Received, Filled, Cut
<1> QED BY <1>3, <1>4, <1>5 DEF IndInv

\* read() takes the first bytes that are under way to where MyRecv has got.
LEMMA RecvKeepsInd ==
  ASSUME IndInv, MyRecv
  PROVE  IndInv'
<1>1. PICK n \in 1 .. Len(wire) :
        /\ n <= Wanted
        /\ recvMsg' = [j \in DOMAIN recvMsg |->
                         IF \E k \in 1 .. n : At(k) = j
                         THEN wire[CHOOSE k \in 1 .. n : At(k) = j] ELSE recvMsg[j]]
        /\ got' = got \o SubSeq(wire, 1, n)
        /\ wire' = SubSeq(wire, n + 1, Len(wire))
        /\ tBytesRead' = tBytesRead + n
  BY DEF MyRecv
<1>2. /\ server \in {"header", "body"}
      /\ UNCHANGED <<program, acceptfd, tLen, iSended, client, broken, server, len>>
  BY DEF MyRecv, pair
<1>3. /\ n \in Nat /\ n > 0 /\ n <= Len(wire) /\ Len(wire) \in Nat /\ Len(got) \in Nat
      /\ tBytesRead \in Nat /\ tBytesRead' \in Nat /\ tBytesRead + n <= tCount /\ tCount \in Nat
  <2>1. /\ n \in Nat /\ n > 0 /\ n <= Len(wire) /\ Len(wire) \in Nat /\ Len(got) \in Nat
    BY Streams
  <2>2. tBytesRead \in Nat /\ tCount \in Nat
    BY Sizes DEF IndInv
  <2> QED BY <1>1, <2>1, <2>2 DEF Wanted
<1>4. iLen' = iLen /\ tCount' = tCount /\ Accepted' = Accepted /\ Announced' = Announced
      /\ Cut' = Cut
  BY <1>2 DEF iLen, tCount, Accepted, Announced, Cut
<1>5. /\ got' \in Seq(Bytes) /\ Len(got') = Len(got) + n
      /\ \A k \in 1 .. Len(got) + n : got'[k] = IF k <= Len(got) THEN got[k] ELSE wire[k - Len(got)]
  <2>1. /\ SubSeq(wire, 1, n) \in Seq(Bytes) /\ Len(SubSeq(wire, 1, n)) = n
        /\ \A k \in 1 .. n : SubSeq(wire, 1, n)[k] = wire[k]
    BY Streams, Split
  <2>2. /\ got' \in Seq(Bytes) /\ Len(got') = Len(got) + n
        /\ \A k \in 1 .. Len(got) + n :
             got'[k] = IF k <= Len(got) THEN got[k] ELSE SubSeq(wire, 1, n)[k - Len(got)]
    BY <1>1, <2>1, Streams, ConcatProperties
  <2>3. \A k \in 1 .. Len(got) + n : k > Len(got) => k - Len(got) \in 1 .. n
    BY <1>3
  <2> QED BY <1>3, <2>1, <2>2, <2>3
<1>6. /\ wire' \in Seq(Bytes) /\ Len(wire') = Len(wire) - n
      /\ \A k \in 1 .. Len(wire) - n : wire'[k] = wire[n + k]
  BY <1>1, Streams, Split
<1>7. ASSUME NEW j \in DOMAIN recvMsg
      PROVE  recvMsg'[j] = IF j \in tBytesRead .. tBytesRead + n - 1
                           THEN wire[j - tBytesRead + 1] ELSE recvMsg[j]
  <2>1. j \in Nat /\ DOMAIN recvMsg = 0 .. BufSize - 1
    BY Sizes DEF IndInv, TypeOK
  <2>2. \A k \in 1 .. n : At(k) = j <=> k = j - tBytesRead + 1
    BY <1>3, <2>1 DEF At
  <2>3. CASE j \in tBytesRead .. tBytesRead + n - 1
    <3>1. j - tBytesRead + 1 \in 1 .. n
      BY <1>3, <2>1, <2>3
    <3>2. (CHOOSE k \in 1 .. n : At(k) = j) = j - tBytesRead + 1
      BY <2>2, <3>1
    <3> QED BY <1>1, <2>2, <2>3, <3>1, <3>2
  <2>4. CASE j \notin tBytesRead .. tBytesRead + n - 1
    <3>1. \A k \in 1 .. n : At(k) # j
      BY <1>3, <2>1, <2>2, <2>4
    <3> QED BY <1>1, <2>4, <3>1
  <2> QED BY <2>3, <2>4
<1>8. TypeOK'
  <2>1. recvMsg' \in [0 .. BufSize - 1 -> Bytes \cup {Unwritten}]
    <3>1. \A j \in DOMAIN recvMsg : j \in tBytesRead .. tBytesRead + n - 1 =>
            wire[j - tBytesRead + 1] \in Bytes
      <4> SUFFICES ASSUME NEW j \in tBytesRead .. tBytesRead + n - 1
                   PROVE  wire[j - tBytesRead + 1] \in Bytes
        OBVIOUS
      <4>1. j - tBytesRead + 1 \in 1 .. Len(wire)
        BY <1>3
      <4>2. wire \in Seq(Bytes)
        BY Streams
      <4> QED BY <4>1, <4>2
    <3>2. DOMAIN recvMsg' = DOMAIN recvMsg /\ recvMsg' = [j \in DOMAIN recvMsg' |-> recvMsg'[j]]
      BY <1>1
    <3>3. recvMsg \in [0 .. BufSize - 1 -> Bytes \cup {Unwritten}]
      BY DEF IndInv, TypeOK
    <3> QED BY <1>7, <3>1, <3>2, <3>3
  <2> QED BY <1>1, <1>2, <1>3, <1>4, <1>5, <1>6, <2>1 DEF IndInv, TypeOK
<1>9. InOrder'
  <2>1. \A k \in 1 .. Len(got') : got'[k] = k - 1
    <3> SUFFICES ASSUME NEW k \in 1 .. Len(got') PROVE got'[k] = k - 1
      OBVIOUS
    <3>1. CASE k <= Len(got)
      BY <1>3, <1>5, <3>1 DEF IndInv, InOrder
    <3>2. CASE k > Len(got)
      <4>1. k - Len(got) \in 1 .. Len(wire)
        BY <1>3, <1>5, <3>2
      <4>2. wire[k - Len(got)] = Len(got) + (k - Len(got)) - 1
        BY <4>1 DEF IndInv, InOrder
      <4> QED BY <1>3, <1>5, <3>2, <4>2
    <3> QED BY <1>3, <1>5, <3>1, <3>2
  <2>2. \A k \in 1 .. Len(wire') : wire'[k] = Len(got') + k - 1
    <3> SUFFICES ASSUME NEW k \in 1 .. Len(wire') PROVE wire'[k] = Len(got') + k - 1
      OBVIOUS
    <3>1. n + k \in 1 .. Len(wire) /\ k \in Nat
      BY <1>3, <1>6
    <3>2. wire[n + k] = Len(got) + (n + k) - 1
      BY <3>1 DEF IndInv, InOrder
    <3> QED BY <1>3, <1>5, <1>6, <3>1, <3>2
  <2>3. wire # <<>>
    BY <1>3
  <2> QED BY <1>2, <1>3, <1>5, <1>6, <2>1, <2>2, <2>3 DEF IndInv, InOrder
<1>10. ASSUME NEW first \in Nat, Filled(first), first + tBytesRead + n <= first + BufSize
       PROVE  Filled(first)'
  <2>1. Len(got') = first + tBytesRead'
    BY <1>1, <1>3, <1>5, <1>10 DEF Filled
  <2>2. \A j \in 0 .. tBytesRead' - 1 : recvMsg'[j] = first + j
    <3> SUFFICES ASSUME NEW j \in 0 .. tBytesRead' - 1 PROVE recvMsg'[j] = first + j
      OBVIOUS
    <3>0. j \in Nat /\ j < tBytesRead + n /\ tBytesRead + n <= BufSize /\ BufSize \in Nat
      <4>1. BufSize \in Nat
        BY BufAssumption
      <4>2. tBytesRead' = tBytesRead + n
        BY <1>1
      <4> QED BY <1>3, <1>10, <4>1, <4>2
    <3>1. j \in DOMAIN recvMsg
      <4>1. DOMAIN recvMsg = 0 .. BufSize - 1
        BY DEF IndInv, TypeOK
      <4> QED BY <1>3, <3>0, <4>1
    <3>2. CASE j < tBytesRead
      BY <1>3, <1>7, <1>10, <3>1, <3>2 DEF Filled
    <3>3. CASE j >= tBytesRead
      <4>1. j \in tBytesRead .. tBytesRead + n - 1 /\ j - tBytesRead + 1 \in 1 .. Len(wire)
        BY <1>1, <1>3, <3>3
      <4>2. wire[j - tBytesRead + 1] = Len(got) + (j - tBytesRead + 1) - 1
        BY <4>1 DEF IndInv, InOrder
      <4>3. recvMsg'[j] = wire[j - tBytesRead + 1]
        BY <1>7, <3>1, <4>1
      <4>4. Len(got) = first + tBytesRead
        BY <1>10 DEF Filled
      <4> QED BY <1>3, <3>0, <4>2, <4>3, <4>4
    <3> QED BY <1>3, <3>2, <3>3
  <2> QED BY <2>1, <2>2 DEF Filled
<1>11. Received'
  <2>1. CASE server = "header"
    <3>1. Filled(0) /\ tBytesRead + n <= BufSize
      BY <1>3, <2>1, Sizes DEF IndInv, Received
    <3>2. Filled(0)'
      BY <1>3, <1>10, <3>1, Sizes DEF IndInv
    <3> QED BY <1>2, <2>1, <3>2 DEF Received
  <2>2. CASE server = "body" /\ ~Cut
    <3>1. Filled(HEADER) /\ len = Announced
      BY <2>2 DEF IndInv, Received
    <3>2. HEADER + tBytesRead + n <= iLen
      <4>1. Len(got) + Len(wire) <= iSended
        BY Streams
      <4>2. iSended \in Nat /\ iLen \in Nat /\ iSended <= iLen /\ HEADER \in Nat
        BY Sizes DEF IndInv
      <4>3. Len(got) = HEADER + tBytesRead
        BY <3>1 DEF Filled
      <4> QED BY <1>3, <4>1, <4>2, <4>3
    <3>3. Filled(HEADER)'
      BY <1>3, <1>10, <3>1, <3>2, Sizes DEF IndInv
    <3> QED BY <1>2, <1>4, <2>2, <3>1, <3>3 DEF Received
  <2>3. CASE server = "body" /\ Cut
    BY <1>2, <1>4, <2>3 DEF Received
  <2> QED BY <1>2, <2>1, <2>2, <2>3
<1> QED BY <1>8, <1>9, <1>11 DEF IndInv

\* MyRecv returns without all the bytes only if the client was cut off or, in the second
\* call, if the length says more than was sent.
LEMMA ShortRead ==
  ASSUME IndInv, Returns, tBytesRead # tCount, ~Cut
  PROVE  Len(got) = iLen
BY Streams, Sizes DEF IndInv, Returns, Cut, InOrder, TypeOK

LEMMA HeaderKeepsInd ==
  ASSUME IndInv, HeaderRead
  PROVE  IndInv'
<1>1. /\ server = "header" /\ server' = "body" /\ len' \in LengthRead /\ tBytesRead' = 0 /\ Returns
      /\ UNCHANGED <<program, acceptfd, tLen, iSended, client, wire, broken, recvMsg, got>>
  BY DEF HeaderRead, pair
<1>2. iLen' = iLen /\ Accepted' = Accepted /\ Announced' = Announced /\ Cut' = Cut
  BY <1>1 DEF iLen, Accepted, Announced, Cut
<1>3. len' \in Int
  <2>1. LengthRead = {Announced} \/ LengthRead = Wild
    BY DEF LengthRead
  <2>2. Announced \in Int /\ Wild \subseteq Int
    BY WildAssumption, Sizes DEF IndInv
  <2> QED BY <1>1, <2>1, <2>2
<1>4. TypeOK'
  <2>1. tCount' \in Nat /\ tBytesRead' <= tCount'
    BY <1>1, <1>2, <1>3, Sizes DEF tCount, IndInv
  <2> QED BY <1>1, <1>2, <1>3, <2>1 DEF IndInv, TypeOK
<1>5. InOrder'
  BY <1>1 DEF IndInv, InOrder
<1>6. Received'
  <2>1. CASE Cut
    BY <1>1, <1>2, <2>1 DEF Received
  <2>2. CASE ~Cut
    <3>1. Filled(0) /\ Len(got) = tBytesRead
      BY <1>1, Streams, Sizes DEF IndInv, Received, Filled
    <3>2. tBytesRead = HEADER
      <4>1. tBytesRead <= HEADER /\ tCount = HEADER
        BY <1>1, Sizes DEF IndInv, TypeOK
      <4> QED BY <1>1, <2>2, <3>1, <4>1, ShortRead, Sizes DEF IndInv
    <3>3. len' = Announced
      <4>1. \A k \in 0 .. HEADER - 1 : recvMsg[k] = k
        BY <3>1, <3>2, Sizes DEF Filled, IndInv
      <4> QED BY <1>1, <4>1 DEF LengthRead
    <3>4. Filled(HEADER)'
      BY <1>1, <3>1, <3>2, Sizes DEF Filled, IndInv
    <3> QED BY <1>1, <1>2, <3>3, <3>4 DEF Received
  <2> QED BY <2>1, <2>2
<1> QED BY <1>4, <1>5, <1>6 DEF IndInv

LEMMA BodyKeepsInd ==
  ASSUME IndInv, BodyRead
  PROVE  IndInv'
<1>1. /\ server = "body" /\ server' = "printed" /\ Returns
      /\ UNCHANGED <<program, acceptfd, tLen, iSended, client, wire, broken, recvMsg, tBytesRead, len, got>>
  BY DEF BodyRead, pair
<1>2. iLen' = iLen /\ tCount' = tCount /\ Accepted' = Accepted /\ Announced' = Announced /\ Cut' = Cut
  BY <1>1 DEF iLen, tCount, Accepted, Announced, Cut
<1>3. TypeOK'
  BY <1>1, <1>2 DEF IndInv, TypeOK
<1>4. InOrder'
  BY <1>1 DEF IndInv, InOrder
<1>5. Received'
  <2>1. CASE Cut
    BY <1>1, <1>2, <2>1 DEF Received
  <2>2. CASE ~Cut
    <3>1. Filled(HEADER) /\ len = Announced /\ Len(got) = HEADER + tBytesRead /\ Len(got) <= iLen
      BY <1>1, <2>2, Streams, Sizes DEF IndInv, Received, Filled
    <3>2. tBytesRead = tLen
      <4>1. CASE tBytesRead = tCount
        BY <1>1, <3>1, <4>1, Sizes DEF IndInv, tCount
      <4>2. CASE tBytesRead # tCount
        BY <1>1, <2>2, <3>1, <4>2, ShortRead, Sizes DEF IndInv
      <4> QED BY <4>1, <4>2
    <3> QED BY <1>1, <1>2, <3>1, <3>2 DEF Received, Filled
  <2> QED BY <2>1, <2>2
<1> QED BY <1>3, <1>4, <1>5 DEF IndInv

LEMMA FailsKeepsInd ==
  ASSUME IndInv, ReadFails
  PROVE  IndInv'
<1>1. /\ server' = "failed"
      /\ UNCHANGED <<program, acceptfd, tLen, iSended, client, wire, broken, recvMsg, tBytesRead, len, got>>
  BY DEF ReadFails, pair
<1>2. iLen' = iLen /\ Accepted' = Accepted
  BY <1>1 DEF iLen, Accepted
<1>3. TypeOK'
  BY <1>1, <1>2 DEF IndInv, TypeOK
<1>4. InOrder' /\ Received'
  BY <1>1 DEF IndInv, InOrder, Received
<1> QED BY <1>3, <1>4 DEF IndInv

\* The invariant of the proofs: the bytes that MySend has written, those under way and
\* those that MyRecv has stored follow each other without a gap, in pBuff's order.
THEOREM InductiveInvariant == Spec => []IndInv
<1>1. IndInv /\ [Next]_vars => IndInv'
  <2> SUFFICES ASSUME IndInv, [Next]_vars PROVE IndInv'
    OBVIOUS
  <2>1. CASE Client
    BY <2>1, SendKeepsInd, EndKeepsInd DEF Client
  <2>2. CASE ClientDies \/ Break
    BY <2>2, EndKeepsInd
  <2>3. CASE Server
    BY <2>3, RecvKeepsInd, HeaderKeepsInd, BodyKeepsInd, FailsKeepsInd DEF Server
  <2>4. CASE UNCHANGED vars
    <3>1. UNCHANGED <<program, acceptfd, tLen, iSended, client, wire, broken, server, recvMsg,
                      tBytesRead, len, got>>
      BY <2>4 DEF vars, pair
    <3>2. iLen' = iLen /\ tCount' = tCount /\ Accepted' = Accepted /\ Announced' = Announced /\ Cut' = Cut
      BY <3>1 DEF iLen, tCount, Accepted, Announced, Cut
    <3> QED BY <3>1, <3>2 DEF IndInv, TypeOK, InOrder, Received, Filled
  <2> QED BY <2>1, <2>2, <2>3, <2>4 DEF Next
<1> QED BY <1>1, InitInd, PTL DEF Spec

-----------------------------------------------------------------------------
(***************************************************************************)
(* The theorems.                                                           *)
(***************************************************************************)

\* All variables stay in their ranges; MyRecv never counts more bytes than it asked for.
THEOREM TypeCorrect == Spec => []TypeOK
BY InductiveInvariant, PTL DEF IndInv

\* MySend and MyRecv carry the message over in whatever pieces TCP takes and gives: what
\* server_1.cpp and server_2.cpp print is the message sent, if all of it was sent.
THEOREM MessageArrivesWhole == Spec => []PrintsTheMessage
<1>1. IndInv => PrintsTheMessage
  <2> SUFFICES ASSUME IndInv, server = "printed", iSended = iLen
               PROVE  /\ len = Announced /\ tBytesRead = tLen
                      /\ \A k \in 0 .. tLen - 1 : recvMsg[k] = HEADER + k
    BY DEF PrintsTheMessage, IndInv, InOrder
  <2>1. ~Cut
    BY Sizes DEF Cut, IndInv
  <2> QED BY <2>1 DEF IndInv, Received, Filled
<1> QED BY <1>1, InductiveInvariant, PTL

=============================================================================
