------------------------- MODULE RecipientBytesProofs -------------------------
(***************************************************************************)
(* Proofs about the byte form of a recipient address, for every byte      *)
(* radix and every key size: into_bytes and try_from_bytes are inverse    *)
(* to each other on valid recipients, in both directions.                 *)
(***************************************************************************)
EXTENDS RecipientBytes, SequenceTheorems, TLAPS

Byte == 0..ByteBase - 1

(***************************************************************************)
(* A key of n bytes is a sequence of bytes of length n.                    *)
(***************************************************************************)
LEMMA BytesAreSeqs ==
    ASSUME NEW n \in Nat, NEW b \in Bytes(n)
    PROVE  b \in Seq(Byte) /\ Len(b) = n
<1>1. b = [i \in 1..n |-> b[i]] /\ \A i \in 1..n : b[i] \in Byte
  BY DEF Bytes, Byte
<1>2. b \in Seq(Byte)
  BY <1>1, IsASeq
<1>3. DOMAIN b = 1..n /\ DOMAIN b = 1..Len(b) /\ Len(b) \in Nat
  BY <1>2, LenProperties DEF Bytes
<1>4. Len(b) = n
  <2>1. n \in 1..Len(b) \/ n = 0
    BY <1>3
  <2>2. Len(b) \in 1..n \/ Len(b) = 0
    BY <1>3
  <2>3. QED BY <1>3, <2>1, <2>2
<1>5. QED BY <1>2, <1>4

(***************************************************************************)
(* A sequence of bytes of length n is a key of n bytes.                    *)
(***************************************************************************)
LEMMA SeqsAreBytes ==
    ASSUME NEW n \in Nat, NEW b \in Seq(Byte), Len(b) = n
    PROVE  b \in Bytes(n)
BY LenProperties DEF Bytes, Byte

(***************************************************************************)
(* Slicing three sequences laid end to end at their lengths gives back    *)
(* each of them.                                                           *)
(***************************************************************************)
LEMMA SliceOfConcat3 ==
    ASSUME NEW S, NEW x \in Seq(S), NEW y \in Seq(S), NEW z \in Seq(S),
           Len(x) > 0, Len(y) > 0, Len(z) > 0
    PROVE  /\ SubSeq(x \o y \o z, 1, Len(x)) = x
           /\ SubSeq(x \o y \o z, Len(x) + 1, Len(x) + Len(y)) = y
           /\ SubSeq(x \o y \o z, Len(x) + Len(y) + 1,
                                  Len(x) + Len(y) + Len(z)) = z
<1> DEFINE xy == x \o y
<1>1. xy \in Seq(S) /\ Len(xy) = Len(x) + Len(y)
  BY ConcatProperties
<1>2. SubSeq(xy \o z, 1, Len(x)) = x
  <2>1. SubSeq(xy \o z, 1, Len(x)) = SubSeq(xy, 1, Len(x))
    BY <1>1, SubSeqOfConcat1, LenProperties
  <2>2. SubSeq(xy, 1, Len(x)) = SubSeq(x, 1, Len(x))
    BY SubSeqOfConcat1, LenProperties
  <2>3. QED BY <2>1, <2>2, SubSeqFull
<1>3. SubSeq(xy \o z, Len(x) + 1, Len(x) + Len(y)) = y
  <2>1. SubSeq(xy \o z, Len(x) + 1, Len(x) + Len(y))
          = SubSeq(xy, Len(x) + 1, Len(x) + Len(y))
    BY <1>1, SubSeqOfConcat1, LenProperties
  <2>2. SubSeq(xy, Len(x) + 1, Len(x) + Len(y)) = SubSeq(y, 1, Len(y))
    BY SubSeqOfConcat2, LenProperties
  <2>3. QED BY <2>1, <2>2, SubSeqFull
<1>4. SubSeq(xy \o z, Len(x) + Len(y) + 1, Len(x) + Len(y) + Len(z)) = z
  <2>1. SubSeq(xy \o z, Len(x) + Len(y) + 1, Len(x) + Len(y) + Len(z))
          = SubSeq(z, 1, Len(z))
    BY <1>1, SubSeqOfConcat2, LenProperties
  <2>2. QED BY <2>1, SubSeqFull
<1>5. QED BY <1>2, <1>3, <1>4

-----------------------------------------------------------------------------
(***************************************************************************)
(* The bytes_conversion_works test for every recipient and every key      *)
(* size: try_from_bytes slices what into_bytes laid out at the same       *)
(* offsets, finds both identity keys valid again, and returns the         *)
(* recipient it was given.                                                 *)
(***************************************************************************)
THEOREM BytesRoundTripHolds == \A r \in Recipients : BytesRoundTripFor(r)
<1> SUFFICES ASSUME NEW r \in Recipients PROVE BytesRoundTripFor(r)
  OBVIOUS
<1>1. /\ r.id \in Bytes(IdSize) /\ r.enc \in Bytes(EncSize)
      /\ r.gw \in Bytes(IdSize)
      /\ KeyFromBytes(r.id, IdSize, TRUE) /\ KeyFromBytes(r.gw, IdSize, TRUE)
      /\ r = [id |-> r.id, enc |-> r.enc, gw |-> r.gw]
  BY DEF Recipients
<1>2. /\ r.id \in Seq(Byte) /\ Len(r.id) = IdSize
      /\ r.enc \in Seq(Byte) /\ Len(r.enc) = EncSize
      /\ r.gw \in Seq(Byte) /\ Len(r.gw) = IdSize
  BY <1>1, BytesAreSeqs, RecipientAssumption
<1>3. /\ SubSeq(IntoBytes(r), 1, IdSize) = r.id
      /\ SubSeq(IntoBytes(r), IdSize + 1, IdSize + EncSize) = r.enc
      /\ SubSeq(IntoBytes(r), IdSize + EncSize + 1, RecipientLen) = r.gw
  <2>1. Len(r.id) > 0 /\ Len(r.enc) > 0 /\ Len(r.gw) > 0
    BY <1>2, RecipientAssumption
  <2>2. /\ SubSeq(r.id \o r.enc \o r.gw, 1, Len(r.id)) = r.id
        /\ SubSeq(r.id \o r.enc \o r.gw, Len(r.id) + 1,
                  Len(r.id) + Len(r.enc)) = r.enc
        /\ SubSeq(r.id \o r.enc \o r.gw, Len(r.id) + Len(r.enc) + 1,
                  Len(r.id) + Len(r.enc) + Len(r.gw)) = r.gw
    BY <1>2, <2>1, SliceOfConcat3
  <2>3. QED BY <1>2, <2>2 DEF IntoBytes, RecipientLen
<1>4. QED
  BY <1>1, <1>3 DEF BytesRoundTripFor, TryFromBytes, Ok

(***************************************************************************)
(* The converse, which no test of clients.rs checks: an array of          *)
(* Recipient::LEN bytes that try_from_bytes accepts is exactly the        *)
(* into_bytes layout of the valid recipient it returns, so no two arrays  *)
(* decode to the same recipient.                                          *)
(***************************************************************************)
THEOREM TryFromBytesCanonical ==
    \A b \in Bytes(RecipientLen) :
        LET p == TryFromBytes(b)
        IN  p.ok => p.val \in Recipients /\ IntoBytes(p.val) = b
<1> SUFFICES ASSUME NEW b \in Bytes(RecipientLen), TryFromBytes(b).ok
             PROVE  TryFromBytes(b).val \in Recipients
                    /\ IntoBytes(TryFromBytes(b).val) = b
  OBVIOUS
<1> DEFINE id == SubSeq(b, 1, IdSize)
           enc == SubSeq(b, IdSize + 1, IdSize + EncSize)
           gw == SubSeq(b, IdSize + EncSize + 1, RecipientLen)
<1>1. b \in Seq(Byte) /\ Len(b) = RecipientLen
  BY BytesAreSeqs, RecipientAssumption DEF RecipientLen
<1>2. /\ KeyFromBytes(id, IdSize, TRUE) /\ KeyFromBytes(gw, IdSize, TRUE)
      /\ TryFromBytes(b).val = [id |-> id, enc |-> enc, gw |-> gw]
  BY DEF TryFromBytes, Ok, Err
<1>3. /\ id \in Seq(Byte) /\ Len(id) = IdSize
      /\ enc \in Seq(Byte) /\ Len(enc) = EncSize
      /\ gw \in Seq(Byte) /\ Len(gw) = IdSize
  <2>1. \A i \in 1..RecipientLen : b[i] \in Byte
    BY <1>1, LenProperties
  <2>2. QED
    BY <2>1, SubSeqProperties, RecipientAssumption DEF RecipientLen
<1>4. id \in Bytes(IdSize) /\ enc \in Bytes(EncSize) /\ gw \in Bytes(IdSize)
  BY <1>3, SeqsAreBytes, RecipientAssumption
<1>5. TryFromBytes(b).val \in Recipients
  <2>1. [id |-> id, enc |-> enc, gw |-> gw]
          \in [id : Bytes(IdSize), enc : Bytes(EncSize), gw : Bytes(IdSize)]
    BY <1>4
  <2>2. [id |-> id, enc |-> enc, gw |-> gw] \in Recipients
    BY <1>2, <2>1, Zenon DEF Recipients
  <2>3. QED BY <1>2, <2>2
<1>6. id \o enc \o gw = b
  <2>1. id \o enc = SubSeq(b, 1, IdSize + EncSize)
    BY <1>1, ConcatAdjacentSubSeq, RecipientAssumption DEF RecipientLen
  <2>2. SubSeq(b, 1, IdSize + EncSize) \o gw = SubSeq(b, 1, RecipientLen)
    BY <1>1, ConcatAdjacentSubSeq, RecipientAssumption DEF RecipientLen
  <2>3. QED BY <1>1, <2>1, <2>2, SubSeqFull
<1>7. IntoBytes([id |-> id, enc |-> enc, gw |-> gw]) = b
  BY <1>6 DEF IntoBytes
<1>8. QED BY <1>2, <1>5, <1>7

(***************************************************************************)
(* The BytesRoundTrip invariant of the sender: whatever valid recipient it *)
(* holds, for every key size, and for as long as it holds it,             *)
(* try_from_bytes(into_bytes(recipient)) gives that recipient back.        *)
(***************************************************************************)
THEOREM BytesRoundTripAlways ==
    HeldInit /\ [][UNCHANGED recipient]_recipient => []BytesRoundTrip
<1>1. HeldInit => BytesRoundTrip
  BY BytesRoundTripHolds DEF HeldInit, BytesRoundTrip
<1>2. HeldInit /\ [UNCHANGED recipient]_recipient => HeldInit'
  BY DEF HeldInit
<1>3. QED
  BY <1>1, <1>2, PTL

=============================================================================
