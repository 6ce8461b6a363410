------------------------------ MODULE Recipient ------------------------------
(***************************************************************************)
(* The address of a nym client (src/common/nymsphinx/addressing/src/      *)
(* clients.rs): a client identity key, a client encryption key and the   *)
(* identity of its gateway, written as "ID.ENC@GATEWAY" with every key in *)
(* base58, or laid out as one byte array.                                 *)
(*                                                                         *)
(* The keys are shrunk: a byte is a digit of radix ByteBase (256 in the   *)
(* code), a base58 character a digit of radix AlphaSize (58), and a key   *)
(* has IdSize or EncSize bytes (32 each).  Base58 is modelled by what    *)
(* it does (the bs58 big-number conversion, one leading '1' per leading  *)
(* zero byte), so leading zeros and key lengths behave as in the code.   *)
(* A string is a sequence of characters: the digits 0..AlphaSize-1,      *)
(* '.', '@' and Stray, any other character.                                *)
(***************************************************************************)
EXTENDS RecipientBytes, SequencesExt

Dot == AlphaSize
At == AlphaSize + 1
Stray == AlphaSize + 2
Chars == 0..Stray

-----------------------------------------------------------------------------
(* Base58, as the bs58 crate the keys use computes it.                     *)

Value(s, radix) == FoldLeft(LAMBDA acc, d : acc * radix + d, 0, s)

RECURSIVE DigitsOf(_, _)
DigitsOf(n, radix) ==
    IF n = 0 THEN <<>> ELSE DigitsOf(n \div radix, radix) \o <<n % radix>>

LeadingZeros(s) ==
    CHOOSE k \in 0..Len(s) :
        /\ \A i \in 1..k : s[i] = 0
        /\ k < Len(s) => s[k + 1] # 0

Zeros(k) == [i \in 1..k |-> 0]

\* to_base58_string
Base58Encode(bytes) ==
    LET z == LeadingZeros(bytes)
    IN  Zeros(z) \o DigitsOf(Value(SubSeq(bytes, z + 1, Len(bytes)), ByteBase),
                             AlphaSize)

\* bs58::decode: fails on a character outside the alphabet
Base58Decode(str) ==
    IF \E i \in 1..Len(str) : str[i] >= AlphaSize
      THEN Err("bs58")
      ELSE LET z == LeadingZeros(str)
           IN  Ok(Zeros(z) \o DigitsOf(Value(SubSeq(str, z + 1, Len(str)),
                                             AlphaSize), ByteBase))

\* from_base58_string: decode, then from_bytes
KeyFromBase58(str, size, isIdentity) ==
    LET d == Base58Decode(str)
    IN  IF d.ok /\ KeyFromBytes(d.val, size, isIdentity)
          THEN Ok(d.val) ELSE Err("key")

-----------------------------------------------------------------------------
(* str::split: the pieces between the separators, one more than there are *)
(* separators.                                                             *)
RECURSIVE SplitOn(_, _)
SplitOn(s, c) ==
    IF \E i \in 1..Len(s) : s[i] = c
      THEN LET i == CHOOSE i \in 1..Len(s) :
                        s[i] = c /\ \A j \in 1..i - 1 : s[j] # c
           IN  <<SubSeq(s, 1, i - 1)>> \o SplitOn(SubSeq(s, i + 1, Len(s)), c)
      ELSE <<s>>

\* impl Display for Recipient: "{}.{}@{}"
Display(r) ==
    Base58Encode(r.id) \o <<Dot>> \o Base58Encode(r.enc) \o <<At>>
        \o Base58Encode(r.gw)

\* The three keys parsed in the order of try_from_string's early returns.
ParseKeys(idStr, encStr, gwStr) ==
    LET id == KeyFromBase58(idStr, IdSize, TRUE)
        enc == KeyFromBase58(encStr, EncSize, FALSE)
        gw == KeyFromBase58(gwStr, IdSize, TRUE)
    IN  CASE ~id.ok  -> Err("MalformedIdentityError")
          [] ~enc.ok -> Err("MalformedEncryptionKeyError")
          [] ~gw.ok  -> Err("MalformedGatewayError")
          [] OTHER   -> Ok([id |-> id.val, enc |-> enc.val, gw |-> gw.val])

(***************************************************************************)
(* Mutant: the client and gateway halves taken the wrong way round.        *)
(***************************************************************************)
TryFromStringSwapped(s) ==
    LET split == SplitOn(s, At)
    IN  IF Len(split) # 2 THEN Err("MalformedRecipientError")
        ELSE LET client == SplitOn(split[2], Dot)
             IN  IF Len(client) # 2 THEN Err("MalformedRecipientError")
                 ELSE ParseKeys(client[1], client[2], split[1])

(***************************************************************************)
(* Mutant: no check that the address has exactly one '@'.                  *)
(***************************************************************************)
TryFromStringNoAtCheck(s) ==
    LET split == SplitOn(s, At) \o <<<<>>>>
    IN  LET client == SplitOn(split[1], Dot)
        IN  IF Len(client) # 2 THEN Err("MalformedRecipientError")
            ELSE ParseKeys(client[1], client[2], split[2])

\* Recipient::try_from_string
TryFromString(s) ==
    LET split == SplitOn(s, At)
    IN  IF Len(split) # 2 THEN Err("MalformedRecipientError")
        ELSE LET client == SplitOn(split[1], Dot)
             IN  IF Len(client) # 2 THEN Err("MalformedRecipientError")
                 ELSE ParseKeys(client[1], client[2], split[2])

-----------------------------------------------------------------------------
(***************************************************************************)
(* A sender is handed the address of some recipient: as Display writes it, *)
(* with one character typed wrong, dropped or added, or with a second      *)
(* "@gateway" appended.  Whatever it was handed, it may then copy the      *)
(* address again, correctly.                                               *)
(***************************************************************************)
Typos(s) ==
    {ReplaceAt(s, i, c) : i \in 1..Len(s), c \in Chars}
    \cup {RemoveAt(s, i) : i \in 1..Len(s)}
    \cup {InsertAt(s, i, c) : i \in 1..Len(s), c \in Chars}

Addresses(r) ==
    LET s == Display(r)
    IN  {s} \cup Typos(s) \cup {s \o <<At>> \o Base58Encode(g) :
                                g \in {q.gw : q \in Recipients}}

VARIABLE address

vars == <<recipient, address>>

Init ==
    /\ HeldInit
    /\ address \in Addresses(recipient)

Next ==
    /\ address' = Display(recipient)
    /\ UNCHANGED recipient

Spec == Init /\ [][Next]_vars

-----------------------------------------------------------------------------
(***************************************************************************)
(* The string_conversion_works test, for every recipient: parsing what    *)
(* Display writes gives back the same three keys, leading zero bytes      *)
(* included.                                                              *)
(***************************************************************************)
StringRoundTrip == TryFromString(Display(recipient)) = Ok(recipient)

(***************************************************************************)
(* An address names one recipient in one way: try_from_string accepts a  *)
(* string only if it is exactly what Display writes for the recipient it  *)
(* returns, so a mistyped or extended address is refused rather than read *)
(* as a recipient whose address is different.                             *)
(***************************************************************************)
ParseIsCanonical ==
    LET p == TryFromString(address)
    IN  p.ok => Display(p.val) = address

=============================================================================
