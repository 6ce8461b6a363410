---------------------------- MODULE RecipientBytes ----------------------------
(***************************************************************************)
(* The byte form of a nym client address (src/common/nymsphinx/addressing/ *)
(* src/clients.rs): the client identity key, the client encryption key and *)
(* the gateway identity laid end to end in one array of Recipient::LEN    *)
(* bytes.  A byte is a digit of radix ByteBase (256 in the code) and a    *)
(* key has IdSize or EncSize bytes (32 each).  Recipient builds the string *)
(* form on top of this module.                                             *)
(***************************************************************************)
EXTENDS Naturals, Sequences

CONSTANTS
    ByteBase,    \* values a byte takes
    AlphaSize,   \* characters of the base58 alphabet
    IdSize,      \* CLIENT_IDENTITY_SIZE and NODE_IDENTITY_SIZE
    EncSize,     \* CLIENT_ENCRYPTION_KEY_SIZE
    BadPoints    \* byte strings that are not ed25519 public keys

ASSUME RecipientAssumption ==
    /\ ByteBase \in Nat \ {0, 1}
    /\ AlphaSize \in Nat \ {0, 1}
    /\ IdSize \in Nat \ {0}
    /\ EncSize \in Nat \ {0}

Bytes(n) == [1..n -> 0..ByteBase - 1]

\* Recipient::LEN
RecipientLen == IdSize + EncSize + IdSize

RecipientFormattingError ==
    {"MalformedRecipientError", "MalformedIdentityError",
     "MalformedEncryptionKeyError", "MalformedGatewayError"}

Ok(v) == [ok |-> TRUE, val |-> v]
Err(e) == [ok |-> FALSE, err |-> e]

\* PublicKey::from_bytes: the length must be the key's, and an identity key
\* must decompress to a curve point.
KeyFromBytes(bytes, size, isIdentity) ==
    /\ Len(bytes) = size
    /\ isIdentity => bytes \notin BadPoints

Recipients ==
    {r \in [id : Bytes(IdSize), enc : Bytes(EncSize), gw : Bytes(IdSize)] :
        KeyFromBytes(r.id, IdSize, TRUE) /\ KeyFromBytes(r.gw, IdSize, TRUE)}

\* Recipient::into_bytes
IntoBytes(r) == r.id \o r.enc \o r.gw

(***************************************************************************)
(* Mutant: the encryption key sliced one byte early.                      *)
(***************************************************************************)
TryFromBytesOffByOne(b) ==
    LET id == SubSeq(b, 1, IdSize)
        enc == SubSeq(b, IdSize, IdSize + EncSize - 1)
        gw == SubSeq(b, IdSize + EncSize + 1, RecipientLen)
    IN  CASE ~KeyFromBytes(id, IdSize, TRUE) -> Err("MalformedIdentityError")
          [] ~KeyFromBytes(gw, IdSize, TRUE) -> Err("MalformedGatewayError")
          [] OTHER -> Ok([id |-> id, enc |-> enc, gw |-> gw])

\* Recipient::try_from_bytes: x25519 accepts every key of the right length.
TryFromBytes(b) ==
    LET id == SubSeq(b, 1, IdSize)
        enc == SubSeq(b, IdSize + 1, IdSize + EncSize)
        gw == SubSeq(b, IdSize + EncSize + 1, RecipientLen)
    IN  CASE ~KeyFromBytes(id, IdSize, TRUE) -> Err("MalformedIdentityError")
          [] ~KeyFromBytes(gw, IdSize, TRUE) -> Err("MalformedGatewayError")
          [] OTHER -> Ok([id |-> id, enc |-> enc, gw |-> gw])

(***************************************************************************)
(* The bytes_conversion_works test, for one recipient: try_from_bytes     *)
(* undoes into_bytes.                                                     *)
(***************************************************************************)
BytesRoundTripFor(r) == TryFromBytes(IntoBytes(r)) = Ok(r)

(***************************************************************************)
(* The recipient whose address a sender is handed: a valid one, the same  *)
(* for the whole run.  Recipient builds the sender on top of it.           *)
(***************************************************************************)
VARIABLE recipient

HeldInit == recipient \in Recipients

(***************************************************************************)
(* The bytes_conversion_works test, for every recipient: try_from_bytes   *)
(* undoes into_bytes.                                                     *)
(***************************************************************************)
BytesRoundTrip == BytesRoundTripFor(recipient)

=============================================================================
