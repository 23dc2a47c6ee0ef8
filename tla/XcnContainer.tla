---------------------------- MODULE XcnContainer ----------------------------
(***************************************************************************)
(* The container of app/xcn_crypto.py around an encrypted recording: a     *)
(* header, the enciphered blocks and a SHA-256 digest of the content.  The *)
(* ARIA cipher is external: blocks enciphered with a key come back with    *)
(* that key, and anything else comes back scrambled.                       *)
(*                                                                         *)
(* A file is a record: the fields of its header, the bytes that were       *)
(* enciphered and are still there (without magic: the bytes themselves),   *)
(* the key they were enciphered with, and the content its digest was made  *)
(* from (NoDigest when the file ends before it).                           *)
(***************************************************************************)
EXTENDS Integers, Sequences

CONSTANTS
    BlockSize,    \* BLOCK_SIZE
    Keys,         \* the keys that files are enciphered with
    NoKey,        \* what load_key_file gives for a key file that is missing or not valid
    NoDigest

ASSUME XcnContainerAssumption == BlockSize \in Nat \ {0}

Ciphers == {"aria128", "aria192", "aria256", "aes128", "aes192", "aes256"}

Bytes == Seq({0, 1})

\* what an uploaded file may be
Content ==
    [magic : BOOLEAN, cipher : Ciphers \cup {"none"}, compressed : BOOLEAN, length : Nat,
     bytes : Bytes, key : Keys \cup {NoKey}, digest : Bytes \cup {NoDigest}]

\* a file that holds bytes as they are
PlainFile(bytes) ==
    [magic |-> FALSE, cipher |-> "none", compressed |-> FALSE, length |-> 0,
     bytes |-> bytes, key |-> NoKey, digest |-> NoDigest]

PadSize(length) == IF length % BlockSize = 0 THEN 0 ELSE BlockSize - (length % BlockSize)

\* what enforce_file_limit counts; the header is longer than nothing, that is all that matters
Size(file) == Len(file.bytes) + (IF file.magic THEN 1 ELSE 0)

EncryptedLength(length) == length + PadSize(length)

\* parse_header: anything it refuses is taken for a plain recording
IsEncrypted(file) == file.magic /\ file.cipher \in Ciphers /\ ~file.compressed

IsTruncated(file) ==
    Len(file.bytes) < EncryptedLength(file.length) \/ file.digest = NoDigest

Decipher(bytes, key, own) ==
    IF key = own THEN bytes ELSE [i \in DOMAIN bytes |-> 1 - bytes[i]]

Plaintext(file, key) ==
    SubSeq(Decipher(SubSeq(file.bytes, 1, EncryptedLength(file.length)), key, file.key),
           1, file.length)

\* A mutant: the digest is not compared.
CanDecryptUnchecked(file, key) ==
    file.cipher = "aria256" /\ key # NoKey /\ ~IsTruncated(file)

\* decrypt_bytes raises nothing
CanDecrypt(file, key) ==
    /\ file.cipher = "aria256"
    /\ key # NoKey
    /\ ~IsTruncated(file)
    /\ file.digest = Plaintext(file, key)
=============================================================================
