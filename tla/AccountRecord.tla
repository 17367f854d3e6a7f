--------------------------- MODULE AccountRecord ---------------------------
(***************************************************************************)
(* The data of an account and what its methods compute: Account, AccountPo *)
(* and AccountKeyStore of io.nuls.contract.account.model.                  *)
(*                                                                         *)
(* A private key stands for itself, for the public key derived from it and *)
(* for the address derived from that: the derivation is one to one, so a   *)
(* key pair is one member of Keys.  AES-CBC under the hash of a password   *)
(* is a pair [key, pw]: decrypting it under another password raises a      *)
(* CryptoException or yields bytes whose public key is a different one,    *)
(* and every caller refuses both.                                          *)
(***************************************************************************)

CONSTANTS
  Keys,            \* private keys (and their public keys and addresses)
  Passwords,       \* the non-blank passwords
  ValidPasswords,  \* those of them that FormatValidUtils.validPassword accepts
  Blank,           \* no password: null or a blank string
  NoKey,           \* a null or empty byte array
  Absent           \* no record, no file

ASSUME RecordConstants ==
  /\ ValidPasswords \subseteq Passwords
  /\ Blank \notin Passwords
  /\ NoKey \notin Keys

MaybePassword == Passwords \union {Blank}

(***************************************************************************)
(* The encrypted private key: which key, under which password.  An         *)
(* EncryptedPrivateKey field holds one or is empty.                        *)
(***************************************************************************)
Cipher == [key : Keys, pw : Passwords]

ASSUME NoKeyIsNoCipher == NoKey \notin Cipher

Account == [pub : Keys, pri : Keys \union {NoKey}, enc : Cipher \union {NoKey}]

ASSUME AbsentIsNoAccount == Absent \notin Account

IsEncrypted(a) == a.enc # NoKey

\* AccountTool.createAccount: the private key in plain text, no encrypted one.
NewAccount(k) == [pub |-> k, pri |-> k, enc |-> NoKey]

\* Slips that Encrypt must not make: keep the plain key; clear it too early.
EncryptKeepingPlain(a, pw) == [a EXCEPT !.enc = [key |-> a.pri, pw |-> pw]]
EncryptAfterClearing(a, pw) ==
  [a EXCEPT !.pri = NoKey, !.enc = [key |-> NoKey, pw |-> pw]]

\* Account.encrypt(password): the plain key is replaced by its encryption.
Encrypt(a, pw) ==
  [a EXCEPT !.pri = NoKey, !.enc = [key |-> a.pri, pw |-> pw]]

\* AESEncrypt.decrypt: NoKey stands for the exception and for garbage bytes.
Decrypt(c, pw) == IF c.pw = pw THEN c.key ELSE NoKey

\* Account.validatePassword.  The format is checked before the key is tried.
ValidatePassword(a, pw) ==
  /\ pw \in ValidPasswords
  /\ Decrypt(a.enc, pw) = a.pub

\* Account.getEcKey(password), Account.getPriKey(password) and the plain-text
\* branch of getPrivateKey: the private key, or NoKey for PASSWORD_IS_WRONG.
Unlock(a, pw) ==
  IF IsEncrypted(a)
  THEN IF ValidatePassword(a, pw) THEN a.enc.key ELSE NoKey
  ELSE IF a.pri = a.pub THEN a.pri ELSE NoKey

\* What an account is when it is stored: encrypted if a password was given.
Sealed(k, pw) ==
  IF pw = Blank THEN NewAccount(k) ELSE Encrypt(NewAccount(k), pw)

(***************************************************************************)
(* Keystores                                                               *)
(***************************************************************************)
KeyStore == [addr : Keys, pri : Keys \union {NoKey}, enc : Cipher \union {NoKey}]

\* A slip: the branch for encrypted accounts is forgotten.
ToKeyStorePlainOnly(a) == [addr |-> a.pub, pri |-> a.pri, enc |-> NoKey]

\* accountToKeyStore: an encrypted account exports only the encrypted key.
ToKeyStore(a) ==
  [addr |-> a.pub,
   pri  |-> IF IsEncrypted(a) THEN NoKey ELSE a.pri,
   enc  |-> IF IsEncrypted(a) THEN a.enc ELSE NoKey]

\* The key an import obtains from a keystore: a plain key is used as it is,
\* an encrypted one is decrypted, neither is a PARAMETER_ERROR.
KeyIn(s, pw) ==
  IF s.pri # NoKey THEN s.pri
  ELSE IF s.enc # NoKey THEN Decrypt(s.enc, pw) ELSE NoKey

=============================================================================
