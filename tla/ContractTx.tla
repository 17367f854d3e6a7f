----------------------------- MODULE ContractTx -----------------------------
(***************************************************************************)
(* The numbers of a contract transaction: how many bytes it has, what it   *)
(* costs, and the coins it spends (ContractTxHelper, the transaction       *)
(* classes, TransactionFeeCalculator, LongUtils).                          *)
(*                                                                         *)
(* Byte strings are their lengths.  Sizes and thresholds are those of the  *)
(* code; only the width of a Java long is a parameter.                     *)
(***************************************************************************)
EXTENDS Integers

CONSTANT Word   \* a long ranges over -Word .. Word - 1 (Word = 2^63)

ASSUME WordAssumption == Word \in Nat \ {0}

-----------------------------------------------------------------------------
(***************************************************************************)
(* Sizes                                                                   *)
(***************************************************************************)
\* VarInt.sizeOf, for the length of a byte array (an int).
VarIntSize(n) == IF n < 253 THEN 1 ELSE IF n <= 65535 THEN 3 ELSE 5

\* SerializeUtils.sizeOfBytes; null and the empty array both take one byte.
SizeOfBytes(n) == VarIntSize(n) + n

\* Transaction.size(): type, time and four byte arrays.
TxSize(remark, txData, coinData, signature) ==
  6 + SizeOfBytes(remark) + SizeOfBytes(txData)
    + SizeOfBytes(coinData) + SizeOfBytes(signature)

\* CoinData.size() with one coin of CoinFrom.size() = 70 bytes and, if value
\* is transferred to the contract, one of CoinTo.size() = 68 bytes.  (Where
\* addTo makes a script of the contract's address, see TxWire, it has 73.)
CoinDataSize(value) == 72 + (IF value > 0 THEN 68 ELSE 0)

\* ContractTxHelper.calcSize: what a part that was empty will add.
CalcSize(n) == VarIntSize(n) + n - 1

\* A signature: the key (1 + 33 bytes), then 1 + the length of the DER form.
SignatureSize(der) == 35 + der

-----------------------------------------------------------------------------
(***************************************************************************)
(* Money                                                                   *)
(***************************************************************************)
\* LongUtils.mul: the product's low bits, read as a signed number.
Mul(a, b) == ((a * b + Word) % (2 * Word)) - Word

\* TransactionFeeCalculator.getNormalTxFee: 100000 per started kilobyte.
NormalTxFee(size) ==
  100000 * (size \div 1024) + (IF size % 1024 > 0 THEN 100000 ELSE 0)

\* (First a slip: the signature still to come is not paid for.)
UnsignedFeeWithoutSignature(size) == NormalTxFee(size)

\* getNormalUnsignedTxFee, with P2PHKSignature.SERIALIZE_LENGTH = 110.
NormalUnsignedTxFee(size) == NormalTxFee(size + 110)

\* The fee makeCoinData charges a transaction whose remark and data are known.
Fee(remark, txData, value) ==
  NormalUnsignedTxFee(TxSize(remark, 0, 0, 0) + CalcSize(txData)
                                              + CalcSize(CoinDataSize(value)))

\* (First a slip: what is transferred is not taken.)
TotalValueWithoutTransfer(gas, price, value, remark, txData) ==
  Mul(gas, price) + Fee(remark, txData, value)

\* What makeCoinData takes from the sender for gas, value and fee.
TotalValue(gas, price, value, remark, txData) ==
  Mul(gas, price) + value + Fee(remark, txData, value)
=============================================================================
