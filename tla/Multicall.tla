------------------------------ MODULE Multicall ------------------------------
(***************************************************************************)
(* The ABI layout that internal/chain/multicall.go writes and reads by     *)
(* hand, word by word: a message is a sequence of 32-byte words, offsets   *)
(* and lengths in it count bytes, and every word is a number.  The         *)
(* selector in front of the calldata is left out, as offsets do not count  *)
(* it.  aggregate3 itself is a contract on the chain and reads and writes  *)
(* the same layout.                                                        *)
(***************************************************************************)
EXTENDS Integers, SequencesExt

CONSTANT MaxCalls  \* the largest number that fits into one byte: 255

ASSUME MulticallAssumption == MaxCalls \in Nat

(* A bytes value: its length, and its words with the padding.              *)
Words(bytes) == (bytes + 31) \div 32

Failed   == [outcome |-> "error", results |-> << >>]
Panicked == [outcome |-> "panic", results |-> << >>]
NoRoom   == [outcome |-> "panic", words |-> << >>]

(* Where each of the elements starts: the offsets take one word each in    *)
(* front of them, then each element follows the one before.                *)
Offsets(elements) ==
    LET start[i \in DOMAIN elements] ==
            IF i = 1 THEN 32 * Len(elements) ELSE start[i - 1] + 32 * Len(elements[i - 1])
    IN  start

Array(elements) == <<Len(elements)>> \o Offsets(elements) \o FlattenSeq(elements)

(* (address target, bool allowFailure, bytes callData)                     *)
encodeTuple(call) ==
    <<call.target, IF call.allow THEN 1 ELSE 0, 96, call.bytes>> \o call.words

Layout(calls) == <<32>> \o Array([i \in DOMAIN calls |-> encodeTuple(calls[i])])

(* FillBytes panics on a count that its one byte does not hold, before the *)
(* count is written as a word.                                             *)
encodeAggregate3(calls) ==
    IF Len(calls) > MaxCalls THEN NoRoom ELSE [outcome |-> "ok", words |-> Layout(calls)]

(* The word the decoder reads at a byte offset of the answer.              *)
At(data, offset) == data[offset \div 32 + 1]

Size(data) == 32 * Len(data)

(* Mutant: the offset in front of the length is not skipped.               *)
arrayLenFirst(data) == data[1]

arrayLen(data) == data[2]

(* Where result i starts: offsets count from behind the length.            *)
tupleStart(data, i) == 64 + At(data, 64 + 32 * (i - 1))

(* The bounds the code tests; the words of a result are read behind them.  *)
InBounds(data, i) ==
    LET t == tupleStart(data, i)
    IN  /\ t + 64 <= Size(data)
        /\ LET b == t + At(data, t + 32)
           IN  b + 32 <= Size(data) /\ b + 32 + At(data, b) <= Size(data)

Result(data, i) ==
    LET t == tupleStart(data, i)
        b == t + At(data, t + 32)
        n == At(data, b)
    IN  [success |-> At(data, t) = 1, bytes |-> n,
         words |-> SubSeq(data, (b + 32) \div 32 + 1, (b + 32) \div 32 + Words(n))]

(* A length that the data cannot hold is read beyond its end.              *)
decodeAggregate3Results(data) ==
    IF Len(data) < 2 THEN Failed
    ELSE IF Len(data) < 2 + arrayLen(data) THEN Panicked
    ELSE IF \E i \in 1..arrayLen(data) : ~InBounds(data, i) THEN Failed
    ELSE [outcome |-> "ok", results |-> [i \in 1..arrayLen(data) |-> Result(data, i)]]

-----------------------------------------------------------------------------
(* The contract: it finds the calls by their offsets, makes each, and      *)
(* answers (bool success, bytes returnData)[].                             *)
DecodedCalls(calldata) ==
    LET base(i) == 64 + At(calldata, 64 + 32 * (i - 1))
        data(i) == base(i) + At(calldata, base(i) + 64)
        n(i)    == At(calldata, data(i))
    IN  [i \in 1..calldata[2] |->
           [target |-> At(calldata, base(i)), allow |-> At(calldata, base(i) + 32) = 1,
            bytes |-> n(i),
            words |-> SubSeq(calldata, data(i) \div 32 + 2, data(i) \div 32 + 1 + Words(n(i)))]]

EncodedResults(results) ==
    <<32>> \o Array([i \in DOMAIN results |->
                       <<IF results[i].success THEN 1 ELSE 0, 64, results[i].bytes>>
                       \o results[i].words])
==============================================================================
