-------------------------------- MODULE Codecs --------------------------------
(***************************************************************************)
(* The pure conversions money and keys go through: Base58.swift (addresses)*)
(* Mnemonic.swift (recovery phrases), wire.dart (signed transactions) and  *)
(* _parseUnits / _formatUnits of the example app (amounts).  The radices   *)
(* are parameters, so that small ones can be checked on every input.       *)
(***************************************************************************)
EXTENDS Integers, Sequences, SequencesExt, FiniteSets

CONSTANTS
    Radix, Base,      \* 256 and 58
    ByteBits,         \* 8
    WordBits,         \* 11: the wordlist has 2^WordBits words
    Ratio,            \* 32: bits of entropy to a bit of the checksum
    Counts,           \* lengths a phrase may have
    Checksum(_),      \* the bits of SHA-256
    Group,            \* 128: what a byte of a compact-u16 counts to
    SignatureBytes,   \* 64
    Ten               \* the radix of amounts

ASSUME Radices == {Radix, Base, Group, Ten} \subseteq Nat \ {0, 1} /\ Base <= Radix
ASSUME Widths == {ByteBits, WordBits, Ratio, SignatureBytes} \subseteq Nat \ {0}
ASSUME Groups == /\ (Ratio + 1) % WordBits = 0 /\ Ratio % ByteBits = 0
                 /\ \A n \in Counts : n \in Nat /\ (n * WordBits) % (Ratio + 1) = 0

Zeros(n) == [i \in 1..n |-> 0]
FirstNonZero(s) == SelectInSeq(s, LAMBDA x : x # 0)
Leading(s) == IF FirstNonZero(s) = 0 THEN Len(s) ELSE FirstNonZero(s) - 1
Skip(s, n) == SubSeq(s, n + 1, Len(s))
Number(digits, radix) == FoldLeft(LAMBDA n, d : n * radix + d, 0, digits)

(* n factors b. *)
Power(b, n) == LET p[i \in 0..n] == IF i = 0 THEN 1 ELSE b * p[i - 1] IN p[n]

-------------------------------------------------------------------------------
(* Base58.encode: the digits from start on are divided by Base in place,   *)
(* pass by pass, and the remainders are the answer from its end; start     *)
(* moves on past a digit that has become zero.                             *)
DivideDigit(a, d) ==
    LET acc == d + a.rem * Radix
    IN  [out |-> Append(a.out, acc \div Base), rem |-> acc % Base]

Divide(in) == FoldLeft(DivideDigit, [out |-> <<>>, rem |-> 0], in)

Passes[in \in Seq(0..Radix - 1)] ==
    IF in = <<>> THEN <<>>
    ELSE LET d == Divide(in)
         IN  Append(Passes[IF d.out[1] = 0 THEN Tail(d.out) ELSE d.out], d.rem)

(* The variant drops what the leading zeros stand for. *)
ShortEncode(bytes) == Passes[Skip(bytes, Leading(bytes))]
Encode(bytes) == Zeros(Leading(bytes)) \o Passes[Skip(bytes, Leading(bytes))]

(* Base58.decode: the bytes grow from their low end. *)
Spill[n \in Nat] == IF n = 0 THEN <<>> ELSE <<n % Radix>> \o Spill[n \div Radix]

CarryByte(a, b) ==
    [out |-> Append(a.out, (a.carry + b * Base) % Radix),
     carry |-> (a.carry + b * Base) \div Radix]

Carry(bytes, digit) ==
    LET r == FoldLeft(CarryByte, [out |-> <<>>, carry |-> digit], bytes)
    IN  r.out \o Spill[r.carry]

Decode(digits) ==
    Zeros(Leading(digits)) \o Reverse(FoldLeft(Carry, <<>>, digits))

-------------------------------------------------------------------------------
(* Mnemonic.encode and entropy(from:).  A byte and a word are numbers: the *)
(* wordlist has one word for every pattern of WordBits bits.               *)
Dictionary == 0..Power(2, WordBits) - 1
BitsOf(n, width) == [i \in 1..width |-> (n \div Power(2, width - i)) % 2]
BitString(numbers, width) == FlattenSeq([i \in DOMAIN numbers |-> BitsOf(numbers[i], width)])
Grouped(bits, width) ==
    [i \in 1..Len(bits) \div width |-> Number(SubSeq(bits, (i - 1) * width + 1, i * width), 2)]

Phrase(entropy) ==
    LET bits == BitString(entropy, ByteBits)
    IN  Grouped(bits \o SubSeq(Checksum(entropy), 1, Len(bits) \div Ratio), WordBits)

NoEntropy == <<-1>>   \* no bytes at all

Split(bits, sum) == [entropy |-> SubSeq(bits, 1, Len(bits) - sum),
                     checksum |-> SubSeq(bits, Len(bits) - sum + 1, Len(bits))]

Entropy(words) ==
    LET bits == BitString(words, WordBits)
        sum == Len(bits) \div (Ratio + 1)
        part == Split(bits, sum)
        entropy == Grouped(part.entropy, ByteBits)
    IN  IF Len(words) \in Counts /\ part.checksum = SubSeq(Checksum(entropy), 1, sum)
          THEN entropy
          ELSE NoEntropy

(* A phrase as it is typed: words, and how many spaces stand between them. *)
(* generate joins them with one; split omits what is empty between two.    *)
Spelled(words) == [words |-> words, spaces |-> [i \in 1..Len(words) - 1 |-> 1]]

(* seed(from:) is PBKDF2 over the text as it stands: other text, other     *)
(* key.  restore validates, then derives.                                  *)
Seed(text) == text
Generated(entropy) == Seed(Spelled(Phrase(entropy)))
Restored(text) == IF Entropy(text.words) = NoEntropy THEN NoEntropy ELSE Seed(text)

-------------------------------------------------------------------------------
(* assembleSignedTransaction: how many signatures, the signatures, the     *)
(* message.  The high bit of a byte of the count says that more follow.    *)
ShortVec[n \in Nat] ==
    IF n < Group THEN <<n>> ELSE <<Group + (n % Group)>> \o ShortVec[n \div Group]

Assemble(signatures, message) == ShortVec[Len(signatures)] \o FlattenSeq(signatures) \o message

(* What a node reads from it. *)
ReadTransaction(wire) ==
    LET size == SelectInSeq(wire, LAMBDA b : b < Group)
        n == Number(Reverse([i \in 1..size |-> wire[i] % Group]), Group)
        at(i) == size + (i - 1) * SignatureBytes
    IN  [signatures |-> [i \in 1..n |-> SubSeq(wire, at(i) + 1, at(i + 1))],
         message |-> Skip(wire, at(n + 1))]

-------------------------------------------------------------------------------
(* Amounts.  A text is a sequence of digits with "." among them. *)
Dot == Ten
Numeral[n \in Nat] == IF n < Ten THEN <<n>> ELSE Append(Numeral[n \div Ten], n % Ten)
PadLeft(s, n) == IF Len(s) < n THEN Zeros(n - Len(s)) \o s ELSE s
Trimmed(s) == Reverse(Skip(Reverse(s), Leading(Reverse(s))))

FormatUnits(amount, decimals) ==
    IF decimals = 0 THEN Numeral[amount]
    ELSE LET padded == PadLeft(Numeral[amount], decimals + 1)
             whole == SubSeq(padded, 1, Len(padded) - decimals)
             frac == Trimmed(Skip(padded, Len(padded) - decimals))
         IN  IF frac = <<>> THEN whole ELSE whole \o <<Dot>> \o frac

Malformed == -1

Dots(text) == {i \in DOMAIN text : text[i] = Dot}
DotAt(text) == IF Dots(text) = {} THEN Len(text) + 1 ELSE CHOOSE i \in Dots(text) : TRUE

(* The variant does not pad the fraction, so that 1.5 is 15. *)
Unpadded(frac, decimals) == frac
PadRight(frac, decimals) == frac \o Zeros(decimals - Len(frac))

ParseUnits(text, decimals) ==
    LET dot == DotAt(text)
        whole == SubSeq(text, 1, dot - 1)
        frac == Skip(text, dot)
    IN  IF text = <<>> \/ Cardinality(Dots(text)) > 1 \/ Len(frac) > decimals
          THEN Malformed
          ELSE Number(whole, Ten) * Power(Ten, decimals) + Number(PadRight(frac, decimals), Ten)
===============================================================================
