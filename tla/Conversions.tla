------------------------------ MODULE Conversions ------------------------------
(***************************************************************************)
(* One conversion of Codecs on one input, and what must hold of it.  The   *)
(* inputs are those the callers can pass: bytes of keys and digits of      *)
(* addresses, entropies and phrases, phrases as they are typed, signed     *)
(* transactions, amounts and texts of digits and dots.                     *)
(***************************************************************************)
EXTENDS Codecs

CONSTANTS Inputs, Nothing

(* An entropy that generate or encode takes: whole bytes, whole units of   *)
(* the checksum, and a phrase of a length that entropy(from:) accepts.     *)
Fits(entropy) ==
    /\ entropy \in Seq(0..Power(2, ByteBits) - 1)
    /\ (Len(entropy) * ByteBits) % Ratio = 0
    /\ Checksum(entropy) \in Seq(0..1)
    /\ (Len(entropy) * ByteBits) \div Ratio <= Len(Checksum(entropy))
    /\ Len(Phrase(entropy)) \in Counts

(* Sequences of a fixed length, such as signatures. *)
Chunk(S, w) == {c \in Seq(S) : Len(c) = w}

WellFormed(i) ==
    \/ i.kind = "bytes" /\ i.of \in Seq(0..Radix - 1)
    \/ i.kind = "digits" /\ i.of \in Seq(0..Base - 1)
    \/ i.kind \in {"entropy", "typed"} /\ Fits(i.of)
    \/ i.kind = "words" /\ i.of \in Seq(Dictionary)
    \/ /\ i.kind = "transaction" /\ i.message \in Seq(Nat)
       /\ i.of \in Seq(Chunk(Nat, SignatureBytes))
    \/ i.kind = "amount" /\ i.of \in Nat /\ i.decimals \in Nat
    \/ i.kind = "text" /\ i.of \in Seq(0..Dot) /\ i.decimals \in Nat

ASSUME InputsWellFormed == \A i \in Inputs : WellFormed(i)
ASSUME NothingIsNoInput == Nothing \notin Inputs

VARIABLE input   \* what is converted, Nothing before

ConvertInit == input = Nothing
Convert == input = Nothing /\ input' \in Inputs
ConvertSpec == ConvertInit /\ [][Convert]_input

Is(kind) == input # Nothing /\ input.kind = kind

-------------------------------------------------------------------------------
(* What is written reads back.  Base58: every byte string comes back from  *)
(* its encoding, leading zeros and all, and every digit string from its    *)
(* decoding: an address has one spelling.  Recovery phrases: the phrase of *)
(* an entropy gives it back, and one is accepted only if it is the phrase  *)
(* of some entropy.  Transactions: a node reads the signatures and the     *)
(* message that were assembled, however many bytes their count takes.      *)
EncodingsRoundTrip ==
    /\ Is("bytes") => Decode(Encode(input.of)) = input.of
    /\ Is("digits") => Encode(Decode(input.of)) = input.of
    /\ Is("entropy") => Entropy(Phrase(input.of)) = input.of
    /\ Is("words") /\ Entropy(input.of) # NoEntropy => Phrase(Entropy(input.of)) = input.of
    /\ Is("transaction") =>
         ReadTransaction(Assemble(input.of, input.message))
           = [signatures |-> input.of, message |-> input.message]

(* Amounts: what is shown of an amount parses back to it, and what is      *)
(* parsed from a text is exactly the number the text names: its digits     *)
(* over as many tens as stand behind the dot.                              *)
AmountsAreExact ==
    /\ Is("amount") =>
         ParseUnits(FormatUnits(input.of, input.decimals), input.decimals) = input.of
    /\ Is("text") =>
         LET a == ParseUnits(input.of, input.decimals)
             dot == DotAt(input.of)
             after == Len(Skip(input.of, dot))
         IN  a # Malformed =>
               a * Power(Ten, after)
                 = Number(RemoveAt(input.of, dot), Ten) * Power(Ten, input.decimals)

(* "re-deriving the same key on-device" (xend_wallet.dart 104): a phrase   *)
(* that restore accepts opens the wallet it was generated for.             *)
RestoresItsWallet ==
    Is("typed") =>
      Restored([words |-> Phrase(input.of), spaces |-> input.spaces]) = Generated(input.of)
===============================================================================
