---- MODULE Tbcd ----
(* Telephone numbers as Diameter carries them (FDUtility, util/src/fd.cpp).

   A text is a sequence of the values 0..14 of its characters (digits, then
   * # a b c); an octet is the pair of its high and its low nibble; 15 is the
   filler. *)
EXTENDS Naturals, Sequences, SequencesExt

Filler == 15

Str2Tbcd_PadZero(text) ==
    [i \in 1..((Len(text) + 1) \div 2) |->
        <<text[2 * i - 1], IF 2 * i <= Len(text) THEN text[2 * i] ELSE 0>>]

\* str2tbcd(): the first of two characters in the high nibble, an odd one out
\* followed by the filler.
Str2Tbcd(text) ==
    [i \in 1..((Len(text) + 1) \div 2) |->
        <<text[2 * i - 1], IF 2 * i <= Len(text) THEN text[2 * i] ELSE Filler>>]

\* tbcd2str(): a filler ends its octet and the next octet goes on.
Tbcd2Str(octets) ==
    FlattenSeq([i \in DOMAIN octets |->
        LET hi == octets[i][1]
            lo == octets[i][2]
        IN  CASE hi = Filler -> <<>>
              [] hi # Filler /\ lo = Filler -> <<hi>>
              [] hi # Filler /\ lo # Filler -> <<hi, lo>>])

\* The number that a text denotes in a CQL statement (an msisdn is a bigint).
Number(text) == FoldLeft(LAMBDA n, d : 10 * n + d, 0, text)
====
