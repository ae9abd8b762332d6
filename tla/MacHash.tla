------------------------------- MODULE MacHash -------------------------------
(***************************************************************************)
(* The number a machine is known by to the server: stringToHashCode() of   *)
(* the line that `cat /sys/class/net/eth0/address' prints, h = 7 * h + c   *)
(* in a double.  Two machines with addresses of one vendor are taken       *)
(* beside each other; the server keeps them apart only if the ids differ.  *)
(*                                                                         *)
(* A double is an integer here, <<high, low>> to the base 2^24.  Below     *)
(* 2^53 it is exact; up to 2^54 it is a multiple of 2, from there on of 4, *)
(* which the last characters of a line take it to.                         *)
(***************************************************************************)
EXTENDS Integers, SequencesExt

CONSTANTS
  Prefix,   \* the first five groups of the addresses, characters 1 .. 15
  Digit     \* the characters of the last group

Newline == 10
Base == 2 ^ 24

\* A digit is a digit or a lower-case letter, and a colon is 58.
HexDigit == (48 .. 57) \cup (97 .. 102)
Character == 48 .. 102

ASSUME MacAssumption ==
  /\ Prefix \subseteq [1 .. 15 -> Character]
  /\ \A p \in Prefix : p[1] \in HexDigit
  /\ Digit \subseteq HexDigit

\* What is read on machines of one vendor.
Lines(p) == {p \o <<d[1], d[2], Newline>> : d \in Digit \X Digit}

VARIABLES
  line,      \* line[m]: the address that is read on machine m
  macId      \* macId[m]: its id, once it has been computed

macVars == <<line, macId>>

Machine == {1, 2}
NoMacId == <<0, 0>>

MacInit ==
  /\ \E p \in Prefix : line \in [Machine -> Lines(p)]
  /\ macId = [m \in Machine |-> NoMacId]

-----------------------------------------------------------------------------
Normal(high, low) == <<high + low \div Base, low % Base>>

\* To the nearest double, and to the even one of two.
Rounded(x) ==
  LET unit  == IF x[1] >= 2 ^ 30 THEN 4 ELSE IF x[1] >= 2 ^ 29 THEN 2 ELSE 1
      below == x[2] \div unit
      over  == x[2] % unit
      up    == 2 * over > unit \/ (2 * over = unit /\ below % 2 = 1)
  IN  Normal(x[1], unit * (below + IF up THEN 1 ELSE 0))

\* Mutant of Append7: the characters are added up.
Append7Not(h, c) == Rounded(Normal(h[1], h[2] + c))

\* h = seed * h + s[i]: a product and a sum, each of them rounded.
Append7(h, c) ==
  LET product == Rounded(Normal(7 * h[1], 7 * h[2]))
  IN  Rounded(Normal(product[1], product[2] + c))

stringToHashCode(s) ==
  LET hash[k \in 0 .. Len(s)] ==
        IF k = 0 THEN <<0, 0>> ELSE Append7(hash[k - 1], s[k])
  IN  hash[Len(s)]

ComputeId(m) ==
  /\ macId[m] = NoMacId
  /\ macId' = [macId EXCEPT ![m] = stringToHashCode(line[m])]
  /\ UNCHANGED line

MacNext == \E m \in Machine : ComputeId(m)

MacSpec == MacInit /\ [][MacNext]_macVars

-----------------------------------------------------------------------------
\* How far the last digits put the two machines apart, exactly.
Distance ==
  7 * (line[1][16] - line[2][16]) + line[1][17] - line[2][17]

\* Different machines of a vendor share an id, and so their rows and their
\* directive, exactly where their last two digits are that close, as "07" and
\* "10" are; or where they are neighbours, and the double is too coarse, which
\* it is only if the address begins with a letter.
SharedIds ==
  (\A m \in Machine : macId[m] # NoMacId) =>
    /\ Distance = 0 => macId[1] = macId[2]
    /\ macId[1] = macId[2] =>
         Distance = 0 \/ (Distance \in {-1, 1} /\ line[1][1] >= 97)
=============================================================================
