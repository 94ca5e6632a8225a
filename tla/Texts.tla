-------------------------------- MODULE Texts --------------------------------
(***************************************************************************)
(* Text as the parsers of the policy and of the request targets see it.  A *)
(* text is a sequence of tokens: a punctuation mark, a word of letters, a  *)
(* numeral, a byte outside ASCII or the end of a line.  Two numerals never *)
(* stand next to each other, so that a text has one reading.               *)
(* The string operations of the standard library are modelled here.        *)
(***************************************************************************)
EXTENDS Integers, Sequences, SequencesExt

CONSTANTS
  Lower,     \* the lower-case form of each word
  Value,     \* the number each numeral stands for
  Padded,    \* the numerals of several digits that begin with a zero
  Long,      \* the words of more than 63 letters
  Address    \* the IPv6 address each text stands for that is one

Words == DOMAIN Lower
Numerals == DOMAIN Value
LineEnd == "\n"
Space == " "
Foreign == "not ASCII"

ASSUME Alphabet ==
  /\ Words \cap Numerals = {}
  /\ \A w \in Words : Lower[w] \in Words /\ Lower[Lower[w]] = Lower[w]
  /\ Padded \subseteq Numerals /\ Long \subseteq Words
  /\ \A n, m \in Numerals \ Padded : Value[n] = Value[m] => n = m

Alphanumeric == Words \cup Numerals

\* What stands between the occurrences of a mark.
Split(text, mark) ==
  FoldLeft(LAMBDA parts, t : IF t = mark THEN Append(parts, <<>>)
                             ELSE Append(Front(parts), Append(Last(parts), t)),
           << <<>> >>, text)

Strip(text, mark) ==
  LET kept == {i \in DOMAIN text : text[i] # mark}
  IN IF kept = {} THEN <<>>
     ELSE SubSeq(text, CHOOSE i \in kept : \A j \in kept : i <= j,
                       CHOOSE i \in kept : \A j \in kept : j <= i)

WithoutPrefix(text, prefix) ==
  IF IsPrefix(prefix, text) THEN SubSeq(text, Len(prefix) + 1, Len(text)) ELSE text

WithoutLast(text, mark) ==
  IF text # <<>> /\ Last(text) = mark THEN Front(text) ELSE text

Lowercase(text) ==
  [i \in DOMAIN text |-> IF text[i] \in Words THEN Lower[text[i]] ELSE text[i]]

\* An option is a set of at most one member.
First(text, marks) ==
  {i \in DOMAIN text : text[i] \in marks /\ \A j \in 1..i - 1 : text[j] \notin marks}
LastOf(text, mark) ==
  {i \in DOMAIN text : text[i] = mark /\ \A j \in i + 1..Len(text) : text[j] # mark}

Before(text, i) == SubSeq(text, 1, i - 1)
After(text, i) == SubSeq(text, i + 1, Len(text))

\* A number as it is printed.
Numeral(n) == CHOOSE d \in Numerals \ Padded : Value[d] = n

Dotted(octets) ==
  <<Numeral(octets[1]), ".", Numeral(octets[2]), ".", Numeral(octets[3]), ".", Numeral(octets[4])>>

\* Of the texts of one IPv6 address the shortest is printed.
Printed(address) ==
  CHOOSE t \in DOMAIN Address : /\ Address[t] = address
                                /\ \A u \in DOMAIN Address : Address[u] = address => Len(t) <= Len(u)

LoopbackAddress == "::1"

\* Four decimal numbers of one octet without leading zeros.
Ipv4(text) ==
  LET parts == Split(text, ".")
  IN IF /\ Len(parts) = 4
        /\ \A i \in DOMAIN parts : Len(parts[i]) = 1 /\ parts[i][1] \in Numerals \ Padded
        /\ \A i \in DOMAIN parts : Value[parts[i][1]] < 256
     THEN {[i \in 1..4 |-> Value[parts[i][1]]]} ELSE {}
==============================================================================
