------------------------------ MODULE Response ------------------------------
(***************************************************************************)
(* The search for the body of an answer (api_client.ino).  A text is the   *)
(* sequence of its characters' codes.                                      *)
(***************************************************************************)
EXTENDS Integers, Sequences

CONSTANTS
  SampleChars,  \* the characters texts are made of here
  MaxText       \* length of the longest one

ASSUME TextAssumption == MaxText \in Nat

Texts == UNION {[1 .. n -> SampleChars] : n \in 0 .. MaxText}
Lf == 10
Cr == 13
Space == 32
Dot == 46

\* A place is tried if there is something behind the words searched for there.
\* Mutant: or nothing, the end being reached.
Tried_ToEnd(haystack, needle) == 1 .. Len(haystack) - Len(needle) + 1
Tried(haystack, needle) == 1 .. Len(haystack) - Len(needle)
Found(haystack, needle) ==
  {k \in Tried(haystack, needle) : \A i \in 1 .. Len(needle) : haystack[k + i - 1] = needle[i]}

Ok200 == <<50, 48, 48, Space, 79, 75>>
Blank == <<Cr, Lf, Cr, Lf>>
is_200(haystack) == Found(haystack, Ok200) # {}
\* The offset of the body, from 0; -1 without one or without "200 OK".
find_response(haystack) ==
  LET places == Found(haystack, Blank)
  IN IF places = {} \/ ~is_200(haystack) THEN -1
     ELSE (CHOOSE k \in places : \A j \in places : k <= j) - 1 + Len(Blank)

Statuses == {Ok200, <<52, 48, 52, Space, 78>>}
Headers == {<<>>, <<Cr, Lf, 65>>}
\* Of an answer cut short anywhere, whatever its body, the body is found exactly
\* if at least a byte of it has come and the status is 200 -- or the body says
\* "200 OK" in the status's place, with something behind it.
BodyFound ==
  \A status \in Statuses, header \in Headers,
     text \in Texts \cup {Ok200, Ok200 \o <<Dot>>, Blank \o <<Dot>>} :
    LET answer == status \o header \o Blank \o text
        head == Len(answer) - Len(text)
    IN \A n \in 0 .. Len(answer) :
         find_response(SubSeq(answer, 1, n)) =
           IF n > head /\ (status = Ok200 \/ is_200(SubSeq(text, 1, n - head)))
           THEN head ELSE -1
=============================================================================
