-------------------------------- MODULE Dns --------------------------------
(***************************************************************************)
(* The query for an address and the search for it in an answer (dns.cpp).  *)
(* The length of the query is put into the high byte of its ID, so that    *)
(* the answer says where its records begin.                                *)
(***************************************************************************)
EXTENDS Integers, SequencesExt

CONSTANTS
  HostName,    \* the name asked for, as the sequence of its labels
  Addresses,   \* what servers give as its address,
  Aliases,     \* and as its aliases: names as they are written in a packet
  MaxRecords   \* number of records in the longest answer

Labels(name) == FlattenSeq([k \in DOMAIN name |-> <<Len(name[k])>> \o name[k]]) \o <<0>>
\* The length of the query fits in a byte, and no label looks like a pointer.
ASSUME DnsAssumption ==
  /\ HostName \in Seq(Seq(1 .. 255)) /\ HostName # <<>> /\ Len(Labels(HostName)) < 240
  /\ \A k \in DOMAIN HostName : Len(HostName[k]) \in 1 .. 63
  /\ Addresses \subseteq [1 .. 4 -> 0 .. 255]
  /\ Aliases \subseteq Seq(0 .. 255) /\ \A alias \in Aliases : Len(alias) < 256
  /\ MaxRecords \in Nat

dnsRequest(name, tid) ==
  LET question == Labels(name) \o <<0, 1, 0, 1>>
  IN <<12 + Len(question), tid, 1, 0, 0, 1, 0, 0, 0, 0, 0, 0>> \o question

\* Where a name that begins at p ends: a pointer is two bytes; otherwise the
\* first zero after p ends it.  What lies behind the packet does not matter.
NameEnd(msg, p) ==
  LET zeros == {k \in p + 1 .. Len(msg) : msg[k] = 0}
  IN IF p > Len(msg) THEN p + 1
     ELSE IF msg[p] >= 64 THEN p + 2
     ELSE IF zeros = {} THEN Len(msg) + 1
     ELSE 1 + CHOOSE k \in zeros : \A j \in zeros : k <= j

\* Mutant: the last record has to be followed by something.
TooShort_ByOne(msg, t) == t + 14 >= Len(msg) + 1
TooShort(msg, t) == t + 14 > Len(msg) + 1
\* The address of the first record of type A and length 4, from p on.
FindA(msg, p) ==
  LET find[q \in Nat] ==
        LET t == NameEnd(msg, q)
        IN IF TooShort(msg, t) THEN <<>>
           ELSE IF msg[t + 1] = 1 /\ msg[t + 9] = 4 THEN SubSeq(msg, t + 10, t + 13)
           ELSE find[t + msg[t + 9] + 10]
  IN find[p]
\* hisip after an answer with our ID and without an error code.
checkForDnsAnswer(msg) == IF msg[4] % 16 # 0 THEN <<>> ELSE FindA(msg, 1 + msg[1])

\* What servers answer (external): the query with the flags of an answer, and
\* records whose owner is a pointer to the question or its whole name.
Owners == {<<192, 12>>, Labels(HostName)}
Records == [owner : Owners, type : {1}, data : Addresses] \cup [owner : Owners, type : {5}, data : Aliases]
Written(r) == r.owner \o <<0, r.type, 0, 1, 0, 0, 1, 44, 0, Len(r.data)>> \o r.data
Answer(records) ==
  [dnsRequest(HostName, 7) EXCEPT ![3] = 129, ![4] = 128]
    \o FlattenSeq([k \in DOMAIN records |-> Written(records[k])])

\* Wherever in the answer the first address is, behind however many aliases and
\* however the records' owners are written, it is the one taken; and without
\* one, none is.
DnsFindsAddress ==
  \A records \in UNION {[1 .. n -> Records] : n \in 0 .. MaxRecords} :
    LET as == {k \in DOMAIN records : records[k].type = 1}
    IN checkForDnsAnswer(Answer(records)) =
         IF as = {} THEN <<>> ELSE records[CHOOSE k \in as : \A j \in as : k <= j].data
=============================================================================
