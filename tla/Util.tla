-------------------------------- MODULE Util --------------------------------
(***************************************************************************)
(* The pure functions of Util (source/http.hpp) and the query string of    *)
(* HttpContext::ParseHttpLine, on texts: sequences of bytes.  They are     *)
(* compared with what they should compute on every text that can be typed  *)
(* from an alphabet, and on every list of parameters.                      *)
(***************************************************************************)
EXTENDS Integers, Sequences, SequencesExt, FiniteSetsExt

CONSTANTS Alphabet,   \* the bytes that are typed
          MaxText,    \* bound of the model: length of a text
          Words,      \* texts that are names or values of parameters
          MaxParams   \* bound of the model: parameters of a query

Byte == 0..255

ASSUME AlphabetAssumption == Alphabet \subseteq Byte /\ Words \subseteq Seq(Byte)

ASSUME BoundAssumption == MaxText \in Nat /\ MaxParams \in Nat

VARIABLES text,    \* what was typed
          params   \* or the parameters put together

(* Named after the module: proofs are about it together with HttpServer.   *)
UtilVars == <<text, params>>

UtilInit == text = <<>> /\ params = <<>>

Type == /\ params = <<>>
        /\ Len(text) < MaxText
        /\ \E c \in Alphabet : text' = Append(text, c)
        /\ UNCHANGED params

AddParam == /\ text = <<>>
            /\ Len(params) < MaxParams
            /\ \E key, val \in Words : params' = Append(params, <<key, val>>)
            /\ UNCHANGED text

UtilNext == Type \/ AddParam

UtilSpec == UtilInit /\ [][UtilNext]_UtilVars

-----------------------------------------------------------------------------
Percent == 37
And     == 38
Plus    == 43
Dot     == 46
Slash   == 47
Equal   == 61
Space   == 32

Digit(c) == c \in 48..57
Upper(c) == c \in 65..90
Lower(c) == c \in 97..122

Unreserved(c) == c \in {Dot, 45, 95, 126} \/ Digit(c) \/ Upper(c) \/ Lower(c)

Hex(d) == IF d < 10 THEN 48 + d ELSE 97 + d - 10

\* (Mutant) The digits are printed with "%x".
CodeUnpadded(c) == IF c < 16 THEN <<Percent, Hex(c)>>
                   ELSE <<Percent, Hex(c \div 16), Hex(c % 16)>>

(* snprintf of a char, which is signed, in a buffer with room for two      *)
(* digits: those of a negative number begin with ff.                       *)
Code(c) == IF c >= 128 THEN <<Percent, Hex(15), Hex(15)>>
           ELSE <<Percent, Hex(c \div 16), Hex(c % 16)>>

Encoded(c, convert_space_to_plus) ==
    IF Unreserved(c) THEN <<c>>
    ELSE IF convert_space_to_plus /\ c = Space THEN <<Plus>>
    ELSE Code(c)

UrlEncode(t, convert_space_to_plus) ==
    FlattenSeq([i \in DOMAIN t |-> Encoded(t[i], convert_space_to_plus)])

HexToI(c) == IF Upper(c) THEN c - 65 + 10
             ELSE IF Lower(c) THEN c - 97 + 10
             ELSE IF Digit(c) THEN c - 48
             ELSE -1

(* A sum that is no byte is cut to one. *)
UrlDecode(t, convert_plus_to_space) ==
    LET from[i \in 1 .. Len(t) + 1] ==
          IF i > Len(t) THEN <<>>
          ELSE IF t[i] = Percent /\ i + 2 <= Len(t)
          THEN <<(16 * HexToI(t[i + 1]) + HexToI(t[i + 2])) % 256>> \o from[i + 3]
          ELSE <<IF convert_plus_to_space /\ t[i] = Plus THEN Space ELSE t[i]>> \o from[i + 1]
    IN  from[1]

(* src.find(deli, offset), for a delimiter of one byte; 0 is npos. *)
Find(t, deli, offset) ==
    LET found == {i \in offset .. Len(t) : t[i] = deli}
    IN  IF found = {} THEN 0 ELSE Min(found)

\* (Mutant) Empty pieces are kept.
SplitAll(t, deli) ==
    LET from[offset \in 1 .. Len(t) + 2] ==
          LET pos == Find(t, deli, offset)
          IN  IF offset > Len(t) THEN <<>>
              ELSE IF pos = 0 THEN <<SubSeq(t, offset, Len(t))>>
              ELSE <<SubSeq(t, offset, pos - 1)>> \o from[pos + 1]
    IN  from[1]

Split(t, deli) ==
    LET from[offset \in 1 .. Len(t) + 1] ==
          LET pos == Find(t, deli, offset)
          IN  IF offset > Len(t) THEN <<>>
              ELSE IF pos = 0 THEN <<SubSeq(t, offset, Len(t))>>
              ELSE (IF pos # offset THEN <<SubSeq(t, offset, pos - 1)>> ELSE <<>>)
                   \o from[pos + 1]
    IN  from[1]

Parent == <<Dot, Dot>>

\* (Mutant) The level is looked at when the path has been read.
ValidAtEnd(path) ==
    LET v == Split(path, Slash)
        level[i \in 0 .. Len(v)] ==
          IF i = 0 THEN 0
          ELSE IF v[i] = Parent THEN level[i - 1] - 1 ELSE level[i - 1] + 1
    IN  level[Len(v)] >= 0

(* A level that has been below 0 stays there. *)
ValidPath(path) ==
    LET v == Split(path, Slash)
        level[i \in 0 .. Len(v)] ==
          IF i = 0 THEN 0
          ELSE IF level[i - 1] < 0 THEN level[i - 1]
          ELSE IF v[i] = Parent THEN level[i - 1] - 1 ELSE level[i - 1] + 1
    IN  level[Len(v)] >= 0

(* The rest of ParseHttpLine: SetParam keeps the first value of a key; the *)
(* line is an error, and the rest is not looked at, when "=" is missing.   *)
Refused == [refused |-> TRUE, params |-> <<>>]

\* (Mutant) A second value of a key replaces the first.
SetParamAgain(found, key, val) ==
    Append(SelectSeq(found, LAMBDA p : p[1] # key), <<key, val>>)

SetParam(found, key, val) ==
    IF \E i \in DOMAIN found : found[i][1] = key THEN found ELSE Append(found, <<key, val>>)

(* One round of the loop. *)
ParseParam(got, str) ==
    LET pos == Find(str, Equal, 1)
    IN  IF got.refused \/ pos = 0 THEN Refused
        ELSE [got EXCEPT !.params =
                SetParam(@, UrlDecode(SubSeq(str, 1, pos - 1), TRUE),
                            UrlDecode(SubSeq(str, pos + 1, Len(str)), TRUE))]

ParseQuery(query_string) ==
    LET query_string_arry == Split(query_string, And)
        got[i \in 0 .. Len(query_string_arry)] ==
          IF i = 0 THEN [refused |-> FALSE, params |-> <<>>]
          ELSE ParseParam(got[i - 1], query_string_arry[i])
    IN  got[Len(query_string_arry)]

-----------------------------------------------------------------------------
SevenBit(t) == \A i \in DOMAIN t : t[i] < 128

(* A text of seven-bit bytes survives its way through a request line: it   *)
(* comes back from encoding and decoding as it was, with spaces as plus    *)
(* signs or without (http.hpp:212-274), and no byte of it is a separator   *)
(* in the line, in or before its query (http.hpp:207, "to avoid ambiguity  *)
(* between the query string and special characters").                      *)
EncodingIsSound ==
    \A plus \in BOOLEAN : SevenBit(text) =>
        /\ UrlDecode(UrlEncode(text, plus), plus) = text
        /\ ToSet(UrlEncode(text, plus)) \cap {10, 13, Space, And, Slash, Equal, 63} = {}

(* The runs of bytes other than deli. *)
Runs(t, deli) ==
    {r \in (1 .. Len(t)) \X (1 .. Len(t)) :
        /\ r[1] <= r[2]
        /\ \A i \in r[1] .. r[2] : t[i] # deli
        /\ r[1] = 1 \/ t[r[1] - 1] = deli
        /\ r[2] = Len(t) \/ t[r[2] + 1] = deli}

(* Split gives the non-empty pieces between delimiters, all of them, in    *)
(* their order (http.hpp:151-168).                                         *)
SplitsInRuns ==
    \A deli \in {Slash, And} :
        LET runs   == Runs(text, deli)
            v      == Split(text, deli)
            Place(r) == Cardinality({s \in runs : s[1] <= r[1]})
        IN  /\ Len(v) = Cardinality(runs)
            /\ \A r \in runs : v[Place(r)] = SubSeq(text, r[1], r[2])

(* A path of which no beginning leaves the folder it starts in, ".." going *)
(* up, "." staying and any other name going down, is valid; and a valid    *)
(* path leaves at no point, unless it has a part ".", which the code       *)
(* counts as a name that goes down (http.hpp:322-343): of "./.." nothing   *)
(* is claimed, and ValidPath takes it.                                     *)
ValidIsInside ==
    LET runs == Runs(text, Slash)
        Names(i)  == {r \in runs : r[2] <= i}
        Ups(i)    == {r \in Names(i) : SubSeq(text, r[1], r[2]) = Parent}
        Stays(i)  == {r \in Names(i) : SubSeq(text, r[1], r[2]) = <<Dot>>}
        inside    == \A i \in DOMAIN text :
            2 * Cardinality(Ups(i)) + Cardinality(Stays(i)) <= Cardinality(Names(i))
    IN  /\ inside => ValidPath(text)
        /\ ValidPath(text) =>
                inside \/ \E r \in runs : SubSeq(text, r[1], r[2]) = <<Dot>>

Query == FlattenSeq([i \in DOMAIN params |->
            (IF i = 1 THEN <<>> ELSE <<And>>) \o UrlEncode(params[i][1], TRUE)
            \o <<Equal>> \o UrlEncode(params[i][2], TRUE)])

(* A query made of encoded names and values is parsed into these, the      *)
(* first value of a name, whatever seven-bit signs they contain            *)
(* (http.hpp:565-578).                                                     *)
QueryComesBack ==
    LET got == ParseQuery(Query)
        First(i) == \A j \in 1 .. i - 1 : params[j][1] # params[i][1]
    IN  (\A i \in DOMAIN params : SevenBit(params[i][1]) /\ SevenBit(params[i][2])) =>
        /\ ~got.refused
        /\ ToSet(got.params) = {params[i] : i \in {j \in DOMAIN params : First(j)}}
=============================================================================
