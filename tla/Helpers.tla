------------------------------ MODULE Helpers ------------------------------
(***************************************************************************)
(* The text functions the services are built on, as operators on sequences *)
(* of characters or bytes: util_cgi.c, the parser of an upload's body in   *)
(* upload_cgi.c, base64.c, and the blocks, padding and rounds of des.c.    *)
(* Offsets count from 0 as in C; reading at the length gives NUL.  A       *)
(* behaviour spells one text out, so that its states are all texts of each *)
(* kind up to a length, and the properties compare what the functions make *)
(* of the text with what they are for.                                     *)
(***************************************************************************)
EXTENDS Integers, Sequences, SequencesExt, FiniteSetsExt

CONSTANTS
    MaxBytes, MaxPlain, MaxName, MaxPairs, MaxContent
                 \* the length each kind of text is spelled out to

VARIABLES kind, text

vars == <<kind, text>>

NUL == "NUL"
None == -1              \* the NULL pointer
NotFound == <<"-1">>    \* the key is not there, value is left alone
Unknown == <<"?">>      \* what is read beyond the end of a string

at(s, i) == IF i < Len(s) THEN s[i + 1] ELSE NUL

(* the characters from offset i up to and without offset j *)
Cut(s, i, j) == SubSeq(s, i + 1, j)

FirstIn(S) == IF S = {} THEN None ELSE Min(S)

Occurs(s, i, sub) == i + Len(sub) <= Len(s) /\ Cut(s, i, i + Len(sub)) = sub

(* strstr and strchr of the C library, from offset i on *)
strstr(s, i, sub) == FirstIn({j \in i .. Len(s) : Occurs(s, j, sub)})
-----------------------------------------------------------------------------
(* util_cgi.c *)

trim_space(s) ==
    LET i == Min({n \in 0 .. Len(s) : at(s, n) # " "})
        j == IF Len(s) - 1 <= i THEN Len(s) - 1
             ELSE Max({n \in i .. Len(s) - 1 : at(s, n) # " " \/ n = i})
    IN  Cut(s, i, j + 1)

(* mutant: the last place where the substring fits is not tried *)
memstrShort(full_data, len, substr) ==
    IF len <= 0 \/ substr = <<>> THEN None
    ELSE FirstIn({i \in 0 .. len - Len(substr) - 1 : Occurs(full_data, i, substr)})

memstr(full_data, len, substr) ==
    IF len <= 0 \/ substr = <<>> THEN None
    ELSE FirstIn({i \in 0 .. len - Len(substr) : Occurs(full_data, i, substr)})

(* mutant: the value does not end at # *)
query_parse_key_valueWhole(query, key) ==
    LET found == strstr(query, 0, key)
        temp  == found + Len(key) + 1
    IN  CASE found = None -> NotFound
          [] found # None /\ temp > Len(query) -> Unknown
          [] OTHER -> Cut(query, temp, Min({n \in temp .. Len(query) :
                                               at(query, n) \in {NUL, "&"}}))

query_parse_key_value(query, key) ==
    LET found == strstr(query, 0, key)
        temp  == found + Len(key) + 1
    IN  CASE found = None -> NotFound
          [] found # None /\ temp > Len(query) -> Unknown
          [] OTHER -> Cut(query, temp, Min({n \in temp .. Len(query) :
                                               at(query, n) \in {NUL, "#", "&"}}))

(* mutant: the first dot counts, not the last *)
get_file_suffixFirst(file_name) ==
    LET dots == {i \in 0 .. Len(file_name) : at(file_name, i) = "."}
        k    == IF dots = {} THEN 0 ELSE Min(dots)
        suf  == Cut(file_name, k + 1, Len(file_name))
    IN  IF at(file_name, k) = "." /\ suf # <<>> THEN suf ELSE <<"null">>

(* k runs back from the end to a dot or to the start *)
get_file_suffix(file_name) ==
    LET k   == Max({i \in 0 .. Len(file_name) : at(file_name, i) = "." \/ i = 0})
        suf == Cut(file_name, k + 1, Len(file_name))
    IN  IF at(file_name, k) = "." /\ suf # <<>> THEN suf ELSE <<"null">>
-----------------------------------------------------------------------------
(***************************************************************************)
(* recv_save_file: the boundary, the quoted fields of the second line, and *)
(* the content up to the boundary.  "user=" and the like are one           *)
(* character here.                                                         *)
(***************************************************************************)
CRLF == <<"\r", "\n">>

Digits == <<"0", "1", "2", "3", "4", "5", "6", "7", "8", "9">>
strtol(s) ==
    FoldLeft(LAMBDA n, c : 10 * n + (CHOOSE d \in 0 .. 9 : Digits[d + 1] = c), 0, s)

(* where the text after key and its quote starts, and the next quote *)
Quoted(body, begin, key) ==
    LET q == strstr(body, begin, <<key>>) + 2
    IN  [value |-> trim_space(Cut(body, q, strstr(body, q, <<"quote">>))),
         end   |-> strstr(body, q, <<"quote">>)]

recv_save_file(body) ==
    LET p        == strstr(body, 0, CRLF)
        boundary == Cut(body, 0, p)
        p2       == strstr(body, p + 2, CRLF)
        user     == Quoted(body, p + 2, "user=")
        filename == Quoted(body, user.end, "filename=")
        md5      == Quoted(body, filename.end, "md5=")
        size     == strstr(body, md5.end, <<"size=">>) + 1
        begin    == strstr(body, p2 + 2, CRLF) + 4
        end      == memstr(Cut(body, begin, Len(body)), Len(body) - begin, boundary)
    IN  IF None \in {p, p2} \/ end = None THEN [ret |-> None]
        ELSE [ret |-> 0, user |-> user.value, filename |-> filename.value,
              md5 |-> md5.value, saved |-> Cut(body, begin, begin + end - 2),
              p_size |-> strtol(Cut(body, size, strstr(body, size, CRLF)))]
-----------------------------------------------------------------------------
(* base64.c: a digit of the alphabet stands for its number, "=" is 64 *)

base64_encode(b) ==
    [n \in 1 .. 4 * ((Len(b) + 2) \div 3) |->
       LET i == 3 * ((n - 1) \div 4)
           x == b[i + 1]
           y == IF i + 1 < Len(b) THEN b[i + 2] ELSE 0
           z == IF i + 2 < Len(b) THEN b[i + 3] ELSE 0
       IN  CASE n % 4 = 1 -> x \div 4
             [] n % 4 = 2 -> (x % 4) * 16 + y \div 16
             [] n % 4 = 3 -> IF i + 1 < Len(b) THEN (y % 16) * 4 + z \div 64 ELSE 64
             [] n % 4 = 0 -> IF i + 2 < Len(b) THEN z % 64 ELSE 64]

(* the byte at place m, from the four digits it is spread over; a character *)
(* that is not in the alphabet leaves 0xFF                                  *)
Decoded(t, m) ==
    LET i == 4 * ((m - 1) \div 3)
        d(n) == IF t[i + n] = 64 THEN 255 ELSE t[i + n]
    IN  CASE m % 3 = 1 -> ((d(1) * 4) % 256) + ((d(2) \div 16) % 4)
          [] m % 3 = 2 -> (d(2) % 16) * 16 + ((d(3) \div 4) % 16)
          [] m % 3 = 0 -> (d(3) % 4) * 64 + (d(4) % 64)

(* mutant: only the last character is looked at for a "=" *)
base64_decodeOnePad(t) ==
    LET groups == Len(t) \div 4
    IN  [m \in 1 .. 3 * groups - IF groups > 0 /\ t[4 * groups] = 64 THEN 1 ELSE 0 |->
           Decoded(t, m)]

(* a "=" ends it, at the third or the fourth character of a group *)
base64_decode(t) ==
    LET groups == Len(t) \div 4
        last   == Min({g \in 1 .. groups : 64 \in {t[4 * g - 1], t[4 * g]}}
                         \cup {groups})
        less   == IF last = 0 THEN 0
                  ELSE IF t[4 * last - 1] = 64 THEN 2
                  ELSE IF t[4 * last] = 64 THEN 1 ELSE 0
    IN  [m \in 1 .. 3 * last - less |-> Decoded(t, m)]
-----------------------------------------------------------------------------
(***************************************************************************)
(* des.c over words of two bits, a block being two bytes, each a word.  IP *)
(* and FP stand for the bit permutations of desfunc, which are inverse to  *)
(* each other, F for its S-boxes and RoundKey for pc1, the rotations, pc2  *)
(* and cookey.                                                             *)
(***************************************************************************)
Block == 2
Word == 0 .. 3
Keys == 1 .. 3

Xor(a, b) == (((a % 2) + (b % 2)) % 2) + 2 * (((a \div 2) + (b \div 2)) % 2)
IP(b) == <<b[2], Xor(b[1], b[2])>>
FP(b) == <<Xor(b[1], b[2]), b[1]>>
F(w, k, l) == (w * w + 3 * k + w * l) % 4
RoundKey(key, i, half) == (key * (i + 1) + half * i) % 4

(* mutant: DE1 is ignored *)
deskeyForward(key, edf) == [n \in 0 .. 31 |-> RoundKey(key, n \div 2, n % 2)]

(* two longs a round; for DE1 the last round's come first *)
deskey(key, edf) ==
    [n \in 0 .. 31 |-> LET i == n \div 2
                       IN  RoundKey(key, IF edf = "DE1" THEN 15 - i ELSE i, n % 2)]

(* DES_KEYBYTES of the 32 longs are copied; the rest of ek is as it was on *)
(* the stack.  long is sizeof(unsigned long): 4, or 8 where the services   *)
(* are built for x86_64.                                                   *)
DES_KEYBYTES == 128
Copied(kn, stack, long) ==
    [n \in 0 .. 31 |-> IF n < DES_KEYBYTES \div long THEN kn[n] ELSE stack]

(* what turn n of the loop makes of the halves: two of the sixteen rounds *)
Halves == Word \X Word
Turn(keys, n) ==
    [w \in Halves |->
       LET leftt == Xor(w[1], F(w[2], keys[4 * n], keys[4 * n + 1]))
       IN  <<leftt, Xor(w[2], F(leftt, keys[4 * n + 2], keys[4 * n + 3]))>>]

(* the halves change places behind the last round *)
Swap(w) == <<w[2], w[1]>>

desfunc(block, keys) ==
    LET w1 == Turn(keys, 0)[IP(block)]
        w2 == Turn(keys, 1)[w1]
        w3 == Turn(keys, 2)[w2]
        w4 == Turn(keys, 3)[w3]
        w5 == Turn(keys, 4)[w4]
        w6 == Turn(keys, 5)[w5]
        w7 == Turn(keys, 6)[w6]
        w8 == Turn(keys, 7)[w7]
    IN  FP(Swap(w8))

(* myic_DESEncrypt, myic_DESDecrypt: block by block *)
myic_DES(data, keys) ==
    [n \in 1 .. Block * (Len(data) \div Block) |->
       LET b == Block * ((n - 1) \div Block)
       IN  desfunc(<<data[b + 1], data[b + 2]>>, keys)[n - b]]

CW_dataPadAdd(s) ==
    LET padLen == Block - (Len(s) % Block) IN s \o [i \in 1 .. padLen |-> padLen]

DesEnc(s, key, stack, long) ==
    myic_DES(CW_dataPadAdd(s), Copied(deskey(key, "EN0"), stack, long))

DesDec(s, key, stack, long) ==
    LET plain   == myic_DES(s, Copied(deskey(key, "DE1"), stack, long))
        padChar == Last(plain)
    IN  IF Len(s) % Block # 0 \/ padChar \notin 1 .. Block THEN [ret |-> 20]
        ELSE [ret |-> 0, data |-> SubSeq(plain, 1, Len(plain) - padChar)]
-----------------------------------------------------------------------------
(* what the pages send *)

Key == <<"c", "m">>
Pairs == {<<"x">>, Key, <<"x">> \o Key} \X {<<>>, <<"a">>, Key}
Boundary == <<"-", "-", "a">>
Quote(s) == <<"quote">> \o s \o <<"quote", ";">>

Query(pairs) ==
    FlattenSeq([i \in DOMAIN pairs |->
       (IF i = 1 THEN <<>> ELSE <<"&">>) \o pairs[i][1] \o <<"=">> \o pairs[i][2]])

Body(user, filename, md5, digits, content) ==
    Boundary \o CRLF \o <<"disposition", "user=">> \o Quote(user)
      \o <<"filename=">> \o Quote(filename) \o <<"md5=">> \o Quote(md5)
      \o <<"size=">> \o digits \o CRLF \o <<"type">> \o CRLF \o CRLF
      \o content \o CRLF \o Boundary

Alphabet ==
    [bytes |-> {0, 65, 150, 255}, plain |-> Word, name |-> {".", "a", "b"},
     pairs |-> Pairs, content |-> {"\r", "\n", "-", "a"}]
Bound ==
    [bytes |-> MaxBytes, plain |-> MaxPlain, name |-> MaxName, pairs |-> MaxPairs,
     content |-> MaxContent]

Init == kind \in DOMAIN Alphabet /\ text = <<>>

Spell ==
    /\ Len(text) < Bound[kind]
    /\ \E c \in Alphabet[kind] : text' = Append(text, c)
    /\ UNCHANGED kind

Done == Len(text) = Bound[kind] /\ UNCHANGED vars

Next == Spell \/ Done

Spec == Init /\ [][Next]_vars
-----------------------------------------------------------------------------
(* base64_decode returns the bytes base64_encode was given, from four      *)
(* digits for every three bytes begun.                                     *)
Base64RoundTrip ==
    kind = "bytes" =>
       /\ base64_decode(base64_encode(text)) = text
       /\ Len(base64_encode(text)) = 4 * ((Len(text) + 2) \div 3)

(***************************************************************************)
(* DesDec returns what DesEnc was given whatever lies on the stack, where  *)
(* the 128 bytes that are copied are all 32 keys: every length is padded   *)
(* and found again, and DE1 runs the rounds backwards.  Where a long has 8 *)
(* bytes, as on x86_64, every text is lost for some contents of the stack. *)
(***************************************************************************)
ReadBack(key, long) ==
    \A here, there \in {0, 3} :
       DesDec(DesEnc(text, key, here, long), key, there, long) =
          [ret |-> 0, data |-> text]

DesInverts ==
    kind = "plain" =>
       \A key \in Keys, long \in {4, 8} :
          ReadBack(key, long) <=> 32 * long <= DES_KEYBYTES

(* get_file_suffix returns what follows the last dot, if anything does.    *)
SuffixExact ==
    LET suf == get_file_suffix(text) IN
    kind = "name" =>
       IF suf # <<"null">>
       THEN /\ "." \notin ToSet(suf)
            /\ IsSuffix(<<".">> \o suf, text)
       ELSE "." \in ToSet(text) => Last(text) = "."

(***************************************************************************)
(* query_parse_key_value returns the value of the first pair with the key, *)
(* and -1 if there is none, as long as the key is part of no other key and *)
(* no value before: it is looked for as a substring.                       *)
(***************************************************************************)
QueryValue ==
    LET has(pair) == pair[1] = Key \/ pair[2] = Key \/ pair[1] = <<"x">> \o Key
        first     == FirstIn({i \in DOMAIN text : has(text[i])})
    IN
    kind = "pairs" =>
       \A end \in {<<>>, <<"#", "a">>} :
          LET value == query_parse_key_value(Query(text) \o end, Key) IN
             /\ first = None => value = NotFound
             /\ first # None /\ text[first][1] = Key => value = text[first][2]

(***************************************************************************)
(* recv_save_file saves exactly the content sent, also one that looks like *)
(* line ends or the start of a boundary, and reads the fields trimmed, for *)
(* every content that does not contain the boundary.                       *)
(***************************************************************************)
UploadParsed ==
    kind = "content" /\ strstr(text, 0, Boundary) = None =>
       \A name \in {<<"a">>, <<" ", "a", " ", "b">>, <<" ">>},
          digits \in {<<"7">>, <<"1", "0">>},
          end \in {<<>>, <<"-", "-", "\r", "\n">>} :
          recv_save_file(Body(<<"a">>, name, <<"b", " ">>, digits, text) \o end) =
             [ret |-> 0, user |-> <<"a">>, md5 |-> <<"b">>, saved |-> text,
              filename |-> CASE name = <<"a">> -> name
                             [] name = <<" ">> -> <<>>
                             [] OTHER -> <<"a", " ", "b">>,
              p_size |-> IF digits = <<"7">> THEN 7 ELSE 10]
=============================================================================
