--------------------------- MODULE IpAddressText ---------------------------
(***************************************************************************)
(* IpAddress::parse and toString (core/husarnet/ipaddress.cpp): the text   *)
(* of an address, as it comes from the API, the identity file, the license *)
(* and the constants of the program.  parse() reads it as an IPv4 address  *)
(* first and, if that fails, from the start again as an IPv6 address: one  *)
(* action is one turn of a loop of husarnet_ip4addr_aton or                *)
(* husarnet_ip6addr_aton.                                                  *)
(*                                                                         *)
(* The texts are the spellings of some addresses that the comments of the  *)
(* two functions and RFC 4291 allow, and some that are none.  An address   *)
(* is its eight 16-bit blocks; an IPv4 address is mapped.  The numbers are *)
(* below 2^28 and the blocks of at most four digits: the code keeps no     *)
(* more than 32 bits of a number, and lets a longer block spill over.      *)
(***************************************************************************)
EXTENDS Integers, Sequences, FiniteSetsExt, SequencesExt

CONSTANTS
    Block,   \* the values of a block of the IPv6 addresses
    Octet    \* the values of an octet, after the first, of the IPv4 addresses

VARIABLES
    meant,   \* the address that has been spelled
    text,
    phase,   \* which function and loop is running
    s,       \* position in the text
    v4,      \* husarnet_ip4addr_aton: parts, val, base
    v6,      \* husarnet_ip6addr_aton: blocks, current_block_index and value, zero_blocks
    result

textVars == <<meant, text, phase, s, v4, v6, result>>

-----------------------------------------------------------------------------
Hex == <<"0", "1", "2", "3", "4", "5", "6", "7", "8", "9", "a", "b", "c", "d", "e", "f">>
Upper == <<"0", "1", "2", "3", "4", "5", "6", "7", "8", "9", "A", "B", "C", "D", "E", "F">>
isdigit(c) == \E i \in 1..10 : Hex[i] = c
isxdigit(c) == \E i \in 1..16 : c \in {Hex[i], Upper[i]}
DigitValue(c) == (CHOOSE i \in 1..16 : c \in {Hex[i], Upper[i]}) - 1

IsMappedV4(a) == SubSeq(a, 1, 6) = <<0, 0, 0, 0, 0, 65535>>
Invalid == <<16383, 0, 0, 0, 0, 0, 0, 0>>  \* IpAddress{}

Number(n, base, width) == [i \in 1..width |-> Hex[((n \div base^(width - i)) % base) + 1]]
Digits(base) == CASE base = 16 -> 7 [] base = 10 -> 9 [] base = 8 -> 10  \* for numbers below 2^28
Shortest(n, base) == Number(n, base, Min({k \in 1..Digits(base) : base^k > n}))
Joined(words, sep) ==
    FoldLeft(LAMBDA done, w : IF done = <<>> THEN w ELSE done \o <<sep>> \o w, <<>>, words)
Octets(a) == <<a[7] \div 256, a[7] % 256, a[8] \div 256, a[8] % 256>>

toString(a) ==
    IF IsMappedV4(a) THEN Joined([i \in 1..4 |-> Shortest(Octets(a)[i], 10)], ".")
    ELSE Joined([i \in 1..8 |-> Number(a[i], 16, 4)], ":")

-----------------------------------------------------------------------------
(***************************************************************************)
(* The spellings of an address.                                            *)
(***************************************************************************)
Words(a, from, to) == Joined([i \in 1..(to - from + 1) |-> Shortest(a[from + i - 1], 16)], ":")
Capitals(word) == [i \in 1..Len(word) |->
                     IF isxdigit(word[i]) THEN Upper[DigitValue(word[i]) + 1] ELSE word[i]]

\* The blocks from zeros[1] to zeros[2], all zero, as "::".
Compressed(a) ==
    {Words(a, 1, zeros[1] - 1) \o <<":", ":">> \o Words(a, zeros[2] + 1, 8) :
        zeros \in {r \in (1..8) \X (1..8) : r[1] <= r[2] /\ \A j \in r[1]..r[2] : a[j] = 0}}
V6Spellings(a) == {toString(a), Words(a, 1, 8), Capitals(Words(a, 1, 8))} \cup Compressed(a)

\* "Values are specified as for C: 0x=hex, 0=octal, 1-9=decimal", in the formats
\* a.b.c.d, a.b.c (c of 16 bits), a.b (b of 24 bits) and a.
InC(n) == {Shortest(n, 10), <<"0">> \o Shortest(n, 8), <<"0", "x">> \o Shortest(n, 16)}
Formats(o) == {o, <<o[1], o[2], o[3] * 256 + o[4]>>, <<o[1], (o[2] * 256 + o[3]) * 256 + o[4]>>,
               <<((o[1] * 256 + o[2]) * 256 + o[3]) * 256 + o[4]>>}
V4Spellings(a) ==
    UNION {{Joined(w, ".") : w \in {x \in [1..Len(f) -> UNION {InC(f[i]) : i \in 1..Len(f)}] :
                                      \A i \in 1..Len(f) : x[i] \in InC(f[i])}} : f \in Formats(Octets(a))}

V4Addresses == {<<0, 0, 0, 0, 0, 65535, 2560 + b, c * 256 + d>> : b, c, d \in Octet}  \* 10.b.c.d

\* Texts of no address: a block too few or too many, three colons, a fifth part, a
\* part too large for its place, something behind the last.
Dotted(parts) == Joined([i \in 1..Len(parts) |-> Shortest(parts[i], 10)], ".")
Malformed ==
    UNION {{Words(a, 1, 7), Words(a, 1, 8) \o <<":">> \o Words(a, 1, 1),
            Words(a, 1, 3) \o <<":", ":", ":">> \o Words(a, 4, 6)} : a \in [1..8 -> Block]}
    \cup {Dotted(<<10, d, d, d, d>>) : d \in Octet} \cup {Dotted(<<256, d, d, d>>) : d \in Octet}
    \cup {Dotted(<<10, 256, d>>) : d \in Octet} \cup {Dotted(<<10, d, 65536>>) : d \in Octet}
    \cup {Dotted(<<10, d, d, d>>) \o <<".">> : d \in Octet} \cup {<<>>}

TextInit ==
    /\ \/ meant \in [1..8 -> Block] /\ text \in V6Spellings(meant)
       \/ meant \in V4Addresses /\ text \in V4Spellings(meant) \cup V6Spellings(meant)
       \/ meant = Invalid /\ text \in Malformed
    /\ phase = "number" /\ s = 1
    /\ v4 = [parts |-> <<>>, val |-> 0, base |-> 10]
    /\ v6 = [blocks |-> <<>>, value |-> 0, zero_blocks |-> 0]
    /\ result = Invalid

-----------------------------------------------------------------------------
At(i) == IF i <= Len(text) THEN text[i] ELSE "end"

Done(r) == phase' = "done" /\ result' = r /\ UNCHANGED <<s, v4, v6>>

\* The first loop of husarnet_ip6addr_aton.
ZeroBlocks == 8 - Cardinality({i \in 1..Len(text) : text[i] = ":"
                                 /\ \A j \in 1..i : text[j] = ":" \/ isxdigit(text[j])})

Fails4 ==
    /\ phase' = "block" /\ s' = 1
    /\ v6' = [v6 EXCEPT !.zero_blocks = ZeroBlocks]
    /\ UNCHANGED <<v4, result>>

(***************************************************************************)
(* husarnet_ip4addr_aton                                                   *)
(***************************************************************************)
\* The prefix of a number tells its base.
ip4Number ==
    /\ phase = "number"
    /\ IF ~isdigit(At(s)) THEN Fails4
       ELSE LET hex == At(s) = "0" /\ At(s + 1) \in {"x", "X"}
                octal == At(s) = "0" /\ ~hex IN
            /\ v4' = [v4 EXCEPT !.val = 0, !.base = IF hex THEN 16 ELSE IF octal THEN 8 ELSE 10]
            /\ s' = s + (IF hex THEN 2 ELSE IF octal THEN 1 ELSE 0)
            /\ phase' = "digits"
            /\ UNCHANGED <<v6, result>>
    /\ UNCHANGED <<meant, text>>

IsDigitOf(base, c) == isdigit(c) \/ (base = 16 /\ isxdigit(c))

ip4Digit ==
    /\ phase = "digits" /\ IsDigitOf(v4.base, At(s))
    /\ v4' = [v4 EXCEPT !.val = @ * v4.base + DigitValue(At(s))]
    /\ s' = s + 1
    /\ UNCHANGED <<meant, text, phase, v6, result>>

ip4Dot ==
    /\ phase = "digits" /\ At(s) = "."
    /\ IF Len(v4.parts) >= 3 THEN Fails4
       ELSE /\ v4' = [v4 EXCEPT !.parts = Append(@, v4.val)]
            /\ s' = s + 1 /\ phase' = "number"
            /\ UNCHANGED <<v6, result>>
    /\ UNCHANGED <<meant, text>>

\* The address according to the number of parts: the last takes what is left of the
\* 32 bits, cut into 16-bit halves.
Parts == v4.parts
FitsParts ==
    /\ \A i \in 1..Len(Parts) : Parts[i] <= 255
    /\ Len(Parts) > 0 => v4.val < 256^(4 - Len(Parts))
Mapped ==
    LET all == [i \in 1..4 |-> IF i <= Len(Parts) THEN Parts[i]
                               ELSE (v4.val \div 256^(4 - i)) % 256]
    IN  <<0, 0, 0, 0, 0, 65535, all[1] * 256 + all[2], all[3] * 256 + all[4]>>

ip4End ==
    /\ phase = "digits" /\ ~IsDigitOf(v4.base, At(s)) /\ At(s) # "."
    /\ IF At(s) \notin {"end", " "} \/ ~FitsParts THEN Fails4 ELSE Done(Mapped)
    /\ UNCHANGED <<meant, text>>

(***************************************************************************)
(* husarnet_ip6addr_aton                                                   *)
(***************************************************************************)
ip6Digit ==
    /\ phase = "block" /\ isxdigit(At(s))
    /\ v6' = [v6 EXCEPT !.value = @ * 16 + DigitValue(At(s))]
    /\ s' = s + 1
    /\ UNCHANGED <<meant, text, phase, v4, result>>

Zeros(n) == [i \in 1..n |-> 0]

\* A colon ends a block; a second one stands for the blocks that are missing.
ZerosOffByOne == v6.zero_blocks - 1  \* wrong on purpose: one block short
ZerosMissing == v6.zero_blocks

ip6Colon ==
    /\ phase = "block" /\ At(s) = ":"
    /\ LET double == At(s + 1) = ":"
           zeros == IF double THEN ZerosMissing ELSE 0
           blocks == Append(v6.blocks, v6.value) \o Zeros(zeros) IN
       IF Len(blocks) > 7 \/ (double /\ At(s + 2) = ":") THEN Done(Invalid)
       ELSE /\ v6' = [blocks |-> blocks, value |-> 0,
                      zero_blocks |-> IF double THEN 0 ELSE v6.zero_blocks]
            /\ s' = s + (IF double THEN 2 ELSE 1)
            /\ UNCHANGED <<phase, v4, result>>
    /\ UNCHANGED <<meant, text>>

ip6End ==
    /\ phase = "block" /\ ~isxdigit(At(s)) /\ At(s) # ":"
    /\ LET blocks == Append(v6.blocks, v6.value) IN
       Done(IF Len(blocks) = 8 THEN blocks ELSE Invalid)
    /\ UNCHANGED <<meant, text>>

TextNext ==
    \/ ip4Number \/ ip4Digit \/ ip4Dot \/ ip4End
    \/ ip6Digit \/ ip6Colon \/ ip6End

-----------------------------------------------------------------------------
\* parse() makes of every spelling of an address that address: what toString wrote,
\* every choice of the zeros that "::" leaves out, one block or all, at either end
\* or in the middle, and the formats of IPv4, none of which is taken for IPv6 or the
\* other way round; and of a malformed text none.
EverySpelling == phase = "done" => result = meant
=============================================================================
