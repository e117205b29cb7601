------------------------------ MODULE Library ------------------------------
(***************************************************************************)
(* The string and memory routines of the kernel (lib.c) and of the user    *)
(* programs (ece391support.c).  A memory is a function from addresses to   *)
(* character codes; strings end with NUL.                                  *)
(***************************************************************************)
EXTENDS Integers, Sequences, FiniteSetsExt, SequencesExt

CONSTANTS
    UINT,    \* 2^32, the range of an unsigned int
    HEX,     \* hexadecimal digits of one (8)
    ALIGN    \* where arrays start within a word of WORD_BYTES

ASSUME LibraryAssumption ==
    /\ UINT \in Nat \ {0} /\ UINT % 2 = 0
    /\ HEX \in Nat \ {0}
    /\ ALIGN \in Nat

\* Just the numbers below UINT have a numeral of HEX hexadecimal digits.
ASSUME HexAssumption ==
    LET power[k \in 0 .. HEX] == IF k = 0 THEN 1 ELSE 16 * power[k - 1]
    IN UINT = power[HEX]

WORD_BYTES == 4
NUL == 0
NL == 10
SP == 32

\* A string as a memory, and memories with a sequence stored in them.
Literal(s) == [k \in 0 .. Len(s) |-> IF k < Len(s) THEN s[k + 1] ELSE NUL]
Stored(m, at, s) ==
    [k \in DOMAIN m |-> IF k \in at .. at + Len(s) - 1 THEN s[k - at + 1] ELSE m[k]]
Bytes(m, at, n) == [i \in 1 .. n |-> m[at + i - 1]]

-----------------------------------------------------------------------------
(* Strings.                                                                 *)

strlen(m, at) == Min({k \in DOMAIN m : k >= at /\ m[k] = NUL}) - at
StringAt(m, at) == Bytes(m, at, strlen(m, at))

\* Forwards within one memory, to a lower address.
strcpy(m, dst, src) == Stored(m, dst, Append(StringAt(m, src), NUL))

\* Where two strings first differ or end, among the first n characters.
Ends(m, a, s, b, n) ==
    {k \in 0 .. n - 1 : /\ a + k \in DOMAIN m
                        /\ b + k \in DOMAIN s
                        /\ m[a + k] # s[b + k] \/ m[a + k] = NUL}

strncmp(m, a, s, b, n) ==
    LET ends == Ends(m, a, s, b, n) IN
    IF ends = {} THEN 0 ELSE m[a + Min(ends)] - s[b + Min(ends)]

strcmp(m, a, s, b) == strncmp(m, a, s, b, Cardinality(DOMAIN m))

-----------------------------------------------------------------------------
(* Memory: bytes up to a word boundary, whole words, and the rest.          *)

Leading(at, n) == Min({n, (-(at + ALIGN)) % WORD_BYTES})

\* Mutant: the bytes after the last whole word are forgotten.
WholeWords(at, n) ==
    LET rest == n - Leading(at, n) IN
    Leading(at, n) + WORD_BYTES * (rest \div WORD_BYTES)

\* How many bytes are written.
Written(at, n) ==
    LET rest == n - Leading(at, n) IN
    Leading(at, n) + WORD_BYTES * (rest \div WORD_BYTES) + (rest % WORD_BYTES)

memset(m, at, c, n) ==
    LET end == at + Written(at, n) IN
    [k \in DOMAIN m |-> IF at <= k /\ k < end THEN c ELSE m[k]]
memcpy(m, at, s, from, n) ==
    LET end == at + Written(at, n) IN
    [k \in DOMAIN m |-> IF at <= k /\ k < end THEN s[from + k - at] ELSE m[k]]

-----------------------------------------------------------------------------
(* Numbers.                                                                 *)

\* Mutant: the two characters in the middle are not exchanged.
StrrevShort(s) ==
    [i \in 1 .. Len(s) |-> IF i \in {Len(s) \div 2, Len(s) \div 2 + 1} THEN s[i]
                           ELSE s[Len(s) + 1 - i]]

strrev(s) == Reverse(s)
lookup(i) == IF i < 10 THEN 48 + i ELSE 55 + i

\* Digits are produced from the lowest up and then reversed.
itoa(value, radix) ==
    LET digits[v \in 0 .. value] ==
          IF v = 0 THEN <<>> ELSE <<lookup(v % radix)>> \o digits[v \div radix]
    IN IF value = 0 THEN <<48>> ELSE strrev(digits[value])

\* %#x: zeros before the digits, HEX characters in all.
Padded(s) == [i \in 1 .. HEX - Len(s) |-> 48] \o s

\* An unsigned word, as %d takes it.
Signed(value) ==
    IF value >= UINT \div 2 THEN <<45>> \o itoa(UINT - value, 10) ELSE itoa(value, 10)

PERCENT == 37
SHARP == 35
Conversion(spec, alternate, arg) ==
    CASE spec = 120 -> IF alternate THEN Padded(itoa(arg, 16)) ELSE itoa(arg, 16)  \* x
      [] spec = 117 -> itoa(arg, 10)                                               \* u
      [] spec = 100 -> Signed(arg)                                                 \* d
      [] spec = 99  -> <<arg % 256>>                                               \* c
      [] spec = 115 -> arg                                                         \* s

\* What has been printed of a format, which argument is next, and whether a
\* conversion has begun and a # been seen.  An unknown conversion prints nothing.
PrintStart == [text |-> <<>>, next |-> 1, mode |-> "text"]
PrintStep(s, c, args) ==
    CASE s.mode = "text" /\ c # PERCENT -> [s EXCEPT !.text = Append(@, c)]
      [] s.mode = "text" /\ c = PERCENT -> [s EXCEPT !.mode = "conv"]
      [] s.mode # "text" /\ c = PERCENT -> [s EXCEPT !.text = Append(@, c), !.mode = "text"]
      [] s.mode # "text" /\ c = SHARP -> [s EXCEPT !.mode = "alt"]
      [] s.mode # "text" /\ c \in {99, 100, 115, 117, 120} ->
           [text |-> s.text \o Conversion(c, s.mode = "alt", args[s.next]),
            next |-> s.next + 1, mode |-> "text"]
      [] OTHER -> [s EXCEPT !.mode = "text"]

printf(format, args) ==
    LET print[b \in 0 .. Len(format)] ==
          IF b = 0 THEN PrintStart ELSE PrintStep(print[b - 1], format[b], args)
    IN print[Len(format)].text

=============================================================================
