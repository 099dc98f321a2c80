------------------------------ MODULE Vsnprintf ------------------------------
(***************************************************************************)
(* _vsnprintf and _vprintf of printf.c for one caller: what a format and   *)
(* its arguments become, character of the format by character, in the two  *)
(* passes, the first of which only counts. The same in all three ports.    *)
(*                                                                         *)
(* A format is a sequence of items, each with its characters and the kind  *)
(* of conversion it is meant to be; "bad" is none the code knows. The code *)
(* sees the characters only. Characters are numbers, as char is.           *)
(***************************************************************************)
EXTENDS Integers, FiniteSets, Sequences, SequencesExt

CONSTANTS
    Items,      \* items formats are made of, [chars, kind]
    MaxItems,   \* bound: items of a format
    Numbers,    \* numeric arguments
    Strings,    \* string arguments, sequences of characters
    Pointers,   \* what the address of a string may be, read as a number
    BYTES,      \* sizeof(long)
    SIZE        \* sizeof(out_buf)

Least == -(2 ^ (8 * BYTES - 1))

NUL == 0
Percent == 37
Minus == 45
Zero == 48      \* '0'
LetterA == 97   \* 'a', the first hex digit that is a letter
Old == 90       \* what out_buf holds from earlier calls
c_ == 99
d_ == 100
l_ == 108
p_ == 112
s_ == 115
x_ == 120

(* The letter of each kind of conversion.                                    *)
Letter == [c |-> c_, d |-> d_, p |-> p_, s |-> s_, x |-> x_]

(* An item is written as its kind says: text without '%', or '%', any number *)
(* of 'l', and the letter.                                                   *)
Written(item) ==
    LET chars == item.chars
    IN \/ item.kind = "bad"
       \/ item.kind = "text" /\ \A n \in 1 .. Len(chars) : chars[n] # Percent
       \/ /\ item.kind \in DOMAIN Letter
          /\ Len(chars) > 1 /\ chars[1] = Percent /\ chars[Len(chars)] = Letter[item.kind]
          /\ \A n \in 2 .. Len(chars) - 1 : chars[n] = l_

ASSUME VsnprintfAssumption ==
    /\ BYTES \in Nat \ {0}
    /\ SIZE \in Nat \ {0}
    /\ MaxItems \in Nat
    /\ Numbers \union Pointers \subseteq Least .. -Least - 1
    /\ Strings \subseteq Seq(1 .. 255)
    /\ \A item \in Items : item.chars \in Seq(1 .. 255) /\ Written(item)

Conversion == {c_, d_, p_, s_, x_}
Bytes == 0 .. SIZE - 1

(* What _vsnprintf has found after n characters: whether it is in a          *)
(* conversion, and the conversions before. After a '%' everything up to the  *)
(* first letter it knows is passed over.                                     *)
Found(chars) ==
    LET found[n \in 0 .. Len(chars)] ==
            IF n = 0 THEN [format |-> FALSE, list |-> <<>>]
            ELSE IF ~found[n - 1].format
            THEN [format |-> chars[n] = Percent, list |-> found[n - 1].list]
            ELSE IF chars[n] \in Conversion
            THEN [format |-> FALSE, list |-> Append(found[n - 1].list, chars[n])]
            ELSE found[n - 1]
    IN found

Conversions(chars) == Found(chars)[Len(chars)].list

Number(v) == [num |-> v]
String(v) == [text |-> v]
IsString(a) == "text" \in DOMAIN a

(* The arguments the compiler accepts for a conversion. *)
Fitting(conversion) ==
    IF conversion = s_ THEN {String(v) : v \in Strings} ELSE {Number(v) : v \in Numbers}

Characters(list) == FlattenSeq([e \in DOMAIN list |-> list[e].chars])

VARIABLES
    items, args,    \* the call: printf(s, ...)
    pass,           \* count, write, then puts; overflow; fault: reads through no pointer
    s,              \* the character of the format it is at
    format, longarg, pos,   \* locals of _vsnprintf
    arg,            \* the argument vl is at
    res,            \* length found by the first pass
    out_buf

call == <<items, args>>
vars == <<call, pass, s, format, longarg, pos, arg, res, out_buf>>

fmt == Characters(items)

Init ==
    /\ \E len \in 0 .. MaxItems : items \in [1 .. len -> Items]
    /\ LET needs == Conversions(fmt)
       IN /\ args \in [DOMAIN needs -> UNION {Fitting(needs[a]) : a \in DOMAIN needs}]
          /\ \A a \in DOMAIN needs : args[a] \in Fitting(needs[a])
    /\ pass = "count"
    /\ s = 1
    /\ format = FALSE /\ longarg = FALSE
    /\ pos = 0
    /\ arg = 1
    /\ res = 0
    /\ out_buf = [b \in Bytes |-> IF b = SIZE - 1 THEN NUL ELSE Old]

-----------------------------------------------------------------------------
(* The digits. *)

(* Mutant: ten is taken for a decimal digit. *)
HexTextTen(num) ==
    [h \in 1 .. 2 * BYTES |->
        LET digit == (num \div 2 ^ (4 * (2 * BYTES - h))) % 16
        IN IF digit <= 10 THEN Zero + digit ELSE LetterA + digit - 10]

(* num >> 4*i & 0xF, from the highest digit of a long down. *)
HexText(num) ==
    [h \in 1 .. 2 * BYTES |->
        LET digit == (num \div 2 ^ (4 * (2 * BYTES - h))) % 16
        IN IF digit < 10 THEN Zero + digit ELSE LetterA + digit - 10]

Abs(num) == IF num < 0 THEN -num ELSE num

(* num /= 10, k times.                                                       *)
Tenths(num) ==
    LET quotient[k \in 0 .. 3 * BYTES] == IF k = 0 THEN num ELSE quotient[k - 1] \div 10
    IN quotient

(* One, and one more for each nn /= 10 that leaves something.                *)
DigitCount(num) == 1 + Cardinality({k \in 1 .. 3 * BYTES : Tenths(Abs(num))[k] # 0})

(* '0' + num % 10 from the last digit up; % has the sign of num. *)
DecimalText(num) ==
    [h \in 1 .. DigitCount(num) |->
        LET digit == Tenths(Abs(num))[DigitCount(num) - h] % 10
        IN IF num < 0 THEN Zero - digit ELSE Zero + digit]

(* -num overflows for the least number: it stays what it is, or the compiler *)
(* works without the sign.                                                   *)
Negated(num) == IF num = Least THEN {num, -num} ELSE {-num}

-----------------------------------------------------------------------------
(* _vsnprintf *)

Scanning == pass \in {"count", "write"} /\ s <= Len(fmt)

(* pos moves on, out[] is written where there is one and below n = res + 1.  *)
Emit(text) ==
    /\ pos' = pos + Len(text)
    /\ out_buf' = [b \in Bytes |-> IF pass = "write" /\ b \in pos .. pos + Len(text) - 1 /\ b <= res
                                   THEN text[b - pos + 1] ELSE out_buf[b]]

Converted ==
    /\ format' = FALSE /\ longarg' = FALSE
    /\ s' = s + 1
    /\ UNCHANGED <<call, pass, res>>

Literal ==
    /\ Scanning /\ ~format /\ fmt[s] # Percent
    /\ Emit(<<fmt[s]>>)
    /\ s' = s + 1
    /\ UNCHANGED <<call, pass, format, longarg, arg, res>>

FormatStarts ==
    /\ Scanning /\ ~format /\ fmt[s] = Percent
    /\ format' = TRUE
    /\ s' = s + 1
    /\ UNCHANGED <<call, pass, longarg, pos, arg, res, out_buf>>

LongPrefix ==
    /\ Scanning /\ format /\ fmt[s] = l_
    /\ longarg' = TRUE
    /\ s' = s + 1
    /\ UNCHANGED <<call, pass, format, pos, arg, res, out_buf>>

(* va_arg(vl, long): a string there is its address. *)
TakeNumber(num) ==
    /\ num \in IF IsString(args[arg]) THEN Pointers ELSE {args[arg].num}
    /\ arg' = arg + 1

(* %x, and %p with 0x before it. *)
ConvertHex ==
    /\ Scanning /\ format /\ fmt[s] \in {x_, p_}
    /\ \E num \in Numbers \union Pointers :
        /\ TakeNumber(num)
        /\ Emit((IF fmt[s] = p_ THEN <<Zero, x_>> ELSE <<>>) \o HexText(num))
    /\ Converted

(* Mutant: the sign is written and not counted. *)
ConvertDecimalUncounted ==
    /\ Scanning /\ format /\ fmt[s] = d_
    /\ \E num \in Numbers \union Pointers :
        /\ TakeNumber(num)
        /\ IF num < 0 THEN \E m \in Negated(num) : Emit(IF pass = "count" THEN DecimalText(m)
                                                        ELSE <<Minus>> \o DecimalText(m))
           ELSE Emit(DecimalText(num))
    /\ Converted

ConvertDecimal ==
    /\ Scanning /\ format /\ fmt[s] = d_
    /\ \E num \in Numbers \union Pointers :
        /\ TakeNumber(num)
        /\ IF num < 0 THEN \E m \in Negated(num) : Emit(<<Minus>> \o DecimalText(m))
           ELSE Emit(DecimalText(num))
    /\ Converted

(* A number taken for a pointer finds some text, or what StringFault finds.  *)
ConvertString ==
    /\ Scanning /\ format /\ fmt[s] = s_
    /\ \E text \in Strings : (IsString(args[arg]) => args[arg] = String(text)) /\ Emit(text)
    /\ arg' = arg + 1
    /\ Converted

(* A number taken for a pointer to where nothing can be read. *)
StringFault ==
    /\ Scanning /\ format /\ fmt[s] = s_
    /\ ~IsString(args[arg])
    /\ pass' = "fault"
    /\ UNCHANGED <<call, s, format, longarg, pos, arg, res, out_buf>>

(* %c: va_arg stands behind the test, so that an argument is taken only      *)
(* where it is written.                                                      *)
ConvertChar ==
    /\ Scanning /\ format /\ fmt[s] = c_
    /\ IF pass = "write" /\ pos <= res
       THEN \E num \in Numbers \union Pointers : TakeNumber(num) /\ Emit(<<num % 256>>)
       ELSE Emit(<<NUL>>) /\ UNCHANGED arg
    /\ Converted

(* Mutant: an unknown letter takes an argument. *)
SkipUnknownTaking ==
    /\ Scanning /\ format /\ fmt[s] \notin Conversion \union {l_}
    /\ arg' = arg + 1
    /\ s' = s + 1
    /\ UNCHANGED <<call, pass, format, longarg, pos, res, out_buf>>

(* A letter that is no conversion, a second '%' too: format stays set. *)
SkipUnknown ==
    /\ Scanning /\ format /\ fmt[s] \notin Conversion \union {l_}
    /\ s' = s + 1
    /\ UNCHANGED <<call, pass, format, longarg, pos, arg, res, out_buf>>

-----------------------------------------------------------------------------
(* _vprintf *)

(* The first pass had out = NULL; the second starts with the same va_list.   *)
Measured ==
    /\ pass = "count" /\ s > Len(fmt)
    /\ res' = pos
    /\ pass' = IF pos + 1 >= SIZE THEN "overflow" ELSE "write"
    /\ s' = 1
    /\ format' = FALSE /\ longarg' = FALSE
    /\ pos' = 0
    /\ arg' = 1
    /\ UNCHANGED <<call, out_buf>>

(* Mutant: nothing is done when the text was longer than expected. *)
TerminatedIfFits ==
    /\ pass = "write" /\ s > Len(fmt)
    /\ out_buf' = IF pos <= res THEN [out_buf EXCEPT ![pos] = NUL] ELSE out_buf
    /\ pass' = "puts"
    /\ UNCHANGED <<call, s, format, longarg, pos, arg, res>>

Terminated ==
    /\ pass = "write" /\ s > Len(fmt)
    /\ out_buf' = [out_buf EXCEPT ![IF pos <= res THEN pos ELSE res] = NUL]
    /\ pass' = "puts"
    /\ UNCHANGED <<call, s, format, longarg, pos, arg, res>>

Next ==
    \/ Literal \/ FormatStarts \/ LongPrefix
    \/ ConvertHex \/ ConvertDecimal \/ ConvertString \/ StringFault \/ ConvertChar \/ SkipUnknown
    \/ Measured \/ Terminated

Spec == Init /\ [][Next]_vars

-----------------------------------------------------------------------------
(* Properties. *)

(* Every %c passes an argument the first pass has not seen: a conversion of  *)
(* another kind after it would be measured with the wrong argument.          *)
Aligned ==
    LET list == Conversions(fmt)
    IN \A a, b \in DOMAIN list : a < b /\ list[a] = c_ => list[b] = c_

WellFormed == \A e \in DOMAIN items : items[e].kind # "bad"

(* What the reader of a format expects of item e. *)
Argument(e) == args[1 + Cardinality({i \in 1 .. e - 1 : items[i].kind \notin {"text", "bad"}})]

Decimal ==
    LET decimal[v \in 0 .. -Least] == IF v < 10 THEN <<Zero + v>> ELSE Append(decimal[v \div 10], Zero + (v % 10))
    IN decimal

(* The digits of the number as an unsigned one. *)
Hex(v) ==
    [h \in 1 .. 2 * BYTES |->
        LET rest == (v % 2 ^ (8 * BYTES)) \div 2 ^ (4 * (2 * BYTES - h))
        IN (rest % 16) + (IF rest % 16 > 9 THEN LetterA - 10 ELSE Zero)]

(* The characters that may stand for those of a text; the digits of the least *)
(* number are as far below '0' as they should be above, or right.            *)
Exactly(text) == [n \in DOMAIN text |-> {text[n]}]
EitherSign(text) == [n \in DOMAIN text |-> {text[n], 2 * Zero - text[n]}]

DecimalExpected(num) ==
    CASE num >= 0 -> Exactly(Decimal[num])
      [] num < 0 /\ num # Least -> Exactly(<<Minus>> \o Decimal[-num])
      [] num = Least -> <<{Minus}>> \o EitherSign(Decimal[-num])

Expected(e) ==
    LET num == Argument(e).num
    IN CASE items[e].kind = "text" -> Exactly(items[e].chars)
         [] items[e].kind = "d" -> DecimalExpected(num)
         [] items[e].kind = "x" -> Exactly(Hex(num))
         [] items[e].kind = "p" -> Exactly(<<Zero, x_>> \o Hex(num))
         [] items[e].kind = "s" -> Exactly(Argument(e).text)
         [] items[e].kind = "c" -> Exactly(<<num % 256>>)

Reference == FlattenSeq([e \in DOMAIN items |-> Expected(e)])

(* The locals keep their types; va_arg never goes past the arguments.        *)
TypeOK ==
    /\ pass \in {"count", "write", "puts", "overflow", "fault"}
    /\ s \in 1 .. Len(fmt) + 1
    /\ {format, longarg} \subseteq BOOLEAN
    /\ {pos, res} \subseteq Nat
    /\ arg \in 1 .. Len(args) + 1
    /\ out_buf \in [Bytes -> Nat]

(* Whatever the format, uart_puts finds a terminator where the first pass    *)
(* expected it or before, and nothing behind it is written, also when the    *)
(* second pass goes another way than the first (printf.c:96-100, 110).       *)
InsideBuffer ==
    pass = "puts" =>
        /\ res + 1 < SIZE
        /\ \E b \in 0 .. res : out_buf[b] = NUL
        /\ \A b \in res + 1 .. SIZE - 2 : out_buf[b] = Old

(* Both passes find the same length, for unknown conversions and the least   *)
(* number too: what they print is neither cut nor followed by what was in    *)
(* the buffer (the comparison of pos with n in every conversion).            *)
PassesAgree == pass = "puts" /\ Aligned => pos = res

(* A well-formed format prints what it says, each item with its own argument, *)
(* with two exceptions. Where a conversion of another kind follows a %c, what *)
(* is printed stops at the length the first pass found, which skipped the    *)
(* argument of the %c (printf.c:76-77): it is the beginning of the text, or  *)
(* all of it. The least number cannot be made positive: its digits may come  *)
(* out below '0' (printf.c:43, 53).                                          *)
PrintsReference ==
    pass = "puts" /\ WellFormed =>
        LET shown == IF Len(Reference) <= res THEN Len(Reference) ELSE res
        IN /\ Aligned => res = Len(Reference)
           /\ \A b \in 0 .. shown - 1 : out_buf[b] \in Reference[b + 1]
           /\ out_buf[shown] = NUL
==============================================================================
